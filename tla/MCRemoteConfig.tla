--------------------------- MODULE MCRemoteConfig ---------------------------
(* Two identities; a configuration with a scanner this build lacks, one    *)
(* without, one out of bounds; two answers of an older server.             *)
EXTENDS RemoteConfig

Fresh == [scanners |-> {"net", "new"}, paths |-> "opt", size |-> 2]
Plain == [scanners |-> {"net"}, paths |-> "srv", size |-> 3]
Wild == [scanners |-> {"net"}, paths |-> "root", size |-> 2]

MCScanners == {"net", "new"}
MCPaths == {"home", "opt", "srv", "root"}
MCKnown == {"net"}
MCConfigs == {Fresh, Plain, Wild}
MCValid == {Fresh, Plain}
MCLegacy == {[scanners |-> {"net"}, paths |-> Unset], [scanners |-> Unset, paths |-> "opt"]}
MCLocal == [scanners |-> {}, paths |-> "home", size |-> 1]

=============================================================================
