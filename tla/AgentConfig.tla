---------------------------- MODULE AgentConfig -----------------------------
(***************************************************************************)
(* The configuration an operator gives an endpoint agent: PUT              *)
(* /v1/gateway/agents/{id}/config (api/agents.go) over the row of          *)
(* agent_configs (store/agent_configs.sql.go).  How the agent applies it   *)
(* is RemoteConfig.                                                        *)
(*                                                                         *)
(* A PUT checks the agent, reads the row, merges the fields it was sent    *)
(* and writes the whole row: three statements outside a transaction, with  *)
(* other PUTs and the deletion of the agent in between.  The five fields   *)
(* are two here: a number, and the list of paths, which has a rule of its  *)
(* own.                                                                    *)
(***************************************************************************)
EXTENDS Naturals

CONSTANTS
    Puts,       \* PUTs under way at the same time
    Intervals,  \* values of a field within its bounds
    DefaultInterval

VARIABLES
    agent,      \* the row of gateway_agents is there
    config,     \* the row of agent_configs
    put,        \* the PUTs under way
    sent,       \* history: the values the fields had at first or were sent
    legacy      \* history: the paths were a legacy list at first

configVars == <<agent, config, put, sent, legacy>>

\* Lists of paths: none (the default), a folder, and one the full rules refuse
\* (a whole-profile folder, the default of old).
Paths == {"none", "folder", "profiles"}

NoRow == [interval |-> "absent", paths |-> "absent"]

NoPut == [stage |-> "idle"]

AgentConfigDefaults == [interval |-> DefaultInterval, paths |-> "none"]

IsProfileParentScanPath(p) == p = "profiles"

\* ValidateModelScanPathsFull, on lists that pass the rules every PUT is held to.
ValidateModelScanPathsFull(p) == ~IsProfileParentScanPath(p)

\* UpdateAgentConfig, up to the check that the agent is of the caller's
\* organisation.  A value out of bounds, or a path that is never accepted,
\* is refused before: it is no value here.
BeginPut(p, interval, paths) ==
    /\ put[p] = NoPut
    /\ agent
    /\ put' = [put EXCEPT ![p] = [stage |-> "owned", interval |-> interval, paths |-> paths]]
    /\ sent' = [interval |-> sent.interval \cup ({interval} \ {"absent"}),
                paths |-> sent.paths \cup ({paths} \ {"absent"})]
    /\ UNCHANGED <<agent, config, legacy>>

\* The fields that were sent over the ones that were read.
Merge(existing, d) ==
    [interval |-> IF d.interval # "absent" THEN d.interval ELSE existing.interval,
     paths    |-> IF d.paths # "absent" THEN d.paths ELSE existing.paths]

\* sameStringSet: the full rules are for lists that change.
PathsAccepted(existing, d) ==
    d.paths \in {"absent", existing.paths} \/ ValidateModelScanPathsFull(d.paths)

Merged(p, existing) ==
    put' = [put EXCEPT ![p] =
               IF PathsAccepted(existing, put[p])
               THEN [stage |-> "merged", row |-> Merge(existing, put[p])] ELSE NoPut]

\* Only a row that is not there stands for the defaults (the agent went
\* meanwhile: a trigger gives every agent a row).
GetAgentConfig == IF config = NoRow THEN AgentConfigDefaults ELSE config

\* The read of the row, and the rules that depend on it.
ReadConfig(p) ==
    /\ put[p].stage = "owned"
    /\ Merged(p, GetAgentConfig)
    /\ UNCHANGED <<agent, config, sent, legacy>>

\* The read fails: the PUT is refused with 500.
ReadFails_Defaults(p) ==
    /\ put[p].stage = "owned"
    /\ Merged(p, AgentConfigDefaults)
    /\ UNCHANGED <<agent, config, sent, legacy>>

ReadFails(p) ==
    /\ put[p].stage = "owned"
    /\ put' = [put EXCEPT ![p] = NoPut]
    /\ UNCHANGED <<agent, config, sent, legacy>>

\* UpsertAgentConfig writes for an agent that is still there, and otherwise
\* matches no row; it may also fail.
UpsertAgentConfig(p) ==
    /\ put[p].stage = "merged"
    /\ config' \in {IF agent THEN put[p].row ELSE config, config}
    /\ put' = [put EXCEPT ![p] = NoPut]
    /\ UNCHANGED <<agent, sent, legacy>>

\* DeleteAgent: the cascade takes the row.
DropAgent ==
    /\ agent
    /\ agent' = FALSE /\ config' = NoRow
    /\ UNCHANGED <<put, sent, legacy>>

ConfigInit ==
    /\ agent = TRUE
    /\ config \in [interval : Intervals, paths : Paths]
    /\ put = [p \in Puts |-> NoPut]
    /\ sent = [interval |-> {config.interval}, paths |-> {config.paths}]
    /\ legacy = (config.paths = "profiles")

ConfigNext ==
    \/ \E p \in Puts :
          \/ \E i \in Intervals \cup {"absent"}, l \in Paths \cup {"absent"} : BeginPut(p, i, l)
          \/ ReadConfig(p)
          \/ ReadFails(p)
          \/ UpsertAgentConfig(p)
    \/ DropAgent

-----------------------------------------------------------------------------
(* Correctness.                                                            *)

\* A field that no request sent keeps its value, whatever fails and whoever
\* else writes: what is stored was there at first or was sent
\* (agents.go:770-772).  A list the full rules refuse is only ever stored
\* where one was (agents.go:784-789), and a deleted agent has no row.
ConfigKept ==
    /\ config # NoRow => config.interval \in sent.interval /\ config.paths \in sent.paths
    /\ config.paths = "profiles" => legacy
    /\ ~agent => config = NoRow

\* A row that may be stored: every field was sent or there at first.
Storable(row) ==
    /\ row.interval \in sent.interval
    /\ row.paths \in sent.paths \cap Paths
    /\ row.paths = "profiles" => legacy

\* The PUTs under way: their fields are among the ones sent, and what they
\* have merged may be stored for as long as there is an agent to store it for.
PutInv(d) ==
    \/ d = NoPut
    \/ /\ d.stage = "owned"
       /\ d = [stage |-> "owned", interval |-> d.interval, paths |-> d.paths]
       /\ d.interval \in sent.interval \cup {"absent"}
       /\ d.paths \in (sent.paths \cap Paths) \cup {"absent"}
    \/ /\ d.stage = "merged"
       /\ d = [stage |-> "merged", row |-> d.row]
       /\ agent => Storable(d.row)

\* What makes ConfigKept stay true.
ConfigInv ==
    /\ agent \in BOOLEAN /\ legacy \in BOOLEAN
    /\ put = [p \in Puts |-> put[p]]
    /\ agent => Storable(config)
    /\ ~agent => config = NoRow
    /\ \A p \in Puts : PutInv(put[p])

=============================================================================
