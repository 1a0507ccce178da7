---------------------------- MODULE MCAuditChain ----------------------------
(* AuditChain on small instances. *)
EXTENDS AuditChain, TLC

\* Entries, processes and organisations are interchangeable.
Symmetry == Permutations(Entries) \cup Permutations(Procs) \cup Permutations(Orgs)

=============================================================================
