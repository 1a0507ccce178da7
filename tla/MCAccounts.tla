---- MODULE MCAccounts ----
(* Instance of Accounts for TLC. *)
EXTENDS Accounts, TLC

Symmetric ==
    Permutations(Users) \cup Permutations(SetupTokens)
        \cup Permutations(Requests) \cup Permutations(RefreshTokens)

====
