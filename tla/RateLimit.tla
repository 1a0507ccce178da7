----------------------------- MODULE RateLimit ------------------------------
(***************************************************************************)
(* The sliding-window limiter of the API (api/ratelimit.go), which the     *)
(* gateway has two copies of (workflow/ratelimit.go,                       *)
(* identity/issue_http.go), and its use by the login route, which asks two *)
(* of them one after the other (api/ratelimit_login.go).                   *)
(*                                                                         *)
(* Time is counted in seconds, and a moment is kept as its age: an age     *)
(* that has reached the window stays there, as no test tells it from an    *)
(* older one.  A call of Allow holds the mutex, so it is one step.         *)
(***************************************************************************)
EXTENDS Naturals, Sequences, FiniteSets

CONSTANTS
    Buckets,    \* the limiters of the route, each with the key of the caller
    Limit,      \* [Buckets -> Nat]
    Window,     \* [Buckets -> Nat], in seconds
    Routes,     \* for each limited route, the limiters it asks, in order
    NoPromise   \* no caller of the bucket has been refused since it was let by

ASSUME LimitAssumption ==
    /\ Limit \in [Buckets -> Nat] /\ Window \in [Buckets -> Nat \ {0}]
    /\ Routes \subseteq Seq(Buckets)
    /\ \A route \in Routes : \A i, j \in DOMAIN route : route[i] = route[j] => i = j
    /\ NoPromise \notin Nat

VARIABLES
    attempts,   \* the ages of the attempts a limiter has kept, oldest first
    admitted,   \* history: the ages of the attempts it has let by
    promised    \* history: seconds until a refused caller may come again, or none

limitVars == <<attempts, admitted, promised>>

\* The ages below the window.  They are kept oldest first, so the ones that
\* have reached it are at the front.
Expired(s, w) == Cardinality({i \in DOMAIN s : s[i] >= w})

Recent(s, w) == SubSeq(s, Expired(s, w) + 1, Len(s))

Kept(b) == Recent(attempts[b], Window[b])

Allowed(b) == Limit[b] > 0 /\ Len(Kept(b)) < Limit[b]

\* Retry-After: until the oldest attempt ages out, at least a second.
RetryAfter(b) ==
    IF Limit[b] = 0 THEN Window[b]
    ELSE IF Window[b] > Kept(b)[1] THEN Window[b] - Kept(b)[1] ELSE 1

\* What Allow leaves of the attempts of a bucket: a refused one is not kept.
After_CountsRefused(b) == Append(Kept(b), 0)

After(b) == IF Limit[b] = 0 THEN attempts[b]
            ELSE IF Allowed(b) THEN Append(Kept(b), 0) ELSE Kept(b)

\* The limiters asked, in order, by a call: the next is asked when the one
\* before allows.  A login without an address asks for no account.
Asked(route) == {i \in DOMAIN route : \A j \in 1..(i-1) : Allowed(route[j])}

AskedBuckets(route) == {route[i] : i \in Asked(route)}

Call(route) ==
    LET A == AskedBuckets(route)
    IN  /\ attempts' = [b \in Buckets |-> IF b \in A THEN After(b) ELSE attempts[b]]
        /\ admitted' = [b \in Buckets |-> IF b \in A /\ Allowed(b)
                                          THEN Append(admitted[b], 0) ELSE admitted[b]]
        /\ promised' = [b \in Buckets |->
               IF b \notin A THEN promised[b]
               ELSE IF Allowed(b) THEN NoPromise
               ELSE IF promised[b] = NoPromise \/ RetryAfter(b) < promised[b]
                    THEN RetryAfter(b) ELSE promised[b]]

\* A second passes.
Older(s, w) == [i \in DOMAIN s |-> IF s[i] < w THEN s[i] + 1 ELSE s[i]]

Tick ==
    /\ attempts' = [b \in Buckets |-> Older(attempts[b], Window[b])]
    /\ admitted' = [b \in Buckets |-> Recent(Older(admitted[b], Window[b]), Window[b])]
    /\ promised' = [b \in Buckets |->
           IF promised[b] \in {0, NoPromise} THEN promised[b] ELSE promised[b] - 1]

LimitInit ==
    /\ attempts = [b \in Buckets |-> <<>>]
    /\ admitted = [b \in Buckets |-> <<>>]
    /\ promised = [b \in Buckets |-> NoPromise]

LimitNext == Tick \/ \E route \in Routes : Call(route)

LimitSpec == LimitInit /\ [][LimitNext]_limitVars

-----------------------------------------------------------------------------
(* Correctness.                                                            *)

\* No limiter lets more than its limit by in any stretch of the window, and
\* a caller that is refused and waits as long as it is told is let by, unless
\* another took the place (ratelimit.go:36-40): its own refused attempts,
\* however many, do not put it off.
LimiterFair ==
    \A b \in Buckets :
        /\ Len(admitted[b]) <= Limit[b]
        /\ Limit[b] > 0 /\ promised[b] = 0 => Allowed(b)

=============================================================================
