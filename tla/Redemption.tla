------------------------------ MODULE Redemption ------------------------------
(***************************************************************************)
(* What a redemption store promises its callers (the RedemptionStore       *)
(* interface of internal/mint/mint.go): a token has at most one holder,    *)
(* the user whose Spend returned nil, until a release of that token or of  *)
(* its whole key epoch is recorded.  Nothing is said of how the claim is   *)
(* stored, how many processes share the store, or what they do when they   *)
(* fail: a failed call may release what it was releasing, and never        *)
(* accepts.                                                                *)
(***************************************************************************)

CONSTANTS
    Procs,      \* users of the store
    Tokens,     \* tokens, verified by the caller before they get here
    Keys,       \* key epochs
    KeyOf,      \* the key epoch of each token
    None        \* no user

VARIABLE holder  \* holder[t]: whose Spend(t) returned nil, until t is released

Init == holder = [t \in Tokens |-> None]

\* Spend(t) returns nil to p.
Accept(p, t) ==
    /\ holder[t] = None
    /\ holder' = [holder EXCEPT ![t] = p]

\* A refund of t takes effect.
Release(t) == holder' = [holder EXCEPT ![t] = None]

\* A retirement of key k takes effect.
ReleaseKey(k) ==
    holder' = [t \in Tokens |-> IF KeyOf[t] = k THEN None ELSE holder[t]]

Next ==
    \/ \E p \in Procs, t \in Tokens : Accept(p, t)
    \/ \E t \in Tokens : Release(t)
    \/ \E k \in Keys : ReleaseKey(k)

Spec == Init /\ [][Next]_holder

===============================================================================
