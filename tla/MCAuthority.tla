------------------------------ MODULE MCAuthority ------------------------------
(***************************************************************************)
(* Instances of Signing and Listing for TLC.  Both are about one authority;*)
(* Listing takes a signature as one step, which Signing opens, and beyond  *)
(* that they share no state, so each behaviour belongs to one of them.     *)
(***************************************************************************)
EXTENDS Signing, Listing, TLC

CONSTANTS c1, r1, r2, b1, b2, relay, s1, s2

VARIABLE half  \* the part that moves: "signing" or "listing"

Document(published, expires) == [relay |-> relay, published |-> published, expires |-> expires]

\* One relay that publishes for too short a time to be listed in any epoch but
\* the first, and then for longer.
Published == {Document(1, 5), Document(2, 9)}

AuthorityInit ==
    /\ Init /\ ListingInit
    /\ half \in {"signing", "listing"} /\ (half = "signing" => file = {})

AuthorityNext ==
    \/ half = "signing" /\ Next /\ UNCHANGED <<listingVars, half>>
    \/ half = "listing" /\ ListingNext /\ UNCHANGED <<vars, half>>

AuthoritySpec == AuthorityInit /\ [][AuthorityNext]_<<vars, listingVars, half>>

SubmissionSymmetry == Permutations(Submissions)
===============================================================================
