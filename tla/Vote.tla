--------------------------------- MODULE Vote ---------------------------------
(***************************************************************************)
(* What an honest authority promises the council                           *)
(* (docs/directory.md: "signing another body for that epoch or going back  *)
(* to an older epoch is refused, including after a restart"): it releases  *)
(* signatures over one body of an epoch at most, however many commands     *)
(* share its key.  A signature once released can not be taken back.        *)
(***************************************************************************)

CONSTANTS
    Epochs,  \* consensus epochs
    Bodies   \* consensus bodies that can be built for an epoch

VARIABLE released  \* the votes, epoch and body, whose signature is public

Init == released = {}

Conflicts(v, w) == v.epoch = w.epoch /\ v.body # w.body

\* A signature over v is released.
Release(v) ==
    /\ \A w \in released : ~Conflicts(v, w)
    /\ released' = released \cup {v}

Next == \E v \in [epoch : Epochs, body : Bodies] : Release(v)

Spec == Init /\ [][Next]_released

===============================================================================
