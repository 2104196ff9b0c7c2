---------------------------- MODULE OneAtATime ----------------------------
(***************************************************************************)
(* What the scan guard promises: at most one caller is inside the guarded  *)
(* section, and a caller that finds it free may enter.                     *)
(***************************************************************************)
CONSTANT Workers

VARIABLE inside

Init == inside = {}

Enter(w) == inside = {} /\ inside' = {w}

Leave(w) == inside = {w} /\ inside' = {}

Next == \E w \in Workers : Enter(w) \/ Leave(w)

Spec == Init /\ [][Next]_inside
=============================================================================
