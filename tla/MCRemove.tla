------------------------------ MODULE MCRemove ------------------------------
(***************************************************************************)
(* Remove on a small instance: the repositories u, u-x (whose URL merely   *)
(* begins like u's) and u/s (which lies below u), one label of u.          *)
(***************************************************************************)
EXTENDS Remove, TLC

CONSTANTS u, ux, us, v, d

MCMatching == [p \in Patterns |-> Names]
MCContents == <<u, d>> :> {1} @@ <<ux, d>> :> {2} @@ <<us, d>> :> {3}

\* "-" sorts before "/", and "/" before "@".
MCOrder ==
    <<u, NoLabel>> :> 1 @@ <<ux, NoLabel>> :> 2 @@ <<ux, v>> :> 3 @@
    <<us, NoLabel>> :> 4 @@ <<us, v>> :> 5 @@ <<u, v>> :> 6
MCUnder == {<<u, us>>}

\* Updates of each repository, of a label of u, and with a reset of u-x.
Plain == [url |-> u, label |-> NoLabel, ref |-> AnyRef,
          checkOnly |-> FALSE, reset |-> FALSE, force |-> FALSE]
MCRequests == [c \in Callers |->
    {Plain, [Plain EXCEPT !.url = us], [Plain EXCEPT !.label = v],
     [Plain EXCEPT !.url = ux, !.reset = TRUE, !.force = TRUE]}]

\* Once u-x is removed, the listing for u reaches u/s, which it stopped before.
MCRemoveReqs ==
    {[repos |-> {u, ux}, packages |-> {}, keep |-> FALSE],
     [repos |-> {u}, packages |-> {1}, keep |-> TRUE]}
=============================================================================
