------------------------------ MODULE Programs ------------------------------
(***************************************************************************)
(* The programs that hold no state of the server: the two kinds of clients *)
(* (module Client), and those parts of the server and of the tools that    *)
(* work alone on what they are given.  One of them runs.                   *)
(***************************************************************************)
EXTENDS Client, Closure, Ranking, Quads, Loader, Resolve, ResolveDeps, Remote

AllJobs == {"enumerates", "receives", "closure", "ranking", "quads", "loader", "resolve",
            "resolvedeps", "remote"}
ASSUME ProgramsAssumption == Jobs \subseteq AllJobs

aloneVars == <<closure, ranking, encoding, loader, resolving, resolver, remote>>
programVars == <<clientVars, aloneVars>>

\* A program that does not run stands still at one of its initial states.
Prepared(name, starts) == IF program = name THEN starts ELSE {CHOOSE s \in starts : TRUE}

ProgramsInit ==
    /\ ClientInit
    /\ closure \in Prepared("closure", ClosureStarts)
    /\ ranking \in Prepared("ranking", RankingStarts)
    /\ encoding \in Prepared("quads", EncodingStarts)
    /\ loader \in Prepared("loader", LoaderStarts)
    /\ resolving \in Prepared("resolve", ResolvingStarts)
    /\ resolver \in Prepared("resolvedeps", ResolverStarts)
    /\ remote \in Prepared("remote", RemoteStarts)

Computing(name, A) == program = name /\ A /\ UNCHANGED clientVars

Computes ==
    \/ /\ Computing("closure", ClosureNext)
       /\ UNCHANGED <<ranking, encoding, loader, resolving, resolver, remote>>
    \/ /\ Computing("ranking", RankingNext)
       /\ UNCHANGED <<closure, encoding, loader, resolving, resolver, remote>>
    \/ /\ Computing("quads", EncodingNext)
       /\ UNCHANGED <<closure, ranking, loader, resolving, resolver, remote>>
    \/ /\ Computing("loader", LoaderNext)
       /\ UNCHANGED <<closure, ranking, encoding, resolving, resolver, remote>>
    \/ /\ Computing("resolve", ResolvingNext)
       /\ UNCHANGED <<closure, ranking, encoding, loader, resolver, remote>>
    \/ /\ Computing("resolvedeps", ResolverNext)
       /\ UNCHANGED <<closure, ranking, encoding, loader, resolving, remote>>
    \/ /\ Computing("remote", RemoteNext)
       /\ UNCHANGED <<closure, ranking, encoding, loader, resolving, resolver>>

ProgramsNext == \/ ClientNext /\ UNCHANGED aloneVars
                \/ Computes

\* A program that computes alone goes on while it can.
ProgramsSpec ==
    /\ ProgramsInit /\ [][ProgramsNext]_programVars
    /\ ClientFairness /\ WF_programVars(Computes)
-----------------------------------------------------------------------------
\* The pages of a query come to an end although others keep changing rows and
\* one row may have more items than a page holds (reverse.go:66-70); so does the
\* closure, although paths it has visited are put on the work list again, within
\* a round and after it (transdeps.go:52-73).
ProgramsEnd ==
    /\ <>(program # "enumerates" \/ query.step \in {"done", "failed"})
    /\ <>(program # "closure" \/ closure.step = "done")
=============================================================================
