---------------------------- MODULE ResolveDeps ----------------------------
(***************************************************************************)
(* tools/resolvedeps: workers resolve the input packages at the same time. *)
(* They share the set of prefixes resolved so far, under a lock, and skip  *)
(* the packages that begin with one of them.                               *)
(***************************************************************************)
EXTENDS Import, FiniteSets

CONSTANTS
    Inputs,      \* the packages given to the program
    Repository,  \* the repository URLs Resolve may answer with
    AnswersTo,   \* the answers Resolve may give for each package
    InDatabase,  \* the repositories the server knows
    NumWorkers   \* the -workers flag

ASSUME ResolveDepsAssumption ==
    /\ AnswersTo \in [Inputs -> SUBSET [prefix : Seq(Nat), repository : Repository]]
    /\ NumWorkers \in Nat \ {0}

VARIABLE resolver

NoAnswer == [prefix |-> NoPath, repository |-> "none"]

ResolverStart(filterKnown) ==
    [filterKnown |-> filterKnown,
     step |-> [p \in Inputs |-> "queued"],
     answer |-> [p \in Inputs |-> NoAnswer],
     pfxs |-> {}, printed |-> {}]

ResolverStarts == {ResolverStart(filterKnown) : filterKnown \in BOOLEAN}

ResolverInit == resolver \in ResolverStarts

At(p, step) == p \in Inputs /\ resolver.step[p] = step
Active == {p \in Inputs : resolver.step[p] \in {"asks", "checks"}}

Seen(p) == \E pfx \in resolver.pfxs : HasPrefix(p, pfx)

\* A worker takes a package; run waits while all workers are busy.
Takes(p) ==
    /\ At(p, "queued") /\ Cardinality(Active) < NumWorkers
    /\ resolver' = [resolver EXCEPT !.step[p] = IF Seen(p) THEN "skipped" ELSE "asks"]

\* The server resolves the package; its prefix hides what begins with it.
Resolves(p, answer) ==
    /\ At(p, "asks")
    /\ resolver' = IF resolver.filterKnown
       THEN [resolver EXCEPT !.pfxs = @ \cup {answer.prefix}, !.answer[p] = answer,
                !.step[p] = "checks"]
       ELSE [resolver EXCEPT !.pfxs = @ \cup {answer.prefix}, !.answer[p] = answer,
                !.step[p] = "printed", !.printed = @ \cup {answer.repository}]

\* Mutant of ResolveFails: a package that failed hides others as well.
ResolveFailsHiding(p) ==
    /\ At(p, "asks")
    /\ resolver' = [resolver EXCEPT !.step[p] = "failed", !.pfxs = @ \cup {p}]

ResolveFails(p) ==
    /\ At(p, "asks")
    /\ resolver' = [resolver EXCEPT !.step[p] = "failed"]

\* With -filter-known, a repository is printed if the server does not know it.
StatusAnswers(p) ==
    /\ At(p, "checks")
    /\ resolver' = IF resolver.answer[p].repository \in InDatabase
       THEN [resolver EXCEPT !.step[p] = "known"]
       ELSE [resolver EXCEPT !.step[p] = "printed",
                !.printed = @ \cup {resolver.answer[p].repository}]

StatusFails(p) ==
    /\ At(p, "checks")
    /\ resolver' = [resolver EXCEPT !.step[p] = "unknown"]

ResolverNext == \E p \in Inputs :
    \/ Takes(p) \/ ResolveFails(p) \/ StatusAnswers(p) \/ StatusFails(p)
    \/ \E answer \in AnswersTo[p] : Resolves(p, answer)

ResolverSpec == ResolverInit /\ [][ResolverNext]_resolver
-----------------------------------------------------------------------------
Ended == \A p \in Inputs : resolver.step[p] \notin {"queued", "asks", "checks"}

\* What became of the repository of a package that was resolved.
Accounted(p) ==
    \/ resolver.step[p] = "printed" /\ resolver.answer[p].repository \in resolver.printed
    \/ resolver.step[p] \in {"known", "unknown"}

\* At the end, a package that is neither reported nor failed was left out for a
\* package that begins alike and whose own repository is accounted for: workers
\* that decide on prefixes others are adding never leave out both of two
\* packages (resolvedeps.go:52-96).
SkipsCovered ==
    Ended => \A p \in Inputs :
        \/ Accounted(p) \/ resolver.step[p] = "failed"
        \/ resolver.step[p] = "skipped" /\ \E q \in Inputs :
               Accounted(q) /\ HasPrefix(p, resolver.answer[q].prefix)
=============================================================================
