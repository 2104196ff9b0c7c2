------------------------------- MODULE Update -------------------------------
(***************************************************************************)
(* Server.Update (service/update.go) over both databases: check the        *)
(* repository, and if it has moved, or the caller insists, optionally      *)
(* remove its packages from the graph, clone it and store its packages.    *)
(* Calls of several callers interleave at every access to a database; the  *)
(* remote, the clone and the loader are asked between those accesses.      *)
(***************************************************************************)
EXTENDS Poll

CONSTANTS
    Packages,    \* import paths, ordered as numbers
    Contents,    \* the packages of each repository at each commit
    Requests,    \* the requests each caller may make
    ErrorLimit,  \* Options.ErrorLimit
    ReadOnly     \* Options.ReadOnly

UpdateReq == [url : Urls, label : Labels \cup {NoLabel}, ref : Patterns,
              checkOnly : BOOLEAN, reset : BOOLEAN, force : BOOLEAN]

ASSUME UpdateAssumption ==
    /\ Packages \subseteq Nat
    /\ Contents \in [Urls \X Digests -> SUBSET Packages]
    /\ Requests \in [Callers -> SUBSET UpdateReq]
    /\ ErrorLimit \in Nat
    /\ ReadOnly \in BOOLEAN

VARIABLES
    graph,       \* the rows of the dependency graph, by import path
    call         \* the Update calls in progress, by caller

updateVars == <<repoDB, pending, reported, resolved, graph, call>>

\* A row stands for the package as it was in the repository at the commit.
Row == [repo : Urls, digest : Digests]

Call == [req : UpdateReq,
         step : {"check", "checked", "reset", "drop", "clone", "add"},
         needs : BOOLEAN,                \* UpdateRsp.NeedsUpdate
         digest : Digests \cup {NoDigest},  \* UpdateRsp.Digest
         todo : SUBSET Packages]         \* rows to visit, or packages to add

At(c, step) == c \in DOMAIN call /\ call[c].step = step

Goto(c, step, todo) == call' = [call EXCEPT ![c].step = step, ![c].todo = todo]

\* The call returns to its caller, with a result or an error.
Return(c) == call' = Drop(call, c)

-----------------------------------------------------------------------------
UpdateInit == PollInit /\ graph = Empty /\ call = Empty

\* A request is accepted and enters Check; an invalid one changes nothing.
BeginUpdate(c, req) ==
    /\ ~ReadOnly
    /\ ~(req.checkOnly /\ req.force)
    /\ c \notin DOMAIN call
    /\ CheckLoad(c, req.url, req.label, req.ref)
    /\ call' = Put(call, c, [req |-> req, step |-> "check", needs |-> FALSE,
                             digest |-> NoDigest, todo |-> {}])
    /\ UNCHANGED graph

CheckSucceeds(c, name, digest) ==
    /\ At(c, "check")
    /\ HeadAnswers(c, name, digest)
    /\ call' = [call EXCEPT ![c].step = "checked", ![c].digest = digest,
                            ![c].needs = NeedsUpdate(pending[c].stat.digest, digest)]
    /\ UNCHANGED graph

\* An error of Check is returned at once.
CheckErrs(c) ==
    /\ At(c, "check")
    /\ HeadFails(c) \/ CheckAborts(c)
    /\ Return(c)
    /\ UNCHANGED graph

\* CheckResult.Errors is set only where Check also returns an error, and
\* Update has returned by then: here it is zero.
ResultErrors == 0

OverLimit(errors) == ErrorLimit > 0 /\ errors >= ErrorLimit

\* Mutant of MustUpdate: an update happens only by force.
MustUpdateOnlyForced(c) ==
    ~OverLimit(ResultErrors) /\ ~call[c].req.checkOnly /\ call[c].req.force

MustUpdate(c) ==
    /\ ~OverLimit(ResultErrors)
    /\ ~call[c].req.checkOnly
    /\ call[c].needs \/ call[c].req.force

\* Nothing to do, or the repository has failed too often and is removed.
ReturnsUnchanged(c) ==
    /\ At(c, "checked")
    /\ ~MustUpdate(c)
    /\ repoDB' = IF OverLimit(ResultErrors)
                 THEN Drop(repoDB, <<call[c].req.url, call[c].req.label>>) ELSE repoDB
    /\ Return(c)
    /\ UNCHANGED <<pending, reported, resolved, graph>>

UpdateStarts(c) ==
    /\ At(c, "checked")
    /\ MustUpdate(c)
    /\ IF call[c].req.reset THEN Goto(c, "reset", Listing(graph)) ELSE Goto(c, "clone", {})
    /\ UNCHANGED <<pollVars, graph>>

-----------------------------------------------------------------------------
(* The reset scans the graph: it lists the keys once, then loads each row, *)
(* in order, and deletes those attributed to the repository.               *)

IsNext(c, p) == p \in call[c].todo /\ \A q \in call[c].todo : p <= q

\* Mutant of Attributed: the repository of the row is not compared.
AttributedToAny(row, url) == TRUE

\* Is the row one that a reset of the repository removes?
Attributed(row, url) == row.repo = url

\* Mutant of ResetLoads: the scan stops at a row of another repository.
ResetStopsEarly(c, p) ==
    /\ At(c, "reset")
    /\ IsNext(c, p)
    /\ p \in DOMAIN graph
    /\ IF Attributed(graph[p], call[c].req.url)
       THEN Goto(c, "drop", call[c].todo) ELSE Goto(c, "clone", {})
    /\ UNCHANGED <<pollVars, graph>>

ResetLoads(c, p) ==
    /\ At(c, "reset")
    /\ IsNext(c, p)
    /\ p \in DOMAIN graph
    /\ IF Attributed(graph[p], call[c].req.url)
       THEN Goto(c, "drop", call[c].todo) ELSE Goto(c, "reset", call[c].todo \ {p})
    /\ UNCHANGED <<pollVars, graph>>

\* A listed row is gone, or cannot be read: the scan stops there, and its
\* error is ignored.
ResetAborts(c, p) ==
    /\ At(c, "reset")
    /\ IsNext(c, p)
    /\ p \notin DOMAIN graph \/ "store" \in Faults
    /\ Goto(c, "clone", {})
    /\ UNCHANGED <<pollVars, graph>>

\* The row is deleted by its key, whatever it holds by now.
ResetRemoves(c, p) ==
    /\ At(c, "drop")
    /\ IsNext(c, p)
    /\ graph' = Drop(graph, p)
    /\ Goto(c, "reset", call[c].todo \ {p})
    /\ UNCHANGED pollVars

\* A failure to delete is logged, and the scan goes on.
ResetRemoveFails(c, p) ==
    /\ "delete" \in Faults
    /\ At(c, "drop")
    /\ IsNext(c, p)
    /\ Goto(c, "reset", call[c].todo \ {p})
    /\ UNCHANGED <<pollVars, graph>>

ResetDone(c) ==
    /\ At(c, "reset")
    /\ call[c].todo = {}
    /\ Goto(c, "clone", {})
    /\ UNCHANGED <<pollVars, graph>>

-----------------------------------------------------------------------------
\* The clone at the reported digest is loaded.
CloneLoads(c) ==
    /\ At(c, "clone")
    /\ Goto(c, "add", Contents[<<call[c].req.url, call[c].digest>>])
    /\ UNCHANGED <<pollVars, graph>>

\* No directory, no clone, no such commit any more, or nothing loadable.
CloneFails(c) ==
    /\ "clone" \in Faults
    /\ At(c, "clone")
    /\ Return(c)
    /\ UNCHANGED <<pollVars, graph>>

\* Mutant of AddPackage: the loop does not advance.
AddPackageAgain(c, p) ==
    /\ At(c, "add")
    /\ p \in call[c].todo
    /\ graph' = Put(graph, p, [repo |-> call[c].req.url, digest |-> call[c].digest])
    /\ UNCHANGED <<pollVars, call>>

AddPackage(c, p) ==
    /\ At(c, "add")
    /\ p \in call[c].todo
    /\ graph' = Put(graph, p, [repo |-> call[c].req.url, digest |-> call[c].digest])
    /\ Goto(c, "add", call[c].todo \ {p})
    /\ UNCHANGED pollVars

\* Mutant of AddFails: a package that cannot be stored is skipped.
AddSkips(c) ==
    /\ "store" \in Faults
    /\ At(c, "add")
    /\ \E p \in call[c].todo : Goto(c, "add", call[c].todo \ {p})
    /\ UNCHANGED <<pollVars, graph>>

AddFails(c) ==
    /\ "store" \in Faults
    /\ At(c, "add")
    /\ call[c].todo # {}
    /\ Return(c)
    /\ UNCHANGED <<pollVars, graph>>

UpdateDone(c) ==
    /\ At(c, "add")
    /\ call[c].todo = {}
    /\ Return(c)
    /\ UNCHANGED <<pollVars, graph>>

\* The process stops and is started again on the same databases.
Crash ==
    /\ "crash" \in Faults
    /\ call # Empty
    /\ pending' = Empty
    /\ call' = Empty
    /\ UNCHANGED <<repoDB, reported, resolved, graph>>

-----------------------------------------------------------------------------
ResetStep(c) ==
    \/ \E p \in Packages :
           ResetLoads(c, p) \/ ResetAborts(c, p) \/ ResetRemoves(c, p) \/ ResetRemoveFails(c, p)
    \/ ResetDone(c)

StoreStep(c) ==
    \/ CloneLoads(c)
    \/ CloneFails(c)
    \/ \E p \in Packages : AddPackage(c, p)
    \/ AddFails(c)
    \/ UpdateDone(c)

\* One step of a call in progress.
UpdateStep(c) ==
    \/ \E name \in Names, digest \in Digests : CheckSucceeds(c, name, digest)
    \/ CheckErrs(c)
    \/ ReturnsUnchanged(c)
    \/ UpdateStarts(c)
    \/ ResetStep(c)
    \/ StoreStep(c)

UpdateNext ==
    \/ \E c \in Callers :
           (\E req \in Requests[c] : BeginUpdate(c, req)) \/ UpdateStep(c)
    \/ Crash

UpdateSpec == UpdateInit /\ [][UpdateNext]_updateVars

\* git, the loader and the store return in the end: nothing else is waited for.
FairUpdateSpec == UpdateSpec /\ \A c \in Callers : WF_updateVars(UpdateStep(c))
-----------------------------------------------------------------------------
\* The databases and the calls have their types, and the Checks in flight are
\* exactly those of the calls that are checking, each for its own request.
UpdateTypeOK ==
    /\ PollTypeOK
    /\ IsMap(graph, Packages, Row)
    /\ IsMap(call, Callers, Call)
    /\ DOMAIN pending = {c \in DOMAIN call : call[c].step = "check"}
    /\ \A c \in DOMAIN pending :
           pending[c].url = call[c].req.url /\ pending[c].label = call[c].req.label

\* Every row of the graph is a package of a commit that some Check reported as
\* a needed update of the row's repository, whatever calls, crashes and
\* failures came between: no row is attributed to another repository, and
\* none holds a commit nobody was told about (update.go:69-90, graph.go:60).
RowsReported ==
    \A p \in DOMAIN graph :
        /\ graph[p].digest \in reported[graph[p].repo]
        /\ p \in Contents[<<graph[p].repo, graph[p].digest>>]

\* The graph holds every package of the repository as of the commit.
InGraph(url, digest) ==
    \A p \in Contents[<<url, digest>>] :
        p \in DOMAIN graph /\ graph[p] = [repo |-> url, digest |-> digest]

\* c is about to return from an update without an error.
Succeeds(c) == At(c, "add") /\ call[c].todo = {}

\* A call that updates and returns no error leaves the packages of the commit
\* it reports in the graph, if nobody else works on that repository
\* (update.go:84-91).
UpdateStoresCommit ==
    \A c \in DOMAIN call : Succeeds(c) => InGraph(call[c].req.url, call[c].digest)

\* A call told that no update is needed finds the packages of the commit in
\* the graph: "Check reports whether the specified repository requires an
\* update" (poll.go:121).
NoUpdateMeansCurrent ==
    \A c \in DOMAIN call :
        At(c, "checked") /\ ~call[c].needs => InGraph(call[c].req.url, call[c].digest)

\* After a successful update with reset, the graph attributes nothing else to
\* the repository: "remove any packages currently attributed to this
\* repository before updating" (update.go:111-112).
ResetLeavesOnlyCommit ==
    \A c \in DOMAIN call : Succeeds(c) /\ call[c].req.reset =>
        \A p \in DOMAIN graph : graph[p].repo = call[c].req.url =>
            /\ graph[p].digest = call[c].digest
            /\ p \in Contents[<<call[c].req.url, call[c].digest>>]

\* A row disappears only when a reset of its own repository removes it
\* (update.go:74-76).
OnlyOwnRowsRemoved ==
    [][\A p \in DOMAIN graph \ DOMAIN graph' :
          \E c \in Callers : At(c, "drop") /\ graph[p].repo = call[c].req.url]_updateVars

\* No repository stays in the database with more failures than the limit:
\* "The maximum number of times a repository update may fail before that
\* repository is removed from the database" (service.go:48-50).
FailuresPruned ==
    ErrorLimit > 0 => \A k \in DOMAIN repoDB : repoDB[k].errs <= ErrorLimit

\* Every call returns (update.go:35): no call waits for another, and the reset
\* visits no row twice although others keep adding rows.
UpdateReturns == \A c \in Callers : (c \in DOMAIN call) ~> (c \notin DOMAIN call)
=============================================================================
