---------------------------- MODULE UpdateProofs ----------------------------
(***************************************************************************)
(* Safety of Server.Update over both databases, for any number of callers  *)
(* working on any repositories, with every fault the model knows; then the *)
(* updates whose repositories and packages are apart, whose rows are those *)
(* of the commit their record names, and resets.                           *)
(***************************************************************************)
EXTENDS Update, PollProofs

-----------------------------------------------------------------------------
(* The inductive invariant.  A row can be trusted because the digest a call *)
(* works on was reported when its Check returned, and the packages it adds *)
(* are those of that commit; so a call carries both facts along.           *)

\* What the invariant says of one call.
Trusted(r) ==
    /\ r \in Call
    /\ r.step # "check" => r.digest \in reported[r.req.url]
    /\ r.step = "add" => r.todo \subseteq Contents[<<r.req.url, r.digest>>]

CallsTrusted == \A c \in DOMAIN call : Trusted(call[c])

PendingMatches ==
    /\ DOMAIN pending = {c \in DOMAIN call : call[c].step = "check"}
    /\ \A c \in DOMAIN pending :
           pending[c].url = call[c].req.url /\ pending[c].label = call[c].req.label

CallsSafe == IsMap(call, Callers, Call) /\ CallsTrusted /\ PendingMatches

UpdateSafe ==
    /\ PollSafe
    /\ IsMap(graph, Packages, Row)
    /\ RowsReported
    /\ CallsSafe

\* The inductive invariant implies the invariants that are checked.
LEMMA UpdateSafeSuffices == UpdateSafe => UpdateTypeOK /\ RowsReported
BY PollSafeSuffices DEF UpdateSafe, UpdateTypeOK, CallsSafe, PendingMatches

\* Both databases start out empty and no call is in progress (service.go:144-151).
LEMMA UpdateInitSafe == UpdateInit => UpdateSafe
<1> SUFFICES ASSUME UpdateInit PROVE UpdateSafe
  OBVIOUS
<1>1. PollSafe
  BY PollInitSafe DEF UpdateInit
<1>2. IsMap(graph, Packages, Row) /\ DOMAIN graph = {}
  BY EmptyMap DEF UpdateInit
<1>3. IsMap(call, Callers, Call) /\ DOMAIN call = {} /\ DOMAIN pending = {}
  BY EmptyMap DEF UpdateInit, PollInit
<1> QED
  BY <1>1, <1>2, <1>3
  DEF UpdateSafe, RowsReported, CallsSafe, CallsTrusted, PendingMatches

-----------------------------------------------------------------------------
(* The calls in progress.                                                  *)

\* A call past its Check goes on to another step with packages of its commit.
LEMMA GoneOn ==
    ASSUME CallsSafe, NEW c \in DOMAIN call, call[c].step # "check",
           NEW step \in {"reset", "drop", "clone", "add"}, NEW todo \in SUBSET Packages,
           step = "add" => todo \subseteq Contents[<<call[c].req.url, call[c].digest>>],
           Goto(c, step, todo), UNCHANGED pollVars
    PROVE  CallsSafe'
<1> DEFINE r == [call[c] EXCEPT !.step = step, !.todo = todo]
<1>1. /\ call[c] \in Call
      /\ call[c].digest \in reported[call[c].req.url]
  BY DEF CallsSafe, CallsTrusted, Trusted
<1>2. /\ r \in Call /\ r.req = call[c].req /\ r.digest = call[c].digest
      /\ r.step = step /\ r.todo = todo
  BY <1>1 DEF Call
<1>3. /\ DOMAIN call' = DOMAIN call
      /\ call'[c] = r
      /\ \A x \in DOMAIN call \ {c} : call'[x] = call[x]
      /\ IsMap(call', Callers, Call)
  <2>1. IsMap(call, Callers, Call)
    BY DEF CallsSafe
  <2>2. call' = [call EXCEPT ![c] = r]
    BY DEF Goto
  <2> HIDE DEF r
  <2> QED
    BY <1>2, <2>1, <2>2 DEF IsMap
<1> HIDE DEF r
<1>4. CallsTrusted'
  BY <1>1, <1>2, <1>3 DEF CallsSafe, CallsTrusted, Trusted, pollVars
<1>5. PendingMatches'
  BY <1>2, <1>3 DEF CallsSafe, PendingMatches, pollVars
<1> QED
  BY <1>3, <1>4, <1>5 DEF CallsSafe

\* A call returns; if it was checking, its Check has ended.
LEMMA Returned ==
    ASSUME CallsSafe, NEW c \in DOMAIN call, Return(c), UNCHANGED reported,
           IF call[c].step = "check" THEN pending' = Drop(pending, c) ELSE UNCHANGED pending
    PROVE  CallsSafe'
<1>1. /\ DOMAIN call' = DOMAIN call \ {c}
      /\ \A x \in DOMAIN call' : call'[x] = call[x]
      /\ IsMap(call', Callers, Call)
  BY DEF CallsSafe, Return, IsMap, Drop
<1>2. CallsTrusted'
  BY <1>1 DEF CallsSafe, CallsTrusted, Trusted
<1>3. PendingMatches'
  <2>1. CASE call[c].step = "check"
    BY <1>1, <2>1 DEF CallsSafe, PendingMatches, Drop
  <2>2. CASE call[c].step # "check"
    BY <1>1, <2>2 DEF CallsSafe, PendingMatches
  <2> QED
    BY <2>1, <2>2
<1> QED
  BY <1>1, <1>2, <1>3 DEF CallsSafe
-----------------------------------------------------------------------------
(* The steps of a call.                                                    *)

\* A new call begins with its Check (update.go:36-47).
LEMMA BeginSafe ==
    ASSUME UpdateSafe, NEW c \in Callers, NEW req \in UpdateReq, BeginUpdate(c, req)
    PROVE  UpdateSafe'
<1> DEFINE r == [req |-> req, step |-> "check", needs |-> FALSE,
                 digest |-> NoDigest, todo |-> {}]
<1>2. CheckLoad(c, req.url, req.label, req.ref) /\ call' = Put(call, c, r)
        /\ UNCHANGED graph /\ c \notin DOMAIN call
  BY DEF BeginUpdate
<1>3. PollSafe'
  BY <1>2, CheckLoadSafe DEF UpdateSafe, UpdateReq
<1>4. r \in Call /\ r.step = "check" /\ r.req = req
  BY DEF Call
<1> HIDE DEF r
<1>5. /\ DOMAIN call' = DOMAIN call \cup {c}
      /\ call'[c] = r
      /\ \A x \in DOMAIN call : call'[x] = call[x]
      /\ IsMap(call', Callers, Call)
  BY <1>2, <1>4 DEF UpdateSafe, CallsSafe, IsMap, Put
<1>6. PICK stat : pending' = Put(pending, c, [url |-> req.url, label |-> req.label, stat |-> stat])
  BY <1>2 DEF CheckLoad
<1>7. /\ DOMAIN pending' = DOMAIN pending \cup {c}
      /\ pending'[c].url = req.url /\ pending'[c].label = req.label
      /\ \A x \in DOMAIN pending : x # c => pending'[x] = pending[x]
  BY <1>6 DEF Put
<1>8. UNCHANGED <<reported, graph>>
  BY <1>2 DEF CheckLoad
<1>9. CallsTrusted'
  BY <1>2, <1>4, <1>5, <1>8 DEF UpdateSafe, CallsSafe, CallsTrusted, Trusted
<1>10. PendingMatches'
  BY <1>2, <1>4, <1>5, <1>7 DEF UpdateSafe, CallsSafe, PendingMatches
<1> QED
  BY <1>3, <1>5, <1>8, <1>9, <1>10 DEF UpdateSafe, CallsSafe, RowsReported

\* The Check of a call succeeds: its digest has been reported (update.go:53-60).
LEMMA CheckSucceedsSafe ==
    ASSUME UpdateSafe, NEW c \in Callers, NEW name \in Names, NEW digest \in Digests,
           CheckSucceeds(c, name, digest)
    PROVE  UpdateSafe'
<1>1. /\ c \in DOMAIN call /\ call[c].step = "check" /\ c \in DOMAIN pending
      /\ HeadAnswers(c, name, digest) /\ UNCHANGED graph
  BY DEF CheckSucceeds, At, UpdateSafe, CallsSafe, PendingMatches
<1>2. PollSafe'
  BY <1>1, HeadAnswersSafe DEF UpdateSafe
<1>3. PICK p : p = pending[c]
  OBVIOUS
<1>4. p.url = call[c].req.url /\ p.url \in Urls /\ Sound(p.url, p.stat)
  BY <1>1, <1>3 DEF UpdateSafe, PollSafe, PendingSound, Sound, CallsSafe, PendingMatches
<1>5. /\ \A u \in Urls : reported[u] \subseteq reported'[u]
      /\ digest \in reported'[p.url]
  <2>1. reported' = [reported EXCEPT ![p.url] =
            IF NeedsUpdate(p.stat.digest, digest) THEN @ \cup {digest} ELSE @]
    BY <1>1, <1>3 DEF HeadAnswers
  <2>2. reported \in [Urls -> SUBSET Digests]
    BY DEF UpdateSafe, PollSafe
  <2>3. CASE NeedsUpdate(p.stat.digest, digest)
    BY <1>4, <2>1, <2>2, <2>3
  <2>4. CASE ~NeedsUpdate(p.stat.digest, digest)
    <3>1. digest \in reported[p.url]
      BY <1>4, <2>4, PollAssumption DEF NeedsUpdate, Sound, Reported
    <3> QED
      BY <1>4, <2>1, <2>2, <2>4, <3>1
  <2> QED
    BY <2>3, <2>4
<1>6. PICK r : r = [call[c] EXCEPT !.step = "checked", !.digest = digest,
                                   !.needs = NeedsUpdate(p.stat.digest, digest)]
  OBVIOUS
<1>7. r \in Call /\ r.step = "checked" /\ r.digest = digest /\ r.req = call[c].req
  <2>1. call[c] \in Call /\ NeedsUpdate(p.stat.digest, digest) \in BOOLEAN
    BY <1>1 DEF UpdateSafe, CallsSafe, IsMap, NeedsUpdate
  <2> QED
    BY <1>6, <2>1 DEF Call
<1>8. /\ DOMAIN call' = DOMAIN call
      /\ call'[c] = r
      /\ \A x \in DOMAIN call \ {c} : call'[x] = call[x]
      /\ IsMap(call', Callers, Call)
  <2>1. IsMap(call, Callers, Call)
    BY DEF UpdateSafe, CallsSafe
  <2>2. call' = [call EXCEPT ![c] = r]
    BY <1>3, <1>6 DEF CheckSucceeds
  <2> QED
    BY <1>1, <1>7, <2>1, <2>2 DEF IsMap
<1>9. CallsTrusted'
  <2>1. Trusted(call[c])'
    BY <1>4, <1>5, <1>7, <1>8 DEF Trusted
  <2>2. ASSUME NEW x \in DOMAIN call, x # c
        PROVE  Trusted(call[x])'
    <3>1. Trusted(call[x]) /\ call'[x] = call[x] /\ call[x].req.url \in Urls
      BY <1>8, <2>2 DEF UpdateSafe, CallsSafe, CallsTrusted, Trusted, Call, UpdateReq
    <3> QED
      BY <1>5, <3>1 DEF Trusted
  <2> QED
    BY <1>8, <2>1, <2>2 DEF CallsTrusted
<1>10. PendingMatches'
  <2>1. pending' = Drop(pending, c)
    BY <1>1 DEF HeadAnswers
  <2> QED
    BY <1>1, <1>7, <1>8, <2>1 DEF UpdateSafe, CallsSafe, PendingMatches, Drop
<1>11. RowsReported'
  BY <1>1, <1>5 DEF UpdateSafe, RowsReported, IsMap, Row
<1> QED
  BY <1>1, <1>2, <1>8, <1>9, <1>10, <1>11 DEF UpdateSafe, CallsSafe

\* The Check of a call fails and the call returns (update.go:49-50).
LEMMA CheckErrsSafe ==
    ASSUME UpdateSafe, NEW c \in Callers, CheckErrs(c)
    PROVE  UpdateSafe'
<1>1. /\ c \in DOMAIN call /\ call[c].step = "check" /\ Return(c)
      /\ HeadFails(c) \/ CheckAborts(c)
      /\ UNCHANGED <<graph, reported>> /\ pending' = Drop(pending, c)
  BY DEF CheckErrs, At, HeadFails, CheckAborts
<1>2. PollSafe'
  BY <1>1, HeadFailsSafe, CheckAbortsSafe DEF UpdateSafe
<1>3. CallsSafe'
  BY <1>1, Returned DEF UpdateSafe
<1> QED
  BY <1>1, <1>2, <1>3 DEF UpdateSafe, RowsReported

\* A record that is removed leaves the other records, and the calls and rows
\* that came of it, as sound as they were (poll.go:74-79).
LEMMA RecordDroppedSafe ==
    ASSUME UpdateSafe, NEW key, repoDB' = Drop(repoDB, key),
           UNCHANGED <<pending, reported, resolved, graph, call>>
    PROVE  UpdateSafe'
<1>1. /\ IsMap(repoDB', Key, Status)
      /\ \A k \in DOMAIN repoDB' : k \in DOMAIN repoDB /\ repoDB'[k] = repoDB[k]
  BY DEF UpdateSafe, PollSafe, IsMap, Drop
<1>2. StoredSound'
  BY <1>1 DEF UpdateSafe, PollSafe, StoredSound, Sound, Trimmed, Reported, Resolved
<1>3. PendingSound'
  BY DEF UpdateSafe, PollSafe, PendingSound, Sound, Trimmed, Reported, Resolved
<1>4. CallsSafe'
  BY DEF UpdateSafe, CallsSafe, CallsTrusted, Trusted, PendingMatches
<1> QED
  BY <1>1, <1>2, <1>3, <1>4 DEF UpdateSafe, PollSafe, RowsReported

\* So does a row that is removed (graph.go:124-127).
LEMMA RowDroppedSafe ==
    ASSUME UpdateSafe, NEW p, graph' = Drop(graph, p), UNCHANGED <<pollVars, call>>
    PROVE  UpdateSafe'
<1>1. PollSafe'
  BY StutterSafe DEF UpdateSafe
<1>2. /\ IsMap(graph', Packages, Row)
      /\ \A q \in DOMAIN graph' : q \in DOMAIN graph /\ graph'[q] = graph[q]
  BY DEF UpdateSafe, IsMap, Drop
<1>3. RowsReported'
  BY <1>2 DEF UpdateSafe, RowsReported, pollVars
<1>4. CallsSafe'
  BY DEF UpdateSafe, CallsSafe, CallsTrusted, Trusted, PendingMatches, pollVars
<1> QED
  BY <1>1, <1>2, <1>3, <1>4 DEF UpdateSafe

\* A call past its Check returns; the databases stay (update.go:61-67, 86-91).
\* The record of a repository over the error limit would be removed here, but
\* no call gets this far with an error counted.
LEMMA ReturnSafe ==
    ASSUME UpdateSafe, NEW c \in DOMAIN call, call[c].step # "check", Return(c),
           UNCHANGED <<pollVars, graph>>
    PROVE  UpdateSafe'
<1>1. CallsSafe'
  BY Returned DEF UpdateSafe, pollVars
<1>2. PollSafe'
  BY StutterSafe DEF UpdateSafe
<1> QED
  BY <1>1, <1>2 DEF UpdateSafe, RowsReported, pollVars

\* A call that goes on without touching a database keeps the invariant.
LEMMA GoneOnSafe ==
    ASSUME UpdateSafe, NEW c \in DOMAIN call, call[c].step # "check",
           NEW step \in {"reset", "drop", "clone", "add"}, NEW todo \in SUBSET Packages,
           step = "add" => todo \subseteq Contents[<<call[c].req.url, call[c].digest>>],
           Goto(c, step, todo), UNCHANGED <<pollVars, graph>>
    PROVE  UpdateSafe'
<1>1. CallsSafe'
  BY GoneOn DEF UpdateSafe
<1>2. PollSafe'
  BY StutterSafe DEF UpdateSafe
<1> QED
  BY <1>1, <1>2 DEF UpdateSafe, RowsReported, pollVars

\* Whether a call returns or goes on after its Check, the invariant stays
\* (update.go:61-74).
LEMMA CheckedSafe ==
    ASSUME UpdateSafe, NEW c \in Callers, ReturnsUnchanged(c) \/ UpdateStarts(c)
    PROVE  UpdateSafe'
<1>1. c \in DOMAIN call /\ call[c].step # "check"
  BY DEF ReturnsUnchanged, UpdateStarts, At
<1>2. CASE ReturnsUnchanged(c)
  <2>1. ~OverLimit(ResultErrors)
    BY UpdateAssumption DEF OverLimit, ResultErrors
  <2> QED
    BY <1>1, <1>2, <2>1, ReturnSafe DEF ReturnsUnchanged, pollVars
<1>3. CASE UpdateStarts(c)
  <2>1. DOMAIN graph \in SUBSET Packages /\ {} \in SUBSET Packages
    BY DEF UpdateSafe, IsMap
  <2>2. UNCHANGED <<pollVars, graph>>
    BY <1>3 DEF UpdateStarts
  <2>3. CASE Goto(c, "reset", DOMAIN graph)
    BY <1>1, <2>1, <2>2, <2>3, GoneOnSafe
  <2>4. CASE Goto(c, "clone", {})
    BY <1>1, <2>1, <2>2, <2>4, GoneOnSafe
  <2> QED
    BY <1>3, <2>3, <2>4 DEF UpdateStarts, Listing
<1> QED
  BY <1>2, <1>3

\* Removing a row keeps the invariant: the rows that stay are as good as they
\* were (update.go:76).
LEMMA RemovedSafe ==
    ASSUME UpdateSafe, NEW c \in DOMAIN call, call[c].step # "check", NEW p,
           graph' = Drop(graph, p), UNCHANGED pollVars,
           NEW todo \in SUBSET Packages, Goto(c, "reset", todo)
    PROVE  UpdateSafe'
<1>1. CallsSafe'
  BY GoneOn DEF UpdateSafe
<1>2. PollSafe'
  BY StutterSafe DEF UpdateSafe
<1>3. /\ IsMap(graph', Packages, Row)
      /\ \A q \in DOMAIN graph' : q \in DOMAIN graph /\ graph'[q] = graph[q]
  BY DEF UpdateSafe, IsMap, Drop
<1>4. RowsReported'
  BY <1>3 DEF UpdateSafe, RowsReported, pollVars
<1> QED
  BY <1>1, <1>2, <1>3, <1>4 DEF UpdateSafe

\* The scan of a reset keeps the invariant, completed or not (update.go:73-81).
LEMMA ResetSafe ==
    ASSUME UpdateSafe, NEW c \in Callers, ResetStep(c)
    PROVE  UpdateSafe'
<1>1. c \in DOMAIN call /\ call[c].step # "check" /\ call[c].todo \in SUBSET Packages
  BY DEF ResetStep, ResetLoads, ResetAborts, ResetRemoves, ResetRemoveFails, ResetDone, At,
         UpdateSafe, CallsSafe, IsMap, Call
<1>2. ASSUME NEW p \in Packages, ResetLoads(c, p)
      PROVE  UpdateSafe'
  <2>1. Goto(c, "drop", call[c].todo) \/ Goto(c, "reset", call[c].todo \ {p})
    BY <1>2 DEF ResetLoads
  <2> QED
    BY <1>1, <1>2, <2>1, GoneOnSafe DEF ResetLoads
<1>3. ASSUME NEW p \in Packages, ResetAborts(c, p)
      PROVE  UpdateSafe'
  <2>1. {} \in SUBSET Packages
    OBVIOUS
  <2> QED
    BY <1>1, <1>3, <2>1, GoneOnSafe DEF ResetAborts
<1>4. ASSUME NEW p \in Packages, ResetRemoves(c, p)
      PROVE  UpdateSafe'
  BY <1>1, <1>4, RemovedSafe DEF ResetRemoves
<1>5. ASSUME NEW p \in Packages, ResetRemoveFails(c, p)
      PROVE  UpdateSafe'
  BY <1>1, <1>5, GoneOnSafe DEF ResetRemoveFails
<1>6. CASE ResetDone(c)
  BY <1>1, <1>6, GoneOnSafe DEF ResetDone
<1> QED
  BY <1>2, <1>3, <1>4, <1>5, <1>6 DEF ResetStep

\* A package stored by a call is one of the commit the call reported
\* (update.go:149-154, graph.go:60).
LEMMA AddPackageSafe ==
    ASSUME UpdateSafe, NEW c \in Callers, NEW p \in Packages, AddPackage(c, p)
    PROVE  UpdateSafe'
<1>1. PICK r : r = call[c]
  OBVIOUS
<1>2. /\ c \in DOMAIN call /\ r.step = "add" /\ p \in r.todo /\ Trusted(r) /\ r \in Call
      /\ UNCHANGED pollVars /\ Goto(c, "add", r.todo \ {p})
  BY <1>1 DEF AddPackage, At, UpdateSafe, CallsSafe, CallsTrusted, Trusted
<1>3. /\ r.todo \in SUBSET Packages
      /\ r.todo \subseteq Contents[<<r.req.url, r.digest>>]
      /\ r.digest \in reported[r.req.url]
      /\ r.req.url \in Urls
  BY <1>2 DEF Trusted, Call, UpdateReq
<1>4. r.digest \in Digests
  BY <1>3 DEF UpdateSafe, PollSafe
<1>5. CallsSafe'
  BY <1>1, <1>2, <1>3, GoneOn DEF UpdateSafe
<1>6. PollSafe'
  BY <1>2, StutterSafe DEF UpdateSafe
<1>7. PICK row : row = [repo |-> r.req.url, digest |-> r.digest]
  OBVIOUS
<1>8. /\ DOMAIN graph' = DOMAIN graph \cup {p}
      /\ graph'[p] = row
      /\ \A q \in DOMAIN graph \ {p} : graph'[q] = graph[q]
      /\ IsMap(graph', Packages, Row)
  <2>1. graph' = Put(graph, p, row)
    BY <1>1, <1>7 DEF AddPackage
  <2>2. row \in Row
    BY <1>3, <1>4, <1>7 DEF Row
  <2> QED
    BY <2>1, <2>2 DEF UpdateSafe, IsMap, Put
<1>9. RowsReported'
  BY <1>2, <1>3, <1>7, <1>8 DEF UpdateSafe, RowsReported, pollVars
<1> QED
  BY <1>5, <1>6, <1>8, <1>9 DEF UpdateSafe

\* Cloning, loading and storing keep the invariant (update.go:85-90, 135-156).
LEMMA StoreSafe ==
    ASSUME UpdateSafe, NEW c \in Callers, StoreStep(c)
    PROVE  UpdateSafe'
<1>1. c \in DOMAIN call /\ call[c].step # "check"
  BY DEF StoreStep, CloneLoads, CloneFails, AddPackage, AddFails, UpdateDone, At
<1>2. CASE CloneLoads(c)
  <2>1. call[c].req.url \in Urls /\ call[c].digest \in Digests
    BY <1>1 DEF UpdateSafe, PollSafe, CallsSafe, CallsTrusted, Trusted, Call, UpdateReq
  <2>2. Contents[<<call[c].req.url, call[c].digest>>] \in SUBSET Packages
    BY <2>1, UpdateAssumption
  <2> QED
    BY <1>1, <1>2, <2>2, GoneOnSafe DEF CloneLoads
<1>3. CASE CloneFails(c) \/ AddFails(c) \/ UpdateDone(c)
  <2>1. Return(c) /\ UNCHANGED <<pollVars, graph>>
    BY <1>3 DEF CloneFails, AddFails, UpdateDone
  <2> QED
    BY <1>1, <2>1, ReturnSafe DEF pollVars
<1>4. CASE \E p \in Packages : AddPackage(c, p)
  BY <1>4, AddPackageSafe
<1> QED
  BY <1>2, <1>3, <1>4 DEF StoreStep

\* A restart finds both databases as they were (update.go: the whole of it).
LEMMA RestartSafe ==
    ASSUME UpdateSafe, pending' = Empty, call' = Empty,
           UNCHANGED <<repoDB, reported, resolved, graph>>
    PROVE  UpdateSafe'
<1>1. PollSafe'
  BY ForgottenSafe DEF UpdateSafe
<1>2. IsMap(call', Callers, Call) /\ DOMAIN call' = {} /\ DOMAIN pending' = {}
  BY EmptyMap
<1>3. CallsSafe'
  BY <1>2 DEF CallsSafe, CallsTrusted, PendingMatches
<1> QED
  BY <1>1, <1>3 DEF UpdateSafe, RowsReported

\* Every step of a call keeps the invariant.
LEMMA StepSafe ==
    ASSUME UpdateSafe, NEW c \in Callers, UpdateStep(c)
    PROVE  UpdateSafe'
<1>1. CASE \E name \in Names, digest \in Digests : CheckSucceeds(c, name, digest)
  BY <1>1, CheckSucceedsSafe
<1>2. CASE CheckErrs(c)
  BY <1>2, CheckErrsSafe
<1>3. CASE ReturnsUnchanged(c) \/ UpdateStarts(c)
  BY <1>3, CheckedSafe
<1>4. CASE ResetStep(c)
  BY <1>4, ResetSafe
<1>5. CASE StoreStep(c)
  BY <1>5, StoreSafe
<1> QED
  BY <1>1, <1>2, <1>3, <1>4, <1>5 DEF UpdateStep

\* A call in progress keeps its request, and no step begins another call.
LEMMA StepCalls ==
    ASSUME UpdateSafe, NEW c \in Callers, UpdateStep(c)
    PROVE  /\ c \in DOMAIN call
           /\ DOMAIN call' \subseteq DOMAIN call
           /\ \A x \in DOMAIN call' : call'[x].req = call[x].req
<1>1. IsMap(call, Callers, Call)
  BY DEF UpdateSafe, CallsSafe
<1>2. c \in DOMAIN call
  BY DEF UpdateStep, CheckSucceeds, CheckErrs, ReturnsUnchanged, UpdateStarts,
         ResetStep, ResetLoads, ResetAborts, ResetRemoves, ResetRemoveFails, ResetDone,
         StoreStep, CloneLoads, CloneFails, AddPackage, AddFails, UpdateDone, At
<1>3. PICK old : old = call[c]
  OBVIOUS
<1>4. old \in Call
  BY <1>1, <1>2, <1>3 DEF IsMap
<1>5. CASE Return(c)
  BY <1>2, <1>5 DEF Return, Drop
<1>6. CASE \E step, todo : Goto(c, step, todo)
  <2>1. PICK step, todo : Goto(c, step, todo)
    BY <1>6
  <2>2. PICK new : new = [old EXCEPT !.step = step, !.todo = todo]
    OBVIOUS
  <2>3. new.req = old.req
    BY <1>4, <2>2 DEF Call
  <2>4. call' = [call EXCEPT ![c] = new]
    BY <1>3, <2>1, <2>2 DEF Goto
  <2> QED
    BY <1>1, <1>2, <1>3, <2>3, <2>4 DEF IsMap
<1>7. ASSUME NEW name \in Names, NEW digest \in Digests, CheckSucceeds(c, name, digest)
      PROVE  DOMAIN call' = DOMAIN call /\ \A x \in DOMAIN call' : call'[x].req = call[x].req
  <2>1. PICK new : new = [old EXCEPT !.step = "checked", !.digest = digest,
                          !.needs = NeedsUpdate(pending[c].stat.digest, digest)]
    OBVIOUS
  <2>2. new.req = old.req
    BY <1>4, <2>1 DEF Call
  <2>3. call' = [call EXCEPT ![c] = new]
    BY <1>3, <1>7, <2>1 DEF CheckSucceeds
  <2> QED
    BY <1>1, <1>2, <1>3, <2>2, <2>3 DEF IsMap
<1> QED
  BY <1>2, <1>5, <1>6, <1>7
  DEF UpdateStep, CheckErrs, ReturnsUnchanged, UpdateStarts,
      ResetStep, ResetLoads, ResetAborts, ResetRemoves, ResetRemoveFails, ResetDone,
      StoreStep, CloneLoads, CloneFails, AddPackage, AddFails, UpdateDone

\* What a step of a call does to the records: nothing, unless its Check ends
\* with an answer or without (update.go:48-67; poll.go:172-199).
LEMMA StepStores ==
    ASSUME UpdateSafe, NEW c \in Callers, UpdateStep(c)
    PROVE  \/ UNCHANGED repoDB /\ (UNCHANGED pending \/ pending' = Drop(pending, c))
           \/ /\ c \in DOMAIN pending /\ pending' = Drop(pending, c)
              /\ \/ \E name \in Names, digest \in Digests :
                        repoDB' = Put(repoDB, <<pending[c].url, pending[c].label>>,
                                      Answered(pending[c].stat, name, digest))
                 \/ /\ "head" \in Faults
                    /\ repoDB' = Put(repoDB, FailureKey(pending[c]), Failed(pending[c].stat))
<1>1. CASE \E name \in Names, digest \in Digests : CheckSucceeds(c, name, digest)
  BY <1>1 DEF CheckSucceeds, HeadAnswers
<1>2. CASE CheckErrs(c)
  BY <1>2 DEF CheckErrs, HeadFails, CheckAborts
<1>3. CASE ReturnsUnchanged(c)
  <2>1. ~OverLimit(ResultErrors)
    BY UpdateAssumption DEF OverLimit, ResultErrors
  <2> QED
    BY <1>3, <2>1 DEF ReturnsUnchanged
<1>4. CASE UpdateStarts(c) \/ ResetStep(c) \/ StoreStep(c)
  BY <1>4 DEF UpdateStarts, ResetStep, ResetLoads, ResetAborts, ResetRemoves,
      ResetRemoveFails, ResetDone, StoreStep, CloneLoads, CloneFails, AddPackage,
      AddFails, UpdateDone, pollVars
<1> QED
  BY <1>1, <1>2, <1>3, <1>4 DEF UpdateStep

\* So does a step that touches neither database nor call.
LEMMA UpdateStutters == UpdateSafe /\ UNCHANGED updateVars => UpdateSafe'
<1> SUFFICES ASSUME UpdateSafe, UNCHANGED updateVars PROVE UpdateSafe'
  OBVIOUS
<1>1. PollSafe'
  BY StutterSafe DEF UpdateSafe, updateVars, pollVars
<1> QED
  BY <1>1
  DEF UpdateSafe, RowsReported, CallsSafe, CallsTrusted, Trusted, PendingMatches, updateVars

\* Every step keeps the invariant.
LEMMA UpdateStepSafe == UpdateSafe /\ [UpdateNext]_updateVars => UpdateSafe'
<1> SUFFICES ASSUME UpdateSafe, [UpdateNext]_updateVars PROVE UpdateSafe'
  OBVIOUS
<1>1. ASSUME NEW c \in Callers, NEW req \in Requests[c], BeginUpdate(c, req)
      PROVE  UpdateSafe'
  <2>1. req \in UpdateReq
    BY UpdateAssumption
  <2> QED
    BY <1>1, <2>1, BeginSafe
<1>2. CASE Crash
  BY <1>2, RestartSafe DEF Crash
<1> QED
  BY <1>1, <1>2, StepSafe, UpdateStutters DEF UpdateNext

\* The inductive invariant holds in every reachable state.
THEOREM UpdateAlwaysSafe == UpdateSpec => []UpdateSafe
  BY UpdateInitSafe, UpdateStepSafe, PTL DEF UpdateSpec

\* Databases, calls and Checks in flight keep their types and fit together,
\* through faults and restarts (update.go:35-92).
THEOREM UpdateTypes == UpdateSpec => []UpdateTypeOK
  BY UpdateAlwaysSafe, UpdateSafeSuffices, PTL

\* Every row of the graph is a package of a commit of its repository that was
\* reported as a needed update, for any callers, requests, overlapping
\* packages, faults and restarts (update.go:69-90, graph.go:60).
THEOREM RowsWereReported == UpdateSpec => []RowsReported
  BY UpdateAlwaysSafe, UpdateSafeSuffices, PTL

-----------------------------------------------------------------------------
(* What Server.Update promises to callers that do not get in each other's  *)
(* way.  A reset compares a row and deletes it later by its key, and AddAll *)
(* stores packages one by one; nothing excludes other calls in between.    *)
(* These theorems say what has to be apart for that to be harmless.        *)

\* The packages a repository has at some commit.
PackagesOf(url) == UNION {Contents[<<url, digest>>] : digest \in Digests}

\* No package is found in two repositories.
ApartPackages ==
    \A u, v \in Urls : u # v => PackagesOf(u) \cap PackagesOf(v) = {}

\* No two callers name the same repository, like the workers of a scan.
ApartRequests ==
    \A c, d \in Callers : c # d =>
        \A r \in Requests[c], s \in Requests[d] : r.url # s.url

-----------------------------------------------------------------------------
(* How a step treats the calls: it is a step of one of them, and leaves the *)
(* others and its own request as they are.                                 *)

\* The call of c in the next state, if it has not returned.
Stays(c, step) == c \in DOMAIN call' /\ call'[c].step = step

LEMMA OneCallSteps ==
    ASSUME UpdateSafe, NEW c \in Callers, UpdateStep(c)
    PROVE  /\ c \in DOMAIN call
           /\ DOMAIN call' \subseteq DOMAIN call
           /\ \A x \in DOMAIN call' \ {c} : call'[x] = call[x]
           /\ c \in DOMAIN call' => call'[c].req = call[c].req
<1>1. c \in DOMAIN call /\ call[c] \in Call
  BY DEF UpdateStep, CheckSucceeds, CheckErrs, ReturnsUnchanged, UpdateStarts, ResetStep,
         ResetLoads, ResetAborts, ResetRemoves, ResetRemoveFails, ResetDone, StoreStep,
         CloneLoads, CloneFails, AddPackage, AddFails, UpdateDone, At,
         UpdateSafe, CallsSafe, IsMap
<1>2. CASE Return(c)
  BY <1>1, <1>2 DEF Return, Drop
<1>3. ASSUME NEW step, NEW todo, Goto(c, step, todo)
      PROVE  DOMAIN call' = DOMAIN call /\ call'[c].req = call[c].req
               /\ \A x \in DOMAIN call' \ {c} : call'[x] = call[x]
  BY <1>1, <1>3 DEF Goto, Call
<1>4. ASSUME NEW name \in Names, NEW digest \in Digests, CheckSucceeds(c, name, digest)
      PROVE  DOMAIN call' = DOMAIN call /\ call'[c].req = call[c].req
               /\ \A x \in DOMAIN call' \ {c} : call'[x] = call[x]
  BY <1>1, <1>4 DEF CheckSucceeds, Call
<1>5. \/ \E name \in Names, digest \in Digests : CheckSucceeds(c, name, digest)
      \/ Return(c)
      \/ \E step, todo : Goto(c, step, todo)
  BY DEF UpdateStep, CheckErrs, ReturnsUnchanged, UpdateStarts, ResetStep,
         ResetLoads, ResetAborts, ResetRemoves, ResetRemoveFails, ResetDone, StoreStep,
         CloneLoads, CloneFails, AddPackage, AddFails, UpdateDone
<1> QED
  BY <1>1, <1>2, <1>3, <1>4, <1>5

\* A call is about to delete a row only when the scan has just loaded one
\* that is attributed to its repository (update.go:74-76).
LEMMA DropsWhatItLoaded ==
    ASSUME UpdateSafe, NEW c \in Callers, UpdateStep(c), Stays(c, "drop")
    PROVE  \E p \in DOMAIN graph :
               /\ IsNext(c, p)
               /\ graph[p].repo = call[c].req.url
               /\ call'[c].todo = call[c].todo
<1>1. c \in DOMAIN call /\ call[c] \in Call
  BY OneCallSteps DEF UpdateSafe, CallsSafe, IsMap
<1>2. ASSUME NEW step, NEW todo, Goto(c, step, todo)
      PROVE  step = "drop" /\ call'[c].todo = todo
  BY <1>1, <1>2 DEF Goto, Call, Stays
<1>3. ~Return(c)
  BY DEF Return, Drop, Stays
<1>4. ASSUME NEW name \in Names, NEW digest \in Digests, CheckSucceeds(c, name, digest)
      PROVE  FALSE
  BY <1>1, <1>4 DEF CheckSucceeds, Call, Stays
<1>5. \E p \in Packages : ResetLoads(c, p)
  <2>1. ~UpdateStarts(c)
    BY <1>2 DEF UpdateStarts
  <2>2. ~StoreStep(c)
    <3>1. ~CloneLoads(c)
      BY <1>2 DEF CloneLoads
    <3>2. ASSUME NEW p \in Packages, AddPackage(c, p) PROVE FALSE
      BY <1>2, <3>2 DEF AddPackage
    <3>3. ~CloneFails(c) /\ ~AddFails(c) /\ ~UpdateDone(c)
      BY <1>3 DEF CloneFails, AddFails, UpdateDone
    <3> QED
      BY <3>1, <3>2, <3>3 DEF StoreStep
  <2>3. ~CheckErrs(c) /\ ~ReturnsUnchanged(c)
    BY <1>3 DEF CheckErrs, ReturnsUnchanged
  <2>4. ResetStep(c)
    BY <1>4, <2>1, <2>2, <2>3 DEF UpdateStep
  <2>5. ASSUME NEW p \in Packages PROVE ~ResetAborts(c, p)
    BY <1>2 DEF ResetAborts
  <2>6. ASSUME NEW p \in Packages PROVE ~ResetRemoves(c, p) /\ ~ResetRemoveFails(c, p)
    BY <1>2 DEF ResetRemoves, ResetRemoveFails
  <2>7. ~ResetDone(c)
    BY <1>2 DEF ResetDone
  <2> QED
    BY <2>4, <2>5, <2>6, <2>7 DEF ResetStep
<1>6. PICK p \in Packages : ResetLoads(c, p)
  BY <1>5
<1>7. Attributed(graph[p], call[c].req.url) /\ Goto(c, "drop", call[c].todo)
  BY <1>2, <1>6 DEF ResetLoads
<1> QED
  BY <1>2, <1>6, <1>7 DEF ResetLoads, Attributed

-----------------------------------------------------------------------------
(* A call touches the rows of its own repository's packages only.          *)

\* A row that is about to be deleted is one of a package of the repository.
OwnDrops ==
    \A c \in DOMAIN call : call[c].step = "drop" =>
        \A p \in Packages : IsNext(c, p) => p \in PackagesOf(call[c].req.url)

\* A reported row, and a package to be added, is a package of its repository.
LEMMA ReportedPackages ==
    ASSUME UpdateSafe
    PROVE  /\ \A p \in DOMAIN graph :
                  p \in Packages /\ graph[p].repo \in Urls /\ p \in PackagesOf(graph[p].repo)
           /\ \A c \in DOMAIN call :
                  /\ c \in Callers /\ call[c].req.url \in Urls
                  /\ call[c].todo \subseteq Packages
                  /\ call[c].step = "add" => /\ call[c].digest \in Digests
                                             /\ call[c].todo \subseteq PackagesOf(call[c].req.url)
<1>1. ASSUME NEW p \in DOMAIN graph
      PROVE  p \in Packages /\ graph[p].repo \in Urls /\ p \in PackagesOf(graph[p].repo)
  BY <1>1 DEF UpdateSafe, PollSafe, RowsReported, IsMap, Row, PackagesOf
<1>2. ASSUME NEW c \in DOMAIN call
      PROVE  /\ c \in Callers /\ call[c].req.url \in Urls
             /\ call[c].todo \subseteq Packages
             /\ call[c].step = "add" => /\ call[c].digest \in Digests
                                        /\ call[c].todo \subseteq PackagesOf(call[c].req.url)
  <2>1. PICK r : r = call[c]
    OBVIOUS
  <2>2. c \in Callers /\ Trusted(r) /\ r.req.url \in Urls /\ r.todo \subseteq Packages
    BY <2>1 DEF UpdateSafe, CallsSafe, CallsTrusted, Trusted, IsMap, Call, UpdateReq
  <2>3. r.step = "add" => r.digest \in Digests
    BY <2>2 DEF Trusted, UpdateSafe, PollSafe
  <2>4. r.step = "add" => r.todo \subseteq PackagesOf(r.req.url)
    BY <2>2, <2>3 DEF Trusted, PackagesOf
  <2> QED
    BY <2>1, <2>2, <2>3, <2>4
<1> QED
  BY <1>1, <1>2

\* What a step of a call may do to the graph: nothing, delete a row or store one.
LEMMA GraphStep ==
    ASSUME NEW c \in Callers, UpdateStep(c)
    PROVE  \/ graph' = graph
           \/ \E p \in Packages : ResetRemoves(c, p)
           \/ \E p \in Packages : AddPackage(c, p)
BY DEF UpdateStep, CheckSucceeds, CheckErrs, ReturnsUnchanged, UpdateStarts, ResetStep,
       ResetLoads, ResetAborts, ResetRemoveFails, ResetDone, StoreStep,
       CloneLoads, CloneFails, AddFails, UpdateDone

\* Whatever the other repositories' packages are, their rows stay as they are.
LEMMA OthersRowsStay ==
    ASSUME UpdateSafe, OwnDrops, NEW c \in Callers, UpdateStep(c),
           NEW q, q \notin PackagesOf(call[c].req.url)
    PROVE  /\ q \in DOMAIN graph' <=> q \in DOMAIN graph
           /\ q \in DOMAIN graph => graph'[q] = graph[q]
<1>1. ASSUME NEW p \in Packages, ResetRemoves(c, p)
      PROVE  graph' = Drop(graph, p) /\ p # q
  BY <1>1 DEF ResetRemoves, At, OwnDrops
<1>2. ASSUME NEW p \in Packages, AddPackage(c, p)
      PROVE  p # q /\ \E row : graph' = Put(graph, p, row)
  BY <1>2, ReportedPackages DEF AddPackage, At
<1> QED
  BY <1>1, <1>2, GraphStep DEF Drop, Put

\* Every step keeps the promise of the next row to delete.
LEMMA OwnDropsStay ==
    UpdateSafe /\ OwnDrops /\ [UpdateNext]_updateVars => OwnDrops'
<1> SUFFICES ASSUME UpdateSafe, OwnDrops, [UpdateNext]_updateVars,
                    NEW x \in DOMAIN call', call'[x].step = "drop",
                    NEW p \in Packages, IsNext(x, p)'
             PROVE  p \in PackagesOf(call'[x].req.url)
  BY DEF OwnDrops
<1>1. CASE x \in DOMAIN call /\ call'[x] = call[x]
  BY <1>1 DEF OwnDrops, IsNext
<1>2. ASSUME NEW c \in Callers, UpdateStep(c)
      PROVE  p \in PackagesOf(call'[x].req.url)
  <2>1. CASE x # c
    BY <1>1, <1>2, <2>1, OneCallSteps
  <2>2. CASE x = c
    <3>1. PICK q \in DOMAIN graph :
              /\ IsNext(c, q)
              /\ graph[q].repo = call[c].req.url
              /\ call'[c].todo = call[c].todo
      BY <1>2, <2>2, DropsWhatItLoaded DEF Stays
    <3>2. p = q
      <4>1. p <= q
        BY <2>2, <3>1 DEF IsNext
      <4>2. q <= p
        BY <2>2, <3>1 DEF IsNext
      <4>3. q \in Packages
        BY ReportedPackages
      <4>4. p \in Nat /\ q \in Nat
        BY <4>3, UpdateAssumption
      <4> QED
        BY <4>1, <4>2, <4>4
    <3> QED
      BY <1>2, <2>2, <3>1, <3>2, ReportedPackages, OneCallSteps
  <2> QED
    BY <2>1, <2>2
<1>3. ASSUME NEW c \in Callers, NEW req \in Requests[c], BeginUpdate(c, req)
      PROVE  p \in PackagesOf(call'[x].req.url)
  BY <1>1, <1>3 DEF BeginUpdate, Put
<1>4. CASE Crash
  BY <1>4, EmptyMap DEF Crash
<1>5. CASE UNCHANGED updateVars
  BY <1>1, <1>5 DEF updateVars
<1> QED
  BY <1>2, <1>3, <1>4, <1>5 DEF UpdateNext

-----------------------------------------------------------------------------
(* Rows removed.                                                           *)

LEMMA RowsRemovedAreOwn ==
    ASSUME ApartPackages, UpdateSafe, OwnDrops, [UpdateNext]_updateVars,
           NEW p \in DOMAIN graph \ DOMAIN graph'
    PROVE  \E c \in Callers : At(c, "drop") /\ graph[p].repo = call[c].req.url
<1>1. PICK c \in Callers : UpdateStep(c)
  BY DEF UpdateNext, updateVars, BeginUpdate, Crash
<1>2. At(c, "drop")
  <2>1. CASE \E q \in Packages : ResetRemoves(c, q)
    BY <2>1 DEF ResetRemoves
  <2>2. CASE \E q \in Packages : AddPackage(c, q)
    BY <2>2 DEF AddPackage, Put
  <2> QED
    BY <1>1, <2>1, <2>2, GraphStep
<1>3. p \in PackagesOf(call[c].req.url)
  BY <1>1, OthersRowsStay
<1>4. graph[p].repo \in Urls /\ p \in PackagesOf(graph[p].repo)
  BY ReportedPackages
<1>5. call[c].req.url \in Urls
  BY <1>2, ReportedPackages DEF At
<1> QED
  BY <1>2, <1>3, <1>4, <1>5 DEF ApartPackages

\* As long as no package is in two repositories, a row disappears only when a
\* reset of its own repository removes it, whoever else works on the graph,
\* that repository included. Without the assumption a reset deletes by key a row
\* that became another repository's since it was loaded (update.go:73-76).
THEOREM ApartRowsRemoved ==
    ASSUME ApartPackages
    PROVE  UpdateSpec => OnlyOwnRowsRemoved
<1>1. UpdateInit => OwnDrops
  BY EmptyMap DEF UpdateInit, OwnDrops
<1>2. UpdateSafe /\ OwnDrops /\ [UpdateNext]_updateVars
          => [\A p \in DOMAIN graph \ DOMAIN graph' :
                 \E c \in Callers : At(c, "drop") /\ graph[p].repo = call[c].req.url]_updateVars
  BY RowsRemovedAreOwn
<1> QED
  BY <1>1, <1>2, OwnDropsStay, UpdateAlwaysSafe, PTL DEF UpdateSpec, OnlyOwnRowsRemoved

-----------------------------------------------------------------------------
(* Packages stored.                                                        *)

\* No two calls in progress work on the same repository.
OneCallEach ==
    \A c, d \in DOMAIN call : call[c].req.url = call[d].req.url => c = d

AskedFor == \A c \in DOMAIN call : call[c].req \in Requests[c]

\* The packages of the commit that a call no longer has to add.
Stored(c) == Contents[<<call[c].req.url, call[c].digest>>] \ call[c].todo

\* What a call has added is still in the graph.
AddedStays ==
    \A c \in DOMAIN call : call[c].step = "add" =>
        \A p \in Stored(c) :
            p \in DOMAIN graph
              /\ graph[p] = [repo |-> call[c].req.url, digest |-> call[c].digest]

CallsApart == AskedFor /\ OwnDrops /\ AddedStays

LEMMA AskedForStays ==
    UpdateSafe /\ AskedFor /\ [UpdateNext]_updateVars => AskedFor'
<1> SUFFICES ASSUME UpdateSafe, AskedFor, [UpdateNext]_updateVars, NEW x \in DOMAIN call'
             PROVE  call'[x].req \in Requests[x]
  BY DEF AskedFor
<1>1. ASSUME NEW c \in Callers, UpdateStep(c)
      PROVE  call'[x].req \in Requests[x]
  BY <1>1, OneCallSteps DEF AskedFor
<1>2. ASSUME NEW c \in Callers, NEW req \in Requests[c], BeginUpdate(c, req)
      PROVE  call'[x].req \in Requests[x]
  BY <1>2 DEF BeginUpdate, Put, AskedFor
<1>3. CASE Crash
  BY <1>3, EmptyMap DEF Crash
<1>4. CASE UNCHANGED updateVars
  BY <1>4 DEF updateVars, AskedFor
<1> QED
  BY <1>1, <1>2, <1>3, <1>4 DEF UpdateNext

\* A call comes to add packages with all of them to add, or having added one.
LEMMA AddsOneByOne ==
    ASSUME UpdateSafe, NEW c \in Callers, UpdateStep(c), Stays(c, "add")
    PROVE  \/ Stored(c)' = {}
           \/ \E p \in Packages : AddPackage(c, p)
<1>1. c \in DOMAIN call /\ call[c] \in Call
  BY OneCallSteps DEF UpdateSafe, CallsSafe, IsMap
<1>2. ASSUME NEW step, NEW todo, Goto(c, step, todo)
      PROVE  step = "add"
  BY <1>1, <1>2 DEF Goto, Call, Stays
<1>3. ~Return(c)
  BY DEF Return, Drop, Stays
<1>4. ASSUME NEW name \in Names, NEW digest \in Digests, CheckSucceeds(c, name, digest)
      PROVE  FALSE
  BY <1>1, <1>4 DEF CheckSucceeds, Call, Stays
<1>5. ~UpdateStarts(c) /\ ~CheckErrs(c) /\ ~ReturnsUnchanged(c)
  <2>1. ~UpdateStarts(c)
    BY <1>2 DEF UpdateStarts
  <2> QED
    BY <1>3, <2>1 DEF CheckErrs, ReturnsUnchanged
<1>6. ~ResetStep(c)
  <2>1. ASSUME NEW p \in Packages PROVE ~ResetLoads(c, p)
    BY <1>2 DEF ResetLoads
  <2>2. ASSUME NEW p \in Packages PROVE ~ResetAborts(c, p)
    BY <1>2 DEF ResetAborts
  <2>3. ASSUME NEW p \in Packages PROVE ~ResetRemoves(c, p) /\ ~ResetRemoveFails(c, p)
    BY <1>2 DEF ResetRemoves, ResetRemoveFails
  <2>4. ~ResetDone(c)
    BY <1>2 DEF ResetDone
  <2> QED
    BY <2>1, <2>2, <2>3, <2>4 DEF ResetStep
<1>7. CloneLoads(c) \/ \E p \in Packages : AddPackage(c, p)
  BY <1>3, <1>4, <1>5, <1>6
  DEF UpdateStep, StoreStep, CloneFails, AddFails, UpdateDone
<1>8. CASE CloneLoads(c)
  <2>1. PICK r : r = call[c]
    OBVIOUS
  <2>2. PICK todo : todo = Contents[<<r.req.url, r.digest>>]
    OBVIOUS
  <2>3. call'[c] = [r EXCEPT !.step = "add", !.todo = todo]
    BY <1>1, <1>8, <2>1, <2>2 DEF CloneLoads, Goto
  <2>4. call'[c].todo = todo /\ call'[c].req = r.req /\ call'[c].digest = r.digest
    BY <1>1, <2>1, <2>3 DEF Call
  <2> QED
    BY <2>2, <2>4 DEF Stored
<1> QED
  BY <1>7, <1>8

\* Storing one more package keeps those a call has stored.
LEMMA OneMoreAdded ==
    ASSUME UpdateSafe, AddedStays, NEW c \in Callers, NEW q \in Packages, AddPackage(c, q),
           NEW p \in Stored(c)'
    PROVE  p \in DOMAIN graph'
             /\ graph'[p] = [repo |-> call'[c].req.url, digest |-> call'[c].digest]
<1>1. PICK r : r = call[c]
  OBVIOUS
<1>2. PICK row : row = [repo |-> r.req.url, digest |-> r.digest]
  OBVIOUS
<1>3. c \in DOMAIN call /\ r.step = "add" /\ r \in Call /\ graph' = Put(graph, q, row)
  BY <1>1, <1>2 DEF AddPackage, At, UpdateSafe, CallsSafe, IsMap
<1>4. PICK rest : rest = r.todo \ {q}
  OBVIOUS
<1>5. call'[c] = [r EXCEPT !.step = "add", !.todo = rest]
  BY <1>1, <1>3, <1>4 DEF AddPackage, Goto
<1>6. call'[c].todo = rest /\ call'[c].req = r.req /\ call'[c].digest = r.digest
  BY <1>3, <1>5 DEF Call
<1>7. p = q \/ p \in Stored(c)
  BY <1>1, <1>4, <1>6 DEF Stored
<1>8. p \in Stored(c) => p \in DOMAIN graph /\ graph[p] = row
  BY <1>1, <1>2, <1>3 DEF AddedStays
<1>9. p \in DOMAIN graph' /\ graph'[p] = row
  BY <1>3, <1>7, <1>8 DEF Put
<1> QED
  BY <1>2, <1>6, <1>9

\* Callers that name repositories of their own are calls with their own.
LEMMA CallersApart ==
    ASSUME ApartRequests, UpdateSafe, AskedFor
    PROVE  OneCallEach
BY ReportedPackages DEF ApartRequests, AskedFor, OneCallEach

\* What a call has added stays while others work on other repositories.
LEMMA AddedStaysStep ==
    ASSUME ApartPackages, UpdateSafe, OneCallEach, OwnDrops, AddedStays,
           NEW c \in Callers, UpdateStep(c)
    PROVE  AddedStays'
<1> SUFFICES ASSUME NEW x \in DOMAIN call', call'[x].step = "add", NEW p \in Stored(x)'
             PROVE  p \in DOMAIN graph'
                      /\ graph'[p] = [repo |-> call'[x].req.url, digest |-> call'[x].digest]
  BY DEF AddedStays
<1>1. CASE x = c
  BY <1>1, AddsOneByOne, OneMoreAdded DEF Stays
<1>2. CASE x # c
  <2>1. x \in DOMAIN call /\ call'[x] = call[x] /\ c \in DOMAIN call
    BY <1>2, OneCallSteps
  <2>2. call[x].req.url \in Urls /\ call[c].req.url \in Urls /\ call[x].digest \in Digests
    BY <2>1, ReportedPackages
  <2>3. call[x].req.url # call[c].req.url
    BY <1>2, <2>1 DEF OneCallEach
  <2>4. p \in Contents[<<call[x].req.url, call[x].digest>>]
    BY <2>1 DEF Stored
  <2>5. p \in PackagesOf(call[x].req.url)
    BY <2>2, <2>4 DEF PackagesOf
  <2>6. p \notin PackagesOf(call[c].req.url)
    BY <2>2, <2>3, <2>5 DEF ApartPackages
  <2>7. p \in DOMAIN graph
          /\ graph[p] = [repo |-> call[x].req.url, digest |-> call[x].digest]
    BY <2>1 DEF AddedStays, Stored
  <2> QED
    BY <2>1, <2>6, <2>7, OthersRowsStay
<1> QED
  BY <1>1, <1>2

\* A call that begins has added nothing.
LEMMA AddedStaysBegin ==
    ASSUME AddedStays, NEW c \in Callers, NEW req \in UpdateReq, BeginUpdate(c, req)
    PROVE  AddedStays'
<1> SUFFICES ASSUME NEW x \in DOMAIN call', call'[x].step = "add", NEW p \in Stored(x)'
             PROVE  p \in DOMAIN graph'
                      /\ graph'[p] = [repo |-> call'[x].req.url, digest |-> call'[x].digest]
  BY DEF AddedStays
<1>1. x \in DOMAIN call /\ call'[x] = call[x] /\ graph' = graph
  BY DEF BeginUpdate, Put
<1> QED
  BY <1>1 DEF AddedStays, Stored

LEMMA AddedStaysKept ==
    ASSUME ApartPackages, ApartRequests
    PROVE  UpdateSafe /\ CallsApart /\ [UpdateNext]_updateVars => AddedStays'
<1> SUFFICES ASSUME UpdateSafe, CallsApart, [UpdateNext]_updateVars
             PROVE  AddedStays'
  OBVIOUS
<1>1. ASSUME NEW c \in Callers, UpdateStep(c)
      PROVE  AddedStays'
  BY <1>1, CallersApart, AddedStaysStep DEF CallsApart
<1>2. ASSUME NEW c \in Callers, NEW req \in Requests[c], BeginUpdate(c, req)
      PROVE  AddedStays'
  <2>1. req \in UpdateReq
    BY UpdateAssumption
  <2> QED
    BY <1>2, <2>1, AddedStaysBegin DEF CallsApart
<1>3. CASE Crash
  BY <1>3, EmptyMap DEF Crash, AddedStays
<1>4. CASE UNCHANGED updateVars
  BY <1>4 DEF updateVars, CallsApart, AddedStays, Stored
<1> QED
  BY <1>1, <1>2, <1>3, <1>4 DEF UpdateNext

\* If no package is in two repositories and no two callers name the same
\* repository, a call that updates and returns no error leaves every package of
\* the commit it reports in the graph, through all failures and restarts and
\* with any number of such calls at once (update.go:84-91).
THEOREM ApartUpdatesStore ==
    ASSUME ApartPackages, ApartRequests
    PROVE  UpdateSpec => []UpdateStoresCommit
<1>1. UpdateInit => CallsApart
  BY EmptyMap DEF UpdateInit, CallsApart, AskedFor, OwnDrops, AddedStays
<1>2. UpdateSafe /\ CallsApart /\ [UpdateNext]_updateVars => CallsApart'
  BY AskedForStays, OwnDropsStay, AddedStaysKept DEF CallsApart
<1>3. CallsApart => UpdateStoresCommit
  BY DEF CallsApart, AddedStays, Stored, UpdateStoresCommit, Succeeds, At, InGraph
<1> QED
  BY <1>1, <1>2, <1>3, UpdateAlwaysSafe, PTL DEF UpdateSpec

-----------------------------------------------------------------------------
(* When a Check may be believed that says no update is needed.  The digest *)
(* of a commit is recorded before its packages are stored, so the record   *)
(* tells the truth only if what was begun is always finished.              *)

\* Neither the clone nor the store fails, and the process does not stop;
\* remotes may fail to answer and rows to be deleted.
OnlyRemotesFail == Faults \cap {"clone", "store", "crash"} = {}

\* No request merely checks for an update, and none has a label.
RequestsUpdate ==
    Labels = {} /\ \A c \in Callers : \A req \in Requests[c] : ~req.checkOnly

\* So no call does, and no record has one.
CallsUpdate ==
    /\ \A k \in DOMAIN repoDB : k[2] = NoLabel
    /\ \A c \in DOMAIN call : call[c].req.label = NoLabel /\ ~call[c].req.checkOnly

LEMMA RequestsMakeCalls ==
    ASSUME RequestsUpdate, UpdateSafe, AskedFor
    PROVE  CallsUpdate
BY DEF RequestsUpdate, CallsUpdate, UpdateSafe, PollSafe, CallsSafe, AskedFor, IsMap, Key,
       Call, UpdateReq

-----------------------------------------------------------------------------
(* The inductive invariant: a record is current, or a call is under way    *)
(* that will make it so.                                                   *)

Settled(url, digest) == digest # NoDigest => InGraph(url, digest)

\* c goes on to store the packages of the commit its Check reported.
Working(c) ==
    \/ call[c].step \in {"reset", "drop", "clone", "add"}
    \/ call[c].step = "checked" /\ (call[c].needs \/ call[c].req.force)

WorkedOn(url) == \E c \in DOMAIN call : call[c].req.url = url /\ Working(c)

RecordsCurrent ==
    \A k \in DOMAIN repoDB : Settled(k[1], repoDB[k].digest) \/ WorkedOn(k[1])

\* The record of a repository is the one that the call working on it stored.
RecordsMatch ==
    \A c \in DOMAIN call : call[c].step # "check" =>
        \A k \in DOMAIN repoDB : k[1] = call[c].req.url => repoDB[k].digest = call[c].digest

PendingCurrent == \A c \in DOMAIN pending : Settled(pending[c].url, pending[c].stat.digest)

Current == RecordsCurrent /\ RecordsMatch /\ PendingCurrent /\ NoUpdateMeansCurrent

-----------------------------------------------------------------------------
(* What a call leaves alone.                                               *)

\* A step of a call touches the record of its own repository only, and ends
\* its own Check only.
LEMMA OthersRecordsStay ==
    ASSUME UpdateSafe, NEW c \in Callers, UpdateStep(c)
    PROVE  /\ \A k \in DOMAIN repoDB' : k[1] # call[c].req.url =>
                  k \in DOMAIN repoDB /\ repoDB'[k] = repoDB[k]
           /\ \A x \in DOMAIN pending' :
                  x # c /\ x \in DOMAIN pending /\ pending'[x] = pending[x]
<1>1. c \in DOMAIN call
  BY OneCallSteps
<1>2. PICK u : u = call[c].req.url
  OBVIOUS
<1>3. c \in DOMAIN pending <=> call[c].step = "check"
  BY <1>1 DEF UpdateSafe, CallsSafe, PendingMatches
<1>4. c \in DOMAIN pending => pending[c].url = u
  BY <1>2 DEF UpdateSafe, CallsSafe, PendingMatches
<1>5. \/ repoDB' = repoDB
      \/ \E l, stat : repoDB' = Put(repoDB, <<u, l>>, stat)
      \/ \E l : repoDB' = Drop(repoDB, <<u, l>>)
  <2>1. CASE \E name \in Names, digest \in Digests : CheckSucceeds(c, name, digest)
    BY <1>3, <1>4, <2>1 DEF CheckSucceeds, HeadAnswers, At
  <2>2. CASE CheckErrs(c)
    BY <1>3, <1>4, <2>2 DEF CheckErrs, HeadFails, CheckAborts, FailureKey, At
  <2>3. CASE ReturnsUnchanged(c)
    BY <1>2, <2>3 DEF ReturnsUnchanged
  <2>4. CASE UpdateStarts(c) \/ ResetStep(c) \/ StoreStep(c)
    BY <2>4 DEF UpdateStarts, ResetStep, pollVars,
                ResetLoads, ResetAborts, ResetRemoves, ResetRemoveFails, ResetDone, StoreStep,
                CloneLoads, CloneFails, AddPackage, AddFails, UpdateDone
  <2> QED
    BY <2>1, <2>2, <2>3, <2>4 DEF UpdateStep
<1>6. \/ pending' = Drop(pending, c)
      \/ UNCHANGED pending /\ call[c].step # "check"
  BY <1>1, <1>3
  DEF UpdateStep, CheckSucceeds, CheckErrs, HeadAnswers, HeadFails, CheckAborts,
      ReturnsUnchanged, UpdateStarts, ResetStep, At, pollVars,
      ResetLoads, ResetAborts, ResetRemoves, ResetRemoveFails, ResetDone, StoreStep,
      CloneLoads, CloneFails, AddPackage, AddFails, UpdateDone
<1>7. \A k \in DOMAIN repoDB' : k[1] # u => k \in DOMAIN repoDB /\ repoDB'[k] = repoDB[k]
  <2> SUFFICES ASSUME NEW k \in DOMAIN repoDB', k[1] # u
               PROVE  k \in DOMAIN repoDB /\ repoDB'[k] = repoDB[k]
    OBVIOUS
  <2>1. ASSUME NEW l, NEW stat, repoDB' = Put(repoDB, <<u, l>>, stat)
        PROVE  k \in DOMAIN repoDB /\ repoDB'[k] = repoDB[k]
    <3>1. k # <<u, l>>
      OBVIOUS
    <3> QED
      BY <2>1, <3>1 DEF Put
  <2>2. ASSUME NEW l, repoDB' = Drop(repoDB, <<u, l>>)
        PROVE  k \in DOMAIN repoDB /\ repoDB'[k] = repoDB[k]
    BY <2>2 DEF Drop
  <2> QED
    BY <1>5, <2>1, <2>2
<1>8. \A x \in DOMAIN pending' : x # c /\ x \in DOMAIN pending /\ pending'[x] = pending[x]
  BY <1>3, <1>6 DEF Drop
<1> QED
  BY <1>2, <1>7, <1>8

\* The calls of others go on.
LEMMA OthersCallsStay ==
    ASSUME UpdateSafe, NEW c \in Callers, UpdateStep(c), NEW x \in DOMAIN call, x # c
    PROVE  x \in DOMAIN call' /\ call'[x] = call[x]
<1>1. DOMAIN call \ {c} \subseteq DOMAIN call'
  BY DEF UpdateStep, CheckSucceeds, CheckErrs, ReturnsUnchanged, UpdateStarts, ResetStep,
         ResetLoads, ResetAborts, ResetRemoves, ResetRemoveFails, ResetDone, StoreStep,
         CloneLoads, CloneFails, AddPackage, AddFails, UpdateDone, Goto, Return, Drop
<1> QED
  BY <1>1, OneCallSteps

\* What is current of another repository stays so.
LEMMA OthersStaySettled ==
    ASSUME ApartPackages, UpdateSafe, OwnDrops, NEW c \in Callers, UpdateStep(c),
           NEW u \in Urls, u # call[c].req.url, NEW d \in Digests \cup {NoDigest},
           Settled(u, d)
    PROVE  Settled(u, d)'
<1> SUFFICES ASSUME d # NoDigest, NEW p \in Contents[<<u, d>>]
             PROVE  p \in DOMAIN graph' /\ graph'[p] = [repo |-> u, digest |-> d]
  BY DEF Settled, InGraph
<1>1. call[c].req.url \in Urls
  BY OneCallSteps, ReportedPackages
<1>2. p \in PackagesOf(u)
  BY DEF PackagesOf
<1>3. p \notin PackagesOf(call[c].req.url)
  BY <1>1, <1>2 DEF ApartPackages
<1>4. p \in DOMAIN graph /\ graph[p] = [repo |-> u, digest |-> d]
  BY DEF Settled, InGraph
<1> QED
  BY <1>3, <1>4, OthersRowsStay

-----------------------------------------------------------------------------
(* What a step of a call makes of its own repository.                      *)

\* The record of the repository u that c works on, or has just worked on.
Own(c, u) ==
    /\ \A k \in DOMAIN repoDB : k[1] = u =>
           Settled(u, repoDB[k].digest) \/ (c \in DOMAIN call /\ Working(c))
    /\ c \in DOMAIN call /\ call[c].step # "check" =>
           \A k \in DOMAIN repoDB : k[1] = u => repoDB[k].digest = call[c].digest
    /\ At(c, "checked") /\ ~call[c].needs => InGraph(u, call[c].digest)

\* A call that goes on past its Check.
LEMMA GoneOnOwn ==
    ASSUME UpdateSafe, Current, NEW c \in DOMAIN call, call[c].step # "check",
           NEW step \in {"reset", "drop", "clone", "add"}, NEW todo, Goto(c, step, todo),
           UNCHANGED repoDB, NEW u, u = call[c].req.url
    PROVE  Own(c, u)'
<1>1. PICK r : r = call[c]
  OBVIOUS
<1>2. r \in Call
  BY <1>1 DEF UpdateSafe, CallsSafe, IsMap
<1>3. c \in DOMAIN call' /\ call'[c] = [r EXCEPT !.step = step, !.todo = todo]
  BY <1>1 DEF Goto
<1>4. call'[c].step = step /\ call'[c].digest = r.digest
  BY <1>2, <1>3 DEF Call
<1>5. Working(c)'
  BY <1>4 DEF Working
<1>6. \A k \in DOMAIN repoDB' : k[1] = u => repoDB'[k].digest = call'[c].digest
  BY <1>1, <1>4 DEF Current, RecordsMatch
<1>7. ~At(c, "checked")'
  BY <1>4 DEF At
<1> QED
  BY <1>3, <1>5, <1>6, <1>7 DEF Own

\* A call that returns and leaves its repository current.
LEMMA ReturnedOwn ==
    ASSUME NEW c \in DOMAIN call, NEW u, Return(c),
           \A k \in DOMAIN repoDB' : k[1] = u => Settled(u, repoDB[k].digest)'
    PROVE  Own(c, u)'
<1>1. c \notin DOMAIN call'
  BY DEF Return, Drop
<1> QED
  BY <1>1 DEF Own, At

\* The Check of a call succeeds: either its record was current, or the call
\* will see to it.
LEMMA CheckSucceedsOwn ==
    ASSUME CallsUpdate, UpdateSafe, Current, NEW c \in Callers,
           NEW name \in Names, NEW digest \in Digests, CheckSucceeds(c, name, digest),
           NEW u, u = call[c].req.url
    PROVE  Own(c, u)'
<1>1. PICK r : r = call[c]
  OBVIOUS
<1>2. PICK p : p = pending[c]
  OBVIOUS
<1>3. /\ c \in DOMAIN call /\ c \in DOMAIN pending /\ r \in Call
      /\ p.url = u /\ p.label = r.req.label /\ Settled(u, p.stat.digest)
  BY <1>1, <1>2 DEF CheckSucceeds, At, UpdateSafe, CallsSafe, IsMap, PendingMatches,
                    Current, PendingCurrent
<1>4. p.label = NoLabel /\ p.stat \in Status
  BY <1>1, <1>2, <1>3 DEF CallsUpdate, UpdateSafe, PollSafe, IsMap, InFlight
<1>5. PICK new : new = Answered(p.stat, name, digest)
  OBVIOUS
<1>6. new.digest = digest
  BY <1>4, <1>5 DEF Answered, Status
<1>7. repoDB' = Put(repoDB, <<u, NoLabel>>, new) /\ graph' = graph
  BY <1>2, <1>3, <1>4, <1>5 DEF CheckSucceeds, HeadAnswers
<1>8. PICK needs : needs = NeedsUpdate(p.stat.digest, digest)
  OBVIOUS
<1>9. call'[c] = [r EXCEPT !.step = "checked", !.digest = digest, !.needs = needs]
      /\ c \in DOMAIN call'
  BY <1>1, <1>2, <1>3, <1>8 DEF CheckSucceeds
<1>10. call'[c].step = "checked" /\ call'[c].digest = digest /\ call'[c].needs = needs
  BY <1>3, <1>9 DEF Call
<1>11. \A k \in DOMAIN repoDB' : k[1] = u => repoDB'[k].digest = digest
  <2>1. \A k \in DOMAIN repoDB : k[1] = u => k = <<u, NoLabel>>
    BY DEF CallsUpdate, UpdateSafe, PollSafe, IsMap, Key
  <2> QED
    BY <1>6, <1>7, <2>1 DEF Put
<1>12. ~needs => InGraph(u, digest)'
  <2>1. ~needs => p.stat.digest = digest
    BY <1>8 DEF NeedsUpdate
  <2>2. digest # NoDigest
    BY PollAssumption
  <2> QED
    BY <1>3, <1>7, <2>1, <2>2 DEF Settled, InGraph
<1>13. needs => Working(c)'
  BY <1>10 DEF Working
<1> QED
  BY <1>9, <1>10, <1>11, <1>12, <1>13 DEF Own, Settled

\* The remote cannot be asked: the record keeps the digest it had, or none.
LEMMA CheckErrsOwn ==
    ASSUME OnlyRemotesFail, CallsUpdate, UpdateSafe, Current, NEW c \in Callers,
           CheckErrs(c), NEW u, u = call[c].req.url
    PROVE  Own(c, u)'
<1>1. PICK p : p = pending[c]
  OBVIOUS
<1>2. /\ c \in DOMAIN call /\ c \in DOMAIN pending /\ p.url = u
      /\ Settled(u, p.stat.digest) /\ p.stat \in Status
  BY <1>1 DEF CheckErrs, At, UpdateSafe, PollSafe, CallsSafe, IsMap, InFlight, PendingMatches,
              Current, PendingCurrent
<1>3. HeadFails(c) /\ Return(c) /\ graph' = graph
  BY DEF CheckErrs, CheckAborts, OnlyRemotesFail
<1>4. PICK new : new = Failed(p.stat)
  OBVIOUS
<1>5. new.digest = p.stat.digest
  BY <1>2, <1>4 DEF Failed, Status
<1>6. repoDB' = Put(repoDB, <<u, NoLabel>>, new)
  BY <1>1, <1>2, <1>3, <1>4 DEF HeadFails, FailureKey
<1>7. \A k \in DOMAIN repoDB' : k[1] = u => repoDB'[k].digest = p.stat.digest
  <2>1. \A k \in DOMAIN repoDB : k[1] = u => k = <<u, NoLabel>>
    BY DEF CallsUpdate, UpdateSafe, PollSafe, IsMap, Key
  <2> QED
    BY <1>5, <1>6, <2>1 DEF Put
<1>8. Settled(u, p.stat.digest) => \A k \in DOMAIN repoDB' : k[1] = u => Settled(u, repoDB[k].digest)'
  BY <1>3, <1>7 DEF Settled, InGraph
<1> QED
  BY <1>2, <1>3, <1>8, ReturnedOwn

\* A call that has nothing to do was told so of a current repository.
LEMMA ReturnsUnchangedOwn ==
    ASSUME CallsUpdate, UpdateSafe, Current, NEW c \in Callers,
           ReturnsUnchanged(c), NEW u, u = call[c].req.url
    PROVE  Own(c, u)'
<1>1. ~OverLimit(ResultErrors)
  BY UpdateAssumption DEF OverLimit, ResultErrors
<1>2. c \in DOMAIN call /\ call[c].step = "checked" /\ ~MustUpdate(c)
  BY DEF ReturnsUnchanged, At
<1>3. ~call[c].req.checkOnly
  BY <1>2 DEF CallsUpdate
<1>4. ~call[c].needs
  BY <1>1, <1>2, <1>3 DEF MustUpdate
<1>5. InGraph(u, call[c].digest)
  BY <1>2, <1>4 DEF Current, NoUpdateMeansCurrent, At
<1>6. repoDB' = repoDB /\ graph' = graph /\ Return(c)
  BY <1>1 DEF ReturnsUnchanged
<1>7. \A k \in DOMAIN repoDB : k[1] = u => repoDB[k].digest = call[c].digest
  BY <1>2 DEF Current, RecordsMatch
<1>8. \A k \in DOMAIN repoDB' : k[1] = u => Settled(u, repoDB[k].digest)'
  BY <1>5, <1>6, <1>7 DEF Settled, InGraph
<1> QED
  BY <1>2, <1>6, <1>8, ReturnedOwn

\* A call that has stored everything leaves its repository current.
LEMMA UpdateDoneOwn ==
    ASSUME UpdateSafe, AddedStays, Current, NEW c \in Callers,
           UpdateDone(c), NEW u, u = call[c].req.url
    PROVE  Own(c, u)'
<1>1. /\ c \in DOMAIN call /\ call[c].step = "add" /\ call[c].todo = {}
      /\ repoDB' = repoDB /\ graph' = graph /\ Return(c)
  BY DEF UpdateDone, At, pollVars
<1>2. InGraph(u, call[c].digest)
  BY <1>1 DEF AddedStays, Stored, InGraph
<1>3. \A k \in DOMAIN repoDB : k[1] = u => repoDB[k].digest = call[c].digest
  BY <1>1 DEF Current, RecordsMatch
<1>4. \A k \in DOMAIN repoDB' : k[1] = u => Settled(u, repoDB[k].digest)'
  BY <1>1, <1>2, <1>3 DEF Settled, InGraph
<1> QED
  BY <1>1, <1>4, ReturnedOwn

\* Every step of a call keeps its own repository current or worked on.
LEMMA StepOwn ==
    ASSUME OnlyRemotesFail, CallsUpdate, UpdateSafe, AddedStays, Current,
           NEW c \in Callers, UpdateStep(c), NEW u, u = call[c].req.url
    PROVE  Own(c, u)'
<1>1. c \in DOMAIN call
  BY OneCallSteps
<1>2. CASE \E name \in Names, digest \in Digests : CheckSucceeds(c, name, digest)
  BY <1>2, CheckSucceedsOwn
<1>3. CASE CheckErrs(c)
  BY <1>3, CheckErrsOwn
<1>4. CASE ReturnsUnchanged(c)
  BY <1>4, ReturnsUnchangedOwn
<1>5. CASE UpdateDone(c)
  BY <1>5, UpdateDoneOwn
<1>6. ASSUME call[c].step # "check", UNCHANGED repoDB,
             NEW step \in {"reset", "drop", "clone", "add"}, NEW todo, Goto(c, step, todo)
      PROVE  Own(c, u)'
  BY <1>1, <1>6, GoneOnOwn
<1>7. CASE UpdateStarts(c)
  <2>1. call[c].step # "check" /\ UNCHANGED repoDB
    BY <1>7 DEF UpdateStarts, At, pollVars
  <2>2. Goto(c, "reset", Listing(graph)) \/ Goto(c, "clone", {})
    BY <1>7 DEF UpdateStarts
  <2> QED
    BY <1>6, <2>1, <2>2
<1>8. CASE ResetStep(c)
  <2>1. call[c].step # "check" /\ UNCHANGED repoDB
    BY <1>8 DEF ResetStep, ResetLoads, ResetAborts, ResetRemoves, ResetRemoveFails, ResetDone,
                At, pollVars
  <2>2. \E step \in {"reset", "drop", "clone", "add"}, todo \in {{}} \cup {call[c].todo} \cup {call[c].todo \ {p} : p \in Packages} :
            Goto(c, step, todo)
    BY <1>8 DEF ResetStep, ResetLoads, ResetAborts, ResetRemoves, ResetRemoveFails, ResetDone
  <2> QED
    BY <1>6, <2>1, <2>2
<1>9. CASE CloneLoads(c) \/ \E p \in Packages : AddPackage(c, p)
  <2>1. call[c].step # "check" /\ UNCHANGED repoDB
    BY <1>9 DEF CloneLoads, AddPackage, At, pollVars
  <2>2. \E todo : Goto(c, "add", todo)
    BY <1>9 DEF CloneLoads, AddPackage
  <2> QED
    BY <1>6, <2>1, <2>2
<1>10. ~CloneFails(c) /\ ~AddFails(c)
  BY DEF CloneFails, AddFails, OnlyRemotesFail
<1> QED
  BY <1>2, <1>3, <1>4, <1>5, <1>7, <1>8, <1>9, <1>10 DEF UpdateStep, StoreStep

-----------------------------------------------------------------------------
(* Every step keeps the invariant.                                         *)

\* A step of a call: its own repository by the above, the others untouched.
LEMMA StepCurrent ==
    ASSUME ApartPackages, OnlyRemotesFail, OneCallEach, CallsUpdate,
           UpdateSafe, OwnDrops, AddedStays, Current, NEW c \in Callers, UpdateStep(c)
    PROVE  Current'
<1>1. PICK u : u = call[c].req.url
  OBVIOUS
<1>2. Own(c, u)'
  BY <1>1, StepOwn
<1>3. /\ c \in DOMAIN call
      /\ DOMAIN call' \subseteq DOMAIN call
      /\ \A x \in DOMAIN call' \ {c} : call'[x] = call[x]
      /\ c \in DOMAIN call' => call'[c].req.url = u
  BY <1>1, OneCallSteps
<1>4. \A x \in DOMAIN call : x # c => call[x].req.url # u
  BY <1>1, <1>3 DEF OneCallEach
<1>5. /\ \A k \in DOMAIN repoDB' : k[1] # u => k \in DOMAIN repoDB /\ repoDB'[k] = repoDB[k]
      /\ \A x \in DOMAIN pending' : x # c /\ x \in DOMAIN pending /\ pending'[x] = pending[x]
  BY <1>1, OthersRecordsStay
<1>6. ASSUME NEW v \in Urls, v # u, NEW d \in Digests \cup {NoDigest}, Settled(v, d)
      PROVE  Settled(v, d)'
  BY <1>1, <1>6, OthersStaySettled
<1>7. \A k \in DOMAIN repoDB : k[1] \in Urls /\ repoDB[k].digest \in Digests \cup {NoDigest}
  BY DEF UpdateSafe, PollSafe, IsMap, Key, Status
<1>8. \A x \in DOMAIN call : call[x].req.url \in Urls /\ call[x].digest \in Digests \cup {NoDigest}
  BY DEF UpdateSafe, CallsSafe, IsMap, Call, UpdateReq
<1>9. RecordsCurrent'
  <2> SUFFICES ASSUME NEW k \in DOMAIN repoDB'
               PROVE  Settled(k[1], repoDB[k].digest)' \/ WorkedOn(k[1])'
    BY DEF RecordsCurrent
  <2>1. CASE k[1] = u
    BY <1>2, <1>3, <2>1 DEF Own, WorkedOn
  <2>2. CASE k[1] # u
    <3>1. PICK d : d = repoDB[k].digest
      OBVIOUS
    <3>2. PICK v : v = k[1]
      OBVIOUS
    <3>3. repoDB'[k].digest = d /\ v \in Urls /\ d \in Digests \cup {NoDigest} /\ v # u
      BY <1>5, <1>7, <2>2, <3>1, <3>2
    <3>4. Settled(v, d) \/ WorkedOn(v)
      BY <1>5, <2>2, <3>1, <3>2 DEF Current, RecordsCurrent
    <3>5. CASE Settled(v, d)
      <4>1. Settled(v, d)'
        BY <1>6, <3>3, <3>5
      <4> QED
        BY <3>2, <3>3, <4>1
    <3>6. CASE WorkedOn(v)
      <4>1. PICK x \in DOMAIN call : call[x].req.url = v /\ Working(x)
        BY <3>6 DEF WorkedOn
      <4>2. x # c
        BY <1>1, <3>3, <4>1
      <4>3. x \in DOMAIN call' /\ call'[x] = call[x]
        BY <4>1, <4>2, OthersCallsStay
      <4>4. call'[x].req.url = v /\ Working(x)'
        BY <4>1, <4>3 DEF Working
      <4>5. WorkedOn(v)'
        BY <4>3, <4>4 DEF WorkedOn
      <4> QED
        BY <3>2, <4>5
    <3> QED
      BY <3>4, <3>5, <3>6
  <2> QED
    BY <2>1, <2>2
<1>10. RecordsMatch'
  <2> SUFFICES ASSUME NEW x \in DOMAIN call', call'[x].step # "check",
                      NEW k \in DOMAIN repoDB', k[1] = call'[x].req.url
               PROVE  repoDB'[k].digest = call'[x].digest
    BY DEF RecordsMatch
  <2>1. CASE x = c
    BY <1>2, <1>3, <2>1 DEF Own
  <2>2. CASE x # c
    BY <1>3, <1>4, <1>5, <2>2 DEF Current, RecordsMatch
  <2> QED
    BY <2>1, <2>2
<1>11. PendingCurrent'
  <2> SUFFICES ASSUME NEW x \in DOMAIN pending'
               PROVE  Settled(pending[x].url, pending[x].stat.digest)'
    BY DEF PendingCurrent
  <2>1. PICK p : p = pending[x]
    OBVIOUS
  <2>2. x \in DOMAIN pending /\ pending'[x] = p /\ x # c
    BY <1>5, <2>1
  <2>3. p.url \in Urls /\ p.stat.digest \in Digests \cup {NoDigest} /\ Settled(p.url, p.stat.digest)
    BY <2>1, <2>2 DEF UpdateSafe, PollSafe, IsMap, InFlight, Status, Current, PendingCurrent
  <2>4. p.url # u
    BY <1>4, <2>1, <2>2 DEF UpdateSafe, CallsSafe, PendingMatches
  <2> QED
    BY <1>6, <2>2, <2>3, <2>4
<1>12. NoUpdateMeansCurrent'
  <2> SUFFICES ASSUME NEW x \in DOMAIN call', At(x, "checked")', ~call'[x].needs
               PROVE  InGraph(call[x].req.url, call[x].digest)'
    BY DEF NoUpdateMeansCurrent
  <2>1. CASE x = c
    BY <1>2, <1>3, <2>1 DEF Own
  <2>2. CASE x # c
    <3>1. PICK r : r = call[x]
      OBVIOUS
    <3>2. x \in DOMAIN call /\ call'[x] = r /\ r.step = "checked" /\ ~r.needs
      BY <1>3, <2>2, <3>1 DEF At
    <3>3. InGraph(r.req.url, r.digest) /\ r.req.url # u /\ r.req.url \in Urls
      BY <1>4, <1>8, <2>2, <3>1, <3>2 DEF Current, NoUpdateMeansCurrent, At
    <3>4. r.digest \in Digests
      BY <3>1, <3>2, <3>3 DEF UpdateSafe, PollSafe, CallsSafe, CallsTrusted, Trusted
    <3>5. r.digest # NoDigest
      BY <3>4, PollAssumption
    <3>6. Settled(r.req.url, r.digest)'
      BY <1>6, <3>3, <3>4 DEF Settled
    <3> QED
      BY <3>2, <3>5, <3>6 DEF Settled
  <2> QED
    BY <2>1, <2>2
<1> QED
  BY <1>9, <1>10, <1>11, <1>12 DEF Current

\* A call begins: nobody works on its repository, so its record is current.
LEMMA BeginCurrent ==
    ASSUME UpdateSafe, Current, NEW c \in Callers, NEW req \in UpdateReq, BeginUpdate(c, req),
           \A x \in DOMAIN call : call[x].req.url # req.url
    PROVE  Current'
<1>1. /\ c \notin DOMAIN call /\ graph' = graph /\ repoDB' = repoDB
      /\ CheckLoad(c, req.url, req.label, req.ref)
  BY DEF BeginUpdate, CheckLoad
<1>2. PICK r : r = [req |-> req, step |-> "check", needs |-> FALSE,
                    digest |-> NoDigest, todo |-> {}]
  OBVIOUS
<1>3. /\ DOMAIN call' = DOMAIN call \cup {c} /\ call'[c] = r
      /\ \A x \in DOMAIN call : call'[x] = call[x]
  BY <1>1, <1>2 DEF BeginUpdate, Put
<1>4. PICK key : key = <<req.url, req.label>>
  OBVIOUS
<1>5. PICK old : old = IF key \in DOMAIN repoDB THEN repoDB[key] ELSE NewStatus(req.ref)
  OBVIOUS
<1>6. PICK stat : stat = Retargeted(Relabelled(old, req.label), req.ref)
  OBVIOUS
<1>7. pending' = Put(pending, c, [url |-> req.url, label |-> req.label, stat |-> stat])
  BY <1>1, <1>4, <1>5, <1>6 DEF CheckLoad
<1>8. old \in Status
  <2>1. key \in DOMAIN repoDB => repoDB[key] \in Status
    BY DEF UpdateSafe, PollSafe, IsMap
  <2>2. NewStatus(req.ref) \in Status
    BY DEF NewStatus, Status, UpdateReq
  <2> QED
    BY <1>5, <2>1, <2>2
<1>9. stat.digest \in {old.digest, NoDigest}
  <2>1. PICK rel : rel = Relabelled(old, req.label)
    OBVIOUS
  <2>2. rel \in Status /\ rel.digest = old.digest
    BY <1>8, <2>1 DEF Relabelled, Status, UpdateReq
  <2> QED
    BY <1>6, <2>1, <2>2 DEF Retargeted, Status
<1>10. Settled(req.url, old.digest)
  <2>1. CASE key \in DOMAIN repoDB
    <3>1. key[1] = req.url
      BY <1>4
    <3>2. ~WorkedOn(req.url)
      BY DEF WorkedOn
    <3> QED
      BY <1>5, <2>1, <3>1, <3>2 DEF Current, RecordsCurrent
  <2>2. CASE key \notin DOMAIN repoDB
    BY <1>5, <2>2 DEF NewStatus, Settled
  <2> QED
    BY <2>1, <2>2
<1>11. Settled(req.url, stat.digest)
  BY <1>9, <1>10 DEF Settled
<1>12. PendingCurrent'
  <2>1. \A x \in DOMAIN pending' : \/ pending'[x].url = req.url /\ pending'[x].stat = stat
                                   \/ x \in DOMAIN pending /\ pending'[x] = pending[x]
    BY <1>7 DEF Put
  <2> QED
    BY <1>1, <1>11, <2>1 DEF Current, PendingCurrent, Settled, InGraph
<1>13. RecordsCurrent'
  <2>1. \A v : WorkedOn(v) => WorkedOn(v)'
    BY <1>3 DEF WorkedOn, Working
  <2> QED
    BY <1>1, <2>1 DEF Current, RecordsCurrent, Settled, InGraph
<1>14. RecordsMatch'
  BY <1>1, <1>2, <1>3 DEF Current, RecordsMatch
<1>15. NoUpdateMeansCurrent'
  BY <1>1, <1>2, <1>3 DEF Current, NoUpdateMeansCurrent, At, InGraph
<1> QED
  BY <1>12, <1>13, <1>14, <1>15 DEF Current

LEMMA CurrentStays ==
    ASSUME ApartPackages, ApartRequests, OnlyRemotesFail, RequestsUpdate
    PROVE  UpdateSafe /\ CallsApart /\ Current /\ [UpdateNext]_updateVars => Current'
<1> SUFFICES ASSUME UpdateSafe, CallsApart, Current, [UpdateNext]_updateVars
             PROVE  Current'
  OBVIOUS
<1>1. ASSUME NEW c \in Callers, NEW req \in Requests[c], BeginUpdate(c, req)
      PROVE  Current'
  <2>1. req \in UpdateReq
    BY UpdateAssumption
  <2>2. \A x \in DOMAIN call : call[x].req.url # req.url
    BY <1>1, ReportedPackages DEF BeginUpdate, CallsApart, AskedFor, ApartRequests
  <2> QED
    BY <1>1, <2>1, <2>2, BeginCurrent
<1>2. ASSUME NEW c \in Callers, UpdateStep(c)
      PROVE  Current'
  BY <1>2, StepCurrent, CallersApart, RequestsMakeCalls DEF CallsApart
<1>3. ~Crash
  BY DEF Crash, OnlyRemotesFail
<1>4. CASE UNCHANGED updateVars
  BY <1>4 DEF updateVars, Current, RecordsCurrent, RecordsMatch, PendingCurrent,
              NoUpdateMeansCurrent, WorkedOn, Working, Settled, InGraph, At
<1> QED
  BY <1>1, <1>2, <1>3, <1>4 DEF UpdateNext

\* If packages and callers' repositories are apart, every request updates, and
\* neither the clone, nor the store, nor the process fails, then a call told
\* that no update is needed finds the commit in the graph, with any number of
\* such calls at once and remotes that fail to answer (poll.go:121).
THEOREM ApartChecksAreCurrent ==
    ASSUME ApartPackages, ApartRequests, OnlyRemotesFail, RequestsUpdate
    PROVE  UpdateSpec => []NoUpdateMeansCurrent
<1>1. UpdateInit => CallsApart /\ Current
  BY EmptyMap DEF UpdateInit, PollInit, CallsApart, AskedFor, OwnDrops, AddedStays,
                  Current, RecordsCurrent, RecordsMatch, PendingCurrent, NoUpdateMeansCurrent
<1>2. UpdateSafe /\ CallsApart /\ [UpdateNext]_updateVars => CallsApart'
  BY AskedForStays, OwnDropsStay, AddedStaysKept DEF CallsApart
<1>3. Current => NoUpdateMeansCurrent
  BY DEF Current
<1> QED
  BY <1>1, <1>2, <1>3, CurrentStays, UpdateAlwaysSafe, PTL DEF UpdateSpec

-----------------------------------------------------------------------------
(* What a reset leaves behind.                                             *)

\* The store does what it is told, or the process stops.
StoreWorks == Faults \cap {"store", "delete"} = {}

\* While one caller may reset a repository, the others do not reset any, and do
\* not name that one. A caller on its own may do as it likes.
OneResets ==
    \A c, d \in Callers : c # d =>
        \A r \in Requests[c], s \in Requests[d] : r.reset => ~s.reset /\ r.url # s.url

\* The rows attributed to a repository.
RowsOf(g, url) == {p \in DOMAIN g : g[p].repo = url}

\* During a reset all listed rows are there, those of the repository among them;
\* after it there is none, and then only those that the call has added.
ResetSays(r, g) ==
    /\ r.step \in {"reset", "drop"} =>
           r.req.reset /\ r.todo \subseteq DOMAIN g /\ RowsOf(g, r.req.url) \subseteq r.todo
    /\ r.step = "clone" /\ r.req.reset => RowsOf(g, r.req.url) = {}
    /\ r.step = "add" /\ r.req.reset =>
           \A p \in RowsOf(g, r.req.url) :
               g[p].digest = r.digest /\ p \in Contents[<<r.req.url, r.digest>>]

ResetsSafe == \A c \in DOMAIN call : ResetSays(call[c], graph)

\* A call that goes on is the same call at its next step.
LEMMA GoesTo ==
    ASSUME UpdateSafe, NEW c \in DOMAIN call, NEW step, NEW todo, Goto(c, step, todo)
    PROVE  /\ call'[c].step = step /\ call'[c].todo = todo
           /\ call'[c].req = call[c].req /\ call'[c].digest = call[c].digest
<1>1. call[c] \in Call
  BY DEF UpdateSafe, CallsSafe, IsMap
<1> QED
  BY <1>1 DEF Goto, Call

\* A step of the scan keeps its promise: no row of the repository gets past it.
LEMMA ScanStepResets ==
    ASSUME StoreWorks, UpdateSafe, ResetsSafe, NEW c \in DOMAIN call, ResetStep(c)
    PROVE  ResetSays(call'[c], graph')
<1>1. PICK r, g : r = call[c] /\ g = graph
  OBVIOUS
<1>2. r.todo \subseteq Packages /\ IsMap(g, Packages, Row)
  BY <1>1, ReportedPackages DEF UpdateSafe
<1>3. r.step \in {"reset", "drop"} =>
          r.req.reset /\ r.todo \subseteq DOMAIN g /\ RowsOf(g, r.req.url) \subseteq r.todo
  BY <1>1 DEF ResetsSafe, ResetSays
<1>4. ASSUME NEW p \in Packages, ResetLoads(c, p)
      PROVE  ResetSays(call'[c], graph')
  <2>1. r.step = "reset" /\ p \in r.todo /\ p \in DOMAIN g /\ graph' = g
    BY <1>1, <1>4 DEF ResetLoads, At, IsNext
  <2>2. CASE g[p].repo = r.req.url
    <3>1. Goto(c, "drop", r.todo)
      BY <1>1, <1>4, <2>2 DEF ResetLoads, Attributed
    <3>2. call'[c].step = "drop" /\ call'[c].todo = r.todo /\ call'[c].req = r.req
      BY <1>1, <3>1, GoesTo
    <3> QED
      BY <1>3, <2>1, <3>2 DEF ResetSays
  <2>3. CASE g[p].repo # r.req.url
    <3>1. Goto(c, "reset", r.todo \ {p})
      BY <1>1, <1>4, <2>3 DEF ResetLoads, Attributed
    <3>2. call'[c].step = "reset" /\ call'[c].todo = r.todo \ {p} /\ call'[c].req = r.req
      BY <1>1, <3>1, GoesTo
    <3>3. RowsOf(g, r.req.url) \subseteq r.todo \ {p}
      BY <1>3, <2>1, <2>3 DEF RowsOf
    <3> QED
      BY <1>3, <2>1, <3>2, <3>3 DEF ResetSays
  <2> QED
    BY <2>2, <2>3
<1>5. ASSUME NEW p \in Packages PROVE ~ResetAborts(c, p) /\ ~ResetRemoveFails(c, p)
  <2>1. ~ResetRemoveFails(c, p)
    BY DEF ResetRemoveFails, StoreWorks
  <2>2. ASSUME ResetAborts(c, p) PROVE FALSE
    <3>1. r.step = "reset" /\ p \in r.todo /\ p \notin DOMAIN g
      BY <1>1, <2>2 DEF ResetAborts, At, IsNext, StoreWorks
    <3> QED
      BY <1>3, <3>1
  <2> QED
    BY <2>1, <2>2
<1>6. ASSUME NEW p \in Packages, ResetRemoves(c, p)
      PROVE  ResetSays(call'[c], graph')
  <2>1. r.step = "drop" /\ p \in r.todo /\ graph' = Drop(g, p) /\ Goto(c, "reset", r.todo \ {p})
    BY <1>1, <1>6 DEF ResetRemoves, At, IsNext
  <2>2. call'[c].step = "reset" /\ call'[c].todo = r.todo \ {p} /\ call'[c].req = r.req
    BY <1>1, <2>1, GoesTo
  <2>3. DOMAIN graph' = DOMAIN g \ {p} /\ \A q \in DOMAIN g \ {p} : graph'[q] = g[q]
    BY <2>1 DEF Drop
  <2>4. RowsOf(graph', r.req.url) \subseteq r.todo \ {p}
    BY <1>3, <2>1, <2>3 DEF RowsOf
  <2> QED
    BY <1>3, <2>1, <2>2, <2>3, <2>4 DEF ResetSays
<1>7. CASE ResetDone(c)
  <2>1. r.step = "reset" /\ r.todo = {} /\ graph' = g /\ Goto(c, "clone", {})
    BY <1>1, <1>7 DEF ResetDone, At
  <2>2. call'[c].step = "clone" /\ call'[c].req = r.req
    BY <1>1, <2>1, GoesTo
  <2> QED
    BY <1>3, <2>1, <2>2 DEF ResetSays
<1> QED
  BY <1>4, <1>5, <1>6, <1>7 DEF ResetStep

\* So does every other step of a call that has not returned.
LEMMA OwnStepResets ==
    ASSUME StoreWorks, UpdateSafe, ResetsSafe, NEW c \in Callers, UpdateStep(c), c \in DOMAIN call'
    PROVE  ResetSays(call'[c], graph')
<1>1. c \in DOMAIN call
  BY OneCallSteps
<1>2. PICK r, g : r = call[c] /\ g = graph
  OBVIOUS
<1>3. ~Return(c)
  BY DEF Return, Drop
<1>4. ~(CheckErrs(c) \/ ReturnsUnchanged(c) \/ CloneFails(c) \/ AddFails(c) \/ UpdateDone(c))
  BY <1>3 DEF CheckErrs, ReturnsUnchanged, CloneFails, AddFails, UpdateDone
<1>5. ASSUME NEW name \in Names, NEW digest \in Digests, CheckSucceeds(c, name, digest)
      PROVE  ResetSays(call'[c], graph')
  <2>1. r \in Call
    BY <1>1, <1>2 DEF UpdateSafe, CallsSafe, IsMap
  <2>2. call'[c].step = "checked"
    BY <1>1, <1>2, <1>5, <2>1 DEF CheckSucceeds, Call
  <2> QED
    BY <2>2 DEF ResetSays
<1>6. CASE UpdateStarts(c)
  <2>1. graph' = g /\ DOMAIN g \subseteq Packages
    BY <1>2, <1>6 DEF UpdateStarts, UpdateSafe, IsMap
  <2>2. CASE r.req.reset
    <3>1. Goto(c, "reset", DOMAIN g)
      BY <1>2, <1>6, <2>2 DEF UpdateStarts, Listing
    <3>2. call'[c].step = "reset" /\ call'[c].todo = DOMAIN g /\ call'[c].req = r.req
      BY <1>1, <1>2, <3>1, GoesTo
    <3> QED
      BY <2>1, <2>2, <3>2 DEF ResetSays, RowsOf
  <2>3. CASE ~r.req.reset
    <3>1. Goto(c, "clone", {})
      BY <1>2, <1>6, <2>3 DEF UpdateStarts
    <3>2. call'[c].step = "clone" /\ call'[c].req = r.req
      BY <1>1, <1>2, <3>1, GoesTo
    <3> QED
      BY <2>3, <3>2 DEF ResetSays
  <2> QED
    BY <2>2, <2>3
<1>7. CASE ResetStep(c)
  BY <1>1, <1>7, ScanStepResets
<1>8. CASE CloneLoads(c)
  <2>1. PICK todo : todo = Contents[<<r.req.url, r.digest>>]
    OBVIOUS
  <2>2. r.step = "clone" /\ graph' = g /\ Goto(c, "add", todo)
    BY <1>2, <1>8, <2>1 DEF CloneLoads, At
  <2>3. call'[c].step = "add" /\ call'[c].req = r.req
    BY <1>1, <1>2, <2>2, GoesTo
  <2>4. r.req.reset => RowsOf(g, r.req.url) = {}
    BY <1>1, <1>2, <2>2 DEF ResetsSafe, ResetSays
  <2> QED
    BY <2>2, <2>3, <2>4 DEF ResetSays
<1>9. ASSUME NEW p \in Packages, AddPackage(c, p)
      PROVE  ResetSays(call'[c], graph')
  <2>1. PICK row : row = [repo |-> r.req.url, digest |-> r.digest]
    OBVIOUS
  <2>2. r.step = "add" /\ p \in r.todo /\ graph' = Put(g, p, row) /\ Goto(c, "add", r.todo \ {p})
    BY <1>2, <1>9, <2>1 DEF AddPackage, At
  <2>3. call'[c].step = "add" /\ call'[c].req = r.req /\ call'[c].digest = r.digest
    BY <1>1, <1>2, <2>2, GoesTo
  <2>4. p \in Contents[<<r.req.url, r.digest>>]
    BY <1>1, <1>2, <2>2 DEF UpdateSafe, CallsSafe, CallsTrusted, Trusted
  <2>5. r.req.reset => \A q \in RowsOf(g, r.req.url) :
            g[q].digest = r.digest /\ q \in Contents[<<r.req.url, r.digest>>]
    BY <1>1, <1>2, <2>2 DEF ResetsSafe, ResetSays
  <2>6. ASSUME NEW q \in RowsOf(graph', r.req.url)
        PROVE  \/ q = p /\ graph'[q].digest = r.digest
               \/ q \in RowsOf(g, r.req.url) /\ graph'[q] = g[q]
    BY <2>1, <2>2, <2>6 DEF RowsOf, Put
  <2> QED
    BY <2>3, <2>4, <2>5, <2>6 DEF ResetSays
<1> QED
  BY <1>4, <1>5, <1>6, <1>7, <1>8, <1>9 DEF UpdateStep, StoreStep

\* Other calls neither remove a row nor add one of the repository.
LEMMA OthersStepResets ==
    ASSUME OneResets, UpdateSafe, AskedFor, ResetsSafe, NEW c \in Callers, UpdateStep(c),
           NEW x \in DOMAIN call', x # c
    PROVE  ResetSays(call'[x], graph')
<1>1. PICK r, g : r = call[x] /\ g = graph
  OBVIOUS
<1>2. x \in DOMAIN call /\ x \in Callers /\ c \in DOMAIN call /\ call'[x] = r
  BY <1>1, OneCallSteps, ReportedPackages
<1>3. r.req.reset => ~call[c].req.reset /\ call[c].req.url # r.req.url
  BY <1>1, <1>2 DEF AskedFor, OneResets
<1>4. ResetSays(r, g)
  BY <1>1, <1>2 DEF ResetsSafe
<1>5. CASE ~r.req.reset
  BY <1>2, <1>4, <1>5 DEF ResetSays
<1>6. CASE r.req.reset
  <2>1. ~\E p \in Packages : ResetRemoves(c, p)
    BY <1>2, <1>3, <1>6 DEF ResetRemoves, At, ResetsSafe, ResetSays
  <2>2. CASE graph' = g
    BY <1>2, <1>4, <2>2
  <2>3. CASE \E p \in Packages : AddPackage(c, p)
    <3>1. PICK p \in Packages : AddPackage(c, p)
      BY <2>3
    <3>2. PICK row : graph' = Put(g, p, row) /\ row.repo = call[c].req.url
      BY <1>1, <3>1 DEF AddPackage
    <3>3. DOMAIN g \subseteq DOMAIN graph' /\ RowsOf(graph', r.req.url) \subseteq RowsOf(g, r.req.url)
          /\ \A q \in RowsOf(graph', r.req.url) : graph'[q] = g[q]
      BY <1>3, <1>6, <3>2 DEF Put, RowsOf
    <3> QED
      BY <1>2, <1>4, <3>3 DEF ResetSays
  <2> QED
    BY <1>1, <2>1, <2>2, <2>3, GraphStep
<1> QED
  BY <1>5, <1>6

LEMMA ResetsSafeKept ==
    ASSUME StoreWorks, OneResets
    PROVE  UpdateSafe /\ AskedFor /\ ResetsSafe /\ [UpdateNext]_updateVars => ResetsSafe'
<1> SUFFICES ASSUME UpdateSafe, AskedFor, ResetsSafe, [UpdateNext]_updateVars, NEW x \in DOMAIN call'
             PROVE  ResetSays(call'[x], graph')
  BY DEF ResetsSafe
<1>1. ASSUME NEW c \in Callers, UpdateStep(c)
      PROVE  ResetSays(call'[x], graph')
  BY <1>1, OwnStepResets, OthersStepResets
<1>2. ASSUME NEW c \in Callers, NEW req \in Requests[c], BeginUpdate(c, req)
      PROVE  ResetSays(call'[x], graph')
  <2>1. /\ graph' = graph
        /\ \/ call'[x].step = "check"
           \/ x \in DOMAIN call /\ call'[x] = call[x]
    BY <1>2 DEF BeginUpdate, Put
  <2> QED
    BY <2>1 DEF ResetsSafe, ResetSays
<1>3. CASE Crash
  BY <1>3, EmptyMap DEF Crash
<1>4. CASE UNCHANGED updateVars
  BY <1>4 DEF updateVars, ResetsSafe
<1> QED
  BY <1>1, <1>2, <1>3, <1>4 DEF UpdateNext

\* If the store fails no call, and nobody else resets, or works on the repository
\* that is reset, a successful update with reset leaves no row attributed to the
\* repository but those of its commit, through crashes and failures of clones,
\* and although others store rows during the scan (update.go:69-91, 111-112).
THEOREM ResetsClean ==
    ASSUME StoreWorks, OneResets
    PROVE  UpdateSpec => []ResetLeavesOnlyCommit
<1>1. UpdateInit => AskedFor /\ ResetsSafe
  BY EmptyMap DEF UpdateInit, AskedFor, ResetsSafe
<1>2. UpdateSafe /\ ResetsSafe => ResetLeavesOnlyCommit
  BY DEF ResetsSafe, ResetSays, RowsOf, ResetLeavesOnlyCommit, Succeeds, At
<1> QED
  BY <1>1, <1>2, AskedForStays, ResetsSafeKept, UpdateAlwaysSafe, PTL DEF UpdateSpec
=============================================================================
