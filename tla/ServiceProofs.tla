--------------------------- MODULE ServiceProofs ---------------------------
(***************************************************************************)
(* What the guard buys the server: scans, their workers and rankings, for  *)
(* any number of crawlers and workers, with failures and restarts.  The    *)
(* types hold beside direct Update calls too; that tasks stay apart, that  *)
(* no history is lost and no row put back, and that the graph keeps up     *)
(* with the records, holds as long as there are none.                      *)
(***************************************************************************)
EXTENDS Service, UpdateProofs, ScanGuardProofs

-----------------------------------------------------------------------------
(* The inductive invariant, with direct calls or without.                  *)

\* Rank holds a row that was reported when it was loaded; it may be stored.
HeldReported ==
    \A r \in DOMAIN rank : rank[r].held # << >> =>
        /\ rank[r].held[2].digest \in reported[rank[r].held[2].repo]
        /\ rank[r].held[1] \in Contents[<<rank[r].held[2].repo, rank[r].held[2].digest>>]

ScansTyped ==
    /\ IsMap(scan, Clients, ScanState)
    /\ DOMAIN scan = {s \in Clients : crawl[s] = "scan"}
    /\ DOMAIN scan \subseteq busy

RanksTyped ==
    /\ IsMap(rank, Clients, RankState)
    /\ DOMAIN rank = {s \in Clients : crawl[s] = "rank"}
    /\ DOMAIN rank \subseteq busy

ServiceSafe ==
    /\ UpdateSafe
    /\ CounterCounts
    /\ crawl \in [Clients -> {"wait", "scan", "scanned", "rank"}]
    /\ direct \in BOOLEAN
    /\ ScansTyped /\ RanksTyped /\ HeldReported

\* It implies the types that are checked.
LEMMA ServiceSafeSuffices == ServiceSafe => ServiceTypeOK
BY UpdateSafeSuffices
DEF ServiceSafe, ServiceTypeOK, ScansTyped, RanksTyped, ScanTypeOK, RankTypeOK

-----------------------------------------------------------------------------
(* The start: every repository was added at its first head.                *)

\* The record of a repository that was added and answered once (poll.go:193).
LEMMA FirstRecord ==
    ASSUME NEW u \in Urls
    PROVE  /\ FirstHead[u] \in RemoteHead /\ FirstHead[u].url = u
           /\ Answered(NewStatus(AnyRef), FirstHead[u].name, FirstHead[u].digest) \in Status
           /\ Answered(NewStatus(AnyRef), FirstHead[u].name, FirstHead[u].digest).tag = NoLabel
           /\ Answered(NewStatus(AnyRef), FirstHead[u].name, FirstHead[u].digest).ref = FirstHead[u].name
           /\ Answered(NewStatus(AnyRef), FirstHead[u].name, FirstHead[u].digest).digest = FirstHead[u].digest
           /\ Answered(NewStatus(AnyRef), FirstHead[u].name, FirstHead[u].digest).hist = << >>
<1>1. FirstHead[u] \in RemoteHead /\ FirstHead[u].url = u
  BY ServiceAssumption
<1>2. PICK name \in Names, digest \in Digests :
          FirstHead[u].name = name /\ FirstHead[u].digest = digest
  BY <1>1 DEF RemoteHead
<1>3. PICK new : new = NewStatus(AnyRef)
  OBVIOUS
<1>4. new \in Status /\ new.digest = NoDigest /\ new.hist = << >> /\ new.tag = NoLabel
  BY <1>3, NewStatusType, PollAssumption DEF NewStatus
<1>5. Remembered(new, digest) = << >>
  BY <1>4 DEF Remembered
<1>6. PICK stat : stat = Answered(new, name, digest)
  OBVIOUS
<1>7. /\ stat \in Status /\ stat.ref = name /\ stat.digest = digest
      /\ stat.hist = << >> /\ stat.tag = NoLabel
  <2>1. Len(new.hist) <= MaxHistory
    BY <1>4, PollAssumption, EmptySeq
  <2>2. stat.tag = NoLabel
    BY <1>4, <1>6 DEF Answered, Status
  <2> QED
    BY <1>4, <1>5, <1>6, <2>1, <2>2, AnsweredStatus
<1> QED
  BY <1>1, <1>2, <1>3, <1>6, <1>7

LEMMA ServiceInitSafe ==
    ASSUME GuardAssumption, ServiceInit
    PROVE  ServiceSafe
<1>1. /\ DOMAIN repoDB = Urls \X {NoLabel}
      /\ \A k \in DOMAIN repoDB :
             /\ k[1] \in Urls /\ k \in Key
             /\ repoDB[k] = Answered(NewStatus(AnyRef), FirstHead[k[1]].name, FirstHead[k[1]].digest)
  BY DEF ServiceInit, Key
<1>2. IsMap(repoDB, Key, Status)
  <2>1. \A k \in DOMAIN repoDB : repoDB[k] \in Status
    BY <1>1, FirstRecord
  <2>2. repoDB = [k \in DOMAIN repoDB |-> repoDB[k]]
    BY DEF ServiceInit
  <2> QED
    BY <1>1, <2>1, <2>2 DEF IsMap
<1>3. reported \in [Urls -> SUBSET Digests] /\ resolved \subseteq RemoteHead
  BY FirstRecord DEF ServiceInit, RemoteHead
<1>4. StoredSound
  <2> SUFFICES ASSUME NEW k \in DOMAIN repoDB
               PROVE  Sound(k[1], repoDB[k])
    BY DEF StoredSound
  <2>1. PICK u \in Urls : u = k[1]
    BY <1>1
  <2>2. PICK stat : stat = repoDB[k]
    OBVIOUS
  <2>3. PICK head : head = FirstHead[u]
    OBVIOUS
  <2>4. /\ head \in RemoteHead /\ head.url = u
        /\ stat \in Status /\ stat.ref = head.name /\ stat.digest = head.digest /\ stat.hist = << >>
    BY <1>1, <2>1, <2>2, <2>3, FirstRecord
  <2>5. head \in resolved /\ head.digest \in reported[u]
    BY <2>3 DEF ServiceInit
  <2>6. head = [url |-> u, name |-> stat.ref, digest |-> stat.digest]
    BY <2>4 DEF RemoteHead
  <2>7. Trimmed(u, stat)
    BY <2>4, PollAssumption, EmptySeq DEF Trimmed
  <2>8. Reported(u, stat) /\ Resolved(u, stat)
    BY <2>4, <2>5, <2>6 DEF Reported, Resolved
  <2> QED
    BY <2>1, <2>2, <2>4, <2>7, <2>8 DEF Sound
<1>5. /\ IsMap(pending, Callers, InFlight) /\ DOMAIN pending = {}
      /\ IsMap(call, Callers, Call) /\ DOMAIN call = {}
      /\ IsMap(scan, Clients, ScanState) /\ DOMAIN scan = {}
      /\ IsMap(rank, Clients, RankState) /\ DOMAIN rank = {}
  BY EmptyMap DEF ServiceInit
<1>6. IsMap(graph, Packages, Row) /\ RowsReported
  <2>1. \A p \in DOMAIN graph : \E u \in Urls :
            /\ p \in Contents[<<u, FirstHead[u].digest>>]
            /\ graph[p] = [repo |-> u, digest |-> FirstHead[u].digest]
    <3>1. DOMAIN graph = UNION {Contents[<<u, FirstHead[u].digest>>] : u \in Urls}
      BY DEF ServiceInit
    <3>2. ASSUME NEW u \in Urls, NEW p \in Contents[<<u, FirstHead[u].digest>>]
          PROVE  graph[p] = [repo |-> u, digest |-> FirstHead[u].digest]
      BY DEF ServiceInit, InGraph
    <3> QED
      BY <3>1, <3>2
  <2>2. \A u \in Urls : FirstHead[u].digest \in reported[u] /\ FirstHead[u].digest \in Digests
    BY FirstRecord DEF ServiceInit, RemoteHead
  <2>3. DOMAIN graph \subseteq Packages
    <3> SUFFICES ASSUME NEW p \in DOMAIN graph PROVE p \in Packages
      OBVIOUS
    <3>1. PICK u \in Urls : p \in Contents[<<u, FirstHead[u].digest>>]
      BY <2>1
    <3>2. PICK digest \in Digests : digest = FirstHead[u].digest
      BY <2>2
    <3>3. Contents[<<u, digest>>] \in SUBSET Packages
      BY UpdateAssumption
    <3> QED
      BY <3>1, <3>2, <3>3
  <2>4. graph \in [DOMAIN graph -> Row]
    BY DEF ServiceInit
  <2>5. RowsReported
    <3> SUFFICES ASSUME NEW p \in DOMAIN graph
                 PROVE  /\ graph[p].digest \in reported[graph[p].repo]
                        /\ p \in Contents[<<graph[p].repo, graph[p].digest>>]
      BY DEF RowsReported
    <3>1. PICK u \in Urls : /\ p \in Contents[<<u, FirstHead[u].digest>>]
                            /\ graph[p] = [repo |-> u, digest |-> FirstHead[u].digest]
      BY <2>1
    <3>2. graph[p].repo = u /\ graph[p].digest = FirstHead[u].digest
      BY <3>1
    <3> QED
      BY <2>2, <3>1, <3>2
  <2> QED
    BY <2>3, <2>4, <2>5 DEF IsMap
<1>7. UpdateSafe
  BY <1>2, <1>3, <1>4, <1>5, <1>6
  DEF UpdateSafe, PollSafe, PendingSound, CallsSafe, CallsTrusted, PendingMatches
<1>8. crawl \in [Clients -> {"wait"}] /\ direct \in BOOLEAN
  BY DEF ServiceInit
<1>9. CounterCounts
  BY CounterInit DEF ServiceInit
<1> QED
  BY <1>5, <1>7, <1>8, <1>9 DEF ServiceSafe, ScansTyped, RanksTyped, HeldReported

-----------------------------------------------------------------------------
(* Scans and rankings one by one.                                          *)

\* A scan goes on.
LEMMA ScanGoesOn ==
    ASSUME ScansTyped, NEW s \in DOMAIN scan, NEW new \in ScanState,
           scan' = [scan EXCEPT ![s] = new], UNCHANGED <<busy, crawl>>
    PROVE  ScansTyped'
BY DEF ScansTyped, IsMap

\* The record of a scan, changed in one of the ways the code changes it.
LEMMA ScanParts ==
    ASSUME ScansTyped, NEW s \in DOMAIN scan
    PROVE  /\ scan[s] \in ScanState
           /\ scan[s].todo \subseteq Key /\ scan[s].queue \subseteq Key \X UpdateReq
           /\ scan[s].workers \subseteq Callers /\ scan[s].failed \in BOOLEAN
BY DEF ScansTyped, IsMap, ScanState

\* The request made of a record is one that Update accepts (scan.go:83-97).
LEMMA TaskRequestType ==
    ASSUME IsMap(repoDB, Key, Status), NEW key \in DOMAIN repoDB
    PROVE  TaskRequest(key, repoDB[key]) \in UpdateReq
<1>1. repoDB[key] \in Status /\ key[1] \in Urls
  BY DEF IsMap, Key
<1> QED
  BY <1>1 DEF TaskRequest, UpdateReq, Status

\* A ranking goes on.
LEMMA RankGoesOn ==
    ASSUME RanksTyped, NEW r \in DOMAIN rank, NEW new \in RankState,
           rank' = [rank EXCEPT ![r] = new], UNCHANGED <<busy, crawl>>
    PROVE  RanksTyped'
BY DEF RanksTyped, IsMap

\* Each step of an Update leaves what was reported (poll.go:199).
LEMMA ReportedGrows ==
    ASSUME UpdateSafe, NEW c \in Callers, UpdateStep(c)
    PROVE  \A u \in Urls : reported[u] \subseteq reported'[u]
<1>1. CASE \E name \in Names, digest \in Digests : CheckSucceeds(c, name, digest)
  <2>1. reported \in [Urls -> SUBSET Digests]
    BY DEF UpdateSafe, PollSafe
  <2>2. \E u, d : reported' = [reported EXCEPT ![u] = @ \cup {d}] \/ reported' = [reported EXCEPT ![u] = @]
    BY <1>1 DEF CheckSucceeds, HeadAnswers
  <2> QED
    BY <2>1, <2>2
<1>2. CASE ~ \E name \in Names, digest \in Digests : CheckSucceeds(c, name, digest)
  <2>1. reported' = reported
    BY <1>2 DEF UpdateStep, CheckErrs, HeadFails, CheckAborts, ReturnsUnchanged, UpdateStarts,
       ResetStep, ResetLoads, ResetAborts, ResetRemoves, ResetRemoveFails, ResetDone,
       StoreStep, CloneLoads, CloneFails, AddPackage, AddFails, UpdateDone, pollVars
  <2> QED
    BY <2>1
<1> QED
  BY <1>1, <1>2

-----------------------------------------------------------------------------
(* The steps, with direct calls or without.                                *)

\* What a step needs to keep besides the types of scans and rankings.
LEMMA HeldStays ==
    ASSUME HeldReported, UNCHANGED rank, RanksTyped,
           \A u \in Urls : reported[u] \subseteq reported'[u]
    PROVE  HeldReported'
<1> SUFFICES ASSUME NEW r \in DOMAIN rank, rank[r].held # << >>
             PROVE  /\ rank[r].held[2].digest \in reported'[rank[r].held[2].repo]
                    /\ rank[r].held[1] \in
                           Contents[<<rank[r].held[2].repo, rank[r].held[2].digest>>]
  BY DEF HeldReported
<1>1. PICK held : held = rank[r].held
  OBVIOUS
<1>2. held \in Packages \X Row
  BY <1>1 DEF RanksTyped, IsMap, RankState
<1>3. held[2].repo \in Urls
  BY <1>2 DEF Row
<1> QED
  BY <1>1, <1>3 DEF HeldReported

\* A scan begins or is refused (scan.go:25-57).
LEMMA CrawlScansSafe ==
    ASSUME GuardAssumption, MaxRefused < Modulus - 1,
           ServiceSafe, NEW s \in Clients, CrawlScans(s)
    PROVE  ServiceSafe'
<1>1. UpdateSafe' /\ HeldReported' /\ UNCHANGED <<rank, direct, reported>>
  <2>1. UNCHANGED <<updateVars, rank, direct>>
    BY DEF CrawlScans, ScanBegins, ScanRefused
  <2>2. UpdateSafe'
    BY <2>1, UpdateStutters DEF ServiceSafe
  <2> QED
    BY <2>1, <2>2 DEF ServiceSafe, HeldReported, updateVars
<1>2. CASE \E valid \in BOOLEAN : ScanBegins(s, valid) /\ Crawls(s, "scan")
  <2>1. PICK valid \in BOOLEAN : ScanBegins(s, valid) /\ Crawls(s, "scan")
    BY <1>2
  <2>2. PICK new : new = [todo |-> IF valid THEN Listing(repoDB) ELSE {},
                          queue |-> {}, workers |-> {}, failed |-> ~valid]
    OBVIOUS
  <2>3. new \in ScanState
    BY <2>2 DEF ScanState, Listing, ServiceSafe, UpdateSafe, PollSafe, IsMap
  <2>4. Admitted(s) /\ scan' = Put(scan, s, new) /\ crawl' = [crawl EXCEPT ![s] = "scan"]
    BY <2>1, <2>2 DEF ScanBegins, Crawls
  <2>5. crawl[s] = "wait"
    BY DEF CrawlScans
  <2>6. CounterCounts'
    BY <2>4, CounterStep DEF ServiceSafe, GuardNext
  <2>7. ScansTyped'
    BY <2>3, <2>4 DEF ServiceSafe, ScansTyped, IsMap, Put, Admitted
  <2>8. RanksTyped'
    BY <1>1, <2>4, <2>5 DEF ServiceSafe, RanksTyped, Admitted
  <2>9. crawl' \in [Clients -> {"wait", "scan", "scanned", "rank"}]
    BY <2>4 DEF ServiceSafe
  <2> QED
    BY <1>1, <2>6, <2>7, <2>8, <2>9 DEF ServiceSafe
<1>3. CASE ScanRefused(s) /\ UNCHANGED crawl
  <2>1. Refused(s) /\ UNCHANGED <<scan, busy, crawl>>
    BY <1>3 DEF ScanRefused, Refused
  <2>2. CounterCounts'
    BY <2>1, CounterStep DEF ServiceSafe, GuardNext
  <2> QED
    BY <1>1, <2>1, <2>2 DEF ServiceSafe, ScansTyped, RanksTyped
<1> QED
  BY <1>2, <1>3 DEF CrawlScans

\* The listing of a scan goes on, or ends early (scan.go:68-104).
LEMMA ListingSafe ==
    ASSUME ServiceSafe, NEW s \in Clients,
           \/ \E key \in Key : ScanSkips(s, key) \/ ScanSamples(s, key)
           \/ ScanAborts(s),
           UNCHANGED <<crawl, rank, direct>>
    PROVE  ServiceSafe' /\ Scanning(s)'
<1>1. Scanning(s) /\ UNCHANGED <<updateVars, guardVars>>
  BY DEF ScanSkips, ScanSamples, ScanAborts
<1>2. \E new \in ScanState : scan' = [scan EXCEPT ![s] = new]
  <2>1. PICK old : old = scan[s]
    OBVIOUS
  <2>2. /\ old \in ScanState
        /\ old.todo \subseteq Key /\ old.queue \subseteq Key \X UpdateReq
        /\ old.workers \subseteq Callers /\ old.failed \in BOOLEAN
    BY <1>1, <2>1, ScanParts DEF ServiceSafe, Scanning
  <2>3. ASSUME NEW key \in Key, ScanSkips(s, key)
        PROVE  \E new \in ScanState : scan' = [scan EXCEPT ![s] = new]
    <3>1. [old EXCEPT !.todo = @ \ {key}] \in ScanState
      BY <2>2 DEF ScanState
    <3> QED
      BY <2>1, <2>3, <3>1 DEF ScanSkips
  <2>4. ASSUME NEW key \in Key, ScanSamples(s, key)
        PROVE  \E new \in ScanState : scan' = [scan EXCEPT ![s] = new]
    <3>1. PICK task : task = <<key, TaskRequest(key, repoDB[key])>>
      OBVIOUS
    <3>2. task \in Key \X UpdateReq
      BY <2>4, <3>1, TaskRequestType DEF ScanSamples, ServiceSafe, UpdateSafe, PollSafe
    <3>3. [old EXCEPT !.todo = @ \ {key}, !.queue = @ \cup {task}] \in ScanState
      BY <2>2, <3>2 DEF ScanState
    <3> QED
      BY <2>1, <2>4, <3>1, <3>3 DEF ScanSamples
  <2>5. CASE ScanAborts(s)
    <3>1. [old EXCEPT !.todo = {}, !.failed = TRUE] \in ScanState
      BY <2>2 DEF ScanState
    <3> QED
      BY <2>1, <2>5, <3>1 DEF ScanAborts
  <2> QED
    BY <2>3, <2>4, <2>5
<1>3. ScansTyped'
  BY <1>1, <1>2, ScanGoesOn DEF ServiceSafe, Scanning, guardVars
<1>4. UpdateSafe'
  BY <1>1, UpdateStutters DEF ServiceSafe
<1>5. Scanning(s)'
  BY <1>1, <1>2 DEF Scanning
<1>6. HeldReported'
  BY <1>1 DEF ServiceSafe, HeldReported, updateVars
<1>7. CounterCounts' /\ RanksTyped'
  BY <1>1 DEF ServiceSafe, CounterCounts, RanksTyped, guardVars
<1> QED
  BY <1>3, <1>4, <1>5, <1>6, <1>7 DEF ServiceSafe

\* A worker takes up a task (scan.go:98).
LEMMA TaskStartsSafe ==
    ASSUME ServiceSafe, NEW s \in Clients, NEW task \in scan[s].queue, NEW w \in Callers,
           TaskStarts(s, task, w), UNCHANGED <<crawl, rank, direct>>
    PROVE  ServiceSafe' /\ Scanning(s)'
<1>1. Scanning(s) /\ BeginUpdate(w, task[2]) /\ UNCHANGED guardVars
  BY DEF TaskStarts
<1>2. PICK old : old = scan[s]
  OBVIOUS
<1>3. /\ old \in ScanState /\ task \in Key \X UpdateReq
      /\ old.queue \subseteq Key \X UpdateReq /\ old.workers \subseteq Callers
  BY <1>1, <1>2, ScanParts DEF ServiceSafe, Scanning
<1>4. [old EXCEPT !.queue = @ \ {task}, !.workers = @ \cup {w}] \in ScanState
  BY <1>3 DEF ScanState
<1>5. \E new \in ScanState : scan' = [scan EXCEPT ![s] = new]
  BY <1>2, <1>4 DEF TaskStarts
<1>6. ScansTyped' /\ Scanning(s)'
  BY <1>1, <1>5, ScanGoesOn DEF ServiceSafe, Scanning, guardVars
<1>7. UpdateSafe'
  BY <1>1, <1>3, BeginSafe DEF ServiceSafe
<1>8. UNCHANGED reported
  BY <1>1 DEF BeginUpdate, CheckLoad
<1>9. HeldReported'
  BY <1>8, HeldStays DEF ServiceSafe
<1>10. CounterCounts' /\ RanksTyped'
  BY <1>1 DEF ServiceSafe, CounterCounts, RanksTyped, guardVars
<1> QED
  BY <1>6, <1>7, <1>9, <1>10 DEF ServiceSafe

\* A scan returns and leaves the guard (scan.go:40, 55-57).
LEMMA ScanReturnsSafe ==
    ASSUME GuardAssumption, MaxRefused < Modulus - 1,
           ServiceSafe, NEW s \in Clients, ScanReturns(s), UNCHANGED <<rank, direct>>,
           NEW next \in {"wait", "scanned"}, Crawls(s, next)
    PROVE  ServiceSafe'
<1>1. /\ s \in DOMAIN scan /\ Done(s) /\ scan' = Drop(scan, s) /\ UNCHANGED updateVars
      /\ crawl' = [crawl EXCEPT ![s] = next]
  BY DEF ScanReturns, Finished, Scanning, Crawls
<1>2. crawl[s] = "scan"
  BY <1>1 DEF ServiceSafe, ScansTyped
<1>3. CounterCounts'
  BY <1>1, CounterStep DEF ServiceSafe, GuardNext
<1>4. ScansTyped'
  BY <1>1, <1>2 DEF ServiceSafe, ScansTyped, IsMap, Drop, Done
<1>5. RanksTyped'
  BY <1>1, <1>2 DEF ServiceSafe, RanksTyped, Done
<1>6. UpdateSafe' /\ HeldReported'
  BY <1>1, UpdateStutters DEF ServiceSafe, HeldReported, updateVars
<1>7. crawl' \in [Clients -> {"wait", "scan", "scanned", "rank"}]
  BY <1>1 DEF ServiceSafe
<1> QED
  BY <1>3, <1>4, <1>5, <1>6, <1>7 DEF ServiceSafe

\* A step of a scan, of whatever kind.
LEMMA CrawlInScanSafe ==
    ASSUME GuardAssumption, MaxRefused < Modulus - 1,
           ServiceSafe, NEW s \in Clients, CrawlInScan(s)
    PROVE  ServiceSafe'
<1>1. CASE \E key \in Key : ScanSkips(s, key) \/ ScanSamples(s, key)
  <2>1. s \in DOMAIN scan'
    BY <1>1 DEF ScanSkips, ScanSamples, Scanning
  <2> QED
    BY <1>1, <2>1, ListingSafe DEF CrawlInScan, Scanning
<1>2. CASE \E task \in (IF Scanning(s) THEN scan[s].queue ELSE {}), w \in Callers :
               TaskStarts(s, task, w)
  <2>1. PICK task \in scan[s].queue, w \in Callers : TaskStarts(s, task, w)
    BY <1>2
  <2>2. s \in DOMAIN scan'
    BY <2>1 DEF TaskStarts, Scanning
  <2> QED
    BY <2>1, <2>2, TaskStartsSafe DEF CrawlInScan, Scanning
<1>3. CASE ScanReturns(s)
  <2>1. s \notin DOMAIN scan'
    BY <1>3 DEF ScanReturns, Drop
  <2>2. Crawls(s, IF scan[s].failed THEN "wait" ELSE "scanned") /\ UNCHANGED <<rank, direct>>
    BY <2>1 DEF CrawlInScan, Scanning
  <2> QED
    BY <1>3, <2>2, ScanReturnsSafe
<1> QED
  BY <1>1, <1>2, <1>3 DEF CrawlInScan, ScanStep

\* What a ranking may hold: nothing, or a row as RowsReported wants it.
Holdable(held) == held # << >> =>
    /\ held[2].digest \in reported[held[2].repo]
    /\ held[1] \in Contents[<<held[2].repo, held[2].digest>>]

\* A ranking goes on without storing (ranking.go:33-75, graph.go:114-123).
LEMMA RankGoesOnSafe ==
    ASSUME ServiceSafe, NEW r \in DOMAIN rank, NEW new \in RankState, Holdable(new.held),
           rank' = [rank EXCEPT ![r] = new],
           UNCHANGED <<updateVars, guardVars, scan, crawl, direct>>
    PROVE  ServiceSafe'
<1>1. RanksTyped'
  BY RankGoesOn DEF ServiceSafe, guardVars
<1>2. HeldReported'
  <2>1. /\ DOMAIN rank' = DOMAIN rank /\ rank'[r] = new
        /\ \A x \in DOMAIN rank \ {r} : rank'[x] = rank[x]
    BY DEF ServiceSafe, RanksTyped, IsMap
  <2> QED
    BY <2>1 DEF ServiceSafe, HeldReported, Holdable, updateVars
<1>3. UpdateSafe'
  BY UpdateStutters DEF ServiceSafe
<1>4. CounterCounts' /\ ScansTyped'
  BY DEF ServiceSafe, CounterCounts, ScansTyped, guardVars
<1> QED
  BY <1>1, <1>2, <1>3, <1>4 DEF ServiceSafe

\* A ranking begins or is refused (ranking.go:20-32).
LEMMA CrawlRanksSafe ==
    ASSUME GuardAssumption, MaxRefused < Modulus - 1,
           ServiceSafe, NEW s \in Clients, CrawlRanks(s)
    PROVE  ServiceSafe'
<1>1. UNCHANGED <<updateVars, scan, direct>> /\ crawl[s] = "scanned"
  BY DEF CrawlRanks, RankBegins, RankRefused
<1>2. UpdateSafe'
  BY <1>1, UpdateStutters DEF ServiceSafe
<1>3. CASE RankBegins(s, TRUE) /\ Crawls(s, "rank")
  <2>1. PICK new : new = [step |-> "load", update |-> TRUE,
                          todo |-> Listing(graph), held |-> << >>]
    OBVIOUS
  <2>2. new \in RankState /\ new.held = << >>
    BY <2>1 DEF RankState, Listing, ServiceSafe, UpdateSafe, IsMap
  <2>3. Admitted(s) /\ rank' = Put(rank, s, new) /\ crawl' = [crawl EXCEPT ![s] = "rank"]
    BY <1>3, <2>1 DEF RankBegins, Crawls
  <2>4. CounterCounts'
    BY <2>3, CounterStep DEF ServiceSafe, GuardNext
  <2>5. RanksTyped'
    BY <2>2, <2>3 DEF ServiceSafe, RanksTyped, IsMap, Put, Admitted
  <2>6. ScansTyped'
    BY <1>1, <2>3 DEF ServiceSafe, ScansTyped, Admitted
  <2>7. HeldReported'
    BY <1>1, <2>2, <2>3 DEF ServiceSafe, HeldReported, Put, updateVars
  <2>8. crawl' \in [Clients -> {"wait", "scan", "scanned", "rank"}]
    BY <2>3 DEF ServiceSafe
  <2> QED
    BY <1>1, <1>2, <2>4, <2>5, <2>6, <2>7, <2>8 DEF ServiceSafe
<1>4. CASE RankRefused(s, TRUE) /\ Crawls(s, "wait")
  <2>1. Refused(s) /\ UNCHANGED <<rank, busy>> /\ crawl' = [crawl EXCEPT ![s] = "wait"]
    BY <1>4 DEF RankRefused, Refused, Crawls
  <2>2. CounterCounts'
    BY <2>1, CounterStep DEF ServiceSafe, GuardNext
  <2>3. RanksTyped' /\ ScansTyped' /\ HeldReported'
    BY <1>1, <2>1 DEF ServiceSafe, RanksTyped, ScansTyped, HeldReported, updateVars
  <2>4. crawl' \in [Clients -> {"wait", "scan", "scanned", "rank"}]
    BY <2>1 DEF ServiceSafe
  <2> QED
    BY <1>1, <1>2, <2>2, <2>3, <2>4 DEF ServiceSafe
<1> QED
  BY <1>3, <1>4 DEF CrawlRanks

\* A row is stored back: it was a reported row when it was loaded, and what
\* was reported stays so (graph.go:124-131).
LEMMA RankStoresSafe ==
    ASSUME ServiceSafe, NEW r \in Clients, RankStores(r), UNCHANGED <<scan, crawl, direct>>
    PROVE  ServiceSafe' /\ r \in DOMAIN rank'
<1>1. PICK old : old = rank[r]
  OBVIOUS
<1>2. PICK held : held = old.held
  OBVIOUS
<1>3. /\ r \in DOMAIN rank /\ held # << >>
      /\ graph' = Put(graph, held[1], held[2]) /\ UNCHANGED <<pollVars, call, guardVars>>
  BY <1>1, <1>2 DEF RankStores, Ranking
<1>4. old \in RankState /\ held \in Packages \X Row
  BY <1>1, <1>2, <1>3 DEF ServiceSafe, RanksTyped, IsMap, RankState
<1>5. /\ held[2].digest \in reported[held[2].repo]
      /\ held[1] \in Contents[<<held[2].repo, held[2].digest>>]
  BY <1>1, <1>2, <1>3 DEF ServiceSafe, HeldReported
<1>6. PICK new : new = [old EXCEPT !.held = << >>]
  OBVIOUS
<1>7. new \in RankState /\ new.held = << >> /\ rank' = [rank EXCEPT ![r] = new]
  BY <1>1, <1>4, <1>6 DEF RankStores, RankState
<1>8. RanksTyped' /\ r \in DOMAIN rank'
  BY <1>3, <1>7, RankGoesOn DEF ServiceSafe, guardVars
<1>9. HeldReported'
  <2>1. /\ DOMAIN rank' = DOMAIN rank /\ rank'[r] = new
        /\ \A x \in DOMAIN rank \ {r} : rank'[x] = rank[x]
    BY <1>3, <1>7 DEF ServiceSafe, RanksTyped, IsMap
  <2> QED
    BY <1>3, <1>7, <2>1 DEF ServiceSafe, HeldReported, pollVars
<1>10. PICK p, row : p = held[1] /\ row = held[2]
  OBVIOUS
<1>11. p \in Packages /\ row \in Row
  BY <1>4, <1>10
<1>12. /\ DOMAIN graph' = DOMAIN graph \cup {p} /\ graph'[p] = row
       /\ \A q \in DOMAIN graph \ {p} : graph'[q] = graph[q]
       /\ IsMap(graph', Packages, Row)
  BY <1>3, <1>10, <1>11 DEF ServiceSafe, UpdateSafe, IsMap, Put
<1>13. RowsReported'
  BY <1>3, <1>5, <1>10, <1>12 DEF ServiceSafe, UpdateSafe, RowsReported, pollVars
<1>14. PollSafe' /\ CallsSafe'
  BY <1>3, StutterSafe
  DEF ServiceSafe, UpdateSafe, CallsSafe, CallsTrusted, Trusted, PendingMatches, pollVars
<1>15. CounterCounts' /\ ScansTyped'
  BY <1>3 DEF ServiceSafe, CounterCounts, ScansTyped, guardVars
<1> QED
  BY <1>8, <1>9, <1>12, <1>13, <1>14, <1>15 DEF ServiceSafe, UpdateSafe

\* A ranking that loads, computes, reads or ends with an error.
LEMMA RankingSafe ==
    ASSUME ServiceSafe, NEW r \in Clients,
           \/ \E p \in Packages :
                  \/ RankLoads(r, p) \/ RankMisses(r, p)
                  \/ \E differs \in BOOLEAN : RankReads(r, p, differs)
           \/ RankComputes(r)
           \/ RankFails(r),
           UNCHANGED <<scan, crawl, direct>>
    PROVE  ServiceSafe' /\ r \in DOMAIN rank'
<1>1. PICK old : old = rank[r]
  OBVIOUS
<1>2. r \in DOMAIN rank /\ UNCHANGED <<updateVars, guardVars>>
  BY DEF RankLoads, RankMisses, RankReads, RankComputes, RankFails, RankAborts, Ranking
<1>3. old \in RankState /\ Holdable(old.held)
  BY <1>1, <1>2 DEF ServiceSafe, RanksTyped, IsMap, HeldReported, Holdable
<1>4. DOMAIN graph \subseteq Packages
  BY DEF ServiceSafe, UpdateSafe, IsMap
<1>5. \E new \in RankState : Holdable(new.held) /\ rank' = [rank EXCEPT ![r] = new]
  <2>1. ASSUME NEW p \in Packages, RankLoads(r, p)
        PROVE  \E new \in RankState : Holdable(new.held) /\ rank' = [rank EXCEPT ![r] = new]
    <3>1. PICK new : new = [old EXCEPT !.todo = @ \ {p}]
      OBVIOUS
    <3>2. new \in RankState /\ new.held = old.held
      BY <1>3, <3>1 DEF RankState
    <3> QED
      BY <1>1, <1>3, <2>1, <3>1, <3>2 DEF RankLoads
  <2>2. ASSUME RankAborts(r)
        PROVE  \E new \in RankState : Holdable(new.held) /\ rank' = [rank EXCEPT ![r] = new]
    <3>1. PICK new : new = [old EXCEPT !.step = "end", !.todo = {}, !.held = << >>]
      OBVIOUS
    <3>2. new \in RankState /\ new.held = << >>
      BY <1>3, <3>1 DEF RankState
    <3> QED
      BY <1>1, <2>2, <3>1, <3>2 DEF RankAborts, Holdable
  <2>3. ASSUME NEW p \in Packages, NEW differs \in BOOLEAN, RankReads(r, p, differs)
        PROVE  \E new \in RankState : Holdable(new.held) /\ rank' = [rank EXCEPT ![r] = new]
    <3>1. PICK held : held = IF differs /\ rank[r].update THEN <<p, graph[p]>> ELSE << >>
      OBVIOUS
    <3>2. PICK new : new = [old EXCEPT !.todo = @ \ {p}, !.held = held]
      OBVIOUS
    <3>3. held \in {<< >>} \cup Packages \X Row
      BY <2>3, <3>1 DEF RankReads, ServiceSafe, UpdateSafe, IsMap
    <3>4. Holdable(held)
      BY <2>3, <3>1 DEF RankReads, ServiceSafe, UpdateSafe, RowsReported, Holdable
    <3>5. new \in RankState /\ new.held = held
      BY <1>3, <3>2, <3>3 DEF RankState
    <3>6. rank' = [rank EXCEPT ![r] = new]
      BY <1>1, <2>3, <3>1, <3>2 DEF RankReads
    <3> QED
      BY <3>4, <3>5, <3>6
  <2>4. CASE RankComputes(r)
    <3>1. PICK new : new = [old EXCEPT !.step = "write", !.todo = Listing(graph)]
      OBVIOUS
    <3>2. new \in RankState /\ new.held = old.held
      BY <1>3, <1>4, <3>1 DEF RankState, Listing
    <3> QED
      BY <1>1, <1>3, <2>4, <3>1, <3>2 DEF RankComputes
  <2> QED
    BY <2>1, <2>2, <2>3, <2>4 DEF RankMisses, RankFails
<1>6. r \in DOMAIN rank'
  BY <1>2, <1>5
<1> QED
  BY <1>2, <1>5, <1>6, RankGoesOnSafe

\* A ranking returns and leaves the guard (ranking.go:32).
LEMMA RankReturnsSafe ==
    ASSUME GuardAssumption, MaxRefused < Modulus - 1,
           ServiceSafe, NEW r \in Clients, RankReturns(r), UNCHANGED <<scan, direct>>,
           Crawls(r, "wait")
    PROVE  ServiceSafe'
<1>1. /\ r \in DOMAIN rank /\ Done(r) /\ rank' = Drop(rank, r) /\ UNCHANGED updateVars
      /\ crawl' = [crawl EXCEPT ![r] = "wait"]
  BY DEF RankReturns, Crawls
<1>2. crawl[r] = "rank"
  BY <1>1 DEF ServiceSafe, RanksTyped
<1>3. CounterCounts'
  BY <1>1, CounterStep DEF ServiceSafe, GuardNext
<1>4. RanksTyped'
  BY <1>1, <1>2 DEF ServiceSafe, RanksTyped, IsMap, Drop, Done
<1>5. ScansTyped'
  BY <1>1, <1>2 DEF ServiceSafe, ScansTyped, Done
<1>6. HeldReported'
  BY <1>1 DEF ServiceSafe, HeldReported, Drop, updateVars
<1>7. UpdateSafe'
  BY <1>1, UpdateStutters DEF ServiceSafe
<1>8. crawl' \in [Clients -> {"wait", "scan", "scanned", "rank"}]
  BY <1>1 DEF ServiceSafe
<1> QED
  BY <1>3, <1>4, <1>5, <1>6, <1>7, <1>8 DEF ServiceSafe

\* A step of a ranking, of whatever kind.
LEMMA CrawlInRankSafe ==
    ASSUME GuardAssumption, MaxRefused < Modulus - 1,
           ServiceSafe, NEW s \in Clients, CrawlInRank(s)
    PROVE  ServiceSafe'
<1>1. CASE \/ \E p \in Packages :
                  \/ RankLoads(s, p) \/ RankMisses(s, p)
                  \/ \E differs \in BOOLEAN : RankReads(s, p, differs)
           \/ RankComputes(s)
  <2>1. s \in DOMAIN rank'
    BY <1>1 DEF RankLoads, RankMisses, RankReads, RankComputes, RankAborts, Ranking
  <2> QED
    BY <1>1, <2>1, RankingSafe DEF CrawlInRank
<1>2. CASE RankStores(s)
  <2>1. s \in DOMAIN rank'
    BY <1>2 DEF RankStores, Ranking
  <2> QED
    BY <1>2, <2>1, RankStoresSafe DEF CrawlInRank
<1>3. CASE RankReturns(s)
  <2>1. s \notin DOMAIN rank'
    BY <1>3 DEF RankReturns, Drop
  <2> QED
    BY <1>3, <2>1, RankReturnsSafe DEF CrawlInRank
<1> QED
  BY <1>1, <1>2, <1>3 DEF CrawlInRank, RankStep

\* A worker goes on with its task; one that is done leaves the group.
LEMMA WorkerSafe ==
    ASSUME ServiceSafe, NEW w \in Callers, WorkerStep(w)
    PROVE  ServiceSafe'
<1>1. /\ UpdateStep(w) /\ UNCHANGED <<guardVars, rank, crawl, direct>>
      /\ scan' = [s \in DOMAIN scan |-> [scan[s] EXCEPT !.workers = @ \cap DOMAIN call']]
  BY DEF WorkerStep, TaskStep
<1>2. UpdateSafe'
  BY <1>1, StepSafe DEF ServiceSafe
<1>3. HeldReported'
  BY <1>1, ReportedGrows, HeldStays DEF ServiceSafe
<1>4. ScansTyped'
  <2>1. ASSUME NEW s \in DOMAIN scan PROVE scan'[s] \in ScanState
    BY <1>1, ScanParts DEF ServiceSafe, ScanState
  <2> QED
    BY <1>1, <2>1 DEF ServiceSafe, ScansTyped, IsMap, guardVars
<1>5. CounterCounts' /\ RanksTyped'
  BY <1>1 DEF ServiceSafe, CounterCounts, RanksTyped, guardVars
<1> QED
  BY <1>1, <1>2, <1>3, <1>4, <1>5 DEF ServiceSafe

\* A direct call begins (update.go:36-47).
LEMMA DirectSafe ==
    ASSUME ServiceSafe, NEW c \in Callers, NEW req \in UpdateReq, DirectUpdate(c, req)
    PROVE  ServiceSafe'
<1>1. BeginUpdate(c, req) /\ direct' = TRUE /\ UNCHANGED <<guardVars, scan, rank, crawl, reported>>
  BY DEF DirectUpdate, BeginUpdate, CheckLoad
<1>2. UpdateSafe'
  BY <1>1, BeginSafe DEF ServiceSafe
<1>3. HeldReported' /\ CounterCounts' /\ ScansTyped' /\ RanksTyped'
  BY <1>1 DEF ServiceSafe, HeldReported, CounterCounts, ScansTyped, RanksTyped, guardVars
<1> QED
  BY <1>1, <1>2, <1>3 DEF ServiceSafe

\* The server restarts with an empty guard (service.go:126).
LEMMA ServerRestartsSafe ==
    ASSUME GuardAssumption, ServiceSafe, ServerRestarts
    PROVE  ServiceSafe'
<1>1. UpdateSafe'
  BY RestartSafe DEF ServiceSafe, ServerRestarts
<1>2. /\ IsMap(scan', Clients, ScanState) /\ DOMAIN scan' = {}
      /\ IsMap(rank', Clients, RankState) /\ DOMAIN rank' = {}
  BY EmptyMap DEF ServerRestarts
<1>3. ScansTyped' /\ RanksTyped' /\ HeldReported'
  BY <1>2 DEF ServerRestarts, ScansTyped, RanksTyped, HeldReported
<1>4. CounterCounts'
  BY DEF ServerRestarts, CounterCounts, GuardAssumption
<1> QED
  BY <1>1, <1>3, <1>4 DEF ServiceSafe, ServerRestarts

\* Every step keeps the invariant.
LEMMA ServiceStepSafe ==
    ASSUME GuardAssumption, MaxRefused < Modulus - 1,
           ServiceSafe, [ServiceNext]_serviceVars
    PROVE  ServiceSafe'
<1>1. ASSUME NEW s \in Clients, CrawlScans(s) \/ CrawlStep(s)
      PROVE  ServiceSafe'
  BY <1>1, CrawlScansSafe, CrawlInScanSafe, CrawlRanksSafe, CrawlInRankSafe DEF CrawlStep
<1>2. ASSUME NEW s \in Clients, CrawlFault(s)
      PROVE  ServiceSafe'
  BY <1>2, ListingSafe, RankingSafe DEF CrawlFault
<1>3. ASSUME NEW w \in Callers, NEW req \in Requests[w], DirectUpdate(w, req)
      PROVE  ServiceSafe'
  <2>1. req \in UpdateReq
    BY UpdateAssumption
  <2> QED
    BY <1>3, <2>1, DirectSafe
<1>4. CASE UNCHANGED serviceVars
  <2>1. UpdateSafe'
    BY <1>4, UpdateStutters DEF ServiceSafe, serviceVars
  <2> QED
    BY <1>4, <2>1 DEF ServiceSafe, HeldReported, CounterCounts, ScansTyped, RanksTyped,
                      serviceVars, guardVars, updateVars
<1> QED
  BY <1>1, <1>2, <1>3, <1>4, WorkerSafe, ServerRestartsSafe DEF ServiceNext

\* The inductive invariant holds in every reachable state.
THEOREM ServiceAlwaysSafe ==
    ASSUME GuardAssumption, MaxRefused < Modulus - 1
    PROVE  ServiceSpec => []ServiceSafe
<1>1. ServiceInit => ServiceSafe
  BY ServiceInitSafe
<1>2. ServiceSafe /\ [ServiceNext]_serviceVars => ServiceSafe'
  BY ServiceStepSafe
<1> QED
  BY <1>1, <1>2, PTL DEF ServiceSpec

\* Scans, rankings, their workers and direct calls keep their types and agree
\* with what the crawlers do, and every row stays one that was reported, though
\* rankings put rows back (scan.go, ranking.go, graph.go:113-131).
THEOREM ServiceTypes ==
    ASSUME GuardAssumption, MaxRefused < Modulus - 1
    PROVE  ServiceSpec => [](ServiceTypeOK /\ RowsReported)
<1>1. ServiceSafe => ServiceTypeOK /\ RowsReported
  BY ServiceSafeSuffices DEF ServiceSafe, UpdateSafe
<1> QED
  BY <1>1, ServiceAlwaysSafe, PTL

\* In the server, too, the counter counts one admitted call and the calls it
\* kept out, though the process restarts (scan.go:124-128).
THEOREM ServerCounts ==
    ASSUME GuardAssumption, MaxRefused < Modulus - 1
    PROVE  ServiceSpec => []CounterCounts
<1>1. ServiceSafe => CounterCounts
  BY DEF ServiceSafe
<1> QED
  BY <1>1, ServiceAlwaysSafe, PTL

-----------------------------------------------------------------------------
(* Without direct calls.                                                   *)

\* The key of the record a call of a scan works on.
TaskKey(w) == <<call[w].req.url, NoLabel>>

\* The repositories were added without labels, and each has answered.
PlainRecords ==
    \A k \in DOMAIN repoDB :
        k[2] = NoLabel /\ repoDB[k].tag = NoLabel /\ repoDB[k].digest # NoDigest

\* Every call belongs to the scan, and works on a record of its own.
CallsInside ==
    \A w \in DOMAIN call :
        /\ call[w].req.label = NoLabel
        /\ \E s \in DOMAIN scan : w \in scan[s].workers
        /\ \A v \in DOMAIN call : call[v].req.url = call[w].req.url => v = w

\* A Check in flight holds its record as it is stored.
PendingFresh ==
    \A c \in DOMAIN pending :
        /\ <<pending[c].url, NoLabel>> \in DOMAIN repoDB
        /\ pending[c].stat = repoDB[<<pending[c].url, NoLabel>>]

\* A record is listed, waiting with its task, or in the hands of a call.
ScanOrdered(s) ==
    /\ scan[s].todo \subseteq DOMAIN repoDB
    /\ \A t \in scan[s].queue :
           /\ t[1] \in DOMAIN repoDB \ scan[s].todo
           /\ t[2] = TaskRequest(t[1], repoDB[t[1]])
    /\ \A w \in DOMAIN call :
           /\ TaskKey(w) \notin scan[s].todo
           /\ \A t \in scan[s].queue : t[1] # TaskKey(w)

\* A ranking holds the row as it is stored.
HeldFresh ==
    \A r \in DOMAIN rank : rank[r].held # << >> =>
        rank[r].held[1] \in DOMAIN graph /\ graph[rank[r].held[1]] = rank[r].held[2]

Tidy ==
    /\ PlainRecords /\ CallsInside /\ PendingFresh /\ HeldFresh
    /\ \A s \in DOMAIN scan : ScanOrdered(s)

Undisturbed == direct \/ Tidy

-----------------------------------------------------------------------------
\* One scan or one ranking is in progress, not both.
LEMMA OneInside ==
    ASSUME ServiceSafe
    PROVE  /\ \A s, r \in DOMAIN scan : s = r
           /\ \A s \in DOMAIN scan : DOMAIN rank = {}
BY DEF ServiceSafe, CounterCounts, ScansTyped, RanksTyped

\* While the counter is zero, nothing is in progress.
LEMMA NoneInside ==
    ASSUME ServiceSafe, busy = {}
    PROVE  DOMAIN scan = {} /\ DOMAIN rank = {} /\ (Tidy => DOMAIN call = {})
<1>1. DOMAIN scan = {} /\ DOMAIN rank = {}
  BY DEF ServiceSafe, ScansTyped, RanksTyped
<1> QED
  BY <1>1 DEF Tidy, CallsInside

\* The servers start tidily.
LEMMA InitTidy == ServiceInit => Tidy
<1> SUFFICES ASSUME ServiceInit PROVE Tidy
  OBVIOUS
<1>1. /\ DOMAIN pending = {} /\ DOMAIN call = {} /\ DOMAIN scan = {} /\ DOMAIN rank = {}
  BY EmptyMap DEF ServiceInit
<1>2. PlainRecords
  <2> SUFFICES ASSUME NEW k \in DOMAIN repoDB
               PROVE  k[2] = NoLabel /\ repoDB[k].tag = NoLabel /\ repoDB[k].digest # NoDigest
    BY DEF PlainRecords
  <2>1. /\ k[1] \in Urls /\ k[2] = NoLabel
        /\ repoDB[k] = Answered(NewStatus(AnyRef), FirstHead[k[1]].name, FirstHead[k[1]].digest)
    BY DEF ServiceInit
  <2>2. FirstHead[k[1]].digest \in Digests
    BY <2>1, FirstRecord DEF RemoteHead
  <2> QED
    BY <2>1, <2>2, FirstRecord, PollAssumption
<1> QED
  BY <1>1, <1>2 DEF Tidy, CallsInside, PendingFresh, HeldFresh

\* A Check of a scan's call stores its own record and no other; the digest it
\* replaces becomes the last of the history (poll.go:182-196).
LEMMA StoresOwn ==
    ASSUME ServiceSafe, Tidy, NEW w \in Callers, UpdateStep(w)
    PROVE  /\ DOMAIN repoDB' = DOMAIN repoDB
           /\ PlainRecords'
           /\ repoDB' # repoDB => w \in DOMAIN pending /\ w \notin DOMAIN pending'
           /\ \A k \in DOMAIN repoDB : k # TaskKey(w) => repoDB'[k] = repoDB[k]
           /\ \A k \in DOMAIN repoDB : repoDB'[k].digest # repoDB[k].digest =>
                  /\ repoDB'[k].hist # << >>
                  /\ repoDB'[k].hist[Len(repoDB'[k].hist)] = repoDB[k].digest
           /\ DOMAIN pending' \subseteq DOMAIN pending
           /\ \A x \in DOMAIN pending' : pending'[x] = pending[x]
<1>1. CASE UNCHANGED repoDB /\ (UNCHANGED pending \/ pending' = Drop(pending, w))
  BY <1>1 DEF Tidy, PlainRecords, Drop
<1>2. ASSUME NEW stat, w \in DOMAIN pending, pending' = Drop(pending, w),
             repoDB' = Put(repoDB, TaskKey(w), stat),
             stat.tag = NoLabel, stat.digest # NoDigest, TaskKey(w) \in DOMAIN repoDB,
             stat.digest # repoDB[TaskKey(w)].digest =>
                 stat.hist # << >> /\ stat.hist[Len(stat.hist)] = repoDB[TaskKey(w)].digest
      PROVE  /\ DOMAIN repoDB' = DOMAIN repoDB
             /\ PlainRecords'
             /\ repoDB' # repoDB => w \in DOMAIN pending /\ w \notin DOMAIN pending'
             /\ \A k \in DOMAIN repoDB : k # TaskKey(w) => repoDB'[k] = repoDB[k]
             /\ \A k \in DOMAIN repoDB : repoDB'[k].digest # repoDB[k].digest =>
                    /\ repoDB'[k].hist # << >>
                    /\ repoDB'[k].hist[Len(repoDB'[k].hist)] = repoDB[k].digest
             /\ DOMAIN pending' \subseteq DOMAIN pending
             /\ \A x \in DOMAIN pending' : pending'[x] = pending[x]
  <2>1. PICK key : key = TaskKey(w)
    OBVIOUS
  <2>2. /\ DOMAIN repoDB' = DOMAIN repoDB /\ repoDB'[key] = stat
        /\ \A k \in DOMAIN repoDB \ {key} : repoDB'[k] = repoDB[k]
    BY <1>2, <2>1 DEF Put
  <2>3. PlainRecords'
    BY <1>2, <2>1, <2>2 DEF Tidy, PlainRecords
  <2>4. /\ w \notin DOMAIN pending' /\ DOMAIN pending' \subseteq DOMAIN pending
        /\ \A x \in DOMAIN pending' : pending'[x] = pending[x]
    BY <1>2 DEF Drop
  <2> QED
    BY <1>2, <2>1, <2>2, <2>3, <2>4
<1>3. ASSUME w \in DOMAIN pending
      PROVE  /\ pending[w].url = call[w].req.url /\ pending[w].label = NoLabel
             /\ TaskKey(w) \in DOMAIN repoDB /\ pending[w].stat = repoDB[TaskKey(w)]
             /\ TaskKey(w) = <<pending[w].url, pending[w].label>>
             /\ TaskKey(w) = FailureKey(pending[w])
             /\ pending[w].stat \in Status /\ Len(pending[w].stat.hist) <= MaxHistory
             /\ pending[w].stat.tag = NoLabel /\ pending[w].stat.digest \in Digests
  <2>1. PICK p : p = pending[w]
    OBVIOUS
  <2>2. p.url = call[w].req.url /\ p.label = NoLabel /\ w \in DOMAIN call
    BY <1>3, <2>1 DEF ServiceSafe, UpdateSafe, CallsSafe, PendingMatches, Tidy, CallsInside
  <2>3. TaskKey(w) \in DOMAIN repoDB /\ p.stat = repoDB[TaskKey(w)]
    BY <1>3, <2>1, <2>2 DEF Tidy, PendingFresh, TaskKey
  <2>4. p.stat \in Status /\ Len(p.stat.hist) <= MaxHistory
    BY <1>3, <2>1 DEF ServiceSafe, UpdateSafe, PollSafe, PendingSound, Sound, Trimmed
  <2>5. p.stat.tag = NoLabel /\ p.stat.digest # NoDigest
    BY <2>3 DEF Tidy, PlainRecords
  <2>6. p.stat.digest \in Digests
    BY <2>4, <2>5 DEF Status
  <2> QED
    BY <2>1, <2>2, <2>3, <2>4, <2>5, <2>6 DEF TaskKey, FailureKey
<1>4. ASSUME w \in DOMAIN pending, pending' = Drop(pending, w),
             NEW name \in Names, NEW digest \in Digests,
             repoDB' = Put(repoDB, <<pending[w].url, pending[w].label>>,
                           Answered(pending[w].stat, name, digest))
      PROVE  \E stat :
                 /\ repoDB' = Put(repoDB, TaskKey(w), stat)
                 /\ stat.tag = NoLabel /\ stat.digest # NoDigest
                 /\ stat.digest # repoDB[TaskKey(w)].digest =>
                        stat.hist # << >> /\ stat.hist[Len(stat.hist)] = repoDB[TaskKey(w)].digest
  <2>1. PICK old : old = pending[w].stat
    OBVIOUS
  <2>2. /\ old \in Status /\ Len(old.hist) <= MaxHistory /\ old.tag = NoLabel
        /\ old.digest \in Digests /\ old = repoDB[TaskKey(w)]
        /\ TaskKey(w) = <<pending[w].url, pending[w].label>>
    BY <1>3, <1>4, <2>1
  <2>3. PICK stat : stat = Answered(old, name, digest)
    OBVIOUS
  <2>4. /\ stat \in Status /\ stat.digest = digest /\ stat.hist = Remembered(old, digest)
    BY <2>2, <2>3, AnsweredStatus
  <2>5. stat.tag = NoLabel /\ stat.digest # NoDigest
    BY <2>2, <2>3, <2>4, PollAssumption DEF Answered, Status
  <2>6. ASSUME stat.digest # old.digest
        PROVE  stat.hist # << >> /\ stat.hist[Len(stat.hist)] = old.digest
    <3>1. stat.hist = Recent(Append(old.hist, old.digest))
      BY <2>2, <2>4, <2>6, PollAssumption DEF Remembered, NeedsUpdate
    <3>2. old.hist \in Seq(Digests) /\ stat.hist \in Seq(Digests)
      BY <2>2, <2>4 DEF Status
    <3>3. Table!Extends(stat.hist, old.hist, old.digest)
      BY <2>2, <3>1, <3>2, RecentExtends
    <3> QED
      <4>1. stat.hist[Len(stat.hist)] = old.digest
        BY <3>3 DEF Table!Extends
      <4>2. Len(old.hist) \in Nat
        BY <3>2, LenProperties
      <4>3. Len(stat.hist) > 0
        BY <3>3, <4>2, PollAssumption DEF Table!Extends
      <4> QED
        BY <4>1, <4>3, EmptySeq
  <2>7. repoDB' = Put(repoDB, TaskKey(w), stat)
    BY <1>4, <2>1, <2>2, <2>3
  <2> QED
    BY <2>2, <2>5, <2>6, <2>7
<1>5. ASSUME w \in DOMAIN pending, pending' = Drop(pending, w),
             repoDB' = Put(repoDB, FailureKey(pending[w]), Failed(pending[w].stat))
      PROVE  \E stat :
                 /\ repoDB' = Put(repoDB, TaskKey(w), stat)
                 /\ stat.tag = NoLabel /\ stat.digest # NoDigest
                 /\ stat.digest # repoDB[TaskKey(w)].digest =>
                        stat.hist # << >> /\ stat.hist[Len(stat.hist)] = repoDB[TaskKey(w)].digest
  <2>1. PICK old : old = pending[w].stat
    OBVIOUS
  <2>2. /\ old \in Status /\ old.tag = NoLabel
        /\ old.digest \in Digests /\ old = repoDB[TaskKey(w)]
        /\ TaskKey(w) = FailureKey(pending[w])
    BY <1>3, <1>5, <2>1
  <2>3. PICK stat : stat = Failed(old)
    OBVIOUS
  <2>4. stat.tag = NoLabel /\ stat.digest = old.digest
    BY <2>2, <2>3 DEF Failed, Status
  <2> QED
    BY <1>5, <2>1, <2>2, <2>3, <2>4, PollAssumption
<1>6. CASE /\ w \in DOMAIN pending /\ pending' = Drop(pending, w)
           /\ \/ \E name \in Names, digest \in Digests :
                     repoDB' = Put(repoDB, <<pending[w].url, pending[w].label>>,
                                   Answered(pending[w].stat, name, digest))
              \/ repoDB' = Put(repoDB, FailureKey(pending[w]), Failed(pending[w].stat))
  <2>1. PICK stat :
            /\ repoDB' = Put(repoDB, TaskKey(w), stat)
            /\ stat.tag = NoLabel /\ stat.digest # NoDigest
            /\ stat.digest # repoDB[TaskKey(w)].digest =>
                   stat.hist # << >> /\ stat.hist[Len(stat.hist)] = repoDB[TaskKey(w)].digest
    BY <1>4, <1>5, <1>6
  <2>2. TaskKey(w) \in DOMAIN repoDB
    BY <1>3, <1>6
  <2> QED
    BY <1>2, <1>6, <2>1, <2>2
<1> QED
  BY <1>1, <1>6, StepStores DEF ServiceSafe

-----------------------------------------------------------------------------
(* The steps, without direct calls.                                        *)

\* Neither the records nor the calls change, and the scans stay ordered.
LEMMA CallsUntouched ==
    ASSUME Tidy, UNCHANGED <<repoDB, pending, call>>, HeldFresh',
           \A w \in DOMAIN call, s \in DOMAIN scan :
               w \in scan[s].workers => s \in DOMAIN scan' /\ w \in scan'[s].workers,
           \A s \in DOMAIN scan' : ScanOrdered(s)'
    PROVE  Tidy'
BY DEF Tidy, PlainRecords, CallsInside, PendingFresh

\* A scan begins when nobody is inside: there are no calls (scan.go:31-46).
LEMMA CrawlScansTidy ==
    ASSUME GuardAssumption, MaxRefused < Modulus - 1,
           ServiceSafe, Tidy, NEW s \in Clients, CrawlScans(s)
    PROVE  Tidy'
<1>1. UNCHANGED <<updateVars, rank>>
  BY DEF CrawlScans, ScanBegins, ScanRefused
<1>2. HeldFresh'
  BY <1>1 DEF Tidy, HeldFresh, updateVars
<1>3. ASSUME NEW valid \in BOOLEAN, ScanBegins(s, valid)
      PROVE  Tidy'
  <2>1. DOMAIN scan = {} /\ DOMAIN call = {}
    BY <1>3, AdmittedWhenFree, NoneInside DEF ScanBegins, ServiceSafe
  <2>2. /\ DOMAIN scan' = {s} /\ scan'[s].queue = {}
        /\ scan'[s].todo \subseteq DOMAIN repoDB
    BY <1>3, <2>1 DEF ScanBegins, Put, Listing
  <2>3. ScanOrdered(s)'
    BY <1>1, <2>1, <2>2 DEF ScanOrdered, updateVars
  <2> QED
    BY <1>1, <1>2, <2>1, <2>2, <2>3, CallsUntouched DEF updateVars
<1>4. CASE ScanRefused(s)
  <2>1. scan' = scan
    BY <1>4 DEF ScanRefused
  <2>2. \A x \in DOMAIN scan' : ScanOrdered(x)'
    BY <1>1, <2>1 DEF Tidy, ScanOrdered, TaskKey, updateVars
  <2> QED
    BY <1>1, <1>2, <2>1, <2>2, CallsUntouched DEF updateVars
<1> QED
  BY <1>3, <1>4 DEF CrawlScans

\* A listed key becomes a task, or nothing (scan.go:68-104).
LEMMA ListingTidy ==
    ASSUME ServiceSafe, Tidy, NEW s \in Clients,
           \/ \E key \in Key : ScanSkips(s, key) \/ ScanSamples(s, key)
           \/ ScanAborts(s),
           UNCHANGED rank
    PROVE  Tidy'
<1>1. s \in DOMAIN scan /\ UNCHANGED updateVars
  BY DEF ScanSkips, ScanSamples, ScanAborts, Scanning
<1>2. DOMAIN scan = {s}
  BY <1>1, OneInside
<1>3. HeldFresh'
  BY <1>1 DEF Tidy, HeldFresh, updateVars
<1>4. PICK old : old = scan[s]
  OBVIOUS
<1>5. old \in ScanState
  BY <1>1, <1>4, ScanParts DEF ServiceSafe
<1>6. ASSUME NEW new, scan' = [scan EXCEPT ![s] = new], new.workers = old.workers,
             new.todo \subseteq old.todo,
             \A t \in new.queue : t \in old.queue \/ \E key \in old.todo \ new.todo :
                 t = <<key, TaskRequest(key, repoDB[key])>>
      PROVE  Tidy'
  <2>1. DOMAIN scan' = {s} /\ scan'[s] = new
    BY <1>1, <1>2, <1>6
  <2>2. ScanOrdered(s)
    BY <1>1 DEF Tidy
  <2>3. ScanOrdered(s)'
    <3>1. \A w \in DOMAIN call : TaskKey(w)' = TaskKey(w)
      BY <1>1 DEF TaskKey, updateVars
    <3> QED
      BY <1>1, <1>4, <1>6, <2>1, <2>2, <3>1 DEF ScanOrdered, updateVars
  <2>4. \A x \in DOMAIN scan' : ScanOrdered(x)'
    BY <2>1, <2>3
  <2>5. \A w \in DOMAIN call, x \in DOMAIN scan :
            w \in scan[x].workers => x \in DOMAIN scan' /\ w \in scan'[x].workers
    BY <1>2, <1>4, <1>6, <2>1
  <2> QED
    BY <1>1, <1>3, <2>4, <2>5, CallsUntouched DEF updateVars
<1>7. ASSUME NEW key \in Key, ScanSkips(s, key)
      PROVE  Tidy'
  <2>1. PICK new : new = [old EXCEPT !.todo = @ \ {key}]
    OBVIOUS
  <2>2. new.workers = old.workers /\ new.queue = old.queue /\ new.todo \subseteq old.todo
    BY <1>5, <2>1 DEF ScanState
  <2>3. scan' = [scan EXCEPT ![s] = new]
    BY <1>4, <1>7, <2>1 DEF ScanSkips
  <2> QED
    BY <1>6, <2>2, <2>3
<1>8. ASSUME NEW key \in Key, ScanSamples(s, key)
      PROVE  Tidy'
  <2>1. PICK task : task = <<key, TaskRequest(key, repoDB[key])>>
    OBVIOUS
  <2>2. PICK new : new = [old EXCEPT !.todo = @ \ {key}, !.queue = @ \cup {task}]
    OBVIOUS
  <2>3. /\ new.workers = old.workers /\ new.queue = old.queue \cup {task}
        /\ new.todo = old.todo \ {key} /\ key \in old.todo
    BY <1>4, <1>5, <1>8, <2>2 DEF ScanState, ScanSamples
  <2>4. scan' = [scan EXCEPT ![s] = new]
    BY <1>4, <1>8, <2>1, <2>2 DEF ScanSamples
  <2>5. \A t \in new.queue : t \in old.queue \/ \E k \in old.todo \ new.todo :
            t = <<k, TaskRequest(k, repoDB[k])>>
    BY <2>1, <2>3
  <2> QED
    BY <1>6, <2>3, <2>4, <2>5
<1>9. CASE ScanAborts(s)
  <2>1. PICK new : new = [old EXCEPT !.todo = {}, !.failed = TRUE]
    OBVIOUS
  <2>2. new.workers = old.workers /\ new.queue = old.queue /\ new.todo = {}
    BY <1>5, <2>1 DEF ScanState
  <2>3. scan' = [scan EXCEPT ![s] = new]
    BY <1>4, <1>9, <2>1 DEF ScanAborts
  <2> QED
    BY <1>6, <2>2, <2>3
<1> QED
  BY <1>7, <1>8, <1>9

\* A worker takes up a task: its Check works on the record that was listed,
\* which nobody changed since (scan.go:77-98, poll.go:133-153).
LEMMA TaskStartsTidy ==
    ASSUME ServiceSafe, Tidy, NEW s \in Clients, NEW task \in scan[s].queue, NEW w \in Callers,
           TaskStarts(s, task, w), UNCHANGED rank
    PROVE  Tidy'
<1>1. s \in DOMAIN scan /\ BeginUpdate(w, task[2])
  BY DEF TaskStarts, Scanning
<1>2. DOMAIN scan = {s}
  BY <1>1, OneInside
<1>3. PICK old : old = scan[s]
  OBVIOUS
<1>4. old \in ScanState /\ old.queue \subseteq Key \X UpdateReq /\ task \in old.queue
  BY <1>1, <1>3, ScanParts DEF ServiceSafe
<1>5. PICK key : key = task[1]
  OBVIOUS
<1>6. ScanOrdered(s)
  BY <1>1 DEF Tidy
<1>7. PICK stat : stat = repoDB[key]
  OBVIOUS
<1>8. /\ key \in DOMAIN repoDB \ old.todo /\ task[2] = TaskRequest(key, stat)
      /\ key \in Key /\ key[2] = NoLabel /\ stat.tag = NoLabel /\ stat \in Status
  BY <1>3, <1>4, <1>5, <1>6, <1>7
  DEF ScanOrdered, Tidy, PlainRecords, ServiceSafe, UpdateSafe, PollSafe, IsMap
<1>9. PICK req : req = task[2]
  OBVIOUS
<1>10. req.url = key[1] /\ req.label = NoLabel /\ req.ref = stat.ref /\ key = <<req.url, NoLabel>>
  BY <1>8, <1>9 DEF TaskRequest, Key
<1>11. Retargeted(Relabelled(stat, NoLabel), stat.ref) = stat
  BY DEF Retargeted, Relabelled
<1>12. PICK p : p = [url |-> req.url, label |-> NoLabel, stat |-> stat]
  OBVIOUS
<1>13. pending' = Put(pending, w, p) /\ UNCHANGED <<repoDB, graph>>
  BY <1>1, <1>7, <1>8, <1>9, <1>10, <1>11, <1>12 DEF BeginUpdate, CheckLoad
<1>14. PICK new : new = [req |-> req, step |-> "check", needs |-> FALSE,
                         digest |-> NoDigest, todo |-> {}]
  OBVIOUS
<1>15. call' = Put(call, w, new) /\ new.req = req /\ w \notin DOMAIN call
  BY <1>1, <1>9, <1>14 DEF BeginUpdate
<1>16. /\ DOMAIN call' = DOMAIN call \cup {w} /\ call'[w] = new
       /\ \A v \in DOMAIN call : call'[v] = call[v]
  BY <1>15 DEF Put
<1>17. PICK next : next = [old EXCEPT !.queue = @ \ {task}, !.workers = @ \cup {w}]
  OBVIOUS
<1>18. /\ next.todo = old.todo /\ next.queue = old.queue \ {task}
       /\ next.workers = old.workers \cup {w}
  BY <1>4, <1>17 DEF ScanState
<1>19. DOMAIN scan' = {s} /\ scan'[s] = next
  BY <1>1, <1>2, <1>3, <1>17 DEF TaskStarts
<1>20. PlainRecords' /\ HeldFresh'
  BY <1>13 DEF Tidy, PlainRecords, HeldFresh
<1>21. PendingFresh'
  <2>1. /\ DOMAIN pending' = DOMAIN pending \cup {w} /\ pending'[w] = p
        /\ \A x \in DOMAIN pending \ {w} : pending'[x] = pending[x]
    BY <1>13 DEF Put
  <2>2. p.url = req.url /\ p.stat = stat
    BY <1>12
  <2> QED
    BY <1>7, <1>8, <1>10, <1>13, <2>1, <2>2 DEF Tidy, PendingFresh
<1>22. \A v \in DOMAIN call : call[v].req.url # req.url
  BY <1>3, <1>4, <1>5, <1>6, <1>10 DEF ScanOrdered, TaskKey
<1>23. CallsInside'
  BY <1>2, <1>3, <1>10, <1>15, <1>16, <1>18, <1>19, <1>22 DEF Tidy, CallsInside
<1>24. ScanOrdered(s)'
  <2>1. \A t \in old.queue : t # task => t[1] # key
    <3> SUFFICES ASSUME NEW t \in old.queue, t[1] = key PROVE t = task
      OBVIOUS
    <3>1. t[2] = TaskRequest(key, stat)
      BY <1>3, <1>6, <1>7 DEF ScanOrdered
    <3>2. t \in Key \X UpdateReq /\ task \in Key \X UpdateReq
      BY <1>4
    <3> QED
      BY <1>5, <1>8, <3>1, <3>2
  <2>2. TaskKey(w)' = key /\ \A v \in DOMAIN call : TaskKey(v)' = TaskKey(v)
    BY <1>10, <1>15, <1>16 DEF TaskKey
  <2>3. /\ next.todo \subseteq DOMAIN repoDB
        /\ \A t \in next.queue : t[1] \in DOMAIN repoDB \ next.todo /\ t[2] = TaskRequest(t[1], repoDB[t[1]])
    BY <1>3, <1>6, <1>18 DEF ScanOrdered
  <2>4. \A v \in DOMAIN call : TaskKey(v) \notin next.todo /\ \A t \in next.queue : t[1] # TaskKey(v)
    BY <1>3, <1>6, <1>18 DEF ScanOrdered
  <2>5. key \notin next.todo /\ \A t \in next.queue : t[1] # key
    BY <1>8, <1>18, <2>1
  <2> QED
    BY <1>13, <1>16, <1>19, <2>2, <2>3, <2>4, <2>5 DEF ScanOrdered
<1> QED
  BY <1>19, <1>20, <1>21, <1>23, <1>24 DEF Tidy

\* A scan returns when none of its workers has a call left (scan.go:55-57).
LEMMA ScanReturnsTidy ==
    ASSUME ServiceSafe, Tidy, NEW s \in Clients, ScanReturns(s), UNCHANGED rank
    PROVE  Tidy'
<1>1. /\ s \in DOMAIN scan /\ scan[s].workers = {} /\ scan' = Drop(scan, s) /\ UNCHANGED updateVars
  BY DEF ScanReturns, Finished, Scanning
<1>2. DOMAIN scan = {s}
  BY <1>1, OneInside
<1>3. DOMAIN call = {} /\ DOMAIN scan' = {}
  BY <1>1, <1>2 DEF Tidy, CallsInside, Drop
<1>4. HeldFresh'
  BY <1>1 DEF Tidy, HeldFresh, updateVars
<1> QED
  BY <1>1, <1>3, <1>4, CallsUntouched DEF updateVars

\* A step of a scan, of whatever kind.
LEMMA CrawlInScanTidy ==
    ASSUME ServiceSafe, Tidy, NEW s \in Clients, CrawlInScan(s)
    PROVE  Tidy'
<1>1. ASSUME NEW task \in scan[s].queue, NEW w \in Callers, TaskStarts(s, task, w)
      PROVE  Tidy'
  BY <1>1, TaskStartsTidy DEF CrawlInScan
<1>2. CASE \E key \in Key : ScanSkips(s, key) \/ ScanSamples(s, key)
  BY <1>2, ListingTidy DEF CrawlInScan
<1>3. CASE ScanReturns(s)
  BY <1>3, ScanReturnsTidy DEF CrawlInScan
<1> QED
  BY <1>1, <1>2, <1>3 DEF CrawlInScan, ScanStep

\* What a ranking holds is all that matters of it.
LEMMA RankTidy ==
    ASSUME Tidy, UNCHANGED <<updateVars, scan>>, HeldFresh'
    PROVE  Tidy'
<1>1. \A s \in DOMAIN scan' : ScanOrdered(s)'
  BY DEF Tidy, ScanOrdered, TaskKey, updateVars
<1> QED
  BY <1>1, CallsUntouched DEF updateVars

\* A ranking that begins holds nothing (graph.go:113).
LEMMA CrawlRanksTidy ==
    ASSUME ServiceSafe, Tidy, NEW s \in Clients, CrawlRanks(s)
    PROVE  Tidy'
<1>1. UNCHANGED <<updateVars, scan>>
  BY DEF CrawlRanks, RankBegins, RankRefused
<1>2. HeldFresh'
  BY <1>1 DEF CrawlRanks, RankBegins, RankRefused, Put, Tidy, HeldFresh, updateVars
<1> QED
  BY <1>1, <1>2, RankTidy

\* A ranking stores a row as it is, but for the ranking: nobody has changed it
\* since it was loaded (graph.go:114-131).
LEMMA StoresSameRow ==
    ASSUME ServiceSafe, Tidy, NEW r \in Clients, RankStores(r)
    PROVE  graph' = graph
<1>1. PICK held : held = rank[r].held
  OBVIOUS
<1>2. /\ r \in DOMAIN rank /\ held # << >> /\ graph' = Put(graph, held[1], held[2])
  BY <1>1 DEF RankStores, Ranking
<1>3. held[1] \in DOMAIN graph /\ graph[held[1]] = held[2]
  BY <1>1, <1>2 DEF Tidy, HeldFresh
<1>4. graph = [x \in DOMAIN graph |-> graph[x]]
  BY DEF ServiceSafe, UpdateSafe, IsMap
<1> QED
  BY <1>2, <1>3, <1>4 DEF Put

\* A step of a ranking, of whatever kind.
LEMMA RankingTidy ==
    ASSUME ServiceSafe, Tidy, NEW r \in Clients, RankStep(r) \/ RankFails(r), UNCHANGED scan
    PROVE  Tidy'
<1>1. r \in DOMAIN rank
  BY DEF RankStep, RankLoads, RankMisses, RankReads, RankComputes, RankStores, RankReturns,
         RankFails, Ranking
<1>2. PICK old : old = rank[r]
  OBVIOUS
<1>3. old \in RankState
  BY <1>1, <1>2 DEF ServiceSafe, RanksTyped, IsMap
<1>4. UNCHANGED updateVars
  <2>1. CASE RankStores(r)
    BY <2>1, StoresSameRow DEF RankStores, pollVars, updateVars
  <2>2. CASE ~RankStores(r)
    BY <2>2 DEF RankStep, RankLoads, RankMisses, RankReads, RankComputes, RankReturns,
                RankFails, RankAborts
  <2> QED
    BY <2>1, <2>2
<1>5. ASSUME NEW new, rank' = [rank EXCEPT ![r] = new],
             \/ new.held \in {<< >>, old.held}
             \/ \E p \in DOMAIN graph : new.held = <<p, graph[p]>>
      PROVE  HeldFresh'
  <2>1. /\ DOMAIN rank' = DOMAIN rank /\ rank'[r] = new
        /\ \A x \in DOMAIN rank \ {r} : rank'[x] = rank[x]
    BY <1>1, <1>5
  <2>2. new.held # << >> => new.held[1] \in DOMAIN graph /\ graph[new.held[1]] = new.held[2]
    BY <1>1, <1>2, <1>5 DEF Tidy, HeldFresh
  <2> QED
    BY <1>4, <2>1, <2>2 DEF Tidy, HeldFresh, updateVars
<1>6. ASSUME NEW p \in Packages, RankLoads(r, p)
      PROVE  HeldFresh'
  <2>1. PICK new : new = [old EXCEPT !.todo = @ \ {p}]
    OBVIOUS
  <2>2. new.held = old.held /\ rank' = [rank EXCEPT ![r] = new]
    BY <1>2, <1>3, <1>6, <2>1 DEF RankState, RankLoads
  <2> QED
    BY <1>5, <2>2
<1>7. ASSUME RankAborts(r)
      PROVE  HeldFresh'
  <2>1. PICK new : new = [old EXCEPT !.step = "end", !.todo = {}, !.held = << >>]
    OBVIOUS
  <2>2. new.held = << >> /\ rank' = [rank EXCEPT ![r] = new]
    BY <1>2, <1>3, <1>7, <2>1 DEF RankState, RankAborts
  <2> QED
    BY <1>5, <2>2
<1>8. ASSUME NEW p \in Packages, NEW differs \in BOOLEAN, RankReads(r, p, differs)
      PROVE  HeldFresh'
  <2>1. PICK held : held = IF differs /\ rank[r].update THEN <<p, graph[p]>> ELSE << >>
    OBVIOUS
  <2>2. PICK new : new = [old EXCEPT !.todo = @ \ {p}, !.held = held]
    OBVIOUS
  <2>3. new.held = held /\ rank' = [rank EXCEPT ![r] = new]
    BY <1>2, <1>3, <1>8, <2>1, <2>2 DEF RankState, RankReads
  <2>4. held = << >> \/ \E q \in DOMAIN graph : held = <<q, graph[q]>>
    BY <1>8, <2>1 DEF RankReads
  <2> QED
    BY <1>5, <2>3, <2>4
<1>9. ASSUME RankComputes(r)
      PROVE  HeldFresh'
  <2>1. PICK new : new = [old EXCEPT !.step = "write", !.todo = Listing(graph)]
    OBVIOUS
  <2>2. new.held = old.held /\ rank' = [rank EXCEPT ![r] = new]
    BY <1>2, <1>3, <1>9, <2>1 DEF RankState, RankComputes
  <2> QED
    BY <1>5, <2>2
<1>10. ASSUME RankStores(r)
       PROVE  HeldFresh'
  <2>1. PICK new : new = [old EXCEPT !.held = << >>]
    OBVIOUS
  <2>2. new.held = << >> /\ rank' = [rank EXCEPT ![r] = new]
    BY <1>2, <1>3, <1>10, <2>1 DEF RankState, RankStores
  <2> QED
    BY <1>5, <2>2
<1>11. ASSUME RankReturns(r)
       PROVE  HeldFresh'
  BY <1>4, <1>11 DEF RankReturns, Drop, Tidy, HeldFresh, updateVars
<1>12. HeldFresh'
  BY <1>6, <1>7, <1>8, <1>9, <1>10, <1>11 DEF RankStep, RankMisses, RankFails
<1> QED
  BY <1>4, <1>12, RankTidy

\* A worker goes on with its task: it stores no record but its own, which no
\* other call and no waiting task is about (update.go:35-92).
LEMMA WorkerTidy ==
    ASSUME ServiceSafe, Tidy, NEW w \in Callers, WorkerStep(w)
    PROVE  Tidy'
<1>1. /\ UpdateStep(w) /\ UNCHANGED <<guardVars, rank, crawl, direct>>
      /\ scan' = [s \in DOMAIN scan |-> [scan[s] EXCEPT !.workers = @ \cap DOMAIN call']]
  BY DEF WorkerStep, TaskStep
<1>2. /\ w \in DOMAIN call /\ DOMAIN call' \subseteq DOMAIN call
      /\ \A x \in DOMAIN call' : call'[x].req = call[x].req
  BY <1>1, StepCalls DEF ServiceSafe
<1>3. /\ DOMAIN repoDB' = DOMAIN repoDB
      /\ PlainRecords'
      /\ repoDB' # repoDB => w \notin DOMAIN pending'
      /\ \A k \in DOMAIN repoDB : k # TaskKey(w) => repoDB'[k] = repoDB[k]
      /\ DOMAIN pending' \subseteq DOMAIN pending
      /\ \A x \in DOMAIN pending' : pending'[x] = pending[x]
  BY <1>1, StoresOwn
<1>4. DOMAIN rank = {}
  BY <1>2, OneInside DEF Tidy, CallsInside
<1>5. HeldFresh'
  BY <1>1, <1>4 DEF HeldFresh
<1>6. DOMAIN scan' = DOMAIN scan /\ \A s \in DOMAIN scan :
          /\ scan'[s].todo = scan[s].todo /\ scan'[s].queue = scan[s].queue
          /\ scan'[s].workers = scan[s].workers \cap DOMAIN call'
  <2>1. ASSUME NEW s \in DOMAIN scan
        PROVE  /\ scan'[s].todo = scan[s].todo /\ scan'[s].queue = scan[s].queue
               /\ scan'[s].workers = scan[s].workers \cap DOMAIN call'
    <3>1. PICK old : old = scan[s]
      OBVIOUS
    <3>2. old \in ScanState
      BY <3>1, ScanParts DEF ServiceSafe
    <3>3. scan'[s] = [old EXCEPT !.workers = @ \cap DOMAIN call']
      BY <1>1, <3>1
    <3> QED
      BY <3>1, <3>2, <3>3 DEF ScanState
  <2> QED
    BY <1>1, <2>1
<1>7. CallsInside'
  BY <1>2, <1>6 DEF Tidy, CallsInside
<1>8. PendingFresh'
  <2> SUFFICES ASSUME NEW x \in DOMAIN pending'
               PROVE  /\ <<pending[x].url, NoLabel>> \in DOMAIN repoDB
                      /\ pending[x].stat = repoDB'[<<pending[x].url, NoLabel>>]
    BY <1>3 DEF PendingFresh
  <2>1. PICK key : key = <<pending[x].url, NoLabel>>
    OBVIOUS
  <2>2. key \in DOMAIN repoDB /\ pending[x].stat = repoDB[key]
    BY <1>3, <2>1 DEF Tidy, PendingFresh
  <2>3. CASE x = w
    BY <1>3, <2>1, <2>2, <2>3
  <2>4. CASE x # w
    <3>1. x \in DOMAIN call /\ pending[x].url = call[x].req.url
      BY <1>3 DEF ServiceSafe, UpdateSafe, CallsSafe, PendingMatches
    <3>2. key # TaskKey(w)
      BY <1>2, <2>1, <2>4, <3>1 DEF TaskKey, Tidy, CallsInside
    <3> QED
      BY <1>3, <2>1, <2>2, <3>2
  <2> QED
    BY <2>3, <2>4
<1>9. ASSUME NEW s \in DOMAIN scan
      PROVE  ScanOrdered(s)'
  <2>1. ScanOrdered(s)
    BY DEF Tidy
  <2>2. \A v \in DOMAIN call' : TaskKey(v)' = TaskKey(v)
    BY <1>2 DEF TaskKey
  <2>3. ASSUME NEW t \in scan[s].queue
        PROVE  /\ t[1] \in DOMAIN repoDB \ scan[s].todo /\ t[1] # TaskKey(w)
               /\ t[2] = TaskRequest(t[1], repoDB[t[1]])
    BY <1>2, <2>1 DEF ScanOrdered
  <2>4. \A t \in scan[s].queue : TaskRequest(t[1], repoDB[t[1]])' = TaskRequest(t[1], repoDB[t[1]])
    BY <1>3, <2>3 DEF TaskRequest
  <2>5. \A v \in DOMAIN call :
            TaskKey(v) \notin scan[s].todo /\ \A t \in scan[s].queue : t[1] # TaskKey(v)
    BY <2>1 DEF ScanOrdered
  <2>6. scan[s].todo \subseteq DOMAIN repoDB'
    BY <1>3, <2>1 DEF ScanOrdered
  <2>7. \A t \in scan[s].queue :
            /\ t[1] \in DOMAIN repoDB' \ scan[s].todo
            /\ t[2] = TaskRequest(t[1], repoDB[t[1]])'
    BY <1>3, <2>3, <2>4
  <2> QED
    BY <1>2, <1>6, <2>2, <2>5, <2>6, <2>7 DEF ScanOrdered
<1> QED
  BY <1>3, <1>5, <1>6, <1>7, <1>8, <1>9 DEF Tidy

\* Every step leaves the writers apart, or is a direct call.
LEMMA UndisturbedStep ==
    ASSUME GuardAssumption, MaxRefused < Modulus - 1,
           ServiceSafe, Undisturbed, [ServiceNext]_serviceVars
    PROVE  Undisturbed'
<1>1. CASE direct
  BY <1>1 DEF Undisturbed, ServiceNext, CrawlScans, CrawlStep, CrawlInScan, CrawlRanks,
              CrawlInRank, CrawlFault, WorkerStep, DirectUpdate, ServerRestarts, serviceVars
<1>2. ASSUME Tidy, NEW s \in Clients, CrawlScans(s) \/ CrawlStep(s)
      PROVE  Tidy'
  BY <1>2, CrawlScansTidy, CrawlInScanTidy, CrawlRanksTidy, RankingTidy
  DEF CrawlStep, CrawlInRank
<1>3. ASSUME Tidy, NEW s \in Clients, CrawlFault(s)
      PROVE  Tidy'
  BY <1>3, ListingTidy, RankingTidy DEF CrawlFault
<1>4. ASSUME NEW c \in Callers, NEW req \in Requests[c], DirectUpdate(c, req)
      PROVE  direct'
  BY <1>4 DEF DirectUpdate
<1>5. ASSUME Tidy, ServerRestarts
      PROVE  Tidy'
  <2>1. DOMAIN pending' = {} /\ DOMAIN call' = {} /\ DOMAIN scan' = {} /\ DOMAIN rank' = {}
    BY <1>5, EmptyMap DEF ServerRestarts
  <2> QED
    BY <1>5, <2>1 DEF ServerRestarts, Tidy, PlainRecords, CallsInside, PendingFresh, HeldFresh
<1>6. ASSUME Tidy, UNCHANGED serviceVars
      PROVE  Tidy'
  BY <1>6 DEF Tidy, PlainRecords, CallsInside, PendingFresh, HeldFresh, ScanOrdered, TaskKey,
              serviceVars, updateVars
<1> QED
  BY <1>1, <1>2, <1>3, <1>4, <1>5, <1>6, WorkerTidy DEF Undisturbed, ServiceNext

\* Without direct calls the writers never meet.
THEOREM AlwaysUndisturbed ==
    ASSUME GuardAssumption, MaxRefused < Modulus - 1
    PROVE  ServiceSpec => []Undisturbed
<1>1. ServiceInit => Undisturbed
  BY InitTidy DEF Undisturbed
<1>2. ServiceSafe /\ Undisturbed /\ [ServiceNext]_serviceVars => Undisturbed'
  BY UndisturbedStep
<1> QED
  BY <1>1, <1>2, ServiceAlwaysSafe, PTL DEF ServiceSpec

\* No Update outlives the scan that started it, and no two work on the same
\* repository, for any number of workers, crawlers and repositories, through
\* failing scans and restarts (scan.go:55, 77-98).
THEOREM TasksStayInside ==
    ASSUME GuardAssumption, MaxRefused < Modulus - 1
    PROVE  ServiceSpec => []TasksInsideScan
<1>1. Undisturbed => TasksInsideScan
  BY DEF Undisturbed, Tidy, CallsInside, TasksInsideScan
<1> QED
  BY <1>1, AlwaysUndisturbed, PTL

\* No scan loses a digest: the record a Check stores is the one it replaces,
\* with the old digest last in its history (poll.go:182-196, scan.go:31-33).
THEOREM HistoryKept ==
    ASSUME GuardAssumption, MaxRefused < Modulus - 1
    PROVE  ServiceSpec => ScansKeepHistory
<1> DEFINE Kept == direct \/ \A k \in DOMAIN repoDB : repoDB'[k].digest # repoDB[k].digest =>
               /\ repoDB'[k].hist # << >>
               /\ repoDB'[k].hist[Len(repoDB'[k].hist)] = repoDB[k].digest
<1>1. ServiceSafe /\ Undisturbed /\ [ServiceNext]_serviceVars => [Kept]_serviceVars
  <2> SUFFICES ASSUME ServiceSafe, Tidy, ServiceNext PROVE Kept
    BY DEF Undisturbed
  <2>1. ASSUME NEW w \in Callers, WorkerStep(w) PROVE Kept
    BY <2>1, StoresOwn DEF WorkerStep, TaskStep
  <2>2. CASE UNCHANGED repoDB
    BY <2>2
  <2>3. ASSUME NEW s \in Clients, CrawlScans(s) \/ CrawlStep(s) \/ CrawlFault(s)
        PROVE  UNCHANGED repoDB
    <3>1. CASE CrawlScans(s) \/ CrawlInScan(s) \/ ScanAborts(s)
      BY <3>1 DEF CrawlScans, CrawlInScan, ScanBegins, ScanRefused, ScanStep, ScanSkips,
         ScanSamples, TaskStarts, ScanReturns, ScanAborts, BeginUpdate, CheckLoad, updateVars
    <3>2. CASE CrawlRanks(s) \/ CrawlInRank(s) \/ RankFails(s)
      BY <3>2 DEF CrawlRanks, CrawlInRank, RankBegins, RankRefused, RankStep, RankLoads,
         RankMisses, RankReads, RankComputes, RankStores, RankReturns, RankFails, RankAborts,
         updateVars, pollVars
    <3> QED
      BY <2>3, <3>1, <3>2 DEF CrawlStep, CrawlFault
  <2>4. CASE ServerRestarts
    BY <2>4 DEF ServerRestarts
  <2>5. ASSUME NEW w \in Callers, NEW req \in Requests[w], DirectUpdate(w, req)
        PROVE  UNCHANGED repoDB
    BY <2>5 DEF DirectUpdate, BeginUpdate, CheckLoad
  <2> QED
    BY <2>1, <2>2, <2>3, <2>4, <2>5 DEF ServiceNext
<1> QED
  BY <1>1, ServiceAlwaysSafe, AlwaysUndisturbed, PTL DEF ServiceSpec, ScansKeepHistory

\* A ranking never puts a row back to what it was before an Update: the row it
\* stores is the row that is there (graph.go:111-131, scan.go:31-33).
THEOREM RowsKept ==
    ASSUME GuardAssumption, MaxRefused < Modulus - 1
    PROVE  ServiceSpec => RankKeepsRows
<1>1. ServiceSafe /\ Undisturbed =>
          (direct \/ \A s \in DOMAIN rank : RankStores(s) => graph' = graph)
  BY StoresSameRow DEF Undisturbed, ServiceSafe, RanksTyped, IsMap
<1> QED
  BY <1>1, ServiceAlwaysSafe, AlwaysUndisturbed, PTL DEF ServiceSpec, RankKeepsRows

\* "Only one scanner is allowed at a time" (scan.go:32) holds of the server as
\* of the guard alone: with the work done inside, and through restarts.
THEOREM ServerExcludes ==
    ASSUME GuardAssumption, MaxRefused < Modulus - 1
    PROVE  ServiceSpec => GuardImplements
<1>1. ServiceInit => Guarded!Init
  BY DEF ServiceInit, GuardInit, Guarded!Init
<1>2. ServiceSafe /\ [ServiceNext]_serviceVars => [Guarded!Next]_busy
  <2> SUFFICES ASSUME ServiceSafe, [ServiceNext]_serviceVars PROVE [Guarded!Next]_busy
    OBVIOUS
  <2>1. CASE ServerRestarts
    BY <2>1 DEF ServerRestarts, ServiceSafe, CounterCounts, Guarded!Next, Guarded!Leave
  <2>2. CASE [GuardNext]_guardVars
    BY <2>2, StepGuarded DEF ServiceSafe
  <2>3. ServerRestarts \/ [GuardNext]_guardVars
    <3>1. CASE UNCHANGED serviceVars
      BY <3>1 DEF serviceVars
    <3>2. ASSUME NEW s \in Clients, CrawlScans(s) \/ CrawlStep(s) \/ CrawlFault(s)
          PROVE  [GuardNext]_guardVars
      BY <3>2 DEF CrawlScans, CrawlStep, CrawlInScan, CrawlRanks, CrawlInRank, CrawlFault,
         ScanBegins, ScanRefused, ScanStep, ScanSkips, ScanSamples, TaskStarts, ScanReturns,
         ScanAborts, RankBegins, RankRefused, RankStep, RankLoads, RankMisses, RankReads,
         RankComputes, RankStores, RankReturns, RankFails, RankAborts, GuardNext
    <3>3. ASSUME NEW w \in Callers,
                 WorkerStep(w) \/ \E req \in Requests[w] : DirectUpdate(w, req)
          PROVE  [GuardNext]_guardVars
      BY <3>3 DEF WorkerStep, TaskStep, DirectUpdate
    <3> QED
      BY <3>1, <3>2, <3>3 DEF ServiceNext
  <2> QED
    BY <2>1, <2>2, <2>3
<1> QED
  BY <1>1, <1>2, ServiceAlwaysSafe, PTL DEF ServiceSpec, GuardImplements, Guarded!Spec

-----------------------------------------------------------------------------
(* What the crawled databases say.  Without direct calls the server is      *)
(* Update, called for updates without reset that are about one repository   *)
(* each, and a guard around it; what Update promises of such calls becomes  *)
(* a promise of the server.                                                 *)

\* A task neither resets nor merely checks (scan.go:83-97).
TasksPlain ==
    \A w \in DOMAIN call :
        /\ ~call[w].req.reset /\ ~call[w].req.checkOnly
        /\ call[w].step \notin {"reset", "drop"}

\* The call of a task that begins: it is plain, and nobody else's call is about
\* its repository.
TaskCall(w, req) ==
    /\ BeginUpdate(w, req)
    /\ ~req.reset /\ ~req.checkOnly /\ req.label = NoLabel
    /\ \A x \in DOMAIN call : call[x].req.url # req.url

LEMMA TaskBegins ==
    ASSUME ServiceSafe, Tidy, NEW s \in Clients, NEW task \in scan[s].queue, NEW w \in Callers,
           TaskStarts(s, task, w)
    PROVE  \E req \in UpdateReq : TaskCall(w, req)
<1>1. s \in DOMAIN scan /\ BeginUpdate(w, task[2])
  BY DEF TaskStarts, Scanning
<1>2. PICK key, req, stat : key = task[1] /\ req = task[2] /\ stat = repoDB[key]
  OBVIOUS
<1>3. ScanOrdered(s) /\ task \in Key \X UpdateReq
  BY <1>1, ScanParts DEF Tidy, ServiceSafe
<1>4. /\ key \in DOMAIN repoDB /\ req = TaskRequest(key, stat) /\ req \in UpdateReq
      /\ key = <<key[1], NoLabel>> /\ stat.tag = NoLabel
  BY <1>2, <1>3 DEF ScanOrdered, Tidy, PlainRecords, Key
<1>5. req.url = key[1] /\ req.label = NoLabel /\ ~req.reset /\ ~req.checkOnly
  BY <1>4 DEF TaskRequest
<1>6. ASSUME NEW x \in DOMAIN call PROVE call[x].req.url # req.url
  BY <1>2, <1>3, <1>4, <1>5 DEF ScanOrdered, TaskKey
<1> QED
  BY <1>1, <1>2, <1>4, <1>5, <1>6 DEF TaskCall

\* A step of the server that is not a direct call: of the databases and the
\* calls it changes nothing, or it is a step of a task, or a restart.
LEMMA CrawledStep ==
    ASSUME ServiceSafe, Undisturbed, [ServiceNext]_serviceVars, ~direct'
    PROVE  /\ Tidy
           /\ \/ UNCHANGED updateVars
              \/ \E w \in Callers : UpdateStep(w)
              \/ \E w \in Callers, req \in UpdateReq : TaskCall(w, req)
              \/ /\ "crash" \in Faults
                 /\ DOMAIN call' = {} /\ DOMAIN pending' = {}
                 /\ UNCHANGED <<repoDB, reported, resolved, graph>>
<1>1. ~direct
  BY DEF ServiceNext, CrawlScans, CrawlStep, CrawlInScan, CrawlRanks,
         CrawlInRank, CrawlFault, WorkerStep, DirectUpdate, ServerRestarts, serviceVars
<1>2. Tidy
  BY <1>1 DEF Undisturbed
<1>3. ASSUME NEW s \in Clients, CrawlInScan(s)
      PROVE  \/ UNCHANGED updateVars
             \/ \E w \in Callers, req \in UpdateReq : TaskCall(w, req)
  <2>1. ASSUME NEW task \in scan[s].queue, NEW w \in Callers, TaskStarts(s, task, w)
        PROVE  \E req \in UpdateReq : TaskCall(w, req)
    BY <1>2, <2>1, TaskBegins
  <2> QED
    BY <1>3, <2>1 DEF CrawlInScan, ScanStep, ScanSkips, ScanSamples, ScanReturns
<1>4. ASSUME NEW s \in Clients, RankStep(s) \/ RankFails(s)
      PROVE  UNCHANGED updateVars
  <2>1. CASE RankStores(s)
    BY <1>2, <2>1, StoresSameRow DEF RankStores, pollVars, updateVars
  <2>2. CASE ~RankStores(s)
    BY <1>4, <2>2 DEF RankStep, RankLoads, RankMisses, RankReads, RankComputes, RankReturns,
                RankFails, RankAborts
  <2> QED
    BY <2>1, <2>2
<1>5. ASSUME NEW s \in Clients, CrawlScans(s) \/ CrawlRanks(s) \/ ScanAborts(s)
      PROVE  UNCHANGED updateVars
  BY <1>5 DEF CrawlScans, CrawlRanks, ScanBegins, ScanRefused, ScanAborts, RankBegins,
              RankRefused
<1>6. ASSUME NEW w \in Callers, NEW req \in Requests[w] PROVE ~DirectUpdate(w, req)
  BY DEF DirectUpdate
<1>7. CASE ServerRestarts
  BY <1>2, <1>7, EmptyMap DEF ServerRestarts
<1>8. CASE UNCHANGED serviceVars
  BY <1>2, <1>8 DEF serviceVars
<1>9. ASSUME NEW w \in Callers, WorkerStep(w) PROVE UpdateStep(w)
  BY <1>9 DEF WorkerStep, TaskStep
<1> QED
  BY <1>2, <1>3, <1>4, <1>5, <1>6, <1>7, <1>8, <1>9
  DEF ServiceNext, CrawlStep, CrawlInRank, CrawlFault

\* A task stays plain to its end (update.go:69-91).
LEMMA TasksPlainStep ==
    ASSUME UpdateSafe, TasksPlain, NEW c \in Callers, UpdateStep(c)
    PROVE  TasksPlain'
<1>1. /\ c \in DOMAIN call /\ DOMAIN call' \subseteq DOMAIN call
      /\ \A x \in DOMAIN call' \ {c} : call'[x] = call[x]
      /\ c \in DOMAIN call' => call'[c].req = call[c].req
  BY OneCallSteps
<1>2. ~ResetStep(c)
  BY DEF TasksPlain, ResetStep, ResetLoads, ResetAborts, ResetRemoves, ResetRemoveFails,
         ResetDone, At
<1>3. ASSUME NEW step \in {"clone", "add"}, NEW todo, Goto(c, step, todo)
      PROVE  call'[c].step \notin {"reset", "drop"}
  BY <1>1, <1>3, GoesTo
<1>4. ASSUME NEW name \in Names, NEW digest \in Digests, CheckSucceeds(c, name, digest)
      PROVE  call'[c].step \notin {"reset", "drop"}
  <2>1. call[c] \in Call
    BY <1>1 DEF UpdateSafe, CallsSafe, IsMap
  <2> QED
    BY <1>1, <1>4, <2>1 DEF CheckSucceeds, Call
<1>5. Return(c) => c \notin DOMAIN call'
  BY DEF Return, Drop
<1>6. UpdateStarts(c) => Goto(c, "clone", {})
  BY <1>1 DEF UpdateStarts, TasksPlain
<1>7. c \in DOMAIN call' => call'[c].step \notin {"reset", "drop"}
  BY <1>2, <1>3, <1>4, <1>5, <1>6
  DEF UpdateStep, CheckErrs, ReturnsUnchanged, StoreStep, CloneLoads, CloneFails,
      AddPackage, AddFails, UpdateDone
<1> QED
  BY <1>1, <1>7 DEF TasksPlain

LEMMA TasksPlainBegin ==
    ASSUME TasksPlain, NEW w \in Callers, NEW req \in UpdateReq, TaskCall(w, req)
    PROVE  TasksPlain'
<1>1. PICK new : new = [req |-> req, step |-> "check", needs |-> FALSE,
                        digest |-> NoDigest, todo |-> {}]
  OBVIOUS
<1>2. call' = Put(call, w, new) /\ new.req = req /\ new.step = "check"
  BY <1>1 DEF TaskCall, BeginUpdate
<1> QED
  BY <1>2 DEF Put, TasksPlain, TaskCall

\* What the lemmas about Update ask of the calls.
LEMMA TasksApart ==
    ASSUME Tidy, TasksPlain
    PROVE  OneCallEach /\ CallsUpdate /\ OwnDrops
BY DEF Tidy, CallsInside, PlainRecords, TasksPlain, OneCallEach, CallsUpdate, OwnDrops

OnlyTasks == direct \/ TasksPlain

\* A direct call, once made, is remembered; it stores nothing as it begins.
LEMMA DirectStays ==
    ASSUME [ServiceNext]_serviceVars
    PROVE  /\ direct => direct'
           /\ ~direct /\ direct' => UNCHANGED <<repoDB, graph>>
<1>1. UNCHANGED direct \/ \E w \in Callers : \E req \in Requests[w] : DirectUpdate(w, req)
  BY DEF ServiceNext, CrawlScans, CrawlStep, CrawlInScan, CrawlRanks, CrawlInRank,
         CrawlFault, WorkerStep, ServerRestarts, serviceVars
<1>2. CASE UNCHANGED direct
  BY <1>2
<1>3. ASSUME NEW w \in Callers, NEW req \in Requests[w], DirectUpdate(w, req)
      PROVE  direct' /\ UNCHANGED <<repoDB, graph>>
  BY <1>3 DEF DirectUpdate, BeginUpdate, CheckLoad
<1> QED
  BY <1>1, <1>2, <1>3

LEMMA OnlyTasksStep ==
    ASSUME ServiceSafe, Undisturbed, OnlyTasks, [ServiceNext]_serviceVars
    PROVE  OnlyTasks'
<1> SUFFICES ASSUME ~direct' PROVE TasksPlain'
  BY DEF OnlyTasks
<1>1. TasksPlain
  BY DirectStays DEF OnlyTasks
<1>2. CASE UNCHANGED updateVars
  BY <1>1, <1>2 DEF updateVars, TasksPlain
<1>3. CASE DOMAIN call' = {}
  BY <1>3 DEF TasksPlain
<1> QED
  BY <1>1, <1>2, <1>3, CrawledStep, TasksPlainStep, TasksPlainBegin DEF ServiceSafe

THEOREM AlwaysOnlyTasks ==
    ASSUME GuardAssumption, MaxRefused < Modulus - 1
    PROVE  ServiceSpec => []OnlyTasks
<1>1. ServiceInit => OnlyTasks
  BY EmptyMap DEF ServiceInit, OnlyTasks, TasksPlain
<1> QED
  BY <1>1, OnlyTasksStep, ServiceAlwaysSafe, AlwaysUndisturbed, PTL DEF ServiceSpec

-----------------------------------------------------------------------------
(* The promises.                                                           *)

\* Whatever happens, direct calls included, a record's digest, and those of its
\* history, were reported as needed updates, and its reference and its digest
\* were resolved together (poll.go:121, 149-196).
THEOREM ServerRecordsSound ==
    ASSUME GuardAssumption, MaxRefused < Modulus - 1
    PROVE  ServiceSpec => [](DigestsReported /\ ResolvedTogether)
<1>1. ServiceSafe => DigestsReported /\ ResolvedTogether
  BY PollSafeSuffices DEF ServiceSafe, UpdateSafe
<1> QED
  BY <1>1, ServiceAlwaysSafe, PTL

\* Without direct calls every Check is an atomic update of its record, whatever
\* number of workers check at once and however often the server restarts: the
\* guard and the task per record do for many callers what being alone does for
\* one (poll.go:121-203, scan.go:31-33, 77-98).
THEOREM ServerChecksAtomic ==
    ASSUME GuardAssumption, MaxRefused < Modulus - 1
    PROVE  ServiceSpec => [][direct \/ Table!Next]_repoDB
<1>1. Tidy /\ ServiceSafe => PendingReady
  <2> SUFFICES ASSUME Tidy, ServiceSafe, NEW c \in DOMAIN pending
               PROVE  /\ pending[c].label = NoLabel
                      /\ pending[c].stat = Ready(<<pending[c].url, NoLabel>>, AnyRef)
    BY PollAssumption DEF PendingReady
  <2>1. PICK key : key = <<pending[c].url, NoLabel>>
    OBVIOUS
  <2>2. key \in DOMAIN repoDB /\ pending[c].stat = repoDB[key]
    BY <2>1 DEF Tidy, PendingFresh
  <2>3. Ready(key, AnyRef) = repoDB[key]
    BY <2>2 DEF Ready, Retargeted
  <2>4. pending[c].label = NoLabel
    BY DEF Tidy, CallsInside, ServiceSafe, UpdateSafe, CallsSafe, PendingMatches
  <2> QED
    BY <2>1, <2>2, <2>3, <2>4
<1>2. ServiceSafe /\ Undisturbed /\ [ServiceNext]_serviceVars
          => [direct \/ Table!Next]_repoDB
  <2> SUFFICES ASSUME ServiceSafe, Undisturbed, [ServiceNext]_serviceVars, ~direct'
               PROVE  Table!Next \/ UNCHANGED repoDB
    BY DirectStays
  <2>1. PollSafe /\ PendingReady
    BY <1>1, CrawledStep DEF ServiceSafe, UpdateSafe
  <2>2. ASSUME NEW w \in Callers, UpdateStep(w)
        PROVE  Table!Next \/ UNCHANGED repoDB
    <3>1. ASSUME NEW name \in Names, NEW digest \in Digests, HeadAnswers(w, name, digest)
          PROVE  Table!Next
      BY <2>1, <3>1, AnswerIsFound
    <3>2. ASSUME HeadFails(w)
          PROVE  Table!Next
      BY <2>1, <3>2, FailureIsNotFound
    <3>3. ~OverLimit(ResultErrors)
      BY UpdateAssumption DEF OverLimit, ResultErrors
    <3> QED
      BY <2>2, <3>1, <3>2, <3>3
      DEF UpdateStep, CheckSucceeds, CheckErrs, CheckAborts, ReturnsUnchanged, UpdateStarts,
          ResetStep, ResetLoads, ResetAborts, ResetRemoves, ResetRemoveFails, ResetDone,
          StoreStep, CloneLoads, CloneFails, AddPackage, AddFails, UpdateDone, pollVars
  <2> QED
    BY <2>2, CrawledStep DEF updateVars, TaskCall, BeginUpdate, CheckLoad
<1> QED
  BY <1>2, ServiceAlwaysSafe, AlwaysUndisturbed, PTL DEF ServiceSpec

\* Without direct calls no package ever leaves the graph: scans do not reset, and
\* rankings store rows that are there (scan.go:83-97, graph.go:113-131).
THEOREM PackagesStay ==
    ASSUME GuardAssumption, MaxRefused < Modulus - 1
    PROVE  ServiceSpec => [][direct \/ DOMAIN graph \subseteq DOMAIN graph']_graph
<1>1. ServiceSafe /\ Undisturbed /\ OnlyTasks /\ [ServiceNext]_serviceVars
          => [direct \/ DOMAIN graph \subseteq DOMAIN graph']_graph
  <2> SUFFICES ASSUME ServiceSafe, Undisturbed, OnlyTasks, [ServiceNext]_serviceVars, ~direct'
               PROVE  DOMAIN graph \subseteq DOMAIN graph'
    BY DirectStays
  <2>1. TasksPlain
    BY DirectStays DEF OnlyTasks
  <2>2. ASSUME NEW w \in Callers, UpdateStep(w)
        PROVE  DOMAIN graph \subseteq DOMAIN graph'
    <3>1. ASSUME NEW p \in Packages PROVE ~ResetRemoves(w, p)
      BY <2>1 DEF ResetRemoves, At, TasksPlain
    <3> QED
      BY <2>2, <3>1, GraphStep DEF AddPackage, Put
  <2> QED
    BY <2>2, CrawledStep DEF updateVars, TaskCall, BeginUpdate
<1> QED
  BY <1>1, ServiceAlwaysSafe, AlwaysUndisturbed, AlwaysOnlyTasks, PTL DEF ServiceSpec

\* What the tasks have added stays, while nobody else works on their packages.
OnlyTasksStore == direct \/ AddedStays

LEMMA OnlyTasksStoreStep ==
    ASSUME ApartPackages, ServiceSafe, Undisturbed, OnlyTasks, OnlyTasksStore,
           [ServiceNext]_serviceVars
    PROVE  OnlyTasksStore'
<1> SUFFICES ASSUME ~direct' PROVE AddedStays'
  BY DEF OnlyTasksStore
<1>1. AddedStays /\ TasksPlain
  BY DirectStays DEF OnlyTasks, OnlyTasksStore
<1>2. OneCallEach /\ OwnDrops
  BY <1>1, TasksApart, CrawledStep
<1>3. CASE UNCHANGED updateVars
  BY <1>1, <1>3 DEF updateVars, AddedStays, Stored
<1>4. CASE DOMAIN call' = {}
  BY <1>4 DEF AddedStays
<1> QED
  BY <1>1, <1>2, <1>3, <1>4, CrawledStep, AddedStaysStep, AddedStaysBegin
  DEF ServiceSafe, TaskCall

\* If no package is in two repositories then, without direct calls, a task that
\* returns no error leaves every package of the commit it reports in the graph,
\* through other tasks, rankings, failures and restarts (update.go:84-91).
THEOREM TasksStoreCommits ==
    ASSUME GuardAssumption, MaxRefused < Modulus - 1, ApartPackages
    PROVE  ServiceSpec => [](direct \/ UpdateStoresCommit)
<1>1. ServiceInit => OnlyTasksStore
  BY EmptyMap DEF ServiceInit, OnlyTasksStore, AddedStays
<1>2. AddedStays => UpdateStoresCommit
  BY DEF AddedStays, Stored, UpdateStoresCommit, Succeeds, At, InGraph
<1>3. ServiceSpec => []OnlyTasksStore
  BY <1>1, OnlyTasksStoreStep, ServiceAlwaysSafe, AlwaysUndisturbed, AlwaysOnlyTasks, PTL
  DEF ServiceSpec
<1>4. OnlyTasksStore => direct \/ UpdateStoresCommit
  BY <1>2 DEF OnlyTasksStore
<1> QED
  BY <1>3, <1>4, PTL

-----------------------------------------------------------------------------
(* The graph keeps up with the records.                                    *)

OnlyTasksCurrent == direct \/ Current

\* At the start every repository is current (service.go:144-151).
LEMMA StartsCurrent ==
    ASSUME ServiceInit
    PROVE  Current
<1>1. DOMAIN call = {} /\ DOMAIN pending = {}
  BY EmptyMap DEF ServiceInit
<1>2. RecordsCurrent
  <2> SUFFICES ASSUME NEW k \in DOMAIN repoDB PROVE Settled(k[1], repoDB[k].digest)
    BY DEF RecordsCurrent
  <2>1. PICK u \in Urls : u = k[1]
    BY DEF ServiceInit
  <2>2. repoDB[k] = Answered(NewStatus(AnyRef), FirstHead[u].name, FirstHead[u].digest)
    BY <2>1 DEF ServiceInit
  <2>3. repoDB[k].digest = FirstHead[u].digest
    BY <2>2, FirstRecord
  <2>4. InGraph(u, FirstHead[u].digest)
    BY DEF ServiceInit
  <2> QED
    BY <2>1, <2>3, <2>4 DEF Settled
<1> QED
  BY <1>1, <1>2 DEF Current, RecordsMatch, PendingCurrent, NoUpdateMeansCurrent

LEMMA OnlyTasksCurrentStep ==
    ASSUME ApartPackages, OnlyRemotesFail, ServiceSafe, Undisturbed, OnlyTasks, OnlyTasksStore,
           OnlyTasksCurrent, [ServiceNext]_serviceVars
    PROVE  OnlyTasksCurrent'
<1> SUFFICES ASSUME ~direct' PROVE Current'
  BY DEF OnlyTasksCurrent
<1>1. TasksPlain /\ AddedStays /\ Current
  BY DirectStays DEF OnlyTasks, OnlyTasksStore, OnlyTasksCurrent
<1>2. OneCallEach /\ CallsUpdate /\ OwnDrops
  BY <1>1, TasksApart, CrawledStep
<1>3. CASE UNCHANGED updateVars
  BY <1>1, <1>3 DEF updateVars, Current, RecordsCurrent, RecordsMatch, PendingCurrent,
                    NoUpdateMeansCurrent, WorkedOn, Working, Settled, InGraph, At
<1>4. ASSUME NEW w \in Callers, UpdateStep(w)
      PROVE  Current'
  BY <1>1, <1>2, <1>4, StepCurrent DEF ServiceSafe
<1>5. ASSUME NEW w \in Callers, NEW req \in UpdateReq, TaskCall(w, req)
      PROVE  Current'
  BY <1>1, <1>5, BeginCurrent DEF ServiceSafe, TaskCall
<1>6. "crash" \notin Faults
  BY DEF OnlyRemotesFail
<1> QED
  BY <1>3, <1>4, <1>5, <1>6, CrawledStep

THEOREM CrawledIsCurrent ==
    ASSUME GuardAssumption, MaxRefused < Modulus - 1, ApartPackages, OnlyRemotesFail
    PROVE  ServiceSpec => []OnlyTasksCurrent
<1>1. ServiceInit => OnlyTasksStore /\ OnlyTasksCurrent
  BY StartsCurrent, EmptyMap
  DEF ServiceInit, OnlyTasksStore, AddedStays, OnlyTasksCurrent
<1>2. ServiceSpec => []OnlyTasksStore
  BY <1>1, OnlyTasksStoreStep, ServiceAlwaysSafe, AlwaysUndisturbed, AlwaysOnlyTasks, PTL
  DEF ServiceSpec
<1> QED
  BY <1>1, <1>2, OnlyTasksCurrentStep, ServiceAlwaysSafe, AlwaysUndisturbed, AlwaysOnlyTasks,
     PTL DEF ServiceSpec

\* If packages are apart and neither clone, nor store, nor process fails then,
\* without direct calls, a task told that no update is needed finds the commit in
\* the graph, though remotes fail to answer (poll.go:121, scan.go:77-98).
THEOREM TasksToldTheTruth ==
    ASSUME GuardAssumption, MaxRefused < Modulus - 1, ApartPackages, OnlyRemotesFail
    PROVE  ServiceSpec => [](direct \/ NoUpdateMeansCurrent)
<1>1. OnlyTasksCurrent => direct \/ NoUpdateMeansCurrent
  BY DEF OnlyTasksCurrent, Current
<1> QED
  BY <1>1, CrawledIsCurrent, PTL

\* Under the same assumptions a ranking works on a graph that holds the packages
\* of every repository at the commit on record: no update is under way, and none
\* was left half done (ranking.go, scan.go:31-33, 55).
THEOREM RankingsSeeCurrent ==
    ASSUME GuardAssumption, MaxRefused < Modulus - 1, ApartPackages, OnlyRemotesFail
    PROVE  ServiceSpec => [](\/ direct
                             \/ DOMAIN rank = {}
                             \/ \A k \in DOMAIN repoDB : InGraph(k[1], repoDB[k].digest))
<1>1. ASSUME ServiceSafe, Tidy, Current, DOMAIN rank # {}, NEW k \in DOMAIN repoDB
      PROVE  InGraph(k[1], repoDB[k].digest)
  <2>1. DOMAIN call = {}
    BY <1>1, OneInside DEF Tidy, CallsInside
  <2>2. Settled(k[1], repoDB[k].digest)
    BY <1>1, <2>1 DEF Current, RecordsCurrent, WorkedOn
  <2> QED
    BY <1>1, <2>2 DEF Settled, Tidy, PlainRecords
<1>2. ServiceSafe /\ Undisturbed /\ OnlyTasksCurrent
          => \/ direct
             \/ DOMAIN rank = {}
             \/ \A k \in DOMAIN repoDB : InGraph(k[1], repoDB[k].digest)
  BY <1>1 DEF Undisturbed, OnlyTasksCurrent
<1> QED
  BY <1>2, ServiceAlwaysSafe, AlwaysUndisturbed, CrawledIsCurrent, PTL
=============================================================================
