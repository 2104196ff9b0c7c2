------------------------------ MODULE Service ------------------------------
(***************************************************************************)
(* The server's writers together: Scan and Rank behind their guard, driven *)
(* by crawlers (tools/crawldeps: scan, rank, wait for the next tick), and  *)
(* direct Update calls, which no guard keeps out.                          *)
(***************************************************************************)
EXTENDS Scan, Rank

CONSTANT
    FirstHead    \* the head each repository was added at

ASSUME ServiceAssumption ==
    FirstHead \in [Urls -> RemoteHead] /\ \A u \in Urls : FirstHead[u].url = u

VARIABLES
    crawl,       \* what each crawler is doing
    direct       \* history: a direct Update call was made

serviceVars == <<updateVars, guardVars, scan, rank, crawl, direct>>

\* The databases after every repository was added; nobody is connected.
ServiceInit ==
    /\ repoDB = [k \in Urls \X {NoLabel} |->
           Answered(NewStatus(AnyRef), FirstHead[k[1]].name, FirstHead[k[1]].digest)]
    /\ reported = [u \in Urls |-> {FirstHead[u].digest}]
    /\ resolved = {FirstHead[u] : u \in Urls}
    /\ graph \in [UNION {Contents[<<u, FirstHead[u].digest>>] : u \in Urls} -> Row]
    /\ \A u \in Urls : InGraph(u, FirstHead[u].digest)
    /\ pending = Empty /\ call = Empty
    /\ GuardInit
    /\ scan = Empty /\ rank = Empty
    /\ crawl = [s \in Clients |-> "wait"]
    /\ direct = FALSE

\* What the crawler does next.
Crawls(s, next) == crawl' = [crawl EXCEPT ![s] = next]

\* At the next tick the crawler calls Scan; refused, it waits for another.
CrawlScans(s) ==
    /\ crawl[s] = "wait"
    /\ \/ (\E valid \in BOOLEAN : ScanBegins(s, valid)) /\ Crawls(s, "scan")
       \/ ScanRefused(s) /\ UNCHANGED crawl
    /\ UNCHANGED <<rank, direct>>

\* A step of its scan; only after a scan without error come the rankings.
CrawlInScan(s) ==
    /\ ScanStep(s)
    /\ IF Scanning(s)' THEN UNCHANGED crawl
       ELSE Crawls(s, IF scan[s].failed THEN "wait" ELSE "scanned")
    /\ UNCHANGED <<rank, direct>>

CrawlRanks(s) ==
    /\ crawl[s] = "scanned"
    /\ \/ RankBegins(s, TRUE) /\ Crawls(s, "rank")
       \/ RankRefused(s, TRUE) /\ Crawls(s, "wait")
    /\ UNCHANGED <<scan, direct>>

CrawlInRank(s) ==
    /\ RankStep(s)
    /\ IF s \in DOMAIN rank' THEN UNCHANGED crawl ELSE Crawls(s, "wait")
    /\ UNCHANGED <<scan, direct>>

\* The store fails the scan or the ranking.
CrawlFault(s) ==
    /\ \/ ScanAborts(s) /\ UNCHANGED rank
       \/ RankFails(s) /\ UNCHANGED scan
    /\ UNCHANGED <<crawl, direct>>

WorkerStep(w) == TaskStep(w) /\ UNCHANGED <<rank, crawl, direct>>

DirectUpdate(c, req) ==
    /\ BeginUpdate(c, req)
    /\ direct' = TRUE
    /\ UNCHANGED <<guardVars, scan, rank, crawl>>

\* The server stops and starts again on its databases; the guard is in
\* memory, and the crawlers' calls fail.
ServerRestarts ==
    /\ "crash" \in Faults
    /\ pending' = Empty /\ call' = Empty
    /\ scanning' = 0 /\ busy' = {} /\ refused' = 0
    /\ scan' = Empty /\ rank' = Empty
    /\ crawl' = [s \in Clients |-> "wait"]
    /\ UNCHANGED <<repoDB, reported, resolved, graph, direct>>

CrawlStep(s) == CrawlInScan(s) \/ CrawlRanks(s) \/ CrawlInRank(s)

ServiceNext ==
    \/ \E s \in Clients : CrawlScans(s) \/ CrawlStep(s) \/ CrawlFault(s)
    \/ \E w \in Callers : WorkerStep(w) \/ \E req \in Requests[w] : DirectUpdate(w, req)
    \/ ServerRestarts

\* Crawlers, scans, rankings and workers go on while they can; nothing makes
\* a tick come, a direct call or a restart happen.
ServiceSpec ==
    /\ ServiceInit /\ [][ServiceNext]_serviceVars
    /\ \A s \in Clients : WF_serviceVars(CrawlStep(s))
    /\ \A w \in Callers : WF_serviceVars(WorkerStep(w))
-----------------------------------------------------------------------------
\* Scans and rankings have their type and are inside the guard, and what a
\* crawler does agrees with its calls.
ServiceTypeOK ==
    /\ UpdateTypeOK /\ ScanTypeOK /\ RankTypeOK
    /\ DOMAIN scan = {s \in Clients : crawl[s] = "scan"}
    /\ DOMAIN rank = {s \in Clients : crawl[s] = "rank"}

\* Without direct calls, an Update runs only inside the scan that started it:
\* no worker outlives its scan into a ranking or the next scan, and no two
\* workers have the same record in hand (scan.go:55, 77-98).
TasksInsideScan ==
    direct \/ /\ \A w \in DOMAIN call : \E s \in DOMAIN scan : w \in scan[s].workers
              /\ \A v, w \in DOMAIN call :
                     call[v].req.url = call[w].req.url => v = w

\* Without direct calls, no digest is lost: scans do not overwrite each other's
\* records (poll.go:182, scan.go:31-33).
ScansKeepHistory ==
    [][direct \/ \A k \in DOMAIN repoDB : repoDB'[k].digest # repoDB[k].digest =>
           /\ repoDB'[k].hist # << >>
           /\ repoDB'[k].hist[Len(repoDB'[k].hist)] = repoDB[k].digest]_serviceVars

\* Without direct calls, storing a ranking changes nothing else in the row:
\* what an Update stored is never put back to what Rank had loaded before
\* ("the modified value of the row is updated", graph.go:111-113).
RankKeepsRows ==
    [][direct \/ \A s \in DOMAIN rank : RankStores(s) => graph' = graph]_serviceVars

\* A crawler's round ends, however its calls, their updates, the server's
\* restarts and other crawlers go (crawldeps.go:83-117).
RoundsEnd == \A s \in Clients : crawl[s] = "scan" ~> crawl[s] = "wait"
=============================================================================
