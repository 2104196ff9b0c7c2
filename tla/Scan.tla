-------------------------------- MODULE Scan --------------------------------
(***************************************************************************)
(* Server.Scan (service/scan.go): inside the guard, list the repository    *)
(* keys, load each record, and hand an Update of the repositories that are *)
(* due and sampled to a group of workers.  The request of a task is made   *)
(* of the record as it was when its key was visited; the task itself runs  *)
(* later.  The task group is an external package: whether the listing      *)
(* waits for a free worker, or goes on, is left open.                      *)
(***************************************************************************)
EXTENDS Update, ScanGuard

VARIABLE
    scan         \* the scans in progress, by client

ScanState == [todo : SUBSET Key,       \* listed keys not yet visited
              queue : SUBSET (Key \X UpdateReq),  \* tasks not yet started
              workers : SUBSET Callers,  \* workers running a task
              failed : BOOLEAN]          \* the listing ended with an error

Scanning(s) == s \in DOMAIN scan

-----------------------------------------------------------------------------
\* The task of a record: an update of the repository it names, under its tag
\* and at its reference, with the default options.
TaskRequest(key, stat) ==
    [url |-> key[1], label |-> stat.tag, ref |-> stat.ref,
     checkOnly |-> FALSE, reset |-> FALSE, force |-> FALSE]

\* An admitted scan lists the keys; with a sampling rate that is out of range
\* it has nothing to do and returns its error.
ScanBegins(s, validRate) ==
    /\ ~ReadOnly
    /\ Admitted(s)
    /\ scan' = Put(scan, s, [todo |-> IF validRate THEN Listing(repoDB) ELSE {},
                             queue |-> {}, workers |-> {}, failed |-> ~validRate])
    /\ UNCHANGED updateVars

ScanRefused(s) ==
    /\ ~ReadOnly
    /\ Refused(s)
    /\ UNCHANGED <<updateVars, scan>>

\* The repository is not due for a check yet, or not sampled.
ScanSkips(s, key) ==
    /\ Scanning(s) /\ key \in scan[s].todo /\ key \in DOMAIN repoDB
    /\ scan' = [scan EXCEPT ![s].todo = @ \ {key}]
    /\ UNCHANGED <<updateVars, guardVars>>

ScanSamples(s, key) ==
    /\ Scanning(s) /\ key \in scan[s].todo /\ key \in DOMAIN repoDB
    /\ scan' = [scan EXCEPT ![s].todo = @ \ {key},
                            ![s].queue = @ \cup {<<key, TaskRequest(key, repoDB[key])>>}]
    /\ UNCHANGED <<updateVars, guardVars>>

\* A record is gone, as after a Remove, or cannot be read: the listing ends
\* with an error; the tasks already made are still done.
ScanAborts(s) ==
    /\ Scanning(s) /\ scan[s].todo # {}
    /\ "store" \in Faults \/ ~(scan[s].todo \subseteq DOMAIN repoDB)
    /\ scan' = [scan EXCEPT ![s].todo = {}, ![s].failed = TRUE]
    /\ UNCHANGED <<updateVars, guardVars>>

TaskStarts(s, task, w) ==
    /\ Scanning(s) /\ task \in scan[s].queue
    /\ BeginUpdate(w, task[2])
    /\ scan' = [scan EXCEPT ![s].queue = @ \ {task}, ![s].workers = @ \cup {w}]
    /\ UNCHANGED guardVars

\* Mutant of TaskStep: the group never learns that the task is done.
TaskStepLeaking(w) == UpdateStep(w) /\ UNCHANGED <<guardVars, scan>>

\* A step of the Update of a task; its error does not fail the scan.
TaskStep(w) ==
    /\ UpdateStep(w)
    /\ scan' = [s \in DOMAIN scan |->
           [scan[s] EXCEPT !.workers = @ \cap DOMAIN call']]
    /\ UNCHANGED guardVars

\* Mutant of Finished: the scan does not wait for the running tasks.
FinishedEarly(s) == Scanning(s) /\ scan[s].todo = {} /\ scan[s].queue = {}

\* The listing is over and the group has no task left.
Finished(s) == Scanning(s) /\ scan[s].todo = {} /\ scan[s].queue = {} /\ scan[s].workers = {}

ScanReturns(s) ==
    /\ Finished(s)
    /\ Done(s)
    /\ scan' = Drop(scan, s)
    /\ UNCHANGED updateVars

\* What an admitted scan does when the store does not fail.
ScanStep(s) ==
    \/ \E key \in Key : ScanSkips(s, key) \/ ScanSamples(s, key)
    \/ \E task \in (IF Scanning(s) THEN scan[s].queue ELSE {}), w \in Callers :
           TaskStarts(s, task, w)
    \/ ScanReturns(s)

-----------------------------------------------------------------------------
\* The scans in progress have their type and are inside the guard.
ScanTypeOK == IsMap(scan, Clients, ScanState) /\ DOMAIN scan \subseteq busy
=============================================================================
