------------------------------- MODULE Remove -------------------------------
(***************************************************************************)
(* Server.Remove (service/remove.go) with DB.Tags (poll/poll.go), beside   *)
(* Update calls: drop the named packages, drop the records Tags finds for  *)
(* the named repositories, and drop the rows attributed to them.           *)
(* Nothing keeps a Remove and an Update of one repository apart.           *)
(***************************************************************************)
EXTENDS Update

CONSTANTS
    Removers,    \* goroutines serving Remove calls
    RemoveReqs,  \* the requests they may serve
    KeyOrder,    \* the position of each key in the order of the store
    Under        \* <<u, v>>: the URL v begins with the URL u and a slash

RemoveReq == [repos : SUBSET Urls, packages : SUBSET Packages, keep : BOOLEAN]

ASSUME RemoveAssumption ==
    /\ RemoveReqs \subseteq RemoveReq
    /\ KeyOrder \in [Key -> Nat]
    /\ \A j, k \in Key : KeyOrder[j] = KeyOrder[k] => j = k
    /\ Under \subseteq Urls \X Urls

VARIABLES
    remove,      \* the Remove calls in progress, by goroutine
    excused      \* history: repositories whose rows may outlive their records

removeVars == <<updateVars, remove, excused>>

RemoveCall == [req : RemoveReq,
               step : {"packages", "repos", "scan", "drop", "end"},
               repos : SUBSET Urls,      \* repositories not yet looked up
               found : SUBSET Key,       \* records found and not yet removed
               bases : SUBSET Urls,      \* repositories with a removed record
               todo : SUBSET Packages]   \* packages, or listed rows, not yet visited

InRemove(r, step) == r \in DOMAIN remove /\ remove[r].step = step

-----------------------------------------------------------------------------
\* Mutant of Belongs: the record of the repository itself is forgotten.
BelongsBelow(base, key) == <<base, key[1]>> \in Under

\* Is the key taken for one of the repository, in a listing from base on?
Belongs(base, key) == key = <<base, NoLabel>> \/ <<base, key[1]>> \in Under

\* DB.Tags: the keys listed from base on, up to the first that does not belong.
\* A label of the repository is stored after "@", not "/": it does not belong,
\* wherever it sorts, and ends the listing like any other key.
Tags(base) ==
    LET listed == {k \in DOMAIN repoDB : KeyOrder[k] >= KeyOrder[<<base, NoLabel>>]}
    IN {k \in listed : \A j \in listed : KeyOrder[j] <= KeyOrder[k] => Belongs(base, j)}

\* Server.RepoStatus: the records of a repository by key, none meaning "not found".
RepoStatus(url) == [k \in Tags(url) |-> repoDB[k]]

-----------------------------------------------------------------------------
\* The repositories a request may take records of.
Scope(req) == {u \in Urls : \E v \in req.repos : u = v \/ <<v, u>> \in Under}

Removing == UNION {Scope(remove[r].req) : r \in DOMAIN remove}
Updating == {call[c].req.url : c \in DOMAIN call}

\* Rows may be left behind by an Update that runs beside the Remove.
Noticing(failed) == excused' = excused \cup (Updating' \cap Removing') \cup failed

Moves(r, step) == remove' = [remove EXCEPT ![r].step = step]

RemoveInit == UpdateInit /\ remove = Empty /\ excused = {}

RemoveBegins(r, req) ==
    /\ r \notin DOMAIN remove
    /\ remove' = Put(remove, r, [req |-> req, step |-> "packages", repos |-> req.repos,
                                 found |-> {}, bases |-> {}, todo |-> req.packages])
    /\ UNCHANGED updateVars
    /\ Noticing({})

\* A package the request names is deleted; if it is not there or cannot be,
\* the call goes on.
RemovesPackage(r, p, deleted) ==
    /\ InRemove(r, "packages") /\ p \in remove[r].todo
    /\ graph' = IF deleted THEN Drop(graph, p) ELSE graph
    /\ deleted \/ "delete" \in Faults
    /\ remove' = [remove EXCEPT ![r].todo = @ \ {p}]
    /\ UNCHANGED <<pollVars, call>>
    /\ Noticing({})

PackagesDone(r) ==
    /\ InRemove(r, "packages") /\ remove[r].todo = {}
    /\ Moves(r, "repos")
    /\ UNCHANGED updateVars
    /\ Noticing({})

\* The records of a repository are found, with the repository and the label
\* each of them names: the key it will be removed by.
LooksUp(r, url) ==
    /\ InRemove(r, "repos") /\ remove[r].found = {} /\ url \in remove[r].repos
    /\ remove' = [remove EXCEPT ![r].repos = @ \ {url},
           ![r].found = {<<k[1], repoDB[k].tag>> : k \in Tags(url)}]
    /\ UNCHANGED updateVars
    /\ Noticing({})

\* They cannot be: the repository is left alone.
LookUpFails(r, url) ==
    /\ "store" \in Faults
    /\ InRemove(r, "repos") /\ remove[r].found = {} /\ url \in remove[r].repos
    /\ remove' = [remove EXCEPT ![r].repos = @ \ {url}]
    /\ UNCHANGED updateVars
    /\ Noticing(Scope(remove[r].req))

\* Mutant of RemovesRecord: keys are collected where repositories are wanted.
RemovesRecordKey(r, key) ==
    /\ InRemove(r, "repos") /\ key \in remove[r].found
    /\ repoDB' = Drop(repoDB, key)
    /\ remove' = [remove EXCEPT ![r].found = @ \ {key}, ![r].bases = @ \cup {key}]
    /\ UNCHANGED <<pending, reported, resolved, graph, call>>
    /\ Noticing({})

RemovesRecord(r, key) ==
    /\ InRemove(r, "repos") /\ key \in remove[r].found
    /\ repoDB' = Drop(repoDB, key)
    /\ remove' = [remove EXCEPT ![r].found = @ \ {key}, ![r].bases = @ \cup {key[1]}]
    /\ UNCHANGED <<pending, reported, resolved, graph, call>>
    /\ Noticing({})

RemoveRecordFails(r, key) ==
    /\ "delete" \in Faults
    /\ InRemove(r, "repos") /\ key \in remove[r].found
    /\ remove' = [remove EXCEPT ![r].found = @ \ {key}]
    /\ UNCHANGED updateVars
    /\ Noticing(Scope(remove[r].req))

\* If a record was removed, the graph is searched for rows, unless they are kept.
RecordsDone(r) ==
    /\ InRemove(r, "repos") /\ remove[r].repos = {} /\ remove[r].found = {}
    /\ remove' = IF remove[r].req.keep \/ remove[r].bases = {}
                 THEN [remove EXCEPT ![r].step = "end"]
                 ELSE [remove EXCEPT ![r].step = "scan", ![r].todo = Listing(graph)]
    /\ UNCHANGED updateVars
    /\ Noticing({})

IsFirst(r, p) == p \in remove[r].todo /\ \A q \in remove[r].todo : p <= q

\* Mutant of RemovesAttributed: the repositories asked for, not those found.
RemovesRequested(r, row) == row.repo \in remove[r].req.repos

RemovesAttributed(r, row) == row.repo \in remove[r].bases

\* Mutant of RemoveLoads: a row of another repository is not passed.
RemoveLoadsStuck(r, p) ==
    /\ InRemove(r, "scan") /\ IsFirst(r, p) /\ p \in DOMAIN graph
    /\ RemovesAttributed(r, graph[p])
    /\ remove' = [remove EXCEPT ![r].step = "drop"]
    /\ UNCHANGED updateVars
    /\ Noticing({})

RemoveLoads(r, p) ==
    /\ InRemove(r, "scan") /\ IsFirst(r, p) /\ p \in DOMAIN graph
    /\ remove' = IF RemovesAttributed(r, graph[p])
                 THEN [remove EXCEPT ![r].step = "drop"]
                 ELSE [remove EXCEPT ![r].todo = @ \ {p}]
    /\ UNCHANGED updateVars
    /\ Noticing({})

\* The row is deleted by its key; a failure is logged and the scan goes on.
RemoveDrops(r, p, deleted) ==
    /\ InRemove(r, "drop") /\ IsFirst(r, p)
    /\ graph' = IF deleted THEN Drop(graph, p) ELSE graph
    /\ deleted \/ "delete" \in Faults
    /\ remove' = [remove EXCEPT ![r].step = "scan", ![r].todo = @ \ {p}]
    /\ UNCHANGED <<pollVars, call>>
    /\ Noticing(IF deleted THEN {} ELSE Scope(remove[r].req))

\* The call ends with an error, the records removed, the other rows in place.
RemoveAborts(r) ==
    /\ remove' = [remove EXCEPT ![r].step = "end", ![r].todo = {}]
    /\ UNCHANGED updateVars
    /\ Noticing(Scope(remove[r].req))

\* A listed row is gone by the time it is loaded ...
RemoveMisses(r, p) ==
    /\ InRemove(r, "scan") /\ IsFirst(r, p) /\ p \notin DOMAIN graph
    /\ RemoveAborts(r)

\* ... or cannot be read.
RemoveReadFails(r) ==
    /\ "store" \in Faults
    /\ InRemove(r, "scan") /\ remove[r].todo # {}
    /\ RemoveAborts(r)

\* What it kept on request is left without the records it removed.
RemoveReturns(r) ==
    /\ InRemove(r, "end") \/ (InRemove(r, "scan") /\ remove[r].todo = {})
    /\ remove' = Drop(remove, r)
    /\ UNCHANGED updateVars
    /\ Noticing(IF remove[r].req.keep THEN Scope(remove[r].req) ELSE {})

\* What a call does when the store does not fail.
RemoveStep(r) ==
    \/ \E p \in Packages :
           \/ RemovesPackage(r, p, TRUE) \/ RemoveDrops(r, p, TRUE)
           \/ RemoveLoads(r, p) \/ RemoveMisses(r, p)
    \/ PackagesDone(r)
    \/ \E url \in Urls : LooksUp(r, url)
    \/ \E key \in Key : RemovesRecord(r, key)
    \/ RecordsDone(r)
    \/ RemoveReturns(r)

\* What it does when the store fails.
RemoveFault(r) ==
    \/ \E p \in Packages : RemovesPackage(r, p, FALSE) \/ RemoveDrops(r, p, FALSE)
    \/ \E url \in Urls : LookUpFails(r, url)
    \/ \E key \in Key : RemoveRecordFails(r, key)
    \/ RemoveReadFails(r)

\* An Update beside the Removes.
UpdateBeside(c) ==
    /\ (\E req \in Requests[c] : BeginUpdate(c, req)) \/ UpdateStep(c)
    /\ UNCHANGED remove
    /\ Noticing({})

RemoveCrash ==
    /\ "crash" \in Faults
    /\ pending' = Empty /\ call' = Empty /\ remove' = Empty
    /\ excused' = excused \cup Removing
    /\ UNCHANGED <<repoDB, reported, resolved, graph>>

RemoveNext ==
    \/ \E r \in Removers : (\E req \in RemoveReqs : RemoveBegins(r, req)) \/ RemoveStep(r) \/ RemoveFault(r)
    \/ \E c \in Callers : UpdateBeside(c)
    \/ RemoveCrash

\* The store answers in the end; that it fails is not relied on.
RemoveSpec ==
    /\ RemoveInit /\ [][RemoveNext]_removeVars
    /\ \A r \in Removers : WF_removeVars(RemoveStep(r))
-----------------------------------------------------------------------------
\* The calls have their type.
RemoveTypeOK ==
    /\ UpdateTypeOK
    /\ IsMap(remove, Removers, RemoveCall)
    /\ excused \subseteq Urls

\* A row never outlives every record of its repository, where it could no
\* longer be removed with it, unless a Remove kept it on request, reported or
\* logged an error, was cut short, or ran beside an Update of that repository
\* (remove.go:46-71).
NoOrphanRows ==
    \A p \in DOMAIN graph :
        \/ \E k \in DOMAIN repoDB : k[1] = graph[p].repo
        \/ graph[p].repo \in Removing \cup excused

\* The call is done with the records of all it names; no Update of them ran
\* beside it, and none failed to be read or removed.
RecordsUndisturbed(r) ==
    remove[r].step \in {"scan", "drop", "end"} /\ Scope(remove[r].req) \cap excused = {}

\* A Remove finds records by one key and removes them by another, made of what
\* they hold.  Undisturbed, it removes the record of each repository it names;
\* where it removed any record of a repository it also drops its rows, so one
\* that is left would claim a commit the graph no longer has
\* (poll.go:56-60, 73-79, remove.go:46-59).
NamedRecordsGone ==
    \A r \in DOMAIN remove : RecordsUndisturbed(r) =>
        \A u \in remove[r].req.repos : <<u, NoLabel>> \notin DOMAIN repoDB

\* "Tags returns the status records for all tags of the specified URL"
\* (poll.go:52).  If so, of a repository reported as removed (remove.go:76) no
\* record is left, whatever its label.
AllTagsRemoved ==
    \A r \in DOMAIN remove : RecordsUndisturbed(r) =>
        \A k \in DOMAIN repoDB : k[1] \notin remove[r].bases

\* And a record disappears only in a Remove that names its repository, not one
\* that lies above it.
OnlyNamedRemoved ==
    [][\A k \in DOMAIN repoDB \ DOMAIN repoDB' :
          \E r \in DOMAIN remove : k[1] \in remove[r].req.repos]_removeVars

\* Every Remove returns, whatever is added to the graph meanwhile.
RemovesReturn == \A r \in Removers : r \in DOMAIN remove ~> r \notin DOMAIN remove
=============================================================================
