---------------------------- MODULE RemoveProofs ----------------------------
(***************************************************************************)
(* Server.Remove beside Updates and other Removes, for any number of each, *)
(* any repositories and labels, with every failure and with restarts: what *)
(* may not be left behind, and what is gone in the end.                    *)
(***************************************************************************)
EXTENDS Remove, UpdateProofs

-----------------------------------------------------------------------------
(* The inductive invariant.                                                *)

\* A call keeps to what its request names, and has dealt with every record it
\* found before it goes over the rows.
Named(c) ==
    /\ c \in RemoveCall
    /\ c.repos \subseteq c.req.repos
    /\ \A k \in c.found : k[1] \in Scope(c.req)
    /\ c.bases \subseteq Scope(c.req)
    /\ c.step \in {"scan", "drop", "end"} => c.repos = {} /\ c.found = {}

RemovesNamed == IsMap(remove, Removers, RemoveCall) /\ \A r \in DOMAIN remove : Named(remove[r])

\* What is noticed, is excused.
Excuses ==
    /\ excused \subseteq Urls
    /\ Updating \cap Removing \subseteq excused

HasRecord(url) == \E k \in DOMAIN repoDB : k[1] = url

\* An Update past its Check has the record it stored.
CallsRecorded ==
    \A c \in DOMAIN call :
        call[c].step # "check" => HasRecord(call[c].req.url) \/ call[c].req.url \in excused

\* The call will come to the row p of the repository, or keeps it on request.
Covers(c, p, url) ==
    /\ url \in c.bases
    /\ \/ c.step = "repos" \/ (c.step = "end" /\ c.req.keep)
       \/ c.step \in {"scan", "drop"} /\ p \in c.todo

RowsCovered ==
    \A p \in DOMAIN graph :
        \/ HasRecord(graph[p].repo)
        \/ graph[p].repo \in excused
        \/ \E r \in DOMAIN remove : Covers(remove[r], p, graph[p].repo)

RemoveSafe ==
    /\ UpdateSafe
    /\ RemovesNamed /\ Excuses /\ CallsRecorded /\ RowsCovered

\* The record of a Check in flight will have its label for a tag.
PendingTagged == \A c \in DOMAIN pending : pending[c].stat.tag = pending[c].label

\* A repository that was looked up, undisturbed, has its record no longer, or
\* the record is yet to be removed.
RecordsGone ==
    \A r \in DOMAIN remove : Scope(remove[r].req) \cap excused = {} =>
        \A u \in remove[r].req.repos \ remove[r].repos :
            <<u, NoLabel>> \in DOMAIN repoDB => <<u, NoLabel>> \in remove[r].found

-----------------------------------------------------------------------------
\* The inductive invariant implies the invariants that are checked: a row that
\* a Remove will come to is of a repository in its scope.
LEMMA RemoveSafeSuffices == RemoveSafe => RemoveTypeOK /\ NoOrphanRows
<1>1. RemoveSafe => RemoveTypeOK
  BY UpdateSafeSuffices DEF RemoveSafe, RemoveTypeOK, RemovesNamed, Excuses
<1>2. RemoveSafe => NoOrphanRows
  <2> SUFFICES ASSUME RemoveSafe, NEW p \in DOMAIN graph, ~HasRecord(graph[p].repo),
                      graph[p].repo \notin excused
               PROVE  graph[p].repo \in Removing
    BY DEF NoOrphanRows, HasRecord
  <2>1. PICK r \in DOMAIN remove : Covers(remove[r], p, graph[p].repo)
    BY DEF RemoveSafe, RowsCovered
  <2> QED
    BY <2>1 DEF Covers, RemoveSafe, RemovesNamed, Named, Removing
<1> QED
  BY <1>1, <1>2

\* Both databases start out empty; nobody is connected (service.go:126-159).
LEMMA RemoveInitSafe == RemoveInit => RemoveSafe /\ TagMatchesKey /\ PendingTagged /\ RecordsGone
<1> SUFFICES ASSUME RemoveInit
             PROVE  RemoveSafe /\ TagMatchesKey /\ PendingTagged /\ RecordsGone
  OBVIOUS
<1>1. UpdateSafe
  BY UpdateInitSafe DEF RemoveInit
<1>2. /\ IsMap(remove, Removers, RemoveCall) /\ DOMAIN remove = {} /\ DOMAIN call = {}
      /\ DOMAIN graph = {} /\ DOMAIN repoDB = {} /\ DOMAIN pending = {} /\ excused = {}
  BY EmptyMap DEF RemoveInit, UpdateInit, PollInit
<1>3. Updating = {}
  BY <1>2 DEF Updating
<1> QED
  BY <1>1, <1>2, <1>3
  DEF RemoveSafe, RemovesNamed, Excuses, CallsRecorded, RowsCovered,
      TagMatchesKey, PendingTagged, RecordsGone

-----------------------------------------------------------------------------
(* The listing.                                                            *)

\* Every record Tags finds belongs to the repository (poll.go:57).
LEMMA TagsBelong ==
    ASSUME DOMAIN repoDB \subseteq Key, NEW base \in Urls, NEW k \in Tags(base)
    PROVE  k \in DOMAIN repoDB /\ Belongs(base, k)
<1>1. k \in DOMAIN repoDB /\ (KeyOrder[k] <= KeyOrder[k] => Belongs(base, k))
  BY DEF Tags
<1>2. KeyOrder[k] \in Nat
  BY <1>1, RemoveAssumption
<1> QED
  BY <1>1, <1>2

\* Its own record is the first it finds (poll.go:56-57).
LEMMA BaseInTags ==
    ASSUME DOMAIN repoDB \subseteq Key, NEW base, <<base, NoLabel>> \in DOMAIN repoDB
    PROVE  <<base, NoLabel>> \in Tags(base)
<1>1. PICK key \in Key : key = <<base, NoLabel>>
  OBVIOUS
<1>2. \A j \in DOMAIN repoDB : KeyOrder[j] >= KeyOrder[key] /\ KeyOrder[j] <= KeyOrder[key] => j = key
  BY <1>1, RemoveAssumption
<1>3. KeyOrder[key] \in Nat
  BY RemoveAssumption
<1> QED
  BY <1>1, <1>2, <1>3 DEF Tags, Belongs

\* What belongs to a repository is in its scope.
LEMMA BelongsInScope ==
    ASSUME NEW req \in RemoveReq, NEW u \in req.repos, NEW k \in Key, Belongs(u, k)
    PROVE  k[1] \in Scope(req)
BY DEF RemoveReq, Scope, Belongs, Key

-----------------------------------------------------------------------------
(* One call.                                                               *)

\* A call goes on: what it has in hand may change, its request may not.
LEMMA RemoveGoesOn ==
    ASSUME RemoveSafe, UpdateSafe', NEW r \in DOMAIN remove, NEW new,
           remove' = [remove EXCEPT ![r] = new], Named(new), new.req = remove[r].req,
           UNCHANGED call,
           NEW failed, failed \subseteq Scope(new.req), Noticing(failed),
           \A u : HasRecord(u) => HasRecord(u)' \/ (new.step = "repos" /\ u \in new.bases),
           \A p \in DOMAIN graph' : p \in DOMAIN graph /\ graph'[p] = graph[p],
           \A p \in DOMAIN graph' : Covers(remove[r], p, graph[p].repo) =>
               Covers(new, p, graph[p].repo) \/ graph[p].repo \in failed \cup excused
    PROVE  RemoveSafe'
<1>1. /\ DOMAIN remove' = DOMAIN remove /\ remove'[r] = new
      /\ \A x \in DOMAIN remove \ {r} : remove'[x] = remove[x]
      /\ r \in Removers /\ remove \in [DOMAIN remove -> RemoveCall]
  BY DEF RemoveSafe, RemovesNamed, IsMap
<1>2. \A x \in DOMAIN remove : remove'[x].req = remove[x].req
  BY <1>1
<1>3. RemovesNamed'
  BY <1>1 DEF RemoveSafe, RemovesNamed, IsMap, Named
<1>4. Removing' = Removing /\ Updating' = Updating
  BY <1>1, <1>2 DEF Removing, Updating
<1>5. Scope(new.req) \subseteq Urls /\ Scope(new.req) \subseteq Removing
  BY DEF Scope, Removing
<1>6. excused \subseteq excused' /\ failed \subseteq excused'
  BY DEF Noticing
<1>7. Excuses'
  BY <1>1, <1>2, <1>4, <1>5, <1>6 DEF Noticing, RemoveSafe, Excuses
<1>8. \A u : HasRecord(u) => HasRecord(u)' \/ (u \in Removing /\ new.step = "repos" /\ u \in new.bases)
  BY <1>5 DEF Named
<1>9. CallsRecorded'
  <2> SUFFICES ASSUME NEW c \in DOMAIN call, call[c].step # "check"
               PROVE  HasRecord(call[c].req.url)' \/ call[c].req.url \in excused'
    BY DEF CallsRecorded
  <2>1. call[c].req.url \in Updating
    BY DEF Updating
  <2>2. HasRecord(call[c].req.url) \/ call[c].req.url \in excused
    BY DEF RemoveSafe, CallsRecorded
  <2>3. Updating \cap Removing \subseteq excused
    BY DEF RemoveSafe, Excuses
  <2> QED
    BY <1>6, <1>8, <2>1, <2>2, <2>3
<1>10. RowsCovered'
  <2> SUFFICES ASSUME NEW p \in DOMAIN graph', ~HasRecord(graph[p].repo)', graph[p].repo \notin excused'
               PROVE  \E x \in DOMAIN remove : Covers(remove'[x], p, graph[p].repo)
    BY <1>1 DEF RowsCovered, Covers
  <2>1. p \in DOMAIN graph
    OBVIOUS
  <2>2. CASE HasRecord(graph[p].repo)
    BY <1>1, <1>8, <2>2 DEF Covers
  <2>3. CASE ~HasRecord(graph[p].repo)
    <3>1. PICK x \in DOMAIN remove : Covers(remove[x], p, graph[p].repo)
      BY <1>6, <2>1, <2>3 DEF RemoveSafe, RowsCovered
    <3>2. CASE x = r
      BY <1>1, <1>6, <3>1, <3>2
    <3>3. CASE x # r
      BY <1>1, <3>1, <3>3
    <3> QED
      BY <3>2, <3>3
  <2> QED
    BY <2>2, <2>3
<1> QED
  BY <1>3, <1>7, <1>9, <1>10 DEF RemoveSafe

\* A call goes on and leaves both databases as they are.
LEMMA GoesOnQuietly ==
    ASSUME RemoveSafe, NEW r \in DOMAIN remove, NEW new,
           remove' = [remove EXCEPT ![r] = new], Named(new), new.req = remove[r].req,
           UNCHANGED updateVars,
           NEW failed, failed \subseteq Scope(new.req), Noticing(failed),
           \A p \in DOMAIN graph : Covers(remove[r], p, graph[p].repo) =>
               Covers(new, p, graph[p].repo) \/ graph[p].repo \in failed \cup excused
    PROVE  RemoveSafe'
<1>1. UpdateSafe'
  BY UpdateStutters DEF RemoveSafe
<1>2. UNCHANGED <<call, graph, repoDB>>
  BY DEF updateVars
<1>3. \A u : HasRecord(u)' = HasRecord(u)
  BY <1>2 DEF HasRecord
<1>4. /\ \A p \in DOMAIN graph' : p \in DOMAIN graph /\ graph'[p] = graph[p]
      /\ \A p \in DOMAIN graph' : Covers(remove[r], p, graph[p].repo) =>
             Covers(new, p, graph[p].repo) \/ graph[p].repo \in failed \cup excused
      /\ \A u : HasRecord(u) => HasRecord(u)' \/ (new.step = "repos" /\ u \in new.bases)
  BY <1>2, <1>3
<1> QED
  BY <1>1, <1>2, <1>4, RemoveGoesOn

\* A call goes on after a row is deleted, whatever the row held.
LEMMA GoesOnDropping ==
    ASSUME RemoveSafe, NEW r \in DOMAIN remove, NEW new, NEW q,
           remove' = [remove EXCEPT ![r] = new], Named(new), new.req = remove[r].req,
           graph' = Drop(graph, q), UNCHANGED <<pollVars, call>>, Noticing({}),
           \A p \in DOMAIN graph \ {q} : Covers(remove[r], p, graph[p].repo) =>
               Covers(new, p, graph[p].repo)
    PROVE  RemoveSafe'
<1>1. UpdateSafe'
  BY RowDroppedSafe DEF RemoveSafe
<1>2. \A u : HasRecord(u)' = HasRecord(u)
  BY DEF HasRecord, pollVars
<1>3. /\ DOMAIN graph' = DOMAIN graph \ {q}
      /\ \A p \in DOMAIN graph' : p \in DOMAIN graph /\ graph'[p] = graph[p]
  BY DEF Drop
<1>4. {} \subseteq Scope(new.req)
  OBVIOUS
<1>5. \A u : HasRecord(u) => HasRecord(u)' \/ (new.step = "repos" /\ u \in new.bases)
  BY <1>2
<1>6. \A p \in DOMAIN graph' : Covers(remove[r], p, graph[p].repo) =>
          Covers(new, p, graph[p].repo) \/ graph[p].repo \in {} \cup excused
  BY <1>3
<1> QED
  BY <1>1, <1>3, <1>4, <1>5, <1>6, RemoveGoesOn

\* The call as the type knows it.
LEMMA RemoveParts ==
    ASSUME RemoveSafe, NEW r \in DOMAIN remove
    PROVE  /\ r \in Removers /\ Named(remove[r]) /\ remove[r] \in RemoveCall
           /\ remove[r].req \in RemoveReq
           /\ remove[r].repos \subseteq Urls /\ remove[r].found \subseteq Key
           /\ remove[r].bases \subseteq Urls
           /\ remove[r].todo \subseteq Packages
           /\ remove[r].step \in {"packages", "repos", "scan", "drop", "end"}
BY DEF RemoveSafe, RemovesNamed, IsMap, Named, RemoveCall

-----------------------------------------------------------------------------
(* The steps of a call.                                                    *)

\* A Remove begins (remove.go:28-45).
LEMMA RemoveBeginsSafe ==
    ASSUME RemoveSafe, NEW r \in Removers, NEW req \in RemoveReq, RemoveBegins(r, req)
    PROVE  RemoveSafe'
<1>1. PICK new : new = [req |-> req, step |-> "packages", repos |-> req.repos, found |-> {},
                        bases |-> {}, todo |-> req.packages]
  OBVIOUS
<1>2. Named(new) /\ new.req = req /\ new.bases = {}
  BY <1>1 DEF Named, RemoveCall, RemoveReq
<1>3. /\ DOMAIN remove' = DOMAIN remove \cup {r} /\ remove'[r] = new /\ r \notin DOMAIN remove
      /\ \A x \in DOMAIN remove : remove'[x] = remove[x]
      /\ UNCHANGED updateVars
  BY <1>1 DEF RemoveBegins, Put
<1>4. RemovesNamed'
  <2>1. IsMap(remove', Removers, RemoveCall)
    BY <1>1, <1>2 DEF RemoveBegins, Put, RemoveSafe, RemovesNamed, IsMap, Named
  <2> QED
    BY <1>2, <1>3, <2>1 DEF RemoveSafe, RemovesNamed
<1>5. UpdateSafe'
  BY <1>3, UpdateStutters DEF RemoveSafe
<1>6. /\ excused \subseteq excused' /\ Updating' \cap Removing' \subseteq excused'
      /\ excused' \subseteq Urls
  <2>1. Removing' \subseteq Urls
    BY DEF Removing, Scope
  <2> QED
    BY <2>1 DEF RemoveBegins, Noticing, RemoveSafe, Excuses
<1>7. Excuses'
  BY <1>2, <1>3, <1>6 DEF RemoveSafe, Excuses
<1>8. CallsRecorded'
  BY <1>3, <1>6 DEF RemoveSafe, CallsRecorded, HasRecord, updateVars
<1>9. RowsCovered'
  BY <1>3, <1>6 DEF RemoveSafe, RowsCovered, HasRecord, Covers, updateVars
<1> QED
  BY <1>4, <1>5, <1>7, <1>8, <1>9 DEF RemoveSafe

\* The named packages are deleted (remove.go:30-41).
LEMMA PackagesSafe ==
    ASSUME RemoveSafe, NEW r \in Removers,
           \/ \E p \in Packages, deleted \in BOOLEAN : RemovesPackage(r, p, deleted)
           \/ PackagesDone(r)
    PROVE  RemoveSafe'
<1>1. r \in DOMAIN remove /\ remove[r].step = "packages"
  BY DEF RemovesPackage, PackagesDone, InRemove
<1>2. PICK old : old = remove[r]
  OBVIOUS
<1>3. Named(old) /\ old \in RemoveCall /\ old.todo \subseteq Packages
  BY <1>1, <1>2, RemoveParts
<1>4. \A c, p, u : Covers(old, p, u) => Covers(c, p, u)
  BY <1>1, <1>2 DEF Covers
<1>5. ASSUME NEW p \in Packages, NEW deleted \in BOOLEAN, RemovesPackage(r, p, deleted)
      PROVE  RemoveSafe'
  <2>1. PICK new : new = [old EXCEPT !.todo = @ \ {p}]
    OBVIOUS
  <2>2. Named(new) /\ new.req = old.req
    BY <1>3, <2>1 DEF Named, RemoveCall
  <2>3. remove' = [remove EXCEPT ![r] = new]
    BY <1>2, <1>5, <2>1 DEF RemovesPackage
  <2>4. CASE deleted
    BY <1>1, <1>2, <1>4, <1>5, <2>2, <2>3, <2>4, GoesOnDropping DEF RemovesPackage
  <2>5. CASE ~deleted
    <3>1. UNCHANGED updateVars /\ Noticing({}) /\ {} \subseteq Scope(new.req)
      BY <1>5, <2>5 DEF RemovesPackage, updateVars, pollVars
    <3> QED
      BY <1>1, <1>2, <1>4, <2>2, <2>3, <3>1, GoesOnQuietly
  <2> QED
    BY <2>4, <2>5
<1>6. CASE PackagesDone(r)
  <2>1. PICK new : new = [old EXCEPT !.step = "repos"]
    OBVIOUS
  <2>2. Named(new) /\ new.req = old.req
    BY <1>3, <2>1 DEF Named, RemoveCall
  <2>3. remove' = [remove EXCEPT ![r] = new]
    BY <1>2, <1>6, <2>1 DEF PackagesDone, Moves
  <2>4. UNCHANGED updateVars /\ Noticing({}) /\ {} \subseteq Scope(new.req)
    BY <1>6 DEF PackagesDone
  <2> QED
    BY <1>1, <1>2, <1>4, <2>2, <2>3, <2>4, GoesOnQuietly
<1> QED
  BY <1>5, <1>6

\* The records Tags finds lie in the scope of the request (poll.go:52-70).
LEMMA FoundInScope ==
    ASSUME RemoveSafe, NEW req \in RemoveReq, NEW url \in req.repos
    PROVE  \A k \in {<<k[1], repoDB[k].tag>> : k \in Tags(url)} : k \in Key /\ k[1] \in Scope(req)
<1>1. IsMap(repoDB, Key, Status) /\ url \in Urls
  BY DEF RemoveSafe, UpdateSafe, PollSafe, RemoveReq
<1> SUFFICES ASSUME NEW j \in Tags(url)
             PROVE  <<j[1], repoDB[j].tag>> \in Key /\ j[1] \in Scope(req)
  OBVIOUS
<1>2. j \in DOMAIN repoDB /\ Belongs(url, j)
  BY <1>1, TagsBelong DEF IsMap
<1>3. j \in Key /\ repoDB[j] \in Status
  BY <1>1, <1>2 DEF IsMap
<1>4. <<j[1], repoDB[j].tag>> \in Key
  BY <1>3 DEF Key, Status
<1> QED
  BY <1>2, <1>3, <1>4, BelongsInScope

\* The repositories are looked up, and their records removed (remove.go:46-59).
LEMMA RecordsSafe ==
    ASSUME RemoveSafe, NEW r \in Removers,
           \/ \E url \in Urls : LooksUp(r, url) \/ LookUpFails(r, url)
           \/ \E key \in Key : RemovesRecord(r, key) \/ RemoveRecordFails(r, key)
    PROVE  RemoveSafe'
<1>1. r \in DOMAIN remove /\ remove[r].step = "repos"
  BY DEF LooksUp, LookUpFails, RemovesRecord, RemoveRecordFails, InRemove
<1>2. PICK old : old = remove[r]
  OBVIOUS
<1>3. /\ Named(old) /\ old \in RemoveCall /\ old.step = "repos" /\ old.req \in RemoveReq
      /\ old.found \subseteq Key /\ old.repos \subseteq old.req.repos /\ old.bases \subseteq Urls
  BY <1>1, <1>2, RemoveParts DEF Named
<1>4. ASSUME NEW url \in Urls, LooksUp(r, url)
      PROVE  RemoveSafe'
  <2>1. PICK found : found = {<<k[1], repoDB[k].tag>> : k \in Tags(url)}
    OBVIOUS
  <2>2. \A k \in found : k \in Key /\ k[1] \in Scope(old.req)
    BY <1>2, <1>3, <1>4, <2>1, FoundInScope DEF LooksUp
  <2>3. PICK new : new = [old EXCEPT !.repos = @ \ {url}, !.found = found]
    OBVIOUS
  <2>4. Named(new) /\ new.req = old.req /\ new.step = "repos" /\ new.bases = old.bases
    BY <1>3, <2>2, <2>3 DEF Named, RemoveCall
  <2>5. remove' = [remove EXCEPT ![r] = new]
    BY <1>2, <1>4, <2>1, <2>3 DEF LooksUp
  <2>6. UNCHANGED updateVars /\ Noticing({}) /\ {} \subseteq Scope(new.req)
    BY <1>4 DEF LooksUp
  <2>7. \A p, u : Covers(old, p, u) => Covers(new, p, u)
    BY <2>4 DEF Covers
  <2> QED
    BY <1>1, <1>2, <2>4, <2>5, <2>6, <2>7, GoesOnQuietly
<1>5. ASSUME NEW url \in Urls, LookUpFails(r, url)
      PROVE  RemoveSafe'
  <2>1. PICK new : new = [old EXCEPT !.repos = @ \ {url}]
    OBVIOUS
  <2>2. Named(new) /\ new.req = old.req /\ new.step = "repos" /\ new.bases = old.bases
    BY <1>3, <2>1 DEF Named, RemoveCall
  <2>3. remove' = [remove EXCEPT ![r] = new]
    BY <1>2, <1>5, <2>1 DEF LookUpFails
  <2>4. UNCHANGED updateVars /\ Noticing(Scope(new.req))
    BY <1>2, <1>5, <2>2 DEF LookUpFails
  <2>5. \A p, u : Covers(old, p, u) => Covers(new, p, u)
    BY <2>2 DEF Covers
  <2> QED
    BY <1>1, <1>2, <2>2, <2>3, <2>4, <2>5, GoesOnQuietly
<1>6. ASSUME NEW key \in Key, RemovesRecord(r, key)
      PROVE  RemoveSafe'
  <2>1. PICK new : new = [old EXCEPT !.found = @ \ {key}, !.bases = @ \cup {key[1]}]
    OBVIOUS
  <2>2. key \in old.found /\ key[1] \in Scope(old.req) /\ key[1] \in Urls
    BY <1>2, <1>3, <1>6 DEF RemovesRecord, Named, Key
  <2>3. /\ Named(new) /\ new.req = old.req /\ new.step = "repos"
        /\ new.bases = old.bases \cup {key[1]}
    BY <1>3, <2>1, <2>2 DEF Named, RemoveCall
  <2>4. remove' = [remove EXCEPT ![r] = new]
    BY <1>2, <1>6, <2>1 DEF RemovesRecord
  <2>5. /\ repoDB' = Drop(repoDB, key) /\ Noticing({}) /\ {} \subseteq Scope(new.req)
        /\ UNCHANGED <<pending, reported, resolved, graph, call>>
    BY <1>6 DEF RemovesRecord
  <2>6. UpdateSafe'
    BY <2>5, RecordDroppedSafe DEF RemoveSafe
  <2>7. \A u : HasRecord(u) => HasRecord(u)' \/ (new.step = "repos" /\ u \in new.bases)
    BY <2>3, <2>5 DEF HasRecord, Drop
  <2>8. \A p, u : Covers(old, p, u) => Covers(new, p, u)
    BY <2>3 DEF Covers
  <2>9. /\ \A p \in DOMAIN graph' : p \in DOMAIN graph /\ graph'[p] = graph[p]
        /\ \A p \in DOMAIN graph' : Covers(remove[r], p, graph[p].repo) =>
               Covers(new, p, graph[p].repo) \/ graph[p].repo \in {} \cup excused
    BY <1>2, <2>5, <2>8
  <2>10. UNCHANGED call /\ new.req = remove[r].req
    BY <1>2, <2>3, <2>5
  <2> QED
    BY <1>1, <2>3, <2>4, <2>5, <2>6, <2>7, <2>9, <2>10, RemoveGoesOn
<1>7. ASSUME NEW key \in Key, RemoveRecordFails(r, key)
      PROVE  RemoveSafe'
  <2>1. PICK new : new = [old EXCEPT !.found = @ \ {key}]
    OBVIOUS
  <2>2. Named(new) /\ new.req = old.req /\ new.step = "repos" /\ new.bases = old.bases
    BY <1>3, <2>1 DEF Named, RemoveCall
  <2>3. remove' = [remove EXCEPT ![r] = new]
    BY <1>2, <1>7, <2>1 DEF RemoveRecordFails
  <2>4. UNCHANGED updateVars /\ Noticing(Scope(new.req))
    BY <1>2, <1>7, <2>2 DEF RemoveRecordFails
  <2>5. \A p, u : Covers(old, p, u) => Covers(new, p, u)
    BY <2>2 DEF Covers
  <2> QED
    BY <1>1, <1>2, <2>2, <2>3, <2>4, <2>5, GoesOnQuietly
<1> QED
  BY <1>4, <1>5, <1>6, <1>7

\* The rows are gone over, if there is a reason to (remove.go:60-73).
LEMMA RowsSafe ==
    ASSUME RemoveSafe, NEW r \in Removers,
           \/ RecordsDone(r)
           \/ \E p \in Packages :
                  \/ RemoveLoads(r, p) \/ RemoveMisses(r, p)
                  \/ \E deleted \in BOOLEAN : RemoveDrops(r, p, deleted)
           \/ RemoveReadFails(r)
    PROVE  RemoveSafe'
<1>1. r \in DOMAIN remove
  BY DEF RecordsDone, RemoveLoads, RemoveMisses, RemoveDrops, RemoveReadFails, InRemove
<1>2. PICK old : old = remove[r]
  OBVIOUS
<1>3. /\ Named(old) /\ old \in RemoveCall /\ old.req \in RemoveReq
      /\ old.todo \subseteq Packages /\ old.bases \subseteq Scope(old.req)
  BY <1>1, <1>2, RemoveParts DEF Named
<1>4. CASE RecordsDone(r)
  <2>1. old.step = "repos" /\ old.repos = {} /\ old.found = {}
    BY <1>2, <1>4 DEF RecordsDone, InRemove
  <2>2. UNCHANGED updateVars /\ Noticing({})
    BY <1>4 DEF RecordsDone
  <2>3. CASE old.req.keep \/ old.bases = {}
    <3>1. PICK new : new = [old EXCEPT !.step = "end"]
      OBVIOUS
    <3>2. Named(new) /\ new.req = old.req /\ new.step = "end" /\ new.bases = old.bases
      BY <1>3, <2>1, <3>1 DEF Named, RemoveCall
    <3>3. remove' = [remove EXCEPT ![r] = new]
      BY <1>2, <1>4, <2>3, <3>1 DEF RecordsDone
    <3>4. {} \subseteq Scope(new.req)
      OBVIOUS
    <3>5. \A p, u : Covers(old, p, u) => Covers(new, p, u)
      BY <2>3, <3>2 DEF Covers
    <3> QED
      BY <1>1, <1>2, <2>2, <3>2, <3>3, <3>4, <3>5, GoesOnQuietly
  <2>4. CASE ~(old.req.keep \/ old.bases = {})
    <3>1. PICK new : new = [old EXCEPT !.step = "scan", !.todo = Listing(graph)]
      OBVIOUS
    <3>2. DOMAIN graph \subseteq Packages
      BY DEF RemoveSafe, UpdateSafe, IsMap
    <3>3. /\ Named(new) /\ new.req = old.req
          /\ new.step = "scan" /\ new.bases = old.bases /\ new.todo = DOMAIN graph
      BY <1>3, <2>1, <3>1, <3>2 DEF Named, RemoveCall, Listing
    <3>4. remove' = [remove EXCEPT ![r] = new]
      BY <1>2, <1>4, <2>4, <3>1 DEF RecordsDone
    <3>5. {} \subseteq Scope(new.req)
      OBVIOUS
    <3>6. \A p \in DOMAIN graph : \A u : Covers(old, p, u) => Covers(new, p, u)
      BY <3>3 DEF Covers
    <3> QED
      BY <1>1, <1>2, <2>2, <3>3, <3>4, <3>5, <3>6, GoesOnQuietly
  <2> QED
    BY <2>3, <2>4
<1>5. ASSUME NEW p \in Packages, RemoveLoads(r, p)
      PROVE  RemoveSafe'
  <2>1. /\ old.step = "scan" /\ p \in DOMAIN graph
        /\ UNCHANGED updateVars /\ Noticing({})
    BY <1>2, <1>5 DEF RemoveLoads, InRemove
  <2>2. CASE RemovesAttributed(r, graph[p])
    <3>1. PICK new : new = [old EXCEPT !.step = "drop"]
      OBVIOUS
    <3>2. /\ Named(new) /\ new.req = old.req
          /\ new.step = "drop" /\ new.bases = old.bases /\ new.todo = old.todo
      BY <1>3, <2>1, <3>1 DEF Named, RemoveCall
    <3>3. remove' = [remove EXCEPT ![r] = new]
      BY <1>2, <1>5, <2>2, <3>1 DEF RemoveLoads
    <3>4. {} \subseteq Scope(new.req)
      OBVIOUS
    <3>5. \A q, u : Covers(old, q, u) => Covers(new, q, u)
      BY <2>1, <3>2 DEF Covers
    <3> QED
      BY <1>1, <1>2, <2>1, <3>2, <3>3, <3>4, <3>5, GoesOnQuietly
  <2>3. CASE ~RemovesAttributed(r, graph[p])
    <3>1. PICK new : new = [old EXCEPT !.todo = @ \ {p}]
      OBVIOUS
    <3>2. /\ Named(new) /\ new.req = old.req
          /\ new.step = "scan" /\ new.bases = old.bases /\ new.todo = old.todo \ {p}
      BY <1>3, <2>1, <3>1 DEF Named, RemoveCall
    <3>3. remove' = [remove EXCEPT ![r] = new]
      BY <1>2, <1>5, <2>3, <3>1 DEF RemoveLoads
    <3>4. {} \subseteq Scope(new.req)
      OBVIOUS
    <3>5. graph[p].repo \notin old.bases
      BY <1>2, <2>3 DEF RemovesAttributed
    <3>6. \A q : Covers(old, q, graph[q].repo) => Covers(new, q, graph[q].repo)
      BY <2>1, <3>2, <3>5 DEF Covers
    <3> QED
      BY <1>1, <1>2, <2>1, <3>2, <3>3, <3>4, <3>6, GoesOnQuietly
  <2> QED
    BY <2>2, <2>3
<1>6. ASSUME NEW p \in Packages, NEW deleted \in BOOLEAN, RemoveDrops(r, p, deleted)
      PROVE  RemoveSafe'
  <2>1. PICK new : new = [old EXCEPT !.step = "scan", !.todo = @ \ {p}]
    OBVIOUS
  <2>2. old.step = "drop"
    BY <1>2, <1>6 DEF RemoveDrops, InRemove
  <2>3. /\ Named(new) /\ new.req = old.req
        /\ new.step = "scan" /\ new.bases = old.bases /\ new.todo = old.todo \ {p}
    BY <1>3, <2>1, <2>2 DEF Named, RemoveCall
  <2>4. remove' = [remove EXCEPT ![r] = new]
    BY <1>2, <1>6, <2>1 DEF RemoveDrops
  <2>5. CASE deleted
    <3>1. graph' = Drop(graph, p) /\ UNCHANGED <<pollVars, call>> /\ Noticing({})
      BY <1>6, <2>5 DEF RemoveDrops
    <3>2. \A q \in DOMAIN graph \ {p} : Covers(old, q, graph[q].repo) => Covers(new, q, graph[q].repo)
      BY <2>2, <2>3 DEF Covers
    <3> QED
      BY <1>1, <1>2, <2>3, <2>4, <3>1, <3>2, GoesOnDropping
  <2>6. CASE ~deleted
    <3>1. UNCHANGED updateVars /\ Noticing(Scope(new.req))
      BY <1>2, <1>6, <2>3, <2>6 DEF RemoveDrops, updateVars, pollVars
    <3>2. \A q \in DOMAIN graph : Covers(remove[r], q, graph[q].repo) =>
              Covers(new, q, graph[q].repo) \/ graph[q].repo \in Scope(new.req) \cup excused
      BY <1>2, <1>3, <2>3 DEF Covers, Named
    <3>3. Scope(new.req) \subseteq Scope(new.req) /\ new.req = remove[r].req
      BY <1>2, <2>3
    <3> QED
      BY <1>1, <2>3, <2>4, <3>1, <3>2, <3>3, GoesOnQuietly
  <2> QED
    BY <2>5, <2>6
<1>7. ASSUME RemoveAborts(r), remove[r].step = "scan"
      PROVE  RemoveSafe'
  <2>1. PICK new : new = [old EXCEPT !.step = "end", !.todo = {}]
    OBVIOUS
  <2>2. Named(new) /\ new.req = old.req
    BY <1>2, <1>3, <1>7, <2>1 DEF Named, RemoveCall
  <2>3. remove' = [remove EXCEPT ![r] = new] /\ UNCHANGED updateVars /\ Noticing(Scope(new.req))
    BY <1>2, <1>7, <2>1, <2>2 DEF RemoveAborts
  <2>4. \A q, u : Covers(old, q, u) => u \in Scope(new.req) \cup excused
    BY <1>3, <2>2 DEF Covers
  <2> QED
    BY <1>1, <1>2, <2>2, <2>3, <2>4, GoesOnQuietly
<1> QED
  BY <1>4, <1>5, <1>6, <1>7 DEF RemoveMisses, RemoveReadFails, InRemove

\* A Remove returns: it had no row left to come to, but those it keeps
\* (remove.go:75-79).
LEMMA RemoveReturnsSafe ==
    ASSUME RemoveSafe, NEW r \in Removers, RemoveReturns(r)
    PROVE  RemoveSafe'
<1>1. r \in DOMAIN remove /\ UNCHANGED updateVars /\ remove' = Drop(remove, r)
  BY DEF RemoveReturns, InRemove
<1>2. \A p, u : Covers(remove[r], p, u) => u \in excused'
  BY <1>1, RemoveParts DEF RemoveReturns, InRemove, Covers, Named, Noticing
<1>3. /\ DOMAIN remove' = DOMAIN remove \ {r}
      /\ \A x \in DOMAIN remove' : remove'[x] = remove[x]
  BY <1>1 DEF Drop
<1>4. RemovesNamed'
  <2>1. IsMap(remove', Removers, RemoveCall)
    BY <1>1 DEF Drop, RemoveSafe, RemovesNamed, IsMap
  <2> QED
    BY <1>3, <2>1 DEF RemoveSafe, RemovesNamed
<1>5. UpdateSafe'
  BY <1>1, UpdateStutters DEF RemoveSafe
<1>6. /\ excused \subseteq excused' /\ Updating' \cap Removing' \subseteq excused'
      /\ excused' \subseteq Urls
  <2>1. Removing' \subseteq Urls /\ Scope(remove[r].req) \subseteq Urls
    BY DEF Removing, Scope
  <2> QED
    BY <2>1 DEF RemoveReturns, Noticing, RemoveSafe, Excuses
<1>7. Excuses'
  BY <1>3, <1>6 DEF RemoveSafe, Excuses
<1>8. CallsRecorded'
  BY <1>1, <1>6 DEF RemoveSafe, CallsRecorded, HasRecord, updateVars
<1>9. RowsCovered'
  <2> SUFFICES ASSUME NEW p \in DOMAIN graph, ~HasRecord(graph[p].repo), graph[p].repo \notin excused'
               PROVE  \E x \in DOMAIN remove' : Covers(remove'[x], p, graph[p].repo)
    BY <1>1 DEF RowsCovered, HasRecord, Covers, updateVars
  <2>1. PICK x \in DOMAIN remove : Covers(remove[x], p, graph[p].repo)
    BY <1>6 DEF RemoveSafe, RowsCovered
  <2> QED
    BY <1>2, <1>3, <2>1
<1> QED
  BY <1>4, <1>5, <1>7, <1>8, <1>9 DEF RemoveSafe

-----------------------------------------------------------------------------
(* Updates beside it, and restarts.                                        *)

\* A call that steps loses no record; past its Check it has its own.
LEMMA StepRecords ==
    ASSUME UpdateSafe, NEW c \in Callers, UpdateStep(c)
    PROVE  /\ DOMAIN repoDB \subseteq DOMAIN repoDB'
           /\ \A k \in DOMAIN repoDB' \ DOMAIN repoDB : k[1] = call[c].req.url
           /\ \A x \in DOMAIN call' : call'[x].step # "check" =>
                  \/ call[x].step # "check"
                  \/ \E k \in DOMAIN repoDB' : k[1] = call[x].req.url
<1>1. c \in DOMAIN call /\ IsMap(call, Callers, Call)
  BY StepCalls DEF UpdateSafe, CallsSafe
<1>2. c \in DOMAIN pending => pending[c].url = call[c].req.url
  BY DEF UpdateSafe, CallsSafe, PendingMatches
<1>3. /\ DOMAIN repoDB \subseteq DOMAIN repoDB'
      /\ \A k \in DOMAIN repoDB' \ DOMAIN repoDB : k[1] = call[c].req.url
  <2>1. CASE UNCHANGED repoDB
    BY <2>1
  <2>2. ASSUME NEW key, NEW stat, repoDB' = Put(repoDB, key, stat), key[1] = call[c].req.url
        PROVE  /\ DOMAIN repoDB \subseteq DOMAIN repoDB'
               /\ \A k \in DOMAIN repoDB' \ DOMAIN repoDB : k[1] = call[c].req.url
    BY <2>2 DEF Put
  <2>3. CASE \E name \in Names, digest \in Digests :
                 repoDB' = Put(repoDB, <<pending[c].url, pending[c].label>>,
                               Answered(pending[c].stat, name, digest))
    <3>1. c \in DOMAIN pending \/ UNCHANGED repoDB
      BY StepStores
    <3> QED
      BY <1>2, <2>1, <2>2, <2>3, <3>1
  <2>4. CASE repoDB' = Put(repoDB, FailureKey(pending[c]), Failed(pending[c].stat))
    <3>1. c \in DOMAIN pending \/ UNCHANGED repoDB
      BY StepStores
    <3>2. FailureKey(pending[c])[1] = pending[c].url
      BY DEF FailureKey
    <3> QED
      BY <1>2, <2>1, <2>2, <2>4, <3>1, <3>2
  <2> QED
    BY <2>1, <2>3, <2>4, StepStores
<1>4. ASSUME NEW x \in DOMAIN call', call'[x].step # "check", call[x].step = "check"
      PROVE  \E k \in DOMAIN repoDB' : k[1] = call[x].req.url
  <2>1. CASE \E name \in Names, digest \in Digests : CheckSucceeds(c, name, digest)
    <3>1. x = c
      BY <1>4, <2>1 DEF CheckSucceeds
    <3>2. <<call[c].req.url, pending[c].label>> \in DOMAIN repoDB'
      BY <1>2, <2>1 DEF CheckSucceeds, HeadAnswers, Put
    <3> QED
      BY <3>1, <3>2
  <2>2. CASE Return(c)
    BY <1>4, <2>2 DEF Return, Drop
  <2>3. CASE (\E step, todo : Goto(c, step, todo)) /\ call[c].step # "check"
    BY <1>4, <2>3 DEF Goto
  <2> QED
    BY <2>1, <2>2, <2>3
    DEF UpdateStep, CheckErrs, ReturnsUnchanged, UpdateStarts,
        ResetStep, ResetLoads, ResetAborts, ResetRemoves, ResetRemoveFails, ResetDone,
        StoreStep, CloneLoads, CloneFails, AddPackage, AddFails, UpdateDone, At
<1> QED
  BY <1>3, <1>4

\* The rows a step of a call leaves or stores: those that were there, and those
\* of its own repository, once it is past its Check.
LEMMA StepRows ==
    ASSUME UpdateSafe, NEW c \in Callers, UpdateStep(c)
    PROVE  \A p \in DOMAIN graph' :
               \/ p \in DOMAIN graph /\ graph'[p] = graph[p]
               \/ call[c].step # "check" /\ graph'[p].repo = call[c].req.url
<1>1. CASE UNCHANGED graph
  BY <1>1
<1>2. CASE \E p \in Packages : ResetRemoves(c, p)
  BY <1>2 DEF ResetRemoves, Drop
<1>3. CASE \E p \in Packages : AddPackage(c, p)
  BY <1>3 DEF AddPackage, At, Put
<1> QED
  BY <1>1, <1>2, <1>3
  DEF UpdateStep, CheckSucceeds, CheckErrs, ReturnsUnchanged, UpdateStarts,
      ResetStep, ResetLoads, ResetAborts, ResetRemoveFails, ResetDone,
      StoreStep, CloneLoads, CloneFails, AddFails, UpdateDone

\* An Update beside the Removes is noticed where they meet (update.go:35-92).
LEMMA BesideSafe ==
    ASSUME RemoveSafe, NEW c \in Callers, UpdateBeside(c)
    PROVE  RemoveSafe'
<1>1. UNCHANGED remove /\ Noticing({})
  BY DEF UpdateBeside
<1>2. Removing' = Removing /\ Removing \subseteq Urls
  BY <1>1 DEF Removing, Scope
<1>3. excused \subseteq excused' /\ Excuses' /\ RemovesNamed'
  BY <1>1, <1>2 DEF Noticing, RemoveSafe, Excuses, RemovesNamed
<1>4. ASSUME NEW req \in Requests[c], BeginUpdate(c, req)
      PROVE  RemoveSafe'
  <2>1. UpdateSafe'
    BY <1>4, BeginSafe, UpdateAssumption DEF RemoveSafe
  <2>2. UNCHANGED <<repoDB, graph>>
    BY <1>4 DEF BeginUpdate, CheckLoad
  <2>3. PICK new : call' = Put(call, c, new) /\ new.step = "check"
    BY <1>4 DEF BeginUpdate
  <2>4. CallsRecorded'
    BY <1>3, <2>2, <2>3 DEF Put, RemoveSafe, CallsRecorded, HasRecord
  <2>5. RowsCovered'
    BY <1>1, <1>3, <2>2 DEF RemoveSafe, RowsCovered, HasRecord, Covers
  <2> QED
    BY <1>3, <2>1, <2>4, <2>5 DEF RemoveSafe
<1>5. CASE UpdateStep(c)
  <2>1. UpdateSafe'
    BY <1>5, StepSafe DEF RemoveSafe
  <2>2. \A u : HasRecord(u) => HasRecord(u)'
    BY <1>5, StepRecords DEF HasRecord, RemoveSafe
  <2>3. CallsRecorded'
    <3> SUFFICES ASSUME NEW x \in DOMAIN call', call'[x].step # "check"
                 PROVE  \/ \E k \in DOMAIN repoDB' : k[1] = call'[x].req.url
                        \/ call'[x].req.url \in excused'
      BY DEF CallsRecorded, HasRecord
    <3>1. x \in DOMAIN call /\ call'[x].req = call[x].req
      BY <1>5, StepCalls DEF RemoveSafe
    <3>2. call[x].step # "check" \/ \E k \in DOMAIN repoDB' : k[1] = call[x].req.url
      BY <1>5, StepRecords DEF RemoveSafe
    <3>3. call[x].step # "check" =>
              (\E k \in DOMAIN repoDB : k[1] = call[x].req.url) \/ call[x].req.url \in excused
      BY <3>1 DEF RemoveSafe, CallsRecorded, HasRecord
    <3>4. DOMAIN repoDB \subseteq DOMAIN repoDB'
      BY <1>5, StepRecords DEF RemoveSafe
    <3> QED
      BY <1>3, <3>1, <3>2, <3>3, <3>4
  <2>4. RowsCovered'
    <3> SUFFICES ASSUME NEW p \in DOMAIN graph'
                 PROVE  \/ \E k \in DOMAIN repoDB' : k[1] = graph'[p].repo
                        \/ graph'[p].repo \in excused'
                        \/ \E r \in DOMAIN remove : Covers(remove[r], p, graph'[p].repo)
      BY <1>1 DEF RowsCovered, Covers, HasRecord
    <3>1. CASE p \in DOMAIN graph /\ graph'[p] = graph[p]
      <4>1. HasRecord(graph[p].repo) => (\E k \in DOMAIN repoDB' : k[1] = graph'[p].repo)
        BY <1>5, <3>1, StepRecords DEF HasRecord, RemoveSafe
      <4> QED
        BY <1>3, <3>1, <4>1 DEF RemoveSafe, RowsCovered, HasRecord
    <3>2. CASE call[c].step # "check" /\ graph'[p].repo = call[c].req.url
      <4>1. HasRecord(call[c].req.url) \/ call[c].req.url \in excused
        BY <1>5, <3>2, StepCalls DEF RemoveSafe, CallsRecorded
      <4>2. HasRecord(call[c].req.url) => (\E k \in DOMAIN repoDB' : k[1] = graph'[p].repo)
        BY <1>5, <3>2, StepRecords DEF HasRecord, RemoveSafe
      <4> QED
        BY <1>3, <3>2, <4>1, <4>2 DEF HasRecord
    <3> QED
      BY <1>5, <3>1, <3>2, StepRows DEF RemoveSafe
  <2> QED
    BY <1>3, <2>1, <2>3, <2>4 DEF RemoveSafe
<1> QED
  BY <1>4, <1>5 DEF UpdateBeside

\* A restart cuts the Removes short: what they may have left is excused.
LEMMA RemoveCrashSafe ==
    ASSUME RemoveSafe, RemoveCrash
    PROVE  RemoveSafe'
<1>1. UpdateSafe'
  BY RestartSafe DEF RemoveSafe, RemoveCrash
<1>2. IsMap(remove', Removers, RemoveCall) /\ DOMAIN remove' = {} /\ DOMAIN call' = {}
  BY EmptyMap DEF RemoveCrash
<1>3. Removing \subseteq Urls /\ Updating' = {}
  BY <1>2 DEF Removing, Scope, Updating
<1>4. excused' = excused \cup Removing /\ UNCHANGED <<repoDB, graph>>
  BY DEF RemoveCrash
<1>5. Excuses' /\ RemovesNamed' /\ CallsRecorded'
  BY <1>2, <1>3, <1>4 DEF RemoveSafe, Excuses, RemovesNamed, CallsRecorded
<1>6. RowsCovered'
  <2> SUFFICES ASSUME NEW p \in DOMAIN graph, ~HasRecord(graph[p].repo), graph[p].repo \notin excused
               PROVE  graph[p].repo \in Removing
    BY <1>4 DEF RowsCovered, HasRecord
  <2>1. PICK r \in DOMAIN remove : Covers(remove[r], p, graph[p].repo)
    BY DEF RemoveSafe, RowsCovered
  <2> QED
    BY <2>1 DEF Covers, RemoveSafe, RemovesNamed, Named, Removing
<1> QED
  BY <1>1, <1>5, <1>6 DEF RemoveSafe

\* Every step keeps the invariant.
LEMMA RemoveStepSafe == RemoveSafe /\ [RemoveNext]_removeVars => RemoveSafe'
<1> SUFFICES ASSUME RemoveSafe, [RemoveNext]_removeVars PROVE RemoveSafe'
  OBVIOUS
<1>1. ASSUME NEW r \in Removers, NEW req \in RemoveReqs, RemoveBegins(r, req)
      PROVE  RemoveSafe'
  <2>1. req \in RemoveReq
    BY RemoveAssumption
  <2> QED
    BY <1>1, <2>1, RemoveBeginsSafe
<1>2. ASSUME NEW r \in Removers, RemoveStep(r) \/ RemoveFault(r)
      PROVE  RemoveSafe'
  BY <1>2, PackagesSafe, RecordsSafe, RowsSafe, RemoveReturnsSafe DEF RemoveStep, RemoveFault
<1>3. CASE UNCHANGED removeVars
  <2>1. UpdateSafe'
    BY <1>3, UpdateStutters DEF RemoveSafe, removeVars
  <2> QED
    BY <1>3, <2>1 DEF RemoveSafe, RemovesNamed, Excuses, CallsRecorded, RowsCovered,
                      HasRecord, Covers, Updating, Removing, removeVars, updateVars
<1> QED
  BY <1>1, <1>2, <1>3, BesideSafe, RemoveCrashSafe DEF RemoveNext

\* The inductive invariant holds in every reachable state.
THEOREM RemoveAlwaysSafe == RemoveSpec => []RemoveSafe
<1>1. RemoveInit => RemoveSafe
  BY RemoveInitSafe
<1> QED
  BY <1>1, RemoveStepSafe, PTL DEF RemoveSpec

\* Removes keep their type beside Updates, faults and restarts (remove.go:28-79).
THEOREM RemoveTypes == RemoveSpec => []RemoveTypeOK
  BY RemoveAlwaysSafe, RemoveSafeSuffices, PTL

\* No row outlives the records of its repository, where a later Remove would no
\* longer find it, except as the code tells or cannot help: for any Removes and
\* Updates, URLs and labels, whatever fails (remove.go:46-71).
THEOREM NoRowOrphaned == RemoveSpec => []NoOrphanRows
  BY RemoveAlwaysSafe, RemoveSafeSuffices, PTL

-----------------------------------------------------------------------------
(* What is gone when a Remove is done.  A Check  of a labelled repository   *)
(* that fails files its record where the repository itself has its own, so *)
(* this holds of repositories without labels, or while no head is missed.  *)

FilesWell == Labels = {} \/ "head" \notin Faults

\* A record is filed under its label (poll.go:141-203).
LEMMA CheckedTagged ==
    ASSUME FilesWell, RemoveSafe, TagMatchesKey, PendingTagged,
           NEW c \in Callers, UpdateStep(c)
    PROVE  TagMatchesKey' /\ PendingTagged'
<1>1. c \in DOMAIN pending => pending[c] \in InFlight /\ pending[c].stat.tag = pending[c].label
  BY DEF RemoveSafe, UpdateSafe, PollSafe, IsMap, PendingTagged
<1>2. CASE UNCHANGED repoDB /\ (UNCHANGED pending \/ pending' = Drop(pending, c))
  BY <1>2 DEF TagMatchesKey, PendingTagged, Drop
<1>3. ASSUME NEW key, NEW stat, repoDB' = Put(repoDB, key, stat), stat.tag = key[2],
             pending' = Drop(pending, c)
      PROVE  TagMatchesKey' /\ PendingTagged'
  BY <1>3 DEF TagMatchesKey, PendingTagged, Put, Drop
<1>4. ASSUME NEW name \in Names, NEW digest \in Digests, c \in DOMAIN pending,
             pending' = Drop(pending, c),
             repoDB' = Put(repoDB, <<pending[c].url, pending[c].label>>,
                           Answered(pending[c].stat, name, digest))
      PROVE  TagMatchesKey' /\ PendingTagged'
  <2>1. pending[c].stat \in Status
    BY <1>1, <1>4 DEF InFlight
  <2>2. Answered(pending[c].stat, name, digest).tag = pending[c].label
    BY <1>1, <1>4, <2>1 DEF Answered, Status
  <2> QED
    BY <1>3, <1>4, <2>2
<1>5. ASSUME c \in DOMAIN pending, pending' = Drop(pending, c), "head" \in Faults,
             repoDB' = Put(repoDB, FailureKey(pending[c]), Failed(pending[c].stat))
      PROVE  TagMatchesKey' /\ PendingTagged'
  <2>1. pending[c].label = NoLabel /\ pending[c].stat \in Status
    BY <1>1, <1>5 DEF InFlight, FilesWell
  <2>2. Failed(pending[c].stat).tag = NoLabel /\ FailureKey(pending[c])[2] = NoLabel
    BY <1>1, <1>5, <2>1 DEF Failed, Status, FailureKey
  <2> QED
    BY <1>3, <1>5, <2>2
<1> QED
  BY <1>2, <1>4, <1>5, StepStores DEF RemoveSafe

\* The record a new Check holds has its label, found or made (poll.go:132-148).
LEMMA BegunTagged ==
    ASSUME RemoveSafe, TagMatchesKey, PendingTagged,
           NEW c \in Callers, NEW req \in UpdateReq, BeginUpdate(c, req)
    PROVE  TagMatchesKey' /\ PendingTagged'
<1>1. PICK stat : stat = IF <<req.url, req.label>> \in DOMAIN repoDB
                         THEN repoDB[<<req.url, req.label>>] ELSE NewStatus(req.ref)
  OBVIOUS
<1>2. stat \in Status
  BY <1>1 DEF RemoveSafe, UpdateSafe, PollSafe, IsMap, NewStatus, Status, UpdateReq
<1>3. stat.tag = IF <<req.url, req.label>> \in DOMAIN repoDB THEN req.label ELSE NoLabel
  BY <1>1 DEF TagMatchesKey, NewStatus
<1>4. Relabelled(stat, req.label) \in Status /\ Relabelled(stat, req.label).tag = req.label
  BY <1>2, <1>3 DEF Relabelled, Status, UpdateReq
<1>5. PICK labelled : labelled = Relabelled(stat, req.label)
  OBVIOUS
<1>6. Retargeted(labelled, req.ref).tag = req.label
  BY <1>4, <1>5 DEF Retargeted, Status
<1>7. /\ UNCHANGED repoDB
      /\ pending' = Put(pending, c, [url |-> req.url, label |-> req.label,
                                     stat |-> Retargeted(labelled, req.ref)])
  BY <1>1, <1>5 DEF BeginUpdate, CheckLoad
<1> QED
  BY <1>6, <1>7 DEF TagMatchesKey, PendingTagged, Put

\* No step of a Remove files a record or asks a remote.
LEMMA RemoveTags ==
    ASSUME TagMatchesKey, PendingTagged, NEW r \in Removers,
           (\E req \in RemoveReqs : RemoveBegins(r, req)) \/ RemoveStep(r) \/ RemoveFault(r)
    PROVE  TagMatchesKey' /\ PendingTagged'
<1>1. CASE UNCHANGED <<repoDB, pending>>
  BY <1>1 DEF TagMatchesKey, PendingTagged
<1>2. CASE \E key \in Key : RemovesRecord(r, key)
  BY <1>2 DEF RemovesRecord, TagMatchesKey, PendingTagged, Drop
<1>3. CASE \E req \in RemoveReqs : RemoveBegins(r, req)
  BY <1>1, <1>3 DEF RemoveBegins, updateVars
<1>4. CASE RemoveFault(r)
  BY <1>1, <1>4 DEF RemoveFault, RemovesPackage, LookUpFails, RemoveRecordFails, RemoveDrops,
                    RemoveReadFails, RemoveAborts, updateVars, pollVars
<1> QED
  BY <1>1, <1>2, <1>3, <1>4
  DEF RemoveStep, RemovesPackage, PackagesDone, LooksUp, RecordsDone, RemoveLoads,
      RemoveDrops, RemoveMisses, RemoveAborts, RemoveReturns, updateVars, pollVars

\* What RecordsGone says of one call and one repository.
GoneBut(c, u) == <<u, NoLabel>> \in DOMAIN repoDB => <<u, NoLabel>> \in c.found

\* A Remove goes on without losing sight of a record it has found.
LEMMA GoneGoesOn ==
    ASSUME RecordsGone, RemoveSafe, NEW r \in DOMAIN remove, NEW new,
           remove' = [remove EXCEPT ![r] = new], new.req = remove[r].req,
           DOMAIN repoDB' \subseteq DOMAIN repoDB, NEW failed, Noticing(failed),
           \/ new.req.repos # {} /\ failed = Scope(new.req)
           \/ \A u \in new.req.repos \ new.repos :
                  (GoneBut(remove[r], u) \/ u \in remove[r].repos)
                      /\ <<u, NoLabel>> \in DOMAIN repoDB' => <<u, NoLabel>> \in new.found
    PROVE  RecordsGone'
<1>1. /\ DOMAIN remove' = DOMAIN remove /\ remove'[r] = new
      /\ \A x \in DOMAIN remove \ {r} : remove'[x] = remove[x]
  BY DEF RemoveSafe, RemovesNamed, IsMap
<1>2. excused \subseteq excused' /\ failed \subseteq excused'
  BY DEF Noticing
<1> SUFFICES ASSUME NEW x \in DOMAIN remove, Scope(remove'[x].req) \cap excused' = {},
                    NEW u \in remove'[x].req.repos \ remove'[x].repos,
                    <<u, NoLabel>> \in DOMAIN repoDB'
             PROVE  <<u, NoLabel>> \in remove'[x].found
  BY <1>1 DEF RecordsGone
<1>3. CASE x # r
  BY <1>1, <1>2, <1>3 DEF RecordsGone
<1>4. CASE x = r
  <2>1. new.req \in RemoveReq /\ u \in Scope(new.req)
    BY <1>1, <1>4, RemoveParts DEF Scope, RemoveReq
  <2>2. failed # Scope(new.req)
    BY <1>1, <1>2, <1>4, <2>1
  <2>3. GoneBut(remove[r], u) \/ u \in remove[r].repos
    BY <1>1, <1>2, <1>4 DEF RecordsGone, GoneBut
  <2> QED
    BY <1>1, <1>4, <2>2, <2>3
<1> QED
  BY <1>3, <1>4

\* So it is while it keeps what it has found, and stores nothing.
LEMMA GoneQuietly ==
    ASSUME RecordsGone, RemoveSafe, NEW r \in DOMAIN remove, NEW new,
           remove' = [remove EXCEPT ![r] = new], new.req = remove[r].req,
           UNCHANGED repoDB, NEW failed, Noticing(failed),
           new.repos = remove[r].repos, new.found = remove[r].found
    PROVE  RecordsGone'
<1>1. \A u \in new.req.repos \ new.repos :
          (GoneBut(remove[r], u) \/ u \in remove[r].repos)
              /\ <<u, NoLabel>> \in DOMAIN repoDB' => <<u, NoLabel>> \in new.found
  BY DEF GoneBut
<1>2. DOMAIN repoDB' \subseteq DOMAIN repoDB
  OBVIOUS
<1> QED
  BY <1>1, <1>2, GoneGoesOn

\* The lookup takes every record of the repository it reaches, by its key, and
\* none is let go of but as it is removed (remove.go:46-59).
LEMMA RecordsStepGone ==
    ASSUME RecordsGone, RemoveSafe, TagMatchesKey, NEW r \in Removers,
           \/ \E url \in Urls : LooksUp(r, url) \/ LookUpFails(r, url)
           \/ \E key \in Key : RemovesRecord(r, key) \/ RemoveRecordFails(r, key)
    PROVE  RecordsGone'
<1>1. r \in DOMAIN remove
  BY DEF LooksUp, LookUpFails, RemovesRecord, RemoveRecordFails, InRemove
<1>2. PICK old : old = remove[r]
  OBVIOUS
<1>3. old \in RemoveCall /\ old.req \in RemoveReq /\ old.repos \subseteq old.req.repos
      /\ \A k \in old.found : k[1] \in Scope(old.req)
  BY <1>1, <1>2, RemoveParts DEF Named
<1>4. DOMAIN repoDB \subseteq Key
  BY DEF RemoveSafe, UpdateSafe, PollSafe, IsMap
<1>5. ASSUME NEW url \in Urls, LooksUp(r, url)
      PROVE  RecordsGone'
  <2>1. PICK found : found = {<<k[1], repoDB[k].tag>> : k \in Tags(url)}
    OBVIOUS
  <2>2. PICK new : new = [old EXCEPT !.repos = @ \ {url}, !.found = found]
    OBVIOUS
  <2>3. new.req = old.req /\ new.repos = old.repos \ {url} /\ new.found = found
    BY <1>3, <2>2 DEF RemoveCall
  <2>4. /\ remove' = [remove EXCEPT ![r] = new] /\ old.found = {}
        /\ UNCHANGED repoDB /\ Noticing({})
    BY <1>2, <1>5, <2>1, <2>2 DEF LooksUp, updateVars
  <2>5. GoneBut(new, url)
    <3> SUFFICES ASSUME <<url, NoLabel>> \in DOMAIN repoDB PROVE <<url, NoLabel>> \in found
      BY <2>3 DEF GoneBut
    <3>1. PICK key \in Key : key = <<url, NoLabel>>
      BY <1>4
    <3>2. key \in Tags(url)
      BY <1>4, <3>1, BaseInTags
    <3>3. key[1] = url /\ repoDB[key].tag = NoLabel
      BY <3>1 DEF TagMatchesKey
    <3> QED
      BY <2>1, <3>2, <3>3
  <2>6. \A u \in new.req.repos \ new.repos :
            (GoneBut(remove[r], u) \/ u \in remove[r].repos)
                /\ <<u, NoLabel>> \in DOMAIN repoDB' => <<u, NoLabel>> \in new.found
    <3> SUFFICES ASSUME NEW u \in new.req.repos \ new.repos, <<u, NoLabel>> \in DOMAIN repoDB,
                        GoneBut(old, u) \/ u \in old.repos
                 PROVE  <<u, NoLabel>> \in new.found
      BY <1>2, <2>4
    <3>1. CASE u = url
      BY <2>5, <3>1 DEF GoneBut
    <3>2. CASE u # url
      BY <2>3, <2>4, <3>2 DEF GoneBut
    <3> QED
      BY <3>1, <3>2
  <2>7. DOMAIN repoDB' \subseteq DOMAIN repoDB /\ new.req = remove[r].req
    BY <1>2, <2>3, <2>4
  <2> QED
    BY <1>1, <2>4, <2>6, <2>7, GoneGoesOn
<1>6. ASSUME NEW url \in Urls, LookUpFails(r, url)
      PROVE  RecordsGone'
  <2>1. PICK new : new = [old EXCEPT !.repos = @ \ {url}]
    OBVIOUS
  <2>2. new.req = remove[r].req
    BY <1>2, <1>3, <2>1 DEF RemoveCall
  <2>3. /\ remove' = [remove EXCEPT ![r] = new] /\ DOMAIN repoDB' \subseteq DOMAIN repoDB
        /\ Noticing(Scope(new.req)) /\ url \in old.repos
    BY <1>2, <1>6, <2>1, <2>2 DEF LookUpFails, updateVars
  <2>4. new.req.repos # {} /\ Scope(new.req) = Scope(new.req)
    BY <1>2, <1>3, <2>2, <2>3
  <2> QED
    BY <1>1, <2>2, <2>3, <2>4, GoneGoesOn
<1>7. ASSUME NEW key \in Key, RemovesRecord(r, key)
      PROVE  RecordsGone'
  <2>1. PICK new : new = [old EXCEPT !.found = @ \ {key}, !.bases = @ \cup {key[1]}]
    OBVIOUS
  <2>2. /\ new.req = old.req /\ new.repos = old.repos
        /\ new.found = old.found \ {key}
    BY <1>3, <2>1 DEF RemoveCall
  <2>3. /\ remove' = [remove EXCEPT ![r] = new] /\ Noticing({})
        /\ repoDB' = Drop(repoDB, key)
    BY <1>2, <1>7, <2>1 DEF RemovesRecord
  <2>4. DOMAIN repoDB' = DOMAIN repoDB \ {key}
    BY <2>3 DEF Drop
  <2>5. \A u \in new.req.repos \ new.repos :
            (GoneBut(remove[r], u) \/ u \in remove[r].repos)
                /\ <<u, NoLabel>> \in DOMAIN repoDB' => <<u, NoLabel>> \in new.found
    BY <1>2, <2>2, <2>4 DEF GoneBut
  <2>6. DOMAIN repoDB' \subseteq DOMAIN repoDB /\ new.req = remove[r].req
    BY <1>2, <2>2, <2>4
  <2> QED
    BY <1>1, <2>3, <2>5, <2>6, GoneGoesOn
<1>8. ASSUME NEW key \in Key, RemoveRecordFails(r, key)
      PROVE  RecordsGone'
  <2>1. PICK new : new = [old EXCEPT !.found = @ \ {key}]
    OBVIOUS
  <2>2. new.req = remove[r].req
    BY <1>2, <1>3, <2>1 DEF RemoveCall
  <2>3. /\ remove' = [remove EXCEPT ![r] = new] /\ DOMAIN repoDB' \subseteq DOMAIN repoDB
        /\ Noticing(Scope(new.req)) /\ key \in old.found
    BY <1>2, <1>8, <2>1, <2>2 DEF RemoveRecordFails, updateVars
  <2>4. new.req.repos # {} /\ Scope(new.req) = Scope(new.req)
    BY <1>2, <1>3, <2>2, <2>3 DEF Scope
  <2> QED
    BY <1>1, <2>2, <2>3, <2>4, GoneGoesOn
<1> QED
  BY <1>5, <1>6, <1>7, <1>8

\* The other steps of a Remove look up nothing and store no record.
LEMMA OtherStepGone ==
    ASSUME RecordsGone, RemoveSafe, NEW r \in Removers,
           \/ \E p \in Packages, deleted \in BOOLEAN :
                  RemovesPackage(r, p, deleted) \/ RemoveDrops(r, p, deleted)
           \/ \E p \in Packages : RemoveLoads(r, p) \/ RemoveMisses(r, p)
           \/ PackagesDone(r) \/ RecordsDone(r) \/ RemoveReadFails(r)
    PROVE  RecordsGone'
<1>1. r \in DOMAIN remove /\ UNCHANGED repoDB /\ \E failed : Noticing(failed)
  BY DEF RemovesPackage, RemoveDrops, RemoveLoads, RemoveMisses, PackagesDone, RecordsDone,
         RemoveReadFails, RemoveAborts, InRemove, updateVars, pollVars
<1>2. PICK old : old = remove[r]
  OBVIOUS
<1>3. old \in RemoveCall
  BY <1>1, <1>2, RemoveParts
<1>4. PICK failed : Noticing(failed)
  BY <1>1
<1>5. ASSUME NEW step \in {"packages", "repos", "scan", "drop", "end"}, NEW todo \in SUBSET Packages,
             \/ remove' = [remove EXCEPT ![r].step = step, ![r].todo = todo]
             \/ remove' = [remove EXCEPT ![r].step = step] /\ todo = old.todo
             \/ remove' = [remove EXCEPT ![r].todo = todo] /\ step = old.step
      PROVE  RecordsGone'
  <2>1. PICK new : new = [old EXCEPT !.step = step, !.todo = todo]
    OBVIOUS
  <2>2. new.req = old.req /\ new.repos = old.repos /\ new.found = old.found
    BY <1>3, <2>1 DEF RemoveCall
  <2>3. /\ todo = old.todo => new = [old EXCEPT !.step = step]
        /\ step = old.step => new = [old EXCEPT !.todo = todo]
    BY <1>3, <2>1 DEF RemoveCall
  <2>4. remove' = [remove EXCEPT ![r] = new]
    BY <1>2, <1>5, <2>1, <2>3
  <2> QED
    BY <1>1, <1>2, <1>4, <2>2, <2>4, GoneQuietly
<1>6. /\ old.step \in {"packages", "repos", "scan", "drop", "end"}
      /\ old.todo \in SUBSET Packages /\ \A p : old.todo \ {p} \in SUBSET Packages
  BY <1>3 DEF RemoveCall
<1>7. CASE \E p \in Packages, deleted \in BOOLEAN :
               RemovesPackage(r, p, deleted) \/ RemoveDrops(r, p, deleted)
  BY <1>2, <1>5, <1>6, <1>7 DEF RemovesPackage, RemoveDrops
<1>8. CASE \E p \in Packages : RemoveLoads(r, p) \/ RemoveMisses(r, p)
  BY <1>2, <1>5, <1>6, <1>8 DEF RemoveLoads, RemoveMisses, RemoveAborts
<1>9. CASE PackagesDone(r) \/ RemoveReadFails(r)
  BY <1>2, <1>5, <1>6, <1>9 DEF PackagesDone, Moves, RemoveReadFails, RemoveAborts
<1>10. CASE RecordsDone(r)
  <2>1. Listing(graph) \in SUBSET Packages
    BY DEF Listing, RemoveSafe, UpdateSafe, IsMap
  <2> QED
    BY <1>2, <1>5, <1>6, <1>10, <2>1 DEF RecordsDone
<1> QED
  BY <1>7, <1>8, <1>9, <1>10

\* A record stored by an Update that meets the Remove is excused.
LEMMA BesideGone ==
    ASSUME RecordsGone, RemoveSafe, NEW c \in Callers, UpdateBeside(c)
    PROVE  RecordsGone'
<1>1. UNCHANGED remove /\ excused \subseteq excused'
  BY DEF UpdateBeside, Noticing
<1>2. CASE UNCHANGED repoDB
  BY <1>1, <1>2 DEF RecordsGone
<1>3. CASE UpdateStep(c)
  <2> SUFFICES ASSUME NEW r \in DOMAIN remove, Scope(remove[r].req) \cap excused' = {},
                      NEW u \in remove[r].req.repos \ remove[r].repos,
                      <<u, NoLabel>> \in DOMAIN repoDB'
               PROVE  <<u, NoLabel>> \in DOMAIN repoDB
    BY <1>1 DEF RecordsGone
  <2>1. UpdateSafe' /\ remove[r].req \in RemoveReq
    BY <1>3, StepSafe, RemoveParts DEF RemoveSafe
  <2>2. PICK k \in Key : k = <<u, NoLabel>> /\ k[1] = u
    BY <2>1 DEF RemoveReq, Key
  <2>3. u \in Scope(remove[r].req) /\ u \in Removing
    BY <2>1 DEF RemoveReq, Scope, Removing
  <2>4. u \notin Updating
    BY <1>1, <2>3 DEF RemoveSafe, Excuses
  <2>5. c \in DOMAIN call /\ call[c].req.url \in Updating
    BY <1>3, StepCalls DEF RemoveSafe, Updating
  <2> QED
    BY <1>3, <2>2, <2>4, <2>5, StepRecords DEF RemoveSafe
<1> QED
  BY <1>2, <1>3 DEF UpdateBeside, BeginUpdate, CheckLoad

\* The records and the lookups, with what they rest on.
RemoveGoneSafe == RemoveSafe /\ TagMatchesKey /\ PendingTagged /\ RecordsGone

LEMMA RemoveStepGone ==
    ASSUME FilesWell, RemoveGoneSafe, [RemoveNext]_removeVars
    PROVE  RemoveGoneSafe'
<1>1. RemoveSafe /\ TagMatchesKey /\ PendingTagged /\ RecordsGone /\ RemoveSafe'
  BY RemoveStepSafe DEF RemoveGoneSafe
<1>2. ASSUME NEW r \in Removers, NEW req \in RemoveReqs, RemoveBegins(r, req)
      PROVE  RecordsGone'
  <2>1. PICK new : new = [req |-> req, step |-> "packages", repos |-> req.repos, found |-> {},
                          bases |-> {}, todo |-> req.packages]
    OBVIOUS
  <2>2. /\ DOMAIN remove' = DOMAIN remove \cup {r} /\ remove'[r] = new
        /\ \A x \in DOMAIN remove : remove'[x] = remove[x]
        /\ UNCHANGED repoDB /\ excused \subseteq excused' /\ new.req.repos \ new.repos = {}
    BY <1>2, <2>1 DEF RemoveBegins, Put, Noticing, updateVars
  <2> QED
    BY <1>1, <2>2 DEF RecordsGone
<1>3. ASSUME NEW r \in Removers, RemoveReturns(r)
      PROVE  RecordsGone'
  <2>1. /\ DOMAIN remove' \subseteq DOMAIN remove
        /\ \A x \in DOMAIN remove' : remove'[x] = remove[x]
        /\ UNCHANGED repoDB /\ excused \subseteq excused'
    BY <1>3 DEF RemoveReturns, Drop, Noticing, updateVars
  <2> QED
    BY <1>1, <2>1 DEF RecordsGone
<1>4. ASSUME NEW r \in Removers, RemoveStep(r) \/ RemoveFault(r)
      PROVE  RecordsGone'
  BY <1>1, <1>3, <1>4, RecordsStepGone, OtherStepGone DEF RemoveStep, RemoveFault
<1>5. ASSUME NEW c \in Callers, UpdateBeside(c)
      PROVE  RemoveGoneSafe'
  <2>1. TagMatchesKey' /\ PendingTagged'
    BY <1>1, <1>5, CheckedTagged, BegunTagged, UpdateAssumption DEF UpdateBeside
  <2> QED
    BY <1>1, <1>5, <2>1, BesideGone DEF RemoveGoneSafe
<1>6. CASE RemoveCrash
  <2>1. DOMAIN remove' = {} /\ DOMAIN pending' = {} /\ UNCHANGED repoDB
    BY <1>6, EmptyMap DEF RemoveCrash
  <2> QED
    BY <1>1, <2>1 DEF RemoveGoneSafe, RecordsGone, TagMatchesKey, PendingTagged
<1>7. CASE UNCHANGED removeVars
  BY <1>1, <1>7
  DEF RemoveGoneSafe, RecordsGone, TagMatchesKey, PendingTagged, removeVars, updateVars
<1> QED
  BY <1>1, <1>2, <1>4, <1>5, <1>6, <1>7, RemoveTags DEF RemoveNext, RemoveGoneSafe

\* A Remove that met no Update of what it names, and that no fault cut short,
\* removes the record of each repository it names: for any store order, URLs and
\* requests, beside any other calls (remove.go:46-59, poll.go:73-79).
THEOREM NamedRecordsGo ==
    ASSUME FilesWell
    PROVE  RemoveSpec => []NamedRecordsGone
<1>1. RemoveInit => RemoveGoneSafe
  BY RemoveInitSafe DEF RemoveGoneSafe
<1>2. RemoveGoneSafe /\ [RemoveNext]_removeVars => RemoveGoneSafe'
  BY RemoveStepGone
<1>3. RemoveGoneSafe => NamedRecordsGone
  <2> SUFFICES ASSUME RemoveGoneSafe, NEW r \in DOMAIN remove, RecordsUndisturbed(r),
                      NEW u \in remove[r].req.repos
               PROVE  <<u, NoLabel>> \notin DOMAIN repoDB
    BY DEF NamedRecordsGone
  <2>1. remove[r].repos = {} /\ remove[r].found = {}
    BY RemoveParts DEF RemoveGoneSafe, RecordsUndisturbed, Named
  <2> QED
    BY <2>1 DEF RemoveGoneSafe, RecordsGone, RecordsUndisturbed
<1> QED
  BY <1>1, <1>2, <1>3, PTL DEF RemoveSpec
=============================================================================
