----------------------------- MODULE PollProofs -----------------------------
(***************************************************************************)
(* Safety of the repository state database for any number of callers,      *)
(* repositories, labels and digests.  The lemmas about single actions are  *)
(* stated without PollNext, so that modules that embed Check in a larger   *)
(* step can use them.                                                      *)
(***************************************************************************)
EXTENDS Poll, SequenceTheorems, TLAPS

-----------------------------------------------------------------------------
(* The store.                                                              *)

\* Storing a value keeps a database a map (storage.go:72).
LEMMA PutMap ==
    ASSUME NEW K, NEW V, NEW db, IsMap(db, K, V), NEW k \in K, NEW v \in V
    PROVE  /\ IsMap(Put(db, k, v), K, V)
           /\ DOMAIN Put(db, k, v) = DOMAIN db \cup {k}
           /\ Put(db, k, v)[k] = v
           /\ \A x \in DOMAIN db \ {k} : Put(db, k, v)[x] = db[x]
BY DEF IsMap, Put

\* Deleting a key keeps a database a map (storage.go:97).
LEMMA DropMap ==
    ASSUME NEW K, NEW V, NEW db, IsMap(db, K, V), NEW k
    PROVE  /\ IsMap(Drop(db, k), K, V)
           /\ DOMAIN Drop(db, k) = DOMAIN db \ {k}
           /\ \A x \in DOMAIN db \ {k} : Drop(db, k)[x] = db[x]
BY DEF IsMap, Drop

\* An empty database is a map (service.go:144).
LEMMA EmptyMap == ASSUME NEW K, NEW V PROVE IsMap(Empty, K, V) /\ DOMAIN Empty = {}
BY DEF IsMap, Empty

-----------------------------------------------------------------------------
(* The record.                                                             *)

\* Trimming keeps at most MaxHistory elements, all from the history trimmed
\* (poll.go:189-191).
LEMMA RecentElements ==
    ASSUME NEW S, NEW hist \in Seq(S)
    PROVE  /\ Recent(hist) \in Seq(S)
           /\ Len(Recent(hist)) <= MaxHistory
           /\ \A i \in DOMAIN Recent(hist) : \E j \in DOMAIN hist : Recent(hist)[i] = hist[j]
<1>1. CASE Len(hist) <= MaxHistory
  BY <1>1, PollAssumption, LenProperties DEF Recent
<1>2. CASE Len(hist) > MaxHistory
  <2> DEFINE from == Len(hist) - MaxHistory + 1
  <2>1. Recent(hist) = SubSeq(hist, from, Len(hist))
    BY <1>2, PollAssumption, LenProperties DEF Recent
  <2>2. from \in 1 .. Len(hist)
    BY <1>2, PollAssumption, LenProperties
  <2>3. /\ SubSeq(hist, from, Len(hist)) \in Seq(S)
        /\ Len(SubSeq(hist, from, Len(hist))) = MaxHistory
        /\ \A i \in 1 .. MaxHistory : SubSeq(hist, from, Len(hist))[i] = hist[from + i - 1]
    BY <2>2, PollAssumption, LenProperties
  <2> QED
    BY <2>1, <2>2, <2>3, PollAssumption, LenProperties
<1> QED
  BY <1>1, <1>2, PollAssumption, LenProperties

\* A new history holds old entries and the replaced digest (poll.go:182-192).
LEMMA RememberedElements ==
    ASSUME NEW stat \in Status, NEW digest \in Digests, Len(stat.hist) <= MaxHistory
    PROVE  /\ Remembered(stat, digest) \in Seq(Digests)
           /\ Len(Remembered(stat, digest)) <= MaxHistory
           /\ \A i \in DOMAIN Remembered(stat, digest) :
                 \/ \E j \in DOMAIN stat.hist : Remembered(stat, digest)[i] = stat.hist[j]
                 \/ stat.digest # NoDigest /\ Remembered(stat, digest)[i] = stat.digest
<1>1. stat.hist \in Seq(Digests)
  BY DEF Status
<1>2. CASE stat.digest # NoDigest /\ NeedsUpdate(stat.digest, digest)
  <2> DEFINE longer == Append(stat.hist, stat.digest)
  <2>1. stat.digest \in Digests
    BY <1>2 DEF Status
  <2>2. /\ longer \in Seq(Digests)
        /\ \A j \in DOMAIN longer :
              \/ j \in DOMAIN stat.hist /\ longer[j] = stat.hist[j]
              \/ longer[j] = stat.digest
    BY <1>1, <2>1, AppendProperties, LenProperties
  <2>3. Remembered(stat, digest) = Recent(longer)
    BY <1>2 DEF Remembered
  <2> HIDE DEF longer
  <2> QED
    BY <1>2, <2>2, <2>3, RecentElements
<1>3. CASE ~(stat.digest # NoDigest /\ NeedsUpdate(stat.digest, digest))
  BY <1>1, <1>3 DEF Remembered
<1> QED
  BY <1>2, <1>3

\* The record Check loads or makes, prepared for the request, is well formed,
\* keeps the stored history, and keeps the digest only with its reference
\* (poll.go:133-153).
LEMMA PreparedStatus ==
    ASSUME NEW stat \in Status, NEW label \in Labels \cup {NoLabel}, NEW ref \in Patterns
    PROVE  LET ready == Retargeted(Relabelled(stat, label), ref) IN
           /\ ready \in Status
           /\ ready.hist = stat.hist
           /\ \/ ready.digest = NoDigest
              \/ ready.digest = stat.digest /\ ready.ref = stat.ref
BY DEF Status, Relabelled, Retargeted

\* A new record is well formed and empty (poll.go:136).
LEMMA NewStatusType ==
    ASSUME NEW ref \in Patterns
    PROVE  /\ NewStatus(ref) \in Status
           /\ NewStatus(ref).digest = NoDigest
           /\ NewStatus(ref).hist = << >>
BY EmptySeq DEF NewStatus, Status

\* The record stored on success is well formed (poll.go:193-196).
LEMMA AnsweredStatus ==
    ASSUME NEW stat \in Status, NEW name \in Names, NEW digest \in Digests,
           Len(stat.hist) <= MaxHistory
    PROVE  /\ Answered(stat, name, digest) \in Status
           /\ Answered(stat, name, digest).ref = name
           /\ Answered(stat, name, digest).digest = digest
           /\ Answered(stat, name, digest).hist = Remembered(stat, digest)
<1>1. name \in Patterns
  BY PollAssumption
<1> QED
  BY <1>1, RememberedElements DEF Answered, Status

\* The record stored on failure differs in its error count (poll.go:174).
LEMMA FailedStatus ==
    ASSUME NEW stat \in Status
    PROVE  /\ Failed(stat) \in Status
           /\ Failed(stat).ref = stat.ref
           /\ Failed(stat).digest = stat.digest
           /\ Failed(stat).hist = stat.hist
BY DEF Failed, Status
-----------------------------------------------------------------------------
(* The inductive invariant: the types of the state, and what DigestsReported *)
(* and ResolvedTogether say, record by record.                             *)

Sound(url, stat) ==
    /\ url \in Urls
    /\ stat \in Status
    /\ Trimmed(url, stat)
    /\ Reported(url, stat)
    /\ Resolved(url, stat)

StoredSound == \A k \in DOMAIN repoDB : Sound(k[1], repoDB[k])
PendingSound == \A c \in DOMAIN pending : Sound(pending[c].url, pending[c].stat)

PollSafe ==
    /\ IsMap(repoDB, Key, Status)
    /\ IsMap(pending, Callers, InFlight)
    /\ reported \in [Urls -> SUBSET Digests]
    /\ resolved \subseteq RemoteHead
    /\ StoredSound
    /\ PendingSound

\* The inductive invariant implies the invariants that are checked.
LEMMA PollSafeSuffices == PollSafe => PollTypeOK /\ DigestsReported /\ ResolvedTogether
BY DEF PollSafe, PollTypeOK, DigestsReported, ResolvedTogether, EveryRecord,
       StoredSound, PendingSound, Sound

\* The databases start out empty (service.go:144).
LEMMA PollInitSafe == PollInit => PollSafe
<1> SUFFICES ASSUME PollInit PROVE PollSafe
  OBVIOUS
<1>1. IsMap(repoDB, Key, Status) /\ DOMAIN repoDB = {}
  BY EmptyMap DEF PollInit
<1>2. IsMap(pending, Callers, InFlight) /\ DOMAIN pending = {}
  BY EmptyMap DEF PollInit
<1> QED
  BY <1>1, <1>2 DEF PollInit, PollSafe, StoredSound, PendingSound

\* A record stays sound while the history variables grow.
LEMMA SoundGrows ==
    ASSUME NEW url, NEW stat, Sound(url, stat),
           \A u \in Urls : reported[u] \subseteq reported'[u],
           resolved \subseteq resolved'
    PROVE  Sound(url, stat)'
BY DEF Sound, Trimmed, Reported, Resolved

\* A Check that ends leaves the others sound.
LEMMA EndedSound ==
    ASSUME PollSafe, NEW c, pending' = Drop(pending, c),
           \A u \in Urls : reported[u] \subseteq reported'[u],
           resolved \subseteq resolved'
    PROVE  IsMap(pending, Callers, InFlight)' /\ PendingSound'
<1>1. /\ IsMap(pending', Callers, InFlight)
      /\ DOMAIN pending' = DOMAIN pending \ {c}
      /\ \A x \in DOMAIN pending \ {c} : pending'[x] = pending[x]
  <2>1. IsMap(pending, Callers, InFlight)
    BY DEF PollSafe
  <2> QED
    BY <2>1 DEF IsMap, Drop
<1>2. ASSUME NEW x \in DOMAIN pending'
      PROVE  Sound(pending[x].url, pending[x].stat)'
  <2>1. Sound(pending[x].url, pending[x].stat)
    BY <1>1 DEF PollSafe, PendingSound
  <2> QED
    BY <1>1, <2>1 DEF Sound, Trimmed, Reported, Resolved
<1> QED
  BY <1>1, <1>2 DEF PendingSound

\* Storing a sound record under a key of its repository leaves every stored
\* record sound.
LEMMA StoredStaysSound ==
    ASSUME PollSafe, NEW k \in Key, NEW stat, Sound(k[1], stat)',
           repoDB' = Put(repoDB, k, stat),
           \A u \in Urls : reported[u] \subseteq reported'[u],
           resolved \subseteq resolved'
    PROVE  IsMap(repoDB, Key, Status)' /\ StoredSound'
<1>1. stat \in Status
  BY DEF Sound
<1>2. /\ IsMap(repoDB', Key, Status)
      /\ DOMAIN repoDB' = DOMAIN repoDB \cup {k}
      /\ repoDB'[k] = stat
      /\ \A x \in DOMAIN repoDB \ {k} : repoDB'[x] = repoDB[x]
  <2>1. IsMap(repoDB, Key, Status)
    BY DEF PollSafe
  <2> QED
    BY <1>1, <2>1 DEF IsMap, Put
<1>3. ASSUME NEW x \in DOMAIN repoDB'
      PROVE  Sound(x[1], repoDB[x])'
  <2>1. CASE x = k
    BY <1>2, <2>1 DEF Sound, Trimmed, Reported, Resolved
  <2>2. CASE x # k
    <3>1. Sound(x[1], repoDB[x]) /\ repoDB'[x] = repoDB[x]
      BY <1>2, <2>2 DEF PollSafe, StoredSound
    <3> QED
      BY <3>1 DEF Sound, Trimmed, Reported, Resolved
  <2> QED
    BY <2>1, <2>2
<1> QED
  BY <1>2, <1>3 DEF StoredSound
-----------------------------------------------------------------------------
(* The actions.                                                            *)

\* Loading and preparing a record keeps the invariant (poll.go:130-168).
LEMMA CheckLoadSafe ==
    ASSUME PollSafe, NEW c \in Callers, NEW url \in Urls,
           NEW label \in Labels \cup {NoLabel}, NEW ref \in Patterns,
           CheckLoad(c, url, label, ref)
    PROVE  PollSafe'
<1> DEFINE key   == <<url, label>>
           stat  == IF key \in DOMAIN repoDB THEN repoDB[key] ELSE NewStatus(ref)
           ready == Retargeted(Relabelled(stat, label), ref)
           p     == [url |-> url, label |-> label, stat |-> ready]
<1>1. Sound(url, stat)
  <2>1. CASE key \in DOMAIN repoDB
    BY <2>1 DEF PollSafe, StoredSound
  <2>2. CASE key \notin DOMAIN repoDB
    <3>1. stat = NewStatus(ref)
      BY <2>2
    <3>2. NewStatus(ref) \in Status /\ NewStatus(ref).digest = NoDigest
            /\ NewStatus(ref).hist = << >>
      BY NewStatusType
    <3> QED
      BY <3>1, <3>2, PollAssumption DEF Sound, Trimmed, Reported, Resolved
  <2> QED
    BY <2>1, <2>2
<1>2. UNCHANGED <<repoDB, reported, resolved>> /\ pending' = Put(pending, c, p)
  BY DEF CheckLoad
<1> HIDE DEF stat
<1>3. /\ ready \in Status
      /\ ready.hist = stat.hist
      /\ \/ ready.digest = NoDigest
         \/ ready.digest = stat.digest /\ ready.ref = stat.ref
  BY <1>1, PreparedStatus DEF Sound
<1> HIDE DEF ready
<1>4. Sound(url, ready)
  BY <1>1, <1>3 DEF Sound, Trimmed, Reported, Resolved
<1>5. p \in InFlight /\ p.url = url /\ p.stat = ready
  BY <1>3 DEF InFlight
<1> HIDE DEF p
<1>6. /\ IsMap(pending', Callers, InFlight)
      /\ DOMAIN pending' = DOMAIN pending \cup {c}
      /\ pending'[c] = p
      /\ \A x \in DOMAIN pending \ {c} : pending'[x] = pending[x]
  <2>1. IsMap(pending, Callers, InFlight)
    BY DEF PollSafe
  <2> QED
    BY <1>2, <1>5, <2>1 DEF IsMap, Put
<1>7. ASSUME NEW x \in DOMAIN pending'
      PROVE  Sound(pending'[x].url, pending'[x].stat)
  <2>1. CASE x = c
    BY <1>4, <1>5, <1>6, <2>1
  <2>2. CASE x # c
    BY <1>6, <2>2 DEF PollSafe, PendingSound
  <2> QED
    BY <2>1, <2>2
<1>8. PendingSound'
  BY <1>2, <1>7 DEF PendingSound, Sound, Trimmed, Reported, Resolved
<1>9. StoredSound'
  BY <1>2 DEF PollSafe, StoredSound, Sound, Trimmed, Reported, Resolved
<1> QED
  BY <1>2, <1>6, <1>8, <1>9 DEF PollSafe

\* The record of an answer is sound once the answer is resolved and, if it is
\* new to the record, reported (poll.go:179-196).
LEMMA AnsweredSound ==
    ASSUME NEW url, NEW old, Sound(url, old),
           NEW name \in Names, NEW digest \in Digests, NEW new,
           new = Answered(old, name, digest),
           \A u \in Urls : reported[u] \subseteq reported'[u],
           resolved \subseteq resolved',
           NeedsUpdate(old.digest, digest) => digest \in reported'[url],
           [url |-> url, name |-> name, digest |-> digest] \in resolved'
    PROVE  Sound(url, new)'
<1>1. url \in Urls /\ old \in Status /\ Len(old.hist) <= MaxHistory
  BY DEF Sound, Trimmed
<1>2. /\ new \in Status
      /\ new.ref = name
      /\ new.digest = digest
      /\ new.hist = Remembered(old, digest)
  BY <1>1, AnsweredStatus
<1>3. /\ Len(new.hist) <= MaxHistory
      /\ \A i \in DOMAIN new.hist :
            \/ \E j \in DOMAIN old.hist : new.hist[i] = old.hist[j]
            \/ old.digest # NoDigest /\ new.hist[i] = old.digest
  BY <1>1, <1>2, RememberedElements
<1>4. digest \in reported'[url]
  <2>1. CASE NeedsUpdate(old.digest, digest)
    BY <2>1
  <2>2. CASE ~NeedsUpdate(old.digest, digest)
    BY <1>1, <2>2, PollAssumption DEF NeedsUpdate, Sound, Reported
  <2> QED
    BY <2>1, <2>2
<1>5. ASSUME NEW i \in DOMAIN new.hist
      PROVE  new.hist[i] \in reported'[url]
  BY <1>1, <1>3, <1>5 DEF Sound, Reported
<1>6. Reported(url, new)'
  BY <1>2, <1>4, <1>5 DEF Reported
<1> QED
  BY <1>1, <1>2, <1>3, <1>6 DEF Sound, Trimmed, Resolved

\* Storing the answer of the remote keeps the invariant: a digest that is new
\* to the record is reported in the same step (poll.go:172-202).
LEMMA HeadAnswersSafe ==
    ASSUME PollSafe, NEW c \in Callers, NEW name \in Names, NEW digest \in Digests,
           HeadAnswers(c, name, digest)
    PROVE  PollSafe'
<1>1. PICK p : p = pending[c]
  OBVIOUS
<1>2. PICK stat : stat = Answered(p.stat, name, digest)
  OBVIOUS
<1>3. PICK head : head = [url |-> p.url, name |-> name, digest |-> digest]
  OBVIOUS
<1>4. PICK key : key = <<p.url, p.label>>
  OBVIOUS
<1>5. p \in InFlight /\ p.url \in Urls /\ key \in Key /\ key[1] = p.url /\ Sound(p.url, p.stat)
  BY <1>1, <1>4 DEF HeadAnswers, PollSafe, PendingSound, IsMap, InFlight, Key
<1>6. /\ repoDB' = Put(repoDB, key, stat)
      /\ reported' = [reported EXCEPT ![p.url] =
             IF NeedsUpdate(p.stat.digest, digest) THEN @ \cup {digest} ELSE @]
      /\ resolved' = resolved \cup {head}
      /\ pending' = Drop(pending, c)
  BY <1>1, <1>2, <1>3, <1>4 DEF HeadAnswers
<1>7. /\ reported' \in [Urls -> SUBSET Digests]
      /\ \A u \in Urls : reported[u] \subseteq reported'[u]
      /\ NeedsUpdate(p.stat.digest, digest) => digest \in reported'[p.url]
  BY <1>5, <1>6 DEF PollSafe
<1>8. /\ resolved' \subseteq RemoteHead
      /\ resolved \subseteq resolved'
      /\ head \in resolved'
  BY <1>3, <1>5, <1>6 DEF PollSafe, RemoteHead
<1>9. Sound(key[1], stat)'
  <2>1. Sound(p.url, stat)'
    BY <1>2, <1>3, <1>5, <1>7, <1>8, AnsweredSound
  <2> QED
    BY <1>5, <2>1
<1>10. IsMap(repoDB, Key, Status)' /\ StoredSound'
  BY <1>5, <1>6, <1>7, <1>8, <1>9, StoredStaysSound
<1>11. IsMap(pending, Callers, InFlight)' /\ PendingSound'
  BY <1>6, <1>7, <1>8, EndedSound
<1> QED
  BY <1>7, <1>8, <1>10, <1>11 DEF PollSafe

\* Counting a failure keeps the invariant, whatever key the record goes to, as
\* long as it is one of its repository (poll.go:173-177).
LEMMA HeadFailsSafe ==
    ASSUME PollSafe, NEW c \in Callers, HeadFails(c)
    PROVE  PollSafe'
<1>1. PICK p : p = pending[c]
  OBVIOUS
<1>2. PICK stat : stat = Failed(p.stat)
  OBVIOUS
<1>3. PICK key : key = FailureKey(p)
  OBVIOUS
<1>4. Sound(p.url, p.stat) /\ key \in Key /\ key[1] = p.url
  BY <1>1, <1>3 DEF HeadFails, PollSafe, PendingSound, Sound, FailureKey, Key
<1>5. /\ repoDB' = Put(repoDB, key, stat)
      /\ pending' = Drop(pending, c)
      /\ UNCHANGED <<reported, resolved>>
  BY <1>1, <1>2, <1>3 DEF HeadFails
<1>6. /\ stat \in Status
      /\ stat.ref = p.stat.ref /\ stat.digest = p.stat.digest /\ stat.hist = p.stat.hist
  BY <1>2, <1>4, FailedStatus DEF Sound
<1>7. Sound(key[1], stat)'
  <2>1. Sound(key[1], stat)
    BY <1>4, <1>6 DEF Sound, Trimmed, Reported, Resolved
  <2> QED
    BY <1>5, <2>1 DEF Sound, Trimmed, Reported, Resolved
<1>8. IsMap(repoDB, Key, Status)' /\ StoredSound'
  BY <1>4, <1>5, <1>7, StoredStaysSound
<1>9. IsMap(pending, Callers, InFlight)' /\ PendingSound'
  BY <1>5, EndedSound
<1> QED
  BY <1>5, <1>8, <1>9 DEF PollSafe

\* A Check that ends without storing keeps the invariant (poll.go:142, 200).
LEMMA CheckAbortsSafe ==
    ASSUME PollSafe, NEW c \in Callers, CheckAborts(c)
    PROVE  PollSafe'
<1>1. pending' = Drop(pending, c) /\ UNCHANGED <<repoDB, reported, resolved>>
  BY DEF CheckAborts
<1>2. IsMap(pending, Callers, InFlight)' /\ PendingSound'
  BY <1>1, EndedSound
<1>3. StoredSound'
  BY <1>1 DEF PollSafe, StoredSound, Sound, Trimmed, Reported, Resolved
<1> QED
  BY <1>1, <1>2, <1>3 DEF PollSafe

\* Nothing that leaves the databases alone and forgets the calls in flight
\* breaks the invariant.
LEMMA ForgottenSafe ==
    ASSUME PollSafe, pending' = Empty, UNCHANGED <<repoDB, reported, resolved>>
    PROVE  PollSafe'
<1>1. IsMap(pending', Callers, InFlight) /\ DOMAIN pending' = {}
  BY EmptyMap
<1>2. PendingSound'
  BY <1>1 DEF PendingSound
<1>3. StoredSound'
  BY DEF PollSafe, StoredSound, Sound, Trimmed, Reported, Resolved
<1> QED
  BY <1>1, <1>2, <1>3 DEF PollSafe

\* A step that touches nothing of Poll's keeps the invariant.
LEMMA StutterSafe == PollSafe /\ UNCHANGED pollVars => PollSafe'
BY DEF PollSafe, pollVars, StoredSound, PendingSound, Sound, Trimmed, Reported, Resolved

\* Every step of the database keeps the invariant.
LEMMA PollStepSafe == PollSafe /\ [PollNext]_pollVars => PollSafe'
<1> SUFFICES ASSUME PollSafe, [PollNext]_pollVars PROVE PollSafe'
  OBVIOUS
<1>1. CASE \E c \in Callers, url \in Urls, label \in Labels \cup {NoLabel}, ref \in Patterns :
               CheckLoad(c, url, label, ref)
  BY <1>1, CheckLoadSafe
<1>2. CASE \E c \in Callers, name \in Names, digest \in Digests : HeadAnswers(c, name, digest)
  BY <1>2, HeadAnswersSafe
<1>3. CASE \E c \in Callers : HeadFails(c)
  BY <1>3, HeadFailsSafe
<1>4. CASE \E c \in Callers : CheckAborts(c)
  BY <1>4, CheckAbortsSafe
<1>5. CASE PollCrash
  BY <1>5, ForgottenSafe DEF PollCrash
<1>6. CASE UNCHANGED pollVars
  BY <1>6, StutterSafe
<1> QED
  BY <1>1, <1>2, <1>3, <1>4, <1>5, <1>6 DEF PollNext

\* The inductive invariant holds in every reachable state (poll.go:121-203).
THEOREM PollAlwaysSafe == PollSpec => []PollSafe
<1> QED
  BY PollInitSafe, PollStepSafe, PTL DEF PollSpec

\* The databases keep their types and no history outgrows its bound, whatever
\* calls interleave, fail or are lost (poll.go:121-203).
THEOREM PollTypes == PollSpec => []PollTypeOK
  BY PollAlwaysSafe, PollSafeSuffices, PTL

\* No digest is recorded, as current or as history, that was not reported as a
\* needed update of that repository (poll.go:121, 179-196).
THEOREM RecordedDigestsWereReported == PollSpec => []DigestsReported
  BY PollAlwaysSafe, PollSafeSuffices, PTL

\* Reference and digest of every record were resolved together, through any
\* changes of reference, failures and lost updates (poll.go:149-153, 172-177).
THEOREM RecordsWereResolved == PollSpec => []ResolvedTogether
  BY PollAlwaysSafe, PollSafeSuffices, PTL

-----------------------------------------------------------------------------
(* One Check at a time is atomic: DB.Check of repositories without labels, *)
(* as a single caller sees it, implements CheckTable for any number of     *)
(* repositories and commits and any bound on the history, with remotes and *)
(* stores that fail and processes that stop between the load and the store.*)

OneCaller == \A c, d \in Callers : c = d

\* The record a Check of the key that asks for a reference works on, as long
\* as the database does not change.
Ready(key, asked) ==
    Retargeted(IF key \in DOMAIN repoDB THEN repoDB[key] ELSE NewStatus(asked), asked)

\* What a Check holds in memory is what it would load now.
PendingReady ==
    \A c \in DOMAIN pending :
        /\ pending[c].label = NoLabel
        /\ \E asked \in Patterns : pending[c].stat = Ready(<<pending[c].url, NoLabel>>, asked)

-----------------------------------------------------------------------------
\* With one caller nobody stores between the load and the store (poll.go:133).
LEMMA PendingReadyStays ==
    ASSUME OneCaller, Labels = {}
    PROVE  PollSafe /\ PendingReady /\ [PollNext]_pollVars => PendingReady'
<1> SUFFICES ASSUME PollSafe, PendingReady, [PollNext]_pollVars
             PROVE  PendingReady'
  OBVIOUS
<1>1. DOMAIN pending \subseteq Callers
  BY DEF PollSafe, IsMap
<1>2. ASSUME NEW c \in Callers, NEW url \in Urls, NEW label \in Labels \cup {NoLabel},
             NEW asked \in Patterns, CheckLoad(c, url, label, asked)
      PROVE  PendingReady'
  <2>1. PICK p : p = [url |-> url, label |-> NoLabel, stat |-> Ready(<<url, NoLabel>>, asked)]
    OBVIOUS
  <2>2. label = NoLabel /\ repoDB' = repoDB
    BY <1>2 DEF CheckLoad
  <2>3. pending' = Put(pending, c, p)
    BY <1>2, <2>1, <2>2 DEF CheckLoad, Relabelled, Ready
  <2>4. DOMAIN pending' = {c} /\ pending'[c] = p
    BY <1>1, <1>2, <2>3 DEF CheckLoad, OneCaller, Put
  <2>5. Ready(<<url, NoLabel>>, asked)' = Ready(<<url, NoLabel>>, asked)
    BY <2>2 DEF Ready
  <2>6. p.url = url /\ p.label = NoLabel /\ p.stat = Ready(<<url, NoLabel>>, asked)
    BY <2>1
  <2> QED
    BY <2>2, <2>4, <2>5, <2>6 DEF PendingReady, Ready
<1>3. ASSUME NEW c \in Callers, c \in DOMAIN pending, pending' = Drop(pending, c)
      PROVE  PendingReady'
  BY <1>1, <1>3 DEF OneCaller, Drop, PendingReady
<1>4. CASE PollCrash
  BY <1>4, EmptyMap DEF PollCrash, PendingReady
<1>5. CASE UNCHANGED pollVars
  BY <1>5 DEF pollVars, PendingReady, Ready
<1> QED
  BY <1>2, <1>3, <1>4, <1>5 DEF PollNext, HeadAnswers, HeadFails, CheckAborts

-----------------------------------------------------------------------------
(* The record, read as the table reads it.                                 *)

\* The record a Check works on is that of its key, started afresh if another
\* reference is asked for (poll.go:133-153).
LEMMA ReadyIsTable ==
    ASSUME PollSafe, NEW key \in Key, NEW asked \in Patterns
    PROVE  /\ Ready(key, asked).digest = Table!Previous(key, asked)
           /\ Ready(key, asked).hist = Table!HistoryOf(key)
           /\ Ready(key, asked).errs = Table!ErrorsOf(key)
           /\ Ready(key, asked).ref = IF Table!Known(key) /\ asked = AnyRef
                                      THEN repoDB[key].ref ELSE asked
<1>1. CASE key \in DOMAIN repoDB
  <2>1. repoDB[key] \in Status
    BY <1>1 DEF PollSafe, IsMap
  <2> QED
    BY <1>1, <2>1 DEF Ready, Retargeted, Status, Table!Previous, Table!HistoryOf,
                      Table!ErrorsOf, Table!Known, Table!Redirected
<1>2. CASE key \notin DOMAIN repoDB
  BY <1>2 DEF Ready, Retargeted, NewStatus, Table!Previous, Table!HistoryOf,
              Table!ErrorsOf, Table!Known, Table!Redirected
<1> QED
  BY <1>1, <1>2

\* A trimmed history that is appended to and trimmed again has lost its oldest
\* entry, if it was full (poll.go:182-191).
LEMMA RecentExtends ==
    ASSUME NEW hist \in Seq(Digests), Len(hist) <= MaxHistory, NEW digest \in Digests
    PROVE  Table!Extends(Recent(Append(hist, digest)), hist, digest)
<1> DEFINE longer == Append(hist, digest)
<1>1. /\ longer \in Seq(Digests)
      /\ Len(longer) = Len(hist) + 1
      /\ Len(hist) \in Nat
      /\ longer[Len(hist) + 1] = digest
      /\ \A i \in 1 .. Len(hist) : longer[i] = hist[i]
  BY AppendProperties, LenProperties
<1> HIDE DEF longer
<1>2. CASE Len(hist) < MaxHistory
  <2>1. Recent(longer) = longer
    BY <1>1, <1>2, PollAssumption DEF Recent
  <2> QED
    BY <1>1, <1>2, <2>1, PollAssumption DEF Table!Extends, longer
<1>3. CASE Len(hist) = MaxHistory
  <2>1. Recent(longer) = SubSeq(longer, 2, Len(longer))
    BY <1>1, <1>3, PollAssumption DEF Recent
  <2>2. /\ Len(SubSeq(longer, 2, Len(longer))) = MaxHistory
        /\ \A i \in 1 .. MaxHistory : SubSeq(longer, 2, Len(longer))[i] = longer[i + 1]
    BY <1>1, <1>3, PollAssumption
  <2>3. PICK new : new = Recent(longer)
    OBVIOUS
  <2>4. Len(new) = MaxHistory /\ \A i \in 1 .. MaxHistory : new[i] = longer[i + 1]
    BY <2>1, <2>2, <2>3
  <2>5. new[Len(new)] = digest
    BY <1>1, <1>3, <2>4, PollAssumption
  <2>6. \A i \in 1 .. Len(new) - 1 : new[i] = hist[i + Len(hist) - (Len(new) - 1)]
    <3>1. ASSUME NEW i \in 1 .. Len(new) - 1
          PROVE  i + Len(hist) - (Len(new) - 1) = i + 1 /\ i + 1 \in 1 .. Len(hist)
                   /\ i \in 1 .. MaxHistory
      BY <1>3, <2>4, PollAssumption
    <3> QED
      BY <1>1, <2>4, <3>1
  <2>7. Table!Extends(new, hist, digest)
    BY <1>3, <2>4, <2>5, <2>6 DEF Table!Extends
  <2> QED
    BY <2>3, <2>7 DEF longer
<1> QED
  BY <1>1, <1>2, <1>3, PollAssumption

-----------------------------------------------------------------------------
(* The steps that store.                                                   *)

\* A Check in flight: its key, the reference it asked for and its record.
LEMMA CheckInFlight ==
    ASSUME PollSafe, PendingReady, NEW c \in DOMAIN pending
    PROVE  \E key \in Key, asked \in Patterns :
               /\ key = <<pending[c].url, NoLabel>>
               /\ pending[c].label = NoLabel
               /\ pending[c].stat \in Status
               /\ Len(pending[c].stat.hist) <= MaxHistory
               /\ pending[c].stat = Ready(key, asked)
<1>1. PICK p : p = pending[c]
  OBVIOUS
<1>2. p \in InFlight /\ Len(p.stat.hist) <= MaxHistory
  BY <1>1 DEF PollSafe, IsMap, PendingSound, Sound, Trimmed
<1>3. p.label = NoLabel /\ \E asked \in Patterns : p.stat = Ready(<<p.url, NoLabel>>, asked)
  BY <1>1 DEF PendingReady
<1>4. <<p.url, NoLabel>> \in Key /\ p.stat \in Status
  BY <1>2 DEF InFlight, Key
<1> QED
  BY <1>1, <1>2, <1>3, <1>4

\* Storing the record of a key leaves the other records as they are.
LEMMA PutKeepsOthers ==
    ASSUME NEW key, NEW stat, repoDB' = Put(repoDB, key, stat)
    PROVE  Table!OthersKept(key) /\ repoDB'[key] = stat
BY DEF Put, Table!OthersKept

\* A successful Check is one step of the table (poll.go:172-199).
LEMMA AnswerIsFound ==
    ASSUME PollSafe, PendingReady, NEW c \in Callers,
           NEW name \in Names, NEW digest \in Digests, HeadAnswers(c, name, digest)
    PROVE  Table!Next
<1>1. PICK p : p = pending[c]
  OBVIOUS
<1>2. PICK key \in Key, asked \in Patterns :
          /\ key = <<p.url, NoLabel>> /\ p.label = NoLabel
          /\ p.stat \in Status /\ Len(p.stat.hist) <= MaxHistory
          /\ p.stat = Ready(key, asked)
  BY <1>1, CheckInFlight DEF HeadAnswers
<1>3. PICK new : new = Answered(p.stat, name, digest)
  OBVIOUS
<1>4. Table!OthersKept(key) /\ repoDB'[key] = new
  BY <1>1, <1>2, <1>3, PutKeepsOthers DEF HeadAnswers
<1>5. /\ new.ref = name /\ new.digest = digest
      /\ new.hist = Remembered(p.stat, digest)
  BY <1>2, <1>3, AnsweredStatus
<1>6. new.errs = 0
  BY <1>2, <1>3 DEF Answered, Status
<1>7. p.stat.digest = Table!Previous(key, asked) /\ p.stat.hist = Table!HistoryOf(key)
  BY <1>2, ReadyIsTable
<1>8. CASE p.stat.digest \in {NoDigest, digest}
  <2>1. new.hist = Table!HistoryOf(key)
    BY <1>5, <1>7, <1>8 DEF Remembered, NeedsUpdate
  <2> QED
    BY <1>4, <1>5, <1>6, <1>7, <1>8, <2>1 DEF Table!Next, Table!Found
<1>9. CASE p.stat.digest \notin {NoDigest, digest}
  <2>1. new.hist = Recent(Append(p.stat.hist, p.stat.digest))
    BY <1>5, <1>9 DEF Remembered, NeedsUpdate
  <2>2. p.stat.digest \in Digests /\ p.stat.hist \in Seq(Digests)
    BY <1>2, <1>9 DEF Status
  <2>3. Table!Extends(new.hist, Table!HistoryOf(key), Table!Previous(key, asked))
    BY <1>2, <1>7, <2>1, <2>2, RecentExtends
  <2> QED
    BY <1>4, <1>5, <1>6, <1>7, <1>9, <2>3 DEF Table!Next, Table!Found
<1> QED
  BY <1>8, <1>9

\* A failed Check of a repository without a label is one step of the table
\* (poll.go:173-177).
LEMMA FailureIsNotFound ==
    ASSUME PollSafe, PendingReady, NEW c \in Callers, HeadFails(c)
    PROVE  Table!Next
<1>1. PICK p : p = pending[c]
  OBVIOUS
<1>2. PICK key \in Key, asked \in Patterns :
          /\ key = <<p.url, NoLabel>>
          /\ p.stat \in Status
          /\ p.stat = Ready(key, asked)
  BY <1>1, CheckInFlight DEF HeadFails
<1>3. PICK new : new = Failed(p.stat)
  OBVIOUS
<1>4. Table!OthersKept(key) /\ repoDB'[key] = new
  BY <1>1, <1>2, <1>3, PutKeepsOthers DEF HeadFails, FailureKey
<1>5. /\ new.ref = p.stat.ref /\ new.digest = p.stat.digest /\ new.hist = p.stat.hist
      /\ new.errs = p.stat.errs + 1
  BY <1>2, <1>3 DEF Failed, Status
<1>6. Table!NotFound(key, asked)
  BY <1>2, <1>4, <1>5, ReadyIsTable DEF Table!NotFound, Table!Known
<1> QED
  BY <1>6 DEF Table!Next

\* One Check at a time, of repositories without labels, takes effect in a
\* single step on its own record, for any number of repositories and any bound
\* on the history, through failures and restarts (poll.go:121-203). Two callers
\* would lose digests from the history, both having loaded one record, and a
\* label would let a failed Check store under another key (poll.go:176).
THEOREM OneCallerIsAtomic ==
    ASSUME OneCaller, Labels = {}
    PROVE  PollSpec => ChecksAreAtomic
<1>1. PollInit => Table!Init /\ PendingReady
  BY EmptyMap DEF PollInit, PendingReady, Empty, Table!Init
<1>2. PollSafe /\ PendingReady /\ [PollNext]_pollVars => PendingReady'
  BY PendingReadyStays
<1>3. PollSafe /\ PendingReady /\ [PollNext]_pollVars => [Table!Next]_repoDB
  <2> SUFFICES ASSUME PollSafe, PendingReady, [PollNext]_pollVars
               PROVE  Table!Next \/ UNCHANGED repoDB
    OBVIOUS
  <2>1. ASSUME NEW c \in Callers, NEW name \in Names, NEW digest \in Digests,
               HeadAnswers(c, name, digest)
        PROVE  Table!Next
    BY <2>1, AnswerIsFound
  <2>2. ASSUME NEW c \in Callers, HeadFails(c)
        PROVE  Table!Next
    BY <2>2, FailureIsNotFound
  <2> QED
    BY <2>1, <2>2 DEF PollNext, CheckLoad, CheckAborts, PollCrash, pollVars
<1> QED
  BY <1>1, <1>2, <1>3, PollAlwaysSafe, PTL DEF PollSpec, ChecksAreAtomic, Table!Spec
=============================================================================
