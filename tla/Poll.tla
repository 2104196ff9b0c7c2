-------------------------------- MODULE Poll --------------------------------
(***************************************************************************)
(* The repository state database (package poll): one status record per     *)
(* repository key, and DB.Check, which loads a record, asks the remote for *)
(* its current head and stores the record back.  Several callers may be    *)
(* inside Check at once; the remote is asked between the load and the      *)
(* store, so their loads and stores interleave.                            *)
(***************************************************************************)
EXTENDS Storage, Integers, Sequences, FiniteSets

CONSTANTS
    Callers,     \* goroutines that may be inside Check
    Urls,        \* repository fetch URLs
    Labels,      \* storage tags (CheckOptions.Label)
    NoLabel,     \* the empty label
    Patterns,    \* reference names a request may give, the names included
    AnyRef,      \* the default reference "*"
    Names,       \* full reference names a remote answers with
    Matching,    \* the names each pattern selects at the remote
    Digests,     \* commit digests
    NoDigest,    \* the nil digest of a record never checked
    MaxHistory,  \* length the update history is trimmed to (20 in the code)
    MaxErrors,   \* bound on the error counters explored
    Faults       \* the faults explored: "head", "store", "crash", ...

ASSUME PollAssumption ==
    /\ NoLabel \notin Labels
    /\ AnyRef \in Patterns \ Names
    /\ Names \subseteq Patterns
    /\ Matching \in [Patterns -> SUBSET Names]
    /\ NoDigest \notin Digests
    /\ MaxHistory \in Nat \ {0}
    /\ MaxErrors \in Nat

VARIABLES
    repoDB,      \* the stored records, by key
    pending,     \* the Checks in flight: the record each holds in memory
    reported,    \* history: digests Check reported as a needed update, by URL
    resolved     \* history: the heads the remotes answered with

pollVars == <<repoDB, pending, reported, resolved>>

Key == Urls \X (Labels \cup {NoLabel})
Status == [ref : Patterns, digest : Digests \cup {NoDigest}, hist : Seq(Digests),
           errs : Nat, tag : Labels \cup {NoLabel}]
InFlight == [url : Urls, label : Labels \cup {NoLabel}, stat : Status]
RemoteHead == [url : Urls, name : Names, digest : Digests]

-----------------------------------------------------------------------------
(* The record as Check computes it.                                        *)

\* The record of a repository without one.
NewStatus(ref) ==
    [ref |-> ref, digest |-> NoDigest, hist |-> << >>, errs |-> 0, tag |-> NoLabel]

Relabelled(stat, label) == IF label = NoLabel THEN stat ELSE [stat EXCEPT !.tag = label]

\* Mutant of Retargeted: the digest of the old reference is kept.
RetargetedKeepingDigest(stat, ref) ==
    IF ref = AnyRef THEN stat ELSE [stat EXCEPT !.ref = ref]

\* A request for another reference forces an update by forgetting the digest.
Retargeted(stat, ref) ==
    IF ref \in {AnyRef, stat.ref} THEN stat
    ELSE [stat EXCEPT !.ref = ref, !.digest = NoDigest]

\* Mutant of NeedsUpdate: the first digest of a repository is no update.
NeedsRefresh(old, new) == old \notin {NoDigest, new}

NeedsUpdate(old, new) == old # new

\* Mutant of Recent: trims one entry too late.
RecentOffByOne(hist) ==
    IF Len(hist) > MaxHistory + 1
    THEN SubSeq(hist, Len(hist) - MaxHistory + 1, Len(hist)) ELSE hist

\* The most recent MaxHistory elements of a history.
Recent(hist) ==
    IF Len(hist) > MaxHistory
    THEN SubSeq(hist, Len(hist) - MaxHistory + 1, Len(hist)) ELSE hist

\* The history once the remote has answered with digest.
Remembered(stat, digest) ==
    IF stat.digest # NoDigest /\ NeedsUpdate(stat.digest, digest)
    THEN Recent(Append(stat.hist, stat.digest)) ELSE stat.hist

\* Mutant of Answered: success does not reset the error counter.
AnsweredKeepingErrors(stat, name, digest) ==
    [stat EXCEPT !.ref = name, !.digest = digest, !.hist = Remembered(stat, digest)]

Answered(stat, name, digest) ==
    [stat EXCEPT !.ref = name, !.digest = digest, !.errs = 0,
                 !.hist = Remembered(stat, digest)]

Failed(stat) == [stat EXCEPT !.errs = @ + 1]

-----------------------------------------------------------------------------
PollInit ==
    /\ repoDB = Empty
    /\ pending = Empty
    /\ reported = [u \in Urls |-> {}]
    /\ resolved = {}

\* Check loads the record under the key of its URL and label, or makes a new
\* one, and prepares it for the requested reference.
CheckLoad(c, url, label, ref) ==
    /\ c \notin DOMAIN pending
    /\ LET key == <<url, label>>
           stat == IF key \in DOMAIN repoDB THEN repoDB[key] ELSE NewStatus(ref)
       IN pending' = Put(pending, c,
              [url |-> url, label |-> label,
               stat |-> Retargeted(Relabelled(stat, label), ref)])
    /\ UNCHANGED <<repoDB, reported, resolved>>

\* The remote answers; the record is stored, the result returned.
HeadAnswers(c, name, digest) ==
    /\ c \in DOMAIN pending
    /\ LET p == pending[c] IN
       /\ name \in Matching[p.stat.ref]
       /\ repoDB' = Put(repoDB, <<p.url, p.label>>, Answered(p.stat, name, digest))
       /\ reported' = [reported EXCEPT ![p.url] =
              IF NeedsUpdate(p.stat.digest, digest) THEN @ \cup {digest} ELSE @]
       /\ resolved' = resolved \cup {[url |-> p.url, name |-> name, digest |-> digest]}
    /\ pending' = Drop(pending, c)

\* The key a failed Check stores its record under: the URL, without the label.
FailureKey(p) == <<p.url, NoLabel>>

\* The remote cannot be asked or has no matching head; the error is counted
\* in the stored record and Check returns an error.
HeadFails(c) ==
    /\ "head" \in Faults
    /\ c \in DOMAIN pending
    /\ pending[c].stat.errs < MaxErrors
    /\ repoDB' = Put(repoDB, FailureKey(pending[c]), Failed(pending[c].stat))
    /\ pending' = Drop(pending, c)
    /\ UNCHANGED <<reported, resolved>>

\* The store cannot be read or written; Check returns an error and leaves no
\* trace.
CheckAborts(c) ==
    /\ "store" \in Faults
    /\ c \in DOMAIN pending
    /\ pending' = Drop(pending, c)
    /\ UNCHANGED <<repoDB, reported, resolved>>

\* The process stops: calls in flight are lost, the database stays.
PollCrash ==
    /\ "crash" \in Faults
    /\ pending # Empty
    /\ pending' = Empty
    /\ UNCHANGED <<repoDB, reported, resolved>>

PollNext ==
    \/ \E c \in Callers, url \in Urls, label \in Labels \cup {NoLabel}, ref \in Patterns :
           CheckLoad(c, url, label, ref)
    \/ \E c \in Callers, name \in Names, digest \in Digests : HeadAnswers(c, name, digest)
    \/ \E c \in Callers : HeadFails(c) \/ CheckAborts(c)
    \/ PollCrash

PollSpec == PollInit /\ [][PollNext]_pollVars

-----------------------------------------------------------------------------
(* P holds of every record, stored or held in memory by a Check, and of    *)
(* the repository it belongs to.                                           *)
EveryRecord(P(_, _)) ==
    /\ \A k \in DOMAIN repoDB : P(k[1], repoDB[k])
    /\ \A c \in DOMAIN pending : P(pending[c].url, pending[c].stat)

Trimmed(url, stat) == Len(stat.hist) <= MaxHistory

Reported(url, stat) ==
    /\ stat.digest # NoDigest => stat.digest \in reported[url]
    /\ \A i \in DOMAIN stat.hist : stat.hist[i] \in reported[url]

Resolved(url, stat) ==
    stat.digest # NoDigest =>
        [url |-> url, name |-> stat.ref, digest |-> stat.digest] \in resolved

\* The databases and the Checks in flight have their types, and no history
\* outgrows the bound it is trimmed to (poll.go:189).
PollTypeOK ==
    /\ IsMap(repoDB, Key, Status)
    /\ IsMap(pending, Callers, InFlight)
    /\ reported \in [Urls -> SUBSET Digests]
    /\ resolved \subseteq RemoteHead
    /\ EveryRecord(Trimmed)

\* A digest reaches a record, or its history, only after some Check of that
\* repository reported it as a needed update: an update that was never
\* announced cannot be recorded as done (poll.go:121, 179-196).
DigestsReported == EveryRecord(Reported)

\* The reference name and the digest of a record were resolved together: the
\* remote of that repository answered with that digest for that name.  A
\* reference that changed and then could not be fetched must not keep the
\* digest of the old one (poll.go:149-153, 172-177).
ResolvedTogether == EveryRecord(Resolved)

\* The record stored under a key is the record of that repository and label.
TagMatchesKey == \A k \in DOMAIN repoDB : repoDB[k].tag = k[2]
-----------------------------------------------------------------------------
(* The database as its users see it.                                       *)
Table == INSTANCE CheckTable WITH
    table <- repoDB, Keys <- Key, References <- Patterns, Default <- AnyRef,
    Heads <- Names, Commits <- Digests, None <- NoDigest, Depth <- MaxHistory

\* One Check at a time, of repositories without labels, is an atomic update
\* of the checked repository's record (poll.go:121-203).
ChecksAreAtomic == Table!Spec
=============================================================================
