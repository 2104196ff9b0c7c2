----------------------------- MODULE CheckTable -----------------------------
(***************************************************************************)
(* What the repository state database promises to somebody who does not    *)
(* see the store: a Check takes effect in one step, on the record of its   *)
(* own key and on no other.  A successful one records the head it found    *)
(* and pushes the digest it replaces onto a bounded history; a failed one  *)
(* counts an error, and forgets the digest if the reference was changed.   *)
(***************************************************************************)
EXTENDS Integers, Sequences

CONSTANTS
    Keys,        \* what the records are kept by
    References,  \* the references a Check may ask for
    Default,     \* the reference that asks for whatever the record names
    Heads,       \* the names heads have
    Commits,     \* the digests heads have
    None,        \* the digest of a record without one
    Depth        \* the number of replaced digests kept

VARIABLE table

Known(k) == k \in DOMAIN table

HistoryOf(k) == IF Known(k) THEN table[k].hist ELSE << >>
ErrorsOf(k) == IF Known(k) THEN table[k].errs ELSE 0

\* A request that names another reference than the record starts afresh.
Redirected(k, asked) == Known(k) /\ asked \notin {Default, table[k].ref}

Previous(k, asked) ==
    IF Known(k) /\ ~Redirected(k, asked) THEN table[k].digest ELSE None

OthersKept(k) ==
    /\ DOMAIN table' = DOMAIN table \cup {k}
    /\ \A other \in DOMAIN table \ {k} : table'[other] = table[other]

\* new is the history old with d at its end and the oldest entries dropped.
Extends(new, old, d) ==
    /\ Len(new) = (IF Len(old) < Depth THEN Len(old) + 1 ELSE Depth)
    /\ new[Len(new)] = d
    /\ \A i \in 1 .. Len(new) - 1 : new[i] = old[i + Len(old) - (Len(new) - 1)]

\* A Check of k that asked for a reference and found head at digest.
Found(k, asked, head, digest) ==
    /\ OthersKept(k)
    /\ table'[k].ref = head
    /\ table'[k].digest = digest
    /\ table'[k].errs = 0
    /\ IF Previous(k, asked) \in {None, digest}
       THEN table'[k].hist = HistoryOf(k)
       ELSE Extends(table'[k].hist, HistoryOf(k), Previous(k, asked))

\* A Check of k that asked for a reference and failed.
NotFound(k, asked) ==
    /\ OthersKept(k)
    /\ table'[k].ref = (IF Known(k) /\ asked = Default THEN table[k].ref ELSE asked)
    /\ table'[k].digest = Previous(k, asked)
    /\ table'[k].errs = ErrorsOf(k) + 1
    /\ table'[k].hist = HistoryOf(k)

Init == table = [k \in {} |-> None]

Next == \E k \in Keys, asked \in References :
    \/ \E head \in Heads, digest \in Commits : Found(k, asked, head, digest)
    \/ NotFound(k, asked)

Spec == Init /\ [][Next]_table
=============================================================================
