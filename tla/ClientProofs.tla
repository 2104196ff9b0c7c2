---------------------------- MODULE ClientProofs ----------------------------
(***************************************************************************)
(* A client: the notification channel beside its calls, and the pages of   *)
(* its queries.                                                            *)
(***************************************************************************)
EXTENDS Client, FiniteSetTheorems, TLAPS

-----------------------------------------------------------------------------
(* The notification channel.  Every notification sent is accounted for: it *)
(* waits in the inbox, is being offered, was received, or closed the       *)
(* channel.                                                                *)

AnswerLast == \A i \in DOMAIN inbox : inbox[i] = "answer" => i = Len(inbox)

InHand == IF reader = "idle" THEN 0 ELSE 1
GivenUp == IF notes = "closed" THEN 1 ELSE 0
Waiting == IF Answering THEN Len(inbox) - 1 ELSE Len(inbox)

NotesTyped ==
    /\ inbox \in Seq({"note", "answer"})
    /\ reader \in {"idle", "offering", "dead"} /\ notes \in {"open", "closed"}
    /\ receiver \in {"waiting", "busy", "stopped", "dead"}
    /\ stopped \in BOOLEAN /\ closing \in {"no", "cancelled", "done"}
    /\ pending \in {"none", "waiting", "answered", "failed"}
    /\ sent \in 0 .. MaxNotes /\ received \in Nat

NotifyIInv ==
    /\ NotesTyped
    /\ AnswerLast
    /\ sent = received + Waiting + InHand + GivenUp
    /\ notes = "closed" => closing # "no"
    /\ Panicked => notes = "closed"
    /\ pending = "answered" => inbox = << >> /\ reader = "idle"

\* What waits is what is unread.
LEMMA WaitingUnread == NotesTyped /\ AnswerLast => Unread = Waiting
<1> SUFFICES ASSUME NotesTyped, AnswerLast PROVE Unread = Waiting
  OBVIOUS
<1> DEFINE unread == {i \in DOMAIN inbox : inbox[i] = "note"}
<1>1. /\ DOMAIN inbox = 1 .. Len(inbox) /\ Len(inbox) \in Nat
      /\ \A i \in DOMAIN inbox : inbox[i] \in {"note", "answer"}
  BY DEF NotesTyped
<1>2. CASE Answering
  <2>1. Len(inbox) \in DOMAIN inbox /\ inbox[Len(inbox)] = "answer"
    BY <1>2 DEF Answering, AnswerLast
  <2>2. unread = 1 .. Len(inbox) - 1
    BY <1>1, <2>1 DEF AnswerLast
  <2>3. Len(inbox) - 1 \in Nat
    BY <1>1, <2>1
  <2>4. Cardinality(1 .. Len(inbox) - 1) = Len(inbox) - 1
    BY <2>3, FS_Interval
  <2>5. Unread = Cardinality(unread)
    BY DEF Unread
  <2> QED
    BY <1>2, <2>2, <2>4, <2>5 DEF Waiting
<1>3. CASE ~Answering
  <2>1. unread = 1 .. Len(inbox)
    BY <1>1, <1>3 DEF Answering
  <2>2. Cardinality(1 .. Len(inbox)) = Len(inbox)
    BY <1>1, FS_Interval
  <2>3. Unread = Cardinality(unread)
    BY DEF Unread
  <2> QED
    BY <1>3, <2>1, <2>2, <2>3 DEF Waiting
<1> QED
  BY <1>2, <1>3

\* The inductive invariant implies what is checked.
LEMMA NotifySuffices == NotifyIInv => NotifyTypeOK /\ NotesBeforeAnswer /\ PanicsOnGivenUp
<1> SUFFICES ASSUME NotifyIInv PROVE NotifyTypeOK /\ NotesBeforeAnswer /\ PanicsOnGivenUp
  OBVIOUS
<1>1. Len(inbox) \in Nat /\ InHand \in 0 .. 1 /\ GivenUp \in 0 .. 1 /\ MaxNotes \in Nat
  BY NotifyAssumption DEF NotifyIInv, NotesTyped, InHand, GivenUp
<1>2. Answering => Len(inbox) > 0
  BY DEF NotifyIInv, NotesTyped, Answering
<1>3. Waiting \in Nat /\ Len(inbox) <= Waiting + 1
  BY <1>1, <1>2 DEF Waiting
<1>4. NotifyTypeOK
  BY <1>1, <1>3 DEF NotifyIInv, NotesTyped, NotifyTypeOK
<1>5. NotesBeforeAnswer
  <2> SUFFICES ASSUME pending = "answered", closing = "no" PROVE received = sent
    BY DEF NotesBeforeAnswer
  <2>1. InHand = 0 /\ GivenUp = 0 /\ Waiting = 0
    BY DEF NotifyIInv, NotesTyped, InHand, GivenUp, Waiting, Answering
  <2> QED
    BY <2>1 DEF NotifyIInv, NotesTyped
<1>6. PanicsOnGivenUp
  <2> SUFFICES ASSUME Panicked
               PROVE  closing # "no" /\ sent - Unread - received >= IF reader = "dead" THEN 2 ELSE 1
    BY DEF PanicsOnGivenUp
  <2>1. GivenUp = 1 /\ Unread = Waiting /\ (reader = "dead" => InHand = 1)
    BY WaitingUnread DEF NotifyIInv, InHand, GivenUp
  <2> QED
    BY <1>1, <1>3, <2>1 DEF NotifyIInv, NotesTyped
<1> QED
  BY <1>4, <1>5, <1>6

LEMMA NotifyInitSafe == NotifyInit => NotifyIInv
<1> SUFFICES ASSUME NotifyInit PROVE NotifyIInv
  OBVIOUS
<1>1. Waiting = 0 /\ InHand = 0 /\ GivenUp = 0 /\ AnswerLast
  BY DEF NotifyInit, Waiting, InHand, GivenUp, Answering, AnswerLast
<1>2. NotesTyped
  <2>1. inbox \in Seq({"note", "answer"})
    BY DEF NotifyInit
  <2>2. stopped \in BOOLEAN
    BY Zenon DEF NotifyInit
  <2>3. sent \in 0 .. MaxNotes /\ received \in Nat
    BY NotifyAssumption DEF NotifyInit
  <2> QED
    BY <2>1, <2>2, <2>3 DEF NotifyInit, NotesTyped
<1> QED
  BY <1>1, <1>2 DEF NotifyInit, Panicked, NotifyIInv

\* What the inbox is after a message comes in, or is read.
LEMMA MessageComes ==
    ASSUME NotifyIInv, ~Answering, NEW m \in {"note", "answer"}, inbox' = Append(inbox, m)
    PROVE  /\ inbox' \in Seq({"note", "answer"}) /\ AnswerLast'
           /\ Waiting' = IF m = "note" THEN Waiting + 1 ELSE Waiting
<1>1. /\ Len(inbox) \in Nat /\ Len(inbox') = Len(inbox) + 1
      /\ inbox' \in Seq({"note", "answer"}) /\ inbox \in Seq({"note", "answer"})
      /\ DOMAIN inbox = 1 .. Len(inbox) /\ DOMAIN inbox' = 1 .. Len(inbox) + 1
      /\ inbox'[Len(inbox) + 1] = m
      /\ \A i \in DOMAIN inbox : inbox'[i] = inbox[i]
  BY DEF NotifyIInv, NotesTyped
<1>2. \A i \in DOMAIN inbox' : inbox'[i] = "answer" => i = Len(inbox')
  BY <1>1 DEF Answering
<1>3. Answering' <=> m = "answer"
  BY <1>1 DEF Answering
<1> QED
  BY <1>1, <1>2, <1>3 DEF AnswerLast, Waiting

LEMMA MessageGoes ==
    ASSUME NotifyIInv, inbox # << >>, inbox' = Tail(inbox)
    PROVE  /\ inbox' \in Seq({"note", "answer"}) /\ AnswerLast'
           /\ Head(inbox) = "note" => Waiting = Waiting' + 1
           /\ Head(inbox) = "answer" => Waiting = Waiting' /\ inbox' = << >>
<1>1. /\ Len(inbox) \in Nat /\ Len(inbox) > 0 /\ Len(inbox') = Len(inbox) - 1
      /\ inbox' \in Seq({"note", "answer"})
      /\ DOMAIN inbox = 1 .. Len(inbox) /\ DOMAIN inbox' = 1 .. Len(inbox) - 1
      /\ Head(inbox) = inbox[1]
      /\ \A i \in DOMAIN inbox' : inbox'[i] = inbox[i + 1]
  BY DEF NotifyIInv, NotesTyped
<1>2. AnswerLast'
  BY <1>1 DEF NotifyIInv, AnswerLast
<1>3. CASE Head(inbox) = "note"
  <2>1. Answering' <=> Answering
    <3>1. Answering => Answering'
      <4> SUFFICES ASSUME NEW i \in DOMAIN inbox, inbox[i] = "answer"
                   PROVE  i - 1 \in DOMAIN inbox' /\ inbox'[i - 1] = "answer"
        BY DEF Answering
      <4>1. i # 1
        BY <1>1, <1>3
      <4> QED
        BY <1>1, <4>1
    <3>2. Answering' => Answering
      BY <1>1 DEF Answering
    <3> QED
      BY <3>1, <3>2
  <2> QED
    BY <1>1, <1>2, <1>3, <2>1 DEF Waiting
<1>4. CASE Head(inbox) = "answer"
  <2>1. Len(inbox) = 1 /\ Answering /\ ~Answering'
    BY <1>1, <1>4 DEF NotifyIInv, AnswerLast, Answering
  <2> QED
    BY <1>1, <1>2, <1>4, <2>1 DEF Waiting
<1> QED
  BY <1>1, <1>2, <1>3, <1>4 DEF NotifyIInv, NotesTyped

\* The inbox as it is.
LEMMA InboxStays ==
    ASSUME NotifyIInv, UNCHANGED inbox
    PROVE  inbox' \in Seq({"note", "answer"}) /\ AnswerLast' /\ Waiting' = Waiting
BY DEF NotifyIInv, NotesTyped, AnswerLast, Waiting, Answering

LEMMA NotifyStepSafe == NotifyIInv /\ [NotifyNext]_notifyVars => NotifyIInv'
<1> SUFFICES ASSUME NotifyIInv, [NotifyNext]_notifyVars PROVE NotifyIInv'
  OBVIOUS
<1> USE NotifyAssumption
<1>0. Waiting \in Nat
  BY DEF NotifyIInv, NotesTyped, Waiting, Answering
<1>1. CASE ServerNotifies
  <2>1. inbox' \in Seq({"note", "answer"}) /\ AnswerLast' /\ Waiting' = Waiting + 1
    BY <1>1, MessageComes DEF ServerNotifies
  <2> QED
    BY <1>0, <1>1, <2>1 DEF ServerNotifies, Panicked, NotifyIInv, NotesTyped, InHand, GivenUp
<1>2. CASE ServerAnswers
  <2>1. inbox' \in Seq({"note", "answer"}) /\ AnswerLast' /\ Waiting' = Waiting
    BY <1>2, MessageComes DEF ServerAnswers
  <2> QED
    BY <1>0, <1>2, <2>1
    DEF ServerAnswers, Panicked, NotifyIInv, NotesTyped, InHand, GivenUp, history
<1>3. CASE ReadsNote
  <2>1. inbox' \in Seq({"note", "answer"}) /\ AnswerLast' /\ Waiting = Waiting' + 1
    BY <1>3, MessageGoes DEF ReadsNote
  <2>2. Waiting' \in Nat
    BY <2>1 DEF Waiting, Answering
  <2>3. /\ reader = "idle" /\ reader' = "offering"
        /\ UNCHANGED <<notes, receiver, stopped, closing, pending, sent, received>>
    BY <1>3 DEF ReadsNote, history
  <2>4. InHand = 0 /\ InHand' = 1 /\ GivenUp' = GivenUp /\ GivenUp \in 0 .. 1
    BY <2>3 DEF InHand, GivenUp
  <2>5. sent' = received' + Waiting' + InHand' + GivenUp'
    BY <2>1, <2>2, <2>3, <2>4 DEF NotifyIInv, NotesTyped
  <2>6. pending' # "answered"
    BY <1>3, <2>3 DEF ReadsNote, NotifyIInv
  <2> QED
    BY <2>1, <2>3, <2>5, <2>6 DEF Panicked, NotifyIInv, NotesTyped
<1>4. CASE ReadsAnswer
  <2>1. inbox' \in Seq({"note", "answer"}) /\ AnswerLast' /\ Waiting = Waiting' /\ inbox' = << >>
    BY <1>4, MessageGoes DEF ReadsAnswer
  <2> QED
    BY <1>0, <1>4, <2>1 DEF ReadsAnswer, Panicked, NotifyIInv, NotesTyped, InHand, GivenUp, history
<1>5. CASE UNCHANGED inbox
  <2>1. inbox' \in Seq({"note", "answer"}) /\ AnswerLast' /\ Waiting' = Waiting
    BY <1>5, InboxStays
  <2>2. CASE HandsOver \/ GivesUp \/ Panics
    BY <1>0, <1>5, <2>1, <2>2
    DEF HandsOver, GivesUp, Panics, Alive, Panicked, NotifyIInv, NotesTyped, InHand, GivenUp,
        history
  <2>3. CASE Calls \/ ReceivesNil \/ ReceiverReturns \/ ReceiveEnds \/ Stops
    BY <1>0, <1>5, <2>1, <2>3
    DEF Calls, ReceivesNil, ReceiverReturns, ReceiveEnds, Stops, Alive, Panicked, NotifyIInv,
        NotesTyped, InHand, GivenUp, history
  <2>4. CASE Cancels \/ Closes
    BY <1>0, <1>5, <2>1, <2>4
    DEF Cancels, Closes, Alive, Panicked, NotifyIInv, NotesTyped, InHand, GivenUp, history
  <2>5. CASE UNCHANGED notifyVars
    BY <1>0, <1>5, <2>1, <2>5
    DEF notifyVars, Panicked, NotifyIInv, NotesTyped, InHand, GivenUp, history
  <2>6. CASE ServerNotifies \/ ServerAnswers \/ ReadsNote \/ ReadsAnswer
    BY <1>1, <1>2, <1>3, <1>4, <2>6
  <2> QED
    BY <2>2, <2>3, <2>4, <2>5, <2>6 DEF NotifyNext, ReaderStep
<1> QED
  BY <1>1, <1>2, <1>3, <1>4, <1>5
  DEF NotifyNext, ReaderStep, Calls, HandsOver, GivesUp, Panics, ReceivesNil, ReceiverReturns,
      ReceiveEnds, Stops, Cancels, Closes, notifyVars

\* Every notification is accounted for, in every reachable state.
THEOREM NotesAccounted == NotifySpec => []NotifyIInv
  BY NotifyInitSafe, NotifyStepSafe, PTL DEF NotifySpec

\* When a call returns its result, Receive has had every notification pushed
\* before, for any number of them and any speed of Receive (client.go:75-77).
THEOREM NotesComeFirst == NotifySpec => []NotesBeforeAnswer
  BY NotesAccounted, NotifySuffices, PTL

\* It takes a Close and a notification nobody received for the program to panic,
\* and two of them for the reader to (client.go:60-65, 84-85).
THEOREM PanicNeedsGivenUp == NotifySpec => []PanicsOnGivenUp
  BY NotesAccounted, NotifySuffices, PTL

-----------------------------------------------------------------------------
(* Sequences.                                                              *)

LEMMA ConcatParts ==
    ASSUME NEW S, NEW s \in Seq(S), NEW t \in Seq(S)
    PROVE  /\ s \o t \in Seq(S) /\ DOMAIN (s \o t) = 1 .. Len(s) + Len(t)
           /\ \A i \in DOMAIN s : i \in DOMAIN (s \o t) /\ (s \o t)[i] = s[i]
           /\ \A i \in DOMAIN t : Len(s) + i \in DOMAIN (s \o t) /\ (s \o t)[Len(s) + i] = t[i]
           /\ \A j \in DOMAIN (s \o t) :
                  j \in DOMAIN s \/ (j - Len(s) \in DOMAIN t /\ j = Len(s) + (j - Len(s)))
  OBVIOUS

\* To move the head of one sequence to the end of another loses nothing.
LEMMA MovesOver ==
    ASSUME NEW S, NEW s \in Seq(S), NEW t \in Seq(S), t # << >>
    PROVE  /\ Append(s, Head(t)) \o Tail(t) = s \o t
           /\ Append(s, Head(t)) \in Seq(S) /\ Tail(t) \in Seq(S)
           /\ Len(Append(s, Head(t))) = Len(s) + 1
  OBVIOUS

\* Sequences may be joined in any order.
LEMMA ConcatAssoc ==
    ASSUME NEW S, NEW s \in Seq(S), NEW t \in Seq(S), NEW v \in Seq(S)
    PROVE  s \o (t \o v) = (s \o t) \o v
  OBVIOUS

\* The sequence of a finite set has each element once.
LEMMA SetInSequence ==
    ASSUME NEW S, IsFiniteSet(S)
    PROVE  LET s == SetToSeq(S) IN
           /\ s \in Seq(S)
           /\ \A i, j \in DOMAIN s : s[i] = s[j] => i = j
           /\ \A x \in S : \E i \in DOMAIN s : s[i] = x
<1> DEFINE n == Cardinality(S)
<1>1. n \in Nat /\ ExistsBijection(1 .. n, S)
  BY FS_CardinalityType
<1> HIDE DEF n
<1>2. PICK f : f \in [1 .. n -> S] /\ IsInjective(f)
  BY <1>1 DEF ExistsBijection, Bijection, Injection
<1>3. SetToSeq(S) = CHOOSE g \in [1 .. n -> S] : IsInjective(g)
  BY DEF SetToSeq, n
<1>4. SetToSeq(S) \in [1 .. n -> S] /\ IsInjective(SetToSeq(S))
  BY <1>2, <1>3
<1>5. SetToSeq(S) \in Surjection(1 .. n, S)
  <2>1. SetToSeq(S) \in Injection(1 .. n, S)
    BY <1>4 DEF Injection
  <2>2. Cardinality(1 .. n) = n
    BY <1>1, FS_Interval
  <2> QED
    BY <2>1, <2>2, FS_Injection DEF n
<1>6. PICK s : s = SetToSeq(S)
  OBVIOUS
<1>7. s \in Seq(S)
  BY <1>1, <1>4, <1>6
<1> QED
  BY <1>4, <1>5, <1>6, <1>7 DEF IsInjective, Surjection

-----------------------------------------------------------------------------
(* The pages of a query.  The items delivered and those of the page at     *)
(* hand make one sequence, which grows row by row in the order of the rows. *)

Items == query.got \o query.page

\* All items are of rows before p.
AllBefore(p) == \A i \in DOMAIN Items : Items[i][1] < p

\* Pages follow each other: a page begins after the rows of the last, and ends
\* before the row the next one begins with.
PagesFollow ==
    /\ query.step = "call" =>
           /\ query.page = << >>
           /\ IF query.key = NoKey THEN query.got = << >> ELSE AllBefore(query.key)
    /\ query.step = "scan" => \A p \in query.todo : AllBefore(p)
    /\ query.step = "scan" /\ query.todo # {} => query.next = NoKey
    /\ query.step \in {"scan", "deliver"} /\ query.next # NoKey => AllBefore(query.next)

ItemsOnce == \A i, j \in DOMAIN Items : Items[i] = Items[j] => i = j

ItemsWanted == \A i \in DOMAIN Items : Untouched(Items[i]) => Items[i] \in Wanted(query.req)

\* What a call has looked up is true of the rows nobody changed.
CacheTrue == \A p \in DOMAIN cache \ touched : p \in DOMAIN rows /\ cache[p] = rows[p].repo

\* Short of its end, a query is short of its limit.
LimitKept ==
    query.req.limit > 0 =>
        /\ Len(query.got) <= query.req.limit
        /\ query.step \in {"call", "scan", "deliver"} => Len(query.got) < query.req.limit

QuerySafe ==
    /\ QueryTypeOK /\ query.req \in Queries
    /\ PagesFollow /\ ItemsOnce /\ ItemsWanted /\ CacheTrue /\ LimitKept

\* Every item is there once, and wanted; what is delivered are the first items.
LEMMA QuerySuffices == QuerySafe => QueryTypeOK /\ DeliveredOnce
<1> SUFFICES ASSUME QuerySafe PROVE DeliveredOnce
  BY DEF QuerySafe
<1>1. query.got \in Seq(Item) /\ query.page \in Seq(Item)
  BY DEF QuerySafe, QueryTypeOK, QueryState
<1>2. PICK s \in Seq(Item), t \in Seq(Item) : s = query.got /\ t = query.page
  BY <1>1
<1>3. \A i \in DOMAIN s : i \in DOMAIN (s \o t) /\ (s \o t)[i] = s[i]
  BY ConcatParts
<1>4. \A i \in DOMAIN query.got : i \in DOMAIN Items /\ Items[i] = query.got[i]
  BY <1>2, <1>3 DEF Items
<1> QED
  BY <1>4 DEF QuerySafe, ItemsOnce, ItemsWanted, LimitKept, DeliveredOnce

\* The query as its type knows it.
LEMMA QueryParts ==
    ASSUME QuerySafe
    PROVE  /\ query \in QueryState /\ query.req \in MatchReq \cup ReverseReq
           /\ query.todo \subseteq Packages /\ query.num \in Nat
           /\ query.key \in Packages \cup {NoKey} /\ query.next \in Packages \cup {NoKey}
           /\ query.page \in Seq(Item) /\ query.got \in Seq(Item) /\ Items \in Seq(Item)
           /\ Packages \subseteq Nat /\ NoKey \notin Packages
           /\ IsMap(rows, Packages, QueryRow) /\ IsMap(cache, Packages, Repos)
<1>1. query \in QueryState
  BY DEF QuerySafe, QueryTypeOK
<1>2. query.page \in Seq(Item) /\ query.got \in Seq(Item)
  BY <1>1 DEF QueryState
<1>3. Items \in Seq(Item)
  BY <1>2, ConcatParts DEF Items
<1> QED
  BY <1>1, <1>2, <1>3, QueryAssumption DEF QueryState, QuerySafe, QueryTypeOK, NoKey

\* What is wanted, of rows that stay as they are.
LEMMA WantedStays ==
    ASSUME NEW req, NEW i \in Item,
           \A p \in Packages \cap {i[1], i[2]} :
               (p \in DOMAIN rows <=> p \in DOMAIN rows') /\ (p \in DOMAIN rows => rows'[p] = rows[p]),
           DOMAIN rows \subseteq Packages, DOMAIN rows' \subseteq Packages
    PROVE  i \in Wanted(req) <=> i \in Wanted(req)'
<1>1. i[1] \in Packages
  BY DEF Item
<1>2. CASE req.method = "match"
  <2>1. i \in Wanted(req) <=>
            /\ i = <<i[1], NoKey>> /\ i[1] \in DOMAIN rows /\ MatchesPackage(req.pattern, i[1])
            /\ req.repo \in {AnyRepo, rows[i[1]].repo}
    BY <1>2 DEF Wanted
  <2>2. i \in Wanted(req)' <=>
            /\ i = <<i[1], NoKey>> /\ i[1] \in DOMAIN rows' /\ MatchesPackage(req.pattern, i[1])
            /\ req.repo \in {AnyRepo, rows'[i[1]].repo}
    BY <1>2 DEF Wanted
  <2> QED
    BY <1>1, <2>1, <2>2
<1>3. CASE req.method # "match"
  BY <1>1, <1>3 DEF Wanted
<1> QED
  BY <1>2, <1>3

\* The query goes on with the same items, to the same rows.
LEMMA QueryGoesOn ==
    ASSUME QuerySafe, NEW new, query' = new, new \in QueryState, new.req = query.req,
           new.got \o new.page = Items, UNCHANGED <<rows, touched>>,
           IsMap(cache', Packages, Repos), CacheTrue',
           PagesFollow', LimitKept'
    PROVE  QuerySafe'
<1>1. Items' = Items
  BY DEF Items
<1>2. Wanted(query.req)' = Wanted(query.req)
  BY DEF Wanted
<1>3. ItemsOnce'
  BY <1>1 DEF QuerySafe, ItemsOnce
<1>4. ItemsWanted'
  <2> SUFFICES ASSUME NEW i \in DOMAIN Items, Untouched(Items[i])
               PROVE  Items[i] \in Wanted(query.req)
    BY <1>1, <1>2 DEF ItemsWanted, Untouched
  <2> QED
    BY DEF QuerySafe, ItemsWanted
<1> QED
  BY <1>3, <1>4 DEF QuerySafe, QueryTypeOK

-----------------------------------------------------------------------------
(* What a row contributes.                                                 *)

\* What a call learns is true of the rows nobody changed.
LEMMA LearnedTrue ==
    ASSUME QuerySafe, NEW ps \in SUBSET Packages
    PROVE  LET known == Learned(ps) IN
           /\ IsMap(known, Packages, Repos)
           /\ \A p \in DOMAIN known \ touched : p \in DOMAIN rows /\ known[p] = rows[p].repo
           /\ \A p \in ps \ touched : p \in DOMAIN known <=> p \in DOMAIN rows
<1>1. PICK known : known = Learned(ps)
  OBVIOUS
<1>2. IsMap(rows, Packages, QueryRow) /\ IsMap(cache, Packages, Repos)
  BY QueryParts
<1>3. /\ DOMAIN known = DOMAIN cache \cup (ps \cap DOMAIN rows)
      /\ \A p \in DOMAIN known : known[p] = IF p \in DOMAIN cache THEN cache[p] ELSE rows[p].repo
  BY <1>1 DEF Learned
<1>4. IsMap(known, Packages, Repos)
  <2>1. \A p \in DOMAIN known : p \in Packages /\ known[p] \in Repos
    BY <1>2, <1>3 DEF IsMap, QueryRow
  <2>2. known = [p \in DOMAIN known |-> known[p]]
    BY <1>1 DEF Learned
  <2> QED
    BY <2>1, <2>2 DEF IsMap
<1>5. \A p \in DOMAIN known \ touched : p \in DOMAIN rows /\ known[p] = rows[p].repo
  BY <1>3 DEF QuerySafe, CacheTrue
<1>6. \A p \in ps \ touched : p \in DOMAIN known <=> p \in DOMAIN rows
  BY <1>3 DEF QuerySafe, CacheTrue
<1> QED
  BY <1>1, <1>4, <1>5, <1>6

\* The items of a row are of that row, finitely many, and while nobody changes
\* the rows they name, they are what is wanted of it.
LEMMA RowHits ==
    ASSUME QuerySafe, NEW p \in DOMAIN rows
    PROVE  /\ IsFiniteSet(Hits(query.req, p))
           /\ \A i \in Hits(query.req, p) : i \in Item /\ i[1] = p
           /\ \A i \in Item : i[1] = p /\ Untouched(i) =>
                  (i \in Hits(query.req, p) <=> i \in Wanted(query.req))
<1> DEFINE req == query.req
           targets == Targets(req, p)
           known == Learned({p} \cup targets)
<1>1. IsMap(rows, Packages, QueryRow) /\ p \in Packages /\ rows[p] \in QueryRow
  BY QueryParts DEF IsMap
<1>2. CASE req.method = "match"
  <2>1. Hits(req, p) = IF MatchesRepo(req, p) /\ MatchesPackage(req.pattern, p)
                       THEN {<<p, NoKey>>} ELSE {}
    BY <1>2 DEF Hits
  <2>2. IsFiniteSet(Hits(req, p))
    BY <2>1, FS_EmptySet, FS_Singleton
  <2>3. <<p, NoKey>> \in Item
    BY <1>1 DEF Item
  <2>4. \A i : i[1] = p => (i \in Wanted(req) <=> i = <<p, NoKey>> /\ MatchesRepo(req, p)
                                                 /\ MatchesPackage(req.pattern, p))
    BY <1>2 DEF Wanted, MatchesRepo
  <2> QED
    BY <2>1, <2>2, <2>3, <2>4
<1>3. CASE req.method # "match"
  <2>1. req \in ReverseReq /\ req.method = "reverse" /\ req.targets \subseteq Packages
    BY <1>3, QueryParts DEF MatchReq, ReverseReq
  <2>2. IsFiniteSet(req.targets)
    BY <2>1, QueryAssumption DEF QuerySafe
  <2>3. targets \subseteq req.targets /\ targets \subseteq Packages
    BY <2>1 DEF Targets
  <2>4. Hits(req, p) = {<<p, t>> : t \in {t \in targets : req.filterSameRepo =>
                            ~({p, t} \subseteq DOMAIN known /\ known[p] = known[t])}}
    BY <1>3 DEF Hits
  <2>5. Hits(req, p) \subseteq {p} \X req.targets
    BY <2>3, <2>4
  <2>6. IsFiniteSet(Hits(req, p))
    <3>1. IsFiniteSet({p} \X req.targets)
      BY <2>2, FS_Singleton, FS_Product
    <3> QED
      BY <2>5, <3>1, FS_Subset
  <2>7. \A i \in Hits(req, p) : i \in Item /\ i[1] = p
    BY <1>1, <2>1, <2>5 DEF Item
  <2>8. ASSUME NEW t \in Packages, p \notin touched, t \notin touched
        PROVE  <<p, t>> \in Hits(req, p) <=> <<p, t>> \in Wanted(req)
    <3>1. t \in targets <=> p \in req.sources /\ t \in rows[p].imports /\ t \in req.targets
      BY DEF Targets
    <3>2. ASSUME t \in targets
          PROVE  ({p, t} \subseteq DOMAIN known /\ known[p] = known[t])
                     <=> (t \in DOMAIN rows /\ rows[t].repo = rows[p].repo)
      <4>1. {p} \cup targets \in SUBSET Packages
        BY <1>1, <2>3
      <4>2. /\ p \in DOMAIN known /\ known[p] = rows[p].repo
            /\ t \in DOMAIN known <=> t \in DOMAIN rows
            /\ t \in DOMAIN known => known[t] = rows[t].repo
        BY <2>8, <3>2, <4>1, LearnedTrue
      <4> QED
        BY <4>2
    <3>3. <<p, t>> \in Hits(req, p) <=> t \in targets /\ (req.filterSameRepo =>
              ~({p, t} \subseteq DOMAIN known /\ known[p] = known[t]))
      BY <2>4
    <3>4. <<p, t>> \in Wanted(req) <=> p \in req.sources /\ t \in rows[p].imports /\ t \in req.targets
              /\ (req.filterSameRepo => ~(t \in DOMAIN rows /\ rows[t].repo = rows[p].repo))
      BY <1>3 DEF Wanted
    <3> QED
      BY <3>1, <3>2, <3>3, <3>4
  <2>9. ASSUME NEW i \in Item, i[1] = p, Untouched(i)
        PROVE  i \in Hits(req, p) <=> i \in Wanted(req)
    <3>1. i = <<p, i[2]>> /\ p \notin touched /\ i[2] \notin touched /\ i[2] \in Packages \cup {NoKey}
      BY <2>9 DEF Item, Untouched
    <3>2. CASE i[2] \in Packages
      BY <2>8, <3>1, <3>2
    <3>3. CASE i[2] = NoKey
      <4>1. NoKey \notin req.targets
        BY <2>1, QueryAssumption
      <4>2. i \notin Hits(req, p)
        BY <2>5, <3>1, <3>3, <4>1
      <4>3. i \notin Wanted(req)
        BY <1>3, <3>1, <3>3, <4>1 DEF Wanted
      <4> QED
        BY <4>2, <4>3
    <3> QED
      BY <3>1, <3>2, <3>3
  <2> QED
    BY <2>6, <2>7, <2>9
<1> QED
  BY <1>2, <1>3

-----------------------------------------------------------------------------
(* The steps of a query.                                                   *)

\* What is before a row is before later rows.
LEMMA BeforeLater ==
    ASSUME QuerySafe, NEW p \in Packages, NEW q \in Packages, AllBefore(p), p <= q
    PROVE  AllBefore(q)
<1>1. \A i \in DOMAIN Items : Items[i][1] \in Nat
  BY QueryParts DEF Item
<1> QED
  BY <1>1, QueryAssumption DEF AllBefore

\* A call of the next page begins (match.go:42-59, reverse.go:27-42).
LEMMA CallsPageSafe == QuerySafe /\ CallsPage => QuerySafe'
<1> SUFFICES ASSUME QuerySafe, CallsPage PROVE QuerySafe'
  OBVIOUS
<1>1. PICK todo : todo = {p \in DOMAIN rows : p >= Start(query.req, query.key)}
  OBVIOUS
<1>2. PICK new : new = [query EXCEPT !.step = "scan", !.next = NoKey, !.num = 0, !.todo = todo]
  OBVIOUS
<1>3. query' = new /\ query.step = "call" /\ cache' = Empty /\ UNCHANGED <<rows, touched>>
  BY <1>1, <1>2 DEF CallsPage, Listing
<1>4. todo \subseteq Packages
  BY <1>1, QueryParts DEF IsMap
<1>5. /\ new \in QueryState /\ new.req = query.req /\ new.step = "scan" /\ new.next = NoKey
      /\ new.todo = todo /\ new.got = query.got /\ new.page = query.page
  BY <1>2, <1>4, QueryParts DEF QueryState
<1>6. Items' = Items
  BY <1>3, <1>5 DEF Items
<1>7. PagesFollow'
  <2>1. ASSUME NEW p \in todo PROVE AllBefore(p)
    <3>1. CASE query.key = NoKey
      <4>1. Items = << >>
        BY <1>3, <3>1 DEF QuerySafe, PagesFollow, Items
      <4> QED
        BY <4>1 DEF AllBefore
    <3>2. CASE query.key # NoKey
      <4>1. AllBefore(query.key) /\ query.key <= p /\ query.key \in Packages /\ p \in Packages
        BY <1>1, <1>3, <1>4, <2>1, <3>2, QueryParts DEF QuerySafe, PagesFollow, Start
      <4> QED
        BY <4>1, BeforeLater
    <3> QED
      BY <3>1, <3>2
  <2> QED
    BY <1>3, <1>5, <1>6, <2>1 DEF PagesFollow, AllBefore
<1>8. LimitKept'
  BY <1>3, <1>5 DEF QuerySafe, LimitKept
<1>9. CacheTrue' /\ IsMap(cache', Packages, Repos)
  BY <1>3 DEF CacheTrue, Empty, IsMap
<1> QED
  BY <1>3, <1>5, <1>7, <1>8, <1>9, QueryGoesOn DEF Items

\* A page ends, or the query with it (match.go:64-77, reverse.go:52-70).
LEMMA PageEndsSafe ==
    ASSUME QuerySafe, (\E p \in Packages : PageStops(p) \/ PageBreaks(p) \/ PageMisses(p)) \/ PageAnswers
    PROVE  QuerySafe'
<1>1. UNCHANGED <<rows, cache, touched>> /\ query.step = "scan"
  BY DEF PageStops, PageBreaks, Breaking, PageMisses, PageAnswers, Visiting
<1>2. CacheTrue' /\ IsMap(cache', Packages, Repos)
  BY <1>1, QueryParts DEF QuerySafe, CacheTrue
<1>3. ASSUME NEW new \in QueryState, query' = new, new.req = query.req, new.got = query.got,
             new.page = query.page, new.step \in {"scan", "deliver", "done", "failed"},
             new.step = "scan" => new.todo = {},
             new.step \in {"scan", "deliver"} => new.next = NoKey \/ AllBefore(new.next)
      PROVE  QuerySafe'
  <2>1. Items' = Items
    BY <1>3 DEF Items
  <2>2. PagesFollow'
    BY <1>3, <2>1 DEF PagesFollow, AllBefore
  <2>3. LimitKept'
    BY <1>1, <1>3 DEF QuerySafe, LimitKept
  <2> QED
    BY <1>1, <1>2, <1>3, <2>2, <2>3, QueryGoesOn DEF Items
<1>4. ASSUME NEW p \in Packages, PageStops(p)
      PROVE  QuerySafe'
  <2>1. PICK new : new = [query EXCEPT !.todo = {}]
    OBVIOUS
  <2>2. query' = new /\ query.next = NoKey
    BY <1>1, <1>4, <2>1 DEF PageStops, Visiting, QuerySafe, PagesFollow
  <2>3. /\ new \in QueryState /\ new.req = query.req /\ new.got = query.got /\ new.page = query.page
        /\ new.step = "scan" /\ new.todo = {} /\ new.next = NoKey
    BY <1>1, <2>1, <2>2, QueryParts DEF QueryState
  <2> QED
    BY <1>3, <2>2, <2>3
<1>5. ASSUME NEW p \in Packages, PageBreaks(p)
      PROVE  QuerySafe'
  <2>1. PICK new : new = [query EXCEPT !.todo = {}, !.next = p]
    OBVIOUS
  <2>2. query' = new /\ AllBefore(p)
    BY <1>1, <1>5, <2>1 DEF PageBreaks, Breaking, Visiting, QuerySafe, PagesFollow
  <2>3. /\ new \in QueryState /\ new.req = query.req /\ new.got = query.got /\ new.page = query.page
        /\ new.step = "scan" /\ new.todo = {} /\ new.next = p
    BY <1>1, <2>1, QueryParts DEF QueryState
  <2> QED
    BY <1>3, <2>2, <2>3
<1>6. ASSUME NEW p \in Packages, PageMisses(p)
      PROVE  QuerySafe'
  <2>1. PICK new : new = [query EXCEPT !.step = "failed", !.todo = {}]
    OBVIOUS
  <2>2. query' = new
    BY <1>6, <2>1 DEF PageMisses
  <2>3. /\ new \in QueryState /\ new.req = query.req /\ new.got = query.got /\ new.page = query.page
        /\ new.step = "failed"
    BY <2>1, QueryParts DEF QueryState
  <2> QED
    BY <1>3, <2>2, <2>3
<1>7. CASE PageAnswers
  <2>1. PICK step \in {"done", "deliver"} : query' = [query EXCEPT !.step = step]
    BY <1>7 DEF PageAnswers
  <2>2. PICK new : new = [query EXCEPT !.step = step]
    OBVIOUS
  <2>3. /\ new \in QueryState /\ new.req = query.req /\ new.got = query.got /\ new.page = query.page
        /\ new.step = step /\ new.next = query.next
    BY <2>2, QueryParts DEF QueryState
  <2>4. query.next = NoKey \/ AllBefore(query.next)
    BY <1>1 DEF QuerySafe, PagesFollow
  <2> QED
    BY <1>3, <2>1, <2>2, <2>3, <2>4
<1> QED
  BY <1>4, <1>5, <1>6, <1>7

\* A row that is taken adds its items, each once, to those there are.
LEMMA TakesHits ==
    ASSUME QuerySafe, NEW p \in Packages, PageTakes(p)
    PROVE  \E more, new :
        /\ more \in Seq(Item) /\ new \in QueryState
        /\ query' = new /\ new.req = query.req /\ new.got = query.got
        /\ new.page = query.page \o more /\ new.step = "scan"
        /\ new.todo = query.todo \ {p} /\ new.next = query.next /\ new.key = query.key
        /\ new.num = query.num + Cardinality(Hits(query.req, p))
        /\ Items' = Items \o more
        /\ \A i, j \in DOMAIN more : more[i] = more[j] => i = j
        /\ \A i \in DOMAIN more : more[i] \in Hits(query.req, p)
        /\ ~query.req.countOnly => \A i \in Hits(query.req, p) : \E n \in DOMAIN more : more[n] = i
<1>1. /\ query.step = "scan" /\ p \in query.todo /\ p \in DOMAIN rows
      /\ UNCHANGED <<rows, touched>> /\ \A q \in query.todo : p <= q
  BY DEF PageTakes, Visiting
<1>2. PICK hits : hits = Hits(query.req, p)
  OBVIOUS
<1>3. /\ IsFiniteSet(hits) /\ Cardinality(hits) \in Nat
      /\ \A i \in hits : i \in Item /\ i[1] = p /\ (Untouched(i) => i \in Wanted(query.req))
  BY <1>1, <1>2, RowHits, FS_CardinalityType
<1>4. PICK more : more = IF query.req.countOnly THEN << >> ELSE SetToSeq(hits)
  OBVIOUS
<1>5. /\ more \in Seq(hits) /\ more \in Seq(Item)
      /\ \A i, j \in DOMAIN more : more[i] = more[j] => i = j
      /\ \A i \in DOMAIN more : more[i] \in hits
      /\ ~query.req.countOnly => \A i \in hits : \E n \in DOMAIN more : more[n] = i
  <2>1. CASE query.req.countOnly
    BY <1>4, <2>1
  <2>2. CASE ~query.req.countOnly
    <3>1. /\ more \in Seq(hits)
          /\ \A i, j \in DOMAIN more : more[i] = more[j] => i = j
          /\ \A i \in hits : \E n \in DOMAIN more : more[n] = i
      BY <1>3, <1>4, <2>2, SetInSequence
    <3>2. hits \subseteq Item
      BY <1>3
    <3> QED
      BY <3>1, <3>2
  <2> QED
    BY <2>1, <2>2
<1>6. PICK todo, num, page : /\ todo = query.todo \ {p} /\ num = query.num + Cardinality(hits)
                             /\ page = query.page \o more
  OBVIOUS
<1>7. query.page \in Seq(Item) /\ query.page \o << >> = query.page
  BY QueryParts
<1>8. PICK new : new = [query EXCEPT !.todo = todo, !.num = num, !.page = page]
  OBVIOUS
<1>9. query' = new
  BY <1>2, <1>4, <1>6, <1>7, <1>8 DEF PageTakes
<1>10. /\ new \in QueryState /\ new.req = query.req /\ new.got = query.got
       /\ new.page = query.page \o more /\ new.step = "scan"
       /\ new.todo = query.todo \ {p} /\ new.next = query.next /\ new.key = query.key
       /\ new.num = query.num + Cardinality(hits)
  <2>1. page \in Seq(Item)
    BY <1>5, <1>6, <1>7
  <2>2. todo \subseteq Packages /\ num \in Nat
    BY <1>3, <1>6, QueryParts
  <2>3. new \in QueryState
    BY <1>8, <2>1, <2>2, QueryParts DEF QueryState
  <2> QED
    BY <1>1, <1>6, <1>8, <2>3, QueryParts DEF QueryState
<1>11. Items' = Items \o more
  <2>1. PICK got, old : got = query.got /\ old = query.page
    OBVIOUS
  <2>2. got \in Seq(Item) /\ old \in Seq(Item) /\ more \in Seq(Item)
    BY <1>5, <2>1, QueryParts
  <2>3. got \o (old \o more) = (got \o old) \o more
    BY <2>2, ConcatAssoc
  <2>4. Items = got \o old
    BY <2>1, Zenon DEF Items
  <2>5. query'.got = got /\ query'.page = old \o more
    BY <1>9, <1>10, <2>1
  <2>6. Items' = got \o (old \o more)
    BY <2>5, Zenon DEF Items
  <2> QED
    BY <2>3, <2>4, <2>6, Zenon
<1> QED
  <2> WITNESS more, new
  <2> QED
    BY <1>2, <1>5, <1>9, <1>10, <1>11

\* A row is taken, or counted (match.go:79-84, reverse.go:71-82).
LEMMA PageTakesSafe ==
    ASSUME QuerySafe, NEW p \in Packages, PageTakes(p)
    PROVE  QuerySafe'
<1>1. /\ query.step = "scan" /\ p \in query.todo /\ p \in DOMAIN rows
      /\ UNCHANGED <<rows, touched>> /\ \A q \in query.todo : p <= q
  BY DEF PageTakes, Visiting
<1>2. PICK hits : hits = Hits(query.req, p)
  OBVIOUS
<1>3. \A i \in hits : i \in Item /\ i[1] = p /\ (Untouched(i) => i \in Wanted(query.req))
  BY <1>1, <1>2, RowHits
<1>4. PICK more, new :
          /\ more \in Seq(Item) /\ new \in QueryState
          /\ query' = new /\ new.req = query.req /\ new.got = query.got /\ new.step = "scan"
          /\ new.todo = query.todo \ {p} /\ new.next = query.next
          /\ Items' = Items \o more
          /\ \A i, j \in DOMAIN more : more[i] = more[j] => i = j
          /\ \A i \in DOMAIN more : more[i] \in hits
  BY <1>2, TakesHits
<1>5. /\ more \in Seq(Item)
      /\ \A i, j \in DOMAIN more : more[i] = more[j] => i = j
      /\ \A i \in DOMAIN more : more[i] \in hits
  BY <1>4
<1>6. query' = new
  BY <1>4
<1>7. /\ new \in QueryState /\ new.req = query.req /\ new.got = query.got /\ new.step = "scan"
       /\ new.todo = query.todo \ {p} /\ new.next = query.next
  BY <1>4
<1>8. Items' = Items \o more
  BY <1>4
<1>9. PICK old \in Seq(Item) : old = Items
  BY QueryParts
<1>10. /\ \A i \in DOMAIN old : old[i][1] < p /\ old[i][1] \in Nat
       /\ \A i, j \in DOMAIN old : old[i] = old[j] => i = j
       /\ \A i \in DOMAIN old : Untouched(old[i]) => old[i] \in Wanted(query.req)
       /\ p \in Nat /\ \A q \in query.todo : q \in Nat
  <2>1. AllBefore(p)
    BY <1>1 DEF QuerySafe, PagesFollow
  <2> QED
    BY <1>9, <2>1, QueryParts DEF QuerySafe, ItemsOnce, ItemsWanted, AllBefore, Item
<1>11. \A j \in DOMAIN (old \o more) :
           \/ j \in DOMAIN old /\ (old \o more)[j] = old[j]
           \/ /\ j - Len(old) \in DOMAIN more /\ (old \o more)[j] = more[j - Len(old)]
              /\ j \notin DOMAIN old
  BY <1>5, <1>9
<1>12. \A j \in DOMAIN (old \o more) : \A q \in query.todo \ {p} : (old \o more)[j][1] < q
  BY <1>1, <1>3, <1>5, <1>10, <1>11
<1>13. \A j \in DOMAIN (old \o more) :
           Untouched((old \o more)[j]) => (old \o more)[j] \in Wanted(query.req)
  BY <1>3, <1>5, <1>10, <1>11
<1>14. ASSUME NEW i \in DOMAIN (old \o more), NEW j \in DOMAIN (old \o more),
              (old \o more)[i] = (old \o more)[j]
       PROVE  i = j
  <2>1. \A m \in DOMAIN more : more[m][1] = p
    BY <1>3, <1>5
  <2>2. CASE i \in DOMAIN old /\ j \in DOMAIN old
    BY <1>10, <1>11, <1>14, <2>2
  <2>3. CASE i \notin DOMAIN old /\ j \notin DOMAIN old
    <3>1. i - Len(old) = j - Len(old)
      BY <1>5, <1>11, <1>14, <2>3
    <3>2. i \in Nat /\ j \in Nat /\ Len(old) \in Nat
      BY <1>5, <1>9
    <3> QED
      BY <3>1, <3>2
  <2>4. CASE i \in DOMAIN old /\ j \notin DOMAIN old
    BY <1>10, <1>11, <1>14, <2>1, <2>4
  <2>5. CASE i \notin DOMAIN old /\ j \in DOMAIN old
    BY <1>10, <1>11, <1>14, <2>1, <2>5
  <2> QED
    BY <2>2, <2>3, <2>4, <2>5
<1>15. ItemsOnce'
  BY <1>8, <1>9, <1>14 DEF ItemsOnce
<1>16. ItemsWanted'
  <2>1. Wanted(query.req)' = Wanted(query.req)
    BY <1>1, <1>6, <1>7 DEF Wanted
  <2> SUFFICES ASSUME NEW i \in DOMAIN (old \o more), Untouched((old \o more)[i])
               PROVE  (old \o more)[i] \in Wanted(query.req)
    BY <1>1, <1>8, <1>9, <2>1 DEF ItemsWanted, Untouched
  <2> QED
    BY <1>13
<1>17. PagesFollow'
  <2>1. new.next = NoKey
    BY <1>1, <1>7 DEF QuerySafe, PagesFollow
  <2> QED
    BY <1>6, <1>7, <1>8, <1>9, <1>12, <2>1 DEF PagesFollow, AllBefore
<1>18. CacheTrue' /\ IsMap(cache', Packages, Repos)
  <2>1. CASE UNCHANGED cache
    BY <1>1, <2>1, QueryParts DEF QuerySafe, CacheTrue
  <2>2. CASE cache' = Learned({p} \cup Targets(query.req, p))
    <3>1. {p} \cup Targets(query.req, p) \in SUBSET Packages
      BY <1>1, QueryParts DEF Targets, IsMap, QueryRow
    <3> QED
      BY <1>1, <2>2, <3>1, LearnedTrue DEF CacheTrue
  <2> QED
    BY <2>1, <2>2 DEF PageTakes
<1>19. LimitKept'
  BY <1>1, <1>6, <1>7 DEF QuerySafe, LimitKept
<1> QED
  BY <1>1, <1>6, <1>7, <1>15, <1>16, <1>17, <1>18, <1>19 DEF QuerySafe, QueryTypeOK

\* An item is delivered (client.go:107-121).
LEMMA DeliversSafe ==
    ASSUME QuerySafe, NEW accepted \in BOOLEAN, Delivers(accepted)
    PROVE  QuerySafe'
<1>1. query.step = "deliver" /\ query.page # << >> /\ UNCHANGED <<rows, cache, touched>>
  BY DEF Delivers
<1>2. PICK s \in Seq(Item), t \in Seq(Item) : s = query.got /\ t = query.page
  BY QueryParts
<1>3. /\ Append(s, Head(t)) \o Tail(t) = s \o t
      /\ Append(s, Head(t)) \in Seq(Item) /\ Tail(t) \in Seq(Item)
      /\ Len(Append(s, Head(t))) = Len(s) + 1
  <2>1. t # << >>
    BY <1>1, <1>2
  <2> QED
    BY <2>1, MovesOver, Zenon
<1>4. PICK got \in Seq(Item), page \in Seq(Item) : got = Append(s, Head(t)) /\ page = Tail(t)
  BY <1>3
<1>5. PICK step \in {"failed", "done", "deliver"} :
          /\ query' = [query EXCEPT !.page = page, !.got = got, !.step = step]
          /\ step = "deliver" => ~(query.req.limit > 0 /\ Len(s) + 1 = query.req.limit)
  BY <1>2, <1>4 DEF Delivers
<1>6. PICK new : new = [query EXCEPT !.page = page, !.got = got, !.step = step]
  OBVIOUS
<1>7. /\ new \in QueryState /\ new.req = query.req /\ new.got = got /\ new.page = page
      /\ new.step = step /\ new.next = query.next /\ query' = new
  BY <1>5, <1>6, QueryParts DEF QueryState
<1>8. Items = s \o t /\ new.got \o new.page = Items
  BY <1>2, <1>3, <1>4, <1>7 DEF Items
<1>9. Items' = Items
  BY <1>7, <1>8 DEF Items
<1>10. PagesFollow'
  BY <1>1, <1>7, <1>9 DEF QuerySafe, PagesFollow, AllBefore
<1>11. LimitKept'
  <2>1. query.req.limit \in Nat /\ Len(s) \in Nat
    BY <1>2, QueryParts DEF MatchReq, ReverseReq
  <2>2. query.req.limit > 0 => Len(s) < query.req.limit
    BY <1>1, <1>2 DEF QuerySafe, LimitKept
  <2>3. Len(new.got) = Len(s) + 1
    BY <1>3, <1>4, <1>7
  <2>4. query.req.limit > 0 =>
            /\ Len(new.got) <= query.req.limit
            /\ step = "deliver" => Len(new.got) < query.req.limit
    BY <1>5, <2>1, <2>2, <2>3
  <2> QED
    BY <1>7, <2>4 DEF LimitKept
<1>12. CacheTrue' /\ IsMap(cache', Packages, Repos)
  BY <1>1, QueryParts DEF QuerySafe, CacheTrue
<1> QED
  BY <1>1, <1>7, <1>8, <1>10, <1>11, <1>12, QueryGoesOn

\* The next page is asked for, or there is none (client.go:122-127).
LEMMA TurnsPageSafe == QuerySafe /\ TurnsPage => QuerySafe'
<1> SUFFICES ASSUME QuerySafe, TurnsPage PROVE QuerySafe'
  OBVIOUS
<1>1. query.step = "deliver" /\ query.page = << >> /\ UNCHANGED <<rows, cache, touched>>
  BY DEF TurnsPage
<1>2. PICK new : new = [query EXCEPT
          !.step = IF query.next = NoKey THEN "done" ELSE "call", !.key = query.next]
  OBVIOUS
<1>3. /\ new \in QueryState /\ new.req = query.req /\ new.got = query.got /\ new.page = query.page
      /\ new.key = query.next /\ query' = new
      /\ new.step = IF query.next = NoKey THEN "done" ELSE "call"
  BY <1>2, QueryParts DEF QueryState, TurnsPage
<1>4. Items' = Items
  BY <1>3 DEF Items
<1>5. PagesFollow'
  BY <1>1, <1>3, <1>4 DEF QuerySafe, PagesFollow, AllBefore
<1>6. LimitKept'
  BY <1>1, <1>3 DEF QuerySafe, LimitKept
<1>7. CacheTrue' /\ IsMap(cache', Packages, Repos)
  BY <1>1, QueryParts DEF QuerySafe, CacheTrue
<1> QED
  BY <1>1, <1>3, <1>5, <1>6, <1>7, QueryGoesOn DEF Items

\* Others change a row of the graph, and the items of that row count no more.
LEMMA OthersSafe ==
    ASSUME QuerySafe, UNCHANGED <<query, cache>>, IsMap(rows', Packages, QueryRow),
           NEW p \in Packages, touched' = touched \cup {p},
           \A q \in Packages \ {p} :
               (q \in DOMAIN rows <=> q \in DOMAIN rows') /\ (q \in DOMAIN rows => rows'[q] = rows[q])
    PROVE  QuerySafe'
<1>1. Items' = Items /\ \A q : AllBefore(q)' <=> AllBefore(q)
  BY DEF Items, AllBefore
<1>2. DOMAIN rows \subseteq Packages /\ DOMAIN rows' \subseteq Packages
  BY QueryParts DEF IsMap
<1>3. QueryTypeOK'
  BY DEF QuerySafe, QueryTypeOK
<1>4. PagesFollow'
  BY <1>1 DEF QuerySafe, PagesFollow, AllBefore
<1>5. ItemsOnce' /\ LimitKept'
  BY <1>1 DEF QuerySafe, ItemsOnce, LimitKept
<1>6. CacheTrue'
  <2>1. DOMAIN cache \subseteq Packages
    BY QueryParts DEF IsMap
  <2> QED
    BY <2>1 DEF QuerySafe, CacheTrue
<1>7. ItemsWanted'
  <2> SUFFICES ASSUME NEW i \in DOMAIN Items, Untouched(Items[i])'
               PROVE  Items[i] \in Wanted(query.req)'
    BY <1>1 DEF ItemsWanted
  <2>1. Items[i] \in Item /\ NoKey \notin Packages
    BY QueryParts
  <2>2. PICK item \in Item : item = Items[i]
    BY <2>1
  <2>3. {item[1], item[2]} \cap (touched \cup {p}) = {}
    BY <1>1, <2>2 DEF Untouched
  <2>4. item \in Wanted(query.req)
    BY <2>2, <2>3 DEF QuerySafe, ItemsWanted, Untouched
  <2>5. PICK req : req = query.req
    OBVIOUS
  <2>6. \A q \in Packages \cap {item[1], item[2]} :
            (q \in DOMAIN rows <=> q \in DOMAIN rows') /\ (q \in DOMAIN rows => rows'[q] = rows[q])
    BY <2>3
  <2>7. item \in Wanted(req) <=> item \in Wanted(req)'
    BY <1>2, <2>6, WantedStays
  <2> QED
    BY <2>2, <2>4, <2>5, <2>7
<1> QED
  BY <1>3, <1>4, <1>5, <1>6, <1>7 DEF QuerySafe

\* What others do changes one row.
LEMMA OthersTouch ==
    ASSUME QuerySafe,
           \/ \E change \in Changes : OthersStore(change[1], change[2])
           \/ \E p \in Removals : OthersRemove(p)
    PROVE  /\ UNCHANGED <<query, cache>> /\ IsMap(rows', Packages, QueryRow)
           /\ \E p \in Packages :
                  /\ touched' = touched \cup {p}
                  /\ \A q \in Packages \ {p} :
                         /\ q \in DOMAIN rows <=> q \in DOMAIN rows'
                         /\ q \in DOMAIN rows => rows'[q] = rows[q]
<1>1. IsMap(rows, Packages, QueryRow)
  BY QueryParts
<1>2. CASE \E change \in Changes : OthersStore(change[1], change[2])
  <2>1. PICK p \in Packages, row \in QueryRow : OthersStore(p, row)
    BY <1>2, QueryAssumption
  <2>2. rows' = Put(rows, p, row) /\ touched' = touched \cup {p} /\ UNCHANGED <<query, cache>>
    BY <2>1 DEF OthersStore
  <2> QED
    BY <1>1, <2>2 DEF IsMap, Put
<1>3. CASE \E p \in Removals : OthersRemove(p)
  <2>1. PICK p \in Packages : OthersRemove(p)
    BY <1>3, QueryAssumption
  <2>2. rows' = Drop(rows, p) /\ touched' = touched \cup {p} /\ UNCHANGED <<query, cache>>
    BY <2>1 DEF OthersRemove
  <2> QED
    BY <1>1, <2>2 DEF IsMap, Drop
<1> QED
  BY <1>2, <1>3

\* A query begins with nothing.
LEMMA QueryStarts == QueryInit => QuerySafe
<1> SUFFICES ASSUME QueryInit PROVE QuerySafe
  OBVIOUS
<1>1. PICK req \in Queries :
          query = [req |-> req, step |-> "call", key |-> NoKey, next |-> NoKey,
                   todo |-> {}, num |-> 0, page |-> << >>, got |-> << >>]
  BY DEF QueryInit
<1>2. query \in QueryState /\ query.req \in Queries
  BY <1>1, QueryAssumption DEF QueryState
<1>3. Items = << >>
  BY <1>1 DEF Items
<1>4. IsMap(rows, Packages, QueryRow) /\ cache = Empty /\ touched = {}
  BY QueryAssumption DEF QueryInit
<1>5. QueryTypeOK /\ CacheTrue
  BY <1>2, <1>4 DEF QueryTypeOK, CacheTrue, Empty, IsMap
<1>6. PagesFollow /\ ItemsOnce /\ ItemsWanted
  BY <1>1, <1>3 DEF PagesFollow, ItemsOnce, ItemsWanted
<1>7. LimitKept
  <2>1. query.req.limit \in Nat /\ Len(query.got) = 0
    BY <1>1, <1>2 DEF QueryState, MatchReq, ReverseReq
  <2> QED
    BY <2>1 DEF LimitKept
<1> QED
  BY <1>2, <1>5, <1>6, <1>7 DEF QuerySafe

-----------------------------------------------------------------------------
(* What is wanted is delivered, or still to come.                          *)

\* The page in progress, or one after it, still has the row of the item.
Coming(i) ==
    \/ query.step = "call" /\ (query.key = NoKey \/ i[1] >= query.key)
    \/ query.step = "scan" /\ i[1] \in query.todo
    \/ query.step \in {"scan", "deliver"} /\ query.next # NoKey /\ i[1] >= query.next

LimitReached == query.req.limit > 0 /\ Len(query.got) = query.req.limit

NoneMissed ==
    ~query.req.countOnly /\ query.step # "failed" =>
        \/ query.step = "done" /\ LimitReached
        \/ \A i \in Wanted(query.req) :
               Untouched(i) => Coming(i) \/ \E n \in DOMAIN Items : Items[n] = i

\* Nothing is left over in the end.
PageEmptied == ~query.req.countOnly /\ query.step = "done" /\ ~LimitReached => query.page = << >>

\* A page begins with a match, and lists the rows from its start on.
KeyMatches ==
    query.req.method = "match" =>
        \A k \in {query.key, query.next} \ {NoKey} : MatchesPackage(query.req.pattern, k)
FromStart == query.step = "scan" => \A p \in query.todo : p >= Start(query.req, query.key)

\* The items counted are the wanted ones of the rows visited.
Counted == {i \in Wanted(query.req) : i[1] \notin query.todo}
CountOnly ==
    query.req.countOnly =>
        /\ query.step # "deliver" /\ query.key = NoKey /\ query.next = NoKey
        /\ query.step = "done" => query.todo = {}
        /\ query.step \in {"scan", "done"} /\ touched = {} =>
               IsFiniteSet(Counted) /\ query.num = Cardinality(Counted)

QueryCovers == NoneMissed /\ PageEmptied /\ KeyMatches /\ FromStart /\ CountOnly

\* The order of the names: past a row that does not even begin like a match,
\* none matches.
LEMMA PastPattern ==
    ASSUME NEW pattern \in Pattern, NEW start \in Packages, MatchesPackage(pattern, start),
           NEW p \in Packages, NEW q \in Packages, start < p, p <= q,
           ~MatchesPackage(pattern, p), <<start, p>> \notin Begins
    PROVE  ~MatchesPackage(pattern, q)
<1>1. start \in Nat /\ p \in Nat /\ q \in Nat /\ pattern.path \in Packages /\ pattern.path \in Nat
  BY QueryAssumption DEF Pattern
<1>2. CASE pattern.kind = "all"
  BY <1>2 DEF MatchesPackage
<1>3. CASE pattern.kind = "exact"
  BY <1>1, <1>3 DEF MatchesPackage
<1>4. CASE pattern.kind = "tree"
  <2>1. \A r : MatchesPackage(pattern, r) <=> r = pattern.path \/ <<pattern.path, r>> \in Below
    BY <1>4 DEF MatchesPackage
  <2> SUFFICES ASSUME MatchesPackage(pattern, q) PROVE FALSE
    OBVIOUS
  <2>2. p < q
    <3>1. p # q
      OBVIOUS
    <3> QED
      BY <1>1, <3>1
  <2>3. pattern.path <= start
    <3>1. CASE start = pattern.path
      BY <1>1, <3>1
    <3>2. CASE <<pattern.path, start>> \in Below
      <4>1. <<pattern.path, start>> \in Begins
        BY <3>2, QueryAssumption
      <4>2. pattern.path < start
        BY <4>1, OrderAssumption
      <4> QED
        BY <1>1, <4>2
    <3> QED
      BY <2>1, <3>1, <3>2
  <2>4. q # pattern.path
    BY <1>1, <2>3
  <2>5. <<pattern.path, q>> \in Below
    BY <2>1, <2>4
  <2>6. CASE start = pattern.path
    <3>1. <<start, q>> \in Begins
      BY <2>5, <2>6, QueryAssumption
    <3>2. <<start, p>> \in Begins
      BY <2>2, <3>1, OrderAssumption
    <3> QED
      BY <3>2
  <2>7. CASE <<pattern.path, start>> \in Below
    <3>1. <<pattern.path, p>> \in Below
      BY <1>1, <2>2, <2>5, <2>7, OrderAssumption
    <3> QED
      BY <2>1, <3>1
  <2> QED
    BY <2>1, <2>6, <2>7
<1> QED
  BY <1>2, <1>3, <1>4 DEF Pattern

\* What is wanted is an item of a row there is.
LEMMA WantedRows ==
    ASSUME QuerySafe, NEW i \in Wanted(query.req)
    PROVE  /\ i \in Item /\ i[1] \in DOMAIN rows /\ i[1] \in Packages
           /\ query.req.method = "match" => MatchesPackage(query.req.pattern, i[1])
<1>1. DOMAIN rows \subseteq Packages
  BY QueryParts DEF IsMap
<1>2. CASE query.req.method = "match"
  BY <1>1, <1>2 DEF Wanted, Item
<1>3. CASE query.req.method # "match"
  <2>1. query.req.targets \subseteq Packages
    BY <1>3, QueryParts DEF MatchReq, ReverseReq
  <2> QED
    BY <1>1, <1>3, <2>1 DEF Wanted, Item
<1> QED
  BY <1>2, <1>3

\* The listing of a page has all that is wanted from its key on.
LEMMA ListedFromStart ==
    ASSUME QuerySafe, NEW i \in Wanted(query.req), query.key = NoKey \/ i[1] >= query.key
    PROVE  i[1] \in DOMAIN rows /\ i[1] >= Start(query.req, query.key)
<1>1. /\ i[1] \in DOMAIN rows /\ i[1] \in Packages /\ i[1] \in Nat
      /\ query.req.method = "match" => MatchesPackage(query.req.pattern, i[1])
  BY WantedRows, QueryParts
<1>2. CASE query.key # NoKey \/ query.req.method = "reverse" \/ query.req.pattern.kind = "all"
  BY <1>1, <1>2 DEF Start, NoKey
<1>3. CASE ~(query.key # NoKey \/ query.req.method = "reverse" \/ query.req.pattern.kind = "all")
  <2>1. query.req \in MatchReq /\ query.req.pattern \in Pattern
    BY <1>3, QueryParts DEF MatchReq, ReverseReq
  <2>2. PICK path : path = query.req.pattern.path
    OBVIOUS
  <2>3. i[1] = path \/ <<path, i[1]>> \in Below
    BY <1>1, <1>3, <2>1, <2>2 DEF MatchReq, Pattern, MatchesPackage
  <2>4. path \in Nat
    BY <2>1, <2>2, QueryAssumption DEF Pattern
  <2>5. <<path, i[1]>> \in Below => path < i[1]
    BY QueryAssumption, OrderAssumption
  <2>6. i[1] >= path
    BY <1>1, <2>3, <2>4, <2>5
  <2> QED
    BY <1>1, <1>3, <2>2, <2>6 DEF Start
<1> QED
  BY <1>2, <1>3

\* Where a page stops, nothing listed matches any more.
LEMMA NoneStopped ==
    ASSUME QuerySafe, QueryCovers, NEW p \in Packages, PageStops(p), NEW i \in Wanted(query.req)
    PROVE  i[1] \notin query.todo
<1>1. PICK req, key, start : req = query.req /\ key = query.key /\ start = Start(req, key)
  OBVIOUS
<1>2. /\ query.step = "scan" /\ p \in query.todo /\ \A q \in query.todo : p <= q
      /\ req.method = "match" /\ ~MatchesPackage(req.pattern, p)
      /\ start \notin {NoKey, p} /\ <<start, p>> \notin Begins
  BY <1>1 DEF PageStops, Visiting, PastMatches
<1>3. req \in MatchReq /\ req.pattern \in Pattern /\ req.pattern.path \in Packages
  BY <1>1, <1>2, QueryParts DEF MatchReq, ReverseReq, Pattern
<1>4. start \in Packages /\ MatchesPackage(req.pattern, start)
  <2>1. CASE key # NoKey
    BY <1>1, <1>2, <2>1, QueryParts DEF QueryCovers, KeyMatches, Start
  <2>2. CASE key = NoKey
    <3>1. start = req.pattern.path /\ req.pattern.kind # "all"
      BY <1>1, <1>2, <2>2 DEF Start
    <3> QED
      BY <1>3, <3>1 DEF MatchesPackage, Pattern
  <2> QED
    BY <2>1, <2>2
<1>5. start < p
  <2>1. p >= start
    BY <1>1, <1>2 DEF QueryCovers, FromStart
  <2>2. p \in Nat /\ start \in Nat /\ p # start
    BY <1>2, <1>4, QueryAssumption
  <2> QED
    BY <2>1, <2>2
<1>6. i[1] \in Packages /\ MatchesPackage(req.pattern, i[1])
  BY <1>1, <1>2, WantedRows
<1> QED
  <2> SUFFICES ASSUME i[1] \in query.todo PROVE FALSE
    OBVIOUS
  <2>1. p <= i[1]
    BY <1>2
  <2> QED
    BY <1>2, <1>3, <1>4, <1>5, <1>6, <2>1, PastPattern

\* A call lists all that is still to come.
LEMMA CallsPageCovers == QuerySafe /\ QueryCovers /\ CallsPage => QueryCovers'
<1> SUFFICES ASSUME QuerySafe, QueryCovers, CallsPage PROVE QueryCovers'
  OBVIOUS
<1>1. PICK todo : todo = {p \in DOMAIN rows : p >= Start(query.req, query.key)}
  OBVIOUS
<1>2. PICK new : new = [query EXCEPT !.step = "scan", !.next = NoKey, !.num = 0, !.todo = todo]
  OBVIOUS
<1>3. query' = new /\ query.step = "call" /\ UNCHANGED <<rows, touched>>
  BY <1>1, <1>2 DEF CallsPage, Listing
<1>4. /\ new.req = query.req /\ new.step = "scan" /\ new.next = NoKey /\ new.num = 0
      /\ new.todo = todo /\ new.got = query.got /\ new.page = query.page /\ new.key = query.key
  BY <1>2, QueryParts DEF QueryState
<1>5. Items' = Items
  BY <1>3, <1>4 DEF Items
<1>6. Wanted(query.req)' = Wanted(query.req)
  BY <1>3, <1>4 DEF Wanted
<1>7. \A i \in Wanted(query.req) : query.key = NoKey \/ i[1] >= query.key => i[1] \in todo
  BY <1>1, ListedFromStart
<1>8. NoneMissed'
  <2> SUFFICES ASSUME ~query.req.countOnly, NEW i \in Wanted(query.req), Untouched(i)
               PROVE  i[1] \in todo \/ \E n \in DOMAIN Items : Items[n] = i
    BY <1>3, <1>4, <1>5, <1>6 DEF NoneMissed, Coming, Untouched
  <2> QED
    BY <1>3, <1>7 DEF QueryCovers, NoneMissed, Coming
<1>9. PageEmptied'
  BY <1>3, <1>4 DEF PageEmptied
<1>10. KeyMatches'
  BY <1>3, <1>4 DEF QueryCovers, KeyMatches, MatchesPackage
<1>11. FromStart'
  BY <1>1, <1>3, <1>4 DEF FromStart, Start
<1>12. CountOnly'
  <2>1. ASSUME query.req.countOnly PROVE {i \in Wanted(query.req) : i[1] \notin todo} = {}
    BY <1>7, <2>1 DEF QueryCovers, CountOnly
  <2>2. ASSUME query.req.countOnly PROVE Counted' = {}
    BY <1>3, <1>4, <1>6, <2>1, <2>2 DEF Counted
  <2> QED
    BY <1>3, <1>4, <2>2, FS_EmptySet DEF QueryCovers, CountOnly
<1> QED
  BY <1>8, <1>9, <1>10, <1>11, <1>12 DEF QueryCovers

\* A page ends before what is left: it is for the next one.
LEMMA PageEndsCovers ==
    ASSUME QuerySafe, QueryCovers,
           (\E p \in Packages : PageStops(p) \/ PageBreaks(p) \/ PageMisses(p)) \/ PageAnswers
    PROVE  QueryCovers'
<1>1. UNCHANGED <<rows, touched>> /\ query.step = "scan"
  BY DEF PageStops, PageBreaks, Breaking, PageMisses, PageAnswers, Visiting
<1>2. ASSUME NEW p \in Packages, PageStops(p)
      PROVE  QueryCovers'
  <2>1. PICK new : new = [query EXCEPT !.todo = {}]
    OBVIOUS
  <2>2. query' = new /\ query.todo # {}
    BY <1>2, <2>1 DEF PageStops, Visiting
  <2>3. /\ new.req = query.req /\ new.got = query.got /\ new.page = query.page /\ new.num = query.num
        /\ new.step = "scan" /\ new.todo = {} /\ new.next = query.next /\ new.key = query.key
    BY <1>1, <2>1, QueryParts DEF QueryState
  <2>4. Items' = Items /\ Wanted(query.req)' = Wanted(query.req)
    BY <1>1, <2>2, <2>3 DEF Items, Wanted
  <2>5. \A i \in Wanted(query.req) : i[1] \notin query.todo
    BY <1>2, NoneStopped
  <2>6. NoneMissed'
    <3> SUFFICES ASSUME ~query.req.countOnly, NEW i \in Wanted(query.req), Untouched(i)
                 PROVE  Coming(i)' \/ \E n \in DOMAIN Items : Items[n] = i
      BY <1>1, <2>2, <2>3, <2>4 DEF NoneMissed, Untouched
    <3>1. Coming(i) \/ \E n \in DOMAIN Items : Items[n] = i
      BY <1>1 DEF QueryCovers, NoneMissed
    <3> QED
      BY <1>1, <2>2, <2>3, <2>5, <3>1 DEF Coming
  <2>7. PageEmptied' /\ FromStart'
    BY <2>2, <2>3 DEF PageEmptied, FromStart
  <2>8. KeyMatches'
    BY <2>2, <2>3 DEF QueryCovers, KeyMatches, MatchesPackage
  <2>9. CountOnly'
    <3>1. Counted' = Counted
      BY <2>2, <2>3, <2>4, <2>5 DEF Counted
    <3> QED
      BY <1>1, <2>2, <2>3, <3>1 DEF QueryCovers, CountOnly
  <2> QED
    BY <2>6, <2>7, <2>8, <2>9 DEF QueryCovers
<1>3. ASSUME NEW p \in Packages, PageBreaks(p)
      PROVE  QueryCovers'
  <2>1. PICK new : new = [query EXCEPT !.todo = {}, !.next = p]
    OBVIOUS
  <2>2. /\ query' = new /\ ~query.req.countOnly /\ p \in query.todo /\ \A q \in query.todo : p <= q
        /\ Overflows(query.req, Cardinality(Hits(query.req, p)))
        /\ query.next = NoKey /\ p # NoKey
    BY <1>1, <1>3, <2>1, QueryParts DEF PageBreaks, Breaking, Visiting, QuerySafe, PagesFollow
  <2>3. /\ new.req = query.req /\ new.got = query.got /\ new.page = query.page
        /\ new.step = "scan" /\ new.todo = {} /\ new.next = p /\ new.key = query.key
    BY <1>1, <2>1, QueryParts DEF QueryState
  <2>4. Items' = Items /\ Wanted(query.req)' = Wanted(query.req)
    BY <1>1, <2>2, <2>3 DEF Items, Wanted
  <2>5. NoneMissed'
    <3> SUFFICES ASSUME ~query.req.countOnly, NEW i \in Wanted(query.req), Untouched(i)
                 PROVE  Coming(i)' \/ \E n \in DOMAIN Items : Items[n] = i
      BY <1>1, <2>2, <2>3, <2>4 DEF NoneMissed, Untouched
    <3>1. Coming(i) \/ \E n \in DOMAIN Items : Items[n] = i
      BY <1>1 DEF QueryCovers, NoneMissed
    <3>2. i[1] \in Nat /\ p \in Nat /\ (i[1] \in query.todo => p <= i[1])
      BY <2>2, WantedRows, QueryParts
    <3>3. Coming(i) => i[1] \in query.todo
      BY <1>1, <2>2 DEF Coming
    <3>4. i[1] \in query.todo => i[1] >= p
      BY <3>2
    <3> QED
      BY <2>2, <2>3, <3>1, <3>3, <3>4 DEF Coming
  <2>6. PageEmptied' /\ FromStart'
    BY <2>2, <2>3 DEF PageEmptied, FromStart
  <2>7. KeyMatches'
    <3>1. ASSUME query.req.method = "match" PROVE MatchesPackage(query.req.pattern, p)
      <4>1. Cardinality(Hits(query.req, p)) > 0
        BY <2>2, <3>1 DEF Overflows
      <4>2. Hits(query.req, p) # {}
        BY <4>1, FS_EmptySet
      <4> QED
        BY <3>1, <4>2 DEF Hits
    <3> QED
      BY <2>2, <2>3, <3>1 DEF QueryCovers, KeyMatches, MatchesPackage
  <2>8. CountOnly'
    BY <2>2, <2>3 DEF CountOnly
  <2> QED
    BY <2>5, <2>6, <2>7, <2>8 DEF QueryCovers
<1>4. ASSUME NEW p \in Packages, PageMisses(p)
      PROVE  QueryCovers'
  <2>1. PICK new : new = [query EXCEPT !.step = "failed", !.todo = {}]
    OBVIOUS
  <2>2. query' = new
    BY <1>4, <2>1 DEF PageMisses
  <2>3. /\ new.req = query.req /\ new.step = "failed" /\ new.key = query.key /\ new.next = query.next
    BY <2>1, QueryParts DEF QueryState
  <2>4. KeyMatches'
    BY <2>2, <2>3 DEF QueryCovers, KeyMatches, MatchesPackage
  <2> QED
    BY <2>2, <2>3, <2>4 DEF QueryCovers, NoneMissed, PageEmptied, FromStart, CountOnly
<1>5. CASE PageAnswers
  <2>1. PICK new : new = [query EXCEPT !.step = IF query.req.countOnly THEN "done" ELSE "deliver"]
    OBVIOUS
  <2>2. query' = new /\ query.todo = {}
    BY <1>5, <2>1 DEF PageAnswers
  <2>3. /\ new.req = query.req /\ new.got = query.got /\ new.page = query.page /\ new.num = query.num
        /\ new.step = IF query.req.countOnly THEN "done" ELSE "deliver"
        /\ new.todo = query.todo /\ new.next = query.next /\ new.key = query.key
    BY <2>1, QueryParts DEF QueryState
  <2>4. Items' = Items /\ Wanted(query.req)' = Wanted(query.req)
    BY <1>1, <2>2, <2>3 DEF Items, Wanted
  <2>5. NoneMissed'
    <3> SUFFICES ASSUME ~query.req.countOnly, NEW i \in Wanted(query.req), Untouched(i)
                 PROVE  Coming(i)' \/ \E n \in DOMAIN Items : Items[n] = i
      BY <1>1, <2>2, <2>3, <2>4 DEF NoneMissed, Untouched
    <3>1. Coming(i) \/ \E n \in DOMAIN Items : Items[n] = i
      BY <1>1 DEF QueryCovers, NoneMissed
    <3> QED
      BY <1>1, <2>2, <2>3, <3>1 DEF Coming
  <2>6. PageEmptied' /\ FromStart'
    BY <2>2, <2>3 DEF PageEmptied, FromStart
  <2>7. KeyMatches'
    BY <2>2, <2>3 DEF QueryCovers, KeyMatches, MatchesPackage
  <2>8. CountOnly'
    <3>1. Counted' = Counted
      BY <2>2, <2>3, <2>4 DEF Counted
    <3> QED
      BY <1>1, <2>2, <2>3, <3>1 DEF QueryCovers, CountOnly
  <2> QED
    BY <2>5, <2>6, <2>7, <2>8 DEF QueryCovers
<1> QED
  BY <1>2, <1>3, <1>4, <1>5

\* A row that is taken is missing no more; a row that is counted is counted once.
LEMMA PageTakesCovers ==
    ASSUME QuerySafe, QueryCovers, NEW p \in Packages, PageTakes(p)
    PROVE  QueryCovers'
<1>1. /\ query.step = "scan" /\ p \in query.todo /\ p \in DOMAIN rows
      /\ UNCHANGED <<rows, touched>>
  BY DEF PageTakes, Visiting
<1>2. PICK hits : hits = Hits(query.req, p)
  OBVIOUS
<1>3. PICK more, new :
          /\ more \in Seq(Item)
          /\ query' = new /\ new.req = query.req /\ new.got = query.got /\ new.step = "scan"
          /\ new.todo = query.todo \ {p} /\ new.next = query.next /\ new.key = query.key
          /\ new.num = query.num + Cardinality(hits)
          /\ Items' = Items \o more
          /\ ~query.req.countOnly => \A i \in hits : \E n \in DOMAIN more : more[n] = i
  BY <1>2, TakesHits
<1>4. query.next = NoKey
  BY <1>1 DEF QuerySafe, PagesFollow
<1>5. Wanted(query.req)' = Wanted(query.req)
  BY <1>1, <1>3 DEF Wanted
<1>6. /\ IsFiniteSet(hits)
      /\ \A i \in hits : i \in Item /\ i[1] = p
      /\ \A i \in Item : i[1] = p /\ Untouched(i) => (i \in hits <=> i \in Wanted(query.req))
  BY <1>1, <1>2, RowHits
<1>7. NoneMissed'
  <2> SUFFICES ASSUME ~query.req.countOnly, NEW i \in Wanted(query.req), Untouched(i)
               PROVE  i[1] \in query.todo \ {p} \/ \E n \in DOMAIN (Items \o more) : (Items \o more)[n] = i
    BY <1>1, <1>3, <1>5 DEF NoneMissed, Coming, Untouched
  <2>1. PICK old : old = Items
    OBVIOUS
  <2>2. old \in Seq(Item) /\ more \in Seq(Item)
    BY <1>3, <2>1, QueryParts
  <2>3. CASE \E n \in DOMAIN Items : Items[n] = i
    <3>1. \A n \in DOMAIN old : n \in DOMAIN (old \o more) /\ (old \o more)[n] = old[n]
      BY <2>2, ConcatParts
    <3> QED
      BY <2>1, <2>3, <3>1
  <2>4. CASE i[1] \in query.todo \ {p}
    BY <2>4
  <2>5. CASE i[1] = p
    <3>1. i \in hits
      BY <1>6, <2>5, WantedRows
    <3>2. PICK n \in DOMAIN more : more[n] = i
      BY <1>3, <3>1
    <3>3. Len(old) + n \in DOMAIN (old \o more) /\ (old \o more)[Len(old) + n] = more[n]
      BY <2>2, ConcatParts
    <3> QED
      BY <2>1, <3>2, <3>3
  <2>6. Coming(i) \/ \E n \in DOMAIN Items : Items[n] = i
    BY <1>1 DEF QueryCovers, NoneMissed
  <2> QED
    BY <1>1, <1>4, <2>3, <2>4, <2>5, <2>6 DEF Coming
<1>8. PageEmptied'
  BY <1>3 DEF PageEmptied
<1>9. KeyMatches'
  BY <1>3 DEF QueryCovers, KeyMatches, MatchesPackage
<1>10. FromStart'
  BY <1>1, <1>3 DEF QueryCovers, FromStart, Start
<1>11. CountOnly'
  <2> SUFFICES ASSUME query.req.countOnly, touched = {}
               PROVE  IsFiniteSet(Counted') /\ query'.num = Cardinality(Counted')
    BY <1>1, <1>3 DEF QueryCovers, CountOnly
  <2>1. PICK counted : counted = Counted
    OBVIOUS
  <2>2. IsFiniteSet(counted) /\ query.num = Cardinality(counted)
    BY <1>1, <2>1 DEF QueryCovers, CountOnly
  <2>3. \A i \in Wanted(query.req) : i \in Item
    BY WantedRows
  <2>4. \A i \in Item : Untouched(i)
    BY DEF Untouched
  <2>5. Counted' = counted \cup hits
    BY <1>1, <1>3, <1>5, <1>6, <2>1, <2>3, <2>4 DEF Counted
  <2>6. counted \cap hits = {}
    BY <1>1, <1>6, <2>1 DEF Counted
  <2>7. IsFiniteSet(counted \cup hits)
    BY <1>6, <2>2, FS_Union
  <2>8. Cardinality(counted \cup hits) = Cardinality(counted) + Cardinality(hits) - Cardinality(counted \cap hits)
    BY <1>6, <2>2, FS_Union
  <2>9. Cardinality(counted \cap hits) = 0
    BY <2>6, FS_EmptySet
  <2>10. Cardinality(counted) \in Nat /\ Cardinality(hits) \in Nat
    BY <1>6, <2>2, FS_CardinalityType
  <2>11. Cardinality(counted \cup hits) = Cardinality(counted) + Cardinality(hits)
    BY <2>8, <2>9, <2>10
  <2> QED
    BY <1>3, <2>2, <2>5, <2>7, <2>11
<1> QED
  BY <1>7, <1>8, <1>9, <1>10, <1>11 DEF QueryCovers

\* An item that is delivered stays an item of the query.
LEMMA DeliversCovers ==
    ASSUME QuerySafe, QueryCovers, NEW accepted \in BOOLEAN, Delivers(accepted)
    PROVE  QueryCovers'
<1>1. query.step = "deliver" /\ query.page # << >> /\ UNCHANGED <<rows, touched>>
  BY DEF Delivers
<1>2. PICK s, t : s = query.got /\ t = query.page
  OBVIOUS
<1>3. s \in Seq(Item) /\ t \in Seq(Item) /\ t # << >>
  BY <1>1, <1>2, QueryParts
<1>4. /\ Append(s, Head(t)) \o Tail(t) = s \o t
      /\ Len(Append(s, Head(t))) = Len(s) + 1
  BY <1>3, MovesOver
<1>5. PICK got, page : got = Append(s, Head(t)) /\ page = Tail(t)
  OBVIOUS
<1>6. PICK step : step = IF ~accepted THEN "failed"
                         ELSE IF query.req.limit > 0 /\ Len(s) + 1 = query.req.limit
                         THEN "done" ELSE "deliver"
  OBVIOUS
<1>7. PICK new : new = [query EXCEPT !.page = page, !.got = got, !.step = step]
  OBVIOUS
<1>8. query' = new
  BY <1>2, <1>5, <1>6, <1>7 DEF Delivers
<1>9. /\ new.req = query.req /\ new.got = got /\ new.page = page /\ new.step = step
      /\ new.next = query.next /\ new.key = query.key /\ new.todo = query.todo
  BY <1>7, QueryParts DEF QueryState
<1>10. Items = s \o t /\ new.got \o new.page = Items
  BY <1>2, <1>4, <1>5, <1>9 DEF Items
<1>11. Items' = Items
  BY <1>8, <1>10 DEF Items
<1>12. Wanted(query.req)' = Wanted(query.req)
  BY <1>1, <1>8, <1>9 DEF Wanted
<1>13. step = "done" => LimitReached'
  BY <1>4, <1>5, <1>6, <1>8, <1>9 DEF LimitReached
<1>14. ~query.req.countOnly
  BY <1>1 DEF QueryCovers, CountOnly
<1>15. NoneMissed'
  <2>1. CASE step = "deliver"
    <3> SUFFICES ASSUME NEW i \in Wanted(query.req), Untouched(i)
                 PROVE  Coming(i)' \/ \E n \in DOMAIN Items : Items[n] = i
      BY <1>1, <1>8, <1>9, <1>11, <1>12 DEF NoneMissed, Untouched
    <3>1. Coming(i) \/ \E n \in DOMAIN Items : Items[n] = i
      BY <1>1, <1>14 DEF QueryCovers, NoneMissed
    <3> QED
      BY <1>1, <1>8, <1>9, <2>1, <3>1 DEF Coming
  <2>2. CASE step # "deliver"
    BY <1>6, <1>8, <1>9, <1>13, <2>2 DEF NoneMissed
  <2> QED
    BY <2>1, <2>2
<1>16. PageEmptied'
  BY <1>8, <1>9, <1>13 DEF PageEmptied
<1>17. KeyMatches'
  BY <1>8, <1>9 DEF QueryCovers, KeyMatches, MatchesPackage
<1>18. FromStart' /\ CountOnly'
  BY <1>6, <1>8, <1>9, <1>14 DEF FromStart, CountOnly
<1> QED
  BY <1>15, <1>16, <1>17, <1>18 DEF QueryCovers

\* The next page begins where this one ended.
LEMMA TurnsPageCovers == QuerySafe /\ QueryCovers /\ TurnsPage => QueryCovers'
<1> SUFFICES ASSUME QuerySafe, QueryCovers, TurnsPage PROVE QueryCovers'
  OBVIOUS
<1>1. query.step = "deliver" /\ query.page = << >> /\ UNCHANGED <<rows, touched>>
  BY DEF TurnsPage
<1>2. PICK new : new = [query EXCEPT
          !.step = IF query.next = NoKey THEN "done" ELSE "call", !.key = query.next]
  OBVIOUS
<1>3. /\ new.req = query.req /\ new.got = query.got /\ new.page = query.page
      /\ new.key = query.next /\ new.next = query.next /\ new.todo = query.todo
      /\ new.step = IF query.next = NoKey THEN "done" ELSE "call"
  BY <1>2, QueryParts DEF QueryState
<1>4. query' = new
  BY <1>2 DEF TurnsPage
<1>5. Items' = Items /\ Wanted(query.req)' = Wanted(query.req)
  BY <1>1, <1>3, <1>4 DEF Items, Wanted
<1>6. ~query.req.countOnly
  BY <1>1 DEF QueryCovers, CountOnly
<1>7. NoneMissed'
  <2> SUFFICES ASSUME NEW i \in Wanted(query.req), Untouched(i)
               PROVE  Coming(i)' \/ \E n \in DOMAIN Items : Items[n] = i
    BY <1>1, <1>3, <1>4, <1>5 DEF NoneMissed, Untouched
  <2>1. Coming(i) \/ \E n \in DOMAIN Items : Items[n] = i
    BY <1>1, <1>6 DEF QueryCovers, NoneMissed
  <2> QED
    BY <1>1, <1>3, <1>4, <2>1 DEF Coming
<1>8. PageEmptied'
  BY <1>1, <1>3, <1>4 DEF PageEmptied
<1>9. KeyMatches'
  BY <1>3, <1>4 DEF QueryCovers, KeyMatches, MatchesPackage
<1>10. FromStart' /\ CountOnly'
  BY <1>3, <1>4, <1>6 DEF FromStart, CountOnly
<1> QED
  BY <1>7, <1>8, <1>9, <1>10 DEF QueryCovers

\* What others change, the query is not held to any more.
LEMMA OthersCover ==
    ASSUME QuerySafe, QueryCovers, UNCHANGED <<query, cache>>, IsMap(rows', Packages, QueryRow),
           NEW p \in Packages, touched' = touched \cup {p},
           \A q \in Packages \ {p} :
               (q \in DOMAIN rows <=> q \in DOMAIN rows') /\ (q \in DOMAIN rows => rows'[q] = rows[q])
    PROVE  QueryCovers'
<1>1. Items' = Items /\ DOMAIN rows \subseteq Packages /\ DOMAIN rows' \subseteq Packages
  BY QueryParts DEF Items, IsMap
<1>2. PICK req : req = query.req
  OBVIOUS
<1>3. NoneMissed'
  <2> SUFFICES ASSUME ~query.req.countOnly, query.step # "failed",
                      ~(query.step = "done" /\ LimitReached),
                      NEW i \in Wanted(req)', Untouched(i)'
               PROVE  Coming(i) \/ \E n \in DOMAIN Items : Items[n] = i
    BY <1>1, <1>2 DEF NoneMissed, Coming, LimitReached
  <2>1. i \in Item
    <3>1. CASE req.method = "match"
      BY <1>1, <3>1 DEF Wanted, Item
    <3>2. CASE req.method # "match"
      <4>1. req.targets \subseteq Packages
        BY <1>2, <3>2, QueryParts DEF MatchReq, ReverseReq
      <4> QED
        BY <1>1, <3>2, <4>1 DEF Wanted, Item
    <3> QED
      BY <3>1, <3>2
  <2>2. {i[1], i[2]} \cap (touched \cup {p}) = {}
    BY DEF Untouched
  <2>3. \A q \in Packages \cap {i[1], i[2]} :
            (q \in DOMAIN rows <=> q \in DOMAIN rows') /\ (q \in DOMAIN rows => rows'[q] = rows[q])
    BY <2>2
  <2>4. i \in Wanted(req) <=> i \in Wanted(req)'
    BY <1>1, <2>1, <2>3, WantedStays
  <2> QED
    BY <1>2, <2>2, <2>4 DEF QueryCovers, NoneMissed, Untouched
<1>4. PageEmptied' /\ FromStart'
  BY DEF QueryCovers, PageEmptied, LimitReached, FromStart, Start
<1>5. KeyMatches'
  BY DEF QueryCovers, KeyMatches, MatchesPackage
<1>6. CountOnly'
  BY DEF QueryCovers, CountOnly
<1> QED
  BY <1>3, <1>4, <1>5, <1>6 DEF QueryCovers

QueryIInv == QuerySafe /\ QueryCovers

\* A query begins with all still to come.
LEMMA QueryInitSafe == QueryInit => QueryIInv
<1> SUFFICES ASSUME QueryInit PROVE QueryIInv
  OBVIOUS
<1>1. QuerySafe
  BY QueryStarts
<1>2. query.step = "call" /\ query.key = NoKey /\ query.next = NoKey
  BY DEF QueryInit
<1> QED
  BY <1>1, <1>2
  DEF QueryIInv, QueryCovers, NoneMissed, Coming, PageEmptied, KeyMatches, FromStart, CountOnly

\* Every step of the query, and of others, keeps both parts.
LEMMA QueryStepSafe == QueryIInv /\ [QueryNext]_queryVars => QueryIInv'
<1> SUFFICES ASSUME QuerySafe, QueryCovers, [QueryNext]_queryVars PROVE QuerySafe' /\ QueryCovers'
  BY DEF QueryIInv
<1>1. CASE QueryStep
  <2>1. CASE CallsPage
    BY <2>1, CallsPageSafe, CallsPageCovers
  <2>2. CASE \E p \in Packages : PageStops(p) \/ PageBreaks(p) \/ PageMisses(p)
    BY <2>2, PageEndsSafe, PageEndsCovers
  <2>3. CASE \E p \in Packages : PageTakes(p)
    BY <2>3, PageTakesSafe, PageTakesCovers
  <2>4. CASE PageAnswers
    BY <2>4, PageEndsSafe, PageEndsCovers
  <2>5. CASE \E accepted \in BOOLEAN : Delivers(accepted)
    BY <2>5, DeliversSafe, DeliversCovers
  <2>6. CASE TurnsPage
    BY <2>6, TurnsPageSafe, TurnsPageCovers
  <2> QED
    BY <1>1, <2>1, <2>2, <2>3, <2>4, <2>5, <2>6 DEF QueryStep
<1>2. CASE \/ \E change \in Changes : OthersStore(change[1], change[2])
           \/ \E p \in Removals : OthersRemove(p)
  <2>1. /\ UNCHANGED <<query, cache>> /\ IsMap(rows', Packages, QueryRow)
        /\ \E p \in Packages :
               /\ touched' = touched \cup {p}
               /\ \A q \in Packages \ {p} :
                      /\ q \in DOMAIN rows <=> q \in DOMAIN rows'
                      /\ q \in DOMAIN rows => rows'[q] = rows[q]
    BY <1>2, OthersTouch
  <2>2. PICK p \in Packages :
            /\ touched' = touched \cup {p}
            /\ \A q \in Packages \ {p} :
                   (q \in DOMAIN rows <=> q \in DOMAIN rows') /\ (q \in DOMAIN rows => rows'[q] = rows[q])
    BY <2>1
  <2> QED
    BY <2>1, <2>2, OthersSafe, OthersCover
<1>3. CASE UNCHANGED queryVars
  <2>1. UNCHANGED <<rows, query, cache, touched>>
    BY <1>3 DEF queryVars
  <2>2. QuerySafe'
    <3>1. QueryTypeOK' /\ (query.req \in Queries)' /\ CacheTrue' /\ LimitKept'
      BY <2>1 DEF QuerySafe, QueryTypeOK, CacheTrue, LimitKept
    <3>2. PagesFollow' /\ ItemsOnce'
      BY <2>1 DEF QuerySafe, PagesFollow, ItemsOnce, AllBefore, Items
    <3>3. ItemsWanted'
      BY <2>1 DEF QuerySafe, ItemsWanted, Items, Untouched, Wanted
    <3> QED
      BY <3>1, <3>2, <3>3 DEF QuerySafe
  <2>3. QueryCovers'
    <3>1. NoneMissed'
      BY <2>1 DEF QueryCovers, NoneMissed, Coming, LimitReached, Items, Untouched, Wanted
    <3>2. PageEmptied' /\ KeyMatches'
      BY <2>1 DEF QueryCovers, PageEmptied, LimitReached, KeyMatches, MatchesPackage
    <3>3. FromStart'
      BY <2>1 DEF QueryCovers, FromStart, Start
    <3>4. CountOnly'
      BY <2>1 DEF QueryCovers, CountOnly, Counted, Wanted
    <3> QED
      BY <3>1, <3>2, <3>3, <3>4 DEF QueryCovers
  <2> QED
    BY <2>2, <2>3
<1> QED
  BY <1>1, <1>2, <1>3 DEF QueryNext

\* A query that is done has delivered what is wanted, or counted it.
LEMMA QueryIsComplete == QueryIInv => AllDelivered
<1> SUFFICES ASSUME QuerySafe, QueryCovers, query.step = "done" PROVE AllDelivered
  BY DEF QueryIInv, AllDelivered
<1>1. CASE query.req.countOnly
  <2>1. Counted = Wanted(query.req)
    BY <1>1 DEF QueryCovers, CountOnly, Counted
  <2> QED
    BY <1>1, <2>1 DEF QueryCovers, CountOnly, AllDelivered
<1>2. CASE ~query.req.countOnly /\ LimitReached
  BY <1>2 DEF LimitReached, AllDelivered
<1>3. CASE ~query.req.countOnly /\ ~LimitReached
  <2>1. Items = query.got
    <3>1. query.page = << >> /\ query.got \in Seq(Item)
      BY <1>3, QueryParts DEF QueryCovers, PageEmptied
    <3> QED
      BY <3>1 DEF Items
  <2>2. ASSUME NEW i \in Wanted(query.req), Untouched(i) PROVE i \in Range(query.got)
    <3>1. \E n \in DOMAIN Items : Items[n] = i
      BY <1>3, <2>2 DEF QueryCovers, NoneMissed, Coming
    <3> QED
      BY <2>1, <3>1 DEF Range
  <2> QED
    BY <1>3, <2>2 DEF AllDelivered
<1> QED
  BY <1>1, <1>2, <1>3

\* The two kinds of clients: a query, or a channel, goes on, or neither does.
LEMMA ClientInitSafe == ClientInit => QueryIInv /\ NotifyIInv
  BY QueryInitSafe, NotifyInitSafe DEF ClientInit

LEMMA ClientStepSafe == QueryIInv /\ NotifyIInv /\ [ClientNext]_clientVars => QueryIInv' /\ NotifyIInv'
<1> SUFFICES ASSUME QueryIInv, NotifyIInv, [ClientNext]_clientVars PROVE QueryIInv' /\ NotifyIInv'
  OBVIOUS
<1>1. [QueryNext]_queryVars /\ [NotifyNext]_notifyVars
  BY DEF ClientNext, Enumerating, Receiving, clientVars
<1> QED
  BY <1>1, QueryStepSafe, NotifyStepSafe

\* The pages and the channel are safe in every reachable state.
THEOREM ClientAlwaysSafe == ClientSpec => [](QueryIInv /\ NotifyIInv)
  BY ClientInitSafe, ClientStepSafe, PTL DEF ClientSpec

\* The query and the channel keep their types, for any graph and any requests.
THEOREM ClientTypes == ClientSpec => []ClientTypeOK
<1>1. QueryIInv /\ NotifyIInv => ClientTypeOK
  BY QuerySuffices, NotifySuffices DEF QueryIInv, ClientTypeOK
<1> QED
  BY <1>1, ClientAlwaysSafe, PTL

\* No item is delivered twice, none that is not wanted and none past the limit,
\* whatever others store and remove between the rows and the pages, for any
\* requests and any size of a page (match.go:55-59, client.go:107-121).
THEOREM PagesDeliverOnce == ClientSpec => []DeliveredOnce
<1>1. QueryIInv => DeliveredOnce
  BY QuerySuffices DEF QueryIInv
<1> QED
  BY <1>1, ClientAlwaysSafe, PTL

\* A query that ends without an error has delivered, or counted, all that is
\* wanted of the rows nobody changed: none falls between two pages and none
\* behind the row where the listing stops early (match.go:55-59, 117).
THEOREM PagesDeliverAll == ClientSpec => []AllDelivered
  BY QueryIsComplete, ClientAlwaysSafe, PTL
=============================================================================
