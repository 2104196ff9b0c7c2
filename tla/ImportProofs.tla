---------------------------- MODULE ImportProofs ----------------------------
(***************************************************************************)
(* The algorithms over import paths and URLs: which tag ResolveRepository  *)
(* answers with, what the workers of tools/resolvedeps leave out, how the  *)
(* walk of a checkout names its packages, and what is known of a remote.   *)
(***************************************************************************)
EXTENDS LinksProofs, ResolveDeps, Resolve, Loader, Remote

-----------------------------------------------------------------------------
(* Resolving an import path reads the tokens of a page up to the first that *)
(* ends the loop.                                                          *)

\* The git tags in the head of a page.
TagsOf(page) ==
    {i \in DOMAIN page : /\ page[i].kind = "git"
                         /\ \A j \in 1 .. i : page[j].kind \notin {"body", "head-end"}}

ResolvingSteps == {"ask", "fetch", "read", "done", "failed"}
ResolvingState ==
    [package : Asked, step : ResolvingSteps, page : Sites \cup {<< >>}, read : Nat,
     target : GitTargets \cup {NoTarget} \cup {WellKnown(ip) : ip \in Asked}]

\* The tokens read so far end nothing.
ResolvingIInv ==
    /\ resolving \in ResolvingState
    /\ resolving.step \in {"ask", "fetch"} => resolving.page = << >> /\ resolving.read = 0
    /\ resolving.step = "read" =>
           /\ resolving.read <= Len(resolving.page)
           /\ \A i \in 1 .. resolving.read : ~EndsLoop(resolving.page[i])
    /\ ResolvesFirst

\* If nothing before a token ends the loop, the tags of the head begin with it,
\* or there are none.
LEMMA LoopEndsAtTag ==
    ASSUME NEW page \in Seq(Token), NEW n \in Nat, n <= Len(page),
           \A i \in 1 .. n : ~EndsLoop(page[i])
    PROVE  /\ n = Len(page) => TagsOf(page) = {}
           /\ n < Len(page) /\ page[n + 1].kind \in {"body", "head-end"} => TagsOf(page) = {}
           /\ n < Len(page) /\ page[n + 1].kind = "git" =>
                  n + 1 \in TagsOf(page) /\ \A i \in TagsOf(page) : n + 1 <= i
<1>1. DOMAIN page = 1 .. Len(page) /\ Len(page) \in Nat
  OBVIOUS
<1>2. \A i \in 1 .. n : page[i].kind \notin {"body", "head-end", "git"}
  BY DEF EndsLoop
<1>3. \A i \in TagsOf(page) : i \in 1 .. Len(page) /\ i > n
  BY <1>1, <1>2 DEF TagsOf
<1>4. ASSUME n < Len(page), page[n + 1].kind \in {"body", "head-end"} PROVE TagsOf(page) = {}
  <2>1. \A i \in TagsOf(page) : n + 1 \in 1 .. i
    BY <1>3
  <2> QED
    BY <1>4, <2>1 DEF TagsOf
<1>5. ASSUME n < Len(page), page[n + 1].kind = "git" PROVE n + 1 \in TagsOf(page)
  <2>1. \A j \in 1 .. n + 1 : j \in 1 .. n \/ j = n + 1
    OBVIOUS
  <2> QED
    BY <1>1, <1>2, <1>5, <2>1 DEF TagsOf
<1> QED
  BY <1>3, <1>4, <1>5

\* The least element of a set of numbers is the one that is chosen as such.
LEMMA LeastIsChosen ==
    ASSUME NEW S, NEW n \in Nat, n \in S, \A i \in S : i \in Nat /\ n <= i
    PROVE  (CHOOSE i \in S : \A j \in S : i <= j) = n
<1>1. \E i \in S : \A j \in S : i <= j
  OBVIOUS
<1>2. PICK least : least = CHOOSE i \in S : \A j \in S : i <= j
  OBVIOUS
<1>3. least \in S /\ \A j \in S : least <= j
  BY <1>1, <1>2
<1>4. least <= n /\ n <= least /\ least \in Nat
  BY <1>3
<1> QED
  BY <1>2, <1>4

\* What ResolvesFirst says of a page that was read to its end.
LEMMA FirstTagAnswers ==
    ASSUME NEW page, NEW step \in {"done", "failed"}, NEW target, NEW next,
           resolving' = next, next.page = page, next.step = step, next.target = target,
           IF TagsOf(page) = {} THEN step = "failed"
           ELSE \E n \in Nat : /\ n \in TagsOf(page) /\ \A i \in TagsOf(page) : i \in Nat /\ n <= i
                               /\ target = page[n].target
    PROVE  ResolvesFirst'
<1> DEFINE tags == {i \in DOMAIN page : InHead(i)'}
<1>1. tags = TagsOf(page)
  BY DEF InHead, TagsOf
<1>2. CASE TagsOf(page) = {}
  BY <1>1, <1>2 DEF ResolvesFirst
<1>3. CASE TagsOf(page) # {}
  <2>1. PICK n \in Nat : /\ n \in TagsOf(page) /\ \A i \in TagsOf(page) : i \in Nat /\ n <= i
                         /\ target = page[n].target
    BY <1>3
  <2>2. (CHOOSE i \in tags : \A j \in tags : i <= j) = n
    <3>1. n \in tags /\ \A i \in tags : i \in Nat /\ n <= i
      BY <1>1, <2>1
    <3> QED
      BY <3>1, LeastIsChosen
  <2> QED
    BY <1>1, <1>3, <2>1, <2>2 DEF ResolvesFirst
<1> QED
  BY <1>2, <1>3

LEMMA ResolvingStepSafe == ResolvingIInv /\ [ResolvingNext]_resolving => ResolvingIInv'
<1> SUFFICES ASSUME ResolvingIInv, [ResolvingNext]_resolving PROVE ResolvingIInv'
  OBVIOUS
<1>1. PICK r : r = resolving
  OBVIOUS
<1>2. r \in ResolvingState
  BY <1>1 DEF ResolvingIInv
<1>3. r.step \in {"ask", "fetch"} => r.page = << >> /\ r.read = 0
  BY <1>1 DEF ResolvingIInv
<1>4. ASSUME NEW listed, ResolvesByRule(listed)
      PROVE  ResolvingIInv'
  <2>1. r.step = "ask" /\ r.page = << >>
    BY <1>1, <1>4 DEF ResolvesByRule, ResolvingIInv
  <2>2. CASE resolving' = Fails
    <3>1. PICK next : next = [r EXCEPT !.step = "failed"]
      OBVIOUS
    <3>2. resolving' = next /\ next \in ResolvingState /\ next.step = "failed" /\ next.page = << >>
      BY <1>1, <1>2, <2>1, <2>2, <3>1 DEF Fails, ResolvingState, ResolvingSteps
    <3> QED
      BY <3>2 DEF ResolvingIInv, ResolvesFirst
  <2>3. CASE resolving' = [resolving EXCEPT !.step = "fetch"]
    <3>1. PICK next : next = [r EXCEPT !.step = "fetch"]
      OBVIOUS
    <3>2. /\ resolving' = next /\ next \in ResolvingState /\ next.step = "fetch"
          /\ next.page = << >> /\ next.read = 0
      BY <1>1, <1>2, <1>3, <2>1, <2>3, <3>1 DEF ResolvingState, ResolvingSteps
    <3> QED
      BY <3>2 DEF ResolvingIInv, ResolvesFirst
  <2>4. CASE resolving' = Answers(WellKnown(r.package))
    <3>1. PICK target : target = WellKnown(r.package)
      OBVIOUS
    <3>2. PICK next : next = [r EXCEPT !.step = "done", !.target = target]
      OBVIOUS
    <3>3. r.package \in Asked
      BY <1>2 DEF ResolvingState
    <3>4. resolving' = next /\ next \in ResolvingState /\ next.step = "done" /\ next.page = << >>
      BY <1>1, <1>2, <2>1, <2>4, <3>1, <3>2, <3>3 DEF Answers, ResolvingState, ResolvingSteps
    <3> QED
      BY <3>4 DEF ResolvingIInv, ResolvesFirst
  <2> QED
    BY <1>1, <1>4, <2>2, <2>3, <2>4 DEF ResolvesByRule
<1>5. ASSUME NEW page \in Sites, Fetches(page)
      PROVE  ResolvingIInv'
  <2>1. PICK next : next = [r EXCEPT !.step = "read", !.page = page]
    OBVIOUS
  <2>2. r.step = "fetch" /\ r.read = 0 /\ resolving' = next
    BY <1>1, <1>3, <1>5, <2>1 DEF Fetches
  <2>3. next \in ResolvingState /\ next.step = "read" /\ next.page = page /\ next.read = 0
    BY <1>2, <1>5, <2>1, <2>2 DEF ResolvingState, ResolvingSteps
  <2>4. page \in Seq(Token) /\ 0 <= Len(page)
    BY <1>5, ResolveAssumption
  <2>5. 1 .. 0 = {}
    OBVIOUS
  <2> QED
    BY <2>2, <2>3, <2>4, <2>5 DEF ResolvingIInv, ResolvesFirst
<1>6. CASE FetchFails
  <2>1. PICK next : next = [r EXCEPT !.step = "failed"]
    OBVIOUS
  <2>2. resolving' = next /\ next \in ResolvingState /\ next.step = "failed" /\ next.page = << >>
    BY <1>1, <1>2, <1>6, <2>1 DEF FetchFails, Fails, ResolvingIInv, ResolvingState, ResolvingSteps
  <2> QED
    BY <2>2 DEF ResolvingIInv, ResolvesFirst
<1>7. CASE ReadsToken
  <2>1. PICK page, n : page = r.page /\ n = r.read
    OBVIOUS
  <2>2. /\ r.step = "read" /\ page \in Seq(Token) /\ n \in Nat /\ n <= Len(page)
        /\ \A i \in 1 .. n : ~EndsLoop(page[i])
    <3>1. r.step = "read"
      BY <1>1, <1>7 DEF ReadsToken
    <3>2. page \in Sites \cup {<< >>} /\ n \in Nat
      BY <1>2, <2>1 DEF ResolvingState
    <3>3. page \in Seq(Token)
      <4>1. << >> \in Seq(Token)
        OBVIOUS
      <4>2. \A site \in Sites : site \in Seq(Token)
        BY ResolveAssumption, Zenon
      <4> QED
        BY <3>2, <4>1, <4>2, Zenon
    <3>4. n <= Len(page) /\ \A i \in 1 .. n : ~EndsLoop(page[i])
      BY <1>1, <2>1, <3>1 DEF ResolvingIInv
    <3> QED
      BY <3>1, <3>2, <3>3, <3>4
  <2>3. /\ n = Len(page) => TagsOf(page) = {}
        /\ n < Len(page) /\ page[n + 1].kind \in {"body", "head-end"} => TagsOf(page) = {}
        /\ n < Len(page) /\ page[n + 1].kind = "git" =>
               n + 1 \in TagsOf(page) /\ \A i \in TagsOf(page) : n + 1 <= i
    BY <2>2, LoopEndsAtTag
  <2>4. ASSUME TagsOf(page) = {}, resolving' = Fails PROVE ResolvingIInv'
    <3>1. PICK next : next = [r EXCEPT !.step = "failed"]
      OBVIOUS
    <3>2. /\ resolving' = next /\ next \in ResolvingState /\ next.step = "failed" /\ next.page = page
      BY <1>1, <1>2, <2>1, <2>4, <3>1 DEF Fails, ResolvingState, ResolvingSteps
    <3>3. ResolvesFirst'
      BY <2>4, <3>2, FirstTagAnswers
    <3> QED
      BY <3>2, <3>3 DEF ResolvingIInv
  <2>5. CASE n = Len(page)
    BY <1>1, <1>7, <2>1, <2>3, <2>4, <2>5 DEF ReadsToken
  <2>6. CASE n # Len(page)
    <3>1. n < Len(page) /\ n + 1 \in DOMAIN page /\ Len(page) \in Nat
      BY <2>2, <2>6
    <3>2. PICK token : token = page[n + 1]
      OBVIOUS
    <3>3. token \in Token
      BY <2>2, <3>1, <3>2
    <3>4. CASE ~EndsLoop(token)
      <4>1. PICK next : next = [r EXCEPT !.read = n + 1]
        OBVIOUS
      <4>2. resolving' = next
        BY <1>1, <1>7, <2>1, <2>6, <3>2, <3>4, <4>1 DEF ReadsToken
      <4>3. next \in ResolvingState /\ next.step = "read" /\ next.page = page /\ next.read = n + 1
        BY <1>2, <2>1, <2>2, <4>1 DEF ResolvingState
      <4>4. n + 1 <= Len(page) /\ \A i \in 1 .. n + 1 : i \in 1 .. n \/ i = n + 1
        BY <2>2, <3>1
      <4>5. \A i \in 1 .. n + 1 : ~EndsLoop(page[i])
        BY <2>2, <3>2, <3>4, <4>4
      <4> QED
        BY <4>2, <4>3, <4>4, <4>5 DEF ResolvingIInv, ResolvesFirst
    <3>5. CASE EndsLoop(token) /\ token.kind # "git"
      <4>1. token.kind \in {"body", "head-end"}
        BY <3>5 DEF EndsLoop
      <4>2. resolving' = Fails
        BY <1>1, <1>7, <2>1, <2>6, <3>2, <3>5 DEF ReadsToken
      <4> QED
        BY <2>3, <2>4, <3>1, <3>2, <4>1, <4>2
    <3>6. CASE token.kind = "git"
      <4>1. PICK target : target = token.target
        OBVIOUS
      <4>2. PICK next : next = [r EXCEPT !.step = "done", !.target = target]
        OBVIOUS
      <4>3. resolving' = next
        BY <1>1, <1>7, <2>1, <2>6, <3>2, <3>6, <4>1, <4>2 DEF ReadsToken, EndsLoop, Answers
      <4>4. target \in GitTargets
        BY <3>3, <3>6, <4>1 DEF Token
      <4>5. next \in ResolvingState /\ next.step = "done" /\ next.page = page /\ next.target = target
        BY <1>2, <2>1, <4>2, <4>4 DEF ResolvingState, ResolvingSteps
      <4>6. n + 1 \in TagsOf(page) /\ \A i \in TagsOf(page) : i \in Nat /\ n + 1 <= i
        BY <2>3, <3>1, <3>2, <3>6 DEF TagsOf
      <4>7. n + 1 \in Nat /\ target = page[n + 1].target
        BY <2>2, <3>2, <4>1
      <4>8. ResolvesFirst'
        BY <4>3, <4>5, <4>6, <4>7, FirstTagAnswers
      <4> QED
        BY <4>3, <4>5, <4>8 DEF ResolvingIInv
    <3> QED
      BY <3>4, <3>5, <3>6
  <2> QED
    BY <2>5, <2>6
<1>8. CASE UNCHANGED resolving
  BY <1>8 DEF ResolvingIInv, ResolvesFirst, InHead
<1> QED
  BY <1>4, <1>5, <1>6, <1>7, <1>8 DEF ResolvingNext

\* Whatever pages the hosts serve, the answer is the first git tag of the head
\* (resolve.go:70-104).
THEOREM FirstTagResolves == ResolvingSpec => []ResolvesFirst
<1>1. ResolvingInit => ResolvingIInv
  <2> SUFFICES ASSUME NEW ip \in Asked, resolving = ResolvingStart(ip) PROVE ResolvingIInv
    BY DEF ResolvingInit, ResolvingStarts
  <2>1. resolving \in ResolvingState
    BY DEF ResolvingStart, ResolvingState, ResolvingSteps
  <2> QED
    BY <2>1 DEF ResolvingStart, ResolvingIInv, ResolvesFirst
<1>2. ResolvingIInv => ResolvesFirst
  BY DEF ResolvingIInv
<1> QED
  BY <1>1, <1>2, ResolvingStepSafe, PTL DEF ResolvingSpec

-----------------------------------------------------------------------------
(* What the workers of tools/resolvedeps leave out is covered by what they *)
(* report, for any inputs, answers, failures and number of workers.        *)

Steps == {"queued", "asks", "checks", "skipped", "printed", "known", "unknown", "failed"}

AnyAnswer == {NoAnswer} \cup UNION {AnswersTo[p] : p \in Inputs}

ResolverState ==
    [filterKnown : BOOLEAN, step : [Inputs -> Steps], answer : [Inputs -> AnyAnswer],
     pfxs : SUBSET {a.prefix : a \in AnyAnswer},
     printed : SUBSET {a.repository : a \in AnyAnswer}]

ResolverTypeOK == resolver \in ResolverState

\* q was resolved.
Resolved(q) == resolver.step[q] \in {"checks", "printed", "known", "unknown"}

\* A prefix is shared only by a package that was resolved.
PrefixesResolved == \A pfx \in resolver.pfxs : \E q \in Inputs :
    Resolved(q) /\ resolver.answer[q].prefix = pfx

PrintedIsPrinted == \A p \in Inputs :
    resolver.step[p] = "printed" => resolver.answer[p].repository \in resolver.printed

SkippedBegin == \A p \in Inputs : resolver.step[p] = "skipped" => Seen(p)

ResolverIInv == ResolverTypeOK /\ PrefixesResolved /\ PrintedIsPrinted /\ SkippedBegin

LEMMA ResolverStarts_IInv == ResolverInit => ResolverIInv
<1> SUFFICES ASSUME NEW filterKnown \in BOOLEAN, resolver = ResolverStart(filterKnown)
             PROVE  ResolverIInv
  BY DEF ResolverInit, ResolverStarts
<1>1. ResolverTypeOK
  BY DEF ResolverStart, ResolverTypeOK, ResolverState, Steps, AnyAnswer
<1> QED
  BY <1>1 DEF ResolverStart, ResolverIInv, PrefixesResolved, PrintedIsPrinted, SkippedBegin

\* A step of p that shares no prefix and gets no answer.
LEMMA QuietStep ==
    ASSUME ResolverIInv, ResolverTypeOK', NEW p \in Inputs, NEW s \in Steps,
           resolver'.step = [resolver.step EXCEPT ![p] = s],
           resolver'.answer = resolver.answer, resolver'.pfxs = resolver.pfxs,
           resolver.printed \subseteq resolver'.printed,
           Resolved(p) => s \in {"checks", "printed", "known", "unknown"},
           s = "printed" => resolver.answer[p].repository \in resolver'.printed,
           s = "skipped" => Seen(p)
    PROVE  ResolverIInv'
<1> USE DEF ResolverIInv
<1>1. /\ resolver'.step[p] = s
      /\ \A q \in Inputs \ {p} : resolver'.step[q] = resolver.step[q]
  BY DEF ResolverTypeOK, ResolverState
<1>2. PrefixesResolved'
  BY <1>1 DEF PrefixesResolved, Resolved
<1>3. PrintedIsPrinted'
  BY <1>1 DEF PrintedIsPrinted
<1>4. SkippedBegin'
  BY <1>1 DEF SkippedBegin, Seen
<1> QED
  BY <1>2, <1>3, <1>4

\* A step of p that only changes what p does.
LEMMA OnlyStep ==
    ASSUME ResolverTypeOK, NEW p \in Inputs, NEW s \in Steps,
           resolver' = [resolver EXCEPT !.step[p] = s]
    PROVE  /\ ResolverTypeOK'
           /\ resolver'.step = [resolver.step EXCEPT ![p] = s]
           /\ resolver'.answer = resolver.answer /\ resolver'.pfxs = resolver.pfxs
           /\ resolver'.printed = resolver.printed
BY DEF ResolverTypeOK, ResolverState

LEMMA TakeKeeps ==
    ASSUME ResolverIInv, NEW p \in Inputs, Takes(p)
    PROVE  ResolverIInv'
<1>1. PICK s \in {"skipped", "asks"} :
          /\ s = (IF Seen(p) THEN "skipped" ELSE "asks")
          /\ resolver' = [resolver EXCEPT !.step[p] = s] /\ resolver.step[p] = "queued"
  BY DEF Takes, At
<1>2. s \in Steps /\ ~Resolved(p)
  BY <1>1 DEF Steps, Resolved
<1> QED
  BY <1>1, <1>2, OnlyStep, QuietStep DEF ResolverIInv

LEMMA FailureKeeps ==
    ASSUME ResolverIInv, NEW p \in Inputs, ResolveFails(p) \/ StatusFails(p)
    PROVE  ResolverIInv'
<1>1. PICK s \in {"failed", "unknown"} :
          /\ resolver' = [resolver EXCEPT !.step[p] = s]
          /\ resolver.step[p] = "asks" \/ s = "unknown"
  BY DEF ResolveFails, StatusFails, At
<1>2. s \in Steps /\ (Resolved(p) => s = "unknown")
  BY <1>1 DEF Steps, Resolved
<1> QED
  BY <1>1, <1>2, OnlyStep, QuietStep DEF ResolverIInv

LEMMA StatusKeeps ==
    ASSUME ResolverIInv, NEW p \in Inputs, StatusAnswers(p)
    PROVE  ResolverIInv'
<1>1. CASE resolver.answer[p].repository \in InDatabase
  <2>1. resolver' = [resolver EXCEPT !.step[p] = "known"]
    BY <1>1 DEF StatusAnswers
  <2>2. "known" \in Steps
    BY DEF Steps
  <2> QED
    BY <2>1, <2>2, OnlyStep, QuietStep DEF ResolverIInv
<1>2. CASE resolver.answer[p].repository \notin InDatabase
  <2>1. resolver' = [resolver EXCEPT !.step[p] = "printed",
                        !.printed = @ \cup {resolver.answer[p].repository}]
    BY <1>2 DEF StatusAnswers
  <2>2. "printed" \in Steps
    BY DEF Steps
  <2>3. resolver.answer[p].repository \in {a.repository : a \in AnyAnswer}
    BY DEF ResolverIInv, ResolverTypeOK, ResolverState
  <2>4. /\ ResolverTypeOK'
        /\ resolver'.step = [resolver.step EXCEPT ![p] = "printed"]
        /\ resolver'.answer = resolver.answer /\ resolver'.pfxs = resolver.pfxs
        /\ resolver'.printed = resolver.printed \cup {resolver.answer[p].repository}
    BY <2>1, <2>2, <2>3 DEF ResolverIInv, ResolverTypeOK, ResolverState
  <2> QED
    BY <2>2, <2>4, QuietStep
<1> QED
  BY <1>1, <1>2

LEMMA ResolveKeeps ==
    ASSUME ResolverIInv, NEW p \in Inputs, NEW answer \in AnswersTo[p], Resolves(p, answer)
    PROVE  ResolverIInv'
<1>1. PICK s \in {"checks", "printed"}, print \in SUBSET {answer.repository} :
          /\ resolver' = [resolver EXCEPT !.pfxs = @ \cup {answer.prefix},
                 !.answer[p] = answer, !.step[p] = s, !.printed = @ \cup print]
          /\ s = "printed" => answer.repository \in print
          /\ resolver.step[p] = "asks"
  <2>1. resolver \in ResolverState /\ At(p, "asks")
    BY DEF ResolverIInv, ResolverTypeOK, Resolves
  <2>2. CASE resolver.filterKnown
    <3>1. resolver' = [resolver EXCEPT !.pfxs = @ \cup {answer.prefix},
                 !.answer[p] = answer, !.step[p] = "checks", !.printed = @ \cup {}]
      BY <2>1, <2>2 DEF Resolves, ResolverState
    <3>2. {} \in SUBSET {answer.repository} /\ "checks" \in {"checks", "printed"}
      OBVIOUS
    <3>3. resolver.step[p] = "asks" /\ "checks" # "printed"
      BY <2>1 DEF At
    <3> QED
      BY <3>1, <3>2, <3>3, Zenon
  <2>3. CASE ~resolver.filterKnown
    BY <2>1, <2>3 DEF Resolves, At
  <2> QED
    BY <2>2, <2>3
<1>2. /\ answer \in AnyAnswer /\ s \in Steps /\ Resolved(p)' /\ ~Resolved(p)
      /\ answer.prefix \in {a.prefix : a \in AnyAnswer}
      /\ print \subseteq {a.repository : a \in AnyAnswer}
  BY <1>1 DEF AnyAnswer, Steps, Resolved, ResolverIInv, ResolverTypeOK, ResolverState
<1>3. /\ ResolverTypeOK'
      /\ resolver'.step = [resolver.step EXCEPT ![p] = s]
      /\ resolver'.answer = [resolver.answer EXCEPT ![p] = answer]
      /\ resolver'.pfxs = resolver.pfxs \cup {answer.prefix}
      /\ resolver'.printed = resolver.printed \cup print
  BY <1>1, <1>2 DEF ResolverIInv, ResolverTypeOK, ResolverState
<1>4. /\ resolver'.step[p] = s /\ resolver'.answer[p] = answer
      /\ \A q \in Inputs \ {p} : /\ resolver'.step[q] = resolver.step[q]
                                 /\ resolver'.answer[q] = resolver.answer[q]
  BY <1>3 DEF ResolverIInv, ResolverTypeOK, ResolverState
<1>5. PrefixesResolved'
  BY <1>2, <1>3, <1>4 DEF ResolverIInv, PrefixesResolved, Resolved
<1>6. PrintedIsPrinted'
  BY <1>1, <1>3, <1>4 DEF ResolverIInv, PrintedIsPrinted
<1>7. SkippedBegin'
  BY <1>1, <1>3, <1>4 DEF ResolverIInv, SkippedBegin, Seen
<1> QED
  BY <1>3, <1>5, <1>6, <1>7 DEF ResolverIInv

\* At the end, every prefix that is shared belongs to a package accounted for.
LEMMA EndCovers == ResolverIInv => SkipsCovered
<1> SUFFICES ASSUME ResolverIInv, Ended, NEW p \in Inputs
             PROVE  \/ Accounted(p) \/ resolver.step[p] = "failed"
                    \/ resolver.step[p] = "skipped" /\ \E q \in Inputs :
                           Accounted(q) /\ HasPrefix(p, resolver.answer[q].prefix)
  BY DEF SkipsCovered
<1>1. \A q \in Inputs : Resolved(q) => Accounted(q)
  BY DEF Ended, Resolved, Accounted, ResolverIInv, PrintedIsPrinted
<1>2. resolver.step[p] \in Steps
  BY DEF ResolverIInv, ResolverTypeOK, ResolverState
<1>3. CASE resolver.step[p] = "skipped"
  <2>1. PICK pfx \in resolver.pfxs : HasPrefix(p, pfx)
    BY <1>3 DEF ResolverIInv, SkippedBegin, Seen
  <2>2. PICK q \in Inputs : Resolved(q) /\ resolver.answer[q].prefix = pfx
    BY DEF ResolverIInv, PrefixesResolved
  <2> QED
    BY <1>1, <1>3, <2>1, <2>2
<1>4. CASE resolver.step[p] # "skipped"
  BY <1>1, <1>2, <1>4 DEF Steps, Ended, Resolved
<1> QED
  BY <1>3, <1>4

\* Whatever the workers, inputs, answers and failures, a package left out begins
\* like one whose repository is accounted for (resolvedeps.go:52-96).
THEOREM LeftOutIsCovered == ResolverSpec => []SkipsCovered
<1>1. ResolverInit => ResolverIInv
  BY ResolverStarts_IInv
<1>2. ResolverIInv /\ [ResolverNext]_resolver => ResolverIInv'
  <2> SUFFICES ASSUME ResolverIInv, [ResolverNext]_resolver
               PROVE  ResolverIInv'
    OBVIOUS
  <2>1. ASSUME UNCHANGED resolver
        PROVE  ResolverIInv'
    BY <2>1 DEF ResolverIInv, ResolverTypeOK, PrefixesResolved, Resolved, PrintedIsPrinted,
                SkippedBegin, Seen
  <2> QED
    BY <2>1, TakeKeeps, FailureKeeps, StatusKeeps, ResolveKeeps DEF ResolverNext
<1> QED
  BY <1>1, <1>2, EndCovers, PTL DEF ResolverSpec

-----------------------------------------------------------------------------
(* The walk of local.Load names every package by the labels above it, for   *)
(* any tree of directories.                                                *)

\* A prefix agrees name by name.
LEMMA PrefixNames ==
    ASSUME NEW s \in Seq(Int), NEW t \in Seq(Int)
    PROVE  IsPrefix(s, t) <=> Len(s) <= Len(t) /\ \A i \in 1 .. Len(s) : s[i] = t[i]
<1>1. SubSeq(s, 1, Len(s)) = s
  BY SubSeqFull
<1>2. ASSUME Len(s) <= Len(t)
      PROVE  SubSeq(t, 1, Len(s)) \in Seq(Int) /\ Len(SubSeq(t, 1, Len(s))) = Len(s)
             /\ \A i \in 1 .. Len(s) : SubSeq(t, 1, Len(s))[i] = t[i]
  <2>1. CASE Len(s) = 0
    <3>1. SubSeq(t, 1, 0) = << >>
      BY SubSeqEmpty
    <3> QED
      BY <2>1, <3>1
  <2>2. CASE Len(s) > 0
    BY <1>2, <2>2, SubSeqProperties
  <2> QED
    BY <2>1, <2>2
<1>3. ASSUME Len(s) <= Len(t), \A i \in 1 .. Len(s) : s[i] = t[i]
      PROVE  s = SubSeq(t, 1, Len(s))
  <2> DEFINE u == SubSeq(t, 1, Len(s))
  <2>1. u \in Seq(Int) /\ Len(u) = Len(s) /\ \A i \in 1 .. Len(s) : u[i] = s[i]
    BY <1>2, <1>3
  <2> HIDE DEF u
  <2> QED
    BY <2>1 DEF u
<1> QED
  BY <1>1, <1>2, <1>3 DEF IsPrefix

LEMMA PrefixFacts ==
    ASSUME NEW s \in Seq(Int), NEW t \in Seq(Int), IsPrefix(s, t)
    PROVE  /\ Len(s) = Len(t) => s = t
           /\ IsPrefix(t, s) => s = t
           /\ \A u \in Seq(Int) : IsPrefix(t, u) => IsPrefix(s, u)
<1>1. Len(s) <= Len(t) /\ \A i \in 1 .. Len(s) : s[i] = t[i]
  BY PrefixNames
<1>2. Len(s) = Len(t) => s = t
  BY <1>1
<1>3. IsPrefix(t, s) => Len(t) <= Len(s)
  BY DEF IsPrefix
<1>4. ASSUME NEW u \in Seq(Int), IsPrefix(t, u) PROVE IsPrefix(s, u)
  <2>1. Len(t) <= Len(u) /\ \A i \in 1 .. Len(t) : t[i] = u[i]
    BY <1>4, PrefixNames
  <2> QED
    BY <1>1, <2>1, PrefixNames
<1> QED
  BY <1>1, <1>2, <1>3, <1>4

LEMMA UptoPrefix ==
    ASSUME NEW t \in Seq(Int), NEW n \in 0 .. Len(t)
    PROVE  /\ Upto(t, n) \in Seq(Int) /\ Len(Upto(t, n)) = n /\ IsPrefix(Upto(t, n), t)
           /\ n > 0 => Upto(t, n)[n] = t[n]
<1>1. CASE n = 0
  <2>1. Upto(t, 0) = << >>
    BY SubSeqEmpty DEF Upto
  <2>2. << >> \in Seq(Int) /\ Len(<< >>) = 0
    BY EmptySeq
  <2>3. IsPrefix(<< >>, t)
    <3>1. SubSeq(<< >>, 1, 0) = << >>
      BY SubSeqEmpty
    <3>2. 0 <= Len(t)
      OBVIOUS
    <3> QED
      BY <2>1, <2>2, <3>1, <3>2 DEF IsPrefix, Upto
  <2>4. PICK u : u = << >>
    OBVIOUS
  <2>5. Upto(t, n) = u /\ u \in Seq(Int) /\ Len(u) = n /\ IsPrefix(u, t) /\ ~ n > 0
    BY <1>1, <2>1, <2>2, <2>3, <2>4
  <2> QED
    BY <2>5
<1>2. CASE n > 0
  <2>1. Upto(t, n) \in Seq(Int) /\ Len(Upto(t, n)) = n /\ \A i \in 1 .. n : Upto(t, n)[i] = t[i]
    BY <1>2, SubSeqProperties DEF Upto
  <2> QED
    BY <1>2, <2>1, PrefixNames
<1> QED
  BY <1>1, <1>2

\* In the walk, a directory does not come before one it lies below.
LEMMA WalksDown ==
    ASSUME NEW s \in Seq(Int), NEW t \in Seq(Int), IsPrefix(s, t), WalksBefore(t, s)
    PROVE  s = t
<1>1. CASE IsPrefix(t, s)
  BY <1>1, PrefixFacts
<1>2. ASSUME NEW i \in DOMAIN t \cap DOMAIN s, t[i] < s[i] PROVE FALSE
  <2>1. i \in 1 .. Len(s) /\ s[i] = t[i] /\ t[i] \in Int
    BY <1>2, PrefixNames
  <2> QED
    BY <1>2, <2>1
<1> QED
  BY <1>1, <1>2 DEF WalksBefore

LEMMA PastTyped ==
    ASSUME NEW t \in Seq(Int), NEW n \in 0 .. Len(t)
    PROVE  Past(t, n) \in Seq(Int)
<1>1. CASE n = Len(t)
  BY <1>1, SubSeqEmpty DEF Past
<1>2. CASE n < Len(t)
  BY <1>2, SubSeqProperties DEF Past
<1> QED
  BY <1>1, <1>2

\* Of the directories above one, some are longest.
LEMMA SomeNearest ==
    ASSUME NEW dir \in Seq(Int), NEW S, S # {}, \A d \in S : d \in Seq(Int) /\ IsPrefix(d, dir)
    PROVE  \E d \in S : \A e \in S : Len(e) <= Len(d)
<1> DEFINE T == {Len(dir) - Len(d) : d \in S}
<1>1. \A d \in S : Len(d) \in Nat /\ Len(d) <= Len(dir) /\ Len(dir) \in Nat
  BY DEF IsPrefix
<1>2. T \subseteq Nat /\ T # {}
  BY <1>1
<1>3. PICK n \in T : \A m \in T : n <= m
  <2> HIDE DEF T
  <2> QED
    BY <1>2, LeastNumber
<1>4. PICK d \in S : n = Len(dir) - Len(d)
  BY <1>3
<1>5. \A e \in S : Len(dir) - Len(d) <= Len(dir) - Len(e)
  BY <1>3, <1>4
<1> QED
  BY <1>1, <1>5

-----------------------------------------------------------------------------
Package == [dir : Seq(Int), importPath : Seq(Int)]
Dirs == DOMAIN loader.checkout
PackageDirs(packages) == {packages[i].dir : i \in DOMAIN packages}

LoaderState ==
    [checkout : Checkouts, opts : LoadOptions, step : {"walk", "done", "failed"},
     todo : SUBSET Seq(Int), cmap : UNION {[S -> Seq(Int)] : S \in SUBSET Seq(Int)},
     packages : Seq(Package)]

\* What a special directory holds is not walked.
BelowSkipped ==
    \A d, e \in Dirs : IsPrefix(d, e) /\ IsNonPackage(d) /\ d \notin loader.todo => e \notin loader.todo

\* The labels in the map are those the directories walked so far declare.
LabelsDeclared ==
    loader.opts.useImportComments =>
        \A d \in Dirs \ loader.todo : Entered(d) =>
            IF Declares(d) = NoPath THEN d \notin DOMAIN loader.cmap
            ELSE d \in DOMAIN loader.cmap /\ loader.cmap[d] = Declares(d)

Recorded ==
    /\ PackageDirs(loader.packages) =
           {d \in Dirs \ loader.todo : Entered(d) /\ loader.checkout[d].hasGo}
    /\ IsFiniteSet(PackageDirs(loader.packages))
    /\ Cardinality(PackageDirs(loader.packages)) = Len(loader.packages)
    /\ \A i \in DOMAIN loader.packages : Named(loader.packages[i])

LoaderIInv ==
    /\ loader \in LoaderState
    /\ loader.todo \subseteq Dirs /\ DOMAIN loader.cmap \subseteq Dirs \ loader.todo
    /\ BelowSkipped /\ LabelsDeclared /\ Recorded
    /\ loader.step = "done" => loader.todo = {}

LEMMA DirsTyped ==
    ASSUME loader \in LoaderState
    PROVE  \A d \in Dirs : /\ d \in Seq(Int) /\ \A n \in 0 .. Len(d) : Upto(d, n) \in Dirs
                           /\ loader.checkout[d] \in [module : Seq(Int), hasGo : BOOLEAN, comment : Seq(Int)]
                           /\ Declares(d) \in Seq(Int)
<1>1. loader.checkout \in Checkouts
  BY DEF LoaderState
<1>2. \A d \in Dirs : /\ d \in Seq(Int) /\ \A n \in 0 .. Len(d) : Upto(d, n) \in Dirs
                      /\ loader.checkout[d] \in [module : Seq(Int), hasGo : BOOLEAN, comment : Seq(Int)]
  BY <1>1, LoaderAssumption DEF Dirs
<1> QED
  BY <1>2 DEF Declares, NoPath

\* A directory is entered if all above it were, and are not special.
LEMMA EntersBelow ==
    ASSUME NEW s \in Seq(Int), NEW t \in Seq(Int), IsPrefix(s, t)
    PROVE  /\ Entered(t) => Entered(s)
           /\ IsNonPackage(s) => ~Entered(t)
<1>1. Len(s) <= Len(t) /\ \A i \in 1 .. Len(s) : s[i] = t[i]
  BY PrefixNames
<1>2. DOMAIN s = 1 .. Len(s) /\ DOMAIN t = 1 .. Len(t) /\ Len(s) \in Nat /\ Len(t) \in Nat
  OBVIOUS
<1>3. IsNonPackage(s) => Len(s) \in 1 .. Len(s) /\ s[Len(s)] \in NonPackages
  BY <1>2, EmptySeq DEF IsNonPackage, Last, NoPath
<1> QED
  BY <1>1, <1>2, <1>3 DEF Entered

\* The next directory of the walk, if it is not special, is entered, and all
\* above it are done.
LEMMA NextEntered ==
    ASSUME LoaderIInv, NEW dir \in Dirs, IsNext(dir), ~IsNonPackage(dir)
    PROVE  /\ Entered(dir)
           /\ \A d \in Dirs : IsPrefix(d, dir) /\ d # dir => d \notin loader.todo
<1>1. loader \in LoaderState /\ dir \in Seq(Int) /\ dir \in loader.todo
  BY DirsTyped DEF LoaderIInv, IsNext
<1>2. ASSUME NEW d \in Dirs, IsPrefix(d, dir), d # dir PROVE d \notin loader.todo
  BY <1>1, <1>2, DirsTyped, WalksDown DEF IsNext
<1>3. ASSUME NEW i \in DOMAIN dir, dir[i] \in NonPackages PROVE FALSE
  <2> DEFINE p == Upto(dir, i)
  <2>1. i \in 1 .. Len(dir) /\ i \in 0 .. Len(dir) /\ i > 0
    BY <1>1
  <2>2. p \in Dirs /\ p \in Seq(Int) /\ Len(p) = i /\ IsPrefix(p, dir) /\ p[i] = dir[i]
    BY <1>1, <2>1, DirsTyped, UptoPrefix
  <2> HIDE DEF p
  <2>3. p # NoPath
    BY <2>1, <2>2, EmptySeq DEF NoPath
  <2>4. IsNonPackage(p)
    BY <1>3, <2>2, <2>3 DEF IsNonPackage, Last
  <2>5. p # dir
    BY <2>4
  <2>6. p \notin loader.todo
    BY <1>2, <2>2, <2>5
  <2> QED
    BY <1>1, <2>2, <2>4, <2>6 DEF LoaderIInv, BelowSkipped
<1> QED
  BY <1>2, <1>3 DEF Entered

\* What is special was not walked, and what is entered is not below it.
LEMMA SkipsDirSafe ==
    ASSUME LoaderIInv, NEW dir \in Dirs, SkipsDir(dir)
    PROVE  LoaderIInv'
<1> DEFINE todo == {d \in loader.todo : ~IsPrefix(dir, d)}
<1>1. loader \in LoaderState /\ loader' = [loader EXCEPT !.todo = todo] /\ loader.step = "walk"
      /\ IsNonPackage(dir)
  BY DEF LoaderIInv, SkipsDir
<1>2. /\ loader' \in LoaderState /\ loader'.todo = todo /\ loader'.checkout = loader.checkout
      /\ loader'.opts = loader.opts /\ loader'.cmap = loader.cmap /\ loader'.step = loader.step
      /\ loader'.packages = loader.packages
  BY <1>1 DEF LoaderState
<1>3. todo \subseteq loader.todo /\ \A d \in loader.todo \ todo : IsPrefix(dir, d) /\ ~Entered(d)
  <2>1. \A d \in loader.todo : dir \in Seq(Int) /\ d \in Seq(Int)
    BY <1>1, DirsTyped DEF LoaderState
  <2> QED
    BY <1>1, <2>1, EntersBelow
<1>4. BelowSkipped'
  <2> SUFFICES ASSUME NEW d \in Dirs, NEW e \in Dirs, IsPrefix(d, e), IsNonPackage(d), d \notin todo
               PROVE  e \notin todo
    BY <1>2 DEF BelowSkipped, Dirs, IsNonPackage
  <2>1. CASE d \notin loader.todo
    BY <1>3, <2>1 DEF LoaderIInv, BelowSkipped
  <2>2. CASE d \in loader.todo
    <3>1. IsPrefix(dir, e)
      BY <1>1, <1>3, <2>2, DirsTyped, PrefixFacts
    <3> QED
      BY <3>1
  <2> QED
    BY <2>1, <2>2
<1> HIDE DEF todo
<1>5. \A d \in Dirs : Entered(d) => (d \in todo <=> d \in loader.todo)
  BY <1>3
<1>6. \A d \in Dirs : Declares(d)' = Declares(d)
  BY <1>2 DEF Declares
<1>7. LabelsDeclared'
  BY <1>2, <1>5, <1>6 DEF LoaderIInv, LabelsDeclared, Dirs, Entered, Declares
<1>8. Recorded'
  <2>1. {d \in Dirs \ todo : Entered(d) /\ loader.checkout[d].hasGo}
        = {d \in Dirs \ loader.todo : Entered(d) /\ loader.checkout[d].hasGo}
    BY <1>5
  <2>2. PackageDirs(loader.packages)' = PackageDirs(loader.packages)
    BY <1>2 DEF PackageDirs
  <2>3. PackageDirs(loader.packages)' =
            {d \in Dirs \ loader.todo : Entered(d) /\ loader.checkout[d].hasGo}'
    BY <1>2, <2>1, <2>2 DEF LoaderIInv, Recorded, Dirs, Entered
  <2>4. \A i \in DOMAIN loader'.packages : Named(loader.packages[i])'
    BY <1>2 DEF LoaderIInv, Recorded, Named, NamedBy, Declares, TrimPrefix
  <2> QED
    BY <1>2, <2>2, <2>3, <2>4 DEF LoaderIInv, Recorded
<1>9. DOMAIN loader'.cmap \subseteq Dirs' \ loader'.todo /\ loader'.todo \subseteq Dirs'
  BY <1>2, <1>3 DEF LoaderIInv, Dirs
<1> QED
  BY <1>1, <1>2, <1>4, <1>7, <1>8, <1>9 DEF LoaderIInv

\* The label found for a directory is that of the nearest one that declares a path.
LEMMA LabelFound ==
    ASSUME loader \in LoaderState, NEW dir \in Dirs, NEW cmap,
           \A d \in Dirs : IsPrefix(d, dir) =>
               IF Declares(d) = NoPath THEN d \notin DOMAIN cmap
               ELSE d \in DOMAIN cmap /\ cmap[d] = Declares(d),
           DOMAIN cmap \subseteq Dirs
    PROVE  /\ FindLabel(cmap, dir) \in Seq(Int)
           /\ \/ FindLabel(cmap, dir) = NoPath /\ \A d \in Dirs : ~NamedBy(dir, d)
              \/ /\ FindLabel(cmap, dir) # NoPath /\ \E d \in Dirs : NamedBy(dir, d)
                 /\ \A d \in Dirs : NamedBy(dir, d) =>
                        FindLabel(cmap, dir) = Declares(d) \o Past(dir, Len(d))
<1> DEFINE above == {d \in DOMAIN cmap : IsPrefix(d, dir)}
           Nearest(d) == \A e \in above : Len(e) <= Len(d)
<1>1. \A d \in Dirs : d \in above <=> IsPrefix(d, dir) /\ Declares(d) # NoPath
  OBVIOUS
<1>2. \A d \in above : d \in Dirs /\ IsPrefix(d, dir) /\ cmap[d] = Declares(d)
  OBVIOUS
<1>3. dir \in Seq(Int) /\ \A d \in Dirs : d \in Seq(Int) /\ Declares(d) \in Seq(Int)
  BY DirsTyped
<1>4. \A d \in Dirs : NamedBy(dir, d) <=> d \in above /\ Nearest(d)
  <2> TAKE d \in Dirs
  <2>1. \A e \in Dirs : Len(e) \in Nat
    BY <1>3
  <2>2. NamedBy(dir, d) <=> /\ d \in above
                            /\ \A e \in Dirs : IsPrefix(e, dir) /\ Len(e) > Len(d) => Declares(e) = NoPath
    BY <1>1 DEF NamedBy, Dirs
  <2>3. (\A e \in Dirs : IsPrefix(e, dir) /\ Len(e) > Len(d) => Declares(e) = NoPath) <=> Nearest(d)
    BY <1>1, <1>2, <2>1
  <2> QED
    BY <2>2, <2>3
<1>5. CASE above = {}
  <2>1. FindLabel(cmap, dir) = NoPath
    BY <1>5 DEF FindLabel
  <2>2. NoPath \in Seq(Int)
    BY EmptySeq DEF NoPath
  <2> QED
    BY <1>4, <1>5, <2>1, <2>2
<1>6. CASE above # {}
  <2>1. \E d \in above : Nearest(d)
    <3> HIDE DEF above
    <3> QED
      BY <1>2, <1>3, <1>6, SomeNearest
  <2>2. PICK n : n = CHOOSE d \in above : \A e \in above : Len(e) <= Len(d)
    OBVIOUS
  <2>3. n \in above /\ Nearest(n)
    BY <2>1, <2>2
  <2>4. FindLabel(cmap, dir) = cmap[n] \o Past(dir, Len(n))
    BY <1>6, <2>2 DEF FindLabel
  <2>5. n \in Dirs /\ IsPrefix(n, dir) /\ cmap[n] = Declares(n) /\ Declares(n) # NoPath
    BY <1>1, <1>2, <2>3
  <2>6. \A d \in above : Nearest(d) => d = n
    <3> SUFFICES ASSUME NEW d \in above, Nearest(d) PROVE d = n
      OBVIOUS
    <3>1. Len(d) = Len(n)
      BY <1>2, <1>3, <2>3
    <3>2. \A i \in 1 .. Len(n) : d[i] = n[i]
      BY <1>2, <1>3, <2>5, <3>1, PrefixNames
    <3>3. d \in Seq(Int) /\ n \in Seq(Int)
      BY <1>2, <1>3, <2>5
    <3> HIDE DEF above, Nearest
    <3> QED
      BY <3>1, <3>2, <3>3
  <2>7. Past(dir, Len(n)) \in Seq(Int)
    BY <1>3, <2>5, PastTyped DEF IsPrefix
  <2>8. Declares(n) \o Past(dir, Len(n)) \in Seq(Int) /\ Declares(n) \o Past(dir, Len(n)) # NoPath
    BY <1>3, <2>5, <2>7, ConcatProperties, ConcatEqualIffEmpty DEF NoPath
  <2> QED
    BY <1>4, <2>3, <2>4, <2>5, <2>6, <2>8
<1> QED
  BY <1>5, <1>6

\* A package gets its path when its directory is walked, and all above it were.
LEMMA VisitsDirSafe ==
    ASSUME LoaderIInv, NEW dir \in Dirs, VisitsDir(dir)
    PROVE  LoaderIInv'
<1> DEFINE holds == loader.checkout[dir]
           todo == loader.todo \ {dir}
           cmap1 == WithModule(loader.cmap, dir, holds)
           cmap2 == WithComment(cmap1, dir, holds)
           rec == [dir |-> dir, importPath |-> TrimPrefix(loader.opts, PathOf(cmap2, dir))]
           new == IF holds.hasGo THEN [loader EXCEPT !.todo = @ \ {dir}, !.cmap = cmap2,
                                                      !.packages = Append(@, rec)]
                  ELSE [loader EXCEPT !.todo = @ \ {dir}, !.cmap = cmap1]
           cmap == IF holds.hasGo THEN cmap2 ELSE cmap1
           packages == IF holds.hasGo THEN Append(loader.packages, rec) ELSE loader.packages
<1>1. /\ loader \in LoaderState /\ loader' = new /\ loader.step = "walk" /\ dir \in loader.todo
      /\ loader.todo \subseteq Dirs /\ DOMAIN loader.cmap \subseteq Dirs \ loader.todo
      /\ BelowSkipped /\ LabelsDeclared /\ Recorded /\ IsNext(dir) /\ ~IsNonPackage(dir)
  BY DEF LoaderIInv, VisitsDir, IsNext
<1>2. /\ Entered(dir) /\ \A d \in Dirs : IsPrefix(d, dir) /\ d # dir => d \notin loader.todo
  BY <1>1, NextEntered
<1>3. /\ dir \in Seq(Int) /\ \A d \in Dirs : d \in Seq(Int) /\ Declares(d) \in Seq(Int)
      /\ holds \in [module : Seq(Int), hasGo : BOOLEAN, comment : Seq(Int)]
  BY <1>1, DirsTyped
<1>4. PICK S \in SUBSET Seq(Int) : loader.cmap \in [S -> Seq(Int)]
  BY <1>1 DEF LoaderState
<1>5. /\ cmap \in UNION {[T -> Seq(Int)] : T \in SUBSET Seq(Int)}
      /\ DOMAIN cmap \subseteq DOMAIN loader.cmap \cup {dir}
      /\ \A d \in DOMAIN loader.cmap : d # dir => d \in DOMAIN cmap /\ cmap[d] = loader.cmap[d]
  <2>1. /\ \/ cmap \in [S -> Seq(Int)] /\ DOMAIN cmap = DOMAIN loader.cmap
           \/ cmap \in [S \cup {dir} -> Seq(Int)] /\ DOMAIN cmap = DOMAIN loader.cmap \cup {dir}
        /\ \A d \in DOMAIN loader.cmap : d # dir => d \in DOMAIN cmap /\ cmap[d] = loader.cmap[d]
    BY <1>3, <1>4 DEF WithModule, WithComment, Put
  <2>2. S \cup {dir} \in SUBSET Seq(Int)
    BY <1>3, <1>4
  <2> HIDE DEF cmap
  <2> QED
    BY <2>1, <2>2
<1>6. loader.opts.useImportComments =>
          IF Declares(dir) = NoPath THEN dir \notin DOMAIN cmap
          ELSE dir \in DOMAIN cmap /\ cmap[dir] = Declares(dir)
  <2>1. HasDomain(NoPath) = FALSE
    BY DEF HasDomain
  <2>2. dir \notin DOMAIN loader.cmap
    BY <1>1
  <2> QED
    BY <1>3, <2>1, <2>2 DEF WithModule, WithComment, Put, Declares, IsLocalPackage
<1>7. loader.opts.useImportComments =>
          \A d \in Dirs \ todo : Entered(d) =>
              IF Declares(d) = NoPath THEN d \notin DOMAIN cmap
              ELSE d \in DOMAIN cmap /\ cmap[d] = Declares(d)
  <2> HIDE DEF cmap
  <2> QED
    BY <1>1, <1>5, <1>6 DEF LabelsDeclared
<1>8. holds.hasGo => rec \in Package /\ Named(rec)
  <2> SUFFICES ASSUME holds.hasGo PROVE rec \in Package /\ Named(rec)
    OBVIOUS
  <2> DEFINE found == FindLabel(cmap, dir)
             ip == IF loader.opts.useImportComments /\ found # NoPath THEN found ELSE RepoPrefix \o dir
  <2>1. PathOf(cmap2, dir) = ip
    BY DEF PathOf
  <2>2. \A d \in Dirs : IsPrefix(d, dir) => Entered(d) /\ d \notin todo
    BY <1>2, <1>3, EntersBelow
  <2>3. DOMAIN cmap \subseteq Dirs
    BY <1>1, <1>5
  <2>4. loader.opts.useImportComments =>
            /\ found \in Seq(Int)
            /\ \/ found = NoPath /\ \A d \in Dirs : ~NamedBy(dir, d)
               \/ /\ found # NoPath /\ \E d \in Dirs : NamedBy(dir, d)
                  /\ \A d \in Dirs : NamedBy(dir, d) => found = Declares(d) \o Past(dir, Len(d))
    <3> HIDE DEF cmap, todo
    <3> QED
      BY <1>1, <1>7, <2>2, <2>3, LabelFound
  <2>5. RepoPrefix \in Seq(Int) /\ RepoPrefix \o dir \in Seq(Int)
    BY <1>3, LoaderAssumption, ConcatProperties
  <2>6. ip \in Seq(Int)
    BY <2>4, <2>5
  <2> HIDE DEF ip, found, cmap, cmap2
  <2>7. rec.dir = dir /\ rec.importPath = TrimPrefix(loader.opts, ip)
    BY <2>1
  <2>8. TrimPrefix(loader.opts, ip) \in Seq(Int)
    <3>1. IsStrictPrefix(RepoPrefix, ip) => Past(ip, Len(RepoPrefix)) \in Seq(Int)
      BY <2>5, <2>6, PastTyped DEF IsStrictPrefix, IsPrefix
    <3> QED
      BY <2>6, <3>1 DEF TrimPrefix
  <2>9. rec \in Package
    BY <1>3, <2>1, <2>8 DEF Package
  <2>10. Named(rec)
    <3> HIDE DEF rec
    <3>1. CASE loader.opts.useImportComments /\ \E d \in Dirs : NamedBy(dir, d)
      <4>1. ip = found /\ \A d \in Dirs : NamedBy(dir, d) => found = Declares(d) \o Past(dir, Len(d))
        BY <2>4, <3>1 DEF ip
      <4> QED
        BY <2>7, <3>1, <4>1 DEF Named, Dirs
    <3>2. CASE ~(loader.opts.useImportComments /\ \E d \in Dirs : NamedBy(dir, d))
      <4>1. ip = RepoPrefix \o dir
        BY <2>4, <3>2 DEF ip
      <4>2. ~(loader.opts.useImportComments /\ {d \in DOMAIN loader.checkout : NamedBy(dir, d)} # {})
        BY <3>2 DEF Dirs
      <4> QED
        BY <2>7, <4>1, <4>2 DEF Named
    <3> QED
      BY <3>1, <3>2
  <2> QED
    BY <2>9, <2>10
<1>9. /\ loader' \in LoaderState /\ loader'.todo = todo /\ loader'.checkout = loader.checkout
      /\ loader'.opts = loader.opts /\ loader'.cmap = cmap /\ loader'.step = loader.step
      /\ loader'.packages = packages
  <2>1. packages \in Seq(Package)
    <3> HIDE DEF rec
    <3> QED
      BY <1>1, <1>8 DEF LoaderState
  <2>2. todo \in SUBSET Seq(Int)
    BY <1>1 DEF LoaderState
  <2>3. new = [loader EXCEPT !.todo = todo, !.cmap = cmap, !.packages = packages]
    BY <1>1, <1>3 DEF LoaderState
  <2> HIDE DEF packages, cmap, todo, new
  <2> QED
    BY <1>1, <1>5, <2>1, <2>2, <2>3 DEF LoaderState
<1>10. BelowSkipped'
  BY <1>1, <1>9 DEF BelowSkipped, Dirs, IsNonPackage
<1>11. \A d \in Dirs : Declares(d)' = Declares(d)
  BY <1>9 DEF Declares
<1>12. LabelsDeclared'
  <2> HIDE DEF cmap, todo
  <2> QED
    BY <1>7, <1>9, <1>11 DEF LabelsDeclared, Dirs, Entered, Declares
<1>13. Recorded'
  <2>1. loader.packages \in Seq(Package)
    BY <1>1 DEF LoaderState
  <2>2. CASE ~holds.hasGo
    <3>1. packages = loader.packages
      BY <2>2
    <3>2. {d \in Dirs \ todo : Entered(d) /\ loader.checkout[d].hasGo}
          = {d \in Dirs \ loader.todo : Entered(d) /\ loader.checkout[d].hasGo}
      BY <1>1, <2>2
    <3> HIDE DEF packages, todo
    <3>3. PackageDirs(loader.packages)' = PackageDirs(loader.packages)
      BY <1>9, <3>1 DEF PackageDirs
    <3>4. PackageDirs(loader.packages)' =
              {d \in Dirs \ loader.todo : Entered(d) /\ loader.checkout[d].hasGo}'
      BY <1>1, <1>9, <3>2, <3>3 DEF Recorded, Dirs, Entered
    <3>5. \A i \in DOMAIN packages : Named(packages[i])
      BY <1>1, <3>1 DEF Recorded
    <3>6. \A i \in DOMAIN loader'.packages : Named(loader.packages[i])'
      BY <1>9, <3>5 DEF Named, NamedBy, Declares, TrimPrefix
    <3> QED
      BY <1>1, <1>9, <3>1, <3>3, <3>4, <3>6 DEF Recorded
  <2>3. CASE holds.hasGo
    <3>1. packages = Append(loader.packages, rec) /\ rec \in Package /\ Named(rec) /\ rec.dir = dir
      BY <1>8, <2>3
    <3>2. {d \in Dirs \ todo : Entered(d) /\ loader.checkout[d].hasGo}
          = {d \in Dirs \ loader.todo : Entered(d) /\ loader.checkout[d].hasGo} \cup {dir}
      BY <1>1, <1>2, <2>3
    <3>3. dir \notin PackageDirs(loader.packages)
      BY <1>1 DEF Recorded
    <3> HIDE DEF packages, todo, rec
    <3>4. /\ DOMAIN packages = 1 .. Len(loader.packages) + 1 /\ DOMAIN loader.packages = 1 .. Len(loader.packages)
          /\ Len(packages) = Len(loader.packages) + 1 /\ Len(loader.packages) \in Nat
          /\ \A i \in 1 .. Len(loader.packages) : packages[i] = loader.packages[i]
          /\ packages[Len(loader.packages) + 1] = rec
      BY <2>1, <3>1
    <3>5. PackageDirs(packages) = PackageDirs(loader.packages) \cup {dir}
      BY <3>1, <3>4 DEF PackageDirs
    <3>6. IsFiniteSet(PackageDirs(packages)) /\ Cardinality(PackageDirs(packages)) = Len(packages)
      <4>1. IsFiniteSet(PackageDirs(loader.packages))
            /\ Cardinality(PackageDirs(loader.packages)) = Len(loader.packages)
        BY <1>1 DEF Recorded
      <4> QED
        BY <3>3, <3>4, <3>5, <4>1, FS_AddElement
    <3>7. \A i \in DOMAIN packages : Named(packages[i])
      BY <1>1, <3>1, <3>4 DEF Recorded
    <3>8. PackageDirs(loader.packages)' = PackageDirs(packages)
      BY <1>9 DEF PackageDirs
    <3>9. PackageDirs(loader.packages)' =
              {d \in Dirs \ loader.todo : Entered(d) /\ loader.checkout[d].hasGo}'
      BY <1>1, <1>9, <3>2, <3>5, <3>8 DEF Recorded, Dirs, Entered
    <3>10. \A i \in DOMAIN loader'.packages : Named(loader.packages[i])'
      BY <1>9, <3>7 DEF Named, NamedBy, Declares, TrimPrefix
    <3> QED
      BY <1>9, <3>6, <3>8, <3>9, <3>10 DEF Recorded
  <2> QED
    BY <2>2, <2>3
<1>14. DOMAIN loader'.cmap \subseteq Dirs' \ loader'.todo /\ loader'.todo \subseteq Dirs'
  <2> HIDE DEF cmap
  <2> QED
    BY <1>1, <1>5, <1>9 DEF Dirs
<1> QED
  BY <1>1, <1>9, <1>10, <1>12, <1>13, <1>14 DEF LoaderIInv

\* For any tree, labels and options: every directory with Go files that is not
\* in or below a special one is recorded once, under the path of the nearest
\* directory around it that declares one (local.go:70-92, deps.go:96-127).
THEOREM WalkNames == LoaderSpec => []PackagesNamed
<1>1. LoaderInit => LoaderIInv
  <2> SUFFICES ASSUME NEW checkout \in Checkouts, NEW opts \in LoadOptions,
                      loader = LoaderStart(checkout, opts)
               PROVE  LoaderIInv
    BY DEF LoaderInit, LoaderStarts
  <2>1. DOMAIN checkout \in SUBSET Seq(Int)
    BY LoaderAssumption
  <2>2. Empty \in [{} -> Seq(Int)] /\ DOMAIN Empty = {}
    BY DEF Empty
  <2>3. loader \in LoaderState
    <3>1. Empty \in UNION {[S -> Seq(Int)] : S \in SUBSET Seq(Int)}
      BY <2>2
    <3>2. << >> \in Seq(Package)
      BY EmptySeq
    <3> QED
      BY <2>1, <3>1, <3>2 DEF LoaderStart, LoaderState
  <2>4. loader.todo = Dirs /\ loader.cmap = Empty /\ loader.packages = << >> /\ loader.step = "walk"
    BY DEF LoaderStart, Dirs
  <2>5. PackageDirs(loader.packages) = {} /\ Len(loader.packages) = 0
    BY <2>4 DEF PackageDirs
  <2>6. Recorded
    <3>1. IsFiniteSet(PackageDirs(loader.packages)) /\ Cardinality(PackageDirs(loader.packages)) = 0
      BY <2>5, FS_EmptySet
    <3>2. Dirs \ loader.todo = {} /\ DOMAIN loader.packages = {}
      BY <2>4
    <3> QED
      BY <2>5, <3>1, <3>2 DEF Recorded
  <2> QED
    BY <2>2, <2>3, <2>4, <2>6 DEF LoaderIInv, BelowSkipped, LabelsDeclared
<1>2. LoaderIInv /\ [LoaderNext]_loader => LoaderIInv'
  <2> SUFFICES ASSUME LoaderIInv, LoadFails \/ LoadEnds \/ UNCHANGED loader PROVE LoaderIInv'
    BY SkipsDirSafe, VisitsDirSafe DEF LoaderNext, Dirs
  <2>1. PICK step \in {"walk", "done", "failed"} :
            loader' = [loader EXCEPT !.step = step] /\ (step = "done" => loader.todo = {})
    BY DEF LoaderIInv, LoaderState, LoadFails, LoadEnds
  <2>2. /\ loader' \in LoaderState /\ loader'.todo = loader.todo /\ loader'.checkout = loader.checkout
        /\ loader'.opts = loader.opts /\ loader'.cmap = loader.cmap /\ loader'.step = step
        /\ loader'.packages = loader.packages
    BY <2>1 DEF LoaderIInv, LoaderState
  <2>3. BelowSkipped' /\ LabelsDeclared'
    BY <2>2 DEF LoaderIInv, BelowSkipped, LabelsDeclared, Dirs, Entered, Declares, IsNonPackage
  <2>4. Recorded'
    BY <2>2 DEF LoaderIInv, Recorded, PackageDirs, Dirs, Entered, Named, NamedBy, Declares, TrimPrefix
  <2> QED
    BY <2>1, <2>2, <2>3, <2>4 DEF LoaderIInv, Dirs
<1>3. LoaderIInv => PackagesNamed
  BY DEF LoaderIInv, Recorded, PackagesNamed, PackageDirs, Dirs
<1> QED
  BY <1>1, <1>2, <1>3, PTL DEF LoaderSpec

-----------------------------------------------------------------------------
(* What package poll picks from a listing, and when it asks again.         *)

PickState ==
    [task : {"pick"}, step : {"read", "done", "failed"}, lines : Listings, tagsOK : BOOLEAN,
     read : Nat, best : Line \cup {NoLine}]
ScheduleState ==
    [task : {"schedule"}, step : {"read", "done"}, history : Histories, due : BOOLEAN]
CleanState == [task : {"clean"}, step : {"read", "done"}, at : Located, url : {remote.url}]

\* The first of the lines of some kinds, if one has been read.
FirstRead(kinds) == \E i \in Listed(kinds) :
    i <= remote.read /\ remote.best = remote.lines[i] /\ \A j \in Listed(kinds) : i <= j
NoneRead(kinds) == \A i \in Listed(kinds) : remote.read < i

\* The best line so far is the first branch, or HEAD, or none.
BestSoFar ==
    LET branches == Branches(remote.tagsOK) IN
    /\ NoneRead({"master"}) /\ remote.read <= Len(remote.lines)
    /\ \/ FirstRead(branches)
       \/ NoneRead(branches) /\ FirstRead({"HEAD"})
       \/ NoneRead(branches) /\ NoneRead({"HEAD"}) /\ remote.best = NoLine

PickSafe == remote \in PickState /\ (remote.step = "read" => BestSoFar)
ScheduleSafe ==
    remote \in ScheduleState /\ (remote.step = "done" => remote.due = ShouldCheck(remote.history))

CleanSafe ==
    /\ remote \in CleanState
    /\ remote.url \in IF remote.step = "read" THEN Spellings(remote.at)
                      ELSE {remote.at.host \o <<"/">> \o remote.at.path}

RemoteIInv == HeadChosen /\ (PickSafe \/ ScheduleSafe \/ CleanSafe)

\* A span of n - 1 gaps of at most some age, divided by n, is below that age.
LEMMA GapBelow ==
    ASSUME NEW n \in Nat, n > 0, NEW age \in Nat, age > 0, NEW span \in Int, span <= age * (n - 1)
    PROVE  span \div n \in Int /\ span \div n < age
<1> DEFINE gap == span \div n
<1>1. gap \in Int /\ n * gap <= span
  OBVIOUS
<1>2. age * n - age = age * (n - 1)
  OBVIOUS
<1>3. n * gap < age * n
  BY <1>1, <1>2
<1> HIDE DEF gap
<1>4. ASSUME gap >= age PROVE FALSE
  <2>1. n * (gap - age) >= 0
    BY <1>1, <1>4
  <2>2. n * (gap - age) = n * gap - age * n
    BY <1>1
  <2> QED BY <1>1, <1>3, <2>1, <2>2
<1> QED
  BY <1>1, <1>4 DEF gap

\* A step over one line keeps the best line so far.
LEMMA ReadsLineSafe == ASSUME PickSafe, HeadChosen, ReadsLine PROVE PickSafe' /\ HeadChosen'
<1> DEFINE n == remote.read + 1
           line == remote.lines[n]
           branches == Branches(remote.tagsOK)
<1>1. /\ remote \in PickState /\ remote.step = "read" /\ BestSoFar
      /\ remote.lines \in Seq(Line) /\ n \in DOMAIN remote.lines /\ n \in Nat /\ n \in 1 .. Len(remote.lines)
      /\ line \in Line
  BY RemoteAssumption DEF PickSafe, ReadsLine, Tasked, PickState, BestSoFar
<1>2. \A i \in DOMAIN remote.lines :
          i \in Nat /\ (i <= n <=> i <= remote.read \/ i = n) /\ (remote.read < i <=> n <= i)
  BY <1>1 DEF PickState
<1>3. CASE line.kind = "master"
  <2>1. remote' = [remote EXCEPT !.best = line, !.step = "done"]
    BY <1>3 DEF ReadsLine
  <2>2. remote' \in PickState /\ remote'.step = "done" /\ remote'.best = line
        /\ remote'.lines = remote.lines /\ remote'.tagsOK = remote.tagsOK /\ remote'.task = "pick"
    BY <1>1, <2>1 DEF PickState
  <2>3. n \in Listed({"master"}) /\ \A i \in Listed({"master"}) : n <= i
    BY <1>1, <1>2, <1>3 DEF BestSoFar, NoneRead, Listed
  <2>4. IsFirst({"master"})' /\ Listed({"master"})' # {}
    BY <2>2, <2>3 DEF IsFirst, Listed
  <2> QED
    BY <2>2, <2>4 DEF PickSafe, HeadChosen
<1>4. CASE line.kind # "master"
  <2> DEFINE taken == IsInterestingRef(line) /\ Replaces(line)
  <2>1. PICK best : best = IF taken THEN line ELSE remote.best
    OBVIOUS
  <2>2. remote' = [remote EXCEPT !.best = best, !.read = n]
    BY <1>1, <1>4, <2>1 DEF ReadsLine, PickState
  <2>3. /\ remote' \in PickState /\ remote'.step = "read" /\ remote'.read = n /\ remote'.best = best
        /\ remote'.lines = remote.lines /\ remote'.tagsOK = remote.tagsOK
    BY <1>1, <2>1, <2>2 DEF PickState
  <2>4. \A kinds : Listed(kinds)' = Listed(kinds)
    BY <2>3 DEF Listed
  <2>5. Branches(remote'.tagsOK) = branches
    BY <2>3
  <2>6. ASSUME NEW kinds, line.kind \notin kinds, NoneRead(kinds) PROVE NoneRead(kinds)'
    BY <1>1, <1>2, <2>3, <2>4, <2>6 DEF NoneRead, Listed, PickState
  <2>7. ASSUME NEW kinds, FirstRead(kinds), best = remote.best PROVE FirstRead(kinds)'
    <3>1. PICK i \in Listed(kinds) : /\ i <= remote.read /\ remote.best = remote.lines[i]
                                     /\ \A j \in Listed(kinds) : i <= j
      BY <2>7 DEF FirstRead
    <3>2. i <= n
      BY <1>2, <3>1 DEF Listed
    <3> QED
      BY <2>3, <2>4, <2>7, <3>1, <3>2 DEF FirstRead, Listed
  <2>8. ASSUME NEW kinds, NoneRead(kinds), line.kind \in kinds, best = line PROVE FirstRead(kinds)'
    <3>1. n \in Listed(kinds) /\ \A j \in Listed(kinds) : n <= j
      BY <1>1, <1>2, <2>8 DEF NoneRead, Listed
    <3>2. n \in Listed(kinds)' /\ n <= remote'.read /\ remote'.best = remote'.lines[n]
          /\ \A j \in Listed(kinds)' : n <= j
      BY <1>1, <2>3, <2>4, <2>8, <3>1
    <3> QED
      BY <3>2 DEF FirstRead
  <2>9. NoneRead({"master"})' /\ remote'.read <= Len(remote'.lines)
    BY <1>1, <1>4, <2>3, <2>6 DEF BestSoFar
  <2>10. IsInterestingRef(line) <=> line.kind \in branches \cup {"HEAD"}
    BY <1>1 DEF IsInterestingRef, Branches, PickState
  <2>11. "HEAD" \notin branches
    BY DEF Branches
  <2>12. CASE FirstRead(branches)
    <3>1. ~Replaces(line)
      BY <2>12 DEF FirstRead, Listed, Replaces, Branches
    <3> QED
      BY <2>1, <2>3, <2>5, <2>7, <2>9, <2>12, <3>1 DEF BestSoFar, PickSafe, HeadChosen
  <2>13. CASE NoneRead(branches) /\ FirstRead({"HEAD"})
    <3>1. Replaces(line) /\ remote.best.kind = "HEAD"
      BY <2>13 DEF FirstRead, Listed, Replaces
    <3>2. CASE line.kind \in branches
      BY <2>1, <2>3, <2>5, <2>8, <2>9, <2>10, <2>13, <3>1, <3>2 DEF BestSoFar, PickSafe, HeadChosen
    <3>3. CASE line.kind \notin branches
      <4>1. best = remote.best
        <5>1. line.kind = "HEAD" => line = remote.best
          BY RemoteAssumption, <1>1, <2>13, <3>1 DEF FirstRead, Listed, PickState
        <5> QED
          BY <2>1, <2>10, <3>3, <5>1
      <4> QED
        BY <2>3, <2>5, <2>6, <2>7, <2>9, <2>13, <3>3, <4>1 DEF BestSoFar, PickSafe, HeadChosen
    <3> QED
      BY <3>2, <3>3
  <2>14. CASE NoneRead(branches) /\ NoneRead({"HEAD"}) /\ remote.best = NoLine
    <3>1. Replaces(line)
      BY <2>14 DEF Replaces, NoLine
    <3>2. CASE line.kind \in branches
      BY <2>1, <2>3, <2>5, <2>8, <2>9, <2>10, <2>14, <3>1, <3>2 DEF BestSoFar, PickSafe, HeadChosen
    <3>3. CASE line.kind = "HEAD"
      <4>1. line.kind \notin branches /\ best = line
        BY <2>1, <2>10, <2>11, <3>1, <3>3
      <4>2. NoneRead(branches)'
        BY <2>5, <2>6, <2>14, <4>1
      <4>3. FirstRead({"HEAD"})'
        BY <2>8, <2>14, <3>3, <4>1
      <4> QED
        BY <2>3, <2>5, <2>9, <4>2, <4>3 DEF BestSoFar, PickSafe, HeadChosen
    <3>4. CASE line.kind \notin branches \cup {"HEAD"}
      <4>1. NoneRead(branches)' /\ NoneRead({"HEAD"})' /\ remote'.best = NoLine
        BY <2>1, <2>3, <2>6, <2>10, <2>14, <3>4
      <4> QED
        BY <2>3, <2>5, <2>9, <4>1 DEF BestSoFar, PickSafe, HeadChosen
    <3> QED
      BY <3>2, <3>3, <3>4
  <2> QED
    BY <1>1, <2>12, <2>13, <2>14 DEF BestSoFar
<1> QED
  BY <1>3, <1>4

\* At the end of the listing the best line so far is the choice.
LEMMA ReadsEndSafe == ASSUME PickSafe, ReadsEnd PROVE PickSafe' /\ HeadChosen'
<1> DEFINE branches == Branches(remote.tagsOK)
<1>1. /\ remote \in PickState /\ remote.step = "read" /\ BestSoFar
      /\ remote.lines \in Seq(Line) /\ remote.read = Len(remote.lines)
  BY RemoteAssumption DEF PickSafe, ReadsEnd, Tasked, PickState
<1>2. \A i \in DOMAIN remote.lines : ~(remote.read < i) /\ remote.lines[i] # NoLine
  BY <1>1 DEF Line, NoLine
<1>3. \A kinds : NoneRead(kinds) => Listed(kinds) = {}
  BY <1>2 DEF NoneRead, Listed
<1>4. PICK step : step = IF remote.best = NoLine THEN "failed" ELSE "done"
  OBVIOUS
<1>5. /\ remote' \in PickState /\ remote'.step = step /\ remote'.best = remote.best
      /\ remote'.lines = remote.lines /\ remote'.tagsOK = remote.tagsOK
  BY <1>1, <1>4 DEF ReadsEnd, PickState
<1>6. \A kinds : Listed(kinds)' = Listed(kinds)
  BY <1>5 DEF Listed
<1>7. ASSUME NEW kinds, FirstRead(kinds) PROVE IsFirst(kinds)' /\ Listed(kinds)' # {}
  <2>1. remote.best # NoLine
    BY <1>2, <1>7 DEF FirstRead, Listed
  <2> QED
    BY <1>4, <1>5, <1>6, <1>7, <2>1 DEF FirstRead, IsFirst
<1>8. Listed({"master"})' = {} /\ Branches(remote'.tagsOK) = branches
  BY <1>1, <1>3, <1>5, <1>6 DEF BestSoFar
<1>9. CASE FirstRead(branches)
  BY <1>4, <1>5, <1>7, <1>8, <1>9 DEF PickSafe, HeadChosen
<1>10. CASE NoneRead(branches) /\ FirstRead({"HEAD"})
  BY <1>3, <1>4, <1>5, <1>6, <1>7, <1>8, <1>10 DEF PickSafe, HeadChosen
<1>11. CASE NoneRead(branches) /\ NoneRead({"HEAD"}) /\ remote.best = NoLine
  BY <1>3, <1>4, <1>5, <1>6, <1>8, <1>11 DEF PickSafe, HeadChosen
<1> QED
  BY <1>1, <1>9, <1>10, <1>11 DEF BestSoFar

-----------------------------------------------------------------------------
(* The spellings of a URL.                                                 *)

\* What a URL is made of.
Piece == Words \cup Schemes \cup InPaths

\* Lengths and pieces of URLs put together.
LEMMA PiecesJoined ==
    ASSUME NEW s \in Seq(Piece), NEW t \in Seq(Piece)
    PROVE  /\ s \o t \in Seq(Piece) /\ Len(s) \in Nat /\ Len(t) \in Nat
           /\ Len(s \o t) = Len(s) + Len(t)
           /\ \A i \in 1 .. Len(s) + Len(t) :
                  (s \o t)[i] = IF i <= Len(s) THEN s[i] ELSE t[i - Len(s)]
BY ConcatProperties, LenProperties

LEMMA OnePiece ==
    ASSUME NEW x \in Piece
    PROVE  <<x>> \in Seq(Piece) /\ Len(<<x>>) = 1 /\ <<x>>[1] = x
OBVIOUS

LEMMA PiecesThrice ==
    ASSUME NEW s \in Seq(Piece), NEW t \in Seq(Piece), NEW u \in Seq(Piece)
    PROVE  (s \o t) \o u = s \o (t \o u)
BY ConcatAssociative

\* A scheme is taken off once, and only in front (poll.go:299-301).
LEMMA WithoutSchemeIs ==
    ASSUME NEW x \in Schemes, NEW url \in Seq(Piece), url # << >>, url[1] \notin Schemes
    PROVE  WithoutScheme(url) = url /\ WithoutScheme(<<x>> \o url) = url
<1>1. WithoutScheme(url) = url
  BY DEF WithoutScheme
<1>2. <<x>> \o url \in Seq(Piece) /\ <<x>> \o url # << >> /\ (<<x>> \o url)[1] = x
  BY DEF Piece
<1>3. Tail(<<x>> \o url) = url
  BY DEF Piece
<1> QED
  BY <1>1, <1>2, <1>3 DEF WithoutScheme

\* The suffix is taken off once, and only at the end (poll.go:312).
LEMMA WithoutSuffixIs ==
    ASSUME NEW url \in Seq(Piece), url # << >>, Last(url) # ".git"
    PROVE  WithoutSuffix(url) = url /\ WithoutSuffix(url \o <<".git">>) = url
<1>1. WithoutSuffix(url) = url
  BY DEF WithoutSuffix
<1>2. /\ url \o <<".git">> \in Seq(Piece) /\ url \o <<".git">> # << >>
      /\ Last(url \o <<".git">>) = ".git"
  BY DEF Piece, InPaths, Last
<1>3. Front(url \o <<".git">>) = url
  <2>1. Len(url \o <<".git">>) = Len(url) + 1 /\ Len(url) \in Nat \ {0}
    BY DEF Piece, InPaths
  <2>2. SubSeq(url \o <<".git">>, 1, Len(url)) = url
    BY <2>1, EmptySeq DEF Piece, InPaths
  <2> QED
    BY <2>1, <2>2 DEF Front
<1> QED
  BY <1>1, <1>2, <1>3 DEF WithoutSuffix

\* After git@, a host ends at the first colon (poll.go:305-311).
LEMMA WithoutUserIs ==
    ASSUME NEW host \in Seq(Words), NEW path \in Seq(Piece),
           RemoteAssumption
    PROVE  /\ WithoutUser(<<"git@">> \o host \o <<":">> \o path) = host \o <<"/">> \o path
           /\ ~Contains(path, ":") =>
                  WithoutUser(<<"git@">> \o host \o <<"/">> \o path) = host \o <<"/">> \o path
<1>1. /\ host \in Seq(Piece) /\ <<":">> \in Seq(Piece) /\ <<"/">> \in Seq(Piece)
      /\ <<"git@">> \in Seq(Piece)
  BY DEF Piece, InPaths
<1>2. PICK n \in Nat, m \in Nat : n = Len(host) /\ m = Len(path)
  BY <1>1
<1>3. \A i \in 1 .. n : host[i] \in Words /\ host[i] # ":"
  BY <1>2, RemoteAssumption DEF InPaths
<1>4. ASSUME NEW x \in {":", "/"}
      PROVE  LET url == <<"git@">> \o host \o <<x>> \o path
                 trim == host \o <<x>> \o path
             IN  /\ url \in Seq(Piece) /\ url # << >> /\ url[1] = "git@" /\ Tail(url) = trim
                 /\ trim \in Seq(Piece) /\ Len(trim) = n + 1 + m
                 /\ \A i \in 1 .. n + 1 + m :
                        trim[i] = IF i <= n THEN host[i] ELSE IF i = n + 1 THEN x ELSE path[i - n - 1]
  <2> DEFINE url == <<"git@">> \o host \o <<x>> \o path
             trim == host \o <<x>> \o path
  <2>1. <<x>> \in Seq(Piece) /\ Len(<<x>>) = 1 /\ <<x>>[1] = x
    BY <1>1
  <2>2. PICK hx \in Seq(Piece) : hx = host \o <<x>>
    BY <1>1, <2>1, PiecesJoined
  <2>3. Len(hx) = n + 1 /\ \A i \in 1 .. n + 1 : hx[i] = IF i <= n THEN host[i] ELSE x
    BY <1>1, <1>2, <2>1, <2>2, PiecesJoined
  <2>4. trim = hx \o path
    BY <2>2
  <2>5. /\ trim \in Seq(Piece) /\ Len(trim) = n + 1 + m
        /\ \A i \in 1 .. n + 1 + m :
               trim[i] = IF i <= n THEN host[i] ELSE IF i = n + 1 THEN x ELSE path[i - n - 1]
    BY <1>2, <2>2, <2>3, <2>4, PiecesJoined
  <2>6. url = <<"git@">> \o trim
    BY <1>1, <2>1, ConcatAssociative, ConcatProperties
  <2>7. /\ url \in Seq(Piece) /\ url # << >> /\ url[1] = "git@" /\ Tail(url) = trim
    <3> HIDE DEF trim, url
    <3> QED
      BY <1>1, <2>5, <2>6
  <2> QED
    BY <2>5, <2>7
<1>5. WithoutUser(<<"git@">> \o host \o <<":">> \o path) = host \o <<"/">> \o path
  <2>1. PICK url, trim, done : /\ url = <<"git@">> \o host \o <<":">> \o path
                               /\ trim = host \o <<":">> \o path /\ done = host \o <<"/">> \o path
    OBVIOUS
  <2>2. /\ url \in Seq(Piece) /\ url # << >> /\ url[1] = "git@" /\ Tail(url) = trim
        /\ trim \in Seq(Piece) /\ Len(trim) = n + 1 + m
        /\ \A i \in 1 .. n + 1 + m :
               trim[i] = IF i <= n THEN host[i] ELSE IF i = n + 1 THEN ":" ELSE path[i - n - 1]
    BY <1>4, <2>1
  <2>3. /\ done \in Seq(Piece) /\ Len(done) = n + 1 + m
        /\ \A i \in 1 .. n + 1 + m :
               done[i] = IF i <= n THEN host[i] ELSE IF i = n + 1 THEN "/" ELSE path[i - n - 1]
    BY <1>4, <2>1
  <2>4. n + 1 \in 1 .. n + 1 + m /\ n + 1 \in DOMAIN trim /\ trim[n + 1] = ":"
    BY <2>2
  <2>5. Contains(trim, ":")
    BY <2>2, <2>4 DEF Contains
  <2>6. \A j \in 1 .. n : trim[j] # ":"
    BY <1>3, <2>2
  <2> DEFINE first(i) == trim[i] = ":" /\ \A j \in 1 .. i - 1 : trim[j] # ":"
  <2>7. (CHOOSE i \in DOMAIN trim : first(i)) = n + 1
    <3>1. n + 1 \in DOMAIN trim /\ first(n + 1)
      BY <2>4, <2>6
    <3>2. \A i \in DOMAIN trim : first(i) => i = n + 1
      <4> SUFFICES ASSUME NEW i \in DOMAIN trim, first(i) PROVE i = n + 1
        OBVIOUS
      <4>1. i \in Nat /\ i >= 1
        BY <2>2
      <4>2. ~(i <= n)
        BY <2>6, <4>1
      <4>3. ~(n + 1 < i)
        BY <2>4, <4>1
      <4> QED
        BY <4>1, <4>2, <4>3
    <3> HIDE DEF first
    <3> QED
      BY <3>1, <3>2
  <2>8. [trim EXCEPT ![n + 1] = "/"] = done
    <3>1. [trim EXCEPT ![n + 1] = "/"] \in Seq(Piece)
      BY <1>1, <2>2, <2>4, ExceptSeq DEF Piece, InPaths
    <3>2. /\ Len([trim EXCEPT ![n + 1] = "/"]) = n + 1 + m
          /\ \A i \in 1 .. n + 1 + m : [trim EXCEPT ![n + 1] = "/"][i] = IF i = n + 1 THEN "/" ELSE trim[i]
      BY <2>2, <2>4
    <3>3. ASSUME NEW i \in 1 .. n + 1 + m PROVE [trim EXCEPT ![n + 1] = "/"][i] = done[i]
      <4>1. i = n + 1 => done[i] = "/"
        BY <2>3
      <4>2. i # n + 1 => done[i] = trim[i]
        BY <2>2, <2>3
      <4> QED
        BY <3>2, <4>1, <4>2
    <3> QED
      BY <2>3, <3>1, <3>2, <3>3, SeqEqual
  <2>9. WithoutUser(url) = [trim EXCEPT ![CHOOSE i \in DOMAIN trim : first(i)] = "/"]
    BY <2>2, <2>5 DEF WithoutUser
  <2> HIDE DEF first
  <2> QED
    BY <2>1, <2>7, <2>8, <2>9
<1>6. ASSUME ~Contains(path, ":")
      PROVE  WithoutUser(<<"git@">> \o host \o <<"/">> \o path) = host \o <<"/">> \o path
  <2>1. PICK url, trim : url = <<"git@">> \o host \o <<"/">> \o path /\ trim = host \o <<"/">> \o path
    OBVIOUS
  <2>2. /\ url \in Seq(Piece) /\ url # << >> /\ url[1] = "git@" /\ Tail(url) = trim
        /\ trim \in Seq(Piece) /\ Len(trim) = n + 1 + m
        /\ \A i \in 1 .. n + 1 + m :
               trim[i] = IF i <= n THEN host[i] ELSE IF i = n + 1 THEN "/" ELSE path[i - n - 1]
    BY <1>4, <2>1
  <2>3. \A i \in 1 .. m : path[i] # ":"
    BY <1>2, <1>6 DEF Contains
  <2>4. ~Contains(trim, ":")
    <3> SUFFICES ASSUME NEW i \in 1 .. n + 1 + m, trim[i] = ":" PROVE FALSE
      BY <2>2 DEF Contains
    <3>1. CASE i <= n
      <4>1. i \in 1 .. n /\ trim[i] = host[i]
        BY <2>2, <3>1
      <4> QED
        BY <1>3, <4>1
    <3>2. CASE i = n + 1
      BY <2>2, <3>2
    <3>3. CASE n + 1 < i
      <4>1. i - n - 1 \in 1 .. m
        BY <3>3
      <4>2. trim[i] = IF i <= n THEN host[i] ELSE IF i = n + 1 THEN "/" ELSE path[i - n - 1]
        BY <2>2
      <4>3. ~(i <= n) /\ i # n + 1
        BY <3>3
      <4> QED
        BY <2>3, <4>1, <4>2, <4>3
    <3> QED
      BY <3>1, <3>2, <3>3
  <2> QED
    BY <2>1, <2>2, <2>4 DEF WithoutUser
<1> QED
  BY <1>5, <1>6

\* Whatever the spelling, the host and the path remain.
LEMMA SpellingCleaned ==
    ASSUME NEW at \in Located, NEW url \in Spellings(at)
    PROVE  CleanRepoURL(url) = at.host \o <<"/">> \o at.path
<1>1. PICK host \in Seq(Words), path \in Seq(Piece) :
          /\ host = at.host /\ path = at.path /\ host # << >> /\ path # << >> /\ Last(path) # ".git"
  <2>1. /\ at.host \in Seq(Words) /\ at.path \in Seq(Words \cup InPaths)
        /\ at.host # << >> /\ at.path # << >> /\ Last(at.path) # ".git"
    BY RemoteAssumption
  <2>2. at.path \in Seq(Piece)
    BY <2>1 DEF Piece
  <2> QED
    BY <2>1, <2>2
<1> DEFINE named == host \o <<"/">> \o path
<1>2. PICK scheme \in {<< >>} \cup {<<x>> : x \in Schemes}, place \in Places(at),
           suffix \in {<< >>, <<".git">>} : url = scheme \o place \o suffix
  <2>1. PICK schemes, places, suffixes :
            /\ schemes = {<< >>} \cup {<<x>> : x \in Schemes} /\ places = Places(at)
            /\ suffixes = {<< >>, <<".git">>}
    OBVIOUS
  <2>2. Spellings(at) = {scheme \o place \o suffix : scheme \in schemes, place \in places,
                                                    suffix \in suffixes}
    BY <2>1 DEF Spellings
  <2>3. \E scheme \in schemes, place \in places, suffix \in suffixes :
            url = scheme \o place \o suffix
    BY <2>2
  <2> QED
    BY <2>1, <2>3
<1>3. /\ suffix \in Seq(Piece) /\ scheme \in Seq(Piece) /\ host \in Seq(Piece)
      /\ <<"/">> \in Seq(Piece) /\ <<":">> \in Seq(Piece) /\ <<"git@">> \in Seq(Piece)
  <2>1. {"/", ":", "git@", ".git"} \subseteq Piece /\ Schemes \subseteq Piece /\ Words \subseteq Piece
    BY DEF Piece, InPaths
  <2>2. \A x \in Piece : <<x>> \in Seq(Piece)
    BY OnePiece
  <2>3. << >> \in Seq(Piece)
    BY EmptySeq
  <2>4. host \in Seq(Piece)
    BY <2>1, SeqMonotonic
  <2>5. suffix \in Seq(Piece)
    BY <2>1, <2>2, <2>3
  <2>6. scheme \in Seq(Piece)
    BY <2>1, <2>2, <2>3
  <2> QED
    BY <2>1, <2>2, <2>4, <2>5, <2>6
<1>4. /\ host[1] \in Words /\ host[1] \notin Schemes /\ host[1] # "git@" /\ Len(host) \in Nat \ {0}
  BY <1>1, RemoteAssumption, EmptySeq DEF InPaths
<1>5. PICK more \in Seq(Piece) : more = path \o suffix
  BY <1>3, PiecesJoined
<1>6. Contains(more, ":") => Contains(path, ":")
  <2>1. \A i \in 1 .. Len(more) : more[i] = ":" => i \in 1 .. Len(path) /\ path[i] = ":"
    BY <1>1, <1>2, <1>3, <1>5
  <2> QED
    BY <2>1 DEF Contains
<1>7. /\ place \in Seq(Piece) /\ place # << >> /\ place[1] \notin Schemes
      /\ WithoutUser(place \o suffix) = host \o <<"/">> \o more
  <2>1. CASE place = host \o <<"/">> \o path
    <3>1. place \in Seq(Piece) /\ place # << >> /\ place[1] = host[1]
      <4>1. PICK start \in Seq(Piece) : start = host \o <<"/">>
        BY <1>3, PiecesJoined
      <4>2. Len(start) = Len(host) + 1 /\ start[1] = host[1]
        BY <1>3, <1>4, <4>1, PiecesJoined, OnePiece
      <4>3. place = start \o path
        BY <2>1, <4>1
      <4>4. place \in Seq(Piece) /\ Len(place) > 0 /\ place[1] = host[1]
        BY <1>4, <4>2, <4>3, PiecesJoined
      <4> QED
        BY <4>4
    <3>2. place \o suffix = host \o <<"/">> \o more
      <4>1. PICK start \in Seq(Piece) : start = host \o <<"/">>
        BY <1>3, PiecesJoined
      <4>2. (start \o path) \o suffix = start \o (path \o suffix)
        BY <1>3, PiecesThrice
      <4> QED
        BY <1>5, <2>1, <4>1, <4>2
    <3>3. (place \o suffix)[1] = host[1] /\ place \o suffix # << >>
      BY <1>3, <3>1
    <3>4. WithoutUser(place \o suffix) = place \o suffix
      BY <1>4, <3>3 DEF WithoutUser
    <3> QED
      BY <1>4, <3>1, <3>2, <3>4
  <2>2. ASSUME NEW x \in {":", "/"}, place = <<"git@">> \o host \o <<x>> \o path
        PROVE  /\ place \in Seq(Piece) /\ place # << >> /\ place[1] \notin Schemes
               /\ place \o suffix = <<"git@">> \o host \o <<x>> \o more
    <3>1. <<x>> \in Seq(Piece)
      BY <1>3
    <3>2. PICK whole \in Seq(Piece) : whole = <<"git@">> \o host \o <<x>>
      <4>1. <<"git@">> \o host \in Seq(Piece)
        BY <1>3, PiecesJoined
      <4>2. (<<"git@">> \o host) \o <<x>> \in Seq(Piece)
        BY <3>1, <4>1, PiecesJoined
      <4> QED
        BY <4>2
    <3>3. Len(whole) > 0 /\ whole[1] = "git@"
      <4>1. PICK user \in Seq(Piece) : user = <<"git@">>
        BY <1>3
      <4>2. Len(user) = 1 /\ user[1] = "git@"
        BY <4>1
      <4>3. PICK start \in Seq(Piece) : start = user \o host
        BY <1>3, PiecesJoined
      <4>4. Len(start) > 0 /\ start[1] = "git@"
        BY <1>3, <4>2, <4>3, PiecesJoined
      <4>5. whole = start \o <<x>>
        BY <3>2, <4>1, <4>3
      <4> QED
        BY <3>1, <4>4, <4>5, PiecesJoined
    <3>4. place = whole \o path
      BY <2>2, <3>2
    <3>5. place \in Seq(Piece) /\ place # << >> /\ place[1] = "git@"
      BY <3>3, <3>4
    <3>6. place \o suffix = whole \o more
      BY <1>3, <1>5, <3>4, PiecesThrice
    <3> QED
      BY <3>2, <3>5, <3>6 DEF Schemes
  <2>3. CASE place = <<"git@">> \o host \o <<":">> \o path
    BY <2>2, <2>3, WithoutUserIs, RemoteAssumption
  <2>4. CASE place = <<"git@">> \o host \o <<"/">> \o path /\ ~Contains(path, ":")
    BY <1>6, <2>2, <2>4, WithoutUserIs, RemoteAssumption
  <2> QED
    BY <1>1, <1>2, <2>1, <2>3, <2>4 DEF Places
<1>8. WithoutScheme(url) = place \o suffix
  <2>1. PICK rest \in Seq(Piece) : rest = place \o suffix
    BY <1>3, <1>7, PiecesJoined
  <2>2. rest # << >> /\ rest[1] \notin Schemes
    <3>1. Len(place) \in Nat \ {0}
      BY <1>7, EmptySeq, PiecesJoined
    <3>2. Len(rest) > 0 /\ rest[1] = place[1]
      BY <1>3, <1>7, <2>1, <3>1, PiecesJoined
    <3> QED
      BY <1>7, <3>2
  <2>3. url = scheme \o rest
    <3>1. (scheme \o place) \o suffix = scheme \o (place \o suffix)
      <4>1. PICK s \in Seq(Piece) : s = scheme
        BY <1>3
      <4>2. PICK t \in Seq(Piece) : t = place
        BY <1>7
      <4>3. PICK u \in Seq(Piece) : u = suffix
        BY <1>3
      <4>4. (s \o t) \o u = s \o (t \o u)
        BY PiecesThrice
      <4> QED
        BY <4>1, <4>2, <4>3, <4>4
    <3> QED
      BY <1>2, <2>1, <3>1
  <2>4. CASE scheme = << >>
    <3>1. url = rest
      BY <2>1, <2>3, <2>4
    <3> QED
      BY <2>1, <2>2, <3>1 DEF WithoutScheme
  <2>5. CASE \E x \in Schemes : scheme = <<x>>
    BY <2>1, <2>2, <2>3, <2>5, WithoutSchemeIs
  <2> QED
    BY <1>2, <2>4, <2>5
<1>9. /\ named \in Seq(Piece) /\ named # << >> /\ Last(named) # ".git"
      /\ host \o <<"/">> \o more = named \o suffix
  <2>1. PICK start \in Seq(Piece) : start = host \o <<"/">>
    BY <1>3, PiecesJoined
  <2>2. Len(path) \in Nat \ {0} /\ Len(start \o path) = Len(start) + Len(path) /\ Len(start) \in Nat
    BY <1>1, <2>1, EmptySeq
  <2>3. start \o path \in Seq(Piece) /\ start \o path # << >> /\ Last(start \o path) = Last(path)
    BY <2>2 DEF Last
  <2>4. start \o more = (start \o path) \o suffix
    BY <1>3, <1>5, PiecesThrice
  <2> QED
    BY <1>1, <2>1, <2>3, <2>4
<1>10. CleanRepoURL(url) = WithoutSuffix(named \o suffix)
  BY <1>7, <1>8, <1>9 DEF CleanRepoURL
<1>11. WithoutSuffix(named \o suffix) = named
  <2>1. CASE suffix = << >>
    <3>1. named \o << >> = named
      BY <1>9, ConcatEmptySeq
    <3> HIDE DEF named
    <3> QED
      BY <1>9, <2>1, <3>1, WithoutSuffixIs
  <2>2. CASE suffix = <<".git">>
    <3> HIDE DEF named
    <3> QED
      BY <1>9, <2>2, WithoutSuffixIs
  <2> QED
    BY <1>2, <2>1, <2>2
<1> QED
  BY <1>1, <1>10, <1>11

-----------------------------------------------------------------------------
(* The invariant of all three.                                             *)

LEMMA RemoteSafe == RemoteSpec => []RemoteIInv
<1>1. RemoteInit => RemoteIInv
  <2> SUFFICES ASSUME RemoteInit PROVE RemoteIInv
    OBVIOUS
  <2>1. CASE \E lines \in Listings, tagsOK \in BOOLEAN : remote = PickStart(lines, tagsOK)
    <3>1. remote \in PickState /\ remote.step = "read" /\ remote.read = 0 /\ remote.best = NoLine
          /\ remote.lines \in Seq(Line)
      BY <2>1, RemoteAssumption DEF PickStart, PickState
    <3>2. \A i \in DOMAIN remote.lines : remote.read < i
      BY <3>1
    <3> QED
      BY <3>1, <3>2 DEF RemoteIInv, PickSafe, BestSoFar, NoneRead, Listed, HeadChosen
  <2>2. CASE \E at \in Located : \E url \in Spellings(at) : remote = CleanStart(at, url)
    BY <2>2 DEF CleanStart, CleanState, CleanSafe, RemoteIInv, HeadChosen
  <2>3. CASE \E h \in Histories : remote = ScheduleStart(h)
    BY <2>3 DEF ScheduleStart, ScheduleState, ScheduleSafe, RemoteIInv, HeadChosen
  <2>4. PICK starts : starts = UNION {{CleanStart(at, url) : url \in Spellings(at)} : at \in Located}
    OBVIOUS
  <2>5. remote \in starts => \E at \in Located : \E url \in Spellings(at) : remote = CleanStart(at, url)
    BY <2>4
  <2>6. remote \in {PickStart(lines, tagsOK) : lines \in Listings, tagsOK \in BOOLEAN}
            \cup starts \cup {ScheduleStart(h) : h \in Histories}
    BY <2>4 DEF RemoteInit, RemoteStarts
  <2> QED
    BY <2>1, <2>2, <2>3, <2>5, <2>6
<1>2. RemoteIInv /\ [RemoteNext]_remote => RemoteIInv'
  <2> SUFFICES ASSUME RemoteIInv, [RemoteNext]_remote PROVE RemoteIInv'
    OBVIOUS
  <2>1. CASE ReadsLine
    BY <2>1, ReadsLineSafe DEF RemoteIInv, ReadsLine, Tasked, ScheduleSafe, ScheduleState, CleanState, CleanSafe
  <2>2. CASE ReadsEnd
    BY <2>2, ReadsEndSafe DEF RemoteIInv, ReadsEnd, Tasked, ScheduleSafe, ScheduleState, CleanState, CleanSafe
  <2>3. CASE Cleans
    <3>1. CleanSafe /\ remote.step = "read"
      BY <2>3 DEF RemoteIInv, Cleans, Tasked, PickSafe, PickState, ScheduleSafe, ScheduleState
    <3>2. PICK at \in Located : at = remote.at
      BY <3>1 DEF CleanSafe, CleanState
    <3>3. PICK url \in Spellings(at) : url = remote.url
      BY <3>1, <3>2 DEF CleanSafe
    <3>4. remote' = [remote EXCEPT !.url = CleanRepoURL(url), !.step = "done"]
      BY <2>3, <3>2, <3>3 DEF Cleans
    <3>5. /\ remote' \in CleanState' /\ remote'.at = at /\ remote'.step = "done"
          /\ remote'.url = CleanRepoURL(url)
      BY <3>1, <3>2, <3>4, <3>3 DEF CleanSafe, CleanState
    <3>6. CleanRepoURL(url) = at.host \o <<"/">> \o at.path
      BY SpellingCleaned
    <3>7. CleanSafe'
      BY <3>5, <3>6 DEF CleanSafe
    <3> QED
      BY <3>5, <3>7 DEF RemoteIInv, HeadChosen, CleanState
  <2>4. CASE Schedules
    <3>1. remote \in ScheduleState /\ remote.step = "read"
      BY <2>4 DEF RemoteIInv, Schedules, Tasked, PickSafe, PickState, ScheduleSafe, CleanState, CleanSafe
    <3>2. ShouldCheck(remote.history) \in BOOLEAN
      BY DEF ShouldCheck
    <3>3. /\ remote' \in ScheduleState /\ remote'.history = remote.history
          /\ remote'.due = ShouldCheck(remote.history)
      BY <2>4, <3>1, <3>2 DEF Schedules, ScheduleState
    <3> QED
      BY <3>3 DEF RemoteIInv, HeadChosen, ScheduleSafe, ScheduleState
  <2>5. CASE UNCHANGED remote
    BY <2>5 DEF RemoteIInv, HeadChosen, IsFirst, Listed, PickSafe, BestSoFar, FirstRead, NoneRead,
                ScheduleSafe, CleanState, CleanSafe
  <2> QED
    BY <2>1, <2>2, <2>3, <2>4, <2>5 DEF RemoteNext
<1> QED
  BY <1>1, <1>2, PTL DEF RemoteSpec

\* For a listing of any length, in any order: master is chosen, else the first
\* branch, else HEAD (poll.go:222-263).
THEOREM HeadIsChosen == RemoteSpec => []HeadChosen
<1>1. RemoteIInv => HeadChosen
  BY DEF RemoteIInv
<1> QED
  BY <1>1, RemoteSafe, PTL

\* For any host and path: every spelling of their URL gives the same key
\* (poll.go:298-313).
THEOREM SpellingsHaveOneKey == RemoteSpec => []SpellingsAgree
<1>1. RemoteIInv => SpellingsAgree
  BY DEF RemoteIInv, PickSafe, PickState, ScheduleSafe, ScheduleState, CleanSafe, SpellingsAgree
<1> QED
  BY <1>1, RemoteSafe, PTL

\* For any history and any times: a repository is not due before its minimal
\* interval is over, and is due once the average gap has passed too
\* (result.go:49-79).
THEOREM ChecksAreDue == RemoteSpec => []DueInTime
<1>1. ASSUME RemoteIInv PROVE DueInTime
  <2> SUFFICES ASSUME remote.task = "schedule", remote.step = "done" PROVE DueInTime
    BY DEF DueInTime
  <2>1. PICK h \in Histories : h = remote.history /\ remote.due = ShouldCheck(h)
    BY <1>1 DEF RemoteIInv, PickSafe, PickState, ScheduleSafe, ScheduleState, CleanState, CleanSafe
  <2>2. h.min \in Nat /\ h.lastCheck \in Nat /\ h.now \in Nat /\ h.updates \in Seq(Nat)
    BY RemoteAssumption
  <2>3. PICK n \in Nat : n = Len(h.updates)
    BY <2>2
  <2>4. PICK age \in Int : age = h.now - h.lastCheck
    BY <2>2
  <2>5. h.lastCheck + h.min <= h.now <=> h.min <= age
    BY <2>2, <2>4
  <2>6. CASE n = 0
    <3>1. h.updates = << >>
      BY <2>2, <2>3, <2>6, EmptySeq
    <3>2. remote.due <=> h.min = 0 \/ h.min <= age
      BY <2>1, <2>5, <3>1 DEF ShouldCheck
    <3> QED
      BY <2>1, <2>4, <3>2 DEF DueInTime
  <2>7. CASE n # 0
    <3>1. h.updates # << >> /\ h.updates[1] \in Nat /\ Last(h.updates) \in Nat
      BY <2>2, <2>3, <2>7 DEF Last
    <3>2. PICK span \in Int : span = Last(h.updates) - h.updates[1]
      BY <3>1
    <3>3. PICK gap \in Int : gap = span \div n
      BY <2>3, <2>7, <3>2
    <3>4. AverageGap(h.updates) = gap
      BY <2>3, <3>2, <3>3 DEF AverageGap
    <3>5. h.lastCheck + gap < h.now <=> gap < age
      BY <2>2, <2>4, <3>3
    <3>6. remote.due <=> h.min = 0 \/ (h.min <= age /\ gap < age)
      BY <2>1, <2>5, <3>1, <3>4, <3>5 DEF ShouldCheck
    <3>7. ASSUME age > 0, span <= age * (n - 1) PROVE gap < age
      <4>1. age \in Nat /\ n > 0
        BY <2>3, <2>4, <2>7, <3>7
      <4> QED
        BY <3>2, <3>3, <3>7, <4>1, GapBelow
    <3>8. h.min <= age /\ age > 0 /\ span <= age * (n - 1) => remote.due
      BY <3>6, <3>7
    <3> QED
      BY <2>1, <2>3, <2>4, <2>7, <3>2, <3>6, <3>8 DEF DueInTime
  <2> QED
    BY <2>6, <2>7
<1> QED
  BY <1>1, RemoteSafe, PTL
=============================================================================
