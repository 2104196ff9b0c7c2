---------------------------- MODULE LinksProofs -----------------------------
(***************************************************************************)
(* The algorithms over a graph at rest: what the work list of              *)
(* tools/transdeps computes, what the quads of a graph say, and what the   *)
(* rounds of Rank do to the weights.                                       *)
(***************************************************************************)
EXTENDS Closure, Ranking, Quads, FiniteSetTheorems, SequenceTheorems, WellFoundedInduction, TLAPS

-----------------------------------------------------------------------------
(* The work list of tools/transdeps computes the closure, for any graph, any*)
(* arguments and any order of visits.                                      *)

\* Everything known so far is reachable.
OnlyReachable == \A p \in closure.seen \cup closure.todo :
    Reachable(closure.graph, closure.args, p)

\* Nothing known so far is forgotten: it is seen, waits, or has no row.
Reached(p) == p \in closure.seen \/ p \in closure.todo \/ p \notin DOMAIN closure.graph
NothingForgotten ==
    ~closure.lost =>
        \A p \in closure.args \cup Imported(closure.graph, closure.seen) : Reached(p)

DeadAreStd == closure.dead = {p \in closure.seen : closure.noStdLib /\ p \in StdLib}

Working ==
    closure.step = "work" =>
        /\ closure.seen \subseteq DOMAIN closure.graph
        /\ OnlyReachable /\ NothingForgotten /\ DeadAreStd

ClosureTypeOK == closure \in ClosureState

ClosureIInv == ClosureTypeOK /\ Working /\ ClosureExact

\* A row's imports are reachable if the row is.
LEMMA ImportsReachable ==
    ASSUME NEW g \in LinkGraphs, NEW args \in Arguments, NEW p \in DOMAIN g,
           Reachable(g, args, p), NEW q \in g[p]
    PROVE  Reachable(g, args, q)
<1> SUFFICES ASSUME NEW ps \in SUBSET Paths, Closed(g, args, ps)
             PROVE  q \in ps
  BY DEF Reachable
<1>1. p \in ps
  BY DEF Reachable
<1> QED
  BY <1>1 DEF Closed, Imported

\* When nothing waits any more, what was seen is all that can be reached.
LEMMA SeenIsClosed ==
    ASSUME ClosureTypeOK, NothingForgotten, ~closure.lost,
           closure.todo \subseteq closure.seen,
           NEW p \in DOMAIN closure.graph, Reachable(closure.graph, closure.args, p)
    PROVE  p \in closure.seen
<1> DEFINE all == {q \in Paths : q \in closure.seen \/ q \notin DOMAIN closure.graph}
<1>1. /\ closure.args \subseteq Paths /\ closure.seen \subseteq Paths
      /\ closure.graph \in LinkGraphs
  BY ClosureAssumption DEF ClosureTypeOK, ClosureState
<1>2. Imported(closure.graph, all) \subseteq Imported(closure.graph, closure.seen)
  BY DEF Imported
<1>3. Imported(closure.graph, closure.seen) \subseteq Paths
  BY <1>1, LinksAssumption DEF Imported
<1>4. \A q \in closure.args \cup Imported(closure.graph, closure.seen) : q \in all
  BY <1>1, <1>3 DEF NothingForgotten, Reached
<1>5. Closed(closure.graph, closure.args, all)
  BY <1>2, <1>4 DEF Closed
<1>6. all \in SUBSET Paths
  OBVIOUS
<1> QED
  BY <1>5, <1>6 DEF Reachable

LEMMA ClosureStarts_IInv == ClosureInit => ClosureIInv
<1> SUFFICES ASSUME NEW g \in LinkGraphs, NEW args \in Arguments, NEW noStd \in BOOLEAN,
                    closure = ClosureStart(g, args, noStd)
             PROVE  ClosureIInv
  BY DEF ClosureInit, ClosureStarts
<1>1. args \subseteq Paths
  BY ClosureAssumption
<1>2. ClosureTypeOK
  BY <1>1 DEF ClosureTypeOK, ClosureState, ClosureStart
<1>3. OnlyReachable
  BY DEF OnlyReachable, Reachable, Closed, ClosureStart
<1>4. Imported(g, {}) = {}
  BY DEF Imported
<1>5. NothingForgotten
  BY <1>4 DEF NothingForgotten, Reached, ClosureStart
<1> QED
  BY <1>2, <1>3, <1>5 DEF ClosureIInv, Working, DeadAreStd, ClosureExact, ClosureStart

LEMMA VisitKeeps ==
    ASSUME ClosureIInv, NEW p \in Paths, Visits(p)
    PROVE  ClosureIInv'
<1> USE DEF ClosureIInv
<1>1. /\ closure.step = "work" /\ closure.step' = "work"
      /\ closure.graph' = closure.graph /\ closure.args' = closure.args
      /\ closure.lost' = closure.lost /\ closure.noStdLib' = closure.noStdLib
  BY DEF Visits, ClosureTypeOK, ClosureState
<1>2. /\ closure.graph \in LinkGraphs /\ closure.args \in Arguments
      /\ closure.seen \subseteq DOMAIN closure.graph
      /\ OnlyReachable /\ NothingForgotten /\ DeadAreStd /\ p \in closure.todo
  BY <1>1 DEF Visits, Working, ClosureTypeOK, ClosureState
<1>3. CASE Fresh(p)
  <2>1. /\ closure.seen' = closure.seen \cup {p} /\ p \in DOMAIN closure.graph
        /\ closure.todo' = (closure.todo \ {p}) \cup closure.graph[p]
        /\ closure.dead' = IF closure.noStdLib /\ p \in StdLib
                           THEN closure.dead \cup {p} ELSE closure.dead
    BY <1>3 DEF Visits, Fresh, ClosureTypeOK, ClosureState
  <2>2. closure.graph[p] \subseteq Paths
    BY <1>2, <2>1, LinksAssumption
  <2>3. ClosureTypeOK'
    BY <1>3, <2>2 DEF Visits, ClosureTypeOK, ClosureState
  <2>4. OnlyReachable'
    BY <1>1, <1>2, <2>1, ImportsReachable DEF OnlyReachable
  <2>5. Imported(closure.graph, closure.seen \cup {p})
          \subseteq Imported(closure.graph, closure.seen) \cup closure.graph[p]
    BY <2>1 DEF Imported
  <2>6. NothingForgotten'
    BY <1>1, <1>2, <2>1, <2>5 DEF NothingForgotten, Reached
  <2>7. DeadAreStd'
    BY <1>1, <1>2, <2>1 DEF DeadAreStd
  <2> QED
    BY <1>1, <1>2, <2>1, <2>3, <2>4, <2>6, <2>7 DEF Working, ClosureExact
<1>4. CASE ~Fresh(p)
  <2>1. /\ closure.seen' = closure.seen /\ closure.dead' = closure.dead
        /\ closure.todo' = closure.todo \ {p}
        /\ p \in closure.seen \/ p \notin DOMAIN closure.graph
    BY <1>4 DEF Visits, Fresh, ClosureTypeOK, ClosureState
  <2>2. ClosureTypeOK'
    BY <1>4 DEF Visits, ClosureTypeOK, ClosureState
  <2>3. OnlyReachable' /\ NothingForgotten' /\ DeadAreStd'
    BY <1>1, <1>2, <2>1 DEF OnlyReachable, NothingForgotten, Reached, DeadAreStd
  <2> QED
    BY <1>1, <1>2, <2>1, <2>2, <2>3 DEF Working, ClosureExact
<1> QED
  BY <1>3, <1>4

LEMMA VisitFailureKeeps ==
    ASSUME ClosureIInv, NEW p \in Paths, VisitFails(p)
    PROVE  ClosureIInv'
<1> USE DEF ClosureIInv
<1>1. /\ closure.step = "work" /\ closure.step' = "work" /\ closure.lost' = TRUE
      /\ closure.graph' = closure.graph /\ closure.args' = closure.args
      /\ closure.noStdLib' = closure.noStdLib /\ closure.seen' = closure.seen
      /\ closure.dead' = closure.dead /\ closure.todo' = closure.todo \ {p}
  BY DEF VisitFails, ClosureTypeOK, ClosureState
<1>2. ClosureTypeOK'
  BY DEF VisitFails, ClosureTypeOK, ClosureState
<1> QED
  BY <1>1, <1>2 DEF Working, OnlyReachable, NothingForgotten, DeadAreStd, ClosureExact

LEMMA RoundEndKeeps ==
    ASSUME ClosureIInv, RoundEnds
    PROVE  ClosureIInv'
<1> USE DEF ClosureIInv
<1>1. /\ closure.step = "work" /\ closure.lost \in BOOLEAN
      /\ closure.graph' = closure.graph /\ closure.args' = closure.args
      /\ closure.lost' = closure.lost /\ closure.noStdLib' = closure.noStdLib
  BY DEF RoundEnds, ClosureTypeOK, ClosureState
<1>2. ClosureTypeOK'
  BY DEF RoundEnds, ClosureTypeOK, ClosureState
<1>3. /\ closure.seen \subseteq DOMAIN closure.graph
      /\ OnlyReachable /\ NothingForgotten /\ DeadAreStd
  BY <1>1 DEF Working
<1>4. CASE closure.todo \ closure.seen # {}
  <2>1. /\ closure.step' = "work" /\ closure.seen' = closure.seen
        /\ closure.dead' = closure.dead /\ closure.todo' = closure.todo \ closure.seen
    BY <1>4 DEF RoundEnds, ClosureTypeOK, ClosureState
  <2>2. OnlyReachable' /\ NothingForgotten' /\ DeadAreStd'
    BY <1>1, <1>3, <2>1 DEF OnlyReachable, NothingForgotten, Reached, DeadAreStd
  <2> QED
    BY <1>1, <1>2, <1>3, <2>1, <2>2 DEF Working, ClosureExact
<1>5. CASE closure.todo \ closure.seen = {}
  <2>1. closure.step' = "done" /\ closure.seen' = closure.seen \ closure.dead
    BY <1>5 DEF RoundEnds, ClosureTypeOK, ClosureState
  <2>2. ASSUME ~closure.lost
        PROVE  \A p \in DOMAIN closure.graph :
                   p \in closure.seen <=> Reachable(closure.graph, closure.args, p)
    BY <1>3, <1>5, <2>2, SeenIsClosed DEF OnlyReachable
  <2>3. ClosureExact'
    BY <1>1, <1>3, <2>1, <2>2 DEF ClosureExact, DeadAreStd
  <2> QED
    BY <1>2, <2>1, <2>3 DEF Working
<1> QED
  BY <1>4, <1>5

\* Whatever the graph, the arguments and the order of visits, a closure without
\* failed calls prints the reachable rows and nothing else (transdeps.go:49-76).
THEOREM ClosureIsExact == ClosureSpec => []ClosureExact
<1>1. ClosureInit => ClosureIInv
  BY ClosureStarts_IInv
<1>2. ClosureIInv /\ [ClosureNext]_closure => ClosureIInv'
  <2> SUFFICES ASSUME ClosureIInv, [ClosureNext]_closure
               PROVE  ClosureIInv'
    OBVIOUS
  <2>1. ASSUME UNCHANGED closure
        PROVE  ClosureIInv'
    BY <2>1 DEF ClosureIInv, ClosureTypeOK, Working, OnlyReachable, NothingForgotten,
                Reached, DeadAreStd, ClosureExact
  <2> QED
    BY <2>1, VisitKeeps, VisitFailureKeeps, RoundEndKeeps DEF ClosureNext
<1>3. ClosureIInv => ClosureExact
  BY DEF ClosureIInv
<1> QED
  BY <1>1, <1>2, <1>3, PTL DEF ClosureSpec

-----------------------------------------------------------------------------
(* EncodeToQuads describes the imports between rows, for any graph and any  *)
(* source files.                                                           *)

Numbering(K) == UNION {[S -> Nat] : S \in SUBSET K}

EncodingState ==
    [graph : LinkGraphs, todo : SUBSET Paths, step : {"scan", "done", "failed"},
     row : Paths \cup {0}, imports : SUBSET Paths, files : SUBSET Nat,
     pkgs : Numbering(Paths), shas : Numbering(Nat), last : Nat,
     defn : SUBSET Paths, need : SUBSET Paths,
     quads : SUBSET (Nat \X {"import-path", "imports", "digest"} \X (Paths \cup Nat))]

\* One sequence numbers two maps: no two keys have the same node.
Numbered(e) ==
    /\ \A p \in DOMAIN e.pkgs : 0 < e.pkgs[p] /\ e.pkgs[p] <= e.last
    /\ \A s \in DOMAIN e.shas : 0 < e.shas[s] /\ e.shas[s] <= e.last
    /\ \A p, q \in DOMAIN e.pkgs : e.pkgs[p] = e.pkgs[q] => p = q
    /\ \A s, t \in DOMAIN e.shas : e.shas[s] = e.shas[t] => s = t
    /\ \A p \in DOMAIN e.pkgs, s \in DOMAIN e.shas : e.pkgs[p] # e.shas[s]

\* The rows encoded, and the imports encoded of them.
Begun(e) == DOMAIN e.graph \ e.todo
Encoded(e, p, t) == p \in Begun(e) /\ t \in e.graph[p] /\ (p = e.row => t \notin e.imports)

\* Whatever is named has a node, so no package is left for a dummy row.
NodesKnown(e) ==
    /\ e.need \subseteq DOMAIN e.pkgs
    /\ Begun(e) \subseteq DOMAIN e.pkgs
    /\ \A p, t \in Paths : Encoded(e, p, t) => t \in DOMAIN e.pkgs

RowSent(e, p) == <<e.pkgs[p], "import-path", p>>
ImportSent(e, p, t) == <<e.pkgs[p], "imports", e.pkgs[t]>>
FileSent(e, s) == <<e.shas[s], "digest", s>>

\* What was sent is what was encoded.
Described(e) ==
    /\ \A quad \in e.quads :
           \/ \E p \in Begun(e) : quad = RowSent(e, p)
           \/ \E p, t \in Paths : Encoded(e, p, t) /\ quad = ImportSent(e, p, t)
           \/ \E s \in DOMAIN e.shas : quad = FileSent(e, s)
    /\ \A p \in Begun(e) : RowSent(e, p) \in e.quads
    /\ \A p, t \in Paths : Encoded(e, p, t) => ImportSent(e, p, t) \in e.quads

\* What is left of the row at hand.
AtRow(e) ==
    /\ e.imports # {} => e.row \in Begun(e) /\ e.imports \subseteq e.graph[e.row]
    /\ e.step # "scan" => e.imports = {} /\ e.files = {}

EncodingIInv ==
    LET e == encoding IN
    /\ e \in EncodingState
    /\ e.todo \subseteq DOMAIN e.graph
    /\ AtRow(e)
    /\ e.step # "failed" => Numbered(e) /\ NodesKnown(e) /\ Described(e)
    /\ e.step = "done" => e.todo = {}

LEMMA NumberingPut ==
    ASSUME NEW K, NEW map \in Numbering(K), NEW k \in K, NEW n \in Nat
    PROVE  Put(map, k, n) \in Numbering(K)
<1>1. PICK S \in SUBSET K : map \in [S -> Nat]
  BY DEF Numbering
<1>2. Put(map, k, n) \in [S \cup {k} -> Nat] /\ S \cup {k} \in SUBSET K
  BY <1>1 DEF Put
<1> QED
  BY <1>1, <1>2 DEF Put, Numbering

\* Nodes are numbers.
LEMMA NodesTyped ==
    ASSUME NEW e \in EncodingState
    PROVE  /\ \A p \in DOMAIN e.pkgs : e.pkgs[p] \in Nat /\ p \in Paths
           /\ \A s \in DOMAIN e.shas : e.shas[s] \in Nat /\ s \in Nat
<1>1. e.pkgs \in Numbering(Paths) /\ e.shas \in Numbering(Nat)
  BY DEF EncodingState
<1>2. PICK S \in SUBSET Paths : e.pkgs \in [S -> Nat]
  BY <1>1 DEF Numbering
<1>3. PICK D \in SUBSET Nat : e.shas \in [D -> Nat]
  BY <1>1 DEF Numbering
<1> QED
  BY <1>2, <1>3

\* From e to r, the mention of a package, or of a file, has left the rest alone.
PackageMentioned(e, r, p) ==
    /\ DOMAIN r.pkgs = DOMAIN e.pkgs \cup {p}
    /\ \A q \in DOMAIN e.pkgs : r.pkgs[q] = e.pkgs[q]
    /\ r = [e EXCEPT !.pkgs = r.pkgs, !.last = r.last]
FileMentioned(e, r, s) ==
    /\ DOMAIN r.shas = DOMAIN e.shas \cup {s}
    /\ \A t \in DOMAIN e.shas : r.shas[t] = e.shas[t]
    /\ r = [e EXCEPT !.shas = r.shas, !.last = r.last]

\* A key mentioned gets a node of its own if it had none; the others keep theirs.
LEMMA PackageNumbered ==
    ASSUME NEW e \in EncodingState, Numbered(e), NEW p \in Paths,
           NEW r, r = Assigned(e, "pkgs", p)
    PROVE  r \in EncodingState /\ Numbered(r) /\ PackageMentioned(e, r, p)
<1>1. CASE p \in DOMAIN e.pkgs
  <2>1. r = e
    BY <1>1 DEF Assigned
  <2> QED
    BY <1>1, <2>1 DEF EncodingState, PackageMentioned
<1>2. CASE p \notin DOMAIN e.pkgs
  <2> DEFINE put == Put(e.pkgs, p, e.last + 1)
  <2>1. r = [e EXCEPT !.pkgs = put, !.last = e.last + 1]
    BY <1>2 DEF Assigned, NewNode, EncodingState
  <2>2. e.pkgs \in Numbering(Paths) /\ e.last + 1 \in Nat /\ e.last \in Nat
    BY DEF EncodingState
  <2>3. /\ put \in Numbering(Paths) /\ DOMAIN put = DOMAIN e.pkgs \cup {p}
        /\ put[p] = e.last + 1 /\ \A q \in DOMAIN e.pkgs : put[q] = e.pkgs[q]
    <3> HIDE DEF put
    <3>1. \A x \in DOMAIN e.pkgs : x # p
      BY <1>2
    <3>2. /\ DOMAIN put = DOMAIN e.pkgs \cup {p}
          /\ put[p] = e.last + 1 /\ \A x \in DOMAIN e.pkgs : x # p => put[x] = e.pkgs[x]
      BY DEF put, Put
    <3>3. put \in Numbering(Paths)
      BY <2>2, NumberingPut, Zenon DEF put
    <3> QED
      BY <3>1, <3>2, <3>3
  <2>4. r.pkgs = put /\ r.last = e.last + 1 /\ r.shas = e.shas
    BY <2>1 DEF EncodingState
  <2> HIDE DEF put
  <2>5. r \in EncodingState
    BY <2>1, <2>2, <2>3 DEF EncodingState
  <2>6. \A s \in DOMAIN e.shas : e.shas[s] \in Nat
    BY NodesTyped
  <2>7. \A q \in DOMAIN e.pkgs : e.pkgs[q] \in Nat
    BY NodesTyped
  <2>8. Numbered(r)
    BY <2>2, <2>3, <2>4, <2>6, <2>7, <1>2 DEF Numbered
  <2> QED
    BY <2>1, <2>3, <2>4, <2>5, <2>8 DEF PackageMentioned
<1> QED
  BY <1>1, <1>2

\* The same of the files.
LEMMA FileNumbered ==
    ASSUME NEW e \in EncodingState, Numbered(e), NEW s \in Nat,
           NEW r, r = Assigned(e, "shas", s)
    PROVE  r \in EncodingState /\ Numbered(r) /\ FileMentioned(e, r, s)
<1>1. CASE s \in DOMAIN e.shas
  <2>1. r = e
    BY <1>1 DEF Assigned
  <2> QED
    BY <1>1, <2>1 DEF EncodingState, FileMentioned
<1>2. CASE s \notin DOMAIN e.shas
  <2> DEFINE put == Put(e.shas, s, e.last + 1)
  <2>1. r = [e EXCEPT !.shas = put, !.last = e.last + 1]
    BY <1>2 DEF Assigned, NewNode, EncodingState
  <2>2. e.shas \in Numbering(Nat) /\ e.last + 1 \in Nat /\ e.last \in Nat
    BY DEF EncodingState
  <2>3. /\ put \in Numbering(Nat) /\ DOMAIN put = DOMAIN e.shas \cup {s}
        /\ put[s] = e.last + 1 /\ \A t \in DOMAIN e.shas : put[t] = e.shas[t]
    <3> HIDE DEF put
    <3>1. \A x \in DOMAIN e.shas : x # s
      BY <1>2
    <3>2. /\ DOMAIN put = DOMAIN e.shas \cup {s}
          /\ put[s] = e.last + 1 /\ \A x \in DOMAIN e.shas : x # s => put[x] = e.shas[x]
      BY DEF put, Put
    <3>3. put \in Numbering(Nat)
      BY <2>2, NumberingPut, Zenon DEF put
    <3> QED
      BY <3>1, <3>2, <3>3
  <2>4. r.shas = put /\ r.last = e.last + 1 /\ r.pkgs = e.pkgs
    BY <2>1 DEF EncodingState
  <2> HIDE DEF put
  <2>5. r \in EncodingState
    BY <2>1, <2>2, <2>3 DEF EncodingState
  <2>6. \A t \in DOMAIN e.shas : e.shas[t] \in Nat
    BY NodesTyped
  <2>7. \A q \in DOMAIN e.pkgs : e.pkgs[q] \in Nat
    BY NodesTyped
  <2>8. Numbered(r)
    BY <2>2, <2>3, <2>4, <2>6, <2>7, <1>2 DEF Numbered
  <2> QED
    BY <2>1, <2>3, <2>4, <2>5, <2>8 DEF FileMentioned
<1> QED
  BY <1>1, <1>2

\* Nodes that are kept and one quad more describe a row, an import or a file more.
LEMMA QuadSent ==
    ASSUME NEW e \in EncodingState, NEW f, NodesKnown(e), Described(e), NEW quad,
           f.quads = e.quads \cup {quad},
           DOMAIN e.pkgs \subseteq DOMAIN f.pkgs, \A p \in DOMAIN e.pkgs : f.pkgs[p] = e.pkgs[p],
           DOMAIN e.shas \subseteq DOMAIN f.shas, \A s \in DOMAIN e.shas : f.shas[s] = e.shas[s],
           Begun(e) \subseteq Begun(f), \A p \in Begun(f) \ Begun(e) : quad = RowSent(f, p),
           \A p, t \in Paths : Encoded(e, p, t) => Encoded(f, p, t),
           \A p, t \in Paths : Encoded(f, p, t) /\ ~Encoded(e, p, t) => quad = ImportSent(f, p, t),
           \/ \E p \in Begun(f) : quad = RowSent(f, p)
           \/ \E p, t \in Paths : Encoded(f, p, t) /\ quad = ImportSent(f, p, t)
           \/ \E s \in DOMAIN f.shas : quad = FileSent(f, s)
    PROVE  Described(f)
<1>1. \A p \in Begun(e) : RowSent(f, p) = RowSent(e, p)
  BY DEF NodesKnown, RowSent
<1>2. \A p, t \in Paths : Encoded(e, p, t) => ImportSent(f, p, t) = ImportSent(e, p, t)
  BY DEF NodesKnown, ImportSent, Encoded
<1>3. \A s \in DOMAIN e.shas : FileSent(f, s) = FileSent(e, s)
  BY DEF FileSent
<1>4. ASSUME NEW q \in f.quads
      PROVE  \/ \E p \in Begun(f) : q = RowSent(f, p)
             \/ \E p, t \in Paths : Encoded(f, p, t) /\ q = ImportSent(f, p, t)
             \/ \E s \in DOMAIN f.shas : q = FileSent(f, s)
  <2>1. CASE q = quad
    BY <2>1
  <2>2. CASE q \in e.quads
    <3>1. CASE \E p \in Begun(e) : q = RowSent(e, p)
      BY <1>1, <3>1
    <3>2. CASE \E p, t \in Paths : Encoded(e, p, t) /\ q = ImportSent(e, p, t)
      BY <1>2, <3>2
    <3>3. CASE \E s \in DOMAIN e.shas : q = FileSent(e, s)
      BY <1>3, <3>3
    <3> QED
      BY <2>2, <3>1, <3>2, <3>3 DEF Described
  <2> QED
    BY <1>4, <2>1, <2>2
<1>5. \A p \in Begun(f) : RowSent(f, p) \in f.quads
  BY <1>1 DEF Described
<1>6. \A p, t \in Paths : Encoded(f, p, t) => ImportSent(f, p, t) \in f.quads
  BY <1>2 DEF Described
<1> QED
  BY <1>4, <1>5, <1>6 DEF Described

LEMMA EncodesRowSafe ==
    ASSUME EncodingIInv, NEW p \in Paths, EncodesRow(p)
    PROVE  EncodingIInv'
<1> DEFINE e == encoding
           r == Assigned(e, "pkgs", p)
           f == [Sent(r, r.pkgs[p], "import-path", p) EXCEPT
                    !.todo = @ \ {p}, !.row = p, !.imports = r.graph[p], !.files = SourcesOf[p],
                    !.defn = @ \cup {p}, !.need = @ \ {p}]
<1>1. /\ e \in EncodingState /\ AtRow(e) /\ e.todo \subseteq DOMAIN e.graph
      /\ e.step = "scan" /\ e.imports = {} /\ e.files = {} /\ p \in e.todo
      /\ Numbered(e) /\ NodesKnown(e) /\ Described(e)
  BY DEF EncodingIInv, EncodesRow, RowDone, IsLeast
<1>2. /\ r \in EncodingState /\ Numbered(r)
      /\ DOMAIN r.pkgs = DOMAIN e.pkgs \cup {p}
      /\ \A q \in DOMAIN e.pkgs : r.pkgs[q] = e.pkgs[q]
      /\ r = [e EXCEPT !.pkgs = r.pkgs, !.last = r.last]
  <2> HIDE DEF e, r
  <2>1. r = Assigned(e, "pkgs", p)
    BY DEF r
  <2>2. r \in EncodingState /\ Numbered(r) /\ PackageMentioned(e, r, p)
    BY <1>1, <2>1, PackageNumbered, Zenon
  <2> QED
    BY <2>2 DEF PackageMentioned
<1>3. /\ e.graph \in LinkGraphs /\ r.graph = e.graph /\ r.todo = e.todo /\ r.shas = e.shas
      /\ r.quads = e.quads /\ r.step = e.step /\ r.need = e.need /\ r.row = e.row
  <2> HIDE DEF r
  <2> QED
    BY <1>1, <1>2 DEF EncodingState
<1>4. encoding' = f
  BY DEF EncodesRow, e
<1>5. e.graph[p] \in SUBSET Paths /\ SourcesOf[p] \in SUBSET Nat /\ r.pkgs[p] \in Nat
  <2> HIDE DEF e, r
  <2> QED
    BY <1>1, <1>2, <1>3, NodesTyped, LinksAssumption, QuadsAssumption
<1> HIDE DEF e, r
<1>6. /\ f.graph = e.graph /\ f.todo = e.todo \ {p} /\ f.step = "scan" /\ f.row = p
      /\ f.imports = e.graph[p] /\ f.pkgs = r.pkgs /\ f.shas = e.shas /\ f.need = e.need \ {p}
      /\ f.last = r.last /\ f.quads = e.quads \cup {<<r.pkgs[p], "import-path", p>>}
  BY <1>1, <1>2, <1>3 DEF EncodingState, Sent
<1>7. f \in EncodingState
  <2>1. <<r.pkgs[p], "import-path", p>> \in Nat \X {"import-path", "imports", "digest"} \X (Paths \cup Nat)
    BY <1>5
  <2> QED
    BY <1>1, <1>2, <1>3, <1>5, <2>1 DEF EncodingState, Sent
<1> HIDE DEF f
<1>8. Begun(f) = Begun(e) \cup {p} /\ p \notin Begun(e)
  BY <1>1, <1>6 DEF Begun
<1>9. \A q, t \in Paths : Encoded(f, q, t) <=> Encoded(e, q, t)
  BY <1>1, <1>6, <1>8 DEF Encoded
<1>10. AtRow(f)
  BY <1>6, <1>8 DEF AtRow
<1>11. Numbered(f)
  BY <1>2, <1>3, <1>6 DEF Numbered
<1>12. NodesKnown(f)
  BY <1>1, <1>2, <1>6, <1>8, <1>9 DEF NodesKnown
<1>13. Described(f)
  <2>1. RowSent(f, p) = <<r.pkgs[p], "import-path", p>>
    BY <1>6 DEF RowSent
  <2> QED
    BY <1>1, <1>2, <1>6, <1>8, <1>9, <2>1, QuadSent
<1> QED
  BY <1>1, <1>4, <1>6, <1>7, <1>10, <1>11, <1>12, <1>13 DEF EncodingIInv

LEMMA EncodesImportSafe ==
    ASSUME EncodingIInv, NEW t \in Paths, EncodesImport(t)
    PROVE  EncodingIInv'
<1> DEFINE e == encoding
           r == Assigned(e, "pkgs", t)
           quad == <<e.pkgs[e.row], "imports", r.pkgs[t]>>
           f == [Sent(r, e.pkgs[e.row], "imports", r.pkgs[t]) EXCEPT
                    !.imports = @ \ {t}, !.need = @ \cup ({t} \ r.defn)]
<1>1. /\ e \in EncodingState /\ AtRow(e) /\ e.todo \subseteq DOMAIN e.graph
      /\ e.step = "scan" /\ t \in e.imports /\ e.row \in Begun(e) /\ t \in e.graph[e.row]
      /\ Numbered(e) /\ NodesKnown(e) /\ Described(e) /\ e.row \in DOMAIN e.pkgs
  BY DEF EncodingIInv, EncodesImport, IsLeast, AtRow, EncodingState, NodesKnown
<1>2. /\ r \in EncodingState /\ Numbered(r)
      /\ DOMAIN r.pkgs = DOMAIN e.pkgs \cup {t}
      /\ \A q \in DOMAIN e.pkgs : r.pkgs[q] = e.pkgs[q]
      /\ r = [e EXCEPT !.pkgs = r.pkgs, !.last = r.last]
  <2> HIDE DEF e, r
  <2>1. r = Assigned(e, "pkgs", t)
    BY DEF r
  <2>2. r \in EncodingState /\ Numbered(r) /\ PackageMentioned(e, r, t)
    BY <1>1, <2>1, PackageNumbered, Zenon
  <2> QED
    BY <2>2 DEF PackageMentioned
<1>3. /\ e.graph \in LinkGraphs /\ r.graph = e.graph /\ r.todo = e.todo /\ r.shas = e.shas
      /\ r.quads = e.quads /\ r.step = e.step /\ r.need = e.need /\ r.row = e.row
      /\ r.imports = e.imports /\ r.files = e.files
  <2> HIDE DEF r
  <2> QED
    BY <1>1, <1>2 DEF EncodingState
<1>4. encoding' = f
  <2>1. Assigned(encoding, "pkgs", encoding.row) = encoding
    BY <1>1 DEF Assigned
  <2> QED
    BY <2>1 DEF EncodesImport
<1>5. r.pkgs[t] \in Nat /\ e.pkgs[e.row] \in Nat
  <2> HIDE DEF e, r
  <2> QED
    BY <1>1, <1>2, NodesTyped
<1> HIDE DEF e, r
<1>6. /\ f.graph = e.graph /\ f.todo = e.todo /\ f.step = "scan" /\ f.row = e.row
      /\ f.imports = e.imports \ {t} /\ f.pkgs = r.pkgs /\ f.shas = e.shas
      /\ f.need = e.need \cup ({t} \ r.defn)
      /\ f.last = r.last /\ f.quads = e.quads \cup {quad}
  BY <1>1, <1>2, <1>3 DEF EncodingState, Sent
<1>7. f \in EncodingState
  <2>1. quad \in Nat \X {"import-path", "imports", "digest"} \X (Paths \cup Nat)
    BY <1>5
  <2> QED
    BY <1>1, <1>2, <1>3, <1>5, <2>1 DEF EncodingState, Sent
<1> HIDE DEF f
<1>8. Begun(f) = Begun(e)
  BY <1>6 DEF Begun
<1>9. \A p, s \in Paths : Encoded(f, p, s) <=> Encoded(e, p, s) \/ (p = e.row /\ s = t)
  BY <1>1, <1>6, <1>8 DEF Encoded
<1>10. AtRow(f)
  BY <1>1, <1>6, <1>8 DEF AtRow
<1>11. Numbered(f)
  BY <1>2, <1>3, <1>6 DEF Numbered
<1>12. NodesKnown(f)
  BY <1>1, <1>2, <1>6, <1>8, <1>9 DEF NodesKnown
<1>13. Described(f)
  <2>1. ImportSent(f, e.row, t) = quad
    BY <1>1, <1>2, <1>6 DEF ImportSent
  <2>2. e.row \in Paths
    BY <1>1, NodesTyped
  <2> HIDE DEF quad
  <2>3. \E p, s \in Paths : Encoded(f, p, s) /\ quad = ImportSent(f, p, s)
    BY <1>9, <2>1, <2>2
  <2> QED
    BY <1>1, <1>2, <1>6, <1>8, <1>9, <2>1, <2>2, <2>3, QuadSent
<1> QED
  BY <1>1, <1>4, <1>6, <1>7, <1>10, <1>11, <1>12, <1>13 DEF EncodingIInv

LEMMA EncodesFileSafe ==
    ASSUME EncodingIInv, NEW sha \in encoding.files, EncodesFile(sha)
    PROVE  EncodingIInv'
<1> DEFINE e == encoding
           r == Assigned(e, "shas", sha)
           quad == <<r.shas[sha], "digest", sha>>
           f == [Sent(r, r.shas[sha], "digest", sha) EXCEPT !.files = @ \ {sha}]
<1>1. /\ e \in EncodingState /\ AtRow(e) /\ e.todo \subseteq DOMAIN e.graph
      /\ e.step = "scan" /\ e.imports = {} /\ sha \in Nat
      /\ Numbered(e) /\ NodesKnown(e) /\ Described(e)
  BY DEF EncodingIInv, EncodesFile, AtRow, EncodingState
<1>2. /\ r \in EncodingState /\ Numbered(r)
      /\ DOMAIN r.shas = DOMAIN e.shas \cup {sha}
      /\ \A s \in DOMAIN e.shas : r.shas[s] = e.shas[s]
      /\ r = [e EXCEPT !.shas = r.shas, !.last = r.last]
  <2> HIDE DEF e, r
  <2>1. r = Assigned(e, "shas", sha)
    BY DEF r
  <2>2. r \in EncodingState /\ Numbered(r) /\ FileMentioned(e, r, sha)
    BY <1>1, <2>1, FileNumbered, Zenon
  <2> QED
    BY <2>2 DEF FileMentioned
<1>3. /\ r.graph = e.graph /\ r.todo = e.todo /\ r.pkgs = e.pkgs /\ r.quads = e.quads
      /\ r.step = e.step /\ r.need = e.need /\ r.row = e.row /\ r.imports = e.imports
  <2> HIDE DEF r
  <2> QED
    BY <1>1, <1>2 DEF EncodingState
<1>4. encoding' = f
  BY DEF EncodesFile
<1>5. quad \in Nat \X {"import-path", "imports", "digest"} \X (Paths \cup Nat)
  <2> HIDE DEF e, r
  <2>1. r.shas[sha] \in Nat
    BY <1>2, NodesTyped
  <2> QED
    BY <1>1, <2>1
<1> HIDE DEF e, r
<1>6. /\ f.graph = e.graph /\ f.todo = e.todo /\ f.step = "scan" /\ f.row = e.row
      /\ f.imports = {} /\ f.pkgs = e.pkgs /\ f.shas = r.shas /\ f.need = e.need
      /\ f.last = r.last /\ f.quads = e.quads \cup {quad}
  BY <1>1, <1>2, <1>3 DEF EncodingState, Sent
<1>7. f \in EncodingState
  BY <1>2, <1>3, <1>5 DEF EncodingState, Sent
<1> HIDE DEF f
<1>8. Begun(f) = Begun(e)
  BY <1>6 DEF Begun
<1>9. \A p, t \in Paths : Encoded(f, p, t) <=> Encoded(e, p, t)
  BY <1>1, <1>6, <1>8 DEF Encoded
<1>10. AtRow(f)
  BY <1>6 DEF AtRow
<1>11. Numbered(f)
  BY <1>2, <1>3, <1>6 DEF Numbered
<1>12. NodesKnown(f)
  BY <1>1, <1>6, <1>8, <1>9 DEF NodesKnown
<1>13. Described(f)
  <2>1. FileSent(f, sha) = quad /\ sha \in DOMAIN f.shas
    BY <1>2, <1>6 DEF FileSent
  <2> HIDE DEF quad
  <2> QED
    BY <1>1, <1>2, <1>6, <1>8, <1>9, <2>1, QuadSent
<1> QED
  BY <1>1, <1>4, <1>6, <1>7, <1>10, <1>11, <1>12, <1>13 DEF EncodingIInv

\* No dummy row is left to write.
LEMMA EncodingStops ==
    ASSUME EncodingIInv, WriterFails \/ EncodingEnds
    PROVE  EncodingIInv'
<1> DEFINE e == encoding
<1>1. /\ e \in EncodingState /\ e.todo \subseteq DOMAIN e.graph /\ AtRow(e)
      /\ e.step = "scan" /\ Numbered(e) /\ NodesKnown(e) /\ Described(e)
  BY DEF EncodingIInv, WriterFails, EncodingEnds, RowDone
<1>2. CASE WriterFails
  <2> DEFINE f == [e EXCEPT !.step = "failed", !.imports = {}, !.files = {}]
  <2>1. encoding' = f
    BY <1>2 DEF WriterFails
  <2> HIDE DEF e
  <2>2. f \in EncodingState /\ f.todo = e.todo /\ f.graph = e.graph /\ f.step = "failed"
        /\ f.imports = {} /\ f.files = {}
    BY <1>1 DEF EncodingState
  <2> QED
    BY <1>1, <2>1, <2>2 DEF EncodingIInv, AtRow
<1>3. CASE EncodingEnds
  <2> DEFINE dummies == (e.need \ e.defn) \ DOMAIN e.pkgs
             f == [e EXCEPT !.step = "done",
                      !.quads = @ \cup {<<e.last + p, "is-missing", p>> : p \in dummies}]
  <2>1. encoding' = f /\ e.imports = {} /\ e.files = {} /\ e.todo = {}
    BY <1>3 DEF EncodingEnds, RowDone
  <2>2. dummies = {}
    BY <1>1 DEF NodesKnown
  <2> HIDE DEF e, dummies
  <2>3. {<<e.last + p, "is-missing", p>> : p \in dummies} = {}
    BY <2>2
  <2>4. f = [e EXCEPT !.step = "done"]
    BY <1>1, <2>3 DEF EncodingState
  <2>5. /\ f \in EncodingState /\ f.step = "done" /\ f.todo = e.todo /\ f.graph = e.graph
        /\ f.imports = e.imports /\ f.files = e.files /\ f.pkgs = e.pkgs /\ f.shas = e.shas
        /\ f.need = e.need /\ f.last = e.last /\ f.quads = e.quads /\ f.row = e.row
    BY <1>1, <2>4 DEF EncodingState
  <2> HIDE DEF f
  <2>6. AtRow(f) /\ Begun(f) = Begun(e)
    BY <2>1, <2>5 DEF AtRow, Begun
  <2>7. \A p, t : Encoded(f, p, t) <=> Encoded(e, p, t)
    BY <2>5, <2>6 DEF Encoded
  <2>8. Numbered(f)
    BY <1>1, <2>5 DEF Numbered
  <2>9. NodesKnown(f)
    BY <1>1, <2>5, <2>6, <2>7 DEF NodesKnown
  <2>10. Described(f)
    BY <1>1, <2>5, <2>6, <2>7 DEF Described, RowSent, ImportSent, FileSent
  <2> QED
    BY <1>1, <2>1, <2>5, <2>6, <2>8, <2>9, <2>10 DEF EncodingIInv
<1> QED
  BY <1>2, <1>3

\* At the end, what is encoded is the graph, and its nodes are told apart.
LEMMA EncodingSuffices == EncodingIInv => ImportsDescribed
<1> DEFINE e == encoding
<1> SUFFICES ASSUME EncodingIInv, e.step = "done"
             PROVE  /\ Distinct
                    /\ \A p, t \in Paths :
                        Joined(p, t) <=> {p, t} \subseteq DOMAIN e.graph /\ t \in e.graph[p]
                    /\ \A p \in DOMAIN e.graph :
                        Unnamed(p) <=> e.graph[p] \cap Missing(e.graph) # {}
  BY DEF ImportsDescribed
<1>1. /\ e \in EncodingState /\ Numbered(e) /\ NodesKnown(e) /\ Described(e)
      /\ Begun(e) = DOMAIN e.graph
  BY DEF EncodingIInv, Begun
<1>2. /\ \A n : \A x \in Objects(n, "import-path") : x \in DOMAIN e.graph /\ e.pkgs[x] = n
      /\ \A n : \A x \in Objects(n, "digest") : x \in DOMAIN e.shas /\ e.shas[x] = n
      /\ \A n : \A x \in Objects(n, "imports") : \E p, t \in Paths :
             Encoded(e, p, t) /\ n = e.pkgs[p] /\ x = e.pkgs[t]
  BY <1>1 DEF Objects, Described, RowSent, ImportSent, FileSent
<1>3. \A p \in DOMAIN e.graph : p \in Objects(e.pkgs[p], "import-path") /\ e.pkgs[p] \in Subjects
  <2> TAKE p \in DOMAIN e.graph
  <2>1. RowSent(e, p) \in e.quads
    BY <1>1 DEF Described
  <2> QED
    BY <2>1 DEF RowSent, Objects, Subjects
<1>4. Distinct
  <2> SUFFICES ASSUME NEW n \in Subjects
               PROVE  /\ Cardinality(Objects(n, "import-path")) + Cardinality(Objects(n, "digest")) <= 1
                      /\ \A m \in Subjects \ {n}, name \in {"import-path", "digest"} :
                             Objects(n, name) \cap Objects(m, name) = {}
    BY DEF Distinct
  <2>1. DOMAIN e.graph \subseteq DOMAIN e.pkgs
    BY <1>1 DEF NodesKnown
  <2>2. \A x, y \in Objects(n, "import-path") : x = y
    BY <1>1, <1>2, <2>1 DEF Numbered
  <2>3. \A x, y \in Objects(n, "digest") : x = y
    BY <1>1, <1>2 DEF Numbered
  <2>4. Objects(n, "import-path") = {} \/ Objects(n, "digest") = {}
    BY <1>1, <1>2, <2>1 DEF Numbered
  <2>5. \A S : (\A x, y \in S : x = y) => S = {} \/ \E x : S = {x}
    <3> TAKE S
    <3> HAVE \A x, y \in S : x = y
    <3>1. CASE S = {}
      BY <3>1
    <3>2. CASE S # {}
      <4>1. PICK x : x \in S
        BY <3>2
      <4>2. S = {x}
        BY <4>1
      <4> QED
        BY <4>2
    <3> QED
      BY <3>1, <3>2
  <2>6. \A S : (\A x, y \in S : x = y) => Cardinality(S) \in {0, 1}
    BY <2>5, FS_EmptySet, FS_Singleton
  <2>7. Cardinality(Objects(n, "import-path")) + Cardinality(Objects(n, "digest")) <= 1
    <3>1. Cardinality(Objects(n, "import-path")) \in {0, 1} /\ Cardinality(Objects(n, "digest")) \in {0, 1}
      BY <2>2, <2>3, <2>6
    <3>2. CASE Objects(n, "import-path") = {}
      <4>1. Cardinality(Objects(n, "import-path")) = 0
        BY <3>2, FS_EmptySet
      <4> QED
        BY <3>1, <4>1
    <3>3. CASE Objects(n, "digest") = {}
      <4>1. Cardinality(Objects(n, "digest")) = 0
        BY <3>3, FS_EmptySet
      <4> QED
        BY <3>1, <4>1
    <3> QED
      BY <2>4, <3>2, <3>3
  <2>8. \A m \in Subjects \ {n}, name \in {"import-path", "digest"} :
            Objects(n, name) \cap Objects(m, name) = {}
    BY <1>2
  <2> QED
    BY <2>7, <2>8
<1>5. ASSUME NEW p \in Paths, NEW t \in Paths, Joined(p, t)
      PROVE  {p, t} \subseteq DOMAIN e.graph /\ t \in e.graph[p]
  <2>1. PICK n \in Subjects : /\ p \in Objects(n, "import-path")
                             /\ \E m \in Objects(n, "imports") : t \in Objects(m, "import-path")
    BY <1>5 DEF Joined
  <2>2. PICK m : m \in Objects(n, "imports") /\ t \in Objects(m, "import-path")
    BY <2>1
  <2>3. PICK q, s : q \in Paths /\ s \in Paths /\ Encoded(e, q, s) /\ n = e.pkgs[q] /\ m = e.pkgs[s]
    BY <1>2, <2>2
  <2>4. p \in DOMAIN e.graph /\ e.pkgs[p] = n /\ t \in DOMAIN e.graph /\ e.pkgs[t] = m
    BY <1>2, <2>1, <2>2
  <2>5. {p, q, s, t} \subseteq DOMAIN e.pkgs
    BY <1>1, <2>3, <2>4 DEF NodesKnown, Encoded
  <2>6. p = q /\ s = t
    BY <1>1, <2>3, <2>4, <2>5 DEF Numbered
  <2> QED
    BY <2>3, <2>4, <2>6 DEF Encoded
<1>6. ASSUME NEW p \in Paths, NEW t \in Paths, p \in DOMAIN e.graph, t \in DOMAIN e.graph,
             t \in e.graph[p]
      PROVE  Joined(p, t)
  <2>1. Encoded(e, p, t)
    BY <1>1, <1>6 DEF Encoded, EncodingIInv, AtRow
  <2>2. ImportSent(e, p, t) \in e.quads
    BY <1>1, <2>1 DEF Described
  <2>3. e.pkgs[t] \in Objects(e.pkgs[p], "imports")
    BY <2>2 DEF ImportSent, Objects
  <2> QED
    BY <1>3, <1>6, <2>3 DEF Joined
<1>7. ASSUME NEW p \in DOMAIN e.graph, Unnamed(p)
      PROVE  e.graph[p] \cap Missing(e.graph) # {}
  <2>1. PICK n \in Subjects : /\ p \in Objects(n, "import-path")
                             /\ \E m \in Objects(n, "imports") : Objects(m, "import-path") = {}
    BY <1>7 DEF Unnamed
  <2>2. PICK m : m \in Objects(n, "imports") /\ Objects(m, "import-path") = {}
    BY <2>1
  <2>3. PICK q, t : q \in Paths /\ t \in Paths /\ Encoded(e, q, t) /\ n = e.pkgs[q] /\ m = e.pkgs[t]
    BY <1>2, <2>2
  <2>4. p = q
    <3>1. {p, q} \subseteq DOMAIN e.pkgs /\ e.pkgs[p] = n
      BY <1>1, <1>2, <2>1, <2>3 DEF NodesKnown, Encoded
    <3> QED
      BY <1>1, <2>3, <3>1 DEF Numbered
  <2>5. t \in e.graph[p]
    BY <2>3, <2>4 DEF Encoded
  <2>6. t \notin DOMAIN e.graph
    BY <1>3, <2>2, <2>3
  <2> QED
    BY <2>5, <2>6 DEF Missing, Imported
<1>8. ASSUME NEW p \in DOMAIN e.graph, NEW t \in e.graph[p], t \notin DOMAIN e.graph
      PROVE  Unnamed(p)
  <2>1. p \in Paths /\ t \in Paths
    BY <1>1, LinksAssumption DEF EncodingState
  <2>2. Encoded(e, p, t)
    BY <1>1, <1>8, <2>1 DEF Encoded, EncodingIInv, AtRow
  <2>3. e.pkgs[t] \in Objects(e.pkgs[p], "imports")
    <3>1. ImportSent(e, p, t) \in e.quads
      BY <1>1, <2>1, <2>2 DEF Described
    <3> QED
      BY <3>1 DEF ImportSent, Objects
  <2>4. Objects(e.pkgs[t], "import-path") = {}
    <3> SUFFICES ASSUME NEW x \in Objects(e.pkgs[t], "import-path")
                 PROVE  FALSE
      OBVIOUS
    <3>1. x \in DOMAIN e.graph /\ e.pkgs[x] = e.pkgs[t]
      BY <1>2
    <3>2. {x, t} \subseteq DOMAIN e.pkgs
      BY <1>1, <2>1, <2>2, <3>1 DEF NodesKnown
    <3>3. x = t
      BY <1>1, <3>1, <3>2 DEF Numbered
    <3> QED
      BY <1>8, <3>1, <3>3
  <2> QED
    BY <1>3, <2>3, <2>4 DEF Unnamed
<1>9. ASSUME NEW p \in DOMAIN e.graph
      PROVE  Unnamed(p) <=> e.graph[p] \cap Missing(e.graph) # {}
  <2>1. ASSUME e.graph[p] \cap Missing(e.graph) # {} PROVE Unnamed(p)
    <3>1. PICK t : t \in e.graph[p] /\ t \in Missing(e.graph)
      BY <2>1
    <3>2. t \notin DOMAIN e.graph
      BY <3>1 DEF Missing
    <3> QED
      BY <1>8, <3>1, <3>2
  <2> QED
    BY <1>7, <2>1
<1> QED
  BY <1>4, <1>5, <1>6, <1>9

\* Whatever the graph, the files and their order: who reads the quads finds the
\* imports between rows, and no others, on nodes that stand for one thing each,
\* and sees which rows import what is missing (rdf.go:68-97, 107-116).
THEOREM QuadsDescribe == EncodingSpec => []ImportsDescribed
<1>1. EncodingInit => EncodingIInv
  <2> SUFFICES ASSUME NEW g \in LinkGraphs, encoding = EncodingStart(g) PROVE EncodingIInv
    BY DEF EncodingInit, EncodingStarts
  <2>1. Empty \in [{} -> Nat] /\ DOMAIN Empty = {}
    BY DEF Empty
  <2>2. Empty \in Numbering(Paths) /\ Empty \in Numbering(Nat)
    BY <2>1 DEF Numbering
  <2>3. encoding \in EncodingState
    BY <2>2, LinksAssumption DEF EncodingStart, EncodingState
  <2>4. Begun(encoding) = {} /\ AtRow(encoding) /\ Numbered(encoding)
    BY <2>1 DEF EncodingStart, Begun, AtRow, Numbered
  <2>5. NodesKnown(encoding) /\ Described(encoding)
    BY <2>1, <2>4 DEF EncodingStart, NodesKnown, Described, Encoded
  <2> QED
    BY <2>3, <2>4, <2>5 DEF EncodingIInv, EncodingStart
<1>2. EncodingIInv /\ [EncodingNext]_encoding => EncodingIInv'
  <2>1. EncodingIInv /\ UNCHANGED encoding => EncodingIInv'
    BY DEF EncodingIInv
  <2> QED
    BY <2>1, EncodesRowSafe, EncodesImportSafe, EncodesFileSafe, EncodingStops DEF EncodingNext
<1> QED
  BY <1>1, <1>2, EncodingSuffices, PTL DEF EncodingSpec

-----------------------------------------------------------------------------
(* A set of numbers has a least one, and so induction is possible: over a  *)
(* set of numbers, or over a set of subsets of a finite set.               *)

\* By the well-foundedness of < on the natural numbers.
LEMMA LeastNumber ==
    ASSUME NEW T, T \subseteq Nat, T # {}
    PROVE  \E n \in T : \A m \in T : n <= m
<1> DEFINE R == {ss \in Nat \X Nat : ss[1] < ss[2]}
<1>1. IsWellFoundedOn(R, Nat)
  BY NatLessThanWellFounded DEF OpToRel
<1>2. \E x \in T : \A y \in T : ~ (<<y, x>> \in R)
  <2> HIDE DEF R
  <2> QED
    BY <1>1, WFMin
<1>3. \A x, y \in Nat : <<y, x>> \notin R => x <= y
  OBVIOUS
<1> HIDE DEF R
<1> QED
  BY <1>2, <1>3

\* If a set has zero and with a number the next, it has all: a least one that it
\* lacked would have a predecessor that it has.
LEMMA NumberInduction ==
    ASSUME NEW Good, 0 \in Good, \A n \in Nat : n \in Good => n + 1 \in Good
    PROVE  Nat \subseteq Good
<1> SUFFICES ASSUME Nat \ Good # {} PROVE FALSE
  OBVIOUS
<1>1. PICK n \in Nat \ Good : \A m \in Nat \ Good : n <= m
  BY LeastNumber
<1>2. n - 1 \in Nat /\ n - 1 \in Good
  BY <1>1
<1> QED
  BY <1>1, <1>2

\* The same for the subsets of a finite set, by their size.
LEMMA SetInduction ==
    ASSUME NEW S, IsFiniteSet(S), NEW Good,
           \A T \in SUBSET S : (\A x \in T : T \ {x} \in Good) => T \in Good
    PROVE  SUBSET S \subseteq Good
<1> DEFINE bad == {T \in SUBSET S : T \notin Good}
           sizes == {Cardinality(T) : T \in bad}
<1> SUFFICES ASSUME bad # {} PROVE FALSE
  OBVIOUS
<1>1. \A T \in SUBSET S : IsFiniteSet(T) /\ Cardinality(T) \in Nat
  BY FS_Subset, FS_CardinalityType
<1>2. sizes \subseteq Nat /\ sizes # {}
  BY <1>1
<1>3. PICK n \in sizes : \A m \in sizes : n <= m
  <2> HIDE DEF sizes
  <2> QED
    BY <1>2, LeastNumber
<1>4. PICK T \in bad : n = Cardinality(T)
  BY <1>3
<1>5. ASSUME NEW x \in T PROVE T \ {x} \in Good
  <2>1. Cardinality(T \ {x}) = n - 1
    BY <1>1, <1>4, FS_RemoveElement
  <2>2. n - 1 \notin sizes
    BY <1>2, <1>3
  <2> QED
    BY <1>4, <2>1, <2>2
<1> QED
  BY <1>4, <1>5

-----------------------------------------------------------------------------
(* Finite sums.  SumFunctionOnSet runs through a set in an order nobody    *)
(* knows, by a function that calls itself; the lemmas say that there is    *)
(* such a function, and that the order does not matter.                    *)

\* The element a sum takes first, one step of it, and its run over all of D.
Some(s) == CHOOSE x \in s : TRUE
Body(f, i, s) == IF s = {} THEN 0 ELSE f[Some(s)] + i[s \ {Some(s)}]
Sums(f, D, i) == i = [s \in D |-> Body(f, i, s)]
SumsOf(f, S) == CHOOSE i : Sums(f, SUBSET S, i)

LEMMA SomeIn == \A s : s # {} => Some(s) \in s
BY DEF Some

\* What the community modules define, in these terms.
LEMMA SumIsRun == ASSUME NEW f, NEW S PROVE SumFunctionOnSet(f, S) = SumsOf(f, S)[S]
BY Zenon DEF SumFunctionOnSet, FoldFunctionOnSet, MapThenFoldSet, SumsOf, Sums, Body, Some

\* Level by level: a run over the sets of at most n elements gives one over those
\* of n + 1.
LEMMA SumsExist ==
    ASSUME NEW f, NEW S, IsFiniteSet(S)
    PROVE  Sums(f, SUBSET S, SumsOf(f, S))
<1> DEFINE Level(n) == {s \in SUBSET S : Cardinality(s) <= n}
           Good == {n \in Nat : \E i : Sums(f, Level(n), i)}
<1>1. \A s \in SUBSET S : /\ IsFiniteSet(s) /\ Cardinality(s) \in Nat
                          /\ Cardinality(s) <= Cardinality(S)
                          /\ Cardinality(s) = 0 <=> s = {}
                          /\ \A x \in s : Cardinality(s \ {x}) = Cardinality(s) - 1
  BY FS_Subset, FS_CardinalityType, FS_RemoveElement, FS_EmptySet
<1>2. 0 \in Good
  <2> DEFINE i == [s \in Level(0) |-> 0]
  <2>1. \A s \in Level(0) : s = {}
    BY <1>1
  <2>2. \A s \in Level(0) : Body(f, i, s) = 0
    BY <2>1 DEF Body
  <2>3. Sums(f, Level(0), i)
    BY <2>2 DEF Sums
  <2> QED
    BY <2>3
<1>3. ASSUME NEW n \in Nat, n \in Good PROVE n + 1 \in Good
  <2>1. PICK i : Sums(f, Level(n), i)
    BY <1>3
  <2> DEFINE j == [s \in Level(n + 1) |-> Body(f, i, s)]
  <2>2. \A s \in Level(n) : s \in Level(n + 1) /\ j[s] = i[s]
    <3>1. ASSUME NEW s \in Level(n) PROVE s \in Level(n + 1)
      BY <1>1
    <3>2. ASSUME NEW s \in Level(n) PROVE i[s] = Body(f, i, s)
      BY <2>1 DEF Sums
    <3> QED
      BY <3>1, <3>2
  <2>3. ASSUME NEW s \in Level(n + 1) PROVE Body(f, i, s) = Body(f, j, s)
    <3>1. CASE s = {}
      BY <3>1 DEF Body
    <3>2. CASE s # {}
      <4>1. Some(s) \in s
        BY <3>2, SomeIn
      <4>2. s \ {Some(s)} \in Level(n)
        <5>1. Cardinality(s \ {Some(s)}) = Cardinality(s) - 1 /\ Cardinality(s) <= n + 1
              /\ Cardinality(s) \in Nat /\ s \ {Some(s)} \in SUBSET S
          BY <1>1, <4>1
        <5> QED
          BY <5>1
      <4>3. j[s \ {Some(s)}] = i[s \ {Some(s)}]
        BY <2>2, <4>2
      <4> HIDE DEF j
      <4> QED
        BY <3>2, <4>3 DEF Body
    <3> QED
      BY <3>1, <3>2
  <2>4. Sums(f, Level(n + 1), j)
    <3>1. [s \in Level(n + 1) |-> Body(f, i, s)] = [s \in Level(n + 1) |-> Body(f, j, s)]
      BY <2>3
    <3> QED
      BY <3>1 DEF Sums
  <2> HIDE DEF j
  <2>5. n + 1 \in Nat /\ \E k : Sums(f, Level(n + 1), k)
    BY <2>4
  <2> QED
    BY <2>5
<1>4. Cardinality(S) \in Nat
  BY FS_CardinalityType
<1>5. Cardinality(S) \in Good
  <2> HIDE DEF Good
  <2> QED
    BY <1>2, <1>3, <1>4, NumberInduction
<1>6. Level(Cardinality(S)) = SUBSET S
  BY <1>1
<1>7. \E i : Sums(f, SUBSET S, i)
  BY <1>5, <1>6
<1> QED
  BY <1>7 DEF SumsOf

\* The runs over two sets agree where both are, so a sum unfolds.
LEMMA SumUnfolds ==
    ASSUME NEW f, NEW S, IsFiniteSet(S)
    PROVE  SumFunctionOnSet(f, S) =
               IF S = {} THEN 0 ELSE f[Some(S)] + SumFunctionOnSet(f, S \ {Some(S)})
<1>1. ASSUME NEW T \in SUBSET S PROVE SumsOf(f, S)[T] = SumFunctionOnSet(f, T)
  <2> DEFINE i == SumsOf(f, S)
             j == SumsOf(f, T)
             Good == {U \in SUBSET T : i[U] = j[U]}
  <2>1. IsFiniteSet(T)
    BY FS_Subset
  <2>2. Sums(f, SUBSET S, i) /\ Sums(f, SUBSET T, j)
    BY <2>1, SumsExist
  <2>3. \A U \in SUBSET T : i[U] = Body(f, i, U) /\ j[U] = Body(f, j, U)
    <3> HIDE DEF i, j
    <3> QED
      BY <2>2 DEF Sums
  <2>4. ASSUME NEW U \in SUBSET T, \A x \in U : U \ {x} \in Good PROVE U \in Good
    <3>1. CASE U = {}
      BY <2>3, <3>1 DEF Body
    <3>2. CASE U # {}
      <4>1. U \ {Some(U)} \in Good
        BY <2>4, <3>2, SomeIn
      <4>2. i[U \ {Some(U)}] = j[U \ {Some(U)}]
        BY <4>1
      <4> HIDE DEF i, j
      <4> QED
        BY <2>3, <3>2, <4>2 DEF Body
    <3> QED
      BY <3>1, <3>2
  <2>5. SUBSET T \subseteq Good
    <3> HIDE DEF Good
    <3> QED
      BY <2>1, <2>4, SetInduction
  <2> QED
    BY <2>5, SumIsRun
<1>2. SumsOf(f, S)[S] = Body(f, SumsOf(f, S), S)
  <2>1. PICK i : i = SumsOf(f, S)
    OBVIOUS
  <2>2. Sums(f, SUBSET S, i) /\ S \in SUBSET S
    BY <2>1, SumsExist
  <2>3. i[S] = Body(f, i, S)
    BY <2>2 DEF Sums
  <2> QED
    BY <2>1, <2>3
<1> QED
  BY <1>1, <1>2, SumIsRun DEF Body

\* A sum of natural numbers is one.
LEMMA SumNat ==
    ASSUME NEW f, NEW S, IsFiniteSet(S), \A x \in S : f[x] \in Nat
    PROVE  SumFunctionOnSet(f, S) \in Nat
<1> DEFINE Good == {T \in SUBSET S : SumFunctionOnSet(f, T) \in Nat}
<1>1. ASSUME NEW T \in SUBSET S, \A x \in T : T \ {x} \in Good PROVE T \in Good
  <2>1. IsFiniteSet(T)
    BY FS_Subset
  <2>2. SumFunctionOnSet(f, T) =
            IF T = {} THEN 0 ELSE f[Some(T)] + SumFunctionOnSet(f, T \ {Some(T)})
    BY <2>1, SumUnfolds
  <2>3. T # {} => Some(T) \in T
    BY SomeIn
  <2>4. T # {} => /\ f[Some(T)] \in Nat
                  /\ SumFunctionOnSet(f, T \ {Some(T)}) \in Nat
    BY <1>1, <2>3
  <2> QED
    BY <2>2, <2>4
<1>2. SUBSET S \subseteq Good
  <2> HIDE DEF Good
  <2> QED
    BY <1>1, SetInduction
<1> QED
  BY <1>2

\* Any element may be taken out of a sum, not only the one it takes itself.
LEMMA SumRemove ==
    ASSUME NEW f, NEW S, IsFiniteSet(S), \A y \in S : f[y] \in Nat, NEW x \in S
    PROVE  SumFunctionOnSet(f, S) = f[x] + SumFunctionOnSet(f, S \ {x})
<1> DEFINE Good == {T \in SUBSET S : \A y \in T :
                       SumFunctionOnSet(f, T) = f[y] + SumFunctionOnSet(f, T \ {y})}
<1>1. ASSUME NEW T \in SUBSET S, \A y \in T : T \ {y} \in Good PROVE T \in Good
  <2> SUFFICES ASSUME NEW y \in T
               PROVE  SumFunctionOnSet(f, T) = f[y] + SumFunctionOnSet(f, T \ {y})
    OBVIOUS
  <2>1. IsFiniteSet(T) /\ IsFiniteSet((T \ {y}) \ {Some(T)})
    BY FS_Subset
  <2>2. /\ SumFunctionOnSet(f, T) = f[Some(T)] + SumFunctionOnSet(f, T \ {Some(T)})
        /\ Some(T) \in T
    BY <2>1, SumUnfolds, SomeIn
  <2>3. CASE y = Some(T)
    BY <2>2, <2>3
  <2>4. CASE y # Some(T)
    <3>1. SumFunctionOnSet(f, T \ {Some(T)})
              = f[y] + SumFunctionOnSet(f, (T \ {Some(T)}) \ {y})
      BY <1>1, <2>2, <2>4
    <3>2. SumFunctionOnSet(f, T \ {y})
              = f[Some(T)] + SumFunctionOnSet(f, (T \ {y}) \ {Some(T)})
      BY <1>1, <2>2, <2>4
    <3>3. (T \ {Some(T)}) \ {y} = (T \ {y}) \ {Some(T)}
      OBVIOUS
    <3>4. SumFunctionOnSet(f, (T \ {y}) \ {Some(T)}) \in Nat
      BY <2>1, SumNat
    <3>5. f[y] \in Nat /\ f[Some(T)] \in Nat
      BY <2>2
    <3> QED
      BY <2>2, <3>1, <3>2, <3>3, <3>4, <3>5
  <2> QED
    BY <2>3, <2>4
<1>2. SUBSET S \subseteq Good
  <2> HIDE DEF Good
  <2> QED
    BY <1>1, SetInduction
<1> QED
  BY <1>2

LEMMA SumEmpty == ASSUME NEW f PROVE SumFunctionOnSet(f, {}) = 0
BY SumUnfolds, FS_EmptySet

\* Functions with the sum of two others have the sum of their sums.
LEMMA SumAdds ==
    ASSUME NEW f, NEW g, NEW h, NEW S, IsFiniteSet(S),
           \A x \in S : f[x] \in Nat /\ g[x] \in Nat /\ h[x] = f[x] + g[x]
    PROVE  SumFunctionOnSet(h, S) = SumFunctionOnSet(f, S) + SumFunctionOnSet(g, S)
<1> DEFINE Good == {T \in SUBSET S : SumFunctionOnSet(h, T)
                        = SumFunctionOnSet(f, T) + SumFunctionOnSet(g, T)}
<1>1. ASSUME NEW T \in SUBSET S, \A y \in T : T \ {y} \in Good PROVE T \in Good
  <2>1. CASE T = {}
    BY <2>1, SumEmpty
  <2>2. CASE T # {}
    <3>1. PICK x : x \in T
      BY <2>2
    <3>2. IsFiniteSet(T) /\ IsFiniteSet(T \ {x}) /\ \A y \in T : h[y] \in Nat
      BY FS_Subset
    <3>3. /\ SumFunctionOnSet(f, T) = f[x] + SumFunctionOnSet(f, T \ {x})
          /\ SumFunctionOnSet(g, T) = g[x] + SumFunctionOnSet(g, T \ {x})
      BY <3>1, <3>2, SumRemove
    <3>4. SumFunctionOnSet(h, T) = h[x] + SumFunctionOnSet(h, T \ {x})
      BY <3>1, <3>2, SumRemove
    <3>5. SumFunctionOnSet(f, T \ {x}) \in Nat /\ SumFunctionOnSet(g, T \ {x}) \in Nat
      BY <3>2, SumNat
    <3>6. SumFunctionOnSet(h, T \ {x})
              = SumFunctionOnSet(f, T \ {x}) + SumFunctionOnSet(g, T \ {x})
      BY <1>1, <3>1
    <3>7. f[x] \in Nat /\ g[x] \in Nat /\ h[x] = f[x] + g[x]
      BY <3>1
    <3> QED
      BY <3>3, <3>4, <3>5, <3>6, <3>7
  <2> QED
    BY <2>1, <2>2
<1>2. SUBSET S \subseteq Good
  <2> HIDE DEF Good
  <2> QED
    BY <1>1, SetInduction
<1> QED
  BY <1>2

\* A function that is c on part of a set and zero elsewhere sums to c for each
\* element of the part.
LEMMA SumConstant ==
    ASSUME NEW f, NEW c \in Nat, NEW S, IsFiniteSet(S), NEW P \in SUBSET S,
           \A x \in S : f[x] = IF x \in P THEN c ELSE 0
    PROVE  SumFunctionOnSet(f, S) = c * Cardinality(P)
<1> DEFINE Good == {T \in SUBSET S : SumFunctionOnSet(f, T) = c * Cardinality(T \cap P)}
<1>1. ASSUME NEW T \in SUBSET S, \A y \in T : T \ {y} \in Good PROVE T \in Good
  <2>1. CASE T = {}
    <3>1. Cardinality(T \cap P) = 0
      BY <2>1, FS_EmptySet
    <3> QED
      BY <2>1, <3>1, SumEmpty
  <2>2. CASE T # {}
    <3>1. PICK x : x \in T
      BY <2>2
    <3>2. IsFiniteSet(T) /\ IsFiniteSet(T \cap P) /\ \A y \in T : f[y] \in Nat
      BY FS_Subset
    <3>3. SumFunctionOnSet(f, T) = f[x] + SumFunctionOnSet(f, T \ {x})
      BY <3>1, <3>2, SumRemove
    <3>4. SumFunctionOnSet(f, T \ {x}) = c * Cardinality((T \ {x}) \cap P)
      BY <1>1, <3>1
    <3>5. Cardinality(T \cap P) \in Nat
      BY <3>2, FS_CardinalityType
    <3>6. CASE x \in P
      <4>1. /\ Cardinality((T \cap P) \ {x}) = Cardinality(T \cap P) - 1
            /\ (T \cap P) \ {x} = (T \ {x}) \cap P
        BY <3>1, <3>2, <3>6, FS_RemoveElement
      <4>2. \A n \in Nat : c * n = c + c * (n - 1)
        OBVIOUS
      <4>3. f[x] = c
        BY <3>1, <3>6
      <4> QED
        BY <3>3, <3>4, <3>5, <4>1, <4>2, <4>3
    <3>7. CASE x \notin P
      <4>1. (T \ {x}) \cap P = T \cap P
        BY <3>7
      <4>2. f[x] = 0
        BY <3>1, <3>7
      <4>3. c * Cardinality(T \cap P) \in Nat
        <5>1. \A n \in Nat : c * n \in Nat
          OBVIOUS
        <5> QED
          BY <3>5, <5>1
      <4>4. SumFunctionOnSet(f, T \ {x}) = c * Cardinality(T \cap P)
        BY <3>4, <4>1
      <4> QED
        BY <3>3, <4>2, <4>3, <4>4
    <3> QED
      BY <3>6, <3>7
  <2> QED
    BY <2>1, <2>2
<1>2. SUBSET S \subseteq Good
  <2> HIDE DEF Good
  <2> QED
    BY <1>1, SetInduction
<1>3. S \cap P = P
  OBVIOUS
<1> QED
  BY <1>2, <1>3

\* What every row gives, summed over those it gives to, is what it gives times
\* the number of those: sums may be exchanged.
Gifts(s, L, M, D) == [q \in D |-> SumFunctionOnSet(s, {p \in M : q \in L[p]})]
Given(s, L, M) == [p \in M |-> s[p] * Cardinality(L[p])]

LEMMA SumsExchange ==
    ASSUME NEW s, NEW L, NEW D, IsFiniteSet(D), NEW S, IsFiniteSet(S),
           \A p \in S : s[p] \in Nat /\ L[p] \subseteq D
    PROVE  SumFunction(Gifts(s, L, S, D)) = SumFunctionOnSet(Given(s, L, S), S)
<1> DEFINE Good == {M \in SUBSET S : SumFunctionOnSet(Gifts(s, L, M, D), D)
                                         = SumFunctionOnSet(Given(s, L, S), M)}
<1>1. \A M \in SUBSET S, q \in D :
          IsFiniteSet({p \in M : q \in L[p]}) /\ Gifts(s, L, M, D)[q] \in Nat
  <2>1. \A M \in SUBSET S, q \in D : IsFiniteSet({p \in M : q \in L[p]})
    BY FS_Subset
  <2> QED
    BY <2>1, SumNat DEF Gifts
<1>2. \A p \in S : Given(s, L, S)[p] \in Nat
  <2>1. \A p \in S : Cardinality(L[p]) \in Nat
    BY FS_Subset, FS_CardinalityType
  <2> QED
    BY <2>1 DEF Given
<1>3. ASSUME NEW M \in SUBSET S, \A y \in M : M \ {y} \in Good PROVE M \in Good
  <2>1. CASE M = {}
    <3>1. \A q \in D : Gifts(s, L, M, D)[q] = IF q \in {} THEN 0 ELSE 0
      <4>1. \A q \in D : {p \in M : q \in L[p]} = {}
        BY <2>1
      <4> QED
        BY <4>1, SumEmpty DEF Gifts
    <3>2. SumFunctionOnSet(Gifts(s, L, M, D), D) = 0 * Cardinality({})
      BY <3>1, SumConstant
    <3>3. Cardinality({}) = 0
      BY FS_EmptySet
    <3> QED
      BY <2>1, <3>2, <3>3, SumEmpty
  <2>2. CASE M # {}
    <3>1. PICK x : x \in M
      BY <2>2
    <3> DEFINE one == [q \in D |-> IF q \in L[x] THEN s[x] ELSE 0]
    <3>2. L[x] \in SUBSET D /\ s[x] \in Nat /\ M \ {x} \in SUBSET S
      BY <3>1
    <3>3. ASSUME NEW q \in D
          PROVE  Gifts(s, L, M, D)[q] = one[q] + Gifts(s, L, M \ {x}, D)[q]
      <4>1. /\ Gifts(s, L, M, D)[q] = SumFunctionOnSet(s, {p \in M : q \in L[p]})
            /\ Gifts(s, L, M \ {x}, D)[q] = SumFunctionOnSet(s, {p \in M \ {x} : q \in L[p]})
        BY DEF Gifts
      <4>2. CASE q \in L[x]
        <5>1. {p \in M : q \in L[p]} \ {x} = {p \in M \ {x} : q \in L[p]}
          OBVIOUS
        <5>2. x \in {p \in M : q \in L[p]}
          BY <3>1, <4>2
        <5>3. SumFunctionOnSet(s, {p \in M : q \in L[p]})
                  = s[x] + SumFunctionOnSet(s, {p \in M : q \in L[p]} \ {x})
          <6>1. PICK U : U = {p \in M : q \in L[p]}
            OBVIOUS
          <6>2. IsFiniteSet(U) /\ x \in U /\ \A p \in U : s[p] \in Nat
            BY <1>1, <5>2, <6>1
          <6>3. SumFunctionOnSet(s, U) = s[x] + SumFunctionOnSet(s, U \ {x})
            BY <6>2, SumRemove
          <6> QED
            BY <6>1, <6>3
        <5> QED
          BY <4>1, <4>2, <5>1, <5>3
      <4>3. CASE q \notin L[x]
        <5>1. {p \in M : q \in L[p]} = {p \in M \ {x} : q \in L[p]}
          BY <4>3
        <5>2. Gifts(s, L, M \ {x}, D)[q] \in Nat
          BY <1>1, <3>2
        <5>3. one[q] = 0
          BY <4>3
        <5>4. Gifts(s, L, M, D)[q] = Gifts(s, L, M \ {x}, D)[q]
          BY <4>1, <5>1
        <5> HIDE DEF one
        <5> QED
          BY <5>2, <5>3, <5>4
      <4> QED
        BY <4>2, <4>3
    <3>4. \A q \in D : one[q] \in Nat /\ Gifts(s, L, M \ {x}, D)[q] \in Nat
      BY <1>1, <3>2
    <3>5. SumFunctionOnSet(Gifts(s, L, M, D), D)
              = SumFunctionOnSet(one, D) + SumFunctionOnSet(Gifts(s, L, M \ {x}, D), D)
      <4> HIDE DEF one
      <4>1. PICK f, g, h : /\ f = one /\ g = Gifts(s, L, M \ {x}, D)
                           /\ h = Gifts(s, L, M, D)
        OBVIOUS
      <4>2. \A q \in D : f[q] \in Nat /\ g[q] \in Nat /\ h[q] = f[q] + g[q]
        BY <3>3, <3>4, <4>1
      <4>3. SumFunctionOnSet(h, D) = SumFunctionOnSet(f, D) + SumFunctionOnSet(g, D)
        BY <4>2, SumAdds
      <4> QED
        BY <4>1, <4>3
    <3>6. SumFunctionOnSet(one, D) = s[x] * Cardinality(L[x])
      <4>1. \A q \in D : one[q] = IF q \in L[x] THEN s[x] ELSE 0
        OBVIOUS
      <4> HIDE DEF one
      <4> QED
        BY <3>2, <4>1, SumConstant
    <3>7. SumFunctionOnSet(Given(s, L, S), M)
              = Given(s, L, S)[x] + SumFunctionOnSet(Given(s, L, S), M \ {x})
      <4>1. IsFiniteSet(M) /\ \A y \in M : Given(s, L, S)[y] \in Nat
        BY <1>2, FS_Subset
      <4> QED
        BY <3>1, <4>1, SumRemove
    <3>8. Given(s, L, S)[x] = s[x] * Cardinality(L[x])
      BY <3>1 DEF Given
    <3>9. SumFunctionOnSet(Gifts(s, L, M \ {x}, D), D)
              = SumFunctionOnSet(Given(s, L, S), M \ {x})
      BY <1>3, <3>1
    <3> QED
      BY <3>5, <3>6, <3>7, <3>8, <3>9
  <2> QED
    BY <2>1, <2>2
<1>4. SUBSET S \subseteq Good
  <2> HIDE DEF Good
  <2> QED
    BY <1>3, SetInduction
<1>5. SumFunction(Gifts(s, L, S, D)) = SumFunctionOnSet(Gifts(s, L, S, D), D)
  BY DEF SumFunction, SumFunctionOnSet, FoldFunction, Gifts
<1> QED
  BY <1>4, <1>5

-----------------------------------------------------------------------------
(* The power of ten, and the largest ranking.                              *)

\* The powers up to n, and all of them: the runs up to each n agree.
PowersTo(n, i) == i = [m \in 0 .. n |-> IF m = 0 THEN 1 ELSE 10 * i[m - 1]]
Powers(i) == i = [n \in Nat |-> IF n = 0 THEN 1 ELSE 10 * i[n - 1]]

LEMMA PowersExist == \E i : Powers(i)
<1> DEFINE Good == {n \in Nat : \E i : PowersTo(n, i) /\ i[n] \in Nat}
           power(n) == CHOOSE i : PowersTo(n, i)
<1>1. \A n \in Nat : \E i : PowersTo(n, i)
  <2>1. 0 \in Good
    <3> DEFINE i == [m \in 0 .. 0 |-> 1]
    <3>1. PowersTo(0, i) /\ i[0] = 1
      BY DEF PowersTo
    <3> QED
      BY <3>1
  <2>2. ASSUME NEW n \in Nat, n \in Good PROVE n + 1 \in Good
    <3>1. PICK i : PowersTo(n, i) /\ i[n] \in Nat
      BY <2>2
    <3> DEFINE j == [m \in 0 .. n + 1 |-> IF m = 0 THEN 1 ELSE 10 * i[m - 1]]
    <3>2. \A m \in 0 .. n : i[m] = IF m = 0 THEN 1 ELSE 10 * i[m - 1]
      BY <3>1 DEF PowersTo
    <3>3. \A m \in 0 .. n : j[m] = i[m]
      BY <3>2
    <3>4. \A m \in 0 .. n + 1 : j[m] = IF m = 0 THEN 1 ELSE 10 * j[m - 1]
      <4>1. \A m \in 0 .. n + 1 : m # 0 => m - 1 \in 0 .. n
        OBVIOUS
      <4>2. \A m \in 0 .. n + 1 : j[m] = IF m = 0 THEN 1 ELSE 10 * i[m - 1]
        OBVIOUS
      <4> HIDE DEF j
      <4> QED
        BY <3>3, <4>1, <4>2
    <3>5. j[n + 1] \in Nat
      BY <3>1
    <3>6. j = [m \in 0 .. n + 1 |-> j[m]]
      OBVIOUS
    <3> HIDE DEF j
    <3>7. j = [m \in 0 .. n + 1 |-> IF m = 0 THEN 1 ELSE 10 * j[m - 1]]
      BY <3>4, <3>6
    <3>8. PowersTo(n + 1, j)
      BY <3>7 DEF PowersTo
    <3>9. n + 1 \in Nat /\ \E k : PowersTo(n + 1, k) /\ k[n + 1] \in Nat
      BY <3>5, <3>8
    <3> QED
      BY <3>9
  <2>3. Nat \subseteq Good
    <3> HIDE DEF Good
    <3> QED
      BY <2>1, <2>2, NumberInduction
  <2> QED
    BY <2>3
<1>2. \A n \in Nat : PowersTo(n, power(n))
  BY <1>1
<1> HIDE DEF power
<1>3. ASSUME NEW n \in Nat, NEW m \in 0 .. n
      PROVE  power(n)[m] = IF m = 0 THEN 1 ELSE 10 * power(n)[m - 1]
  BY <1>2, <1>3 DEF PowersTo
<1>4. ASSUME NEW n \in Nat, NEW k \in Nat, k >= n
      PROVE  power(k)[n] = power(n)[n]
  <2> DEFINE Same == {m \in Nat : m <= n => power(k)[m] = power(n)[m]}
  <2>1. 0 \in Same
    <3>1. power(k)[0] = 1 /\ power(n)[0] = 1
      BY <1>3, <1>4
    <3> QED
      BY <3>1
  <2>2. ASSUME NEW m \in Nat, m \in Same PROVE m + 1 \in Same
    <3>1. CASE m + 1 <= n
      <4>1. /\ power(k)[m + 1] = 10 * power(k)[m]
            /\ power(n)[m + 1] = 10 * power(n)[m]
        <5>1. m + 1 \in 0 .. n /\ m + 1 \in 0 .. k /\ m + 1 # 0 /\ m + 1 - 1 = m
          BY <1>4, <3>1
        <5>2. /\ power(k)[m + 1] = 10 * power(k)[m + 1 - 1]
              /\ power(n)[m + 1] = 10 * power(n)[m + 1 - 1]
          BY <1>3, <5>1
        <5> QED
          BY <5>1, <5>2
      <4>2. power(k)[m] = power(n)[m]
        BY <2>2, <3>1
      <4> QED
        BY <4>1, <4>2
    <3>2. CASE ~ (m + 1 <= n)
      BY <3>2
    <3> QED
      BY <3>1, <3>2
  <2>3. Nat \subseteq Same
    <3> HIDE DEF Same
    <3> QED
      BY <2>1, <2>2, NumberInduction
  <2> QED
    BY <2>3
<1> DEFINE i == [n \in Nat |-> power(n)[n]]
<1>5. \A n \in Nat : i[n] = IF n = 0 THEN 1 ELSE 10 * i[n - 1]
  <2> SUFFICES ASSUME NEW n \in Nat PROVE i[n] = IF n = 0 THEN 1 ELSE 10 * i[n - 1]
    OBVIOUS
  <2>1. power(n)[n] = IF n = 0 THEN 1 ELSE 10 * power(n)[n - 1]
    BY <1>3
  <2>2. n # 0 => n - 1 \in Nat /\ power(n)[n - 1] = power(n - 1)[n - 1]
    BY <1>4
  <2> QED
    BY <2>1, <2>2
<1>6. i = [n \in Nat |-> i[n]]
  OBVIOUS
<1> HIDE DEF i
<1>7. i = [n \in Nat |-> IF n = 0 THEN 1 ELSE 10 * i[n - 1]]
  BY <1>5, <1>6
<1> QED
  BY <1>7 DEF Powers

LEMMA Pow10Unfolds ==
    /\ Pow10[0] = 1
    /\ \A n \in Nat : Pow10[n + 1] = 10 * Pow10[n]
<1>1. Powers(Pow10)
  <2>1. Pow10 = CHOOSE i : Powers(i)
    BY Zenon DEF Pow10, Powers
  <2> QED
    BY <2>1, PowersExist
<1>2. \A n \in Nat : Pow10[n] = IF n = 0 THEN 1 ELSE 10 * Pow10[n - 1]
  <2>1. PICK i : i = Pow10
    OBVIOUS
  <2>2. \A n \in Nat : i[n] = IF n = 0 THEN 1 ELSE 10 * i[n - 1]
    BY <1>1, <2>1 DEF Powers
  <2> QED
    BY <2>1, <2>2
<1>3. ASSUME NEW n \in Nat PROVE Pow10[n + 1] = 10 * Pow10[n]
  <2>1. n + 1 \in Nat /\ n + 1 # 0 /\ n + 1 - 1 = n
    OBVIOUS
  <2> QED
    BY <1>2, <2>1
<1> QED
  BY <1>2, <1>3

LEMMA Pow10Type == \A n \in Nat : Pow10[n] \in Nat \ {0}
<1> DEFINE Good == {n \in Nat : Pow10[n] \in Nat \ {0}}
<1>1. 0 \in Good
  BY Pow10Unfolds
<1>2. ASSUME NEW n \in Nat, n \in Good PROVE n + 1 \in Good
  BY <1>2, Pow10Unfolds
<1>3. Nat \subseteq Good
  <2> HIDE DEF Good
  <2> QED
    BY <1>1, <1>2, NumberInduction
<1> QED
  BY <1>3

\* A finite set of numbers has a largest.
LEMMA MaxIs ==
    ASSUME NEW S, IsFiniteSet(S), S # {}, S \subseteq Nat
    PROVE  Max(S) \in S /\ \A x \in S : x <= Max(S)
<1> DEFINE Good == {T \in SUBSET S : T # {} => \E m \in T : \A x \in T : m >= x}
<1>1. ASSUME NEW T \in SUBSET S, \A y \in T : T \ {y} \in Good PROVE T \in Good
  <2> SUFFICES ASSUME T # {} PROVE \E m \in T : \A x \in T : m >= x
    OBVIOUS
  <2>1. PICK y : y \in T
    OBVIOUS
  <2>2. CASE T \ {y} = {}
    <3>1. \A x \in T : y >= x
      BY <2>1, <2>2
    <3> QED
      BY <2>1, <3>1
  <2>3. CASE T \ {y} # {}
    <3>1. PICK m \in T \ {y} : \A x \in T \ {y} : m >= x
      BY <1>1, <2>1, <2>3
    <3>2. m \in Nat /\ y \in Nat /\ \A x \in T : x \in Nat
      BY <2>1
    <3>3. CASE m >= y
      BY <2>1, <3>1, <3>3
    <3>4. CASE y >= m
      <4>1. \A x \in T : y >= x
        BY <3>1, <3>2, <3>4
      <4> QED
        BY <2>1, <4>1
    <3> QED
      BY <3>2, <3>3, <3>4
  <2> QED
    BY <2>2, <2>3
<1>2. SUBSET S \subseteq Good
  <2> HIDE DEF Good
  <2> QED
    BY <1>1, SetInduction
<1>3. \E m \in S : \A x \in S : m >= x
  BY <1>2
<1>4. Max(S) \in S /\ \A x \in S : Max(S) >= x
  BY <1>3 DEF Max
<1> QED
  BY <1>4

\* Whole-number division.
LEMMA DivIs ==
    ASSUME NEW a \in Nat, NEW b \in Nat \ {0}
    PROVE  /\ a \div b \in Nat /\ a % b \in Nat
           /\ (a \div b) * b + (a % b) = a
           /\ b * (a \div b) <= a /\ a < b * (a \div b) + b
<1>1. a \div b \in Nat
  OBVIOUS
<1>2. a % b \in Nat /\ a % b < b
  OBVIOUS
<1>3. a = b * (a \div b) + (a % b)
  OBVIOUS
<1>4. PICK q \in Nat : q = a \div b
  BY <1>1
<1>5. PICK r \in Nat : r = a % b
  BY <1>2
<1>6. a = b * q + r /\ r < b
  BY <1>2, <1>3, <1>4, <1>5
<1>7. b * q = q * b /\ b * q \in Nat
  OBVIOUS
<1>8. q * b + r = a /\ b * q <= a /\ a < b * q + b
  BY <1>6, <1>7
<1> QED
  BY <1>4, <1>5, <1>8

LEMMA DivBounds ==
    ASSUME NEW a \in Nat, NEW b \in Nat \ {0}, NEW c \in Nat, a < c * b
    PROVE  a \div b \in 0 .. c - 1
<1>1. /\ a \div b \in Nat
      /\ b * (a \div b) <= a
  BY DivIs
<1>2. PICK d \in Nat : d = a \div b
  BY <1>1
<1>3. ASSUME d >= c PROVE FALSE
  <2>1. b * d >= b * c
    <3>1. \A m \in Nat : b * (c + m) >= b * c
      OBVIOUS
    <3>2. d - c \in Nat /\ d = c + (d - c)
      BY <1>3
    <3> QED
      BY <3>1, <3>2
  <2>2. b * c = c * b
    OBVIOUS
  <2> QED
    BY <1>1, <1>2, <2>1, <2>2
<1> QED
  BY <1>1, <1>2, <1>3

LEMMA DivMonotone ==
    ASSUME NEW a \in Nat, NEW c \in Nat, a <= c, NEW b \in Nat \ {0}
    PROVE  a \div b <= c \div b
<1>1. PICK d \in Nat : d = a \div b
  BY DivIs
<1>2. PICK e \in Nat : e = c \div b
  BY DivIs
<1>3. b * d <= a /\ c < b * e + b
  BY <1>1, <1>2, DivIs
<1>4. ASSUME d > e PROVE FALSE
  <2>1. \A m \in Nat : b * (e + 1 + m) >= b * e + b
    OBVIOUS
  <2>2. d - e - 1 \in Nat /\ d = e + 1 + (d - e - 1)
    BY <1>4
  <2>3. b * d >= b * e + b
    BY <2>1, <2>2
  <2> QED
    BY <1>3, <2>3
<1> QED
  BY <1>1, <1>2, <1>4

-----------------------------------------------------------------------------
(* The rounds of Rank (ranking.go): the weight is conserved by a push, and *)
(* scaling keeps its order and its bound.                                  *)

RankingState(g) ==
    [graph : {g}, scale : Scales, step : {"push", "advance", "scale", "done"}, round : Nat,
     cur : [NodesOf(g) -> Nat], next : [NodesOf(g) -> Nat]]

\* The sums of a round begin at zero; otherwise the properties need the types only.
RankingSafe ==
    /\ \E g \in LinkGraphs : DOMAIN g # {} /\ ranking \in RankingState(g)
    /\ ranking.step = "push" => \A q \in DOMAIN ranking.next : ranking.next[q] = 0
    /\ WeightConserved
    /\ RanksInScale

\* A function on a finite set has finitely many values.
LEMMA ImageFinite ==
    ASSUME NEW D, NEW T, NEW f \in [D -> T], IsFiniteSet(D)
    PROVE  IsFiniteSet({f[x] : x \in D})
<1>1. f \in Surjection(D, {f[x] : x \in D})
  BY DEF Surjection
<1> QED
  BY <1>1, FS_Surjection

\* A graph is finite, and a node's links are nodes (ranking.go:211-225).
LEMMA GraphShape ==
    ASSUME NEW g \in LinkGraphs
    PROVE  /\ IsFiniteSet(NodesOf(g)) /\ DOMAIN g \subseteq NodesOf(g)
           /\ \A p \in NodesOf(g) : LinksOf(g, p) \subseteq NodesOf(g)
           /\ \A p \in DOMAIN g : IsFiniteSet(g[p])
<1>1. IsFiniteSet(DOMAIN g) /\ \A p \in DOMAIN g : IsFiniteSet(g[p])
  BY RankingAssumption
<1>2. Imported(g, DOMAIN g) = UNION {g[p] : p \in DOMAIN g}
  BY DEF Imported
<1>3. IsFiniteSet({g[p] : p \in DOMAIN g})
  <2>1. g \in [DOMAIN g -> SUBSET Paths]
    BY LinksAssumption
  <2> QED
    BY <1>1, <2>1, ImageFinite
<1>4. IsFiniteSet(UNION {g[p] : p \in DOMAIN g})
  <2>1. PICK rows : rows = {g[p] : p \in DOMAIN g}
    OBVIOUS
  <2>2. IsFiniteSet(rows) /\ \A row \in rows : IsFiniteSet(row)
    BY <1>1, <1>3, <2>1
  <2>3. IsFiniteSet(UNION rows)
    BY <2>2, FS_UNION
  <2> QED
    BY <2>1, <2>3
<1>5. IsFiniteSet(NodesOf(g))
  BY <1>1, <1>2, <1>4, FS_Union DEF NodesOf
<1>6. \A p \in NodesOf(g) : LinksOf(g, p) \subseteq NodesOf(g)
  BY DEF LinksOf, NodesOf, Imported
<1> QED
  BY <1>1, <1>5, <1>6 DEF NodesOf

LEMMA RankingStartsSafe == RankingInit => RankingSafe
<1> SUFFICES ASSUME RankingInit PROVE RankingSafe
  OBVIOUS
<1>1. PICK g \in LinkGraphs, scale \in Scales : DOMAIN g # {} /\ ranking = RankingStart(g, scale)
  BY DEF RankingInit, RankingStarts
<1>2. IsFiniteSet(NodesOf(g)) /\ NodesOf(g) # {}
  BY <1>1, GraphShape
<1>3. Cardinality(NodesOf(g)) \in Nat \ {0}
  BY <1>2, FS_CardinalityType, FS_EmptySet
<1>4. Unit \div Cardinality(NodesOf(g)) \in Nat
  BY <1>3, RankingAssumption, DivIs
<1>5. ranking \in RankingState(g)
  BY <1>1, <1>4 DEF RankingStart, RankingState
<1>6. /\ ranking.step = "push"
      /\ \A q \in DOMAIN ranking.next : ranking.next[q] = 0
  BY <1>1 DEF RankingStart
<1> QED
  BY <1>1, <1>5, <1>6 DEF RankingSafe, WeightConserved, RanksInScale

-----------------------------------------------------------------------------
(* A push.                                                                 *)

\* What arrives at the nodes is, row by row, the share times the number of links;
\* with the remainder of the division that is the weight of the row.
LEMMA PushSafe ==
    ASSUME RankingSafe, Pushes
    PROVE  RankingSafe'
<1>1. PICK g \in LinkGraphs : DOMAIN g # {} /\ ranking \in RankingState(g)
  BY DEF RankingSafe
<1>2. /\ ranking.graph = g /\ ranking.cur \in [NodesOf(g) -> Nat]
      /\ ranking.next \in [NodesOf(g) -> Nat]
      /\ \A q \in NodesOf(g) : ranking.next[q] = 0
      /\ Linked \subseteq NodesOf(g)
      /\ ranking.step = "push"
  BY <1>1 DEF RankingSafe, RankingState, Pushes, Linked
<1>3. IsFiniteSet(NodesOf(g)) /\ IsFiniteSet(Linked)
  BY <1>2, GraphShape, FS_Subset
<1>4. ASSUME NEW p \in Linked
      PROVE  /\ LinksOf(g, p) \subseteq NodesOf(g)
             /\ Cardinality(LinksOf(g, p)) \in Nat \ {0}
             /\ ranking.cur[p] \in Nat
             /\ Shares[p] = ranking.cur[p] \div Cardinality(LinksOf(g, p))
             /\ Shares[p] \in Nat
  <2>1. LinksOf(g, p) \subseteq NodesOf(g) /\ LinksOf(g, p) # {} /\ ranking.cur[p] \in Nat
    BY <1>2, <1>4, GraphShape DEF Linked
  <2>2. Cardinality(LinksOf(g, p)) \in Nat \ {0}
    BY <1>3, <2>1, FS_Subset, FS_CardinalityType, FS_EmptySet
  <2>3. Shares[p] = ranking.cur[p] \div Cardinality(LinksOf(g, p))
    BY <1>2 DEF Shares
  <2>4. ranking.cur[p] \div Cardinality(LinksOf(g, p)) \in Nat
    BY <2>1, <2>2, DivIs
  <2> QED
    BY <2>1, <2>2, <2>3, <2>4
<1> DEFINE L == [p \in Linked |-> LinksOf(g, p)]
           gifts == Gifts(Shares, L, Linked, NodesOf(g))
           left == [p \in Linked |-> ranking.cur[p] % Cardinality(LinksOf(g, p))]
<1>5. ASSUME NEW q \in NodesOf(g) PROVE Pushed(q) = gifts[q] /\ Pushed(q) \in Nat
  <2>1. Importers(q) = {p \in Linked : q \in L[p]}
    BY <1>2 DEF Importers
  <2>2. IsFiniteSet(Importers(q)) /\ Importers(q) \subseteq Linked
    BY <1>3, <2>1, FS_Subset
  <2>3. SumFunctionOnSet(Shares, Importers(q)) \in Nat
    BY <1>4, <2>2, SumNat
  <2>4. gifts[q] = SumFunctionOnSet(Shares, Importers(q))
    BY <2>1 DEF Gifts
  <2> HIDE DEF gifts
  <2> QED
    BY <1>2, <2>3, <2>4 DEF Pushed
<1>6. /\ ranking' = [ranking EXCEPT !.step = "advance", !.next = [q \in NodesOf(g) |-> Pushed(q)]]
      /\ DOMAIN gifts = NodesOf(g)
  BY <1>2 DEF Pushes, Gifts
<1>7. [q \in NodesOf(g) |-> Pushed(q)] = gifts
  <2>1. gifts = [q \in NodesOf(g) |-> gifts[q]]
    BY DEF Gifts
  <2> HIDE DEF gifts
  <2> QED
    BY <1>5, <2>1
<1>8. gifts \in [NodesOf(g) -> Nat]
  <2> HIDE DEF gifts
  <2> QED
    BY <1>5, <1>7
<1> HIDE DEF gifts
<1>9. /\ ranking' \in RankingState(g) /\ ranking'.next = gifts /\ ranking'.cur = ranking.cur
      /\ ranking'.graph = g /\ ranking'.step = "advance"
  BY <1>1, <1>2, <1>6, <1>7, <1>8 DEF RankingState
<1>10. SumFunction(gifts) = SumFunctionOnSet(Given(Shares, L, Linked), Linked)
  <2>1. \A p \in Linked : Shares[p] \in Nat /\ L[p] \subseteq NodesOf(g)
    BY <1>4
  <2> HIDE DEF L
  <2> QED
    BY <1>3, <2>1, SumsExchange DEF gifts
<1>11. ASSUME NEW p \in Linked
       PROVE  /\ Given(Shares, L, Linked)[p] \in Nat /\ left[p] \in Nat
              /\ ranking.cur[p] = Given(Shares, L, Linked)[p] + left[p]
  <2>1. PICK c \in Nat, d \in Nat \ {0} :
            c = ranking.cur[p] /\ d = Cardinality(LinksOf(g, p))
    BY <1>4
  <2>2. Given(Shares, L, Linked)[p] = (c \div d) * d
    BY <1>4, <2>1 DEF Given
  <2>3. left[p] = c % d
    BY <2>1
  <2>4. c % d \in Nat /\ c \div d \in Nat /\ (c \div d) * d + (c % d) = c
    BY DivIs
  <2>5. \A m \in Nat : m * d \in Nat
    OBVIOUS
  <2> HIDE DEF left
  <2> QED
    BY <2>1, <2>2, <2>3, <2>4, <2>5
<1>12. SumFunctionOnSet(ranking.cur, Linked)
           = SumFunctionOnSet(Given(Shares, L, Linked), Linked) + SumFunctionOnSet(left, Linked)
  <2>1. PICK f, h, k : f = Given(Shares, L, Linked) /\ h = left /\ k = ranking.cur
    OBVIOUS
  <2>2. \A p \in Linked : f[p] \in Nat /\ h[p] \in Nat /\ k[p] = f[p] + h[p]
    BY <1>11, <2>1
  <2>3. SumFunctionOnSet(k, Linked) = SumFunctionOnSet(f, Linked) + SumFunctionOnSet(h, Linked)
    BY <1>3, <2>2, SumAdds
  <2> QED
    BY <2>1, <2>3
<1>13. WeightConserved'
  <2>1. Linked' = Linked
    BY <1>2, <1>9 DEF Linked
  <2>2. SumFunction(left) = SumFunctionOnSet(left, Linked)
    BY DEF SumFunction
  <2>3. SumFunction(gifts) + SumFunction(left) = SumFunctionOnSet(ranking.cur, Linked)
    BY <1>10, <1>12, <2>2
  <2> QED
    BY <1>9, <2>1, <2>3 DEF WeightConserved
<1>14. RanksInScale'
  BY <1>9 DEF RanksInScale
<1> QED
  BY <1>1, <1>9, <1>13, <1>14 DEF RankingSafe

-----------------------------------------------------------------------------
(* The end of a round, and the scaling.                                    *)

LEMMA AdvanceSafe ==
    ASSUME RankingSafe, Advances
    PROVE  RankingSafe'
<1>1. PICK g \in LinkGraphs : DOMAIN g # {} /\ ranking \in RankingState(g)
  BY DEF RankingSafe
<1>2. /\ ranking.cur \in [NodesOf(g) -> Nat] /\ ranking.next \in [NodesOf(g) -> Nat]
      /\ ranking.round \in Nat
  BY <1>1 DEF RankingState
<1>3. ASSUME NEW q \in NodesOf(g) PROVE Damped(q) \in Nat
  <2>1. PICK n, a, b, u : /\ n = ranking.next[q] /\ u = Unit
                          /\ a = Damping[1] /\ b = Damping[2]
    OBVIOUS
  <2> DEFINE r == b - a
  <2>2. n \in Nat /\ b \in Nat \ {0} /\ u \in Nat /\ a \in 0 .. b
    BY <1>2, <2>1, RankingAssumption
  <2>3. a \in Nat /\ r \in Nat
    BY <2>2
  <2>4. Damped(q) = (u * r + a * n) \div b
    BY <2>1 DEF Damped
  <2> HIDE DEF r
  <2>5. u * r \in Nat /\ a * n \in Nat
    BY <2>2, <2>3
  <2>6. u * r + a * n \in Nat
    BY <2>5
  <2>7. (u * r + a * n) \div b \in Nat
    BY <2>2, <2>6, DivIs
  <2> QED
    BY <2>4, <2>7
<1>4. ranking' = [ranking EXCEPT
          !.step = IF ranking.round = Iterations THEN "scale" ELSE "push",
          !.round = IF ranking.round = Iterations THEN @ ELSE @ + 1,
          !.cur = [q \in NodesOf(g) |-> Damped(q)],
          !.next = [q \in NodesOf(g) |-> 0]]
  BY <1>2 DEF Advances, Cleared
<1>5. [q \in NodesOf(g) |-> Damped(q)] \in [NodesOf(g) -> Nat]
  BY <1>3
<1>6. ranking' \in RankingState(g)
  <2>1. PICK step, round, cur, next :
            /\ step = IF ranking.round = Iterations THEN "scale" ELSE "push"
            /\ round = IF ranking.round = Iterations THEN ranking.round ELSE ranking.round + 1
            /\ cur = [q \in NodesOf(g) |-> Damped(q)] /\ next = [q \in NodesOf(g) |-> 0]
    OBVIOUS
  <2>2. /\ step \in {"push", "scale"} /\ round \in Nat
        /\ cur \in [NodesOf(g) -> Nat] /\ next \in [NodesOf(g) -> Nat]
    BY <1>2, <1>5, <2>1
  <2>3. ranking' = [ranking EXCEPT !.step = step, !.round = round, !.cur = cur, !.next = next]
    BY <1>4, <2>1
  <2> QED
    BY <1>1, <2>2, <2>3 DEF RankingState
<1>7. /\ ranking'.step \in {"scale", "push"}
      /\ \A q \in DOMAIN ranking'.next : ranking'.next[q] = 0
  BY <1>1, <1>4 DEF RankingState
<1> QED
  BY <1>1, <1>6, <1>7 DEF RankingSafe, WeightConserved, RanksInScale

LEMMA ScaleSafe ==
    ASSUME RankingSafe, ScalesRanks
    PROVE  RankingSafe'
<1>1. PICK g \in LinkGraphs : DOMAIN g # {} /\ ranking \in RankingState(g)
  BY DEF RankingSafe
<1>2. /\ ranking.cur \in [NodesOf(g) -> Nat] /\ ranking.next \in [NodesOf(g) -> Nat]
      /\ ranking.scale \in Nat
  BY <1>1, RankingAssumption DEF RankingState
<1>3. PICK top \in Nat : /\ top = Max({ranking.cur[q] : q \in DOMAIN ranking.cur})
                         /\ \A p \in NodesOf(g) : ranking.cur[p] <= top
  <2>1. PICK values : values = {ranking.cur[q] : q \in DOMAIN ranking.cur}
    OBVIOUS
  <2>2. IsFiniteSet(values) /\ values # {} /\ values \subseteq Nat
    <3>1. IsFiniteSet(NodesOf(g)) /\ NodesOf(g) # {}
      BY <1>1, GraphShape
    <3> QED
      BY <1>2, <2>1, <3>1, ImageFinite
  <2>3. Max(values) \in values /\ \A x \in values : x <= Max(values)
    BY <2>2, MaxIs
  <2> QED
    BY <1>2, <2>1, <2>2, <2>3
<1>4. PICK apex \in Nat \ {0} : apex = Apex /\ \A p \in NodesOf(g) : ranking.cur[p] < apex
  <2>1. top + Unit \in Nat \ {0} /\ top < top + Unit
    BY RankingAssumption
  <2>2. Apex = top + Unit
    BY <1>3 DEF Apex
  <2>3. \A p \in NodesOf(g) : ranking.cur[p] < top + Unit
    BY <1>2, <1>3, <2>1
  <2> QED
    BY <2>1, <2>2, <2>3
<1>5. PICK ten \in Nat \ {0} : ten = Pow10[ranking.scale]
  BY <1>2, Pow10Type
<1>6. ASSUME NEW p \in NodesOf(g) PROVE Scales10(p) \in 0 .. ten - 1
  <2>1. PICK c \in Nat : c = ranking.cur[p] /\ c < apex
    BY <1>2, <1>4
  <2>2. ten * c \in Nat /\ ten * c < ten * apex
    <3>1. \A m \in Nat \ {0} : ten * (c + m) > ten * c
      <4>1. \A m \in Nat \ {0} : ten * (c + m) = ten * c + ten * m /\ ten * m > 0
        OBVIOUS
      <4> QED
        BY <4>1
    <3>2. apex - c \in Nat \ {0} /\ apex = c + (apex - c)
      BY <2>1
    <3> QED
      BY <3>1, <3>2
  <2>3. (ten * c) \div apex \in 0 .. ten - 1
    BY <2>2, DivBounds
  <2> QED
    BY <1>4, <1>5, <2>1, <2>3 DEF Scales10
<1>7. ASSUME NEW p \in NodesOf(g), NEW q \in NodesOf(g), ranking.cur[p] <= ranking.cur[q]
      PROVE  Scales10(p) <= Scales10(q)
  <2>1. PICK c \in Nat, d \in Nat : c = ranking.cur[p] /\ d = ranking.cur[q]
    BY <1>2
  <2>2. ten * c \in Nat /\ ten * d \in Nat /\ ten * c <= ten * d
    <3>1. \A m \in Nat : ten * (c + m) >= ten * c
      OBVIOUS
    <3>2. d - c \in Nat /\ d = c + (d - c)
      BY <1>7, <2>1
    <3> QED
      BY <3>1, <3>2
  <2>3. (ten * c) \div apex <= (ten * d) \div apex
    BY <2>2, DivMonotone
  <2> QED
    BY <1>4, <1>5, <2>1, <2>3 DEF Scales10
<1>8. ranking' = [ranking EXCEPT !.step = "done", !.next = [p \in NodesOf(g) |-> Scales10(p)]]
  BY <1>2 DEF ScalesRanks
<1>9. [p \in NodesOf(g) |-> Scales10(p)] \in [NodesOf(g) -> Nat]
  BY <1>5, <1>6
<1>10. /\ ranking' \in RankingState(g) /\ ranking'.step = "done"
       /\ ranking'.cur = ranking.cur /\ ranking'.scale = ranking.scale
       /\ ranking'.next = [p \in NodesOf(g) |-> Scales10(p)]
  BY <1>1, <1>8, <1>9 DEF RankingState
<1>11. RanksInScale'
  BY <1>5, <1>6, <1>7, <1>10 DEF RanksInScale
<1> QED
  BY <1>1, <1>10, <1>11 DEF RankingSafe, WeightConserved

LEMMA RankingInvariant == RankingSpec => []RankingSafe
<1>1. RankingInit => RankingSafe
  BY RankingStartsSafe
<1>2. RankingSafe /\ [RankingNext]_ranking => RankingSafe'
  <2> SUFFICES ASSUME RankingSafe, [RankingNext]_ranking PROVE RankingSafe'
    OBVIOUS
  <2>1. CASE Pushes
    BY <2>1, PushSafe
  <2>2. CASE Advances
    BY <2>2, AdvanceSafe
  <2>3. CASE ScalesRanks
    BY <2>3, ScaleSafe
  <2>4. CASE UNCHANGED ranking
    BY <2>4 DEF RankingSafe, WeightConserved, RanksInScale, Linked
  <2> QED
    BY <2>1, <2>2, <2>3, <2>4 DEF RankingNext
<1> QED
  BY <1>1, <1>2, PTL DEF RankingSpec

\* For any graph, damping and number of rounds: what a push gives to the nodes is
\* what the rows with imports had, but for the remainders (ranking.go:191-207).
THEOREM PushesConserveWeight == RankingSpec => []WeightConserved
<1>1. RankingSafe => WeightConserved
  BY DEF RankingSafe
<1> QED
  BY <1>1, RankingInvariant, PTL

\* For any graph and scale: a scaled ranking stays below the power of ten, and no
\* two rankings are turned round (ranking.go:94-109).
THEOREM ScalingKeepsOrder == RankingSpec => []RanksInScale
<1>1. RankingSafe => RanksInScale
  BY DEF RankingSafe
<1> QED
  BY <1>1, RankingInvariant, PTL
=============================================================================
