------------------------------- MODULE Quads -------------------------------
(***************************************************************************)
(* Graph.EncodeToQuads (graph/rdf.go) on a graph at rest, as the quaddeps  *)
(* tool uses it.  Blank nodes are numbers; a quad is <<node, relation,     *)
(* object>>.  What a row, one import or one source file contributes is one *)
(* step; types, rankings and repositories are left out.                    *)
(***************************************************************************)
EXTENDS Links, Storage

CONSTANT SourcesOf   \* the digests of the source files of each path

ASSUME QuadsAssumption == SourcesOf \in [Paths -> SUBSET Nat]

VARIABLE encoding

EncodingStart(g) ==
    [graph |-> g, todo |-> DOMAIN g, step |-> "scan",
     row |-> 0, imports |-> {}, files |-> {},   \* the row at hand, what is left of it
     pkgs |-> Empty, shas |-> Empty,      \* the nodes assigned so far
     last |-> 0,                          \* the last node taken from the sequence
     defn |-> {}, need |-> {}, quads |-> {}]

EncodingStarts == {EncodingStart(g) : g \in LinkGraphs}

EncodingInit == encoding \in EncodingStarts

NewNode(e, map) == e.last + 1

\* Mutant of Assigned: every mention of a key makes a node.
AssignedAnew(e, map, key) ==
    [e EXCEPT ![map] = Put(@, key, NewNode(e, map)), !.last = @ + 1]

\* assign: the node of a key is taken from the sequence at its first mention.
Assigned(e, map, key) == IF key \in DOMAIN e[map] THEN e ELSE
    [e EXCEPT ![map] = Put(@, key, NewNode(e, map)), !.last = @ + 1]

Sent(e, subject, relation, object) ==
    [e EXCEPT !.quads = @ \cup {<<subject, relation, object>>}]

\* The next row, or what comes next of the row at hand.
IsLeast(things, thing) == thing \in things /\ \A other \in things : thing <= other
RowDone == encoding.step = "scan" /\ encoding.imports = {} /\ encoding.files = {}

\* Graph.Scan delivers the rows in the order of their keys.
EncodesRow(p) ==
    /\ RowDone /\ IsLeast(encoding.todo, p)
    /\ LET e == Assigned(encoding, "pkgs", p) IN
       encoding' = [Sent(e, e.pkgs[p], "import-path", p) EXCEPT
           !.todo = @ \ {p}, !.row = p, !.imports = e.graph[p], !.files = SourcesOf[p],
           !.defn = @ \cup {p}, !.need = @ \ {p}]

EncodesImport(t) ==
    /\ IsLeast(encoding.imports, t)
    /\ LET e1 == Assigned(encoding, "pkgs", encoding.row)
           e2 == Assigned(e1, "pkgs", t)
       IN  encoding' = [Sent(e2, e1.pkgs[e1.row], "imports", e2.pkgs[t]) EXCEPT
               !.imports = @ \ {t}, !.need = @ \cup ({t} \ e2.defn)]

EncodesFile(sha) ==
    /\ encoding.imports = {} /\ IsLeast(encoding.files, sha)
    /\ LET e == Assigned(encoding, "shas", sha) IN
       encoding' = [Sent(e, e.shas[sha], "digest", sha) EXCEPT !.files = @ \ {sha}]

\* A refused quad panics up to the deferred function, which returns the error.
WriterFails ==
    /\ encoding.step = "scan"
    /\ encoding' = [encoding EXCEPT !.step = "failed", !.imports = {}, !.files = {}]

\* After the scan: a dummy row, with a node of its own, for each package that is
\* needed, has no row, and has no node yet.
EncodingEnds ==
    /\ RowDone /\ encoding.todo = {}
    /\ LET dummies == (encoding.need \ encoding.defn) \ DOMAIN encoding.pkgs IN
       encoding' = [encoding EXCEPT !.step = "done",
           !.quads = @ \cup {<<encoding.last + p, "is-missing", p>> : p \in dummies}]

EncodingNext ==
    \/ \E p \in Paths : EncodesRow(p) \/ EncodesImport(p)
    \/ \E sha \in encoding.files : EncodesFile(sha)
    \/ WriterFails \/ EncodingEnds

EncodingSpec == EncodingInit /\ [][EncodingNext]_encoding
-----------------------------------------------------------------------------
Objects(n, relation) == {quad[3] : quad \in {quad \in encoding.quads :
                             quad[1] = n /\ quad[2] = relation}}
Subjects == {quad[1] : quad \in encoding.quads}

\* A node of the output stands for one package or for one file, and no two
\* nodes for the same one, although both are numbered by one sequence through
\* two maps (rdf.go:68-83).
Distinct == \A n \in Subjects :
    /\ Cardinality(Objects(n, "import-path")) + Cardinality(Objects(n, "digest")) <= 1
    /\ \A m \in Subjects \ {n}, name \in {"import-path", "digest"} :
           Objects(n, name) \cap Objects(m, name) = {}

\* What the output says p imports, by joining on the nodes.
Joined(p, t) == \E n \in Subjects :
    /\ p \in Objects(n, "import-path")
    /\ \E m \in Objects(n, "imports") : t \in Objects(m, "import-path")

\* It imports something whose node has no import path.
Unnamed(p) == \E n \in Subjects :
    /\ p \in Objects(n, "import-path")
    /\ \E m \in Objects(n, "imports") : Objects(m, "import-path") = {}

\* A reader of the output, who finds its nodes distinct, finds the imports
\* between the rows of the graph, and no others, by joining on the nodes; and
\* sees which rows import packages that are missing, although no dummy row
\* names those: their nodes have no import path (rdf.go:68-97, 107-116).
ImportsDescribed ==
    encoding.step = "done" =>
        /\ Distinct
        /\ \A p, t \in Paths :
               Joined(p, t) <=> {p, t} \subseteq DOMAIN encoding.graph /\ t \in encoding.graph[p]
        /\ \A p \in DOMAIN encoding.graph :
               Unnamed(p) <=> encoding.graph[p] \cap Missing(encoding.graph) # {}
=============================================================================
