------------------------------- MODULE Query -------------------------------
(***************************************************************************)
(* The paged queries: Server.Match (service/match.go) and Server.Reverse   *)
(* (service/reverse.go) scan the graph row by row while others change it;  *)
(* the loops of Client.Match and Client.Reverse (client/client.go) ask     *)
(* page after page and deliver the items one by one.  An item is <<p,   *)
(* NoKey>>, a row, or <<p, t>>, an import of t by p.                       *)
(***************************************************************************)
EXTENDS Storage, Integers, SequencesExt

CONSTANTS
    Packages,    \* import paths, ordered as numbers
    Begins,      \* <<p, q>>: the path q begins with the path p
    Below,       \* <<p, q>>: the path q begins with p and a slash
    Repos,       \* repositories
    AnyRepo,     \* no repository in a request
    FirstRows,   \* the rows when the query starts
    Changes,     \* <<p, row>>: the rows others may store meanwhile
    Removals,    \* the rows others may remove
    Queries,     \* the requests made
    PageSize     \* Options.DefaultPageSize

NoKey == 0
QueryRow == [repo : Repos, imports : SUBSET Packages]
Pattern == [kind : {"all", "exact", "tree"}, path : Packages]
MatchReq == [method : {"match"}, pattern : Pattern, repo : Repos \cup {AnyRepo},
             countOnly : BOOLEAN, limit : Nat]
ReverseReq == [method : {"reverse"}, targets : SUBSET Packages, sources : SUBSET Packages,
               filterSameRepo : BOOLEAN, countOnly : BOOLEAN, limit : Nat]

ASSUME QueryAssumption ==
    /\ Packages \subseteq Nat \ {NoKey}
    /\ Below \subseteq Begins /\ Begins \subseteq Packages \X Packages
    /\ AnyRepo \notin Repos
    /\ IsMap(FirstRows, Packages, QueryRow)
    /\ Changes \subseteq Packages \X QueryRow /\ Removals \subseteq Packages
    /\ Queries \subseteq MatchReq \cup ReverseReq
    /\ PageSize \in Nat \ {0}
    /\ \A req \in Queries : req.method = "reverse" => IsFiniteSet(req.targets)

\* The order is that of the names: what begins with a path comes after it, and
\* nothing else comes between two such paths.
ASSUME OrderAssumption ==
    /\ \A b \in Begins : b[1] < b[2]
    /\ \A o \in {Begins, Below}, p, q, r, s \in Packages :
           <<p, q>> \in o /\ <<p, s>> \in o /\ q < r /\ r < s => <<p, r>> \in o
    /\ \A p, q, r \in Packages : <<p, r>> \in Begins /\ p < q /\ q < r => <<p, q>> \in Begins

VARIABLES
    rows,        \* the graph
    query,       \* the query: its request, the page in progress, its results
    cache,       \* the repositories the call of a page has looked up
    touched      \* history: the rows changed since the query began

queryVars == <<rows, query, cache, touched>>

Item == Packages \X {NoKey} \cup Packages \X Packages
QueryState ==
    [req : MatchReq \cup ReverseReq,
     step : {"call", "scan", "deliver", "done", "failed"},
     key : Packages \cup {NoKey},     \* PageKey of the page in progress
     next : Packages \cup {NoKey},    \* NextPage of its answer
     todo : SUBSET Packages,          \* listed rows not yet visited
     num : Nat,                       \* NumRows, NumImports
     page : Seq(Item),                \* the items of the page not yet delivered
     got : Seq(Item)]                 \* the items delivered

-----------------------------------------------------------------------------
(* What a row contributes.                                                 *)

Limit(req) == IF req.limit > 0 THEN req.limit ELSE PageSize

\* MatchReq.compile: the pattern "..." below a path takes the path as well.
MatchesPackage(pattern, p) ==
    CASE pattern.kind = "all" -> TRUE
      [] pattern.kind = "exact" -> p = pattern.path
      [] pattern.kind = "tree" -> p = pattern.path \/ <<pattern.path, p>> \in Below

MatchesRepo(req, p) == req.repo \in {AnyRepo, rows[p].repo}

\* Where the listing starts: at the page key, or as early as the pattern may match.
Start(req, key) ==
    IF key # NoKey \/ req.method = "reverse" \/ req.pattern.kind = "all"
    THEN key ELSE req.pattern.path

\* No row from p on can match, as p does not even begin like the start.
PastMatches(req, key, p) ==
    LET start == Start(req, key) IN
    /\ MatchesRepo(req, p) /\ ~MatchesPackage(req.pattern, p)
    /\ start \notin {NoKey, p} /\ <<start, p>> \notin Begins

\* repoMap: the repositories of rows, each looked up once in a call; a row that
\* is gone is in no repository.
Learned(ps) ==
    [p \in DOMAIN cache \cup (ps \cap DOMAIN rows) |->
        IF p \in DOMAIN cache THEN cache[p] ELSE rows[p].repo]

\* The targets a row imports.
Targets(req, p) == IF p \in req.sources THEN rows[p].imports \cap req.targets ELSE {}

\* The items of a row, and what the call knows once it has looked for them.
\* The lookups of one visit are one step: no two are of the same row.
Hits(req, p) ==
    IF req.method = "match"
    THEN IF MatchesRepo(req, p) /\ MatchesPackage(req.pattern, p) THEN {<<p, NoKey>>} ELSE {}
    ELSE LET known == Learned({p} \cup Targets(req, p)) IN
         {<<p, t>> : t \in {t \in Targets(req, p) :
             req.filterSameRepo =>
                 ~({p, t} \subseteq DOMAIN known /\ known[p] = known[t])}}

\* Mutant of Overflows: a first row that is too large is put off as well.
OverflowsAlways(req, n) ==
    IF req.method = "match" THEN n > 0 /\ Len(query.page) = Limit(req)
    ELSE Len(query.page) + n > Limit(req)

\* A row with n items does not fit the page.  Reverse takes a first row of any
\* size, or it would never get past it.
Overflows(req, n) ==
    IF req.method = "match" THEN n > 0 /\ Len(query.page) = Limit(req)
    ELSE query.page # << >> /\ Len(query.page) + n > Limit(req)

-----------------------------------------------------------------------------
QueryInit ==
    /\ rows = FirstRows
    /\ cache = Empty
    /\ touched = {}
    /\ \E req \in Queries :
           query = [req |-> req, step |-> "call", key |-> NoKey, next |-> NoKey,
                    todo |-> {}, num |-> 0, page |-> << >>, got |-> << >>]

\* Mutant of CallsPage: the page key is not sent.
CallsFirstPage ==
    /\ query.step = "call"
    /\ query' = [query EXCEPT !.step = "scan", !.next = NoKey, !.num = 0,
           !.todo = {p \in Listing(rows) : p >= Start(query.req, NoKey)}]
    /\ cache' = Empty
    /\ UNCHANGED <<rows, touched>>

\* The client asks for a page; the server lists the rows from its key on.
CallsPage ==
    /\ query.step = "call"
    /\ query' = [query EXCEPT !.step = "scan", !.next = NoKey, !.num = 0,
           !.todo = {p \in Listing(rows) : p >= Start(query.req, query.key)}]
    /\ cache' = Empty
    /\ UNCHANGED <<rows, touched>>

Visiting(p) == query.step = "scan" /\ p \in query.todo /\ \A q \in query.todo : p <= q

\* The next row is past all matches: the page ends.
PageStops(p) ==
    /\ Visiting(p) /\ p \in DOMAIN rows
    /\ query.req.method = "match" /\ PastMatches(query.req, query.key, p)
    /\ query' = [query EXCEPT !.todo = {}]
    /\ UNCHANGED <<rows, cache, touched>>

Breaking(p) ==
    /\ Visiting(p) /\ p \in DOMAIN rows
    /\ ~query.req.countOnly
    /\ query.req.method = "match" => ~PastMatches(query.req, query.key, p)
    /\ query.req.method = "reverse" => p \in query.req.sources
    /\ Overflows(query.req, Cardinality(Hits(query.req, p)))

\* Mutant of PageBreaks: the next page starts after the row put off.
PageBreaksPast(p) ==
    /\ Breaking(p)
    /\ query' = [query EXCEPT !.todo = {}, !.next =
           IF query.todo = {p} THEN NoKey ELSE CHOOSE q \in query.todo \ {p} : TRUE]
    /\ UNCHANGED <<rows, cache, touched>>

\* Mutant of PageBreaks: imports are taken back that were not counted yet.
PageBreaksUncounting(p) ==
    /\ Breaking(p)
    /\ query' = [query EXCEPT !.todo = {}, !.next = p,
           !.num = @ - 2 * Cardinality(Hits(query.req, p))]
    /\ UNCHANGED <<rows, cache, touched>>

\* The next row does not fit any more: the next page starts there.
PageBreaks(p) ==
    /\ Breaking(p)
    /\ query' = [query EXCEPT !.todo = {}, !.next = p]
    /\ UNCHANGED <<rows, cache, touched>>

\* The items of the next row, if it has any, are put on the page, or counted.
PageTakes(p) ==
    /\ Visiting(p) /\ p \in DOMAIN rows
    /\ query.req.method = "match" => ~PastMatches(query.req, query.key, p)
    /\ LET hits == Hits(query.req, p) IN
       /\ \/ query.req.countOnly
          \/ ~Overflows(query.req, Cardinality(hits))
          \/ query.req.method = "reverse" /\ p \notin query.req.sources
       /\ query' = [query EXCEPT !.todo = @ \ {p}, !.num = @ + Cardinality(hits),
              !.page = IF query.req.countOnly THEN @ ELSE @ \o SetToSeq(hits)]
    /\ cache' = IF query.req.method = "reverse" /\ query.req.filterSameRepo
                   /\ Targets(query.req, p) # {}
                THEN Learned({p} \cup Targets(query.req, p)) ELSE cache
    /\ UNCHANGED <<rows, touched>>

\* A listed row is gone: the call, and the query with it, ends with an error.
PageMisses(p) ==
    /\ Visiting(p) /\ p \notin DOMAIN rows
    /\ query' = [query EXCEPT !.step = "failed", !.todo = {}]
    /\ UNCHANGED <<rows, cache, touched>>

\* The answer reaches the client.
PageAnswers ==
    /\ query.step = "scan" /\ query.todo = {}
    /\ query' = [query EXCEPT !.step = IF query.req.countOnly THEN "done" ELSE "deliver"]
    /\ UNCHANGED <<rows, cache, touched>>

\* An item is delivered.  An error of the callback, or the limit of the
\* request, ends the query.
Delivers(accepted) ==
    /\ query.step = "deliver" /\ query.page # << >>
    /\ query' = [query EXCEPT !.page = Tail(@), !.got = Append(@, Head(query.page)),
           !.step = IF ~accepted THEN "failed"
                    ELSE IF query.req.limit > 0 /\ Len(query.got) + 1 = query.req.limit
                    THEN "done" ELSE "deliver"]
    /\ UNCHANGED <<rows, cache, touched>>

\* The page is delivered; the next one is asked for if there is one.
TurnsPage ==
    /\ query.step = "deliver" /\ query.page = << >>
    /\ query' = [query EXCEPT !.step = IF query.next = NoKey THEN "done" ELSE "call",
                              !.key = query.next]
    /\ UNCHANGED <<rows, cache, touched>>

\* What others do to the graph, whichever way: an Update, a Remove.
OthersStore(p, row) ==
    /\ ~(p \in DOMAIN rows /\ rows[p] = row)
    /\ rows' = Put(rows, p, row)
    /\ touched' = touched \cup {p}
    /\ UNCHANGED <<query, cache>>

OthersRemove(p) ==
    /\ p \in DOMAIN rows
    /\ rows' = Drop(rows, p)
    /\ touched' = touched \cup {p}
    /\ UNCHANGED <<query, cache>>

QueryStep ==
    \/ CallsPage
    \/ \E p \in Packages : PageStops(p) \/ PageBreaks(p) \/ PageTakes(p) \/ PageMisses(p)
    \/ PageAnswers
    \/ \E accepted \in BOOLEAN : Delivers(accepted)
    \/ TurnsPage

QueryNext ==
    \/ QueryStep
    \/ \E change \in Changes : OthersStore(change[1], change[2])
    \/ \E p \in Removals : OthersRemove(p)
-----------------------------------------------------------------------------
\* The query has its type, and so have the rows (part of ClientTypeOK).
QueryTypeOK ==
    /\ IsMap(rows, Packages, QueryRow)
    /\ query \in QueryState
    /\ IsMap(cache, Packages, Repos)
    /\ touched \subseteq Packages

\* What the query asks for, of the rows as they are: the definition the pages
\* are held against.
Wanted(req) ==
    IF req.method = "match"
    THEN {<<p, NoKey>> : p \in {p \in DOMAIN rows :
             MatchesPackage(req.pattern, p) /\ req.repo \in {AnyRepo, rows[p].repo}}}
    ELSE {i \in (DOMAIN rows \cap req.sources) \X req.targets :
             /\ i[2] \in rows[i[1]].imports
             /\ req.filterSameRepo =>
                    ~(i[2] \in DOMAIN rows /\ rows[i[2]].repo = rows[i[1]].repo)}

\* Neither row of the item was changed.
Untouched(i) == {i[1], i[2]} \cap touched = {}

\* No item is delivered twice, and of the rows nobody changes only what is
\* wanted is delivered, never more than the limit: pages do not overlap,
\* whatever is stored and removed between them (match.go:55-59, client.go:107-121).
DeliveredOnce ==
    /\ \A i, j \in DOMAIN query.got : query.got[i] = query.got[j] => i = j
    /\ \A i \in DOMAIN query.got :
           Untouched(query.got[i]) => query.got[i] \in Wanted(query.req)
    /\ query.req.limit > 0 => Len(query.got) <= query.req.limit

\* A query that ends without an error, short of its limit, has delivered all
\* that is wanted of the rows nobody changed: no row falls between two pages.
\* Counting only, it has counted what it would deliver (match.go:55-59, 117).
AllDelivered ==
    query.step = "done" =>
        IF query.req.countOnly
        THEN touched = {} => query.num = Cardinality(Wanted(query.req))
        ELSE \/ query.req.limit > 0 /\ Len(query.got) = query.req.limit
             \/ \A i \in Wanted(query.req) : Untouched(i) => i \in Range(query.got)
=============================================================================
