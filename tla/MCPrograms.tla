------------------------------ MODULE MCPrograms -----------------------------
(***************************************************************************)
(* Small inputs for the programs.  The client's graph has the packages a,  *)
(* a-x, a/b, a/c and d, numbered in the order of their names; others add,  *)
(* change and remove a-x, a/b and a/c.                                     *)
(***************************************************************************)
EXTENDS Programs

CONSTANTS r1, r2

MCBegins == {<<1, 2>>, <<1, 3>>, <<1, 4>>}
MCBelow == {<<1, 3>>, <<1, 4>>}

RowOf(repo, imports) == [repo |-> repo, imports |-> imports]
MCFirstRows == [p \in Packages |->
    CASE p = 1 -> RowOf(r1, {3, 4, 5}) [] p = 2 -> RowOf(r2, {1}) [] p = 3 -> RowOf(r1, {1})
      [] p = 4 -> RowOf(r2, {3}) [] p = 5 -> RowOf(r2, {1, 3, 4})]
MCChanges == {<<2, RowOf(r1, {3})>>, <<3, RowOf(r2, {1, 4})>>, <<4, RowOf(r1, {})>>}
MCRemovals == {2, 3, 4}

MCQueries ==
    [method : {"match"}, repo : {AnyRepo, r1}, countOnly : {FALSE}, limit : {0, 2},
     pattern : {[kind |-> "tree", path |-> 1], [kind |-> "all", path |-> 1]}]
    \cup [method : {"match"}, repo : {r2}, countOnly : {TRUE}, limit : {0},
     pattern : {[kind |-> "tree", path |-> 1], [kind |-> "exact", path |-> 3]}]
    \cup [method : {"reverse"}, targets : {{1, 3, 4}}, sources : {{1, 3, 4, 5}, {1, 2, 5}},
     filterSameRepo : BOOLEAN, countOnly : BOOLEAN, limit : {0, 3}]
-----------------------------------------------------------------------------
\* All graphs of up to three rows, which may import themselves and each other.
MCLinkGraphs == UNION {[ps -> SUBSET Paths] : ps \in SUBSET Paths}
MCArguments == {{1}, {1, 2}}
\* Paths 1 and 2 share a source file.
MCSourcesOf == [p \in Paths |-> IF p = 3 THEN {} ELSE {7, 7 + p}]
MCDamping == <<1, 2>>

\* Import paths: names 1 to 3 are hosts, 4 is an organisation, 5 a user, 6 and
\* 7 repositories, the name 7 beginning with 6; 8 is "vendor", 9 a directory.
github == 1
gopkg == 2
host == 3
MCNameBegins == {<<6, 7>>}

\* gopkg.in names: 16 is 6.v1, 26 is go-6.
MCWithoutExt == [n \in 1 .. 30 |-> IF n = 16 THEN 6 ELSE n]
MCGoUser == [n \in 1 .. 30 |-> n + 20]
MCAsked == {<<5, 6>>, <<host>>, <<github, 5>>, <<github, 5, 6>>, <<github, 5, 6, 9>>,
            <<gopkg, 16>>, <<gopkg, 5, 16, 9>>, <<host, 9>>}
MCTargets == {[prefix |-> <<host, 9>>, repository |-> <<host, 6>>],
              [prefix |-> <<host>>, repository |-> <<host, 7>>]}
MCSites == UNION {[1 .. n -> Token] : n \in 1 .. 3}

AnswerOf(prefix, repository) == [prefix |-> prefix, repository |-> repository]
MCInputs == {<<github, 5, 6>>, <<github, 5, 7>>, <<github, 5, 6, 9>>, <<host, 9>>}
MCAnswersTo == [p \in MCInputs |->
    CASE p = <<github, 5, 7>> -> {AnswerOf(p, "7")}
      [] p = <<host, 9>> -> {AnswerOf(<<host>>, "7"), AnswerOf(p, "9")}
      [] OTHER -> {AnswerOf(<<github, 5, 6>>, "6")}]

\* The root, a directory, one below it, and one below a vendor directory.
MCTree == {<< >>, <<9>>, <<9, 4>>, <<9, 8>>, <<9, 8, 4>>}
MCVendored == Directory(<<host, 6>>, TRUE, <<host, 7>>)
MCHoldings(module, comment) ==
    {Directory(m, hasGo, c) : m \in {NoPath, <<4>>, module}, hasGo \in BOOLEAN, c \in {NoPath, comment}}
MCCheckouts ==
    {(<< >> :> root) @@ (<<9>> :> dir) @@ (<<9, 4>> :> sub)
         @@ (<<9, 8>> :> MCVendored) @@ (<<9, 8, 4>> :> MCVendored) :
     root \in MCHoldings(<<host, 4>>, <<host, 5>>),
     dir \in MCHoldings(<<github, 4, 6>>, <<github, 4, 7>>),
     sub \in {Directory(NoPath, TRUE, NoPath), Directory(<<host, 9>>, TRUE, <<host, 5, 9>>)}}
MCRepoPrefix == <<github, 5, 6>>
MCLoadOptions == {[useImportComments |-> TRUE, trimRepoPrefix |-> FALSE],
                  [useImportComments |-> FALSE, trimRepoPrefix |-> TRUE]}

MCLines == {[kind |-> "master", name |-> 0], [kind |-> "branch", name |-> 1],
            [kind |-> "branch", name |-> 2], [kind |-> "tag", name |-> 3],
            [kind |-> "HEAD", name |-> 4], [kind |-> "other", name |-> 5]}
MCListings == UNION {[1 .. n -> MCLines] : n \in 0 .. 3}
MCLocated == [host : {<<"host">>, <<"user", "host">>},
    path : {<<"path">>, <<"user", "/", "path">>, <<"user", ":", "path">>, <<".git", "/", "git@", "path">>}]
MCHistories == [min : {0, 2}, lastCheck : {8}, now : 8 .. 14,
    updates : {<< >>} \cup {<<a>> : a \in {2, 8}} \cup {<<a, b>> : a \in {0, 3}, b \in {4, 7}}
              \cup {<<0, 1, 7>>, <<0, 5, 8>>, <<1, 2, 3>>}]
=============================================================================
