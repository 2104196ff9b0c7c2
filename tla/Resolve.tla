------------------------------ MODULE Resolve ------------------------------
(***************************************************************************)
(* ResolveRepository (service/resolve.go): the repository of an import     *)
(* path, by rule for well-known hosts, else from the go-import tags of the *)
(* page the host serves.  A page is the sequence of the tokens that matter *)
(* to the loop; a repository URL is its path, without "https://".          *)
(***************************************************************************)
EXTENDS Import

CONSTANTS
    GitHosts,    \* github.com and bitbucket.org
    GitHub,      \* github.com
    GoPkg,       \* gopkg.in
    WithoutExt,  \* names with their extension removed (trimExt)
    GoUser,      \* "go-" put before a name
    GitTargets,  \* the targets of git go-import tags
    Sites,       \* the pages explored
    Asked        \* the import paths asked for

VARIABLE resolving

NoTarget == [prefix |-> NoPath, repository |-> NoPath]
Target(prefix, repository) == [prefix |-> prefix, repository |-> repository]

\* A token: a go-import tag for git with three fields, one for something else or
\* with other fields, the start of the body, the end of the head, anything else.
Token == [kind : {"git"}, target : GitTargets] \cup
         [kind : {"other-import", "body", "head-end", "other"}, target : {NoTarget}]

ASSUME ResolveAssumption ==
    /\ GitHosts \cup {GoPkg} \subseteq Domains /\ GitHub \in GitHosts /\ GoPkg \notin GitHosts
    /\ \A page \in Sites : page \in Seq(Token)

ResolvingStart(ip) ==
    [package |-> ip, step |-> "ask", page |-> << >>, read |-> 0, target |-> NoTarget]

ResolvingStarts == {ResolvingStart(ip) : ip \in Asked}

ResolvingInit == resolving \in ResolvingStarts

\* checkWellKnown.  A path of two names of a git host is not well-known.
WellKnown(ip) ==
    CASE ip[1] \in GitHosts /\ Len(ip) >= 3 -> Target(Upto(ip, 3), Upto(ip, 3))
      [] ip[1] = GoPkg /\ Len(ip) = 2 ->
             Target(ip, <<GitHub, GoUser[WithoutExt[ip[2]]], WithoutExt[ip[2]]>>)
      [] ip[1] = GoPkg /\ Len(ip) >= 3 ->
             Target(Upto(ip, 3), <<GitHub, ip[2], WithoutExt[ip[3]]>>)
      [] OTHER -> NoTarget

\* What git ls-remote may say: it lists, asks for a password, or fails otherwise.
RepoExists(listed) == listed \in {"lists", "prompts"}

Answers(target) == [resolving EXCEPT !.step = "done", !.target = target]
Fails == [resolving EXCEPT !.step = "failed"]

ResolvesByRule(listed) ==
    /\ resolving.step = "ask"
    /\ LET ip == resolving.package IN
       resolving' = IF IsLocalPackage(ip) THEN Fails
                    ELSE IF WellKnown(ip) = NoTarget THEN [resolving EXCEPT !.step = "fetch"]
                    ELSE IF RepoExists(listed) THEN Answers(WellKnown(ip)) ELSE Fails

\* The host serves a page, with the status OK or Not Found.
Fetches(page) ==
    /\ resolving.step = "fetch"
    /\ resolving' = [resolving EXCEPT !.step = "read", !.page = page]

FetchFails ==
    /\ resolving.step = "fetch"
    /\ resolving' = Fails

\* Mutant of EndsLoop: the end of the head is no end.
EndsAtBody(token) == token.kind \in {"body", "git"}

\* The tokens the loop ends at.
EndsLoop(token) == token.kind \in {"body", "head-end", "git"}

\* The end of the page, or an error in it, ends the loop as well.
ReadsToken ==
    /\ resolving.step = "read"
    /\ resolving' =
       IF resolving.read = Len(resolving.page) THEN Fails
       ELSE LET token == resolving.page[resolving.read + 1] IN
            IF ~EndsLoop(token) THEN [resolving EXCEPT !.read = @ + 1]
            ELSE IF token.kind = "git" THEN Answers(token.target) ELSE Fails

ResolvingNext ==
    \/ \E listed \in {"lists", "prompts", "fails"} : ResolvesByRule(listed)
    \/ \E page \in Sites : Fetches(page)
    \/ FetchFails \/ ReadsToken

ResolvingSpec == ResolvingInit /\ [][ResolvingNext]_resolving
-----------------------------------------------------------------------------
\* The i-th token of the page is a git tag in its head.
InHead(i) == /\ resolving.page[i].kind = "git"
             /\ \A j \in 1 .. i : resolving.page[j].kind \notin {"body", "head-end"}

\* A page that was served answers with the first git tag of its head, and only
\* if there is none in it does the call fail: tags of other version control
\* systems and tags after the head count for nothing (resolve.go:70-104).
ResolvesFirst ==
    resolving.page # << >> /\ resolving.step \in {"done", "failed"} =>
        LET tags == {i \in DOMAIN resolving.page : InHead(i)} IN
        IF tags = {} THEN resolving.step = "failed"
        ELSE resolving.target = resolving.page[CHOOSE i \in tags : \A j \in tags : i <= j].target
=============================================================================
