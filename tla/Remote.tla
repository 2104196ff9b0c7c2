------------------------------- MODULE Remote -------------------------------
(***************************************************************************)
(* What package poll knows of remotes: which of the references listed by a *)
(* remote stands for it (bestHead), which spellings of a URL name the same *)
(* repository (CleanRepoURL), and when a repository is due for a check     *)
(* (ShouldCheck).  The first is a loop over lines; the others are single   *)
(* steps from arguments to results.                                        *)
(***************************************************************************)
EXTENDS Integers, SequencesExt

CONSTANTS
    Listings,    \* the listings explored: sequences of lines
    Words,       \* what hosts and paths are written with
    Located,     \* the repositories explored: a host, and a path on it
    Histories    \* the arguments of ShouldCheck explored

\* The kinds of lines, each with a name to tell two of a kind apart.
Line == [kind : {"master", "branch", "tag", "HEAD", "other", "malformed"}, name : Nat]

\* A URL is a sequence of pieces: words and the marks that mean something.
Schemes == {"https://", "http://", "ssh://"}
InPaths == {"/", ":", "git@", ".git"}

ASSUME RemoteAssumption ==
    /\ Listings \subseteq Seq(Line)
    /\ \A lines \in Listings : \A i, j \in DOMAIN lines :
           lines[i].kind = "HEAD" /\ lines[j].kind = "HEAD" => lines[i] = lines[j]
    /\ Words \cap (Schemes \cup InPaths) = {}
    /\ Located \subseteq [host : Seq(Words), path : Seq(Words \cup InPaths)]
    /\ \A at \in Located : at.host # << >> /\ at.path # << >> /\ Last(at.path) # ".git"
    /\ Histories \subseteq [min : Nat, lastCheck : Nat, updates : Seq(Nat), now : Nat]

VARIABLE remote

NoLine == [kind |-> "none", name |-> 0]

PickStart(lines, tagsOK) ==
    [task |-> "pick", step |-> "read", lines |-> lines, tagsOK |-> tagsOK, read |-> 0,
     best |-> NoLine]
CleanStart(at, url) == [task |-> "clean", step |-> "read", at |-> at, url |-> url]
ScheduleStart(h) == [task |-> "schedule", step |-> "read", history |-> h, due |-> FALSE]

\* The URLs that name a repository.  After git@, the first colon ends the host,
\* so that a path with a colon needs one before it.
Places(at) == {at.host \o <<"/">> \o at.path, <<"git@">> \o at.host \o <<":">> \o at.path}
    \cup (IF Contains(at.path, ":") THEN {} ELSE {<<"git@">> \o at.host \o <<"/">> \o at.path})
Spellings(at) == {scheme \o place \o suffix : scheme \in {<< >>} \cup {<<x>> : x \in Schemes},
                                            place \in Places(at), suffix \in {<< >>, <<".git">>}}

RemoteStarts == {PickStart(lines, tagsOK) : lines \in Listings, tagsOK \in BOOLEAN}
    \cup (UNION {{CleanStart(at, url) : url \in Spellings(at)} : at \in Located})
    \cup {ScheduleStart(h) : h \in Histories}

RemoteInit == remote \in RemoteStarts

Tasked(task) == remote.task = task /\ remote.step = "read"
-----------------------------------------------------------------------------
(* bestHead                                                                *)

\* isInterestingRef: tags count only if the request names a reference.
IsInterestingRef(line) == \/ line.kind \in {"branch", "HEAD"}
                          \/ line.kind = "tag" /\ remote.tagsOK

\* Mutant of Replaces: HEAD is not given up for a branch.
ReplacesNone(line) == remote.best = NoLine

\* The first candidate is taken, or the first after HEAD.
Replaces(line) == remote.best.kind \in {"none", "HEAD"}

\* master ends the loop; lines of another form are passed over.
ReadsLine ==
    /\ Tasked("pick") /\ remote.read < Len(remote.lines)
    /\ LET line == remote.lines[remote.read + 1] IN remote' =
       IF line.kind = "master" THEN [remote EXCEPT !.best = line, !.step = "done"]
       ELSE IF IsInterestingRef(line) /\ Replaces(line)
            THEN [remote EXCEPT !.best = line, !.read = @ + 1]
            ELSE [remote EXCEPT !.read = @ + 1]

\* No line, no head.  That a digest is not hexadecimal does not occur: git prints it.
ReadsEnd ==
    /\ Tasked("pick") /\ remote.read = Len(remote.lines)
    /\ remote' = [remote EXCEPT !.step = IF remote.best = NoLine THEN "failed" ELSE "done"]
-----------------------------------------------------------------------------
(* CleanRepoURL                                                            *)

WithoutScheme(url) ==
    IF url # << >> /\ url[1] \in Schemes THEN Tail(url) ELSE url

\* git@host:path is written host/path.
WithoutUser(url) ==
    IF url = << >> \/ url[1] # "git@" THEN url
    ELSE LET trim == Tail(url) IN
         IF ~Contains(trim, ":") THEN trim
         ELSE [trim EXCEPT ![CHOOSE i \in DOMAIN trim : trim[i] = ":"
                                 /\ \A j \in 1 .. i - 1 : trim[j] # ":"] = "/"]

WithoutSuffix(url) == IF url # << >> /\ Last(url) = ".git" THEN Front(url) ELSE url

\* Mutant of CleanRepoURL: the user is looked for before the scheme is gone.
CleanUserFirst(url) == WithoutSuffix(WithoutScheme(WithoutUser(url)))

CleanRepoURL(url) == WithoutSuffix(WithoutUser(WithoutScheme(url)))

Cleans ==
    /\ Tasked("clean")
    /\ remote' = [remote EXCEPT !.url = CleanRepoURL(@), !.step = "done"]
-----------------------------------------------------------------------------
(* ShouldCheck                                                             *)

\* Mutant of AverageGap: the whole span.
WholeSpan(updates) == Last(updates) - updates[1]

\* The n updates span n - 1 gaps; the code divides by n.
AverageGap(updates) == (Last(updates) - updates[1]) \div Len(updates)

ShouldCheck(h) ==
    \/ h.min = 0
    \/ /\ h.lastCheck + h.min <= h.now
       /\ h.updates # << >> => h.lastCheck + AverageGap(h.updates) < h.now

Schedules ==
    /\ Tasked("schedule")
    /\ remote' = [remote EXCEPT !.due = ShouldCheck(remote.history), !.step = "done"]

RemoteNext == ReadsLine \/ ReadsEnd \/ Cleans \/ Schedules

RemoteSpec == RemoteInit /\ [][RemoteNext]_remote
-----------------------------------------------------------------------------
\* The lines of some kinds, and that the first of them stands for the remote.
Listed(kinds) == {i \in DOMAIN remote.lines : remote.lines[i].kind \in kinds}
IsFirst(kinds) ==
    /\ remote.step = "done"
    /\ \E i \in Listed(kinds) : remote.best = remote.lines[i] /\ \A j \in Listed(kinds) : i <= j

Branches(tagsOK) == {"branch"} \cup (IF tagsOK THEN {"tag"} ELSE {})

\* Of what a remote lists, master stands for it if it is there, else the first
\* branch (or tag, if a reference was asked for), else HEAD; in whatever order
\* they are listed (poll.go:222-263).
HeadChosen ==
    remote.task = "pick" /\ remote.step \in {"done", "failed"} =>
        LET branches == Branches(remote.tagsOK)
        IN  IF Listed({"master"}) # {} THEN IsFirst({"master"})
            ELSE IF Listed(branches) # {} THEN IsFirst(branches)
            ELSE IF Listed({"HEAD"}) # {} THEN IsFirst({"HEAD"})
            ELSE remote.step = "failed"

\* All spellings of a repository have one key in the database, whatever their
\* scheme, user and suffix (poll.go:291-313).
SpellingsAgree ==
    remote.task = "clean" /\ remote.step = "done" =>
        remote.url = remote.at.host \o <<"/">> \o remote.at.path

\* A repository is never due before the minimal interval is over, and it is due
\* once both that and the average gap between its updates have passed: dividing
\* by one gap too many makes it due earlier, never later (result.go:49-79).
DueInTime ==
    remote.task = "schedule" /\ remote.step = "done" =>
        LET h == remote.history
            n == Len(h.updates)
            age == h.now - h.lastCheck
            span == IF n = 0 THEN 0 ELSE Last(h.updates) - h.updates[1]
        IN  /\ remote.due => h.min = 0 \/ h.min <= age
            /\ h.min <= age /\ (n = 0 \/ (age > 0 /\ span <= age * (n - 1))) => remote.due
=============================================================================
