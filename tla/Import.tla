------------------------------- MODULE Import -------------------------------
(***************************************************************************)
(* Import paths, as sequences of names, and what the packages deps, poll   *)
(* and service read off them (deps/deps.go).                               *)
(***************************************************************************)
EXTENDS Integers, SequencesExt

CONSTANTS
    Domains,     \* the names that hold a dot after their first letter
    NameBegins   \* <<n, m>>: the name m begins with the name n

NoPath == << >>

HasDomain(ip) == ip # NoPath /\ ip[1] \in Domains
IsLocalPackage(ip) == ~HasDomain(ip) \/ Len(ip) = 1

Upto(ip, n) == SubSeq(ip, 1, n)
Past(ip, n) == SubSeq(ip, n + 1, Len(ip))

\* strings.HasPrefix: the last name of the prefix may be cut short.
HasPrefix(ip, prefix) ==
    LET n == Len(prefix) IN
    /\ 0 < n /\ n <= Len(ip)
    /\ Upto(ip, n - 1) = Upto(prefix, n - 1)
    /\ ip[n] = prefix[n] \/ <<prefix[n], ip[n]>> \in NameBegins
=============================================================================
