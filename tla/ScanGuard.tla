----------------------------- MODULE ScanGuard -----------------------------
(***************************************************************************)
(* The guard that keeps Scan and Rank calls apart (service/scan.go): a     *)
(* 32-bit counter that every attempt increments.  The attempt that finds   *)
(* it at zero is admitted; every other one is refused and leaves the       *)
(* counter incremented; the admitted call stores zero when it is done.     *)
(***************************************************************************)
EXTENDS Integers

CONSTANTS
    Clients,     \* goroutines serving Scan and Rank calls
    Modulus,     \* number of values of the counter (2^32 in the code)
    MaxRefused   \* bound on the calls refused during one scan

ASSUME GuardAssumption == Modulus \in Nat /\ Modulus > 2 /\ MaxRefused \in Nat

VARIABLES
    scanning,    \* Server.scanning
    busy,        \* the callers inside Scan or Rank
    refused      \* history: calls refused since the counter was last zero

guardVars == <<scanning, busy, refused>>

-----------------------------------------------------------------------------
GuardInit == scanning = 0 /\ busy = {} /\ refused = 0

\* atomic.AddInt32(&u.scanning, 1), which wraps around.
Bumped == (scanning + 1) % Modulus

\* Mutant of Admits: any raised counter will do.
AdmitsAny(count) == count >= 1

\* tryScanning: the attempt succeeds if it made the counter one.
Admits(count) == count = 1

\* Mutant of Reset: take back the increment of the admitted call only.
Decremented == scanning - 1

\* What doneScanning stores.
Reset == 0

Admitted(c) ==
    /\ c \notin busy
    /\ scanning' = Bumped
    /\ Admits(scanning')
    /\ busy' = busy \cup {c}
    /\ UNCHANGED refused

Refused(c) ==
    /\ c \notin busy
    /\ refused < MaxRefused
    /\ scanning' = Bumped
    /\ ~Admits(scanning')
    /\ refused' = refused + 1
    /\ UNCHANGED busy

\* The deferred doneScanning, on every return of an admitted call.
Done(c) ==
    /\ c \in busy
    /\ scanning' = Reset
    /\ busy' = busy \ {c}
    /\ refused' = 0

GuardNext == \E c \in Clients : Admitted(c) \/ Refused(c) \/ Done(c)

GuardSpec == GuardInit /\ [][GuardNext]_guardVars

-----------------------------------------------------------------------------
\* The counter counts the one admitted call and the calls refused while it
\* runs, and is zero when nobody is inside: a refused call never leaves the
\* guard shut behind the call it lost to (scan.go:124-128).
CounterCounts ==
    /\ scanning \in 0 .. Modulus - 1
    /\ busy \subseteq Clients
    /\ refused \in 0 .. MaxRefused
    /\ \A c, d \in busy : c = d
    /\ busy = {} => scanning = 0 /\ refused = 0
    /\ busy # {} => scanning = 1 + refused

Guarded == INSTANCE OneAtATime WITH Workers <- Clients, inside <- busy

\* "Only one scanner is allowed at a time" (scan.go:32): the guard implements
\* the exclusive section, whatever calls are refused meanwhile.
GuardImplements == Guarded!Spec
=============================================================================
