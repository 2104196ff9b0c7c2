-------------------------- MODULE ScanGuardProofs --------------------------
(***************************************************************************)
(* The scan guard is an exclusive section for any number of callers, as    *)
(* long as fewer calls are refused during one scan than it takes to wrap   *)
(* the counter around to one.                                              *)
(***************************************************************************)
EXTENDS ScanGuard, TLAPS

\* While the counter has room, bumping it adds one (scan.go:125).
LEMMA BumpedInRange ==
    ASSUME GuardAssumption, scanning \in 0 .. Modulus - 2
    PROVE  Bumped = scanning + 1
BY SMT DEF GuardAssumption, Bumped

\* Bumped past its last value, the counter is zero (scan.go:125).
LEMMA BumpedWraps ==
    ASSUME GuardAssumption, scanning = Modulus - 1
    PROVE  Bumped = 0
BY SMT DEF GuardAssumption, Bumped

\* The counter starts out right (service.go:126: the zero value).
LEMMA CounterInit == GuardInit /\ GuardAssumption => CounterCounts
BY DEF GuardInit, GuardAssumption, CounterCounts

\* Nobody is admitted while somebody is inside (scan.go:124-126).
LEMMA AdmittedWhenFree ==
    ASSUME GuardAssumption, MaxRefused < Modulus - 1, CounterCounts,
           NEW c \in Clients, Admitted(c)
    PROVE  busy = {} /\ scanning' = 1 /\ refused = 0
<1>1. scanning \in 0 .. Modulus - 2
  BY BumpedWraps DEF GuardAssumption, CounterCounts, Admitted, Admits
<1>2. scanning' = scanning + 1 /\ scanning' = 1
  BY <1>1, BumpedInRange DEF Admitted, Admits
<1>3. scanning = 0
  BY <1>1, <1>2 DEF GuardAssumption
<1> QED
  BY <1>2, <1>3 DEF CounterCounts

\* A call is refused only while somebody is inside (scan.go:124-126).
LEMMA RefusedWhenBusy ==
    ASSUME GuardAssumption, MaxRefused < Modulus - 1, CounterCounts,
           NEW c \in Clients, Refused(c)
    PROVE  busy # {} /\ scanning' = scanning + 1
<1>1. scanning \in 0 .. Modulus - 2
  BY DEF GuardAssumption, CounterCounts, Refused
<1>2. scanning' = scanning + 1 /\ scanning' # 1
  BY <1>1, BumpedInRange DEF Refused, Admits
<1> QED
  BY <1>1, <1>2 DEF CounterCounts

\* Every attempt and every return keeps the count (scan.go:124-128).
LEMMA CounterStep ==
    ASSUME GuardAssumption, MaxRefused < Modulus - 1,
           CounterCounts, [GuardNext]_guardVars
    PROVE  CounterCounts'
<1>1. ASSUME NEW c \in Clients, Admitted(c)
      PROVE  CounterCounts'
  <2>1. busy = {} /\ scanning' = 1 /\ refused = 0
    BY <1>1, AdmittedWhenFree
  <2> QED
    BY <1>1, <2>1 DEF CounterCounts, Admitted, GuardAssumption
<1>2. ASSUME NEW c \in Clients, Refused(c)
      PROVE  CounterCounts'
  <2>1. busy # {} /\ scanning' = scanning + 1
    BY <1>2, RefusedWhenBusy
  <2> QED
    BY <1>2, <2>1 DEF CounterCounts, Refused, GuardAssumption
<1>3. ASSUME NEW c \in Clients, Done(c)
      PROVE  CounterCounts'
  <2>1. busy' = {}
    BY <1>3 DEF CounterCounts, Done
  <2> QED
    BY <1>3, <2>1 DEF CounterCounts, Done, Reset, GuardAssumption
<1>4. CASE UNCHANGED guardVars
  BY <1>4 DEF CounterCounts, guardVars
<1> QED
  BY <1>1, <1>2, <1>3, <1>4 DEF GuardNext

\* The counter counts the admitted call and the refused ones at all times, for
\* every number of callers and every width of the counter (scan.go:124-128).
THEOREM CounterAlwaysCounts ==
    ASSUME GuardAssumption, MaxRefused < Modulus - 1
    PROVE  GuardSpec => []CounterCounts
<1>1. GuardInit => CounterCounts
  BY CounterInit
<1>2. CounterCounts /\ [GuardNext]_guardVars => CounterCounts'
  BY CounterStep
<1> QED
  BY <1>1, <1>2, PTL DEF GuardSpec

\* Each step of the guard is a step of the exclusive section, or none of it:
\* a refused call is invisible there (scan.go:31-40).
LEMMA StepGuarded ==
    ASSUME GuardAssumption, MaxRefused < Modulus - 1,
           CounterCounts, [GuardNext]_guardVars
    PROVE  [Guarded!Next]_busy
<1>1. ASSUME NEW c \in Clients, Admitted(c)
      PROVE  Guarded!Enter(c)
  BY <1>1, AdmittedWhenFree DEF Admitted, Guarded!Enter
<1>2. ASSUME NEW c \in Clients, Refused(c)
      PROVE  UNCHANGED busy
  BY <1>2 DEF Refused
<1>3. ASSUME NEW c \in Clients, Done(c)
      PROVE  Guarded!Leave(c)
  <2>1. busy = {c}
    BY <1>3 DEF Done, CounterCounts
  <2> QED
    BY <1>3, <2>1 DEF Done, Guarded!Leave
<1>4. CASE UNCHANGED guardVars
  BY <1>4 DEF guardVars
<1> QED
  BY <1>1, <1>2, <1>3, <1>4 DEF GuardNext, Guarded!Next

\* "Only one scanner is allowed at a time" (scan.go:32): the guard implements
\* the exclusive section, for every number of callers and width of the counter.
THEOREM GuardExcludes ==
    ASSUME GuardAssumption, MaxRefused < Modulus - 1
    PROVE  GuardSpec => GuardImplements
<1>1. GuardInit => Guarded!Init
  BY DEF GuardInit, Guarded!Init
<1>2. CounterCounts /\ [GuardNext]_guardVars => [Guarded!Next]_busy
  BY StepGuarded
<1>3. GuardSpec => []CounterCounts
  BY CounterAlwaysCounts
<1> QED
  BY <1>1, <1>2, <1>3, PTL DEF GuardSpec, GuardImplements, Guarded!Spec
=============================================================================
