--------------------------- MODULE OneAtTimeProofs ---------------------------
(* The guarantees of the OneAtTime decorator, for any set of call sites.    *)
EXTENDS OneAtTime, TLAPS

Inv == TypeOK /\ FlagsMatchAwaited /\ OneAwaited

LEMMA InitInv == Init => Inv
<1> SUFFICES ASSUME Init PROVE Inv
  OBVIOUS
<1> USE CallIdAssumption DEF Init
<1>1. TypeOK
  BY DEF TypeOK, Ids
<1>2. FlagsMatchAwaited
  BY DEF FlagsMatchAwaited, Ids
<1>3. OneAwaited
  BY DEF OneAwaited
<1> QED BY <1>1, <1>2, <1>3 DEF Inv

(* A call may start only when no conflicting execution is awaited: the flags *)
(* tell the truth, so the guard of Start sees every one of them.             *)
LEMMA StartIsAlone ==
    ASSUME Inv, NEW c \in Calls, ~Excluded(c)
    PROVE  \A d \in Calls : CallId[d] = CallId[c] => exec[d] # "racing"
<1> SUFFICES ASSUME NEW d \in Calls, CallId[d] = CallId[c], exec[d] = "racing"
             PROVE  FALSE
  OBVIOUS
<1>1. CASE CallId[c] = 0
  BY <1>1 DEF Inv, FlagsMatchAwaited, Excluded
<1>2. CASE CallId[c] # 0
  <2>1. CallId[c] \in Ids
    BY <1>2 DEF Ids
  <2>2. CallId[c] \in isExecutingMap
    BY <2>1 DEF Inv, FlagsMatchAwaited
  <2> QED BY <1>2, <2>2 DEF Excluded
<1> QED BY <1>1, <1>2

LEMMA StepInv == Inv /\ [Next]_vars => Inv'
<1> SUFFICES ASSUME Inv, [Next]_vars PROVE Inv'
  OBVIOUS
<1> USE CallIdAssumption
<1>1. ASSUME NEW c \in Calls, Start(c) PROVE Inv'
  <2>1. TypeOK'
    BY <1>1 DEF Inv, TypeOK, Start, SetFlag, Ids
  <2>2. FlagsMatchAwaited'
    BY <1>1 DEF Inv, TypeOK, FlagsMatchAwaited, Start, SetFlag, Ids
  <2>3. OneAwaited'
    BY <1>1, StartIsAlone DEF Inv, TypeOK, OneAwaited, Conflict, Start
  <2> QED BY <2>1, <2>2, <2>3 DEF Inv
<1>2. ASSUME NEW c \in Calls, Skip(c) PROVE Inv'
  BY <1>2 DEF Skip, vars, Inv, TypeOK, FlagsMatchAwaited, OneAwaited
<1>3. ASSUME NEW c \in Calls, Settle(c) \/ TimeOut(c) PROVE Inv'
  <2>1. TypeOK'
    BY <1>3 DEF Inv, TypeOK, Settle, TimeOut, ClearFlag, Ids
  <2>2. FlagsMatchAwaited'
    <3>1. exec[c] = "racing" /\ ClearFlag(c)
      BY <1>3 DEF Settle, TimeOut
    <3>2. /\ exec'[c] # "racing"
          /\ \A d \in Calls \ {c} : exec'[d] = exec[d]
      BY <1>3 DEF Settle, TimeOut, Inv, TypeOK
    <3>3. \A d \in Calls : d # c /\ CallId[d] = CallId[c] => exec[d] # "racing"
      BY <3>1 DEF Inv, OneAwaited, Conflict
    <3>4. isExecuting' <=> \E d \in Calls : CallId[d] = 0 /\ exec'[d] = "racing"
      BY <3>1, <3>2, <3>3 DEF Inv, TypeOK, FlagsMatchAwaited, ClearFlag
    <3>5. ASSUME NEW i \in Ids
          PROVE  i \in isExecutingMap' <=>
                   \E d \in Calls : CallId[d] = i /\ exec'[d] = "racing"
      BY <3>1, <3>2, <3>3 DEF Inv, TypeOK, FlagsMatchAwaited, ClearFlag, Ids
    <3> QED BY <3>4, <3>5 DEF FlagsMatchAwaited, Ids
  <2>3. OneAwaited'
    BY <1>3 DEF Inv, TypeOK, OneAwaited, Conflict, Settle, TimeOut
  <2> QED BY <2>1, <2>2, <2>3 DEF Inv
<1>4. ASSUME NEW c \in Calls, ZombieSettles(c) PROVE Inv'
  <2>1. TypeOK'
    BY <1>4 DEF Inv, TypeOK, ZombieSettles, Ids
  <2>2. \A d \in Calls : exec'[d] = "racing" <=> exec[d] = "racing"
    BY <1>4 DEF Inv, TypeOK, ZombieSettles
  <2>3. FlagsMatchAwaited' /\ OneAwaited'
    BY <1>4, <2>2 DEF Inv, FlagsMatchAwaited, OneAwaited, Conflict, ZombieSettles, Ids
  <2> QED BY <2>1, <2>3 DEF Inv
<1>5. CASE UNCHANGED vars
  BY <1>5 DEF vars, Inv, TypeOK, FlagsMatchAwaited, OneAwaited
<1> QED BY <1>1, <1>2, <1>3, <1>4, <1>5 DEF Next

(* The type invariant of the decorator's flags and executions.              *)
THEOREM TypeCorrect == Spec => []TypeOK
<1>1. Inv => TypeOK
  BY DEF Inv
<1> QED BY <1>1, InitInv, StepInv, PTL DEF Spec

(* The flags are set exactly for the executions somebody awaits: finally     *)
(* (one-at-time.ts:89-99) clears each flag once and never another call's.    *)
THEOREM FlagsAreTruthful == Spec => []FlagsMatchAwaited
<1>1. Inv => FlagsMatchAwaited
  BY DEF Inv
<1> QED BY <1>1, InitInv, StepInv, PTL DEF Spec

(* At most one execution per id is awaited, timeouts or not.                *)
THEOREM OneIsAwaited == Spec => []OneAwaited
<1>1. Inv => OneAwaited
  BY DEF Inv
<1> QED BY <1>1, InitInv, StepInv, PTL DEF Spec

NoZombie == \A c \in Calls : exec[c] # "zombie"

(* Where no execution outlasts its timeout the comment of the decorator is   *)
(* right: at most one execution per id runs (one-at-time.ts:33-35).          *)
THEOREM OneIsExecuted ==
    ASSUME ~MayTimeOut PROVE Spec => []OneExecuted
<1>1. Init => NoZombie
  BY DEF Init, NoZombie
<1>2. TypeOK /\ NoZombie /\ [Next]_vars => NoZombie'
  BY DEF TypeOK, NoZombie, Next, vars, Start, Skip, Settle, TimeOut, ZombieSettles
<1>3. Inv /\ NoZombie => OneExecuted
  BY DEF Inv, TypeOK, NoZombie, OneAwaited, OneExecuted
<1>4. Inv => TypeOK
  BY DEF Inv
<1> QED BY <1>1, <1>2, <1>3, <1>4, InitInv, StepInv, PTL DEF Spec

=============================================================================
