------------------------------ MODULE OneAtTime ------------------------------
(***************************************************************************)
(* The OneAtTime method decorator: a call of a decorated method runs the   *)
(* method only when no call it excludes is awaited, and races the method   *)
(* against a timer.  The loser of the race is not stopped: a method that   *)
(* loses runs on, a zombie, with the flag already cleared.                 *)
(***************************************************************************)
EXTENDS Naturals, FiniteSets

CONSTANTS
    Calls,      \* call sites that invoke the decorated method over and over
    CallId,     \* CallId[c]: its OneAtTimeCallId argument, 0 when it has none
    MayTimeOut  \* whether executions may outlast the timeout

ASSUME CallIdAssumption ==
    /\ CallId \in [Calls -> Nat]
    /\ MayTimeOut \in BOOLEAN

VARIABLES
    isExecuting,    \* the flag of calls without an id
    isExecutingMap, \* the ids whose flag is set
    exec            \* per call site: where its execution is

vars == <<isExecuting, isExecutingMap, exec>>

Ids == {CallId[c] : c \in Calls} \ {0}

Init ==
    /\ isExecuting = FALSE
    /\ isExecutingMap = {}
    /\ exec = [c \in Calls |-> "idle"]

\* Slip: only the id's own flag is looked at.
Excluded_OwnIdOnly(c) == CallId[c] # 0 /\ CallId[c] \in isExecutingMap

\* An id of 0 is falsy and counts as no id, both here and below.
Excluded(c) == (CallId[c] # 0 /\ CallId[c] \in isExecutingMap) \/ isExecuting

SetFlag(c) ==
    IF CallId[c] # 0
    THEN isExecutingMap' = isExecutingMap \cup {CallId[c]} /\ UNCHANGED isExecuting
    ELSE isExecuting' = TRUE /\ UNCHANGED isExecutingMap

\* Slip: the finally block always clears the common flag.
ClearFlag_Common(c) == isExecuting' = FALSE /\ UNCHANGED isExecutingMap

ClearFlag(c) ==
    IF CallId[c] # 0
    THEN isExecutingMap' = isExecutingMap \ {CallId[c]} /\ UNCHANGED isExecuting
    ELSE isExecuting' = FALSE /\ UNCHANGED isExecutingMap

\* The call starts the method, which now races the timer.
Start(c) ==
    /\ exec[c] = "idle" /\ ~Excluded(c)
    /\ SetFlag(c)
    /\ exec' = [exec EXCEPT ![c] = "racing"]

\* The call returns at once, having run nothing.
Skip(c) ==
    /\ exec[c] = "idle" /\ Excluded(c)
    /\ UNCHANGED vars

\* The method resolves or rejects first; finally clears the flag.
Settle(c) ==
    /\ exec[c] = "racing"
    /\ ClearFlag(c)
    /\ exec' = [exec EXCEPT ![c] = "idle"]

\* The timer fires first; the flag is cleared and the method runs on.
TimeOut(c) ==
    /\ MayTimeOut
    /\ exec[c] = "racing"
    /\ ClearFlag(c)
    /\ exec' = [exec EXCEPT ![c] = "zombie"]

\* A method that lost its race settles; nobody is listening.
ZombieSettles(c) ==
    /\ exec[c] = "zombie"
    /\ exec' = [exec EXCEPT ![c] = "idle"]
    /\ UNCHANGED <<isExecuting, isExecutingMap>>

Next == \E c \in Calls :
    Start(c) \/ Skip(c) \/ Settle(c) \/ TimeOut(c) \/ ZombieSettles(c)

Spec == Init /\ [][Next]_vars

\* The timer always fires; the method itself may never settle.
FairSpec == Spec /\ \A c \in Calls : WF_vars(TimeOut(c))

-----------------------------------------------------------------------------

TypeOK ==
    /\ isExecuting \in BOOLEAN
    /\ isExecutingMap \subseteq Ids
    /\ exec \in [Calls -> {"idle", "racing", "zombie"}]

\* Two calls exclude each other when they have the same id, none included.
Conflict(c, d) == c # d /\ CallId[c] = CallId[d]

\* The flags say exactly which executions are awaited: none is forgotten set
\* when the last of them settled or timed out, none is cleared under another.
FlagsMatchAwaited ==
    /\ isExecuting <=> \E c \in Calls : CallId[c] = 0 /\ exec[c] = "racing"
    /\ \A i \in Ids : i \in isExecutingMap <=>
                         \E c \in Calls : CallId[c] = i /\ exec[c] = "racing"

\* At most one execution per id is awaited by its caller.
OneAwaited ==
    \A c, d \in Calls : Conflict(c, d) => ~(exec[c] = "racing" /\ exec[d] = "racing")

\* What the decorator's comment says (one-at-time.ts:33-35): only one instance
\* is executed concurrently, globally or per call id.
OneExecuted ==
    \A c, d \in Calls : Conflict(c, d) => exec[c] = "idle" \/ exec[d] = "idle"

\* A stuck execution does not prevent the next ones for ever
\* (one-at-time.ts:36-37): even when methods never settle, a call that is
\* excluded finds its turn, whichever flag stood in its way.
LockoutEnds ==
    \A c \in Calls : Excluded(c) ~> ~Excluded(c)

=============================================================================
