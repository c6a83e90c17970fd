------------------------ MODULE GuardianCycleProofs ------------------------
(* What holds of the guardian's cycles for every set of wallets, modules and *)
(* chains, every number of overlapping executions and every timeout.         *)
EXTENDS GuardianCycle, TLAPS

\* A task that has not begun a job in this execution, and one whose execution
\* context has been built.
Opening == {"modules", "contracts", "deposits", "version", "guardians",
            "balance", "decide", "checking"}
Bound   == {"balance", "decide", "pausing", "checking", "unvetting", "depositing"}

\* Nothing of a task is in flight before it begins a job of this execution.
NothingEarly ==
    \A t \in Tasks : task[t].pc \in Opening =>
        \A j \in Jobs : j[1] = t => ~InFlight(j)

\* The context a task or one of its jobs works with names a wallet of the pool.
UsableContext(t) ==
    /\ task[t].snap \in Snaps /\ task[t].dsm \in Dsms
    /\ SelectWallet(t) \in Wallets

ContextsUsable ==
    /\ \A t \in Tasks : /\ task[t].pc \in Bound => UsableContext(t)
                        /\ task[t].pc \notin {"idle", "modules"} => task[t].snap \in Snaps
                        /\ task[t].pc \in {"version", "guardians"} => task[t].dsm \in Dsms
    /\ \A j \in Jobs : InFlight(j) => UsableContext(j[1])

IInv == TypeOK /\ NothingEarly /\ ContextsUsable

-----------------------------------------------------------------------------

LEMMA JobsFact == \A j \in Jobs : /\ j[1] \in Tasks
                                  /\ j[2] = 0 \/ (j[1] \in KeyTasks /\ j[2] \in Modules)
BY DEF Jobs, Tasks

LEMMA PauseJob == \A t \in Tasks : <<t, 0>> \in Jobs /\ <<t, 0>>[1] = t
BY DEF Jobs

LEMMA BlockFact ==
    ASSUME TypeOK, NEW s \in Snaps
    PROVE  chain[s] \in BlockData
BY ConstantsAssumption DEF TypeOK

LEMMA IdleTyped == IdleTask \in TaskType /\ IdleJob \in JobType /\ DoneJob \in JobType
BY DEF IdleTask, TaskType, TaskPcs, IdleJob, DoneJob, JobType, JobPcs

LEMMA InitInv == Init => IInv
<1> SUFFICES ASSUME Init PROVE IInv
  OBVIOUS
<1> USE DEF Init
<1>1. chain[1] \in BlockData /\ 1 \in Snaps
  BY ConstantsAssumption DEF Snaps
<1>2. active \in Wallets
  BY <1>1, ConstantsAssumption DEF ContextWallet, BlockData
<1>3. cachedDsm \in Dsms
  BY <1>1 DEF BlockData
<1>4. lastStates \in [Modules -> StateType]
  BY DEF NoState, StateType
<1>5. failures \in 0..MaxFailures /\ pausedFrom \in Snaps \cup {MaxSnap + 1}
  BY ConstantsAssumption
<1>6. TypeOK
  BY <1>1, <1>2, <1>3, <1>4, <1>5, IdleTyped DEF TypeOK
<1>7. NothingEarly
  BY DEF NothingEarly, Opening, IdleTask
<1>8. ContextsUsable
  BY JobsFact DEF ContextsUsable, InFlight, IdleJob, IdleTask, Bound
<1> QED BY <1>6, <1>7, <1>8 DEF IInv

LEMMA StartCycleInv ==
    ASSUME IInv, NEW c \in Cycles, StartCycle(c) PROVE IInv'
<1> USE DEF IInv, StartCycle, world, memory, outside
<1>0. c \in Tasks
  BY DEF Tasks
<1>1. TypeOK'
  BY <1>0, IdleTyped DEF TypeOK, TaskType, TaskPcs
<1>2. NothingEarly'
  BY <1>0, JobsFact DEF NothingEarly, TypeOK, Free, JobsOf, InFlight
<1>3. ContextsUsable'
  BY <1>0, JobsFact DEF ContextsUsable, TypeOK, Free, JobsOf, InFlight, UsableContext,
      SelectWallet, ContextWallet, Bound
<1> QED BY <1>1, <1>2, <1>3

LEMMA ReadModulesInv ==
    ASSUME IInv, NEW c \in Cycles, ReadModules(c) PROVE IInv'
<1> USE DEF IInv, ReadModules, world, memory, outside
<1>0. c \in Tasks
  BY DEF Tasks
<1>1. \A j \in Jobs : j[1] = c => ~InFlight(j)
  BY <1>0 DEF NothingEarly, Opening
<1>2. TypeOK'
  <2>1. PICK s \in Snaps :
          task' = [task EXCEPT ![c] = IF IsNeedToProcessNewState(s)
                                      THEN [@ EXCEPT !.pc = "contracts", !.snap = s]
                                      ELSE IdleTask]
    OBVIOUS
  <2>2. [task[c] EXCEPT !.pc = "contracts", !.snap = s] \in TaskType
    BY <1>0 DEF TypeOK, TaskType, TaskPcs
  <2> QED BY <1>0, <2>1, <2>2, IdleTyped DEF TypeOK
<1>3. NothingEarly'
  BY <1>0, <1>1, JobsFact DEF NothingEarly, TypeOK, InFlight, Opening, IdleTask
<1>4. ContextsUsable'
  BY <1>0, <1>1, JobsFact DEF ContextsUsable, TypeOK, InFlight, UsableContext,
      SelectWallet, ContextWallet, Bound, IdleTask
<1> QED BY <1>2, <1>3, <1>4

LEMMA CacheContractsInv ==
    ASSUME IInv, NEW c \in Cycles, CacheContracts(c) PROVE IInv'
<1> USE DEF IInv, CacheContracts, world, memory, outside
<1>0. c \in Tasks
  BY DEF Tasks
<1>1. \A j \in Jobs : j[1] = c => ~InFlight(j)
  BY <1>0 DEF NothingEarly, Opening
<1>2. chain[task[c].snap] \in BlockData
  BY <1>0, BlockFact DEF ContextsUsable
<1>3. TypeOK'
  BY <1>0, <1>2 DEF TypeOK, TaskType, TaskPcs, BlockData
<1>4. NothingEarly'
  BY <1>0, <1>1, JobsFact DEF NothingEarly, TypeOK, InFlight, Opening
<1>5. ContextsUsable'
  BY <1>0, <1>1, JobsFact DEF ContextsUsable, TypeOK, InFlight, UsableContext,
      SelectWallet, ContextWallet, Bound
<1> QED BY <1>3, <1>4, <1>5

LEMMA CollectDataInv ==
    ASSUME IInv, NEW c \in Cycles, CollectData(c) PROVE IInv'
<1> USE DEF IInv, CollectData, world, memory, outside
<1>0. c \in Tasks
  BY DEF Tasks
<1>1. \A j \in Jobs : j[1] = c => ~InFlight(j)
  BY <1>0 DEF NothingEarly, Opening
<1>2. /\ task'[c] = [task[c] EXCEPT !.pc = "version", !.dsm = cachedDsm]
      /\ task' \in [Tasks -> TaskType]
      /\ \A t \in Tasks \ {c} : task'[t] = task[t]
  <2>1. [task[c] EXCEPT !.pc = "version", !.dsm = cachedDsm] \in TaskType
    BY <1>0 DEF TypeOK, TaskType, TaskPcs
  <2>2. task' = [task EXCEPT ![c] = [task[c] EXCEPT !.pc = "version", !.dsm = cachedDsm]]
    BY <1>0 DEF TypeOK, TaskType
  <2> QED BY <1>0, <2>1, <2>2 DEF TypeOK
<1>3. /\ task'[c].pc = "version" /\ task'[c].dsm \in Dsms
      /\ task'[c].snap \in Snaps
  BY <1>0, <1>2 DEF TypeOK, TaskType, ContextsUsable
<1>4. TypeOK'
  BY <1>2 DEF TypeOK
<1>5. NothingEarly'
  BY <1>1, <1>2, <1>3, JobsFact DEF NothingEarly, InFlight
<1>6. ContextsUsable'
  <2>1. ASSUME NEW t \in Tasks
        PROVE  /\ task'[t].pc \in Bound => UsableContext(t)'
               /\ task'[t].pc \notin {"idle", "modules"} => task'[t].snap \in Snaps
               /\ task'[t].pc \in {"version", "guardians"} => task'[t].dsm \in Dsms
    BY <1>2, <1>3 DEF ContextsUsable, UsableContext, SelectWallet, ContextWallet, Bound
  <2>2. ASSUME NEW j \in Jobs, InFlight(j)' PROVE UsableContext(j[1])'
    BY <1>1, <1>2, <2>2, JobsFact DEF ContextsUsable, InFlight, UsableContext,
        SelectWallet, ContextWallet
  <2> QED BY <2>1, <2>2 DEF ContextsUsable
<1> QED BY <1>4, <1>5, <1>6

LEMMA ReadVersionInv ==
    ASSUME IInv, NEW c \in Cycles, ReadVersion(c) PROVE IInv'
<1> USE DEF IInv, ReadVersion, world, memory, outside
<1>0. c \in Tasks
  BY DEF Tasks
<1>1. \A j \in Jobs : j[1] = c => ~InFlight(j)
  BY <1>0 DEF NothingEarly, Opening
<1>2. TypeOK'
  BY <1>0, ConstantsAssumption DEF TypeOK, TaskType, TaskPcs
<1>3. NothingEarly'
  BY <1>0, <1>1, JobsFact DEF NothingEarly, TypeOK, InFlight, Opening
<1>4. ContextsUsable'
  BY <1>0, <1>1, JobsFact DEF ContextsUsable, TypeOK, InFlight, UsableContext,
      SelectWallet, ContextWallet, Bound
<1> QED BY <1>2, <1>3, <1>4

\* A v5 context is refused unless its delegate has a key in the pool.
LEMMA ReadGuardiansInv ==
    ASSUME IInv, NEW c \in Cycles, ReadGuardians(c) PROVE IInv'
<1> USE DEF IInv, ReadGuardians, world, memory, outside
<1>0. c \in Tasks
  BY DEF Tasks
<1>1. \A j \in Jobs : j[1] = c => ~InFlight(j)
  BY <1>0 DEF NothingEarly, Opening
<1>2. chain[task[c].snap] \in BlockData /\ task[c].snap \in Snaps /\ task[c].dsm \in Dsms
  BY <1>0, BlockFact DEF ContextsUsable
<1>3. CASE task'[c] = IdleTask
  <2>1. TypeOK'
    BY <1>0, <1>2, <1>3, IdleTyped DEF TypeOK, BlockData
  <2>2. NothingEarly'
    BY <1>0, <1>1, <1>3, JobsFact DEF NothingEarly, TypeOK, InFlight, Opening, IdleTask
  <2>3. ContextsUsable'
    BY <1>0, <1>1, <1>3, JobsFact DEF ContextsUsable, TypeOK, InFlight, UsableContext,
        SelectWallet, ContextWallet, Bound, IdleTask
  <2> QED BY <2>1, <2>2, <2>3
<1>4. CASE task'[c] = [task[c] EXCEPT !.pc = "balance"]
  <2>1. CASE IsV5(task[c].dsm) /\ (chain[task[c].snap].delegate = None \/ ~chain[task[c].snap].guardian)
    <3>1. task'[c] = IdleTask
      BY <2>1, <1>0 DEF TypeOK
    <3> QED BY <3>1, <1>3
  <2>2. CASE ~(IsV5(task[c].dsm) /\ (chain[task[c].snap].delegate = None \/ ~chain[task[c].snap].guardian))
    <3>1. SelectWallet(c) \in Wallets
      BY <2>2, <1>2, ConstantsAssumption DEF SelectWallet, ContextWallet, BlockData
    <3>2. TypeOK'
      <4>1. [task[c] EXCEPT !.pc = "balance"] \in TaskType
        BY <1>0 DEF TypeOK, TaskType, TaskPcs
      <4>2. task' \in [Tasks -> TaskType]
        BY <1>0, <1>4, <4>1 DEF TypeOK
      <4>3. active' \in Wallets
        BY <1>2, <2>2 DEF TypeOK, BlockData
      <4> QED BY <4>2, <4>3 DEF TypeOK
    <3>3. NothingEarly'
      BY <1>0, <1>1, <1>4, JobsFact DEF NothingEarly, TypeOK, InFlight, Opening
    <3>4. ContextsUsable'
      <4>1. /\ task'[c].pc = "balance"
            /\ task'[c].snap = task[c].snap /\ task'[c].dsm = task[c].dsm
        BY <1>0, <1>4 DEF TypeOK, TaskType
      <4>2. UsableContext(c)'
        BY <1>2, <3>1, <4>1 DEF UsableContext, SelectWallet, ContextWallet
      <4>3. \A t \in Tasks \ {c} : task'[t] = task[t]
        BY <1>0 DEF TypeOK
      <4>4. \A t \in Tasks \ {c} : UsableContext(t) => UsableContext(t)'
        BY <4>3 DEF UsableContext, SelectWallet, ContextWallet
      <4>5. \A j \in Jobs : InFlight(j)' <=> InFlight(j)
        BY DEF InFlight
      <4>6. \A j \in Jobs : InFlight(j)' => UsableContext(j[1])'
        BY <1>1, <4>4, <4>5, JobsFact DEF ContextsUsable
      <4>7. \A t \in Tasks : /\ task'[t].pc \in Bound => UsableContext(t)'
                             /\ task'[t].pc \notin {"idle", "modules"} => task'[t].snap \in Snaps
                             /\ task'[t].pc \in {"version", "guardians"} => task'[t].dsm \in Dsms
        BY <1>2, <4>1, <4>2, <4>3, <4>4 DEF ContextsUsable
      <4> QED BY <4>6, <4>7 DEF ContextsUsable
    <3> QED BY <3>2, <3>3, <3>4
  <2> QED BY <2>1, <2>2
<1> QED BY <1>0, <1>3, <1>4 DEF TypeOK

LEMMA ReadBalanceInv ==
    ASSUME IInv, NEW c \in Cycles, ReadBalance(c) PROVE IInv'
<1> USE DEF IInv, ReadBalance, world, memory, outside
<1>0. c \in Tasks
  BY DEF Tasks
<1>1. TypeOK'
  <2>1. [task[c] EXCEPT !.pc = "decide", !.balanceOf = active] \in TaskType
    BY <1>0 DEF TypeOK, TaskType, TaskPcs
  <2> QED BY <1>0, <2>1 DEF TypeOK
<1>2. NothingEarly'
  BY <1>0, JobsFact DEF NothingEarly, TypeOK, InFlight, Opening
<1>3. ContextsUsable'
  BY <1>0, JobsFact DEF ContextsUsable, TypeOK, InFlight, UsableContext,
      SelectWallet, ContextWallet, Bound
<1> QED BY <1>1, <1>2, <1>3

LEMMA NewJobTyped == ASSUME TypeOK PROVE NewJob \in JobType
BY DEF TypeOK, NewJob, IdleJob, JobType, JobPcs

LEMMA DecidePauseInv ==
    ASSUME IInv, NEW c \in Cycles, DecidePause(c) PROVE IInv'
<1> USE DEF IInv, DecidePause, world, memory, outside
<1>0. c \in Tasks /\ <<c, 0>> \in Jobs
  BY PauseJob DEF Tasks
<1>1. TypeOK'
  BY <1>0, NewJobTyped DEF TypeOK, TaskType, TaskPcs
<1>2. NothingEarly'
  BY <1>0, JobsFact DEF NothingEarly, TypeOK, InFlight, Opening
<1>3. ContextsUsable'
  BY <1>0, JobsFact DEF ContextsUsable, TypeOK, InFlight, UsableContext,
      SelectWallet, ContextWallet, Bound
<1> QED BY <1>1, <1>2, <1>3

LEMMA DecideKeysInv ==
    ASSUME IInv, NEW c \in Cycles, DecideKeys(c) PROVE IInv'
<1> USE DEF IInv, DecideKeys, world, memory, outside
<1>0. c \in Tasks /\ c \notin KeyTasks
  BY ConstantsAssumption DEF Tasks
<1>1. UsableContext(c) /\ \A j \in Jobs : j[1] = c => ~InFlight(j)
  BY <1>0 DEF ContextsUsable, NothingEarly, Bound, Opening
<1>2. ASSUME NEW k \in KeyTasks, Free(k),
             task' = [task EXCEPT ![c] = IdleTask,
                                  ![k] = [task[c] EXCEPT !.pc = "checking", !.live = TRUE]],
             job' = [j \in Jobs |-> IF j[1] = k THEN IdleJob ELSE job[j]]
      PROVE  IInv'
  <2>0. k \in Tasks /\ k # c
    BY <1>0 DEF Tasks
  <2>1. TypeOK'
    BY <1>0, <1>2, <2>0, IdleTyped DEF TypeOK, TaskType, TaskPcs
  <2>2. NothingEarly'
    BY <1>0, <1>1, <1>2, <2>0, JobsFact DEF NothingEarly, TypeOK, InFlight, Opening,
        IdleTask, IdleJob
  <2>3. task'[k].snap = task[c].snap /\ task'[k].dsm = task[c].dsm
    BY <1>0, <1>2, <2>0 DEF TypeOK, TaskType
  <2>4. ContextsUsable'
    BY <1>0, <1>1, <1>2, <2>0, <2>3, JobsFact DEF ContextsUsable, TypeOK, InFlight,
        UsableContext, SelectWallet, ContextWallet, Bound, IdleTask, IdleJob
  <2> QED BY <2>1, <2>2, <2>4
<1>3. CASE task' = [task EXCEPT ![c] = IdleTask] /\ UNCHANGED job
  <2>1. TypeOK'
    BY <1>0, <1>3, IdleTyped DEF TypeOK
  <2>2. NothingEarly'
    BY <1>0, <1>3, JobsFact DEF NothingEarly, TypeOK, InFlight, Opening, IdleTask
  <2>3. ContextsUsable'
    BY <1>0, <1>1, <1>3, JobsFact DEF ContextsUsable, TypeOK, InFlight, UsableContext,
        SelectWallet, ContextWallet, Bound, IdleTask
  <2> QED BY <2>1, <2>2, <2>3
<1> QED BY <1>2, <1>3

LEMMA FinishPauseInv ==
    ASSUME IInv, NEW c \in Cycles, FinishPause(c) PROVE IInv'
<1> USE DEF IInv, FinishPause, world, memory, outside
<1>0. c \in Tasks /\ c \notin KeyTasks /\ <<c, 0>> \in Jobs
  BY ConstantsAssumption, PauseJob DEF Tasks
<1>1. \A j \in Jobs : j[1] = c => ~InFlight(j)
  BY <1>0 DEF Jobs, InFlight
<1>2. TypeOK'
  BY <1>0, IdleTyped DEF TypeOK
<1>3. NothingEarly'
  BY <1>0, JobsFact DEF NothingEarly, TypeOK, InFlight, Opening, IdleTask, IdleJob
<1>4. ContextsUsable'
  BY <1>0, <1>1, JobsFact DEF ContextsUsable, TypeOK, InFlight, UsableContext,
      SelectWallet, ContextWallet, Bound, IdleTask, IdleJob
<1> QED BY <1>2, <1>3, <1>4

-----------------------------------------------------------------------------
(* The key tasks                                                            *)

LEMMA CheckKeysInv ==
    ASSUME IInv, NEW k \in KeyTasks, CheckKeys(k) PROVE IInv'
<1> USE DEF IInv, CheckKeys, world, memory, outside
<1>0. k \in Tasks /\ <<k, 0>> \in Jobs
  BY PauseJob DEF Tasks
<1>1. TypeOK'
  BY <1>0, NewJobTyped, IdleTyped DEF TypeOK, TaskType, TaskPcs
<1>2. NothingEarly'
  BY <1>0, JobsFact DEF NothingEarly, TypeOK, InFlight, Opening
<1>3. ContextsUsable'
  BY <1>0, JobsFact DEF ContextsUsable, TypeOK, InFlight, UsableContext,
      SelectWallet, ContextWallet, Bound
<1> QED BY <1>1, <1>2, <1>3

LEMMA HandleDepositInv ==
    ASSUME IInv, NEW k \in KeyTasks, HandleDeposit(k) PROVE IInv'
<1> USE DEF IInv, HandleDeposit, world, memory, outside
<1>0. k \in Tasks
  BY DEF Tasks
<1>1. UsableContext(k)
  BY <1>0 DEF ContextsUsable, Bound
<1>2. TypeOK'
  <2>1. job' \in [Jobs -> JobType]
    BY NewJobTyped, IdleTyped DEF TypeOK
  <2> QED BY <1>0, <2>1 DEF TypeOK, TaskType, TaskPcs
<1>3. \A j \in Jobs : InFlight(j)' => j[1] = k \/ InFlight(j)
  BY DEF InFlight
<1>4. NothingEarly'
  BY <1>0, <1>3, JobsFact DEF NothingEarly, TypeOK, Opening
<1>5. ContextsUsable'
  BY <1>0, <1>1, <1>3, JobsFact DEF ContextsUsable, TypeOK, UsableContext,
      SelectWallet, ContextWallet, Bound
<1> QED BY <1>2, <1>4, <1>5

LEMMA FinishKeysInv ==
    ASSUME IInv, NEW k \in KeyTasks, FinishKeys(k) PROVE IInv'
<1> USE DEF IInv, FinishKeys, world, memory, outside
<1>0. k \in Tasks
  BY DEF Tasks
<1>1. task[k].snap \in Snaps /\ chain[task[k].snap].number \in Nat
  BY <1>0, BlockFact DEF ContextsUsable, UsableContext, Bound, BlockData
<1>2. TypeOK'
  <2>1. lastPing' \in Nat /\ lastMeta' \in Snaps
    BY <1>1 DEF TypeOK
  <2> QED BY <1>0, <2>1, IdleTyped DEF TypeOK
<1>3. \A j \in Jobs : InFlight(j)' => j[1] # k /\ InFlight(j)
  BY DEF InFlight, IdleJob
<1>4. NothingEarly'
  BY <1>0, <1>3, JobsFact DEF NothingEarly, TypeOK, Opening, IdleTask
<1>5. ContextsUsable'
  BY <1>0, <1>3, JobsFact DEF ContextsUsable, TypeOK, UsableContext,
      SelectWallet, ContextWallet, Bound, IdleTask
<1> QED BY <1>2, <1>4, <1>5

-----------------------------------------------------------------------------
(* Signing and sending                                                      *)

LEMMA RememberTyped ==
    ASSUME TypeOK, NEW j \in Jobs, task[j[1]].snap \in Snaps, Remember(j)
    PROVE  lastStates' \in [Modules -> StateType]
<1>1. CASE KindOf(j) = "deposit"
  <2>1. j[2] \in Modules
    BY <1>1, JobsFact DEF KindOf
  <2>2. ContractsState(task[j[1]].snap, j[2]) \in StateType
    BY <2>1, BlockFact DEF ContractsState, StateType, BlockData
  <2> QED BY <1>1, <2>2 DEF Remember, TypeOK
<1>2. CASE KindOf(j) # "deposit"
  BY <1>2 DEF Remember, TypeOK
<1> QED BY <1>1, <1>2

\* A step that writes nothing of the tasks and starts no job keeps contexts.
LEMMA ContextsKept ==
    ASSUME NothingEarly, ContextsUsable, UNCHANGED <<task, chain>>,
           \A j \in Jobs : InFlight(j)' => InFlight(j)
    PROVE  NothingEarly' /\ ContextsUsable'
BY JobsFact DEF NothingEarly, ContextsUsable, UsableContext, SelectWallet, ContextWallet

LEMMA SignInv ==
    ASSUME IInv, NEW j \in Jobs, Sign(j) PROVE IInv'
<1> USE DEF IInv, Sign, world
<1>1. UsableContext(j[1])
  BY DEF ContextsUsable, InFlight
<1>2. TypeOK'
  <2>1. active' \in Wallets
    BY <1>1 DEF UsableContext
  <2>2. CASE chain[task[j[1]].snap].guardian
    BY <2>1, <2>2 DEF TypeOK, JobType, JobPcs
  <2>3. CASE ~chain[task[j[1]].snap].guardian
    BY <1>1, <2>1, <2>3, RememberTyped, IdleTyped DEF TypeOK, UsableContext
  <2> QED BY <2>2, <2>3
<1>3. \A i \in Jobs : InFlight(i)' => InFlight(i)
  BY DEF InFlight, TypeOK, DoneJob, IdleJob
<1> QED BY <1>2, <1>3, ContextsKept

LEMMA PublishInv ==
    ASSUME IInv, NEW j \in Jobs, Publish(j) PROVE IInv'
<1> USE DEF IInv, Publish, world, memory, outside
<1>1. TypeOK'
  BY DEF TypeOK, JobType, JobPcs
<1>2. \A i \in Jobs : InFlight(i)' => InFlight(i)
  BY DEF InFlight, TypeOK
<1> QED BY <1>1, <1>2, ContextsKept

LEMMA TransmitInv ==
    ASSUME IInv, NEW j \in Jobs, Transmit(j) PROVE IInv'
<1> USE DEF IInv, Transmit, world
<1>1. task[j[1]].snap \in Snaps
  BY DEF ContextsUsable, InFlight, UsableContext
<1>2. TypeOK'
  BY <1>1, RememberTyped, IdleTyped DEF TypeOK
<1>3. \A i \in Jobs : InFlight(i)' => InFlight(i)
  BY DEF InFlight, TypeOK, DoneJob, IdleJob
<1> QED BY <1>2, <1>3, ContextsKept

LEMMA JobFailsInv ==
    ASSUME IInv, NEW j \in Jobs, JobFails(j) PROVE IInv'
<1> USE DEF IInv, JobFails, Fail, world, memory, outside
<1>0. j[1] \in Tasks
  BY JobsFact
<1>1. TypeOK'
  <2>1. failures' \in 0..MaxFailures
    BY ConstantsAssumption DEF TypeOK
  <2>2. [task[j[1]] EXCEPT !.pc = "idle", !.live = FALSE] \in TaskType
    <3>1. \A r \in TaskType : [r EXCEPT !.pc = "idle", !.live = FALSE] \in TaskType
      BY DEF TaskType, TaskPcs
    <3>2. task[j[1]] \in TaskType
      BY <1>0 DEF TypeOK
    <3> QED BY <3>1, <3>2
  <2>3. task' \in [Tasks -> TaskType]
    BY <1>0, <2>2 DEF TypeOK
  <2> QED BY <2>1, <2>3, IdleTyped DEF TypeOK
<1>2. \A i \in Jobs : InFlight(i)' => InFlight(i)
  BY DEF InFlight, TypeOK, IdleJob
<1>3. \A t \in Tasks : /\ task'[t].snap = task[t].snap /\ task'[t].dsm = task[t].dsm
                       /\ task'[t].pc = task[t].pc \/ task'[t].pc = "idle"
  BY <1>0 DEF TypeOK, TaskType
<1>4. NothingEarly'
  BY <1>2, <1>3, JobsFact DEF NothingEarly, Opening
<1>5. ContextsUsable'
  BY <1>2, <1>3, JobsFact DEF ContextsUsable, UsableContext, SelectWallet, ContextWallet,
      Bound
<1> QED BY <1>1, <1>4, <1>5

LEMMA TaskFailsInv ==
    ASSUME IInv, NEW t \in Tasks, TaskFails(t) PROVE IInv'
<1> USE DEF IInv, TaskFails, Fail, world, memory, outside
<1>1. \A j \in Jobs : j[1] = t => ~InFlight(j)
  <2>1. task[t].pc \in Opening
    BY DEF TypeOK, TaskType, TaskPcs, Opening
  <2> QED BY <2>1 DEF NothingEarly
<1>2. TypeOK'
  <2>1. failures' \in 0..MaxFailures
    BY ConstantsAssumption DEF TypeOK
  <2> QED BY <2>1, IdleTyped DEF TypeOK
<1>3. NothingEarly'
  BY JobsFact DEF NothingEarly, TypeOK, InFlight, Opening, IdleTask
<1>4. ContextsUsable'
  BY <1>1, JobsFact DEF ContextsUsable, TypeOK, InFlight, UsableContext,
      SelectWallet, ContextWallet, Bound, IdleTask
<1> QED BY <1>2, <1>3, <1>4

LEMMA TimesOutInv ==
    ASSUME IInv, NEW t \in Tasks, TimesOut(t) PROVE IInv'
<1> USE DEF IInv, TimesOut, world, memory, outside
<1>1. TypeOK'
  <2>1. failures' \in 0..MaxFailures
    BY ConstantsAssumption DEF TypeOK, Fail
  <2> QED BY <2>1 DEF TypeOK, TaskType, TaskPcs
<1>2. NothingEarly'
  BY JobsFact DEF NothingEarly, TypeOK, TaskType, InFlight, Opening
<1>3. ContextsUsable'
  BY JobsFact DEF ContextsUsable, TypeOK, TaskType, InFlight, UsableContext,
      SelectWallet, ContextWallet, Bound
<1> QED BY <1>1, <1>2, <1>3

\* The steps around the tasks: pings, transactions, the chain.
Surroundings ==
    \/ \E p \in pings : PublishPing(p) \/ PingFails(p)
    \/ \E x \in txs : TxMined(x) \/ TxFails(x) \/ TxTimesOut(x)
    \/ NewSnapshot

LEMMA SurroundingsInv ==
    ASSUME IInv, Surroundings PROVE IInv'
<1> USE DEF IInv, world, memory, outside
<1>1. UNCHANGED <<task, job, chain, active, cachedDsm, lastMeta, lastPing, lastStates>>
  BY DEF Surroundings, PublishPing, PingFails, TxMined, TxFails, TxTimesOut, NewSnapshot
<1>2. failures' \in 0..MaxFailures
  BY ConstantsAssumption DEF Surroundings, PublishPing, PingFails, TxMined, TxFails,
      TxTimesOut, NewSnapshot, Fail, TypeOK
<1>3. head' \in Snaps /\ pausedFrom' \in Snaps \cup {MaxSnap + 1}
  BY ConstantsAssumption DEF Surroundings, PublishPing, PingFails, TxMined, TxFails,
      TxTimesOut, NewSnapshot, Fail, TypeOK, Snaps
<1>4. TypeOK'
  BY <1>1, <1>2, <1>3 DEF TypeOK
<1> QED BY <1>1, <1>4, ContextsKept DEF InFlight

LEMMA StepInv == IInv /\ [Next]_vars => IInv'
<1> SUFFICES ASSUME IInv, [Next]_vars PROVE IInv'
  OBVIOUS
<1>1. ASSUME NEW c \in Cycles, CycleStep(c) PROVE IInv'
  BY <1>1, StartCycleInv, ReadModulesInv, CacheContractsInv, CollectDataInv,
     ReadVersionInv, ReadGuardiansInv, ReadBalanceInv, DecidePauseInv, DecideKeysInv,
     FinishPauseInv DEF CycleStep
<1>2. ASSUME NEW k \in KeyTasks, KeysStep(k) PROVE IInv'
  BY <1>2, CheckKeysInv, HandleDepositInv, FinishKeysInv DEF KeysStep
<1>3. ASSUME NEW j \in Jobs, JobStep(j) \/ JobFails(j) PROVE IInv'
  BY <1>3, SignInv, PublishInv, TransmitInv, JobFailsInv DEF JobStep
<1>4. ASSUME NEW t \in Tasks, TaskFails(t) \/ TimesOut(t) PROVE IInv'
  BY <1>4, TaskFailsInv, TimesOutInv
<1>5. CASE Surroundings
  BY <1>5, SurroundingsInv
<1>6. CASE UNCHANGED vars
  <2>1. TypeOK'
    BY <1>6 DEF vars, world, memory, outside, IInv, TypeOK
  <2> QED BY <1>6, <2>1, ContextsKept DEF vars, world, memory, outside, IInv, InFlight
<1> QED BY <1>1, <1>2, <1>3, <1>4, <1>5, <1>6 DEF Next, Surroundings

LEMMA Inductive == Spec => []IInv
<1> QED BY InitInv, StepInv, PTL DEF Spec

\* Every variable keeps its type; above all the active wallet is always one of
\* the pool, because a v5 context whose delegate has no key here is refused
\* (security.service.ts:225-262).
THEOREM TypeCorrect == Spec => []TypeOK
<1>1. IInv => TypeOK
  BY DEF IInv
<1> QED BY <1>1, Inductive, PTL

-----------------------------------------------------------------------------
(* Who signs, and what is attested                                          *)

SameContext(t) == task'[t].snap = task[t].snap /\ task'[t].dsm = task[t].dsm

Signed(j) == job[j].pc \in {"publish", "transmit"}

\* A signed job was signed by this step or earlier, with the context the task
\* still has: no execution is given another block while a job of it is in flight.
SignedJobKept(j) ==
    Signed(j)' =>
        /\ SameContext(j[1])
        /\ \/ Sign(j)
           \/ Signed(j) /\ job'[j].signer = job[j].signer

\* A job in flight was started by this step or keeps its block.
FlightKept(j) ==
    InFlight(j)' =>
        /\ SameContext(j[1])
        /\ \/ InFlight(j)
           \/ KindOf(j) # "deposit"
           \/ ~IgnoreDeposits(task[j[1]].snap, j[2])

LEMMA CycleKeeps ==
    ASSUME IInv, NEW c \in Cycles, CycleStep(c), NEW j \in Jobs
    PROVE  SignedJobKept(j) /\ FlightKept(j)
<1> USE JobsFact DEF IInv, TypeOK
<1>0. c \in Tasks /\ c \notin KeyTasks
  BY ConstantsAssumption DEF Tasks
<1>1. CASE StartCycle(c)
  BY <1>0, <1>1 DEF StartCycle, Free, JobsOf, SignedJobKept, FlightKept, Signed, InFlight,
      SameContext
<1>2. CASE \/ ReadModules(c) \/ CacheContracts(c) \/ CollectData(c)
           \/ ReadVersion(c) \/ ReadGuardians(c) \/ ReadBalance(c)
  <2>1. j[1] = c => ~InFlight(j)
    BY <1>0, <1>2 DEF NothingEarly, Opening, ReadModules, CacheContracts, CollectData,
        ReadVersion, ReadGuardians, ReadBalance
  <2>2. job' = job /\ \A t \in Tasks \ {c} : task'[t] = task[t]
    BY <1>0, <1>2 DEF ReadModules, CacheContracts, CollectData, ReadVersion,
        ReadGuardians, ReadBalance
  <2> QED BY <2>1, <2>2 DEF SignedJobKept, FlightKept, Signed, InFlight, SameContext
<1>3. CASE DecidePause(c)
  <2>1. j[1] = c => KindOf(j) # "deposit"
    BY <1>0 DEF KindOf
  <2>2. SameContext(j[1])
    BY <1>0, <1>3 DEF DecidePause, SameContext, TaskType
  <2> QED BY <1>0, <1>3, <2>1, <2>2, PauseJob DEF DecidePause, SignedJobKept, FlightKept,
        Signed, InFlight, NewJob, IdleJob, JobType
<1>4. CASE DecideKeys(c)
  <2>1. j[1] = c => ~InFlight(j)
    BY <1>0, <1>4 DEF NothingEarly, Opening, DecideKeys
  <2>2. InFlight(j)' => InFlight(j) /\ job'[j] = job[j] /\ task'[j[1]] = task[j[1]]
    BY <1>0, <1>4, <2>1 DEF DecideKeys, InFlight, IdleJob, Tasks
  <2> QED BY <2>2 DEF SignedJobKept, FlightKept, Signed, InFlight, SameContext
<1>5. CASE FinishPause(c)
  <2>1. InFlight(j)' => InFlight(j) /\ job'[j] = job[j] /\ task'[j[1]] = task[j[1]]
    BY <1>0, <1>5, PauseJob DEF FinishPause, InFlight, IdleJob, Tasks, Jobs
  <2> QED BY <2>1 DEF SignedJobKept, FlightKept, Signed, InFlight, SameContext
<1> QED BY <1>1, <1>2, <1>3, <1>4, <1>5 DEF CycleStep

LEMMA KeysKeep ==
    ASSUME IInv, NEW k \in KeyTasks, KeysStep(k), NEW j \in Jobs
    PROVE  SignedJobKept(j) /\ FlightKept(j)
<1> USE JobsFact DEF IInv, TypeOK
<1>0. k \in Tasks /\ k \notin Cycles
  BY ConstantsAssumption DEF Tasks
<1>1. CASE CheckKeys(k)
  <2>1. SameContext(j[1])
    BY <1>0, <1>1 DEF CheckKeys, SameContext, TaskType
  <2>2. KindOf(<<k, 0>>) # "deposit"
    BY <1>0 DEF KindOf
  <2>3. j # <<k, 0>> => job'[j] = job[j]
    BY <1>1 DEF CheckKeys
  <2>4. j = <<k, 0>> => ~Signed(j)'
    BY <1>0, <1>1, PauseJob DEF CheckKeys, Signed, NewJob, IdleJob, DoneJob
  <2> QED BY <2>1, <2>2, <2>3, <2>4 DEF SignedJobKept, FlightKept, Signed, InFlight
<1>2. CASE HandleDeposit(k)
  <2>1. SameContext(j[1])
    BY <1>0, <1>2 DEF HandleDeposit, SameContext, TaskType
  <2>2. \/ job'[j] = job[j]
        \/ ~InFlight(j)'
        \/ /\ ~Signed(j)'
           /\ j[1] = k /\ ~IgnoreDeposits(task[j[1]].snap, j[2])
    BY <1>2 DEF HandleDeposit, Signed, InFlight, NewJob, IdleJob, DoneJob
  <2> QED BY <2>1, <2>2 DEF SignedJobKept, FlightKept, Signed, InFlight
<1>3. CASE FinishKeys(k)
  <2>1. InFlight(j)' => InFlight(j) /\ job'[j] = job[j] /\ task'[j[1]] = task[j[1]]
    BY <1>0, <1>3 DEF FinishKeys, InFlight, IdleJob
  <2> QED BY <2>1 DEF SignedJobKept, FlightKept, Signed, InFlight, SameContext
<1> QED BY <1>1, <1>2, <1>3 DEF KeysStep

LEMMA OthersKeep ==
    ASSUME IInv, NEW j \in Jobs,
           \/ \E i \in Jobs : JobStep(i) \/ JobFails(i)
           \/ \E t \in Tasks : TaskFails(t) \/ TimesOut(t)
           \/ Surroundings
           \/ UNCHANGED vars
    PROVE  SignedJobKept(j) /\ FlightKept(j)
<1> USE JobsFact DEF IInv, TypeOK
<1>1. ASSUME NEW i \in Jobs, Sign(i) PROVE SignedJobKept(j) /\ FlightKept(j)
  <2>1. InFlight(i) /\ task' = task
    BY <1>1 DEF Sign, InFlight
  <2>2. i # j => job'[j] = job[j]
    BY <1>1 DEF Sign
  <2> QED BY <1>1, <2>1, <2>2 DEF SignedJobKept, FlightKept, Signed, InFlight, SameContext
<1>2. ASSUME NEW i \in Jobs, Publish(i) \/ Transmit(i)
      PROVE  SignedJobKept(j) /\ FlightKept(j)
  <2>1. Signed(i) /\ task' = task
    BY <1>2 DEF Publish, Transmit, Signed
  <2>2. i # j => job'[j] = job[j]
    BY <1>2 DEF Publish, Transmit
  <2>3. Signed(i)' => job'[i].signer = job[i].signer
    BY <1>2 DEF Publish, Transmit, Signed, DoneJob, IdleJob, JobType
  <2> QED BY <2>1, <2>2, <2>3 DEF SignedJobKept, FlightKept, Signed, InFlight, SameContext
<1>3. ASSUME NEW i \in Jobs, JobFails(i) PROVE SignedJobKept(j) /\ FlightKept(j)
  <2>1. SameContext(j[1])
    BY <1>3 DEF JobFails, SameContext, TaskType
  <2>2. InFlight(j)' => job'[j] = job[j]
    BY <1>3 DEF JobFails, InFlight, IdleJob
  <2> QED BY <2>1, <2>2 DEF SignedJobKept, FlightKept, Signed, InFlight
<1>4. ASSUME NEW t \in Tasks, TaskFails(t) PROVE SignedJobKept(j) /\ FlightKept(j)
  <2>1. j[1] = t => ~InFlight(j)
    <3>1. task[t].pc \in Opening
      BY <1>4 DEF TaskFails, TaskType, TaskPcs, Opening
    <3> QED BY <3>1 DEF NothingEarly
  <2>2. job' = job /\ \A u \in Tasks \ {t} : task'[u] = task[u]
    BY <1>4 DEF TaskFails
  <2> QED BY <2>1, <2>2 DEF SignedJobKept, FlightKept, Signed, InFlight, SameContext
<1>5. ASSUME NEW t \in Tasks, TimesOut(t) PROVE SignedJobKept(j) /\ FlightKept(j)
  BY <1>5 DEF TimesOut, SignedJobKept, FlightKept, Signed, InFlight, SameContext, TaskType
<1>6. CASE Surroundings \/ UNCHANGED vars
  <2>1. task' = task /\ job' = job
    BY <1>6 DEF Surroundings, PublishPing, PingFails, TxMined, TxFails, TxTimesOut,
        NewSnapshot, vars
  <2> QED BY <2>1 DEF SignedJobKept, FlightKept, Signed, InFlight, SameContext
<1> QED BY <1>1, <1>2, <1>3, <1>4, <1>5, <1>6 DEF JobStep

LEMMA JobsKept ==
    ASSUME IInv, [Next]_vars
    PROVE  chain' = chain /\ \A j \in Jobs : SignedJobKept(j) /\ FlightKept(j)
<1>1. ASSUME NEW j \in Jobs PROVE SignedJobKept(j) /\ FlightKept(j)
  BY CycleKeeps, KeysKeep, OthersKeep DEF Next, Surroundings
<1>2. chain' = chain
  BY DEF Next, CycleStep, KeysStep, JobStep, StartCycle, ReadModules, CacheContracts,
     CollectData, ReadVersion, ReadGuardians, ReadBalance, DecidePause, DecideKeys,
     FinishPause, CheckKeys, HandleDeposit, FinishKeys, Sign, Publish, Transmit, JobFails,
     TaskFails, TimesOut, PublishPing, PingFails, TxMined, TxFails, TxTimesOut,
     NewSnapshot, vars, world
<1> QED BY <1>1, <1>2

\* A message that is no ping reaches the broker by the last step of its job.
LEMMA WhoSends ==
    ASSUME [Next]_vars, NEW b \in bus', b.kind # "ping"
    PROVE  b \in bus \/ \E j \in Jobs : Transmit(j) /\ b = Message(j)
<1>1. \/ bus' = bus
      \/ \E j \in Jobs : Transmit(j)
      \/ \E p \in pings : PublishPing(p)
  BY DEF Next, CycleStep, KeysStep, JobStep, StartCycle, ReadModules, CacheContracts,
     CollectData, ReadVersion, ReadGuardians, ReadBalance, DecidePause, DecideKeys,
     FinishPause, CheckKeys, HandleDeposit, FinishKeys, Sign, Publish, JobFails,
     TaskFails, TimesOut, PingFails, TxMined, TxFails, TxTimesOut, NewSnapshot,
     vars, outside
<1>2. ASSUME NEW p \in pings, PublishPing(p) PROVE b \in bus
  BY <1>2 DEF PublishPing
<1>3. ASSUME NEW j \in Jobs, Transmit(j) PROVE b \in bus \/ b = Message(j)
  BY <1>3 DEF Transmit
<1> QED BY <1>1, <1>2, <1>3

\* Transactions have the fields the property reads.
TxFields == \A x \in txs : {"from", "dsm", "snap"} \subseteq DOMAIN x

LEMMA SignedStep ==
    ASSUME IInv, SignedByContextWallet, TxFields, [Next]_vars
    PROVE  (SignedByContextWallet /\ TxFields)'
<1> USE JobsKept, JobsFact DEF SignedByContextWallet, SelectWallet, ContextWallet
<1>1. ASSUME NEW j \in Jobs, Signed(j)' PROVE job'[j].signer = SelectWallet(j[1])'
  <2>1. CASE Sign(j)
    BY <1>1, <2>1 DEF Sign, Signed, IInv, TypeOK, JobType, DoneJob, IdleJob
  <2>2. CASE Signed(j) /\ job'[j].signer = job[j].signer
    BY <1>1, <2>2 DEF SignedJobKept, SameContext, Signed
  <2> QED BY <1>1, <2>1, <2>2 DEF SignedJobKept
<1>2. ASSUME NEW x \in txs'
      PROVE  x.from = ContextWallet(x.dsm, x.snap)' /\ {"from", "dsm", "snap"} \subseteq DOMAIN x
  <2>1. CASE x \in txs
    BY <2>1 DEF TxFields
  <2>2. ASSUME NEW j \in Jobs, Sign(j), x \notin txs
        PROVE  x.from = ContextWallet(x.dsm, x.snap)' /\ {"from", "dsm", "snap"} \subseteq DOMAIN x
    BY <2>2 DEF Sign, SendTx
  <2>3. ASSUME NEW y \in txs, TxTimesOut(y), x \notin txs
        PROVE  x.from = ContextWallet(x.dsm, x.snap)' /\ {"from", "dsm", "snap"} \subseteq DOMAIN x
    <3>1. x = [y EXCEPT !.live = FALSE]
      BY <2>3 DEF TxTimesOut
    <3>2. DOMAIN x = DOMAIN y /\ x.from = y.from /\ x.dsm = y.dsm /\ x.snap = y.snap
      BY <3>1 DEF TxFields
    <3> QED BY <3>2 DEF TxFields
  <2>4. \/ txs' \subseteq txs
        \/ \E j \in Jobs : Sign(j)
        \/ \E y \in txs : TxTimesOut(y)
    BY DEF Next, CycleStep, KeysStep, JobStep, StartCycle, ReadModules, CacheContracts,
       CollectData, ReadVersion, ReadGuardians, ReadBalance, DecidePause, DecideKeys,
       FinishPause, CheckKeys, HandleDeposit, FinishKeys, Publish, Transmit, JobFails,
       TaskFails, TimesOut, PublishPing, PingFails, TxMined, TxFails, NewSnapshot,
       vars, outside
  <2> QED BY <2>1, <2>2, <2>3, <2>4
<1>3. ASSUME NEW b \in bus', b.kind # "ping" PROVE b.signer = ContextWallet(b.dsm, b.snap)'
  <2>1. CASE b \in bus
    BY <1>3, <2>1
  <2>2. ASSUME NEW j \in Jobs, Transmit(j), b \notin bus
        PROVE  b.signer = ContextWallet(b.dsm, b.snap)'
    <3>1. b = Message(j)
      BY <2>2 DEF Transmit
    <3>2. b.signer = job[j].signer /\ b.dsm = task[j[1]].dsm /\ b.snap = task[j[1]].snap
      BY <3>1 DEF Message
    <3> QED BY <2>2, <3>2 DEF Transmit
  <2> QED BY <1>3, <2>1, <2>2, WhoSends
<1> QED BY <1>1, <1>2, <1>3 DEF Signed, TxFields

\* Whatever else runs and however often it times out, a pause, an unvet and a
\* deposit attestation carry the signature of the wallet their own block calls
\* for: sign selects it with no await before signing (security.service.ts:340,
\* 367 and 526-532), and a task keeps its block while a job of it is in flight.
THEOREM ContextWalletSigns == Spec => []SignedByContextWallet
<1>1. Init => SignedByContextWallet /\ TxFields
  BY DEF Init, SignedByContextWallet, TxFields, IdleJob
<1> QED BY <1>1, SignedStep, Inductive, PTL DEF Spec

-----------------------------------------------------------------------------

\* The block, and the module, of an attestation in flight are safe; a signed
\* one is that of a listed guardian.
SafeBlock(s, m) ==
    m \notin chain[s].bad \cup chain[s].blocked /\ ~chain[s].paused /\ ~chain[s].threat

SafeJobs ==
    \A j \in Jobs : KindOf(j) = "deposit" =>
        /\ InFlight(j) => SafeBlock(task[j[1]].snap, j[2])
        /\ Signed(j) => chain[task[j[1]].snap].guardian

LEMMA SafeStep ==
    ASSUME IInv, SafeJobs, OnlySafeAttested, [Next]_vars
    PROVE  (SafeJobs /\ OnlySafeAttested)'
<1> USE JobsKept, JobsFact
<1>1. ASSUME NEW j \in Jobs, KindOf(j) = "deposit", InFlight(j)'
      PROVE  SafeBlock(task[j[1]].snap, j[2])'
  BY <1>1 DEF FlightKept, SameContext, SafeJobs, SafeBlock, IgnoreDeposits, IsPaused
<1>2. ASSUME NEW j \in Jobs, KindOf(j) = "deposit", Signed(j)'
      PROVE  (chain[task[j[1]].snap].guardian)'
  <2>1. CASE Sign(j)
    BY <1>2, <2>1 DEF Sign, Signed, IInv, TypeOK, DoneJob, IdleJob
  <2>2. CASE Signed(j)
    BY <1>2, <2>2 DEF SignedJobKept, SameContext, SafeJobs
  <2> QED BY <1>2, <2>1, <2>2 DEF SignedJobKept
<1>3. ASSUME NEW b \in bus', b.kind = "deposit"
      PROVE  SafeBlock(b.snap, b.module)' /\ (chain[b.snap].guardian)'
  <2>1. CASE b \in bus
    BY <1>3, <2>1 DEF OnlySafeAttested, SafeBlock
  <2>2. ASSUME NEW j \in Jobs, Transmit(j), b \notin bus
        PROVE  SafeBlock(b.snap, b.module)' /\ (chain[b.snap].guardian)'
    <3>1. b = Message(j)
      BY <2>2 DEF Transmit
    <3>2. KindOf(j) = "deposit" /\ b.module = j[2] /\ b.snap = task[j[1]].snap
      BY <1>3, <3>1 DEF Message
    <3> QED BY <2>2, <3>2 DEF Transmit, SafeJobs, SafeBlock, InFlight, Signed
  <2> QED BY <1>3, <2>1, <2>2, WhoSends
<1>4. SafeJobs'
  BY <1>1, <1>2 DEF SafeJobs, KindOf
<1> QED BY <1>3, <1>4 DEF OnlySafeAttested, SafeBlock

\* No interleaving, lost job or zombie execution attests a module with keys to
\* unvet or duplicates, nor one of a paused or threatened block, nor speaks for
\* an unlisted guardian (guardian.service.ts:404-470).
THEOREM SafeAttested == Spec => []OnlySafeAttested
<1>1. Init => SafeJobs /\ OnlySafeAttested
  BY DEF Init, SafeJobs, OnlySafeAttested, InFlight, Signed, IdleJob
<1> QED BY <1>1, SafeStep, Inductive, PTL DEF Spec

-----------------------------------------------------------------------------
(* What a processed block stands for                                        *)

Recorded(s, m) == Attested(s, m) \/ RememberedUnlisted(s, m)

\* A remembered state is that of a block whose attestation was delivered, or was
\* not due because the guardian was not listed.
StatesRecorded ==
    \A m \in Modules :
        \/ lastStates[m] = NoState
        \/ \E z \in Snaps : lastStates[m] = ContractsState(z, m) /\ Recorded(z, m)

\* A module handleDeposit is done with was not open, or is recorded.
DoneRecorded ==
    \A k \in KeyTasks, m \in Modules :
        task[k].pc = "depositing" /\ job[<<k, m>>].pc = "done" =>
            IgnoreDeposits(task[k].snap, m) \/ Recorded(task[k].snap, m)

Remembers(j) == Transmit(j) \/ (Sign(j) /\ ~chain[task[j[1]].snap].guardian)

\* A contracts state is comparable, first of all to itself.
LEMMA StateFact ==
    ASSUME TypeOK, NEW s \in Snaps, NEW m \in Modules
    PROVE  /\ ContractsState(s, m) # NoState
           /\ IsSameContractsStates(ContractsState(s, m), ContractsState(s, m))
<1>1. chain[s].number \in Nat
  BY BlockFact DEF BlockData
<1>2. ContractsState(s, m) # NoState
  BY <1>1 DEF ContractsState, NoState
<1> QED BY <1>2 DEF IsSameContractsStates

\* What is recorded of a block is recorded of every block in the same state.
LEMMA RecordedOfSame ==
    ASSUME NEW s, NEW z, NEW m, Recorded(z, m),
           IsSameContractsStates(ContractsState(s, m), ContractsState(z, m))
    PROVE  Recorded(s, m)
<1>1. \A x : IsSameContractsStates(ContractsState(x, m), ContractsState(z, m)) =>
             IsSameContractsStates(ContractsState(x, m), ContractsState(s, m))
  BY DEF IsSameContractsStates
<1>2. CASE Attested(z, m)
  BY <1>1, <1>2 DEF Attested, Recorded
<1>3. CASE RememberedUnlisted(z, m)
  BY <1>1, <1>3 DEF RememberedUnlisted, Recorded
<1> QED BY <1>2, <1>3 DEF Recorded

\* No step takes back a message, a pause or what they make true.
LEMMA RecordsKept ==
    ASSUME TypeOK, [Next]_vars
    PROVE  /\ chain' = chain /\ bus \subseteq bus'
           /\ \A s, m : Recorded(s, m) => Recorded(s, m)'
           /\ \A s \in Snaps, m \in Modules : IgnoreDeposits(s, m) => IgnoreDeposits(s, m)'
<1>1. chain' = chain /\ bus \subseteq bus'
  BY DEF Next, CycleStep, KeysStep, JobStep, StartCycle, ReadModules, CacheContracts,
     CollectData, ReadVersion, ReadGuardians, ReadBalance, DecidePause, DecideKeys,
     FinishPause, CheckKeys, HandleDeposit, FinishKeys, Sign, Publish, Transmit, JobFails,
     TaskFails, TimesOut, PublishPing, PingFails, TxMined, TxFails, TxTimesOut,
     NewSnapshot, vars, world, outside
<1>2. pausedFrom' = pausedFrom \/ (head < pausedFrom /\ pausedFrom' = head + 1)
  BY DEF Next, CycleStep, KeysStep, JobStep, StartCycle, ReadModules, CacheContracts,
     CollectData, ReadVersion, ReadGuardians, ReadBalance, DecidePause, DecideKeys,
     FinishPause, CheckKeys, HandleDeposit, FinishKeys, Sign, Publish, Transmit, JobFails,
     TaskFails, TimesOut, PublishPing, PingFails, TxMined, TxFails, TxTimesOut,
     NewSnapshot, vars, world, outside
<1>3. \A s \in Snaps, m \in Modules : IgnoreDeposits(s, m) => IgnoreDeposits(s, m)'
  <2>1. \A s \in Snaps : s >= pausedFrom => s >= pausedFrom'
    BY <1>2, ConstantsAssumption DEF TypeOK, Snaps
  <2> QED BY <1>1, <2>1 DEF IgnoreDeposits, IsPaused
<1>4. \A s, m : Recorded(s, m) => Recorded(s, m)'
  BY <1>1 DEF Recorded, Attested, RememberedUnlisted, ContractsState
<1> QED BY <1>1, <1>3, <1>4

\* Delivering an attestation, or not being listed for it, records its block.
LEMMA RememberRecords ==
    ASSUME IInv, NEW j \in Jobs, Remembers(j), KindOf(j) = "deposit", chain' = chain
    PROVE  /\ task[j[1]].snap \in Snaps /\ j[2] \in Modules
           /\ lastStates' = [lastStates EXCEPT ![j[2]] = ContractsState(task[j[1]].snap, j[2])]
           /\ Recorded(task[j[1]].snap, j[2])'
<1> DEFINE s == task[j[1]].snap
           m == j[2]
<1>1. s \in Snaps /\ m \in Modules
  BY JobsFact DEF IInv, ContextsUsable, UsableContext, Remembers, Transmit, Sign, InFlight,
     KindOf
<1>2. lastStates' = [lastStates EXCEPT ![m] = ContractsState(s, m)]
  BY DEF Remembers, Transmit, Sign, Remember
<1>3. IsSameContractsStates(ContractsState(s, m), ContractsState(s, m))
  BY <1>1, StateFact DEF IInv
<1>4. task' = task /\ \A z, n : ContractsState(z, n)' = ContractsState(z, n)
  BY DEF Remembers, Transmit, Sign, ContractsState
<1>5. ASSUME Transmit(j) PROVE Recorded(s, m)'
  <2>1. Message(j) \in bus'
    BY <1>5 DEF Transmit
  <2>2. Message(j).kind = "deposit" /\ Message(j).module = m /\ Message(j).snap = s
    BY DEF Message
  <2> QED BY <1>3, <1>4, <2>1, <2>2 DEF Recorded, Attested
<1>6. ASSUME ~chain[s].guardian PROVE Recorded(s, m)'
  BY <1>1, <1>3, <1>4, <1>6 DEF Recorded, RememberedUnlisted
<1> QED BY <1>1, <1>2, <1>5, <1>6 DEF Remembers

LEMMA StatesStep ==
    ASSUME IInv, StatesRecorded, [Next]_vars PROVE StatesRecorded'
<1>0. chain' = chain /\ \A s, m : Recorded(s, m) => Recorded(s, m)'
  BY RecordsKept DEF IInv
<1>1. CASE UNCHANGED lastStates
  BY <1>0, <1>1 DEF StatesRecorded, ContractsState
<1>2. ASSUME NEW j \in Jobs, Remembers(j), KindOf(j) = "deposit" PROVE StatesRecorded'
  <2>1. /\ task[j[1]].snap \in Snaps /\ j[2] \in Modules
        /\ lastStates' = [lastStates EXCEPT ![j[2]] = ContractsState(task[j[1]].snap, j[2])]
        /\ Recorded(task[j[1]].snap, j[2])'
    BY <1>0, <1>2, RememberRecords
  <2>2. \A z, m : ContractsState(z, m)' = ContractsState(z, m)
    BY <1>0 DEF ContractsState
  <2>3. task' = task
    BY <1>2 DEF Remembers, Transmit, Sign
  <2>4. ASSUME NEW m \in Modules
        PROVE  \/ lastStates'[m] = NoState
               \/ \E z \in Snaps : lastStates'[m] = ContractsState(z, m)' /\ Recorded(z, m)'
    <3>1. CASE m = j[2]
      BY <2>1, <2>2, <2>3, <3>1 DEF IInv, TypeOK
    <3>2. CASE m # j[2]
      <4>1. lastStates'[m] = lastStates[m]
        BY <2>1, <3>2 DEF IInv, TypeOK
      <4> QED BY <1>0, <2>2, <4>1 DEF StatesRecorded
    <3> QED BY <3>1, <3>2
  <2> QED BY <2>4 DEF StatesRecorded
<1>3. \/ UNCHANGED lastStates
      \/ \E j \in Jobs : Remembers(j) /\ KindOf(j) = "deposit"
  BY DEF Next, CycleStep, KeysStep, JobStep, StartCycle, ReadModules, CacheContracts,
     CollectData, ReadVersion, ReadGuardians, ReadBalance, DecidePause, DecideKeys,
     FinishPause, CheckKeys, HandleDeposit, FinishKeys, Sign, Publish, Transmit, JobFails,
     TaskFails, TimesOut, PublishPing, PingFails, TxMined, TxFails, TxTimesOut,
     NewSnapshot, vars, memory, Remember, Remembers
<1> QED BY <1>1, <1>2, <1>3

\* A key task that handles deposits has just begun to, or keeps its block; one of
\* its modules gets done at once, by its message, or was done before.
LEMMA DepositingKept ==
    ASSUME IInv, [Next]_vars, NEW k \in KeyTasks, NEW m \in Modules,
           task'[k].pc = "depositing", job'[<<k, m>>].pc = "done"
    PROVE  /\ task'[k].snap = task[k].snap
           /\ \/ HandleDeposit(k)
              \/ task[k].pc = "depositing" /\ job[<<k, m>>].pc = "done"
              \/ Remembers(<<k, m>>)
<1> USE DEF IInv, TypeOK
<1>0. /\ k \in Tasks /\ k \notin Cycles /\ <<k, m>> \in Jobs /\ m # 0
      /\ <<k, m>>[1] = k /\ <<k, m>>[2] = m
  BY ConstantsAssumption DEF Tasks, Jobs
<1>1. ASSUME NEW c \in Cycles, CycleStep(c)
      PROVE  task'[k] = task[k] /\ job'[<<k, m>>] = job[<<k, m>>]
  <2>1. c # k /\ c \in Tasks
    BY <1>0 DEF Tasks
  <2>2. CASE DecideKeys(c)
    BY <1>0, <2>1, <2>2 DEF DecideKeys, Tasks, TaskType
  <2>3. CASE ~DecideKeys(c)
    BY <1>0, <1>1, <2>1, <2>3 DEF CycleStep, StartCycle, ReadModules, CacheContracts,
       CollectData, ReadVersion, ReadGuardians, ReadBalance, DecidePause, FinishPause
  <2> QED BY <2>2, <2>3
<1>2. ASSUME NEW l \in KeyTasks, KeysStep(l), ~HandleDeposit(k)
      PROVE  task'[k] = task[k] /\ job'[<<k, m>>] = job[<<k, m>>]
  <2>1. CASE CheckKeys(l)
    BY <1>0, <2>1, PauseJob DEF CheckKeys, Tasks, TaskType
  <2>2. CASE HandleDeposit(l)
    BY <1>0, <1>2, <2>2 DEF HandleDeposit, Tasks
  <2>3. CASE FinishKeys(l)
    BY <1>0, <2>3, IdleTyped DEF FinishKeys, Tasks, IdleTask
  <2> QED BY <1>2, <2>1, <2>2, <2>3 DEF KeysStep
<1>3. CASE HandleDeposit(k)
  BY <1>0, <1>3 DEF HandleDeposit, TaskType
<1>4. ASSUME NEW i \in Jobs, JobStep(i)
      PROVE  /\ task'[k] = task[k]
             /\ job'[<<k, m>>].pc = job[<<k, m>>].pc \/ Remembers(<<k, m>>)
  <2>1. task' = task
    BY <1>4 DEF JobStep, Sign, Publish, Transmit
  <2>2. i # <<k, m>> => job'[<<k, m>>] = job[<<k, m>>]
    BY <1>0, <1>4 DEF JobStep, Sign, Publish, Transmit
  <2>3. i = <<k, m>> => Remembers(<<k, m>>)
    BY <1>0, <1>4 DEF JobStep, Sign, Publish, Transmit, Remembers, JobType
  <2> QED BY <2>1, <2>2, <2>3
<1>5. ASSUME NEW i \in Jobs, JobFails(i)
      PROVE  task'[k] = task[k] /\ job'[<<k, m>>] = job[<<k, m>>]
  BY <1>0, <1>5, JobsFact DEF JobFails, IdleJob, TaskType
<1>6. ASSUME NEW t \in Tasks, TaskFails(t) \/ TimesOut(t)
      PROVE  /\ task'[k].pc = task[k].pc /\ task'[k].snap = task[k].snap
             /\ job'[<<k, m>>] = job[<<k, m>>]
  BY <1>0, <1>6 DEF TaskFails, TimesOut, IdleTask, TaskType
<1>7. CASE Surroundings \/ UNCHANGED vars
  BY <1>7 DEF Surroundings, PublishPing, PingFails, TxMined, TxFails, TxTimesOut,
     NewSnapshot, vars
<1> QED BY <1>1, <1>2, <1>3, <1>4, <1>5, <1>6, <1>7 DEF Next, Surroundings

LEMMA DoneStep ==
    ASSUME IInv, StatesRecorded, DoneRecorded, [Next]_vars PROVE DoneRecorded'
<1> SUFFICES ASSUME NEW k \in KeyTasks, NEW m \in Modules,
                    task'[k].pc = "depositing", job'[<<k, m>>].pc = "done"
             PROVE  (IgnoreDeposits(task[k].snap, m) \/ Recorded(task[k].snap, m))'
  BY DEF DoneRecorded
<1> DEFINE s == task[k].snap
<1>0. /\ chain' = chain
      /\ \A z, n : Recorded(z, n) => Recorded(z, n)'
      /\ \A z \in Snaps, n \in Modules : IgnoreDeposits(z, n) => IgnoreDeposits(z, n)'
  BY RecordsKept DEF IInv
<1>1. /\ k \in Tasks /\ <<k, m>> \in Jobs /\ m # 0
      /\ <<k, m>>[1] = k /\ <<k, m>>[2] = m /\ KindOf(<<k, m>>) = "deposit"
  BY ConstantsAssumption DEF Tasks, Jobs, KindOf
<1>2. task'[k].snap = s
  BY DepositingKept
<1>3. CASE HandleDeposit(k)
  <2>1. s \in Snaps
    BY <1>1, <1>3 DEF IInv, ContextsUsable, HandleDeposit
  <2>2. \/ IgnoreDeposits(s, m)
        \/ IsSameContractsStates(ContractsState(s, m), lastStates[m])
    BY <1>1, <1>3 DEF HandleDeposit, NewJob, IdleJob, DoneJob
  <2>3. ASSUME IsSameContractsStates(ContractsState(s, m), lastStates[m])
        PROVE  Recorded(s, m)
    <3>1. lastStates[m] # NoState
      BY <2>3 DEF IsSameContractsStates
    <3>2. PICK z \in Snaps : lastStates[m] = ContractsState(z, m) /\ Recorded(z, m)
      BY <3>1 DEF StatesRecorded
    <3> QED BY <2>3, <3>2, RecordedOfSame
  <2> QED BY <1>0, <1>2, <2>1, <2>2, <2>3 DEF IgnoreDeposits, IsPaused, Recorded
<1>4. CASE task[k].pc = "depositing" /\ job[<<k, m>>].pc = "done"
  <2>1. s \in Snaps /\ (IgnoreDeposits(s, m) \/ Recorded(s, m))
    BY <1>1, <1>4 DEF IInv, ContextsUsable, DoneRecorded
  <2> QED BY <1>0, <1>2, <2>1
<1>5. CASE Remembers(<<k, m>>)
  BY <1>0, <1>1, <1>2, <1>5, RememberRecords
<1> QED BY <1>3, <1>4, <1>5, DepositingKept

\* A block becomes the last processed one only with all its modules done.
LEMMA ProcessedStep ==
    ASSUME IInv, DoneRecorded, ProcessedMeansAttested, [Next]_vars
    PROVE  ProcessedMeansAttested'
<1>0. /\ \A z, n : Recorded(z, n) => Recorded(z, n)'
      /\ \A z \in Snaps, n \in Modules : IgnoreDeposits(z, n) => IgnoreDeposits(z, n)'
  BY RecordsKept DEF IInv
<1>1. CASE UNCHANGED lastMeta
  <2> SUFFICES ASSUME lastMeta # 0, NEW m \in Modules
               PROVE  (IgnoreDeposits(lastMeta, m) \/ Recorded(lastMeta, m))'
    BY <1>1 DEF ProcessedMeansAttested, Recorded
  <2>1. lastMeta \in Snaps /\ (IgnoreDeposits(lastMeta, m) \/ Recorded(lastMeta, m))
    BY DEF ProcessedMeansAttested, Recorded, IInv, TypeOK
  <2> QED BY <1>0, <1>1, <2>1
<1>2. ASSUME NEW k \in KeyTasks, FinishKeys(k) PROVE ProcessedMeansAttested'
  <2> SUFFICES ASSUME NEW m \in Modules
               PROVE  (IgnoreDeposits(lastMeta, m) \/ Recorded(lastMeta, m))'
    BY DEF ProcessedMeansAttested, Recorded
  <2>1. <<k, m>> \in JobsOf(k) /\ k \in Tasks
    BY DEF JobsOf, Jobs, Tasks
  <2>2. task[k].pc = "depositing" /\ job[<<k, m>>].pc = "done" /\ lastMeta' = task[k].snap
    BY <1>2, <2>1 DEF FinishKeys, AllDone
  <2>3. /\ task[k].snap \in Snaps
        /\ IgnoreDeposits(task[k].snap, m) \/ Recorded(task[k].snap, m)
    BY <2>1, <2>2 DEF DoneRecorded, IInv, ContextsUsable
  <2> QED BY <1>0, <2>2, <2>3
<1>3. UNCHANGED lastMeta \/ \E k \in KeyTasks : FinishKeys(k)
  BY DEF Next, CycleStep, KeysStep, JobStep, StartCycle, ReadModules, CacheContracts,
     CollectData, ReadVersion, ReadGuardians, ReadBalance, DecidePause, DecideKeys,
     FinishPause, CheckKeys, HandleDeposit, Sign, Publish, Transmit, JobFails,
     TaskFails, TimesOut, PublishPing, PingFails, TxMined, TxFails, TxTimesOut,
     NewSnapshot, vars, memory
<1> QED BY <1>1, <1>2, <1>3

\* A processed block left no open module without an attestation of its state,
\* whatever was dropped, failed, timed out or overtaken on the way
\* (guardian.service.ts:320-344).
THEOREM ProcessedAttested == Spec => []ProcessedMeansAttested
<1>1. Init => StatesRecorded /\ DoneRecorded /\ ProcessedMeansAttested
  BY DEF Init, StatesRecorded, DoneRecorded, ProcessedMeansAttested, IdleTask, Tasks
<1>2. IInv /\ StatesRecorded /\ DoneRecorded /\ ProcessedMeansAttested /\ [Next]_vars =>
        (StatesRecorded /\ DoneRecorded /\ ProcessedMeansAttested)'
  BY StatesStep, DoneStep, ProcessedStep
<1> QED BY <1>1, <1>2, Inductive, PTL DEF Spec

-----------------------------------------------------------------------------
(* Cycles that end before their timeout: one at a time                       *)

\* OneAtTime gives up no cycle.  Key tasks and transactions may time out.
CyclesInTime == \A c \in Cycles : ~TimesOut(c)

OneCycle ==
    /\ \A c \in Cycles : task[c].live <=> task[c].pc # "idle"
    /\ \A c, d \in Cycles : task[c].live /\ task[d].live => c = d

LEMMA OneCycleStep ==
    ASSUME IInv, OneCycle, [Next]_vars, [CyclesInTime]_vars PROVE OneCycle'
<1> USE DEF IInv, TypeOK
<1>0. \A c \in Cycles : c \in Tasks /\ c \notin KeyTasks
  BY ConstantsAssumption DEF Tasks
<1>1. ASSUME NEW c \in Cycles, StartCycle(c) PROVE OneCycle'
  BY <1>0, <1>1 DEF StartCycle, Busy, OneCycle, IdleTask
<1>2. ASSUME NEW c \in Cycles,
             \A d \in Cycles \ {c} : task'[d] = task[d],
             \/ task'[c].live = task[c].live /\ task'[c].pc # "idle" /\ task[c].pc # "idle"
             \/ ~task'[c].live /\ task'[c].pc = "idle"
      PROVE  OneCycle'
  BY <1>2 DEF OneCycle
<1>3. ASSUME NEW c \in Cycles, CycleStep(c), ~StartCycle(c) PROVE OneCycle'
  <2>1. \A d \in Cycles \ {c} : task'[d] = task[d]
    BY <1>0, <1>3 DEF CycleStep, ReadModules, CacheContracts, CollectData, ReadVersion,
       ReadGuardians, ReadBalance, DecidePause, DecideKeys, FinishPause
  <2>2. \/ task'[c].live = task[c].live /\ task'[c].pc # "idle" /\ task[c].pc # "idle"
        \/ ~task'[c].live /\ task'[c].pc = "idle"
    <3>1. CASE ReadModules(c)
      <4>1. task[c].pc = "modules" /\ task[c] \in TaskType
        BY <1>0, <3>1 DEF ReadModules
      <4>2. PICK s \in Snaps :
              task' = [task EXCEPT ![c] = IF IsNeedToProcessNewState(s)
                                          THEN [@ EXCEPT !.pc = "contracts", !.snap = s]
                                          ELSE IdleTask]
        BY <3>1 DEF ReadModules
      <4>3. \/ task'[c] = IdleTask
            \/ task'[c] = [task[c] EXCEPT !.pc = "contracts", !.snap = s]
        BY <1>0, <4>2
      <4>4. CASE task'[c] = IdleTask
        BY <4>4 DEF IdleTask
      <4>5. CASE task'[c] = [task[c] EXCEPT !.pc = "contracts", !.snap = s]
        BY <4>1, <4>5 DEF TaskType
      <4> QED BY <4>3, <4>4, <4>5
    <3>2. CASE CacheContracts(c) \/ CollectData(c) \/ ReadVersion(c) \/ ReadBalance(c)
               \/ DecidePause(c)
      BY <1>0, <3>2 DEF CacheContracts, CollectData, ReadVersion, ReadBalance, DecidePause,
         TaskType
    <3>3. CASE ReadGuardians(c)
      <4>1. /\ task[c].pc = "guardians" /\ task[c] \in TaskType
            /\ task'[c] = IdleTask \/ task'[c] = [task[c] EXCEPT !.pc = "balance"]
        BY <1>0, <3>3 DEF ReadGuardians
      <4> QED BY <4>1 DEF IdleTask, TaskType
    <3>4. CASE DecideKeys(c)
      BY <1>0, <3>4 DEF DecideKeys, IdleTask
    <3>5. CASE FinishPause(c)
      BY <1>0, <3>5 DEF FinishPause, IdleTask
    <3> QED BY <1>3, <3>1, <3>2, <3>3, <3>4, <3>5 DEF CycleStep
  <2> QED BY <1>2, <2>1, <2>2
<1>4. ASSUME NEW j \in Jobs, JobFails(j) PROVE OneCycle'
  <2>1. CASE j[1] \in Cycles
    <3>1. \A d \in Cycles \ {j[1]} : task'[d] = task[d]
      BY <1>0, <1>4 DEF JobFails
    <3>2. ~task'[j[1]].live /\ task'[j[1]].pc = "idle"
      BY <1>0, <1>4, <2>1 DEF JobFails, TaskType
    <3> QED BY <1>2, <2>1, <3>1, <3>2
  <2>2. CASE j[1] \notin Cycles
    <3>1. \A d \in Cycles : task'[d] = task[d]
      BY <1>0, <1>4, <2>2 DEF JobFails
    <3> QED BY <3>1 DEF OneCycle
  <2> QED BY <2>1, <2>2
<1>5. ASSUME NEW t \in Tasks, TaskFails(t) PROVE OneCycle'
  <2>1. CASE t \in Cycles
    <3>1. \A d \in Cycles \ {t} : task'[d] = task[d]
      BY <1>0, <1>5 DEF TaskFails
    <3>2. ~task'[t].live /\ task'[t].pc = "idle"
      BY <1>5 DEF TaskFails, IdleTask
    <3> QED BY <1>2, <2>1, <3>1, <3>2
  <2>2. CASE t \notin Cycles
    <3>1. \A d \in Cycles : task'[d] = task[d]
      BY <1>0, <1>5, <2>2 DEF TaskFails
    <3> QED BY <3>1 DEF OneCycle
  <2> QED BY <2>1, <2>2
<1>6. ASSUME NEW t \in Tasks, TimesOut(t) PROVE OneCycle'
  <2>1. task' # task
    BY <1>6 DEF TimesOut, TaskType
  <2>2. t \notin Cycles
    BY <1>6, <2>1 DEF CyclesInTime, vars
  <2>3. \A d \in Cycles : task'[d] = task[d]
    BY <1>0, <1>6, <2>2 DEF TimesOut
  <2> QED BY <2>3 DEF OneCycle
<1>7. ASSUME \A d \in Cycles : task'[d] = task[d] PROVE OneCycle'
  BY <1>7 DEF OneCycle
<1>8. ASSUME NEW k \in KeyTasks, KeysStep(k) PROVE \A d \in Cycles : task'[d] = task[d]
  BY <1>0, <1>8 DEF KeysStep, CheckKeys, HandleDeposit, FinishKeys
<1>9. CASE Surroundings \/ (\E j \in Jobs : JobStep(j)) \/ UNCHANGED vars
  <2>1. task' = task
    BY <1>9 DEF Surroundings, PublishPing, PingFails, TxMined, TxFails, TxTimesOut,
       NewSnapshot, JobStep, Sign, Publish, Transmit, vars
  <2> QED BY <1>7, <2>1
<1> QED BY <1>1, <1>3, <1>4, <1>5, <1>6, <1>7, <1>8, <1>9 DEF Next, Surroundings

-----------------------------------------------------------------------------
(* The DSM a cycle works with is that of its block                           *)

Cached   == {"deposits", "version", "guardians", "balance", "decide", "pausing"}
WithDsm  == {"version", "guardians", "balance", "decide", "pausing",
             "checking", "unvetting", "depositing"}

OwnDsm(t) == task[t].dsm = chain[task[t].snap].dsm

\* What a cycle cached stays until it is over; so its context, the context of the
\* key task it starts, and the prefix of its pause are those of its own block.
OwnDsms ==
    /\ \A c \in Cycles : task[c].pc \in Cached => cachedDsm = chain[task[c].snap].dsm
    /\ \A t \in Tasks : task[t].pc \in WithDsm => OwnDsm(t)
    /\ \A j \in Jobs : InFlight(j) => OwnDsm(j[1])
    /\ \A c \in Cycles : InFlight(<<c, 0>>) =>
          /\ task[c].pc = "pausing"
          /\ job[<<c, 0>>].prefix = chain[task[c].snap].dsm

LEMMA OwnDsmsCycle ==
    ASSUME IInv, OneCycle, OwnDsms, NEW c \in Cycles, CycleStep(c), chain' = chain
    PROVE  OwnDsms'
<1> USE DEF IInv, TypeOK
<1>0. /\ c \in Tasks /\ <<c, 0>> \in Jobs
      /\ \A d \in Cycles : d \in Tasks /\ d \notin KeyTasks
      /\ \A k \in KeyTasks : k \in Tasks /\ k # c
  BY PauseJob, ConstantsAssumption DEF Tasks
<1>a. \A d \in Cycles : <<d, 0>> \in Jobs /\ <<d, 0>>[1] = d
  BY <1>0, PauseJob
<1>b. task[c].pc # "idle" => \A d \in Cycles \ {c} : task[d].pc = "idle"
  BY DEF OneCycle
\* A step of one cycle that starts no job.
<1>1. ASSUME \A t \in Tasks \ {c} : task'[t] = task[t],
             \A j \in Jobs : InFlight(j)' => j[1] # c /\ InFlight(j) /\ job'[j] = job[j],
             cachedDsm' = cachedDsm \/ task[c].pc = "contracts",
             task'[c].pc \in Cached => cachedDsm' = chain[task'[c].snap].dsm,
             task'[c].pc \in WithDsm => OwnDsm(c)'
      PROVE  OwnDsms'
  <2>1. ASSUME NEW d \in Cycles, task'[d].pc \in Cached
        PROVE  cachedDsm' = chain'[task'[d].snap].dsm
    <3>1. CASE d = c
      BY <1>1, <2>1, <3>1
    <3>2. CASE d # c
      <4>1. task'[d] = task[d] /\ task[d].pc # "idle"
        BY <1>0, <1>1, <2>1, <3>2 DEF Cached
      <4> QED BY <1>1, <1>b, <2>1, <3>2, <4>1 DEF OwnDsms
    <3> QED BY <3>1, <3>2
  <2>2. ASSUME NEW t \in Tasks, task'[t].pc \in WithDsm PROVE OwnDsm(t)'
    BY <1>1, <2>2 DEF OwnDsms, OwnDsm
  <2>3. ASSUME NEW j \in Jobs, InFlight(j)' PROVE OwnDsm(j[1])'
    BY <1>1, <2>3, JobsFact DEF OwnDsms, OwnDsm
  <2>4. ASSUME NEW d \in Cycles, InFlight(<<d, 0>>)'
        PROVE  task'[d].pc = "pausing" /\ job'[<<d, 0>>].prefix = chain'[task'[d].snap].dsm
    <3>1. d # c /\ InFlight(<<d, 0>>) /\ job'[<<d, 0>>] = job[<<d, 0>>]
      BY <1>1, <1>a, <2>4
    <3>2. task'[d] = task[d]
      BY <1>0, <1>1, <3>1
    <3> QED BY <3>1, <3>2 DEF OwnDsms
  <2> QED BY <2>1, <2>2, <2>3, <2>4 DEF OwnDsms
<1>2. CASE StartCycle(c)
  <2>1. task'[c].pc = "modules"
    BY <1>0, <1>2 DEF StartCycle
  <2> QED BY <1>0, <1>1, <1>2, <2>1 DEF StartCycle, Free, JobsOf, InFlight, Cached, WithDsm
<1>3. ASSUME \A t \in Tasks \ {c} : task'[t] = task[t], job' = job,
             task[c].pc \in Opening,
             cachedDsm' = cachedDsm \/ task[c].pc = "contracts",
             task'[c].pc \in Cached => cachedDsm' = chain[task'[c].snap].dsm,
             task'[c].pc \in WithDsm => OwnDsm(c)'
      PROVE  OwnDsms'
  BY <1>0, <1>1, <1>3 DEF NothingEarly, InFlight
<1>4. CASE ReadModules(c)
  <2>1. task'[c].pc \in {"contracts", "idle"}
    BY <1>0, <1>4 DEF ReadModules, IdleTask, TaskType
  <2> QED BY <1>0, <1>3, <1>4, <2>1 DEF ReadModules, Opening, Cached, WithDsm
<1>5. CASE CacheContracts(c)
  <2>1. task'[c].pc = "deposits" /\ task'[c].snap = task[c].snap
    BY <1>0, <1>5 DEF CacheContracts, TaskType
  <2> QED BY <1>0, <1>3, <1>5, <2>1 DEF CacheContracts, Opening, WithDsm
<1>6. CASE CollectData(c)
  <2>1. task'[c].pc = "version" /\ task'[c].snap = task[c].snap /\ task'[c].dsm = cachedDsm
    BY <1>0, <1>6 DEF CollectData, TaskType
  <2>2. cachedDsm = chain[task[c].snap].dsm
    BY <1>6 DEF CollectData, OwnDsms, Cached
  <2> QED BY <1>0, <1>3, <1>6, <2>1, <2>2 DEF CollectData, Opening, OwnDsm
<1>7. CASE ReadVersion(c) \/ ReadGuardians(c) \/ ReadBalance(c)
  <2>1. /\ task[c].pc \in {"version", "guardians", "balance"}
        /\ task'[c].pc \in {"guardians", "balance", "decide", "idle"}
        /\ task'[c].pc # "idle" => task'[c].snap = task[c].snap /\ task'[c].dsm = task[c].dsm
    BY <1>0, <1>7 DEF ReadVersion, ReadGuardians, ReadBalance, IdleTask, TaskType
  <2>2. /\ \A t \in Tasks \ {c} : task'[t] = task[t]
        /\ job' = job /\ cachedDsm' = cachedDsm
    BY <1>0, <1>7 DEF ReadVersion, ReadGuardians, ReadBalance
  <2>3. cachedDsm = chain[task[c].snap].dsm /\ OwnDsm(c)
    BY <1>0, <2>1 DEF OwnDsms, Cached, WithDsm
  <2> QED BY <1>3, <2>1, <2>2, <2>3 DEF Opening, OwnDsm, Cached, WithDsm
<1>8. CASE DecidePause(c)
  <2>1. /\ task[c].pc = "decide" /\ task'[c].pc = "pausing"
        /\ task'[c].snap = task[c].snap /\ task'[c].dsm = task[c].dsm
        /\ \A t \in Tasks \ {c} : task'[t] = task[t]
        /\ cachedDsm' = cachedDsm
        /\ job'[<<c, 0>>] = NewJob
        /\ \A j \in Jobs \ {<<c, 0>>} : job'[j] = job[j]
    BY <1>0, <1>8 DEF DecidePause, TaskType
  <2>2. cachedDsm = chain[task[c].snap].dsm /\ OwnDsm(c)
    BY <1>0, <2>1 DEF OwnDsms, Cached, WithDsm
  <2>3. \A t \in Tasks : OwnDsm(t) => OwnDsm(t)'
    BY <2>1 DEF OwnDsm
  <2>4. ASSUME NEW j \in Jobs, InFlight(j)' PROVE OwnDsm(j[1])'
    <3>1. CASE j[1] = c
      BY <2>2, <2>3, <3>1, <1>0
    <3>2. CASE j[1] # c
      <4>1. InFlight(j)
        BY <1>a, <2>1, <2>4, <3>2 DEF InFlight
      <4> QED BY <2>3, <4>1, JobsFact DEF OwnDsms
    <3> QED BY <3>1, <3>2
  <2>5. ASSUME NEW d \in Cycles, InFlight(<<d, 0>>)'
        PROVE  task'[d].pc = "pausing" /\ job'[<<d, 0>>].prefix = chain'[task'[d].snap].dsm
    <3>1. CASE d = c
      BY <2>1, <2>2, <3>1 DEF NewJob, IdleJob
    <3>2. CASE d # c
      <4>1. job'[<<d, 0>>] = job[<<d, 0>>] /\ task'[d] = task[d]
        BY <1>0, <1>a, <2>1, <3>2
      <4> QED BY <2>5, <4>1 DEF OwnDsms, InFlight
    <3> QED BY <3>1, <3>2
  <2>6. ASSUME NEW d \in Cycles, task'[d].pc \in Cached
        PROVE  cachedDsm' = chain'[task'[d].snap].dsm
    BY <1>0, <2>1, <2>2, <2>6 DEF OwnDsms
  <2>7. ASSUME NEW t \in Tasks, task'[t].pc \in WithDsm PROVE OwnDsm(t)'
    BY <2>1, <2>2, <2>3, <2>7 DEF OwnDsms
  <2> QED BY <2>4, <2>5, <2>6, <2>7 DEF OwnDsms
<1>9. CASE DecideKeys(c)
  <2>1. ASSUME NEW k \in KeyTasks, Free(k),
               task' = [task EXCEPT ![c] = IdleTask,
                                    ![k] = [task[c] EXCEPT !.pc = "checking", !.live = TRUE]],
               job' = [j \in Jobs |-> IF j[1] = k THEN IdleJob ELSE job[j]]
        PROVE  OwnDsms'
    <3>1. /\ task'[c].pc = "idle"
          /\ task'[k].snap = task[c].snap /\ task'[k].dsm = task[c].dsm
          /\ \A t \in Tasks \ {c, k} : task'[t] = task[t]
      BY <1>0, <2>1 DEF TaskType, IdleTask
    <3>2. OwnDsm(k)'
      BY <1>0, <1>9, <3>1 DEF OwnDsms, WithDsm, DecideKeys, OwnDsm
    <3>3. \A j \in Jobs : InFlight(j)' => InFlight(j) /\ j[1] \notin {c, k} /\ job'[j] = job[j]
      BY <1>0, <1>9, <2>1 DEF NothingEarly, Opening, DecideKeys, InFlight, IdleJob
    <3>4. cachedDsm' = cachedDsm
      BY <1>9 DEF DecideKeys
    <3>5. ASSUME NEW d \in Cycles
          PROVE  /\ task'[d].pc \in Cached => cachedDsm' = chain'[task'[d].snap].dsm
                 /\ InFlight(<<d, 0>>)' =>
                      /\ task'[d].pc = "pausing"
                      /\ job'[<<d, 0>>].prefix = chain'[task'[d].snap].dsm
      <4>1. d # k /\ (d # c => task'[d] = task[d])
        BY <1>0, <3>1
      <4> QED BY <1>0, <1>a, <3>1, <3>3, <3>4, <4>1 DEF OwnDsms, Cached
    <3>6. ASSUME NEW t \in Tasks, task'[t].pc \in WithDsm PROVE OwnDsm(t)'
      BY <3>1, <3>2, <3>6 DEF OwnDsms, OwnDsm, WithDsm
    <3>7. ASSUME NEW j \in Jobs, InFlight(j)' PROVE OwnDsm(j[1])'
      BY <3>1, <3>3, <3>7, JobsFact DEF OwnDsms, OwnDsm
    <3> QED BY <3>5, <3>6, <3>7 DEF OwnDsms
  <2>2. CASE task' = [task EXCEPT ![c] = IdleTask] /\ UNCHANGED job
    BY <1>0, <1>3, <1>9, <2>2 DEF DecideKeys, Opening, IdleTask, Cached, WithDsm
  <2> QED BY <1>9, <2>1, <2>2 DEF DecideKeys
<1>10. CASE FinishPause(c)
  <2>1. /\ task'[c].pc = "idle"
        /\ \A t \in Tasks \ {c} : task'[t] = task[t]
        /\ cachedDsm' = cachedDsm
    BY <1>0, <1>10 DEF FinishPause, IdleTask
  <2>2. \A j \in Jobs : InFlight(j)' => j[1] # c /\ InFlight(j) /\ job'[j] = job[j]
    BY <1>0, <1>10 DEF FinishPause, InFlight, IdleJob, Jobs
  <2> QED BY <1>1, <2>1, <2>2 DEF Cached, WithDsm
<1> QED BY <1>2, <1>4, <1>5, <1>6, <1>7, <1>8, <1>9, <1>10 DEF CycleStep

LEMMA OwnDsmsOther ==
    ASSUME IInv, OwnDsms, chain' = chain,
           \/ \E k \in KeyTasks : KeysStep(k)
           \/ \E j \in Jobs : JobStep(j) \/ JobFails(j)
           \/ \E t \in Tasks : TaskFails(t) \/ TimesOut(t)
           \/ Surroundings
           \/ UNCHANGED vars
    PROVE  OwnDsms'
<1> USE DEF IInv, TypeOK
<1>0. \A c \in Cycles : /\ c \in Tasks /\ c \notin KeyTasks
                        /\ <<c, 0>> \in Jobs /\ <<c, 0>>[1] = c
  BY PauseJob, ConstantsAssumption DEF Tasks
\* No step here caches a contract, binds a context or starts the job of a cycle.
<1>1. ASSUME cachedDsm' = cachedDsm,
             \A t \in Tasks : /\ task'[t].pc \in WithDsm \cup Cached =>
                                   /\ SameContext(t) /\ task[t].pc \in WithDsm \cup Cached
                                   /\ task'[t].pc \in WithDsm => task[t].pc \in WithDsm
                              /\ t \in Cycles /\ task'[t].pc \in Cached => task'[t].pc = task[t].pc,
             \A j \in Jobs : InFlight(j)' =>
                 /\ SameContext(j[1])
                 /\ InFlight(j) \/ task[j[1]].pc \in WithDsm
                 /\ j[1] \in Cycles => /\ InFlight(j) /\ job'[j].prefix = job[j].prefix
                                       /\ task'[j[1]].pc = task[j[1]].pc
      PROVE  OwnDsms'
  <2>1. ASSUME NEW c \in Cycles
        PROVE  /\ task'[c].pc \in Cached => cachedDsm' = chain'[task'[c].snap].dsm
               /\ InFlight(<<c, 0>>)' =>
                    /\ task'[c].pc = "pausing"
                    /\ job'[<<c, 0>>].prefix = chain'[task'[c].snap].dsm
    BY <1>0, <1>1 DEF OwnDsms, SameContext
  <2>2. ASSUME NEW t \in Tasks, task'[t].pc \in WithDsm PROVE OwnDsm(t)'
    BY <1>1, <2>2 DEF OwnDsms, OwnDsm, SameContext
  <2>3. ASSUME NEW j \in Jobs, InFlight(j)' PROVE OwnDsm(j[1])'
    BY <1>1, <2>3, JobsFact DEF OwnDsms, OwnDsm, SameContext
  <2> QED BY <2>1, <2>2, <2>3 DEF OwnDsms
<1>2. ASSUME NEW k \in KeyTasks, KeysStep(k) PROVE OwnDsms'
  <2>0. k \in Tasks /\ k \notin Cycles
    BY ConstantsAssumption DEF Tasks
  <2>1. /\ cachedDsm' = cachedDsm
        /\ \A t \in Tasks \ {k} : task'[t] = task[t]
        /\ \A j \in Jobs : j[1] # k => job'[j] = job[j]
    BY <1>2, <2>0, PauseJob DEF KeysStep, CheckKeys, HandleDeposit, FinishKeys
  <2>2. CASE FinishKeys(k)
    <3>1. task'[k].pc = "idle" /\ \A j \in Jobs : j[1] = k => ~InFlight(j)'
      BY <2>0, <2>2 DEF FinishKeys, InFlight, IdleTask, IdleJob
    <3> QED BY <1>1, <2>0, <2>1, <3>1, JobsFact DEF SameContext, InFlight, WithDsm, Cached
  <2>3. CASE CheckKeys(k) \/ HandleDeposit(k)
    <3>1. /\ SameContext(k) /\ task[k].pc \in WithDsm
          /\ task'[k].pc \in WithDsm /\ task'[k].pc \notin Cached
      BY <2>0, <2>3 DEF CheckKeys, HandleDeposit, SameContext, TaskType, WithDsm, Cached
    <3> QED BY <1>1, <2>0, <2>1, <3>1, JobsFact DEF SameContext, InFlight
  <2> QED BY <1>2, <2>2, <2>3 DEF KeysStep
<1>3. ASSUME NEW i \in Jobs, JobStep(i) PROVE OwnDsms'
  <2>1. /\ task' = task /\ cachedDsm' = cachedDsm
        /\ \A j \in Jobs \ {i} : job'[j] = job[j]
    BY <1>3 DEF JobStep, Sign, Publish, Transmit
  <2>2. InFlight(i) /\ (InFlight(i)' => job'[i].prefix = job[i].prefix)
    BY <1>3 DEF JobStep, Sign, Publish, Transmit, InFlight, DoneJob, IdleJob, JobType
  <2> QED BY <1>1, <2>1, <2>2 DEF SameContext, InFlight
<1>4. ASSUME NEW i \in Jobs, JobFails(i) PROVE OwnDsms'
  <2>0. i[1] \in Tasks
    BY JobsFact
  <2>1. /\ cachedDsm' = cachedDsm /\ ~InFlight(i)'
        /\ \A t \in Tasks \ {i[1]} : task'[t] = task[t]
        /\ SameContext(i[1]) /\ task'[i[1]].pc = "idle"
        /\ \A j \in Jobs \ {i} : job'[j] = job[j]
    BY <1>4, <2>0 DEF JobFails, InFlight, IdleJob, SameContext, TaskType
  <2>2. i[1] \in Cycles => \A j \in Jobs : j[1] = i[1] => j = i
    BY ConstantsAssumption DEF Jobs
  <2> QED BY <1>1, <2>0, <2>1, <2>2, JobsFact DEF SameContext, InFlight, WithDsm, Cached
<1>5. ASSUME NEW t \in Tasks, TaskFails(t) PROVE OwnDsms'
  <2>1. \A j \in Jobs : j[1] = t => ~InFlight(j)
    <3>1. task[t].pc \in Opening
      BY <1>5 DEF TaskFails, TaskType, TaskPcs, Opening
    <3> QED BY <3>1 DEF NothingEarly
  <2>2. /\ cachedDsm' = cachedDsm /\ job' = job
        /\ \A u \in Tasks \ {t} : task'[u] = task[u]
        /\ task'[t].pc = "idle"
    BY <1>5 DEF TaskFails, IdleTask
  <2> QED BY <1>1, <2>1, <2>2, JobsFact DEF SameContext, InFlight, WithDsm, Cached
<1>6. ASSUME NEW t \in Tasks, TimesOut(t) PROVE OwnDsms'
  <2>1. /\ cachedDsm' = cachedDsm /\ job' = job
        /\ \A u \in Tasks : SameContext(u) /\ task'[u].pc = task[u].pc
    BY <1>6 DEF TimesOut, SameContext, TaskType
  <2> QED BY <1>1, <2>1, JobsFact DEF InFlight
<1>7. CASE Surroundings \/ UNCHANGED vars
  <2>1. task' = task /\ job' = job /\ cachedDsm' = cachedDsm
    BY <1>7 DEF Surroundings, PublishPing, PingFails, TxMined, TxFails, TxTimesOut,
        NewSnapshot, vars
  <2> QED BY <1>1, <2>1 DEF SameContext, InFlight
<1> QED BY <1>2, <1>3, <1>4, <1>5, <1>6, <1>7

LEMMA OwnDsmsStep ==
    ASSUME IInv, OneCycle, OwnDsms, [Next]_vars PROVE OwnDsms'
<1>1. chain' = chain
  BY RecordsKept DEF IInv
<1> QED BY <1>1, OwnDsmsCycle, OwnDsmsOther DEF Next, Surroundings

\* The layouts of the two versions differ in length.
LEMMA LayoutsDiffer ==
    ASSUME NEW kind \in {"deposit", "pause", "unvet"},
           NEW p, NEW q, NEW s, NEW m, NEW n
    PROVE  v4Digest(kind, p, s, m) # v5Digest(kind, q, s, n)
<1>1. CASE kind = "deposit"
  BY <1>1 DEF v4Digest, v5Digest
<1>2. CASE kind = "pause"
  BY <1>2 DEF v4Digest, v5Digest
<1>3. CASE kind = "unvet"
  BY <1>3 DEF v4Digest, v5Digest
<1> QED BY <1>1, <1>2, <1>3

\* A digest tells the version it was made for and the contract its prefix is of.
LEMMA DigestTells ==
    ASSUME NEW kind \in {"deposit", "pause", "unvet"},
           NEW d, NEW p, NEW e, NEW q, NEW s, NEW m,
           Digest(kind, d, p, s, m) = Digest(kind, e, q, s, m)
    PROVE  p = q /\ (IsV5(d) <=> IsV5(e))
<1>1. IsV5(d) <=> IsV5(e)
  <2>1. CASE IsV5(d) /\ ~IsV5(e)
    BY <2>1, LayoutsDiffer DEF Digest
  <2>2. CASE ~IsV5(d) /\ IsV5(e)
    BY <2>2, LayoutsDiffer DEF Digest
  <2> QED BY <2>1, <2>2
<1>2. v4Digest(kind, p, s, m)[1] = p /\ v4Digest(kind, q, s, m)[1] = q
  <2>1. CASE kind = "deposit"
    BY <2>1 DEF v4Digest
  <2>2. CASE kind = "pause"
    BY <2>2 DEF v4Digest
  <2>3. CASE kind = "unvet"
    BY <2>3 DEF v4Digest
  <2> QED BY <2>1, <2>2, <2>3
<1>3. v5Digest(kind, p, s, m)[1] = p /\ v5Digest(kind, q, s, m)[1] = q
  <2>1. CASE kind = "deposit"
    BY <2>1 DEF v4Digest, v5Digest
  <2>2. CASE kind = "pause"
    BY <2>2 DEF v4Digest, v5Digest
  <2>3. CASE kind = "unvet"
    BY <2>3 DEF v4Digest, v5Digest
  <2> QED BY <2>1, <2>2, <2>3
<1> QED BY <1>1, <1>2, <1>3 DEF Digest

\* The messages and transactions that have left.
BusOwn ==
    \A b \in bus : b.kind # "ping" =>
        /\ b.kind \in {"deposit", "pause", "unvet"}
        /\ b.snap \in Snaps /\ b.dsm = chain[b.snap].dsm
        /\ \E p : b.digest = Digest(b.kind, b.dsm, p, b.snap, b.module)
        /\ b.kind = "pause" =>
             b.digest = Digest(b.kind, b.dsm, b.dsm, b.snap, b.module)

TxsOwn ==
    \A x \in txs : /\ {"kind", "target", "snap"} \subseteq DOMAIN x
                   /\ x.kind = "pause" => x.target = chain[x.snap].dsm

LEMMA BusOwnStep ==
    ASSUME IInv, OwnDsms, BusOwn, [Next]_vars PROVE BusOwn'
<1>0. chain' = chain
  BY RecordsKept DEF IInv
<1>d. \A kind, dsm, p, s, m : Digest(kind, dsm, p, s, m)' = Digest(kind, dsm, p, s, m)
  BY <1>0 DEF Digest, v4Digest, v5Digest
<1>1. ASSUME NEW j \in Jobs, Transmit(j), NEW b, b = Message(j)
      PROVE  /\ b.kind \in {"deposit", "pause", "unvet"}
             /\ b.snap \in Snaps /\ b.dsm = chain[b.snap].dsm
             /\ \E p : b.digest = Digest(b.kind, b.dsm, p, b.snap, b.module)
             /\ b.kind = "pause" =>
                  b.digest = Digest(b.kind, b.dsm, b.dsm, b.snap, b.module)
  <2> DEFINE t == task[j[1]]
  <2>1. /\ b.kind = KindOf(j) /\ b.snap = t.snap /\ b.dsm = t.dsm
        /\ b.digest = signData(j, b.module)
    BY <1>1 DEF Message
  <2>2. InFlight(j)
    BY <1>1 DEF Transmit, InFlight
  <2>3. t.snap \in Snaps /\ t.dsm = chain[t.snap].dsm
    BY <2>2 DEF IInv, ContextsUsable, UsableContext, OwnDsms, OwnDsm
  <2>4. b.digest = Digest(b.kind, b.dsm, job[j].prefix, b.snap, b.module)
    BY <2>1 DEF signData
  <2>5. KindOf(j) = "pause" => job[j].prefix = t.dsm
    <3>1. KindOf(j) = "pause" => j[1] \in Cycles /\ j = <<j[1], 0>>
      BY ConstantsAssumption DEF KindOf, Jobs
    <3> QED BY <2>2, <2>3, <3>1 DEF OwnDsms
  <2>6. KindOf(j) \in {"deposit", "pause", "unvet"}
    BY DEF KindOf
  <2> QED BY <2>1, <2>3, <2>4, <2>5, <2>6
<1>2. ASSUME NEW b \in bus', b.kind # "ping"
      PROVE  b \in bus \/ \E j \in Jobs : Transmit(j) /\ b = Message(j)
  BY <1>2, WhoSends
<1> QED BY <1>0, <1>1, <1>2, <1>d DEF BusOwn

LEMMA TxsOwnStep ==
    ASSUME IInv, OwnDsms, TxsOwn, [Next]_vars PROVE TxsOwn'
<1>0. chain' = chain
  BY RecordsKept DEF IInv
<1>1. ASSUME NEW j \in Jobs, Sign(j), NEW x \in txs', x \notin txs
      PROVE  /\ {"kind", "target", "snap"} \subseteq DOMAIN x
             /\ x.kind = "pause" => x.target = chain[x.snap].dsm
  <2>1. /\ x.kind = KindOf(j) /\ x.snap = task[j[1]].snap /\ x.target = TxTarget(j[1])
        /\ {"kind", "target", "snap"} \subseteq DOMAIN x
    BY <1>1 DEF Sign, SendTx
  <2>2. ASSUME KindOf(j) = "pause" PROVE x.target = chain[task[j[1]].snap].dsm
    <3>1. j[1] \in Cycles /\ j = <<j[1], 0>> /\ InFlight(j)
      BY <1>1, <2>2, ConstantsAssumption DEF KindOf, Jobs, Sign, InFlight
    <3>2. task[j[1]].pc = "pausing" /\ OwnDsm(j[1])
      BY <3>1 DEF OwnDsms
    <3>3. cachedDsm = chain[task[j[1]].snap].dsm
      BY <3>1, <3>2 DEF OwnDsms, Cached
    <3> QED BY <2>1, <3>2, <3>3 DEF TxTarget, OwnDsm
  <2> QED BY <2>1, <2>2
<1>2. ASSUME NEW y \in txs, TxTimesOut(y), NEW x \in txs', x \notin txs
      PROVE  /\ {"kind", "target", "snap"} \subseteq DOMAIN x
             /\ x.kind = "pause" => x.target = chain[x.snap].dsm
  <2>1. x = [y EXCEPT !.live = FALSE]
    BY <1>2 DEF TxTimesOut
  <2>2. DOMAIN x = DOMAIN y /\ x.kind = y.kind /\ x.target = y.target /\ x.snap = y.snap
    BY <2>1 DEF TxsOwn
  <2> QED BY <2>2 DEF TxsOwn
<1>3. \/ txs' \subseteq txs
      \/ \E j \in Jobs : Sign(j)
      \/ \E y \in txs : TxTimesOut(y)
  BY DEF Next, CycleStep, KeysStep, JobStep, StartCycle, ReadModules, CacheContracts,
     CollectData, ReadVersion, ReadGuardians, ReadBalance, DecidePause, DecideKeys,
     FinishPause, CheckKeys, HandleDeposit, FinishKeys, Publish, Transmit, JobFails,
     TaskFails, TimesOut, PublishPing, PingFails, TxMined, TxFails, NewSnapshot,
     vars, outside
<1> QED BY <1>0, <1>1, <1>2, <1>3 DEF TxsOwn

\* If no cycle is given up, the pause of a block is made for the DSM of that
\* block and no other takes it, through any replacement, be it by a DSM of the
\* same version: no other cycle caches a contract between its context, its prefix
\* and its transaction.  A key task may find the prefix of a newer DSM in the
\* cache; then that one accepts its message if it is of the same version, and no
\* DSM of the other version does, the layouts being different
\* (repository.service.ts:116, guardian.service.ts:206-238).
THEOREM PauseReachesOwnDsm ==
    Spec /\ [][CyclesInTime]_vars => []PauseAddressesOwnDsm
<1>1. Init => OneCycle /\ OwnDsms /\ BusOwn /\ TxsOwn
  BY JobsFact, ConstantsAssumption DEF Init, OneCycle, OwnDsms, BusOwn, TxsOwn, IdleTask,
     IdleJob, InFlight, Cached, WithDsm, Tasks, Jobs
<1>2. /\ IInv /\ OneCycle /\ OwnDsms /\ BusOwn /\ TxsOwn
      /\ [Next]_vars /\ [CyclesInTime]_vars
      => (OneCycle /\ OwnDsms /\ BusOwn /\ TxsOwn)'
  BY OneCycleStep, OwnDsmsStep, BusOwnStep, TxsOwnStep
<1>3. IInv /\ BusOwn /\ TxsOwn /\ SignedByContextWallet => PauseAddressesOwnDsm
  <2> SUFFICES ASSUME IInv, BusOwn, TxsOwn, SignedByContextWallet PROVE PauseAddressesOwnDsm
    OBVIOUS
  <2>1. ASSUME NEW b \in bus, b.kind # "ping", NEW dsm \in Dsms
        PROVE  /\ b.kind = "pause" => (Accepts(dsm, b.snap, b) <=> dsm = chain[b.snap].dsm)
               /\ Accepts(dsm, b.snap, b) => (IsV5(dsm) <=> IsV5(chain[b.snap].dsm))
    <3>1. /\ b.kind \in {"deposit", "pause", "unvet"}
          /\ b.snap \in Snaps /\ b.dsm = chain[b.snap].dsm
          /\ b.signer = ContextWallet(b.dsm, b.snap)
          /\ b.kind = "pause" =>
               b.digest = Digest(b.kind, b.dsm, b.dsm, b.snap, b.module)
      BY <2>1 DEF BusOwn, SignedByContextWallet
    <3>2. PICK p : b.digest = Digest(b.kind, b.dsm, p, b.snap, b.module)
      BY <2>1 DEF BusOwn
    <3>3. ASSUME Accepts(dsm, b.snap, b) PROVE IsV5(dsm) <=> IsV5(b.dsm)
      <4>1. Digest(b.kind, dsm, dsm, b.snap, b.module) = Digest(b.kind, b.dsm, p, b.snap, b.module)
        BY <3>2, <3>3 DEF Accepts
      <4> QED BY <3>1, <4>1, DigestTells
    <3>4. b.kind = "pause" /\ Accepts(dsm, b.snap, b) => dsm = b.dsm
      BY <3>1, DigestTells DEF Accepts
    <3>5. b.kind = "pause" => Accepts(b.dsm, b.snap, b)
      BY <3>1 DEF Accepts
    <3> QED BY <3>1, <3>3, <3>4, <3>5
  <2>2. \A x \in txs : x.kind = "pause" => x.target = chain[x.snap].dsm
    BY DEF TxsOwn
  <2> QED BY <2>1, <2>2 DEF PauseAddressesOwnDsm
<1> QED BY <1>1, <1>2, <1>3, Inductive, ContextWalletSigns, PTL DEF Spec

-----------------------------------------------------------------------------
(* The order of blocks                                                       *)

\* Executions whose block is known and not older than any block handled before.
Leads(t) == \/ t \in KeyTasks /\ task[t].live
            \/ t \in Cycles /\ task[t].pc \notin {"idle", "modules"}

\* With Keys API always at its newest block: what is remembered and what runs is
\* never ahead of a cycle that knows its block, nor of the key task in charge.
InOrder ==
    /\ \A t \in Tasks : task[t].snap <= head
    /\ lastMeta <= head
    /\ \A k \in KeyTasks : task[k].live => task[k].pc # "idle"
    /\ \A k, l \in KeyTasks : task[k].live /\ task[l].live => k = l
    /\ \A t \in Tasks : Leads(t) =>
          /\ lastMeta <= task[t].snap
          /\ \A l \in KeyTasks : task[l].pc # "idle" => task[l].snap <= task[t].snap

LEMMA InOrderStep ==
    ASSUME MaxLag = 0, IInv, OneCycle, InOrder, [Next]_vars PROVE InOrder'
<1> USE DEF IInv, TypeOK
<1>0. /\ \A c \in Cycles : c \in Tasks /\ c \notin KeyTasks
      /\ \A k \in KeyTasks : k \in Tasks /\ k \notin Cycles
      /\ \A t \in Tasks : t \in Cycles \/ t \in KeyTasks
      /\ \A t \in Tasks : task[t].snap \in Nat /\ task[t] \in TaskType
      /\ head \in Nat /\ lastMeta \in Nat
  BY ConstantsAssumption DEF Tasks, TaskType, Snaps
\* A step in which every task keeps its block, or is idle after it, or is the
\* cycle c that has just read the newest one.
<1>1. ASSUME head' \in {head, head + 1}, lastMeta' = lastMeta,
             \A t \in Tasks :
                \/ /\ task'[t].snap = task[t].snap
                   /\ task'[t].live => task[t].live
                   /\ task'[t].pc # "idle" => task[t].pc # "idle"
                   /\ t \in KeyTasks => (task'[t].live => task'[t].pc # "idle")
                   /\ t \in Cycles => (Leads(t)' => Leads(t))
                \/ /\ task'[t].snap = 0 /\ task'[t].live = FALSE /\ task'[t].pc = "idle"
                \/ /\ t \in Cycles /\ (Leads(t)' => task'[t].snap = head')
                   /\ task'[t].snap \in {0, head'}
      PROVE  InOrder'
  <2>1. /\ \A t \in Tasks : task'[t].snap <= head'
        /\ lastMeta' <= head'
    BY <1>0, <1>1 DEF InOrder
  <2>2. \A k \in KeyTasks : /\ task'[k].live => task'[k].pc # "idle" /\ task[k].live
                            /\ task'[k].pc # "idle" =>
                                 task[k].pc # "idle" /\ task'[k].snap = task[k].snap
    BY <1>0, <1>1 DEF InOrder
  <2>3. ASSUME NEW t \in Tasks, Leads(t)'
        PROVE  /\ lastMeta' <= task'[t].snap
               /\ \A l \in KeyTasks : task'[l].pc # "idle" => task'[l].snap <= task'[t].snap
    <3>1. task'[t].snap = head' \/ (Leads(t) /\ task'[t].snap = task[t].snap)
      BY <1>0, <1>1, <2>3 DEF Leads
    <3>2. CASE task'[t].snap = head'
      BY <1>0, <2>1, <3>2
    <3>3. CASE Leads(t) /\ task'[t].snap = task[t].snap
      BY <1>1, <2>2, <3>3 DEF InOrder
    <3> QED BY <3>1, <3>2, <3>3
  <2> QED BY <2>1, <2>2, <2>3 DEF InOrder
<1>2. ASSUME NEW c \in Cycles, CycleStep(c), ~DecideKeys(c) PROVE InOrder'
  <2>1. /\ head' = head /\ lastMeta' = lastMeta
        /\ \A t \in Tasks \ {c} : task'[t] = task[t]
    BY <1>0, <1>2 DEF CycleStep, StartCycle, ReadModules, CacheContracts, CollectData,
       ReadVersion, ReadGuardians, ReadBalance, DecidePause, FinishPause, world, memory
  <2>2. \A t \in Tasks \ {c} : Leads(t)' => Leads(t)
    BY <2>1 DEF Leads
  <2>3. CASE StartCycle(c)
    <3>1. task'[c].pc = "modules" /\ task'[c].snap = 0
      BY <1>0, <2>3 DEF StartCycle, IdleTask
    <3> QED BY <1>0, <1>1, <2>1, <2>2, <3>1 DEF Leads, InOrder
  <2>4. CASE ReadModules(c)
    <3>1. PICK s \in Snaps :
            /\ s <= head /\ s + MaxLag >= head
            /\ task' = [task EXCEPT ![c] =
                  IF IsNeedToProcessNewState(s)
                  THEN [@ EXCEPT !.pc = "contracts", !.snap = s]
                  ELSE IdleTask]
      BY <2>4 DEF ReadModules
    <3>2. s = head
      BY <3>1, <1>0 DEF Snaps
    <3>3. task'[c] = IdleTask \/ task'[c] = [task[c] EXCEPT !.pc = "contracts", !.snap = s]
      BY <1>0, <3>1
    <3>4. task'[c].snap \in {0, head'} /\ (Leads(c)' => task'[c].snap = head')
      <4>1. CASE task'[c] = IdleTask
        BY <1>0, <4>1 DEF Leads, IdleTask
      <4>2. CASE task'[c] = [task[c] EXCEPT !.pc = "contracts", !.snap = s]
        BY <1>0, <2>1, <3>2, <4>2 DEF TaskType
      <4> QED BY <3>3, <4>1, <4>2
    <3> QED BY <1>0, <1>1, <2>1, <2>2, <3>4 DEF InOrder
  <2>5. CASE CacheContracts(c) \/ CollectData(c) \/ ReadVersion(c) \/ ReadBalance(c)
             \/ DecidePause(c)
    <3>1. /\ task'[c].snap = task[c].snap /\ task'[c].live = task[c].live
          /\ task[c].pc \notin {"idle", "modules"}
      BY <1>0, <2>5 DEF CacheContracts, CollectData, ReadVersion, ReadBalance,
         DecidePause, TaskType
    <3> QED BY <1>0, <1>1, <2>1, <2>2, <3>1 DEF Leads, InOrder
  <2>6. CASE ReadGuardians(c) \/ FinishPause(c)
    <3>1. /\ task[c].pc \notin {"idle", "modules"}
          /\ task'[c] = IdleTask \/ task'[c] = [task[c] EXCEPT !.pc = "balance"]
      BY <1>0, <2>6 DEF ReadGuardians, FinishPause
    <3>2. \/ /\ task'[c].snap = 0 /\ task'[c].live = FALSE /\ task'[c].pc = "idle"
          \/ /\ task'[c].snap = task[c].snap /\ task'[c].live = task[c].live
             /\ task[c].pc # "idle" /\ Leads(c)
      BY <1>0, <3>1 DEF IdleTask, TaskType, Leads
    <3> QED BY <1>0, <1>1, <2>1, <2>2, <3>2 DEF InOrder
  <2> QED BY <1>2, <2>3, <2>4, <2>5, <2>6 DEF CycleStep
<1>3. ASSUME NEW c \in Cycles, DecideKeys(c) PROVE InOrder'
  <2>0. /\ head' = head /\ lastMeta' = lastMeta /\ Leads(c)
        /\ \A d \in Cycles \ {c} : task[d].pc = "idle"
    BY <1>3 DEF DecideKeys, world, memory, Leads, OneCycle
  <2>1. ASSUME NEW k \in KeyTasks, ~Busy(KeyTasks),
               task' = [task EXCEPT ![c] = IdleTask,
                                    ![k] = [task[c] EXCEPT !.pc = "checking", !.live = TRUE]]
        PROVE  InOrder'
    <3>1. /\ task'[c].snap = 0 /\ ~task'[c].live /\ task'[c].pc = "idle"
          /\ task'[k].snap = task[c].snap /\ task'[k].pc = "checking"
          /\ \A t \in Tasks \ {c, k} : task'[t] = task[t]
      BY <1>0, <2>1 DEF IdleTask, TaskType
    <3>2. \A t \in Tasks : Leads(t)' => t = k
      BY <1>0, <2>0, <2>1, <3>1 DEF Leads, Busy
    <3>3. \A l \in KeyTasks : task'[l].live => l = k
      BY <1>0, <2>1, <3>1 DEF Busy
    <3>4. /\ lastMeta <= task[c].snap
          /\ \A l \in KeyTasks : task[l].pc # "idle" => task[l].snap <= task[c].snap
      BY <1>0, <2>0 DEF InOrder
    <3>5. \A l \in KeyTasks : task'[l].pc # "idle" => task'[l].snap <= task'[k].snap
      BY <1>0, <3>1, <3>4
    <3>6. \A t \in Tasks : task'[t].snap <= head'
      BY <1>0, <2>0, <3>1 DEF InOrder
    <3> QED BY <2>0, <3>1, <3>2, <3>3, <3>4, <3>5, <3>6 DEF InOrder
  <2>2. CASE task' = [task EXCEPT ![c] = IdleTask]
    <3>1. /\ task'[c].snap = 0 /\ task'[c].live = FALSE /\ task'[c].pc = "idle"
          /\ \A t \in Tasks \ {c} : task'[t] = task[t]
      BY <1>0, <2>2 DEF IdleTask
    <3> QED BY <1>0, <1>1, <2>0, <3>1 DEF Leads, InOrder
  <2> QED BY <1>3, <2>1, <2>2 DEF DecideKeys
<1>4. ASSUME NEW k \in KeyTasks, CheckKeys(k) \/ HandleDeposit(k) PROVE InOrder'
  <2>1. /\ head' = head /\ lastMeta' = lastMeta
        /\ \A t \in Tasks \ {k} : task'[t] = task[t]
        /\ task'[k].snap = task[k].snap /\ task'[k].live = task[k].live
        /\ task'[k].pc # "idle" /\ task[k].pc # "idle"
    BY <1>0, <1>4 DEF CheckKeys, HandleDeposit, world, memory, TaskType
  <2> QED BY <1>0, <1>1, <2>1 DEF Leads, InOrder
<1>5. ASSUME NEW k \in KeyTasks, FinishKeys(k) PROVE InOrder'
  <2>1. /\ head' = head /\ lastMeta' = task[k].snap /\ task[k].pc # "idle"
        /\ \A t \in Tasks \ {k} : task'[t] = task[t]
        /\ task'[k].snap = 0 /\ task'[k].live = FALSE /\ task'[k].pc = "idle"
    BY <1>0, <1>5 DEF FinishKeys, world, IdleTask
  <2>2. \A t \in Tasks : Leads(t)' => t # k /\ Leads(t)
    BY <1>0, <2>1 DEF Leads
  <2>3. \A t \in Tasks : Leads(t)' =>
          /\ lastMeta' <= task'[t].snap
          /\ \A l \in KeyTasks : task'[l].pc # "idle" => task'[l].snap <= task'[t].snap
    BY <1>0, <2>1, <2>2 DEF InOrder
  <2>4. /\ \A t \in Tasks : task'[t].snap <= head'
        /\ lastMeta' <= head'
    BY <1>0, <2>1 DEF InOrder
  <2>5. /\ \A l \in KeyTasks : task'[l].live => task'[l].pc # "idle"
        /\ \A l, m \in KeyTasks : task'[l].live /\ task'[m].live => l = m
    BY <1>0, <2>1 DEF InOrder
  <2> QED BY <2>3, <2>4, <2>5 DEF InOrder
<1>6. ASSUME NEW j \in Jobs, JobFails(j) PROVE InOrder'
  <2>0. j[1] \in Tasks
    BY JobsFact
  <2>1. /\ head' = head /\ lastMeta' = lastMeta
        /\ \A t \in Tasks \ {j[1]} : task'[t] = task[t]
        /\ task'[j[1]].snap = task[j[1]].snap /\ task'[j[1]].live = FALSE
        /\ task'[j[1]].pc = "idle"
    BY <1>0, <1>6, <2>0 DEF JobFails, world, memory, TaskType
  <2> QED BY <1>0, <1>1, <2>1 DEF Leads, InOrder
<1>7. ASSUME NEW u \in Tasks, TaskFails(u) PROVE InOrder'
  <2>1. /\ head' = head /\ lastMeta' = lastMeta
        /\ \A t \in Tasks \ {u} : task'[t] = task[t]
        /\ task'[u].snap = 0 /\ task'[u].live = FALSE /\ task'[u].pc = "idle"
    BY <1>0, <1>7 DEF TaskFails, world, memory, IdleTask
  <2> QED BY <1>0, <1>1, <2>1 DEF Leads, InOrder
<1>8. ASSUME NEW u \in Tasks, TimesOut(u) PROVE InOrder'
  <2>1. /\ head' = head /\ lastMeta' = lastMeta
        /\ \A t \in Tasks \ {u} : task'[t] = task[t]
        /\ task'[u].snap = task[u].snap /\ task'[u].live = FALSE
        /\ task'[u].pc = task[u].pc
    BY <1>0, <1>8 DEF TimesOut, world, memory, TaskType
  <2> QED BY <1>0, <1>1, <2>1 DEF Leads, InOrder
<1>9. CASE Surroundings \/ (\E j \in Jobs : JobStep(j)) \/ UNCHANGED vars
  <2>1. task' = task /\ head' \in {head, head + 1} /\ lastMeta' = lastMeta
    BY <1>9 DEF Surroundings, PublishPing, PingFails, TxMined, TxFails, TxTimesOut,
       NewSnapshot, JobStep, Sign, Publish, Transmit, vars, world, memory
  <2> QED BY <1>0, <1>1, <2>1 DEF Leads, InOrder
<1> QED BY <1>2, <1>3, <1>4, <1>5, <1>6, <1>7, <1>8, <1>9 DEF Next, Surroundings, KeysStep

\* With Keys API always at its newest block and no cycle given up, the last
\* processed block only moves forward, unless a key task that OneAtTime has given
\* up moves it: the key task in charge has the newest block of all that run,
\* although its cycle compared blocks long before it records its own
\* (guardian.service.ts:160-166, 344).
THEOREM MetaForward ==
    ASSUME MaxLag = 0
    PROVE  Spec /\ [][CyclesInTime]_vars => MetaNeverGoesBack
<1>1. Init => OneCycle /\ InOrder
  BY ConstantsAssumption DEF Init, OneCycle, InOrder, IdleTask, Leads, Tasks
<1>2. IInv /\ OneCycle /\ InOrder /\ [Next]_vars /\ [CyclesInTime]_vars => (OneCycle /\ InOrder)'
  BY OneCycleStep, InOrderStep
<1>3. IInv /\ InOrder /\ [Next]_vars =>
        [\/ lastMeta = 0 \/ lastMeta' >= lastMeta
         \/ \E k \in KeyTasks : task[k].pc = "depositing" /\ ~task[k].live]_lastMeta
  <2> SUFFICES ASSUME IInv, InOrder, [Next]_vars, lastMeta' # lastMeta,
                      \A k \in KeyTasks : task[k].pc = "depositing" => task[k].live
               PROVE  lastMeta' >= lastMeta
    BY DEF IInv, TypeOK, TaskType
  <2>1. PICK k \in KeyTasks : FinishKeys(k)
    BY DEF Next, CycleStep, KeysStep, JobStep, StartCycle, ReadModules, CacheContracts,
       CollectData, ReadVersion, ReadGuardians, ReadBalance, DecidePause, DecideKeys,
       FinishPause, CheckKeys, HandleDeposit, Sign, Publish, Transmit, JobFails,
       TaskFails, TimesOut, PublishPing, PingFails, TxMined, TxFails, TxTimesOut,
       NewSnapshot, vars, memory
  <2>2. k \in Tasks /\ task[k].live /\ lastMeta' = task[k].snap
    BY <2>1 DEF FinishKeys, Tasks
  <2>3. lastMeta <= task[k].snap
    BY <2>2 DEF InOrder, Leads
  <2>4. lastMeta \in Nat /\ task[k].snap \in Nat
    BY <2>2 DEF IInv, TypeOK, TaskType, Snaps
  <2> QED BY <2>2, <2>3, <2>4
<1> QED BY <1>1, <1>2, <1>3, Inductive, PTL DEF Spec, MetaNeverGoesBack

-----------------------------------------------------------------------------
(* Attested once                                                             *)

\* A contracts state that was left does not come back: the deposit root, the
\* block of a module's last change and the signing window only move on.
StatesMoveOn ==
    \A m \in Modules : \A x, y, z \in Snaps :
        /\ x <= y /\ y <= z
        /\ IsSameContractsStates(ContractsState(x, m), ContractsState(z, m))
        => IsSameContractsStates(ContractsState(x, m), ContractsState(y, m))

\* As long as nothing failed: one key task runs, its attestations in flight are
\* of states that are not remembered, and what is remembered of a module is at
\* least as new as all that was attested of it.
KeyTasksLive == \A k \in KeyTasks : task[k].pc # "idle" => task[k].live

FlightsFresh ==
    \A k \in KeyTasks, m \in Modules : InFlight(<<k, m>>) =>
        /\ task[k].pc = "depositing"
        /\ ~IsSameContractsStates(ContractsState(task[k].snap, m), lastStates[m])

Newest(z, m) ==
    /\ lastStates[m] = ContractsState(z, m) /\ z <= head
    /\ \A t \in Tasks : Leads(t) => z <= task[t].snap

LastIsNewest ==
    \A b \in bus : b.kind = "deposit" =>
        /\ b.snap \in Snaps /\ b.module \in Modules
        /\ \E z \in Snaps : b.snap <= z /\ Newest(z, b.module)

OnceInv ==
    failures = 0 =>
        OneCycle /\ InOrder /\ KeyTasksLive /\ FlightsFresh /\ LastIsNewest

LEMMA NothingFails ==
    ASSUME IInv, [Next]_vars, failures' = 0
    PROVE  /\ failures = 0 /\ [CyclesInTime]_vars
           /\ \A j \in Jobs : ~JobFails(j)
           /\ \A t \in Tasks : ~TaskFails(t) /\ ~TimesOut(t)
<1>1. failures \in Nat
  BY ConstantsAssumption DEF IInv, TypeOK
<1>2. ~Fail
  BY <1>1 DEF Fail
<1>3. failures' = failures
  BY <1>2 DEF Next, CycleStep, KeysStep, JobStep, StartCycle, ReadModules, CacheContracts,
     CollectData, ReadVersion, ReadGuardians, ReadBalance, DecidePause, DecideKeys,
     FinishPause, CheckKeys, HandleDeposit, FinishKeys, Sign, Publish, Transmit, JobFails,
     TaskFails, TimesOut, PublishPing, PingFails, TxMined, TxFails, TxTimesOut,
     NewSnapshot, vars
<1>4. \A c \in Cycles : ~TimesOut(c)
  BY <1>2 DEF TimesOut
<1> QED BY <1>2, <1>3, <1>4 DEF CyclesInTime, JobFails, TaskFails, TimesOut

LEMMA KeyTasksLiveStep ==
    ASSUME IInv, KeyTasksLive, [Next]_vars, failures' = 0 PROVE KeyTasksLive'
<1> USE DEF IInv, TypeOK
<1> SUFFICES ASSUME NEW k \in KeyTasks, task'[k].pc # "idle" PROVE task'[k].live
  BY DEF KeyTasksLive
<1>0. /\ k \in Tasks /\ k \notin Cycles /\ task[k] \in TaskType
      /\ task[k].pc # "idle" => task[k].live
  BY ConstantsAssumption DEF Tasks, KeyTasksLive
<1>1. ASSUME NEW c \in Cycles, CycleStep(c) PROVE task'[k].live
  <2>0. c \in Tasks /\ c # k
    BY <1>0 DEF Tasks
  <2>1. CASE DecideKeys(c)
    <3>1. task'[k] = task[k] \/ task'[k] = [task[c] EXCEPT !.pc = "checking", !.live = TRUE]
      BY <1>0, <2>0, <2>1 DEF DecideKeys
    <3>2. task[c] \in TaskType
      BY <2>0
    <3> QED BY <1>0, <3>1, <3>2 DEF TaskType
  <2>2. CASE ~DecideKeys(c)
    <3>1. task'[k] = task[k]
      BY <1>0, <1>1, <2>0, <2>2 DEF CycleStep, StartCycle, ReadModules, CacheContracts,
         CollectData, ReadVersion, ReadGuardians, ReadBalance, DecidePause, FinishPause
    <3> QED BY <1>0, <3>1
  <2> QED BY <2>1, <2>2
<1>2. ASSUME NEW l \in KeyTasks, KeysStep(l) PROVE task'[k].live
  <2>0. l \in Tasks
    BY DEF Tasks
  <2>1. CASE l # k
    <3>1. task'[k] = task[k]
      BY <1>0, <1>2, <2>0, <2>1 DEF KeysStep, CheckKeys, HandleDeposit, FinishKeys
    <3> QED BY <1>0, <3>1
  <2>2. CASE l = k
    <3>1. CASE FinishKeys(k)
      BY <1>0, <3>1 DEF FinishKeys, IdleTask
    <3>2. CASE CheckKeys(k) \/ HandleDeposit(k)
      BY <1>0, <3>2 DEF CheckKeys, HandleDeposit, TaskType
    <3> QED BY <1>2, <2>2, <3>1, <3>2 DEF KeysStep
  <2> QED BY <2>1, <2>2
<1>3. CASE Surroundings \/ (\E j \in Jobs : JobStep(j)) \/ UNCHANGED vars
  <2>1. task' = task
    BY <1>3 DEF Surroundings, PublishPing, PingFails, TxMined, TxFails, TxTimesOut,
       NewSnapshot, JobStep, Sign, Publish, Transmit, vars
  <2> QED BY <1>0, <2>1
<1> QED BY <1>1, <1>2, <1>3, NothingFails DEF Next, Surroundings

\* Without failures a deposit attestation is in flight since its key task began
\* to handle deposits.
LEMMA DepositKept ==
    ASSUME IInv, FlightsFresh, [Next]_vars, failures' = 0,
           NEW k \in KeyTasks, NEW m \in Modules, InFlight(<<k, m>>)'
    PROVE  /\ task'[k].pc = "depositing" /\ task'[k].snap = task[k].snap
           /\ HandleDeposit(k) \/ (InFlight(<<k, m>>) /\ task[k].pc = "depositing")
           /\ ~Remembers(<<k, m>>)
<1> USE DEF IInv, TypeOK
<1>0. /\ k \in Tasks /\ k \notin Cycles /\ <<k, m>> \in Jobs /\ m # 0
      /\ <<k, m>>[1] = k /\ <<k, m>>[2] = m
      /\ InFlight(<<k, m>>) => task[k].pc = "depositing"
  BY ConstantsAssumption DEF Tasks, Jobs, FlightsFresh
<1>1. ASSUME NEW c \in Cycles, CycleStep(c)
      PROVE  task'[k] = task[k] /\ InFlight(<<k, m>>)
  <2>1. c # k /\ c \in Tasks
    BY <1>0 DEF Tasks
  <2>2. CASE DecideKeys(c)
    <3>1. ASSUME NEW l \in KeyTasks, Free(l),
                 task' = [task EXCEPT ![c] = IdleTask,
                                      ![l] = [task[c] EXCEPT !.pc = "checking", !.live = TRUE]],
                 job' = [j \in Jobs |-> IF j[1] = l THEN IdleJob ELSE job[j]]
          PROVE  task'[k] = task[k] /\ InFlight(<<k, m>>)
      <4>1. l # k
        BY <1>0, <3>1 DEF InFlight, IdleJob
      <4> QED BY <1>0, <2>1, <3>1, <4>1 DEF InFlight
    <3> QED BY <1>0, <2>1, <2>2, <3>1 DEF DecideKeys, InFlight
  <2>3. CASE ~DecideKeys(c)
    <3>1. task'[k] = task[k] /\ job'[<<k, m>>] = job[<<k, m>>]
      BY <1>0, <1>1, <2>1, <2>3 DEF CycleStep, StartCycle, ReadModules, CacheContracts,
         CollectData, ReadVersion, ReadGuardians, ReadBalance, DecidePause, FinishPause
    <3> QED BY <3>1 DEF InFlight
  <2> QED BY <2>2, <2>3
<1>2. ASSUME NEW l \in KeyTasks, KeysStep(l), ~HandleDeposit(k)
      PROVE  task'[k] = task[k] /\ InFlight(<<k, m>>)
  <2>0. l \in Tasks
    BY DEF Tasks
  <2>1. CASE CheckKeys(l)
    <3>1. job'[<<k, m>>] = job[<<k, m>>]
      BY <1>0, <2>0, <2>1, PauseJob DEF CheckKeys
    <3>2. l # k
      BY <1>0, <2>1, <3>1 DEF CheckKeys, InFlight
    <3> QED BY <1>0, <2>0, <2>1, <3>1, <3>2 DEF CheckKeys, InFlight
  <2>2. CASE HandleDeposit(l)
    BY <1>0, <1>2, <2>0, <2>2 DEF HandleDeposit, InFlight
  <2>3. CASE FinishKeys(l)
    BY <1>0, <2>0, <2>3 DEF FinishKeys, InFlight, IdleJob
  <2> QED BY <1>2, <2>1, <2>2, <2>3 DEF KeysStep
<1>3. CASE HandleDeposit(k)
  BY <1>0, <1>3 DEF HandleDeposit, Remembers, Transmit, Sign, TaskType
<1>4. ASSUME NEW i \in Jobs, JobStep(i)
      PROVE  task'[k] = task[k] /\ InFlight(<<k, m>>)
  <2>1. task' = task /\ InFlight(i)
    BY <1>4 DEF JobStep, Sign, Publish, Transmit, InFlight
  <2>2. i # <<k, m>> => job'[<<k, m>>] = job[<<k, m>>]
    BY <1>0, <1>4 DEF JobStep, Sign, Publish, Transmit
  <2> QED BY <2>1, <2>2 DEF InFlight
<1>5. ASSUME Surroundings \/ UNCHANGED vars
      PROVE  task'[k] = task[k] /\ InFlight(<<k, m>>)
  <2>1. task' = task /\ job' = job
    BY <1>5 DEF Surroundings, PublishPing, PingFails, TxMined, TxFails, TxTimesOut,
       NewSnapshot, vars
  <2> QED BY <2>1 DEF InFlight
<1>6. ~Remembers(<<k, m>>)
  BY <1>0 DEF Remembers, Transmit, Sign, InFlight, DoneJob, IdleJob
<1> QED BY <1>0, <1>1, <1>2, <1>3, <1>4, <1>5, <1>6, NothingFails DEF Next, Surroundings

LEMMA WhoRemembers ==
    ASSUME IInv, [Next]_vars
    PROVE  \/ UNCHANGED lastStates
           \/ \E j \in Jobs : Remembers(j) /\ KindOf(j) = "deposit"
BY DEF Next, CycleStep, KeysStep, JobStep, StartCycle, ReadModules, CacheContracts,
   CollectData, ReadVersion, ReadGuardians, ReadBalance, DecidePause, DecideKeys,
   FinishPause, CheckKeys, HandleDeposit, FinishKeys, Sign, Publish, Transmit, JobFails,
   TaskFails, TimesOut, PublishPing, PingFails, TxMined, TxFails, TxTimesOut,
   NewSnapshot, vars, memory, Remember, Remembers

LEMMA DepositJob ==
    ASSUME NEW j \in Jobs, KindOf(j) = "deposit"
    PROVE  j[1] \in KeyTasks /\ j[2] \in Modules /\ j = <<j[1], j[2]>>
BY ConstantsAssumption DEF KindOf, Jobs, Tasks

LEMMA FlightsFreshStep ==
    ASSUME IInv, InOrder, KeyTasksLive, FlightsFresh, [Next]_vars, failures' = 0
    PROVE  FlightsFresh'
<1> SUFFICES ASSUME NEW k \in KeyTasks, NEW m \in Modules, InFlight(<<k, m>>)'
             PROVE  (/\ task[k].pc = "depositing"
                     /\ ~IsSameContractsStates(ContractsState(task[k].snap, m), lastStates[m]))'
  BY DEF FlightsFresh
<1>0. /\ task'[k].pc = "depositing" /\ task'[k].snap = task[k].snap
      /\ HandleDeposit(k) \/ (InFlight(<<k, m>>) /\ task[k].pc = "depositing")
      /\ ~Remembers(<<k, m>>)
  BY DepositKept
<1>1. chain' = chain
  BY RecordsKept DEF IInv
<1>2. ContractsState(task[k].snap, m)' = ContractsState(task[k].snap, m)
  BY <1>0, <1>1 DEF ContractsState
<1>3. CASE HandleDeposit(k)
  <2>1. /\ <<k, m>> \in Jobs /\ m # 0 /\ <<k, m>>[1] = k /\ <<k, m>>[2] = m
    BY ConstantsAssumption DEF Jobs
  <2>2. ~IsSameContractsStates(ContractsState(task[k].snap, m), lastStates[m])
    BY <1>3, <2>1 DEF HandleDeposit, InFlight, DoneJob, IdleJob
  <2>3. lastStates' = lastStates
    BY <1>3 DEF HandleDeposit, memory
  <2> QED BY <1>0, <1>2, <2>2, <2>3 DEF IsSameContractsStates
<1>4. CASE InFlight(<<k, m>>) /\ task[k].pc = "depositing"
  <2>1. lastStates'[m] = lastStates[m]
    <3>1. ASSUME NEW j \in Jobs, Remembers(j), KindOf(j) = "deposit"
          PROVE  lastStates'[m] = lastStates[m]
      <4>1. j[1] \in KeyTasks /\ j[2] \in Modules /\ j = <<j[1], j[2]>> /\ InFlight(j)
        BY <3>1, DepositJob DEF Remembers, Transmit, Sign, InFlight
      <4>2. task[j[1]].pc = "depositing"
        BY <4>1 DEF FlightsFresh
      <4>3. j[1] = k
        BY <1>4, <4>1, <4>2 DEF KeyTasksLive, InOrder
      <4>4. j[2] # m
        BY <1>0, <3>1, <4>1, <4>3
      <4>5. lastStates' = [lastStates EXCEPT ![j[2]] = ContractsState(task[j[1]].snap, j[2])]
        BY <1>1, <3>1, RememberRecords
      <4> QED BY <4>4, <4>5 DEF IInv, TypeOK
    <3> QED BY <3>1, WhoRemembers
  <2>2. ~IsSameContractsStates(ContractsState(task[k].snap, m), lastStates[m])
    BY <1>4 DEF FlightsFresh
  <2> QED BY <1>0, <1>2, <2>1, <2>2 DEF IsSameContractsStates
<1> QED BY <1>0, <1>3, <1>4

\* A leader of now was one before, or has its block from one or from the head.
LEMMA LeadersFollow ==
    ASSUME MaxLag = 0, IInv, [Next]_vars, NEW t \in Tasks, Leads(t)'
    PROVE  \/ task'[t].snap = head
           \/ \E u \in Tasks : Leads(u) /\ task'[t].snap = task[u].snap
<1> USE DEF IInv, TypeOK
<1>0. /\ \A c \in Cycles : c \in Tasks /\ c \notin KeyTasks
      /\ \A k \in KeyTasks : k \in Tasks /\ k \notin Cycles
      /\ \A u \in Tasks : task[u] \in TaskType
      /\ head \in Nat
  BY ConstantsAssumption DEF Tasks, Snaps
<1>1. ASSUME NEW c \in Cycles, CycleStep(c)
      PROVE  \/ task'[t].snap = head
             \/ \E u \in Tasks : Leads(u) /\ task'[t].snap = task[u].snap
  <2>1. CASE StartCycle(c)
    <3>1. \/ task'[t] = task[t]
          \/ t = c /\ task'[t].pc = "modules"
      BY <1>0, <2>1 DEF StartCycle
    <3> QED BY <1>0, <3>1 DEF Leads
  <2>2. CASE ReadModules(c)
    <3>1. PICK s \in Snaps :
            /\ s <= head /\ s + MaxLag >= head
            /\ task' = [task EXCEPT ![c] =
                  IF IsNeedToProcessNewState(s)
                  THEN [@ EXCEPT !.pc = "contracts", !.snap = s]
                  ELSE IdleTask]
      BY <2>2 DEF ReadModules
    <3>2. s = head
      BY <3>1, <1>0 DEF Snaps
    <3>3. CASE t = c
      <4>1. task'[c] = IdleTask \/ task'[c] = [task[c] EXCEPT !.pc = "contracts", !.snap = s]
        BY <1>0, <3>1
      <4>2. task'[c] # IdleTask
        BY <1>0, <3>3 DEF Leads, IdleTask
      <4> QED BY <1>0, <3>2, <3>3, <4>1, <4>2 DEF TaskType
    <3>4. CASE t # c
      <4>1. task'[t] = task[t]
        BY <3>1, <3>4
      <4> QED BY <4>1 DEF Leads
    <3> QED BY <3>3, <3>4
  <2>3. CASE DecideKeys(c)
    <3>1. Leads(c)
      BY <2>3 DEF DecideKeys, Leads
    <3>2. \/ t = c /\ task'[t] = IdleTask
          \/ task'[t] = task[t]
          \/ task'[t] = [task[c] EXCEPT !.pc = "checking", !.live = TRUE]
      BY <1>0, <2>3 DEF DecideKeys
    <3>3. CASE t = c /\ task'[t] = IdleTask
      BY <1>0, <3>3 DEF Leads, IdleTask
    <3>4. CASE task'[t] = task[t]
      BY <3>4 DEF Leads
    <3>5. CASE task'[t] = [task[c] EXCEPT !.pc = "checking", !.live = TRUE]
      <4>1. task'[t].snap = task[c].snap
        BY <1>0, <3>5 DEF TaskType
      <4> QED BY <1>0, <3>1, <4>1
    <3> QED BY <3>2, <3>3, <3>4, <3>5
  <2>4. CASE CacheContracts(c) \/ CollectData(c) \/ ReadVersion(c) \/ ReadBalance(c)
             \/ DecidePause(c)
    <3>1. /\ \A u \in Tasks : task'[u].snap = task[u].snap /\ task'[u].live = task[u].live
          /\ \A u \in Tasks \ {c} : task'[u] = task[u]
          /\ task[c].pc \notin {"idle", "modules"}
      BY <1>0, <2>4 DEF CacheContracts, CollectData, ReadVersion, ReadBalance,
         DecidePause, TaskType
    <3> QED BY <1>0, <3>1 DEF Leads
  <2>5. CASE ReadGuardians(c) \/ FinishPause(c)
    <3>1. /\ task[c].pc \notin {"idle", "modules"}
          /\ task'[c] = IdleTask \/ task'[c] = [task[c] EXCEPT !.pc = "balance"]
          /\ \A u \in Tasks \ {c} : task'[u] = task[u]
      BY <1>0, <2>5 DEF ReadGuardians, FinishPause
    <3>2. CASE t = c
      <4>1. task'[c] # IdleTask
        BY <1>0, <3>2 DEF Leads, IdleTask
      <4> QED BY <1>0, <3>1, <3>2, <4>1 DEF Leads, TaskType
    <3>3. CASE t # c
      BY <3>1, <3>3 DEF Leads
    <3> QED BY <3>2, <3>3
  <2> QED BY <1>1, <2>1, <2>2, <2>3, <2>4, <2>5 DEF CycleStep
<1>2. ASSUME NEW k \in KeyTasks, KeysStep(k)
      PROVE  Leads(t) /\ task'[t].snap = task[t].snap
  <2>1. CASE t # k
    <3>1. task'[t] = task[t]
      BY <1>0, <1>2, <2>1 DEF KeysStep, CheckKeys, HandleDeposit, FinishKeys
    <3> QED BY <3>1 DEF Leads
  <2>2. CASE t = k
    <3>1. CASE FinishKeys(k)
      BY <1>0, <2>2, <3>1 DEF FinishKeys, IdleTask, Leads
    <3>2. CASE CheckKeys(k) \/ HandleDeposit(k)
      BY <1>0, <2>2, <3>2 DEF CheckKeys, HandleDeposit, TaskType, Leads
    <3> QED BY <1>2, <2>2, <3>1, <3>2 DEF KeysStep
  <2> QED BY <2>1, <2>2
<1>3. ASSUME NEW j \in Jobs, JobFails(j) PROVE Leads(t) /\ task'[t].snap = task[t].snap
  BY <1>0, <1>3, JobsFact DEF JobFails, Leads, TaskType
<1>4. ASSUME NEW u \in Tasks, TaskFails(u) PROVE Leads(t) /\ task'[t].snap = task[t].snap
  <2>1. t # u
    BY <1>0, <1>4 DEF TaskFails, IdleTask, Leads
  <2> QED BY <1>4, <2>1 DEF TaskFails, Leads
<1>5. ASSUME NEW u \in Tasks, TimesOut(u) PROVE Leads(t) /\ task'[t].snap = task[t].snap
  BY <1>0, <1>5 DEF TimesOut, Leads, TaskType
<1>6. CASE Surroundings \/ (\E j \in Jobs : JobStep(j)) \/ UNCHANGED vars
  <2>1. task' = task
    BY <1>6 DEF Surroundings, PublishPing, PingFails, TxMined, TxFails, TxTimesOut,
       NewSnapshot, JobStep, Sign, Publish, Transmit, vars
  <2> QED BY <2>1 DEF Leads
<1> QED BY <1>1, <1>2, <1>3, <1>4, <1>5, <1>6 DEF Next, Surroundings

LEMMA HeadMoves == [Next]_vars => head' = head \/ head' = head + 1
BY DEF Next, CycleStep, KeysStep, JobStep, StartCycle, ReadModules, CacheContracts,
   CollectData, ReadVersion, ReadGuardians, ReadBalance, DecidePause, DecideKeys,
   FinishPause, CheckKeys, HandleDeposit, FinishKeys, Sign, Publish, Transmit, JobFails,
   TaskFails, TimesOut, PublishPing, PingFails, TxMined, TxFails, TxTimesOut,
   NewSnapshot, vars, world

LEMMA LastIsNewestStep ==
    ASSUME MaxLag = 0, IInv, OneCycle, InOrder, KeyTasksLive, FlightsFresh, LastIsNewest,
           [Next]_vars, failures' = 0
    PROVE  LastIsNewest'
<1> USE DEF IInv, TypeOK
<1>0. /\ chain' = chain /\ head \in Nat /\ head' \in Nat /\ head <= head'
      /\ \A x, m : ContractsState(x, m)' = ContractsState(x, m)
      /\ \A t \in Tasks : task[t].snap \in Nat
  <2>1. chain' = chain
    BY RecordsKept
  <2>2. head \in Nat /\ (head' = head \/ head' = head + 1)
    BY HeadMoves DEF Snaps
  <2>3. \A x, m : ContractsState(x, m)' = ContractsState(x, m)
    BY <2>1 DEF ContractsState
  <2>4. \A t \in Tasks : task[t].snap \in Nat
    BY DEF TaskType, Snaps
  <2> QED BY <2>1, <2>2, <2>3, <2>4
\* A state that is remembered and stays so is still the newest.
<1>1. ASSUME NEW z \in Snaps, NEW m \in Modules, Newest(z, m), lastStates'[m] = lastStates[m]
      PROVE  Newest(z, m)'
  <2>1. z \in Nat /\ z <= head
    BY <1>1 DEF Newest, Snaps
  <2>2. ASSUME NEW t \in Tasks, Leads(t)' PROVE z <= task'[t].snap
    <3>1. \/ task'[t].snap = head
          \/ \E u \in Tasks : Leads(u) /\ task'[t].snap = task[u].snap
      BY <2>2, LeadersFollow
    <3> QED BY <1>1, <2>1, <3>1 DEF Newest
  <2> QED BY <1>0, <1>1, <2>1, <2>2 DEF Newest
<1>2. CASE UNCHANGED lastStates
  <2>1. \A d \in bus' : d.kind = "deposit" => d \in bus
    <3>1. ASSUME NEW j \in Jobs, Transmit(j), NEW d \in bus', d.kind = "deposit", d \notin bus
          PROVE  FALSE
      <4>1. d = Message(j)
        BY <3>1 DEF Transmit
      <4>2. KindOf(j) = "deposit"
        BY <3>1, <4>1 DEF Message
      <4>3. j[1] \in KeyTasks /\ j[2] \in Modules /\ j = <<j[1], j[2]>> /\ InFlight(j)
        BY <3>1, <4>2, DepositJob DEF Transmit, InFlight
      <4>4. /\ lastStates' = [lastStates EXCEPT ![j[2]] = ContractsState(task[j[1]].snap, j[2])]
            /\ task[j[1]].snap \in Snaps
        BY <1>0, <3>1, <4>2, RememberRecords DEF Remembers
      <4>5. lastStates[j[2]] = ContractsState(task[j[1]].snap, j[2])
        BY <1>2, <4>3, <4>4
      <4> QED BY <4>3, <4>4, <4>5, StateFact DEF FlightsFresh
    <3> QED BY <3>1, WhoSends
  <2> SUFFICES ASSUME NEW b \in bus', b.kind = "deposit"
               PROVE  /\ b.snap \in Snaps /\ b.module \in Modules
                      /\ \E z \in Snaps : b.snap <= z /\ Newest(z, b.module)'
    BY DEF LastIsNewest
  <2>2. PICK z \in Snaps : /\ b.snap \in Snaps /\ b.module \in Modules
                           /\ b.snap <= z /\ Newest(z, b.module)
    BY <2>1 DEF LastIsNewest
  <2>3. Newest(z, b.module)'
    BY <1>1, <1>2, <2>2
  <2> QED BY <2>2, <2>3
<1>3. ASSUME NEW j \in Jobs, Remembers(j), KindOf(j) = "deposit" PROVE LastIsNewest'
  <2> DEFINE k == j[1]
             n == j[2]
  <2>1. k \in KeyTasks /\ k \in Tasks /\ n \in Modules /\ j = <<k, n>> /\ InFlight(j)
    BY <1>3, DepositJob DEF Remembers, Transmit, Sign, InFlight, Tasks
  <2>2. PICK s \in Snaps : /\ s = task[k].snap
                           /\ lastStates' = [lastStates EXCEPT ![n] = ContractsState(s, n)]
    BY <1>0, <1>3, RememberRecords
  <2>3. task' = task /\ head' = head
    BY <1>3 DEF Remembers, Transmit, Sign, world
  <2>4. Leads(k) /\ task[k].pc # "idle"
    BY <2>1 DEF FlightsFresh, KeyTasksLive, Leads
  <2>5. Newest(s, n)'
    <3>1. s <= head /\ \A t \in Tasks : Leads(t) => s <= task[t].snap
      BY <2>1, <2>2, <2>4 DEF InOrder
    <3>2. lastStates'[n] = ContractsState(s, n)
      BY <2>1, <2>2
    <3>3. \A t \in Tasks : Leads(t)' <=> Leads(t)
      BY <2>3 DEF Leads
    <3> QED BY <1>0, <2>3, <3>1, <3>2, <3>3 DEF Newest
  <2>6. ASSUME NEW b \in bus', b.kind = "deposit"
        PROVE  b \in bus \/ (b.snap = s /\ b.module = n)
    <3>1. CASE Transmit(j)
      BY <2>2, <2>6, <3>1 DEF Transmit, Message
    <3>2. CASE Sign(j)
      BY <3>2 DEF Sign
    <3> QED BY <1>3, <3>1, <3>2 DEF Remembers
  <2>7. ASSUME NEW b \in bus', b.kind = "deposit"
        PROVE  /\ b.snap \in Snaps /\ b.module \in Modules
               /\ \E z \in Snaps : b.snap <= z /\ Newest(z, b.module)'
    <3>1. CASE b.snap = s /\ b.module = n
      <4>1. s <= s /\ b.snap <= s
        BY <2>2, <3>1 DEF Snaps
      <4> QED BY <2>1, <2>2, <2>5, <3>1, <4>1
    <3>2. CASE b \in bus
      <4>1. PICK z \in Snaps : /\ b.snap \in Snaps /\ b.module \in Modules
                               /\ b.snap <= z /\ Newest(z, b.module)
        BY <2>7, <3>2 DEF LastIsNewest
      <4>2. CASE b.module = n
        <5>1. b.snap <= s
          <6>1. z <= s
            BY <2>1, <2>2, <2>4, <4>1, <4>2 DEF Newest
          <6>2. b.snap \in Nat /\ z \in Nat /\ s \in Nat
            BY <2>2, <4>1 DEF Snaps
          <6> QED BY <4>1, <6>1, <6>2
        <5> QED BY <2>2, <2>5, <4>1, <4>2, <5>1
      <4>3. CASE b.module # n
        <5>1. lastStates'[b.module] = lastStates[b.module]
          BY <2>2, <4>1, <4>3
        <5> QED BY <1>1, <4>1, <5>1
      <4> QED BY <4>2, <4>3
    <3> QED BY <2>6, <2>7, <3>1, <3>2
  <2> QED BY <2>7 DEF LastIsNewest
<1> QED BY <1>2, <1>3, WhoRemembers

\* While nothing fails, no contracts state is attested a second time, in
\* whatever block of its signing window it is met, with Keys API always at its
\* newest block and states that do not come back: what is remembered of a module
\* is as new as all that was sent of it (guardian.service.ts:418-470).
THEOREM StatesAttestedOnce ==
    ASSUME MaxLag = 0
    PROVE  Spec /\ []StatesMoveOn => AttestedOnce
<1>1. Init => OnceInv
  <2> SUFFICES ASSUME Init PROVE OnceInv
    OBVIOUS
  <2>1. OneCycle /\ InOrder
    BY ConstantsAssumption DEF Init, OneCycle, InOrder, IdleTask, Leads, Tasks
  <2>2. KeyTasksLive /\ FlightsFresh /\ LastIsNewest
    BY DEF Init, KeyTasksLive, FlightsFresh, LastIsNewest, IdleTask, IdleJob, InFlight,
       Tasks, Jobs
  <2> QED BY <2>1, <2>2 DEF OnceInv
<1>2. IInv /\ OnceInv /\ [Next]_vars => OnceInv'
  BY OneCycleStep, InOrderStep, KeyTasksLiveStep, FlightsFreshStep, LastIsNewestStep,
     NothingFails DEF OnceInv
<1>3. ASSUME IInv, OnceInv, StatesMoveOn, NEW j \in Jobs, failures = 0,
             KindOf(j) = "deposit", job[j].pc = "transmit", Attested(task[j[1]].snap, j[2])
      PROVE  FALSE
  <2> DEFINE k == j[1]
             m == j[2]
             s == task[k].snap
  <2>1. k \in KeyTasks /\ k \in Tasks /\ m \in Modules /\ j = <<k, m>> /\ InFlight(j)
    BY <1>3, DepositJob DEF InFlight, Tasks
  <2>2. /\ task[k].pc = "depositing"
        /\ ~IsSameContractsStates(ContractsState(s, m), lastStates[m])
    BY <1>3, <2>1 DEF OnceInv, FlightsFresh
  <2>3. PICK b \in bus : /\ b.kind = "deposit" /\ b.module = m
                         /\ IsSameContractsStates(ContractsState(b.snap, m), ContractsState(s, m))
    BY <1>3 DEF Attested
  <2>4. PICK z \in Snaps : b.snap \in Snaps /\ b.snap <= z /\ Newest(z, m)
    BY <1>3, <2>3 DEF OnceInv, LastIsNewest
  <2>5. s \in Snaps /\ z <= s
    BY <1>3, <2>1, <2>2, <2>4 DEF OnceInv, KeyTasksLive, Newest, Leads, IInv, ContextsUsable
  <2>6. IsSameContractsStates(ContractsState(b.snap, m), ContractsState(z, m))
    BY <1>3, <2>1, <2>3, <2>4, <2>5 DEF StatesMoveOn
  <2>7. IsSameContractsStates(ContractsState(s, m), ContractsState(z, m))
    BY <2>3, <2>6 DEF IsSameContractsStates
  <2> QED BY <2>2, <2>4, <2>7 DEF Newest
<1>4. IInv /\ OnceInv /\ StatesMoveOn =>
        [\A j \in Jobs :
            ( /\ failures = 0 /\ KindOf(j) = "deposit"
              /\ job[j].pc = "transmit" /\ job'[j].pc = "done" )
            => ~Attested(task[j[1]].snap, j[2])]_job
  BY <1>3
<1> QED BY <1>1, <1>2, <1>4, Inductive, PTL DEF Spec, AttestedOnce

-----------------------------------------------------------------------------
(* No attestation behind a pause                                             *)

\* A threat, once in a block, is in all later ones until the deposits are paused:
\* the front-running deposit stays in the deposit contract.
ThreatsPersist ==
    \A x, y \in Snaps : x <= y /\ chain[x].threat => chain[y].threat \/ chain[y].paused

PausesForThreats ==
    /\ \A j \in Jobs : KindOf(j) = "pause" /\ InFlight(j) => chain[task[j[1]].snap].threat
    /\ \A b \in bus : b.kind = "pause" => b.snap \in Snaps /\ chain[b.snap].threat
    /\ \A b \in bus : b.kind = "deposit" => b.snap \in Snaps

LEMMA PausesForThreatsStep ==
    ASSUME IInv, PausesForThreats, [Next]_vars PROVE PausesForThreats'
<1>0. chain' = chain
  BY RecordsKept DEF IInv
<1>1. ASSUME NEW j \in Jobs, KindOf(j) = "pause", InFlight(j)'
      PROVE  (chain[task[j[1]].snap].threat)'
  <2>1. SameContext(j[1])
    BY <1>1, JobsKept DEF FlightKept
  <2>2. ASSUME NEW c \in Cycles, DecidePause(c), j[1] = c PROVE chain[task[c].snap].threat
    BY <2>2 DEF DecidePause, MustPause
  <2>3. InFlight(j) \/ \E c \in Cycles : DecidePause(c) /\ j[1] = c
    <3>0. j[1] \in Cycles /\ j[1] \in Tasks /\ j[1] \notin KeyTasks
      BY <1>1, ConstantsAssumption DEF KindOf, Tasks
    <3>1. ASSUME NEW c \in Cycles, CycleStep(c), ~DecidePause(c) PROVE InFlight(j)
      <4>1. CASE DecideKeys(c)
        BY <1>1, <3>0, <4>1 DEF DecideKeys, InFlight
      <4>2. CASE FinishPause(c)
        <5>1. j # <<c, 0>>
          BY <1>1, <4>2 DEF FinishPause, InFlight, IdleJob, IInv, TypeOK
        <5> QED BY <1>1, <4>2, <5>1 DEF FinishPause, InFlight, IInv, TypeOK
      <4>3. CASE ~DecideKeys(c) /\ ~FinishPause(c)
        <5>1. job' = job
          BY <3>1, <4>3 DEF CycleStep, StartCycle, ReadModules, CacheContracts,
             CollectData, ReadVersion, ReadGuardians, ReadBalance
        <5> QED BY <1>1, <5>1 DEF InFlight
      <4> QED BY <4>1, <4>2, <4>3
    <3>2. ASSUME NEW c \in Cycles, DecidePause(c), j[1] # c PROVE InFlight(j)
      BY <1>1, <3>2, PauseJob DEF DecidePause, InFlight, IInv, TypeOK
    <3>3. ASSUME NEW k \in KeyTasks, KeysStep(k) PROVE InFlight(j)
      BY <1>1, <3>0, <3>3, PauseJob DEF KeysStep, CheckKeys, HandleDeposit, FinishKeys,
         InFlight, IInv, TypeOK
    <3>4. ASSUME NEW i \in Jobs, JobStep(i) \/ JobFails(i) PROVE InFlight(j)
      <4>1. InFlight(i)
        BY <3>4 DEF JobStep, Sign, Publish, Transmit, JobFails, InFlight
      <4>2. i # j => job'[j] = job[j]
        BY <3>4 DEF JobStep, Sign, Publish, Transmit, JobFails, IInv, TypeOK
      <4> QED BY <1>1, <4>1, <4>2 DEF InFlight
    <3>5. CASE Surroundings \/ (\E t \in Tasks : TaskFails(t) \/ TimesOut(t)) \/ UNCHANGED vars
      <4>1. job' = job
        BY <3>5 DEF Surroundings, PublishPing, PingFails, TxMined, TxFails, TxTimesOut,
           NewSnapshot, TaskFails, TimesOut, vars
      <4> QED BY <1>1, <4>1 DEF InFlight
    <3> QED BY <3>1, <3>2, <3>3, <3>4, <3>5 DEF Next, Surroundings
  <2>4. chain[task[j[1]].snap].threat
    BY <1>1, <2>2, <2>3 DEF PausesForThreats
  <2> QED BY <1>0, <2>1, <2>4 DEF SameContext
<1>2. ASSUME NEW j \in Jobs, Transmit(j), NEW b, b = Message(j)
      PROVE  /\ b.snap \in Snaps
             /\ b.kind = "pause" => chain[b.snap].threat
  <2>1. InFlight(j) /\ b.kind = KindOf(j) /\ b.snap = task[j[1]].snap
    BY <1>2 DEF Transmit, InFlight, Message
  <2> QED BY <2>1 DEF PausesForThreats, IInv, ContextsUsable, UsableContext
<1>3. ASSUME NEW b \in bus', b.kind # "ping"
      PROVE  b \in bus \/ \E j \in Jobs : Transmit(j) /\ b = Message(j)
  BY <1>3, WhoSends
<1>4. ASSUME NEW b \in bus', b.kind \in {"pause", "deposit"}
      PROVE  /\ b.snap \in Snaps
             /\ b.kind = "pause" => chain'[b.snap].threat
  BY <1>0, <1>2, <1>3, <1>4 DEF PausesForThreats
<1>5. \A j \in Jobs : KindOf(j)' = KindOf(j)
  BY DEF KindOf
<1> QED BY <1>1, <1>4, <1>5 DEF PausesForThreats

\* While threats last, an attestation that comes after the pause of a block, from
\* a key task that was already running, is of an older block
\* (guardian.service.ts:206-238).
THEOREM PauseComesLast ==
    Spec /\ []ThreatsPersist => NoAttestationBehindPause
<1>1. Init => PausesForThreats
  BY DEF Init, PausesForThreats, InFlight, IdleJob
<1>2. IInv /\ PausesForThreats /\ ThreatsPersist /\ [Next]_vars /\
      OnlySafeAttested' /\ PausesForThreats' =>
        [\A d \in bus' \ bus : d.kind = "deposit" =>
            \A p \in bus : p.kind = "pause" => d.snap < p.snap]_bus
  <2> SUFFICES ASSUME IInv, PausesForThreats, ThreatsPersist, [Next]_vars,
                      OnlySafeAttested', PausesForThreats',
                      NEW d \in bus' \ bus, d.kind = "deposit",
                      NEW p \in bus, p.kind = "pause"
               PROVE  d.snap < p.snap
    OBVIOUS
  <2>1. chain' = chain
    BY RecordsKept DEF IInv
  <2>2. d.snap \in Snaps /\ ~chain[d.snap].paused /\ ~chain[d.snap].threat
    BY <2>1 DEF OnlySafeAttested, PausesForThreats
  <2>3. p.snap \in Snaps /\ chain[p.snap].threat
    BY DEF PausesForThreats
  <2>4. ~(p.snap <= d.snap)
    BY <2>2, <2>3 DEF ThreatsPersist
  <2> QED BY <2>2, <2>3, <2>4 DEF Snaps
<1> QED BY <1>1, <1>2, PausesForThreatsStep, Inductive, SafeAttested, PTL
    DEF Spec, NoAttestationBehindPause

=============================================================================
