---------------------- MODULE SigningKeysRegistryProofs ----------------------
(***************************************************************************)
(* Proofs about SigningKeysRegistry, for every chain, list of modules,     *)
(* step and number of faults.                                              *)
(*                                                                         *)
(* CacheIsExact and AnswerIsExact are not inductive: what a task writes    *)
(* and returns depends on what it read several awaits before.  Agreement   *)
(* says how that relates to the database at every await, and OneRuns that  *)
(* no other task has changed the database since.                           *)
(***************************************************************************)
EXTENDS SigningKeysRegistry, TLAPS

\* As long as no task has timed out one task is under way, and it is awaited.
OneRuns ==
    /\ up = "down" => \A t \in Tasks : task[t].pc = "idle"
    /\ timeouts = 0 => /\ \A t \in Tasks : task[t].pc # "idle" => task[t].live
                       /\ \A s, t \in Tasks :
                             (task[s].pc # "idle" /\ task[t].pc # "idle") => s = t

\* What a task holds agrees with the database, at each of its awaits.
Agreement(t) ==
    /\ task[t].pc # "idle" => task[t].modules = ModulesAt[task[t].block]
    /\ task[t].pc = "wipe" => db.headers = None /\ db.events = task[t].old
    /\ task[t].pc = "read" =>
          /\ db.headers = None => db.events = {}
          /\ db.headers # None => db.headers.modules = task[t].modules
    /\ task[t].pc \in {"fetch", "insert"} =>
          /\ task[t].next >= 1 /\ task[t].next <= task[t].final
          /\ task[t].final <= MaxBlock
          /\ db.events = TrueUpTo(task[t].modules, task[t].next - 1)
    /\ task[t].pc = "insert" =>
          task[t].todo = EventsOf(task[t].modules, task[t].next, ChunkEnd(t))
    /\ task[t].pc \in {"data", "headers", "fresh"} =>
          db.headers # None /\ db.headers.modules = task[t].modules
    /\ task[t].pc \in {"headers", "fresh"} =>
          task[t].data = {e \in db.events : e.key = task[t].key}
    /\ task[t].pc = "fresh" =>
          task[t].next = db.headers.end + 1 /\ db.headers.end <= task[t].block

Quiet == drops = 0 /\ timeouts = 0

IInv ==
    /\ TypeOK
    /\ OneRuns
    /\ Quiet => \A t \in Tasks : Agreement(t)
    /\ CacheIsExact
    /\ AnswerIsExact

-----------------------------------------------------------------------------
(* The events of a range                                                    *)

LEMMA EventsAreTyped ==
    ASSUME NEW modules, NEW a, NEW b, modules \subseteq Modules
    PROVE  EventsOf(modules, a, b) \subseteq Events
<1> SUFFICES ASSUME NEW x \in Added PROVE Event(x, FALSE) \in Events
  BY DEF EventsOf
<1>1. x \in [module : Modules, key : Keys, block : Deployment + 1..MaxBlock]
  BY KeysAssumption
<1> QED
  BY <1>1 DEF Event, Events

\* An answer is typed, and it is the truth unless it counts as a fault.
LEMMA AnswerFact ==
    ASSUME NEW modules, NEW a, NEW b, modules \subseteq Modules,
           NEW x \in Answers(modules, a, b)
    PROVE  /\ x.events \subseteq Events
           /\ x.fault \in {0, 1}
           /\ x.fault = 0 => x.events = EventsOf(modules, a, b)
<1> DEFINE truth == EventsOf(modules, a, b)
<1>1. truth \subseteq Events
  BY EventsAreTyped
<1>2. \A e \in truth : Event(e, TRUE) \in Events
  BY <1>1 DEF Event, Events
<1> HIDE DEF truth
<1>3. CASE x = [events |-> truth, fault |-> 0]
  BY <1>1, <1>3 DEF truth
<1>4. CASE \E y \in truth : x = [events |-> {e \in truth : e.module # y.module
                                                         \/ e.block # y.block},
                                 fault |-> 1]
  BY <1>1, <1>4
<1>5. CASE \E y \in {z \in truth : z.block > finalized} :
              x = [events |-> {IF e.block = y.block THEN Event(e, TRUE) ELSE e :
                                  e \in truth}, fault |-> 1]
  <2>1. PICK y \in truth :
           x = [events |-> {IF e.block = y.block THEN Event(e, TRUE) ELSE e : e \in truth},
                fault |-> 1]
    BY <1>5
  <2>2. x.events = {IF e.block = y.block THEN Event(e, TRUE) ELSE e : e \in truth}
    BY <2>1
  <2>3. \A e \in truth : (IF e.block = y.block THEN Event(e, TRUE) ELSE e) \in Events
    BY <1>1, <1>2
  <2>4. x.events \subseteq Events
    BY <2>2, <2>3
  <2>5. x.fault = 1
    BY <2>1
  <2> QED
    BY <2>4, <2>5
<1>6. x \in {[events |-> truth, fault |-> 0]}
             \cup {[events |-> {e \in truth : e.module # y.module \/ e.block # y.block},
                    fault |-> 1] : y \in truth}
             \cup {[events |-> {IF e.block = y.block THEN Event(e, TRUE) ELSE e :
                                    e \in truth},
                    fault |-> 1] : y \in {z \in truth : z.block > finalized}}
  BY DEF Answers, truth
<1> QED
  BY <1>3, <1>4, <1>5, <1>6

\* Two adjoining ranges make one.
LEMMA RangesJoin ==
    ASSUME NEW modules, NEW a \in Nat, NEW b \in Nat, a <= b
    PROVE  TrueUpTo(modules, a) \cup EventsOf(modules, a + 1, b) = TrueUpTo(modules, b)
<1>1. 0..b = (0..a) \cup (a + 1..b)
  OBVIOUS
<1> QED
  BY <1>1 DEF TrueUpTo, EventsOf

\* There is nothing up to the first deployment.
LEMMA NothingBeforeDeployment ==
    ASSUME NEW modules, NEW end \in Nat
    PROVE  /\ TrueUpTo(modules, Larger(end, Deployment)) = TrueUpTo(modules, end)
           /\ TrueUpTo(modules, Deployment) = {}
<1>1. \A x \in Added : x.block \in Nat /\ x.block > Deployment
  BY KeysAssumption
<1>2. Deployment \in Nat
  BY KeysAssumption
<1>3. \A x \in Added : x.block \in 0..Larger(end, Deployment) <=> x.block \in 0..end
  BY <1>1, <1>2 DEF Larger
<1>4. \A x \in Added : x.block \notin 0..Deployment
  BY <1>1, <1>2
<1> QED
  BY <1>3, <1>4 DEF TrueUpTo, EventsOf

-----------------------------------------------------------------------------
(* Types                                                                    *)

LEMMA IdleTyped == IdleTask \in TaskType /\ IdleTask.pc = "idle" /\ ~IdleTask.live
BY KeysAssumption DEF IdleTask, TaskType, ModuleSets, EventSets

\* The fields a step may set, together with the program counter.
LEMMA FieldsTyped ==
    ASSUME NEW r \in TaskType
    PROVE  /\ \A S \in EventSets :
              /\ [r EXCEPT !.pc = "wipe", !.old = S] \in TaskType
              /\ [r EXCEPT !.pc = "read", !.old = S] \in TaskType
              /\ [r EXCEPT !.pc = "insert", !.todo = S] \in TaskType
           /\ \A n \in Nat, f \in 0..MaxBlock - Depth :
                 [r EXCEPT !.pc = "fetch", !.final = f, !.next = n] \in TaskType
           /\ \A n \in Nat, S \in EventSets :
                 [r EXCEPT !.pc = "fetch", !.todo = S, !.next = n] \in TaskType
           /\ \A k \in Keys, S \in EventSets :
                 [r EXCEPT !.pc = "headers", !.key = k, !.data = S] \in TaskType
           /\ \A n \in Nat, m \in ModuleSets, S \in EventSets :
                 [r EXCEPT !.pc = "fresh", !.next = n, !.modules = m, !.data = S] \in TaskType
           /\ [r EXCEPT !.live = FALSE] \in TaskType
BY DEF TaskType

LEMMA UpdatingTyped ==
    ASSUME TypeOK, NEW b \in RecentBlocks
    PROVE  /\ Updating(b) \in TaskType
           /\ Updating(b).pc = "compare" /\ Updating(b).live
           /\ Updating(b).modules = ModulesAt[Updating(b).block]
<1>1. b \in 0..MaxBlock
  BY KeysAssumption DEF RecentBlocks, Larger, TypeOK
<1>2. ModulesAt[b] \subseteq Modules
  BY <1>1, KeysAssumption
<1> QED
  <2> DEFINE r == [IdleTask EXCEPT !.pc = "compare", !.live = TRUE, !.block = b,
                                   !.modules = ModulesAt[b]]
  <2>1. ModulesAt[b] \in ModuleSets
    BY <1>2 DEF ModuleSets
  <2>2. IdleTask \in TaskType
    BY IdleTyped
  <2>3. r \in TaskType /\ r.pc = "compare" /\ r.live /\ r.modules = ModulesAt[b] /\ r.block = b
    BY <1>1, <2>1, <2>2 DEF TaskType
  <2> QED
    BY <2>3 DEF Updating

LEMMA HeadersTyped ==
    ASSUME TypeOK
    PROVE  Headers \in HeadersType /\ (db.headers # None => Headers = db.headers)
BY KeysAssumption DEF TypeOK, Headers, HeadersType, ModuleSets

LEMMA ThrowsTyped ==
    ASSUME TypeOK, NEW t \in Tasks, Throws(t) \/ ProcessEnds
    PROVE  up' \in {"down", "init", "running"} /\ task' \in [Tasks -> TaskType]
BY IdleTyped DEF TypeOK, Throws, ProcessEnds

LEMMA UpdateDoneTyped ==
    ASSUME TypeOK, NEW t \in Tasks, UpdateDone(t)
    PROVE  up' \in {"down", "init", "running"} /\ task' \in [Tasks -> TaskType]
<1>1. [task[t] EXCEPT !.pc = "data"] \in TaskType
  BY DEF TypeOK, TaskType
<1> QED
  BY <1>1, IdleTyped DEF TypeOK, UpdateDone

LEMMA InitTyped == Init => TypeOK
BY KeysAssumption, IdleTyped DEF Init, TypeOK, EventSets

LEMMA TypeStep == TypeOK /\ [Next]_vars => TypeOK'
<1> SUFFICES ASSUME TypeOK, [Next]_vars PROVE TypeOK'
  OBVIOUS
<1>1. ASSUME NEW t \in Tasks, Boot(t) \/ StartTask(t) PROVE TypeOK'
  <2>1. PICK b \in RecentBlocks : task' = [task EXCEPT ![t] = Updating(b)]
    BY <1>1 DEF Boot, StartTask
  <2>2. task' \in [Tasks -> TaskType]
    BY <2>1, UpdatingTyped DEF TypeOK
  <2> QED
    BY <1>1, <2>2 DEF TypeOK, Boot, StartTask, faults
<1>2. ASSUME NEW t \in Tasks, Compare(t) PROVE TypeOK'
  <2>1. task' \in [Tasks -> TaskType]
    BY <1>2 DEF Compare, TypeOK, TaskType
  <2> QED
    BY <1>2, <2>1 DEF TypeOK, Compare, faults
<1>3. ASSUME NEW t \in Tasks, Clear(t) PROVE TypeOK'
  <2>1. PICK gone \in SUBSET db.events :
           /\ db' = [events |-> db.events \ gone, headers |-> None]
           /\ task' = [task EXCEPT ![t] = [@ EXCEPT !.pc = "wipe", !.old = db.events \ gone]]
    BY <1>3 DEF Clear
  <2>2. db.events \ gone \in EventSets
    BY DEF TypeOK, EventSets
  <2>3. task' \in [Tasks -> TaskType]
    <3>1. [task[t] EXCEPT !.pc = "wipe", !.old = db.events \ gone] \in TaskType
      BY <2>2, FieldsTyped DEF TypeOK
    <3> QED
      BY <2>1, <3>1 DEF TypeOK
  <2> QED
    BY <1>3, <2>1, <2>2, <2>3 DEF TypeOK, Clear, faults
<1>4. ASSUME NEW t \in Tasks, Wipe(t) PROVE TypeOK'
  <2>1. task' \in [Tasks -> TaskType]
    <3>1. {} \in EventSets
      BY DEF EventSets
    <3>2. [task[t] EXCEPT !.pc = "read", !.old = {}] \in TaskType
      BY <3>1 DEF TypeOK, TaskType
    <3> QED
      BY <1>4, <3>2 DEF Wipe, TypeOK
  <2>2. db.events \ task[t].old \in EventSets
    BY DEF TypeOK, EventSets
  <2> QED
    BY <1>4, <2>1, <2>2 DEF TypeOK, Wipe, faults
<1>5. ASSUME NEW t \in Tasks, ReadCache(t) PROVE TypeOK'
  <2> DEFINE end == Larger(Headers.end, Deployment)
  <2>1. end \in Nat /\ finalized \in 0..MaxBlock - Depth
           /\ finalized - 1 \in 0..MaxBlock - Depth
    BY HeadersTyped, KeysAssumption DEF Larger, HeadersType, finalized, TypeOK
  <2> HIDE DEF end
  <2>2. PICK f \in {finalized - 1, finalized} :
           IF f <= end THEN UpdateDone(t)
           ELSE /\ task' = [task EXCEPT ![t] = [@ EXCEPT !.pc = "fetch", !.final = f,
                                                              !.next = end + 1]]
                /\ UNCHANGED up
    BY <1>5 DEF ReadCache, end
  <2>3. up' \in {"down", "init", "running"} /\ task' \in [Tasks -> TaskType]
    <3>1. CASE f <= end
      BY <3>1, <2>2, UpdateDoneTyped
    <3>2. CASE ~(f <= end)
      <4>1. end + 1 \in Nat /\ f \in 0..MaxBlock - Depth /\ task[t] \in TaskType
        BY <2>1 DEF TypeOK
      <4>2. [task[t] EXCEPT !.pc = "fetch", !.final = f, !.next = end + 1] \in TaskType
        BY <4>1, FieldsTyped
      <4> QED
        BY <3>2, <4>2, <2>2 DEF TypeOK
    <3> QED
      BY <3>1, <3>2
  <2> QED
    BY <1>5, <2>3 DEF TypeOK, ReadCache, faults
<1>6. ASSUME NEW t \in Tasks, FetchChunk(t) PROVE TypeOK'
  <2>1. PICK a \in Answers(task[t].modules, task[t].next, ChunkEnd(t)) :
           /\ drops' = drops + a.fault
           /\ task' = [task EXCEPT ![t] = [@ EXCEPT !.pc = "insert", !.todo = a.events]]
    BY <1>6 DEF FetchChunk
  <2>2. task[t].modules \subseteq Modules
    BY DEF TypeOK, TaskType, ModuleSets
  <2>3. a.events \in EventSets /\ a.fault \in {0, 1}
    BY <2>2, AnswerFact DEF EventSets
  <2>4. [task[t] EXCEPT !.pc = "insert", !.todo = a.events] \in TaskType
    BY <2>3, FieldsTyped DEF TypeOK
  <2>5. task' \in [Tasks -> TaskType] /\ drops' \in Nat
    BY <2>1, <2>3, <2>4 DEF TypeOK
  <2> QED
    BY <1>6, <2>5 DEF TypeOK, FetchChunk
<1>7. ASSUME NEW t \in Tasks, InsertChunk(t) PROVE TypeOK'
  <2>1. task[t] \in TaskType
    BY DEF TypeOK
  <2>2. ChunkEnd(t) \in 0..MaxBlock - Depth
    <3>1. task[t].next \in Nat /\ task[t].final \in 0..MaxBlock - Depth
      BY <2>1 DEF TaskType
    <3> QED
      BY <3>1, KeysAssumption DEF ChunkEnd, Smaller
  <2>3. db' \in [events : EventSets, headers : HeadersType \cup {None}]
    <3>1. db.events \cup task[t].todo \in EventSets
      BY <2>1 DEF TypeOK, TaskType, EventSets
    <3> QED
      BY <1>7, <2>1, <2>2, <3>1 DEF InsertChunk, TaskType, HeadersType
  <2>4. up' \in {"down", "init", "running"} /\ task' \in [Tasks -> TaskType]
    <3>1. CASE task[t].next + Step <= task[t].final
      <4>1. task[t].next + Step \in Nat
        BY <2>1, KeysAssumption DEF TaskType
      <4>2. {} \in EventSets
        BY DEF EventSets
      <4>3. [task[t] EXCEPT !.pc = "fetch", !.todo = {}, !.next = task[t].next + Step]
               \in TaskType
        BY <2>1, <4>1, <4>2, FieldsTyped
      <4> QED
        BY <1>7, <3>1, <4>3 DEF InsertChunk, NextChunk, TypeOK
    <3>2. CASE ~(task[t].next + Step <= task[t].final)
      BY <1>7, <3>2, UpdateDoneTyped DEF InsertChunk, NextChunk
    <3> QED
      BY <3>1, <3>2
  <2> QED
    BY <1>7, <2>3, <2>4 DEF TypeOK, InsertChunk, faults
<1>8. ASSUME NEW t \in Tasks, NothingToAsk(t) PROVE TypeOK'
  BY <1>8, IdleTyped DEF TypeOK, NothingToAsk, faults
<1>9. ASSUME NEW t \in Tasks, ReadData(t) PROVE TypeOK'
  <2>1. PICK k \in Keys :
           task' = [task EXCEPT ![t] = [@ EXCEPT !.pc = "headers", !.key = k,
                                        !.data = {e \in db.events : e.key = k}]]
    BY <1>9 DEF ReadData
  <2>2. {e \in db.events : e.key = k} \in EventSets
    BY DEF TypeOK, EventSets
  <2>3. [task[t] EXCEPT !.pc = "headers", !.key = k,
                        !.data = {e \in db.events : e.key = k}] \in TaskType
    BY <2>2, FieldsTyped DEF TypeOK
  <2>4. task' \in [Tasks -> TaskType]
    BY <2>1, <2>3 DEF TypeOK
  <2> QED
    BY <1>9, <2>4 DEF TypeOK, ReadData, faults
<1>10. ASSUME NEW t \in Tasks, ReadHeaders(t) PROVE TypeOK'
  <2> DEFINE S == IF db.headers = None THEN {} ELSE task[t].data
  <2>1. S \in EventSets /\ Headers.end + 1 \in Nat /\ Headers.modules \in ModuleSets
    BY HeadersTyped DEF TypeOK, TaskType, EventSets, HeadersType
  <2> HIDE DEF S
  <2>2. [task[t] EXCEPT !.pc = "fresh", !.next = Headers.end + 1,
                        !.modules = Headers.modules, !.data = S] \in TaskType
    BY <2>1, FieldsTyped DEF TypeOK
  <2>3. up' \in {"down", "init", "running"} /\ task' \in [Tasks -> TaskType]
    <3>1. CASE task[t].block < Headers.end
      BY <1>10, <3>1, ThrowsTyped DEF ReadHeaders
    <3>2. CASE ~(task[t].block < Headers.end)
      BY <1>10, <3>2, <2>2 DEF ReadHeaders, TypeOK, S
    <3> QED
      BY <3>1, <3>2
  <2> QED
    BY <1>10, <2>3 DEF TypeOK, ReadHeaders, faults
<1>11. ASSUME NEW t \in Tasks, ServeKey(t) PROVE TypeOK'
  <2> DEFINE Answer(a) == [key |-> task[t].key, block |-> task[t].block,
                           modules |-> task[t].modules,
                           events |-> task[t].data
                                      \cup {e \in a.events : e.key = task[t].key}]
  <2>1. PICK a \in Answers(task[t].modules, task[t].next, task[t].block) :
           /\ drops' = drops + a.fault
           /\ served' \in {Answer(a), served}
    BY <1>11 DEF ServeKey
  <2>2. task[t].modules \subseteq Modules /\ task[t] \in TaskType
    BY DEF TypeOK, TaskType, ModuleSets
  <2>3. a.events \subseteq Events /\ a.fault \in {0, 1}
    BY <2>2, AnswerFact
  <2>4. task[t].data \cup {e \in a.events : e.key = task[t].key} \in EventSets
    BY <2>2, <2>3 DEF TaskType, EventSets
  <2>5. Answer(a) \in [key : Keys \cup {None}, block : 0..MaxBlock, modules : ModuleSets,
                       events : EventSets]
    BY <2>2, <2>4 DEF TaskType
  <2>6. served' \in [key : Keys \cup {None}, block : 0..MaxBlock, modules : ModuleSets,
                     events : EventSets] \cup {None}
    BY <2>1, <2>5 DEF TypeOK
  <2>7. drops' \in Nat
    BY <2>1, <2>3 DEF TypeOK
  <2>8. task' \in [Tasks -> TaskType]
    BY <1>11, IdleTyped DEF ServeKey, TypeOK
  <2> QED
    BY <1>11, <2>6, <2>7, <2>8 DEF TypeOK, ServeKey
<1>12. ASSUME NEW t \in Tasks, Fails(t) PROVE TypeOK'
  BY <1>12, ThrowsTyped DEF TypeOK, Fails
<1>13. ASSUME NEW t \in Tasks, TimesOut(t) PROVE TypeOK'
  <2>1. [task[t] EXCEPT !.live = FALSE] \in TaskType
    BY FieldsTyped DEF TypeOK
  <2> QED
    BY <1>13, <2>1 DEF TypeOK, TimesOut
<1>14. CASE Crash
  BY <1>14, IdleTyped DEF TypeOK, Crash, ProcessEnds
<1>15. CASE NewBlock
  BY <1>15, KeysAssumption DEF TypeOK, NewBlock, faults
<1>16. CASE UNCHANGED vars
  BY <1>16 DEF TypeOK, vars, faults
<1> QED
  BY <1>1, <1>2, <1>3, <1>4, <1>5, <1>6, <1>7, <1>8, <1>9, <1>10, <1>11, <1>12,
     <1>13, <1>14, <1>15, <1>16 DEF Next, UpdateStep, ServeStep

\* Every variable keeps its type, whatever goes wrong: what is stored, fetched
\* and returned by the registry are events of the modules' contracts.
THEOREM TypeCorrect == Spec => []TypeOK
BY InitTyped, TypeStep, PTL DEF Spec

-----------------------------------------------------------------------------
(* One task at a time                                                       *)

\* A step of a task that is under way, which stays awaited or is over.
LEMMA TaskMoves ==
    ASSUME TypeOK, OneRuns, NEW t \in Tasks, NEW r, task[t].pc # "idle",
           task' = [task EXCEPT ![t] = r], r.pc = "idle" \/ r.live = task[t].live,
           up' = up \/ up' = "running", timeouts' = timeouts
    PROVE  OneRuns'
BY DEF OneRuns, TypeOK

LEMMA AllEnd ==
    ASSUME ProcessEnds
    PROVE  \A t \in Tasks : (task[t].pc = "idle")'
BY IdleTyped DEF ProcessEnds

LEMMA OneRunsStep == TypeOK /\ OneRuns /\ [Next]_vars => OneRuns'
<1> SUFFICES ASSUME TypeOK, OneRuns, [Next]_vars PROVE OneRuns'
  OBVIOUS
<1>1. \A t \in Tasks : task[t] \in TaskType
  BY DEF TypeOK
<1>2. ASSUME NEW t \in Tasks, task[t].pc # "idle", Throws(t) \/ ProcessEnds,
             timeouts' = timeouts
      PROVE  OneRuns'
  <2>1. CASE ProcessEnds
    BY <1>2, <2>1, AllEnd DEF OneRuns
  <2>2. CASE Throws(t) /\ ~ProcessEnds
    BY <1>2, <2>2, TaskMoves, IdleTyped DEF Throws
  <2> QED
    BY <1>2, <2>1, <2>2
<1>3. ASSUME NEW t \in Tasks, task[t].pc # "idle", UpdateDone(t), timeouts' = timeouts
      PROVE  OneRuns'
  <2>1. [task[t] EXCEPT !.pc = "data"].live = task[t].live
    BY <1>1 DEF TaskType
  <2>2. PICK r : task' = [task EXCEPT ![t] = r] /\ (r.pc = "idle" \/ r.live = task[t].live)
    BY <1>3, <2>1, IdleTyped DEF UpdateDone
  <2> QED
    BY <1>3, <2>2, TaskMoves DEF UpdateDone
<1>4. ASSUME NEW t \in Tasks, Boot(t) \/ StartTask(t) PROVE OneRuns'
  <2>1. PICK b \in RecentBlocks : task' = [task EXCEPT ![t] = Updating(b)]
    BY <1>4 DEF Boot, StartTask
  <2>2. timeouts = 0 => \A s \in Tasks : task[s].pc = "idle"
    BY <1>4 DEF Boot, StartTask, OneRuns
  <2>3. up' # "down" /\ timeouts' = timeouts
    BY <1>4 DEF Boot, StartTask, faults
  <2> QED
    BY <2>1, <2>2, <2>3, UpdatingTyped DEF OneRuns, TypeOK
<1>5. ASSUME NEW t \in Tasks, Compare(t) PROVE OneRuns'
  <2>1. PICK p : task' = [task EXCEPT ![t] = [@ EXCEPT !.pc = p]]
    BY <1>5 DEF Compare
  <2>2. [task[t] EXCEPT !.pc = p].live = task[t].live
    BY <1>1 DEF TaskType
  <2> QED
    BY <1>5, <2>1, <2>2, TaskMoves DEF Compare, faults
<1>6. ASSUME NEW t \in Tasks, Clear(t) \/ Wipe(t) PROVE OneRuns'
  <2>1. PICK p, S : task' = [task EXCEPT ![t] = [@ EXCEPT !.pc = p, !.old = S]]
    BY <1>6 DEF Clear, Wipe
  <2>2. [task[t] EXCEPT !.pc = p, !.old = S].live = task[t].live
    BY <1>1 DEF TaskType
  <2> QED
    BY <1>6, <2>1, <2>2, TaskMoves DEF Clear, Wipe, faults
<1>7. ASSUME NEW t \in Tasks, ReadCache(t) PROVE OneRuns'
  <2>1. CASE UpdateDone(t)
    BY <1>7, <2>1, <1>3 DEF ReadCache, faults
  <2>2. CASE ~UpdateDone(t)
    <3>1. PICK f, n : task' = [task EXCEPT ![t] = [@ EXCEPT !.pc = "fetch", !.final = f,
                                                            !.next = n]]
      BY <1>7, <2>2 DEF ReadCache
    <3>2. [task[t] EXCEPT !.pc = "fetch", !.final = f, !.next = n].live = task[t].live
      BY <1>1 DEF TaskType
    <3> QED
      BY <1>7, <2>2, <3>1, <3>2, TaskMoves DEF ReadCache, faults
  <2> QED
    BY <2>1, <2>2
<1>8. ASSUME NEW t \in Tasks, FetchChunk(t) PROVE OneRuns'
  <2>1. PICK S : task' = [task EXCEPT ![t] = [@ EXCEPT !.pc = "insert", !.todo = S]]
    BY <1>8 DEF FetchChunk
  <2>2. [task[t] EXCEPT !.pc = "insert", !.todo = S].live = task[t].live
    BY <1>1 DEF TaskType
  <2> QED
    BY <1>8, <2>1, <2>2, TaskMoves DEF FetchChunk
<1>9. ASSUME NEW t \in Tasks, InsertChunk(t) PROVE OneRuns'
  <2>1. CASE UpdateDone(t)
    BY <1>9, <2>1, <1>3 DEF InsertChunk, faults
  <2>2. CASE ~UpdateDone(t)
    <3>1. PICK n : task' = [task EXCEPT ![t] = [@ EXCEPT !.pc = "fetch", !.todo = {},
                                                         !.next = n]]
      BY <1>9, <2>2 DEF InsertChunk, NextChunk
    <3>2. [task[t] EXCEPT !.pc = "fetch", !.todo = {}, !.next = n].live = task[t].live
      BY <1>1 DEF TaskType
    <3> QED
      BY <1>9, <2>2, <3>1, <3>2, TaskMoves DEF InsertChunk, NextChunk, faults
  <2> QED
    BY <2>1, <2>2
<1>10. ASSUME NEW t \in Tasks, NothingToAsk(t) \/ ServeKey(t) PROVE OneRuns'
  BY <1>10, IdleTyped, TaskMoves DEF NothingToAsk, ServeKey, faults
<1>11. ASSUME NEW t \in Tasks, ReadData(t) PROVE OneRuns'
  <2>1. PICK k, S : task' = [task EXCEPT ![t] = [@ EXCEPT !.pc = "headers", !.key = k,
                                                          !.data = S]]
    BY <1>11 DEF ReadData
  <2>2. [task[t] EXCEPT !.pc = "headers", !.key = k, !.data = S].live = task[t].live
    BY <1>1 DEF TaskType
  <2> QED
    BY <1>11, <2>1, <2>2, TaskMoves DEF ReadData, faults
<1>12. ASSUME NEW t \in Tasks, ReadHeaders(t) PROVE OneRuns'
  <2>1. CASE task[t].block < Headers.end
    BY <1>12, <2>1, <1>2 DEF ReadHeaders, faults
  <2>2. CASE ~(task[t].block < Headers.end)
    <3>1. PICK n, m, S : task' = [task EXCEPT ![t] = [@ EXCEPT !.pc = "fresh", !.next = n,
                                                               !.modules = m, !.data = S]]
      BY <1>12, <2>2 DEF ReadHeaders
    <3>2. [task[t] EXCEPT !.pc = "fresh", !.next = n, !.modules = m, !.data = S].live
             = task[t].live
      BY <1>1 DEF TaskType
    <3> QED
      BY <1>12, <2>2, <3>1, <3>2, TaskMoves DEF ReadHeaders, faults
  <2> QED
    BY <2>1, <2>2
<1>13. ASSUME NEW t \in Tasks, Fails(t) PROVE OneRuns'
  BY <1>13, <1>2 DEF Fails
<1>14. ASSUME NEW t \in Tasks, TimesOut(t) PROVE OneRuns'
  <2>1. timeouts' # 0 /\ up' # "down"
    BY <1>14 DEF TimesOut, TypeOK
  <2> QED
    BY <2>1 DEF OneRuns
<1>15. CASE Crash
  BY <1>15, AllEnd DEF Crash, OneRuns
<1>16. CASE NewBlock \/ UNCHANGED vars
  BY <1>16 DEF NewBlock, OneRuns, vars, faults
<1> QED
  BY <1>4, <1>5, <1>6, <1>7, <1>8, <1>9, <1>10, <1>11, <1>12, <1>13, <1>14, <1>15,
     <1>16 DEF Next, UpdateStep, ServeStep

-----------------------------------------------------------------------------
(* The records, the headers and the answers                                 *)

\* An idle task holds nothing.
LEMMA IdleAgrees ==
    ASSUME NEW t \in Tasks, (task[t].pc = "idle")'
    PROVE  Agreement(t)'
BY DEF Agreement

\* When one task moves, the others are idle and stay so.
LEMMA OthersAgree ==
    ASSUME TypeOK, OneRuns, timeouts = 0, NEW t \in Tasks, NEW r, task[t].pc # "idle",
           task' = [task EXCEPT ![t] = r]
    PROVE  /\ \A s \in Tasks \ {t} : Agreement(s)'
           /\ task'[t] = r
<1>1. \A s \in Tasks \ {t} : task'[s].pc = "idle"
  BY DEF OneRuns, TypeOK
<1> QED
  BY <1>1, IdleAgrees DEF TypeOK

\* Where nothing is stored or returned, and the count of faults is as before,
\* it is the tasks that count.
LEMMA OnlyTasks ==
    ASSUME IInv, drops' = drops, timeouts' = timeouts, db' = db, served' = served,
           Quiet => \A t \in Tasks : Agreement(t)'
    PROVE  (Quiet => \A t \in Tasks : Agreement(t))' /\ CacheIsExact' /\ AnswerIsExact'
BY DEF IInv, Quiet, CacheIsExact, AnswerIsExact

LEMMA ExactStep ==
    IInv /\ [Next]_vars
        => (Quiet => \A t \in Tasks : Agreement(t))' /\ CacheIsExact' /\ AnswerIsExact'
<1> DEFINE Exact == (Quiet => \A t \in Tasks : Agreement(t)) /\ CacheIsExact /\ AnswerIsExact
<1> SUFFICES ASSUME IInv, [Next]_vars PROVE Exact'
  OBVIOUS
<1>0. TypeOK /\ OneRuns /\ CacheIsExact /\ AnswerIsExact
         /\ (Quiet => \A t \in Tasks : Agreement(t))
  BY DEF IInv
<1>t. \A t \in Tasks : task[t] \in TaskType
  BY <1>0 DEF TypeOK
<1> HIDE DEF Exact
<1>1. ASSUME NEW t \in Tasks, task[t].pc # "idle", Throws(t) \/ ProcessEnds,
             timeouts' = timeouts, drops' = drops, db' = db, served' = served
      PROVE  Exact'
  <2>1. CASE ProcessEnds
    BY <1>1, <2>1, AllEnd, IdleAgrees, OnlyTasks DEF Exact
  <2>2. CASE Throws(t) /\ ~ProcessEnds
    <3>1. Quiet => \A s \in Tasks : Agreement(s)'
      BY <1>0, <1>1, <2>2, OthersAgree, IdleTyped, IdleAgrees DEF Throws, Quiet
    <3> QED
      BY <1>1, <3>1, OnlyTasks DEF Exact
  <2> QED
    BY <1>1, <2>1, <2>2
<1>2. ASSUME NEW t \in Tasks, Boot(t) \/ StartTask(t) PROVE Exact'
  <2>1. PICK b \in RecentBlocks : task' = [task EXCEPT ![t] = Updating(b)]
    BY <1>2 DEF Boot, StartTask
  <2>2. Quiet => \A s \in Tasks : task[s].pc = "idle"
    BY <1>0, <1>2 DEF Boot, StartTask, OneRuns, Quiet
  <2>3. \A s \in Tasks : task'[s] = IF s = t THEN Updating(b) ELSE task[s]
    BY <1>0, <2>1 DEF TypeOK
  <2>4. Agreement(t)'
    BY <1>0, <2>3, UpdatingTyped DEF Agreement
  <2>5. Quiet => \A s \in Tasks : Agreement(s)'
    BY <2>2, <2>3, <2>4, IdleAgrees
  <2> QED
    BY <1>2, <2>5, OnlyTasks DEF Exact, Boot, StartTask, faults
<1>3. ASSUME NEW t \in Tasks, Compare(t) PROVE Exact'
  <2> DEFINE p == IF wasStakingModulesListUpdated(Headers.modules, task[t].modules)
                  THEN "clear" ELSE "read"
  <2> DEFINE r == [task[t] EXCEPT !.pc = p]
  <2>1. r.pc = p /\ r.block = task[t].block /\ r.modules = task[t].modules
    BY <1>t DEF TaskType
  <2>2. task' = [task EXCEPT ![t] = r] /\ db' = db /\ task[t].pc = "compare"
    BY <1>3 DEF Compare
  <2>3. ASSUME Quiet, p = "read"
        PROVE  db.headers # None /\ db.headers.modules = task[t].modules
    <3>1. Headers.modules = task[t].modules
      BY <2>3 DEF wasStakingModulesListUpdated
    <3>2. task[t].modules = ModulesAt[task[t].block] /\ task[t].block \in 0..MaxBlock
      BY <1>0, <1>t, <2>2, <2>3 DEF Agreement, TaskType
    <3>3. task[t].modules # {}
      BY <3>2, KeysAssumption
    <3> QED
      BY <3>1, <3>3 DEF Headers
  <2>4. p \in {"clear", "read"}
    OBVIOUS
  <2> HIDE DEF p, r
  <2>5. ASSUME Quiet PROVE Agreement(t)'
    <3>1. task'[t] = r
      BY <1>0, <2>2 DEF TypeOK
    <3>2. r.modules = ModulesAt[r.block]
      BY <1>0, <2>1, <2>2, <2>5 DEF Agreement
    <3> QED
      BY <2>1, <2>2, <2>3, <2>4, <2>5, <3>1, <3>2 DEF Agreement
  <2>6. Quiet => \A s \in Tasks : Agreement(s)'
    BY <1>0, <2>2, <2>5, OthersAgree DEF Quiet
  <2> QED
    BY <1>3, <2>6, OnlyTasks DEF Exact, Compare, faults
<1>4. ASSUME NEW t \in Tasks, Clear(t) PROVE Exact'
  <2>1. PICK gone \in SUBSET db.events :
           /\ db' = [events |-> db.events \ gone, headers |-> None]
           /\ task' = [task EXCEPT ![t] = [@ EXCEPT !.pc = "wipe", !.old = db.events \ gone]]
    BY <1>4 DEF Clear
  <2> DEFINE r == [task[t] EXCEPT !.pc = "wipe", !.old = db.events \ gone]
  <2>2. r.pc = "wipe" /\ r.block = task[t].block /\ r.modules = task[t].modules
           /\ r.old = db.events \ gone
    BY <1>t DEF TaskType
  <2>3. task' = [task EXCEPT ![t] = r] /\ task[t].pc = "clear"
    BY <1>4, <2>1 DEF Clear
  <2> HIDE DEF r
  <2>4. ASSUME Quiet PROVE Agreement(t)'
    <3>1. task'[t] = r
      BY <1>0, <2>3 DEF TypeOK
    <3>2. r.modules = ModulesAt[r.block]
      BY <1>0, <2>2, <2>3, <2>4 DEF Agreement
    <3> QED
      BY <2>1, <2>2, <3>1, <3>2 DEF Agreement
  <2>5. Quiet => \A s \in Tasks : Agreement(s)'
    BY <1>0, <2>3, <2>4, OthersAgree DEF Quiet
  <2>6. CacheIsExact'
    BY <2>1 DEF CacheIsExact
  <2>7. AnswerIsExact' /\ (Quiet' => Quiet)
    BY <1>0, <1>4 DEF AnswerIsExact, Clear, faults, Quiet
  <2> QED
    BY <2>5, <2>6, <2>7 DEF Exact
<1>5. ASSUME NEW t \in Tasks, Wipe(t) PROVE Exact'
  <2> DEFINE r == [task[t] EXCEPT !.pc = "read", !.old = {}]
  <2>1. r.pc = "read" /\ r.block = task[t].block /\ r.modules = task[t].modules
    BY <1>t DEF TaskType
  <2>2. task' = [task EXCEPT ![t] = r] /\ task[t].pc = "wipe"
           /\ db' = [db EXCEPT !.events = db.events \ task[t].old]
    BY <1>5 DEF Wipe
  <2> HIDE DEF r
  <2>3. ASSUME Quiet PROVE db'.headers = None /\ db'.events = {}
    BY <1>0, <2>2, <2>3 DEF Agreement, TypeOK
  <2>4. ASSUME Quiet PROVE Agreement(t)'
    <3>1. task'[t] = r
      BY <1>0, <2>2 DEF TypeOK
    <3>2. r.modules = ModulesAt[r.block]
      BY <1>0, <2>1, <2>2, <2>4 DEF Agreement
    <3> QED
      BY <2>1, <2>3, <2>4, <3>1, <3>2 DEF Agreement
  <2>5. Quiet => \A s \in Tasks : Agreement(s)'
    BY <1>0, <2>2, <2>4, OthersAgree DEF Quiet
  <2>6. AnswerIsExact' /\ (Quiet' => Quiet)
    BY <1>0, <1>5 DEF AnswerIsExact, Wipe, faults, Quiet
  <2>7. CacheIsExact'
    BY <2>3, <2>6 DEF CacheIsExact, Quiet
  <2> QED
    BY <2>5, <2>6, <2>7 DEF Exact
\* The update is over and its headers are those of the task's modules.
<1>6. ASSUME NEW t \in Tasks, task[t].pc # "idle", UpdateDone(t), Quiet,
             db'.headers # None, db'.headers.modules = task[t].modules
      PROVE  \A s \in Tasks : Agreement(s)'
  <2> DEFINE r == [task[t] EXCEPT !.pc = "data"]
  <2>1. r.pc = "data" /\ r.block = task[t].block /\ r.modules = task[t].modules
    BY <1>t DEF TaskType
  <2>2. r.modules = ModulesAt[r.block]
    BY <1>0, <1>6, <2>1 DEF Agreement
  <2>3. CASE up = "init"
    <3>1. task' = [task EXCEPT ![t] = IdleTask]
      BY <1>6, <2>3 DEF UpdateDone
    <3> QED
      BY <1>0, <1>6, <3>1, OthersAgree, IdleTyped, IdleAgrees DEF Quiet
  <2>4. CASE up # "init"
    <3>1. task' = [task EXCEPT ![t] = r]
      BY <1>6, <2>4 DEF UpdateDone
    <3> HIDE DEF r
    <3>2. task'[t] = r
      BY <1>0, <3>1 DEF TypeOK
    <3>3. Agreement(t)'
      BY <1>6, <2>1, <2>2, <3>2 DEF Agreement
    <3> QED
      BY <1>0, <1>6, <3>1, <3>3, OthersAgree DEF Quiet
  <2> QED
    BY <2>3, <2>4
<1>7. ASSUME NEW t \in Tasks, ReadCache(t) PROVE Exact'
  <2> DEFINE end == Larger(Headers.end, Deployment)
  <2>1. end \in Nat /\ end >= Deployment /\ finalized - 1 >= Deployment + 1
           /\ finalized \in Nat /\ finalized <= MaxBlock
    BY <1>0, HeadersTyped, KeysAssumption DEF Larger, HeadersType, finalized, TypeOK
  <2>2. db.headers = None => end = Deployment
    BY KeysAssumption DEF Headers, Larger
  <2>3. ASSUME Quiet, db.headers # None
        PROVE  db.events = TrueUpTo(task[t].modules, end)
                  /\ db.headers.modules = task[t].modules
    <3>1. db.events = TrueUpTo(db.headers.modules, db.headers.end)
      BY <1>0, <2>3 DEF CacheIsExact, Quiet
    <3>2. db.headers.modules = task[t].modules
      BY <1>0, <1>7, <2>3 DEF Agreement, ReadCache
    <3>3. Headers = db.headers /\ Headers.end \in Nat
      BY <1>0, <2>3, HeadersTyped DEF HeadersType
    <3> QED
      BY <3>1, <3>2, <3>3, NothingBeforeDeployment
  <2>4. ASSUME Quiet, db.headers = None
        PROVE  db.events = TrueUpTo(task[t].modules, end)
    <3>1. db.events = {}
      BY <1>0, <1>7, <2>4 DEF Agreement, ReadCache
    <3>2. TrueUpTo(task[t].modules, Deployment) = {}
      BY NothingBeforeDeployment
    <3> QED
      BY <2>2, <2>4, <3>1, <3>2
  <2> HIDE DEF end
  <2>5. PICK f \in {finalized - 1, finalized} :
           IF f <= end THEN UpdateDone(t)
           ELSE task' = [task EXCEPT ![t] = [@ EXCEPT !.pc = "fetch", !.final = f,
                                                      !.next = end + 1]]
    BY <1>7 DEF ReadCache, end
  <2>6. db' = db /\ task[t].pc = "read"
    BY <1>7 DEF ReadCache
  <2>7. CASE f <= end
    <3>1. db.headers # None
      BY <2>1, <2>2, <2>5, <2>7, KeysAssumption
    <3>2. Quiet => \A s \in Tasks : Agreement(s)'
      BY <1>6, <2>3, <2>5, <2>6, <2>7, <3>1
    <3> QED
      BY <1>7, <3>2, OnlyTasks DEF Exact, ReadCache, faults
  <2>8. CASE ~(f <= end)
    <3> DEFINE r == [task[t] EXCEPT !.pc = "fetch", !.final = f, !.next = end + 1]
    <3>1. r.pc = "fetch" /\ r.block = task[t].block /\ r.modules = task[t].modules
             /\ r.final = f /\ r.next = end + 1
      BY <1>t DEF TaskType
    <3>2. task' = [task EXCEPT ![t] = r]
      BY <2>5, <2>8
    <3> HIDE DEF r
    <3>3. ASSUME Quiet PROVE Agreement(t)'
      <4>1. task'[t] = r
        BY <1>0, <3>2 DEF TypeOK
      <4>2. r.modules = ModulesAt[r.block]
        BY <1>0, <2>6, <3>1, <3>3 DEF Agreement
      <4>3. r.next >= 1 /\ r.next <= r.final /\ r.final <= MaxBlock /\ r.next - 1 = end
        <5>1. f \in Int /\ f <= MaxBlock /\ MaxBlock \in Nat
          BY <2>1, <2>5, KeysAssumption
        <5> QED
          BY <2>1, <2>8, <3>1, <5>1
      <4>4. db'.events = TrueUpTo(r.modules, r.next - 1)
        BY <2>3, <2>4, <2>6, <3>1, <3>3, <4>3
      <4> QED
        BY <3>1, <4>1, <4>2, <4>3, <4>4 DEF Agreement
    <3>4. Quiet => \A s \in Tasks : Agreement(s)'
      BY <1>0, <2>6, <3>2, <3>3, OthersAgree DEF Quiet
    <3> QED
      BY <1>7, <3>4, OnlyTasks DEF Exact, ReadCache, faults
  <2> QED
    BY <2>7, <2>8
<1>8. ASSUME NEW t \in Tasks, FetchChunk(t) PROVE Exact'
  <2>1. PICK a \in Answers(task[t].modules, task[t].next, ChunkEnd(t)) :
           /\ drops' = drops + a.fault
           /\ task' = [task EXCEPT ![t] = [@ EXCEPT !.pc = "insert", !.todo = a.events]]
    BY <1>8 DEF FetchChunk
  <2> DEFINE r == [task[t] EXCEPT !.pc = "insert", !.todo = a.events]
  <2>2. r.pc = "insert" /\ r.block = task[t].block /\ r.modules = task[t].modules
           /\ r.final = task[t].final /\ r.next = task[t].next /\ r.todo = a.events
    BY <1>t DEF TaskType
  <2>3. task' = [task EXCEPT ![t] = r] /\ db' = db /\ task[t].pc = "fetch"
           /\ timeouts' = timeouts /\ served' = served
    BY <1>8, <2>1 DEF FetchChunk
  <2> HIDE DEF r
  <2>4. task[t].modules \subseteq Modules
    BY <1>t DEF TaskType, ModuleSets
  <2>5. a.fault \in {0, 1}
           /\ (a.fault = 0 => a.events = EventsOf(task[t].modules, task[t].next, ChunkEnd(t)))
    BY <2>4, AnswerFact
  <2>6. Quiet' => Quiet /\ a.fault = 0
    BY <1>0, <2>1, <2>3, <2>5 DEF Quiet, TypeOK
  <2>7. ASSUME Quiet' PROVE Agreement(t)'
    <3>1. task'[t] = r
      BY <1>0, <2>3 DEF TypeOK
    <3>2. Agreement(t)
      BY <1>0, <2>6, <2>7
    <3>3. r.modules = ModulesAt[r.block]
      BY <2>2, <2>3, <3>2 DEF Agreement
    <3>4. ChunkEnd(t)' = ChunkEnd(t)
      BY <2>2, <3>1 DEF ChunkEnd
    <3>5. r.todo = EventsOf(r.modules, r.next, ChunkEnd(t)')
      BY <2>2, <2>5, <2>6, <2>7, <3>4
    <3>6. /\ r.next >= 1 /\ r.next <= r.final /\ r.final <= MaxBlock
          /\ db'.events = TrueUpTo(r.modules, r.next - 1)
      BY <2>2, <2>3, <3>2 DEF Agreement
    <3> QED
      BY <2>2, <3>1, <3>3, <3>5, <3>6 DEF Agreement
  <2>8. Quiet' => \A s \in Tasks : Agreement(s)'
    BY <1>0, <2>3, <2>6, <2>7, OthersAgree DEF Quiet
  <2>9. CacheIsExact' /\ AnswerIsExact'
    BY <1>0, <2>3, <2>6 DEF CacheIsExact, AnswerIsExact, Quiet
  <2> QED
    BY <2>8, <2>9 DEF Exact
<1>9. ASSUME NEW t \in Tasks, InsertChunk(t) PROVE Exact'
  <2> DEFINE m == task[t].modules
             n == task[t].next
             last == ChunkEnd(t)
  <2>1. /\ db' = [events |-> db.events \cup task[t].todo,
                  headers |-> [modules |-> m, end |-> last]]
        /\ task[t].pc = "insert"
        /\ served' = served /\ drops' = drops /\ timeouts' = timeouts
        /\ NextChunk(t)
    BY <1>9 DEF InsertChunk, faults
  <2>2. m \in ModuleSets /\ n \in Nat /\ task[t].final \in 0..MaxBlock - Depth
    BY <1>t DEF TaskType
  <2>3. Step \in Nat \ {0} /\ MaxBlock \in Nat /\ Depth \in Nat
    BY KeysAssumption
  <2>4. last \in 0..MaxBlock
    BY <2>2, <2>3 DEF ChunkEnd, Smaller
  <2>5. db'.headers # None /\ db'.headers.modules = m /\ db'.headers.end = last
    BY <2>1, <2>2, <2>4, KeysAssumption DEF ModuleSets
  <2>6. (Quiet' => Quiet) /\ AnswerIsExact'
    BY <1>0, <2>1 DEF Quiet, AnswerIsExact
  <2>7. ASSUME Quiet
        PROVE  /\ db'.events = TrueUpTo(m, last)
               /\ m = ModulesAt[task[t].block]
    <3>1. /\ m = ModulesAt[task[t].block]
          /\ n >= 1 /\ n <= task[t].final
          /\ db.events = TrueUpTo(m, n - 1)
          /\ task[t].todo = EventsOf(m, n, last)
      BY <1>0, <2>1, <2>7 DEF Agreement
    <3>2. n - 1 \in Nat /\ n - 1 <= last /\ (n - 1) + 1 = n /\ last \in Nat
      BY <2>2, <2>3, <3>1 DEF ChunkEnd, Smaller
    <3> HIDE DEF m, n, last
    <3>3. TrueUpTo(m, n - 1) \cup EventsOf(m, n, last) = TrueUpTo(m, last)
      BY <3>2, RangesJoin
    <3> QED
      BY <2>1, <3>1, <3>3
  <2>8. CacheIsExact'
    BY <2>5, <2>6, <2>7 DEF CacheIsExact, Quiet
  <2>9. CASE n + Step <= task[t].final
    <3> DEFINE r == [task[t] EXCEPT !.pc = "fetch", !.todo = {}, !.next = n + Step]
    <3>1. r.pc = "fetch" /\ r.block = task[t].block /\ r.modules = m
             /\ r.final = task[t].final /\ r.next = n + Step
      BY <1>t DEF TaskType
    <3>2. task' = [task EXCEPT ![t] = r]
      BY <2>1, <2>9 DEF NextChunk
    <3>3. r.next - 1 = last /\ r.next >= 1 /\ r.next <= r.final /\ r.final <= MaxBlock
      BY <2>2, <2>3, <2>9, <3>1 DEF ChunkEnd, Smaller
    <3> HIDE DEF r, m, n, last
    <3>4. ASSUME Quiet PROVE Agreement(t)'
      <4>1. task'[t] = r
        BY <1>0, <3>2 DEF TypeOK
      <4>2. r.modules = ModulesAt[r.block] /\ db'.events = TrueUpTo(r.modules, r.next - 1)
        BY <2>7, <3>1, <3>3, <3>4
      <4> QED
        BY <3>1, <3>3, <4>1, <4>2 DEF Agreement
    <3>5. Quiet => \A s \in Tasks : Agreement(s)'
      BY <1>0, <2>1, <3>2, <3>4, OthersAgree DEF Quiet
    <3> QED
      BY <2>6, <2>8, <3>5 DEF Exact
  <2>10. CASE ~(n + Step <= task[t].final)
    <3>1. UpdateDone(t)
      BY <2>1, <2>10 DEF NextChunk
    <3>2. Quiet => \A s \in Tasks : Agreement(s)'
      BY <1>6, <2>1, <2>5, <3>1
    <3> QED
      BY <2>6, <2>8, <3>2 DEF Exact
  <2> QED
    BY <2>9, <2>10
<1>10. ASSUME NEW t \in Tasks, NothingToAsk(t) PROVE Exact'
  <2>1. task' = [task EXCEPT ![t] = IdleTask] /\ task[t].pc = "data"
    BY <1>10 DEF NothingToAsk
  <2>2. Quiet => \A s \in Tasks : Agreement(s)'
    BY <1>0, <2>1, OthersAgree, IdleTyped, IdleAgrees DEF Quiet
  <2> QED
    BY <1>10, <2>2, OnlyTasks DEF Exact, NothingToAsk, faults
<1>11. ASSUME NEW t \in Tasks, ReadData(t) PROVE Exact'
  <2>1. PICK k \in Keys :
           task' = [task EXCEPT ![t] = [@ EXCEPT !.pc = "headers", !.key = k,
                                        !.data = {e \in db.events : e.key = k}]]
    BY <1>11 DEF ReadData
  <2> DEFINE r == [task[t] EXCEPT !.pc = "headers", !.key = k,
                                  !.data = {e \in db.events : e.key = k}]
  <2>2. r.pc = "headers" /\ r.block = task[t].block /\ r.modules = task[t].modules
           /\ r.key = k /\ r.data = {e \in db.events : e.key = k}
    BY <1>t DEF TaskType
  <2>3. task' = [task EXCEPT ![t] = r] /\ db' = db /\ task[t].pc = "data"
    BY <1>11, <2>1 DEF ReadData
  <2> HIDE DEF r
  <2>4. ASSUME Quiet PROVE Agreement(t)'
    <3>1. task'[t] = r
      BY <1>0, <2>3 DEF TypeOK
    <3>2. /\ r.modules = ModulesAt[r.block]
          /\ db'.headers # None /\ db'.headers.modules = r.modules
      BY <1>0, <2>2, <2>3, <2>4 DEF Agreement
    <3>3. r.data = {e \in db'.events : e.key = r.key}
      BY <2>2, <2>3
    <3> QED
      BY <2>2, <3>1, <3>2, <3>3 DEF Agreement
  <2>5. Quiet => \A s \in Tasks : Agreement(s)'
    BY <1>0, <2>3, <2>4, OthersAgree DEF Quiet
  <2> QED
    BY <1>11, <2>5, OnlyTasks DEF Exact, ReadData, faults
<1>12. ASSUME NEW t \in Tasks, ReadHeaders(t) PROVE Exact'
  <2>1. task[t].pc = "headers" /\ db' = db /\ served' = served
           /\ drops' = drops /\ timeouts' = timeouts
    BY <1>12 DEF ReadHeaders, faults
  <2>2. CASE task[t].block < Headers.end
    BY <1>1, <1>12, <2>1, <2>2 DEF ReadHeaders
  <2>3. CASE ~(task[t].block < Headers.end)
    <3> DEFINE S == IF db.headers = None THEN {} ELSE task[t].data
    <3> DEFINE r == [task[t] EXCEPT !.pc = "fresh", !.next = Headers.end + 1,
                                    !.modules = Headers.modules, !.data = S]
    <3>1. r.pc = "fresh" /\ r.block = task[t].block /\ r.modules = Headers.modules
             /\ r.key = task[t].key /\ r.next = Headers.end + 1 /\ r.data = S
      BY <1>t DEF TaskType
    <3>2. task' = [task EXCEPT ![t] = r]
      BY <1>12, <2>3 DEF ReadHeaders
    <3>3. Headers.end \in Nat /\ task[t].block \in Nat
      BY <1>0, <1>t, HeadersTyped DEF HeadersType, TaskType
    <3>4. ASSUME Quiet
          PROVE  /\ db.headers # None /\ db.headers = Headers
                 /\ Headers.modules = task[t].modules
                 /\ task[t].modules = ModulesAt[task[t].block]
                 /\ S = {e \in db.events : e.key = task[t].key}
      BY <1>0, <2>1, <3>4 DEF Agreement, Headers
    <3> HIDE DEF r, S
    <3>5. ASSUME Quiet PROVE Agreement(t)'
      <4>1. task'[t] = r
        BY <1>0, <3>2 DEF TypeOK
      <4>2. /\ r.modules = ModulesAt[r.block]
            /\ db'.headers # None /\ db'.headers.modules = r.modules
        BY <2>1, <3>1, <3>4, <3>5
      <4>3. r.data = {e \in db'.events : e.key = r.key}
        BY <2>1, <3>1, <3>4, <3>5
      <4>4. r.next = db'.headers.end + 1 /\ db'.headers.end <= r.block
        BY <2>1, <2>3, <3>1, <3>3, <3>4, <3>5
      <4> QED
        BY <3>1, <4>1, <4>2, <4>3, <4>4 DEF Agreement
    <3>6. Quiet => \A s \in Tasks : Agreement(s)'
      BY <1>0, <2>1, <3>2, <3>5, OthersAgree DEF Quiet
    <3> QED
      BY <2>1, <3>6, OnlyTasks DEF Exact
  <2> QED
    BY <2>2, <2>3
<1>13. ASSUME NEW t \in Tasks, ServeKey(t) PROVE Exact'
  <2> DEFINE m == task[t].modules
             k == task[t].key
             b == task[t].block
             end == db.headers.end
             Answer(a) == [key |-> k, block |-> b, modules |-> m,
                           events |-> task[t].data \cup {e \in a.events : e.key = k}]
  <2>1. task[t].pc = "fresh" /\ db' = db /\ timeouts' = timeouts
           /\ task' = [task EXCEPT ![t] = IdleTask]
    BY <1>13 DEF ServeKey
  <2>2. PICK a \in Answers(m, task[t].next, b) :
           drops' = drops + a.fault /\ served' \in {Answer(a), served}
    BY <1>13 DEF ServeKey
  <2>3. m \subseteq Modules /\ b \in Nat
    BY <1>t DEF TaskType, ModuleSets
  <2>4. a.fault \in {0, 1} /\ (a.fault = 0 => a.events = EventsOf(m, task[t].next, b))
    BY <2>3, AnswerFact
  <2>5. Quiet' => Quiet /\ a.fault = 0
    BY <1>0, <2>1, <2>2, <2>4 DEF Quiet, TypeOK
  <2>6. Quiet' => \A s \in Tasks : Agreement(s)'
    BY <1>0, <2>1, <2>5, OthersAgree, IdleTyped, IdleAgrees DEF Quiet
  <2>7. CacheIsExact'
    BY <1>0, <2>1, <2>5 DEF CacheIsExact, Quiet
  <2>8. ASSUME Quiet'
        PROVE  /\ m = ModulesAt[b]
               /\ task[t].data \cup {e \in a.events : e.key = k}
                     = {e \in TrueUpTo(m, b) : e.key = k}
    <3>1. /\ m = ModulesAt[b] /\ db.headers # None /\ db.headers.modules = m
          /\ task[t].data = {e \in db.events : e.key = k}
          /\ task[t].next = end + 1 /\ end <= b
      BY <1>0, <2>1, <2>5, <2>8 DEF Agreement
    <3>2. db.events = TrueUpTo(m, end)
      BY <1>0, <2>5, <2>8, <3>1 DEF CacheIsExact, Quiet
    <3>3. end \in Nat
      BY <1>0, <3>1 DEF TypeOK, HeadersType
    <3> HIDE DEF m, k, b, end
    <3>4. TrueUpTo(m, end) \cup EventsOf(m, end + 1, b) = TrueUpTo(m, b)
      BY <2>3, <3>1, <3>3, RangesJoin
    <3>5. a.events = EventsOf(m, end + 1, b)
      BY <2>4, <2>5, <2>8, <3>1
    <3> QED
      BY <3>1, <3>2, <3>4, <3>5
  <2>9. AnswerIsExact'
    <3>1. CASE served' = served
      BY <1>0, <2>5, <3>1 DEF AnswerIsExact, Quiet
    <3>2. CASE served' = Answer(a)
      <4>1. served'.key = k /\ served'.block = b /\ served'.modules = m
               /\ served'.events = task[t].data \cup {e \in a.events : e.key = k}
        BY <3>2
      <4> HIDE DEF m, k, b, Answer
      <4> QED
        BY <2>8, <4>1 DEF AnswerIsExact, Quiet
    <3> QED
      BY <2>2, <3>1, <3>2
  <2> QED
    BY <2>6, <2>7, <2>9 DEF Exact
<1>14. ASSUME NEW t \in Tasks, Fails(t) PROVE Exact'
  BY <1>1, <1>14 DEF Fails
<1>15. ASSUME NEW t \in Tasks, TimesOut(t) PROVE Exact'
  <2>1. timeouts' # 0
    BY <1>0, <1>15 DEF TimesOut, TypeOK
  <2> QED
    BY <2>1 DEF Exact, Quiet, CacheIsExact, AnswerIsExact
<1>16. CASE Crash
  BY <1>16, AllEnd, IdleAgrees, OnlyTasks DEF Exact, Crash
<1>17. CASE NewBlock \/ UNCHANGED vars
  <2>1. task' = task /\ db' = db /\ served' = served /\ drops' = drops
           /\ timeouts' = timeouts
    BY <1>17 DEF NewBlock, vars, faults
  <2>2. \A t \in Tasks : Agreement(t)' = Agreement(t)
    BY <2>1 DEF Agreement, ChunkEnd
  <2> QED
    BY <1>0, <2>1, <2>2, OnlyTasks DEF Exact
<1>18. Exact'
  BY <1>2, <1>3, <1>4, <1>5, <1>7, <1>8, <1>9, <1>10, <1>11, <1>12, <1>13, <1>14,
     <1>15, <1>16, <1>17 DEF Next, UpdateStep, ServeStep
<1> QED
  BY <1>18

LEMMA InitInv == Init => IInv
<1> SUFFICES ASSUME Init PROVE IInv
  OBVIOUS
<1>1. \A t \in Tasks : task[t].pc = "idle"
  BY IdleTyped DEF Init
<1>2. TypeOK
  BY InitTyped
<1>3. OneRuns /\ \A t \in Tasks : Agreement(t)
  BY <1>1 DEF OneRuns, Agreement
<1>4. CacheIsExact /\ AnswerIsExact
  BY DEF Init, CacheIsExact, AnswerIsExact
<1> QED
  BY <1>2, <1>3, <1>4 DEF IInv

LEMMA InvStep == IInv /\ [Next]_vars => IInv'
<1> SUFFICES ASSUME IInv, [Next]_vars PROVE IInv'
  OBVIOUS
<1>1. TypeOK' /\ OneRuns'
  BY TypeStep, OneRunsStep DEF IInv
<1> QED
  BY <1>1, ExactStep DEF IInv

\* As long as no task was overtaken by a timeout and no provider left an event
\* out, the records of the database are exactly what their headers promise,
\* for every chain and step and however often the process crashed or a write
\* failed: updateEventsCache and deleteCache leave neither gaps nor leftovers.
THEOREM CacheExact == Spec => []CacheIsExact
<1>1. IInv => CacheIsExact
  BY DEF IInv
<1> QED
  BY <1>1, InitInv, InvStep, PTL DEF Spec

\* Under the same conditions getUpdatedSigningKeyEvents returns every event of
\* the key up to the block of the task, of the modules of that block.
THEOREM AnswersExact == Spec => []AnswerIsExact
<1>1. IInv => AnswerIsExact
  BY DEF IInv
<1> QED
  BY <1>1, InitInv, InvStep, PTL DEF Spec

-----------------------------------------------------------------------------
(* The task's own block                                                     *)

\* Events of the canonical chain.
Canonical(events) == \A e \in events : ~e.stale

\* A task holds canonical events, and looks for more in final blocks only.
Clean(t) ==
    /\ Canonical(task[t].todo) /\ Canonical(task[t].data)
    /\ task[t].pc \in {"fetch", "insert"} => task[t].final <= finalized

\* Whatever went wrong, nothing of another branch gets into the cache: chunks
\* end at a block that was final when the loop began, and stays final.
CacheIsCanonical ==
    /\ TypeOK
    /\ Canonical(db.events)
    /\ \A t \in Tasks : Clean(t)
    /\ OwnBlockIsCanonical

\* An answer has events of another branch only in blocks that are not final.
LEMMA FinalIsCanonical ==
    ASSUME TypeOK, NEW modules, NEW a \in Nat, NEW b \in Nat, b <= finalized,
           NEW x \in Answers(modules, a, b)
    PROVE  Canonical(x.events)
<1> DEFINE truth == EventsOf(modules, a, b)
<1>1. \A e \in truth : ~e.stale /\ e.block <= finalized
  <2>1. \A z \in Added : z.block \in a..b => z.block <= finalized
    <3>1. finalized \in Int
      BY KeysAssumption DEF finalized, TypeOK
    <3> QED
      BY <3>1
  <2> QED
    BY <2>1 DEF EventsOf, Event
<1> HIDE DEF truth
<1>2. x \in {[events |-> truth, fault |-> 0]}
             \cup {[events |-> {e \in truth : e.module # y.module \/ e.block # y.block},
                    fault |-> 1] : y \in truth}
             \cup {[events |-> {IF e.block = y.block THEN Event(e, TRUE) ELSE e :
                                    e \in truth},
                    fault |-> 1] : y \in {z \in truth : z.block > finalized}}
  BY DEF Answers, truth
<1>3. finalized \in Int /\ \A z \in truth : z.block \in Int
  <2>1. finalized \in Int
    BY KeysAssumption DEF finalized, TypeOK
  <2>2. \A z \in truth : z.block \in Int
    BY KeysAssumption DEF truth, EventsOf, Event
  <2> QED
    BY <2>1, <2>2
<1>4. {z \in truth : z.block > finalized} = {}
  BY <1>1, <1>3
<1>5. x.events \subseteq truth
  <2>1. \/ x = [events |-> truth, fault |-> 0]
        \/ \E y \in truth : x = [events |-> {e \in truth : e.module # y.module
                                                          \/ e.block # y.block},
                                fault |-> 1]
    BY <1>2, <1>4
  <2> QED
    BY <2>1
<1> QED
  BY <1>1, <1>5 DEF Canonical

\* A step that changes one task leaves the others clean.
LEMMA OthersClean ==
    ASSUME TypeOK, \A s \in Tasks : Clean(s), NEW t \in Tasks, NEW r,
           task' = [task EXCEPT ![t] = r], latest' = latest,
           Canonical(r.todo), Canonical(r.data),
           r.pc \in {"fetch", "insert"} => r.final <= finalized
    PROVE  \A s \in Tasks : Clean(s)'
<1> SUFFICES ASSUME NEW s \in Tasks PROVE Clean(s)'
  OBVIOUS
<1>1. task'[s] = r \/ task'[s] = task[s]
  BY DEF TypeOK
<1> QED
  BY <1>1 DEF Clean, Canonical, finalized

LEMMA IdleClean ==
    Canonical(IdleTask.todo) /\ Canonical(IdleTask.data) /\ IdleTask.pc = "idle"
BY DEF IdleTask, Canonical

\* Tasks that are over, or go on with a program counter that fetches nothing,
\* are clean.
LEMMA EndClean ==
    ASSUME TypeOK, \A s \in Tasks : Clean(s), NEW t \in Tasks, latest' = latest,
           Throws(t) \/ ProcessEnds \/ UpdateDone(t)
    PROVE  \A s \in Tasks : Clean(s)'
<1>1. CASE task' = [s \in Tasks |-> IdleTask]
  BY <1>1, IdleClean DEF Clean
<1>2. CASE task' = [task EXCEPT ![t] = IdleTask]
  BY <1>2, IdleClean, OthersClean
<1>3. CASE task' = [task EXCEPT ![t] = [@ EXCEPT !.pc = "data"]]
  <2> DEFINE r == [task[t] EXCEPT !.pc = "data"]
  <2>1. task[t] \in TaskType
    BY DEF TypeOK
  <2>2. r.todo = task[t].todo /\ r.data = task[t].data /\ r.pc = "data"
    BY <2>1 DEF TaskType
  <2>3. task' = [task EXCEPT ![t] = r]
    BY <1>3
  <2> HIDE DEF r
  <2>4. Canonical(task[t].todo) /\ Canonical(task[t].data)
    BY DEF Clean
  <2> QED
    BY <2>2, <2>3, <2>4, OthersClean
<1>4. ASSUME UpdateDone(t)
      PROVE  \/ task' = [task EXCEPT ![t] = IdleTask]
             \/ task' = [task EXCEPT ![t] = [@ EXCEPT !.pc = "data"]]
  <2>1. task' = [task EXCEPT ![t] = IF up = "init" THEN IdleTask
                                    ELSE [@ EXCEPT !.pc = "data"]]
    BY <1>4 DEF UpdateDone
  <2>2. CASE up = "init"
    BY <2>1, <2>2
  <2>3. CASE up # "init"
    BY <2>1, <2>3
  <2> QED
    BY <2>2, <2>3
<1>5. \/ task' = [s \in Tasks |-> IdleTask]
      \/ task' = [task EXCEPT ![t] = IdleTask]
      \/ task' = [task EXCEPT ![t] = [@ EXCEPT !.pc = "data"]]
  BY <1>4 DEF Throws, ProcessEnds
<1> QED
  BY <1>1, <1>2, <1>3, <1>5

LEMMA CanonicalStep == CacheIsCanonical /\ [Next]_vars => CacheIsCanonical'
<1> DEFINE Kept == /\ Canonical(db'.events)
                   /\ \A s \in Tasks : Clean(s)'
                   /\ OwnBlockIsCanonical'
<1> SUFFICES ASSUME CacheIsCanonical, [Next]_vars PROVE Kept
  BY TypeStep DEF CacheIsCanonical, Canonical
<1>0. TypeOK /\ (\A s \in Tasks : Clean(s)) /\ Canonical(db.events) /\ OwnBlockIsCanonical
  BY DEF CacheIsCanonical
<1>t. \A t \in Tasks : /\ task[t] \in TaskType
                       /\ Canonical(task[t].todo) /\ Canonical(task[t].data)
  BY <1>0 DEF TypeOK, Clean
<1>1. ASSUME served' = served PROVE OwnBlockIsCanonical'
  BY <1>0, <1>1 DEF OwnBlockIsCanonical
<1>2. ASSUME NEW t \in Tasks, Boot(t) \/ StartTask(t) PROVE Kept
  <2>1. PICK b \in RecentBlocks : task' = [task EXCEPT ![t] = Updating(b)]
    BY <1>2 DEF Boot, StartTask
  <2>2. Updating(b).todo = {} /\ Updating(b).data = {} /\ Updating(b).pc = "compare"
    BY DEF Updating, IdleTask
  <2>3. Canonical(Updating(b).todo) /\ Canonical(Updating(b).data)
    BY <2>2 DEF Canonical
  <2>4. latest' = latest /\ db' = db /\ served' = served
    BY <1>2 DEF Boot, StartTask
  <2>5. \A s \in Tasks : Clean(s)'
    BY <1>0, <2>1, <2>2, <2>3, <2>4, OthersClean
  <2> QED
    BY <1>0, <1>1, <2>4, <2>5
<1>3. ASSUME NEW t \in Tasks, Compare(t) PROVE Kept
  <2>1. PICK pc \in {"clear", "read"} : task' = [task EXCEPT ![t] = [@ EXCEPT !.pc = pc]]
    BY <1>3 DEF Compare
  <2> DEFINE r == [task[t] EXCEPT !.pc = pc]
  <2>2. r.todo = task[t].todo /\ r.data = task[t].data /\ r.pc = pc
    BY <1>t DEF TaskType
  <2>3. task' = [task EXCEPT ![t] = r] /\ latest' = latest /\ db' = db /\ served' = served
    BY <1>3, <2>1 DEF Compare
  <2> HIDE DEF r
  <2>4. \A s \in Tasks : Clean(s)'
    BY <1>0, <1>t, <2>2, <2>3, OthersClean
  <2> QED
    BY <1>0, <1>1, <2>3, <2>4
<1>4. ASSUME NEW t \in Tasks, Clear(t) PROVE Kept
  <2>1. PICK gone \in SUBSET db.events :
           /\ db' = [events |-> db.events \ gone, headers |-> None]
           /\ task' = [task EXCEPT ![t] = [@ EXCEPT !.pc = "wipe", !.old = db.events \ gone]]
    BY <1>4 DEF Clear
  <2> DEFINE r == [task[t] EXCEPT !.pc = "wipe", !.old = db.events \ gone]
  <2>2. r.todo = task[t].todo /\ r.data = task[t].data /\ r.pc = "wipe"
    BY <1>t DEF TaskType
  <2>3. task' = [task EXCEPT ![t] = r] /\ latest' = latest /\ served' = served
    BY <1>4, <2>1 DEF Clear
  <2> HIDE DEF r
  <2>4. \A s \in Tasks : Clean(s)'
    BY <1>0, <1>t, <2>2, <2>3, OthersClean
  <2>5. Canonical(db'.events)
    BY <1>0, <2>1 DEF Canonical
  <2> QED
    BY <1>1, <2>3, <2>4, <2>5
<1>5. ASSUME NEW t \in Tasks, Wipe(t) PROVE Kept
  <2>1. /\ db' = [db EXCEPT !.events = @ \ task[t].old]
        /\ task' = [task EXCEPT ![t] = [@ EXCEPT !.pc = "read", !.old = {}]]
        /\ latest' = latest /\ served' = served
    BY <1>5 DEF Wipe
  <2> DEFINE r == [task[t] EXCEPT !.pc = "read", !.old = {}]
  <2>2. r.todo = task[t].todo /\ r.data = task[t].data /\ r.pc = "read"
    BY <1>t DEF TaskType
  <2>3. task' = [task EXCEPT ![t] = r]
    BY <2>1
  <2> HIDE DEF r
  <2>4. \A s \in Tasks : Clean(s)'
    BY <1>0, <1>t, <2>1, <2>2, <2>3, OthersClean
  <2>5. db'.events = db.events \ task[t].old
    BY <1>0, <2>1 DEF TypeOK
  <2> QED
    BY <1>0, <1>1, <2>1, <2>4, <2>5 DEF Canonical
<1>6. ASSUME NEW t \in Tasks, ReadCache(t) PROVE Kept
  <2>1. latest' = latest /\ db' = db /\ served' = served
    BY <1>6 DEF ReadCache
  <2> DEFINE end == Larger(Headers.end, Deployment)
  <2>2. PICK f \in {finalized - 1, finalized} :
           IF f <= end THEN UpdateDone(t)
           ELSE /\ task' = [task EXCEPT ![t] = [@ EXCEPT !.pc = "fetch", !.final = f,
                                                              !.next = end + 1]]
                /\ UNCHANGED up
    BY <1>6 DEF ReadCache
  <2> HIDE DEF end
  <2>3. CASE f <= end
    BY <1>0, <1>1, <2>1, <2>2, <2>3, EndClean
  <2>4. CASE ~(f <= end)
    <3> DEFINE r == [task[t] EXCEPT !.pc = "fetch", !.final = f, !.next = end + 1]
    <3>1. r.todo = task[t].todo /\ r.data = task[t].data /\ r.final = f
      BY <1>t DEF TaskType
    <3>2. task' = [task EXCEPT ![t] = r]
      BY <2>2, <2>4
    <3> HIDE DEF r
    <3>3. f <= finalized
      BY <1>0, <2>2, KeysAssumption DEF finalized, TypeOK
    <3>4. \A s \in Tasks : Clean(s)'
      BY <1>0, <1>t, <2>1, <3>1, <3>2, <3>3, OthersClean
    <3> QED
      BY <1>0, <1>1, <2>1, <3>4
  <2> QED
    BY <2>3, <2>4
<1>7. ASSUME NEW t \in Tasks, FetchChunk(t) PROVE Kept
  <2>1. PICK a \in Answers(task[t].modules, task[t].next, ChunkEnd(t)) :
           task' = [task EXCEPT ![t] = [@ EXCEPT !.pc = "insert", !.todo = a.events]]
    BY <1>7 DEF FetchChunk
  <2>2. task[t].pc = "fetch" /\ latest' = latest /\ db' = db /\ served' = served
    BY <1>7 DEF FetchChunk
  <2>3. task[t].final <= finalized
    BY <1>0, <2>2 DEF Clean
  <2>4. ChunkEnd(t) \in Nat /\ task[t].next \in Nat /\ ChunkEnd(t) <= finalized
    <3>1. task[t].final \in Nat /\ task[t].next \in Nat
      BY <1>t DEF TaskType
    <3>2. finalized \in Int
      BY <1>0, KeysAssumption DEF finalized, TypeOK
    <3> QED
      BY <2>3, <3>1, <3>2, KeysAssumption DEF ChunkEnd, Smaller
  <2>5. Canonical(a.events)
    BY <1>0, <2>4, FinalIsCanonical
  <2> DEFINE r == [task[t] EXCEPT !.pc = "insert", !.todo = a.events]
  <2>6. r.todo = a.events /\ r.data = task[t].data /\ r.final = task[t].final
    BY <1>t DEF TaskType
  <2>7. task' = [task EXCEPT ![t] = r]
    BY <2>1
  <2> HIDE DEF r
  <2>8. \A s \in Tasks : Clean(s)'
    BY <1>0, <1>t, <2>2, <2>3, <2>5, <2>6, <2>7, OthersClean
  <2> QED
    BY <1>0, <1>1, <2>2, <2>8
<1>8. ASSUME NEW t \in Tasks, InsertChunk(t) PROVE Kept
  <2>1. /\ db'.events = db.events \cup task[t].todo
        /\ task[t].pc = "insert" /\ latest' = latest /\ served' = served /\ NextChunk(t)
    BY <1>8 DEF InsertChunk
  <2>2. Canonical(db'.events)
    BY <1>0, <1>t, <2>1 DEF Canonical
  <2>3. CASE task[t].next + Step <= task[t].final
    <3> DEFINE r == [task[t] EXCEPT !.pc = "fetch", !.todo = {}, !.next = task[t].next + Step]
    <3>1. r.todo = {} /\ r.data = task[t].data /\ r.final = task[t].final
      BY <1>t DEF TaskType
    <3>2. task' = [task EXCEPT ![t] = r]
      BY <2>1, <2>3 DEF NextChunk
    <3> HIDE DEF r
    <3>3. Canonical(r.todo) /\ task[t].final <= finalized
      BY <1>0, <2>1, <3>1 DEF Clean, Canonical
    <3>4. \A s \in Tasks : Clean(s)'
      BY <1>0, <1>t, <2>1, <3>1, <3>2, <3>3, OthersClean
    <3> QED
      BY <1>1, <2>1, <2>2, <3>4
  <2>4. CASE ~(task[t].next + Step <= task[t].final)
    BY <1>0, <1>1, <2>1, <2>2, <2>4, EndClean DEF NextChunk
  <2> QED
    BY <2>3, <2>4
<1>9. ASSUME NEW t \in Tasks, NothingToAsk(t) PROVE Kept
  <2>1. task' = [task EXCEPT ![t] = IdleTask] /\ latest' = latest /\ db' = db
           /\ served' = served
    BY <1>9 DEF NothingToAsk
  <2>2. \A s \in Tasks : Clean(s)'
    BY <1>0, <2>1, IdleClean, OthersClean
  <2> QED
    BY <1>0, <1>1, <2>1, <2>2
<1>10. ASSUME NEW t \in Tasks, ReadData(t) PROVE Kept
  <2>1. PICK k \in Keys :
           task' = [task EXCEPT ![t] = [@ EXCEPT !.pc = "headers", !.key = k,
                                        !.data = {e \in db.events : e.key = k}]]
    BY <1>10 DEF ReadData
  <2> DEFINE r == [task[t] EXCEPT !.pc = "headers", !.key = k,
                                  !.data = {e \in db.events : e.key = k}]
  <2>2. r.todo = task[t].todo /\ r.data = {e \in db.events : e.key = k} /\ r.pc = "headers"
    BY <1>t DEF TaskType
  <2>3. task' = [task EXCEPT ![t] = r] /\ latest' = latest /\ db' = db /\ served' = served
    BY <1>10, <2>1 DEF ReadData
  <2> HIDE DEF r
  <2>4. Canonical(r.data)
    BY <1>0, <2>2 DEF Canonical
  <2>5. \A s \in Tasks : Clean(s)'
    BY <1>0, <1>t, <2>2, <2>3, <2>4, OthersClean
  <2> QED
    BY <1>0, <1>1, <2>3, <2>5
<1>11. ASSUME NEW t \in Tasks, ReadHeaders(t) PROVE Kept
  <2>1. latest' = latest /\ db' = db /\ served' = served
    BY <1>11 DEF ReadHeaders
  <2>2. CASE task[t].block < Headers.end
    <3>1. Throws(t)
      BY <1>11, <2>2 DEF ReadHeaders
    <3> QED
      BY <1>0, <1>1, <2>1, <3>1, EndClean
  <2>3. CASE ~(task[t].block < Headers.end)
    <3> DEFINE S == IF db.headers = None THEN {} ELSE task[t].data
    <3> DEFINE r == [task[t] EXCEPT !.pc = "fresh", !.next = Headers.end + 1,
                                    !.modules = Headers.modules, !.data = S]
    <3>1. r.todo = task[t].todo /\ r.data = S /\ r.pc = "fresh"
      BY <1>t DEF TaskType
    <3>2. task' = [task EXCEPT ![t] = r]
      BY <1>11, <2>3 DEF ReadHeaders
    <3>3. Canonical(S)
      BY <1>t DEF Canonical
    <3> HIDE DEF r, S
    <3>4. \A s \in Tasks : Clean(s)'
      BY <1>0, <1>t, <2>1, <3>1, <3>2, <3>3, OthersClean
    <3> QED
      BY <1>0, <1>1, <2>1, <3>4
  <2> QED
    BY <2>2, <2>3
<1>12. ASSUME NEW t \in Tasks, ServeKey(t) PROVE Kept
  <2>1. /\ task' = [task EXCEPT ![t] = IdleTask]
        /\ latest' = latest /\ db' = db
    BY <1>12 DEF ServeKey
  <2>2. \A s \in Tasks : Clean(s)'
    BY <1>0, <2>1, IdleClean, OthersClean
  <2>3. PICK a \in Answers(task[t].modules, task[t].next, task[t].block) :
           IF checkEventsBlockHash(a.events, task[t].block)
           THEN served' = [key |-> task[t].key, block |-> task[t].block,
                           modules |-> task[t].modules,
                           events |-> task[t].data
                                      \cup {e \in a.events : e.key = task[t].key}]
           ELSE UNCHANGED served
    BY <1>12 DEF ServeKey
  <2>4. OwnBlockIsCanonical'
    <3>1. CASE ~checkEventsBlockHash(a.events, task[t].block)
      BY <1>1, <2>3, <3>1
    <3>2. CASE checkEventsBlockHash(a.events, task[t].block)
      <4>1. /\ served'.block = task[t].block
            /\ served'.events = task[t].data \cup {e \in a.events : e.key = task[t].key}
        BY <2>3, <3>2
      <4>2. \A e \in task[t].data : ~e.stale
        BY <1>t DEF Canonical
      <4>3. \A e \in a.events : e.block = task[t].block => ~e.stale
        BY <3>2 DEF checkEventsBlockHash
      <4> QED
        BY <4>1, <4>2, <4>3 DEF OwnBlockIsCanonical
    <3> QED
      BY <3>1, <3>2
  <2> QED
    BY <1>0, <2>1, <2>2, <2>4
<1>13. ASSUME NEW t \in Tasks, Fails(t) PROVE Kept
  <2>1. latest' = latest /\ db' = db /\ served' = served /\ Throws(t)
    BY <1>13 DEF Fails
  <2> QED
    BY <1>0, <1>1, <2>1, EndClean
<1>14. ASSUME NEW t \in Tasks, TimesOut(t) PROVE Kept
  <2> DEFINE r == [task[t] EXCEPT !.live = FALSE]
  <2>1. task' = [task EXCEPT ![t] = r] /\ latest' = latest /\ db' = db /\ served' = served
    BY <1>14 DEF TimesOut
  <2>2. r.todo = task[t].todo /\ r.data = task[t].data /\ r.pc = task[t].pc
           /\ r.final = task[t].final
    BY <1>t DEF TaskType
  <2> HIDE DEF r
  <2>3. task[t].pc \in {"fetch", "insert"} => task[t].final <= finalized
    BY <1>0 DEF Clean
  <2>4. \A s \in Tasks : Clean(s)'
    BY <1>0, <1>t, <2>1, <2>2, <2>3, OthersClean
  <2> QED
    BY <1>0, <1>1, <2>1, <2>4
<1>15. CASE Crash
  <2>1. db' = db /\ served' = served /\ task' = [s \in Tasks |-> IdleTask]
    BY <1>15 DEF Crash, ProcessEnds
  <2> QED
    BY <1>0, <1>1, <2>1, IdleClean DEF Clean
<1>16. CASE NewBlock \/ UNCHANGED vars
  <2>1. task' = task /\ db' = db /\ served' = served /\ latest' \in {latest, latest + 1}
    BY <1>16 DEF NewBlock, vars
  <2>2. finalized \in Int /\ finalized' \in Int /\ finalized <= finalized'
    BY <1>0, <2>1, KeysAssumption DEF finalized, TypeOK
  <2>3. \A s \in Tasks : task[s].final \in Int
    BY <1>t DEF TaskType
  <2>4. ASSUME NEW s \in Tasks PROVE Clean(s)'
    BY <1>0, <2>1, <2>2, <2>3 DEF Clean
  <2> QED
    BY <1>0, <1>1, <2>1, <2>4
<1> QED
  BY <1>2, <1>3, <1>4, <1>5, <1>6, <1>7, <1>8, <1>9, <1>10, <1>11, <1>12, <1>13, <1>14,
     <1>15, <1>16 DEF Next, UpdateStep, ServeStep

\* The key duplicates check never sees, in the block its task is about, an event
\* of another branch than that block's, whatever providers answered, whichever
\* tasks timed out and overlapped and however often the process crashed: the
\* records are of blocks that were final when they were fetched, and the fresh
\* events pass checkEventsBlockHash.
THEOREM OwnBlockCanonical == Spec => []OwnBlockIsCanonical
<1>1. Init => CacheIsCanonical
  <2> SUFFICES ASSUME Init PROVE CacheIsCanonical
    OBVIOUS
  <2>1. TypeOK
    BY InitTyped
  <2>2. \A s \in Tasks : Clean(s)
    BY IdleClean DEF Init, Clean
  <2>3. Canonical(db.events) /\ OwnBlockIsCanonical
    BY DEF Init, Canonical, OwnBlockIsCanonical
  <2> QED
    BY <2>1, <2>2, <2>3 DEF CacheIsCanonical
<1>2. CacheIsCanonical => OwnBlockIsCanonical
  BY DEF CacheIsCanonical
<1> QED
  BY <1>1, <1>2, CanonicalStep, PTL DEF Spec

=============================================================================
