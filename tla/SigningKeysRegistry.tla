------------------------- MODULE SigningKeysRegistry -------------------------
(***************************************************************************)
(* The cache of SigningKeyAdded events: SigningKeysRegistryService with    *)
(* its LevelDB store, its fetcher and its sanity checker.                  *)
(*                                                                         *)
(* A key task first brings the cache up to the finalized block, from       *)
(* scratch when the list of staking modules is not the cached one, and     *)
(* then answers which events the duplicates check finds for a key up to    *)
(* the task's block: the cached ones and the ones after them.  Unlike the  *)
(* deposits, these events have no root to be compared with, so the answer  *)
(* is as good as the agreement between the cached records and their        *)
(* headers.                                                                *)
(***************************************************************************)
EXTENDS Integers, FiniteSets

CONSTANTS
    Keys,        \* public keys
    Modules,     \* addresses of staking modules
    Added,       \* the events of the chain: [module, key, block]
    ModulesAt,   \* ModulesAt[b]: the staking modules at block b
    MaxBlock,    \* bound: number of the last block
    Depth,       \* how far the finalized block is behind the newest one
    Deployment,  \* the block the earliest module was deployed in
    Step,        \* FETCHING_EVENTS_STEP: blocks per chunk
    Lag,         \* how far a task's block may be behind the newest one
    Tasks,       \* slots for executions of a key task
    None,        \* no headers, no answer
    MaxFaults,   \* bound: bad answers, rejected awaits and timeouts
    MaxCrashes   \* bound: crashes of the process

ASSUME KeysAssumption ==
    /\ Depth \in Nat /\ Deployment \in Nat /\ Step \in Nat \ {0} /\ Lag \in Nat
    /\ MaxBlock \in Nat /\ MaxBlock >= Deployment + Depth + 2
    /\ Added \subseteq [module : Modules, key : Keys, block : Deployment + 1..MaxBlock]
    /\ ModulesAt \in [0..MaxBlock -> (SUBSET Modules) \ {{}}]
    /\ MaxFaults \in Nat /\ MaxCrashes \in Nat
    /\ None \notin [modules : SUBSET Modules, end : 0..MaxBlock]

VARIABLES
    latest,    \* newest block
    db,        \* the database: event records and headers
    up,        \* "down", "init" (initialize) or "running"
    task,      \* executions of updateEventsCache and getUpdatedSigningKeyEvents
    served,    \* what getUpdatedSigningKeyEvents returned last
    drops,     \* incomplete or foreign answers so far
    failures,  \* rejected awaits
    crashes,   \* crashes
    timeouts   \* tasks that timed out

faults == <<drops, failures, crashes, timeouts>>
vars   == <<latest, db, up, task, served, faults>>

FaultsSoFar == drops + failures + timeouts

Larger(a, b)  == IF a >= b THEN a ELSE b
Smaller(a, b) == IF a <= b THEN a ELSE b

finalized == latest - Depth

\* An event as a provider returns it, of the canonical chain or of another branch.
Event(e, stale) == [module |-> e.module, key |-> e.key, block |-> e.block, stale |-> stale]
Events == [module : Modules, key : Keys, block : Deployment + 1..MaxBlock, stale : BOOLEAN]

\* The canonical events of some modules in the blocks a to b.
EventsOf(modules, a, b) ==
    {Event(e, FALSE) : e \in {x \in Added : x.module \in modules /\ x.block \in a..b}}
TrueUpTo(modules, b) == EventsOf(modules, 0, b)

\* fetchEventsFallOver: one query per module, joined; what splitting a range adds
\* up to is the range.  A provider answers with the truth, leaves out a module's
\* events of a block, or has a block that is not final as on another branch.
Answers(modules, a, b) ==
    LET truth == EventsOf(modules, a, b)
    IN  {[events |-> truth, fault |-> 0]}
        \cup {[events |-> {e \in truth : e.module # x.module \/ e.block # x.block},
               fault |-> 1] : x \in truth}
        \cup {[events |-> {IF e.block = x.block THEN Event(e, TRUE) ELSE e : e \in truth},
               fault |-> 1] : x \in {y \in truth : y.block > finalized}}

IdleTask == [pc |-> "idle", live |-> FALSE, block |-> 0, modules |-> {}, next |-> 0,
             final |-> 0, todo |-> {}, old |-> {}, key |-> None, data |-> {}]

\* SIGNING_KEYS_CACHE_DEFAULT, read when there are no headers.
Headers == IF db.headers = None THEN [modules |-> {}, end |-> 0] ELSE db.headers

Init ==
    /\ latest = Deployment + Depth + 2
    /\ db = [events |-> {}, headers |-> None]
    /\ up = "down"
    /\ task = [t \in Tasks |-> IdleTask]
    /\ served = None
    /\ drops = 0 /\ failures = 0 /\ crashes = 0 /\ timeouts = 0

ProcessEnds == up' = "down" /\ task' = [t \in Tasks |-> IdleTask]

\* A task rejects: OneAtTime around handleKeys logs it, while onModuleInit exits.
Throws(t) ==
    IF up = "init" THEN ProcessEnds
    ELSE task' = [task EXCEPT ![t] = IdleTask] /\ UNCHANGED up

\* The blocks a task may be about: its node or Keys API may be behind.
RecentBlocks == Larger(latest - Lag, 0)..latest

Updating(b) == [IdleTask EXCEPT !.pc = "compare", !.live = TRUE, !.block = b,
                                !.modules = ModulesAt[b]]

-----------------------------------------------------------------------------
(* Starting up, and a new task                                              *)

\* initialize: open the database and update.
Boot(t) ==
    /\ up = "down"
    /\ up' = "init"
    /\ \E b \in RecentBlocks : task' = [task EXCEPT ![t] = Updating(b)]
    /\ UNCHANGED <<latest, db, served, faults>>

\* handleKeys, under OneAtTime, calls handleNewBlock of the registry with the
\* modules of its block.
StartTask(t) ==
    /\ up = "running" /\ task[t].pc = "idle"
    /\ \A s \in Tasks : ~task[s].live
    /\ \E b \in RecentBlocks : task' = [task EXCEPT ![t] = Updating(b)]
    /\ UNCHANGED <<latest, db, up, served, faults>>

-----------------------------------------------------------------------------
(* updateEventsCache                                                        *)

\* Slip: only new modules are looked for.
wasStakingModulesListUpdated_Added(previous, current) == ~(current \subseteq previous)

wasStakingModulesListUpdated(previous, current) ==
    \/ \E m \in previous : m \notin current
    \/ \E m \in current : m \notin previous

\* stakingModuleListWasUpdated: the headers have been read.
Compare(t) ==
    /\ task[t].pc = "compare"
    /\ task' = [task EXCEPT ![t] = [@ EXCEPT !.pc =
           IF wasStakingModulesListUpdated(Headers.modules, task[t].modules)
           THEN "clear" ELSE "read"]]
    /\ UNCHANGED <<latest, db, up, served, faults>>

\* Slip: the headers go last.
Clear_HeadersLast(t) ==
    /\ task[t].pc = "clear"
    /\ \E gone \in SUBSET db.events :
         /\ db' = [events |-> db.events \ gone, headers |-> db.headers]
         /\ task' = [task EXCEPT ![t] = [@ EXCEPT !.pc = "wipe", !.old = db.events \ gone]]
    /\ UNCHANGED <<latest, up, served, faults>>

\* deleteCache is db.clear, which deletes the records it found in batches and in
\* the order of their names: "headers" comes before every "signingKey:".
Clear(t) ==
    /\ task[t].pc = "clear"
    /\ \E gone \in SUBSET db.events :
         /\ db' = [events |-> db.events \ gone, headers |-> None]
         /\ task' = [task EXCEPT ![t] = [@ EXCEPT !.pc = "wipe", !.old = db.events \ gone]]
    /\ UNCHANGED <<latest, up, served, faults>>

\* The last batch of the deletion.
Wipe(t) ==
    /\ task[t].pc = "wipe"
    /\ db' = [db EXCEPT !.events = @ \ task[t].old]
    /\ task' = [task EXCEPT ![t] = [@ EXCEPT !.pc = "read", !.old = {}]]
    /\ UNCHANGED <<latest, up, served, faults>>

\* updateEventsCache has returned: initialize is over, or the task goes on.
UpdateDone(t) ==
    /\ task' = [task EXCEPT ![t] = IF up = "init" THEN IdleTask
                                   ELSE [@ EXCEPT !.pc = "data"]]
    /\ up' = "running"

\* The finalized block and the cached headers have been read; the provider may be
\* one block behind.  A cache that is newer is left alone, one that is as new
\* has nothing to fetch.
ReadCache(t) ==
    /\ task[t].pc = "read"
    /\ LET end == Larger(Headers.end, Deployment)
       IN  \E f \in {finalized - 1, finalized} :
             IF f <= end THEN UpdateDone(t)
             ELSE /\ task' = [task EXCEPT ![t] = [@ EXCEPT !.pc = "fetch", !.final = f,
                                                                !.next = end + 1]]
                  /\ UNCHANGED up
    /\ UNCHANGED <<latest, db, served, faults>>

\* Slip: the last chunk is not cut off at the finalized block.
ChunkEnd_PastFinal(t) == task[t].next + Step - 1

ChunkEnd(t) == Smaller(task[t].final, task[t].next + Step - 1)

\* The events of a chunk have arrived.
FetchChunk(t) ==
    /\ task[t].pc = "fetch"
    /\ \E a \in Answers(task[t].modules, task[t].next, ChunkEnd(t)) :
         /\ FaultsSoFar + a.fault <= MaxFaults /\ drops' = drops + a.fault
         /\ task' = [task EXCEPT ![t] = [@ EXCEPT !.pc = "insert", !.todo = a.events]]
    /\ UNCHANGED <<latest, db, up, served, failures, crashes, timeouts>>

\* The loop goes on after the chunk, or the update is over.
NextChunk(t) ==
    IF task[t].next + Step <= task[t].final
    THEN /\ task' = [task EXCEPT ![t] = [@ EXCEPT !.pc = "fetch", !.todo = {},
                                                  !.next = task[t].next + Step]]
         /\ UNCHANGED up
    ELSE UpdateDone(t)

\* Slip: the records are not written together with their headers.
InsertChunk_NoHeaders(t) ==
    /\ task[t].pc = "insert"
    /\ db' = [events |-> db.events \cup task[t].todo, headers |-> db.headers]
    /\ NextChunk(t)
    /\ UNCHANGED <<latest, served, faults>>

\* insertEventsCacheBatch: the records and their headers in one batch.
InsertChunk(t) ==
    /\ task[t].pc = "insert"
    /\ db' = [events |-> db.events \cup task[t].todo,
              headers |-> [modules |-> task[t].modules, end |-> ChunkEnd(t)]]
    /\ NextChunk(t)
    /\ UNCHANGED <<latest, served, faults>>

-----------------------------------------------------------------------------
(* getUpdatedSigningKeyEvents                                               *)

\* The duplicates check found no key to ask about.
NothingToAsk(t) ==
    /\ task[t].pc = "data"
    /\ task' = [task EXCEPT ![t] = IdleTask]
    /\ UNCHANGED <<latest, db, up, served, faults>>

\* getCachedEvents of the store, first part: the records of a key.  Keys are
\* asked for side by side, and the answers do not depend on each other.
ReadData(t) ==
    /\ task[t].pc = "data"
    /\ \E k \in Keys :
         task' = [task EXCEPT ![t] = [@ EXCEPT !.pc = "headers", !.key = k,
                                               !.data = {e \in db.events : e.key = k}]]
    /\ UNCHANGED <<latest, db, up, served, faults>>

\* Second part: the headers; without them the records are forgotten.  A cache
\* that is newer than the block rejects.
ReadHeaders(t) ==
    /\ task[t].pc = "headers"
    /\ IF task[t].block < Headers.end THEN Throws(t)
       ELSE /\ task' = [task EXCEPT ![t] =
                  [@ EXCEPT !.pc = "fresh", !.next = Headers.end + 1,
                            !.modules = Headers.modules,
                            !.data = IF db.headers = None THEN {} ELSE task[t].data]]
            /\ UNCHANGED up
    /\ UNCHANGED <<latest, db, served, faults>>

\* Slip: the branch of the events is not looked at.
checkEventsBlockHash_Any(events, b) == TRUE

\* No event of the block is of another branch.
checkEventsBlockHash(events, b) == \A e \in events : e.block = b => ~e.stale

\* The events after the cached ones have arrived; those of the key are added.
ServeKey(t) ==
    /\ task[t].pc = "fresh"
    /\ \E a \in Answers(task[t].modules, task[t].next, task[t].block) :
         /\ FaultsSoFar + a.fault <= MaxFaults /\ drops' = drops + a.fault
         /\ IF checkEventsBlockHash(a.events, task[t].block)
            THEN served' = [key |-> task[t].key, block |-> task[t].block,
                            modules |-> task[t].modules,
                            events |-> task[t].data
                                       \cup {e \in a.events : e.key = task[t].key}]
            ELSE UNCHANGED served
    /\ task' = [task EXCEPT ![t] = IdleTask]
    /\ UNCHANGED <<latest, db, up, failures, crashes, timeouts>>

-----------------------------------------------------------------------------
(* What goes wrong, and the chain                                           *)

\* An await rejects: a provider, or the database.
Fails(t) ==
    /\ task[t].pc # "idle" /\ FaultsSoFar < MaxFaults
    /\ failures' = failures + 1
    /\ Throws(t)
    /\ UNCHANGED <<latest, db, served, drops, crashes, timeouts>>

Crash ==
    /\ up # "down" /\ crashes < MaxCrashes
    /\ crashes' = crashes + 1
    /\ ProcessEnds
    /\ UNCHANGED <<latest, db, served, drops, failures, timeouts>>

\* OneAtTime stops waiting for the task, which runs on.
TimesOut(t) ==
    /\ up = "running" /\ task[t].live /\ FaultsSoFar < MaxFaults
    /\ timeouts' = timeouts + 1
    /\ task' = [task EXCEPT ![t] = [@ EXCEPT !.live = FALSE]]
    /\ UNCHANGED <<latest, db, up, served, drops, failures, crashes>>

NewBlock ==
    /\ latest < MaxBlock
    /\ latest' = latest + 1
    /\ UNCHANGED <<db, up, task, served, faults>>

UpdateStep(t) ==
    Compare(t) \/ Clear(t) \/ Wipe(t) \/ ReadCache(t) \/ FetchChunk(t) \/ InsertChunk(t)
ServeStep(t) == NothingToAsk(t) \/ ReadData(t) \/ ReadHeaders(t) \/ ServeKey(t)

Next ==
    \/ \E t \in Tasks : \/ Boot(t) \/ StartTask(t) \/ UpdateStep(t) \/ ServeStep(t)
                        \/ Fails(t) \/ TimesOut(t)
    \/ Crash \/ NewBlock

Spec == Init /\ [][Next]_vars

\* The process is restarted whenever it is down, cycles keep starting key
\* tasks, awaits settle, and the chain moves on to its last block.
Fairness ==
    /\ WF_vars(NewBlock)
    /\ WF_vars(\E t \in Tasks : Boot(t))
    /\ WF_vars(\E t \in Tasks : StartTask(t))
    /\ \A t \in Tasks : WF_vars(UpdateStep(t)) /\ WF_vars(ServeStep(t))

FairSpec == Spec /\ Fairness

-----------------------------------------------------------------------------
(* Properties                                                               *)

EventSets  == SUBSET Events
ModuleSets == SUBSET Modules

HeadersType == [modules : ModuleSets, end : 0..MaxBlock - Depth]

TaskType ==
    [pc : {"idle", "compare", "clear", "wipe", "read", "fetch", "insert", "data",
           "headers", "fresh"},
     live : BOOLEAN, block : 0..MaxBlock, modules : ModuleSets, next : Nat,
     final : 0..MaxBlock - Depth, todo : EventSets, old : EventSets, key : Keys \cup {None},
     data : EventSets]

\* Every variable keeps its type; the headers stay within final blocks.
TypeOK ==
    /\ latest \in Deployment + Depth + 2..MaxBlock
    /\ db \in [events : EventSets, headers : HeadersType \cup {None}]
    /\ up \in {"down", "init", "running"}
    /\ task \in [Tasks -> TaskType]
    /\ served \in [key : Keys \cup {None}, block : 0..MaxBlock, modules : ModuleSets,
                   events : EventSets] \cup {None}
    /\ drops \in Nat /\ failures \in Nat /\ crashes \in Nat /\ timeouts \in Nat

\* The records are exactly the events their headers promise, of their modules
\* and up to their end: no crash between two chunks or in the middle of a
\* deletion, no failed write and no change of the module list leaves a gap or
\* a record of a former list, as long as tasks do not overlap and no provider
\* left an event out.
CacheIsExact ==
    (drops = 0 /\ timeouts = 0 /\ db.headers # None)
        => db.events = TrueUpTo(db.headers.modules, db.headers.end)

\* The duplicates check is told every event of the key up to its block, of the
\* modules of its block and of nothing else.
AnswerIsExact ==
    (drops = 0 /\ timeouts = 0 /\ served # None)
        => /\ served.modules = ModulesAt[served.block]
           /\ served.events = {e \in TrueUpTo(served.modules, served.block) :
                                  e.key = served.key}

\* Even a provider on another branch gets no foreign event of the task's own
\* block into an answer.
OwnBlockIsCanonical ==
    served # None => \A e \in served.events : e.block = served.block => ~e.stale

\* Whatever went wrong before, the cache keeps reaching the final blocks (all but
\* one, as long as a provider lags).
CacheKeepsUp ==
    []<>(db.headers # None /\ db.headers.end >= MaxBlock - Depth - 1)

=============================================================================
