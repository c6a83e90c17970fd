--------------------------- MODULE DepositsRegistry ---------------------------
(***************************************************************************)
(* The cache of deposit events: DepositRegistryService with its store (a   *)
(* LevelDB database and its image in memory) and its integrity checker (a  *)
(* deposit tree whose root is compared with the deposit contract's).       *)
(*                                                                         *)
(* Each cycle appends the newly finalized events to tree, database and     *)
(* memory, in this order, and then serves all events up to a block that is *)
(* not yet finalized.  The process may crash at any point, a provider may  *)
(* answer a log query incompletely or from an abandoned branch, a write    *)
(* may fail, and a cycle that outlasts its OneAtTime timeout runs on next  *)
(* to the following one.                                                   *)
(***************************************************************************)
EXTENDS Integers, FiniteSets, Sequences, SequencesExt

CONSTANTS
    Deposits,    \* Deposits[i]: block of the deposit whose depositCount is i - 1
    MaxBlock,    \* bound: number of the last block
    Depth,       \* how far the finalized block is behind the newest one
    Deployment,  \* the block the deposit contract was deployed in
    Step,        \* DEPOSIT_EVENTS_STEP: blocks per chunk
    Tasks,       \* slots for executions of a cycle
    None,        \* no event, no headers
    MaxFaults,   \* bound: bad answers, rejected awaits and timeouts
    MaxCrashes   \* bound: crashes of the process

ASSUME DepositsAssumption ==
    /\ MaxBlock \in Nat \ {0}
    /\ Deposits \in Seq(1..MaxBlock)
    /\ \A i, j \in DOMAIN Deposits : i <= j => Deposits[i] <= Deposits[j]
    /\ \A i \in DOMAIN Deposits : Deposits[i] > Deployment
    /\ Deployment \in Nat /\ Depth \in Nat /\ Step \in Nat \ {0}
    /\ MaxFaults \in Nat /\ MaxCrashes \in Nat

VARIABLES
    latest,     \* newest block
    db,         \* the database: deposit records, headers, last-valid-event
    up,         \* "down", "init" (DepositRegistryService.initialize) or "running"
    cache,      \* the store's image of the database: data and headers
    tree,       \* the finalized tree, as the sequence of its leaves
    task,       \* executions of updateEventsCache and getAllDepositedEvents
    served,     \* what getAllDepositedEvents returned last
    drops,      \* incomplete or foreign answers so far
    failures,   \* rejected awaits
    crashes,    \* crashes
    timeouts    \* cycles that timed out

faults == <<drops, failures, crashes, timeouts>>
vars   == <<latest, db, up, cache, tree, task, served, faults>>

FaultsSoFar == drops + failures + timeouts

Larger(a, b)  == IF a >= b THEN a ELSE b
Smaller(a, b) == IF a <= b THEN a ELSE b

finalized == Larger(latest - Depth, 0)

\* An event of the canonical chain, and its sibling on an abandoned branch.
Event(i) == [count |-> i - 1, block |-> Deposits[i], stale |-> FALSE]
Stale(e) == [e EXCEPT !.stale = TRUE]
Events   == LET canonical == {Event(i) : i \in DOMAIN Deposits}
            IN  canonical \cup {Stale(e) : e \in canonical}

\* How many deposits there are up to block b; they come in the order of blocks.
DepositCount(b) == Cardinality({i \in DOMAIN Deposits : Deposits[i] <= b})

\* The events of blocks a to b, and the root of the contract at block b.
EventsOf(a, b) ==
    LET before == DepositCount(a - 1)
    IN  [i \in 1..DepositCount(b) - before |-> Event(before + i)]
TrueUpTo(b) == EventsOf(0, b)

\* What a provider may answer for a range: the truth, the truth without the
\* events of one block, or a block that is not final as another branch has it.
Answers(a, b) ==
    LET truth == EventsOf(a, b)
        blocks == {truth[i].block : i \in DOMAIN truth}
    IN  {[events |-> truth, fault |-> 0]}
        \cup {[events |-> EventsOf(a, x - 1) \o EventsOf(x + 1, b), fault |-> 1] : x \in blocks}
        \cup {[events |-> [i \in DOMAIN truth |-> IF truth[i].block = x
                                                  THEN Stale(truth[i]) ELSE truth[i]],
               fault |-> 1] : x \in {y \in blocks : y > finalized}}

IdleTask == [pc |-> "idle", live |-> FALSE, block |-> 0, start |-> 0, next |-> 0,
             final |-> 0, todo |-> <<>>, indexed |-> 0, last |-> None, root |-> <<>>,
             data |-> <<>>]

EmptyCache == [data |-> <<>>, start |-> 0, end |-> 0]

\* getCachedEvents: the headers, never before the contract was deployed.
CachedStart == Larger(cache.start, Deployment)
CachedEnd   == Larger(cache.end, Deployment)

Init ==
    /\ latest = 1
    /\ db = [events |-> {}, headers |-> None, lastValid |-> None]
    /\ up = "down" /\ cache = EmptyCache /\ tree = <<>>
    /\ task = [t \in Tasks |-> IdleTask]
    /\ served = None
    /\ drops = 0 /\ failures = 0 /\ crashes = 0 /\ timeouts = 0

\* The process ends, by itself or not, and its memory is gone.
ProcessEnds ==
    /\ up' = "down" /\ cache' = EmptyCache /\ tree' = <<>>
    /\ task' = [t \in Tasks |-> IdleTask]

\* A task rejects: handleNewBlock logs it, while onModuleInit exits.
Throws(t) ==
    IF up = "init" THEN ProcessEnds
    ELSE /\ task' = [task EXCEPT ![t] = IdleTask]
         /\ UNCHANGED <<up, cache, tree>>

\* updateEventsCache begins: it takes the headers before its first await.
Updating(block) ==
    [IdleTask EXCEPT !.pc = "update", !.live = TRUE, !.block = block]

-----------------------------------------------------------------------------
(* Starting up                                                              *)

\* The headers written with a deletion: everything after the event is to be
\* fetched again.  They are refused when they end before they start.
HeadersForDeletion(start, event) ==
    [start |-> start, end |-> IF event = None THEN 0 ELSE event.block]

\* The records whose depositCount follows from zero without a gap.
Consistent(events) ==
    {e \in events : \A n \in 0..e.count : \E f \in events : f.count = n}

\* Sorted by depositCount, of which there are all from zero on.
InOrder(events) ==
    [i \in {e.count + 1 : e \in events} |-> CHOOSE e \in events : e.count = i - 1]

\* Slip: the headers are kept as they were stored.
Boot_KeepHeaders(t) ==
    /\ up = "down"
    /\ LET headers == IF db.headers = None THEN [start |-> 0, end |-> 0] ELSE db.headers
           kept == InOrder(Consistent(db.events))
       IN  /\ db' = [db EXCEPT !.headers = headers]
           /\ cache' = [data |-> kept, start |-> headers.start, end |-> headers.end]
           /\ tree' = kept
           /\ up' = "init"
           /\ task' = [task EXCEPT ![t] =
                  [Updating(0) EXCEPT !.start = Larger(headers.start, Deployment),
                                      !.next = Larger(headers.end, Deployment) + 1]]
    /\ UNCHANGED <<latest, served, faults>>

\* initialize: load the database, drop records after a gap, take the headers
\* back to the last record, rebuild the tree and update.  When the headers are
\* refused initialize throws, the process exits and nothing has changed.
Boot(t) ==
    /\ up = "down"
    /\ LET stored == IF db.headers = None THEN {} ELSE db.events
           start == IF db.headers = None THEN 0 ELSE db.headers.start
           kept == InOrder(Consistent(stored))
           headers == HeadersForDeletion(start, IF kept = <<>> THEN None ELSE Last(kept))
       IN  /\ headers.end >= headers.start
           /\ db' = [events |-> Range(kept), headers |-> headers,
                     lastValid |-> IF Range(kept) = db.events THEN db.lastValid ELSE None]
           /\ cache' = [data |-> kept, start |-> headers.start, end |-> headers.end]
           /\ tree' = kept
           /\ up' = "init"
           /\ task' = [task EXCEPT ![t] =
                  [Updating(0) EXCEPT !.start = Larger(headers.start, Deployment),
                                      !.next = Larger(headers.end, Deployment) + 1]]
    /\ UNCHANGED <<latest, served, faults>>

\* handleNewBlock of the guardian calls handleNewBlock of the registry, for a
\* block that Keys API has seen.
StartCycle(t) ==
    /\ up = "running" /\ task[t].pc = "idle"
    /\ \A s \in Tasks : ~task[s].live
    /\ task' = [task EXCEPT ![t] = [Updating(latest) EXCEPT !.start = CachedStart,
                                                            !.next = CachedEnd + 1]]
    /\ UNCHANGED <<latest, db, up, cache, tree, served, faults>>

-----------------------------------------------------------------------------
(* updateEventsCache                                                        *)

\* updateEventsCache has returned: initialize is over, or the cycle goes on.
UpdateDone(t) ==
    /\ task' = [task EXCEPT ![t] = IF up = "init" THEN IdleTask
                                   ELSE [@ EXCEPT !.pc = "collect"]]
    /\ up' = "running"

\* The loop over chunks: fetch the next one, or take the tree's root.
Loop(r, leaves) ==
    IF r.next <= r.final THEN [r EXCEPT !.pc = "fetch"]
    ELSE [r EXCEPT !.pc = "verify", !.root = leaves]

\* The finalized block is known; a provider may be one block behind.  A cache
\* that is newer than it is left alone.
ReadFinalized(t) ==
    /\ task[t].pc = "update"
    /\ \E f \in {Larger(finalized - 1, 0), finalized} :
         IF f < task[t].next - 1 THEN UpdateDone(t)
         ELSE /\ task' = [task EXCEPT ![t] = Loop([@ EXCEPT !.final = f], tree)]
              /\ UNCHANGED up
    /\ UNCHANGED <<latest, db, cache, tree, served, faults>>

ChunkEnd(t) == Smaller(task[t].final, task[t].next + Step - 1)

\* The events of a chunk have arrived and are sorted by depositCount.
FetchChunk(t) ==
    /\ task[t].pc = "fetch"
    /\ \E a \in Answers(task[t].next, ChunkEnd(t)) :
         /\ FaultsSoFar + a.fault <= MaxFaults /\ drops' = drops + a.fault
         /\ task' = [task EXCEPT ![t].todo = a.events, ![t].indexed = 0,
                        ![t].pc = IF a.events = <<>> THEN "insert" ELSE "index"]
    /\ UNCHANGED <<latest, db, up, cache, tree, served, failures, crashes,
                   timeouts>>

\* Slip: the tree takes any leaf.
Fits_Any(leaves, e) == TRUE

\* DepositTree.insert takes the next leaf only.
Fits(leaves, e) == e.count = Len(leaves)

\* One event of the chunk goes to the tree, which then yields (the code yields
\* after the first event and after every DEPOSIT_TREE_STEP_SYNC more); an event
\* that is not the next leaf rejects the update.
IndexEvent(t) ==
    /\ task[t].pc = "index"
    /\ LET i == task[t].indexed + 1
           e == task[t].todo[i]
       IN  IF Fits(tree, e)
           THEN /\ tree' = Append(tree, e)
                /\ task' = [task EXCEPT ![t].indexed = i,
                               ![t].pc = IF i = Len(task[t].todo) THEN "insert" ELSE "index"]
                /\ UNCHANGED <<up, cache>>
           ELSE Throws(t)
    /\ UNCHANGED <<latest, db, served, faults>>

\* Slip: the headers promise the whole range the update is going to fetch.
InsertChunk_WholeRange(t) ==
    /\ task[t].pc = "insert"
    /\ LET r == task[t]
           headers == [start |-> r.start, end |-> r.final]
       IN  /\ db' = [db EXCEPT !.events = @ \cup Range(r.todo), !.headers = headers]
           /\ cache' = [data |-> cache.data \o r.todo, start |-> headers.start,
                        end |-> headers.end]
           /\ task' = [task EXCEPT ![t] =
                  Loop([r EXCEPT !.next = r.next + Step, !.todo = <<>>,
                           !.last = IF r.todo = <<>> THEN @ ELSE Last(r.todo)], tree)]
    /\ UNCHANGED <<latest, up, tree, served, faults>>

\* insertEventsCacheBatch: records and headers in one batch, then the image.
InsertChunk(t) ==
    /\ task[t].pc = "insert"
    /\ LET r == task[t]
           headers == [start |-> r.start, end |-> ChunkEnd(t)]
       IN  /\ db' = [db EXCEPT !.events = @ \cup Range(r.todo), !.headers = headers]
           /\ cache' = [data |-> cache.data \o r.todo, start |-> headers.start,
                        end |-> headers.end]
           /\ task' = [task EXCEPT ![t] =
                  Loop([r EXCEPT !.next = r.next + Step, !.todo = <<>>,
                           !.last = IF r.todo = <<>> THEN @ ELSE Last(r.todo)], tree)]
    /\ UNCHANGED <<latest, up, tree, served, faults>>

\* Slip: the last event is taken for valid whatever the roots say.
Verify_NoRoot(t) ==
    /\ task[t].pc = "verify"
    /\ IF task[t].last # None
       THEN task' = [task EXCEPT ![t].pc = "mark"] /\ UNCHANGED up
       ELSE UpdateDone(t)
    /\ UNCHANGED <<latest, db, cache, tree, served, faults>>

\* verifyUpdatedEvents: the root at the finalized block has arrived.
Verify(t) ==
    /\ task[t].pc = "verify"
    /\ IF task[t].root # TrueUpTo(task[t].final)
       THEN task' = [task EXCEPT ![t].pc = "clear"] /\ UNCHANGED up
       ELSE IF task[t].last # None
       THEN task' = [task EXCEPT ![t].pc = "mark"] /\ UNCHANGED up
       ELSE UpdateDone(t)
    /\ UNCHANGED <<latest, db, cache, tree, served, faults>>

\* insertLastValidEvent.
Mark(t) ==
    /\ task[t].pc = "mark"
    /\ db' = [db EXCEPT !.lastValid = task[t].last]
    /\ UpdateDone(t)
    /\ UNCHANGED <<latest, cache, tree, served, faults>>

\* clearFromLastValidEvent: delete what follows the last valid event, take the
\* headers back to it, and exit.  Refused headers reject the update instead.
Clear(t) ==
    /\ task[t].pc = "clear"
    /\ LET valid == db.lastValid
           after == {e \in db.events : valid # None => e.count > valid.count}
           headers == HeadersForDeletion(cache.start, valid)
       IN  IF headers.end < headers.start
           THEN Throws(t) /\ UNCHANGED db
           ELSE /\ db' = [events |-> db.events \ after, headers |-> headers,
                          lastValid |-> IF after = {} THEN valid ELSE None]
                /\ ProcessEnds
    /\ UNCHANGED <<latest, served, faults>>

-----------------------------------------------------------------------------
(* getAllDepositedEvents                                                    *)

\* The cache must not be newer than the block.
verifyCacheBlock(block) == block >= CachedEnd

\* The cached events and headers are taken, unless they are too new.
Collect(t) ==
    /\ task[t].pc = "collect"
    /\ IF verifyCacheBlock(task[t].block)
       THEN /\ task' = [task EXCEPT ![t].pc = "fresh", ![t].next = CachedEnd + 1,
                                    ![t].data = cache.data]
            /\ UNCHANGED <<up, cache, tree>>
       ELSE Throws(t)
    /\ UNCHANGED <<latest, db, served, faults>>

\* The leaves of a clone of the tree with the fresh events inserted.
FitsAll(leaves, fresh) == \A i \in DOMAIN fresh : fresh[i].count = Len(leaves) + i - 1

\* The events after the cached ones have arrived; the root to compare is that
\* of the finalized tree, or of a clone that took the fresh events.
FetchFresh(t) ==
    /\ task[t].pc = "fresh"
    /\ \E a \in Answers(task[t].next, task[t].block) :
         /\ FaultsSoFar + a.fault <= MaxFaults /\ drops' = drops + a.fault
         /\ IF FitsAll(tree, a.events)
            THEN /\ task' = [task EXCEPT ![t].pc = "serve", ![t].todo = a.events,
                                         ![t].root = tree \o a.events]
                 /\ UNCHANGED <<up, cache, tree>>
            ELSE Throws(t)
    /\ UNCHANGED <<latest, db, served, failures, crashes, timeouts>>

Give(t) == served' = [block |-> task[t].block,
                      events |-> task[t].data \o task[t].todo]

\* Slip: only a node that is ahead of the contract is refused.
Serve_NoRoot(t) ==
    /\ task[t].pc = "serve"
    /\ Give(t)
    /\ task' = [task EXCEPT ![t] = IdleTask]
    /\ UNCHANGED <<latest, db, up, cache, tree, faults>>

\* verifyFreshEvents: the root at the block has arrived.
Serve(t) ==
    /\ task[t].pc = "serve"
    /\ IF task[t].root = TrueUpTo(task[t].block) THEN Give(t) ELSE UNCHANGED served
    /\ task' = [task EXCEPT ![t] = IdleTask]
    /\ UNCHANGED <<latest, db, up, cache, tree, faults>>

-----------------------------------------------------------------------------
(* What goes wrong, and the chain                                           *)

\* An await rejects: a provider or, after the tree took a chunk, the database.
\* The timer the tree yields to does not.
Fails(t) ==
    /\ task[t].pc \notin {"idle", "index"} /\ FaultsSoFar < MaxFaults
    /\ failures' = failures + 1
    /\ Throws(t)
    /\ UNCHANGED <<latest, db, served, drops, crashes, timeouts>>

Crash ==
    /\ up # "down" /\ crashes < MaxCrashes
    /\ crashes' = crashes + 1
    /\ ProcessEnds
    /\ UNCHANGED <<latest, db, served, drops, failures, timeouts>>

\* OneAtTime stops waiting for the cycle, which runs on.
TimesOut(t) ==
    /\ up = "running" /\ task[t].live /\ FaultsSoFar < MaxFaults
    /\ timeouts' = timeouts + 1
    /\ task' = [task EXCEPT ![t].live = FALSE]
    /\ UNCHANGED <<latest, db, up, cache, tree, served, drops, failures,
                   crashes>>

NewBlock ==
    /\ latest < MaxBlock
    /\ latest' = latest + 1
    /\ UNCHANGED <<db, up, cache, tree, task, served, faults>>

UpdateStep(t) ==
    \/ ReadFinalized(t) \/ FetchChunk(t) \/ IndexEvent(t) \/ InsertChunk(t)
    \/ Verify(t) \/ Mark(t) \/ Clear(t)
CollectStep(t) == Collect(t) \/ FetchFresh(t) \/ Serve(t)

Next ==
    \/ \E t \in Tasks : \/ Boot(t) \/ StartCycle(t) \/ UpdateStep(t) \/ CollectStep(t)
                        \/ Fails(t) \/ TimesOut(t)
    \/ Crash \/ NewBlock

Spec == Init /\ [][Next]_vars

\* The process is restarted whenever it is down, the interval keeps firing,
\* awaits settle, and the chain moves on to its last block.
Fairness ==
    /\ WF_vars(NewBlock)
    /\ WF_vars(\E t \in Tasks : Boot(t))
    /\ WF_vars(\E t \in Tasks : StartCycle(t))
    /\ \A t \in Tasks : WF_vars(UpdateStep(t)) /\ WF_vars(CollectStep(t))

FairSpec == Spec /\ Fairness

-----------------------------------------------------------------------------
(* Properties                                                               *)

FinalBlocks == 0..Larger(MaxBlock - Depth, 0)

HeadersType == [start : Nat, end : FinalBlocks]

TaskType ==
    [pc : {"idle", "update", "fetch", "index", "insert", "verify", "mark", "clear",
           "collect", "fresh", "serve"},
     live : BOOLEAN, block : 0..MaxBlock, start : Nat, next : Nat, final : FinalBlocks,
     todo : Seq(Events), indexed : Nat, last : Events \cup {None}, root : Seq(Events),
     data : Seq(Events)]

\* Every variable keeps its type; the headers stay within final blocks.
TypeOK ==
    /\ latest \in 1..MaxBlock
    /\ db \in [events : SUBSET Events, headers : HeadersType \cup {None},
               lastValid : Events \cup {None}]
    /\ up \in {"down", "init", "running"}
    /\ cache \in [data : Seq(Events), start : Nat, end : FinalBlocks]
    /\ tree \in Seq(Events)
    /\ task \in [Tasks -> TaskType]
    /\ served \in [block : 0..MaxBlock, events : Seq(Events)] \cup {None}
    /\ drops \in Nat /\ failures \in Nat /\ crashes \in Nat /\ timeouts \in Nat

\* Every answer was the truth, or a single one was not and nothing else went
\* wrong, crashes not counted.
Tolerable == drops = 0 \/ FaultsSoFar <= 1

\* What is served for a block is every deposit up to that block, in order and
\* of its own branch, however the process crashed before: neither failed writes
\* and timeouts nor a single incomplete or foreign answer gets past the root
\* checks.
ServedIsComplete ==
    (Tolerable /\ served # None) => served.events = TrueUpTo(served.block)

\* "Returns all deposited events based on cache and fresh data", says the
\* comment of getAllDepositedEvents (deposits-registry.service.ts:208).
ServesAllEvents == served # None => served.events = TrueUpTo(served.block)

\* The cached events are the first leaves of the tree they are verified with.
CacheBehindTree == Tolerable => IsPrefix(cache.data, tree)

\* The headers promise no block whose deposits the database does not hold,
\* unless a provider left them out; crashes and write failures do not.
HeadersAreHonest ==
    (drops = 0 /\ db.headers # None) => Range(TrueUpTo(db.headers.end)) \subseteq db.events

\* Once nothing goes wrong any more, a restart leads back to a cache that holds
\* every deposit of the final blocks, whatever the database and the tree were
\* left with; a provider that lags for ever may keep it one block behind.
Synced == cache.end >= MaxBlock - Depth - 1 /\ cache.data = TrueUpTo(cache.end)
RestartHeals ==
    (FaultsSoFar = MaxFaults /\ crashes = MaxCrashes /\ up = "down") ~> Synced

\* "At reinitialisation a new deposit tree and the work cycle will be resumed",
\* says deposits-registry.service.ts:193-196 of a process that exits to clean
\* its cache.  Headers that HeadersForDeletion refuses keep it from starting.
RestartResumes == (up = "down") ~> (up = "running")

=============================================================================
