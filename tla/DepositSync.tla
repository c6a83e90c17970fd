----------------------------- MODULE DepositSync -----------------------------
(* The deposits of a range of blocks on their way into a deposit tree: they   *)
(* are fetched, sorted, put into the finalized tree or into a clone of it,    *)
(* and the root is compared with the deposit contract's.  DepositsRegistry    *)
(* has the same with a tree that is the list of its leaves, amid crashes and  *)
(* overlapping cycles; here the tree is the real one, and the fetcher splits. *)
EXTENDS RangeFetch, DepositTree, FiniteSets

\* The contract takes fewer than 2^DEPTH deposits: halved so often, none is left.
ASSUME CapacityAssumption ==
    halvesOf(DepositCount[LastBlock])[DEPOSIT_CONTRACT_TREE_DEPTH] = 0

VARIABLES
    stage,      \* "idle", "fetch", "put", "stored" or "checked"
    which,      \* the tree being filled: "finalized" or "latest"
    trees,
    leaves,     \* history: what was put into either tree
    todo,       \* events still to be put
    synced,     \* the last block of the finalized events that are cached
    verdict,    \* the last comparison: "none", "match", "mismatch" or "broken"
    had,        \* history: leaves of the finalized tree when the call began
    brought     \* history: the events that were fetched since

syncVars == << stage, which, trees, leaves, todo, synced, verdict, had, brought >>
vars == << fetchVars, syncVars >>
filling == << trees, leaves, todo >>
history == << had, brought >>

Blocks == 1..LastBlock
depositRoot(b) == MerkleRoot([i \in DOMAIN EventsOf(1, b) |-> EventsOf(1, b)[i].node])

Init ==
    /\ FetchInit
    /\ stage = "idle"
    /\ which = "finalized"
    /\ trees = [finalized |-> NewTree, latest |-> NewTree]
    /\ leaves = [finalized |-> << >>, latest |-> << >>]
    /\ todo = << >>
    /\ synced = 0
    /\ verdict = "none"
    /\ had = 0 /\ brought = {}

-----------------------------------------------------------------------------
\* A call that fills tree w begins; what an earlier one left in the finalized
\* tree is still there.
Begin(w) ==
    /\ stage = "idle"
    /\ which' = w
    /\ verdict' = "none"
    /\ had' = Len(leaves["finalized"])
    /\ brought' = {}
    /\ UNCHANGED << filling, synced >>

\* A chunk of finalized blocks behind those that are cached.
FetchChunk ==
    /\ \E b \in Blocks : b > synced /\ fetchEventsFallOver(synced + 1, b)
    /\ stage' = "fetch"

\* updateEventsCache, on the first of its chunks.
Update == Begin("finalized") /\ FetchChunk

\* No block has become final since: there is nothing to fetch, but the root is
\* compared.
UpdateNothing ==
    /\ Begin("finalized")
    /\ stage' = "stored"
    /\ span' = RangeTask(synced + 1, synced)
    /\ fetching' = "idle"
    /\ UNCHANGED << stack, allEvents, next, drops >>

\* getAllDepositedEvents, for a block that may be the last one in the cache.
GetAll ==
    /\ Begin("latest")
    /\ \E b \in Blocks : b >= synced /\ fetchEventsFallOver(synced + 1, b)
    /\ stage' = "fetch"

Fetching ==
    /\ stage = "fetch"
    /\ FetchStep
    /\ UNCHANGED syncVars

FetchThrew ==
    /\ stage = "fetch" /\ fetching = "thrown"
    /\ stage' = "idle"
    /\ UNCHANGED << fetchVars, which, filling, synced, verdict, history >>

\* Slip: events are taken in the order they arrived in.
sortEventsByDepositCount_AsIs(events) == events

\* Which event comes first: the sort is stable.
Sooner(events, i, j) ==
    \/ events[i].count < events[j].count
    \/ events[i].count = events[j].count /\ i < j

\* The k-th event is the one with k - 1 before it.
sortEventsByDepositCount(events) ==
    [k \in DOMAIN events |->
        LET place == CHOOSE i \in DOMAIN events :
                         Cardinality({j \in DOMAIN events : Sooner(events, j, i)}) = k - 1
        IN  events[place]]

\* The events have arrived: they go to the finalized tree, or to a clone.
Sort ==
    /\ stage = "fetch" /\ fetching = "done"
    /\ stage' = "put"
    /\ todo' = sortEventsByDepositCount(allEvents)
    /\ brought' = brought \cup Range(allEvents)
    /\ IF which = "latest"
       THEN /\ trees' = [trees EXCEPT !.latest = clone(trees.finalized)]
            /\ leaves' = [leaves EXCEPT !.latest = leaves.finalized]
       ELSE UNCHANGED << trees, leaves >>
    /\ UNCHANGED << fetchVars, which, synced, verdict, had >>

\* Slip: the clone has the branch of the tree it was made of.
filled_SharedBranch(e) ==
    LET t == insert(trees[which], e.node) IN
    [trees EXCEPT ![which] = t, !.finalized.branch = t.branch]

\* The trees with the event inserted.
filled(e) == [trees EXCEPT ![which] = insert(@, e.node)]

\* putEventsToTree, one event.
Put ==
    /\ stage = "put" /\ todo # << >>
    /\ Fits(trees[which], Head(todo).count)
    /\ trees' = filled(Head(todo))
    /\ leaves' = [leaves EXCEPT ![which] = Append(@, Head(todo).node)]
    /\ todo' = Tail(todo)
    /\ UNCHANGED << fetchVars, stage, which, synced, verdict, history >>

\* An event that is not the next one: the call is rejected, and those put before
\* it stay in the tree.
PutThrows ==
    /\ stage = "put" /\ todo # << >>
    /\ ~Fits(trees[which], Head(todo).count)
    /\ stage' = "checked"
    /\ verdict' = "broken"
    /\ UNCHANGED << fetchVars, which, filling, synced, history >>

\* The chunk goes to the cache, whatever the root will be.
Store ==
    /\ stage = "put" /\ todo = << >> /\ which = "finalized"
    /\ synced' = span.end
    /\ stage' = "stored"
    /\ UNCHANGED << fetchVars, which, filling, verdict, history >>

NextChunk ==
    /\ stage = "stored"
    /\ FetchChunk
    /\ UNCHANGED << which, filling, synced, verdict, history >>

\* All events to be compared are in the tree.
Complete == IF which = "finalized" THEN stage = "stored" ELSE stage = "put" /\ todo = << >>

\* checkFinalizedRoot, checkLatestRoot.
CheckRoot ==
    /\ Complete
    /\ verdict' = IF getRoot(trees[which]) = depositRoot(span.end) THEN "match" ELSE "mismatch"
    /\ stage' = "checked"
    /\ UNCHANGED << fetchVars, which, filling, synced, history >>

\* The write of the chunk, or the query of the contract's root, is rejected.
RequestFails ==
    /\ Complete \/ (stage = "put" /\ todo = << >>)
    /\ stage' = "idle"
    /\ UNCHANGED << fetchVars, which, filling, synced, verdict, history >>

\* handleNewBlock catches whatever was thrown and a later cycle calls again; only
\* a finalized root that differs ends the process.
Ends ==
    /\ stage = "checked"
    /\ ~(which = "finalized" /\ verdict = "mismatch")
    /\ stage' = "idle"
    /\ todo' = << >>
    /\ UNCHANGED << fetchVars, which, trees, leaves, synced, verdict, history >>

Next ==
    \/ Update \/ UpdateNothing \/ GetAll
    \/ Fetching \/ FetchThrew \/ Sort \/ Put \/ PutThrows
    \/ Store \/ NextChunk \/ CheckRoot \/ RequestFails \/ Ends

Spec == Init /\ [][Next]_vars

\* Queries are answered or rejected; nothing makes a cycle begin.
FairSpec == Spec /\ WF_vars(Fetching)

-----------------------------------------------------------------------------
\* The branch stands for the whole tree: its root is that of the Merkle tree
\* over the leaves inserted so far, of the finalized tree too while events are
\* put into its clone (DepositTree.insert, getRoot, clone).
TreeIsItsLeaves ==
    \A t \in DOMAIN trees : getRoot(trees[t]) = MerkleRoot(leaves[t])

\* Whether ranges were split, whatever order the events came in and whatever an
\* earlier call left in the tree when it failed, the check passes exactly when the
\* events fetched are those that the tree lacked (putEventsToTree, checkRoot).  So
\* none is missing as long as tree and cache agree when the call begins; when the
\* tree is ahead, a complete answer is refused.
CheckIsExact ==
    stage = "checked" =>
        (verdict = "match" <=>
            had <= DepositCount[span.end] /\ brought = {DepositEvent(n) : n \in had..DepositCount[span.end] - 1})

\* fetchEventsFallOver returns or throws: splitting comes to an end.
FetchEnds == fetching = "running" ~> fetching \in {"done", "thrown"}

=============================================================================
