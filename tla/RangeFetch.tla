------------------------------ MODULE RangeFetch ------------------------------
(* fetchEventsFallOver: the events of a range of blocks are queried at once,  *)
(* and in halves when all providers have failed.  The stack of ranges to do   *)
(* has its top first.                                                         *)
EXTENDS Integers, Sequences, SequencesExt

CONSTANTS
    Nodes,          \* the hashes of all deposits, in the order of the chain
    LastBlock,
    DepositCount,   \* DepositCount[b]: the deposits up to block b
    MaxDrops        \* bound: answers of a call that lack the events of a block

ASSUME ChainAssumption ==
    /\ Nodes \in Seq(Range(Nodes))
    /\ LastBlock \in Nat
    /\ DepositCount \in [0..LastBlock -> 0..Len(Nodes)]
    /\ DepositCount[0] = 0
    /\ \A a, b \in 0..LastBlock : a <= b => DepositCount[a] <= DepositCount[b]
ASSUME MaxDropsAssumption == MaxDrops \in Nat

VARIABLES
    span,       \* the range asked for
    stack,
    allEvents,
    fetching,   \* "idle", "running", "done" or "thrown"
    next,       \* history: the first block of span not yet answered for
    drops       \* history: incomplete answers to this call

fetchVars == << span, stack, allEvents, fetching, next, drops >>

Larger(a, b) == IF a >= b THEN a ELSE b
RangeTask(a, b) == [start |-> a, end |-> b]

FetchInit ==
    /\ span = RangeTask(1, 0)
    /\ stack = << >>
    /\ allEvents = << >>
    /\ fetching = "idle"
    /\ next = 1
    /\ drops = 0

\* The deposit contract counts its events from 0.
DepositEvent(n) == [count |-> n, node |-> Nodes[n + 1]]

\* The events of blocks a to b; none when the range is inverted.
EventsOf(a, b) ==
    [i \in 1..DepositCount[b] - DepositCount[a - 1] |-> DepositEvent(DepositCount[a - 1] + i - 1)]

\* What a provider may answer for blocks a to b: its events in any order
\* between the chain's and the reverse, or without those of one block.
Answers(a, b) ==
    {[events |-> e, dropped |-> 0] : e \in {EventsOf(a, b), Reverse(EventsOf(a, b))}}
    \cup {[events |-> EventsOf(a, x - 1) \o EventsOf(x + 1, b), dropped |-> 1] :
             x \in {y \in a..b : EventsOf(y, y) # << >>}}

\* Slip: ranges of any length can be split.
canSplitEventsRange_Any(t) == t.end - t.start >= 0

canSplitEventsRange(t) == t.end - t.start > 1

\* Slip: the halves share the block in the middle.
splitEventsRange_Overlapping(t) ==
    LET center == (t.start + t.end + 1) \div 2 IN
    << RangeTask(t.start, center), RangeTask(center, t.end) >>

\* The left half and the right one; center is rounded up.
splitEventsRange(t) ==
    LET center == (t.start + t.end + 1) \div 2 IN
    << RangeTask(t.start, center - 1), RangeTask(center, t.end) >>

-----------------------------------------------------------------------------
\* The call, for blocks a to b.
fetchEventsFallOver(a, b) ==
    /\ span' = RangeTask(a, b)
    /\ stack' = << RangeTask(a, b) >>
    /\ allEvents' = << >>
    /\ fetching' = "running"
    /\ next' = a
    /\ drops' = 0

\* The fetcher has answered for the range on top.
Fetched ==
    /\ fetching = "running" /\ stack # << >>
    /\ \E answer \in Answers(Head(stack).start, Head(stack).end) :
        /\ drops + answer.dropped <= MaxDrops
        /\ drops' = drops + answer.dropped
        /\ allEvents' = allEvents \o answer.events
    /\ stack' = Tail(stack)
    /\ next' = Larger(Head(stack).start, Head(stack).end + 1)
    /\ UNCHANGED << span, fetching >>

\* AllProvidersFailedError: the halves are next, the left one first.
Split ==
    /\ fetching = "running" /\ stack # << >>
    /\ canSplitEventsRange(Head(stack))
    /\ stack' = splitEventsRange(Head(stack)) \o Tail(stack)
    /\ UNCHANGED << span, allEvents, fetching, next, drops >>

\* Another error, or a range that cannot be split: the events so far are lost.
Throws ==
    /\ fetching = "running" /\ stack # << >>
    /\ fetching' = "thrown"
    /\ UNCHANGED << span, stack, allEvents, next, drops >>

Returns ==
    /\ fetching = "running" /\ stack = << >>
    /\ fetching' = "done"
    /\ UNCHANGED << span, stack, allEvents, next, drops >>

FetchStep == Fetched \/ Split \/ Throws \/ Returns

-----------------------------------------------------------------------------
FetchTypeOK ==
    /\ span \in [start : Int, end : Int]
    /\ stack \in Seq([start : Int, end : Int])
    /\ fetching \in {"idle", "running", "done", "thrown"}
    /\ next \in Int

\* The ranges to do lie end to end from the first unanswered block to the last
\* one asked for: however often a range is split, no block is skipped and none
\* is queried twice.
Tiled ==
    fetching \in {"running", "done"} =>
        /\ \A i \in 1..Len(stack) - 1 : stack[i].end + 1 = stack[i + 1].start
        /\ stack # << >> => stack[1].start = next /\ stack[Len(stack)].end = span.end
        /\ stack = << >> => next = Larger(span.start, span.end + 1)
        /\ fetching = "done" => stack = << >>

=============================================================================
