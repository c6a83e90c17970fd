-------------------------- MODULE DepositSyncProofs --------------------------
(* However a range of blocks is split while its events are fetched, no block  *)
(* is left out and none is asked for twice; the tree that is kept with one    *)
(* branch has the root of the tree over all its leaves; and the comparison of *)
(* roots passes exactly when the events fetched are those the tree lacked.    *)
EXTENDS DepositSync, FiniteSetTheorems, TLAPS

\* The middle of a range that can be split lies in it: both halves have a block.
LEMMA Halves ==
    ASSUME NEW a \in Int, NEW b \in Int, b - a > 1
    PROVE  /\ (a + b + 1) \div 2 \in Int
           /\ a < (a + b + 1) \div 2
           /\ (a + b + 1) \div 2 <= b
  OBVIOUS

\* A stack that has a range has one or several.
LEMMA OneOrMore == \A n \in Nat : n # 0 => n = 1 \/ n > 1
  OBVIOUS

\* The stack without its top, and with ranges put on it.
LEMMA TailEntries ==
    ASSUME NEW S, NEW s \in Seq(S), s # << >>
    PROVE  /\ Head(s) = s[1] /\ s[1] \in S
           /\ Tail(s) \in Seq(S)
           /\ Len(Tail(s)) = Len(s) - 1
           /\ \A i \in 1..Len(s) - 1 : Tail(s)[i] = s[i + 1]
  OBVIOUS

LEMMA PushTwo ==
    ASSUME NEW S, NEW s \in Seq(S), NEW l \in S, NEW r \in S
    PROVE  /\ << l, r >> \o s \in Seq(S)
           /\ Len(<< l, r >> \o s) = Len(s) + 2
           /\ (<< l, r >> \o s)[1] = l /\ (<< l, r >> \o s)[2] = r
           /\ \A i \in 1..Len(s) : (<< l, r >> \o s)[i + 2] = s[i]
  <1>1. << l, r >> \in Seq(S) /\ Len(<< l, r >>) = 2
    OBVIOUS
  <1> QED BY <1>1

-----------------------------------------------------------------------------
\* The ranges to do are the one asked for, or have a block each.
Proper ==
    fetching = "running" =>
        \/ stack = << >>
        \/ stack = << span >> /\ next = span.start
        \/ /\ span.start <= span.end
           /\ \A i \in 1..Len(stack) : stack[i].start <= stack[i].end

\* What the fetcher's steps preserve, whoever calls it.
FetchInv == FetchTypeOK /\ Proper /\ Tiled

\* The invariant at the start, after a call, and after each step of the fetcher.
LEMMA InitFetchInv == FetchInit => FetchInv
  BY DEF FetchInit, FetchInv, FetchTypeOK, Tiled, Proper, RangeTask, Larger

LEMMA CallKeeps ==
    ASSUME NEW a \in Int, NEW b \in Int, fetchEventsFallOver(a, b)
    PROVE  FetchInv'
  BY DEF fetchEventsFallOver, FetchInv, FetchTypeOK, Tiled, Proper, RangeTask

LEMMA FetchedKeeps ==
    ASSUME FetchInv, Fetched
    PROVE  FetchInv'
  <1> DEFINE R == [start : Int, end : Int]
  <1>1. stack \in Seq(R) /\ stack # << >> /\ fetching = "running" /\ span \in R
    BY DEF FetchInv, FetchTypeOK, Fetched
  <1>2. /\ Head(stack) = stack[1] /\ stack[1] \in R
        /\ stack' \in Seq(R) /\ Len(stack') = Len(stack) - 1
        /\ \A i \in 1..Len(stack) - 1 : stack'[i] = stack[i + 1]
    BY <1>1, TailEntries DEF Fetched
  <1>3. /\ next' = Larger(stack[1].start, stack[1].end + 1)
        /\ span' = span /\ fetching' = fetching
    BY <1>2 DEF Fetched
  <1>4. stack[1].start \in Int /\ stack[1].end \in Int /\ span.start \in Int /\ span.end \in Int
    BY <1>1, <1>2
  <1>5. FetchTypeOK'
    BY <1>2, <1>3, <1>4 DEF FetchInv, FetchTypeOK, Larger
  <1>6. /\ \A i \in 1..Len(stack) - 1 : stack[i].end + 1 = stack[i + 1].start
        /\ stack[1].start = next
        /\ stack[Len(stack)].end = span.end
    BY <1>1 DEF FetchInv, Tiled
  <1>7. CASE Len(stack) = 1
    <2>1. stack' = << >>
      BY <1>2, <1>7
    <2>2. next' = Larger(span.start, span.end + 1)
      <3>1. stack[1].end = span.end
        BY <1>6, <1>7
      <3>2. CASE stack = << span >>
        BY <3>2, <1>3
      <3>3. CASE span.start <= span.end /\ stack[1].start <= stack[1].end
        BY <3>1, <3>3, <1>3, <1>4 DEF Larger
      <3> QED BY <3>2, <3>3, <1>1, <1>7 DEF FetchInv, Proper
    <2> QED BY <2>1, <2>2, <1>1, <1>3, <1>5 DEF FetchInv, Tiled, Proper
  <1>8. CASE Len(stack) > 1
    <2>1. /\ span.start <= span.end
          /\ \A i \in 1..Len(stack) : stack[i].start <= stack[i].end
      <3>1. stack # << span >>
        <4>1. SUFFICES ASSUME stack = << span >> PROVE FALSE
          OBVIOUS
        <4>2. Len(stack) = 1
          BY <4>1
        <4>3. ~(1 > 1)
          OBVIOUS
        <4> QED BY <4>2, <4>3, <1>8
      <3> QED BY <3>1, <1>1 DEF FetchInv, Proper
    <2>2. Proper'
      <3>1. \A i \in 1..Len(stack') : stack'[i].start <= stack'[i].end
        <4>1. SUFFICES ASSUME NEW i \in 1..Len(stack') PROVE stack'[i].start <= stack'[i].end
          OBVIOUS
        <4>2. i \in 1..Len(stack) - 1 /\ i + 1 \in 1..Len(stack)
          BY <1>1, <1>2
        <4> QED BY <4>2, <2>1, <1>2
      <3> QED BY <3>1, <2>1, <1>1, <1>3 DEF Proper
    <2>3. next' = stack[1].end + 1
      BY <2>1, <1>1, <1>3, <1>4 DEF Larger
    <2>4. Len(stack) \in Nat
      BY <1>1
    <2>5. stack'[1] = stack[2] /\ stack'[Len(stack')] = stack[Len(stack)] /\ stack' # << >>
      <3>1. 1 \in 1..Len(stack) - 1 /\ Len(stack) - 1 \in 1..Len(stack) - 1
            /\ (Len(stack) - 1) + 1 = Len(stack) /\ 1 + 1 = 2
        BY <1>8, <2>4
      <3>2. stack'[1] = stack[2] /\ stack'[Len(stack')] = stack[Len(stack)]
        BY <3>1, <1>2
      <3>3. Len(stack') > 0
        BY <1>2, <1>8, <2>4
      <3>4. Len(<< >>) = 0
        OBVIOUS
      <3> QED BY <3>2, <3>3, <3>4
    <2>6. stack'[1].start = next' /\ stack'[Len(stack')].end = span'.end
      BY <2>3, <2>4, <2>5, <1>3, <1>6, <1>8
    <2>7. \A i \in 1..Len(stack') - 1 : stack'[i].end + 1 = stack'[i + 1].start
      <3>1. SUFFICES ASSUME NEW i \in 1..Len(stack') - 1
                     PROVE  stack'[i].end + 1 = stack'[i + 1].start
        OBVIOUS
      <3>2. i \in 1..Len(stack) - 1 /\ i + 1 \in 1..Len(stack) - 1
        BY <1>2, <2>4
      <3> QED BY <3>2, <1>2, <1>6
    <2> QED BY <2>2, <2>5, <2>6, <2>7, <1>1, <1>3, <1>5 DEF FetchInv, Tiled
  <1>9. Len(stack) = 1 \/ Len(stack) > 1
    <2>1. Len(stack) \in Nat /\ Len(stack) # 0
      BY <1>1
    <2> QED BY <2>1, OneOrMore
  <1> QED BY <1>7, <1>8, <1>9

LEMMA SplitKeeps ==
    ASSUME FetchInv, Split
    PROVE  FetchInv'
  <1> DEFINE R == [start : Int, end : Int]
             t == stack[1]
             center == (t.start + t.end + 1) \div 2
             l == RangeTask(t.start, center - 1)
             r == RangeTask(center, t.end)
  <1>1. /\ stack \in Seq(R) /\ stack # << >> /\ fetching = "running" /\ span \in R
        /\ next \in Int /\ Len(stack) \in Nat /\ Len(stack) > 0
    BY DEF FetchInv, FetchTypeOK, Split
  <1>2. /\ Head(stack) = t /\ t \in R
        /\ Tail(stack) \in Seq(R) /\ Len(Tail(stack)) = Len(stack) - 1
        /\ \A i \in 1..Len(stack) - 1 : Tail(stack)[i] = stack[i + 1]
    BY <1>1, TailEntries
  <1>3. t.start \in Int /\ t.end \in Int /\ t.end - t.start > 1
    BY <1>2 DEF Split, canSplitEventsRange
  <1>4. center \in Int /\ t.start < center /\ center <= t.end
    BY <1>3, Halves
  <1>5. l \in R /\ r \in R
    BY <1>3, <1>4 DEF RangeTask
  <1>6. stack' = << l, r >> \o Tail(stack)
    BY <1>2 DEF Split, splitEventsRange
  <1>7. /\ stack' \in Seq(R) /\ Len(stack') = Len(stack) + 1
        /\ stack'[1] = l /\ stack'[2] = r
        /\ \A i \in 1..Len(stack) - 1 : stack'[i + 2] = stack[i + 1]
    <2>1. /\ << l, r >> \o Tail(stack) \in Seq(R)
          /\ Len(<< l, r >> \o Tail(stack)) = Len(Tail(stack)) + 2
          /\ (<< l, r >> \o Tail(stack))[1] = l /\ (<< l, r >> \o Tail(stack))[2] = r
          /\ \A i \in 1..Len(Tail(stack)) : (<< l, r >> \o Tail(stack))[i + 2] = Tail(stack)[i]
      BY <1>2, <1>5, PushTwo
    <2>2. Len(Tail(stack)) + 2 = Len(stack) + 1
      BY <1>1, <1>2
    <2> HIDE DEF l, r, R
    <2> QED BY <2>1, <2>2, <1>2, <1>6
  <1>8. /\ l.start = t.start /\ l.end + 1 = r.start /\ r.end = t.end
        /\ l.start <= l.end /\ r.start <= r.end
    BY <1>3, <1>4 DEF RangeTask
  <1>9. /\ \A i \in 1..Len(stack) - 1 : stack[i].end + 1 = stack[i + 1].start
        /\ t.start = next /\ stack[Len(stack)].end = span.end
    BY <1>1 DEF FetchInv, Tiled
  <1>10. span' = span /\ fetching' = fetching /\ next' = next
    BY DEF Split
  <1>11. FetchTypeOK'
    BY <1>7, <1>10 DEF FetchInv, FetchTypeOK
  <1>12. /\ span.start <= span.end
         /\ \A i \in 1..Len(stack) : stack[i].start <= stack[i].end
    <2>1. CASE stack = << span >>
      BY <2>1, <1>3
    <2>2. CASE /\ span.start <= span.end
               /\ \A i \in 1..Len(stack) : stack[i].start <= stack[i].end
      BY <2>2
    <2> QED BY <2>1, <2>2, <1>1 DEF FetchInv, Proper
  <1> HIDE DEF l, r, t, center
  <1>13. Proper'
    <2>1. SUFFICES ASSUME NEW i \in 1..Len(stack')
                   PROVE  stack'[i].start <= stack'[i].end
      BY <1>10, <1>12 DEF Proper
    <2>2. CASE i = 1
      BY <2>2, <1>7, <1>8
    <2>3. CASE i = 2
      BY <2>3, <1>7, <1>8
    <2>4. CASE i > 2
      <3>1. i - 2 \in 1..Len(stack) - 1 /\ i - 1 \in 1..Len(stack) /\ (i - 2) + 2 = i /\ (i - 2) + 1 = i - 1
        BY <2>4, <1>1, <1>7
      <3>2. stack'[i] = stack[i - 1]
        BY <3>1, <1>7
      <3> QED BY <3>1, <3>2, <1>12
    <2> QED BY <2>2, <2>3, <2>4, <1>1, <1>7
  <1>14. stack'[Len(stack')].end = span.end
    <2>1. CASE Len(stack) = 1
      BY <2>1, <1>7, <1>8, <1>9 DEF t
    <2>2. CASE Len(stack) > 1
      <3>1. Len(stack) - 1 \in 1..Len(stack) - 1 /\ (Len(stack) - 1) + 2 = Len(stack) + 1
            /\ (Len(stack) - 1) + 1 = Len(stack)
        BY <2>2, <1>1
      <3>2. stack'[Len(stack')] = stack[Len(stack)]
        BY <3>1, <1>7
      <3> QED BY <3>2, <1>9
    <2>3. Len(stack) # 0
      BY <1>1
    <2> QED BY <2>1, <2>2, <2>3, <1>1, OneOrMore
  <1>15. \A i \in 1..Len(stack') - 1 : stack'[i].end + 1 = stack'[i + 1].start
    <2>1. SUFFICES ASSUME NEW i \in 1..Len(stack') - 1
                   PROVE  stack'[i].end + 1 = stack'[i + 1].start
      OBVIOUS
    <2>2. CASE i = 1
      BY <2>2, <1>7, <1>8
    <2>3. CASE i = 2
      <3>1. Len(stack) > 1 /\ 1 \in 1..Len(stack) - 1
        BY <2>3, <1>1, <1>7
      <3>2. stack'[3] = stack[2] /\ stack[1].end + 1 = stack[2].start
        <4>1. 1 + 2 = 3 /\ 1 + 1 = 2
          OBVIOUS
        <4>2. stack'[1 + 2] = stack[1 + 1] /\ stack[1].end + 1 = stack[1 + 1].start
          BY <3>1, <1>7, <1>9
        <4> QED BY <4>1, <4>2
      <3> QED BY <2>3, <3>2, <1>7, <1>8 DEF t
    <2>4. CASE i > 2
      <3>1. /\ i - 2 \in 1..Len(stack) - 1 /\ i - 1 \in 1..Len(stack) - 1
            /\ (i - 2) + 2 = i /\ (i - 1) + 2 = i + 1 /\ (i - 2) + 1 = i - 1 /\ (i - 1) + 1 = i
        BY <2>4, <1>1, <1>7
      <3>2. stack'[i] = stack[i - 1] /\ stack'[i + 1] = stack[i]
        BY <3>1, <1>7
      <3>3. stack[i - 1].end + 1 = stack[i].start
        BY <3>1, <1>9
      <3> QED BY <3>2, <3>3
    <2> QED BY <2>2, <2>3, <2>4, <1>1, <1>7
  <1>16. stack' # << >> /\ stack'[1].start = next'
    BY <1>1, <1>7, <1>8, <1>9, <1>10
  <1> QED BY <1>1, <1>10, <1>11, <1>13, <1>14, <1>15, <1>16 DEF FetchInv, Tiled

LEMMA StepKeeps ==
    ASSUME FetchInv, FetchStep
    PROVE  FetchInv'
  <1>1. CASE Fetched
    BY <1>1, FetchedKeeps
  <1>2. CASE Split
    BY <1>2, SplitKeeps
  <1>3. CASE Throws
    BY <1>3 DEF Throws, FetchInv, FetchTypeOK, Proper, Tiled
  <1>4. CASE Returns
    BY <1>4 DEF Returns, FetchInv, FetchTypeOK, Proper, Tiled
  <1> QED BY <1>1, <1>2, <1>3, <1>4 DEF FetchStep

LEMMA StutterKeeps ==
    ASSUME FetchInv, UNCHANGED fetchVars
    PROVE  FetchInv'
  BY DEF fetchVars, FetchInv, FetchTypeOK, Proper, Tiled

-----------------------------------------------------------------------------
\* The fetcher is called for ranges of numbers.
Inv == FetchInv /\ synced \in Int

\* Blocks are numbers.
LEMMA BlocksAreNumbers == Blocks \subseteq Int
  BY ChainAssumption DEF Blocks

\* The invariant of the composed system, with its first state and its steps.
LEMMA InvInit == Init => Inv
  BY InitFetchInv DEF Init, Inv

LEMMA InvStep == Inv /\ [Next]_vars => Inv'
  <1> SUFFICES ASSUME Inv, [Next]_vars PROVE Inv'
    OBVIOUS
  <1>1. CASE Update \/ GetAll \/ NextChunk
    <2>1. PICK b \in Blocks : fetchEventsFallOver(synced + 1, b)
      BY <1>1 DEF Update, GetAll, NextChunk, FetchChunk
    <2>2. synced + 1 \in Int /\ b \in Int
      BY BlocksAreNumbers DEF Inv
    <2>3. FetchInv'
      BY <2>1, <2>2, CallKeeps
    <2>4. synced' = synced
      BY <1>1 DEF Update, GetAll, NextChunk, Begin
    <2> QED BY <2>3, <2>4 DEF Inv
  <1>2. CASE UpdateNothing
    BY <1>2 DEF UpdateNothing, Begin, Inv, FetchInv, FetchTypeOK, Proper, Tiled, RangeTask
  <1>3. CASE Fetching
    BY <1>3, StepKeeps DEF Inv, Fetching, syncVars
  <1>4. CASE FetchThrew \/ Sort \/ Put \/ PutThrows \/ CheckRoot \/ RequestFails \/ Ends
    BY <1>4, StutterKeeps
    DEF Inv, FetchThrew, Sort, Put, PutThrows, CheckRoot, RequestFails, Ends
  <1>5. CASE Store
    <2>1. FetchInv'
      BY <1>5, StutterKeeps DEF Inv, Store
    <2>2. synced' \in Int
      BY <1>5 DEF Inv, FetchInv, FetchTypeOK, Store
    <2> QED BY <2>1, <2>2 DEF Inv
  <1>6. CASE UNCHANGED vars
    BY <1>6, StutterKeeps DEF Inv, vars, syncVars
  <1> QED BY <1>1, <1>2, <1>3, <1>4, <1>5, <1>6 DEF Next

\* fetchEventsFallOver, as updateEventsCache and getAllDepositedEvents call it:
\* in every state the ranges still to be queried begin where the answers end and
\* reach to the end of the range asked for, without gap or overlap.
THEOREM NoBlockIsSkipped == Spec => []Tiled
  <1>1. Inv => Tiled
    BY DEF Inv, FetchInv
  <1> QED BY <1>1, InvInit, InvStep, PTL DEF Spec

-----------------------------------------------------------------------------
(* Numbers and recursive functions                                          *)

\* A least counterexample, which is what stands for induction below.
LEMMA Smallest ==
    ASSUME NEW S \in SUBSET Nat, S # {}
    PROVE  \E n \in S : \A i \in S : n <= i
<1> DEFINE less == OpToRel(<, Nat)
<1>1. IsWellFoundedOn(less, Nat)
  BY NatLessThanWellFounded
<1>2. \A i, n \in Nat : <<i, n>> \in less <=> i < n
  BY DEF OpToRel
<1> HIDE DEF less
<1>3. PICK n \in S : \A i \in S : ~ (<<i, n>> \in less)
  BY <1>1, WFMin
<1>4. \A i \in S : i \in Nat /\ n \in Nat /\ ~ (i < n)
  BY <1>2, <1>3
<1> QED
  BY <1>4

\* Induction up to a bound, over a set of numbers.
LEMMA Induct ==
    ASSUME NEW S \in SUBSET Nat, 0 \in S, \A n \in Nat : n \in S => n + 1 \in S,
           NEW m \in Nat
    PROVE  m \in S
<1> DEFINE bad == Nat \ S
<1> SUFFICES ASSUME m \in bad PROVE FALSE
  OBVIOUS
<1>1. PICK n \in bad : \A i \in bad : n <= i
  BY Smallest
<1>2. n # 0 /\ n - 1 \in Nat /\ ~(n <= n - 1) /\ (n - 1) + 1 = n
  BY <1>1
<1>3. n - 1 \in S
  BY <1>1, <1>2
<1> QED
  BY <1>1, <1>2, <1>3

\* The recursive functions exist.
LEMMA HalvesDef ==
    ASSUME NEW size
    PROVE  halvesOf(size) = [h \in 0..DEPOSIT_CONTRACT_TREE_DEPTH |-> IF h = 0 THEN size ELSE halvesOf(size)[h - 1] \div 2]
<1> DEFINE Is(f, n) == f = [h \in 0..n |-> IF h = 0 THEN size ELSE f[h - 1] \div 2]
           Good == {n \in Nat : \E f : Is(f, n)}
<1>1. 0 \in Good
  <2> DEFINE f == [h \in 0..0 |-> size]
  <2>1. Is(f, 0)
    OBVIOUS
  <2> QED
    BY <2>1
<1>2. ASSUME NEW n \in Nat, n \in Good
      PROVE  n + 1 \in Good
  <2>1. PICK f : Is(f, n)
    BY <1>2
  <2> DEFINE g == [h \in 0..n + 1 |-> IF h = n + 1 THEN f[n] \div 2 ELSE f[h]]
  <2>2. \A h \in 0..n + 1 : h # 0 => h - 1 \in 0..n /\ g[h - 1] = f[h - 1]
    OBVIOUS
  <2>3. ASSUME NEW h \in 0..n + 1
        PROVE  g[h] = IF h = 0 THEN size ELSE g[h - 1] \div 2
    <3>1. CASE h = n + 1
      <4>1. h # 0 /\ h - 1 = n /\ g[h - 1] = f[n] /\ g[h] = f[n] \div 2
        BY <3>1, <2>2
      <4> HIDE DEF g
      <4> QED
        BY <3>1, <4>1
    <3>2. CASE h # n + 1
      <4>1. h \in 0..n /\ g[h] = f[h] /\ (h # 0 => g[h - 1] = f[h - 1])
        BY <3>2, <2>2
      <4>2. f[h] = IF h = 0 THEN size ELSE f[h - 1] \div 2
        BY <4>1, <2>1
      <4> HIDE DEF g
      <4> QED
        BY <4>1, <4>2
    <3> QED
      BY <3>1, <3>2
  <2>4. g = [h \in 0..n + 1 |-> g[h]]
    OBVIOUS
  <2>5. Is(g, n + 1)
    <3> HIDE DEF g
    <3> QED
      BY <2>3, <2>4
  <2> HIDE DEF g, Is
  <2> QED
    BY <2>5
<1> HIDE DEF Is
<1>3. DEPOSIT_CONTRACT_TREE_DEPTH \in Nat
  BY DepthAssumption
<1>4. DEPOSIT_CONTRACT_TREE_DEPTH \in Good
  <2>1. Good \in SUBSET Nat
    OBVIOUS
  <2> HIDE DEF Good
  <2> QED
    BY <1>1, <1>2, <1>3, <2>1, Induct
<1>5. PICK f : Is(f, DEPOSIT_CONTRACT_TREE_DEPTH)
  BY <1>4
<1>6. halvesOf(size) = CHOOSE g : Is(g, DEPOSIT_CONTRACT_TREE_DEPTH)
  BY DEF Is, halvesOf
<1>7. Is(halvesOf(size), DEPOSIT_CONTRACT_TREE_DEPTH)
  BY <1>5, <1>6
<1> QED
  BY <1>7 DEF Is

\* zeroHashes, from the definition of its recursion.
LEMMA ZerosDef ==
    zeroHashes = [h \in Heights |-> IF h = 0 THEN ZERO_HASH ELSE digest2Bytes32(zeroHashes[h - 1], zeroHashes[h - 1])]
<1> DEFINE Is(f, n) == f = [h \in 0..n |-> IF h = 0 THEN ZERO_HASH ELSE digest2Bytes32(f[h - 1], f[h - 1])]
           Good == {n \in Nat : \E f : Is(f, n)}
<1>1. 0 \in Good
  <2> DEFINE f == [h \in 0..0 |-> ZERO_HASH]
  <2>1. Is(f, 0)
    OBVIOUS
  <2> QED
    BY <2>1
<1>2. ASSUME NEW n \in Nat, n \in Good
      PROVE  n + 1 \in Good
  <2>1. PICK f : Is(f, n)
    BY <1>2
  <2> DEFINE g == [h \in 0..n + 1 |-> IF h = n + 1 THEN digest2Bytes32(f[n], f[n]) ELSE f[h]]
  <2>2. \A h \in 0..n + 1 : h # 0 => h - 1 \in 0..n /\ g[h - 1] = f[h - 1]
    OBVIOUS
  <2>3. ASSUME NEW h \in 0..n + 1
        PROVE  g[h] = IF h = 0 THEN ZERO_HASH ELSE digest2Bytes32(g[h - 1], g[h - 1])
    <3>1. CASE h = n + 1
      <4>1. h # 0 /\ h - 1 = n /\ g[h - 1] = f[n] /\ g[h] = digest2Bytes32(f[n], f[n])
        BY <3>1, <2>2
      <4> HIDE DEF g
      <4> QED
        BY <3>1, <4>1
    <3>2. CASE h # n + 1
      <4>1. h \in 0..n /\ g[h] = f[h] /\ (h # 0 => g[h - 1] = f[h - 1])
        BY <3>2, <2>2
      <4>2. f[h] = IF h = 0 THEN ZERO_HASH ELSE digest2Bytes32(f[h - 1], f[h - 1])
        BY <4>1, <2>1
      <4> HIDE DEF g
      <4> QED
        BY <4>1, <4>2
    <3> QED
      BY <3>1, <3>2
  <2>4. g = [h \in 0..n + 1 |-> g[h]]
    OBVIOUS
  <2>5. Is(g, n + 1)
    <3> HIDE DEF g
    <3> QED
      BY <2>3, <2>4
  <2> HIDE DEF g, Is
  <2> QED
    BY <2>5
<1> HIDE DEF Is
<1>3. DEPOSIT_CONTRACT_TREE_DEPTH - 1 \in Nat
  BY DepthAssumption
<1>4. DEPOSIT_CONTRACT_TREE_DEPTH - 1 \in Good
  <2>1. Good \in SUBSET Nat
    OBVIOUS
  <2> HIDE DEF Good
  <2> QED
    BY <1>1, <1>2, <1>3, <2>1, Induct
<1>5. PICK f : Is(f, DEPOSIT_CONTRACT_TREE_DEPTH - 1)
  BY <1>4
<1>6. zeroHashes = CHOOSE g : Is(g, DEPOSIT_CONTRACT_TREE_DEPTH - 1)
  BY DEF Is, zeroHashes, Heights
<1>7. Is(zeroHashes, DEPOSIT_CONTRACT_TREE_DEPTH - 1)
  BY <1>5, <1>6
<1> QED
  BY <1>7 DEF Is, Heights

\* hashedUp, likewise.
LEMMA HashedUpDef ==
    ASSUME NEW branch, NEW leaf
    PROVE  hashedUp(branch, leaf) = [h \in Heights |-> IF h = 0 THEN leaf ELSE digest2Bytes32(branch[h - 1], hashedUp(branch, leaf)[h - 1])]
<1> DEFINE Is(f, n) == f = [h \in 0..n |-> IF h = 0 THEN leaf ELSE digest2Bytes32(branch[h - 1], f[h - 1])]
           Good == {n \in Nat : \E f : Is(f, n)}
<1>1. 0 \in Good
  <2> DEFINE f == [h \in 0..0 |-> leaf]
  <2>1. Is(f, 0)
    OBVIOUS
  <2> QED
    BY <2>1
<1>2. ASSUME NEW n \in Nat, n \in Good
      PROVE  n + 1 \in Good
  <2>1. PICK f : Is(f, n)
    BY <1>2
  <2> DEFINE g == [h \in 0..n + 1 |-> IF h = n + 1 THEN digest2Bytes32(branch[(n + 1) - 1], f[n]) ELSE f[h]]
  <2>2. \A h \in 0..n + 1 : h # 0 => h - 1 \in 0..n /\ g[h - 1] = f[h - 1]
    OBVIOUS
  <2>3. ASSUME NEW h \in 0..n + 1
        PROVE  g[h] = IF h = 0 THEN leaf ELSE digest2Bytes32(branch[h - 1], g[h - 1])
    <3>1. CASE h = n + 1
      <4>1. h # 0 /\ h - 1 = n /\ g[h - 1] = f[n] /\ g[h] = digest2Bytes32(branch[(n + 1) - 1], f[n])
        BY <3>1, <2>2
      <4> HIDE DEF g
      <4> QED
        BY <3>1, <4>1
    <3>2. CASE h # n + 1
      <4>1. h \in 0..n /\ g[h] = f[h] /\ (h # 0 => g[h - 1] = f[h - 1])
        BY <3>2, <2>2
      <4>2. f[h] = IF h = 0 THEN leaf ELSE digest2Bytes32(branch[h - 1], f[h - 1])
        BY <4>1, <2>1
      <4> HIDE DEF g
      <4> QED
        BY <4>1, <4>2
    <3> QED
      BY <3>1, <3>2
  <2>4. g = [h \in 0..n + 1 |-> g[h]]
    OBVIOUS
  <2>5. Is(g, n + 1)
    <3> HIDE DEF g
    <3> QED
      BY <2>3, <2>4
  <2> HIDE DEF g, Is
  <2> QED
    BY <2>5
<1> HIDE DEF Is
<1>3. DEPOSIT_CONTRACT_TREE_DEPTH - 1 \in Nat
  BY DepthAssumption
<1>4. DEPOSIT_CONTRACT_TREE_DEPTH - 1 \in Good
  <2>1. Good \in SUBSET Nat
    OBVIOUS
  <2> HIDE DEF Good
  <2> QED
    BY <1>1, <1>2, <1>3, <2>1, Induct
<1>5. PICK f : Is(f, DEPOSIT_CONTRACT_TREE_DEPTH - 1)
  BY <1>4
<1>6. hashedUp(branch, leaf) = CHOOSE g : Is(g, DEPOSIT_CONTRACT_TREE_DEPTH - 1)
  BY DEF Is, hashedUp, Heights
<1>7. Is(hashedUp(branch, leaf), DEPOSIT_CONTRACT_TREE_DEPTH - 1)
  BY <1>5, <1>6
<1> QED
  BY <1>7 DEF Is, Heights

\* rootsOf, likewise.
LEMMA RootsDef ==
    ASSUME NEW tree
    PROVE  rootsOf(tree) = [h \in 0..DEPOSIT_CONTRACT_TREE_DEPTH |-> IF h = 0 THEN ZERO_HASH ELSE (IF Odd(tree.nodeCount, h - 1) THEN digest2Bytes32(tree.branch[h - 1], rootsOf(tree)[h - 1]) ELSE digest2Bytes32(rootsOf(tree)[h - 1], zeroHashes[h - 1]))]
<1> DEFINE Is(f, n) == f = [h \in 0..n |-> IF h = 0 THEN ZERO_HASH ELSE (IF Odd(tree.nodeCount, h - 1) THEN digest2Bytes32(tree.branch[h - 1], f[h - 1]) ELSE digest2Bytes32(f[h - 1], zeroHashes[h - 1]))]
           Good == {n \in Nat : \E f : Is(f, n)}
<1>1. 0 \in Good
  <2> DEFINE f == [h \in 0..0 |-> ZERO_HASH]
  <2>1. Is(f, 0)
    OBVIOUS
  <2> QED
    BY <2>1
<1>2. ASSUME NEW n \in Nat, n \in Good
      PROVE  n + 1 \in Good
  <2>1. PICK f : Is(f, n)
    BY <1>2
  <2> DEFINE g == [h \in 0..n + 1 |-> IF h = n + 1 THEN (IF Odd(tree.nodeCount, (n + 1) - 1) THEN digest2Bytes32(tree.branch[(n + 1) - 1], f[n]) ELSE digest2Bytes32(f[n], zeroHashes[(n + 1) - 1])) ELSE f[h]]
  <2>2. \A h \in 0..n + 1 : h # 0 => h - 1 \in 0..n /\ g[h - 1] = f[h - 1]
    OBVIOUS
  <2>3. ASSUME NEW h \in 0..n + 1
        PROVE  g[h] = IF h = 0 THEN ZERO_HASH ELSE (IF Odd(tree.nodeCount, h - 1) THEN digest2Bytes32(tree.branch[h - 1], g[h - 1]) ELSE digest2Bytes32(g[h - 1], zeroHashes[h - 1]))
    <3>1. CASE h = n + 1
      <4>1. h # 0 /\ h - 1 = n /\ g[h - 1] = f[n] /\ g[h] = (IF Odd(tree.nodeCount, (n + 1) - 1) THEN digest2Bytes32(tree.branch[(n + 1) - 1], f[n]) ELSE digest2Bytes32(f[n], zeroHashes[(n + 1) - 1]))
        BY <3>1, <2>2
      <4> HIDE DEF g
      <4> QED
        BY <3>1, <4>1
    <3>2. CASE h # n + 1
      <4>1. h \in 0..n /\ g[h] = f[h] /\ (h # 0 => g[h - 1] = f[h - 1])
        BY <3>2, <2>2
      <4>2. f[h] = IF h = 0 THEN ZERO_HASH ELSE (IF Odd(tree.nodeCount, h - 1) THEN digest2Bytes32(tree.branch[h - 1], f[h - 1]) ELSE digest2Bytes32(f[h - 1], zeroHashes[h - 1]))
        BY <4>1, <2>1
      <4> HIDE DEF g
      <4> QED
        BY <4>1, <4>2
    <3> QED
      BY <3>1, <3>2
  <2>4. g = [h \in 0..n + 1 |-> g[h]]
    OBVIOUS
  <2>5. Is(g, n + 1)
    <3> HIDE DEF g
    <3> QED
      BY <2>3, <2>4
  <2> HIDE DEF g, Is
  <2> QED
    BY <2>5
<1> HIDE DEF Is
<1>3. DEPOSIT_CONTRACT_TREE_DEPTH \in Nat
  BY DepthAssumption
<1>4. DEPOSIT_CONTRACT_TREE_DEPTH \in Good
  <2>1. Good \in SUBSET Nat
    OBVIOUS
  <2> HIDE DEF Good
  <2> QED
    BY <1>1, <1>2, <1>3, <2>1, Induct
<1>5. PICK f : Is(f, DEPOSIT_CONTRACT_TREE_DEPTH)
  BY <1>4
<1>6. rootsOf(tree) = CHOOSE g : Is(g, DEPOSIT_CONTRACT_TREE_DEPTH)
  BY DEF Is, rootsOf
<1>7. Is(rootsOf(tree), DEPOSIT_CONTRACT_TREE_DEPTH)
  BY <1>5, <1>6
<1> QED
  BY <1>7 DEF Is

\* nodesOf, likewise.
LEMMA NodesDef ==
    ASSUME NEW s
    PROVE  nodesOf(s) = [h \in 0..DEPOSIT_CONTRACT_TREE_DEPTH |-> IF h = 0 THEN [i \in Nat |-> IF i < Len(s) THEN s[i + 1] ELSE ZERO_HASH] ELSE [i \in Nat |-> digest2Bytes32(nodesOf(s)[h - 1][2 * i], nodesOf(s)[h - 1][2 * i + 1])]]
<1> DEFINE Is(f, n) == f = [h \in 0..n |-> IF h = 0 THEN [i \in Nat |-> IF i < Len(s) THEN s[i + 1] ELSE ZERO_HASH] ELSE [i \in Nat |-> digest2Bytes32(f[h - 1][2 * i], f[h - 1][2 * i + 1])]]
           Good == {n \in Nat : \E f : Is(f, n)}
<1>1. 0 \in Good
  <2> DEFINE f == [h \in 0..0 |-> [i \in Nat |-> IF i < Len(s) THEN s[i + 1] ELSE ZERO_HASH]]
  <2>1. Is(f, 0)
    OBVIOUS
  <2> QED
    BY <2>1
<1>2. ASSUME NEW n \in Nat, n \in Good
      PROVE  n + 1 \in Good
  <2>1. PICK f : Is(f, n)
    BY <1>2
  <2> DEFINE g == [h \in 0..n + 1 |-> IF h = n + 1 THEN [i \in Nat |-> digest2Bytes32(f[n][2 * i], f[n][2 * i + 1])] ELSE f[h]]
  <2>2. \A h \in 0..n + 1 : h # 0 => h - 1 \in 0..n /\ g[h - 1] = f[h - 1]
    OBVIOUS
  <2>3. ASSUME NEW h \in 0..n + 1
        PROVE  g[h] = IF h = 0 THEN [i \in Nat |-> IF i < Len(s) THEN s[i + 1] ELSE ZERO_HASH] ELSE [i \in Nat |-> digest2Bytes32(g[h - 1][2 * i], g[h - 1][2 * i + 1])]
    <3>1. CASE h = n + 1
      <4>1. h # 0 /\ h - 1 = n /\ g[h - 1] = f[n] /\ g[h] = [i \in Nat |-> digest2Bytes32(f[n][2 * i], f[n][2 * i + 1])]
        BY <3>1, <2>2
      <4> HIDE DEF g
      <4> QED
        BY <3>1, <4>1
    <3>2. CASE h # n + 1
      <4>1. h \in 0..n /\ g[h] = f[h] /\ (h # 0 => g[h - 1] = f[h - 1])
        BY <3>2, <2>2
      <4>2. f[h] = IF h = 0 THEN [i \in Nat |-> IF i < Len(s) THEN s[i + 1] ELSE ZERO_HASH] ELSE [i \in Nat |-> digest2Bytes32(f[h - 1][2 * i], f[h - 1][2 * i + 1])]
        BY <4>1, <2>1
      <4> HIDE DEF g
      <4> QED
        BY <4>1, <4>2
    <3> QED
      BY <3>1, <3>2
  <2>4. g = [h \in 0..n + 1 |-> g[h]]
    OBVIOUS
  <2>5. Is(g, n + 1)
    <3> HIDE DEF g
    <3> QED
      BY <2>3, <2>4
  <2> HIDE DEF g, Is
  <2> QED
    BY <2>5
<1> HIDE DEF Is
<1>3. DEPOSIT_CONTRACT_TREE_DEPTH \in Nat
  BY DepthAssumption
<1>4. DEPOSIT_CONTRACT_TREE_DEPTH \in Good
  <2>1. Good \in SUBSET Nat
    OBVIOUS
  <2> HIDE DEF Good
  <2> QED
    BY <1>1, <1>2, <1>3, <2>1, Induct
<1>5. PICK f : Is(f, DEPOSIT_CONTRACT_TREE_DEPTH)
  BY <1>4
<1>6. nodesOf(s) = CHOOSE g : Is(g, DEPOSIT_CONTRACT_TREE_DEPTH)
  BY DEF Is, nodesOf
<1>7. Is(nodesOf(s), DEPOSIT_CONTRACT_TREE_DEPTH)
  BY <1>5, <1>6
<1> QED
  BY <1>7 DEF Is

-----------------------------------------------------------------------------
(* The tree                                                                 *)

Levels == 0..DEPOSIT_CONTRACT_TREE_DEPTH

\* Levels are the heights with the root on top.
LEMMA LevelsFacts ==
    /\ 0 \in Heights /\ 0 \in Levels
    /\ \A h \in Heights : /\ h \in Levels /\ h \in Nat
                          /\ h + 1 \in Levels /\ h + 1 # 0 /\ (h + 1) - 1 = h
    /\ \A h \in Levels : h \in Nat /\ (h # 0 => h - 1 \in Heights)
BY DepthAssumption DEF Heights, Levels

\* Induction over the heights of a tree.
LEMMA Upwards ==
    ASSUME NEW S, 0 \in S, \A h \in Heights : h \in S => h + 1 \in S
    PROVE  Levels \subseteq S
<1> DEFINE Good == {h \in Nat : h \in Levels => h \in S}
<1>1. Good \in SUBSET Nat /\ 0 \in Good
  OBVIOUS
<1>2. ASSUME NEW h \in Nat, h \in Good
      PROVE  h + 1 \in Good
  <2>1. h + 1 \in Levels => h \in Heights /\ h \in Levels
    BY DepthAssumption DEF Heights, Levels
  <2> QED
    BY <1>2, <2>1
<1> HIDE DEF Good
<1>3. \A h \in Nat : h \in Good
  BY <1>1, <1>2, Induct
<1> QED
  BY <1>3, LevelsFacts DEF Good

\* What a division by two leaves.
LEMMA Halving == \A n \in Nat : /\ n \div 2 \in Nat
                                /\ n % 2 = 1 => n = 2 * (n \div 2) + 1
                                /\ n % 2 # 1 => n = 2 * (n \div 2)
OBVIOUS

\* halvesOf, height by height.
LEMMA HalvesFacts ==
    ASSUME NEW n \in Nat
    PROVE  /\ halvesOf(n)[0] = n
           /\ \A h \in Levels : halvesOf(n)[h] \in Nat
           /\ \A h \in Heights :
                 /\ Odd(n, h) => halvesOf(n)[h] = 2 * halvesOf(n)[h + 1] + 1
                 /\ ~Odd(n, h) => halvesOf(n)[h] = 2 * halvesOf(n)[h + 1]
<1>1. \A h \in Levels : halvesOf(n)[h] = IF h = 0 THEN n ELSE halvesOf(n)[h - 1] \div 2
  BY HalvesDef DEF Levels
<1>2. \A h \in Heights : halvesOf(n)[h + 1] = halvesOf(n)[h] \div 2
  BY <1>1, LevelsFacts
<1>3. halvesOf(n)[0] = n
  BY <1>1, LevelsFacts
<1>4. \A h \in Levels : halvesOf(n)[h] \in Nat
  <2> DEFINE S == {h \in Levels : halvesOf(n)[h] \in Nat}
  <2>1. 0 \in S
    BY <1>3, LevelsFacts
  <2>2. \A h \in Heights : h \in S => h + 1 \in S
    BY <1>2, LevelsFacts, Halving
  <2> HIDE DEF S
  <2>3. Levels \subseteq S
    BY <2>1, <2>2, Upwards
  <2> QED
    BY <2>3 DEF S
<1>5. ASSUME NEW h \in Heights
      PROVE  /\ Odd(n, h) => halvesOf(n)[h] = 2 * halvesOf(n)[h + 1] + 1
             /\ ~Odd(n, h) => halvesOf(n)[h] = 2 * halvesOf(n)[h + 1]
  <2>1. halvesOf(n)[h] \in Nat
    BY <1>4, LevelsFacts
  <2> QED
    BY <1>2, <2>1, Halving DEF Odd
<1> QED
  BY <1>3, <1>4, <1>5

\* More leaves are not fewer when halved.
LEMMA HalvesGrow ==
    ASSUME NEW m \in Nat, NEW n \in Nat, m <= n
    PROVE  \A h \in Levels : halvesOf(m)[h] <= halvesOf(n)[h]
<1> DEFINE S == {h \in Levels : halvesOf(m)[h] <= halvesOf(n)[h]}
<1>1. 0 \in S
  BY HalvesFacts, LevelsFacts
<1>2. ASSUME NEW h \in Heights, h \in S
      PROVE  h + 1 \in S
  <2> DEFINE a == halvesOf(m)[h]
             b == halvesOf(n)[h]
             c == halvesOf(m)[h + 1]
             d == halvesOf(n)[h + 1]
  <2>1. a \in Nat /\ b \in Nat /\ c \in Nat /\ d \in Nat /\ a <= b
    BY <1>2, HalvesFacts, LevelsFacts
  <2>2. (a = 2 * c + 1 \/ a = 2 * c) /\ (b = 2 * d + 1 \/ b = 2 * d)
    BY HalvesFacts
  <2> HIDE DEF a, b, c, d
  <2>3. c <= d
    BY <2>1, <2>2
  <2> QED
    BY <2>3, LevelsFacts DEF c, d
<1> HIDE DEF S
<1>3. Levels \subseteq S
  BY <1>1, <1>2, Upwards
<1> QED
  BY <1>3 DEF S

\* Nodes hash the two below them, and leaves are at the bottom.
LEMMA NodesFacts ==
    ASSUME NEW s
    PROVE  /\ \A i \in Nat : nodesOf(s)[0][i] = IF i < Len(s) THEN s[i + 1] ELSE ZERO_HASH
           /\ \A h \in Heights, i \in Nat :
                 nodesOf(s)[h + 1][i] = << nodesOf(s)[h][2 * i], nodesOf(s)[h][2 * i + 1] >>
<1>1. \A h \in Levels : nodesOf(s)[h] =
         IF h = 0 THEN [i \in Nat |-> IF i < Len(s) THEN s[i + 1] ELSE ZERO_HASH]
         ELSE [i \in Nat |-> digest2Bytes32(nodesOf(s)[h - 1][2 * i], nodesOf(s)[h - 1][2 * i + 1])]
  <2> DEFINE N == nodesOf(s)
  <2>1. N = [h \in Levels |->
               IF h = 0 THEN [i \in Nat |-> IF i < Len(s) THEN s[i + 1] ELSE ZERO_HASH]
               ELSE [i \in Nat |-> digest2Bytes32(N[h - 1][2 * i], N[h - 1][2 * i + 1])]]
    BY NodesDef DEF Levels
  <2> HIDE DEF N
  <2> SUFFICES \A h \in Levels : N[h] =
         IF h = 0 THEN [i \in Nat |-> IF i < Len(s) THEN s[i + 1] ELSE ZERO_HASH]
         ELSE [i \in Nat |-> digest2Bytes32(N[h - 1][2 * i], N[h - 1][2 * i + 1])]
    BY DEF N
  <2> QED
    BY <2>1
<1>2. nodesOf(s)[0] = [i \in Nat |-> IF i < Len(s) THEN s[i + 1] ELSE ZERO_HASH]
  BY <1>1, LevelsFacts
<1>3. \A h \in Heights : nodesOf(s)[h + 1] =
         [i \in Nat |-> digest2Bytes32(nodesOf(s)[h][2 * i], nodesOf(s)[h][2 * i + 1])]
  <2> TAKE h \in Heights
  <2>1. h + 1 \in Levels /\ h + 1 # 0 /\ (h + 1) - 1 = h
    BY LevelsFacts
  <2> QED
    BY <1>1, <2>1
<1> QED
  BY <1>2, <1>3 DEF digest2Bytes32

\* Behind the leaves are zeros at every height.
LEMMA ZerosBehind ==
    ASSUME NEW s, Len(s) \in Nat
    PROVE  \A h \in Heights : \A i \in Nat :
              i > halvesOf(Len(s))[h] => nodesOf(s)[h][i] = zeroHashes[h]
<1> DEFINE Zero(h) == \A i \in Nat : i > halvesOf(Len(s))[h] => nodesOf(s)[h][i] = zeroHashes[h]
           S == {h \in Levels : h \in Heights => Zero(h)}
<1>1. \A h \in Heights : zeroHashes[h] =
         IF h = 0 THEN ZERO_HASH ELSE << zeroHashes[h - 1], zeroHashes[h - 1] >>
  BY ZerosDef DEF digest2Bytes32
<1>2. 0 \in S
  <2>1. Zero(0)
    <3>1. halvesOf(Len(s))[0] = Len(s) /\ zeroHashes[0] = ZERO_HASH
      BY <1>1, HalvesFacts, LevelsFacts
    <3>2. \A i \in Nat : i > Len(s) => nodesOf(s)[0][i] = ZERO_HASH
      BY NodesFacts
    <3> QED
      BY <3>1, <3>2
  <2> HIDE DEF Zero
  <2> QED
    BY <2>1, LevelsFacts
<1>3. ASSUME NEW h \in Heights, h \in S
      PROVE  h + 1 \in S
  <2>1. h + 1 \in Levels /\ Zero(h)
    BY <1>3, LevelsFacts
  <2>2. ASSUME h + 1 \in Heights, NEW i \in Nat, i > halvesOf(Len(s))[h + 1]
        PROVE  nodesOf(s)[h + 1][i] = zeroHashes[h + 1]
    <3> DEFINE a == halvesOf(Len(s))[h]
               b == halvesOf(Len(s))[h + 1]
    <3>1. a \in Nat /\ b \in Nat /\ (a = 2 * b + 1 \/ a = 2 * b) /\ i > b
      BY <2>2, HalvesFacts, LevelsFacts
    <3> HIDE DEF a, b
    <3>2. 2 * i \in Nat /\ 2 * i + 1 \in Nat /\ 2 * i > a /\ 2 * i + 1 > a
      BY <3>1
    <3>3. nodesOf(s)[h][2 * i] = zeroHashes[h] /\ nodesOf(s)[h][2 * i + 1] = zeroHashes[h]
      BY <2>1, <3>2 DEF a
    <3>4. zeroHashes[h + 1] = << zeroHashes[h], zeroHashes[h] >>
      BY <1>1, <2>2, LevelsFacts
    <3>5. nodesOf(s)[h + 1][i] = << nodesOf(s)[h][2 * i], nodesOf(s)[h][2 * i + 1] >>
      BY NodesFacts
    <3> QED
      BY <3>3, <3>4, <3>5
  <2> QED
    BY <2>1, <2>2
<1> HIDE DEF S
<1>4. Levels \subseteq S
  BY <1>2, <1>3, Upwards
<1> QED
  BY <1>4, LevelsFacts DEF S

\* The tree stands for the leaves of s: where a height has an odd number of
\* complete subtrees, the branch has the last of them.
StandsFor(tree, s) ==
    /\ Len(s) \in Nat /\ tree.nodeCount = Len(s)
    /\ \A h \in Heights :
          Odd(Len(s), h) => tree.branch[h] = nodesOf(s)[h][halvesOf(Len(s))[h] - 1]

\* getRoot hashes up the border between leaves and zeros.
LEMMA RootsAreNodes ==
    ASSUME NEW tree, NEW s, StandsFor(tree, s)
    PROVE  \A h \in Levels : rootsOf(tree)[h] = nodesOf(s)[h][halvesOf(Len(s))[h]]
<1> DEFINE S == {h \in Levels : rootsOf(tree)[h] = nodesOf(s)[h][halvesOf(Len(s))[h]]}
<1>1. \A h \in Levels : rootsOf(tree)[h] =
         IF h = 0 THEN ZERO_HASH
         ELSE IF Odd(tree.nodeCount, h - 1)
              THEN << tree.branch[h - 1], rootsOf(tree)[h - 1] >>
              ELSE << rootsOf(tree)[h - 1], zeroHashes[h - 1] >>
  BY RootsDef DEF Levels, digest2Bytes32
<1>2. Len(s) \in Nat /\ tree.nodeCount = Len(s)
  BY DEF StandsFor
<1>3. 0 \in S
  <2>1. rootsOf(tree)[0] = ZERO_HASH
    BY <1>1, LevelsFacts
  <2>2. nodesOf(s)[0][Len(s)] = ZERO_HASH
    BY <1>2, NodesFacts
  <2> QED
    BY <1>2, <2>1, <2>2, HalvesFacts, LevelsFacts
<1>4. ASSUME NEW h \in Heights, h \in S
      PROVE  h + 1 \in S
  <2> DEFINE a == halvesOf(Len(s))[h]
             b == halvesOf(Len(s))[h + 1]
  <2>1. a \in Nat /\ b \in Nat
    BY <1>2, HalvesFacts, LevelsFacts
  <2>2. rootsOf(tree)[h] = nodesOf(s)[h][a]
    BY <1>4
  <2>3. nodesOf(s)[h + 1][b] = << nodesOf(s)[h][2 * b], nodesOf(s)[h][2 * b + 1] >>
    BY <2>1, NodesFacts
  <2>4. CASE Odd(Len(s), h)
    <3>1. a = 2 * b + 1
      BY <1>2, <2>4, HalvesFacts
    <3>2. rootsOf(tree)[h + 1] = << tree.branch[h], rootsOf(tree)[h] >>
      BY <1>1, <1>2, <2>4, LevelsFacts
    <3>3. tree.branch[h] = nodesOf(s)[h][a - 1]
      BY <2>4 DEF StandsFor
    <3>4. a - 1 = 2 * b
      BY <2>1, <3>1
    <3> QED
      BY <2>2, <2>3, <3>1, <3>2, <3>3, <3>4, LevelsFacts
  <2>5. CASE ~Odd(Len(s), h)
    <3>1. a = 2 * b
      BY <1>2, <2>5, HalvesFacts
    <3>2. rootsOf(tree)[h + 1] = << rootsOf(tree)[h], zeroHashes[h] >>
      BY <1>1, <1>2, <2>5, LevelsFacts
    <3>3. 2 * b + 1 \in Nat /\ 2 * b + 1 > a
      BY <2>1, <3>1
    <3>4. nodesOf(s)[h][2 * b + 1] = zeroHashes[h]
      BY <1>2, <3>3, ZerosBehind
    <3> QED
      BY <2>2, <2>3, <3>1, <3>2, <3>4, LevelsFacts
  <2> QED
    BY <2>4, <2>5
<1> HIDE DEF S
<1>5. Levels \subseteq S
  BY <1>3, <1>4, Upwards
<1> QED
  BY <1>5 DEF S

\* The contract's root is the root by definition, for as many leaves as it takes.
LEMMA RootIsMerkleRoot ==
    ASSUME NEW tree, NEW s, StandsFor(tree, s),
           halvesOf(Len(s))[DEPOSIT_CONTRACT_TREE_DEPTH] = 0
    PROVE  getRoot(tree) = MerkleRoot(s)
<1>1. DEPOSIT_CONTRACT_TREE_DEPTH \in Levels
  BY DepthAssumption DEF Levels
<1> QED
  BY <1>1, RootsAreNodes DEF getRoot, MerkleRoot, StandsFor

\* A new leaf changes no node whose subtree was complete.
LEMMA OldNodes ==
    ASSUME NEW X, NEW s \in Seq(X), NEW leaf \in X
    PROVE  \A h \in Levels : \A i \in Nat :
              i < halvesOf(Len(s))[h] => nodesOf(Append(s, leaf))[h][i] = nodesOf(s)[h][i]
<1> DEFINE u == Append(s, leaf)
           Same(h) == \A i \in Nat :
                         i < halvesOf(Len(s))[h] => nodesOf(u)[h][i] = nodesOf(s)[h][i]
           S == {h \in Levels : Same(h)}
<1>1. Len(s) \in Nat /\ Len(u) = Len(s) + 1 /\ \A i \in 1..Len(s) : u[i] = s[i]
  OBVIOUS
<1> HIDE DEF u
<1>2. 0 \in S
  <2>1. ASSUME NEW i \in Nat, i < Len(s)
        PROVE  nodesOf(u)[0][i] = nodesOf(s)[0][i]
    <3>1. i < Len(u) /\ i + 1 \in 1..Len(s)
      BY <1>1, <2>1
    <3>2. nodesOf(u)[0][i] = u[i + 1]
      BY <3>1, NodesFacts
    <3>3. nodesOf(s)[0][i] = s[i + 1]
      BY <2>1, NodesFacts
    <3> QED
      BY <1>1, <3>1, <3>2, <3>3
  <2> QED
    BY <1>1, <2>1, HalvesFacts, LevelsFacts
<1>3. ASSUME NEW h \in Heights, h \in S
      PROVE  h + 1 \in S
  <2> DEFINE a == halvesOf(Len(s))[h]
             b == halvesOf(Len(s))[h + 1]
  <2>1. a \in Nat /\ b \in Nat /\ (a = 2 * b + 1 \/ a = 2 * b)
    BY <1>1, HalvesFacts, LevelsFacts
  <2>2. ASSUME NEW i \in Nat, i < b
        PROVE  nodesOf(u)[h + 1][i] = nodesOf(s)[h + 1][i]
    <3> HIDE DEF b
    <3>1. 2 * i \in Nat /\ 2 * i + 1 \in Nat /\ 2 * i < a /\ 2 * i + 1 < a
      <4> HIDE DEF a
      <4> QED
        BY <2>1, <2>2
    <3>2. /\ nodesOf(u)[h][2 * i] = nodesOf(s)[h][2 * i]
          /\ nodesOf(u)[h][2 * i + 1] = nodesOf(s)[h][2 * i + 1]
      BY <1>3, <3>1
    <3>3. /\ nodesOf(u)[h + 1][i] = << nodesOf(u)[h][2 * i], nodesOf(u)[h][2 * i + 1] >>
          /\ nodesOf(s)[h + 1][i] = << nodesOf(s)[h][2 * i], nodesOf(s)[h][2 * i + 1] >>
      BY NodesFacts
    <3> QED
      BY <3>2, <3>3
  <2> QED
    BY <2>2, LevelsFacts
<1> HIDE DEF S
<1>4. Levels \subseteq S
  BY <1>2, <1>3, Upwards
<1> QED
  BY <1>4 DEF S, u

\* hashedUp, height by height.
LEMMA HashedUpFacts ==
    ASSUME NEW branch, NEW leaf
    PROVE  /\ hashedUp(branch, leaf)[0] = leaf
           /\ \A h \in Heights : h + 1 \in Heights =>
                 hashedUp(branch, leaf)[h + 1] = << branch[h], hashedUp(branch, leaf)[h] >>
<1>1. \A h \in Heights : hashedUp(branch, leaf)[h] =
         IF h = 0 THEN leaf ELSE << branch[h - 1], hashedUp(branch, leaf)[h - 1] >>
  BY HashedUpDef DEF digest2Bytes32
<1> QED
  BY <1>1, LevelsFacts

\* formBranch: below the first height where the new number of leaves, halved, is
\* odd, the branch had a subtree to hash with; above it nothing is different.
LEMMA InsertStands ==
    ASSUME NEW X, NEW s \in Seq(X), NEW leaf \in X, NEW tree, StandsFor(tree, s)
    PROVE  StandsFor(insert(tree, leaf), Append(s, leaf))
<1> DEFINE u == Append(s, leaf)
           n == Len(s)
           Clear(h) == \A l \in 0..h - 1 : ~Odd(n + 1, l)
           up == hashedUp(tree.branch, leaf)
<1>1. n \in Nat /\ n + 1 \in Nat /\ Len(u) = n + 1 /\ u[n + 1] = leaf
  OBVIOUS
<1>2. tree.nodeCount = n /\ \A h \in Heights :
         Odd(n, h) => tree.branch[h] = nodesOf(s)[h][halvesOf(n)[h] - 1]
  BY DEF StandsFor
<1>3. \A h \in Levels : halvesOf(n)[h] \in Nat /\ halvesOf(n + 1)[h] \in Nat
  BY <1>1, HalvesFacts
<1>4. \A h \in Heights :
         /\ Odd(n, h) => halvesOf(n)[h] = 2 * halvesOf(n)[h + 1] + 1
         /\ ~Odd(n, h) => halvesOf(n)[h] = 2 * halvesOf(n)[h + 1]
         /\ Odd(n + 1, h) => halvesOf(n + 1)[h] = 2 * halvesOf(n + 1)[h + 1] + 1
         /\ ~Odd(n + 1, h) => halvesOf(n + 1)[h] = 2 * halvesOf(n + 1)[h + 1]
  BY <1>1, HalvesFacts
<1>5. halvesOf(n)[0] = n /\ halvesOf(n + 1)[0] = n + 1
  BY <1>1, HalvesFacts
<1>6. Clear(0) /\ \A h \in Heights : Clear(h + 1) <=> Clear(h) /\ ~Odd(n + 1, h)
  <2>1. ASSUME NEW h \in Heights
        PROVE  Clear(h + 1) <=> Clear(h) /\ ~Odd(n + 1, h)
    <3>1. h \in Nat
      BY LevelsFacts
    <3>2. \A l : l \in 0..(h + 1) - 1 <=> l \in 0..h - 1 \/ l = h
      BY <3>1
    <3> QED
      BY <3>2
  <2>2. 0..0 - 1 = {}
    OBVIOUS
  <2> QED
    BY <2>1, <2>2
<1> HIDE DEF Clear, u, n, up
<1>7. \A h \in Levels : Clear(h) => halvesOf(n)[h] + 1 = halvesOf(n + 1)[h]
  <2> DEFINE S == {h \in Levels : Clear(h) => halvesOf(n)[h] + 1 = halvesOf(n + 1)[h]}
  <2>1. 0 \in S
    BY <1>5, LevelsFacts
  <2>2. ASSUME NEW h \in Heights, h \in S, Clear(h + 1)
        PROVE  halvesOf(n)[h + 1] + 1 = halvesOf(n + 1)[h + 1]
    <3> DEFINE a == halvesOf(n)[h]
               b == halvesOf(n)[h + 1]
               c == halvesOf(n + 1)[h]
               d == halvesOf(n + 1)[h + 1]
    <3>1. a \in Nat /\ b \in Nat /\ c \in Nat /\ d \in Nat
      BY <1>3, LevelsFacts
    <3>2. a + 1 = c /\ c = 2 * d /\ (a = 2 * b + 1 \/ a = 2 * b)
      BY <2>2, <1>4, <1>6
    <3> HIDE DEF a, b, c, d
    <3>3. b + 1 = d
      BY <3>1, <3>2
    <3> QED
      BY <3>3 DEF b, d
  <2>3. \A h \in Heights : h \in S => h + 1 \in S
    BY <2>2, LevelsFacts
  <2> HIDE DEF S
  <2>4. Levels \subseteq S
    BY <2>1, <2>3, Upwards
  <2> QED
    BY <2>4 DEF S
<1>8. \A h \in Levels : ~Clear(h) => halvesOf(n)[h] = halvesOf(n + 1)[h]
  <2> DEFINE S == {h \in Levels : ~Clear(h) => halvesOf(n)[h] = halvesOf(n + 1)[h]}
  <2>1. 0 \in S
    BY <1>6, LevelsFacts
  <2>2. ASSUME NEW h \in Heights, h \in S, ~Clear(h + 1)
        PROVE  halvesOf(n)[h + 1] = halvesOf(n + 1)[h + 1]
    <3> DEFINE a == halvesOf(n)[h]
               b == halvesOf(n)[h + 1]
               c == halvesOf(n + 1)[h]
               d == halvesOf(n + 1)[h + 1]
    <3>1. a \in Nat /\ b \in Nat /\ c \in Nat /\ d \in Nat
      BY <1>3, LevelsFacts
    <3>2. \/ a = c
          \/ a + 1 = c /\ c = 2 * d + 1
      BY <2>2, <1>4, <1>6, <1>7, LevelsFacts
    <3>3. (a = 2 * b + 1 \/ a = 2 * b) /\ (c = 2 * d + 1 \/ c = 2 * d)
      BY <1>4
    <3> HIDE DEF a, b, c, d
    <3>4. b = d
      BY <3>1, <3>2, <3>3
    <3> QED
      BY <3>4 DEF b, d
  <2>3. \A h \in Heights : h \in S => h + 1 \in S
    BY <2>2, LevelsFacts
  <2> HIDE DEF S
  <2>4. Levels \subseteq S
    BY <2>1, <2>3, Upwards
  <2> QED
    BY <2>4 DEF S
<1>9. \A h \in Heights, i \in Nat : i < halvesOf(n)[h] => nodesOf(u)[h][i] = nodesOf(s)[h][i]
  <2>1. \A h \in Levels : \A i \in Nat :
           i < halvesOf(n)[h] => nodesOf(u)[h][i] = nodesOf(s)[h][i]
    BY OldNodes DEF n, u
  <2> QED
    BY <2>1, LevelsFacts
<1>10. \A h \in Heights : Clear(h) => up[h] = nodesOf(u)[h][halvesOf(n)[h]]
  <2> DEFINE S == {h \in Levels : h \in Heights /\ Clear(h) => up[h] = nodesOf(u)[h][halvesOf(n)[h]]}
  <2>1. 0 \in S
    <3>1. n < Len(u)
      BY <1>1
    <3>2. nodesOf(u)[0][n] = leaf
      BY <1>1, <3>1, NodesFacts
    <3>3. up[0] = leaf
      BY HashedUpFacts DEF up
    <3> QED
      BY <1>5, <3>2, <3>3, LevelsFacts
  <2>2. ASSUME NEW h \in Heights, h \in S, h + 1 \in Heights, Clear(h + 1)
        PROVE  up[h + 1] = nodesOf(u)[h + 1][halvesOf(n)[h + 1]]
    <3> DEFINE a == halvesOf(n)[h]
               b == halvesOf(n)[h + 1]
               c == halvesOf(n + 1)[h]
               d == halvesOf(n + 1)[h + 1]
    <3>1. a \in Nat /\ b \in Nat /\ c \in Nat /\ d \in Nat
      BY <1>3, LevelsFacts
    <3>2. a + 1 = c /\ b + 1 = d /\ c = 2 * d
      BY <2>2, <1>4, <1>6, <1>7, LevelsFacts
    <3>3. ~Odd(n, h) => a = 2 * b
      BY <1>4
    <3>4. up[h + 1] = << tree.branch[h], up[h] >>
      BY <2>2, HashedUpFacts DEF up
    <3>5. up[h] = nodesOf(u)[h][a]
      BY <2>2, <1>6
    <3>6. /\ Odd(n, h) => tree.branch[h] = nodesOf(s)[h][a - 1]
          /\ \A i \in Nat : i < a => nodesOf(u)[h][i] = nodesOf(s)[h][i]
      BY <1>2, <1>9
    <3>7. nodesOf(u)[h + 1][b] = << nodesOf(u)[h][2 * b], nodesOf(u)[h][2 * b + 1] >>
      BY <3>1, NodesFacts
    <3> HIDE DEF a, b, c, d
    <3>8. a = 2 * b + 1 /\ a # 2 * b /\ a - 1 = 2 * b /\ 2 * b \in Nat /\ 2 * b < a
      BY <3>1, <3>2
    <3> SUFFICES up[h + 1] = nodesOf(u)[h + 1][b]
      BY DEF b
    <3> QED
      BY <3>3, <3>4, <3>5, <3>6, <3>7, <3>8
  <2>3. \A h \in Heights : h \in S => h + 1 \in S
    BY <2>2, LevelsFacts
  <2> HIDE DEF S
  <2>4. Levels \subseteq S
    BY <2>1, <2>3, Upwards
  <2> QED
    BY <2>4, LevelsFacts DEF S
<1>11. /\ insert(tree, leaf).nodeCount = n + 1
       /\ \A h \in Heights : insert(tree, leaf).branch[h] =
             IF Odd(n + 1, h) /\ Clear(h) THEN up[h] ELSE tree.branch[h]
  BY <1>2 DEF insert, formBranch, Clear, up
<1>12. ASSUME NEW h \in Heights, Odd(n + 1, h)
       PROVE  insert(tree, leaf).branch[h] = nodesOf(u)[h][halvesOf(n + 1)[h] - 1]
  <2>1. halvesOf(n)[h] \in Nat /\ halvesOf(n + 1)[h] \in Nat
    BY <1>3, LevelsFacts
  <2>2. CASE Clear(h)
    <3>1. halvesOf(n + 1)[h] - 1 = halvesOf(n)[h]
      <4>1. halvesOf(n)[h] + 1 = halvesOf(n + 1)[h]
        BY <2>2, <1>7, LevelsFacts
      <4> QED
        BY <2>1, <4>1
    <3> QED
      BY <3>1, <2>2, <1>10, <1>11, <1>12
  <2>3. CASE ~Clear(h)
    <3>1. halvesOf(n)[h] = halvesOf(n + 1)[h]
      BY <2>3, <1>8, LevelsFacts
    <3>2. Odd(n, h)
      BY <3>1, <1>12 DEF Odd
    <3>3. halvesOf(n)[h] = 2 * halvesOf(n)[h + 1] + 1 /\ halvesOf(n)[h + 1] \in Nat
      BY <3>2, <1>3, <1>4, LevelsFacts
    <3>4. halvesOf(n)[h] - 1 \in Nat /\ halvesOf(n)[h] - 1 < halvesOf(n)[h]
      BY <3>3
    <3>5. insert(tree, leaf).branch[h] = nodesOf(s)[h][halvesOf(n)[h] - 1]
      BY <2>3, <3>2, <1>2, <1>11
    <3> QED
      BY <3>1, <3>4, <3>5, <1>9
  <2> QED
    BY <2>2, <2>3
<1> QED
  BY <1>1, <1>11, <1>12 DEF StandsFor, u

\* The new tree stands for no leaf.
LEMMA NewTreeStands == StandsFor(NewTree, << >>)
<1>1. Len(<< >>) = 0
  OBVIOUS
<1>2. \A h \in Levels : halvesOf(0)[h] = 0
  <2> DEFINE S == {h \in Levels : halvesOf(0)[h] = 0}
  <2>1. 0 \in S
    BY HalvesFacts, LevelsFacts
  <2>2. ASSUME NEW h \in Heights, h \in S
        PROVE  h + 1 \in S
    <3> DEFINE b == halvesOf(0)[h + 1]
    <3>1. b \in Nat /\ (0 = 2 * b + 1 \/ 0 = 2 * b)
      BY <2>2, HalvesFacts, LevelsFacts
    <3> HIDE DEF b
    <3>2. b = 0
      BY <3>1
    <3> QED
      BY <3>2, LevelsFacts DEF b
  <2> HIDE DEF S
  <2>3. Levels \subseteq S
    BY <2>1, <2>2, Upwards
  <2> QED
    BY <2>3 DEF S
<1>3. \A h \in Heights : ~Odd(0, h)
  <2>1. 0 % 2 # 1
    OBVIOUS
  <2> QED
    BY <1>2, <2>1, LevelsFacts DEF Odd
<1> QED
  BY <1>1, <1>3 DEF StandsFor, NewTree

\* A clone has the branch of its original, and so its leaves.
LEMMA CloneStands ==
    ASSUME NEW tree, NEW s, StandsFor(tree, s)
    PROVE  StandsFor(clone(tree), s)
BY DEF StandsFor, clone

-----------------------------------------------------------------------------
(* Sorting                                                                  *)

EventsBetween(lo, hi) == {DepositEvent(k) : k \in lo..hi - 1}

\* Different events, numbered lo to hi - 1.
Part(s, lo, hi) ==
    /\ s \in Seq(EventsBetween(lo, hi))
    /\ \A i, j \in 1..Len(s) : s[i].count = s[j].count => i = j

\* The events of a part, place by place.
LEMMA PartFacts ==
    ASSUME NEW lo \in Int, NEW hi \in Int, NEW s, Part(s, lo, hi)
    PROVE  /\ Len(s) \in Nat /\ DOMAIN s = 1..Len(s)
           /\ \A i \in 1..Len(s) :
                 /\ s[i] \in EventsBetween(lo, hi)
                 /\ s[i].count \in Int /\ lo <= s[i].count /\ s[i].count < hi
                 /\ s[i] = DepositEvent(s[i].count)
<1>1. s \in Seq(EventsBetween(lo, hi))
  BY DEF Part
<1>2. ASSUME NEW i \in 1..Len(s)
      PROVE  /\ s[i] \in EventsBetween(lo, hi)
             /\ s[i].count \in Int /\ lo <= s[i].count /\ s[i].count < hi
             /\ s[i] = DepositEvent(s[i].count)
  <2>1. s[i] \in EventsBetween(lo, hi)
    BY <1>1
  <2>2. PICK k \in lo..hi - 1 : s[i] = DepositEvent(k)
    BY <2>1 DEF EventsBetween
  <2>3. s[i].count = k
    BY <2>2 DEF DepositEvent
  <2> QED
    BY <2>1, <2>2, <2>3
<1> QED
  BY <1>1, <1>2

\* What an injection of a finite set into itself hits.
LEMMA Onto ==
    ASSUME NEW n \in Nat, NEW f \in [1..n -> 1..n],
           \A i, j \in 1..n : f[i] = f[j] => i = j
    PROVE  \A k \in 1..n : \E i \in 1..n : f[i] = k
<1>1. IsFiniteSet(1..n)
  BY FS_Interval
<1>2. f \in Injection(1..n, 1..n)
  BY DEF Injection, IsInjective
<1>3. f \in Surjection(1..n, 1..n)
  BY <1>1, <1>2, FS_Injection
<1> QED
  BY <1>3 DEF Surjection

\* Sooner is an order of the places, so that the place of an event is the number
\* of those before it.
LEMMA Sorted ==
    ASSUME NEW lo \in Int, NEW hi \in Int, NEW s, Part(s, lo, hi)
    PROVE  LET t == sortEventsByDepositCount(s) IN
           /\ Part(t, lo, hi) /\ Len(t) = Len(s) /\ Range(t) = Range(s)
           /\ \A i, j \in 1..Len(s) : i < j => t[i].count < t[j].count
<1> DEFINE n == Len(s)
           before(i) == {j \in 1..n : Sooner(s, j, i)}
           rank == [i \in 1..n |-> Cardinality(before(i))]
           t == sortEventsByDepositCount(s)
<1>1. /\ n \in Nat /\ DOMAIN s = 1..n
      /\ \A i \in 1..n : s[i] \in EventsBetween(lo, hi) /\ s[i].count \in Int
      /\ \A i, j \in 1..n : s[i].count = s[j].count => i = j
  BY PartFacts DEF Part
<1> HIDE DEF n
<1>2. /\ \A i \in 1..n : ~Sooner(s, i, i)
      /\ \A i, j \in 1..n : i # j => Sooner(s, i, j) \/ Sooner(s, j, i)
      /\ \A i, j, k \in 1..n : Sooner(s, i, j) /\ Sooner(s, j, k) => Sooner(s, i, k)
      /\ \A i, j \in 1..n : Sooner(s, i, j) => s[i].count < s[j].count
  BY <1>1 DEF Sooner
<1>3. IsFiniteSet(1..n) /\ Cardinality(1..n) = n
  BY <1>1, FS_Interval
<1>4. ASSUME NEW i \in 1..n
      PROVE  /\ IsFiniteSet(before(i)) /\ Cardinality(before(i)) \in Nat
             /\ Cardinality(before(i)) < n
  <2>1. before(i) \in SUBSET ((1..n) \ {i})
    BY <1>2
  <2>2. IsFiniteSet((1..n) \ {i}) /\ Cardinality((1..n) \ {i}) = n - 1
    BY <1>3, FS_RemoveElement
  <2> HIDE DEF before
  <2>3. IsFiniteSet(before(i)) /\ Cardinality(before(i)) <= n - 1
    BY <2>1, <2>2, FS_Subset
  <2> QED
    BY <2>3, <1>1, FS_CardinalityType
<1>5. ASSUME NEW i \in 1..n, NEW j \in 1..n, Sooner(s, i, j)
      PROVE  Cardinality(before(i)) < Cardinality(before(j))
  <2>1. before(i) \in SUBSET before(j)
    BY <1>2, <1>5
  <2>2. i \in before(j) /\ i \notin before(i)
    BY <1>2, <1>5
  <2> HIDE DEF before
  <2>3. /\ Cardinality(before(i)) <= Cardinality(before(j))
        /\ Cardinality(before(i)) # Cardinality(before(j))
    BY <2>1, <2>2, <1>4, FS_Subset
  <2> QED
    BY <2>3, <1>4
<1> DEFINE f == [i \in 1..n |-> Cardinality(before(i)) + 1]
<1>6. \A k \in 1..n : \E i \in 1..n : f[i] = k
  <2>1. f \in [1..n -> 1..n]
    <3> SUFFICES ASSUME NEW i \in 1..n PROVE Cardinality(before(i)) + 1 \in 1..n
      OBVIOUS
    <3> HIDE DEF before
    <3> QED
      BY <1>1, <1>4
  <2>2. \A i, j \in 1..n : f[i] = f[j] => i = j
    <3> SUFFICES ASSUME NEW i \in 1..n, NEW j \in 1..n, i # j
                 PROVE  Cardinality(before(i)) + 1 # Cardinality(before(j)) + 1
      OBVIOUS
    <3>1. \/ Cardinality(before(i)) < Cardinality(before(j))
          \/ Cardinality(before(j)) < Cardinality(before(i))
      BY <1>2, <1>5
    <3> HIDE DEF before
    <3> QED
      BY <3>1, <1>4
  <2> HIDE DEF f
  <2> QED
    BY <2>1, <2>2, <1>1, Onto
<1> DEFINE place(k) == CHOOSE i \in 1..n : Cardinality(before(i)) = k - 1
<1>7. ASSUME NEW k \in 1..n
      PROVE  place(k) \in 1..n /\ Cardinality(before(place(k))) = k - 1
  <2>1. PICK i \in 1..n : Cardinality(before(i)) + 1 = k
    BY <1>6
  <2> HIDE DEF before
  <2>2. Cardinality(before(i)) = k - 1
    BY <2>1, <1>4
  <2> QED
    BY <2>2
<1>8. t = [k \in 1..n |-> s[place(k)]]
  BY <1>1 DEF sortEventsByDepositCount
<1>13. ASSUME NEW i \in 1..n
       PROVE  \E k \in 1..n : place(k) = i
  <2> DEFINE k == Cardinality(before(i)) + 1
  <2>1. Cardinality(before(i)) \in Nat /\ Cardinality(before(i)) < n
    BY <1>4
  <2> HIDE DEF before
  <2>2. k \in 1..n /\ k - 1 = Cardinality(before(i))
    BY <2>1, <1>1
  <2>3. place(k) \in 1..n /\ Cardinality(before(place(k))) = Cardinality(before(i))
    BY <2>2, <1>7
  <2>4. /\ Sooner(s, i, place(k)) => Cardinality(before(i)) < Cardinality(before(place(k)))
        /\ Sooner(s, place(k), i) => Cardinality(before(place(k))) < Cardinality(before(i))
    BY <2>3, <1>5
  <2> HIDE DEF place
  <2>5. place(k) = i
    BY <2>1, <2>3, <2>4, <1>2
  <2> QED
    BY <2>2, <2>5
<1> HIDE DEF before, place, f, t
<1>9. \A i, j \in 1..n : i < j => Sooner(s, place(i), place(j))
  <2> SUFFICES ASSUME NEW i \in 1..n, NEW j \in 1..n, i < j
               PROVE  Sooner(s, place(i), place(j))
    OBVIOUS
  <2>1. /\ place(i) \in 1..n /\ place(j) \in 1..n
        /\ Cardinality(before(place(i))) = i - 1 /\ Cardinality(before(place(j))) = j - 1
    BY <1>7
  <2>2. i - 1 < j - 1 /\ i - 1 # j - 1 /\ ~(j - 1 < i - 1)
    OBVIOUS
  <2>3. place(i) # place(j) /\ ~Sooner(s, place(j), place(i))
    BY <2>1, <2>2, <1>5
  <2> QED
    BY <2>1, <2>3, <1>2
<1>10. /\ t \in Seq(EventsBetween(lo, hi)) /\ Len(t) = n
       /\ \A k \in 1..n : t[k] = s[place(k)]
  <2>1. \A k \in 1..n : s[place(k)] \in EventsBetween(lo, hi)
    BY <1>1, <1>7
  <2> HIDE DEF place
  <2> QED
    BY <2>1, <1>1, <1>8
<1>11. \A i, j \in 1..n : i < j => t[i].count < t[j].count
  BY <1>2, <1>7, <1>9, <1>10
<1>12. \A i, j \in 1..n : t[i].count = t[j].count => i = j
  <2> SUFFICES ASSUME NEW i \in 1..n, NEW j \in 1..n, t[i].count = t[j].count, i # j
               PROVE  FALSE
    OBVIOUS
  <2>1. t[i].count \in Int /\ t[j].count \in Int
    BY <1>1, <1>7, <1>10
  <2>2. i < j \/ j < i
    OBVIOUS
  <2> QED
    BY <2>1, <2>2, <1>11
<1>14. Range(t) = Range(s)
  <2>1. Range(t) = {s[place(k)] : k \in 1..n} /\ Range(s) = {s[i] : i \in 1..n}
    BY <1>1, <1>8 DEF Range
  <2> QED
    BY <2>1, <1>7, <1>13
<1> QED
  BY <1>10, <1>11, <1>12, <1>14 DEF t, n, Part

-----------------------------------------------------------------------------
(* What providers answer                                                    *)

\* Deposits are counted from 0 and never become fewer.
LEMMA CountFacts ==
    /\ Len(Nodes) \in Nat /\ LastBlock \in Nat
    /\ \A i \in 1..Len(Nodes) : Nodes[i] \in Range(Nodes)
    /\ \A b \in 0..LastBlock : DepositCount[b] \in Nat /\ DepositCount[b] <= Len(Nodes)
    /\ \A a, b \in 0..LastBlock : a <= b => DepositCount[a] <= DepositCount[b]
    /\ DepositCount[0] = 0
BY ChainAssumption

\* An event and its fields.
LEMMA EventFields == \A k : DepositEvent(k).count = k /\ DepositEvent(k).node = Nodes[k + 1]
BY DEF DepositEvent

\* The events of a range are the range's, each once and in order.
LEMMA EventsOfFacts ==
    ASSUME NEW a \in Int, NEW b \in Int, 1 <= a, a - 1 <= b, b <= LastBlock
    PROVE  /\ Part(EventsOf(a, b), DepositCount[a - 1], DepositCount[b])
           /\ Len(EventsOf(a, b)) = DepositCount[b] - DepositCount[a - 1]
           /\ \A i \in 1..Len(EventsOf(a, b)) :
                 EventsOf(a, b)[i] = DepositEvent(DepositCount[a - 1] + i - 1)
<1> DEFINE lo == DepositCount[a - 1]
           hi == DepositCount[b]
           s == EventsOf(a, b)
<1>1. lo \in Nat /\ hi \in Nat /\ lo <= hi
  BY CountFacts
<1>2. s = [i \in 1..hi - lo |-> DepositEvent(lo + i - 1)]
  BY DEF EventsOf
<1> HIDE DEF lo, hi, s
<1>3. \A i \in 1..hi - lo : lo + i - 1 \in lo..hi - 1 /\ DepositEvent(lo + i - 1) \in EventsBetween(lo, hi)
  BY <1>1 DEF EventsBetween
<1>4. hi - lo \in Nat
  BY <1>1
<1>5. s \in Seq(EventsBetween(lo, hi)) /\ Len(s) = hi - lo
  <2> DEFINE e == [i \in 1..hi - lo |-> DepositEvent(lo + i - 1)]
  <2>1. \A i \in 1..hi - lo : e[i] \in EventsBetween(lo, hi)
    BY <1>3
  <2> HIDE DEF e
  <2> QED
    BY <1>2, <1>4, <2>1 DEF e
<1>6. \A i \in 1..hi - lo : s[i] = DepositEvent(lo + i - 1)
  BY <1>2
<1>7. \A i \in 1..hi - lo : s[i].count = lo + i - 1
  BY <1>6, EventFields
<1>8. \A i, j \in 1..Len(s) : s[i].count = s[j].count => i = j
  BY <1>1, <1>4, <1>5, <1>7
<1> QED
  BY <1>5, <1>6, <1>8 DEF Part, lo, hi, s

\* Reversed, they are the same events.
LEMMA ReverseFacts ==
    ASSUME NEW lo \in Int, NEW hi \in Int, NEW s, Part(s, lo, hi)
    PROVE  Part(Reverse(s), lo, hi) /\ Len(Reverse(s)) = Len(s)
<1> DEFINE n == Len(s)
           r == Reverse(s)
<1>1. /\ n \in Nat
      /\ \A i \in 1..n : s[i] \in EventsBetween(lo, hi)
      /\ \A i, j \in 1..n : s[i].count = s[j].count => i = j
  BY PartFacts DEF Part
<1>2. r = [i \in 1..n |-> s[(n - i) + 1]]
  BY DEF Reverse
<1> HIDE DEF n, r
<1>3. \A i \in 1..n : (n - i) + 1 \in 1..n
  BY <1>1
<1>4. r \in Seq(EventsBetween(lo, hi)) /\ Len(r) = n /\ \A i \in 1..n : r[i] = s[(n - i) + 1]
  <2>1. \A i \in 1..n : s[(n - i) + 1] \in EventsBetween(lo, hi)
    BY <1>1, <1>3
  <2> QED
    BY <1>1, <1>2, <2>1
<1>5. \A i, j \in 1..n : (n - i) + 1 = (n - j) + 1 => i = j
  BY <1>1
<1>6. \A i, j \in 1..n : r[i].count = r[j].count => i = j
  BY <1>1, <1>3, <1>4, <1>5
<1> QED
  BY <1>4, <1>6 DEF Part, n, r

\* Parts of two ranges that lie end to end make a part of both together.
LEMMA JoinParts ==
    ASSUME NEW lo \in Int, NEW mid \in Int, NEW mid2 \in Int, NEW hi \in Int,
           lo <= mid, mid <= mid2, mid2 <= hi,
           NEW s, Part(s, lo, mid), NEW t, Part(t, mid2, hi)
    PROVE  Part(s \o t, lo, hi) /\ Len(s \o t) = Len(s) + Len(t)
<1> DEFINE E == EventsBetween(lo, hi)
           u == s \o t
           m == Len(s)
           n == Len(t)
<1>1. /\ m \in Nat /\ DOMAIN s = 1..m
      /\ \A i \in 1..m : s[i] \in EventsBetween(lo, mid) /\ s[i].count \in Int /\ s[i].count < mid
      /\ \A i, j \in 1..m : s[i].count = s[j].count => i = j
  BY PartFacts DEF Part
<1>2. /\ n \in Nat /\ DOMAIN t = 1..n
      /\ \A i \in 1..n : t[i] \in EventsBetween(mid2, hi) /\ t[i].count \in Int /\ mid2 <= t[i].count
      /\ \A i, j \in 1..n : t[i].count = t[j].count => i = j
  BY PartFacts DEF Part
<1>3. EventsBetween(lo, mid) \subseteq E /\ EventsBetween(mid2, hi) \subseteq E
  <2>1. \A k \in lo..mid - 1 : k \in lo..hi - 1
    OBVIOUS
  <2>2. \A k \in mid2..hi - 1 : k \in lo..hi - 1
    OBVIOUS
  <2> QED
    BY <2>1, <2>2 DEF EventsBetween
<1>4. s \in Seq(E) /\ t \in Seq(E)
  <2>1. s \in Seq(EventsBetween(lo, mid)) /\ t \in Seq(EventsBetween(mid2, hi))
    BY DEF Part
  <2> HIDE DEF E
  <2> QED
    BY <2>1, <1>3
<1> HIDE DEF E
<1>5. /\ u \in Seq(E) /\ Len(u) = m + n
      /\ \A i \in 1..m : u[i] = s[i]
      /\ \A i \in 1..n : u[m + i] = t[i]
  BY <1>4
<1>6. \A i \in 1..m + n : i \in 1..m \/ (i - m \in 1..n /\ m + (i - m) = i)
  BY <1>1, <1>2
<1> HIDE DEF u, m, n
<1>7. \A i \in 1..m + n : /\ i \in 1..m => u[i] = s[i]
                          /\ i \notin 1..m => u[i] = t[i - m] /\ i - m \in 1..n
  BY <1>5, <1>6
<1>8. \A i, j \in 1..m + n : u[i].count = u[j].count => i = j
  <2> SUFFICES ASSUME NEW i \in 1..m + n, NEW j \in 1..m + n, u[i].count = u[j].count
               PROVE  i = j
    OBVIOUS
  <2>1. CASE i \in 1..m /\ j \in 1..m
    BY <2>1, <1>1, <1>7
  <2>2. CASE i \notin 1..m /\ j \notin 1..m
    <3>1. i - m = j - m
      BY <2>2, <1>2, <1>7
    <3> QED
      BY <3>1, <1>1
  <2>3. ASSUME NEW k \in 1..m, NEW l \in 1..n
        PROVE  s[k].count # t[l].count
    <3>1. /\ s[k].count \in Int /\ s[k].count < mid
          /\ t[l].count \in Int /\ mid2 <= t[l].count
      BY <1>1, <1>2
    <3> QED
      BY <3>1
  <2> QED
    BY <2>1, <2>2, <2>3, <1>7
<1> QED
  BY <1>5, <1>8 DEF Part, E, u, m, n

\* A provider's answer has different events of the range.
LEMMA AnswersFacts ==
    ASSUME NEW a \in Int, NEW b \in Int, 1 <= a, a - 1 <= b, b <= LastBlock,
           NEW answer \in Answers(a, b)
    PROVE  Part(answer.events, DepositCount[a - 1], DepositCount[b])
<1> DEFINE lo == DepositCount[a - 1]
           hi == DepositCount[b]
<1>1. lo \in Nat /\ hi \in Nat
  BY CountFacts
<1>2. CASE answer \in {[events |-> e, dropped |-> 0] : e \in {EventsOf(a, b), Reverse(EventsOf(a, b))}}
  <2>1. PICK e \in {EventsOf(a, b), Reverse(EventsOf(a, b))} : answer = [events |-> e, dropped |-> 0]
    BY <1>2
  <2> QED
    BY <2>1, <1>1, EventsOfFacts, ReverseFacts
<1>3. CASE answer \in {[events |-> EventsOf(a, x - 1) \o EventsOf(x + 1, b), dropped |-> 1] :
                          x \in {y \in a..b : EventsOf(y, y) # << >>}}
  <2>1. PICK x \in a..b : answer = [events |-> EventsOf(a, x - 1) \o EventsOf(x + 1, b), dropped |-> 1]
    BY <1>3
  <2> DEFINE l == DepositCount[x - 1]
             r == DepositCount[x]
             s == EventsOf(a, x - 1)
             t == EventsOf(x + 1, b)
  <2>2. /\ x \in Int /\ x - 1 \in Int /\ x + 1 \in Int /\ (x + 1) - 1 = x
        /\ a - 1 <= x - 1 /\ x - 1 <= LastBlock /\ 1 <= x + 1 /\ x <= b /\ 1 <= x /\ x - 1 <= x /\ x <= LastBlock
    BY CountFacts
  <2>3. Part(s, lo, l) /\ Part(t, r, hi)
    BY <2>2, EventsOfFacts
  <2>4. l \in Nat /\ r \in Nat /\ lo <= l /\ l <= r /\ r <= hi
    <3>1. /\ a - 1 \in 0..LastBlock /\ x - 1 \in 0..LastBlock
          /\ x \in 0..LastBlock /\ b \in 0..LastBlock
      BY <2>2, CountFacts
    <3> QED
      BY <3>1, <2>2, CountFacts
  <2> HIDE DEF l, r, s, t, lo, hi
  <2>5. Part(s \o t, lo, hi)
    BY <1>1, <2>3, <2>4, JoinParts
  <2> QED
    BY <2>1, <2>5 DEF s, t, lo, hi
<1> QED
  BY <1>2, <1>3 DEF Answers

-----------------------------------------------------------------------------
(* The trees, their leaves and the comparison                               *)

Names == {"finalized", "latest"}

Shapes ==
    /\ synced \in 0..LastBlock /\ which \in Names /\ had \in Nat
    /\ trees = [w \in Names |-> trees[w]] /\ leaves = [w \in Names |-> leaves[w]]

Beginning(s) ==
    /\ s \in Seq(Range(Nodes)) /\ Len(s) <= DepositCount[LastBlock]
    /\ \A i \in 1..Len(s) : s[i] = Nodes[i]

\* Both trees stand for first deposits of the chain.
Filled == \A w \in Names : Beginning(leaves[w]) /\ StandsFor(trees[w], leaves[w])

Asked ==
    /\ stage \in {"fetch", "put"} => span.start = synced + 1 /\ span.end \in synced..LastBlock
    /\ stage = "stored" => span.end = synced /\ which = "finalized"

\* n leaves, when those of the call's events that are put are up to block b.
Grown(n, b) == had <= n /\ (n = had \/ n <= DepositCount[b])

Answered ==
    stage = "fetch" /\ fetching \in {"running", "done"} =>
        /\ next \in span.start..span.end + 1
        /\ Part(allEvents, DepositCount[synced], DepositCount[next - 1])
        /\ \A i \in 1..Len(stack) : stack[i].end <= span.end

\* Between two chunks the events of the call are those the tree has got by it.
Came ==
    stage \in {"fetch", "stored"} =>
        /\ Grown(Len(leaves["finalized"]), synced)
        /\ brought = EventsBetween(had, Len(leaves["finalized"]))

\* Of a chunk, some are still to be put, in the order of their numbers; those
\* before the leaves are there only if none was put.
Putting ==
    stage = "put" =>
        /\ todo \in Seq(EventsBetween(0, DepositCount[span.end]))
        /\ \A i, j \in 1..Len(todo) : i < j => todo[i].count < todo[j].count
        /\ Grown(Len(leaves[which]), span.end)
        /\ brought = EventsBetween(had, Len(leaves[which])) \cup Range(todo)
        /\ \A i \in 1..Len(todo) : Len(leaves[which]) = had \/ Len(leaves[which]) <= todo[i].count

Sound == Shapes /\ Filled /\ Asked /\ Answered /\ Came /\ Putting /\ CheckIsExact

\* Sound holds at first, and each action preserves it.
LEMMA SoundInit == Init => Sound
<1> SUFFICES ASSUME Init PROVE Sound
  OBVIOUS
<1>1. /\ synced = 0 /\ which = "finalized" /\ had = 0 /\ stage = "idle"
      /\ trees = [finalized |-> NewTree, latest |-> NewTree]
      /\ leaves = [finalized |-> << >>, latest |-> << >>]
  BY DEF Init, FetchInit
<1>2. \A w \in Names : trees[w] = NewTree /\ leaves[w] = << >>
  BY <1>1 DEF Names
<1>3. Shapes
  BY <1>1, CountFacts DEF Shapes, Names
<1>4. Beginning(<< >>)
  <2>1. << >> \in Seq(Range(Nodes)) /\ Len(<< >>) = 0 /\ 0 <= DepositCount[LastBlock]
    BY CountFacts
  <2> QED
    BY <2>1 DEF Beginning
<1>5. Filled
  BY <1>2, <1>4, NewTreeStands DEF Filled
<1> QED
  BY <1>1, <1>3, <1>5 DEF Sound, Asked, Answered, Came, Putting, CheckIsExact

\* Steps that touch neither trees nor leaves.
LEMMA TreesStay ==
    ASSUME Sound, trees' = trees, leaves' = leaves, synced' \in 0..LastBlock,
           which' \in Names, had' \in Nat
    PROVE  Shapes' /\ Filled'
BY DEF Sound, Shapes, Filled, Beginning, StandsFor

\* The finalized tree when a call begins: it has no event of the call yet.
LEMMA BeginFacts ==
    ASSUME Sound, NEW w \in Names, Begin(w)
    PROVE  /\ Shapes' /\ Filled'
           /\ Grown(Len(leaves["finalized"]), synced)' /\ synced' = synced /\ which' = w
           /\ brought' = EventsBetween(had', Len(leaves'["finalized"]))
<1> DEFINE n == Len(leaves["finalized"])
<1>1. /\ which' = w /\ trees' = trees /\ leaves' = leaves /\ synced' = synced
      /\ had' = n /\ brought' = {}
  BY DEF Begin, filling
<1>2. n \in Nat /\ synced \in 0..LastBlock
  BY DEF Sound, Shapes, Filled, Beginning, Names
<1> HIDE DEF n
<1>3. EventsBetween(n, n) = {}
  <2>1. n..n - 1 = {}
    BY <1>2
  <2> QED
    BY <2>1 DEF EventsBetween
<1>4. Shapes' /\ Filled'
  BY <1>1, <1>2, TreesStay
<1>5. n <= n
  BY <1>2
<1> QED
  BY <1>1, <1>3, <1>4, <1>5 DEF n, Grown

\* The fetcher is called for the blocks behind those that are cached.
LEMMA CallFacts ==
    ASSUME Sound, NEW b \in Blocks, b >= synced, fetchEventsFallOver(synced + 1, b),
           stage' = "fetch", synced' = synced
    PROVE  Asked' /\ Answered'
<1>1. /\ span' = RangeTask(synced + 1, b) /\ stack' = << RangeTask(synced + 1, b) >>
      /\ allEvents' = << >> /\ next' = synced + 1
  BY DEF fetchEventsFallOver
<1>2. synced \in Nat /\ synced \in 0..LastBlock /\ b \in synced..LastBlock
  BY CountFacts DEF Sound, Shapes, Blocks
<1>3. Asked'
  BY <1>1, <1>2 DEF Asked, RangeTask
<1> DEFINE n == DepositCount[synced]
<1>4. next' = synced + 1 /\ next' - 1 = synced /\ synced + 1 \in synced + 1..b + 1
  BY <1>1, <1>2
<1>5. Part(<< >>, n, n)
  BY DEF Part
<1>6. Len(stack') = 1 /\ stack'[1].end = b /\ b <= b
  BY <1>1, <1>2 DEF RangeTask
<1> HIDE DEF n
<1>7. Part(allEvents', DepositCount[synced'], DepositCount[next' - 1])
  BY <1>1, <1>4, <1>5 DEF n
<1>8. next' \in span'.start..span'.end + 1 /\ \A i \in 1..Len(stack') : stack'[i].end <= span'.end
  BY <1>1, <1>4, <1>6 DEF RangeTask
<1> QED
  BY <1>3, <1>7, <1>8 DEF Answered

LEMMA CallSound ==
    ASSUME Sound, Update \/ GetAll \/ NextChunk
    PROVE  Sound'
<1>1. PICK b \in Blocks : b >= synced /\ fetchEventsFallOver(synced + 1, b)
  <2>1. CASE Update \/ NextChunk
    <3>1. PICK b \in Blocks : b > synced /\ fetchEventsFallOver(synced + 1, b)
      BY <2>1 DEF Update, NextChunk, FetchChunk
    <3>2. b >= synced
      BY <3>1, ChainAssumption DEF Sound, Shapes, Blocks
    <3> QED
      BY <3>1, <3>2
  <2>2. CASE GetAll
    BY <2>2 DEF GetAll
  <2> QED
    BY <2>1, <2>2
<1>2. stage' = "fetch" /\ synced' = synced
  BY DEF Update, GetAll, NextChunk, FetchChunk, Begin
<1>3. Asked' /\ Answered'
  BY <1>1, <1>2, CallFacts
<1>4. Shapes' /\ Filled' /\ Came'
  <2>1. CASE Update \/ GetAll
    <3>1. PICK w \in Names : Begin(w)
      BY <2>1 DEF Update, GetAll, Names
    <3> QED
      BY <3>1, BeginFacts DEF Came, Grown
  <2>2. CASE NextChunk
    <3>1. /\ trees' = trees /\ leaves' = leaves /\ synced' = synced /\ which' = which
          /\ had' = had /\ brought' = brought /\ stage = "stored"
      BY <2>2 DEF NextChunk, filling, history
    <3>2. Shapes' /\ Filled'
      BY <3>1, TreesStay DEF Sound, Shapes
    <3>3. Came'
      BY <3>1 DEF Sound, Came, Grown
    <3> QED
      BY <3>2, <3>3
  <2> QED
    BY <2>1, <2>2
<1> QED
  BY <1>2, <1>3, <1>4 DEF Sound, Putting, CheckIsExact

LEMMA NothingSound ==
    ASSUME Sound, UpdateNothing
    PROVE  Sound'
<1>1. "finalized" \in Names /\ Begin("finalized")
  BY DEF UpdateNothing, Names
<1>2. stage' = "stored" /\ span'.end = synced
  BY DEF UpdateNothing, RangeTask
<1> QED
  BY <1>1, <1>2, BeginFacts DEF Sound, Asked, Answered, Came, Grown, Putting, CheckIsExact

\* The range on top of the stack begins where the answers end, and has no block
\* only if it is the range asked for.
LEMMA TopFacts ==
    ASSUME Inv, Sound, stage = "fetch", fetching = "running", stack # << >>
    PROVE  /\ Head(stack) = stack[1] /\ stack[1].start = next
           /\ stack[1].end \in Int /\ next \in Int /\ synced \in 0..LastBlock
           /\ synced + 1 <= next /\ next - 1 <= stack[1].end /\ stack[1].end <= span.end
           /\ span.start = synced + 1 /\ span.end \in synced..LastBlock
           /\ Len(stack) \in Nat /\ Len(stack) > 0
           /\ \A i \in 1..Len(stack) : stack[i].end <= span.end
           /\ \A i \in 1..Len(stack) - 1 : Tail(stack)[i] = stack[i + 1]
           /\ Len(Tail(stack)) = Len(stack) - 1
<1> DEFINE R == [start : Int, end : Int]
<1>1. stack \in Seq(R) /\ span \in R /\ next \in Int
  BY DEF Inv, FetchInv, FetchTypeOK
<1>2. /\ Head(stack) = stack[1] /\ stack[1] \in R
      /\ Len(Tail(stack)) = Len(stack) - 1
      /\ \A i \in 1..Len(stack) - 1 : Tail(stack)[i] = stack[i + 1]
  BY <1>1, TailEntries
<1>3. Len(stack) \in Nat /\ Len(stack) > 0
  BY <1>1
<1>4. stack[1].start = next
  BY DEF Inv, FetchInv, Tiled
<1>5. /\ span.start = synced + 1 /\ span.end \in synced..LastBlock
      /\ synced \in 0..LastBlock
  BY DEF Sound, Asked, Shapes
<1>6. next \in span.start..span.end + 1 /\ \A i \in 1..Len(stack) : stack[i].end <= span.end
  BY DEF Sound, Answered
<1>7. stack[1].start \in Int /\ stack[1].end \in Int
  BY <1>2
<1>8. next - 1 <= stack[1].end
  <2>1. CASE stack = << span >> /\ next = span.start
    <3>1. stack[1] = span
      BY <2>1
    <3> QED
      BY <2>1, <3>1, <1>5, CountFacts
  <2>2. CASE \A i \in 1..Len(stack) : stack[i].start <= stack[i].end
    <3>1. stack[1].start <= stack[1].end
      BY <2>2, <1>3
    <3> QED
      BY <3>1, <1>1, <1>4, <1>7
  <2> QED
    BY <2>1, <2>2 DEF Inv, FetchInv, Proper
<1> QED
  BY <1>1, <1>2, <1>3, <1>4, <1>5, <1>6, <1>7, <1>8, CountFacts

LEMMA FetchedSound ==
    ASSUME Inv, Sound, stage = "fetch", UNCHANGED syncVars, Fetched
    PROVE  Sound'
<1> DEFINE a == stack[1].start
           b == stack[1].end
           lo == DepositCount[synced]
           mid == DepositCount[a - 1]
           hi == DepositCount[b]
<1>1. stack # << >> /\ fetching = "running"
  BY DEF Fetched
<1>2. /\ Head(stack) = stack[1] /\ a = next
      /\ b \in Int /\ next \in Int /\ synced \in 0..LastBlock
      /\ synced + 1 <= next /\ next - 1 <= b /\ b <= span.end
      /\ span.start = synced + 1 /\ span.end \in synced..LastBlock
      /\ Len(stack) \in Nat /\ Len(stack) > 0
      /\ \A i \in 1..Len(stack) : stack[i].end <= span.end
      /\ \A i \in 1..Len(stack) - 1 : Tail(stack)[i] = stack[i + 1]
      /\ Len(Tail(stack)) = Len(stack) - 1
  BY <1>1, TopFacts
<1>3. PICK answer \in Answers(a, b) :
         allEvents' = allEvents \o answer.events
  BY <1>2 DEF Fetched
<1>4. /\ stack' = Tail(stack) /\ next' = Larger(a, b + 1) /\ span' = span /\ fetching' = fetching
      /\ trees' = trees /\ leaves' = leaves /\ synced' = synced /\ which' = which /\ stage' = stage
      /\ had' = had /\ brought' = brought
  BY <1>2 DEF Fetched, syncVars
<1> HIDE DEF a, b
<1>5. 1 <= a /\ a \in Int /\ a - 1 <= b /\ b <= LastBlock /\ next' = b + 1 /\ (b + 1) - 1 = b
  <2>1. synced \in Nat /\ LastBlock \in Nat /\ span.end \in Int /\ span.end <= LastBlock
    BY <1>2, CountFacts
  <2>2. a \in Int /\ synced + 1 <= a /\ a - 1 <= b
    BY <1>2
  <2>3. 1 <= a /\ b <= LastBlock /\ (b + 1) - 1 = b
    BY <2>1, <2>2, <1>2
  <2>4. next' = b + 1
    BY <2>2, <1>2, <1>4 DEF Larger
  <2> QED
    BY <2>2, <2>3, <2>4
<1>6. Part(answer.events, mid, hi)
  BY <1>2, <1>5, AnswersFacts
<1>7. Part(allEvents, lo, mid)
  BY <1>1, <1>2 DEF Sound, Answered
<1>8. lo \in Nat /\ mid \in Nat /\ hi \in Nat /\ lo <= mid /\ mid <= hi
  <2>1. synced \in 0..LastBlock /\ a - 1 \in 0..LastBlock /\ b \in 0..LastBlock /\ synced <= a - 1
    BY <1>2, <1>5, CountFacts
  <2> QED
    BY <2>1, <1>5, CountFacts
<1> HIDE DEF lo, mid, hi
<1>9. Part(allEvents', lo, hi)
  BY <1>3, <1>6, <1>7, <1>8, JoinParts
<1>10. Answered'
  <2>1. next' \in span'.start..span'.end + 1
    BY <1>2, <1>4, <1>5
  <2>2. \A i \in 1..Len(stack') : stack'[i].end <= span'.end
    <3> SUFFICES ASSUME NEW i \in 1..Len(stack') PROVE stack'[i].end <= span'.end
      OBVIOUS
    <3>1. i \in 1..Len(stack) - 1 /\ i + 1 \in 1..Len(stack)
      BY <1>2, <1>4
    <3> QED
      BY <3>1, <1>2, <1>4
  <2>3. DepositCount[next' - 1] = hi /\ DepositCount[synced'] = lo
    BY <1>4, <1>5 DEF hi, lo
  <2> QED
    BY <2>1, <2>2, <2>3, <1>9 DEF Answered
<1>11. Shapes' /\ Filled'
  BY <1>4, TreesStay DEF Sound, Shapes
<1> QED
  BY <1>4, <1>10, <1>11 DEF Sound, Asked, Came, Grown, Putting, CheckIsExact

LEMMA SplitSound ==
    ASSUME Inv, Sound, stage = "fetch", UNCHANGED syncVars, Split
    PROVE  Sound'
<1> DEFINE a == stack[1].start
           b == stack[1].end
           center == (a + b + 1) \div 2
           l == RangeTask(a, center - 1)
           r == RangeTask(center, b)
           R == [start : Int, end : Int]
<1>1. stack # << >> /\ fetching = "running"
  BY DEF Split
<1>2. /\ Head(stack) = stack[1] /\ a = next
      /\ b \in Int /\ next \in Int /\ b <= span.end
      /\ Len(stack) \in Nat /\ Len(stack) > 0
      /\ \A i \in 1..Len(stack) : stack[i].end <= span.end
      /\ \A i \in 1..Len(stack) - 1 : Tail(stack)[i] = stack[i + 1]
      /\ Len(Tail(stack)) = Len(stack) - 1
  BY <1>1, TopFacts
<1>3. stack' = << l, r >> \o Tail(stack) /\ b - a > 1
  BY <1>2 DEF Split, splitEventsRange, canSplitEventsRange
<1>4. center \in Int /\ center <= b
  BY <1>2, <1>3, Halves
<1>5. l \in R /\ r \in R /\ l.end <= span.end /\ r.end <= span.end
  <2>1. span.end \in Int
    BY DEF Inv, FetchInv, FetchTypeOK
  <2> HIDE DEF a, b
  <2> QED
    BY <2>1, <1>2, <1>4 DEF RangeTask
<1>6. Tail(stack) \in Seq(R)
  BY <1>1, TailEntries DEF Inv, FetchInv, FetchTypeOK
<1> HIDE DEF l, r, R
<1>7. /\ Len(stack') = Len(Tail(stack)) + 2
      /\ stack'[1] = l /\ stack'[2] = r
      /\ \A i \in 1..Len(Tail(stack)) : stack'[i + 2] = Tail(stack)[i]
  BY <1>3, <1>5, <1>6, PushTwo
<1>8. ASSUME NEW i \in 1..Len(stack')
      PROVE  stack'[i].end <= span.end
  <2>1. CASE i = 1
    BY <2>1, <1>5, <1>7
  <2>2. CASE i = 2
    BY <2>2, <1>5, <1>7
  <2>3. CASE i > 2
    <3>1. i - 2 \in 1..Len(stack) - 1 /\ (i - 2) + 2 = i /\ (i - 2) + 1 \in 1..Len(stack)
      BY <2>3, <1>2, <1>7
    <3>2. stack'[i] = stack[(i - 2) + 1]
      BY <3>1, <1>2, <1>7
    <3> QED
      BY <3>1, <3>2, <1>2
  <2> QED
    BY <2>1, <2>2, <2>3, <1>2, <1>7
<1>9. /\ span' = span /\ allEvents' = allEvents /\ fetching' = fetching /\ next' = next
      /\ trees' = trees /\ leaves' = leaves /\ synced' = synced /\ which' = which /\ stage' = stage
      /\ had' = had /\ brought' = brought
  BY DEF Split, syncVars
<1>10. Answered'
  BY <1>1, <1>8, <1>9 DEF Sound, Answered
<1>11. Shapes' /\ Filled'
  BY <1>9, TreesStay DEF Sound, Shapes
<1> QED
  BY <1>9, <1>10, <1>11 DEF Sound, Asked, Came, Grown, Putting, CheckIsExact

\* Steps of the call that ends, and of its caller who gives up.
LEMMA EndSound ==
    ASSUME Sound, \/ stage = "fetch" /\ UNCHANGED syncVars /\ (Throws \/ Returns)
                  \/ FetchThrew
    PROVE  Sound'
<1>1. /\ span' = span /\ allEvents' = allEvents /\ next' = next /\ stack' = stack
      /\ trees' = trees /\ leaves' = leaves /\ synced' = synced /\ which' = which
      /\ had' = had /\ brought' = brought
      /\ stage = "fetch" /\ stage' \in {"fetch", "idle"}
      /\ stage' = "fetch" /\ fetching' = "done" => fetching = "running"
      /\ stage' = "fetch" => fetching' \in {"done", "thrown"}
  BY DEF Throws, Returns, FetchThrew, syncVars, fetchVars, filling, history
<1>2. Answered'
  <2> SUFFICES ASSUME stage' = "fetch", fetching' \in {"running", "done"} PROVE Answered'
    BY DEF Answered
  <2>1. fetching = "running"
    BY <1>1
  <2> QED
    BY <1>1, <2>1 DEF Sound, Answered
<1>3. Shapes' /\ Filled'
  BY <1>1, TreesStay DEF Sound, Shapes
<1> QED
  BY <1>1, <1>2, <1>3 DEF Sound, Asked, Came, Grown, Putting, CheckIsExact

LEMMA SortSound ==
    ASSUME Inv, Sound, Sort
    PROVE  Sound'
<1> DEFINE lo == DepositCount[synced]
           hi == DepositCount[span.end]
           t == sortEventsByDepositCount(allEvents)
<1>1. /\ stage = "fetch" /\ fetching = "done" /\ stage' = "put" /\ todo' = t
      /\ span' = span /\ which' = which /\ synced' = synced /\ had' = had
      /\ brought' = brought \cup Range(allEvents)
  BY DEF Sort, fetchVars
<1>2. /\ span.start = synced + 1 /\ span.end \in synced..LastBlock
      /\ synced \in 0..LastBlock /\ which \in Names /\ had \in Nat
  BY <1>1 DEF Sound, Asked, Shapes
<1>3. next - 1 = span.end
  <2>1. next = Larger(span.start, span.end + 1)
    BY <1>1 DEF Inv, FetchInv, Tiled
  <2> QED
    BY <2>1, <1>2, CountFacts DEF Larger
<1>4. lo \in Nat /\ hi \in Nat /\ lo <= hi
  <2>1. synced \in 0..LastBlock /\ span.end \in 0..LastBlock /\ synced <= span.end
    BY <1>2, CountFacts
  <2> QED
    BY <2>1, CountFacts
<1>5. Part(allEvents, lo, hi)
  BY <1>1, <1>3 DEF Sound, Answered
<1> HIDE DEF lo, hi, t
<1>6. /\ Part(t, lo, hi) /\ Len(t) = Len(allEvents) /\ Range(t) = Range(allEvents)
      /\ \A i, j \in 1..Len(allEvents) : i < j => t[i].count < t[j].count
  BY <1>4, <1>5, Sorted DEF t
<1>7. /\ Grown(Len(leaves["finalized"]), synced) /\ Len(leaves["finalized"]) \in Nat
      /\ brought = EventsBetween(had, Len(leaves["finalized"]))
      /\ \A w \in Names : Beginning(leaves[w]) /\ StandsFor(trees[w], leaves[w])
      /\ "finalized" \in Names /\ "latest" \in Names
      /\ trees = [w \in Names |-> trees[w]] /\ leaves = [w \in Names |-> leaves[w]]
  BY <1>1 DEF Sound, Came, Filled, Beginning, Shapes, Names
<1>8. /\ trees' = [w \in Names |-> trees'[w]] /\ leaves' = [w \in Names |-> leaves'[w]]
      /\ leaves'["finalized"] = leaves["finalized"] /\ leaves'[which] = leaves["finalized"]
      /\ Filled'
  <2>1. CASE which = "latest"
    <3>1. /\ trees' = [trees EXCEPT !.latest = clone(trees.finalized)]
          /\ leaves' = [leaves EXCEPT !.latest = leaves.finalized]
      BY <2>1 DEF Sort
    <3>2. /\ trees'["latest"] = clone(trees["finalized"]) /\ trees'["finalized"] = trees["finalized"]
          /\ leaves'["latest"] = leaves["finalized"] /\ leaves'["finalized"] = leaves["finalized"]
          /\ trees' = [w \in Names |-> trees'[w]] /\ leaves' = [w \in Names |-> leaves'[w]]
      BY <3>1, <1>7 DEF Names
    <3>3. StandsFor(trees'["latest"], leaves'["latest"])
      BY <3>2, <1>7, CloneStands
    <3>4. \A w \in Names : w = "finalized" \/ w = "latest"
      BY DEF Names
    <3>5. \A w \in Names : Beginning(leaves'[w]) /\ StandsFor(trees'[w], leaves'[w])
      BY <3>2, <3>3, <3>4, <1>7
    <3> QED
      BY <2>1, <3>2, <3>5 DEF Filled, Beginning, StandsFor
  <2>2. CASE which # "latest"
    <3>1. trees' = trees /\ leaves' = leaves /\ which = "finalized"
      BY <2>2, <1>2 DEF Sort, Names
    <3>2. \A w \in Names : Beginning(leaves'[w]) /\ StandsFor(trees'[w], leaves'[w])
      BY <3>1, <1>7
    <3> QED
      BY <3>1, <3>2, <1>7 DEF Filled, Beginning, StandsFor
  <2> QED
    BY <2>1, <2>2
<1> DEFINE n == Len(leaves["finalized"])
<1>9. Len(leaves'[which']) = n
  BY <1>1, <1>8
<1>10. n \in Nat /\ had <= n /\ (n = had \/ n <= lo) /\ brought = EventsBetween(had, n)
  BY <1>7 DEF Grown, lo
<1> HIDE DEF n
<1>11. Putting'
  <2>1. t \in Seq(EventsBetween(0, hi))
    <3>1. \A k \in lo..hi - 1 : k \in 0..hi - 1
      BY <1>4
    <3>2. EventsBetween(lo, hi) \subseteq EventsBetween(0, hi)
      BY <3>1 DEF EventsBetween
    <3>3. t \in Seq(EventsBetween(lo, hi))
      BY <1>6 DEF Part
    <3> QED
      BY <3>2, <3>3
  <2>2. \A i \in 1..Len(t) : n = had \/ n <= t[i].count
    <3> TAKE i \in 1..Len(t)
    <3>1. t[i].count \in Int /\ lo <= t[i].count
      <4>1. lo \in Int /\ hi \in Int /\ Part(t, lo, hi)
        BY <1>4, <1>6
      <4> QED
        BY <4>1, PartFacts
    <3> QED
      BY <3>1, <1>2, <1>4, <1>10
  <2>3. DepositCount[span'.end] = hi
    BY <1>1 DEF hi
  <2>4. had' <= n /\ (n = had' \/ n <= hi)
    BY <1>1, <1>2, <1>4, <1>10
  <2>5. \A i, j \in 1..Len(t) : i < j => t[i].count < t[j].count
    BY <1>6
  <2>6. brought' = EventsBetween(had, n) \cup Range(t)
    BY <1>1, <1>6, <1>10
  <2> QED
    BY <2>1, <2>2, <2>3, <2>4, <2>5, <2>6, <1>1, <1>9 DEF Putting, Grown
<1>12. Shapes'
  BY <1>1, <1>2, <1>8 DEF Shapes
<1> QED
  BY <1>1, <1>2, <1>8, <1>11, <1>12 DEF Sound, Asked, Answered, Came, CheckIsExact

\* The tree being filled, and the deposits up to the block asked for.
LEMMA PutFacts ==
    ASSUME Inv, Sound, stage = "put"
    PROVE  /\ which \in Names /\ Beginning(leaves[which]) /\ StandsFor(trees[which], leaves[which])
           /\ Len(leaves[which]) \in Nat /\ trees[which].nodeCount = Len(leaves[which])
           /\ span.end \in 0..LastBlock /\ DepositCount[span.end] \in Nat
           /\ DepositCount[span.end] <= DepositCount[LastBlock]
           /\ DepositCount[span.end] <= Len(Nodes)
           /\ todo \in Seq(EventsBetween(0, DepositCount[span.end]))
           /\ Len(todo) \in Nat /\ had \in Nat /\ had <= Len(leaves[which])
<1>1. which \in Names /\ Beginning(leaves[which]) /\ StandsFor(trees[which], leaves[which])
  BY DEF Sound, Shapes, Filled
<1>2. span.end \in 0..LastBlock /\ LastBlock \in 0..LastBlock /\ had \in Nat
  BY CountFacts DEF Sound, Asked, Shapes
<1>3. /\ todo \in Seq(EventsBetween(0, DepositCount[span.end])) /\ Len(todo) \in Nat
      /\ had <= Len(leaves[which])
  BY DEF Sound, Putting, Grown
<1> QED
  BY <1>1, <1>2, <1>3, CountFacts DEF StandsFor

\* The event that is put next, and the others.
LEMMA HeadAndTail ==
    ASSUME NEW S, NEW s \in Seq(S), s # << >>
    PROVE  /\ Head(s) = s[1] /\ s[1] \in S /\ 1 \in 1..Len(s)
           /\ Tail(s) \in Seq(S) /\ Len(Tail(s)) = Len(s) - 1
           /\ \A i \in 1..Len(s) - 1 : Tail(s)[i] = s[i + 1] /\ i + 1 \in 1..Len(s)
           /\ Range(s) = {Head(s)} \cup Range(Tail(s))
<1>1. /\ Head(s) = s[1] /\ s[1] \in S /\ 1 \in 1..Len(s) /\ Len(s) \in Nat
      /\ Tail(s) \in Seq(S) /\ Len(Tail(s)) = Len(s) - 1
      /\ \A i \in 1..Len(s) - 1 : Tail(s)[i] = s[i + 1] /\ i + 1 \in 1..Len(s)
  OBVIOUS
<1>2. DOMAIN s = 1..Len(s) /\ DOMAIN Tail(s) = 1..Len(s) - 1
  BY <1>1
<1>3. \A i \in 1..Len(s) : i = 1 \/ (i - 1 \in 1..Len(s) - 1 /\ (i - 1) + 1 = i)
  BY <1>1
<1>4. Range(s) = {s[i] : i \in 1..Len(s)} /\ Range(Tail(s)) = {Tail(s)[i] : i \in 1..Len(s) - 1}
  BY <1>2 DEF Range
<1>5. Range(s) = {Head(s)} \cup Range(Tail(s))
  <2>1. \A i \in 1..Len(s) : s[i] \in {s[1]} \cup {Tail(s)[j] : j \in 1..Len(s) - 1}
    <3> TAKE i \in 1..Len(s)
    <3>1. CASE i # 1
      <4>1. i - 1 \in 1..Len(s) - 1 /\ Tail(s)[i - 1] = s[i]
        BY <3>1, <1>1, <1>3
      <4> QED
        BY <4>1
    <3> QED
      BY <3>1
  <2>2. \A i \in 1..Len(s) - 1 : Tail(s)[i] \in {s[j] : j \in 1..Len(s)}
    BY <1>1
  <2>3. s[1] \in {s[j] : j \in 1..Len(s)}
    BY <1>1
  <2> QED
    BY <2>1, <2>2, <2>3, <1>1, <1>4
<1> QED
  BY <1>1, <1>5

LEMMA PutSound ==
    ASSUME Inv, Sound, Put
    PROVE  Sound'
<1> DEFINE e == Head(todo)
           s == leaves[which]
           n == Len(s)
           hi == DepositCount[span.end]
<1>1. /\ stage = "put" /\ todo # << >> /\ trees[which].nodeCount = e.count
      /\ trees' = [trees EXCEPT ![which] = insert(trees[which], e.node)]
      /\ leaves' = [leaves EXCEPT ![which] = Append(s, e.node)]
      /\ todo' = Tail(todo)
      /\ stage' = stage /\ which' = which /\ synced' = synced /\ had' = had
      /\ span' = span /\ brought' = brought
  BY DEF Put, Fits, filled, fetchVars, history
<1>2. /\ which \in Names /\ Beginning(s) /\ StandsFor(trees[which], s)
      /\ n \in Nat /\ trees[which].nodeCount = n
      /\ hi \in Nat /\ hi <= DepositCount[LastBlock] /\ hi <= Len(Nodes)
      /\ todo \in Seq(EventsBetween(0, hi)) /\ Len(todo) \in Nat
      /\ had \in Nat /\ had <= n
  BY <1>1, PutFacts
<1>3. /\ e = todo[1] /\ e \in EventsBetween(0, hi)
      /\ Tail(todo) \in Seq(EventsBetween(0, hi)) /\ Len(Tail(todo)) = Len(todo) - 1
      /\ \A i \in 1..Len(todo) - 1 : Tail(todo)[i] = todo[i + 1] /\ i + 1 \in 1..Len(todo)
  BY <1>1, <1>2, HeadAndTail
<1>4. /\ trees = [w \in Names |-> trees[w]] /\ leaves = [w \in Names |-> leaves[w]]
      /\ synced \in 0..LastBlock
      /\ \A w \in Names : Beginning(leaves[w]) /\ StandsFor(trees[w], leaves[w])
      /\ DepositCount[LastBlock] \in Nat /\ Len(Nodes) \in Nat
  BY CountFacts DEF Sound, Shapes, Filled
<1> HIDE DEF e, s, n, hi
<1>5. n < hi /\ e.node = Nodes[n + 1] /\ n + 1 \in 1..Len(Nodes) /\ e.node \in Range(Nodes)
  <2>1. PICK k \in 0..hi - 1 : e = DepositEvent(k)
    BY <1>3 DEF EventsBetween
  <2>2. k = n /\ e.node = Nodes[k + 1]
    BY <2>1, <1>1, <1>2, EventFields
  <2>3. n < hi /\ n + 1 \in 1..Len(Nodes)
    BY <2>2, <1>2, <1>4
  <2> QED
    BY <2>2, <2>3, CountFacts
<1>6. Beginning(Append(s, e.node))
  <2>1. s \in Seq(Range(Nodes)) /\ \A i \in 1..n : s[i] = Nodes[i]
    BY <1>2 DEF Beginning, n
  <2>2. /\ Append(s, e.node) \in Seq(Range(Nodes))
        /\ Len(Append(s, e.node)) = n + 1
        /\ \A i \in 1..n : Append(s, e.node)[i] = s[i]
        /\ Append(s, e.node)[n + 1] = e.node
    BY <2>1, <1>5 DEF n
  <2>3. \A i \in 1..n + 1 : i \in 1..n \/ i = n + 1
    BY <1>2
  <2>4. \A i \in 1..n + 1 : Append(s, e.node)[i] = Nodes[i]
    BY <2>1, <2>2, <2>3, <1>5
  <2>5. n + 1 <= DepositCount[LastBlock]
    BY <1>2, <1>4, <1>5
  <2> QED
    BY <2>2, <2>4, <2>5 DEF Beginning
<1>7. StandsFor(insert(trees[which], e.node), Append(s, e.node))
  <2>1. s \in Seq(Range(Nodes))
    BY <1>2 DEF Beginning
  <2> QED
    BY <2>1, <1>2, <1>5, InsertStands
<1>8. /\ trees'[which] = insert(trees[which], e.node) /\ leaves'[which] = Append(s, e.node)
      /\ \A w \in Names : w # which => trees'[w] = trees[w] /\ leaves'[w] = leaves[w]
      /\ trees' = [w \in Names |-> trees'[w]] /\ leaves' = [w \in Names |-> leaves'[w]]
  BY <1>1, <1>2, <1>4
<1>9. Filled'
  <2>1. \A w \in Names : Beginning(leaves'[w]) /\ StandsFor(trees'[w], leaves'[w])
    <3> TAKE w \in Names
    <3>1. CASE w = which
      BY <3>1, <1>6, <1>7, <1>8
    <3>2. CASE w # which
      BY <3>2, <1>4, <1>8
    <3> QED
      BY <3>1, <3>2
  <2> QED
    BY <2>1 DEF Filled, Beginning, StandsFor
<1>10. Len(leaves'[which]) = n + 1
  <2>1. Len(Append(s, e.node)) = n + 1
    <3>1. s \in Seq(Range(Nodes))
      BY <1>2 DEF Beginning
    <3> QED
      BY <3>1, <1>5 DEF n
  <2> QED
    BY <2>1, <1>8
<1>11. \A i, j \in 1..Len(todo) : i < j => todo[i].count < todo[j].count
  BY <1>1 DEF Sound, Putting
<1>12. brought = EventsBetween(had, n) \cup Range(todo)
  BY <1>1 DEF Sound, Putting, n, s
<1>13. ASSUME NEW i \in 1..Len(todo) - 1
       PROVE  n + 1 <= Tail(todo)[i].count
  <2>1. 1 \in 1..Len(todo) /\ i + 1 \in 1..Len(todo) /\ 1 < i + 1
    BY <1>2, <1>3
  <2>2. todo[1].count < todo[i + 1].count /\ todo[1].count = n
    BY <2>1, <1>1, <1>2, <1>3, <1>11
  <2>3. todo[i + 1] \in EventsBetween(0, hi)
    BY <2>1, <1>2
  <2>4. todo[i + 1].count \in Int
    BY <2>3, EventFields DEF EventsBetween
  <2> QED
    BY <2>2, <2>4, <1>2, <1>3
<1>14. brought = EventsBetween(had, n + 1) \cup Range(Tail(todo))
  <2>1. EventsBetween(had, n + 1) = EventsBetween(had, n) \cup {DepositEvent(n)}
    <3>1. had..(n + 1) - 1 = (had..n - 1) \cup {n}
      BY <1>2
    <3> QED
      BY <3>1 DEF EventsBetween
  <2>2. e = DepositEvent(n)
    BY <1>1, <1>2, <1>3, EventFields DEF EventsBetween
  <2>3. Range(todo) = {e} \cup Range(Tail(todo))
    BY <1>1, <1>2, <1>3, HeadAndTail
  <2> QED
    BY <2>1, <2>2, <2>3, <1>12
<1>15. Putting'
  <2>1. \A i, j \in 1..Len(todo) - 1 : i < j => Tail(todo)[i].count < Tail(todo)[j].count
    <3> TAKE i, j \in 1..Len(todo) - 1
    <3>1. i + 1 \in 1..Len(todo) /\ j + 1 \in 1..Len(todo) /\ (i < j => i + 1 < j + 1)
      BY <1>2
    <3> QED
      BY <3>1, <1>3, <1>11
  <2>2. DepositCount[span'.end] = hi
    BY <1>1 DEF hi
  <2>3. had' <= n + 1 /\ n + 1 <= hi
    BY <1>1, <1>2, <1>5
  <2> QED
    BY <2>1, <2>2, <2>3, <1>1, <1>3, <1>10, <1>13, <1>14 DEF Putting, Grown
<1>16. Shapes'
  BY <1>1, <1>2, <1>4, <1>8 DEF Shapes
<1>17. Asked'
  BY <1>1 DEF Sound, Asked
<1> QED
  BY <1>1, <1>9, <1>15, <1>16, <1>17 DEF Sound, Answered, Came, CheckIsExact

LEMMA PutThrowsSound ==
    ASSUME Inv, Sound, PutThrows
    PROVE  Sound'
<1> DEFINE e == Head(todo)
           n == Len(leaves[which])
           hi == DepositCount[span.end]
<1>1. /\ stage = "put" /\ todo # << >> /\ trees[which].nodeCount # e.count
      /\ stage' = "checked" /\ verdict' = "broken"
      /\ trees' = trees /\ leaves' = leaves /\ synced' = synced /\ which' = which
      /\ span' = span /\ had' = had /\ brought' = brought
  BY DEF PutThrows, Fits, fetchVars, filling, history
<1>2. /\ n \in Nat /\ trees[which].nodeCount = n /\ hi \in Nat
      /\ todo \in Seq(EventsBetween(0, hi)) /\ Len(todo) \in Nat /\ had \in Nat /\ had <= n
  BY <1>1, PutFacts
<1>3. /\ e = todo[1] /\ e \in EventsBetween(0, hi) /\ 1 \in 1..Len(todo)
      /\ e \in Range(todo)
  BY <1>1, <1>2, HeadAndTail
<1>4. /\ \A i, j \in 1..Len(todo) : i < j => todo[i].count < todo[j].count
      /\ brought = EventsBetween(had, n) \cup Range(todo)
      /\ n = had \/ n <= e.count
  BY <1>1, <1>3 DEF Sound, Putting
<1> HIDE DEF e, n, hi
<1>5. e.count \in 0..hi - 1 /\ e.count # n
  BY <1>1, <1>2, <1>3, EventFields DEF EventsBetween
\* An event below the leaves is none the tree lacked; above them, the next is missing.
<1>6. ASSUME brought = EventsBetween(had, hi)
      PROVE  FALSE
  <2>1. had <= e.count
    <3>1. PICK k \in had..hi - 1 : e = DepositEvent(k)
      BY <1>3, <1>4, <1>6 DEF EventsBetween
    <3> QED
      BY <3>1, EventFields
  <2>2. n < e.count
    BY <2>1, <1>2, <1>4, <1>5
  <2>3. DepositEvent(n) \in brought
    <3>1. n \in had..hi - 1
      BY <2>2, <1>2, <1>5
    <3> QED
      BY <3>1, <1>6 DEF EventsBetween
  <2>4. DepositEvent(n) \notin EventsBetween(had, n)
    <3>1. n \notin had..n - 1
      BY <1>2
    <3> QED
      BY <3>1, EventFields DEF EventsBetween
  <2>5. PICK i \in 1..Len(todo) : todo[i] = DepositEvent(n)
    BY <2>3, <2>4, <1>2, <1>4 DEF Range
  <2>6. todo[i].count = n /\ todo[1].count = e.count
    BY <2>5, <1>3, EventFields
  <2>7. i = 1 \/ 1 < i
    OBVIOUS
  <2> QED
    BY <2>2, <2>6, <2>7, <1>2, <1>3, <1>4, <1>5
<1>7. Shapes' /\ Filled'
  BY <1>1, TreesStay DEF Sound, Shapes
<1>8. CheckIsExact'
  BY <1>1, <1>6 DEF CheckIsExact, EventsBetween, hi
<1> QED
  BY <1>1, <1>7, <1>8 DEF Sound, Asked, Answered, Came, Putting

\* No tree of the daemon has more leaves than the contract takes.
LEMMA WithinCapacity ==
    ASSUME NEW s, Beginning(s)
    PROVE  halvesOf(Len(s))[DEPOSIT_CONTRACT_TREE_DEPTH] = 0
<1> DEFINE D == DEPOSIT_CONTRACT_TREE_DEPTH
           c == DepositCount[LastBlock]
<1>1. D \in Levels
  BY DepthAssumption DEF Levels
<1>2. c \in Nat
  BY CountFacts
<1>3. Len(s) \in Nat /\ Len(s) <= c
  BY DEF Beginning
<1> HIDE DEF D, c
<1>4. halvesOf(Len(s))[D] <= halvesOf(c)[D] /\ halvesOf(Len(s))[D] \in Nat
  BY <1>1, <1>2, <1>3, HalvesGrow, HalvesFacts
<1>5. halvesOf(c)[D] = 0
  BY CapacityAssumption DEF D, c
<1>6. halvesOf(Len(s))[D] = 0
  BY <1>4, <1>5
<1> QED
  BY <1>6 DEF D

\* The contract's root at block b is that of the first deposits of the chain.
LEMMA DepositRootFacts ==
    ASSUME NEW b \in 0..LastBlock, NEW s, Beginning(s)
    PROVE  /\ Len(s) = DepositCount[b] => MerkleRoot(s) = depositRoot(b)
           /\ MerkleRoot(s) = depositRoot(b) => Len(s) = DepositCount[b]
<1> DEFINE q == EventsOf(1, b)
           r == [i \in DOMAIN q |-> q[i].node]
           c == DepositCount[b]
<1>1. b \in Int /\ 1 - 1 <= b /\ b <= LastBlock /\ c \in Nat /\ DepositCount[0] = 0
  BY CountFacts
<1>2. /\ Part(q, 0, c) /\ Len(q) = c
      /\ \A i \in 1..c : q[i] = DepositEvent(0 + i - 1)
  <2>1. /\ Part(q, DepositCount[1 - 1], c) /\ Len(q) = c - DepositCount[1 - 1]
        /\ \A i \in 1..Len(q) : q[i] = DepositEvent(DepositCount[1 - 1] + i - 1)
    BY <1>1, EventsOfFacts
  <2>2. 1 - 1 = 0 /\ c - 0 = c
    BY <1>1
  <2> HIDE DEF q, c
  <2> QED
    BY <2>1, <2>2, <1>1
<1>3. DOMAIN q = 1..c
  BY <1>1, <1>2, PartFacts
<1> HIDE DEF q
<1>4. \A i \in 1..c : q[i].node = Nodes[i]
  <2> TAKE i \in 1..c
  <2>1. (0 + i - 1) + 1 = i
    BY <1>1
  <2> QED
    BY <2>1, <1>2, EventFields
<1>5. r = [i \in 1..c |-> Nodes[i]]
  BY <1>3, <1>4
<1>6. Len(r) = c
  BY <1>1, <1>5
<1>7. depositRoot(b) = MerkleRoot(r)
  BY DEF depositRoot, q
<1>8. s \in Seq(Range(Nodes)) /\ \A i \in 1..Len(s) : s[i] = Nodes[i]
  BY DEF Beginning
<1>9. ASSUME Len(s) = c PROVE s = r
  <2>1. s = [i \in 1..c |-> s[i]]
    BY <1>8, <1>9
  <2> HIDE DEF r
  <2> QED
    BY <2>1, <1>5, <1>8, <1>9
<1> HIDE DEF r, c
<1>10. MerkleRoot(s) = MerkleRoot(r) => Len(s) = Len(r)
  BY DEF MerkleRoot
<1> QED
  BY <1>6, <1>7, <1>9, <1>10 DEF c

\* Events with different numbers make different sets.
LEMMA SameEvents ==
    ASSUME NEW lo \in Nat, NEW n \in Nat, NEW hi \in Nat, lo <= n, lo <= hi,
           EventsBetween(lo, n) = EventsBetween(lo, hi)
    PROVE  n = hi
<1>1. \A k, m \in Nat : lo <= k => (DepositEvent(k) \in EventsBetween(lo, m) <=> k < m)
  <2> SUFFICES ASSUME NEW k \in Nat, NEW m \in Nat, lo <= k
               PROVE  DepositEvent(k) \in EventsBetween(lo, m) <=> k < m
    OBVIOUS
  <2>1. k < m <=> k \in lo..m - 1
    OBVIOUS
  <2> QED
    BY <2>1, EventFields DEF EventsBetween
<1>2. ~(n < hi) /\ ~(hi < n)
  BY <1>1
<1> QED
  BY <1>2

LEMMA CheckRootSound ==
    ASSUME Inv, Sound, CheckRoot
    PROVE  Sound'
<1> DEFINE s == leaves[which]
           hi == DepositCount[span.end]
           n == Len(s)
<1>1. /\ Complete /\ stage' = "checked"
      /\ verdict' = IF getRoot(trees[which]) = depositRoot(span.end) THEN "match" ELSE "mismatch"
      /\ trees' = trees /\ leaves' = leaves /\ synced' = synced /\ which' = which
      /\ span' = span /\ had' = had /\ brought' = brought
  BY DEF CheckRoot, fetchVars, filling, history
<1>2. /\ Beginning(s) /\ StandsFor(trees[which], s) /\ n \in Nat
      /\ span.end \in 0..LastBlock /\ hi \in Nat /\ had \in Nat
  <2>1. /\ which \in Names /\ had \in Nat /\ synced \in 0..LastBlock
        /\ Beginning(s) /\ StandsFor(trees[which], s)
    BY DEF Sound, Shapes, Filled
  <2>2. span.end \in 0..LastBlock
    BY <2>1, <1>1, CountFacts DEF Sound, Asked, Complete
  <2> QED
    BY <2>1, <2>2, CountFacts DEF Beginning
<1>3. had <= n /\ brought = EventsBetween(had, n)
  <2>1. CASE stage = "stored"
    <3>1. which = "finalized"
      BY <2>1 DEF Sound, Asked
    <3> QED
      BY <3>1, <2>1 DEF Sound, Came, Grown
  <2>2. CASE stage = "put" /\ todo = << >>
    <3>1. Range(todo) = {}
      BY <2>2 DEF Range
    <3>2. had <= n /\ brought = EventsBetween(had, n) \cup Range(todo)
      BY <2>2 DEF Sound, Putting, Grown
    <3> QED
      BY <3>1, <3>2
  <2> QED
    BY <2>1, <2>2, <1>1 DEF Complete
<1> HIDE DEF s, hi
<1>4. getRoot(trees[which]) = MerkleRoot(s)
  BY <1>2, WithinCapacity, RootIsMerkleRoot
<1>5. MerkleRoot(s) = depositRoot(span.end) <=> n = hi
  BY <1>2, DepositRootFacts DEF hi
<1> HIDE DEF n
<1>6. verdict' = "match" <=> n = hi
  BY <1>1, <1>4, <1>5
<1>7. n = hi <=> had <= hi /\ brought = EventsBetween(had, hi)
  BY <1>2, <1>3, SameEvents
<1>8. CheckIsExact'
  BY <1>1, <1>6, <1>7 DEF CheckIsExact, EventsBetween, hi
<1>9. Shapes' /\ Filled'
  BY <1>1, TreesStay DEF Sound, Shapes
<1> QED
  BY <1>1, <1>8, <1>9 DEF Sound, Asked, Answered, Came, Putting

LEMMA StoreSound ==
    ASSUME Inv, Sound, Store
    PROVE  Sound'
<1>1. /\ stage = "put" /\ todo = << >> /\ which = "finalized" /\ stage' = "stored"
      /\ trees' = trees /\ leaves' = leaves /\ synced' = span.end /\ which' = which
      /\ span' = span /\ had' = had /\ brought' = brought
  BY DEF Store, fetchVars, filling, history
<1>2. span.end \in 0..LastBlock
  BY <1>1, PutFacts
<1>3. Came'
  <2>1. Range(todo) = {}
    BY <1>1 DEF Range
  <2>2. /\ Grown(Len(leaves["finalized"]), span.end)
        /\ brought = EventsBetween(had, Len(leaves["finalized"])) \cup Range(todo)
    BY <1>1 DEF Sound, Putting
  <2> QED
    BY <2>1, <2>2, <1>1 DEF Came, Grown
<1>4. Shapes' /\ Filled'
  BY <1>1, <1>2, TreesStay DEF Sound, Shapes
<1> QED
  BY <1>1, <1>3, <1>4 DEF Sound, Asked, Answered, Putting, CheckIsExact

\* The call is over, whatever came of it: the tree keeps what was put.
LEMMA IdleSound ==
    ASSUME Sound, RequestFails \/ Ends
    PROVE  Sound'
<1>1. /\ stage' = "idle" /\ trees' = trees /\ leaves' = leaves /\ synced' = synced
      /\ which' = which /\ had' = had
  BY DEF RequestFails, Ends, filling, history
<1>2. Shapes' /\ Filled'
  BY <1>1, TreesStay DEF Sound, Shapes
<1> QED
  BY <1>1, <1>2 DEF Sound, Asked, Answered, Came, Putting, CheckIsExact

LEMMA SoundStep == Inv /\ Sound /\ [Next]_vars => Sound'
<1> SUFFICES ASSUME Inv, Sound, [Next]_vars PROVE Sound'
  OBVIOUS
<1>1. CASE Update \/ GetAll \/ NextChunk
  BY <1>1, CallSound
<1>2. CASE UpdateNothing
  BY <1>2, NothingSound
<1>3. CASE Fetching
  BY <1>3, FetchedSound, SplitSound, EndSound DEF Fetching, FetchStep
<1>4. CASE FetchThrew
  BY <1>4, EndSound
<1>5. CASE Sort
  BY <1>5, SortSound
<1>6. CASE Put
  BY <1>6, PutSound
<1>7. CASE PutThrows
  BY <1>7, PutThrowsSound
<1>8. CASE Store
  BY <1>8, StoreSound
<1>9. CASE CheckRoot
  BY <1>9, CheckRootSound
<1>10. CASE RequestFails \/ Ends
  BY <1>10, IdleSound
<1>11. CASE UNCHANGED vars
  BY <1>11 DEF vars, fetchVars, syncVars, Sound, Shapes, Filled, Beginning, StandsFor, Asked,
     Answered, Came, Grown, Putting, CheckIsExact
<1> QED
  BY <1>1, <1>2, <1>3, <1>4, <1>5, <1>6, <1>7, <1>8, <1>9, <1>10, <1>11 DEF Next

\* DepositTree.insert, getRoot and clone: the root kept with one branch is that
\* of the Merkle tree over all leaves inserted so far, of the finalized tree too
\* while its clone is filled.
THEOREM RootOfLeaves == Spec => []TreeIsItsLeaves
<1>1. Sound => TreeIsItsLeaves
  <2> SUFFICES ASSUME Sound, NEW w \in DOMAIN trees
               PROVE  getRoot(trees[w]) = MerkleRoot(leaves[w])
    BY DEF TreeIsItsLeaves
  <2>1. w \in Names
    BY DEF Sound, Shapes
  <2>2. Beginning(leaves[w]) /\ StandsFor(trees[w], leaves[w])
    BY <2>1 DEF Sound, Filled
  <2> QED
    BY <2>2, WithinCapacity, RootIsMerkleRoot
<1> QED
  BY <1>1, InvInit, InvStep, SoundInit, SoundStep, PTL DEF Spec

\* putEventsToTree, checkFinalizedRoot and checkLatestRoot: whatever ranges were
\* split, whatever order the events came in and whatever an earlier call left in
\* the tree, the check passes exactly when the events fetched are those the tree
\* lacked.
THEOREM CheckExact == Spec => []CheckIsExact
<1>1. Sound => CheckIsExact
  BY DEF Sound
<1> QED
  BY <1>1, InvInit, InvStep, SoundInit, SoundStep, PTL DEF Spec

=============================================================================
