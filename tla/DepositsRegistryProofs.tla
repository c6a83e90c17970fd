---------------------- MODULE DepositsRegistryProofs ----------------------
(***************************************************************************)
(* Proofs about DepositsRegistry, for any deposits, step, number of        *)
(* executions and number of faults.                                        *)
(*                                                                         *)
(* Three invariants are built on each other.  Base holds whatever goes     *)
(* wrong: types, records that are whole blocks of the canonical chain, a   *)
(* tree that is the beginning of that chain.  Promised holds while no      *)
(* provider leaves an event out: what the headers, the last valid event    *)
(* and every execution take for fetched is in the database.  Verified      *)
(* holds as long as the faults are tolerable: it relates the cached events *)
(* to the leaves of the tree, through the chunks on their way to both, and *)
(* so tells why a root that agrees vouches for the events that are served. *)
(***************************************************************************)
EXTENDS DepositsRegistry, FiniteSetTheorems, SequenceTheorems, TLAPS

LEMMA UpToNumbers ==
    ASSUME NEW n \in Nat
    PROVE  IsFiniteSet(1..n) /\ Cardinality(1..n) = n
<1>1. IsFiniteSet(1..n) /\ Cardinality(1..n) = IF 1 > n THEN 0 ELSE n - 1 + 1
  BY FS_Interval
<1> QED
  BY <1>1

\* Numbers that leave out none below them.
LEMMA NoneLeftOut ==
    ASSUME NEW S, NEW n \in Nat, S \subseteq 1..n, \A i \in S : 1..i \subseteq S
    PROVE  Cardinality(S) \in Nat /\ Cardinality(S) <= n /\ S = 1..Cardinality(S)
<1> DEFINE k == Cardinality(S)
<1>1. IsFiniteSet(1..n) /\ Cardinality(1..n) = n
  BY UpToNumbers
<1>2. IsFiniteSet(S) /\ k <= n
  BY <1>1, FS_Subset
<1>3. k \in Nat
  BY <1>2, FS_CardinalityType
<1>4. ASSUME NEW i \in S PROVE i <= k
  <2>1. i \in Nat
    OBVIOUS
  <2>2. Cardinality(1..i) = i
    BY <2>1, UpToNumbers
  <2>3. Cardinality(1..i) <= k
    BY <1>2, FS_Subset
  <2> QED
    BY <2>2, <2>3
<1>5. S \subseteq 1..k
  BY <1>3, <1>4
<1>6. IsFiniteSet(1..k) /\ Cardinality(1..k) = k
  BY <1>3, UpToNumbers
<1>7. S = 1..k
  BY <1>5, <1>6, FS_Subset
<1> QED
  BY <1>2, <1>3, <1>7

LEMMA DepositsFacts ==
    /\ Len(Deposits) \in Nat /\ DOMAIN Deposits = 1..Len(Deposits)
    /\ \A i \in 1..Len(Deposits) : Deposits[i] \in Nat /\ Deposits[i] > Deployment
    /\ \A i, j \in 1..Len(Deposits) : i <= j => Deposits[i] <= Deposits[j]
    /\ Deployment \in Nat
<1>1. Deposits \in Seq(1..MaxBlock) /\ MaxBlock \in Nat
  BY DepositsAssumption
<1>2. Len(Deposits) \in Nat /\ DOMAIN Deposits = 1..Len(Deposits)
         /\ \A i \in 1..Len(Deposits) : Deposits[i] \in Nat
  BY <1>1
<1> QED
  BY <1>2, DepositsAssumption

LEMMA Counted ==
    ASSUME NEW b \in Int
    PROVE  /\ DepositCount(b) \in 0..Len(Deposits)
           /\ \A i \in 1..Len(Deposits) : i <= DepositCount(b) <=> Deposits[i] <= b
<1> DEFINE S == {i \in DOMAIN Deposits : Deposits[i] <= b}
<1>1. S \subseteq 1..Len(Deposits) /\ Len(Deposits) \in Nat
  BY DepositsFacts
<1>2. \A i \in S : 1..i \subseteq S
  BY DepositsFacts
<1> HIDE DEF S
<1>3. /\ Cardinality(S) \in Nat /\ Cardinality(S) <= Len(Deposits)
      /\ S = 1..Cardinality(S)
  BY <1>1, <1>2, NoneLeftOut
<1> QED
  BY <1>1, <1>3, DepositsFacts DEF S, DepositCount

\* The events of the canonical chain.
Canonical == {Event(i) : i \in DOMAIN Deposits}

LEMMA EventFacts ==
    /\ \A i \in 1..Len(Deposits) :
          /\ Event(i) \in Canonical
          /\ Event(i).count = i - 1 /\ Event(i).block = Deposits[i] /\ ~Event(i).stale
    /\ \A e \in Canonical : /\ e.count \in Nat /\ e.count + 1 \in 1..Len(Deposits)
                            /\ e = Event(e.count + 1)
                            /\ e.block \in Nat /\ e.block = Deposits[e.count + 1]
    /\ Canonical \subseteq Events
<1>1. \A i \in 1..Len(Deposits) :
         Event(i).count = i - 1 /\ Event(i).block = Deposits[i] /\ ~Event(i).stale
  BY DEF Event
<1>2. \A i \in 1..Len(Deposits) : Event(i) \in Canonical
  BY DepositsFacts DEF Canonical
<1>3. ASSUME NEW e \in Canonical
      PROVE  /\ e.count \in Nat /\ e.count + 1 \in 1..Len(Deposits)
             /\ e = Event(e.count + 1)
             /\ e.block \in Nat /\ e.block = Deposits[e.count + 1]
  <2>1. PICK i \in 1..Len(Deposits) : e = Event(i)
    BY DepositsFacts DEF Canonical
  <2>2. e.count = i - 1 /\ e.block = Deposits[i] /\ i \in Nat /\ i >= 1
    BY <1>1, <2>1, DepositsFacts
  <2>3. e.count + 1 = i /\ e.count \in Nat
    BY <2>2
  <2> QED
    BY <2>1, <2>2, <2>3, DepositsFacts
<1>4. Canonical \subseteq Events
  BY DEF Canonical, Events
<1> QED
  BY <1>1, <1>2, <1>3, <1>4

\* The events of a range: those between two counts.
LEMMA EventsOfFacts ==
    ASSUME NEW a \in Int, NEW b \in Int, a - 1 <= b
    PROVE  /\ EventsOf(a, b) \in Seq(Canonical)
           /\ DepositCount(a - 1) <= DepositCount(b)
           /\ Len(EventsOf(a, b)) = DepositCount(b) - DepositCount(a - 1)
           /\ \A j \in 1..Len(EventsOf(a, b)) :
                 EventsOf(a, b)[j] = Event(DepositCount(a - 1) + j)
<1> DEFINE m == DepositCount(a - 1)
           n == DepositCount(b)
<1>0. a - 1 \in Int
  OBVIOUS
<1>1. m \in 0..Len(Deposits) /\ n \in 0..Len(Deposits)
         /\ (\A i \in 1..Len(Deposits) : i <= m <=> Deposits[i] <= a - 1)
         /\ (\A i \in 1..Len(Deposits) : i <= n <=> Deposits[i] <= b)
  BY <1>0, Counted
<1>2. m <= n
  <2> SUFFICES ASSUME m >= 1 PROVE m <= n
    BY <1>1, DepositsFacts
  <2>1. m \in 1..Len(Deposits)
    BY <1>1, DepositsFacts
  <2>2. Deposits[m] <= a - 1 /\ Deposits[m] \in Nat
    BY <1>1, <2>1, DepositsFacts
  <2> HIDE DEF m, n
  <2> QED
    BY <1>1, <2>1, <2>2
<1>3. EventsOf(a, b) = [i \in 1..n - m |-> Event(m + i)]
  BY DEF EventsOf
<1> HIDE DEF m, n
<1>4. n - m \in Nat /\ \A i \in 1..n - m : m + i \in 1..Len(Deposits)
  BY <1>1, <1>2, DepositsFacts
<1>5. \A i \in 1..n - m : Event(m + i) \in Canonical
  BY <1>4, EventFacts
<1> DEFINE s == [i \in 1..n - m |-> Event(m + i)]
<1>6. s \in Seq(Canonical) /\ Len(s) = n - m /\ \A i \in 1..n - m : s[i] = Event(m + i)
  BY <1>4, <1>5
<1> HIDE DEF s
<1>7. EventsOf(a, b) = s
  BY <1>3 DEF s
<1> QED
  BY <1>2, <1>6, <1>7 DEF m, n

\* ... and these are the events whose blocks are in the range.
LEMMA EventsInRange ==
    ASSUME NEW a \in Int, NEW b \in Int, a - 1 <= b
    PROVE  /\ \A i \in 1..Len(Deposits) :
                 Event(i) \in Range(EventsOf(a, b)) <=> a <= Deposits[i] /\ Deposits[i] <= b
           /\ Range(EventsOf(a, b)) \subseteq Canonical
<1> DEFINE m == DepositCount(a - 1)
           n == DepositCount(b)
           s == EventsOf(a, b)
<1>0. a - 1 \in Int
  OBVIOUS
<1>1. m \in 0..Len(Deposits) /\ n \in 0..Len(Deposits)
         /\ (\A i \in 1..Len(Deposits) : i <= m <=> Deposits[i] <= a - 1)
         /\ (\A i \in 1..Len(Deposits) : i <= n <=> Deposits[i] <= b)
  BY <1>0, Counted
<1>2. /\ s \in Seq(Canonical) /\ Len(s) = n - m
      /\ \A j \in 1..n - m : s[j] = Event(m + j)
  BY EventsOfFacts
<1> HIDE DEF m, n, s
<1>3. DOMAIN s = 1..n - m
  BY <1>2
<1>4. Range(s) \subseteq Canonical
  BY <1>2 DEF Range
<1>5. ASSUME NEW i \in 1..Len(Deposits)
      PROVE  Event(i) \in Range(s) <=> a <= Deposits[i] /\ Deposits[i] <= b
  <2>1. Event(i) \in Range(s) <=> \E j \in 1..n - m : Event(i) = Event(m + j)
    BY <1>2, <1>3 DEF Range
  <2>2. \A j \in 1..n - m : m + j \in 1..Len(Deposits)
    BY <1>1, DepositsFacts
  <2>3. \A k \in 1..Len(Deposits) : Event(i) = Event(k) => i = k
    <3> SUFFICES ASSUME NEW k \in 1..Len(Deposits), Event(i) = Event(k) PROVE i = k
      OBVIOUS
    <3>1. i - 1 = k - 1
      BY EventFacts
    <3> QED
      BY <3>1, DepositsFacts
  <2>4. (\E j \in 1..n - m : Event(i) = Event(m + j)) <=> (m < i /\ i <= n)
    <3>1. ASSUME m < i, i <= n PROVE i - m \in 1..n - m /\ m + (i - m) = i
      BY <1>1, <3>1, DepositsFacts
    <3>2. ASSUME NEW j \in 1..n - m, Event(i) = Event(m + j) PROVE m < i /\ i <= n
      <4>1. i = m + j
        BY <2>2, <2>3, <3>2
      <4> QED
        BY <1>1, <4>1
    <3>3. ASSUME m < i, i <= n PROVE \E j \in 1..n - m : Event(i) = Event(m + j)
      BY <3>1, <3>3
    <3> QED
      BY <3>2, <3>3
  <2>5. (m < i /\ i <= n) <=> (a <= Deposits[i] /\ Deposits[i] <= b)
    BY <1>1, DepositsFacts
  <2> QED
    BY <2>1, <2>4, <2>5
<1> QED
  BY <1>4, <1>5 DEF s

-----------------------------------------------------------------------------
(* What providers answer                                                    *)

\* Canonical events, block by block, of blocks that were final at b.
Whole(events) ==
    \A e \in events, i \in DOMAIN Deposits :
        Deposits[i] = e.block => Event(i) \in events
Sound(events, b) ==
    /\ events \subseteq Canonical
    /\ Whole(events)
    /\ \A e \in events : e.block <= b

Sorted(s) == \A i, j \in DOMAIN s : i < j => s[i].count < s[j].count

LEMMA SoundRange ==
    ASSUME NEW a \in Int, NEW b \in Int, a - 1 <= b
    PROVE  Sound(Range(EventsOf(a, b)), b)
<1> DEFINE R == Range(EventsOf(a, b))
<1>1. /\ \A i \in 1..Len(Deposits) :
            Event(i) \in R <=> a <= Deposits[i] /\ Deposits[i] <= b
      /\ R \subseteq Canonical
  BY EventsInRange
<1> HIDE DEF R
<1>2. \A e \in R : \E i \in 1..Len(Deposits) :
         e = Event(i) /\ a <= e.block /\ e.block <= b
  BY <1>1, EventFacts
<1>3. Whole(R)
  BY <1>1, <1>2, DepositsFacts DEF Whole
<1> QED
  BY <1>1, <1>2, <1>3 DEF Sound, R

\* The events of two ranges with a gap between them.
LEMMA TwoRanges ==
    ASSUME NEW a \in Int, NEW y \in Int, NEW b \in Int, a <= y, y <= b
    PROVE  LET s == EventsOf(a, y - 1) \o EventsOf(y + 1, b)
           IN  s \in Seq(Canonical) /\ Sound(Range(s), b) /\ Sorted(s)
<1> DEFINE s1 == EventsOf(a, y - 1)
           s2 == EventsOf(y + 1, b)
           s  == s1 \o s2
           m  == DepositCount(a - 1)
           k  == DepositCount(y - 1)
           n  == DepositCount(y)
<1>0. y - 1 \in Int /\ y + 1 \in Int /\ a - 1 <= y - 1 /\ (y + 1) - 1 = y
  OBVIOUS
<1>1. /\ s1 \in Seq(Canonical) /\ m <= k
      /\ Len(s1) = k - m
      /\ \A j \in 1..Len(s1) : s1[j] = Event(m + j)
  BY <1>0, EventsOfFacts
<1>2. /\ s2 \in Seq(Canonical)
      /\ n <= DepositCount(b) /\ Len(s2) = DepositCount(b) - n
      /\ \A j \in 1..Len(s2) : s2[j] = Event(n + j)
  BY <1>0, EventsOfFacts
<1>3. m \in Nat /\ k \in Nat /\ n \in Nat /\ DepositCount(b) \in Nat
         /\ DepositCount(b) <= Len(Deposits) /\ k <= n
  <2>1. a - 1 \in Int
    OBVIOUS
  <2>2. k <= n
    <3>1. k \in 0..Len(Deposits) /\ n \in 0..Len(Deposits)
      BY <1>0, Counted
    <3>2. \A i \in 1..Len(Deposits) : (i <= k <=> Deposits[i] <= y - 1)
                                      /\ (i <= n <=> Deposits[i] <= y)
      BY <1>0, Counted
    <3> HIDE DEF k, n
    <3>3. k \in 1..Len(Deposits) => k <= n
      BY <3>1, <3>2, DepositsFacts
    <3> QED
      BY <3>1, <3>3, DepositsFacts
  <2>3. m \in 0..Len(Deposits) /\ k \in 0..Len(Deposits) /\ n \in 0..Len(Deposits)
           /\ DepositCount(b) \in 0..Len(Deposits)
    BY <2>1, <1>0, Counted
  <2> QED
    BY <2>2, <2>3, DepositsFacts
<1>4. Sound(Range(s1), y - 1) /\ Sound(Range(s2), b)
  BY <1>0, SoundRange
<1> HIDE DEF s1, s2, s, m, k, n
<1>5. /\ s \in Seq(Canonical) /\ Len(s) = Len(s1) + Len(s2)
      /\ \A i \in 1..Len(s1) + Len(s2) :
            s[i] = IF i <= Len(s1) THEN s1[i] ELSE s2[i - Len(s1)]
  BY <1>1, <1>2, ConcatProperties DEF s
<1>6. Len(s1) \in Nat /\ Len(s2) \in Nat /\ DOMAIN s = 1..Len(s1) + Len(s2)
         /\ DOMAIN s1 = 1..Len(s1) /\ DOMAIN s2 = 1..Len(s2)
  BY <1>1, <1>2, <1>5, LenProperties
<1>7. Range(s) = Range(s1) \cup Range(s2)
  <2>1. ASSUME NEW i \in 1..Len(s1) PROVE i \in DOMAIN s /\ s[i] = s1[i]
    BY <1>5, <1>6
  <2>2. ASSUME NEW i \in 1..Len(s2) PROVE Len(s1) + i \in DOMAIN s /\ s[Len(s1) + i] = s2[i]
    BY <1>5, <1>6
  <2>3. ASSUME NEW i \in DOMAIN s PROVE s[i] \in Range(s1) \cup Range(s2)
    <3>1. i \in 1..Len(s1) \/ i - Len(s1) \in 1..Len(s2)
      BY <1>6
    <3> QED
      BY <1>5, <1>6, <3>1 DEF Range
  <2> QED
    BY <1>6, <2>1, <2>2, <2>3 DEF Range
<1>8. Sound(Range(s), b)
  <2>1. \A e \in Range(s1) : e.block <= b
    <3>1. \A e \in Range(s1) : e.block \in Nat /\ e.block <= y - 1
      BY <1>4, EventFacts DEF Sound
    <3> QED
      BY <3>1
  <2> QED
    BY <1>4, <1>7, <2>1 DEF Sound, Whole
<1>9. Sorted(s)
  <2>1. \A i \in 1..Len(s1) : m + i \in 1..Len(Deposits) /\ s1[i].count = m + i - 1
    <3> SUFFICES ASSUME NEW i \in 1..Len(s1)
                 PROVE  m + i \in 1..Len(Deposits) /\ s1[i].count = m + i - 1
      OBVIOUS
    <3>1. m + i \in 1..Len(Deposits)
      BY <1>1, <1>2, <1>3, DepositsFacts
    <3>2. s1[i] = Event(m + i)
      BY <1>1
    <3>3. Event(m + i).count = (m + i) - 1
      BY <3>1, EventFacts
    <3> QED
      BY <1>3, <3>1, <3>2, <3>3
  <2>2. \A i \in 1..Len(s2) : n + i \in 1..Len(Deposits) /\ s2[i].count = n + i - 1
    <3> SUFFICES ASSUME NEW i \in 1..Len(s2)
                 PROVE  n + i \in 1..Len(Deposits) /\ s2[i].count = n + i - 1
      OBVIOUS
    <3>1. n + i \in 1..Len(Deposits)
      BY <1>2, <1>3, DepositsFacts
    <3>2. s2[i] = Event(n + i)
      BY <1>2
    <3>3. Event(n + i).count = (n + i) - 1
      BY <3>1, EventFacts
    <3> QED
      BY <1>3, <3>1, <3>2, <3>3
  <2> SUFFICES ASSUME NEW i \in DOMAIN s, NEW j \in DOMAIN s, i < j
               PROVE  s[i].count < s[j].count
    BY DEF Sorted
  <2>3. i \in 1..Len(s1) + Len(s2) /\ j \in 1..Len(s1) + Len(s2)
    BY <1>6
  <2>4. CASE i <= Len(s1) /\ j <= Len(s1)
    <3>1. s[i].count = m + i - 1 /\ s[j].count = m + j - 1
      BY <1>5, <1>6, <2>1, <2>3, <2>4
    <3> QED
      BY <1>3, <2>3, <3>1
  <2>5. CASE i <= Len(s1) /\ ~(j <= Len(s1))
    <3>1. s[i].count = m + i - 1
      BY <1>5, <1>6, <2>1, <2>3, <2>5
    <3>2. j - Len(s1) \in 1..Len(s2) /\ s[j] = s2[j - Len(s1)]
      BY <1>5, <1>6, <2>3, <2>5
    <3>3. s[j].count = n + (j - Len(s1)) - 1
      BY <2>2, <3>2
    <3>4. m + i <= k /\ j - Len(s1) >= 1
      BY <1>1, <1>3, <1>6, <2>3, <2>5
    <3> QED
      BY <1>3, <1>6, <2>3, <3>1, <3>3, <3>4
  <2>6. CASE ~(i <= Len(s1))
    <3>1. i - Len(s1) \in 1..Len(s2) /\ s[i] = s2[i - Len(s1)]
      BY <1>5, <1>6, <2>3, <2>6
    <3>2. j - Len(s1) \in 1..Len(s2) /\ s[j] = s2[j - Len(s1)]
      BY <1>5, <1>6, <2>3, <2>6
    <3>3. s[i].count = n + (i - Len(s1)) - 1 /\ s[j].count = n + (j - Len(s1)) - 1
      BY <2>2, <3>1, <3>2
    <3> QED
      BY <1>3, <1>6, <2>3, <3>3
  <2> QED
    BY <2>4, <2>5, <2>6
<1> QED
  BY <1>5, <1>8, <1>9 DEF s, s1, s2

LEMMA RangeIsSorted ==
    ASSUME NEW a \in Int, NEW b \in Int, a - 1 <= b
    PROVE  Sorted(EventsOf(a, b))
<1> DEFINE s == EventsOf(a, b)
           m == DepositCount(a - 1)
<1>0. a - 1 \in Int
  OBVIOUS
<1>1. /\ s \in Seq(Canonical)
      /\ Len(s) = DepositCount(b) - m
      /\ \A j \in 1..Len(s) : s[j] = Event(m + j)
  BY EventsOfFacts
<1>2. m \in Nat /\ DepositCount(b) \in Nat /\ DepositCount(b) <= Len(Deposits)
  BY <1>0, Counted, DepositsFacts
<1> HIDE DEF s, m
<1>3. \A i \in 1..Len(s) : s[i].count = m + i - 1
  <2> SUFFICES ASSUME NEW i \in 1..Len(s) PROVE s[i].count = m + i - 1
    OBVIOUS
  <2>1. m + i \in 1..Len(Deposits)
    BY <1>1, <1>2, DepositsFacts
  <2>2. Event(m + i).count = (m + i) - 1
    BY <2>1, EventFacts
  <2> QED
    BY <1>1, <1>2, <2>2
<1>4. DOMAIN s = 1..Len(s)
  BY <1>1
<1>5. \A i, j \in DOMAIN s : i < j => s[i].count < s[j].count
  BY <1>2, <1>3, <1>4
<1> QED
  BY <1>5 DEF Sorted, s

\* What a provider answers is typed; it is the truth unless it counts as a
\* fault, and a range of final blocks has whole canonical blocks in any case.
LEMMA AnswerFacts ==
    ASSUME TypeOK, NEW a \in Nat, NEW b \in Nat, a - 1 <= b, NEW x \in Answers(a, b)
    PROVE  /\ x.events \in Seq(Events)
           /\ x.fault \in {0, 1}
           /\ x.fault = 0 => x.events = EventsOf(a, b)
           /\ b <= finalized => Sound(Range(x.events), b) /\ Sorted(x.events)
<1> DEFINE truth == EventsOf(a, b)
           blocks == {truth[i].block : i \in DOMAIN truth}
<1>1. truth \in Seq(Canonical) /\ Sound(Range(truth), b) /\ Sorted(truth)
  BY EventsOfFacts, SoundRange, RangeIsSorted
<1>2. \A y \in blocks : y \in Nat /\ a <= y /\ y <= b
  <2> SUFFICES ASSUME NEW i \in DOMAIN truth
               PROVE  truth[i].block \in Nat /\ a <= truth[i].block /\ truth[i].block <= b
    OBVIOUS
  <2>1. truth[i] \in Range(truth)
    BY DEF Range
  <2>2. truth[i] \in Canonical
    BY <1>1, <2>1 DEF Sound
  <2>3. PICK j \in 1..Len(Deposits) : truth[i] = Event(j)
    BY <2>2, DepositsFacts DEF Canonical
  <2>4. a <= Deposits[j] /\ Deposits[j] <= b
    BY <2>1, <2>3, EventsInRange
  <2> QED
    BY <2>3, <2>4, EventFacts, DepositsFacts
<1>3. Seq(Canonical) \subseteq Seq(Events)
  BY EventFacts
<1> HIDE DEF truth, blocks
<1>4. CASE x = [events |-> truth, fault |-> 0]
  BY <1>1, <1>3, <1>4 DEF truth
<1>5. CASE \E y \in blocks :
              x = [events |-> EventsOf(a, y - 1) \o EventsOf(y + 1, b), fault |-> 1]
  <2>1. PICK y \in blocks :
           x = [events |-> EventsOf(a, y - 1) \o EventsOf(y + 1, b), fault |-> 1]
    BY <1>5
  <2>2. y \in Int /\ a \in Int /\ b \in Int /\ a <= y /\ y <= b
    BY <1>2
  <2> DEFINE s == EventsOf(a, y - 1) \o EventsOf(y + 1, b)
  <2>3. s \in Seq(Canonical) /\ Sound(Range(s), b) /\ Sorted(s)
    BY <2>2, TwoRanges
  <2>4. x.events = s /\ x.fault = 1
    BY <2>1
  <2> HIDE DEF s
  <2> QED
    BY <1>3, <2>3, <2>4
<1>6. CASE \E y \in {z \in blocks : z > finalized} :
              x = [events |-> [i \in DOMAIN truth |-> IF truth[i].block = y
                                                      THEN Stale(truth[i]) ELSE truth[i]],
                   fault |-> 1]
  <2>1. PICK y \in {z \in blocks : z > finalized} :
           x = [events |-> [i \in DOMAIN truth |-> IF truth[i].block = y
                                                   THEN Stale(truth[i]) ELSE truth[i]],
                fault |-> 1]
    BY <1>6
  <2>2. ~(b <= finalized)
    <3>1. finalized \in Int
      BY DepositsAssumption DEF finalized, Larger, TypeOK
    <3> QED
      BY <1>2, <2>1, <3>1
  <2>3. \A i \in DOMAIN truth :
           (IF truth[i].block = y THEN Stale(truth[i]) ELSE truth[i]) \in Events
    <3>1. \A e \in Canonical : e \in Events /\ Stale(e) \in Events
      BY DEF Events, Canonical
    <3>2. \A i \in DOMAIN truth : truth[i] \in Canonical
      BY <1>1
    <3> QED
      BY <3>1, <3>2
  <2>4. x.events \in Seq(Events)
    <3>1. DOMAIN truth = 1..Len(truth) /\ Len(truth) \in Nat
      BY <1>1
    <3> DEFINE f == [i \in DOMAIN truth |-> IF truth[i].block = y THEN Stale(truth[i])
                                            ELSE truth[i]]
    <3>2. f \in [1..Len(truth) -> Events]
      BY <2>3, <3>1
    <3> HIDE DEF f
    <3>3. f \in Seq(Events)
      BY <3>1, <3>2
    <3> QED
      BY <2>1, <3>3 DEF f
  <2> QED
    BY <2>1, <2>2, <2>4
<1>7. \/ x = [events |-> truth, fault |-> 0]
      \/ \E y \in blocks :
            x = [events |-> EventsOf(a, y - 1) \o EventsOf(y + 1, b), fault |-> 1]
      \/ \E y \in {z \in blocks : z > finalized} :
            x = [events |-> [i \in DOMAIN truth |-> IF truth[i].block = y
                                                    THEN Stale(truth[i]) ELSE truth[i]],
                 fault |-> 1]
  BY DEF Answers, truth, blocks
<1> QED
  BY <1>4, <1>5, <1>6, <1>7

-----------------------------------------------------------------------------
(* The beginning of the chain, and what Boot keeps of the records           *)

\* The first events of the chain.
OnChain(s) == s \in Seq(Canonical) /\ \A i \in 1..Len(s) : s[i] = Event(i)

LEMMA OnChainFacts ==
    /\ \A s : OnChain(s) => /\ Len(s) \in Nat /\ Len(s) <= Len(Deposits)
                            /\ s \in Seq(Canonical) /\ s \in Seq(Events)
    /\ \A s, u : (OnChain(s) /\ OnChain(u) /\ Len(s) = Len(u)) => s = u
    /\ OnChain(<<>>)
<1>1. ASSUME NEW s, OnChain(s)
      PROVE  /\ Len(s) \in Nat /\ Len(s) <= Len(Deposits)
             /\ s \in Seq(Canonical) /\ s \in Seq(Events)
  <2>1. s \in Seq(Canonical) /\ Len(s) \in Nat
    BY <1>1 DEF OnChain
  <2>2. s \in Seq(Events)
    BY <2>1, EventFacts
  <2>3. CASE Len(s) >= 1
    <3> DEFINE n == Len(s)
    <3>1. n \in 1..Len(s)
      BY <2>1, <2>3
    <3>2. s[n] = Event(n) /\ s[n] \in Canonical
      BY <1>1, <2>1, <3>1, ElementOfSeq DEF OnChain
    <3>3. PICK j \in 1..Len(Deposits) : Event(n) = Event(j)
      BY <3>2, DepositsFacts DEF Canonical
    <3>4. n - 1 = j - 1
      BY <3>3 DEF Event
    <3> QED
      BY <2>1, <2>2, <3>4, DepositsFacts
  <2> QED
    BY <2>1, <2>2, <2>3, DepositsFacts
<1>2. ASSUME NEW s, NEW u, OnChain(s), OnChain(u), Len(s) = Len(u) PROVE s = u
  <2>1. \A i \in 1..Len(s) : s[i] = u[i]
    BY <1>2 DEF OnChain
  <2>2. s \in Seq(Canonical) /\ u \in Seq(Canonical)
    BY <1>2 DEF OnChain
  <2> QED
    BY <1>2, <2>1, <2>2, SeqEqual
<1>3. OnChain(<<>>)
  BY DEF OnChain
<1> QED
  BY <1>1, <1>2, <1>3

\* The contract's tree at a block.
LEMMA TruthOnChain ==
    ASSUME NEW b \in Nat
    PROVE  OnChain(TrueUpTo(b)) /\ Len(TrueUpTo(b)) = DepositCount(b)
<1>1. 0 \in Int /\ b \in Int /\ 0 - 1 <= b /\ 0 - 1 \in Int
  OBVIOUS
<1>2. DepositCount(0 - 1) = 0
  <2>1. DepositCount(0 - 1) \in 0..Len(Deposits)
           /\ \A i \in 1..Len(Deposits) : i <= DepositCount(0 - 1) <=> Deposits[i] <= 0 - 1
    BY <1>1, Counted
  <2>2. \A i \in 1..Len(Deposits) : ~(Deposits[i] <= 0 - 1)
    BY DepositsFacts
  <2>3. \A i \in 1..Len(Deposits) : ~(i <= DepositCount(0 - 1))
    BY <2>1, <2>2
  <2> QED
    BY <2>1, <2>3, DepositsFacts
<1>3. /\ TrueUpTo(b) \in Seq(Canonical)
      /\ Len(TrueUpTo(b)) = DepositCount(b) - DepositCount(0 - 1)
      /\ \A j \in 1..Len(TrueUpTo(b)) : TrueUpTo(b)[j] = Event(DepositCount(0 - 1) + j)
  BY <1>1, EventsOfFacts DEF TrueUpTo
<1>4. DepositCount(b) \in Nat
  BY <1>1, Counted, DepositsFacts
<1>5. \A j \in 1..Len(TrueUpTo(b)) : 0 + j = j
  BY <1>3, <1>4
<1> QED
  BY <1>2, <1>3, <1>4, <1>5 DEF OnChain

\* An event is the last one of its block, which was final at b.
Closing(e, b) ==
    /\ e \in Canonical
    /\ e.block <= b
    /\ \A i \in 1..Len(Deposits) : Deposits[i] = e.block => i - 1 <= e.count

LEMMA LastCloses ==
    ASSUME NEW s \in Seq(Canonical), s # <<>>, NEW b, Sound(Range(s), b), Sorted(s)
    PROVE  Closing(Last(s), b) /\ Last(s) \in Range(s)
<1>1. Len(s) \in Nat \ {0} /\ DOMAIN s = 1..Len(s)
  BY EmptySeq, LenProperties
<1>2. Last(s) = s[Len(s)] /\ Len(s) \in DOMAIN s
  BY <1>1 DEF Last
<1>3. Last(s) \in Range(s)
  BY <1>2 DEF Range
<1>4. ASSUME NEW i \in 1..Len(Deposits), Deposits[i] = Last(s).block
      PROVE  i - 1 <= Last(s).count
  <2>1. Event(i) \in Range(s)
    BY <1>3, <1>4, DepositsFacts DEF Sound, Whole
  <2>2. PICK j \in DOMAIN s : s[j] = Event(i)
    BY <2>1 DEF Range
  <2>3. s[j].count = i - 1
    BY <2>2, EventFacts
  <2>4. j = Len(s) \/ j < Len(s)
    BY <1>1
  <2>5. j < Len(s) => s[j].count < Last(s).count
    BY <1>2, <2>2 DEF Sorted
  <2>6. Last(s).count \in Nat
    BY <1>3, EventFacts DEF Sound
  <2> QED
    BY <1>2, <2>3, <2>4, <2>5, <2>6, DepositsFacts
<1> QED
  BY <1>3, <1>4 DEF Closing, Sound

\* What Boot keeps of sound records is the beginning of the chain, up to the
\* last event of some block.
LEMMA KeptFacts ==
    ASSUME NEW S, NEW b, Sound(S, b), NEW kept, kept = InOrder(Consistent(S))
    PROVE  /\ OnChain(kept)
           /\ Range(kept) = Consistent(S)
           /\ Sound(Range(kept), b)
           /\ kept # <<>> => Closing(Last(kept), b) /\ Last(kept) \in Range(kept)
           /\ \A i \in 1..Len(Deposits) :
                 (kept # <<>> /\ Deposits[i] <= Last(kept).block)
                    => i <= Len(kept) /\ Event(i) \in Range(kept)
<1> DEFINE c == Consistent(S)
           C == {e.count + 1 : e \in c}
           n == Cardinality(C)
<1>1. c \subseteq S /\ S \subseteq Canonical /\ Whole(S) /\ \A e \in S : e.block <= b
  BY DEF Consistent, Sound
<1>2. ASSUME NEW e \in c, NEW i \in 1..e.count + 1 PROVE Event(i) \in S
  <2>0. e.count \in Nat
    BY <1>1, EventFacts
  <2>1. i - 1 \in 0..e.count
    BY <2>0
  <2>2. PICK f \in S : f.count = i - 1
    BY <2>1 DEF Consistent
  <2>3. f = Event((i - 1) + 1)
    BY <1>1, <2>2, EventFacts
  <2>4. (i - 1) + 1 = i
    BY <2>0
  <2> QED
    BY <2>3, <2>4
<1>3. ASSUME NEW i \in 1..Len(Deposits), \A j \in 1..i : Event(j) \in S
      PROVE  Event(i) \in c
  <2>1. ASSUME NEW m \in 0..Event(i).count PROVE \E f \in S : f.count = m
    <3>1. m + 1 \in 1..i /\ m + 1 \in 1..Len(Deposits) /\ m \in Nat
      BY EventFacts, DepositsFacts
    <3>2. Event(m + 1) \in S /\ Event(m + 1).count = (m + 1) - 1
      BY <1>3, <3>1, EventFacts
    <3>3. (m + 1) - 1 = m
      BY <3>1
    <3> QED
      BY <3>2, <3>3
  <2>2. Event(i) \in S
    BY <1>3, DepositsFacts
  <2> QED
    BY <2>1, <2>2 DEF Consistent
<1>4. ASSUME NEW i \in C
      PROVE  /\ i \in 1..Len(Deposits) /\ Event(i) \in c /\ 1..i \subseteq C
             /\ \A e \in c : e.count = i - 1 => e = Event(i)
  <2>1. PICK e \in c : i = e.count + 1
    OBVIOUS
  <2>2. e.count \in Nat /\ e.count + 1 \in 1..Len(Deposits) /\ e = Event(e.count + 1)
    BY <1>1, EventFacts
  <2>3. ASSUME NEW j \in 1..i PROVE j \in C
    <3>1. j \in 1..Len(Deposits) /\ \A k \in 1..j : k \in 1..e.count + 1
      BY <2>1, <2>2, DepositsFacts
    <3>2. Event(j) \in c
      BY <1>2, <1>3, <3>1
    <3>3. Event(j).count + 1 = j
      BY <3>1, EventFacts, DepositsFacts
    <3> QED
      BY <3>2, <3>3
  <2>4. ASSUME NEW f \in c, f.count = i - 1 PROVE f = Event(i)
    <3>1. f = Event(f.count + 1)
      BY <1>1, EventFacts
    <3> QED
      BY <2>1, <2>2, <2>4, <3>1
  <2> QED
    BY <2>1, <2>2, <2>3, <2>4
<1>5. n \in Nat /\ n <= Len(Deposits) /\ C = 1..n
  BY <1>4, NoneLeftOut, DepositsFacts
<1>6. kept = [i \in C |-> CHOOSE e \in c : e.count = i - 1]
  BY DEF InOrder
<1> HIDE DEF c, C, n
<1>7. ASSUME NEW i \in C PROVE (CHOOSE e \in c : e.count = i - 1) = Event(i)
  <2>1. Event(i) \in c /\ Event(i).count = i - 1
    BY <1>4, EventFacts
  <2>2. \A e \in c : e.count = i - 1 => e = Event(i)
    BY <1>4
  <2> QED
    BY <2>1, <2>2
<1>8. OnChain(kept) /\ Len(kept) = n /\ DOMAIN kept = 1..n
  <2> DEFINE s == [i \in 1..n |-> Event(i)]
  <2>1. kept = s
    BY <1>5, <1>6, <1>7
  <2>2. \A i \in 1..n : Event(i) \in Canonical
    BY <1>5, EventFacts, DepositsFacts
  <2>3. s \in Seq(Canonical) /\ Len(s) = n /\ (\A i \in 1..n : s[i] = Event(i))
           /\ DOMAIN s = 1..n
    BY <1>5, <2>2
  <2> HIDE DEF s
  <2> QED
    BY <2>1, <2>3 DEF OnChain
<1>9. Range(kept) = c
  <2>1. ASSUME NEW i \in 1..n PROVE kept[i] \in c
    BY <1>4, <1>5, <1>8 DEF OnChain
  <2>2. ASSUME NEW e \in c PROVE e.count + 1 \in 1..n /\ kept[e.count + 1] = e
    <3>1. e.count + 1 \in 1..n
      BY <1>5 DEF C
    <3>2. e = Event(e.count + 1)
      BY <1>1, EventFacts
    <3> QED
      BY <1>8, <3>1, <3>2 DEF OnChain
  <2> QED
    BY <1>8, <2>1, <2>2 DEF Range
<1>10. Whole(c)
  <2> SUFFICES ASSUME NEW e \in c, NEW i \in 1..Len(Deposits), Deposits[i] = e.block
               PROVE  Event(i) \in c
    BY DepositsFacts DEF Whole
  <2>1. /\ e.count \in Nat /\ e.count + 1 \in 1..Len(Deposits)
        /\ e.block = Deposits[e.count + 1]
    BY <1>1, EventFacts
  <2>2. ASSUME NEW j \in 1..i PROVE Event(j) \in S
    <3>1. CASE j <= e.count + 1
      BY <1>2, <2>1, <3>1
    <3>2. CASE ~(j <= e.count + 1)
      <4>1. j \in 1..Len(Deposits)
        BY DepositsFacts
      <4>2. Deposits[j] <= Deposits[i] /\ Deposits[e.count + 1] <= Deposits[j]
        BY <2>1, <3>2, <4>1, DepositsFacts
      <4>3. Deposits[j] = e.block
        BY <2>1, <4>1, <4>2, DepositsFacts
      <4> QED
        BY <1>1, <4>1, <4>3, DepositsFacts DEF Whole
    <3> QED
      BY <3>1, <3>2
  <2> QED
    BY <1>3, <2>2
<1>11. Sound(Range(kept), b)
  BY <1>1, <1>9, <1>10 DEF Sound
<1>12. Sorted(kept)
  <2>1. \A i \in 1..n : kept[i].count = i - 1
    BY <1>5, <1>8, EventFacts, DepositsFacts DEF OnChain
  <2> QED
    BY <1>5, <1>8, <2>1 DEF Sorted
<1>13. kept # <<>> => Closing(Last(kept), b) /\ Last(kept) \in Range(kept)
  BY <1>8, <1>11, <1>12, LastCloses DEF OnChain
<1>14. ASSUME NEW i \in 1..Len(Deposits), kept # <<>>, Deposits[i] <= Last(kept).block
       PROVE  i <= Len(kept) /\ Event(i) \in Range(kept)
  <2>1. n >= 1
    BY <1>5, <1>8, <1>14 DEF OnChain
  <2>2. n \in 1..Len(Deposits) /\ Last(kept) = Event(n)
    BY <1>5, <1>8, <2>1, DepositsFacts DEF OnChain, Last
  <2>3. Last(kept).block = Deposits[n] /\ Last(kept).count = n - 1
    BY <2>2, EventFacts
  <2>4. i <= n
    <3> SUFFICES ASSUME ~(i <= n) PROVE FALSE
      OBVIOUS
    <3>1. Deposits[n] <= Deposits[i] /\ Deposits[i] <= Deposits[n]
      BY <1>14, <2>2, <2>3, DepositsFacts
    <3>2. Deposits[i] = Last(kept).block
      BY <2>2, <2>3, <3>1, DepositsFacts
    <3>3. i - 1 <= n - 1
      BY <1>13, <1>14, <2>3, <3>2 DEF Closing
    <3> QED
      BY <1>5, <3>3, DepositsFacts
  <2>5. i \in C
    BY <1>5, <2>4, DepositsFacts
  <2> QED
    BY <1>4, <1>8, <1>9, <2>4, <2>5
<1> QED
  BY <1>8, <1>9, <1>11, <1>13, <1>14 DEF c

-----------------------------------------------------------------------------
(* Whatever goes wrong: types, sound records, a tree that is on the chain   *)

Loops == {"fetch", "index", "insert"}

\* What an execution r holds is sound, b being the finalized block.
Steady(r, b) ==
    /\ r.pc \in Loops => r.next <= r.final /\ r.final <= b
    /\ r.pc = "idle" => r = IdleTask
    /\ r.pc \in Loops \cup {"update"} => r.next >= 1
    /\ r.pc \in {"index", "insert"} =>
          r.todo \in Seq(Canonical) /\ Sound(Range(r.todo), b) /\ Sorted(r.todo)
    /\ r.pc = "index" => r.indexed < Len(r.todo)
    /\ r.pc = "insert" => r.indexed = Len(r.todo)
    /\ r.last # None => Closing(r.last, b)
    /\ r.pc = "mark" => r.last # None
    /\ r.pc = "fresh" => r.next >= 1 /\ r.next - 1 <= r.block

DbSound ==
    /\ Sound(db.events, finalized)
    /\ db.lastValid # None => Closing(db.lastValid, finalized)

Base ==
    /\ TypeOK
    /\ DbSound
    /\ OnChain(tree)
    /\ up = "down" => \A t \in Tasks : task[t].pc = "idle"
    /\ \A t \in Tasks : Steady(task[t], finalized)

LEMMA FinalBlocksFacts ==
    /\ FinalBlocks \subseteq Nat
    /\ \A n \in FinalBlocks, k \in Nat : k <= n => k \in FinalBlocks
<1>1. Larger(MaxBlock - Depth, 0) \in Nat
  BY DepositsAssumption DEF Larger
<1> QED
  BY <1>1 DEF FinalBlocks

LEMMA FinalFacts ==
    ASSUME TypeOK
    PROVE  finalized \in FinalBlocks /\ finalized \in Nat /\ FinalBlocks \subseteq Nat
           /\ latest \in Nat /\ finalized <= latest
BY DepositsAssumption DEF TypeOK, FinalBlocks, finalized, Larger

LEMMA IdleFacts ==
    ASSUME NEW b
    PROVE  IdleTask \in TaskType /\ IdleTask.pc = "idle" /\ IdleTask.last = None
           /\ ~IdleTask.live /\ Steady(IdleTask, b)
<1>1. IdleTask \in TaskType
  BY DepositsAssumption DEF IdleTask, TaskType, FinalBlocks, Larger
<1>2. IdleTask.pc = "idle" /\ IdleTask.last = None /\ ~IdleTask.live
  BY DEF IdleTask
<1> QED
  BY <1>1, <1>2 DEF Steady, Loops

\* A later block keeps what is sound.
LEMMA LaterIsSound ==
    ASSUME NEW b \in Nat, NEW d \in Nat, b <= d
    PROVE  /\ \A S : Sound(S, b) => Sound(S, d)
           /\ \A e : Closing(e, b) => Closing(e, d)
           /\ \A r \in TaskType : Steady(r, b) => Steady(r, d)
<1>1. ASSUME NEW S, Sound(S, b) PROVE Sound(S, d)
  <2>1. \A e \in S : e.block \in Nat /\ e.block <= b
    BY <1>1, EventFacts DEF Sound
  <2>2. \A e \in S : e.block <= d
    BY <2>1
  <2> QED
    BY <1>1, <2>2 DEF Sound
<1>2. ASSUME NEW e, Closing(e, b) PROVE Closing(e, d)
  <2>1. e.block \in Nat
    BY <1>2, EventFacts DEF Closing
  <2> QED
    BY <1>2, <2>1 DEF Closing
<1>3. ASSUME NEW r \in TaskType, Steady(r, b) PROVE Steady(r, d)
  <2>1. r.final \in Nat
    BY DepositsAssumption DEF TaskType, FinalBlocks
  <2>2. r.pc \in Loops => r.next <= r.final /\ r.final <= d
    BY <1>3, <2>1 DEF Steady
  <2>3. r.last # None => Closing(r.last, d)
    BY <1>2, <1>3 DEF Steady
  <2>4. r.pc \in {"index", "insert"} => Sound(Range(r.todo), d)
    BY <1>1, <1>3 DEF Steady
  <2> QED
    BY <1>3, <2>2, <2>3, <2>4 DEF Steady
<1> QED
  BY <1>1, <1>2, <1>3

\* A step that changes one execution.
LEMMA OneMoves ==
    ASSUME TypeOK, \A s \in Tasks : Steady(task[s], finalized), NEW t \in Tasks,
           NEW r \in TaskType, task' = [task EXCEPT ![t] = r], latest' = latest,
           Steady(r, finalized)
    PROVE  /\ task' \in [Tasks -> TaskType]
           /\ task'[t] = r
           /\ \A s \in Tasks : s # t => task'[s] = task[s]
           /\ finalized' = finalized
           /\ \A s \in Tasks : Steady(task'[s], finalized')
<1>1. task' \in [Tasks -> TaskType] /\ task'[t] = r
         /\ \A s \in Tasks : s # t => task'[s] = task[s]
  BY DEF TypeOK
<1>2. finalized' = finalized
  BY DEF finalized
<1>3. \A s \in Tasks : Steady(task'[s], finalized)
  BY <1>1
<1> QED
  BY <1>1, <1>2, <1>3

\* An execution q whose update is over, r, has nothing more to do or goes on.
Rests(r, q) ==
    \/ r = IdleTask
    \/ r.pc = "collect" /\ r.last = q.last /\ r.live = q.live /\ r.block = q.block

\* updateEventsCache returns.
LEMMA UpdateDoneDoes ==
    ASSUME TypeOK, NEW t \in Tasks, UpdateDone(t)
    PROVE  \E r \in TaskType :
              task' = [task EXCEPT ![t] = r] /\ up' = "running" /\ Rests(r, task[t])
<1>1. task[t] \in TaskType
  BY DEF TypeOK
<1>2. up' = "running"
         /\ task' = [task EXCEPT ![t] = IF up = "init" THEN IdleTask
                                        ELSE [@ EXCEPT !.pc = "collect"]]
  BY DEF UpdateDone
<1>3. CASE up = "init"
  BY <1>2, <1>3, IdleFacts DEF Rests
<1>4. CASE up # "init"
  <2> DEFINE r == [task[t] EXCEPT !.pc = "collect"]
  <2>1. r \in TaskType /\ r.pc = "collect" /\ r.last = task[t].last /\ r.live = task[t].live
           /\ r.block = task[t].block
    BY <1>1 DEF TaskType
  <2>2. task' = [task EXCEPT ![t] = r]
    BY <1>2, <1>4
  <2> HIDE DEF r
  <2> QED
    BY <1>2, <2>1, <2>2 DEF Rests
<1> QED
  BY <1>3, <1>4

LEMMA ThrowsDoes ==
    ASSUME NEW t \in Tasks, Throws(t)
    PROVE  \/ ProcessEnds
           \/ task' = [task EXCEPT ![t] = IdleTask] /\ up' = up /\ cache' = cache /\ tree' = tree
BY DEF Throws

\* The loop over chunks leads to the next chunk, or to the verification.
LEMMA LoopDoes ==
    ASSUME NEW q \in TaskType, NEW leaves \in Seq(Events), NEW r, r = Loop(q, leaves)
    PROVE  /\ r \in TaskType
           /\ r.next = q.next /\ r.final = q.final /\ r.last = q.last /\ r.start = q.start
           /\ r.live = q.live /\ r.block = q.block
           /\ \/ r.pc = "fetch" /\ q.next <= q.final
              \/ r.pc = "verify" /\ ~(q.next <= q.final)
<1>1. CASE q.next <= q.final
  <2>1. r = [q EXCEPT !.pc = "fetch"]
    BY <1>1 DEF Loop
  <2> QED
    BY <1>1, <2>1 DEF TaskType
<1>2. CASE ~(q.next <= q.final)
  <2>1. r = [q EXCEPT !.pc = "verify", !.root = leaves]
    BY <1>2 DEF Loop
  <2> QED
    BY <1>2, <2>1 DEF TaskType
<1> QED
  BY <1>1, <1>2

-----------------------------------------------------------------------------
(* What each step does to the execution that takes it                       *)

\* The fields of an execution that most steps leave alone.
SameTask(r, q) == r.live = q.live /\ r.block = q.block /\ r.start = q.start

EndOf(r) == Smaller(r.final, r.next + Step - 1)

LEMMA ChunkFacts ==
    ASSUME NEW r \in TaskType, r.next <= r.final
    PROVE  /\ EndOf(r) \in FinalBlocks /\ EndOf(r) \in Nat
           /\ r.next <= EndOf(r) /\ r.next - 1 <= EndOf(r) /\ EndOf(r) <= r.final
           /\ r.next + Step <= r.final => EndOf(r) = r.next + Step - 1
           /\ r.next + Step \in Nat
<1>1. r.next \in Nat /\ r.final \in FinalBlocks /\ Step \in Nat /\ Step >= 1
  BY DepositsAssumption DEF TaskType
<1>2. r.final \in Nat
  BY <1>1, FinalBlocksFacts
<1>3. EndOf(r) = IF r.final <= r.next + Step - 1 THEN r.final ELSE r.next + Step - 1
  BY DEF EndOf, Smaller
<1>4. /\ EndOf(r) \in Nat
      /\ r.next <= EndOf(r) /\ r.next - 1 <= EndOf(r) /\ EndOf(r) <= r.final
      /\ r.next + Step <= r.final => EndOf(r) = r.next + Step - 1
  <2> DEFINE n == r.next
             f == r.final
             d == EndOf(r)
  <2>1. n \in Nat /\ f \in Nat /\ n <= f /\ d = IF f <= n + Step - 1 THEN f ELSE n + Step - 1
    BY <1>1, <1>2, <1>3
  <2> HIDE DEF n, f, d
  <2>2. /\ d \in Nat /\ n <= d /\ n - 1 <= d /\ d <= f
        /\ n + Step <= f => d = n + Step - 1
    BY <1>1, <2>1
  <2> QED
    BY <2>2 DEF n, f, d
<1>5. EndOf(r) \in FinalBlocks
  BY <1>1, <1>4, FinalBlocksFacts
<1>6. r.next + Step \in Nat
  BY <1>1
<1> QED
  BY <1>4, <1>5, <1>6

LEMMA ReadFinalizedDoes ==
    ASSUME Base, NEW t \in Tasks, ReadFinalized(t)
    PROVE  \E r \in TaskType :
              /\ task' = [task EXCEPT ![t] = r]
              /\ \/ up' = "running" /\ Rests(r, task[t])
                 \/ /\ up' = up /\ SameTask(r, task[t])
                    /\ r.next = task[t].next /\ r.last = task[t].last
                    /\ r.final <= finalized
                    /\ \/ r.pc = "fetch" /\ r.next <= r.final
                       \/ r.pc = "verify"
<1>1. task[t] \in TaskType /\ TypeOK
  BY DEF Base, TypeOK
<1>2. PICK f \in {Larger(finalized - 1, 0), finalized} :
         IF f < task[t].next - 1 THEN UpdateDone(t)
         ELSE /\ task' = [task EXCEPT ![t] = Loop([@ EXCEPT !.final = f], tree)]
              /\ UNCHANGED up
  BY DEF ReadFinalized
<1>3. f \in FinalBlocks /\ f <= finalized
  <2>1. finalized \in Nat /\ finalized \in FinalBlocks
    BY <1>1, FinalFacts
  <2>2. f \in Nat /\ f <= finalized
    BY <2>1 DEF Larger
  <2> QED
    BY <2>1, <2>2, FinalBlocksFacts
<1>4. CASE f < task[t].next - 1
  BY <1>1, <1>2, <1>4, UpdateDoneDoes
<1>5. CASE ~(f < task[t].next - 1)
  <2> DEFINE q == [task[t] EXCEPT !.final = f]
             r == Loop(q, tree)
  <2>1. q \in TaskType /\ q.next = task[t].next /\ q.last = task[t].last /\ q.final = f
           /\ q.live = task[t].live /\ q.block = task[t].block /\ q.start = task[t].start
    BY <1>1, <1>3 DEF TaskType
  <2>2. tree \in Seq(Events)
    BY <1>1 DEF TypeOK
  <2>3. task' = [task EXCEPT ![t] = r] /\ up' = up
    BY <1>2, <1>5
  <2> HIDE DEF q
  <2>4. /\ r \in TaskType
        /\ r.next = q.next /\ r.final = q.final /\ r.last = q.last /\ r.start = q.start
        /\ r.live = q.live /\ r.block = q.block
        /\ \/ r.pc = "fetch" /\ q.next <= q.final
           \/ r.pc = "verify" /\ ~(q.next <= q.final)
    BY <2>1, <2>2, LoopDoes
  <2> HIDE DEF r
  <2> QED
    BY <1>3, <2>1, <2>3, <2>4 DEF SameTask
<1> QED
  BY <1>4, <1>5

LEMMA FetchChunkDoes ==
    ASSUME Base, NEW t \in Tasks, FetchChunk(t)
    PROVE  \E a \in Answers(task[t].next, EndOf(task[t])), r \in TaskType :
              /\ FaultsSoFar + a.fault <= MaxFaults /\ drops' = drops + a.fault
              /\ task' = [task EXCEPT ![t] = r]
              /\ SameTask(r, task[t]) /\ r.last = task[t].last
              /\ r.next = task[t].next /\ r.final = task[t].final /\ r.next <= r.final
              /\ r.todo = a.events /\ r.indexed = 0
              /\ r.pc = IF a.events = <<>> THEN "insert" ELSE "index"
<1>1. task[t] \in TaskType /\ TypeOK
  BY DEF Base, TypeOK
<1>2. /\ task[t].pc = "fetch" /\ task[t].next >= 1 /\ task[t].next <= task[t].final
      /\ task[t].next \in Nat
  BY <1>1 DEF Base, FetchChunk, Steady, Loops, TaskType
<1>3. PICK a \in Answers(task[t].next, EndOf(task[t])) :
         /\ FaultsSoFar + a.fault <= MaxFaults /\ drops' = drops + a.fault
         /\ task' = [task EXCEPT ![t].todo = a.events, ![t].indexed = 0,
                        ![t].pc = IF a.events = <<>> THEN "insert" ELSE "index"]
  BY DEF FetchChunk, ChunkEnd, EndOf
<1> DEFINE p == IF a.events = <<>> THEN "insert" ELSE "index"
           r == [task[t] EXCEPT !.todo = a.events, !.indexed = 0, !.pc = p]
<1>4. a.events \in Seq(Events)
  <2>1. EndOf(task[t]) \in Nat /\ task[t].next - 1 <= EndOf(task[t])
    BY <1>1, <1>2, ChunkFacts
  <2> QED
    BY <1>1, <1>2, <2>1, AnswerFacts
<1>5. task' = [task EXCEPT ![t] = r]
  BY <1>1, <1>3 DEF TypeOK
<1>6. p \in {"insert", "index"}
  OBVIOUS
<1> HIDE DEF p
<1>7. r \in TaskType /\ r.todo = a.events /\ r.indexed = 0 /\ r.pc = p
         /\ r.next = task[t].next /\ r.final = task[t].final /\ r.last = task[t].last
         /\ SameTask(r, task[t])
  BY <1>1, <1>4, <1>6 DEF TaskType, SameTask
<1> HIDE DEF r
<1>8. r.pc = IF a.events = <<>> THEN "insert" ELSE "index"
  BY <1>7 DEF p
<1> QED
  BY <1>2, <1>3, <1>5, <1>7, <1>8

LEMMA IndexEventDoes ==
    ASSUME Base, NEW t \in Tasks, IndexEvent(t)
    PROVE  LET i == task[t].indexed + 1
               e == task[t].todo[i]
           IN  /\ task[t].pc = "index" /\ i \in 1..Len(task[t].todo) /\ e \in Canonical
               /\ IF e.count = Len(tree)
                  THEN /\ tree' = Append(tree, e) /\ up' = up /\ cache' = cache
                       /\ \E r \in TaskType :
                             /\ task' = [task EXCEPT ![t] = r]
                             /\ SameTask(r, task[t]) /\ r.last = task[t].last
                             /\ r.next = task[t].next /\ r.final = task[t].final
                             /\ r.todo = task[t].todo /\ r.indexed = i
                             /\ r.pc = IF i = Len(task[t].todo) THEN "insert" ELSE "index"
                  ELSE Throws(t)
<1> DEFINE i == task[t].indexed + 1
           e == task[t].todo[i]
<1>1. task[t] \in TaskType /\ TypeOK
  BY DEF Base, TypeOK
<1>2. task[t].pc = "index" /\ task[t].indexed < Len(task[t].todo)
         /\ task[t].todo \in Seq(Canonical) /\ task[t].indexed \in Nat
  BY <1>1 DEF Base, IndexEvent, Steady, TaskType
<1>3. i \in 1..Len(task[t].todo) /\ i \in Nat
  BY <1>2
<1>4. e \in Canonical
  BY <1>2, <1>3, ElementOfSeq
<1>5. IF e.count = Len(tree)
      THEN /\ tree' = Append(tree, e)
           /\ task' = [task EXCEPT ![t].indexed = i,
                          ![t].pc = IF i = Len(task[t].todo) THEN "insert" ELSE "index"]
           /\ UNCHANGED <<up, cache>>
      ELSE Throws(t)
  BY DEF IndexEvent, Fits
<1> DEFINE p == IF i = Len(task[t].todo) THEN "insert" ELSE "index"
           r == [task[t] EXCEPT !.indexed = i, !.pc = p]
<1>6. p \in {"insert", "index"}
  OBVIOUS
<1> HIDE DEF i, e
<1>7. CASE e.count = Len(tree)
  <2>1. task' = [task EXCEPT ![t] = r]
    BY <1>1, <1>5, <1>7 DEF TypeOK
  <2>2. r.pc = IF i = Len(task[t].todo) THEN "insert" ELSE "index"
    BY <1>1 DEF TaskType
  <2> HIDE DEF p
  <2>3. r \in TaskType /\ r.indexed = i
           /\ r.next = task[t].next /\ r.final = task[t].final /\ r.last = task[t].last
           /\ r.todo = task[t].todo /\ SameTask(r, task[t])
    BY <1>1, <1>3, <1>6 DEF TaskType, SameTask
  <2> HIDE DEF r
  <2> QED
    BY <1>2, <1>3, <1>4, <1>5, <1>7, <2>1, <2>2, <2>3 DEF i, e
<1>8. CASE ~(e.count = Len(tree))
  BY <1>2, <1>3, <1>4, <1>5, <1>8 DEF i, e
<1> QED
  BY <1>7, <1>8

LEMMA InsertChunkDoes ==
    ASSUME Base, NEW t \in Tasks, InsertChunk(t)
    PROVE  /\ task[t].pc = "insert"
           /\ db'.events = db.events \cup Range(task[t].todo)
           /\ db'.headers = [start |-> task[t].start, end |-> EndOf(task[t])]
           /\ db'.lastValid = db.lastValid
           /\ db' \in [events : SUBSET Events, headers : HeadersType \cup {None},
                       lastValid : Events \cup {None}]
           /\ cache'.data = cache.data \o task[t].todo /\ cache'.end = EndOf(task[t])
           /\ cache' \in [data : Seq(Events), start : Nat, end : FinalBlocks]
           /\ \E r \in TaskType :
                 /\ task' = [task EXCEPT ![t] = r]
                 /\ SameTask(r, task[t])
                 /\ r.next = task[t].next + Step /\ r.final = task[t].final
                 /\ r.last = IF task[t].todo = <<>> THEN task[t].last ELSE Last(task[t].todo)
                 /\ \/ r.pc = "fetch" /\ r.next <= r.final
                    \/ r.pc = "verify"
<1>1. task[t] \in TaskType /\ TypeOK
  BY DEF Base, TypeOK
<1>2. /\ task[t].pc = "insert" /\ task[t].next <= task[t].final
      /\ task[t].todo \in Seq(Canonical) /\ Sorted(task[t].todo)
      /\ Sound(Range(task[t].todo), finalized)
  BY DEF Base, InsertChunk, Steady, Loops
<1>3. EndOf(task[t]) \in FinalBlocks /\ task[t].next + Step \in Nat
  BY <1>1, <1>2, ChunkFacts
<1> DEFINE h == [start |-> task[t].start, end |-> EndOf(task[t])]
           l == IF task[t].todo = <<>> THEN task[t].last ELSE Last(task[t].todo)
           n == task[t].next + Step
           q == [task[t] EXCEPT !.next = n, !.todo = <<>>, !.last = l]
           r == Loop(q, tree)
<1>4. /\ db' = [db EXCEPT !.events = @ \cup Range(task[t].todo), !.headers = h]
      /\ cache' = [data |-> cache.data \o task[t].todo, start |-> h.start, end |-> h.end]
      /\ task' = [task EXCEPT ![t] = r]
  BY DEF InsertChunk, ChunkEnd, EndOf
<1>5. h \in HeadersType /\ h.start = task[t].start /\ h.end = EndOf(task[t])
  BY <1>1, <1>3 DEF HeadersType, TaskType
<1> HIDE DEF h
<1>6. Range(task[t].todo) \subseteq Events
  BY <1>2, EventFacts DEF Sound
<1>7. /\ db'.events = db.events \cup Range(task[t].todo)
      /\ db'.headers = h /\ db'.lastValid = db.lastValid
      /\ db' \in [events : SUBSET Events, headers : HeadersType \cup {None},
                  lastValid : Events \cup {None}]
  BY <1>1, <1>4, <1>5, <1>6 DEF TypeOK
<1>8. /\ cache'.data = cache.data \o task[t].todo /\ cache'.end = EndOf(task[t])
      /\ cache' \in [data : Seq(Events), start : Nat, end : FinalBlocks]
  <2>1. cache.data \in Seq(Events) /\ task[t].todo \in Seq(Events) /\ task[t].start \in Nat
    BY <1>1 DEF TypeOK, TaskType
  <2>2. cache.data \o task[t].todo \in Seq(Events)
    BY <2>1
  <2> QED
    BY <1>3, <1>4, <1>5, <2>1, <2>2
<1>9. l \in Events \cup {None}
  <2>1. CASE task[t].todo = <<>>
    BY <1>1, <2>1 DEF TaskType
  <2>2. CASE task[t].todo # <<>>
    <3>1. Last(task[t].todo) \in Range(task[t].todo)
      BY <1>2, <2>2, LastCloses
    <3> QED
      BY <1>6, <2>2, <3>1
  <2> QED
    BY <2>1, <2>2
<1>10. l = IF task[t].todo = <<>> THEN task[t].last ELSE Last(task[t].todo)
  OBVIOUS
<1>11. n \in Nat /\ n = task[t].next + Step
  BY <1>3
<1> HIDE DEF l, n
<1>15. q \in TaskType /\ q.next = n /\ q.last = l
          /\ q.final = task[t].final /\ q.live = task[t].live /\ q.block = task[t].block
          /\ q.start = task[t].start
  <2>1. <<>> \in Seq(Events)
    OBVIOUS
  <2> QED
    BY <1>1, <1>9, <1>11, <2>1 DEF TaskType
<1>12. tree \in Seq(Events)
  BY <1>1 DEF TypeOK
<1> HIDE DEF q
<1>13. /\ r \in TaskType
       /\ r.next = q.next /\ r.final = q.final /\ r.last = q.last /\ r.start = q.start
       /\ r.live = q.live /\ r.block = q.block
       /\ \/ r.pc = "fetch" /\ q.next <= q.final
          \/ r.pc = "verify" /\ ~(q.next <= q.final)
  BY <1>12, <1>15, LoopDoes
<1> HIDE DEF r
<1>14. SameTask(r, task[t]) /\ r.next = task[t].next + Step /\ r.final = task[t].final
          /\ r.last = l /\ ((r.pc = "fetch" /\ r.next <= r.final) \/ r.pc = "verify")
  BY <1>11, <1>13, <1>15 DEF SameTask
<1> QED
  BY <1>2, <1>4, <1>7, <1>8, <1>10, <1>13, <1>14 DEF h

LEMMA VerifyDoes ==
    ASSUME Base, NEW t \in Tasks, Verify(t)
    PROVE  \E r \in TaskType :
              /\ task' = [task EXCEPT ![t] = r]
              /\ \/ up' = "running" /\ Rests(r, task[t])
                 \/ /\ up' = up /\ SameTask(r, task[t]) /\ r.last = task[t].last
                    /\ r.pc = "clear" \/ (r.pc = "mark" /\ r.last # None)
<1>1. task[t] \in TaskType /\ TypeOK
  BY DEF Base, TypeOK
<1>2. ASSUME NEW p \in {"clear", "mark"}, task' = [task EXCEPT ![t].pc = p]
      PROVE  \E r \in TaskType : /\ task' = [task EXCEPT ![t] = r]
                                 /\ SameTask(r, task[t]) /\ r.last = task[t].last /\ r.pc = p
  <2> DEFINE r == [task[t] EXCEPT !.pc = p]
  <2>1. r \in TaskType /\ SameTask(r, task[t]) /\ r.last = task[t].last /\ r.pc = p
    BY <1>1 DEF TaskType, SameTask
  <2>2. task' = [task EXCEPT ![t] = r]
    BY <1>2
  <2> HIDE DEF r
  <2> QED
    BY <2>1, <2>2
<1>3. CASE task[t].root # TrueUpTo(task[t].final)
  <2>1. task' = [task EXCEPT ![t].pc = "clear"] /\ up' = up
    BY <1>3 DEF Verify
  <2> QED
    BY <1>2, <2>1
<1>4. CASE ~(task[t].root # TrueUpTo(task[t].final)) /\ task[t].last # None
  <2>1. task' = [task EXCEPT ![t].pc = "mark"] /\ up' = up
    BY <1>4 DEF Verify
  <2> QED
    BY <1>2, <1>4, <2>1
<1>5. CASE ~(task[t].root # TrueUpTo(task[t].final)) /\ ~(task[t].last # None)
  <2>1. UpdateDone(t)
    BY <1>5 DEF Verify
  <2> QED
    BY <1>1, <2>1, UpdateDoneDoes
<1> QED
  BY <1>3, <1>4, <1>5

LEMMA CachedFacts ==
    ASSUME TypeOK
    PROVE  /\ CachedEnd \in Nat /\ CachedStart \in Nat /\ cache.end \in Nat
           /\ CachedEnd >= cache.end /\ CachedEnd >= Deployment
           /\ CachedEnd = cache.end \/ CachedEnd = Deployment
<1>1. cache.end \in Nat /\ cache.start \in Nat
  BY FinalBlocksFacts DEF TypeOK
<1>2. Deployment \in Nat
  BY DepositsAssumption
<1> QED
  BY <1>1, <1>2 DEF CachedEnd, CachedStart, Larger

LEMMA CollectDoes ==
    ASSUME TypeOK, NEW t \in Tasks, Collect(t)
    PROVE  /\ task[t].pc = "collect"
           /\ \/ Throws(t)
              \/ /\ up' = up /\ cache' = cache /\ tree' = tree
                 /\ \E r \in TaskType :
                       /\ task' = [task EXCEPT ![t] = r]
                       /\ SameTask(r, task[t]) /\ r.last = task[t].last
                       /\ r.pc = "fresh" /\ r.data = cache.data
                       /\ r.next = CachedEnd + 1 /\ r.block >= CachedEnd
<1>1. task[t] \in TaskType /\ task[t].pc = "collect"
  BY DEF TypeOK, Collect
<1>2. CASE ~verifyCacheBlock(task[t].block)
  BY <1>1, <1>2 DEF Collect
<1>3. CASE verifyCacheBlock(task[t].block)
  <2>1. /\ task' = [task EXCEPT ![t].pc = "fresh", ![t].next = CachedEnd + 1,
                                ![t].data = cache.data]
        /\ up' = up /\ cache' = cache /\ tree' = tree
    BY <1>3 DEF Collect
  <2> DEFINE n == CachedEnd + 1
             d == cache.data
  <2>2. d \in Seq(Events) /\ n \in Nat /\ n = CachedEnd + 1 /\ d = cache.data
    BY CachedFacts DEF TypeOK
  <2> HIDE DEF n, d
  <2> DEFINE r == [task[t] EXCEPT !.pc = "fresh", !.next = n, !.data = d]
  <2>3. task' = [task EXCEPT ![t] = r]
    BY <2>1, <2>2 DEF TypeOK
  <2>4. /\ r \in TaskType /\ SameTask(r, task[t]) /\ r.last = task[t].last
        /\ r.pc = "fresh" /\ r.next = n /\ r.data = d
        /\ r.block = task[t].block
    BY <1>1, <2>2 DEF TaskType, SameTask
  <2> HIDE DEF r
  <2> QED
    BY <1>1, <1>3, <2>1, <2>2, <2>3, <2>4 DEF verifyCacheBlock
<1> QED
  BY <1>2, <1>3

LEMMA FetchFreshDoes ==
    ASSUME Base, NEW t \in Tasks, FetchFresh(t)
    PROVE  /\ task[t].pc = "fresh" /\ task[t].next \in Nat /\ task[t].next >= 1
           /\ task[t].next - 1 <= task[t].block /\ task[t].block \in Nat
           /\ \E a \in Answers(task[t].next, task[t].block) :
                 /\ FaultsSoFar + a.fault <= MaxFaults /\ drops' = drops + a.fault
                 /\ \/ Throws(t)
                    \/ /\ FitsAll(tree, a.events)
                       /\ up' = up /\ cache' = cache /\ tree' = tree
                       /\ \E r \in TaskType :
                             /\ task' = [task EXCEPT ![t] = r]
                             /\ SameTask(r, task[t]) /\ r.last = task[t].last
                             /\ r.pc = "serve" /\ r.data = task[t].data
                             /\ r.todo = a.events /\ r.root = tree \o a.events
<1>1. task[t] \in TaskType /\ TypeOK
  BY DEF Base, TypeOK
<1>2. /\ task[t].pc = "fresh" /\ task[t].next \in Nat /\ task[t].next >= 1
      /\ task[t].next - 1 <= task[t].block /\ task[t].block \in Nat
  BY <1>1 DEF Base, FetchFresh, Steady, TaskType
<1>3. PICK a \in Answers(task[t].next, task[t].block) :
         /\ FaultsSoFar + a.fault <= MaxFaults /\ drops' = drops + a.fault
         /\ IF FitsAll(tree, a.events)
            THEN /\ task' = [task EXCEPT ![t].pc = "serve", ![t].todo = a.events,
                                         ![t].root = tree \o a.events]
                 /\ UNCHANGED <<up, cache, tree>>
            ELSE Throws(t)
  BY DEF FetchFresh
<1>4. a.events \in Seq(Events)
  BY <1>1, <1>2, AnswerFacts
<1>5. CASE ~FitsAll(tree, a.events)
  BY <1>2, <1>3, <1>5
<1>6. CASE FitsAll(tree, a.events)
  <2> DEFINE r == [task[t] EXCEPT !.pc = "serve", !.todo = a.events,
                                  !.root = tree \o a.events]
  <2>1. task' = [task EXCEPT ![t] = r] /\ up' = up /\ cache' = cache /\ tree' = tree
    BY <1>1, <1>3, <1>6 DEF TypeOK
  <2>2. tree \o a.events \in Seq(Events)
    BY <1>1, <1>4 DEF TypeOK
  <2>3. /\ r \in TaskType /\ SameTask(r, task[t]) /\ r.last = task[t].last
        /\ r.pc = "serve" /\ r.data = task[t].data
        /\ r.todo = a.events /\ r.root = tree \o a.events
    BY <1>1, <1>4, <2>2 DEF TaskType, SameTask
  <2> HIDE DEF r
  <2> QED
    BY <1>2, <1>3, <1>6, <2>1, <2>3
<1> QED
  BY <1>5, <1>6

LEMMA StartCycleDoes ==
    ASSUME TypeOK, NEW t \in Tasks, StartCycle(t)
    PROVE  \E r \in TaskType :
              /\ task' = [task EXCEPT ![t] = r] /\ r.pc = "update" /\ r.live
              /\ r.last = None /\ r.block = latest
              /\ r.next = CachedEnd + 1 /\ r.next >= 1
<1> DEFINE n == CachedEnd + 1
           m == CachedStart
           b == latest
<1>1. n \in Nat /\ n >= 1 /\ n = CachedEnd + 1 /\ m \in Nat /\ b \in 0..MaxBlock
  BY CachedFacts DEF TypeOK
<1> DEFINE r == [IdleTask EXCEPT !.pc = "update", !.live = TRUE, !.block = b,
                                 !.start = m, !.next = n]
<1>2. task' = [task EXCEPT ![t] = r]
  <2> DEFINE u == [[IdleTask EXCEPT !.pc = "update", !.live = TRUE, !.block = b]
                      EXCEPT !.start = m, !.next = n]
  <2>1. task' = [task EXCEPT ![t] = u]
    BY DEF StartCycle, Updating
  <2>2. u = r
    BY DEF IdleTask
  <2> QED
    BY <2>1, <2>2
<1>3. IdleTask \in TaskType /\ IdleTask.last = None
  BY IdleFacts
<1>5. b = latest
  OBVIOUS
<1> HIDE DEF n, m, b
<1>4. r \in TaskType /\ r.pc = "update" /\ r.live /\ r.last = None /\ r.block = b
         /\ r.next = n
  BY <1>1, <1>3 DEF TaskType
<1> HIDE DEF r
<1> QED
  BY <1>1, <1>2, <1>4, <1>5

DbType == [events : SUBSET Events, headers : HeadersType \cup {None},
           lastValid : Events \cup {None}]
CacheType == [data : Seq(Events), start : Nat, end : FinalBlocks]

LEMMA BootDoes ==
    ASSUME Base, NEW t \in Tasks, Boot(t)
    PROVE  \E kept \in Seq(Events), r \in TaskType, end \in FinalBlocks :
              /\ OnChain(kept) /\ Sound(Range(kept), finalized)
              /\ \A i \in 1..Len(Deposits) :
                    Deposits[i] <= end => i <= Len(kept) /\ Event(i) \in Range(kept)
              /\ db' \in DbType /\ db'.events = Range(kept) /\ db'.headers.end = end
              /\ db'.lastValid # None =>
                    db'.lastValid = db.lastValid /\ db'.events = db.events
              /\ cache' \in CacheType /\ cache'.data = kept /\ cache'.end = end
              /\ tree' = kept /\ up = "down" /\ up' = "init"
              /\ task' = [task EXCEPT ![t] = r] /\ r.pc = "update" /\ r.live
              /\ r.last = None /\ r.next = Larger(end, Deployment) + 1
<1> DEFINE stored == IF db.headers = None THEN {} ELSE db.events
           start == IF db.headers = None THEN 0 ELSE db.headers.start
           kept == InOrder(Consistent(stored))
           last == IF kept = <<>> THEN None ELSE Last(kept)
           end == IF last = None THEN 0 ELSE last.block
           headers == [start |-> start, end |-> end]
<1>1. TypeOK /\ Sound(db.events, finalized)
  BY DEF Base, DbSound
<1>2. Sound(stored, finalized)
  BY <1>1 DEF Sound, Whole
<1>3. HeadersForDeletion(start, last) = headers
  BY DEF HeadersForDeletion
<1>4. /\ up = "down" /\ up' = "init" /\ tree' = kept
      /\ db' = [events |-> Range(kept), headers |-> headers,
                lastValid |-> IF Range(kept) = db.events THEN db.lastValid ELSE None]
      /\ cache' = [data |-> kept, start |-> headers.start, end |-> headers.end]
      /\ task' = [task EXCEPT ![t] =
             [Updating(0) EXCEPT !.start = Larger(headers.start, Deployment),
                                 !.next = Larger(headers.end, Deployment) + 1]]
  BY <1>3 DEF Boot
<1>5. start \in Nat
  BY <1>1 DEF TypeOK, HeadersType
<1> HIDE DEF stored, start
<1>6. /\ OnChain(kept) /\ Sound(Range(kept), finalized)
      /\ kept # <<>> => Closing(Last(kept), finalized) /\ Last(kept) \in Range(kept)
      /\ \A i \in 1..Len(Deposits) :
            (kept # <<>> /\ Deposits[i] <= Last(kept).block)
               => i <= Len(kept) /\ Event(i) \in Range(kept)
  BY <1>2, KeptFacts
<1>7. kept \in Seq(Events) /\ Range(kept) \subseteq Events
  BY <1>6, OnChainFacts, EventFacts DEF Sound
<1> HIDE DEF kept
<1>8. end \in FinalBlocks
  <2>1. 0 \in FinalBlocks
    BY DepositsAssumption DEF FinalBlocks, Larger
  <2>2. kept # <<>> => Last(kept).block \in FinalBlocks
    <3> SUFFICES ASSUME kept # <<>> PROVE Last(kept).block \in FinalBlocks
      OBVIOUS
    <3>1. Last(kept).block \in Nat /\ Last(kept).block <= finalized
      BY <1>6, EventFacts DEF Closing
    <3> QED
      BY <1>1, <3>1, FinalFacts, FinalBlocksFacts
  <2> QED
    BY <2>1, <2>2
<1>9. ASSUME NEW i \in 1..Len(Deposits), Deposits[i] <= end
      PROVE  i <= Len(kept) /\ Event(i) \in Range(kept)
  <2>1. CASE last = None
    <3>1. Deposits[i] <= 0
      BY <1>9, <2>1
    <3> QED
      BY <3>1, DepositsFacts
  <2>2. CASE last # None
    BY <1>6, <1>9, <2>2
  <2> QED
    BY <2>1, <2>2
<1> DEFINE n == Larger(end, Deployment) + 1
           m == Larger(start, Deployment)
<1>10. n \in Nat /\ m \in Nat
  <2> HIDE DEF end, start
  <2>1. end \in Nat /\ start \in Nat /\ Deployment \in Nat
    BY <1>5, <1>8, FinalBlocksFacts, DepositsAssumption
  <2>2. \A k \in Nat : Larger(k, Deployment) \in Nat
    BY <2>1 DEF Larger
  <2> QED
    BY <2>1, <2>2
<1>11. headers \in HeadersType /\ headers.end = end /\ headers.start = start
  BY <1>5, <1>8 DEF HeadersType
<1> HIDE DEF last, end, headers
<1>12. /\ db' \in DbType /\ db'.events = Range(kept) /\ db'.headers = headers
       /\ db'.lastValid # None => db'.lastValid = db.lastValid /\ db'.events = db.events
  <2>1. db.lastValid \in Events \cup {None}
    BY <1>1 DEF TypeOK
  <2> QED
    BY <1>4, <1>7, <1>11, <2>1 DEF DbType
<1>13. cache' \in CacheType /\ cache'.data = kept /\ cache'.end = end
  BY <1>4, <1>5, <1>7, <1>8, <1>11 DEF CacheType
<1>16. n = Larger(end, Deployment) + 1
  OBVIOUS
<1> HIDE DEF n, m
<1> DEFINE r == [IdleTask EXCEPT !.pc = "update", !.live = TRUE, !.block = 0,
                                 !.start = m, !.next = n]
<1>14. task' = [task EXCEPT ![t] = r]
  <2> DEFINE u == [[IdleTask EXCEPT !.pc = "update", !.live = TRUE, !.block = 0]
                      EXCEPT !.start = m, !.next = n]
  <2>1. task' = [task EXCEPT ![t] = u]
    BY <1>4, <1>11 DEF Updating, m, n
  <2>2. u = r
    BY DEF IdleTask
  <2> QED
    BY <2>1, <2>2
<1>15. r \in TaskType /\ r.pc = "update" /\ r.live /\ r.last = None /\ r.next = n
  <2>1. IdleTask \in TaskType /\ IdleTask.last = None
    BY IdleFacts
  <2>2. 0 \in 0..MaxBlock
    BY DepositsAssumption
  <2> QED
    BY <1>10, <2>1, <2>2 DEF TaskType
<1> HIDE DEF r
<1>17. /\ OnChain(kept) /\ Sound(Range(kept), finalized)
       /\ \A i \in 1..Len(Deposits) :
             Deposits[i] <= end => i <= Len(kept) /\ Event(i) \in Range(kept)
       /\ db' \in DbType /\ db'.events = Range(kept) /\ db'.headers.end = end
       /\ db'.lastValid # None =>
             db'.lastValid = db.lastValid /\ db'.events = db.events
       /\ cache' \in CacheType /\ cache'.data = kept /\ cache'.end = end
       /\ tree' = kept /\ up = "down" /\ up' = "init"
  BY <1>4, <1>6, <1>9, <1>11, <1>12, <1>13
<1>18. /\ task' = [task EXCEPT ![t] = r] /\ r.pc = "update" /\ r.live
       /\ r.last = None /\ r.next = Larger(end, Deployment) + 1
  BY <1>14, <1>15, <1>16
<1> QED
  BY <1>7, <1>8, <1>15, <1>17, <1>18

LEMMA ClearDoes ==
    ASSUME Base, NEW t \in Tasks, Clear(t)
    PROVE  /\ task[t].pc = "clear"
           /\ \/ Throws(t) /\ db' = db
              \/ /\ ProcessEnds /\ db' \in DbType
                 /\ db'.events = {e \in db.events : /\ db.lastValid # None
                                                    /\ e.count <= db.lastValid.count}
                 /\ db'.headers.end = IF db.lastValid = None THEN 0 ELSE db.lastValid.block
                 /\ db'.lastValid \in {None, db.lastValid}
<1> DEFINE valid == db.lastValid
           after == {e \in db.events : valid # None => e.count > valid.count}
           end == IF valid = None THEN 0 ELSE valid.block
           headers == [start |-> cache.start, end |-> end]
<1>1. TypeOK /\ Sound(db.events, finalized) /\ (valid # None => Closing(valid, finalized))
  BY DEF Base, DbSound
<1>2. HeadersForDeletion(cache.start, valid) = headers
  BY DEF HeadersForDeletion
<1>3. CASE headers.end < headers.start
  BY <1>2, <1>3 DEF Clear
<1>4. CASE ~(headers.end < headers.start)
  <2>1. /\ task[t].pc = "clear" /\ ProcessEnds
        /\ db' = [events |-> db.events \ after, headers |-> headers,
                  lastValid |-> IF after = {} THEN valid ELSE None]
    BY <1>2, <1>4 DEF Clear
  <2>2. end \in FinalBlocks
    <3>1. 0 \in FinalBlocks
      BY DepositsAssumption DEF FinalBlocks, Larger
    <3>2. valid # None => valid.block \in Nat /\ valid.block <= finalized
      BY <1>1, EventFacts DEF Closing
    <3> QED
      BY <1>1, <3>1, <3>2, FinalFacts, FinalBlocksFacts
  <2>3. headers \in HeadersType /\ headers.end = end
    BY <1>1, <2>2 DEF HeadersType, TypeOK
  <2> HIDE DEF headers, end
  <2>4. db.events \ after = {e \in db.events : valid # None /\ e.count <= valid.count}
    <3>1. ASSUME NEW e \in db.events, valid # None
          PROVE  e.count > valid.count <=> ~(e.count <= valid.count)
      <4>1. e.count \in Nat /\ valid.count \in Nat
        BY <1>1, <3>1, EventFacts DEF Sound, Closing
      <4> QED
        BY <4>1
    <3> QED
      BY <3>1
  <2>5. valid \in Events \cup {None} /\ db.events \ after \subseteq Events
    BY <1>1 DEF TypeOK
  <2> HIDE DEF valid, after
  <2>6. db' \in DbType /\ db'.events = db.events \ after /\ db'.headers.end = end
           /\ db'.lastValid \in {None, valid}
    BY <2>1, <2>3, <2>5 DEF DbType
  <2> QED
    BY <2>1, <2>4, <2>6 DEF end, valid
<1> QED
  BY <1>3, <1>4

-----------------------------------------------------------------------------
(* Base is kept by every step, with whatever failures and wrong answers     *)

ServedType == [block : 0..MaxBlock, events : Seq(Events)] \cup {None}

CountersOK == drops \in Nat /\ failures \in Nat /\ crashes \in Nat /\ timeouts \in Nat

\* The records up to an event that ends its block.
LEMMA CutIsSound ==
    ASSUME NEW S, NEW b, Sound(S, b), NEW v, Closing(v, b)
    PROVE  Sound({e \in S : e.count <= v.count}, b)
<1> DEFINE K == {e \in S : e.count <= v.count}
<1>1. S \subseteq Canonical /\ Whole(S) /\ v \in Canonical /\ \A e \in S : e.block <= b
  BY DEF Sound, Closing
<1>2. v.count \in Nat /\ v.count + 1 \in 1..Len(Deposits) /\ v.block = Deposits[v.count + 1]
         /\ v.block \in Nat
  BY <1>1, EventFacts
<1>3. ASSUME NEW e \in K, NEW i \in DOMAIN Deposits, Deposits[i] = e.block
      PROVE  Event(i) \in K
  <2>1. e \in S /\ e.count <= v.count /\ e \in Canonical
    BY <1>1
  <2>2. e.count \in Nat /\ e.count + 1 \in 1..Len(Deposits) /\ e.block = Deposits[e.count + 1]
           /\ e.block \in Nat
    BY <2>1, EventFacts
  <2>3. Event(i) \in S /\ i \in 1..Len(Deposits) /\ Event(i).count = i - 1
    BY <1>1, <1>3, <2>1, EventFacts, DepositsFacts DEF Whole
  <2>4. i - 1 <= v.count
    <3>1. CASE e.block = v.block
      BY <1>3, <2>3, <3>1 DEF Closing
    <3>2. CASE e.block # v.block
      <4>1. e.block <= v.block
        <5>1. e.count + 1 <= v.count + 1
          BY <1>2, <2>1, <2>2
        <5> QED
          BY <1>2, <2>2, <5>1, DepositsFacts
      <4>2. ~(v.block <= Deposits[i])
        BY <1>2, <1>3, <2>2, <3>2, <4>1
      <4>3. ~(v.count + 1 <= i)
        BY <1>2, <2>3, <4>2, DepositsFacts
      <4> QED
        BY <1>2, <2>3, <4>3, DepositsFacts
    <3> QED
      BY <3>1, <3>2
  <2> QED
    BY <2>3, <2>4
<1>4. Whole(K)
  BY <1>3 DEF Whole
<1> QED
  BY <1>1, <1>4 DEF Sound

LEMMA MoveKeepsBase ==
    ASSUME Base, NEW t \in Tasks, NEW r \in TaskType,
           task' = [task EXCEPT ![t] = r], Steady(r, finalized), latest' = latest,
           db' \in DbType, Sound(db'.events, finalized),
           db'.lastValid # None => Closing(db'.lastValid, finalized),
           cache' \in CacheType, OnChain(tree'), served' \in ServedType,
           up' \in {"init", "running"}, CountersOK'
    PROVE  Base'
<1>1. TypeOK /\ \A s \in Tasks : Steady(task[s], finalized)
  BY DEF Base
<1>2. /\ task' \in [Tasks -> TaskType]
      /\ finalized' = finalized
      /\ \A s \in Tasks : Steady(task'[s], finalized')
  BY <1>1, OneMoves
<1>3. tree' \in Seq(Events)
  BY OnChainFacts
<1>4. TypeOK'
  BY <1>1, <1>2, <1>3 DEF TypeOK, DbType, CacheType, ServedType, CountersOK
<1>5. DbSound'
  BY <1>2 DEF DbSound
<1> QED
  BY <1>2, <1>4, <1>5 DEF Base

LEMMA EndKeepsBase ==
    ASSUME Base, ProcessEnds, latest' = latest,
           db' \in DbType, Sound(db'.events, finalized),
           db'.lastValid # None => Closing(db'.lastValid, finalized),
           served' \in ServedType, CountersOK'
    PROVE  Base'
<1>1. TypeOK /\ finalized' = finalized
  BY DEF Base, finalized
<1>2. task' = [t \in Tasks |-> IdleTask] /\ up' = "down" /\ cache' = EmptyCache
         /\ tree' = <<>>
  BY DEF ProcessEnds
<1>3. cache' \in CacheType
  BY <1>2, DepositsAssumption DEF CacheType, EmptyCache, FinalBlocks, Larger
<1>4. OnChain(tree') /\ tree' \in Seq(Events)
  BY <1>2, OnChainFacts
<1>5. /\ task' \in [Tasks -> TaskType]
      /\ \A t \in Tasks : task'[t].pc = "idle" /\ Steady(task'[t], finalized)
  BY <1>2, IdleFacts
<1>6. TypeOK'
  BY <1>1, <1>2, <1>3, <1>4, <1>5 DEF TypeOK, DbType, CacheType, ServedType, CountersOK
<1>7. DbSound'
  BY <1>1 DEF DbSound
<1> QED
  BY <1>1, <1>4, <1>5, <1>6, <1>7 DEF Base

LEMMA ThrowKeepsBase ==
    ASSUME Base, NEW t \in Tasks, task[t].pc # "idle", Throws(t), latest' = latest, db' = db,
           served' \in ServedType, CountersOK'
    PROVE  Base'
<1>1. TypeOK /\ DbSound /\ OnChain(tree)
  BY DEF Base
<1>2. db' \in DbType /\ Sound(db'.events, finalized)
         /\ (db'.lastValid # None => Closing(db'.lastValid, finalized))
  BY <1>1 DEF TypeOK, DbType, DbSound
<1>3. CASE ProcessEnds
  BY <1>2, <1>3, EndKeepsBase
<1>4. CASE task' = [task EXCEPT ![t] = IdleTask] /\ up' = up /\ cache' = cache
           /\ tree' = tree
  <2>1. up' \in {"init", "running"}
    BY <1>1, <1>4 DEF Base, TypeOK
  <2>2. cache' \in CacheType /\ OnChain(tree')
    BY <1>1, <1>4 DEF TypeOK, CacheType
  <2> QED
    BY <1>2, <1>4, <2>1, <2>2, IdleFacts, MoveKeepsBase
<1> QED
  BY <1>3, <1>4, ThrowsDoes

LEMMA RestsAreSteady ==
    ASSUME NEW q, NEW b, Steady(q, b), NEW r, Rests(r, q)
    PROVE  Steady(r, b)
<1>1. CASE r = IdleTask
  BY <1>1, IdleFacts
<1>2. CASE r.pc = "collect" /\ r.last = q.last
  BY <1>2 DEF Steady, Loops
<1> QED
  BY <1>1, <1>2 DEF Rests

\* What an execution that is under way may rely on.
LEMMA BaseHere ==
    ASSUME Base, NEW t \in Tasks
    PROVE  /\ TypeOK /\ DbSound /\ task[t] \in TaskType /\ Steady(task[t], finalized)
           /\ db \in DbType /\ Sound(db.events, finalized)
           /\ db.lastValid # None => Closing(db.lastValid, finalized)
           /\ cache \in CacheType /\ OnChain(tree) /\ served \in ServedType /\ CountersOK
           /\ up \in {"down", "init", "running"}
           /\ task[t].pc # "idle" => up \in {"init", "running"}
           /\ finalized \in Nat
<1>1. TypeOK
  BY DEF Base
<1> QED
  BY <1>1, FinalFacts DEF Base, TypeOK, DbType, DbSound, CacheType, ServedType, CountersOK

LEMMA BaseReadFinalized ==
    ASSUME Base, NEW t \in Tasks, ReadFinalized(t)
    PROVE  Base'
<1>1. PICK r \in TaskType :
         /\ task' = [task EXCEPT ![t] = r]
         /\ \/ up' = "running" /\ Rests(r, task[t])
            \/ /\ up' = up /\ SameTask(r, task[t])
               /\ r.next = task[t].next /\ r.last = task[t].last
               /\ r.final <= finalized
               /\ \/ r.pc = "fetch" /\ r.next <= r.final
                  \/ r.pc = "verify"
  BY ReadFinalizedDoes
<1>2. /\ task[t].pc = "update" /\ latest' = latest /\ db' = db /\ cache' = cache
      /\ tree' = tree /\ served' = served /\ CountersOK'
  BY BaseHere DEF ReadFinalized, CountersOK, faults
<1>3. up' \in {"init", "running"} /\ Steady(r, finalized)
  <2>1. CASE up' = "running" /\ Rests(r, task[t])
    BY <2>1, BaseHere, RestsAreSteady
  <2>2. CASE /\ up' = up /\ r.next = task[t].next /\ r.last = task[t].last
             /\ r.final <= finalized
             /\ (r.pc = "fetch" /\ r.next <= r.final) \/ r.pc = "verify"
    BY <1>2, <2>2, BaseHere DEF Steady, Loops
  <2> QED
    BY <1>1, <2>1, <2>2
<1> QED
  BY <1>1, <1>2, <1>3, BaseHere, MoveKeepsBase

LEMMA BaseFetchChunk ==
    ASSUME Base, NEW t \in Tasks, FetchChunk(t)
    PROVE  Base'
<1>1. PICK a \in Answers(task[t].next, EndOf(task[t])), r \in TaskType :
         /\ FaultsSoFar + a.fault <= MaxFaults /\ drops' = drops + a.fault
         /\ task' = [task EXCEPT ![t] = r]
         /\ SameTask(r, task[t]) /\ r.last = task[t].last
         /\ r.next = task[t].next /\ r.final = task[t].final /\ r.next <= r.final
         /\ r.todo = a.events /\ r.indexed = 0
         /\ r.pc = IF a.events = <<>> THEN "insert" ELSE "index"
  BY FetchChunkDoes
<1>2. /\ task[t].pc = "fetch" /\ latest' = latest /\ db' = db /\ cache' = cache
      /\ tree' = tree /\ served' = served /\ up' = up
      /\ failures' = failures /\ crashes' = crashes /\ timeouts' = timeouts
  BY DEF FetchChunk
<1>3. /\ task[t].next \in Nat /\ task[t].next >= 1 /\ task[t].next <= task[t].final
      /\ task[t].final <= finalized /\ task[t].final \in Nat
      /\ EndOf(task[t]) \in Nat /\ task[t].next - 1 <= EndOf(task[t])
      /\ EndOf(task[t]) <= finalized /\ finalized \in Nat
  <2>1. task[t] \in TaskType /\ task[t].next <= task[t].final /\ task[t].next >= 1
           /\ task[t].final <= finalized /\ finalized \in Nat
    BY <1>2, BaseHere DEF Steady, Loops
  <2>2. task[t].final \in Nat /\ task[t].next \in Nat
    BY <2>1, FinalBlocksFacts DEF TaskType
  <2> QED
    BY <2>1, <2>2, ChunkFacts
<1>4. a.events \in Seq(Events) /\ a.fault \in {0, 1}
         /\ Sound(Range(a.events), finalized) /\ Sorted(a.events)
  BY <1>3, BaseHere, AnswerFacts, LaterIsSound
<1>5. a.events \in Seq(Canonical)
  BY <1>4 DEF Sound, Range
<1>6. Steady(r, finalized)
  <2>1. r.last # None => Closing(r.last, finalized)
    BY <1>1, BaseHere DEF Steady
  <2>2. a.events # <<>> => 0 < Len(a.events)
    BY <1>5
  <2>3. a.events = <<>> => 0 = Len(a.events)
    OBVIOUS
  <2> QED
    BY <1>1, <1>3, <1>4, <1>5, <2>1, <2>2, <2>3 DEF Steady, Loops
<1>7. CountersOK'
  BY <1>1, <1>2, <1>4, BaseHere DEF CountersOK
<1> QED
  BY <1>1, <1>2, <1>6, <1>7, BaseHere, MoveKeepsBase

LEMMA BaseIndexEvent ==
    ASSUME Base, NEW t \in Tasks, IndexEvent(t)
    PROVE  Base'
<1> DEFINE i == task[t].indexed + 1
           e == task[t].todo[i]
<1>1. /\ task[t].pc = "index" /\ i \in 1..Len(task[t].todo) /\ e \in Canonical
      /\ IF e.count = Len(tree)
         THEN /\ tree' = Append(tree, e) /\ up' = up /\ cache' = cache
              /\ \E r \in TaskType :
                    /\ task' = [task EXCEPT ![t] = r]
                    /\ SameTask(r, task[t]) /\ r.last = task[t].last
                    /\ r.next = task[t].next /\ r.final = task[t].final
                    /\ r.todo = task[t].todo /\ r.indexed = i
                    /\ r.pc = IF i = Len(task[t].todo) THEN "insert" ELSE "index"
         ELSE Throws(t)
  BY IndexEventDoes
<1>2. latest' = latest /\ db' = db /\ served' = served /\ CountersOK'
  BY BaseHere DEF IndexEvent, CountersOK, faults
<1> HIDE DEF i, e
<1>3. CASE e.count = Len(tree)
  <2>1. PICK r \in TaskType :
           /\ task' = [task EXCEPT ![t] = r]
           /\ SameTask(r, task[t]) /\ r.last = task[t].last
           /\ r.next = task[t].next /\ r.final = task[t].final
           /\ r.todo = task[t].todo /\ r.indexed = i
           /\ r.pc = IF i = Len(task[t].todo) THEN "insert" ELSE "index"
    BY <1>1, <1>3
  <2>2. Steady(r, finalized)
    <3>1. i = Len(task[t].todo) \/ i < Len(task[t].todo)
      BY <1>1
    <3> QED
      BY <1>1, <2>1, <3>1, BaseHere DEF Steady, Loops
  <2>3. OnChain(tree')
    <3>1. tree' = Append(tree, e) /\ tree \in Seq(Canonical) /\ e = Event(e.count + 1)
             /\ e \in Canonical /\ \A j \in 1..Len(tree) : tree[j] = Event(j)
      BY <1>1, <1>3, BaseHere, EventFacts DEF OnChain
    <3>2. tree' \in Seq(Canonical) /\ Len(tree') = Len(tree) + 1 /\ Len(tree) \in Nat
      BY <3>1
    <3>3. tree'[Len(tree) + 1] = Event(Len(tree) + 1)
      BY <1>3, <3>1
    <3>4. \A j \in 1..Len(tree) : tree'[j] = Event(j)
      BY <3>1
    <3> QED
      BY <3>2, <3>3, <3>4 DEF OnChain
  <2> QED
    BY <1>1, <1>2, <1>3, <2>1, <2>2, <2>3, BaseHere, MoveKeepsBase
<1>4. CASE ~(e.count = Len(tree))
  <2>1. Throws(t) /\ task[t].pc # "idle"
    BY <1>1, <1>4
  <2> QED
    BY <1>2, <2>1, BaseHere, ThrowKeepsBase
<1> QED
  BY <1>3, <1>4

LEMMA BaseInsertChunk ==
    ASSUME Base, NEW t \in Tasks, InsertChunk(t)
    PROVE  Base'
<1>1. /\ task[t].pc = "insert"
      /\ db'.events = db.events \cup Range(task[t].todo)
      /\ db'.lastValid = db.lastValid
      /\ db' \in DbType /\ cache' \in CacheType
  BY InsertChunkDoes DEF DbType, CacheType
<1>2. PICK r \in TaskType :
         /\ task' = [task EXCEPT ![t] = r]
         /\ SameTask(r, task[t])
         /\ r.next = task[t].next + Step /\ r.final = task[t].final
         /\ r.last = IF task[t].todo = <<>> THEN task[t].last ELSE Last(task[t].todo)
         /\ \/ r.pc = "fetch" /\ r.next <= r.final
            \/ r.pc = "verify"
  BY InsertChunkDoes
<1>3. latest' = latest /\ tree' = tree /\ served' = served /\ up' = up /\ CountersOK'
  BY BaseHere DEF InsertChunk, CountersOK, faults
<1>4. /\ task[t].todo \in Seq(Canonical) /\ Sound(Range(task[t].todo), finalized)
      /\ Sorted(task[t].todo) /\ task[t].next >= 1 /\ task[t].final <= finalized
      /\ task[t].last # None => Closing(task[t].last, finalized)
  BY <1>1, BaseHere DEF Steady, Loops
<1>5. Sound(db'.events, finalized)
  BY <1>1, <1>4, BaseHere DEF Sound, Whole
<1>6. Steady(r, finalized)
  <2>1. r.last # None => Closing(r.last, finalized)
    BY <1>2, <1>4, LastCloses
  <2>2. r.next >= 1
    <3>1. task[t].next \in Nat /\ Step \in Nat
      BY BaseHere, DepositsAssumption DEF TaskType
    <3> QED
      BY <1>2, <1>4, <3>1
  <2> QED
    BY <1>2, <1>4, <2>1, <2>2 DEF Steady, Loops
<1> QED
  BY <1>1, <1>2, <1>3, <1>5, <1>6, BaseHere, MoveKeepsBase

LEMMA BaseVerify ==
    ASSUME Base, NEW t \in Tasks, Verify(t)
    PROVE  Base'
<1>1. PICK r \in TaskType :
         /\ task' = [task EXCEPT ![t] = r]
         /\ \/ up' = "running" /\ Rests(r, task[t])
            \/ /\ up' = up /\ SameTask(r, task[t]) /\ r.last = task[t].last
               /\ r.pc = "clear" \/ (r.pc = "mark" /\ r.last # None)
  BY VerifyDoes
<1>2. /\ task[t].pc = "verify" /\ latest' = latest /\ db' = db /\ cache' = cache
      /\ tree' = tree /\ served' = served /\ CountersOK'
  BY BaseHere DEF Verify, CountersOK, faults
<1>3. up' \in {"init", "running"} /\ Steady(r, finalized)
  <2>1. CASE up' = "running" /\ Rests(r, task[t])
    BY <2>1, BaseHere, RestsAreSteady
  <2>2. CASE /\ up' = up /\ r.last = task[t].last
             /\ r.pc = "clear" \/ (r.pc = "mark" /\ r.last # None)
    BY <1>2, <2>2, BaseHere DEF Steady, Loops
  <2> QED
    BY <1>1, <2>1, <2>2
<1> QED
  BY <1>1, <1>2, <1>3, BaseHere, MoveKeepsBase

LEMMA BaseMark ==
    ASSUME Base, NEW t \in Tasks, Mark(t)
    PROVE  Base'
<1> DEFINE v == task[t].last
<1>1. /\ task[t].pc = "mark" /\ latest' = latest /\ cache' = cache
      /\ tree' = tree /\ served' = served /\ CountersOK'
      /\ db' = [db EXCEPT !.lastValid = v] /\ UpdateDone(t)
  BY BaseHere DEF Mark, CountersOK, faults
<1>2. PICK r \in TaskType :
         task' = [task EXCEPT ![t] = r] /\ up' = "running" /\ Rests(r, task[t])
  BY <1>1, BaseHere, UpdateDoneDoes
<1>3. Steady(r, finalized)
  BY <1>2, BaseHere, RestsAreSteady
<1>4. v # None /\ Closing(v, finalized) /\ v \in Events
  BY <1>1, EventFacts, BaseHere DEF Steady, Closing
<1> HIDE DEF v
<1>5. db' \in DbType /\ db'.events = db.events /\ db'.lastValid = v
  BY <1>1, <1>4, BaseHere DEF DbType
<1> QED
  BY <1>1, <1>2, <1>3, <1>4, <1>5, BaseHere, MoveKeepsBase

LEMMA BaseClear ==
    ASSUME Base, NEW t \in Tasks, Clear(t)
    PROVE  Base'
<1>1. /\ task[t].pc = "clear"
      /\ \/ Throws(t) /\ db' = db
         \/ /\ ProcessEnds /\ db' \in DbType
            /\ db'.events = {e \in db.events : /\ db.lastValid # None
                                               /\ e.count <= db.lastValid.count}
            /\ db'.lastValid \in {None, db.lastValid}
  BY ClearDoes
<1>2. latest' = latest /\ served' = served /\ CountersOK'
  BY BaseHere DEF Clear, CountersOK, faults
<1>3. CASE Throws(t) /\ db' = db
  BY <1>1, <1>2, <1>3, BaseHere, ThrowKeepsBase
<1>4. CASE /\ ProcessEnds /\ db' \in DbType
           /\ db'.events = {e \in db.events : /\ db.lastValid # None
                                              /\ e.count <= db.lastValid.count}
           /\ db'.lastValid \in {None, db.lastValid}
  <2>1. Sound(db'.events, finalized)
    <3>1. CASE db.lastValid = None
      <4>1. db'.events = {}
        BY <1>4, <3>1
      <4> QED
        BY <4>1 DEF Sound, Whole
    <3>2. CASE db.lastValid # None
      <4>1. db'.events = {e \in db.events : e.count <= db.lastValid.count}
        BY <1>4, <3>2
      <4>2. Closing(db.lastValid, finalized) /\ Sound(db.events, finalized)
        BY <3>2, BaseHere
      <4> QED
        BY <4>1, <4>2, CutIsSound
    <3> QED
      BY <3>1, <3>2
  <2>2. db'.lastValid # None => Closing(db'.lastValid, finalized)
    BY <1>4, BaseHere
  <2> QED
    BY <1>2, <1>4, <2>1, <2>2, BaseHere, EndKeepsBase
<1> QED
  BY <1>1, <1>3, <1>4

LEMMA BaseCollectStep ==
    ASSUME Base, NEW t \in Tasks, CollectStep(t)
    PROVE  Base'
<1>1. CASE Collect(t)
  <2>1. /\ task[t].pc = "collect"
        /\ \/ Throws(t)
           \/ /\ up' = up /\ cache' = cache /\ tree' = tree
              /\ \E r \in TaskType :
                    /\ task' = [task EXCEPT ![t] = r]
                    /\ SameTask(r, task[t]) /\ r.last = task[t].last
                    /\ r.pc = "fresh" /\ r.data = cache.data
                    /\ r.next = CachedEnd + 1 /\ r.block >= CachedEnd
    BY <1>1, BaseHere, CollectDoes
  <2>2. latest' = latest /\ db' = db /\ served' = served /\ CountersOK'
    BY <1>1, BaseHere DEF Collect, CountersOK, faults
  <2>3. CASE Throws(t)
    BY <2>1, <2>2, <2>3, BaseHere, ThrowKeepsBase
  <2>4. CASE up' = up /\ cache' = cache /\ tree' = tree
             /\ \E r \in TaskType :
                   /\ task' = [task EXCEPT ![t] = r]
                   /\ SameTask(r, task[t]) /\ r.last = task[t].last
                   /\ r.pc = "fresh" /\ r.data = cache.data
                   /\ r.next = CachedEnd + 1 /\ r.block >= CachedEnd
    <3>1. PICK r \in TaskType :
             /\ task' = [task EXCEPT ![t] = r]
             /\ SameTask(r, task[t]) /\ r.last = task[t].last
             /\ r.pc = "fresh" /\ r.data = cache.data
             /\ r.next = CachedEnd + 1 /\ r.block >= CachedEnd
      BY <2>4
    <3>2. r.next >= 1 /\ r.next - 1 <= r.block
      <4>1. r.block \in Nat /\ CachedEnd \in Nat
        BY BaseHere, CachedFacts DEF TaskType
      <4> QED
        BY <3>1, <4>1
    <3>3. Steady(r, finalized)
      BY <3>1, <3>2, BaseHere DEF Steady, Loops
    <3> QED
      BY <2>1, <2>2, <2>4, <3>1, <3>3, BaseHere, MoveKeepsBase
  <2> QED
    BY <2>1, <2>3, <2>4
<1>2. CASE FetchFresh(t)
  <2>1. /\ task[t].pc = "fresh" /\ task[t].next \in Nat /\ task[t].next >= 1
        /\ task[t].next - 1 <= task[t].block /\ task[t].block \in Nat
    BY <1>2, FetchFreshDoes
  <2>2. PICK a \in Answers(task[t].next, task[t].block) :
           /\ FaultsSoFar + a.fault <= MaxFaults /\ drops' = drops + a.fault
           /\ \/ Throws(t)
              \/ /\ FitsAll(tree, a.events)
                 /\ up' = up /\ cache' = cache /\ tree' = tree
                 /\ \E r \in TaskType :
                       /\ task' = [task EXCEPT ![t] = r]
                       /\ SameTask(r, task[t]) /\ r.last = task[t].last
                       /\ r.pc = "serve" /\ r.data = task[t].data
                       /\ r.todo = a.events /\ r.root = tree \o a.events
    BY <1>2, FetchFreshDoes
  <2>3. latest' = latest /\ db' = db /\ served' = served
           /\ failures' = failures /\ crashes' = crashes /\ timeouts' = timeouts
    BY <1>2 DEF FetchFresh
  <2>4. CountersOK'
    <3>1. a.fault \in {0, 1}
      BY <2>1, BaseHere, AnswerFacts
    <3> QED
      BY <2>2, <2>3, <3>1, BaseHere DEF CountersOK
  <2>5. CASE Throws(t)
    BY <2>1, <2>3, <2>4, <2>5, BaseHere, ThrowKeepsBase
  <2>6. CASE ~Throws(t)
    <3>1. PICK r \in TaskType :
             /\ task' = [task EXCEPT ![t] = r]
             /\ SameTask(r, task[t]) /\ r.last = task[t].last
             /\ r.pc = "serve"
      BY <2>2, <2>6
    <3>2. up' = up /\ cache' = cache /\ tree' = tree
      BY <2>2, <2>6
    <3>3. Steady(r, finalized)
      BY <3>1, BaseHere DEF Steady, Loops
    <3> QED
      BY <2>1, <2>3, <2>4, <3>1, <3>2, <3>3, BaseHere, MoveKeepsBase
  <2> QED
    BY <2>5, <2>6
<1>3. CASE Serve(t)
  <2>1. /\ task[t].pc = "serve" /\ task' = [task EXCEPT ![t] = IdleTask]
        /\ latest' = latest /\ db' = db /\ up' = up /\ cache' = cache /\ tree' = tree
        /\ CountersOK'
    BY <1>3, BaseHere DEF Serve, CountersOK, faults
  <2>2. served' \in ServedType
    <3> DEFINE b == task[t].block
               s == task[t].data \o task[t].todo
    <3>1. served' = served \/ served' = [block |-> b, events |-> s]
      BY <1>3 DEF Serve, Give
    <3>2. b \in 0..MaxBlock /\ s \in Seq(Events)
      BY BaseHere DEF TaskType
    <3>3. served \in ServedType
      BY BaseHere
    <3> HIDE DEF b, s
    <3>4. [block |-> b, events |-> s] \in ServedType
      BY <3>2 DEF ServedType
    <3> QED
      BY <3>1, <3>3, <3>4
  <2> QED
    BY <2>1, <2>2, BaseHere, IdleFacts, MoveKeepsBase
<1> QED
  BY <1>1, <1>2, <1>3 DEF CollectStep

LEMMA BaseBegins ==
    ASSUME Base, NEW t \in Tasks, Boot(t) \/ StartCycle(t)
    PROVE  Base'
<1>0. latest' = latest /\ served' = served /\ CountersOK'
  BY BaseHere DEF Boot, StartCycle, CountersOK, faults
<1>1. CASE Boot(t)
  <2>1. PICK kept \in Seq(Events), r \in TaskType, end \in FinalBlocks :
           /\ OnChain(kept) /\ Sound(Range(kept), finalized)
           /\ db' \in DbType /\ db'.events = Range(kept)
           /\ db'.lastValid # None =>
                 db'.lastValid = db.lastValid /\ db'.events = db.events
           /\ cache' \in CacheType
           /\ tree' = kept /\ up' = "init"
           /\ task' = [task EXCEPT ![t] = r] /\ r.pc = "update"
           /\ r.last = None /\ r.next = Larger(end, Deployment) + 1
    BY <1>1, BootDoes
  <2>2. r.next >= 1
    <3>1. end \in Nat /\ Deployment \in Nat
      BY FinalBlocksFacts, DepositsAssumption
    <3>2. Larger(end, Deployment) \in Nat
      BY <3>1 DEF Larger
    <3> QED
      BY <2>1, <3>2
  <2>3. Steady(r, finalized)
    BY <2>1, <2>2 DEF Steady, Loops
  <2>4. db'.lastValid # None => Closing(db'.lastValid, finalized)
    BY <2>1, BaseHere
  <2> QED
    BY <1>0, <2>1, <2>3, <2>4, BaseHere, MoveKeepsBase
<1>2. CASE StartCycle(t)
  <2>1. PICK r \in TaskType :
           /\ task' = [task EXCEPT ![t] = r] /\ r.pc = "update" /\ r.live
           /\ r.last = None /\ r.next >= 1
    BY <1>2, BaseHere, StartCycleDoes
  <2>2. /\ db' = db /\ up' = up /\ cache' = cache /\ tree' = tree
        /\ up = "running"
    BY <1>2 DEF StartCycle
  <2>3. Steady(r, finalized)
    BY <2>1 DEF Steady, Loops
  <2> QED
    BY <1>0, <2>1, <2>2, <2>3, BaseHere, MoveKeepsBase
<1> QED
  BY <1>1, <1>2

LEMMA BaseGoesWrong ==
    ASSUME Base, NEW t \in Tasks, Fails(t) \/ TimesOut(t)
    PROVE  Base'
<1>0. latest' = latest /\ served' = served /\ db' = db /\ CountersOK'
  BY BaseHere DEF Fails, TimesOut, CountersOK
<1>1. CASE Fails(t)
  <2>1. Throws(t) /\ task[t].pc # "idle"
    BY <1>1 DEF Fails
  <2> QED
    BY <1>0, <2>1, BaseHere, ThrowKeepsBase
<1>2. CASE TimesOut(t)
  <2> DEFINE r == [task[t] EXCEPT !.live = FALSE]
  <2>1. /\ task' = [task EXCEPT ![t] = r] /\ up = "running"
        /\ up' = up /\ cache' = cache /\ tree' = tree
    BY <1>2 DEF TimesOut
  <2>2. /\ r \in TaskType /\ r.pc = task[t].pc /\ r.next = task[t].next
        /\ r.final = task[t].final /\ r.todo = task[t].todo /\ r.indexed = task[t].indexed
        /\ r.last = task[t].last /\ r.block = task[t].block
    BY BaseHere DEF TaskType
  <2> HIDE DEF r
  <2>3. task[t].pc # "idle"
    BY <1>2, BaseHere, IdleFacts DEF Steady, TimesOut
  <2>4. Steady(r, finalized)
    BY <2>2, <2>3, BaseHere DEF Steady
  <2> QED
    BY <1>0, <2>1, <2>2, <2>4, BaseHere, MoveKeepsBase
<1> QED
  BY <1>1, <1>2

LEMMA FinalizedGrows ==
    ASSUME TypeOK, NewBlock \/ latest' = latest
    PROVE  finalized \in Nat /\ finalized' \in Nat /\ finalized <= finalized'
<1>1. latest \in Nat /\ latest' \in Nat /\ latest <= latest'
  BY DEF TypeOK, NewBlock
<1>2. finalized = Larger(latest - Depth, 0) /\ finalized' = Larger(latest' - Depth, 0)
         /\ Depth \in Nat
  BY DepositsAssumption DEF finalized
<1>3. \A l, m \in Nat : l <= m => /\ Larger(l - Depth, 0) \in Nat
                                  /\ Larger(m - Depth, 0) \in Nat
                                  /\ Larger(l - Depth, 0) <= Larger(m - Depth, 0)
  BY <1>2 DEF Larger
<1> QED
  BY <1>1, <1>2, <1>3

LEMMA BaseNewBlock ==
    ASSUME Base, NewBlock
    PROVE  Base'
<1>1. /\ latest' \in 1..MaxBlock
      /\ db' = db /\ up' = up /\ cache' = cache /\ tree' = tree /\ task' = task
      /\ served' = served /\ drops' = drops /\ failures' = failures
      /\ crashes' = crashes /\ timeouts' = timeouts
  BY DepositsAssumption DEF Base, TypeOK, NewBlock, faults
<1>2. finalized \in Nat /\ finalized' \in Nat /\ finalized <= finalized'
  BY FinalizedGrows DEF Base
<1>3. /\ Sound(db.events, finalized')
      /\ db.lastValid # None => Closing(db.lastValid, finalized')
  BY <1>2, LaterIsSound DEF Base, DbSound
<1>4. \A t \in Tasks : Steady(task[t], finalized')
  BY <1>2, LaterIsSound DEF Base, TypeOK
<1>5. TypeOK'
  BY <1>1 DEF Base, TypeOK
<1>6. DbSound'
  BY <1>1, <1>3 DEF DbSound
<1> QED
  BY <1>1, <1>4, <1>5, <1>6 DEF Base

LEMMA BaseStep ==
    ASSUME Base, [Next]_vars
    PROVE  Base'
<1>1. CASE UNCHANGED vars
  BY <1>1 DEF vars, faults, Base, TypeOK, DbSound, finalized
<1>2. CASE \E t \in Tasks : UpdateStep(t)
  BY <1>2, BaseReadFinalized, BaseFetchChunk, BaseIndexEvent, BaseInsertChunk, BaseVerify,
     BaseMark, BaseClear DEF UpdateStep
<1>3. CASE \E t \in Tasks : CollectStep(t)
  BY <1>3, BaseCollectStep
<1>4. CASE \E t \in Tasks : Boot(t) \/ StartCycle(t)
  BY <1>4, BaseBegins
<1>5. CASE Crash
  <2>1. /\ latest' = latest /\ served' = served /\ db' = db /\ ProcessEnds
        /\ crashes' = crashes + 1 /\ drops' = drops /\ failures' = failures
        /\ timeouts' = timeouts
    BY <1>5 DEF Crash
  <2>2. CountersOK' /\ db' \in DbType /\ served' \in ServedType
    BY <2>1 DEF Base, TypeOK, CountersOK, DbType, ServedType
  <2>3. Sound(db'.events, finalized)
           /\ (db'.lastValid # None => Closing(db'.lastValid, finalized))
    BY <2>1 DEF Base, DbSound
  <2> QED
    BY <2>1, <2>2, <2>3, EndKeepsBase
<1>6. CASE \E t \in Tasks : Fails(t) \/ TimesOut(t)
  BY <1>6, BaseGoesWrong
<1>7. CASE NewBlock
  BY <1>7, BaseNewBlock
<1> QED
  BY <1>1, <1>2, <1>3, <1>4, <1>5, <1>6, <1>7 DEF Next

LEMMA BaseInit ==
    ASSUME Init
    PROVE  Base
<1>1. latest \in 1..MaxBlock
  BY DepositsAssumption DEF Init
<1>2. finalized \in Nat
  BY <1>1, DepositsAssumption DEF finalized, Larger
<1>3. /\ db = [events |-> {}, headers |-> None, lastValid |-> None]
      /\ up = "down" /\ cache = EmptyCache /\ tree = <<>>
      /\ task = [t \in Tasks |-> IdleTask] /\ served = None
      /\ drops = 0 /\ failures = 0 /\ crashes = 0 /\ timeouts = 0
  BY DEF Init
<1>4. cache \in [data : Seq(Events), start : Nat, end : FinalBlocks]
  BY <1>3, DepositsAssumption DEF EmptyCache, FinalBlocks, Larger
<1>5. TypeOK
  BY <1>1, <1>3, <1>4, IdleFacts DEF TypeOK
<1>6. DbSound
  BY <1>3 DEF DbSound, Sound, Whole
<1>7. OnChain(tree)
  BY <1>3, OnChainFacts
<1>8. \A t \in Tasks : task[t].pc = "idle" /\ Steady(task[t], finalized)
  BY <1>3, IdleFacts
<1> QED
  BY <1>5, <1>6, <1>7, <1>8 DEF Base

\* Whatever goes wrong, every variable of the registry keeps its type: the
\* headers never leave the final blocks and all of its sequences hold events
\* of the contract (DepositRegistryService, DepositsRegistryStoreService).
THEOREM TypeCorrect == Spec => []TypeOK
<1>1. Init => Base
  BY BaseInit
<1>2. Base /\ [Next]_vars => Base'
  BY BaseStep
<1>3. Base => TypeOK
  BY DEF Base
<1> QED
  BY <1>1, <1>2, <1>3, PTL DEF Spec

-----------------------------------------------------------------------------
(* While providers leave nothing out, headers are honest                    *)

\* All deposits up to block b are among the records.
Holds(b, events) ==
    \A i \in 1..Len(Deposits) : Deposits[i] <= b => Event(i) \in events

\* What an execution r takes for fetched is among the records.
Fetched(r, events) ==
    /\ r.pc \in Loops \cup {"update"} => Holds(r.next - 1, events)
    /\ r.pc \in {"index", "insert"} => r.todo = EventsOf(r.next, EndOf(r))
    /\ r.last # None => Holds(r.last.block, events)

Stored ==
    /\ db.headers # None => Holds(db.headers.end, db.events)
    /\ Holds(cache.end, db.events)
    /\ db.lastValid # None => Holds(db.lastValid.block, db.events)

Promised == drops = 0 => Stored /\ \A t \in Tasks : Fetched(task[t], db.events)

LEMMA HoldsFacts ==
    /\ \A b, E, F : Holds(b, E) /\ E \subseteq F => Holds(b, F)
    /\ \A r, E, F : Fetched(r, E) /\ E \subseteq F => Fetched(r, F)
    /\ \A E : Fetched(IdleTask, E) /\ Holds(0, E) /\ Holds(Deployment, E)
    /\ \A q, r, E : Fetched(q, E) /\ Rests(r, q) => Fetched(r, E)
<1>1. \A b, E, F : Holds(b, E) /\ E \subseteq F => Holds(b, F)
  BY DEF Holds
<1>2. \A r, E, F : Fetched(r, E) /\ E \subseteq F => Fetched(r, F)
  BY <1>1 DEF Fetched
<1>3. \A E : Fetched(IdleTask, E)
  BY IdleFacts DEF Fetched, Loops
<1>4. \A E : Holds(0, E) /\ Holds(Deployment, E)
  BY DepositsFacts DEF Holds
<1>5. \A q, r, E : Fetched(q, E) /\ Rests(r, q) => Fetched(r, E)
  BY <1>3 DEF Rests, Fetched, Loops
<1> QED
  BY <1>1, <1>2, <1>3, <1>4, <1>5

LEMMA MoveKeepsPromise ==
    ASSUME Base, Promised, NEW t \in Tasks, NEW r, task' = [task EXCEPT ![t] = r],
           drops' = 0 => drops = 0, db.events \subseteq db'.events,
           drops' = 0 => Stored' /\ Fetched(r, db'.events)
    PROVE  Promised'
<1> SUFFICES ASSUME drops' = 0 PROVE \A s \in Tasks : Fetched(task'[s], db'.events)
  BY DEF Promised
<1>1. \A s \in Tasks : Fetched(task[s], db.events)
  BY DEF Promised
<1>2. \A s \in Tasks : task'[s] = IF s = t THEN r ELSE task[s]
  BY DEF Base, TypeOK
<1> QED
  BY <1>1, <1>2, HoldsFacts

LEMMA QuietMoveKeepsPromise ==
    ASSUME Base, Promised, NEW t \in Tasks, NEW r, task' = [task EXCEPT ![t] = r],
           drops' = 0 => drops = 0, db' = db, cache' = cache,
           drops = 0 => Fetched(r, db.events)
    PROVE  Promised'
<1>1. drops' = 0 => Stored'
  BY DEF Promised, Stored
<1> QED
  BY <1>1, MoveKeepsPromise

LEMMA EndKeepsPromise ==
    ASSUME Base, Promised, ProcessEnds, drops' = 0 => drops = 0,
           drops = 0 => /\ db'.headers # None => Holds(db'.headers.end, db'.events)
                        /\ db'.lastValid # None => Holds(db'.lastValid.block, db'.events)
    PROVE  Promised'
<1>1. cache'.end = 0 /\ \A s \in Tasks : task'[s] = IdleTask
  BY DEF ProcessEnds, EmptyCache
<1> QED
  BY <1>1, HoldsFacts DEF Promised, Stored

LEMMA ThrowKeepsPromise ==
    ASSUME Base, Promised, NEW t \in Tasks, Throws(t), drops' = 0 => drops = 0, db' = db
    PROVE  Promised'
<1>1. CASE ProcessEnds
  BY <1>1, EndKeepsPromise DEF Promised, Stored
<1>2. CASE task' = [task EXCEPT ![t] = IdleTask] /\ cache' = cache
  BY <1>2, HoldsFacts, QuietMoveKeepsPromise
<1> QED
  BY <1>1, <1>2, ThrowsDoes

\* Incomplete answers are not forgotten.
LEMMA DropsGrow ==
    ASSUME Base, [Next]_vars
    PROVE  drops' \in Nat /\ drops <= drops' /\ (drops' = 0 => drops = 0)
<1>0. drops \in Nat
  BY DEF Base, TypeOK
<1>1. CASE \E t \in Tasks : FetchChunk(t) \/ FetchFresh(t)
  <2>1. ASSUME NEW t \in Tasks, FetchChunk(t) PROVE drops' = drops \/ drops' = drops + 1
    <3>1. PICK a \in Answers(task[t].next, EndOf(task[t])) : drops' = drops + a.fault
      BY <2>1, FetchChunkDoes
    <3>2. task[t] \in TaskType /\ task[t].next <= task[t].final
      BY <2>1, BaseHere DEF FetchChunk, Steady, Loops
    <3>3. EndOf(task[t]) \in Nat /\ task[t].next - 1 <= EndOf(task[t]) /\ task[t].next \in Nat
      BY <3>2, ChunkFacts DEF TaskType
    <3>4. a.fault \in {0, 1}
      BY <3>3, BaseHere, AnswerFacts
    <3> QED
      BY <1>0, <3>1, <3>4
  <2>2. ASSUME NEW t \in Tasks, FetchFresh(t) PROVE drops' = drops \/ drops' = drops + 1
    <3>1. PICK a \in Answers(task[t].next, task[t].block) : drops' = drops + a.fault
      BY <2>2, FetchFreshDoes
    <3>2. a.fault \in {0, 1}
      BY <2>2, BaseHere, FetchFreshDoes, AnswerFacts
    <3> QED
      BY <1>0, <3>1, <3>2
  <2> QED
    BY <1>0, <1>1, <2>1, <2>2
<1>2. CASE ~\E t \in Tasks : FetchChunk(t) \/ FetchFresh(t)
  <2>1. drops' = drops
    BY <1>2 DEF Next, UpdateStep, CollectStep, Boot, StartCycle, ReadFinalized, IndexEvent,
       InsertChunk, Verify, Mark, Clear, Collect, Serve, Fails, TimesOut, Crash, NewBlock,
       vars, faults
  <2> QED
    BY <1>0, <2>1
<1> QED
  BY <1>1, <1>2

LEMMA PromiseUpdateStep ==
    ASSUME Base, Promised, NEW t \in Tasks, drops' = 0 => drops = 0,
           \/ ReadFinalized(t) \/ FetchChunk(t) \/ IndexEvent(t) \/ Verify(t)
    PROVE  Promised'
<1> DEFINE Old == drops = 0 => Fetched(task[t], db.events)
<1>0. Old
  BY DEF Promised
<1>1. CASE ReadFinalized(t)
  <2>1. PICK r \in TaskType :
           /\ task' = [task EXCEPT ![t] = r]
           /\ \/ Rests(r, task[t])
              \/ /\ r.next = task[t].next /\ r.last = task[t].last
                 /\ r.pc \in {"fetch", "verify"}
    BY <1>1, ReadFinalizedDoes
  <2>2. task[t].pc = "update" /\ db' = db /\ cache' = cache
    BY <1>1 DEF ReadFinalized
  <2>3. drops = 0 => Fetched(r, db.events)
    BY <1>0, <2>1, <2>2, HoldsFacts DEF Fetched, Loops
  <2> QED
    BY <2>1, <2>2, <2>3, QuietMoveKeepsPromise
<1>2. CASE FetchChunk(t)
  <2>1. PICK a \in Answers(task[t].next, EndOf(task[t])), r \in TaskType :
           /\ drops' = drops + a.fault
           /\ task' = [task EXCEPT ![t] = r] /\ r.last = task[t].last
           /\ r.next = task[t].next /\ r.final = task[t].final
           /\ r.todo = a.events
    BY <1>2, FetchChunkDoes
  <2>2. task[t].pc = "fetch" /\ db' = db /\ cache' = cache
    BY <1>2 DEF FetchChunk
  <2>3. task[t] \in TaskType /\ task[t].next <= task[t].final
    BY <2>2, BaseHere DEF Steady, Loops
  <2>4. EndOf(task[t]) \in Nat /\ task[t].next - 1 <= EndOf(task[t]) /\ task[t].next \in Nat
    BY <2>3, ChunkFacts DEF TaskType
  <2>5. a.fault = 0 => a.events = EventsOf(task[t].next, EndOf(task[t]))
    BY <2>4, BaseHere, AnswerFacts
  <2>6. a.fault \in {0, 1} /\ drops \in Nat
    BY <2>4, BaseHere, AnswerFacts DEF CountersOK
  <2>7. drops' = 0 => a.fault = 0
    BY <2>1, <2>6
  <2>8. EndOf(r) = EndOf(task[t])
    BY <2>1 DEF EndOf
  <2>9. drops' = 0 => Fetched(r, db.events)
    BY <1>0, <2>1, <2>2, <2>5, <2>7, <2>8 DEF Fetched, Loops
  <2>10. drops' = 0 => Stored'
    BY <2>2 DEF Promised, Stored
  <2> QED
    BY <2>1, <2>2, <2>9, <2>10, MoveKeepsPromise
<1>3. CASE IndexEvent(t)
  <2>1. task[t].pc = "index" /\ db' = db
    BY <1>3 DEF IndexEvent
  <2>2. CASE Throws(t)
    BY <2>1, <2>2, ThrowKeepsPromise
  <2>3. CASE ~Throws(t)
    <3>1. cache' = cache /\ \E r \in TaskType :
             /\ task' = [task EXCEPT ![t] = r] /\ r.last = task[t].last
             /\ r.next = task[t].next /\ r.final = task[t].final
             /\ r.todo = task[t].todo /\ r.pc \in {"insert", "index"}
      BY <1>3, <2>3, IndexEventDoes
    <3>2. PICK r \in TaskType :
             /\ task' = [task EXCEPT ![t] = r] /\ r.last = task[t].last
             /\ r.next = task[t].next /\ r.final = task[t].final
             /\ r.todo = task[t].todo /\ r.pc \in {"insert", "index"}
      BY <3>1
    <3>3. EndOf(r) = EndOf(task[t])
      BY <3>2 DEF EndOf
    <3>4. drops = 0 => Fetched(r, db.events)
      BY <1>0, <2>1, <3>2, <3>3 DEF Fetched, Loops
    <3> QED
      BY <2>1, <3>1, <3>2, <3>4, QuietMoveKeepsPromise
  <2> QED
    BY <2>2, <2>3
<1>4. CASE Verify(t)
  <2>1. PICK r \in TaskType :
           /\ task' = [task EXCEPT ![t] = r]
           /\ \/ Rests(r, task[t])
              \/ r.last = task[t].last /\ r.pc \in {"clear", "mark"}
    BY <1>4, VerifyDoes
  <2>2. task[t].pc = "verify" /\ db' = db /\ cache' = cache
    BY <1>4 DEF Verify
  <2>3. drops = 0 => Fetched(r, db.events)
    BY <1>0, <2>1, <2>2, HoldsFacts DEF Fetched, Loops
  <2> QED
    BY <2>1, <2>2, <2>3, QuietMoveKeepsPromise
<1> QED
  BY <1>1, <1>2, <1>3, <1>4

\* A chunk that holds all of its range takes the promise on to its end.
LEMMA ChunkHolds ==
    ASSUME NEW a \in Nat, NEW b \in Nat, a - 1 <= b, NEW E, Holds(a - 1, E)
    PROVE  Holds(b, E \cup Range(EventsOf(a, b)))
<1>1. a \in Int /\ b \in Int
  OBVIOUS
<1>2. \A i \in 1..Len(Deposits) :
         Event(i) \in Range(EventsOf(a, b)) <=> a <= Deposits[i] /\ Deposits[i] <= b
  BY <1>1, EventsInRange
<1>3. ASSUME NEW i \in 1..Len(Deposits), Deposits[i] <= b
      PROVE  Event(i) \in E \cup Range(EventsOf(a, b))
  <2>1. Deposits[i] <= a - 1 \/ a <= Deposits[i]
    BY DepositsFacts
  <2> QED
    BY <1>2, <1>3, <2>1 DEF Holds
<1> QED
  BY <1>3 DEF Holds

LEMMA PromiseInsertChunk ==
    ASSUME Base, Promised, NEW t \in Tasks, InsertChunk(t)
    PROVE  Promised'
<1>1. /\ task[t].pc = "insert"
      /\ db'.events = db.events \cup Range(task[t].todo)
      /\ db'.headers = [start |-> task[t].start, end |-> EndOf(task[t])]
      /\ db'.lastValid = db.lastValid
      /\ cache'.end = EndOf(task[t])
  BY InsertChunkDoes
<1>2. PICK r \in TaskType :
         /\ task' = [task EXCEPT ![t] = r]
         /\ r.next = task[t].next + Step /\ r.final = task[t].final
         /\ r.last = IF task[t].todo = <<>> THEN task[t].last ELSE Last(task[t].todo)
         /\ \/ r.pc = "fetch" /\ r.next <= r.final
            \/ r.pc = "verify"
  BY InsertChunkDoes
<1>3. drops' = drops
  BY DEF InsertChunk, faults
<1>4. task[t] \in TaskType /\ task[t].next <= task[t].final /\ task[t].next \in Nat
         /\ task[t].todo \in Seq(Canonical)
  BY <1>1, BaseHere DEF Steady, Loops, TaskType
<1>5. /\ EndOf(task[t]) \in Nat /\ task[t].next - 1 <= EndOf(task[t])
      /\ task[t].next + Step <= task[t].final => EndOf(task[t]) = task[t].next + Step - 1
  BY <1>4, ChunkFacts
<1> DEFINE E == db'.events
           d == EndOf(task[t])
<1>6. drops = 0 => Holds(d, E)
  <2>1. drops = 0 => /\ Holds(task[t].next - 1, db.events)
                     /\ task[t].todo = EventsOf(task[t].next, d)
    BY <1>1 DEF Promised, Fetched, Loops
  <2> QED
    BY <1>1, <1>4, <1>5, <2>1, ChunkHolds
<1>7. drops = 0 => (r.last # None => Holds(r.last.block, E))
  <2>1. CASE task[t].todo = <<>>
    BY <1>1, <1>2, <2>1, HoldsFacts DEF Promised, Fetched
  <2>2. CASE task[t].todo # <<>>
    <3> SUFFICES ASSUME drops = 0 PROVE Holds(Last(task[t].todo).block, E)
      BY <1>2, <2>2
    <3>1. task[t].todo = EventsOf(task[t].next, d)
      BY <1>1 DEF Promised, Fetched
    <3>2. task[t].next \in Int /\ d \in Int
      BY <1>4, <1>5
    <3>3. Sound(Range(task[t].todo), d) /\ Sorted(task[t].todo)
      BY <1>5, <3>1, <3>2, SoundRange, RangeIsSorted
    <3>4. Last(task[t].todo).block <= d /\ Last(task[t].todo) \in Canonical
      BY <1>4, <2>2, <3>3, LastCloses DEF Closing
    <3>5. Last(task[t].todo).block \in Nat
      BY <3>4, EventFacts
    <3> QED
      BY <1>5, <1>6, <3>4, <3>5, DepositsFacts DEF Holds
  <2> QED
    BY <2>1, <2>2
<1>8. drops = 0 => Fetched(r, E)
  <2>1. r.pc = "fetch" => r.next - 1 = d
    <3>1. r.pc = "fetch" => d = task[t].next + Step - 1
      BY <1>2, <1>5
    <3>2. r.next - 1 = task[t].next + Step - 1
      BY <1>2, <1>4, DepositsAssumption
    <3> QED
      BY <3>1, <3>2
  <2>2. drops = 0 => (r.pc = "fetch" => Holds(r.next - 1, E))
    BY <1>6, <2>1
  <2> QED
    BY <1>2, <1>7, <2>2 DEF Fetched, Loops
<1>9. drops = 0 => Stored'
  BY <1>1, <1>6, HoldsFacts DEF Promised, Stored
<1> QED
  BY <1>1, <1>2, <1>3, <1>8, <1>9, MoveKeepsPromise

LEMMA PromiseMark ==
    ASSUME Base, Promised, NEW t \in Tasks, Mark(t)
    PROVE  Promised'
<1> DEFINE v == task[t].last
<1>1. /\ task[t].pc = "mark" /\ cache' = cache /\ drops' = drops
      /\ db' = [db EXCEPT !.lastValid = v] /\ UpdateDone(t)
  BY DEF Mark, faults
<1>2. PICK r \in TaskType : task' = [task EXCEPT ![t] = r] /\ Rests(r, task[t])
  BY <1>1, BaseHere, UpdateDoneDoes
<1>3. drops = 0 => (v # None => Holds(v.block, db.events))
  BY DEF Promised, Fetched
<1> HIDE DEF v
<1>4. db'.events = db.events /\ db'.headers = db.headers /\ db'.lastValid = v
  BY <1>1, BaseHere DEF DbType
<1>5. drops = 0 => Fetched(r, db.events)
  BY <1>2, HoldsFacts DEF Promised
<1>6. drops = 0 => Stored'
  BY <1>1, <1>3, <1>4 DEF Promised, Stored
<1> QED
  BY <1>1, <1>2, <1>4, <1>5, <1>6, MoveKeepsPromise

LEMMA PromiseClear ==
    ASSUME Base, Promised, NEW t \in Tasks, Clear(t)
    PROVE  Promised'
<1>1. drops' = drops
  BY DEF Clear, faults
<1>2. \/ Throws(t) /\ db' = db
      \/ /\ ProcessEnds
         /\ db'.events = {e \in db.events : /\ db.lastValid # None
                                            /\ e.count <= db.lastValid.count}
         /\ db'.headers.end = IF db.lastValid = None THEN 0 ELSE db.lastValid.block
         /\ db'.lastValid \in {None, db.lastValid}
  BY ClearDoes
<1>3. CASE Throws(t) /\ db' = db
  BY <1>1, <1>3, ThrowKeepsPromise
<1>4. CASE /\ ProcessEnds
           /\ db'.events = {e \in db.events : /\ db.lastValid # None
                                              /\ e.count <= db.lastValid.count}
           /\ db'.headers.end = IF db.lastValid = None THEN 0 ELSE db.lastValid.block
           /\ db'.lastValid \in {None, db.lastValid}
  <2>1. CASE db.lastValid = None
    <3>1. db'.headers.end = 0 /\ db'.lastValid = None
      BY <1>4, <2>1
    <3> QED
      BY <1>1, <1>4, <3>1, HoldsFacts, EndKeepsPromise
  <2>2. CASE db.lastValid # None
    <3> DEFINE v == db.lastValid
    <3>1. Closing(v, finalized)
      BY <2>2, BaseHere
    <3>2. /\ db'.events = {e \in db.events : e.count <= v.count}
          /\ db'.headers.end = v.block /\ db'.lastValid \in {None, v}
      BY <1>4, <2>2
    <3>3. drops = 0 => Holds(v.block, db.events)
      BY <2>2 DEF Promised, Stored
    <3> HIDE DEF v
    <3>4. v.count \in Nat /\ v.count + 1 \in 1..Len(Deposits)
             /\ v.block = Deposits[v.count + 1] /\ v.block \in Nat
      BY <3>1, EventFacts DEF Closing
    <3>5. ASSUME NEW i \in 1..Len(Deposits), Deposits[i] <= v.block
          PROVE  Event(i).count <= v.count
      <4>1. Event(i).count = i - 1
        BY EventFacts
      <4>2. CASE Deposits[i] = v.block
        BY <3>1, <4>1, <4>2 DEF Closing
      <4>3. CASE Deposits[i] # v.block
        <5>1. ~(Deposits[v.count + 1] <= Deposits[i])
          BY <3>4, <3>5, <4>3, DepositsFacts
        <5>2. ~(v.count + 1 <= i)
          BY <3>4, <5>1, DepositsFacts
        <5> QED
          BY <3>4, <4>1, <5>2, DepositsFacts
      <4> QED
        BY <4>2, <4>3
    <3>6. drops = 0 => Holds(v.block, db'.events)
      BY <3>2, <3>3, <3>5 DEF Holds
    <3> QED
      BY <1>1, <1>4, <3>2, <3>6, EndKeepsPromise
  <2> QED
    BY <2>1, <2>2
<1> QED
  BY <1>2, <1>3, <1>4

LEMMA PromiseCollectStep ==
    ASSUME Base, Promised, NEW t \in Tasks, CollectStep(t), drops' = 0 => drops = 0
    PROVE  Promised'
<1>1. db' = db
  BY DEF CollectStep, Collect, FetchFresh, Serve
<1>2. CASE Throws(t)
  BY <1>1, <1>2, ThrowKeepsPromise
<1>3. CASE ~Throws(t)
  <2>1. cache' = cache /\ \E r : /\ task' = [task EXCEPT ![t] = r]
                                 /\ r.pc \in {"idle", "fresh", "serve"}
                                 /\ r.last = task[t].last \/ r.last = None
    <3>1. CASE Collect(t)
      BY <1>3, <3>1, BaseHere, CollectDoes
    <3>2. CASE FetchFresh(t)
      BY <1>3, <3>2, FetchFreshDoes
    <3>3. CASE Serve(t)
      BY <3>3, IdleFacts DEF Serve
    <3> QED
      BY <3>1, <3>2, <3>3 DEF CollectStep
  <2>2. PICK r : /\ task' = [task EXCEPT ![t] = r]
                 /\ r.pc \in {"idle", "fresh", "serve"}
                 /\ r.last = task[t].last \/ r.last = None
    BY <2>1
  <2>3. drops = 0 => Fetched(r, db.events)
    BY <2>2 DEF Promised, Fetched, Loops
  <2> QED
    BY <1>1, <2>1, <2>2, <2>3, QuietMoveKeepsPromise
<1> QED
  BY <1>2, <1>3

LEMMA PromiseBegins ==
    ASSUME Base, Promised, NEW t \in Tasks, Boot(t) \/ StartCycle(t)
    PROVE  Promised'
<1>0. drops' = drops
  BY DEF Boot, StartCycle, faults
<1>1. CASE Boot(t)
  <2>1. PICK kept \in Seq(Events), r \in TaskType, end \in FinalBlocks :
           /\ \A i \in 1..Len(Deposits) :
                 Deposits[i] <= end => i <= Len(kept) /\ Event(i) \in Range(kept)
           /\ db'.events = Range(kept) /\ db'.headers.end = end
           /\ db'.lastValid # None =>
                 db'.lastValid = db.lastValid /\ db'.events = db.events
           /\ cache'.end = end /\ up = "down"
           /\ task' = [task EXCEPT ![t] = r] /\ r.pc = "update"
           /\ r.last = None /\ r.next = Larger(end, Deployment) + 1
    BY <1>1, BootDoes
  <2>2. Holds(end, db'.events)
    BY <2>1 DEF Holds
  <2>3. end \in Nat /\ Deployment \in Nat
    BY FinalBlocksFacts, DepositsAssumption
  <2>4. r.next - 1 = end \/ r.next - 1 = Deployment
    BY <2>1, <2>3 DEF Larger
  <2>5. Fetched(r, db'.events)
    BY <2>1, <2>2, <2>4, HoldsFacts DEF Fetched, Loops
  <2>6. drops = 0 => Stored'
    BY <2>1, <2>2 DEF Promised, Stored
  <2>7. \A s \in Tasks \ {t} : Fetched(task'[s], db'.events)
    <3>2. \A s \in Tasks : task'[s] = IF s = t THEN r ELSE task[s]
      BY <2>1 DEF Base, TypeOK
    <3> SUFFICES ASSUME NEW s \in Tasks \ {t} PROVE Fetched(task[s], db'.events)
      BY <3>2
    <3>3. task[s] = IdleTask
      BY <2>1 DEF Base, Steady
    <3> QED
      BY <3>3, HoldsFacts
  <2>8. task'[t] = r
    BY <2>1 DEF Base, TypeOK
  <2> QED
    BY <1>0, <2>5, <2>6, <2>7, <2>8 DEF Promised
<1>2. CASE StartCycle(t)
  <2>1. PICK r \in TaskType :
           /\ task' = [task EXCEPT ![t] = r] /\ r.pc = "update"
           /\ r.last = None /\ r.next = CachedEnd + 1
    BY <1>2, BaseHere, StartCycleDoes
  <2>2. db' = db /\ cache' = cache
    BY <1>2 DEF StartCycle
  <2>3. r.next - 1 = cache.end \/ r.next - 1 = Deployment
    BY <2>1, BaseHere, CachedFacts, DepositsAssumption
  <2>4. drops = 0 => Fetched(r, db.events)
    BY <2>1, <2>3, HoldsFacts DEF Promised, Stored, Fetched, Loops
  <2> QED
    BY <1>0, <2>1, <2>2, <2>4, QuietMoveKeepsPromise
<1> QED
  BY <1>1, <1>2

LEMMA PromiseStep ==
    ASSUME Base, Promised, [Next]_vars
    PROVE  Promised'
<1>0. drops' = 0 => drops = 0
  BY DropsGrow
<1>1. CASE UNCHANGED <<db, cache, task>>
  BY <1>0, <1>1 DEF Promised, Stored
<1>2. CASE \E t \in Tasks : UpdateStep(t)
  BY <1>0, <1>2, PromiseUpdateStep, PromiseInsertChunk, PromiseMark, PromiseClear
     DEF UpdateStep
<1>3. CASE \E t \in Tasks : CollectStep(t)
  BY <1>0, <1>3, PromiseCollectStep
<1>4. CASE \E t \in Tasks : Boot(t) \/ StartCycle(t)
  BY <1>4, PromiseBegins
<1>5. CASE Crash
  <2>1. ProcessEnds /\ db' = db
    BY <1>5 DEF Crash
  <2> QED
    BY <1>0, <2>1, EndKeepsPromise DEF Promised, Stored
<1>6. CASE \E t \in Tasks : Fails(t)
  BY <1>0, <1>6, ThrowKeepsPromise DEF Fails
<1>7. CASE \E t \in Tasks : TimesOut(t)
  <2>1. PICK t \in Tasks : TimesOut(t)
    BY <1>7
  <2> DEFINE r == [task[t] EXCEPT !.live = FALSE]
  <2>2. task' = [task EXCEPT ![t] = r] /\ db' = db /\ cache' = cache
    BY <2>1 DEF TimesOut
  <2>3. r.pc = task[t].pc /\ r.next = task[t].next /\ r.todo = task[t].todo
           /\ r.last = task[t].last /\ r.final = task[t].final
    BY BaseHere DEF TaskType
  <2> HIDE DEF r
  <2>4. EndOf(r) = EndOf(task[t])
    BY <2>3 DEF EndOf
  <2>5. drops = 0 => Fetched(r, db.events)
    BY <2>3, <2>4 DEF Promised, Fetched
  <2> QED
    BY <1>0, <2>2, <2>5, QuietMoveKeepsPromise
<1>8. NewBlock => UNCHANGED <<db, cache, task>>
  BY DEF NewBlock
<1>9. UNCHANGED vars => UNCHANGED <<db, cache, task>>
  BY DEF vars
<1> QED
  BY <1>1, <1>2, <1>3, <1>4, <1>5, <1>6, <1>7, <1>8, <1>9 DEF Next

\* However often the process crashes, writes fail and cycles outlast their
\* timeout, the headers in the database promise no deposit that the database
\* does not hold, as long as the providers answer completely
\* (insertEventsCacheBatch, deleteDepositEvents, initialize).
THEOREM HeadersHonest == Spec => []HeadersAreHonest
<1>1. Init => Base /\ Promised
  <2> SUFFICES ASSUME Init PROVE Base /\ Promised
    OBVIOUS
  <2>1. /\ db = [events |-> {}, headers |-> None, lastValid |-> None]
        /\ cache.end = 0 /\ \A t \in Tasks : task[t] = IdleTask
    BY DEF Init, EmptyCache
  <2> QED
    BY <2>1, BaseInit, HoldsFacts DEF Promised, Stored
<1>2. Base /\ Promised /\ [Next]_vars => (Base /\ Promised)'
  BY BaseStep, PromiseStep
<1>3. Base /\ Promised => HeadersAreHonest
  <2> SUFFICES ASSUME Base, Promised, drops = 0, db.headers # None
               PROVE  Range(TrueUpTo(db.headers.end)) \subseteq db.events
    BY DEF HeadersAreHonest
  <2> DEFINE d == db.headers.end
  <2>1. Holds(d, db.events)
    BY DEF Promised, Stored
  <2>2. d \in Nat
    BY FinalBlocksFacts DEF Base, TypeOK, HeadersType
  <2> HIDE DEF d
  <2>3. /\ \A i \in 1..Len(Deposits) :
              Event(i) \in Range(EventsOf(0, d)) => Deposits[i] <= d
        /\ Range(EventsOf(0, d)) \subseteq Canonical
    <3>1. 0 \in Int /\ d \in Int /\ 0 - 1 <= d
      BY <2>2
    <3> QED
      BY <3>1, EventsInRange
  <2>4. \A e \in Range(EventsOf(0, d)) : e \in db.events
    BY <2>1, <2>3, DepositsFacts DEF Holds, Canonical
  <2>5. Range(TrueUpTo(d)) \subseteq db.events
    BY <2>4 DEF TrueUpTo
  <2> QED
    BY <2>5 DEF d
<1> QED
  BY <1>1, <1>2, <1>3, PTL DEF Spec

-----------------------------------------------------------------------------
(* The cache is behind the tree, and what the root agrees to is complete    *)

\* The first leaves or events s go at least as far as block b.
Covers(b, s) == \A i \in 1..Len(Deposits) : Deposits[i] <= b => i <= Len(s)

\* What an execution r goes on from is in the cached events c.
Tracks(r, c) ==
    /\ r.pc \in Loops \cup {"update"} => Covers(r.next - 1, c)
    /\ r.pc \in {"index", "insert"} => r.todo = EventsOf(r.next, EndOf(r))
    /\ r.pc = "fresh" => Covers(r.next - 1, r.data)

Tracked == Covers(CachedEnd, cache.data) /\ \A t \in Tasks : Tracks(task[t], cache.data)

\* An execution r has put events of its chunk into the tree.
Writes(r) == r.pc \in {"index", "insert"} /\ r.indexed >= 1

\* How an execution r is related to the cached events c and n leaves.
Follows(r, c, n) ==
    /\ Writes(r) => /\ n = Len(c) + r.indexed
                    /\ \A i \in 1..r.indexed : r.todo[i] = Event(Len(c) + i)
    /\ r.pc = "fresh" => OnChain(r.data) /\ Len(r.data) <= n
    /\ (r.pc = "serve" /\ r.root = TrueUpTo(r.block)) => r.data \o r.todo = r.root

Ahead ==
    /\ OnChain(cache.data) /\ Len(cache.data) <= Len(tree)
    /\ \A t \in Tasks : Follows(task[t], cache.data, Len(tree))
    /\ \A s, t \in Tasks : Writes(task[s]) /\ Writes(task[t]) => s = t

\* The tree has the cached events and nothing else, but for a chunk on its way.
Level == cache.data = tree \/ \E t \in Tasks : Writes(task[t])

\* No await was rejected and no cycle timed out: one execution at a time.
Quiet == failures = 0 /\ timeouts = 0
Alone ==
    /\ \A s, t \in Tasks : (task[s].pc # "idle" /\ task[t].pc # "idle") => s = t
    /\ \A t \in Tasks : task[t].pc # "idle" => task[t].live

Calm ==
    /\ Alone
    /\ \A t \in Tasks : task[t].pc = "fresh" => task[t].data = cache.data
    /\ drops = 0 => Level
    /\ Level \/ Tracked
    /\ \A t \in Tasks : task[t].pc = "index" =>
          \/ task[t].todo = EventsOf(task[t].next, EndOf(task[t]))
          \/ Covers(CachedEnd, cache.data)

Verified == Tolerable => Ahead /\ (drops = 0 => Tracked) /\ (Quiet => Calm)

LEMMA CoversFacts ==
    /\ \A b, s, u : (Covers(b, s) /\ Len(s) \in Nat /\ Len(u) \in Nat /\ Len(s) <= Len(u))
                        => Covers(b, u)
    /\ \A s : Covers(0, s) /\ Covers(Deployment, s)
<1>1. ASSUME NEW b, NEW s, NEW u, Covers(b, s), Len(s) \in Nat, Len(u) \in Nat,
             Len(s) <= Len(u)
      PROVE  Covers(b, u)
  BY <1>1, DepositsFacts DEF Covers
<1>2. \A s : Covers(0, s) /\ Covers(Deployment, s)
  BY DepositsFacts DEF Covers
<1> QED
  BY <1>1, <1>2

LEMMA CoversCount ==
    ASSUME NEW b \in Int, NEW s, Len(s) \in Nat, Covers(b, s)
    PROVE  DepositCount(b) <= Len(s) /\ DepositCount(b) \in Nat
<1> DEFINE m == DepositCount(b)
<1>1. m \in 0..Len(Deposits) /\ \A i \in 1..Len(Deposits) : i <= m <=> Deposits[i] <= b
  BY Counted
<1> HIDE DEF m
<1>2. CASE m = 0
  BY <1>2 DEF m
<1>3. CASE m # 0
  <2>1. m \in 1..Len(Deposits)
    BY <1>1, <1>3, DepositsFacts
  <2>2. Deposits[m] <= b
    BY <1>1, <2>1
  <2> QED
    BY <1>1, <2>1, <2>2, DepositsFacts DEF Covers, m
<1> QED
  BY <1>2, <1>3

\* A complete chunk after events that reach up to it reaches up to its end.
LEMMA CoversChunk ==
    ASSUME NEW a \in Nat, NEW b \in Nat, a - 1 <= b, NEW c \in Seq(Canonical),
           Covers(a - 1, c)
    PROVE  Covers(b, c \o EventsOf(a, b))
<1> DEFINE s == EventsOf(a, b)
           m == DepositCount(a - 1)
           n == DepositCount(b)
<1>1. a \in Int /\ b \in Int /\ a - 1 \in Int
  OBVIOUS
<1>2. s \in Seq(Canonical) /\ Len(s) = n - m
  BY <1>1, EventsOfFacts
<1>3. m <= Len(c) /\ m \in Nat /\ Len(c) \in Nat
  BY <1>1, CoversCount
<1>4. n \in Nat /\ \A i \in 1..Len(Deposits) : Deposits[i] <= b => i <= n
  <2>1. n \in 0..Len(Deposits) /\ \A i \in 1..Len(Deposits) : i <= n <=> Deposits[i] <= b
    BY <1>1, Counted
  <2> QED
    BY <2>1, DepositsFacts
<1> HIDE DEF s, m, n
<1>5. Len(c \o s) = Len(c) + (n - m)
  BY <1>2
<1>6. n <= Len(c \o s) /\ Len(c \o s) \in Nat
  <2>1. Len(c) + (n - m) \in Int /\ n <= Len(c) + (n - m)
    BY <1>3, <1>4
  <2> QED
    BY <1>4, <1>5, <2>1
<1> QED
  BY <1>4, <1>6, DepositsFacts DEF Covers, s

\* When complete answers and the tree agree with the contract's root, the events
\* they continue are all the leaves of the tree.
LEMMA RootAgrees ==
    ASSUME NEW a \in Nat, NEW b \in Nat, a - 1 <= b, NEW s, OnChain(s), NEW u, OnChain(u),
           Len(s) <= Len(u), Covers(a - 1, s), u \o EventsOf(a, b) = TrueUpTo(b)
    PROVE  s = u
<1> DEFINE x == EventsOf(a, b)
           m == DepositCount(a - 1)
           n == DepositCount(b)
<1>1. a \in Int /\ b \in Int /\ a - 1 \in Int
  OBVIOUS
<1>2. x \in Seq(Canonical) /\ Len(x) = n - m
  BY <1>1, EventsOfFacts
<1>3. s \in Seq(Canonical) /\ u \in Seq(Canonical) /\ Len(s) \in Nat /\ Len(u) \in Nat
  BY OnChainFacts
<1>4. m <= Len(s) /\ m \in Nat
  BY <1>1, <1>3, CoversCount
<1>5. n \in Nat /\ Len(u \o x) = n
  BY <1>1, TruthOnChain, Counted, DepositsFacts
<1> HIDE DEF x, m, n
<1>6. Len(u \o x) = Len(u) + (n - m)
  <2>1. x \in Seq(Canonical) /\ u \in Seq(Canonical)
    BY <1>2, <1>3
  <2>2. Len(u \o x) = Len(u) + Len(x)
    BY <2>1, ConcatProperties
  <2> QED
    BY <1>2, <2>2
<1>7. Len(u) = m
  BY <1>3, <1>4, <1>5, <1>6
<1>8. Len(s) = Len(u)
  BY <1>3, <1>4, <1>7
<1> QED
  BY <1>8, OnChainFacts

\* A complete chunk fits, once its first event did.
LEMMA ChunkFits ==
    ASSUME NEW a \in Nat, NEW b \in Nat, a - 1 <= b, NEW n \in Nat,
           Len(EventsOf(a, b)) >= 1, EventsOf(a, b)[1] = Event(n + 1)
    PROVE  \A i \in 1..Len(EventsOf(a, b)) : EventsOf(a, b)[i] = Event(n + i)
<1> DEFINE s == EventsOf(a, b)
           m == DepositCount(a - 1)
<1>1. a \in Int /\ b \in Int /\ a - 1 \in Int
  OBVIOUS
<1>2. s \in Seq(Canonical) /\ \A j \in 1..Len(s) : s[j] = Event(m + j)
  BY <1>1, EventsOfFacts
<1>3. m \in Nat
  <2>1. m \in 0..Len(Deposits)
    BY <1>1, Counted
  <2> QED
    BY <2>1, DepositsFacts
<1>4. 1 \in 1..Len(s) /\ s[1] = Event(n + 1)
  BY <1>2
<1> HIDE DEF s, m
<1>5. Event(m + 1) = Event(n + 1)
  BY <1>2, <1>4
<1>6. (m + 1) - 1 = (n + 1) - 1
  BY <1>5 DEF Event
<1>7. m = n
  BY <1>3, <1>6
<1> QED
  BY <1>2, <1>7 DEF s

\* The first event of a complete chunk fits only a tree that holds the events
\* the chunk continues and nothing else.
LEMMA FirstFits ==
    ASSUME NEW a \in Nat, NEW b \in Nat, a - 1 <= b, NEW c, OnChain(c), NEW n \in Nat,
           Len(c) <= n, Covers(a - 1, c), Len(EventsOf(a, b)) >= 1,
           EventsOf(a, b)[1].count = n
    PROVE  Len(c) = n
<1> DEFINE s == EventsOf(a, b)
           m == DepositCount(a - 1)
<1>1. a \in Int /\ b \in Int /\ a - 1 \in Int
  OBVIOUS
<1>2. s \in Seq(Canonical) /\ \A j \in 1..Len(s) : s[j] = Event(m + j)
  BY <1>1, EventsOfFacts
<1>3. Len(c) \in Nat /\ m \in Nat /\ m <= Len(c)
  BY <1>1, OnChainFacts, CoversCount
<1>4. 1 \in 1..Len(s)
  BY <1>2
<1>5. s[1].count = n
  OBVIOUS
<1> HIDE DEF s, m
<1>6. s[1] = Event(m + 1)
  BY <1>2, <1>4
<1>7. s[1].count = (m + 1) - 1
  BY <1>6 DEF Event
<1>8. n = m
  BY <1>3, <1>5, <1>7
<1> QED
  BY <1>3, <1>8

\* Faults are counted, and more than one of them is too many when answers were
\* incomplete.
LEMMA FaultsGrow ==
    ASSUME Base, [Next]_vars
    PROVE  /\ Tolerable' => Tolerable
           /\ Quiet' => Quiet
           /\ drops' = 0 => drops = 0
           /\ (Tolerable' /\ ~Quiet') => drops' = 0
           /\ (Tolerable' /\ drops' # drops) => drops = 0 /\ Quiet'
<1>1. /\ drops \in Nat /\ drops' \in Nat /\ failures \in Nat /\ failures' \in Nat
      /\ timeouts \in Nat /\ timeouts' \in Nat /\ drops <= drops'
  BY BaseStep, DropsGrow DEF Base, TypeOK
<1>2. failures <= failures' /\ timeouts <= timeouts'
  <2>1. /\ failures' = failures \/ failures' = failures + 1
        /\ timeouts' = timeouts \/ timeouts' = timeouts + 1
    BY DEF Next, UpdateStep, CollectStep, Boot, StartCycle, ReadFinalized, FetchChunk,
       IndexEvent, InsertChunk, Verify, Mark, Clear, Collect, FetchFresh, Serve, Fails,
       TimesOut, Crash, NewBlock, vars, faults
  <2> QED
    BY <1>1, <2>1
<1>3. /\ Tolerable <=> drops = 0 \/ drops + failures + timeouts <= 1
      /\ Tolerable' <=> drops' = 0 \/ drops' + failures' + timeouts' <= 1
      /\ Quiet <=> failures = 0 /\ timeouts = 0
      /\ Quiet' <=> failures' = 0 /\ timeouts' = 0
  BY DEF FaultsSoFar, Tolerable, Quiet
<1>4. PICK a \in Nat, b \in Nat, c \in Nat, x \in Nat, y \in Nat, z \in Nat :
         /\ a = drops /\ b = failures /\ c = timeouts
         /\ x = drops' /\ y = failures' /\ z = timeouts'
  BY <1>1
<1> DEFINE T1 == drops = 0 \/ drops + failures + timeouts <= 1
           T2 == drops' = 0 \/ drops' + failures' + timeouts' <= 1
           Q1 == failures = 0 /\ timeouts = 0
           Q2 == failures' = 0 /\ timeouts' = 0
<1>5. /\ T2 => T1 /\ (Q2 => Q1)
      /\ (T2 /\ ~Q2) => drops' = 0
      /\ (T2 /\ drops' # drops) => drops = 0 /\ Q2
  <2>1. a <= x /\ b <= y /\ c <= z
    BY <1>1, <1>2, <1>4
  <2>2. /\ (x = 0 \/ x + y + z <= 1) => (a = 0 \/ a + b + c <= 1)
        /\ (y = 0 /\ z = 0) => (b = 0 /\ c = 0)
        /\ ((x = 0 \/ x + y + z <= 1) /\ ~(y = 0 /\ z = 0)) => x = 0
        /\ ((x = 0 \/ x + y + z <= 1) /\ x # a) => (a = 0 /\ y = 0 /\ z = 0)
    BY <2>1
  <2> QED
    BY <1>4, <2>2
<1>6. (Tolerable <=> T1) /\ (Tolerable' <=> T2) /\ (Quiet <=> Q1) /\ (Quiet' <=> Q2)
  BY <1>3
<1> HIDE DEF T1, T2, Q1, Q2
<1>7. drops' = 0 => drops = 0
  BY <1>1
<1>8. Q2 => Q1
  BY <1>2, <1>1 DEF Q1, Q2
<1> QED
  BY <1>5, <1>6, <1>7, <1>8, Zenon

\* The process has ended: nothing is cached and nothing runs.
LEMMA EndVerifies ==
    ASSUME ProcessEnds
    PROVE  Verified'
<1>1. /\ cache'.data = <<>> /\ cache'.end = 0 /\ tree' = <<>>
      /\ \A s \in Tasks : task'[s] = IdleTask
  BY DEF ProcessEnds, EmptyCache
<1>2. OnChain(<<>>) /\ Len(<<>>) = 0
  BY OnChainFacts
<1>3. \A c, n : Follows(IdleTask, c, n) /\ Tracks(IdleTask, c)
  BY IdleFacts DEF Follows, Tracks, Writes, Loops
<1>4. ~Writes(IdleTask)
  BY IdleFacts DEF Writes
<1>5. Ahead'
  BY <1>1, <1>2, <1>3, <1>4 DEF Ahead
<1>6. Tracked'
  <2>1. CachedEnd' = 0 \/ CachedEnd' = Deployment
    BY <1>1 DEF CachedEnd, Larger
  <2>2. Covers(CachedEnd', cache'.data)
    BY <2>1, CoversFacts
  <2> QED
    BY <1>1, <1>3, <2>2 DEF Tracked
<1>7. Calm'
  <2>1. Alone'
    BY <1>1, IdleFacts DEF Alone
  <2>2. Level'
    BY <1>1 DEF Level
  <2> QED
    BY <1>1, <2>1, <2>2, IdleFacts DEF Calm
<1> QED
  BY <1>5, <1>6, <1>7 DEF Verified

\* One execution at a time: the others are idle when it moves.
LEMMA AloneMoves ==
    ASSUME Base, Alone, NEW t \in Tasks, NEW r, task' = [task EXCEPT ![t] = r],
           task[t].pc # "idle" \/ \A s \in Tasks : ~task[s].live,
           r.pc # "idle" => r.live
    PROVE  /\ Alone'
           /\ task'[t] = r
           /\ \A s \in Tasks \ {t} : task[s] = IdleTask /\ task'[s] = IdleTask
<1>1. \A s \in Tasks : task'[s] = IF s = t THEN r ELSE task[s]
  BY DEF Base, TypeOK
<1>2. \A s \in Tasks \ {t} : task[s].pc = "idle"
  BY DEF Alone
<1>3. \A s \in Tasks \ {t} : task[s] = IdleTask
  BY <1>2 DEF Base, Steady
<1>4. \A s \in Tasks \ {t} : task'[s] = IdleTask
  BY <1>1, <1>3
<1>5. Alone'
  <2>1. \A s \in Tasks : task'[s].pc # "idle" => s = t
    BY <1>4, IdleFacts
  <2>2. \A s \in Tasks : task'[s].pc # "idle" => task'[s].live
    BY <1>1, <2>1
  <2> QED
    BY <2>1, <2>2 DEF Alone
<1> QED
  BY <1>1, <1>3, <1>4, <1>5

LEMMA AheadMoves ==
    ASSUME Base, Ahead, NEW t \in Tasks, NEW r, task' = [task EXCEPT ![t] = r],
           cache' = cache, tree' = tree, Follows(r, cache.data, Len(tree)),
           Writes(r) => Writes(task[t])
    PROVE  Ahead'
<1>1. \A s \in Tasks : task'[s] = IF s = t THEN r ELSE task[s]
  BY DEF Base, TypeOK
<1>2. \A s \in Tasks : Follows(task'[s], cache.data, Len(tree))
  BY <1>1 DEF Ahead
<1>3. \A s \in Tasks : Writes(task'[s]) => Writes(task[s])
  BY <1>1
<1>4. \A s, u \in Tasks : Writes(task'[s]) /\ Writes(task'[u]) => s = u
  BY <1>3 DEF Ahead
<1> QED
  BY <1>2, <1>4 DEF Ahead

LEMMA TrackedMoves ==
    ASSUME Base, Tracked, NEW t \in Tasks, NEW r, task' = [task EXCEPT ![t] = r],
           cache' = cache, Tracks(r, cache.data)
    PROVE  Tracked'
<1>1. \A s \in Tasks : task'[s] = IF s = t THEN r ELSE task[s]
  BY DEF Base, TypeOK
<1>2. \A s \in Tasks : Tracks(task'[s], cache.data)
  BY <1>1 DEF Tracked
<1>3. CachedEnd' = CachedEnd
  BY DEF CachedEnd
<1> QED
  BY <1>2, <1>3 DEF Tracked

\* A step that moves an execution and leaves the cache and the tree alone.
LEMMA MoveVerifies ==
    ASSUME Base, Verified, [Next]_vars, NEW t \in Tasks, NEW r,
           task' = [task EXCEPT ![t] = r], cache' = cache, tree' = tree,
           ASSUME Tolerable', Tolerable, Ahead
           PROVE  Follows(r, cache.data, Len(tree)) /\ (Writes(r) => Writes(task[t])),
           ASSUME drops' = 0, Tracked PROVE Tracks(r, cache.data),
           ASSUME Tolerable', Quiet', Calm
           PROVE  /\ task[t].pc # "idle" \/ \A s \in Tasks : ~task[s].live
                  /\ r.pc # "idle" => r.live
                  /\ r.pc = "fresh" => r.data = cache.data
                  /\ Level => Level' \/ Tracked'
                  /\ drops' = 0 => Level'
                  /\ Tracked => Level \/ Tracks(r, cache.data)
                  /\ r.pc = "index" => \/ r.todo = EventsOf(r.next, EndOf(r))
                                       \/ Covers(CachedEnd, cache.data)
    PROVE  Verified'
<1> SUFFICES ASSUME Tolerable' PROVE Ahead' /\ (drops' = 0 => Tracked') /\ (Quiet' => Calm')
  BY DEF Verified
<1>1. Tolerable /\ (Quiet' => Quiet) /\ (drops' = 0 => drops = 0)
  BY FaultsGrow
<1>2. Ahead /\ (drops = 0 => Tracked) /\ (Quiet => Calm)
  BY <1>1 DEF Verified
<1>3. Ahead'
  BY <1>1, <1>2, AheadMoves
<1>4. drops' = 0 => Tracked'
  BY <1>1, <1>2, TrackedMoves
<1>5. ASSUME Quiet' PROVE Calm'
  <2>1. Calm
    BY <1>1, <1>2, <1>5
  <2>2. /\ task[t].pc # "idle" \/ \A s \in Tasks : ~task[s].live
        /\ r.pc # "idle" => r.live
        /\ r.pc = "fresh" => r.data = cache.data
        /\ Level => Level' \/ Tracked'
        /\ drops' = 0 => Level'
        /\ Tracked => Level \/ Tracks(r, cache.data)
        /\ r.pc = "index" => \/ r.todo = EventsOf(r.next, EndOf(r))
                             \/ Covers(CachedEnd, cache.data)
    BY <1>5, <2>1
  <2>3. /\ Alone' /\ task'[t] = r
        /\ \A s \in Tasks \ {t} : task[s] = IdleTask /\ task'[s] = IdleTask
    BY <2>1, <2>2, AloneMoves DEF Calm
  <2>4. Level' \/ Tracked'
    BY <2>1, <2>2, TrackedMoves DEF Calm
  <2>5. CachedEnd' = CachedEnd
    BY DEF CachedEnd
  <2>6. \A s \in Tasks : /\ task'[s].pc = "fresh" => task'[s].data = cache'.data
                         /\ task'[s].pc = "index" =>
                               \/ task'[s].todo = EventsOf(task'[s].next, EndOf(task'[s]))
                               \/ Covers(CachedEnd', cache'.data)
    <3> SUFFICES ASSUME NEW s \in Tasks
                 PROVE  /\ task'[s].pc = "fresh" => task'[s].data = cache'.data
                        /\ task'[s].pc = "index" =>
                              \/ task'[s].todo = EventsOf(task'[s].next, EndOf(task'[s]))
                              \/ Covers(CachedEnd', cache'.data)
      OBVIOUS
    <3>1. CASE s = t
      BY <2>2, <2>3, <2>5, <3>1
    <3>2. CASE s # t
      BY <2>3, <3>2, IdleFacts
    <3> QED
      BY <3>1, <3>2
  <2> QED
    BY <2>2, <2>3, <2>4, <2>6 DEF Calm, Level, Alone
<1> QED
  BY <1>3, <1>4, <1>5

LEMMA LevelStays ==
    ASSUME Base, Level, NEW t \in Tasks, NEW r, task' = [task EXCEPT ![t] = r],
           cache' = cache, tree' = tree, Writes(task[t]) => Writes(r)
    PROVE  Level'
<1>1. \A s \in Tasks : task'[s] = IF s = t THEN r ELSE task[s]
  BY DEF Base, TypeOK
<1>2. CASE cache.data = tree
  BY <1>2 DEF Level
<1>3. CASE cache.data # tree
  <2>1. PICK s \in Tasks : Writes(task[s])
    BY <1>3 DEF Level
  <2>2. Writes(task'[s])
    BY <1>1, <2>1
  <2> QED
    BY <2>2 DEF Level
<1> QED
  BY <1>2, <1>3

LEMMA PlainMoveVerifies ==
    ASSUME Base, Verified, [Next]_vars, NEW t \in Tasks, NEW r,
           task' = [task EXCEPT ![t] = r], cache' = cache, tree' = tree,
           ASSUME Tolerable', Tolerable, Ahead
           PROVE  Follows(r, cache.data, Len(tree)) /\ (Writes(r) => Writes(task[t])),
           ASSUME drops' = 0, Tracked PROVE Tracks(r, cache.data),
           ASSUME Tolerable', Quiet', Calm
           PROVE  /\ Writes(task[t]) => Writes(r)
                  /\ task[t].pc # "idle" \/ \A s \in Tasks : ~task[s].live
                  /\ r.pc # "idle" => r.live
                  /\ r.pc = "fresh" => r.data = cache.data
                  /\ Tracked => Level \/ Tracks(r, cache.data)
                  /\ r.pc = "index" => \/ r.todo = EventsOf(r.next, EndOf(r))
                                       \/ Covers(CachedEnd, cache.data)
    PROVE  Verified'
<1>1. ASSUME Tolerable', Quiet', Calm
      PROVE  (Level => Level' \/ Tracked') /\ (drops' = 0 => Level')
  <2>1. Writes(task[t]) => Writes(r)
    BY <1>1
  <2>2. Level => Level'
    BY <2>1, LevelStays
  <2>3. drops' = 0 => Level
    BY <1>1, FaultsGrow DEF Calm
  <2> QED
    BY <2>2, <2>3
<1> QED
  BY <1>1, MoveVerifies

\* Executions that hold nothing: they have not fetched yet, or are done with it.
LEMMA FreeMoveVerifies ==
    ASSUME Base, Verified, [Next]_vars, NEW t \in Tasks, NEW r,
           task' = [task EXCEPT ![t] = r], cache' = cache, tree' = tree,
           r.pc \notin {"index", "insert", "fresh", "serve"},
           ~Writes(task[t]) \/ ~Quiet',
           task[t].pc # "idle" \/ \A s \in Tasks : ~task[s].live,
           r.pc # "idle" => r.live \/ (task[t].pc # "idle" /\ r.live = task[t].live),
           r.pc \in {"fetch", "update"} /\ Tracked => Covers(r.next - 1, cache.data)
    PROVE  Verified'
<1>1. Follows(r, cache.data, Len(tree)) /\ ~Writes(r)
  BY DEF Follows, Writes
<1>2. Tracked => Tracks(r, cache.data)
  BY DEF Tracks, Loops
<1>3. Calm => (r.pc # "idle" => r.live)
  BY DEF Calm, Alone
<1> QED
  BY <1>1, <1>2, <1>3, PlainMoveVerifies

LEMMA VerifiedThrow ==
    ASSUME Base, Verified, [Next]_vars, NEW t \in Tasks, Throws(t), task[t].pc # "idle",
           ~Writes(task[t]) \/ ~Quiet'
    PROVE  Verified'
<1>1. CASE ProcessEnds
  BY <1>1, EndVerifies
<1>2. CASE task' = [task EXCEPT ![t] = IdleTask] /\ cache' = cache /\ tree' = tree
  BY <1>2, IdleFacts, FreeMoveVerifies
<1> QED
  BY <1>1, <1>2, ThrowsDoes

LEMMA VerifiedReadFinalized ==
    ASSUME Base, Verified, [Next]_vars, NEW t \in Tasks, ReadFinalized(t)
    PROVE  Verified'
<1>1. PICK r \in TaskType :
         /\ task' = [task EXCEPT ![t] = r]
         /\ \/ Rests(r, task[t])
            \/ /\ SameTask(r, task[t]) /\ r.next = task[t].next
               /\ r.pc \in {"fetch", "verify"}
  BY ReadFinalizedDoes
<1>2. task[t].pc = "update" /\ cache' = cache /\ tree' = tree
  BY DEF ReadFinalized
<1>3. Tracked => Covers(task[t].next - 1, cache.data)
  BY <1>2 DEF Tracked, Tracks
<1>4. ~Writes(task[t])
  BY <1>2 DEF Writes
<1>5. /\ r.pc \notin {"index", "insert", "fresh", "serve"}
      /\ r.pc # "idle" => r.live = task[t].live
      /\ r.pc \in {"fetch", "update"} => r.next = task[t].next
  BY <1>1, IdleFacts DEF Rests, SameTask
<1> QED
  BY <1>1, <1>2, <1>3, <1>4, <1>5, FreeMoveVerifies

LEMMA VerifiedVerify ==
    ASSUME Base, Verified, [Next]_vars, NEW t \in Tasks, Verify(t) \/ Mark(t)
    PROVE  Verified'
<1>1. task[t].pc \in {"verify", "mark"} /\ cache' = cache /\ tree' = tree
  BY DEF Verify, Mark
<1>2. \E r : /\ task' = [task EXCEPT ![t] = r]
             /\ \/ Rests(r, task[t])
                \/ SameTask(r, task[t]) /\ r.pc \in {"clear", "mark"}
  BY VerifyDoes, UpdateDoneDoes, BaseHere DEF Mark
<1>3. PICK r : /\ task' = [task EXCEPT ![t] = r]
               /\ \/ Rests(r, task[t])
                  \/ SameTask(r, task[t]) /\ r.pc \in {"clear", "mark"}
  BY <1>2
<1>4. ~Writes(task[t])
  BY <1>1 DEF Writes
<1>5. /\ r.pc \notin {"index", "insert", "fresh", "serve", "fetch", "update"}
      /\ r.pc # "idle" => r.live = task[t].live
  BY <1>3, IdleFacts DEF Rests, SameTask
<1> QED
  BY <1>1, <1>3, <1>4, <1>5, FreeMoveVerifies

LEMMA VerifiedFetchChunk ==
    ASSUME Base, Verified, [Next]_vars, NEW t \in Tasks, FetchChunk(t)
    PROVE  Verified'
<1>1. PICK a \in Answers(task[t].next, EndOf(task[t])), r \in TaskType :
         /\ drops' = drops + a.fault
         /\ task' = [task EXCEPT ![t] = r] /\ SameTask(r, task[t])
         /\ r.next = task[t].next /\ r.final = task[t].final
         /\ r.todo = a.events /\ r.indexed = 0 /\ r.pc \in {"insert", "index"}
  BY FetchChunkDoes
<1>2. task[t].pc = "fetch" /\ cache' = cache /\ tree' = tree
  BY DEF FetchChunk
<1>3. task[t] \in TaskType /\ task[t].next <= task[t].final
  BY <1>2, BaseHere DEF Steady, Loops
<1>4. EndOf(task[t]) \in Nat /\ task[t].next - 1 <= EndOf(task[t]) /\ task[t].next \in Nat
  BY <1>3, ChunkFacts DEF TaskType
<1>5. a.fault \in {0, 1} /\ (a.fault = 0 => a.events = EventsOf(task[t].next, EndOf(task[t])))
  BY <1>4, BaseHere, AnswerFacts
<1>6. EndOf(r) = EndOf(task[t])
  BY <1>1 DEF EndOf
<1>7. ~Writes(task[t]) /\ ~Writes(r)
  BY <1>1, <1>2 DEF Writes
<1>8. Follows(r, cache.data, Len(tree))
  BY <1>1, <1>7 DEF Follows
<1>9. drops \in Nat /\ (drops' = 0 => a.fault = 0) /\ (a.fault = 1 => drops' # drops)
  <2>1. drops \in Nat
    BY BaseHere DEF CountersOK
  <2> QED
    BY <1>1, <1>5, <2>1
<1>10. a.fault = 0 => r.todo = EventsOf(r.next, EndOf(r))
  BY <1>1, <1>5, <1>6
<1>11. (Tracked /\ a.fault = 0) => Tracks(r, cache.data)
  <2>1. Tracked => Covers(task[t].next - 1, cache.data)
    BY <1>2 DEF Tracked, Tracks, Loops
  <2> QED
    BY <1>1, <1>10, <2>1 DEF Tracks
<1>12. (Tolerable' /\ a.fault = 1) => drops = 0 /\ Tolerable
  BY <1>9, FaultsGrow
<1>13. ASSUME Tolerable', Quiet', Calm
       PROVE  /\ Tracked => Level \/ Tracks(r, cache.data)
              /\ r.pc = "index" => \/ r.todo = EventsOf(r.next, EndOf(r))
                                   \/ Covers(CachedEnd, cache.data)
  <2>1. CASE a.fault = 0
    BY <1>10, <1>11, <2>1
  <2>2. CASE a.fault = 1
    <3>1. Level /\ Tracked
      BY <1>12, <1>13, <2>2 DEF Calm, Verified
    <3> QED
      BY <3>1 DEF Tracked
  <2> QED
    BY <1>5, <2>1, <2>2
<1>14. Calm => r.live
  BY <1>1, <1>2 DEF Calm, Alone, SameTask
<1>15. r.pc # "fresh"
  BY <1>1
<1> QED
  BY <1>1, <1>2, <1>7, <1>8, <1>9, <1>11, <1>13, <1>14, <1>15, PlainMoveVerifies

\* An event that fits the tree is the next event of the chunk that goes to the
\* cache, and no other execution is putting one into the tree.
LEMMA FittingEvent ==
    ASSUME Base, Tolerable, Ahead, drops = 0 => Tracked, Quiet => Calm, Quiet \/ drops = 0,
           NEW t \in Tasks, IndexEvent(t), NEW i, i = task[t].indexed + 1,
           task[t].todo[i].count = Len(tree)
    PROVE  /\ Len(tree) = Len(cache.data) + task[t].indexed
           /\ \A j \in 1..i : task[t].todo[j] = Event(Len(cache.data) + j)
           /\ \A s \in Tasks : Writes(task[s]) => s = t
<1> DEFINE q == task[t]
           c == cache.data
           e == q.todo[i]
<1>1. q.pc = "index" /\ i \in 1..Len(q.todo) /\ e \in Canonical
  BY IndexEventDoes
<1>2. /\ q \in TaskType /\ q.next <= q.final /\ q.next \in Nat /\ q.indexed \in Nat
      /\ q.indexed < Len(q.todo) /\ q.todo \in Seq(Canonical)
  BY <1>1, BaseHere DEF Steady, Loops, TaskType
<1>3. EndOf(q) \in Nat /\ q.next - 1 <= EndOf(q)
  BY <1>2, ChunkFacts
<1>4. OnChain(c) /\ Len(c) \in Nat /\ Len(tree) \in Nat /\ Len(c) <= Len(tree)
  BY BaseHere, OnChainFacts DEF Ahead
<1> HIDE DEF c
<1>5. CASE q.indexed >= 1
  <2>1. Writes(q)
    BY <1>1, <1>5 DEF Writes
  <2>2. /\ Len(tree) = Len(c) + q.indexed
        /\ \A j \in 1..q.indexed : q.todo[j] = Event(Len(c) + j)
    BY <2>1 DEF Ahead, Follows, c
  <2>3. \A s \in Tasks : Writes(task[s]) => s = t
    BY <2>1 DEF Ahead
  <2>4. e = Event(e.count + 1) /\ e.count = Len(tree)
    BY <1>1, EventFacts
  <2>5. Len(tree) + 1 = Len(c) + i
    BY <1>2, <1>4, <2>2
  <2>6. e = Event(Len(c) + i)
    BY <2>4, <2>5
  <2>7. \A j \in 1..i : j \in 1..q.indexed \/ j = i
    BY <1>2
  <2> QED
    BY <2>2, <2>3, <2>6, <2>7 DEF c
<1>6. CASE ~(q.indexed >= 1)
  <2>0. q.indexed = 0 /\ i = 1 /\ Len(q.todo) >= 1
    BY <1>2, <1>6
  <2>1. Tracked => Len(c) = Len(tree)
    <3>1. Tracked => Covers(q.next - 1, c) /\ q.todo = EventsOf(q.next, EndOf(q))
      BY <1>1 DEF Tracked, Tracks, Loops, c
    <3> HIDE DEF q, e
    <3>2. q.todo[1].count = Len(tree)
      BY <2>0 DEF q
    <3> QED
      BY <1>2, <1>3, <1>4, <2>0, <3>1, <3>2, FirstFits
  <2>2. ~Writes(task[t])
    BY <2>0 DEF Writes
  <2>3. Calm => (Level => Len(c) = Len(tree))
    <3>1. Calm => \A s \in Tasks : Writes(task[s]) => s = t
      BY <1>1 DEF Calm, Alone, Writes
    <3> QED
      BY <2>2, <3>1 DEF Level, c
  <2>4. Len(c) = Len(tree)
    BY <2>1, <2>3 DEF Calm
  <2>5. \A s \in Tasks : ~Writes(task[s])
    <3> SUFFICES ASSUME NEW s \in Tasks, Writes(task[s]) PROVE FALSE
      OBVIOUS
    <3>1. Len(tree) = Len(c) + task[s].indexed /\ task[s].indexed >= 1
      BY DEF Ahead, Follows, Writes, c
    <3>2. task[s].indexed \in Nat
      BY BaseHere DEF TaskType
    <3> QED
      BY <1>4, <2>4, <3>1, <3>2
  <2>6. e = Event(e.count + 1) /\ e.count = Len(tree)
    BY <1>1, EventFacts
  <2>7. e = Event(Len(c) + 1)
    BY <2>4, <2>6
  <2>8. \A j \in 1..i : j = 1
    BY <2>0
  <2> QED
    BY <1>4, <2>0, <2>4, <2>5, <2>7, <2>8 DEF c
<1> QED
  BY <1>5, <1>6

LEMMA VerifiedIndexFits ==
    ASSUME Base, Verified, [Next]_vars, NEW t \in Tasks, IndexEvent(t),
           task[t].todo[task[t].indexed + 1].count = Len(tree)
    PROVE  Verified'
<1> SUFFICES ASSUME Tolerable' PROVE Ahead' /\ (drops' = 0 => Tracked') /\ (Quiet' => Calm')
  BY DEF Verified
<1> DEFINE i == task[t].indexed + 1
           e == task[t].todo[i]
           c == cache.data
<1>1. Tolerable /\ (Quiet' => Quiet) /\ drops' = drops /\ (Quiet' \/ drops = 0)
  <2>1. drops' = drops
    BY DEF IndexEvent, faults
  <2> QED
    BY <2>1, FaultsGrow
<1>2. Ahead /\ (drops = 0 => Tracked) /\ (Quiet => Calm)
  BY <1>1 DEF Verified
<1>3. /\ Len(tree) = Len(c) + task[t].indexed
      /\ \A j \in 1..i : task[t].todo[j] = Event(Len(c) + j)
      /\ \A s \in Tasks : Writes(task[s]) => s = t
  BY <1>1, <1>2, FittingEvent
<1>4. /\ task[t].pc = "index" /\ i \in 1..Len(task[t].todo) /\ e \in Canonical
      /\ tree' = Append(tree, e) /\ cache' = cache
      /\ \E r \in TaskType :
            /\ task' = [task EXCEPT ![t] = r]
            /\ SameTask(r, task[t])
            /\ r.next = task[t].next /\ r.final = task[t].final
            /\ r.todo = task[t].todo /\ r.indexed = i
            /\ r.pc = IF i = Len(task[t].todo) THEN "insert" ELSE "index"
  BY IndexEventDoes
<1>5. PICK r \in TaskType :
         /\ task' = [task EXCEPT ![t] = r]
         /\ SameTask(r, task[t])
         /\ r.next = task[t].next /\ r.final = task[t].final
         /\ r.todo = task[t].todo /\ r.indexed = i
         /\ r.pc \in {"insert", "index"}
  BY <1>4
<1>6. task[t].indexed \in Nat /\ i \in Nat /\ i >= 1
  <2>1. task[t].indexed \in Nat
    BY BaseHere DEF TaskType
  <2> QED
    BY <2>1
<1>7. OnChain(c) /\ Len(c) \in Nat /\ Len(tree) \in Nat /\ Len(c) <= Len(tree)
         /\ tree \in Seq(Canonical)
  BY <1>2, BaseHere, OnChainFacts DEF Ahead
<1>8. Len(tree') = Len(tree) + 1
  BY <1>4, <1>7
<1>9. Len(tree') = Len(c) + i
  BY <1>3, <1>6, <1>7, <1>8
<1>10. \A s \in Tasks : task'[s] = IF s = t THEN r ELSE task[s]
  BY <1>5 DEF Base, TypeOK
<1> HIDE DEF i, e, c
<1>11. Writes(r)
  BY <1>5, <1>6 DEF Writes
<1>12. Follows(r, c, Len(tree'))
  BY <1>3, <1>5, <1>9 DEF Follows
<1>13. \A s \in Tasks \ {t} : Follows(task[s], c, Len(tree')) /\ ~Writes(task[s])
  <2> SUFFICES ASSUME NEW s \in Tasks \ {t}
               PROVE  Follows(task[s], c, Len(tree')) /\ ~Writes(task[s])
    OBVIOUS
  <2>1. ~Writes(task[s])
    BY <1>3
  <2>2. Follows(task[s], c, Len(tree))
    BY <1>2 DEF Ahead, c
  <2>3. task[s].pc = "fresh" => OnChain(task[s].data) /\ Len(task[s].data) <= Len(tree')
    <3> SUFFICES ASSUME task[s].pc = "fresh"
                 PROVE  OnChain(task[s].data) /\ Len(task[s].data) <= Len(tree')
      OBVIOUS
    <3>1. OnChain(task[s].data) /\ Len(task[s].data) <= Len(tree)
      BY <2>2 DEF Follows
    <3>2. Len(task[s].data) \in Nat
      BY <3>1, OnChainFacts
    <3> QED
      BY <1>7, <1>8, <3>1, <3>2
  <2> QED
    BY <2>1, <2>2, <2>3 DEF Follows
<1>14. Ahead'
  <2>1. Len(c) <= Len(tree')
    BY <1>6, <1>7, <1>9
  <2>2. \A s \in Tasks : Follows(task'[s], c, Len(tree'))
    BY <1>10, <1>12, <1>13
  <2>3. \A s \in Tasks : Writes(task'[s]) => s = t
    BY <1>10, <1>13
  <2> QED
    BY <1>4, <1>7, <2>1, <2>2, <2>3 DEF Ahead, c
<1>15. EndOf(r) = EndOf(task[t])
  BY <1>5 DEF EndOf
<1>16. Tracked => Tracked'
  <2>1. Tracked => Tracks(r, cache.data)
    BY <1>4, <1>5, <1>15 DEF Tracked, Tracks, Loops
  <2> QED
    BY <1>4, <1>5, <2>1, TrackedMoves
<1>17. ASSUME Quiet' PROVE Calm'
  <2>1. Calm
    BY <1>1, <1>2, <1>17
  <2>2. r.live
    BY <1>4, <1>5, <2>1 DEF Calm, Alone, SameTask
  <2>3. Alone' /\ task'[t] = r /\ \A s \in Tasks \ {t} : task'[s] = IdleTask
    BY <1>4, <1>5, <2>1, <2>2, AloneMoves DEF Calm
  <2>4. Level'
    BY <1>11, <2>3 DEF Level
  <2>5. CachedEnd' = CachedEnd
    BY <1>4 DEF CachedEnd
  <2>6. task[t].pc = "index" => \/ r.todo = EventsOf(r.next, EndOf(r))
                                \/ Covers(CachedEnd', cache'.data)
    BY <1>4, <1>5, <1>15, <2>1, <2>5 DEF Calm
  <2>7. \A s \in Tasks : /\ task'[s].pc # "fresh"
                         /\ task'[s].pc = "index" => s = t
    BY <1>5, <2>3, IdleFacts
  <2> QED
    BY <1>4, <2>3, <2>4, <2>6, <2>7 DEF Calm
<1> QED
  BY <1>1, <1>2, <1>14, <1>16, <1>17

\* An event that does not fit: the chunk was incomplete, and the tree is ahead
\* of the cache for good if some of it had been put there.
LEMMA VerifiedIndexThrows ==
    ASSUME Base, Verified, [Next]_vars, NEW t \in Tasks, IndexEvent(t),
           task[t].todo[task[t].indexed + 1].count # Len(tree)
    PROVE  Verified'
<1> DEFINE q == task[t]
           c == cache.data
<1>1. q.pc = "index" /\ Throws(t)
  BY IndexEventDoes
<1>2. CASE ~Writes(q) \/ ~Quiet'
  BY <1>1, <1>2, VerifiedThrow
<1>3. CASE Writes(q) /\ Quiet'
  <2>1. CASE ProcessEnds
    BY <2>1, EndVerifies
  <2>2. CASE task' = [task EXCEPT ![t] = IdleTask] /\ cache' = cache /\ tree' = tree
    <3>1. ASSUME Tolerable', Quiet', Calm
          PROVE  q.todo # EventsOf(q.next, EndOf(q))
      <4> SUFFICES ASSUME q.todo = EventsOf(q.next, EndOf(q)) PROVE FALSE
        OBVIOUS
      <4>1. Ahead
        BY <3>1, FaultsGrow DEF Verified
      <4>2. /\ q \in TaskType /\ q.next <= q.final /\ q.next \in Nat /\ q.indexed \in Nat
            /\ q.indexed < Len(q.todo)
        BY <1>1, BaseHere DEF Steady, Loops, TaskType
      <4>3. EndOf(q) \in Nat /\ q.next - 1 <= EndOf(q)
        BY <4>2, ChunkFacts
      <4>4. q.indexed >= 1 /\ Len(tree) = Len(c) + q.indexed
               /\ \A i \in 1..q.indexed : q.todo[i] = Event(Len(c) + i)
        BY <1>3, <4>1 DEF Ahead, Follows, Writes
      <4>5. Len(c) \in Nat
        BY <4>1, OnChainFacts DEF Ahead
      <4> HIDE DEF c
      <4>6. q.todo[1] = Event(Len(c) + 1)
        BY <4>2, <4>4
      <4>7. q.todo[q.indexed + 1].count = Len(c) + q.indexed
        <5>1. Len(q.todo) >= 1 /\ q.indexed + 1 \in 1..Len(q.todo)
          BY <4>2, <4>4
        <5>2. \A i \in 1..Len(q.todo) : q.todo[i] = Event(Len(c) + i)
          <6>1. PICK a \in Nat, b \in Nat, n \in Nat :
                   a = q.next /\ b = EndOf(q) /\ n = Len(c)
            BY <4>2, <4>3, <4>5
          <6>2. a - 1 <= b /\ q.todo = EventsOf(a, b)
            BY <4>3, <6>1
          <6>3. Len(EventsOf(a, b)) >= 1 /\ EventsOf(a, b)[1] = Event(n + 1)
            BY <4>6, <5>1, <6>1, <6>2
          <6>4. \A i \in 1..Len(EventsOf(a, b)) : EventsOf(a, b)[i] = Event(n + i)
            BY <6>2, <6>3, ChunkFits
          <6> QED
            BY <6>1, <6>2, <6>4
        <5>3. q.todo[q.indexed + 1] = Event(Len(c) + (q.indexed + 1))
          BY <5>1, <5>2
        <5>4. q.todo[q.indexed + 1].count = (Len(c) + (q.indexed + 1)) - 1
          BY <5>3 DEF Event
        <5> QED
          BY <4>2, <4>5, <5>4
      <4> QED
        BY <4>4, <4>7
    <3>2. Follows(IdleTask, c, Len(tree)) /\ ~Writes(IdleTask) /\ Tracks(IdleTask, c)
      BY IdleFacts DEF Follows, Writes, Tracks, Loops
    <3>3. ASSUME Tolerable', Quiet', Calm PROVE Tracked'
      <4>1. Covers(CachedEnd, cache.data)
        BY <1>1, <3>1, <3>3 DEF Calm
      <4>2. \A s \in Tasks : task'[s] = IdleTask
        BY <1>1, <2>2, <3>3, IdleFacts, AloneMoves DEF Calm
      <4>3. CachedEnd' = CachedEnd
        BY <2>2 DEF CachedEnd
      <4> QED
        BY <2>2, <3>2, <4>1, <4>2, <4>3 DEF Tracked
    <3>4. ASSUME Tolerable', Quiet', Calm PROVE drops' # 0
      <4>1. drops = 0 => Tracked
        BY <3>4, FaultsGrow DEF Verified
      <4>2. Tracked => q.todo = EventsOf(q.next, EndOf(q))
        BY <1>1 DEF Tracked, Tracks
      <4> QED
        BY <3>1, <3>4, <4>1, <4>2, FaultsGrow
    <3> QED
      BY <1>1, <2>2, <3>2, <3>3, <3>4, IdleFacts, MoveVerifies
  <2> QED
    BY <1>1, <2>1, <2>2, ThrowsDoes
<1> QED
  BY <1>2, <1>3

LEMMA VerifiedIndexEvent ==
    ASSUME Base, Verified, [Next]_vars, NEW t \in Tasks, IndexEvent(t)
    PROVE  Verified'
BY VerifiedIndexFits, VerifiedIndexThrows

\* What a finished chunk makes of the cached events.
LEMMA ChunkAppended ==
    ASSUME Base, Ahead, NEW t \in Tasks, task[t].pc = "insert", NEW c,
           c = cache.data \o task[t].todo
    PROVE  /\ OnChain(c) /\ Len(c) \in Nat /\ Len(c) <= Len(tree)
           /\ Len(cache.data) \in Nat /\ Len(cache.data) <= Len(c)
           /\ IF Writes(task[t]) THEN c = tree ELSE c = cache.data
<1> DEFINE q == task[t]
           d == cache.data
<1>1. /\ q.indexed = Len(q.todo) /\ q.todo \in Seq(Canonical) /\ q.indexed \in Nat
  BY BaseHere DEF Steady, TaskType
<1>2. OnChain(d) /\ d \in Seq(Canonical) /\ Len(d) \in Nat /\ Len(d) <= Len(tree)
         /\ OnChain(tree)
  BY OnChainFacts DEF Ahead, Base
<1>3. CASE Writes(q)
  <2>1. Len(tree) = Len(d) + Len(q.todo)
           /\ \A i \in 1..Len(q.todo) : q.todo[i] = Event(Len(d) + i)
    BY <1>1, <1>3 DEF Ahead, Follows
  <2> DEFINE s == q.todo
  <2>2. s \in Seq(Canonical) /\ c = d \o s /\ Len(tree) = Len(d) + Len(s)
           /\ \A i \in 1..Len(s) : s[i] = Event(Len(d) + i)
    BY <1>1, <2>1
  <2> HIDE DEF s, d
  <2>3. c \in Seq(Canonical) /\ Len(c) = Len(d) + Len(s) /\ Len(s) \in Nat
    BY <1>2, <2>2
  <2>4. ASSUME NEW i \in 1..Len(c) PROVE c[i] = Event(i)
    <3>1. CASE i <= Len(d)
      <4>1. c[i] = d[i]
        BY <1>2, <2>2, <3>1, ConcatProperties
      <4> QED
        BY <1>2, <3>1, <4>1 DEF OnChain
    <3>2. CASE ~(i <= Len(d))
      <4>1. c[i] = s[i - Len(d)]
        BY <1>2, <2>2, <2>3, <3>2, ConcatProperties
      <4>2. i - Len(d) \in 1..Len(s) /\ Len(d) + (i - Len(d)) = i
        BY <1>2, <2>3, <3>2
      <4> QED
        BY <2>2, <4>1, <4>2
    <3> QED
      BY <3>1, <3>2
  <2>5. OnChain(c)
    BY <2>3, <2>4 DEF OnChain
  <2>6. Len(c) = Len(tree)
    BY <2>2, <2>3
  <2>7. c = tree
    BY <1>2, <2>5, <2>6, OnChainFacts
  <2> QED
    BY <1>2, <1>3, <2>3, <2>5, <2>7 DEF d
<1>4. CASE ~Writes(q)
  <2>1. q.todo = <<>>
    <3>1. ~(Len(q.todo) >= 1)
      BY <1>1, <1>4 DEF Writes
    <3> QED
      BY <1>1, <3>1, EmptySeq
  <2>2. c = d
    BY <1>2, <2>1
  <2> QED
    BY <1>2, <1>4, <2>2
<1> QED
  BY <1>3, <1>4

LEMMA VerifiedInsertChunk ==
    ASSUME Base, Verified, [Next]_vars, NEW t \in Tasks, InsertChunk(t)
    PROVE  Verified'
<1> SUFFICES ASSUME Tolerable' PROVE Ahead' /\ (drops' = 0 => Tracked') /\ (Quiet' => Calm')
  BY DEF Verified
<1> DEFINE q == task[t]
           c == cache'.data
<1>1. Tolerable /\ (Quiet' => Quiet) /\ drops' = drops
  <2>1. drops' = drops
    BY DEF InsertChunk, faults
  <2> QED
    BY <2>1, FaultsGrow
<1>2. Ahead /\ (drops = 0 => Tracked) /\ (Quiet => Calm)
  BY <1>1 DEF Verified
<1>3. /\ q.pc = "insert" /\ c = cache.data \o q.todo /\ cache'.end = EndOf(q)
      /\ tree' = tree
  BY InsertChunkDoes DEF InsertChunk
<1>4. PICK r \in TaskType :
         /\ task' = [task EXCEPT ![t] = r]
         /\ SameTask(r, q)
         /\ r.next = q.next + Step /\ r.final = q.final
         /\ \/ r.pc = "fetch" /\ r.next <= r.final
            \/ r.pc = "verify"
  BY InsertChunkDoes
<1>5. /\ OnChain(c) /\ Len(c) \in Nat /\ Len(c) <= Len(tree)
      /\ Len(cache.data) \in Nat /\ Len(cache.data) <= Len(c)
      /\ IF Writes(q) THEN c = tree ELSE c = cache.data
  BY <1>2, <1>3, ChunkAppended
<1>6. \A s \in Tasks : task'[s] = IF s = t THEN r ELSE task[s]
  BY <1>4 DEF Base, TypeOK
<1>7. q \in TaskType /\ q.next <= q.final /\ q.next \in Nat /\ q.final \in Nat
  BY <1>3, BaseHere, FinalBlocksFacts DEF Steady, Loops, TaskType
<1>8. /\ EndOf(q) \in Nat /\ q.next - 1 <= EndOf(q)
      /\ q.next + Step <= q.final => EndOf(q) = q.next + Step - 1
  BY <1>7, ChunkFacts
<1> HIDE DEF c
<1>9. Ahead'
  <2>1. Follows(r, c, Len(tree)) /\ ~Writes(r)
    BY <1>4 DEF Follows, Writes
  <2>2. ASSUME NEW s \in Tasks \ {t} PROVE Follows(task[s], c, Len(tree))
    <3>1. Follows(task[s], cache.data, Len(tree))
      BY <1>2 DEF Ahead
    <3>2. CASE Writes(q)
      <4>1. ~Writes(task[s])
        BY <1>2, <3>2 DEF Ahead
      <4> QED
        BY <3>1, <4>1 DEF Follows
    <3>3. CASE ~Writes(q)
      BY <1>5, <3>1, <3>3
    <3> QED
      BY <3>2, <3>3
  <2>3. \A s \in Tasks : Follows(task'[s], c, Len(tree))
    BY <1>6, <2>1, <2>2
  <2>4. \A s, u \in Tasks : Writes(task'[s]) /\ Writes(task'[u]) => s = u
    BY <1>2, <1>6, <2>1 DEF Ahead
  <2> QED
    BY <1>3, <1>5, <2>3, <2>4 DEF Ahead, c
<1>10. Tracked => Tracked'
  <2> SUFFICES ASSUME Tracked PROVE Tracked'
    OBVIOUS
  <2>1. Covers(q.next - 1, cache.data) /\ q.todo = EventsOf(q.next, EndOf(q))
    BY <1>3 DEF Tracked, Tracks, Loops
  <2>2. cache.data \in Seq(Canonical)
    BY <1>2 DEF Ahead, OnChain
  <2>3. Covers(EndOf(q), c)
    BY <1>3, <1>7, <1>8, <2>1, <2>2, CoversChunk DEF c
  <2>4. CachedEnd' = EndOf(q) \/ CachedEnd' = Deployment
    BY <1>3 DEF CachedEnd, Larger
  <2>5. Covers(CachedEnd', c)
    BY <2>3, <2>4, CoversFacts
  <2>6. Tracks(r, c)
    <3>1. r.pc = "fetch" => r.next - 1 = EndOf(q)
      <4>1. r.pc = "fetch" => EndOf(q) = q.next + Step - 1
        BY <1>4, <1>8
      <4>2. r.next - 1 = q.next + Step - 1
        BY <1>4, <1>7, DepositsAssumption
      <4> QED
        BY <4>1, <4>2
    <3> QED
      BY <1>4, <2>3, <3>1 DEF Tracks, Loops
  <2>7. ASSUME NEW s \in Tasks PROVE Tracks(task[s], c)
    <3>1. Tracks(task[s], cache.data)
      BY DEF Tracked
    <3>2. \A b : Covers(b, cache.data) => Covers(b, c)
      BY <1>5, CoversFacts
    <3> QED
      BY <3>1, <3>2 DEF Tracks
  <2>8. \A s \in Tasks : Tracks(task'[s], c)
    BY <1>6, <2>6, <2>7
  <2> QED
    BY <2>5, <2>8 DEF Tracked, c
<1>11. ASSUME Quiet' PROVE Calm'
  <2>1. Calm
    BY <1>1, <1>2, <1>11
  <2>2. r.live
    BY <1>3, <1>4, <2>1 DEF Calm, Alone, SameTask
  <2>3. /\ Alone' /\ task'[t] = r
        /\ \A s \in Tasks \ {t} : task[s] = IdleTask /\ task'[s] = IdleTask
    BY <1>3, <1>4, <2>1, <2>2, AloneMoves DEF Calm
  <2>4. Level => Level'
    <3> SUFFICES ASSUME Level PROVE c = tree
      BY <1>3 DEF Level, c
    <3>1. \A s \in Tasks : Writes(task[s]) => s = t
      BY <2>3, IdleFacts DEF Writes
    <3> QED
      BY <1>5, <3>1 DEF Level
  <2>5. \A s \in Tasks : task'[s].pc \notin {"fresh", "index"}
    BY <1>4, <1>6, <2>3, IdleFacts
  <2> QED
    BY <1>1, <1>10, <2>1, <2>3, <2>4, <2>5 DEF Calm
<1> QED
  BY <1>1, <1>2, <1>9, <1>10, <1>11

LEMMA VerifiedCollect ==
    ASSUME Base, Verified, [Next]_vars, NEW t \in Tasks, Collect(t)
    PROVE  Verified'
<1>1. /\ task[t].pc = "collect"
      /\ \/ Throws(t)
         \/ /\ up' = up /\ cache' = cache /\ tree' = tree
            /\ \E r \in TaskType :
                  /\ task' = [task EXCEPT ![t] = r]
                  /\ SameTask(r, task[t]) /\ r.last = task[t].last
                  /\ r.pc = "fresh" /\ r.data = cache.data
                  /\ r.next = CachedEnd + 1 /\ r.block >= CachedEnd
  BY BaseHere, CollectDoes
<1>2. ~Writes(task[t])
  BY <1>1 DEF Writes
<1>3. CASE Throws(t)
  BY <1>1, <1>2, <1>3, VerifiedThrow
<1>4. CASE ~Throws(t)
  <2>1. cache' = cache /\ tree' = tree
    BY <1>1, <1>4
  <2>2. PICK r \in TaskType :
           /\ task' = [task EXCEPT ![t] = r]
           /\ SameTask(r, task[t])
           /\ r.pc = "fresh" /\ r.data = cache.data
           /\ r.next = CachedEnd + 1
    BY <1>1, <1>4
  <2>3. Ahead => Follows(r, cache.data, Len(tree)) /\ ~Writes(r)
    BY <2>2 DEF Ahead, Follows, Writes
  <2>4. Tracked => Tracks(r, cache.data)
    <3>1. r.next - 1 = CachedEnd
      BY <2>2, BaseHere, CachedFacts
    <3> QED
      BY <2>2, <3>1 DEF Tracked, Tracks, Loops
  <2>5. Calm => r.live
    BY <1>1, <2>2 DEF Calm, Alone, SameTask
  <2> QED
    BY <1>1, <1>2, <2>1, <2>2, <2>3, <2>4, <2>5, PlainMoveVerifies
<1> QED
  BY <1>3, <1>4

\* What is about to be served is the whole of the tree that was compared, or
\* that tree is not the contract's.
LEMMA FreshFollows ==
    ASSUME Base, Verified, [Next]_vars, Tolerable', NEW t \in Tasks, task[t].pc = "fresh",
           NEW a \in Answers(task[t].next, task[t].block), drops' = drops + a.fault,
           tree \o a.events = TrueUpTo(task[t].block)
    PROVE  task[t].data = tree
<1> DEFINE q == task[t]
<1>1. /\ q \in TaskType /\ q.next \in Nat /\ q.next >= 1 /\ q.block \in Nat
      /\ q.next - 1 <= q.block
  BY BaseHere DEF Steady, TaskType
<1>2. a.fault \in {0, 1} /\ (a.fault = 0 => a.events = EventsOf(q.next, q.block))
  BY <1>1, BaseHere, AnswerFacts
<1>3. drops \in Nat /\ (a.fault = 1 => drops' # drops) /\ (a.fault = 0 => drops' = drops)
  <2>1. drops \in Nat
    BY BaseHere DEF CountersOK
  <2> QED
    BY <1>2, <2>1
<1>4. /\ Tolerable /\ Ahead /\ (drops = 0 => Tracked) /\ (Quiet => Calm)
      /\ Quiet' => Quiet
  BY FaultsGrow DEF Verified
<1>5. OnChain(q.data) /\ Len(q.data) <= Len(tree) /\ OnChain(tree)
  BY <1>4, BaseHere DEF Ahead, Follows
<1>6. (Tracked /\ a.fault = 0) => q.data = tree
  <2> SUFFICES ASSUME Tracked, a.fault = 0 PROVE q.data = tree
    OBVIOUS
  <2>1. Covers(q.next - 1, q.data)
    BY DEF Tracked, Tracks
  <2>2. PICK m \in Nat, b \in Nat : m = q.next /\ b = q.block
    BY <1>1
  <2>3. m - 1 <= b /\ Covers(m - 1, q.data) /\ tree \o EventsOf(m, b) = TrueUpTo(b)
    BY <1>1, <1>2, <2>1, <2>2
  <2> QED
    BY <1>5, <2>3, RootAgrees
<1>7. (Calm /\ Level) => q.data = tree
  <2> SUFFICES ASSUME Calm, Level PROVE q.data = tree
    OBVIOUS
  <2>1. q.data = cache.data
    BY DEF Calm
  <2>2. \A s \in Tasks : ~Writes(task[s])
    <3> SUFFICES ASSUME NEW s \in Tasks, Writes(task[s]) PROVE FALSE
      OBVIOUS
    <3>1. task[s].pc \in {"index", "insert"}
      BY DEF Writes
    <3>2. s = t
      BY <3>1 DEF Calm, Alone
    <3> QED
      BY <3>1, <3>2
  <2> QED
    BY <2>1, <2>2 DEF Level
<1>8. CASE a.fault = 1
  <2>1. drops = 0 /\ Quiet'
    BY <1>3, <1>8, FaultsGrow
  <2>2. Calm /\ Level
    BY <1>4, <2>1 DEF Calm
  <2> QED
    BY <1>7, <2>2
<1>9. CASE a.fault = 0
  <2>1. CASE drops = 0
    BY <1>4, <1>6, <1>9, <2>1
  <2>2. CASE drops # 0
    <3>1. Quiet'
      BY <1>3, <1>9, <2>2, FaultsGrow
    <3>2. Calm
      BY <1>4, <3>1
    <3> QED
      BY <1>6, <1>7, <1>9, <3>2 DEF Calm
  <2> QED
    BY <2>1, <2>2
<1> QED
  BY <1>2, <1>8, <1>9

LEMMA VerifiedFetchFresh ==
    ASSUME Base, Verified, [Next]_vars, NEW t \in Tasks, FetchFresh(t)
    PROVE  Verified'
<1>1. task[t].pc = "fresh"
  BY DEF FetchFresh
<1>2. PICK a \in Answers(task[t].next, task[t].block) :
         /\ drops' = drops + a.fault
         /\ \/ Throws(t)
            \/ /\ up' = up /\ cache' = cache /\ tree' = tree
               /\ \E r \in TaskType :
                     /\ task' = [task EXCEPT ![t] = r]
                     /\ SameTask(r, task[t]) /\ r.last = task[t].last
                     /\ r.pc = "serve" /\ r.data = task[t].data
                     /\ r.todo = a.events /\ r.root = tree \o a.events
  BY FetchFreshDoes
<1>3. ~Writes(task[t])
  BY <1>1 DEF Writes
<1>4. CASE Throws(t)
  BY <1>1, <1>3, <1>4, VerifiedThrow
<1>5. CASE ~Throws(t)
  <2>1. cache' = cache /\ tree' = tree
    BY <1>2, <1>5
  <2>2. PICK r \in TaskType :
           /\ task' = [task EXCEPT ![t] = r] /\ SameTask(r, task[t])
           /\ r.pc = "serve" /\ r.data = task[t].data
           /\ r.todo = a.events /\ r.root = tree \o a.events
    BY <1>2, <1>5
  <2>3. ASSUME Tolerable' PROVE Follows(r, cache.data, Len(tree)) /\ ~Writes(r)
    <3>1. r.root = TrueUpTo(r.block) => r.data \o r.todo = r.root
      <4> SUFFICES ASSUME r.root = TrueUpTo(r.block) PROVE r.data \o r.todo = r.root
        OBVIOUS
      <4>1. tree \o a.events = TrueUpTo(task[t].block)
        BY <2>2 DEF SameTask
      <4>2. task[t].data = tree
        BY <1>1, <1>2, <2>3, <4>1, FreshFollows
      <4> QED
        BY <2>2, <4>2
    <3> QED
      BY <2>2, <3>1 DEF Follows, Writes
  <2>4. Tracks(r, cache.data)
    BY <2>2 DEF Tracks, Loops
  <2>5. Calm => r.live
    BY <1>1, <2>2 DEF Calm, Alone, SameTask
  <2> QED
    BY <1>1, <1>3, <2>1, <2>2, <2>3, <2>4, <2>5, PlainMoveVerifies
<1> QED
  BY <1>4, <1>5

LEMMA VerifiedBegins ==
    ASSUME Base, Verified, [Next]_vars, NEW t \in Tasks, Boot(t) \/ StartCycle(t)
    PROVE  Verified'
<1>1. CASE StartCycle(t)
  <2>1. PICK r \in TaskType :
           /\ task' = [task EXCEPT ![t] = r] /\ r.pc = "update" /\ r.live
           /\ r.next = CachedEnd + 1
    BY <1>1, BaseHere, StartCycleDoes
  <2>2. /\ cache' = cache /\ tree' = tree /\ task[t].pc = "idle"
        /\ \A s \in Tasks : ~task[s].live
    BY <1>1 DEF StartCycle
  <2>3. r.next - 1 = CachedEnd
    BY <2>1, BaseHere, CachedFacts
  <2>4. Tracked => Covers(r.next - 1, cache.data)
    BY <2>3 DEF Tracked
  <2>5. ~Writes(task[t])
    BY <2>2 DEF Writes
  <2> QED
    BY <2>1, <2>2, <2>4, <2>5, FreeMoveVerifies
<1>2. CASE Boot(t)
  <2>1. PICK kept \in Seq(Events), r \in TaskType, end \in FinalBlocks :
           /\ OnChain(kept)
           /\ \A i \in 1..Len(Deposits) :
                 Deposits[i] <= end => i <= Len(kept) /\ Event(i) \in Range(kept)
           /\ cache'.data = kept /\ cache'.end = end
           /\ tree' = kept /\ up = "down"
           /\ task' = [task EXCEPT ![t] = r] /\ r.pc = "update" /\ r.live
           /\ r.next = Larger(end, Deployment) + 1
    BY <1>2, BootDoes
  <2>2. task'[t] = r /\ \A s \in Tasks \ {t} : task'[s] = IdleTask
    <3>1. \A s \in Tasks : task'[s] = IF s = t THEN r ELSE task[s]
      BY <2>1 DEF Base, TypeOK
    <3>2. \A s \in Tasks : task[s] = IdleTask
      BY <2>1 DEF Base, Steady
    <3> QED
      BY <3>1, <3>2
  <2>3. end \in Nat /\ Deployment \in Nat
    BY FinalBlocksFacts, DepositsAssumption
  <2>4. Covers(Larger(end, Deployment), kept)
    <3>1. Covers(end, kept)
      BY <2>1 DEF Covers
    <3> QED
      BY <3>1, CoversFacts DEF Larger
  <2>5. r.next - 1 = Larger(end, Deployment) /\ CachedEnd' = Larger(end, Deployment)
    <3>1. Larger(end, Deployment) \in Nat
      BY <2>3 DEF Larger
    <3> QED
      BY <2>1, <3>1 DEF CachedEnd
  <2>6. \A c, n : Follows(IdleTask, c, n) /\ Tracks(IdleTask, c)
    BY IdleFacts DEF Follows, Tracks, Writes, Loops
  <2>7. \A c, n : Follows(r, c, n)
    BY <2>1 DEF Follows, Writes
  <2>8. Tracks(r, kept)
    BY <2>1, <2>4, <2>5 DEF Tracks, Loops
  <2>9. \A s \in Tasks : /\ ~Writes(task'[s]) /\ task'[s].pc \notin {"fresh", "index"}
                         /\ task'[s].pc # "idle" => s = t
    BY <2>1, <2>2, IdleFacts DEF Writes
  <2>10. Ahead'
    <3>1. Len(kept) <= Len(kept)
      BY <2>1, OnChainFacts
    <3>2. \A c, n : \A s \in Tasks : Follows(task'[s], c, n)
      BY <2>2, <2>6, <2>7
    <3> QED
      BY <2>1, <2>9, <3>1, <3>2 DEF Ahead
  <2>11. Tracked'
    <3>1. \A s \in Tasks : Tracks(task'[s], kept)
      BY <2>2, <2>6, <2>8
    <3> QED
      BY <2>1, <2>4, <2>5, <3>1 DEF Tracked
  <2>12. Calm'
    <3>1. Alone'
      BY <2>1, <2>2, <2>9 DEF Alone
    <3> QED
      BY <2>1, <2>9, <3>1 DEF Calm, Level
  <2> QED
    BY <2>10, <2>11, <2>12 DEF Verified
<1> QED
  BY <1>1, <1>2

LEMMA VerifiedGoesWrong ==
    ASSUME Base, Verified, [Next]_vars, NEW t \in Tasks, Fails(t) \/ TimesOut(t)
    PROVE  Verified'
<1>1. ~Quiet'
  <2>1. \/ failures' = failures + 1 /\ failures \in Nat
        \/ timeouts' = timeouts + 1 /\ timeouts \in Nat
    BY BaseHere DEF Fails, TimesOut, CountersOK
  <2> QED
    BY <2>1 DEF Quiet
<1>2. CASE Fails(t)
  <2>1. Throws(t) /\ task[t].pc # "idle"
    BY <1>2 DEF Fails
  <2> QED
    BY <1>1, <2>1, VerifiedThrow
<1>3. CASE TimesOut(t)
  <2> DEFINE r == [task[t] EXCEPT !.live = FALSE]
  <2>1. task' = [task EXCEPT ![t] = r] /\ cache' = cache /\ tree' = tree
    BY <1>3 DEF TimesOut
  <2>2. /\ r.pc = task[t].pc /\ r.next = task[t].next /\ r.final = task[t].final
        /\ r.todo = task[t].todo /\ r.indexed = task[t].indexed
        /\ r.data = task[t].data /\ r.root = task[t].root /\ r.block = task[t].block
    BY BaseHere DEF TaskType
  <2> HIDE DEF r
  <2>3. Writes(r) <=> Writes(task[t])
    BY <2>2 DEF Writes
  <2>4. Ahead => Follows(r, cache.data, Len(tree))
    BY <2>2, <2>3 DEF Ahead, Follows
  <2>5. EndOf(r) = EndOf(task[t])
    BY <2>2 DEF EndOf
  <2>6. Tracked => Tracks(r, cache.data)
    BY <2>2, <2>5 DEF Tracked, Tracks
  <2> QED
    BY <1>1, <2>1, <2>3, <2>4, <2>6, PlainMoveVerifies
<1> QED
  BY <1>2, <1>3

LEMMA VerifiedStep ==
    ASSUME Base, Verified, [Next]_vars
    PROVE  Verified'
<1>1. CASE UNCHANGED vars \/ NewBlock
  <2>1. /\ cache' = cache /\ tree' = tree /\ task' = task /\ drops' = drops
        /\ failures' = failures /\ timeouts' = timeouts
    BY <1>1 DEF NewBlock, vars, faults
  <2>2. Tolerable' = Tolerable /\ Quiet' = Quiet
    BY <2>1 DEF Tolerable, FaultsSoFar, Quiet
  <2>3. CachedEnd' = CachedEnd
    BY <2>1 DEF CachedEnd
  <2>4. Ahead' = Ahead /\ Tracked' = Tracked /\ Level' = Level /\ Alone' = Alone
    BY <2>1, <2>3 DEF Ahead, Tracked, Level, Alone
  <2>5. Calm' = Calm
    BY <2>1, <2>3, <2>4 DEF Calm
  <2> QED
    BY <2>1, <2>2, <2>4, <2>5 DEF Verified
<1>2. CASE \E t \in Tasks : UpdateStep(t)
  <2>1. ASSUME NEW t \in Tasks, Clear(t) PROVE Verified'
    <3>1. task[t].pc = "clear" /\ (Throws(t) \/ ProcessEnds)
      BY <2>1, ClearDoes
    <3>2. ~Writes(task[t])
      BY <3>1 DEF Writes
    <3> QED
      BY <3>1, <3>2, EndVerifies, VerifiedThrow
  <2> QED
    BY <1>2, <2>1, VerifiedReadFinalized, VerifiedFetchChunk, VerifiedIndexEvent,
       VerifiedInsertChunk, VerifiedVerify DEF UpdateStep
<1>3. CASE \E t \in Tasks : CollectStep(t)
  <2>1. ASSUME NEW t \in Tasks, Serve(t) PROVE Verified'
    <3>1. /\ task[t].pc = "serve" /\ task' = [task EXCEPT ![t] = IdleTask]
          /\ cache' = cache /\ tree' = tree
      BY <2>1 DEF Serve
    <3>2. ~Writes(task[t])
      BY <3>1 DEF Writes
    <3> QED
      BY <3>1, <3>2, IdleFacts, FreeMoveVerifies
  <2> QED
    BY <1>3, <2>1, VerifiedCollect, VerifiedFetchFresh DEF CollectStep
<1>4. CASE \E t \in Tasks : Boot(t) \/ StartCycle(t)
  BY <1>4, VerifiedBegins
<1>5. CASE \E t \in Tasks : Fails(t) \/ TimesOut(t)
  BY <1>5, VerifiedGoesWrong
<1>6. CASE Crash
  BY <1>6, EndVerifies DEF Crash
<1> QED
  BY <1>1, <1>2, <1>3, <1>4, <1>5, <1>6 DEF Next

LEMMA VerifiedInit ==
    ASSUME Init
    PROVE  Verified
<1>1. /\ cache.data = <<>> /\ cache.end = 0 /\ tree = <<>>
      /\ \A s \in Tasks : task[s] = IdleTask
  BY DEF Init, EmptyCache
<1>2. OnChain(<<>>) /\ Len(<<>>) = 0
  BY OnChainFacts
<1>3. \A c, n : Follows(IdleTask, c, n) /\ Tracks(IdleTask, c) /\ ~Writes(IdleTask)
  BY IdleFacts DEF Follows, Tracks, Writes, Loops
<1>4. Ahead
  BY <1>1, <1>2, <1>3 DEF Ahead
<1>5. Tracked
  <2>1. CachedEnd = 0 \/ CachedEnd = Deployment
    BY <1>1 DEF CachedEnd, Larger
  <2>2. Covers(CachedEnd, cache.data)
    BY <2>1, CoversFacts
  <2> QED
    BY <1>1, <1>3, <2>2 DEF Tracked
<1>6. Calm
  BY <1>1, IdleFacts DEF Calm, Alone, Level
<1> QED
  BY <1>4, <1>5, <1>6 DEF Verified

\* Unless more goes wrong than a single incomplete answer, the cached events
\* are always the first leaves of the tree that their root is taken from
\* (updateEventsCache, DepositIntegrityCheckerService): however cycles that
\* timed out overlap, and whatever writes fail.
THEOREM CacheIsBehind == Spec => []CacheBehindTree
<1>1. Init => Base /\ Verified
  BY BaseInit, VerifiedInit
<1>2. Base /\ Verified /\ [Next]_vars => (Base /\ Verified)'
  BY BaseStep, VerifiedStep
<1>3. Base /\ Verified => CacheBehindTree
  <2> SUFFICES ASSUME Base, Verified, Tolerable PROVE IsPrefix(cache.data, tree)
    BY DEF CacheBehindTree
  <2> DEFINE c == cache.data
  <2>1. OnChain(c) /\ OnChain(tree) /\ Len(c) <= Len(tree)
    BY DEF Verified, Ahead, Base
  <2> HIDE DEF c
  <2>2. c \in Seq(Canonical) /\ tree \in Seq(Canonical) /\ Len(c) \in Nat /\ Len(tree) \in Nat
    BY <2>1, OnChainFacts
  <2>3. \A i \in 1..Len(c) : c[i] = tree[i]
    BY <2>1, <2>2 DEF OnChain
  <2>4. IsPrefix(c, tree)
    BY <2>1, <2>2, <2>3 DEF IsPrefix
  <2> QED
    BY <2>4 DEF c
<1> QED
  BY <1>1, <1>2, <1>3, PTL DEF Spec

\* ... and what getAllDepositedEvents returns for a block is every deposit up
\* to that block, in order: verifyFreshEvents lets nothing else through.
THEOREM ServedComplete == Spec => []ServedIsComplete
<1> DEFINE Inv == Base /\ Verified /\ ServedIsComplete
<1>1. Init => Inv
  BY BaseInit, VerifiedInit DEF Init, ServedIsComplete
<1>2. Inv /\ [Next]_vars => Inv'
  <2> SUFFICES ASSUME Base, Verified, ServedIsComplete, [Next]_vars PROVE ServedIsComplete'
    BY BaseStep, VerifiedStep
  <2>1. CASE served' = served
    BY <2>1, FaultsGrow DEF ServedIsComplete
  <2>2. CASE served' # served
    <3>1. PICK t \in Tasks : Serve(t)
      BY <2>2 DEF Next, UpdateStep, CollectStep, Boot, StartCycle, ReadFinalized,
         FetchChunk, IndexEvent, InsertChunk, Verify, Mark, Clear, Collect, FetchFresh, Fails,
         TimesOut, Crash, NewBlock, vars, faults
    <3> DEFINE b == task[t].block
               s == task[t].data \o task[t].todo
    <3>2. /\ task[t].pc = "serve" /\ task[t].root = TrueUpTo(b)
          /\ served' = [block |-> b, events |-> s]
      BY <2>2, <3>1 DEF Serve, Give
    <3>3. Tolerable' => s = TrueUpTo(b)
      BY <3>2, FaultsGrow DEF Verified, Ahead, Follows
    <3> HIDE DEF b, s
    <3>4. served'.block = b /\ served'.events = s
      BY <3>2
    <3> QED
      BY <3>3, <3>4 DEF ServedIsComplete
  <2> QED
    BY <2>1, <2>2
<1>3. Inv => ServedIsComplete
  OBVIOUS
<1> QED
  BY <1>1, <1>2, <1>3, PTL DEF Spec

=============================================================================
