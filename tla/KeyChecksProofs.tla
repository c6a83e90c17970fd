--------------------------- MODULE KeyChecksProofs ---------------------------
(***************************************************************************)
(* Proofs about KeyChecks: what attestations, unvettings and pauses do to  *)
(* the keys of any operators, whatever happens before they arrive.         *)
(*                                                                         *)
(* The guardian's reading is one step and its messages arrive later, so    *)
(* the invariant Sound says what stays true of a message until then:       *)
(* an attestation the contract would accept is still true of every key     *)
(* its module may fund (AttestedAreFundable), an unvet message still names *)
(* a key with a blemish (UnvetsAreDue), a pause still has its cause        *)
(* (PauseIsDue).  Frame says what each step of the others leaves alone;    *)
(* BadIsBlemished and CleanIsFundable what a reading establishes.          *)
(***************************************************************************)
EXTENDS KeyChecks, FiniteSetTheorems, TLAPS

(***************************************************************************)
(* What the guardian's messages say stays true while they can be accepted: *)
(* the nonce of the module they carry ties them to the keys of its         *)
(* operators, the deposit root to all deposits.                            *)
(***************************************************************************)

\* Deposits of one transaction have the same place and the same credentials;
\* the places are numbered on.
Ledger ==
    /\ IsFiniteSet(deposits)
    /\ \A d \in deposits :
          /\ d.block \in 0..block /\ d.log \in 0..Cardinality(deposits) - 1
          /\ d.valid \in BOOLEAN
          /\ \A e \in deposits : e.log = d.log => e.wc = d.wc

\* Every funded key was deposited for with credentials its module may have.
Funded ==
    \A o \in Operators : \A i \in 1..used[o] :
        \E d \in deposits : /\ d.pub = keys[o][i].pub /\ d.by = o
                            /\ hasAcceptableWC(d, ModuleOf[o])

\* A reason to unvet the i-th key of o; it does not go away as long as the keys
\* of o's module stay as they are.
Blemished(o, i) ==
    \/ ~keys[o][i].valid
    \/ \E e \in deposits : e.pub = keys[o][i].pub /\ e.valid /\ e.wc # WCOf[ModuleOf[o]]
    \/ \E q \in Operators : \E j \in 1..Len(keys[q]) :
          /\ keys[q][j].pub = keys[o][i].pub
          /\ q # o \/ j # i
          /\ q = o \/ j <= used[q]
    \/ \A e \in added : (e.op = o /\ e.pub = keys[o][i].pub)
                           => \E f \in added : f.pub = e.pub /\ f # e /\ ~(e.block < f.block)

\* An unvet message that the contract would accept names an unfunded vetted key
\* of each of its operators, all of its module, and there is a reason to.
UnvetsAreDue ==
    \A u \in unvets :
        /\ u.module \in Modules
        /\ \A o \in DOMAIN u.counts :
              /\ o \in Operators /\ ModuleOf[o] = u.module
              /\ u.counts[o] \in used[o]..vetted[o] - 1
              /\ Blemished(o, u.counts[o] + 1)

\* The i-th key of o may be funded: nobody can take its money, and there is no
\* copy of it that was or might be funded together with it.
Fundable(o, i) ==
    /\ keys[o][i].valid
    /\ \A e \in deposits :
          e.pub = keys[o][i].pub /\ e.valid => e.wc = WCOf[ModuleOf[o]]
    /\ \A q \in Operators : \A j \in 1..used[q] : keys[q][j].pub # keys[o][i].pub
    /\ \A q \in Operators : \A j \in used[q] + 1..vetted[q] :
          (ModuleOf[q] = ModuleOf[o] /\ keys[q][j].pub = keys[o][i].pub) => q = o /\ j = i

\* An attestation that the contract would accept is true of every key that the
\* module may fund.
AttestedAreFundable ==
    \A o \in Operators : \A i \in used[o] + 1..vetted[o] :
        ModuleOf[o] \in attested => Fundable(o, i)

UsedOnce ==
    breaches = 0 =>
        \A o, q \in Operators : \A i \in 1..used[o], j \in 1..used[q] :
            keys[q][j].pub = keys[o][i].pub => q = o /\ j = i

\* A pause is asked for because a key that Lido funded is somebody else's.
PauseIsDue == (pausing \/ paused) => \E d \in deposits : d.by # None /\ Lost(d)

Sound ==
    /\ TypeOK /\ Ledger /\ Funded /\ UnvetsAreDue /\ AttestedAreFundable
    /\ UsedOnce /\ MoneyIsSafe /\ PauseIsDue

-----------------------------------------------------------------------------
(* Sets and numbers                                                         *)

\* A set of natural numbers that is not empty has a smallest element.
LEMMA Smallest ==
    ASSUME NEW S \in SUBSET Nat, S # {}
    PROVE  \E n \in S : \A i \in S : n <= i
<1> DEFINE less == OpToRel(<, Nat)
<1>1. IsWellFoundedOn(less, Nat)
  BY NatLessThanWellFounded
<1>2. \A i, n \in Nat : <<i, n>> \in less <=> i < n
  BY DEF OpToRel
<1> HIDE DEF less
<1>3. PICK n \in S : \A i \in S : ~ (<<i, n>> \in less)
  BY <1>1, WFMin
<1>4. \A i \in S : i \in Nat /\ n \in Nat /\ ~ (i < n)
  BY <1>2, <1>3
<1> QED
  BY <1>4

\* The image of a finite set is finite.
LEMMA FiniteImage ==
    ASSUME NEW f, IsFiniteSet(DOMAIN f), f = [x \in DOMAIN f |-> f[x]]
    PROVE  IsFiniteSet({f[x] : x \in DOMAIN f})
<1> DEFINE T == {f[x] : x \in DOMAIN f}
<1>1. f \in Surjection(DOMAIN f, T)
  BY DEF Surjection
<1> QED
  BY <1>1, FS_Surjection

\* A finite set with two elements has a cardinality above 1.
LEMMA TwoElements ==
    ASSUME NEW S, IsFiniteSet(S), NEW a \in S, NEW b \in S, a # b
    PROVE  Cardinality(S) > 1
<1>1. Cardinality(S) \in Nat
  BY FS_CardinalityType
<1>2. Cardinality(S) # 0
  BY FS_EmptySet
<1>3. Cardinality(S) # 1
  BY FS_Singleton
<1> QED
  BY <1>1, <1>2, <1>3

-----------------------------------------------------------------------------
(* The keys as Keys API lists them                                          *)

\* The fields of a listed key.
LEMMA KeyFields ==
    ASSUME TypeOK, NEW k \in lidoKeys
    PROVE  /\ k.op \in Operators /\ k.index \in Nat
           /\ k.index + 1 \in 1..Len(keys[k.op])
           /\ k = KeyAt(k.op, k.index + 1)
           /\ k.pub = keys[k.op][k.index + 1].pub /\ k.pub \in Pubs
           /\ k.valid <=> keys[k.op][k.index + 1].valid
           /\ k.used <=> k.index + 1 <= used[k.op]
           /\ k.vetted <=> k.index + 1 <= vetted[k.op]
<1>1. PICK o \in Operators : \E i \in 1..Len(keys[o]) : k = KeyAt(o, i)
  BY DEF lidoKeys
<1>2. PICK i \in 1..Len(keys[o]) : k = KeyAt(o, i)
  BY <1>1
<1>3. keys[o] \in Seq(Keys) /\ Len(keys[o]) \in Nat /\ keys[o][i] \in Keys
  BY DEF TypeOK
<1>4. k.op = o /\ k.index = i - 1 /\ i \in Nat /\ k.index + 1 = i
  BY <1>2, <1>3 DEF KeyAt
<1>5. keys[o][i].pub \in Pubs /\ keys[o][i].valid \in BOOLEAN
  BY <1>3 DEF Keys
<1>6. /\ k.pub = keys[o][i].pub /\ k.valid = keys[o][i].valid
      /\ k.used <=> i <= used[o]
      /\ k.vetted <=> i <= vetted[o]
  BY <1>2 DEF KeyAt
<1> QED
  BY <1>2, <1>3, <1>4, <1>5, <1>6

\* Every key of an operator is listed.
LEMMA KeyListed ==
    ASSUME TypeOK, NEW o \in Operators, NEW i \in 1..Len(keys[o])
    PROVE  /\ KeyAt(o, i) \in lidoKeys
           /\ KeyAt(o, i).op = o /\ KeyAt(o, i).index = i - 1 /\ KeyAt(o, i).index + 1 = i
           /\ KeyAt(o, i).pub = keys[o][i].pub
           /\ KeyAt(o, i).valid <=> keys[o][i].valid
           /\ KeyAt(o, i).used <=> i <= used[o]
           /\ KeyAt(o, i).vetted <=> i <= vetted[o]
<1>1. KeyAt(o, i) \in lidoKeys
  BY DEF lidoKeys
<1>2. keys[o] \in Seq(Keys) /\ Len(keys[o]) \in Nat /\ i \in Nat
  BY DEF TypeOK
<1>3. KeyAt(o, i).op = o /\ KeyAt(o, i).index = i - 1 /\ KeyAt(o, i).index + 1 = i
  BY <1>2 DEF KeyAt
<1> QED
  BY <1>1, <1>2, <1>3 DEF KeyAt

\* A key is told by its operator and its index.
LEMMA SameKey ==
    ASSUME TypeOK, NEW k \in lidoKeys, NEW x \in lidoKeys, isSameKey(k, x)
    PROVE  k = x
BY KeyFields DEF isSameKey

\* There are finitely many operators.
LEMMA OperatorsFinite == IsFiniteSet(Operators)
<1>1. Len(OperatorSeq) \in Nat /\ DOMAIN OperatorSeq = 1..Len(OperatorSeq)
  BY ChecksAssumption
<1>2. IsFiniteSet(DOMAIN OperatorSeq)
  BY <1>1, FS_Interval
<1>3. OperatorSeq = [i \in DOMAIN OperatorSeq |-> OperatorSeq[i]]
  BY ChecksAssumption
<1> QED
  BY <1>1, <1>2, <1>3, FiniteImage, ChecksAssumption

\* An operator's finitely many things each make finitely many.
LEMMA FinitelyMany ==
    ASSUME NEW S, \A o \in Operators : IsFiniteSet(S[o]), DOMAIN S = Operators,
           S = [o \in Operators |-> S[o]]
    PROVE  IsFiniteSet(UNION {S[o] : o \in Operators})
<1>1. IsFiniteSet({S[o] : o \in Operators})
  BY OperatorsFinite, FiniteImage
<1> QED
  BY <1>1, FS_UNION

\* There are finitely many keys.
LEMMA KeysFinite ==
    ASSUME TypeOK
    PROVE  IsFiniteSet(lidoKeys)
<1> DEFINE K(o) == [i \in 1..Len(keys[o]) |-> KeyAt(o, i)]
           S == [o \in Operators |-> {KeyAt(o, i) : i \in 1..Len(keys[o])}]
<1>1. ASSUME NEW o \in Operators
      PROVE  IsFiniteSet(S[o])
  <2>1. Len(keys[o]) \in Nat
    BY DEF TypeOK
  <2>2. IsFiniteSet(1..Len(keys[o]))
    BY <2>1, FS_Interval
  <2>3. IsFiniteSet({K(o)[i] : i \in DOMAIN K(o)})
    BY <2>2, FiniteImage
  <2>4. {K(o)[i] : i \in DOMAIN K(o)} = S[o]
    OBVIOUS
  <2> QED
    BY <2>3, <2>4
<1>2. lidoKeys = UNION {S[o] : o \in Operators}
  BY DEF lidoKeys
<1>3. DOMAIN S = Operators /\ S = [o \in Operators |-> S[o]]
  OBVIOUS
<1> HIDE DEF S
<1> QED
  BY <1>1, <1>2, <1>3, FinitelyMany

\* The earliest of some keys has the lowest index of them.
LEMMA Earliest ==
    ASSUME TypeOK, NEW ks \in SUBSET lidoKeys, ks # {}
    PROVE  /\ findEarliestKeyWithinOperator(ks) \in ks
           /\ \A x \in ks : findEarliestKeyWithinOperator(ks).index <= x.index
<1> DEFINE I == {k.index : k \in ks}
<1>1. I \in SUBSET Nat /\ I # {}
  BY KeyFields
<1>2. PICK n \in I : \A i \in I : n <= i
  BY <1>1, Smallest
<1>3. \E k \in ks : \A x \in ks : k.index <= x.index
  BY <1>2
<1> QED
  BY <1>3 DEF findEarliestKeyWithinOperator

-----------------------------------------------------------------------------
(* KeysDuplicationCheckerService                                            *)

\* The copies of a key are finitely many listed keys.
LEMMA GroupOfKeys ==
    ASSUME TypeOK, NEW p
    PROVE  /\ Group(p, lidoKeys) \subseteq lidoKeys /\ IsFiniteSet(Group(p, lidoKeys))
           /\ \A k \in Group(p, lidoKeys) : k.pub = p
<1>1. Group(p, lidoKeys) \subseteq lidoKeys
  BY DEF Group
<1>2. IsFiniteSet(Group(p, lidoKeys))
  BY <1>1, KeysFinite, FS_Subset
<1> QED
  BY <1>1, <1>2 DEF Group

\* All keys but one of the operator's own are returned.
LEMMA NonEarliest ==
    ASSUME TypeOK, NEW ks \in SUBSET lidoKeys, NEW e,
           findOperatorKeys(ks, e.op) # {}
    PROVE  \E first \in ks : /\ first.op = e.op
                             /\ \A k \in ks : k \in filterNonEarliestKeys(e, ks) <=> k # first
<1> DEFINE own == findOperatorKeys(ks, e.op)
           first == findEarliestKeyWithinOperator(own)
<1>1. own \in SUBSET lidoKeys /\ own \subseteq ks /\ own # {}
  BY DEF findOperatorKeys
<1>2. first \in own
  BY <1>1, Earliest
<1>3. first \in ks /\ first \in lidoKeys /\ first.op = e.op
  BY <1>1, <1>2 DEF findOperatorKeys
<1>4. \A k \in ks : isSameKey(k, first) <=> k = first
  BY <1>3, SameKey DEF isSameKey
<1>5. filterNonEarliestKeys(e, ks) = {k \in ks : ~isSameKey(k, first)}
  BY DEF filterNonEarliestKeys
<1> HIDE DEF first, own
<1> QED
  BY <1>3, <1>4, <1>5

\* The verdict about a group is about its own keys.  Of two keys of a group at
\* least one is a duplicate or undecided, and one of them that is unfunded
\* while the other is funded is.
LEMMA VerdictOfGroup ==
    ASSUME TypeOK, NEW p, NEW k \in Group(p, lidoKeys), NEW x \in Group(p, lidoKeys), k # x,
           ~k.used,
           NEW verdict, verdict = processDuplicateKeyGroup(p, Group(p, lidoKeys)),
           k \notin verdict.duplicates, k \notin verdict.unresolved
    PROVE  ~x.used /\ x \in verdict.duplicates
<1> DEFINE ks == Group(p, lidoKeys)
<1>1. ks \in SUBSET lidoKeys /\ ks # {}
  BY GroupOfKeys
<1>2. verdict = processDuplicateKeyGroup(p, ks)
  OBVIOUS
<1>3. k \in ks /\ x \in ks
  OBVIOUS
<1> HIDE DEF ks
<1>4. CASE Cardinality(OperatorsOf(ks)) = 1
  <2> DEFINE first == findEarliestKeyWithinOperator(ks)
  <2>1. first \in ks /\ \A y \in ks : first.index <= y.index
    BY <1>1, Earliest
  <2>2. verdict.duplicates = ks \ {first}
    BY <1>2, <1>4 DEF processDuplicateKeyGroup, Verdict
  <2>3. k = first /\ x \in verdict.duplicates
    BY <1>3, <2>2
  <2>4. k.index <= x.index
    BY <1>3, <2>1, <2>3
  <2>5. PICK o : OperatorsOf(ks) = {o}
    <3>1. IsFiniteSet(OperatorsOf(ks))
      <4>1. OperatorsOf(ks) \subseteq Operators
        BY <1>1, KeyFields DEF OperatorsOf
      <4> QED
        BY <4>1, OperatorsFinite, FS_Subset
    <3> QED
      BY <1>4, <3>1, FS_Singleton
  <2>6. k.op = x.op
    BY <1>3, <2>5 DEF OperatorsOf
  <2>7. /\ k.index \in Nat /\ x.index \in Nat /\ used[k.op] \in Nat
        /\ k.used <=> k.index + 1 <= used[k.op]
        /\ x.used <=> x.index + 1 <= used[x.op]
    BY <1>1, <1>3, KeyFields DEF TypeOK
  <2>8. ~x.used
    BY <2>4, <2>6, <2>7
  <2> QED
    BY <2>3, <2>8
<1>5. CASE Cardinality(OperatorsOf(ks)) # 1 /\ \E y \in ks : y.used
  <2>1. verdict.duplicates = {y \in ks : ~y.used}
    BY <1>2, <1>5 DEF processDuplicateKeyGroup, Verdict
  <2> QED
    BY <1>3, <2>1
<1>6. CASE Cardinality(OperatorsOf(ks)) # 1 /\ ~ \E y \in ks : y.used
  <2> DEFINE events == fetchSigningKeyEvents(p)
             earliest == findEarliestEvents(events)
  <2>1. verdict = getDuplicatesAcrossOperators(p, ks)
    BY <1>2, <1>6 DEF processDuplicateKeyGroup
  <2>2. verdict = Verdict(handleEventsForDuplicates(events, ks), {})
    BY <1>3, <2>1 DEF getDuplicatesAcrossOperators, Verdict
  <2>3. verdict.duplicates = handleEventsForDuplicates(events, ks)
    BY <2>2 DEF Verdict
  <2> HIDE DEF events
  <2>4. /\ Cardinality(earliest) = 1
        /\ verdict.duplicates = UNION {IF findOperatorKeys(ks, e.op) = {} THEN ks
                                       ELSE filterNonEarliestKeys(e, ks) : e \in earliest}
    BY <1>3, <2>3 DEF handleEventsForDuplicates
  <2> HIDE DEF earliest
  <2>5. earliest # {}
    BY <2>4, FS_EmptySet
  <2>6. PICK e \in earliest : TRUE
    BY <2>5
  <2>7. findOperatorKeys(ks, e.op) # {} /\ k \notin filterNonEarliestKeys(e, ks)
    BY <1>3, <2>4, <2>6
  <2>8. PICK first \in ks : \A y \in ks : y \in filterNonEarliestKeys(e, ks) <=> y # first
    BY <1>1, <2>7, NonEarliest
  <2>9. x \in filterNonEarliestKeys(e, ks)
    BY <1>3, <2>7, <2>8
  <2>10. x \in verdict.duplicates
    BY <2>4, <2>6, <2>7, <2>9
  <2> QED
    BY <1>3, <1>6, <2>10
<1> QED
  BY <1>4, <1>5, <1>6

\* An unfunded key that is neither a duplicate nor undecided has no funded
\* copy, and every copy of it is a duplicate.
LEMMA CopiesAreFound ==
    ASSUME TypeOK, NEW k \in lidoKeys, NEW x \in lidoKeys, k # x, k.pub = x.pub, ~k.used,
           k \notin getDuplicatedKeys(lidoKeys).duplicates,
           k \notin getDuplicatedKeys(lidoKeys).unresolved
    PROVE  ~x.used /\ x \in getDuplicatedKeys(lidoKeys).duplicates
<1> DEFINE p == k.pub
           groups == getDuplicateKeyGroups(lidoKeys)
           V(q) == processDuplicateKeyGroup(q, Group(q, lidoKeys))
<1>1. k \in Group(p, lidoKeys) /\ x \in Group(p, lidoKeys) /\ p \in Pubs
  BY KeyFields DEF Group
<1>2. p \in groups
  BY <1>1, GroupOfKeys, TwoElements DEF getDuplicateKeyGroups
<1>3. /\ getDuplicatedKeys(lidoKeys).duplicates = UNION {v.duplicates : v \in {V(q) : q \in groups}}
      /\ getDuplicatedKeys(lidoKeys).unresolved = UNION {v.unresolved : v \in {V(q) : q \in groups}}
  BY DEF getDuplicatedKeys, Verdict
<1>4. V(p) \in {V(q) : q \in groups}
  BY <1>2
<1>5. k \notin V(p).duplicates /\ k \notin V(p).unresolved
  BY <1>3, <1>4
<1>6. ~x.used /\ x \in V(p).duplicates
  BY <1>1, <1>5, VerdictOfGroup
<1> QED
  BY <1>3, <1>4, <1>6

\* What the check for duplicates returns is listed.
LEMMA DuplicatesOfGroup ==
    ASSUME TypeOK, NEW p
    PROVE  processDuplicateKeyGroup(p, Group(p, lidoKeys)).duplicates \subseteq Group(p, lidoKeys)
<1> DEFINE ks == Group(p, lidoKeys)
           events == fetchSigningKeyEvents(p)
<1>1. handleEventsForDuplicates(events, ks) \subseteq ks
  <2> HIDE DEF ks, events
  <2> QED
    BY DEF handleEventsForDuplicates, filterNonEarliestKeys
<1>2. getDuplicatesAcrossOperators(p, ks).duplicates \subseteq ks
  BY <1>1 DEF getDuplicatesAcrossOperators, Verdict
<1> HIDE DEF ks
<1>3. processDuplicateKeyGroup(p, ks).duplicates \subseteq ks
  BY <1>2 DEF processDuplicateKeyGroup, Verdict
<1> QED
  BY <1>3 DEF ks

\* An unfunded duplicate has a copy of the same operator or a funded one, or
\* its operator was not the first to add it.
LEMMA DuplicateOfGroup ==
    ASSUME TypeOK, NEW p, NEW k \in processDuplicateKeyGroup(p, Group(p, lidoKeys)).duplicates,
           ~k.used
    PROVE  \/ \E x \in Group(p, lidoKeys) : x # k /\ (x.op = k.op \/ x.used)
           \/ \A e \in fetchSigningKeyEvents(p) :
                 e.op = k.op => \E f \in fetchSigningKeyEvents(p) : f # e /\ ~(e.block < f.block)
<1> DEFINE ks == Group(p, lidoKeys)
           verdict == processDuplicateKeyGroup(p, ks)
           events == fetchSigningKeyEvents(p)
           earliest == findEarliestEvents(events)
<1>1. ks \in SUBSET lidoKeys /\ k \in ks
  BY GroupOfKeys, DuplicatesOfGroup
<1>2. k \in verdict.duplicates /\ verdict = processDuplicateKeyGroup(p, ks)
  OBVIOUS
<1> HIDE DEF ks, verdict
<1>3. CASE Cardinality(OperatorsOf(ks)) = 1
  <2> DEFINE first == findEarliestKeyWithinOperator(ks)
  <2>1. first \in ks /\ k # first
    <3>1. first \in ks
      BY <1>1, Earliest
    <3>2. verdict.duplicates = ks \ {first}
      BY <1>2, <1>3 DEF processDuplicateKeyGroup, Verdict
    <3> QED
      BY <1>2, <3>1, <3>2
  <2>2. PICK o : OperatorsOf(ks) = {o}
    <3>1. IsFiniteSet(OperatorsOf(ks))
      <4>1. OperatorsOf(ks) \subseteq Operators
        BY <1>1, KeyFields DEF OperatorsOf
      <4> QED
        BY <4>1, OperatorsFinite, FS_Subset
    <3> QED
      BY <1>3, <3>1, FS_Singleton
  <2>3. k.op = first.op
    BY <1>1, <2>1, <2>2 DEF OperatorsOf
  <2> HIDE DEF first
  <2> QED
    BY <2>1, <2>3 DEF ks
<1>4. CASE Cardinality(OperatorsOf(ks)) # 1 /\ \E y \in ks : y.used
  <2>1. PICK y \in ks : y.used
    BY <1>4
  <2>2. y # k
    BY <2>1
  <2> QED
    BY <2>1, <2>2 DEF ks
<1>5. CASE Cardinality(OperatorsOf(ks)) # 1 /\ ~ \E y \in ks : y.used
  <2>1. verdict = getDuplicatesAcrossOperators(p, ks)
    BY <1>2, <1>5 DEF processDuplicateKeyGroup
  <2>2. verdict.duplicates = handleEventsForDuplicates(events, ks)
    BY <1>2, <2>1 DEF getDuplicatesAcrossOperators, Verdict
  <2> SUFFICES ASSUME NEW e \in events, e.op = k.op,
                      \A f \in events : f # e => e.block < f.block
               PROVE  \E x \in ks : x # k /\ x.op = k.op
    BY DEF ks
  <2> HIDE DEF events
  <2>3. earliest = {e}
    <3>1. \A f \in events : (\A x \in events : f.block <= x.block) <=> f = e
      <4>1. \A x \in events : x.block \in Nat
        BY DEF events, fetchSigningKeyEvents, TypeOK
      <4> QED
        BY <4>1
    <3> QED
      BY <3>1 DEF findEarliestEvents
  <2>4. Cardinality(earliest) = 1
    BY <2>3, FS_Singleton
  <2> HIDE DEF earliest
  <2>5. k \in findOperatorKeys(ks, e.op)
    BY <1>1 DEF findOperatorKeys
  <2>6. verdict.duplicates = filterNonEarliestKeys(e, ks)
    BY <2>2, <2>3, <2>4, <2>5 DEF handleEventsForDuplicates, earliest
  <2>7. PICK first \in ks : first.op = e.op /\ (k \in filterNonEarliestKeys(e, ks) <=> k # first)
    BY <1>1, <2>5, NonEarliest
  <2> QED
    BY <1>2, <2>6, <2>7
<1> QED
  BY <1>3, <1>4, <1>5 DEF ks

\* A duplicate is a listed key with a blemish.
LEMMA DuplicatesAreBlemished ==
    ASSUME TypeOK, NEW k \in getDuplicatedKeys(lidoKeys).duplicates, ~k.used
    PROVE  k \in lidoKeys /\ Blemished(k.op, k.index + 1)
<1> DEFINE V(q) == processDuplicateKeyGroup(q, Group(q, lidoKeys))
<1>1. PICK p : k \in V(p).duplicates
  BY DEF getDuplicatedKeys, Verdict
<1>2. k \in Group(p, lidoKeys) /\ k \in lidoKeys /\ k.pub = p
  BY <1>1, DuplicatesOfGroup, GroupOfKeys
<1>3. /\ k.op \in Operators /\ k.index \in Nat
      /\ k.pub = keys[k.op][k.index + 1].pub
  BY <1>2, KeyFields
<1>4. ASSUME NEW x \in Group(p, lidoKeys), x # k, x.op = k.op \/ x.used
      PROVE  Blemished(k.op, k.index + 1)
  <2>1. x \in lidoKeys /\ x.pub = p
    BY GroupOfKeys
  <2>2. /\ x.op \in Operators /\ x.index \in Nat /\ x.index + 1 \in 1..Len(keys[x.op])
        /\ x.pub = keys[x.op][x.index + 1].pub
        /\ x.used <=> x.index + 1 <= used[x.op]
    BY <2>1, KeyFields
  <2>3. x.op # k.op \/ x.index # k.index
    BY <1>2, <1>4, <2>1, SameKey DEF isSameKey
  <2>4. x.op # k.op \/ x.index + 1 # k.index + 1
    BY <1>3, <2>2, <2>3
  <2>5. /\ keys[x.op][x.index + 1].pub = keys[k.op][k.index + 1].pub
        /\ x.op = k.op \/ x.index + 1 <= used[x.op]
    BY <1>2, <1>3, <1>4, <2>1, <2>2
  <2> QED
    BY <2>2, <2>4, <2>5 DEF Blemished
<1>5. ASSUME \A e \in fetchSigningKeyEvents(p) :
                e.op = k.op => \E f \in fetchSigningKeyEvents(p) : f # e /\ ~(e.block < f.block)
      PROVE  Blemished(k.op, k.index + 1)
  <2>1. \A e \in added : (e.op = k.op /\ e.pub = p)
                            => \E f \in added : f.pub = e.pub /\ f # e /\ ~(e.block < f.block)
    BY <1>5 DEF fetchSigningKeyEvents
  <2> QED
    BY <1>2, <1>3, <2>1 DEF Blemished
<1>6. Blemished(k.op, k.index + 1)
  BY <1>1, <1>4, <1>5, DuplicateOfGroup
<1> QED
  BY <1>2, <1>6

-----------------------------------------------------------------------------
(* What a reading establishes                                               *)

\* The findings about a module.
LEMMA Findings ==
    ASSUME NEW m \in Modules
    PROVE  LET ours    == getModuleVettedUnusedKeys(m, lidoKeys)
               verdict == getDuplicatedKeys(lidoKeys)
           IN  /\ CheckKeys(lidoKeys)[m].bad =
                    getInvalidKeys(ours) \cup getFrontRunAttempts(m, ours)
                    \cup getModuleVettedUnusedKeys(m, verdict.duplicates)
               /\ CheckKeys(lidoKeys)[m].unresolved =
                    getModuleVettedUnusedKeys(m, verdict.unresolved)
BY DEF CheckKeys

\* A bad key is an unfunded vetted one of the module, with a blemish.
LEMMA BadIsBlemished ==
    ASSUME TypeOK, NEW m \in Modules, NEW k \in CheckKeys(lidoKeys)[m].bad
    PROVE  /\ k \in lidoKeys /\ k.op \in Operators /\ ModuleOf[k.op] = m
           /\ k.index \in used[k.op]..vetted[k.op] - 1
           /\ Blemished(k.op, k.index + 1)
<1> DEFINE ours == getModuleVettedUnusedKeys(m, lidoKeys)
           duplicates == getDuplicatedKeys(lidoKeys).duplicates
<1>1. \/ k \in getInvalidKeys(ours) \/ k \in getFrontRunAttempts(m, ours)
      \/ k \in getModuleVettedUnusedKeys(m, duplicates)
  BY Findings
<1>2. ~k.used /\ k.vetted /\ ModuleOf[k.op] = m
  BY <1>1 DEF getInvalidKeys, getFrontRunAttempts, getModuleVettedUnusedKeys
<1>3. k \in lidoKeys
  <2>1. k \in lidoKeys \/ k \in duplicates
    BY <1>1 DEF getInvalidKeys, getFrontRunAttempts, getModuleVettedUnusedKeys
  <2> QED
    BY <1>2, <2>1, DuplicatesAreBlemished
<1>4. /\ k.op \in Operators /\ k.index \in Nat /\ k.index + 1 \in 1..Len(keys[k.op])
      /\ k.pub = keys[k.op][k.index + 1].pub
      /\ k.valid <=> keys[k.op][k.index + 1].valid
      /\ ~(k.index + 1 <= used[k.op]) /\ k.index + 1 <= vetted[k.op]
  BY <1>2, <1>3, KeyFields
<1>5. k.index \in used[k.op]..vetted[k.op] - 1
  BY <1>4 DEF TypeOK
<1> SUFFICES Blemished(k.op, k.index + 1)
  BY <1>2, <1>3, <1>4, <1>5
<1>6. CASE k \in getInvalidKeys(ours)
  BY <1>4, <1>6 DEF getInvalidKeys, Blemished
<1>7. CASE k \in getFrontRunAttempts(m, ours)
  BY <1>2, <1>4, <1>7 DEF getFrontRunAttempts, Blemished
<1>8. CASE k \in getModuleVettedUnusedKeys(m, duplicates)
  <2>1. k \in duplicates
    BY <1>8 DEF getModuleVettedUnusedKeys
  <2> QED
    BY <1>2, <2>1, DuplicatesAreBlemished
<1> QED
  BY <1>1, <1>6, <1>7, <1>8

\* A module without bad and undecided keys may be funded.
LEMMA CleanIsFundable ==
    ASSUME TypeOK, NEW o \in Operators, NEW i \in used[o] + 1..vetted[o],
           CheckKeys(lidoKeys)[ModuleOf[o]].bad = {},
           CheckKeys(lidoKeys)[ModuleOf[o]].unresolved = {}
    PROVE  Fundable(o, i)
<1> DEFINE m == ModuleOf[o]
           ours == getModuleVettedUnusedKeys(m, lidoKeys)
           verdict == getDuplicatedKeys(lidoKeys)
           k == KeyAt(o, i)
<1>1. m \in Modules
  BY ChecksAssumption
<1>2. ASSUME NEW q \in Operators, NEW j \in used[q] + 1..vetted[q]
      PROVE  j \in 1..Len(keys[q]) /\ ~(j <= used[q]) /\ j <= vetted[q] /\ j \in Nat
  <2>1. /\ keys[q] \in Seq(Keys) /\ Len(keys[q]) \in Nat
        /\ used[q] \in Nat /\ vetted[q] \in Nat /\ vetted[q] <= Len(keys[q])
    BY DEF TypeOK
  <2> QED
    BY <2>1
<1>3. /\ k \in lidoKeys /\ k.op = o /\ ~k.used /\ k.vetted
      /\ k.pub = keys[o][i].pub /\ (k.valid <=> keys[o][i].valid)
  BY <1>2, KeyListed
<1> HIDE DEF k
<1>4. k \in ours
  BY <1>3 DEF getModuleVettedUnusedKeys
<1>5. /\ k \notin getInvalidKeys(ours) /\ k \notin getFrontRunAttempts(m, ours)
      /\ getModuleVettedUnusedKeys(m, verdict.duplicates) = {}
      /\ getModuleVettedUnusedKeys(m, verdict.unresolved) = {}
  BY <1>1, Findings
<1>6. k \notin verdict.duplicates /\ k \notin verdict.unresolved
  BY <1>3, <1>5 DEF getModuleVettedUnusedKeys
<1>7. keys[o][i].valid
  BY <1>3, <1>4, <1>5 DEF getInvalidKeys
<1>8. \A e \in deposits : e.pub = keys[o][i].pub /\ e.valid => e.wc = WCOf[ModuleOf[o]]
  BY <1>3, <1>4, <1>5 DEF getFrontRunAttempts
<1>9. ASSUME NEW q \in Operators, NEW j \in 1..used[q]
      PROVE  keys[q][j].pub # keys[o][i].pub
  <2>1. j \in 1..Len(keys[q]) /\ j <= used[q]
    <3>1. /\ keys[q] \in Seq(Keys) /\ Len(keys[q]) \in Nat
          /\ used[q] \in Nat /\ vetted[q] \in Nat
          /\ used[q] <= vetted[q] /\ vetted[q] <= Len(keys[q])
      BY DEF TypeOK
    <3> QED
      BY <3>1
  <2>2. KeyAt(q, j) \in lidoKeys /\ KeyAt(q, j).used /\ KeyAt(q, j).pub = keys[q][j].pub
    BY <2>1, KeyListed
  <2>3. KeyAt(q, j) # k
    BY <1>3, <2>2
  <2> QED
    BY <1>3, <1>6, <2>2, <2>3, CopiesAreFound
<1>10. ASSUME NEW q \in Operators, NEW j \in used[q] + 1..vetted[q],
              ModuleOf[q] = ModuleOf[o], keys[q][j].pub = keys[o][i].pub
       PROVE  q = o /\ j = i
  <2> DEFINE x == KeyAt(q, j)
  <2>1. /\ x \in lidoKeys /\ x.op = q /\ x.index = j - 1 /\ ~x.used /\ x.vetted
        /\ x.pub = keys[q][j].pub
    BY <1>2, <1>10, KeyListed
  <2>2. k.index = i - 1
    BY <1>2, KeyListed DEF k
  <2> HIDE DEF x
  <2>3. x \notin verdict.duplicates
    BY <1>5, <1>10, <2>1 DEF getModuleVettedUnusedKeys
  <2>4. x = k
    BY <1>3, <1>6, <1>10, <2>1, <2>3, CopiesAreFound
  <2>5. i \in Nat /\ j \in Nat
    BY <1>2
  <2> QED
    BY <1>3, <2>1, <2>2, <2>4, <2>5
<1> QED
  BY <1>7, <1>8, <1>9, <1>10 DEF Fundable

-----------------------------------------------------------------------------
(* Types                                                                    *)

\* A history the daemon may start with is well typed.
LEMMA InitTypes == Init => TypeOK
<1> SUFFICES ASSUME Init PROVE TypeOK
  OBVIOUS
<1>1. PICK h \in Histories :
         /\ keys = h.keys /\ used = h.used /\ vetted = h.vetted
         /\ added = h.added /\ deposits = h.deposits /\ block = h.block /\ moves = h.moves
  BY DEF Init
<1>2. \A e \in added : e.op \in Operators /\ e.block \in Nat
  BY <1>1, HistoriesAssumption
<1>3. /\ keys \in [Operators -> Seq(Keys)]
      /\ used \in [Operators -> Nat] /\ vetted \in [Operators -> Nat]
      /\ \A o \in Operators : used[o] <= vetted[o] /\ vetted[o] <= Len(keys[o])
      /\ block \in Nat /\ moves \in 0..MaxMoves
  BY <1>1, HistoriesAssumption
<1>4. /\ moved \in BOOLEAN /\ paused \in BOOLEAN /\ pausing \in BOOLEAN
      /\ attested = {} /\ unvets = {}
  BY DEF Init
<1>5. breaches \in 0..MaxBreaches
  BY ChecksAssumption DEF Init
<1> QED
  BY <1>2, <1>3, <1>4, <1>5 DEF TypeOK

\* Without the i-th key of a sequence the earlier ones keep their place.
LEMMA Removed ==
    ASSUME NEW s \in Seq(Keys), NEW i \in 1..Len(s),
           NEW r, r = SubSeq([s EXCEPT ![i] = s[Len(s)]], 1, Len(s) - 1)
    PROVE  /\ r \in Seq(Keys) /\ Len(r) = Len(s) - 1
           /\ \A j \in 1..Len(s) : j < i => r[j] = s[j]
<1> DEFINE t == [s EXCEPT ![i] = s[Len(s)]]
<1>1. Len(s) \in Nat /\ Len(s) >= 1
  OBVIOUS
<1>2. s[Len(s)] \in Keys
  BY <1>1
<1>3. t \in Seq(Keys) /\ Len(t) = Len(s) /\ \A j \in 1..Len(s) : j # i => t[j] = s[j]
  BY <1>2
<1> HIDE DEF t
<1>4. r \in Seq(Keys) /\ Len(r) = Len(s) - 1 /\ \A j \in 1..Len(s) - 1 : r[j] = t[j]
  BY <1>1, <1>3 DEF t
<1>5. ASSUME NEW j \in 1..Len(s), j < i
      PROVE  r[j] = s[j]
  <2>1. j \in 1..Len(s) - 1 /\ j # i
    BY <1>1, <1>5
  <2> QED
    BY <1>3, <1>4, <2>1
<1> QED
  BY <1>4, <1>5

\* The number of keys that remain vetted when the i-th is removed.
StillVetted(o, i) == IF vetted[o] < i THEN vetted[o] ELSE i - 1

\* The removal of a key, without the messages.
LEMMA RemoveKeyIs ==
    ASSUME TypeOK, NEW o \in Operators, RemoveKey(o)
    PROVE  \E i \in used[o] + 1..Len(keys[o]) :
              /\ i \in 1..Len(keys[o])
              /\ keys' \in [Operators -> Seq(Keys)] /\ vetted' \in [Operators -> Nat]
              /\ \A q \in Operators : q # o => keys'[q] = keys[q] /\ vetted'[q] = vetted[q]
              /\ Len(keys'[o]) = Len(keys[o]) - 1
              /\ \A j \in 1..Len(keys[o]) : j < i => keys'[o][j] = keys[o][j]
              /\ vetted'[o] = StillVetted(o, i)
              /\ used[o] <= vetted'[o] /\ vetted'[o] <= Len(keys'[o])
<1>1. PICK i \in used[o] + 1..Len(keys[o]) :
         /\ keys' = [keys EXCEPT ![o] = SubSeq([@ EXCEPT ![i] = keys[o][Len(keys[o])]],
                                               1, Len(keys[o]) - 1)]
         /\ vetted' = [vetted EXCEPT ![o] = IF @ < i THEN @ ELSE i - 1]
  BY DEF RemoveKey
<1>2. /\ keys[o] \in Seq(Keys) /\ Len(keys[o]) \in Nat
      /\ used[o] \in Nat /\ vetted[o] \in Nat /\ used[o] <= vetted[o] /\ vetted[o] <= Len(keys[o])
  BY DEF TypeOK
<1>3. i \in Nat /\ i > used[o] /\ i >= 1 /\ i <= Len(keys[o]) /\ i \in 1..Len(keys[o])
  BY <1>2
<1> DEFINE r == SubSeq([keys[o] EXCEPT ![i] = keys[o][Len(keys[o])]], 1, Len(keys[o]) - 1)
<1>4. /\ r \in Seq(Keys) /\ Len(r) = Len(keys[o]) - 1
      /\ \A j \in 1..Len(keys[o]) : j < i => r[j] = keys[o][j]
  BY <1>2, <1>3, Removed
<1>5. keys' = [keys EXCEPT ![o] = r]
  BY <1>1
<1> HIDE DEF r
<1>6. StillVetted(o, i) \in Nat /\ used[o] <= StillVetted(o, i) /\ StillVetted(o, i) <= Len(r)
  BY <1>2, <1>3, <1>4 DEF StillVetted
<1>7. vetted' = [vetted EXCEPT ![o] = StillVetted(o, i)]
  BY <1>1 DEF StillVetted, TypeOK
<1>8. /\ keys' \in [Operators -> Seq(Keys)] /\ keys'[o] = r
      /\ \A q \in Operators : q # o => keys'[q] = keys[q]
  BY <1>4, <1>5 DEF TypeOK
<1>9. /\ vetted' \in [Operators -> Nat] /\ vetted'[o] = StillVetted(o, i)
      /\ \A q \in Operators : q # o => vetted'[q] = vetted[q]
  BY <1>6, <1>7 DEF TypeOK
<1> QED
  BY <1>3, <1>4, <1>6, <1>8, <1>9

\* The step of a reading: it sends messages only.
LEMMA HandleNewBlockIs ==
    ASSUME TypeOK, HandleNewBlock
    PROVE  /\ UNCHANGED <<block, moved, keys, used, vetted, added, deposits, paused, moves,
                          breaches>>
           /\ pausing' # pausing => pausing' = TRUE /\ HasThreat(lidoKeys)
           /\ pausing' \in BOOLEAN
           /\ \A m \in attested' :
                 \/ m \in attested
                 \/ /\ m \in Modules
                    /\ CheckKeys(lidoKeys)[m].bad = {} /\ CheckKeys(lidoKeys)[m].unresolved = {}
           /\ \A u \in unvets' :
                 \/ u \in unvets
                 \/ \E m \in Modules :
                       \E counts \in calculateNewStakingLimit(CheckKeys(lidoKeys)[m].bad) :
                          u = [module |-> m, counts |-> counts]
<1> DEFINE data == CheckKeys(lidoKeys)
           threat == HasThreat(lidoKeys)
<1>1. UNCHANGED <<block, moved, keys, used, vetted, added, deposits, paused, moves, breaches>>
  BY DEF HandleNewBlock
<1>2. \/ /\ threat /\ pausing' = TRUE
         /\ UNCHANGED <<attested, unvets>>
      \/ /\ IF findFirstInvalidModule(data) = {} THEN UNCHANGED unvets
            ELSE \E m \in findFirstInvalidModule(data) : handleUnvetting(m, data[m].bad)
         /\ attested' = attested \cup {m \in Modules : ~ignoreDeposits(data[m], threat)}
         /\ UNCHANGED pausing
  BY DEF HandleNewBlock
<1> HIDE DEF data, threat
<1>3. CASE threat /\ pausing' = TRUE /\ UNCHANGED <<attested, unvets>>
  BY <1>1, <1>3 DEF threat
<1>4. CASE /\ IF findFirstInvalidModule(data) = {} THEN UNCHANGED unvets
              ELSE \E m \in findFirstInvalidModule(data) : handleUnvetting(m, data[m].bad)
           /\ attested' = attested \cup {m \in Modules : ~ignoreDeposits(data[m], threat)}
           /\ UNCHANGED pausing
  <2>1. \A m \in attested' :
           \/ m \in attested
           \/ m \in Modules /\ data[m].bad = {} /\ data[m].unresolved = {}
    BY <1>4 DEF ignoreDeposits
  <2>2. ASSUME NEW u \in unvets', u \notin unvets
        PROVE  \E m \in Modules : \E counts \in calculateNewStakingLimit(data[m].bad) :
                  u = [module |-> m, counts |-> counts]
    <3>1. PICK m \in findFirstInvalidModule(data) : handleUnvetting(m, data[m].bad)
      BY <1>4, <2>2
    <3>2. m \in Modules
      BY ChecksAssumption DEF findFirstInvalidModule
    <3>3. PICK counts \in calculateNewStakingLimit(data[m].bad) :
             unvets' = unvets \cup {[module |-> m, counts |-> counts]}
      BY <3>1 DEF handleUnvetting, processUnvetting
    <3> QED
      BY <2>2, <3>2, <3>3
  <2>3. pausing' = pausing /\ pausing' \in BOOLEAN
    BY <1>4 DEF TypeOK
  <2> QED
    BY <1>1, <2>1, <2>2, <2>3 DEF data
<1> QED
  BY <1>2, <1>3, <1>4

\* Steps of operators, strangers, contracts and the chain.
Others ==
    \/ NewBlock \/ UnvetLands \/ PauseLands \/ ForeignDeposit
    \/ \E o \in Operators : AddKey(o) \/ RemoveKey(o) \/ Vet(o)
    \/ \E m \in Modules : Deposit(m) \/ Breach(m)

\* The funding of keys, without the deposits and messages.
LEMMA FundIs ==
    ASSUME TypeOK, NEW m \in Modules, Fund(m)
    PROVE  \E d \in [Operators -> Nat] :
              /\ \E o \in Operators : d[o] > 0
              /\ used' = [o \in Operators |-> used[o] + d[o]]
              /\ used' \in [Operators -> Nat]
              /\ \A o \in Operators : used[o] <= used'[o] /\ used'[o] <= vetted[o]
              /\ \A o \in Operators : ModuleOf[o] # m => used'[o] = used[o]
              /\ deposits' = deposits \cup
                   UNION {{[pub |-> keys[o][i].pub, wc |-> WCOf[m], valid |-> keys[o][i].valid,
                            block |-> block, log |-> Cardinality(deposits), by |-> o] :
                              i \in used[o] + 1..used'[o]} : o \in Operators}
<1>1. PICK d \in Amounts(m) :
         /\ used' = [o \in Operators |-> used[o] + d[o]]
         /\ deposits' = deposits \cup
              UNION {{[pub |-> keys[o][i].pub, wc |-> WCOf[m], valid |-> keys[o][i].valid,
                       block |-> block, log |-> Cardinality(deposits), by |-> o] :
                         i \in used[o] + 1..used[o] + d[o]} : o \in Operators}
  BY DEF Fund
<1>2. /\ d \in [Operators -> Nat] /\ \E o \in Operators : d[o] > 0
      /\ \A o \in Operators : d[o] <= IF ModuleOf[o] = m THEN vetted[o] - used[o] ELSE 0
  BY DEF Amounts
<1>3. ASSUME NEW o \in Operators
      PROVE  /\ used'[o] = used[o] + d[o] /\ used'[o] \in Nat
             /\ used[o] <= used'[o] /\ used'[o] <= vetted[o]
             /\ ModuleOf[o] # m => used'[o] = used[o]
  <2>1. /\ used[o] \in Nat /\ vetted[o] \in Nat /\ used[o] <= vetted[o] /\ d[o] \in Nat
        /\ d[o] <= IF ModuleOf[o] = m THEN vetted[o] - used[o] ELSE 0
    BY <1>2 DEF TypeOK
  <2>2. used'[o] = used[o] + d[o]
    BY <1>1
  <2> QED
    BY <2>1, <2>2
<1>4. used' \in [Operators -> Nat]
  BY <1>1, <1>3
<1>5. deposits' = deposits \cup
         UNION {{[pub |-> keys[o][i].pub, wc |-> WCOf[m], valid |-> keys[o][i].valid,
                  block |-> block, log |-> Cardinality(deposits), by |-> o] :
                    i \in used[o] + 1..used'[o]} : o \in Operators}
  BY <1>1, <1>3
<1> QED
  BY <1>1, <1>2, <1>3, <1>4, <1>5

\* An unvetting that lands takes vetted keys, but no funded ones, from
\* operators of its module.
LEMMA UnvetLandsIs ==
    ASSUME TypeOK, UnvetsAreDue, UnvetLands
    PROVE  \E u \in unvets :
              /\ vetted' \in [Operators -> Nat]
              /\ \A o \in Operators : used[o] <= vetted'[o] /\ vetted'[o] <= vetted[o]
              /\ \A o \in Operators : o \notin DOMAIN u.counts => vetted'[o] = vetted[o]
              /\ \A o \in Operators : ModuleOf[o] # u.module => vetted'[o] = vetted[o]
              /\ unvets' = {x \in unvets : x.module # u.module}
              /\ attested' = attested \ {u.module}
<1>1. PICK u \in unvets :
         /\ vetted' = [o \in Operators |-> IF o \in DOMAIN u.counts THEN u.counts[o]
                                           ELSE vetted[o]]
         /\ unvets' = {x \in unvets : x.module # u.module}
         /\ attested' = attested \ {u.module}
  BY DEF UnvetLands, NewNonce
<1>2. ASSUME NEW o \in Operators
      PROVE  /\ vetted'[o] \in Nat
             /\ used[o] <= vetted'[o] /\ vetted'[o] <= vetted[o]
             /\ o \notin DOMAIN u.counts => vetted'[o] = vetted[o]
             /\ ModuleOf[o] # u.module => vetted'[o] = vetted[o]
  <2>1. used[o] \in Nat /\ vetted[o] \in Nat /\ used[o] <= vetted[o]
    BY DEF TypeOK
  <2>2. vetted'[o] = IF o \in DOMAIN u.counts THEN u.counts[o] ELSE vetted[o]
    BY <1>1
  <2>3. o \in DOMAIN u.counts =>
           ModuleOf[o] = u.module /\ u.counts[o] \in used[o]..vetted[o] - 1
    BY DEF UnvetsAreDue
  <2> QED
    BY <2>1, <2>2, <2>3
<1>3. vetted' \in [Operators -> Nat]
  BY <1>1, <1>2
<1> QED
  BY <1>1, <1>2, <1>3

\* A move keeps its count.
LEMMA MoveIs ==
    ASSUME TypeOK, Move
    PROVE  moves' \in 0..MaxMoves /\ block' = block /\ moved' = TRUE
<1>1. moves \in 0..MaxMoves /\ moves < MaxMoves /\ moves' = moves + 1
  BY DEF Move, TypeOK
<1> QED
  BY <1>1, ChecksAssumption DEF Move, InBlock

\* Types are kept.
LEMMA TypesKept ==
    ASSUME TypeOK, UnvetsAreDue, HandleNewBlock \/ Others
    PROVE  TypeOK'
<1>1. CASE HandleNewBlock
  <2>1. \A m \in attested' : m \in Modules
    BY <1>1, HandleNewBlockIs DEF TypeOK
  <2>2. ASSUME NEW u \in unvets'
        PROVE  u.module \in Modules
    <3>1. u \in unvets \/ \E m \in Modules : \E counts : u = [module |-> m, counts |-> counts]
      BY <1>1, HandleNewBlockIs
    <3>2. u \in unvets => u.module \in Modules
      BY DEF TypeOK
    <3> QED
      BY <3>1, <3>2
  <2>3. pausing' \in BOOLEAN
    BY <1>1, HandleNewBlockIs
  <2> QED
    BY <1>1, <2>1, <2>2, <2>3, HandleNewBlockIs DEF TypeOK
<1>2. CASE NewBlock
  <2>1. block' \in Nat
    BY <1>2 DEF NewBlock, TypeOK
  <2>2. moved' \in BOOLEAN
    BY <1>2 DEF NewBlock
  <2> QED
    BY <1>2, <2>1, <2>2 DEF NewBlock, TypeOK
<1>3. CASE UnvetLands
  <2>1. /\ UNCHANGED <<keys, used, added, deposits, paused, pausing, moves, breaches, block>>
        /\ moved' \in BOOLEAN
    BY <1>3 DEF UnvetLands, InBlock
  <2>2. PICK u \in unvets :
           /\ vetted' \in [Operators -> Nat]
           /\ \A o \in Operators : used[o] <= vetted'[o] /\ vetted'[o] <= vetted[o]
           /\ unvets' = {x \in unvets : x.module # u.module}
           /\ attested' = attested \ {u.module}
    BY <1>3, UnvetLandsIs
  <2>3. \A o \in Operators : used'[o] <= vetted'[o] /\ vetted'[o] <= Len(keys'[o])
    BY <2>1, <2>2 DEF TypeOK
  <2> QED
    BY <2>1, <2>2, <2>3 DEF TypeOK
<1>4. CASE PauseLands
  BY <1>4 DEF PauseLands, InBlock, TypeOK
<1>5. CASE ForeignDeposit
  <2>1. moves' \in 0..MaxMoves /\ block' = block /\ moved' = TRUE
    BY <1>5, MoveIs DEF ForeignDeposit
  <2> QED
    BY <1>5, <2>1 DEF ForeignDeposit, TypeOK
<1>6. ASSUME NEW o \in Operators, AddKey(o)
      PROVE  TypeOK'
  <2>1. moves' \in 0..MaxMoves /\ block' = block /\ moved' = TRUE
    BY <1>6, MoveIs DEF AddKey
  <2>2. PICK k \in NewKeys :
           /\ keys' = [keys EXCEPT ![o] = Append(@, k)]
           /\ added' = added \cup {[op |-> o, pub |-> k.pub, block |-> block,
                                    log |-> Cardinality(added)]}
    BY <1>6 DEF AddKey
  <2>3. keys[o] \in Seq(Keys) /\ k \in Keys /\ keys \in [Operators -> Seq(Keys)]
    BY ChecksAssumption DEF TypeOK
  <2>4. Append(keys[o], k) \in Seq(Keys) /\ Len(Append(keys[o], k)) = Len(keys[o]) + 1
    BY <2>3
  <2>5. /\ keys' \in [Operators -> Seq(Keys)] /\ keys'[o] = Append(keys[o], k)
        /\ \A q \in Operators : q # o => keys'[q] = keys[q]
    BY <2>2, <2>3, <2>4
  <2>6. \A q \in Operators : Len(keys[q]) \in Nat /\ vetted[q] \in Nat /\ vetted[q] <= Len(keys[q])
    BY DEF TypeOK
  <2>7. \A q \in Operators : vetted[q] <= Len(keys'[q])
    BY <2>4, <2>5, <2>6
  <2>8. \A e \in added' : e.op \in Operators /\ e.block \in Nat
    BY <2>2 DEF TypeOK
  <2>9. /\ UNCHANGED <<used, vetted, deposits, paused, pausing, breaches>>
        /\ unvets' \subseteq unvets /\ attested' \subseteq attested
    BY <1>6 DEF AddKey, NewNonce
  <2> QED
    BY <2>1, <2>5, <2>7, <2>8, <2>9 DEF TypeOK
<1>7. ASSUME NEW o \in Operators, RemoveKey(o)
      PROVE  TypeOK'
  <2>1. moves' \in 0..MaxMoves /\ block' = block /\ moved' = TRUE
    BY <1>7, MoveIs DEF RemoveKey
  <2>2. /\ keys' \in [Operators -> Seq(Keys)] /\ vetted' \in [Operators -> Nat]
        /\ \A q \in Operators : q # o => keys'[q] = keys[q] /\ vetted'[q] = vetted[q]
        /\ used[o] <= vetted'[o] /\ vetted'[o] <= Len(keys'[o])
    BY <1>7, RemoveKeyIs
  <2>3. /\ UNCHANGED <<used, added, deposits, paused, pausing, breaches>>
        /\ unvets' \subseteq unvets /\ attested' \subseteq attested
    BY <1>7 DEF RemoveKey, NewNonce
  <2>4. \A q \in Operators : used'[q] <= vetted'[q] /\ vetted'[q] <= Len(keys'[q])
    BY <2>2, <2>3 DEF TypeOK
  <2> QED
    BY <2>1, <2>2, <2>3, <2>4 DEF TypeOK
<1>8. ASSUME NEW o \in Operators, Vet(o)
      PROVE  TypeOK'
  <2>1. moves' \in 0..MaxMoves /\ block' = block /\ moved' = TRUE
    BY <1>8, MoveIs DEF Vet
  <2>2. /\ vetted' = [vetted EXCEPT ![o] = Len(keys[o])] /\ vetted[o] < Len(keys[o])
        /\ UNCHANGED <<keys, used, added, deposits, paused, pausing, breaches>>
        /\ unvets' \subseteq unvets /\ attested' \subseteq attested
    BY <1>8 DEF Vet, NewNonce
  <2>3. Len(keys[o]) \in Nat /\ used[o] \in Nat /\ vetted[o] \in Nat /\ used[o] <= vetted[o]
    BY DEF TypeOK
  <2>4. /\ vetted' \in [Operators -> Nat] /\ vetted'[o] = Len(keys[o])
        /\ \A q \in Operators : q # o => vetted'[q] = vetted[q]
    BY <2>2, <2>3 DEF TypeOK
  <2>5. \A q \in Operators : used'[q] <= vetted'[q] /\ vetted'[q] <= Len(keys'[q])
    BY <2>2, <2>3, <2>4 DEF TypeOK
  <2> QED
    BY <2>1, <2>2, <2>4, <2>5 DEF TypeOK
<1>9. ASSUME NEW m \in Modules, Fund(m), moves' \in 0..MaxMoves, breaches' \in 0..MaxBreaches,
             block' = block, moved' = TRUE
      PROVE  TypeOK'
  <2>1. /\ used' \in [Operators -> Nat]
        /\ \A o \in Operators : used'[o] <= vetted[o]
    BY <1>9, FundIs
  <2>2. /\ UNCHANGED <<keys, vetted, added, paused, pausing>>
        /\ unvets' \subseteq unvets /\ attested' = {}
    BY <1>9 DEF Fund, NewNonce
  <2> QED
    BY <1>9, <2>1, <2>2 DEF TypeOK
<1>10. ASSUME NEW m \in Modules, Deposit(m)
       PROVE  TypeOK'
  BY <1>9, <1>10 DEF Deposit, InBlock, TypeOK
<1>11. ASSUME NEW m \in Modules, Breach(m)
       PROVE  TypeOK'
  <2>1. moves' \in 0..MaxMoves /\ block' = block /\ moved' = TRUE
    BY <1>11, MoveIs DEF Breach
  <2>2. breaches' \in 0..MaxBreaches
    BY <1>11, ChecksAssumption DEF Breach, TypeOK
  <2> QED
    BY <1>9, <1>11, <2>1, <2>2 DEF Breach
<1> QED
  BY <1>1, <1>2, <1>3, <1>4, <1>5, <1>6, <1>7, <1>8, <1>10, <1>11 DEF Others

-----------------------------------------------------------------------------
(* What the steps of the others leave alone                                 *)

\* A message that would be accepted carries the nonce of module m.
Carried(m) == m \in attested \/ \E u \in unvets : u.module = m

\* Messages only get lost; those that stay find the keys of their module as
\* they were, attestations all deposits and funded keys, too; funded keys stay,
\* deposits and events are only added.
Frame ==
    /\ attested' \subseteq attested /\ unvets' \subseteq unvets
    /\ \A o \in Operators :
          Carried(ModuleOf[o])'
             => keys'[o] = keys[o] /\ used'[o] = used[o] /\ vetted'[o] = vetted[o]
    /\ \A o \in Operators : \A i \in 1..used[o] : i \in 1..used'[o] /\ keys'[o][i] = keys[o][i]
    /\ deposits \subseteq deposits'
    /\ attested' # {} => deposits' = deposits /\ used' = used
    /\ added \subseteq added'
    /\ \A e \in added' : e \in added \/ \A u \in unvets' : u.module # ModuleOf[e.op]
    /\ (pausing' \/ paused') => (pausing \/ paused)

\* Every step but a reading keeps the frame.
LEMMA FrameKept ==
    ASSUME TypeOK, UnvetsAreDue, Others
    PROVE  Frame
<1>0. ASSUME NEW o \in Operators
      PROVE  /\ keys[o] \in Seq(Keys) /\ Len(keys[o]) \in Nat
             /\ used[o] \in Nat /\ vetted[o] \in Nat
             /\ used[o] <= vetted[o] /\ vetted[o] <= Len(keys[o])
  BY DEF TypeOK
<1>1. CASE NewBlock
  BY <1>1 DEF NewBlock, Frame
<1>2. CASE UnvetLands
  <2>1. UNCHANGED <<keys, used, added, deposits, paused, pausing>>
    BY <1>2 DEF UnvetLands
  <2>2. PICK u \in unvets :
           /\ \A o \in Operators : ModuleOf[o] # u.module => vetted'[o] = vetted[o]
           /\ unvets' = {x \in unvets : x.module # u.module}
           /\ attested' = attested \ {u.module}
    BY <1>2, UnvetLandsIs
  <2>3. ~Carried(u.module)'
    BY <2>2 DEF Carried
  <2> QED
    BY <2>1, <2>2, <2>3 DEF Frame
<1>3. CASE PauseLands
  BY <1>3 DEF PauseLands, Frame
<1>4. CASE ForeignDeposit
  <2>1. /\ UNCHANGED <<keys, used, vetted, added, paused, unvets, pausing>>
        /\ attested' = {} /\ deposits \subseteq deposits'
    BY <1>4 DEF ForeignDeposit
  <2> QED
    BY <2>1 DEF Frame
<1>5. ASSUME NEW o \in Operators, ~Carried(ModuleOf[o])',
             UNCHANGED <<used, deposits, paused, pausing>>,
             attested' \subseteq attested, unvets' \subseteq unvets,
             \A q \in Operators : q # o => keys'[q] = keys[q] /\ vetted'[q] = vetted[q],
             \A i \in 1..used[o] : keys'[o][i] = keys[o][i],
             added \subseteq added', \A e \in added' : e \in added \/ e.op = o
      PROVE  Frame
  <2>1. \A e \in added' : e \in added \/ \A u \in unvets' : u.module # ModuleOf[e.op]
    BY <1>5 DEF Carried
  <2>2. \A q \in Operators :
           Carried(ModuleOf[q])'
              => keys'[q] = keys[q] /\ used'[q] = used[q] /\ vetted'[q] = vetted[q]
    BY <1>5
  <2>3. \A q \in Operators : \A i \in 1..used[q] :
           i \in 1..used'[q] /\ keys'[q][i] = keys[q][i]
    BY <1>5
  <2> QED
    BY <1>5, <2>1, <2>2, <2>3 DEF Frame
<1>6. ASSUME NEW m, unvets' = {u \in unvets : u.module # m}, m \notin attested'
      PROVE  ~Carried(m)'
  BY <1>6 DEF Carried
<1>7. ASSUME NEW o \in Operators, AddKey(o)
      PROVE  Frame
  <2>1. PICK k \in NewKeys :
           /\ keys' = [keys EXCEPT ![o] = Append(@, k)]
           /\ added' = added \cup {[op |-> o, pub |-> k.pub, block |-> block,
                                    log |-> Cardinality(added)]}
    BY <1>7 DEF AddKey
  <2>2. /\ UNCHANGED <<used, vetted, deposits, paused, pausing>>
        /\ unvets' = {u \in unvets : u.module # ModuleOf[o]}
        /\ attested' = attested \ {ModuleOf[o]}
    BY <1>7 DEF AddKey, NewNonce
  <2>3. /\ keys'[o] = Append(keys[o], k)
        /\ \A q \in Operators : q # o => keys'[q] = keys[q]
    BY <2>1 DEF TypeOK
  <2>4. k \in Keys
    BY ChecksAssumption
  <2>5. \A i \in 1..Len(keys[o]) : keys'[o][i] = keys[o][i]
    BY <1>0, <2>3, <2>4
  <2>6. \A i \in 1..used[o] : i \in 1..Len(keys[o])
    BY <1>0
  <2>7. added \subseteq added' /\ \A e \in added' : e \in added \/ e.op = o
    BY <2>1
  <2>8. ~Carried(ModuleOf[o])'
    BY <1>6, <2>2
  <2> QED
    BY <1>5, <2>2, <2>3, <2>5, <2>6, <2>7, <2>8
<1>8. ASSUME NEW o \in Operators, RemoveKey(o)
      PROVE  Frame
  <2>1. PICK i \in used[o] + 1..Len(keys[o]) :
           /\ \A q \in Operators : q # o => keys'[q] = keys[q] /\ vetted'[q] = vetted[q]
           /\ \A j \in 1..Len(keys[o]) : j < i => keys'[o][j] = keys[o][j]
    BY <1>8, RemoveKeyIs
  <2>2. /\ UNCHANGED <<used, added, deposits, paused, pausing>>
        /\ unvets' = {u \in unvets : u.module # ModuleOf[o]}
        /\ attested' = attested \ {ModuleOf[o]}
    BY <1>8 DEF RemoveKey, NewNonce
  <2>3. \A j \in 1..used[o] : j \in 1..Len(keys[o]) /\ j < i
    BY <1>0
  <2>4. ~Carried(ModuleOf[o])'
    BY <1>6, <2>2
  <2> QED
    BY <1>5, <2>1, <2>2, <2>3, <2>4
<1>9. ASSUME NEW o \in Operators, Vet(o)
      PROVE  Frame
  <2>1. /\ UNCHANGED <<keys, used, added, deposits, paused, pausing>>
        /\ vetted' = [vetted EXCEPT ![o] = Len(keys[o])]
        /\ unvets' = {u \in unvets : u.module # ModuleOf[o]}
        /\ attested' = attested \ {ModuleOf[o]}
    BY <1>9 DEF Vet, NewNonce
  <2>2. \A q \in Operators : q # o => vetted'[q] = vetted[q]
    BY <2>1 DEF TypeOK
  <2>3. ~Carried(ModuleOf[o])'
    BY <1>6, <2>1
  <2> QED
    BY <1>5, <2>1, <2>2, <2>3
<1>10. ASSUME NEW m \in Modules, Deposit(m) \/ Breach(m)
       PROVE  Frame
  <2>1. Fund(m)
    BY <1>10 DEF Deposit, Breach
  <2>2. /\ UNCHANGED <<keys, vetted, added, paused, pausing>>
        /\ unvets' = {u \in unvets : u.module # m} /\ attested' = {}
    BY <2>1 DEF Fund, NewNonce
  <2>3. /\ used' \in [Operators -> Nat]
        /\ \A o \in Operators : used[o] <= used'[o]
        /\ \A o \in Operators : ModuleOf[o] # m => used'[o] = used[o]
        /\ deposits \subseteq deposits'
    BY <2>1, FundIs
  <2>4. ~Carried(m)'
    BY <1>6, <2>2
  <2>5. \A o \in Operators : \A i \in 1..used[o] : i \in 1..used'[o]
    BY <1>0, <2>3
  <2> QED
    BY <2>2, <2>3, <2>4, <2>5 DEF Frame
<1> QED
  BY <1>1, <1>2, <1>3, <1>4, <1>7, <1>8, <1>9, <1>10 DEF Others

-----------------------------------------------------------------------------
(* Unvet messages                                                           *)

\* The new vetted amount of an operator is the index of one of its bad keys.
LEMMA NewVettedAmount ==
    ASSUME TypeOK, NEW m \in Modules,
           NEW counts \in calculateNewStakingLimit(CheckKeys(lidoKeys)[m].bad),
           NEW o \in DOMAIN counts
    PROVE  /\ o \in Operators /\ ModuleOf[o] = m
           /\ counts[o] \in used[o]..vetted[o] - 1
           /\ Blemished(o, counts[o] + 1)
<1> DEFINE bad == CheckKeys(lidoKeys)[m].bad
<1>1. \A k \in bad : /\ k \in lidoKeys /\ k.op \in Operators /\ ModuleOf[k.op] = m
                     /\ k.index \in used[k.op]..vetted[k.op] - 1
                     /\ Blemished(k.op, k.index + 1)
  BY BadIsBlemished
<1>2. counts \in calculateNewStakingLimit(bad)
  OBVIOUS
<1> HIDE DEF bad
<1>3. PICK os \in Chunks(bad) : counts = [q \in os |-> findNewVettedAmount(bad)[q]]
  BY <1>2 DEF calculateNewStakingLimit
<1>4. o \in OperatorsOf(bad) /\ counts[o] = findNewVettedAmount(bad)[o]
  BY <1>3 DEF Chunks
<1> DEFINE own == findOperatorKeys(bad, o)
           first == findEarliestKeyWithinOperator(own)
<1>5. counts[o] = first.index
  BY <1>4 DEF findNewVettedAmount
<1>6. own \in SUBSET lidoKeys /\ own # {} /\ own \subseteq bad /\ \A k \in own : k.op = o
  BY <1>1, <1>4 DEF findOperatorKeys, OperatorsOf
<1>7. first \in own
  BY <1>6, Earliest
<1> HIDE DEF own, first
<1>8. first \in bad /\ first.op = o
  BY <1>6, <1>7
<1> QED
  BY <1>1, <1>5, <1>8

\* A blemish stays as long as a message carries the nonce of the module.
LEMMA BlemishStays ==
    ASSUME TypeOK, TypeOK', Frame, NEW o \in Operators, NEW u \in unvets',
           u.module = ModuleOf[o], NEW i, Blemished(o, i)
    PROVE  Blemished(o, i)'
<1>1. keys'[o] = keys[o] /\ used'[o] = used[o]
  BY DEF Frame, Carried
<1>2. CASE ~keys[o][i].valid
  BY <1>1, <1>2 DEF Blemished
<1>3. CASE \E e \in deposits : e.pub = keys[o][i].pub /\ e.valid /\ e.wc # WCOf[ModuleOf[o]]
  BY <1>1, <1>3 DEF Blemished, Frame
<1>4. ASSUME NEW q \in Operators, NEW j \in 1..Len(keys[q]),
             keys[q][j].pub = keys[o][i].pub, q # o \/ j # i, q = o \/ j <= used[q]
      PROVE  Blemished(o, i)'
  <2>1. CASE q = o
    BY <1>1, <1>4, <2>1 DEF Blemished
  <2>2. CASE j <= used[q]
    <3>1. j \in 1..used[q]
      BY <2>2 DEF TypeOK
    <3>2. j \in 1..used'[q] /\ keys'[q][j] = keys[q][j]
      BY <3>1 DEF Frame
    <3>3. /\ used'[q] \in Nat /\ vetted'[q] \in Nat /\ Len(keys'[q]) \in Nat
          /\ used'[q] <= vetted'[q] /\ vetted'[q] <= Len(keys'[q])
      BY DEF TypeOK
    <3>4. j \in 1..Len(keys'[q]) /\ j <= used'[q]
      BY <3>2, <3>3
    <3> QED
      BY <1>1, <1>4, <3>2, <3>4 DEF Blemished
  <2> QED
    BY <1>4, <2>1, <2>2
<1>5. ASSUME \A e \in added : (e.op = o /\ e.pub = keys[o][i].pub)
                                 => \E f \in added : f.pub = e.pub /\ f # e /\ ~(e.block < f.block)
      PROVE  Blemished(o, i)'
  <2>1. \A e \in added' : e.op = o => e \in added
    BY DEF Frame
  <2>2. added \subseteq added'
    BY DEF Frame
  <2> QED
    BY <1>1, <1>5, <2>1, <2>2 DEF Blemished
<1> QED
  BY <1>2, <1>3, <1>4, <1>5 DEF Blemished

\* Unvet messages stay due.
LEMMA UnvetsKept ==
    ASSUME TypeOK, TypeOK', UnvetsAreDue, HandleNewBlock \/ Others
    PROVE  UnvetsAreDue'
<1>1. CASE HandleNewBlock
  <2>1. UNCHANGED <<keys, used, vetted, added, deposits>>
    BY <1>1, HandleNewBlockIs
  <2>2. ASSUME NEW u \in unvets', u \in unvets
        PROVE  /\ u.module \in Modules
               /\ \A o \in DOMAIN u.counts :
                     /\ o \in Operators /\ ModuleOf[o] = u.module
                     /\ u.counts[o] \in used[o]..vetted[o] - 1
                     /\ Blemished(o, u.counts[o] + 1)
    BY <2>2 DEF UnvetsAreDue
  <2>3. ASSUME NEW u \in unvets', u \notin unvets
        PROVE  /\ u.module \in Modules
               /\ \A o \in DOMAIN u.counts :
                     /\ o \in Operators /\ ModuleOf[o] = u.module
                     /\ u.counts[o] \in used[o]..vetted[o] - 1
                     /\ Blemished(o, u.counts[o] + 1)
    <3>1. PICK m \in Modules :
             \E counts \in calculateNewStakingLimit(CheckKeys(lidoKeys)[m].bad) :
                u = [module |-> m, counts |-> counts]
      BY <1>1, <2>3, HandleNewBlockIs
    <3>2. PICK counts \in calculateNewStakingLimit(CheckKeys(lidoKeys)[m].bad) :
             u = [module |-> m, counts |-> counts]
      BY <3>1
    <3>3. u.module = m /\ u.counts = counts
      BY <3>2
    <3> QED
      BY <3>3, NewVettedAmount
  <2>4. \A o, i : Blemished(o, i)' <=> Blemished(o, i)
    BY <2>1 DEF Blemished
  <2> QED
    BY <2>1, <2>2, <2>3, <2>4 DEF UnvetsAreDue
<1>2. CASE Others
  <2>1. Frame
    BY <1>2, FrameKept
  <2>2. ASSUME NEW u \in unvets'
        PROVE  /\ u.module \in Modules
               /\ \A o \in DOMAIN u.counts :
                     /\ o \in Operators /\ ModuleOf[o] = u.module
                     /\ u.counts[o] \in used'[o]..vetted'[o] - 1
                     /\ Blemished(o, u.counts[o] + 1)'
    <3>1. u \in unvets
      BY <2>1 DEF Frame
    <3>2. ASSUME NEW o \in DOMAIN u.counts
          PROVE  /\ o \in Operators /\ ModuleOf[o] = u.module
                 /\ u.counts[o] \in used'[o]..vetted'[o] - 1
                 /\ Blemished(o, u.counts[o] + 1)'
      <4>1. /\ o \in Operators /\ ModuleOf[o] = u.module
            /\ u.counts[o] \in used[o]..vetted[o] - 1
            /\ Blemished(o, u.counts[o] + 1)
        BY <3>1 DEF UnvetsAreDue
      <4>2. used'[o] = used[o] /\ vetted'[o] = vetted[o]
        BY <2>1, <4>1 DEF Frame, Carried
      <4> DEFINE i == u.counts[o] + 1
      <4> HIDE DEF i
      <4>3. Blemished(o, i) => Blemished(o, i)'
        BY <2>1, <4>1, BlemishStays
      <4> QED
        BY <4>1, <4>2, <4>3 DEF i
    <3> QED
      BY <3>1, <3>2 DEF UnvetsAreDue
  <2> QED
    BY <2>2 DEF UnvetsAreDue
<1> QED
  BY <1>1, <1>2

-----------------------------------------------------------------------------
(* The deposits                                                             *)

\* The deposits of one transaction, with credentials w.
Booked(new, w) ==
    /\ IsFiniteSet(new)
    /\ \A d \in new : /\ d.block = block /\ d.log = Cardinality(deposits)
                      /\ d.valid \in BOOLEAN /\ d.wc = w

\* A stranger's deposit, for a key of his choice.
LEMMA ForeignDepositIs ==
    ASSUME TypeOK, ForeignDeposit
    PROVE  \E new, w : /\ Booked(new, w) /\ deposits' = deposits \cup new
                       /\ \A d \in new : d.by = None
<1>1. PICK f \in ForeignDeposits :
         deposits' = deposits \cup {[pub |-> f.pub, wc |-> f.wc, valid |-> f.valid, block |-> block,
                                     log |-> Cardinality(deposits), by |-> None]}
  BY DEF ForeignDeposit
<1> DEFINE d == [pub |-> f.pub, wc |-> f.wc, valid |-> f.valid, block |-> block,
                 log |-> Cardinality(deposits), by |-> None]
<1>2. /\ d.block = block /\ d.log = Cardinality(deposits) /\ d.wc = f.wc /\ d.by = None
      /\ d.valid \in BOOLEAN
  BY ChecksAssumption
<1>3. deposits' = deposits \cup {d}
  BY <1>1
<1> HIDE DEF d
<1>4. IsFiniteSet({d})
  BY FS_Singleton
<1>5. Booked({d}, f.wc)
  BY <1>2, <1>4 DEF Booked
<1> QED
  BY <1>2, <1>3, <1>5

\* A module's deposits are for the keys that it funds.
LEMMA FundedBy ==
    ASSUME TypeOK, NEW m \in Modules, Fund(m)
    PROVE  \E new :
              /\ Booked(new, WCOf[m]) /\ deposits' = deposits \cup new
              /\ \A d \in new : \E o \in Operators : \E i \in used[o] + 1..used'[o] :
                    d.pub = keys[o][i].pub /\ d.valid = keys[o][i].valid /\ d.by = o
              /\ \A o \in Operators : \A i \in used[o] + 1..used'[o] :
                    \E d \in new : d.pub = keys[o][i].pub /\ d.by = o
<1> DEFINE D(o, i) == [pub |-> keys[o][i].pub, wc |-> WCOf[m], valid |-> keys[o][i].valid,
                       block |-> block, log |-> Cardinality(deposits), by |-> o]
           S == [o \in Operators |-> {D(o, i) : i \in used[o] + 1..used'[o]}]
           new == UNION {S[o] : o \in Operators}
<1>1. /\ used' \in [Operators -> Nat]
      /\ \A o \in Operators : used[o] <= used'[o] /\ used'[o] <= vetted[o]
      /\ deposits' = deposits \cup UNION {{D(o, i) : i \in used[o] + 1..used'[o]} : o \in Operators}
  BY FundIs
<1>2. deposits' = deposits \cup new
  BY <1>1
<1>3. \A o, i : /\ D(o, i).pub = keys[o][i].pub /\ D(o, i).valid = keys[o][i].valid
                /\ D(o, i).by = o /\ D(o, i).wc = WCOf[m] /\ D(o, i).block = block
                /\ D(o, i).log = Cardinality(deposits)
  OBVIOUS
<1>4. ASSUME NEW o \in Operators
      PROVE  IsFiniteSet(S[o])
  <2> DEFINE R == used[o] + 1..used'[o]
             T == [i \in R |-> D(o, i)]
  <2>1. used[o] + 1 \in Int /\ used'[o] \in Int
    BY <1>1 DEF TypeOK
  <2>2. IsFiniteSet(R)
    BY <2>1, FS_Interval
  <2> HIDE DEF R
  <2>3. IsFiniteSet({T[i] : i \in DOMAIN T})
    BY <2>2, FiniteImage
  <2>4. {T[i] : i \in DOMAIN T} = S[o]
    BY DEF R
  <2> QED
    BY <2>3, <2>4
<1>5. ASSUME NEW o \in Operators, NEW i \in used[o] + 1..used'[o]
      PROVE  keys[o][i].valid \in BOOLEAN
  <2>1. /\ keys[o] \in Seq(Keys) /\ Len(keys[o]) \in Nat
        /\ used[o] \in Nat /\ vetted[o] \in Nat /\ vetted[o] <= Len(keys[o])
        /\ used'[o] \in Nat /\ used'[o] <= vetted[o]
    BY <1>1 DEF TypeOK
  <2>2. i \in 1..Len(keys[o])
    BY <2>1
  <2>3. keys[o][i] \in Keys
    BY <2>1, <2>2
  <2> QED
    BY <2>3 DEF Keys
<1> HIDE DEF D
<1>6. \A o \in Operators : S[o] = {D(o, i) : i \in used[o] + 1..used'[o]}
  OBVIOUS
<1>7. DOMAIN S = Operators /\ S = [o \in Operators |-> S[o]]
  OBVIOUS
<1> HIDE DEF S
<1>8. IsFiniteSet(new)
  BY <1>4, <1>7, FinitelyMany
<1>9. \A d \in new : \E o \in Operators : \E i \in used[o] + 1..used'[o] : d = D(o, i)
  BY <1>6
<1>10. \A o \in Operators : \A i \in used[o] + 1..used'[o] : D(o, i) \in new
  BY <1>6
<1> HIDE DEF new
<1>11. Booked(new, WCOf[m])
  BY <1>3, <1>5, <1>8, <1>9 DEF Booked
<1>12. \A d \in new : \E o \in Operators : \E i \in used[o] + 1..used'[o] :
          d.pub = keys[o][i].pub /\ d.valid = keys[o][i].valid /\ d.by = o
  BY <1>3, <1>9
<1>13. \A o \in Operators : \A i \in used[o] + 1..used'[o] :
          \E d \in new : d.pub = keys[o][i].pub /\ d.by = o
  BY <1>3, <1>10
<1> QED
  BY <1>2, <1>11, <1>12, <1>13

\* Deposits are added by strangers and by modules only.
LEMMA WhoDeposits ==
    ASSUME TypeOK, Others
    PROVE  \/ ForeignDeposit
           \/ \E m \in Modules : Fund(m) /\ (Deposit(m) \/ Breach(m))
           \/ UNCHANGED <<deposits, used, breaches>>
<1>1. NewBlock => UNCHANGED <<deposits, used, breaches>>
  BY DEF NewBlock
<1>2. UnvetLands => UNCHANGED <<deposits, used, breaches>>
  BY DEF UnvetLands
<1>3. PauseLands => UNCHANGED <<deposits, used, breaches>>
  BY DEF PauseLands
<1>4. \A o \in Operators : AddKey(o) \/ RemoveKey(o) \/ Vet(o)
         => UNCHANGED <<deposits, used, breaches>>
  BY DEF AddKey, RemoveKey, Vet
<1>5. \A m \in Modules : Deposit(m) \/ Breach(m) => Fund(m)
  BY DEF Deposit, Breach
<1> QED
  BY <1>1, <1>2, <1>3, <1>4, <1>5 DEF Others

\* Time does not go back.
LEMMA BlocksGoOn ==
    ASSUME TypeOK, Others
    PROVE  block \in Nat /\ block' \in Nat /\ block <= block'
<1>1. block' = block \/ block' = block + 1
  BY DEF Others, NewBlock, UnvetLands, PauseLands, ForeignDeposit, AddKey, RemoveKey, Vet,
         Deposit, Breach, Move, InBlock
<1> QED
  BY <1>1 DEF TypeOK

\* New deposits are later than all others, and keep their places apart.
LEMMA DepositsGrow ==
    ASSUME TypeOK, Ledger, NEW new, NEW w, Booked(new, w), deposits' = deposits \cup new,
           block' \in Nat, block <= block'
    PROVE  /\ Ledger'
           /\ \A d \in deposits, e \in new : ~isFirstEventEarlier(e, d)
<1> DEFINE n == Cardinality(deposits)
<1>1. IsFiniteSet(deposits) /\ n \in Nat /\ block \in Nat
  BY FS_CardinalityType DEF Ledger, TypeOK
<1>2. \A d \in deposits : /\ d.block \in 0..block /\ d.log \in 0..n - 1 /\ d.valid \in BOOLEAN
                          /\ \A e \in deposits : e.log = d.log => e.wc = d.wc
  BY DEF Ledger
<1>3. /\ IsFiniteSet(new)
      /\ \A e \in new : e.block = block /\ e.log = n /\ e.valid \in BOOLEAN /\ e.wc = w
  BY DEF Booked
<1> HIDE DEF n
<1>4. IsFiniteSet(deposits') /\ Cardinality(deposits') \in Nat
  BY <1>1, <1>3, FS_Union, FS_CardinalityType
<1>5. n <= Cardinality(deposits')
  BY <1>4, FS_Subset DEF n
<1>6. new # {} => n < Cardinality(deposits')
  <2> SUFFICES ASSUME new # {}, n = Cardinality(deposits')
               PROVE  FALSE
    BY <1>1, <1>4, <1>5
  <2>1. deposits = deposits'
    BY <1>4, FS_Subset DEF n
  <2>2. PICK e \in new : TRUE
    OBVIOUS
  <2>3. e.log = n /\ e \in deposits
    BY <1>3, <2>1
  <2>4. n \in 0..n - 1
    BY <1>2, <2>3
  <2> QED
    BY <1>1, <2>4
<1>7. \A d \in deposits' :
         /\ d.block \in 0..block' /\ d.log \in 0..Cardinality(deposits') - 1
         /\ d.valid \in BOOLEAN
  BY <1>1, <1>2, <1>3, <1>4, <1>5, <1>6
<1>8. \A d, e \in deposits' : e.log = d.log => e.wc = d.wc
  BY <1>1, <1>2, <1>3
<1>9. \A d \in deposits, e \in new : ~isFirstEventEarlier(e, d)
  BY <1>1, <1>2, <1>3 DEF isFirstEventEarlier
<1> QED
  BY <1>4, <1>7, <1>8, <1>9 DEF Ledger

\* Deposits keep their places apart.
LEMMA LedgerKept ==
    ASSUME TypeOK, Ledger, HandleNewBlock \/ Others
    PROVE  Ledger'
<1>1. CASE HandleNewBlock
  BY <1>1, HandleNewBlockIs DEF Ledger
<1>2. CASE Others
  <2>0. block \in Nat /\ block' \in Nat /\ block <= block'
    BY <1>2, BlocksGoOn
  <2>1. CASE ForeignDeposit
    BY <2>0, <2>1, ForeignDepositIs, DepositsGrow
  <2>2. ASSUME NEW m \in Modules, Fund(m)
        PROVE  Ledger'
    BY <2>0, <2>2, FundedBy, DepositsGrow
  <2>3. CASE UNCHANGED <<deposits, used, breaches>>
    <3>1. \A d \in deposits : d.block \in 0..block'
      BY <2>0 DEF Ledger
    <3> QED
      BY <2>3, <3>1 DEF Ledger
  <2> QED
    BY <1>2, <2>1, <2>2, <2>3, WhoDeposits
<1> QED
  BY <1>1, <1>2

\* Every funded key keeps its deposit.
LEMMA FundedKept ==
    ASSUME TypeOK, TypeOK', UnvetsAreDue, Funded, HandleNewBlock \/ Others
    PROVE  Funded'
<1>1. CASE HandleNewBlock
  BY <1>1, HandleNewBlockIs DEF Funded
<1>2. CASE Others
  <2>0. Frame
    BY <1>2, FrameKept
  <2>1. ASSUME NEW o \in Operators, NEW i \in 1..used[o]
        PROVE  \E d \in deposits' : /\ d.pub = keys'[o][i].pub /\ d.by = o
                                    /\ hasAcceptableWC(d, ModuleOf[o])
    BY <2>0 DEF Funded, Frame
  <2>2. CASE used' = used
    BY <2>1, <2>2 DEF Funded
  <2>3. ASSUME NEW m \in Modules, Fund(m)
        PROVE  Funded'
    <3>1. PICK new :
             /\ Booked(new, WCOf[m]) /\ deposits' = deposits \cup new
             /\ \A o \in Operators : \A i \in used[o] + 1..used'[o] :
                   \E d \in new : d.pub = keys[o][i].pub /\ d.by = o
      BY <2>3, FundedBy
    <3>2. keys' = keys
      BY <2>3 DEF Fund
    <3>3. \A o \in Operators : ModuleOf[o] # m => used'[o] = used[o]
      BY <2>3, FundIs
    <3>4. ASSUME NEW o \in Operators, NEW i \in 1..used'[o], i \notin 1..used[o]
          PROVE  \E d \in deposits' : /\ d.pub = keys'[o][i].pub /\ d.by = o
                                      /\ hasAcceptableWC(d, ModuleOf[o])
      <4>1. i \in used[o] + 1..used'[o]
        BY <3>4 DEF TypeOK
      <4>2. ModuleOf[o] = m
        BY <3>3, <3>4
      <4>3. PICK d \in new : d.pub = keys[o][i].pub /\ d.by = o
        BY <3>1, <4>1
      <4>4. d.wc = WCOf[m] /\ d \in deposits'
        BY <3>1 DEF Booked
      <4> QED
        BY <3>2, <4>2, <4>3, <4>4 DEF hasAcceptableWC
    <3> QED
      BY <2>1, <3>4 DEF Funded
  <2>4. ForeignDeposit => used' = used
    BY DEF ForeignDeposit
  <2> QED
    BY <1>2, <2>2, <2>3, <2>4, WhoDeposits
<1> QED
  BY <1>1, <1>2

-----------------------------------------------------------------------------
(* Attestations and the money                                               *)

\* What an attestation says stays true until the contract refuses it.
LEMMA FundableKept ==
    ASSUME TypeOK, TypeOK', UnvetsAreDue, AttestedAreFundable, HandleNewBlock \/ Others
    PROVE  AttestedAreFundable'
<1>1. CASE HandleNewBlock
  <2>1. UNCHANGED <<keys, used, vetted, deposits>>
    BY <1>1, HandleNewBlockIs
  <2>2. ASSUME NEW o \in Operators, NEW i \in used[o] + 1..vetted[o], ModuleOf[o] \in attested'
        PROVE  Fundable(o, i)
    <3>1. CASE ModuleOf[o] \in attested
      BY <3>1 DEF AttestedAreFundable
    <3>2. CASE ModuleOf[o] \notin attested
      <4>1. /\ CheckKeys(lidoKeys)[ModuleOf[o]].bad = {}
            /\ CheckKeys(lidoKeys)[ModuleOf[o]].unresolved = {}
        BY <1>1, <2>2, <3>2, HandleNewBlockIs
      <4> QED
        BY <4>1, CleanIsFundable
    <3> QED
      BY <3>1, <3>2
  <2>3. \A o, i : Fundable(o, i)' <=> Fundable(o, i)
    BY <2>1 DEF Fundable
  <2> QED
    BY <2>1, <2>2, <2>3 DEF AttestedAreFundable
<1>2. CASE Others
  <2>1. Frame
    BY <1>2, FrameKept
  <2>2. ASSUME NEW o \in Operators, NEW i \in used'[o] + 1..vetted'[o], ModuleOf[o] \in attested'
        PROVE  Fundable(o, i)'
    <3>1. /\ deposits' = deposits /\ used' = used
          /\ \A q \in Operators : ModuleOf[q] = ModuleOf[o]
                                     => keys'[q] = keys[q] /\ vetted'[q] = vetted[q]
          /\ \A q \in Operators : \A j \in 1..used[q] : keys'[q][j] = keys[q][j]
          /\ ModuleOf[o] \in attested
      BY <2>1, <2>2 DEF Frame, Carried
    <3>2. Fundable(o, i)
      BY <2>2, <3>1 DEF AttestedAreFundable
    <3>3. keys'[o][i].valid
      BY <3>1, <3>2 DEF Fundable
    <3>4. \A e \in deposits' : e.pub = keys'[o][i].pub /\ e.valid => e.wc = WCOf[ModuleOf[o]]
      BY <3>1, <3>2 DEF Fundable
    <3>5. \A q \in Operators : \A j \in 1..used'[q] : keys'[q][j].pub # keys'[o][i].pub
      BY <3>1, <3>2 DEF Fundable
    <3>6. \A q \in Operators : \A j \in used'[q] + 1..vetted'[q] :
             (ModuleOf[q] = ModuleOf[o] /\ keys'[q][j].pub = keys'[o][i].pub) => q = o /\ j = i
      BY <3>1, <3>2 DEF Fundable
    <3> QED
      BY <3>3, <3>4, <3>5, <3>6 DEF Fundable
  <2> QED
    BY <2>2 DEF AttestedAreFundable
<1> QED
  BY <1>1, <1>2

\* A deposit that is in time for its key is not made late by a later one.
LEMMA LostStays ==
    ASSUME NEW d, NEW new, deposits' = deposits \cup new,
           \A e \in new : ~isFirstEventEarlier(e, d)
    PROVE  Lost(d)' <=> Lost(d)
BY DEF Lost, LostAmong

\* The deposit of a module is made with an attestation unless it is a breach.
LEMMA NoBreach ==
    ASSUME TypeOK, TypeOK', NEW m \in Modules, Deposit(m) \/ Breach(m), breaches' = 0
    PROVE  breaches = 0 /\ m \in attested
<1>1. breaches \in Nat
  BY ChecksAssumption DEF TypeOK
<1>2. ~Breach(m)
  BY <1>1 DEF Breach
<1>3. Deposit(m)
  BY <1>2
<1> QED
  BY <1>3 DEF Deposit

\* A key that is funded with an attestation was Fundable.
LEMMA NewlyFunded ==
    ASSUME TypeOK, AttestedAreFundable, NEW m \in Modules, Fund(m), m \in attested,
           NEW o \in Operators, NEW i \in used[o] + 1..used'[o]
    PROVE  ModuleOf[o] = m /\ i \in used[o] + 1..vetted[o] /\ Fundable(o, i)
<1>1. /\ used'[o] \in Nat /\ used'[o] <= vetted[o]
      /\ ModuleOf[o] # m => used'[o] = used[o]
  BY FundIs
<1>2. used[o] \in Nat /\ vetted[o] \in Nat
  BY DEF TypeOK
<1>3. ModuleOf[o] = m /\ i \in used[o] + 1..vetted[o]
  BY <1>1, <1>2
<1> QED
  BY <1>3 DEF AttestedAreFundable

\* No key is funded twice.
LEMMA UsedOnceKept ==
    ASSUME TypeOK, TypeOK', UnvetsAreDue, AttestedAreFundable, UsedOnce,
           HandleNewBlock \/ Others
    PROVE  UsedOnce'
<1>1. CASE HandleNewBlock
  BY <1>1, HandleNewBlockIs DEF UsedOnce
<1>2. CASE Others
  <2>1. Frame
    BY <1>2, FrameKept
  <2>2. CASE used' = used /\ breaches' = breaches
    BY <2>1, <2>2 DEF UsedOnce, Frame
  <2>3. ASSUME NEW m \in Modules, Fund(m), Deposit(m) \/ Breach(m), breaches' = 0,
               NEW o \in Operators, NEW i \in 1..used'[o],
               NEW q \in Operators, NEW j \in 1..used'[q], keys'[q][j].pub = keys'[o][i].pub
        PROVE  q = o /\ j = i
    <3>1. breaches = 0 /\ m \in attested
      BY <2>3, NoBreach
    <3>2. keys' = keys
      BY <2>3 DEF Fund
    <3>3. \A p \in Operators : \A n \in 1..used'[p] :
             \/ n \in 1..used[p]
             \/ /\ ModuleOf[p] = m /\ n \in used[p] + 1..vetted[p]
                /\ Fundable(p, n)
      <4> SUFFICES ASSUME NEW p \in Operators, NEW n \in 1..used'[p], n \notin 1..used[p]
                   PROVE  ModuleOf[p] = m /\ n \in used[p] + 1..vetted[p] /\ Fundable(p, n)
        OBVIOUS
      <4>1. used[p] \in Nat /\ used'[p] \in Nat
        BY DEF TypeOK
      <4>2. n \in used[p] + 1..used'[p]
        BY <4>1
      <4> QED
        BY <2>3, <3>1, <4>2, NewlyFunded
    <3>4. CASE i \in 1..used[o] /\ j \in 1..used[q]
      BY <2>3, <3>1, <3>2, <3>4 DEF UsedOnce
    <3>5. CASE i \in 1..used[o] /\ j \notin 1..used[q]
      BY <2>3, <3>2, <3>3, <3>5 DEF Fundable
    <3>6. CASE i \notin 1..used[o] /\ j \in 1..used[q]
      BY <2>3, <3>2, <3>3, <3>6 DEF Fundable
    <3>7. CASE i \notin 1..used[o] /\ j \notin 1..used[q]
      BY <2>3, <3>2, <3>3, <3>7 DEF Fundable
    <3> QED
      BY <3>4, <3>5, <3>6, <3>7
  <2>4. ASSUME NEW m \in Modules, Fund(m), Deposit(m) \/ Breach(m)
        PROVE  UsedOnce'
    BY <2>3, <2>4 DEF UsedOnce
  <2>5. ForeignDeposit => used' = used /\ breaches' = breaches
    BY DEF ForeignDeposit
  <2> QED
    BY <1>2, <2>2, <2>4, <2>5, WhoDeposits
<1> QED
  BY <1>1, <1>2

\* No money is lost.
LEMMA MoneyKept ==
    ASSUME TypeOK, TypeOK', Ledger, AttestedAreFundable, MoneyIsSafe,
           HandleNewBlock \/ Others
    PROVE  MoneyIsSafe'
<1>1. CASE HandleNewBlock
  BY <1>1, HandleNewBlockIs DEF MoneyIsSafe, Lost
<1>2. CASE Others
  <2>0. block \in Nat /\ block' \in Nat /\ block <= block'
    BY <1>2, BlocksGoOn
  <2>1. CASE UNCHANGED <<deposits, used, breaches>>
    BY <2>1 DEF MoneyIsSafe, Lost
  <2>2. CASE ForeignDeposit
    <3>1. PICK new, w : /\ Booked(new, w) /\ deposits' = deposits \cup new
                        /\ \A d \in new : d.by = None
      BY <2>2, ForeignDepositIs
    <3>2. \A d \in deposits, e \in new : ~isFirstEventEarlier(e, d)
      BY <2>0, <3>1, DepositsGrow
    <3>3. breaches' = breaches
      BY <2>2 DEF ForeignDeposit
    <3>4. \A d \in deposits : Lost(d)' <=> Lost(d)
      BY <3>1, <3>2, LostStays
    <3> QED
      BY <3>1, <3>3, <3>4 DEF MoneyIsSafe
  <2>3. ASSUME NEW m \in Modules, Fund(m), Deposit(m) \/ Breach(m), breaches' = 0
        PROVE  \A d \in deposits' : d.by # None => ~Lost(d)'
    <3>1. breaches = 0 /\ m \in attested
      BY <2>3, NoBreach
    <3>2. PICK new :
             /\ Booked(new, WCOf[m]) /\ deposits' = deposits \cup new
             /\ \A d \in new : \E o \in Operators : \E i \in used[o] + 1..used'[o] :
                   d.pub = keys[o][i].pub /\ d.valid = keys[o][i].valid /\ d.by = o
      BY <2>3, FundedBy
    <3>3. \A d \in deposits, e \in new : ~isFirstEventEarlier(e, d)
      BY <2>0, <3>2, DepositsGrow
    <3>4. ASSUME NEW d \in deposits, d.by # None
          PROVE  ~Lost(d)'
      BY <3>1, <3>2, <3>3, <3>4, LostStays DEF MoneyIsSafe
    <3>5. ASSUME NEW d \in new
          PROVE  ~Lost(d)'
      <4>1. PICK o \in Operators : \E i \in used[o] + 1..used'[o] :
               d.pub = keys[o][i].pub /\ d.valid = keys[o][i].valid
        BY <3>2
      <4>2. PICK i \in used[o] + 1..used'[o] :
               d.pub = keys[o][i].pub /\ d.valid = keys[o][i].valid
        BY <4>1
      <4>3. ModuleOf[o] = m /\ Fundable(o, i)
        BY <2>3, <3>1, NewlyFunded
      <4>4. d.valid /\ d.wc = WCOf[m]
        BY <3>2, <4>2, <4>3 DEF Fundable, Booked
      <4>5. \A e \in deposits' : e.pub = d.pub /\ e.valid => e.wc = WCOf[m]
        BY <3>2, <4>2, <4>3 DEF Fundable, Booked
      <4> QED
        BY <4>4, <4>5 DEF Lost, LostAmong
    <3> QED
      BY <3>2, <3>4, <3>5
  <2>4. ASSUME NEW m \in Modules, Fund(m), Deposit(m) \/ Breach(m)
        PROVE  MoneyIsSafe'
    BY <2>3, <2>4 DEF MoneyIsSafe
  <2> QED
    BY <1>2, <2>1, <2>2, <2>4, WhoDeposits
<1> QED
  BY <1>1, <1>2

-----------------------------------------------------------------------------
(* Pauses                                                                   *)

\* Of some copies of a key one belongs to the operator that is listed last.
LEMMA LastListed ==
    ASSUME TypeOK, NEW copies \in SUBSET lidoKeys, copies # {}
    PROVE  \E k \in copies : ExpectedModule(copies) = ModuleOf[k.op]
<1> DEFINE n == Len(OperatorSeq)
           S == {n - Place(k.op) : k \in copies}
<1>1. \A k \in copies : k.op \in Operators
  BY KeyFields
<1>2. \A o \in Operators : Place(o) \in 1..n
  BY ChecksAssumption DEF Place
<1>3. n \in Nat
  BY ChecksAssumption
<1> HIDE DEF n
<1>4. S \in SUBSET Nat /\ S # {}
  BY <1>1, <1>2, <1>3
<1>5. PICK a \in S : \A b \in S : a <= b
  BY <1>4, Smallest
<1>6. PICK k \in copies : a = n - Place(k.op)
  BY <1>5
<1>7. \A x \in copies : Place(x.op) <= Place(k.op)
  <2> TAKE x \in copies
  <2>1. n - Place(k.op) <= n - Place(x.op)
    BY <1>5, <1>6
  <2>2. Place(k.op) \in Int /\ Place(x.op) \in Int
    BY <1>1, <1>2
  <2> QED
    BY <1>3, <2>1, <2>2
<1> QED
  BY <1>7 DEF ExpectedModule

\* When the checks see a threat, a deposit that Lido made for one of its keys
\* is lost: an earlier one has other credentials, or it is not valid itself.
LEMMA ThreatHasCause ==
    ASSUME TypeOK, Ledger, Funded, HasThreat(lidoKeys)
    PROVE  \E d \in deposits : d.by # None /\ Lost(d)
<1>1. PICK p \in Pubs :
         /\ {k \in Group(p, lidoKeys) : k.used} # {}
         /\ \E e \in getEarliestDeposits(p) :
               ~hasAcceptableWC(e, ExpectedModule({k \in Group(p, lidoKeys) : k.used}))
  BY DEF HasThreat
<1> DEFINE copies == {k \in Group(p, lidoKeys) : k.used}
<1>2. PICK e \in getEarliestDeposits(p) : ~hasAcceptableWC(e, ExpectedModule(copies))
  BY <1>1
<1>3. copies \in SUBSET lidoKeys /\ copies # {} /\ \A k \in copies : k.pub = p /\ k.used
  BY <1>1, GroupOfKeys
<1> HIDE DEF copies
<1>4. PICK k \in copies : ExpectedModule(copies) = ModuleOf[k.op]
  BY <1>3, LastListed
<1>5. /\ k.op \in Operators /\ k.index \in Nat /\ k.index + 1 <= used[k.op]
      /\ keys[k.op][k.index + 1].pub = p
  BY <1>3, KeyFields
<1>6. k.index + 1 \in 1..used[k.op]
  BY <1>5 DEF TypeOK
<1>7. PICK d \in deposits : d.pub = p /\ d.by = k.op /\ hasAcceptableWC(d, ModuleOf[k.op])
  BY <1>5, <1>6 DEF Funded
<1>8. d.by # None
  BY <1>5, <1>7, ChecksAssumption
<1>9. /\ e \in deposits /\ e.pub = p /\ e.valid
      /\ \A f \in deposits : f.pub = p /\ f.valid => ~isFirstEventEarlier(f, e)
  BY DEF getEarliestDeposits
<1>10. ASSUME ~Lost(d)
       PROVE  FALSE
  <2>1. d.valid /\ (isFirstEventEarlier(e, d) => e.wc = d.wc)
    BY <1>7, <1>9, <1>10 DEF Lost, LostAmong
  <2>2. ~isFirstEventEarlier(d, e)
    BY <1>7, <1>9, <2>1
  <2>3. /\ d.block \in Nat /\ e.block \in Nat /\ d.log \in Int /\ e.log \in Int
        /\ e.log = d.log => e.wc = d.wc
    BY <1>9 DEF Ledger
  <2>4. e.wc = d.wc /\ e.block <= d.block
    BY <2>1, <2>2, <2>3 DEF isFirstEventEarlier
  <2>5. hasAcceptableWC(e, ModuleOf[k.op])
    BY <1>7, <2>3, <2>4, ChecksAssumption DEF hasAcceptableWC
  <2> QED
    BY <1>2, <1>4, <2>5
<1> QED
  BY <1>8, <1>10

\* A pause keeps its cause.
LEMMA PauseKept ==
    ASSUME TypeOK, UnvetsAreDue, Ledger, Funded, PauseIsDue, HandleNewBlock \/ Others
    PROVE  PauseIsDue'
<1>1. CASE HandleNewBlock
  <2>1. deposits' = deposits /\ paused' = paused
    BY <1>1, HandleNewBlockIs
  <2>2. pausing' # pausing => \E d \in deposits : d.by # None /\ Lost(d)
    BY <1>1, HandleNewBlockIs, ThreatHasCause
  <2>3. \A d : Lost(d)' <=> Lost(d)
    BY <2>1 DEF Lost
  <2> QED
    BY <2>1, <2>2, <2>3 DEF PauseIsDue
<1>2. CASE Others
  <2>1. deposits \subseteq deposits' /\ ((pausing' \/ paused') => (pausing \/ paused))
    BY <1>2, FrameKept DEF Frame
  <2>2. \A d : Lost(d) => Lost(d)'
    BY <2>1 DEF Lost, LostAmong
  <2> QED
    BY <2>1, <2>2 DEF PauseIsDue
<1> QED
  BY <1>1, <1>2

-----------------------------------------------------------------------------
(* The theorems                                                             *)

\* The daemon starts on a sound chain.
LEMMA InitSound == Init => Sound
<1> SUFFICES ASSUME Init PROVE Sound
  OBVIOUS
<1>1. TypeOK
  BY InitTypes
<1>2. PICK h \in Histories :
         /\ keys = h.keys /\ used = h.used /\ deposits = h.deposits /\ block = h.block
  BY DEF Init
<1>3. attested = {} /\ unvets = {} /\ pausing = FALSE /\ paused = FALSE
  BY DEF Init
<1>4. Ledger
  BY <1>2, HistoriesAssumption DEF Ledger
<1>5. Funded
  BY <1>2, HistoriesAssumption DEF Funded
<1>6. UsedOnce
  BY <1>2, HistoriesAssumption DEF UsedOnce
<1>7. MoneyIsSafe
  BY <1>2, HistoriesAssumption DEF MoneyIsSafe, Lost
<1>8. UnvetsAreDue /\ AttestedAreFundable /\ PauseIsDue
  BY <1>3 DEF UnvetsAreDue, AttestedAreFundable, PauseIsDue
<1> QED
  BY <1>1, <1>4, <1>5, <1>6, <1>7, <1>8 DEF Sound

\* Every step keeps it sound.
LEMMA SoundKept == Sound /\ [Next]_vars => Sound'
<1> SUFFICES ASSUME Sound, [Next]_vars PROVE Sound'
  OBVIOUS
<1>1. CASE UNCHANGED vars
  <2>1. UNCHANGED <<block, moved, keys, used, vetted, added, deposits, paused, attested, unvets,
                    pausing, moves, breaches>>
    BY <1>1 DEF vars
  <2>2. TypeOK' /\ Ledger'
    BY <2>1 DEF Sound, TypeOK, Ledger
  <2>3. Funded' /\ AttestedAreFundable'
    BY <2>1 DEF Sound, Funded, AttestedAreFundable, Fundable
  <2>4. UnvetsAreDue'
    BY <2>1 DEF Sound, UnvetsAreDue, Blemished
  <2>5. UsedOnce' /\ MoneyIsSafe' /\ PauseIsDue'
    BY <2>1 DEF Sound, UsedOnce, MoneyIsSafe, PauseIsDue, Lost
  <2> QED
    BY <2>2, <2>3, <2>4, <2>5 DEF Sound
<1>2. CASE Next
  <2>1. HandleNewBlock \/ Others
    BY <1>2 DEF Next, Others
  <2>2. TypeOK'
    BY <2>1, TypesKept DEF Sound
  <2>3. UnvetsAreDue' /\ AttestedAreFundable' /\ UsedOnce'
    BY <2>1, <2>2, UnvetsKept, FundableKept, UsedOnceKept DEF Sound
  <2>4. Ledger' /\ Funded' /\ MoneyIsSafe' /\ PauseIsDue'
    BY <2>1, <2>2, LedgerKept, FundedKept, MoneyKept, PauseKept DEF Sound
  <2> QED
    BY <2>2, <2>3, <2>4 DEF Sound
<1> QED
  BY <1>1, <1>2

\* Soundness is an invariant.
THEOREM AlwaysSound == Spec => []Sound
BY InitSound, SoundKept, PTL DEF Spec

\* The types of keys, messages and the bounds of the vetted amounts: no message
\* of the guardian unvets a key that is funded already.
THEOREM TypeCorrect == Spec => []TypeOK
<1>1. Sound => TypeOK
  BY DEF Sound
<1> QED
  BY <1>1, AlwaysSound, PTL

\* A deposit made with an attestation never loses its money: getFrontRunAttempts
\* and getInvalidKeys see everything that could take it, and the deposit root
\* and the nonce that the attestation carries keep it so until it is used.
THEOREM MoneySafe == Spec => []MoneyIsSafe
<1>1. Sound => MoneyIsSafe
  BY DEF Sound
<1> QED
  BY <1>1, AlwaysSound, PTL

\* No key is funded twice with attestations: getDuplicatedKeys leaves at most
\* one fundable copy of a key in all modules.
THEOREM NeverFundedTwice == Spec => []FundedOnce
<1>1. Sound => FundedOnce
  <2> SUFFICES ASSUME Sound, breaches = 0, NEW k \in lidoKeys, NEW x \in lidoKeys,
                      k.used, x.used, k.pub = x.pub
               PROVE  k = x
    BY DEF FundedOnce
  <2>1. /\ k.op \in Operators /\ k.index \in Nat /\ k.index + 1 <= used[k.op]
        /\ x.op \in Operators /\ x.index \in Nat /\ x.index + 1 <= used[x.op]
        /\ keys[x.op][x.index + 1].pub = keys[k.op][k.index + 1].pub
    BY KeyFields DEF Sound
  <2>2. k.index + 1 \in 1..used[k.op] /\ x.index + 1 \in 1..used[x.op]
    BY <2>1 DEF Sound, TypeOK
  <2>3. x.op = k.op /\ x.index + 1 = k.index + 1
    BY <2>1, <2>2 DEF Sound, UsedOnce
  <2>4. x.op = k.op /\ x.index = k.index
    BY <2>1, <2>3
  <2> QED
    BY <2>4, SameKey DEF Sound, isSameKey
<1> QED
  BY <1>1, AlwaysSound, PTL

\* handlePauseDeposits is called only when a key that Lido funded is somebody
\* else's.
THEOREM PauseHasCause == Spec => []PausedForCause
<1>1. Sound => PausedForCause
  BY DEF Sound, PauseIsDue, PausedForCause
<1> QED
  BY <1>1, AlwaysSound, PTL

\* A blemish of a fundable key is a reproach.
LEMMA NotSpotless ==
    ASSUME TypeOK, NEW o \in Operators, NEW i \in used[o] + 1..vetted[o], Blemished(o, i)
    PROVE  ~Spotless(o)
<1> SUFFICES ASSUME Spotless(o) PROVE FALSE
  OBVIOUS
<1> DEFINE k == KeyAt(o, i)
<1>1. i \in 1..Len(keys[o]) /\ ~(i <= used[o])
  <2>1. /\ Len(keys[o]) \in Nat /\ used[o] \in Nat /\ vetted[o] \in Nat
        /\ vetted[o] <= Len(keys[o])
    BY DEF TypeOK
  <2> QED
    BY <2>1
<1>2. /\ k \in lidoKeys /\ k.op = o /\ k.index + 1 = i /\ k.pub = keys[o][i].pub
      /\ (k.valid <=> keys[o][i].valid)
  BY <1>1, KeyListed
<1>3. /\ k.valid
      /\ \A e \in deposits : e.pub = k.pub => ~(e.valid /\ e.wc # WCOf[ModuleOf[o]])
      /\ \A x \in lidoKeys : (x.pub = k.pub /\ x # k) => (x.op # o /\ ~x.used)
      /\ \E e \in added : /\ e.op = o /\ e.pub = k.pub
                          /\ \A f \in added : (f.pub = k.pub /\ f # e) => e.block < f.block
  BY DEF Spotless
<1> HIDE DEF k
<1>4. CASE ~keys[o][i].valid
  BY <1>2, <1>3, <1>4
<1>5. CASE \E e \in deposits : e.pub = keys[o][i].pub /\ e.valid /\ e.wc # WCOf[ModuleOf[o]]
  BY <1>2, <1>3, <1>5
<1>6. ASSUME NEW q \in Operators, NEW j \in 1..Len(keys[q]),
             keys[q][j].pub = keys[o][i].pub, q # o \/ j # i, q = o \/ j <= used[q]
      PROVE  FALSE
  <2> DEFINE x == KeyAt(q, j)
  <2>1. /\ x \in lidoKeys /\ x.op = q /\ x.index + 1 = j /\ x.pub = keys[q][j].pub
        /\ (x.used <=> j <= used[q])
    BY KeyListed
  <2> HIDE DEF x
  <2>2. x # k
    BY <1>2, <1>6, <2>1
  <2> QED
    BY <1>2, <1>3, <1>6, <2>1, <2>2
<1>7. CASE \A e \in added : (e.op = o /\ e.pub = keys[o][i].pub)
                               => \E f \in added : f.pub = e.pub /\ f # e /\ ~(e.block < f.block)
  BY <1>2, <1>3, <1>7
<1> QED
  BY <1>4, <1>5, <1>6, <1>7 DEF Blemished

\* Only an unvetting takes vetted keys from an operator whose keys stay.
LEMMA WhoUnvets ==
    ASSUME Sound, Next, keys' = keys, NEW o \in Operators, ~(vetted'[o] >= vetted[o])
    PROVE  ~Spotless(o)
<1>0. TypeOK /\ UnvetsAreDue
  BY DEF Sound
<1>1. used[o] \in Nat /\ vetted[o] \in Nat /\ vetted[o] <= Len(keys[o]) /\ Len(keys[o]) \in Nat
  BY <1>0 DEF TypeOK
<1>2. vetted'[o] # vetted[o]
  BY <1>1
<1>3. ~(HandleNewBlock \/ NewBlock \/ PauseLands \/ ForeignDeposit)
  BY <1>2 DEF HandleNewBlock, NewBlock, PauseLands, ForeignDeposit
<1>4. \A m \in Modules : ~(Deposit(m) \/ Breach(m))
  BY <1>2 DEF Deposit, Breach, Fund
<1>5. \A q \in Operators : ~AddKey(q)
  BY <1>2 DEF AddKey
<1>6. ASSUME NEW q \in Operators, RemoveKey(q)
      PROVE  FALSE
  <2>1. Len(keys'[q]) = Len(keys[q]) - 1 /\ Len(keys[q]) \in Nat
    BY <1>0, <1>6, RemoveKeyIs DEF TypeOK
  <2> QED
    BY <2>1
<1>7. ASSUME NEW q \in Operators, Vet(q)
      PROVE  FALSE
  <2>1. vetted' = [vetted EXCEPT ![q] = Len(keys[q])] /\ vetted \in [Operators -> Nat]
    BY <1>0, <1>7 DEF Vet, TypeOK
  <2>2. vetted'[o] = vetted[o] \/ vetted'[o] = Len(keys[o])
    BY <2>1
  <2> QED
    BY <1>1, <1>2, <2>2
<1>8. UnvetLands
  BY <1>3, <1>4, <1>5, <1>6, <1>7 DEF Next
<1>9. PICK u \in unvets : o \notin DOMAIN u.counts => vetted'[o] = vetted[o]
  BY <1>0, <1>8, UnvetLandsIs
<1>10. /\ u.counts[o] \in used[o]..vetted[o] - 1
       /\ Blemished(o, u.counts[o] + 1)
  BY <1>0, <1>2, <1>9 DEF UnvetsAreDue
<1> DEFINE i == u.counts[o] + 1
<1>11. i \in used[o] + 1..vetted[o]
  BY <1>1, <1>10
<1> HIDE DEF i
<1>12. Blemished(o, i)
  BY <1>10 DEF i
<1> QED
  BY <1>0, <1>11, <1>12, NotSpotless

\* An unvetting, however late it arrives, takes nothing from an operator
\* without reproach.
THEOREM SpotlessStayVetted == Spec => SpotlessKeptVetted
<1>1. ASSUME Sound, [Next]_vars
      PROVE  [keys' = keys => \A o \in Operators : Spotless(o) => vetted'[o] >= vetted[o]]_vars
  <2> SUFFICES ASSUME Next, keys' = keys, NEW o \in Operators, Spotless(o)
               PROVE  vetted'[o] >= vetted[o]
    BY <1>1
  <2> QED
    BY <1>1, WhoUnvets
<1> QED
  BY <1>1, AlwaysSound, PTL DEF Spec, SpotlessKeptVetted

=============================================================================
