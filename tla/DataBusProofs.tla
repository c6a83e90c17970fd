---------------------------- MODULE DataBusProofs ----------------------------
(* DataBus implements SerialSender, for any messages, wallets and bounds.     *)
EXTENDS DataBus, TLAPS

\* Who waits or holds has a wallet, and who holds has locked the mutex of it.
Placed ==
    \A m \in Messages :
        /\ pc[m] \in Waiting \cup Holding => from[m] \in Wallets
        /\ pc[m] \in Holding => locked[from[m]]

\* At most one publication of a wallet is past its mutex.
Exclusive ==
    \A m, n \in Messages :
        pc[m] \in Holding /\ pc[n] \in Holding /\ from[m] = from[n] => m = n

\* What was broadcast fits its event; what is pending was broadcast; what is
\* resolved was mined.
Recorded ==
    /\ \A m \in Messages : pc[m] \in {"counted", "sent"} => Encodable(m)
    /\ \A t \in pool : pc[t.msg] \in {"sent"} \cup Settled
    /\ \A m \in Messages : pc[m] = "resolved" => m \in bus

IInv == TypeOK /\ Placed /\ Exclusive /\ Recorded

Steps == {"new"} \cup Waiting \cup Holding \cup Settled

-----------------------------------------------------------------------------
\* Every state the specification starts in satisfies the invariant.
LEMMA InitInv == Init => IInv
  <1> SUFFICES ASSUME Init PROVE IInv
    OBVIOUS
  <1> USE DEF Init
  <1>1. TypeOK
    <2>1. locked \in [Wallets -> BOOLEAN]
      BY Zenon
    <2>2. faults \in 0..MaxFaults /\ restarts \in 0..MaxRestarts
      BY BoundsAreNat
    <2> QED BY <2>1, <2>2, LoadsAreKinds DEF TypeOK
  <1>2. Placed /\ Exclusive
    BY DEF Placed, Exclusive, Waiting, Holding
  <1>3. Recorded
    BY DEF Recorded
  <1> QED BY <1>1, <1>2, <1>3 DEF IInv

\* Mutex.lock, at the call and when its caller wakes up, lets nobody in beside
\* another and moves nobody else.
LEMMA LockKeeps ==
  ASSUME IInv, NEW m \in Messages, NEW w \in Wallets,
         pc[m] \in {"new", "woken"}, lock(m, w),
         from' = [from EXCEPT ![m] = w],
         UNCHANGED << kind, nonce, chain, faults, restarts >>
  PROVE  IInv'
  <1> USE DEF IInv, TypeOK, Placed, Exclusive, Recorded, Waiting, Holding, Settled,
              lock, chain
  <1>1. TypeOK'  OBVIOUS
  <1>2. Placed'  OBVIOUS
  <1>3. Exclusive'  OBVIOUS
  <1>4. Recorded'
    <2>1. \A n \in Messages : Encodable(n)' = Encodable(n)
      BY DEF Encodable, getEventName, transformMessage
    <2> QED BY <2>1
  <1> QED BY <1>1, <1>2, <1>3, <1>4

\* Mutex.unlock by its holder leaves the mutex free with nobody past it.
LEMMA UnlockKeeps ==
  ASSUME IInv, NEW m \in Messages, NEW outcome \in {"resolved", "rejected"},
         pc[m] \in Holding, outcome = "resolved" => m \in bus, unlock(m, outcome),
         UNCHANGED << kind, from, nonce, count, bus, restarts >>,
         faults' \in 0..MaxFaults,
         \A t \in pool' : t \in pool \/ (outcome = "rejected" /\ t = Tx(m))
  PROVE  IInv'
  <1> USE DEF IInv, TypeOK, Placed, Exclusive, Recorded, Waiting, Holding, Settled,
              unlock, Tx
  <1>1. TypeOK'  OBVIOUS
  <1>2. Placed'  OBVIOUS
  <1>3. Exclusive'  OBVIOUS
  <1>4. Recorded'
    <2>1. \A n \in Messages : Encodable(n)' = Encodable(n)
      BY DEF Encodable, getEventName, transformMessage
    <2> QED BY <2>1
  <1> QED BY <1>1, <1>2, <1>3, <1>4

\* The inductive step, an action at a time.
LEMMA StepInv == IInv /\ [Next]_vars => IInv'
  <1> SUFFICES ASSUME IInv, [Next]_vars PROVE IInv'
    OBVIOUS
  <1> USE BoundsAreNat DEF chain, call
  <1>e. kind' = kind => \A n \in Messages : Encodable(n)' = Encodable(n)
    BY DEF Encodable, getEventName, transformMessage
  <1>1. ASSUME NEW m \in Messages, NEW w \in Wallets, Publish(m, w) PROVE IInv'
    BY <1>1, LockKeeps DEF Publish
  <1>2. ASSUME NEW m \in Messages, Wake(m) PROVE IInv'
    <2>1. from[m] \in Wallets /\ from' = [from EXCEPT ![m] = from[m]]
      BY <1>2 DEF Wake, IInv, Placed, TypeOK, Waiting
    <2> QED BY <1>2, <2>1, LockKeeps DEF Wake
  <1>3. ASSUME NEW m \in Messages, ReadNonce(m) PROVE IInv'
    <2>1. from[m] \in Wallets
      BY <1>3 DEF ReadNonce, IInv, Placed, Holding
    <2>2. nonce'[m] \in Nat /\ faults' \in 0..MaxFaults
      BY <1>3, <2>1 DEF ReadNonce, IInv, TypeOK, Fault, getTransactionCount
    <2> QED BY <1>3, <1>e, <2>1, <2>2
         DEF ReadNonce, IInv, TypeOK, Placed, Exclusive, Recorded, Waiting, Holding, Settled
  <1>4. ASSUME NEW m \in Messages, EncodeFails(m) PROVE IInv'
    <2>1. pc[m] \in Holding /\ faults' \in 0..MaxFaults /\ pool' = pool
      BY <1>4 DEF EncodeFails, Holding, IInv, TypeOK
    <2> QED BY <1>4, <2>1, UnlockKeeps DEF EncodeFails
  <1>5. ASSUME NEW m \in Messages, RequestFails(m) PROVE IInv'
    <2>1. faults' \in 0..MaxFaults /\ pool' = pool
      BY <1>5 DEF RequestFails, Fault, IInv, TypeOK
    <2> QED BY <1>5, <2>1, UnlockKeeps DEF RequestFails
  <1>6. ASSUME NEW m \in Messages, Broadcast(m) PROVE IInv'
    <2>1. pool' \subseteq pool \cup {Tx(m)} /\ from[m] \in Wallets
      BY <1>6 DEF Broadcast, Accept, IInv, Placed, Holding
    <2>2. Tx(m) \in [from : Wallets, nonce : Nat, msg : Messages] /\ Tx(m).msg = m
      BY <2>1 DEF Tx, IInv, TypeOK
    <2> QED BY <1>6, <1>e, <2>1, <2>2
         DEF Broadcast, IInv, TypeOK, Placed, Exclusive, Recorded, Waiting, Holding, Settled
  <1>7. ASSUME NEW m \in Messages, AnswerLost(m) PROVE IInv'
    <2>1. pc[m] \in Holding /\ faults' \in 0..MaxFaults
          /\ \A t \in pool' : t \in pool \/ t = Tx(m)
      BY <1>7 DEF AnswerLost, Accept, Fault, Holding, IInv, TypeOK
    <2> QED BY <1>7, <2>1, UnlockKeeps DEF AnswerLost
  <1>8. ASSUME NEW m \in Messages, Refused(m) PROVE IInv'
    <2>1. pc[m] \in Holding /\ faults' \in 0..MaxFaults /\ pool' = pool
      BY <1>8 DEF Refused, Holding, IInv, TypeOK
    <2> QED BY <1>8, <2>1, UnlockKeeps DEF Refused
  <1>9. ASSUME NEW m \in Messages, Confirmed(m) PROVE IInv'
    <2>1. pc[m] \in Holding /\ faults' \in 0..MaxFaults /\ pool' = pool
      BY <1>9 DEF Confirmed, Holding, IInv, TypeOK
    <2> QED BY <1>9, <2>1, UnlockKeeps DEF Confirmed
  <1>10. ASSUME NEW t \in pool, Mine(t) PROVE IInv'
    <2>1. count[t.from] \in Nat /\ t.msg \in Messages
      BY DEF IInv, TypeOK
    <2> QED BY <1>10, <1>e, <2>1
         DEF Mine, IInv, TypeOK, Placed, Exclusive, Recorded, Waiting, Holding, Settled
  <1>11. ASSUME NEW t \in pool, Drop(t) PROVE IInv'
    BY <1>11, <1>e DEF Drop, Fault, IInv, TypeOK, Placed, Exclusive, Recorded,
       Waiting, Holding, Settled
  <1>12. CASE Restart
    <2> USE <1>12 DEF Restart
    <2>1. TypeOK'
      <3>1. locked' \in [Wallets -> BOOLEAN]
        BY Zenon
      <3>2. restarts' \in 0..MaxRestarts
        BY DEF IInv, TypeOK
      <3> QED BY <3>1, <3>2 DEF IInv, TypeOK, Waiting, Holding, Settled
    <2>2. Placed' /\ Exclusive'
      BY DEF IInv, TypeOK, Placed, Exclusive, Waiting, Holding
    <2>3. Recorded'
      BY <1>e DEF IInv, TypeOK, Recorded, Waiting, Holding, Settled
    <2> QED BY <2>1, <2>2, <2>3 DEF IInv
  <1>13. CASE UNCHANGED vars
    BY <1>13, <1>e DEF vars, IInv, TypeOK, Placed, Exclusive, Recorded
  <1> QED BY <1>1, <1>2, <1>3, <1>4, <1>5, <1>6, <1>7, <1>8, <1>9, <1>10,
             <1>11, <1>12, <1>13 DEF Next, Step, sendMessage

\* The invariant holds in every reachable state.
LEMMA InvHolds == Spec => []IInv
  BY InitInv, StepInv, PTL DEF Spec

\* DSMMessageSender, Mutex and DataBusClient keep their types.
THEOREM TypeCorrect == Spec => []TypeOK
  <1>1. IInv => TypeOK
    BY DEF IInv
  <1> QED BY <1>1, InvHolds, PTL

\* Mutual exclusion of the Mutex of each wallet's sender.
THEOREM OneSends == Spec => []Exclusive
  <1>1. IInv => Exclusive
    BY DEF IInv
  <1> QED BY <1>1, InvHolds, PTL

-----------------------------------------------------------------------------
\* What is readable is what was mined and fits its event.
LEMMA ReadableIs == Readable = { m \in bus \cap Messages : Encodable(m) }
  BY DEF Readable, getAll, Encodable

\* The abstract state of each step of a publication.
LEMMA AbstractIs ==
  ASSUME NEW s \in Steps
  PROVE  /\ (Abstract(s) = "new") = (s = "new")
         /\ (Abstract(s) = "queued") = (s \in Waiting)
         /\ (Abstract(s) = "sending") = (s \in Holding)
         /\ (Abstract(s) = "sent") = (s = "resolved")
         /\ (Abstract(s) = "given up") = (s \in {"rejected", "lost"})
         /\ s \in {"rejected", "lost"} => Abstract(s) = "given up"
  BY DEF Abstract, Steps, Waiting, Holding, Settled

\* The initial states map to initial states.
LEMMA InitMaps == Init => Serial!Init
  <1> SUFFICES ASSUME Init PROVE Serial!Init
    OBVIOUS
  <1>1. Readable = {}
    BY ReadableIs DEF Init
  <1>2. state = [m \in Messages |-> "new"]
    BY DEF Init, state, Abstract, Waiting, Holding
  <1> QED BY <1>1, <1>2 DEF Init, Serial!Init

\* An unlocked mutex means that the abstract sender is free.
LEMMA UnlockedIsFree ==
  ASSUME IInv, NEW w \in Wallets, ~locked[w]
  PROVE  Serial!Free(w)
  BY DEF Serial!Free, state, Abstract, IInv, Placed

\* Mutex.lock is a turn taken, a turn waited for, or nothing new.
LEMMA LockMaps ==
  ASSUME IInv, NEW m \in Messages, NEW w \in Wallets, lock(m, w)
  PROVE  \/ state' = [state EXCEPT ![m] = "queued"]
         \/ Serial!Free(w) /\ state' = [state EXCEPT ![m] = "sending"]
  <1> USE DEF IInv, TypeOK
  <1>1. CASE ~locked[w]
    <2>1. pc' = [pc EXCEPT ![m] = "locked"]
      BY <1>1 DEF lock
    <2>2. state' = [state EXCEPT ![m] = "sending"]
      BY <2>1 DEF state, Abstract, Waiting, Holding
    <2> QED BY <1>1, <2>2, UnlockedIsFree
  <1>2. CASE locked[w]
    <2>1. pc' = [pc EXCEPT ![m] = "waiting"]
      BY <1>2 DEF lock
    <2> QED BY <2>1 DEF state, Abstract, Waiting
  <1> QED BY <1>1, <1>2

\* Waking the others is invisible: Mutex.unlock only ends the call of its holder.
LEMMA UnlockMaps ==
  ASSUME IInv, NEW m \in Messages, NEW outcome \in Settled, unlock(m, outcome)
  PROVE  state' = [state EXCEPT ![m] = Abstract(outcome)]
  BY DEF IInv, TypeOK, unlock, state, Abstract, Waiting, Holding

\* A publication that ends without success is given up.
LEMMA GiveUpMaps ==
  ASSUME IInv, NEW m \in Messages, pc[m] \in {"new"} \cup Holding,
         state' = [state EXCEPT ![m] = "given up"],
         UNCHANGED << from, Readable >>
  PROVE  Serial!Next
  <1>1. state[m] \in {"new", "queued", "sending"}
    BY AbstractIs DEF IInv, TypeOK, state, Steps
  <1>2. state' = [n \in Messages |-> IF n \in {m} THEN "given up" ELSE state[n]]
    BY DEF state
  <1>3. Serial!GiveUp({m})
    BY <1>1, <1>2 DEF Serial!GiveUp
  <1> QED BY <1>3 DEF Serial!Next

\* Every step of the transport is a step of the serial sender, or none.
LEMMA StepMaps == IInv /\ [Next]_vars => [Serial!Next]_(Serial!vars)
  <1> SUFFICES ASSUME IInv, [Next]_vars PROVE [Serial!Next]_(Serial!vars)
    OBVIOUS
  <1> USE DEF chain, call
  <1>r. UNCHANGED << kind, bus >> => Readable' = Readable
    BY DEF Readable, getAll, getEventName, transformMessage
  <1>g. "given up" = Abstract("rejected") /\ "rejected" \in Settled
    BY DEF Abstract, Waiting, Holding, Settled
  <1>1. ASSUME NEW m \in Messages, NEW w \in Wallets, Publish(m, w) PROVE Serial!Next
    <2>1. state[m] = "new"
      BY <1>1 DEF Publish, state, Abstract, Waiting, Holding
    <2>2. Serial!Publish(m, w)
      BY <1>1, <1>r, <2>1, LockMaps DEF Publish, Serial!Publish
    <2> QED BY <2>2 DEF Serial!Next
  <1>2. ASSUME NEW m \in Messages, Wake(m) PROVE [Serial!Next]_(Serial!vars)
    <2>1. from[m] \in Wallets /\ state[m] = "queued"
      BY <1>2 DEF Wake, IInv, Placed, state, Abstract, Waiting
    <2>2. CASE state' = [state EXCEPT ![m] = "queued"]
      <3>1. state' = state
        BY <2>1, <2>2 DEF state
      <3> QED BY <1>2, <1>r, <3>1 DEF Wake, Serial!vars
    <2>3. CASE Serial!Free(from[m]) /\ state' = [state EXCEPT ![m] = "sending"]
      <3>1. Serial!Start(m)
        BY <1>2, <1>r, <2>1, <2>3 DEF Wake, Serial!Start
      <3> QED BY <3>1 DEF Serial!Next
    <2> QED BY <1>2, <2>1, <2>2, <2>3, LockMaps DEF Wake
  <1>3. ASSUME NEW m \in Messages, ReadNonce(m) PROVE UNCHANGED Serial!vars
    BY <1>3, <1>r DEF ReadNonce, IInv, TypeOK, Serial!vars, state, Abstract, Waiting, Holding
  <1>4. ASSUME NEW m \in Messages, EncodeFails(m) PROVE Serial!Next
    BY <1>4, <1>r, <1>g, UnlockMaps, GiveUpMaps DEF EncodeFails, Holding
  <1>5. ASSUME NEW m \in Messages, RequestFails(m) PROVE Serial!Next
    BY <1>5, <1>r, <1>g, UnlockMaps, GiveUpMaps DEF RequestFails
  <1>6. ASSUME NEW m \in Messages, Broadcast(m) PROVE UNCHANGED Serial!vars
    BY <1>6, <1>r DEF Broadcast, IInv, TypeOK, Serial!vars, state, Abstract, Waiting, Holding
  <1>7. ASSUME NEW m \in Messages, AnswerLost(m) PROVE Serial!Next
    BY <1>7, <1>r, <1>g, UnlockMaps, GiveUpMaps DEF AnswerLost, Holding
  <1>8. ASSUME NEW m \in Messages, Refused(m) PROVE Serial!Next
    BY <1>8, <1>r, <1>g, UnlockMaps, GiveUpMaps DEF Refused, Holding
  <1>9. ASSUME NEW m \in Messages, Confirmed(m) PROVE Serial!Next
    <2>1. state[m] = "sending"
      BY <1>9 DEF Confirmed, state, Abstract, Waiting, Holding
    <2>2. m \in Readable
      BY <1>9, ReadableIs DEF Confirmed, IInv, Recorded
    <2>3. state' = [state EXCEPT ![m] = "sent"]
      <3>1. Abstract("resolved") = "sent" /\ "resolved" \in Settled
        BY DEF Abstract, Waiting, Holding, Settled
      <3> QED BY <1>9, <3>1, UnlockMaps DEF Confirmed
    <2>4. Serial!Resolve(m)
      BY <1>9, <1>r, <2>1, <2>2, <2>3 DEF Confirmed, Serial!Resolve
    <2> QED BY <2>4 DEF Serial!Next
  <1>10. ASSUME NEW t \in pool, Mine(t) PROVE [Serial!Next]_(Serial!vars)
    <2>1. t.msg \in Messages /\ pc[t.msg] \in {"sent"} \cup Settled
      BY DEF IInv, TypeOK, Recorded
    <2>2. UNCHANGED << state, from >>
      BY <1>10 DEF Mine, state
    <2>3. Readable' = Readable \/ Readable' = Readable \cup {t.msg}
      BY <1>10, <2>1 DEF Mine, Readable, getAll, getEventName, transformMessage
    <2>4. CASE pc[t.msg] = "resolved"
      <3>1. bus' = bus
        BY <1>10, <2>1, <2>4 DEF Mine, IInv, Recorded
      <3> QED BY <1>10, <1>r, <2>2, <3>1 DEF Mine, Serial!vars
    <2>5. CASE pc[t.msg] # "resolved"
      <3>1. state[t.msg] \in {"sending", "given up"}
        BY <2>1, <2>5 DEF state, Abstract, Waiting, Holding, Settled
      <3>2. Readable' = Readable \/ Serial!Land(t.msg)
        BY <2>2, <2>3, <3>1 DEF Serial!Land
      <3> QED BY <2>1, <2>2, <3>2 DEF Serial!vars, Serial!Next
    <2> QED BY <2>4, <2>5
  <1>11. ASSUME NEW t \in pool, Drop(t) PROVE UNCHANGED Serial!vars
    BY <1>11, <1>r DEF Drop, Serial!vars, state
  <1>12. CASE Restart
    <2> DEFINE M == { m \in Messages : pc[m] \in Waiting \cup Holding }
    <2>1. \A m \in M : state[m] \in {"new", "queued", "sending"}
      BY DEF state, Abstract
    <2>2. state' = [m \in Messages |-> IF m \in M THEN "given up" ELSE state[m]]
      BY <1>12 DEF Restart, state, Abstract, Waiting, Holding, IInv, TypeOK
    <2>3. Serial!GiveUp(M)
      BY <1>12, <1>r, <2>1, <2>2 DEF Restart, Serial!GiveUp
    <2> QED BY <2>3 DEF Serial!Next
  <1>13. CASE UNCHANGED vars
    BY <1>13, <1>r DEF vars, Serial!vars, state
  <1> QED BY <1>1, <1>2, <1>3, <1>4, <1>5, <1>6, <1>7, <1>8, <1>9, <1>10,
             <1>11, <1>12, <1>13 DEF Next, Step, sendMessage

\* DataBusService publishes as SerialSender does: the messages of a wallet one at
\* a time, each on the bus, as it was published, when its promise resolves.
THEOREM Refinement == Spec => ImplementsSerialSender
  <1>1. Spec => []IInv
    BY InvHolds
  <1> QED BY <1>1, InitMaps, StepMaps, PTL DEF Spec, ImplementsSerialSender, Serial!Spec

-----------------------------------------------------------------------------
\* The pool: each transaction is of the wallet of its message and the only one of
\* that wallet; a nonce that was read is never beyond the next one.
Queued ==
    /\ NothingBehindAGap
    /\ \A t, u \in pool : t.from = u.from => t = u
    /\ \A t \in pool : t.from = from[t.msg]
    /\ \A m \in Messages : pc[m] = "counted" => nonce[m] <= count[from[m]]

\* A node takes from a publication past its mutex only the next transaction, in
\* the place of a pending one.
LEMMA AcceptKeeps ==
  ASSUME IInv, Queued, NEW m \in Messages, pc[m] = "counted", Accept(m),
         UNCHANGED << from, nonce, count >>,
         \A n \in Messages : pc'[n] = "counted" => pc[n] = "counted"
  PROVE  Queued'
  <1>1. /\ from[m] \in Wallets /\ nonce[m] \in Nat /\ count[from[m]] \in Nat
        /\ nonce[m] = count[from[m]]
    BY DEF IInv, TypeOK, Placed, Holding, Queued, Accept
  <1>2. /\ Tx(m).from = from[m] /\ Tx(m).nonce = nonce[m] /\ Tx(m).msg = m
        /\ pool' = (pool \ Rivals(Tx(m))) \cup {Tx(m)}
    BY DEF Tx, Accept
  <1>3. \A t \in pool' : t = Tx(m) \/ (t \in pool /\ t.from # from[m])
    BY <1>1, <1>2 DEF Rivals, Queued, NothingBehindAGap
  <1> QED BY <1>1, <1>2, <1>3 DEF Queued, NothingBehindAGap

\* The pool stays in order when nothing is added to it and no nonce is read.
LEMMA QueuedKept ==
  ASSUME Queued, pool' \subseteq pool, UNCHANGED << nonce, count >>,
         \A n \in Messages : pc'[n] = "counted" => pc[n] = "counted" /\ from'[n] = from[n],
         \A t \in pool : from'[t.msg] = from[t.msg]
  PROVE  Queued'
  BY DEF Queued, NothingBehindAGap

\* The inductive step for the pool.
LEMMA StepQueued == IInv /\ Queued /\ [Next]_vars => Queued'
  <1> SUFFICES ASSUME IInv, Queued, [Next]_vars PROVE Queued'
    OBVIOUS
  <1> USE DEF chain, call
  <1>1. ASSUME NEW m \in Messages, NEW w \in Wallets, Publish(m, w) PROVE Queued'
    <2>1. \A t \in pool : t.msg \in Messages /\ t.msg # m
      BY <1>1 DEF Publish, IInv, TypeOK, Recorded, Settled
    <2>2. \A n \in Messages : pc'[n] = "counted" => pc[n] = "counted" /\ n # m
      BY <1>1 DEF Publish, lock, IInv, TypeOK
    <2>3. \A n \in Messages : n # m => from'[n] = from[n]
      BY <1>1 DEF Publish, IInv, TypeOK
    <2> QED BY <1>1, <2>1, <2>2, <2>3, QueuedKept DEF Publish
  <1>2. ASSUME NEW m \in Messages, Wake(m) PROVE Queued'
    <2>1. \A n \in Messages : pc'[n] = "counted" => pc[n] = "counted"
      BY <1>2 DEF Wake, lock, IInv, TypeOK
    <2> QED BY <1>2, <2>1, QueuedKept DEF Wake
  <1>3. ASSUME NEW m \in Messages, ReadNonce(m) PROVE Queued'
    <2>1. from[m] \in Wallets /\ count[from[m]] \in Nat
      BY <1>3 DEF ReadNonce, IInv, TypeOK, Placed, Holding
    <2>2. nonce'[m] <= count[from[m]] /\ \A n \in Messages : n # m => nonce'[n] = nonce[n]
      BY <1>3, <2>1 DEF ReadNonce, IInv, TypeOK, getTransactionCount
    <2>3. \A n \in Messages : n # m /\ pc'[n] = "counted" => pc[n] = "counted"
      BY <1>3 DEF ReadNonce, IInv, TypeOK
    <2> QED BY <1>3, <2>2, <2>3 DEF ReadNonce, Queued, NothingBehindAGap
  <1>4. ASSUME NEW m \in Messages, NEW outcome \in Settled, unlock(m, outcome)
        PROVE \A n \in Messages : pc'[n] = "counted" => pc[n] = "counted"
    BY <1>4 DEF unlock, Settled
  <1>5. ASSUME NEW m \in Messages, EncodeFails(m) \/ RequestFails(m) \/ Refused(m) \/ Confirmed(m)
        PROVE Queued'
    <2>1. \E outcome \in Settled : unlock(m, outcome)
      BY <1>5 DEF EncodeFails, RequestFails, Refused, Confirmed, Settled
    <2>2. UNCHANGED << from, nonce, pool, count >>
      BY <1>5 DEF EncodeFails, RequestFails, Refused, Confirmed
    <2> QED BY <1>4, <2>1, <2>2, QueuedKept
  <1>6. ASSUME NEW m \in Messages, Broadcast(m) PROVE Queued'
    BY <1>6, AcceptKeeps DEF Broadcast, IInv, TypeOK
  <1>7. ASSUME NEW m \in Messages, AnswerLost(m) PROVE Queued'
    <2>1. \A n \in Messages : pc'[n] = "counted" => pc[n] = "counted"
      BY <1>4, <1>7 DEF AnswerLost, Settled
    <2> QED BY <1>7, <2>1, AcceptKeeps DEF AnswerLost
  <1>8. ASSUME NEW t \in pool, Mine(t) PROVE Queued'
    <2>1. t.from \in Wallets /\ \A w \in Wallets : count[w] \in Nat
      BY DEF IInv, TypeOK
    <2>2. \A w \in Wallets : count[w] <= count'[w] /\ (w # t.from => count'[w] = count[w])
      BY <1>8, <2>1 DEF Mine, IInv, TypeOK
    <2>3. \A u \in pool' : u \in pool /\ u.from \in Wallets /\ u.from # t.from
      BY <1>8 DEF Mine, Queued, IInv, TypeOK
    <2>4. \A m \in Messages : pc[m] = "counted" => from[m] \in Wallets /\ nonce[m] \in Nat
      BY DEF IInv, TypeOK, Placed, Holding
    <2>5. \A m \in Messages : pc[m] = "counted" => nonce[m] <= count'[from[m]]
      <3> SUFFICES ASSUME NEW m \in Messages, pc[m] = "counted"
                   PROVE nonce[m] <= count'[from[m]]
        OBVIOUS
      <3>1. nonce[m] <= count[from[m]] /\ count[from[m]] <= count'[from[m]]
        BY <2>2, <2>4 DEF Queued
      <3>2. count'[from[m]] \in Nat /\ count[from[m]] \in Nat /\ nonce[m] \in Nat
        BY <1>8, <2>1, <2>4 DEF Mine, IInv, TypeOK
      <3> QED BY <3>1, <3>2
    <2> QED BY <1>8, <2>2, <2>3, <2>5 DEF Mine, Queued, NothingBehindAGap
  <1>9. ASSUME NEW t \in pool, Drop(t) PROVE Queued'
    BY <1>9, QueuedKept DEF Drop
  <1>10. CASE Restart
    BY <1>10, QueuedKept DEF Restart
  <1>11. CASE UNCHANGED vars
    BY <1>11, QueuedKept DEF vars
  <1> QED BY <1>1, <1>2, <1>3, <1>5, <1>6, <1>7, <1>8, <1>9, <1>10, <1>11
          DEF Next, Step, sendMessage

\* The pool is in order in every reachable state.
LEMMA QueuedHolds == Spec => [](IInv /\ Queued)
  <1>1. Init => Queued
    BY DEF Init, Queued, NothingBehindAGap
  <1> QED BY <1>1, InvHolds, StepQueued, PTL DEF Spec

\* With the nonce of 'latest', no transaction of DataBusClient ever waits for a
\* nonce that nobody uses, whatever was dropped, lost or replaced.
THEOREM NoGaps == Spec => []NothingBehindAGap
  <1>1. Queued => NothingBehindAGap
    BY DEF Queued
  <1> QED BY <1>1, QueuedHolds, PTL

\* The daemon replaces only transactions of publications that have settled.
THEOREM ReplacesAbandoned == Spec => OnlyAbandonedReplaced
  <1> DEFINE A == \A t \in pool : (\E u \in pool' \ pool : u.from = t.from /\ u.nonce = t.nonce)
                                    => pc[t.msg] \in Settled
  <1>1. IInv /\ Queued /\ [Next]_vars => [A]_vars
    <2> SUFFICES ASSUME IInv, Queued, Next, NEW t \in pool, NEW u \in pool' \ pool,
                        u.from = t.from
                 PROVE  pc[t.msg] \in Settled
      OBVIOUS
    <2> USE DEF chain, call
    <2>1. PICK m \in Messages : Broadcast(m) \/ AnswerLost(m)
      BY DEF Next, Step, sendMessage, Publish, Wake, ReadNonce, EncodeFails, RequestFails,
             Refused, Confirmed, Mine, Drop, Restart
    <2>2. pc[m] = "counted" /\ u = Tx(m)
      BY <2>1 DEF Broadcast, AnswerLost, Accept
    <2>3. t.msg \in Messages /\ t.from = from[t.msg] /\ u.from = from[m]
      BY <2>2 DEF Queued, IInv, TypeOK, Tx
    <2>4. pc[t.msg] \in {"sent"} \cup Settled
      BY DEF IInv, Recorded
    <2>5. pc[t.msg] # "sent"
      BY <2>2, <2>3 DEF IInv, Exclusive, Holding
    <2> QED BY <2>4, <2>5
  <1> QED BY <1>1, QueuedHolds, PTL DEF Spec, OnlyAbandonedReplaced

-----------------------------------------------------------------------------
\* As long as nothing fails outside: what is pending or mined is a message whose
\* sender waits for it or was told, and the nonce that was read is the next one.
Calm ==
    faults = 0 /\ restarts = 0 =>
        /\ \A m \in Messages : pc[m] # "rejected"
        /\ \A t \in pool : pc[t.msg] = "sent" /\ t.msg \notin bus
        /\ \A m \in bus : pc[m] \in {"sent", "resolved"}
        /\ \A m \in Messages : pc[m] = "counted" => nonce[m] = count[from[m]]

\* busEvents and transformMessage agree on all messages of both versions.
LEMMA AllEncodable == ASSUME TypeOK, NEW m \in Messages PROVE Encodable(m)
  <1>1. kind[m] \in Kinds
    BY DEF TypeOK
  <1>2. CASE kind[m].type = "ping"
    BY <1>2 DEF Encodable, getEventName, transformMessage, eventMappers
  <1>3. CASE kind[m].type # "ping" /\ kind[m].dsmVersion = 4
    BY <1>1, <1>3 DEF Encodable, getEventName, transformMessage, eventMappers, Kinds,
       busEvents, wireSignature
  <1>4. CASE kind[m].type # "ping" /\ kind[m].dsmVersion = 5
    BY <1>1, <1>4 DEF Encodable, getEventName, transformMessage, eventMappers, Kinds,
       busEvents, wireSignature
  <1> QED BY <1>1, <1>2, <1>3, <1>4 DEF Kinds

\* While a message has its nonce and is not yet broadcast, nothing of its wallet
\* is pending.
LEMMA NothingPending ==
  ASSUME IInv, Queued, Calm, faults = 0, restarts = 0, NEW m \in Messages, pc[m] = "counted"
  PROVE  \A t \in pool : t.from # from[m]
  <1> SUFFICES ASSUME NEW t \in pool, t.from = from[m] PROVE FALSE
    OBVIOUS
  <1>1. t.msg \in Messages /\ pc[t.msg] = "sent" /\ from[t.msg] = from[m]
    BY DEF IInv, TypeOK, Queued, Calm
  <1> QED BY <1>1 DEF IInv, Exclusive, Holding

\* The inductive step while nothing has failed; a step that counts a fault or a
\* restart has nothing to show.
LEMMA StepCalm == IInv /\ Queued /\ Calm /\ [Next]_vars => Calm'
  <1> SUFFICES ASSUME IInv, Queued, Calm, [Next]_vars, faults' = 0, restarts' = 0
               PROVE  /\ \A m \in Messages : pc'[m] # "rejected"
                      /\ \A t \in pool' : pc'[t.msg] = "sent" /\ t.msg \notin bus'
                      /\ \A m \in bus' : pc'[m] \in {"sent", "resolved"}
                      /\ \A m \in Messages : pc'[m] = "counted" => nonce'[m] = count'[from'[m]]
    BY DEF Calm
  <1> USE DEF chain, call
  <1>0. /\ pc \in [Messages -> Steps] /\ from \in [Messages -> Wallets \cup {Nobody}]
        /\ nonce \in [Messages -> Nat] /\ bus \subseteq Messages
        /\ \A t \in pool : t.msg \in Messages
        /\ faults \in Nat /\ restarts \in Nat
    BY BoundsAreNat DEF IInv, TypeOK, Steps
  <1>f. ~Fault
    BY <1>0 DEF Fault
  <1>1. ASSUME NEW m \in Messages, NEW w \in Wallets, Publish(m, w) PROVE Calm'
    <2>1. /\ pc'[m] \in {"locked", "waiting"}
          /\ \A n \in Messages \ {m} : pc'[n] = pc[n] /\ from'[n] = from[n]
      BY <1>0, <1>1 DEF Publish, lock
    <2> QED BY <1>0, <1>1, <2>1 DEF Publish, Calm
  <1>2. ASSUME NEW m \in Messages, Wake(m) PROVE Calm'
    <2>1. /\ pc'[m] \in {"locked", "waiting"}
          /\ \A n \in Messages \ {m} : pc'[n] = pc[n]
      BY <1>0, <1>2 DEF Wake, lock
    <2> QED BY <1>0, <1>2, <2>1 DEF Wake, Calm
  <1>3. ASSUME NEW m \in Messages, ReadNonce(m) PROVE Calm'
    <2>1. /\ pc'[m] = "counted" /\ nonce'[m] = count[from[m]]
          /\ \A n \in Messages \ {m} : pc'[n] = pc[n] /\ nonce'[n] = nonce[n]
          /\ faults' = faults
      BY <1>0, <1>3, <1>f DEF ReadNonce, getTransactionCount
    <2> QED BY <1>0, <1>3, <2>1 DEF ReadNonce, Calm
  <1>4. ASSUME NEW m \in Messages, Broadcast(m) PROVE Calm'
    <2>1. faults = 0 /\ restarts = 0
      BY <1>4 DEF Broadcast
    <2>2. m \notin bus
      BY <1>4, <2>1 DEF Broadcast, Calm
    <2>3. /\ pc'[m] = "sent" /\ \A n \in Messages \ {m} : pc'[n] = pc[n]
          /\ \A t \in pool' : t \in pool \/ t.msg = m
      BY <1>0, <1>4 DEF Broadcast, Accept, Tx
    <2> QED BY <1>0, <1>4, <2>1, <2>2, <2>3 DEF Broadcast, Calm
  <1>5. ASSUME NEW m \in Messages, Refused(m) PROVE FALSE
    <2>1. /\ faults = 0 /\ restarts = 0 /\ pc[m] = "counted"
          /\ nonce[m] < count[from[m]] \/ Rivals(Tx(m)) # {}
      BY <1>5 DEF Refused
    <2>2. nonce[m] = count[from[m]] /\ nonce[m] \in Nat
      BY <1>0, <2>1 DEF Calm
    <2>3. Rivals(Tx(m)) = {}
      BY <2>1, NothingPending DEF Rivals, Tx
    <2> QED BY <2>1, <2>2, <2>3
  <1>6. ASSUME NEW m \in Messages, EncodeFails(m) PROVE FALSE
    BY <1>6, AllEncodable DEF EncodeFails, IInv
  <1>7. ASSUME NEW m \in Messages, Confirmed(m) PROVE Calm'
    <2>1. /\ m \in bus /\ pc'[m] = "resolved"
          /\ \A n \in Messages \ {m} : pc'[n] = pc[n] \/ (pc[n] = "waiting" /\ pc'[n] = "woken")
      BY <1>0, <1>7 DEF Confirmed, unlock
    <2> QED BY <1>0, <1>7, <2>1 DEF Confirmed, Calm
  <1>8. ASSUME NEW t \in pool, Mine(t) PROVE Calm'
    <2>1. faults = 0 /\ restarts = 0
      BY <1>8 DEF Mine
    <2>2. \A u \in pool' : u \in pool /\ u.msg # t.msg
      BY <1>8 DEF Mine, Queued
    <2>3. \A m \in Messages : pc[m] = "counted" => count'[from[m]] = count[from[m]]
      <3>1. count \in [Wallets -> Nat] /\ \A m \in Messages : pc[m] = "counted" => from[m] \in Wallets
        BY DEF IInv, TypeOK, Placed, Holding
      <3> QED BY <1>8, <2>1, <3>1, NothingPending DEF Mine
    <2> QED BY <1>0, <1>8, <2>1, <2>2, <2>3 DEF Mine, Calm
  <1>9. ASSUME UNCHANGED vars PROVE Calm'
    BY <1>9 DEF vars, Calm
  <1>10. /\ \A m \in Messages : ~RequestFails(m) /\ ~AnswerLost(m)
         /\ \A t \in pool : ~Drop(t)
         /\ ~Restart
    BY <1>0, <1>f DEF RequestFails, AnswerLost, Drop, Restart
  <1>11. ASSUME NEW m \in Messages, Step(m) PROVE Calm'
    <2>1. ASSUME sendMessage(m) PROVE Calm'
      BY <1>3, <1>6, <2>1 DEF sendMessage
    <2> QED BY <1>2, <1>4, <1>5, <1>7, <1>11, <2>1 DEF Step
  <1>12. Calm'
    <2>1. CASE UNCHANGED vars
      BY <1>9, <2>1
    <2>2. CASE Next
      <3>1. CASE \E m \in Messages : (\E w \in Wallets : Publish(m, w)) \/ Step(m)
        BY <1>1, <1>11, <3>1
      <3>2. CASE \E t \in pool : Mine(t)
        BY <1>8, <3>2
      <3> QED BY <2>2, <1>10, <3>1, <3>2 DEF Next
    <2> QED BY <2>1, <2>2
  <1> QED BY <1>12 DEF Calm

\* Without a fault outside, DataBusClient refuses no message: neither does the
\* encoder throw nor do the daemon's own transactions stand in each other's way.
THEOREM NoSelfMadeRefusal == Spec => []RefusedForCause
  <1>1. Init => Calm
    BY DEF Init, Calm
  <1>2. Calm => RefusedForCause
    BY DEF Calm, RefusedForCause
  <1> QED BY <1>1, <1>2, QueuedHolds, StepCalm, PTL DEF Spec

=============================================================================
