------------------------------- MODULE DataBus -------------------------------
(* The Data Bus transport: DataBusTransport, DataBusService, one              *)
(* DSMMessageSender with its Mutex per wallet, DataBusClient, and the bus's   *)
(* chain as far as they use it.  Calls of publish() interleave at their       *)
(* awaits; transactions are refused, dropped or overtaken, answers get lost,  *)
(* and the process restarts with transactions still pending.                  *)
EXTENDS Naturals, FiniteSets

CONSTANTS
    Messages,     \* the messages the daemon publishes
    Loads,        \* what they may be: [type, dsmVersion] of each, 0 for no version
    Wallets,      \* the wallets it may have selected when it publishes
    Nobody,       \* no wallet yet
    MaxFaults,    \* bound: rejected calls, lost answers, dropped transactions
    MaxRestarts   \* bound: restarts of the process

Kinds == { [type |-> "ping", dsmVersion |-> 0] }
         \cup [type : {"deposit", "pause", "unvet"}, dsmVersion : {4, 5}]

ASSUME LoadsAreKinds == Loads \subseteq [Messages -> Kinds]
ASSUME NobodyIsNoWallet == Nobody \notin Wallets
ASSUME BoundsAreNat == MaxFaults \in Nat /\ MaxRestarts \in Nat

VARIABLES
    kind,       \* what each message is
    pc,         \* where each publish() stands
    from,       \* the wallet each was published from
    nonce,      \* the nonce each read
    locked,     \* per wallet: the Mutex of its sender has a currentPromise
    pool,       \* the pending transactions, as the chain's nodes know them
    count,      \* per wallet: the transactions mined
    bus,        \* the messages mined
    faults, restarts

vars == << kind, pc, from, nonce, locked, pool, count, bus, faults, restarts >>
chain == << pool, count, bus >>
call == << pc, from, nonce, locked >>

Waiting == {"waiting", "woken"}
Holding == {"locked", "counted", "sent"}
Settled == {"resolved", "rejected", "lost"}

-----------------------------------------------------------------------------
\* What a message looks like on the bus.

\* Slip: the unvet message of v5 keeps the old event.
busEvents_OldUnvet(version) ==
    IF version = 5
    THEN [deposit |-> "MessageDepositV2", pause |-> "MessagePauseV4", unvet |-> "MessageUnvetV1"]
    ELSE [deposit |-> "MessageDepositV1", pause |-> "MessagePauseV3", unvet |-> "MessageUnvetV1"]

busEvents(version) ==
    IF version = 5
    THEN [deposit |-> "MessageDepositV2", pause |-> "MessagePauseV4", unvet |-> "MessageUnvetV2"]
    ELSE [deposit |-> "MessageDepositV1", pause |-> "MessagePauseV3", unvet |-> "MessageUnvetV1"]

wireSignature(version) == IF version = 5 THEN "blob" ELSE "compact"

getEventName(m) ==
    IF kind[m].type = "ping" THEN "MessagePingV1"
    ELSE busEvents(kind[m].dsmVersion)[kind[m].type]

transformMessage(m) ==
    [ type |-> kind[m].type,
      signature |-> IF kind[m].type = "ping" THEN "none" ELSE wireSignature(kind[m].dsmVersion) ]

\* The payload each event carries, as a reader's mapper and the encoder know it.
eventMappers ==
    [ MessageDepositV1 |-> [type |-> "deposit", signature |-> "compact"],
      MessagePauseV3   |-> [type |-> "pause",   signature |-> "compact"],
      MessageUnvetV1   |-> [type |-> "unvet",   signature |-> "compact"],
      MessagePingV1    |-> [type |-> "ping",    signature |-> "none"],
      MessageDepositV2 |-> [type |-> "deposit", signature |-> "blob"],
      MessagePauseV4   |-> [type |-> "pause",   signature |-> "blob"],
      MessageUnvetV2   |-> [type |-> "unvet",   signature |-> "blob"] ]

\* abi.encode throws unless the payload has the shape of the event.
Encodable(m) == eventMappers[getEventName(m)] = transformMessage(m)

\* getAll decodes what was mined.
getAll == { [msg |-> m, payload |-> eventMappers[getEventName(m)]] : m \in bus }

-----------------------------------------------------------------------------
Init ==
    /\ kind \in Loads
    /\ pc = [m \in Messages |-> "new"]
    /\ from = [m \in Messages |-> Nobody]
    /\ nonce = [m \in Messages |-> 0]
    /\ locked = [w \in Wallets |-> FALSE]
    /\ pool = {}
    /\ count = [w \in Wallets |-> 0]
    /\ bus = {}
    /\ faults = 0 /\ restarts = 0

Fault == faults < MaxFaults /\ faults' = faults + 1

\* Slip: who wakes up does not look again ("if" for "while").
lock_Once(m, w) ==
    \/ /\ ~locked[w] \/ pc[m] = "woken"
       /\ locked' = [locked EXCEPT ![w] = TRUE]
       /\ pc' = [pc EXCEPT ![m] = "locked"]
    \/ /\ locked[w] /\ pc[m] # "woken"
       /\ pc' = [pc EXCEPT ![m] = "waiting"]
       /\ UNCHANGED locked

\* Mutex.lock of the sender of wallet w, at the call and each time it wakes up.
lock(m, w) ==
    \/ /\ ~locked[w]
       /\ locked' = [locked EXCEPT ![w] = TRUE]
       /\ pc' = [pc EXCEPT ![m] = "locked"]
    \/ /\ locked[w]
       /\ pc' = [pc EXCEPT ![m] = "waiting"]
       /\ UNCHANGED locked

\* Slip: the promise is dropped and never resolved.
unlock_Unresolved(m, outcome) ==
    /\ locked' = [locked EXCEPT ![from[m]] = FALSE]
    /\ pc' = [pc EXCEPT ![m] = outcome]

\* Mutex.unlock in the finally of sendMessage: all who wait wake up.
unlock(m, outcome) ==
    /\ locked' = [locked EXCEPT ![from[m]] = FALSE]
    /\ pc' = [n \in Messages |->
                IF n = m THEN outcome
                ELSE IF pc[n] = "waiting" /\ from[n] = from[m] THEN "woken" ELSE pc[n]]

\* publish(): the wallet selected at this moment determines sender and mutex.
Publish(m, w) ==
    /\ pc[m] = "new"
    /\ from' = [from EXCEPT ![m] = w]
    /\ lock(m, w)
    /\ UNCHANGED << kind, nonce, chain, faults, restarts >>

Wake(m) ==
    /\ pc[m] = "woken"
    /\ lock(m, from[m])
    /\ UNCHANGED << kind, from, nonce, chain, faults, restarts >>

\* Slip: 'pending', the default of ethers.
getTransactionCount_Pending(w) == count[w] + Cardinality({ t \in pool : t.from = w })

\* The block tag is 'latest': what is mined, not what is pending.
getTransactionCount(w) == count[w]

\* A node that is behind answers with less.
ReadNonce(m) ==
    /\ pc[m] = "locked"
    /\ Encodable(m)
    /\ \/ /\ nonce' = [nonce EXCEPT ![m] = getTransactionCount(from[m])]
          /\ UNCHANGED faults
       \/ /\ count[from[m]] > 0
          /\ Fault
          /\ nonce' = [nonce EXCEPT ![m] = count[from[m]] - 1]
    /\ pc' = [pc EXCEPT ![m] = "counted"]
    /\ UNCHANGED << kind, from, locked, chain, restarts >>

\* The message does not fit its event.
EncodeFails(m) ==
    /\ pc[m] = "locked"
    /\ ~Encodable(m)
    /\ unlock(m, "rejected")
    /\ UNCHANGED << kind, from, nonce, chain, faults, restarts >>

\* Any of the calls to the provider rejects.
RequestFails(m) ==
    /\ pc[m] \in Holding
    /\ Fault
    /\ unlock(m, "rejected")
    /\ UNCHANGED << kind, from, nonce, chain, restarts >>

\* sendMessage of DataBusClient, up to the nonce.
sendMessage(m) == IF Encodable(m) THEN ReadNonce(m) ELSE EncodeFails(m)

Tx(m) == [from |-> from[m], nonce |-> nonce[m], msg |-> m]
Rivals(t) == { u \in pool : u.from = t.from /\ u.nonce = t.nonce }

\* Nodes take a transaction whose nonce is not used up; it replaces a pending
\* one of the same nonce when it pays more.
Accept(m) ==
    /\ nonce[m] >= count[from[m]]
    /\ pool' = (pool \ Rivals(Tx(m))) \cup {Tx(m)}

Broadcast(m) ==
    /\ pc[m] = "counted"
    /\ Accept(m)
    /\ pc' = [pc EXCEPT ![m] = "sent"]
    /\ UNCHANGED << kind, from, nonce, locked, count, bus, faults, restarts >>

\* The node has the transaction, and its answer does not arrive.
AnswerLost(m) ==
    /\ pc[m] = "counted"
    /\ Accept(m)
    /\ Fault
    /\ unlock(m, "rejected")
    /\ UNCHANGED << kind, from, nonce, count, bus, restarts >>

\* The nonce is used up, or the pending transaction pays as much.
Refused(m) ==
    /\ pc[m] = "counted"
    /\ nonce[m] < count[from[m]] \/ Rivals(Tx(m)) # {}
    /\ unlock(m, "rejected")
    /\ UNCHANGED << kind, from, nonce, chain, faults, restarts >>

\* Slip: sendTransaction returns once the node has the transaction.
Confirmed_NotAwaited(m) ==
    /\ pc[m] = "sent"
    /\ unlock(m, "resolved")
    /\ UNCHANGED << kind, from, nonce, chain, faults, restarts >>

\* waitForTransactionWithFallback returns once the transaction is mined.
Confirmed(m) ==
    /\ pc[m] = "sent"
    /\ m \in bus
    /\ unlock(m, "resolved")
    /\ UNCHANGED << kind, from, nonce, chain, faults, restarts >>

\* The chain mines the transactions of a wallet in the order of their nonces.
Mine(t) ==
    /\ t.nonce = count[t.from]
    /\ pool' = pool \ {t}
    /\ count' = [count EXCEPT ![t.from] = @ + 1]
    /\ bus' = bus \cup {t.msg}
    /\ UNCHANGED << kind, call, faults, restarts >>

Drop(t) ==
    /\ Fault
    /\ pool' = pool \ {t}
    /\ UNCHANGED << kind, call, count, bus, restarts >>

\* The process dies and comes back; what it had broadcast stays pending.
Restart ==
    /\ restarts < MaxRestarts
    /\ restarts' = restarts + 1
    /\ pc' = [m \in Messages |-> IF pc[m] \in Waiting \cup Holding THEN "lost" ELSE pc[m]]
    /\ locked' = [w \in Wallets |-> FALSE]
    /\ UNCHANGED << kind, from, nonce, chain, faults >>

Step(m) ==
    \/ Wake(m) \/ sendMessage(m)
    \/ Broadcast(m) \/ Refused(m) \/ Confirmed(m)

Next ==
    \/ \E m \in Messages : \/ \E w \in Wallets : Publish(m, w)
                           \/ Step(m)
                           \/ RequestFails(m) \/ AnswerLost(m)
    \/ \E t \in pool : Mine(t) \/ Drop(t)
    \/ Restart

Spec == Init /\ [][Next]_vars

\* Promises settle, and the chain mines what it can mine.
Fairness ==
    /\ \A m \in Messages : WF_vars(Step(m))
    /\ WF_vars(\E t \in pool : Mine(t))

FairSpec == Spec /\ Fairness

-----------------------------------------------------------------------------
TypeOK ==
    /\ kind \in [Messages -> Kinds]
    /\ pc \in [Messages -> {"new"} \cup Waiting \cup Holding \cup Settled]
    /\ from \in [Messages -> Wallets \cup {Nobody}]
    /\ nonce \in [Messages -> Nat]
    /\ locked \in [Wallets -> BOOLEAN]
    /\ pool \subseteq [from : Wallets, nonce : Nat, msg : Messages]
    /\ count \in [Wallets -> Nat]
    /\ bus \subseteq Messages
    /\ faults \in 0..MaxFaults
    /\ restarts \in 0..MaxRestarts

\* Whatever was dropped, replaced or lost, a pending transaction is the next one
\* its wallet may have mined: none waits for a nonce that nobody will use.
NothingBehindAGap ==
    \A t \in pool : t.nonce = count[t.from]

\* A transaction that its sender still waits for is not replaced by another one
\* of the daemon; only those of publications that were given up are.
OnlyAbandonedReplaced ==
    [][\A t \in pool : (\E u \in pool' \ pool : u.from = t.from /\ u.nonce = t.nonce)
                        => pc[t.msg] \in Settled]_vars

\* As long as nothing fails outside, no publication is rejected: the messages of
\* a wallet do not take each other's nonces, and each fits the event it goes in.
RefusedForCause ==
    faults = 0 /\ restarts = 0 => \A m \in Messages : pc[m] # "rejected"

\* The sender of a wallet waits for a transaction that is neither mined nor
\* pending: nothing but a rejected wait or a restart will end this.
Mute(w) ==
    \E m \in Messages : /\ pc[m] = "sent" /\ from[m] = w
                        /\ m \notin bus /\ \A t \in pool : t.msg # m

\* Who waits for the mutex is served, unless the sender waits for a transaction
\* that has vanished.
WaitersServed ==
    \A m \in Messages :
        pc[m] \in Waiting ~> pc[m] \in Settled \/ \E w \in Wallets : from[m] = w /\ Mute(w)

-----------------------------------------------------------------------------
\* What the daemon sees of this is SerialSender: of a message on the bus a reader
\* finds what was published.
Abstract(s) ==
    IF s \in Waiting THEN "queued"
    ELSE IF s \in Holding THEN "sending"
    ELSE IF s = "resolved" THEN "sent"
    ELSE IF s = "new" THEN "new" ELSE "given up"

state == [m \in Messages |-> Abstract(pc[m])]
Readable == { m \in Messages : [msg |-> m, payload |-> transformMessage(m)] \in getAll }

Serial == INSTANCE SerialSender WITH state <- state, sender <- from, onBus <- Readable

\* The senders, with their mutexes, nonces and confirmations, implement the
\* serial sender: one message of a wallet at a time, and resolved means on the bus.
ImplementsSerialSender == Serial!Spec

=============================================================================
