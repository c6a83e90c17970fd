---------------------------- MODULE SerialSender ----------------------------
(* What the Data Bus transport promises the daemon: the messages of a wallet  *)
(* leave one at a time, and a publication that resolves is on the bus.  How a *)
(* turn is taken and how a transaction gets mined is left to DataBus.tla.     *)

CONSTANTS Messages, Wallets, Nobody

VARIABLES
    state,   \* of each message
    sender,  \* the wallet each message leaves from, Nobody before it is published
    onBus    \* the messages a reader of the bus finds there

vars == << state, sender, onBus >>

States == {"new", "queued", "sending", "sent", "given up"}

TypeOK ==
    /\ state \in [Messages -> States]
    /\ sender \in [Messages -> Wallets \cup {Nobody}]
    /\ onBus \subseteq Messages

Init ==
    /\ state = [m \in Messages |-> "new"]
    /\ sender = [m \in Messages |-> Nobody]
    /\ onBus = {}

\* No message of the wallet is on its way to the bus.
Free(w) == \A m \in Messages : state[m] = "sending" => sender[m] # w

Publish(m, w) ==
    /\ state[m] = "new"
    /\ sender' = [sender EXCEPT ![m] = w]
    /\ \/ state' = [state EXCEPT ![m] = "queued"]
       \/ Free(w) /\ state' = [state EXCEPT ![m] = "sending"]
    /\ UNCHANGED onBus

Start(m) ==
    /\ state[m] = "queued"
    /\ Free(sender[m])
    /\ state' = [state EXCEPT ![m] = "sending"]
    /\ UNCHANGED << sender, onBus >>

\* A message may still arrive when its publication has been given up.
Land(m) ==
    /\ state[m] \in {"sending", "given up"}
    /\ onBus' = onBus \cup {m}
    /\ UNCHANGED << state, sender >>

Resolve(m) ==
    /\ state[m] = "sending"
    /\ m \in onBus
    /\ state' = [state EXCEPT ![m] = "sent"]
    /\ UNCHANGED << sender, onBus >>

\* One publication fails, or all that are under way are lost in a restart.
GiveUp(M) ==
    /\ \A m \in M : state[m] \in {"new", "queued", "sending"}
    /\ state' = [m \in Messages |-> IF m \in M THEN "given up" ELSE state[m]]
    /\ UNCHANGED << sender, onBus >>

Next ==
    \/ \E m \in Messages : (\E w \in Wallets : Publish(m, w))
                           \/ Start(m) \/ Land(m) \/ Resolve(m)
    \/ \E M \in SUBSET Messages : GiveUp(M)

Spec == Init /\ [][Next]_vars

=============================================================================
