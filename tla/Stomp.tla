-------------------------------- MODULE Stomp --------------------------------
(* StompClient: a connection to RabbitMQ over a WebSocket, built anew after   *)
(* errors by connectWithRetry, while send() is called and while events of     *)
(* this socket and of earlier ones arrive.  The handlers of every socket      *)
(* change the same flags.                                                     *)
EXTENDS Naturals, SequencesExt

CONSTANTS
    Calls,          \* calls of send()
    MaxAttempts,    \* options.reconnectAttempts
    MaxFaults       \* bound: sockets refused, broken or closed by the broker, failed
                    \* writes, timeouts that race the open event

ASSUME MaxAttemptsAssumption == MaxAttempts \in Nat \ {0}
ASSUME MaxFaultsAssumption == MaxFaults \in Nat

VARIABLES
    ws,         \* the client's socket: its state, the CONNECT frame written to
                \* it, the CONNECTED frame received from it
    left,       \* the earlier sockets that may still have events
    opened, connected,
    loop,       \* connectWithRetry, which runs as long as connectionPromise is set
    calls,      \* where each send() stands
    misled,     \* history: CONNECTED of a socket that was already being closed has
                \* come since the flags were last taken down
    early,      \* history: a SEND was written before CONNECT though ~misled
    faults

vars == << ws, left, opened, connected, loop, calls, misled, early, faults >>
flags == << opened, connected, misled >>
client == << ws, left, flags, loop >>

\* A closing socket still receives frames, a broken one only its close event.
Sockets == [state : {"connecting", "open", "closing", "broken", "closed"},
            connect : BOOLEAN, confirmed : BOOLEAN]
New == [state |-> "connecting", connect |-> FALSE, confirmed |-> FALSE]
NoLoop == [at |-> "none", attempt |-> 0]
connectionPromise == loop.at # "none"

TypeOK ==
    /\ ws \in Sockets
    /\ left \in Seq(Sockets)
    /\ opened \in BOOLEAN /\ connected \in BOOLEAN
    /\ loop \in {NoLoop} \cup [at : {"waiting", "transmitting", "sleeping"}, attempt : 1..MaxAttempts]
    /\ calls \in [Calls -> {"idle", "waiting", "resolved", "rejected"}]
    /\ misled \in BOOLEAN /\ early \in BOOLEAN
    /\ faults \in 0..MaxFaults

\* connect() has been called when the transport was made; nobody waits for it.
Init ==
    /\ ws = New
    /\ left = << >>
    /\ opened = FALSE /\ connected = FALSE
    /\ loop = [at |-> "waiting", attempt |-> 1]
    /\ calls = [c \in Calls |-> "idle"]
    /\ misled = FALSE /\ early = FALSE
    /\ faults = 0

Fault == faults < MaxFaults /\ faults' = faults + 1

-----------------------------------------------------------------------------
\* Socket s after close(): an open one says goodbye to its peer first and reports
\* its close later, the handshake of a connecting one is aborted.
Close(s) ==
    [s EXCEPT !.state = CASE @ = "open" -> "closing"
                          [] @ = "connecting" -> "closed"
                          [] OTHER -> @]

\* Slip: the flag of the broker's answer outlives its connection.
flagsDown_KeepsConnected == opened' = FALSE /\ misled' = FALSE /\ UNCHANGED connected

\* cleanUp, but for the socket.
flagsDown == connected' = FALSE /\ opened' = FALSE /\ misled' = FALSE

\* createWebSocket in place of the socket s, beside the earlier ones.
createWebSocket(s, earlier) ==
    /\ ws' = New
    /\ left' = IF s.state = "closed" THEN earlier ELSE Append(earlier, s)

\* Slip: the socket is abandoned as it is.
reconnect_NoClose(s, earlier) ==
    /\ flagsDown
    /\ createWebSocket(s, earlier)
    /\ loop' = [at |-> "waiting", attempt |-> 1]

\* reconnect() of a client whose socket is s: cleanUp, and the first attempt.
reconnect(s, earlier) ==
    /\ flagsDown
    /\ createWebSocket(Close(s), earlier)
    /\ loop' = [at |-> "waiting", attempt |-> 1]

\* What an error, or a close with any code but 1000, does, s and earlier being
\* what it leaves of the sockets: nothing while an attempt is under way.
Report(s, earlier) ==
    IF connectionPromise
    THEN ws' = s /\ left' = earlier /\ UNCHANGED << flags, loop >>
    ELSE reconnect(s, earlier)

\* What a close with code 1000 does: nothing then either, and otherwise cleanUp
\* alone, unless that aborts a handshake, which ends in an error at once.
EndNormally(s, earlier) ==
    IF connectionPromise \/ s.state = "connecting"
    THEN Report(s, earlier)
    ELSE flagsDown /\ ws' = Close(s) /\ left' = earlier /\ UNCHANGED loop

Waiting == { c \in Calls : calls[c] = "waiting" }
Settle(C, outcome) == calls' = [c \in Calls |-> IF c \in C THEN outcome ELSE calls[c]]

\* connectWithRetry's catch: give up, or clean up and sleep.
AttemptFails ==
    \/ /\ loop.attempt >= MaxAttempts
       /\ loop' = NoLoop
       /\ Settle(Waiting, "rejected")
       /\ UNCHANGED << ws, left, flags >>
    \/ /\ loop.attempt < MaxAttempts
       /\ loop' = [at |-> "sleeping", attempt |-> loop.attempt + 1]
       /\ flagsDown /\ ws' = Close(ws)
       /\ UNCHANGED << left, calls >>

-----------------------------------------------------------------------------
\* send() over a connection that is thought to stand: the frame is written if
\* the socket is open.
Send(c) ==
    /\ calls[c] = "idle"
    /\ opened /\ connected
    /\ IF ws.state = "open"
       THEN Settle({c}, "resolved") /\ early' = (early \/ (~ws.connect /\ ~misled))
       ELSE Settle({c}, "rejected") /\ UNCHANGED early
    /\ UNCHANGED << client, faults >>

\* send() behind the attempt that is, or is put, under way.
SendReconnects(c) ==
    /\ calls[c] = "idle"
    /\ ~opened \/ ~connected
    /\ Settle({c}, "waiting")
    /\ IF connectionPromise THEN UNCHANGED client ELSE reconnect(ws, left)
    /\ UNCHANGED << early, faults >>

\* The write of a SEND fails.
SendFails(c) ==
    /\ calls[c] = "idle"
    /\ opened /\ connected
    /\ Fault
    /\ Settle({c}, "rejected")
    /\ UNCHANGED << client, early >>

\* waitWsConnection has seen the flag: CONNECT goes to the client's socket.
TransmitConnect ==
    /\ loop.at = "waiting" /\ opened
    /\ ws.state = "open"
    /\ loop' = [loop EXCEPT !.at = "transmitting"]
    /\ UNCHANGED << ws, left, flags, calls, early, faults >>

\* It is written.  Those who waited write their SEND behind it before any other
\* event, to a socket that may have been closed meanwhile.
Connected ==
    /\ loop.at = "transmitting"
    /\ ws' = [ws EXCEPT !.connect = TRUE]
    /\ loop' = NoLoop
    /\ Settle(Waiting, IF ws.state = "open" THEN "resolved" ELSE "rejected")
    /\ UNCHANGED << left, flags, early, faults >>

\* The socket is not open (any more), or the write fails.
TransmitFails ==
    /\ \/ loop.at = "waiting" /\ opened /\ ws.state # "open" /\ UNCHANGED faults
       \/ loop.at = "transmitting" /\ ws.state # "open" /\ UNCHANGED faults
       \/ loop.at = "transmitting" /\ ws.state = "open" /\ Fault
    /\ AttemptFails
    /\ UNCHANGED early

\* Slip: only the first attempt has a timeout.
WaitTimesOut_FirstOnly ==
    /\ loop.at = "waiting"
    /\ loop.attempt = 1
    /\ IF opened THEN Fault ELSE UNCHANGED faults
    /\ AttemptFails
    /\ UNCHANGED early

\* waitWsConnection looks at the time before it looks at the flag again.
WaitTimesOut ==
    /\ loop.at = "waiting"
    /\ IF opened THEN Fault ELSE UNCHANGED faults
    /\ AttemptFails
    /\ UNCHANGED early

Retry ==
    /\ loop.at = "sleeping"
    /\ createWebSocket(ws, left)
    /\ loop' = [loop EXCEPT !.at = "waiting"]
    /\ UNCHANGED << flags, calls, early, faults >>

-----------------------------------------------------------------------------
onOpen ==
    /\ ws.state = "connecting"
    /\ ws' = [ws EXCEPT !.state = "open"]
    /\ opened' = TRUE
    /\ UNCHANGED << left, connected, loop, calls, misled, early, faults >>

\* onMessage with CONNECTED; frames still come in while a socket is closing.
Answers(s) == s.state \in {"open", "closing"} /\ s.connect /\ ~s.confirmed

onConnected ==
    /\ connected' = TRUE
    /\ \/ /\ Answers(ws)
          /\ ws' = [ws EXCEPT !.confirmed = TRUE]
          /\ misled' = (misled \/ ws.state = "closing")
          /\ UNCHANGED left
       \/ \E i \in DOMAIN left :
            /\ Answers(left[i])
            /\ left' = [left EXCEPT ![i].confirmed = TRUE]
            /\ misled' = TRUE
            /\ UNCHANGED ws
    /\ UNCHANGED << opened, loop, calls, early, faults >>

\* onError: the client's socket is refused, or the client's or an earlier one
\* receives what is no frame.  The close event comes with the first, after the
\* others.
onError ==
    /\ Fault
    /\ \/ /\ ws.state = "connecting"
          /\ Report([ws EXCEPT !.state = "closed"], left)
       \/ /\ ws.state \in {"open", "closing"}
          /\ Report([ws EXCEPT !.state = "broken"], left)
       \/ \E i \in DOMAIN left :
            /\ left[i].state = "closing"
            /\ Report(ws, [left EXCEPT ![i].state = "broken"])
    /\ UNCHANGED << calls, early >>

\* The client's socket has closed; an open one, because the peer is gone.
closes ==
    /\ ws.state \in {"open", "closing", "broken"}
    /\ IF ws.state = "open" THEN Fault ELSE UNCHANGED faults
    /\ UNCHANGED << calls, early >>

\* onClose with any code but 1000.
onClose ==
    /\ closes
    /\ Report([ws EXCEPT !.state = "closed"], left)

\* Slip: a connection that ended normally needs no clean up.
onNormalClose_KeepsFlags ==
    /\ closes
    /\ ws' = [ws EXCEPT !.state = "closed"]
    /\ UNCHANGED << left, flags, loop >>

\* onClose with code 1000: the broker has ended the connection, nobody rebuilds it.
onNormalClose ==
    /\ closes
    /\ EndNormally([ws EXCEPT !.state = "closed"], left)

\* onClose of an earlier socket, whose closing handshake ends late, with any
\* code: what is taken down is the client's socket of now.
onLateClose ==
    /\ \E i \in DOMAIN left :
          Report(ws, RemoveAt(left, i)) \/ EndNormally(ws, RemoveAt(left, i))
    /\ UNCHANGED << calls, early, faults >>

Next ==
    \/ \E c \in Calls : Send(c) \/ SendReconnects(c) \/ SendFails(c)
    \/ TransmitConnect \/ Connected \/ TransmitFails \/ WaitTimesOut \/ Retry
    \/ onOpen \/ onConnected \/ onError \/ onClose \/ onNormalClose \/ onLateClose

Spec == Init /\ [][Next]_vars

\* Timers fire and writes are answered; nothing is asked of the broker.
FairSpec ==
    /\ Spec
    /\ WF_vars(TransmitConnect \/ TransmitFails \/ WaitTimesOut)
    /\ WF_vars(Connected \/ TransmitFails)
    /\ WF_vars(Retry)

-----------------------------------------------------------------------------
\* No socket but the client's own is left connecting or open (reconnect and
\* connectWithRetry clean up before they build the next one): an abandoned one
\* would keep a connection of the broker's that nobody closes.
NoSocketLeft ==
    \A i \in DOMAIN left : left[i].state \in {"closing", "broken"}

\* `connected' is what the broker said on the client's own socket, which stands,
\* through errors and closes of this socket and of earlier ones, late or not.
\* There is one way round it: CONNECTED of a socket that was already being closed
\* when it came.
FlagsAreTrue ==
    connected /\ ~misled =>
        opened /\ ~connectionPromise /\ ws.state = "open" /\ ws.confirmed

\* send() puts no frame on a socket before connectWithRetry's CONNECT, the first
\* frame of a STOMP session, whatever breaks or closes and however late; but for
\* the sends that go by such a CONNECTED.
SendAfterConnect == ~early

\* A send() that waits for the connection is told in the end: an attempt either
\* connects, or the last one rejects the promise that all of them await.
SendsSettle ==
    \A c \in Calls : calls[c] = "waiting" ~> calls[c] \in {"resolved", "rejected"}

=============================================================================
