----------------------------- MODULE StompProofs -----------------------------
(* What StompClient promises of its sockets and its flags, for any number of  *)
(* calls, attempts and faults.                                                *)
EXTENDS Stomp, SequenceTheorems, TLAPS

Abandoned == { s \in Sockets : s.state \in {"closing", "broken"} }

\* Beside the types: an attempt runs on a socket that has seen no CONNECT, so
\* nothing the broker said of it can be in the flags when the attempt ends; and
\* what takes an open socket away takes the flags down or lets an attempt run.
Sound ==
    /\ left \in Seq(Abandoned)
    /\ loop.at = "sleeping" => ws.state \in {"closing", "broken", "closed"}
    /\ ws.state = "open" => opened
    /\ ws.confirmed => ws.connect
    /\ connectionPromise => ~ws.connect
    /\ connected /\ ~misled => ws.confirmed /\ ws.state = "open"
    /\ ~early

IInv == TypeOK /\ Sound

Phases == {NoLoop} \cup [at : {"waiting", "transmitting", "sleeping"}, attempt : 1..MaxAttempts]

-----------------------------------------------------------------------------
LEMMA InitInv == Init => IInv
  <1> SUFFICES ASSUME Init PROVE IInv
    OBVIOUS
  <1> USE DEF Init, New
  <1>1. TypeOK
    <2>1. 1 \in 1..MaxAttempts /\ 0 \in 0..MaxFaults
      BY MaxAttemptsAssumption, MaxFaultsAssumption
    <2>2. ws \in Sockets /\ left \in Seq(Sockets)
      BY EmptySeq DEF Sockets
    <2> QED BY <2>1, <2>2 DEF TypeOK
  <1>2. Sound
    BY EmptySeq DEF Sound, connectionPromise
  <1> QED BY <1>1, <1>2 DEF IInv

\* close() leaves no socket open or connecting.
LEMMA CloseCloses ==
  ASSUME NEW s \in Sockets
  PROVE  /\ Close(s) \in Sockets
         /\ Close(s).state \in {"closing", "broken", "closed"}
         /\ Close(s).connect = s.connect /\ Close(s).confirmed = s.confirmed
  BY DEF Close, Sockets

\* Taking an abandoned socket away leaves abandoned sockets.
LEMMA RemoveAbandoned ==
  ASSUME NEW s \in Seq(Abandoned), NEW i \in DOMAIN s
  PROVE  RemoveAt(s, i) \in Seq(Abandoned)
  <1>1. Len(s) \in Nat /\ DOMAIN s = 1 .. Len(s) /\ \A j \in 1 .. Len(s) : s[j] \in Abandoned
    BY LenProperties, ElementOfSeq
  <1>2. SubSeq(s, 1, i - 1) \in Seq(Abandoned) /\ SubSeq(s, i + 1, Len(s)) \in Seq(Abandoned)
    BY <1>1, SubSeqProperties
  <1> QED BY <1>2, ConcatProperties DEF RemoveAt

\* A new socket beside abandoned ones, in place of one that has been closed.
LEMMA NewSocket ==
  ASSUME NEW s \in Sockets, s.state \in {"closing", "broken", "closed"},
         NEW earlier \in Seq(Abandoned), createWebSocket(s, earlier)
  PROVE  ws' = New /\ ws' \in Sockets /\ left' \in Seq(Abandoned)
  <1>1. s.state # "closed" => Append(earlier, s) \in Seq(Abandoned)
    BY AppendProperties DEF Abandoned
  <1> QED BY <1>1 DEF createWebSocket, New, Sockets

\* What the handlers and the attempts may leave behind.
Fine ==
    /\ ws' \in Sockets /\ left' \in Seq(Abandoned)
    /\ opened' \in BOOLEAN /\ connected' \in BOOLEAN /\ misled' \in BOOLEAN
    /\ loop' \in Phases
    /\ Sound'

\* reconnect() starts from any socket and any abandoned ones.
LEMMA ReconnectSound ==
  ASSUME NEW s \in Sockets, NEW earlier \in Seq(Abandoned), reconnect(s, earlier),
         ~early, early' = early
  PROVE  Fine
  <1>1. /\ createWebSocket(Close(s), earlier) /\ flagsDown
        /\ loop' = [at |-> "waiting", attempt |-> 1]
    BY DEF reconnect
  <1>2. ws' = New /\ ws' \in Sockets /\ left' \in Seq(Abandoned)
    BY <1>1, CloseCloses, NewSocket
  <1>3. Sound'
    BY <1>1, <1>2 DEF Sound, New, flagsDown
  <1>4. loop' \in Phases
    <2>1. 1 \in 1..MaxAttempts
      BY MaxAttemptsAssumption
    <2> QED BY <1>1, <2>1 DEF Phases
  <1> QED BY <1>1, <1>2, <1>3, <1>4 DEF flagsDown, Fine

\* An error or a close is reported of the client's socket or of an earlier one: s
\* and earlier are what it leaves of them.
LEMMA ReportSound ==
  ASSUME IInv, NEW s \in Sockets, NEW earlier \in Seq(Abandoned), Report(s, earlier),
         s.connect = ws.connect, s.confirmed = ws.confirmed,
         s.state \in {ws.state, "broken", "closed"}, early' = early
  PROVE  Fine
  <1>1. CASE connectionPromise
    BY <1>1 DEF Report, flags, IInv, TypeOK, Phases, Sound, Fine, connectionPromise
  <1>2. CASE ~connectionPromise
    <2>1. reconnect(s, earlier)
      BY <1>2 DEF Report
    <2> QED BY <2>1, ReconnectSound DEF IInv, Sound
  <1> QED BY <1>1, <1>2

\* The same of a close with code 1000.
LEMMA EndNormallySound ==
  ASSUME IInv, NEW s \in Sockets, NEW earlier \in Seq(Abandoned), EndNormally(s, earlier),
         s.connect = ws.connect, s.confirmed = ws.confirmed,
         s.state \in {ws.state, "closed"}, early' = early
  PROVE  Fine
  <1>1. CASE connectionPromise \/ s.state = "connecting"
    BY <1>1, ReportSound DEF EndNormally
  <1>2. CASE ~(connectionPromise \/ s.state = "connecting")
    <2>1. flagsDown /\ ws' = Close(s) /\ left' = earlier /\ loop' = loop
      BY <1>2 DEF EndNormally
    <2>2. /\ ws' \in Sockets /\ ws'.state \in {"closing", "broken", "closed"}
          /\ ws'.connect = s.connect /\ ws'.confirmed = s.confirmed
      BY <2>1, CloseCloses
    <2>3. Sound'
      BY <1>2, <2>1, <2>2 DEF IInv, Sound, connectionPromise, flagsDown
    <2> QED BY <2>1, <2>2, <2>3 DEF IInv, TypeOK, Phases, flagsDown, Fine
  <1> QED BY <1>1, <1>2

\* A failed attempt is the last one, or leaves a closed socket and both flags down.
LEMMA AttemptFailsSound ==
  ASSUME IInv, AttemptFails, connectionPromise, early' = early
  PROVE  Fine /\ calls' \in [Calls -> {"idle", "waiting", "resolved", "rejected"}]
  <1>1. calls' \in [Calls -> {"idle", "waiting", "resolved", "rejected"}]
    BY DEF AttemptFails, IInv, TypeOK, Settle
  <1>2. CASE loop.attempt >= MaxAttempts
    BY <1>1, <1>2, MaxAttemptsAssumption
    DEF AttemptFails, flags, IInv, TypeOK, Phases, Sound, NoLoop, connectionPromise, Fine
  <1>3. CASE loop.attempt < MaxAttempts
    <2>1. loop.attempt \in 1..MaxAttempts
      BY DEF IInv, TypeOK, connectionPromise, NoLoop
    <2>2. /\ ws' = Close(ws) /\ flagsDown /\ UNCHANGED left
          /\ loop' = [at |-> "sleeping", attempt |-> loop.attempt + 1]
      BY <1>3, <2>1, MaxAttemptsAssumption DEF AttemptFails
    <2>3. /\ ws' \in Sockets /\ ws'.state \in {"closing", "broken", "closed"}
          /\ ws'.connect = ws.connect /\ ws'.confirmed = ws.confirmed
      BY <2>2, CloseCloses DEF IInv, TypeOK, Sound
    <2>4. Sound'
      BY <2>2, <2>3 DEF IInv, Sound, connectionPromise, flagsDown
    <2>5. loop.attempt + 1 \in 1..MaxAttempts
      BY <1>3, <2>1, MaxAttemptsAssumption
    <2>6. loop' \in Phases
      BY <2>2, <2>5 DEF Phases
    <2> QED BY <1>1, <2>2, <2>3, <2>4, <2>6 DEF IInv, Sound, flagsDown, Fine
  <1>4. loop.attempt \in Nat
    BY MaxAttemptsAssumption DEF IInv, TypeOK, NoLoop
  <1> QED BY <1>2, <1>3, <1>4, MaxAttemptsAssumption

-----------------------------------------------------------------------------
LEMMA StepInv == IInv /\ [Next]_vars => IInv'
  <1> SUFFICES ASSUME IInv, [Next]_vars PROVE IInv'
    OBVIOUS
  <1>0. /\ ws \in Sockets /\ left \in Seq(Abandoned) /\ misled \in BOOLEAN
        /\ early \in BOOLEAN /\ faults \in 0..MaxFaults /\ loop \in Phases
        /\ opened \in BOOLEAN /\ connected \in BOOLEAN
        /\ calls \in [Calls -> {"idle", "waiting", "resolved", "rejected"}]
    BY DEF IInv, TypeOK, Sound, Phases
  <1>t. ASSUME Fine, calls' \in [Calls -> {"idle", "waiting", "resolved", "rejected"}],
               early' \in BOOLEAN, UNCHANGED faults \/ Fault
        PROVE  IInv'
    <2>1. faults' \in 0..MaxFaults
      BY <1>0, <1>t, MaxFaultsAssumption DEF Fault
    <2>2. left' \in Seq(Sockets)
      BY <1>t, SeqMonotonic DEF Fine, Abandoned
    <2> QED BY <1>0, <1>t, <2>1, <2>2 DEF Fine, IInv, TypeOK, Phases
  <1>1. ASSUME NEW c \in Calls, Send(c) PROVE IInv'
    <2>1. Sound'
      <3>1. ~early'
        BY <1>0, <1>1 DEF Send, IInv, Sound
      <3> QED BY <1>1, <3>1 DEF Send, client, flags, IInv, Sound, connectionPromise
    <2> QED BY <1>0, <1>t, <1>1, <2>1 DEF Send, client, flags, Settle, Fine
  <1>2. ASSUME NEW c \in Calls, SendReconnects(c) PROVE IInv'
    <2>1. calls' \in [Calls -> {"idle", "waiting", "resolved", "rejected"}]
      BY <1>0, <1>2 DEF SendReconnects, Settle
    <2>2. CASE connectionPromise
      BY <1>0, <1>t, <1>2, <2>1, <2>2
      DEF SendReconnects, client, flags, IInv, Sound, connectionPromise, Fine
    <2>3. CASE ~connectionPromise
      <3>1. reconnect(ws, left) /\ UNCHANGED << early, faults >>
        BY <1>2, <2>3 DEF SendReconnects
      <3>2. Fine
        BY <1>0, <3>1, ReconnectSound DEF IInv, Sound
      <3> QED BY <1>0, <1>t, <2>1, <3>1, <3>2
    <2> QED BY <2>2, <2>3
  <1>3. ASSUME NEW c \in Calls, SendFails(c) PROVE IInv'
    BY <1>0, <1>t, <1>3 DEF SendFails, client, flags, Settle, IInv, Sound, connectionPromise, Fine
  <1>4. ASSUME TransmitConnect PROVE IInv'
    <2>1. loop' \in Phases
      BY <1>0, <1>4 DEF TransmitConnect, Phases, NoLoop
    <2>2. Sound'
      BY <1>0, <1>4 DEF TransmitConnect, flags, IInv, Sound, connectionPromise, Phases, NoLoop
    <2> QED BY <1>0, <1>t, <1>4, <2>1, <2>2 DEF TransmitConnect, flags, Fine
  <1>5. ASSUME Connected PROVE IInv'
    <2>1. ws' \in Sockets /\ ws'.state = ws.state /\ ws'.confirmed = ws.confirmed /\ ws'.connect
      BY <1>0, <1>5 DEF Connected, Sockets
    <2>2. Sound'
      BY <1>5, <2>1 DEF Connected, flags, IInv, Sound, connectionPromise, NoLoop
    <2> QED BY <1>0, <1>t, <1>5, <2>1, <2>2 DEF Connected, flags, Settle, Phases, Fine
  <1>6. ASSUME TransmitFails \/ WaitTimesOut PROVE IInv'
    <2>1. AttemptFails /\ connectionPromise /\ UNCHANGED early /\ (UNCHANGED faults \/ Fault)
      BY <1>6 DEF TransmitFails, WaitTimesOut, connectionPromise
    <2> QED BY <1>0, <1>t, <2>1, AttemptFailsSound
  <1>7. ASSUME Retry PROVE IInv'
    <2>1. /\ loop.at = "sleeping" /\ createWebSocket(ws, left)
          /\ loop' = [loop EXCEPT !.at = "waiting"]
          /\ UNCHANGED << flags, calls, early, faults >>
      BY <1>7 DEF Retry
    <2>2. ws' = New /\ ws' \in Sockets /\ left' \in Seq(Abandoned)
      BY <1>0, <2>1, NewSocket DEF IInv, Sound
    <2>3. loop' \in Phases
      BY <1>0, <2>1 DEF Phases, NoLoop
    <2>4. Sound'
      BY <2>1, <2>2 DEF IInv, Sound, New, flags
    <2> QED BY <1>0, <1>t, <2>1, <2>2, <2>3, <2>4 DEF flags, Fine
  <1>8. ASSUME onOpen PROVE IInv'
    <2>1. ws' \in Sockets /\ ws'.state = "open" /\ ws'.confirmed = ws.confirmed /\ ws'.connect = ws.connect
      BY <1>0, <1>8 DEF onOpen, Sockets
    <2>2. Sound'
      BY <1>8, <2>1 DEF onOpen, IInv, Sound, connectionPromise
    <2> QED BY <1>0, <1>t, <1>8, <2>1, <2>2 DEF onOpen, Fine
  <1>9. ASSUME onConnected PROVE IInv'
    <2>1. connected' = TRUE /\ UNCHANGED << opened, loop, calls, early, faults >>
      BY <1>9 DEF onConnected
    <2>2. ASSUME Answers(ws), ws' = [ws EXCEPT !.confirmed = TRUE],
                 misled' = (misled \/ ws.state = "closing"), UNCHANGED left
          PROVE  IInv'
      <3>1. /\ ws' \in Sockets /\ ws'.state = ws.state /\ ws'.confirmed /\ ws'.connect = ws.connect
            /\ ws.connect /\ ws.state \in {"open", "closing"}
        BY <1>0, <2>2 DEF Sockets, Answers
      <3>2. Sound'
        BY <2>1, <2>2, <3>1 DEF IInv, Sound, connectionPromise
      <3> QED BY <1>0, <1>t, <2>1, <2>2, <3>1, <3>2 DEF Fine
    <2>3. ASSUME NEW i \in DOMAIN left, left' = [left EXCEPT ![i].confirmed = TRUE],
                 misled' = TRUE, UNCHANGED ws
          PROVE  IInv'
      <3>1. i \in 1 .. Len(left) /\ left[i] \in Abandoned
        BY <1>0, LenProperties, ElementOfSeq
      <3>2. [left[i] EXCEPT !.confirmed = TRUE] \in Abandoned
        BY <3>1 DEF Abandoned, Sockets
      <3>3. left' = [left EXCEPT ![i] = [left[i] EXCEPT !.confirmed = TRUE]]
        BY <2>3
      <3>4. left' \in Seq(Abandoned)
        BY <1>0, <3>1, <3>2, <3>3, ExceptSeq
      <3>5. Sound'
        BY <2>1, <2>3, <3>4 DEF IInv, Sound, connectionPromise
      <3> QED BY <1>0, <1>t, <2>1, <2>3, <3>4, <3>5 DEF Fine
    <2> QED BY <1>9, <2>2, <2>3 DEF onConnected
  <1>c. ASSUME NEW st \in {"broken", "closed"}
        PROVE  /\ [ws EXCEPT !.state = st] \in Sockets
               /\ [ws EXCEPT !.state = st].state = st
               /\ [ws EXCEPT !.state = st].connect = ws.connect
               /\ [ws EXCEPT !.state = st].confirmed = ws.confirmed
    BY <1>0 DEF Sockets
  <1>10. ASSUME onError PROVE IInv'
    <2>1. Fault /\ UNCHANGED << calls, early >>
      BY <1>10 DEF onError
    <2>2. ASSUME NEW st \in {"broken", "closed"}, Report([ws EXCEPT !.state = st], left)
          PROVE  Fine
      <3> DEFINE s == [ws EXCEPT !.state = st]
      <3>1. s \in Sockets /\ s.state = st /\ s.connect = ws.connect /\ s.confirmed = ws.confirmed
        BY <1>c
      <3>2. Report(s, left)
        BY <2>2
      <3> HIDE DEF s
      <3> QED BY <1>0, <2>1, <3>1, <3>2, ReportSound
    <2>3. ASSUME NEW i \in DOMAIN left, Report(ws, [left EXCEPT ![i].state = "broken"])
          PROVE  Fine
      <3> DEFINE earlier == [left EXCEPT ![i] = [left[i] EXCEPT !.state = "broken"]]
      <3>1. i \in 1 .. Len(left) /\ left[i] \in Abandoned
        BY <1>0, LenProperties, ElementOfSeq
      <3>2. [left[i] EXCEPT !.state = "broken"] \in Abandoned
        BY <3>1 DEF Abandoned, Sockets
      <3>3. earlier \in Seq(Abandoned)
        BY <1>0, <3>1, <3>2, ExceptSeq
      <3>4. Report(ws, earlier)
        BY <2>3
      <3> HIDE DEF earlier
      <3> QED BY <1>0, <2>1, <3>3, <3>4, ReportSound
    <2>4. Fine
      BY <1>10, <2>2, <2>3 DEF onError
    <2> QED BY <1>0, <1>t, <2>1, <2>4
  <1>11. ASSUME onClose \/ onNormalClose PROVE IInv'
    <2> DEFINE s == [ws EXCEPT !.state = "closed"]
    <2>1. s \in Sockets /\ s.state = "closed" /\ s.connect = ws.connect /\ s.confirmed = ws.confirmed
      BY <1>c
    <2>2. /\ Report(s, left) \/ EndNormally(s, left)
          /\ UNCHANGED << calls, early >> /\ (UNCHANGED faults \/ Fault)
      BY <1>11 DEF onClose, onNormalClose, closes
    <2> HIDE DEF s
    <2>3. Fine
      BY <1>0, <2>1, <2>2, ReportSound, EndNormallySound
    <2> QED BY <1>0, <1>t, <2>2, <2>3
  <1>12. ASSUME onLateClose PROVE IInv'
    <2>1. PICK i \in DOMAIN left :
             Report(ws, RemoveAt(left, i)) \/ EndNormally(ws, RemoveAt(left, i))
      BY <1>12 DEF onLateClose
    <2>2. UNCHANGED << calls, early, faults >>
      BY <1>12 DEF onLateClose
    <2>3. RemoveAt(left, i) \in Seq(Abandoned)
      BY <1>0, RemoveAbandoned
    <2>4. Fine
      BY <1>0, <2>1, <2>2, <2>3, ReportSound, EndNormallySound
    <2> QED BY <1>0, <1>t, <2>2, <2>4
  <1>13. CASE UNCHANGED vars
    BY <1>13 DEF vars, IInv, TypeOK, Sound, connectionPromise
  <1> QED BY <1>1, <1>2, <1>3, <1>4, <1>5, <1>6, <1>7, <1>8, <1>9, <1>10, <1>11, <1>12,
         <1>13 DEF Next

LEMMA InvHolds == Spec => []IInv
  BY InitInv, StepInv, PTL DEF Spec

-----------------------------------------------------------------------------
\* Every variable of the client keeps its type.
THEOREM TypeCorrect == Spec => []TypeOK
  <1>1. IInv => TypeOK
    BY DEF IInv
  <1> QED BY <1>1, InvHolds, PTL

\* reconnect and connectWithRetry leave no socket but the client's own connecting
\* or open.
THEOREM NoSocketIsLeft == Spec => []NoSocketLeft
  <1>1. IInv => NoSocketLeft
    <2> SUFFICES ASSUME IInv, NEW i \in DOMAIN left 
                 PROVE  left[i].state \in {"closing", "broken"}
      BY DEF NoSocketLeft
    <2>1. left \in Seq(Abandoned)
      BY DEF IInv, Sound
    <2> QED BY <2>1, LenProperties, ElementOfSeq DEF Abandoned
  <1> QED BY <1>1, InvHolds, PTL

\* `connected' speaks of the client's own open socket, whatever events come and
\* however late, but for a CONNECTED of one that was being closed.
THEOREM FlagsTrue == Spec => []FlagsAreTrue
  <1>1. IInv => FlagsAreTrue
    BY DEF IInv, Sound, FlagsAreTrue
  <1> QED BY <1>1, InvHolds, PTL

\* send() never writes before connectWithRetry's CONNECT, but for that CONNECTED.
THEOREM ConnectFirst == Spec => []SendAfterConnect
  <1>1. IInv => SendAfterConnect
    BY DEF IInv, Sound, SendAfterConnect
  <1> QED BY <1>1, InvHolds, PTL

=============================================================================
