-------------------------- MODULE SshSessions_proofs --------------------------
(***************************************************************************)
(* For any number of tabs and connections: the types, that a row says      *)
(* Connecting only while an answer is owed, that a notification means a    *)
(* lost transport, and that the row of a sole tab, and of several tabs     *)
(* none of whose attempts failed, is truthful.                             *)
(***************************************************************************)
EXTENDS SshSessions, TLAPS

Event == Ends \cup {"Connected", "ConnectFailed"}

(* No event is sent before the attempt is decided, so the first one a row  *)
(* hears of an attempt is its answer.                                      *)
AnswerComesFirst ==
    \A s \in Session :
        thr[s] = "idle" \/ Started(s) => events[s] = <<>>

(* Whatever reports a loss, in a task or in the queue, reports a real one. *)
LossIsReal ==
    \A s \in Session :
        /\ write[s] = "UnexpectedDisconnect" => lost[s] = TRUE
        /\ read[s] = "UnexpectedDisconnect" => lost[s] = TRUE
        /\ \A i \in 1..Len(events[s]) :
             events[s][i] = "UnexpectedDisconnect" => lost[s] = TRUE
        /\ s \in notified => lost[s] = TRUE

(* An append leaves the head of a queue, or becomes it.                    *)
LEMMA HeadOfAppend ==
    ASSUME NEW q \in Seq(Event), NEW e \in Event
    PROVE  /\ Append(q, e) \in Seq(Event)
           /\ Append(q, e) # <<>>
           /\ Head(Append(q, e)) = IF q = <<>> THEN e ELSE Head(q)
           /\ Len(Append(q, e)) = Len(q) + 1
           /\ \A i \in 1..Len(q) : Append(q, e)[i] = q[i]
           /\ Append(q, e)[Len(q) + 1] = e
  OBVIOUS

(* Taking the head shifts the queue by one.                                *)
LEMMA TailOfQueue ==
    ASSUME NEW q \in Seq(Event), q # <<>>
    PROVE  /\ Tail(q) \in Seq(Event)
           /\ Head(q) = q[1] /\ Len(q) >= 1
           /\ Len(Tail(q)) = Len(q) - 1
           /\ \A i \in 1..Len(Tail(q)) : Tail(q)[i] = q[i + 1]
  OBVIOUS

LEMMA StatusTyped ==
    ASSUME TypeOK, NEW c,
           NEW v \in {"Disconnected", "Connecting", "Connected", "Error"}
    PROVE  WithStatus(c, v) \in [Connection -> {"Disconnected", "Connecting",
                                     "Connected", "Error", "gone"}]
  BY DEF TypeOK, WithStatus

(* A message sent by one thread keeps the queues typed.                    *)
LEMMA SendTyped ==
    ASSUME TypeOK, NEW s \in Session, NEW e \in Event, Sends(s, e)
    PROVE  events' \in [Session -> Seq(Event)]
  <1>1. events \in [Session -> Seq(Event)]
    BY DEF TypeOK, Event
  <1>2. Append(events[s], e) \in Seq(Event)
    BY <1>1, HeadOfAppend
  <1>. QED
    BY <1>1, <1>2 DEF Sends

LEMMA ReceiveTyped ==
    ASSUME TypeOK, NEW s \in Session, NEW e, Receives(s, e)
    PROVE  events' \in [Session -> Seq(Event)]
  <1>1. events \in [Session -> Seq(Event)]
    BY DEF TypeOK, Event
  <1>2. Tail(events[s]) \in Seq(Event)
    BY <1>1, TailOfQueue DEF Receives
  <1>. QED
    BY <1>1, <1>2 DEF Receives

-----------------------------------------------------------------------------
(* The variables always have their types.                                  *)
LEMMA TypeStep == TypeOK /\ [Next]_vars => TypeOK'
  <1>. SUFFICES ASSUME TypeOK, [Next]_vars PROVE TypeOK'
    OBVIOUS
  <1>1. ASSUME NEW s \in Session, NEW c \in Connection, ConnectSsh(s, c)
        PROVE  TypeOK'
    <2>1. status' \in [Connection -> {"Disconnected", "Connecting",
                                      "Connected", "Error", "gone"}]
      BY <1>1, StatusTyped DEF ConnectSsh
    <2>. QED
      BY <1>1, <2>1 DEF TypeOK, ConnectSsh, OpenTab, Open, remote, tasks
  <1>2. ASSUME NEW s \in Session, NEW c \in Connection,
               ConnectSshNoThread(s, c)
        PROVE  TypeOK'
    <2>1. status' \in [Connection -> {"Disconnected", "Connecting",
                                      "Connected", "Error", "gone"}]
      BY <1>2, StatusTyped DEF ConnectSshNoThread
    <2>. QED
      BY <1>2, <2>1
      DEF TypeOK, ConnectSshNoThread, OpenTab, Open, remote, tasks
  <1>3. ASSUME NEW s \in Session, CloseTab(s) PROVE TypeOK'
    BY <1>3 DEF TypeOK, CloseTab, remote, tasks
  <1>4. CASE CloseAllSessions
    BY <1>4 DEF TypeOK, CloseAllSessions, remote, tasks
  <1>5. ASSUME NEW c \in Connection, DeleteConnection(c) PROVE TypeOK'
    BY <1>5 DEF TypeOK, DeleteConnection, remote, tasks
  <1>6. ASSUME NEW s \in Session,
               ThreadConnects(s) \/ WriteSeesClose(s) \/ ReadEnds(s)
                 \/ WriteFails(s) \/ ReaderExits(s) \/ RemoteExits(s)
                 \/ TransportLost(s)
        PROVE  TypeOK'
    <2>1. CASE ThreadConnects(s)
      BY <2>1 DEF TypeOK, ThreadConnects, remote, tasks
    <2>2. CASE WriteSeesClose(s) \/ WriteFails(s)
      BY <2>2 DEF TypeOK, WriteSeesClose, WriteFails, Ends, remote, tasks
    <2>3. CASE ReadEnds(s)
      BY <2>3 DEF TypeOK, ReadEnds, Ends, remote, tasks
    <2>4. CASE ReaderExits(s)
      BY <2>4 DEF TypeOK, ReaderExits, remote, tasks
    <2>5. CASE RemoteExits(s) \/ TransportLost(s)
      BY <2>5 DEF TypeOK, RemoteExits, TransportLost, remote, tasks
    <2>. QED
      BY <1>6, <2>1, <2>2, <2>3, <2>4, <2>5
  <1>7. ASSUME NEW s \in Session,
               ThreadFails(s) \/ ThreadOpensShell(s) \/ SessionEnds(s)
        PROVE  TypeOK'
    <2>1. PICK e \in Event : Sends(s, e)
      BY <1>7 DEF TypeOK, ThreadFails, ThreadOpensShell, SessionEnds, Event
    <2>2. events' \in [Session -> Seq(Event)]
      BY <2>1, SendTyped
    <2>. QED
      BY <1>7, <2>2 DEF TypeOK, ThreadFails, ThreadOpensShell, SessionEnds,
                        remote, tasks, Event
  <1>8. ASSUME NEW s \in Session, Apply(s) PROVE TypeOK'
    <2>1. events' \in [Session -> Seq(Event)]
      BY <1>8, ReceiveTyped
      DEF Apply, ApplyConnected, ApplyConnectFailed, ApplyEnded
    <2>2. CASE ApplyConnected(s) \/ ApplyConnectFailed(s)
      <3>1. status' \in [Connection -> {"Disconnected", "Connecting",
                                        "Connected", "Error", "gone"}]
        BY <2>2, StatusTyped DEF ApplyConnected, ApplyConnectFailed
      <3>. QED
        BY <2>1, <2>2, <3>1
        DEF TypeOK, ApplyConnected, ApplyConnectFailed, remote, tasks, Event
    <2>3. ASSUME NEW end \in Ends, ApplyEnded(s, end) PROVE TypeOK'
      <3>1. status' \in [Connection -> {"Disconnected", "Connecting",
                                        "Connected", "Error", "gone"}]
        <4>1. status \in [Connection -> {"Disconnected", "Connecting",
                                        "Connected", "Error", "gone"}]
          BY DEF TypeOK
        <4>. QED
          BY <2>3, <4>1, StatusTyped DEF ApplyEnded
      <3>2. TabAfter(s, end) \in Open \cup {"none", "closed"}
        BY DEF TypeOK, TabAfter, Open
      <3>. QED
        BY <2>1, <2>3, <3>1, <3>2 DEF TypeOK, ApplyEnded, remote, tasks, Event
    <2>. QED
      BY <1>8, <2>2, <2>3 DEF Apply
  <1>9. CASE UNCHANGED vars
    BY <1>9 DEF TypeOK, vars
  <1>. QED
    BY <1>1, <1>2, <1>3, <1>4, <1>5, <1>6, <1>7, <1>8, <1>9
    DEF Next, UserStep, ThreadStep

-----------------------------------------------------------------------------
(* Attempts are answered first.                                            *)
LEMMA AnswerStep ==
    TypeOK /\ AnswerComesFirst /\ [Next]_vars => AnswerComesFirst'
  <1>. SUFFICES ASSUME TypeOK, AnswerComesFirst, [Next]_vars
                PROVE  AnswerComesFirst'
    OBVIOUS
  <1>. USE DEF AnswerComesFirst, Started
  <1>1. ASSUME NEW s \in Session, NEW c \in Connection,
               ConnectSsh(s, c) \/ ConnectSshNoThread(s, c)
        PROVE  AnswerComesFirst'
    BY <1>1 DEF TypeOK, ConnectSsh, ConnectSshNoThread, OpenTab
  <1>2. CASE \/ \E s \in Session : CloseTab(s)
             \/ CloseAllSessions
             \/ \E c \in Connection : DeleteConnection(c)
    BY <1>2 DEF CloseTab, CloseAllSessions, DeleteConnection
  <1>3. ASSUME NEW s \in Session, ThreadConnects(s) PROVE AnswerComesFirst'
    BY <1>3 DEF TypeOK, ThreadConnects
  <1>4. ASSUME NEW s \in Session,
               ThreadFails(s) \/ ThreadOpensShell(s) \/ SessionEnds(s)
        PROVE  AnswerComesFirst'
    <2>1. thr'[s] \in {"live", "done"}
      BY <1>4 DEF TypeOK, ThreadFails, ThreadOpensShell, SessionEnds
    <2>2. \A o \in Session \ {s} : thr'[o] = thr[o] /\ events'[o] = events[o]
      BY <1>4
      DEF TypeOK, ThreadFails, ThreadOpensShell, SessionEnds, Sends
    <2>. QED
      BY <2>1, <2>2
  <1>5. ASSUME NEW s \in Session,
               WriteSeesClose(s) \/ ReadEnds(s) \/ WriteFails(s)
                 \/ ReaderExits(s) \/ RemoteExits(s) \/ TransportLost(s)
        PROVE  AnswerComesFirst'
    BY <1>5 DEF WriteSeesClose, ReadEnds, WriteFails, ReaderExits,
                RemoteExits, TransportLost
  <1>6. ASSUME NEW s \in Session, Apply(s) PROVE AnswerComesFirst'
    <2>1. /\ events[s] # <<>> /\ thr' = thr
          /\ \A o \in Session \ {s} : events'[o] = events[o]
      BY <1>6 DEF TypeOK, Apply, ApplyConnected, ApplyConnectFailed,
                  ApplyEnded, Receives
    <2>. QED
      BY <2>1
  <1>7. CASE UNCHANGED vars
    BY <1>7 DEF vars
  <1>. QED
    BY <1>1, <1>2, <1>3, <1>4, <1>5, <1>6, <1>7 DEF Next, UserStep, ThreadStep

-----------------------------------------------------------------------------
(* The session that owes a row its answer.                                 *)
Owes(s) == Started(s) \/ (events[s] # <<>> /\ Head(events[s]) \notin Ends)

(* A step of its thread leaves a session owing what it owed.               *)
LEMMA OwesStep ==
    ASSUME TypeOK, AnswerComesFirst, NEW o \in Session, NEW s \in Session,
           ThreadStep(s), Owes(o)
    PROVE  Owes(o)'
  <1>1. CASE ThreadConnects(s)
    BY <1>1 DEF Owes, Started, ThreadConnects, TypeOK
  <1>2. ASSUME NEW e \in Event, Sends(s, e),
               thr' = [thr EXCEPT ![s] = thr'[s]],
               Started(s) => e \notin Ends
        PROVE  Owes(o)'
    <2>1. CASE o # s
      BY <1>2, <2>1 DEF Owes, Started, Sends, TypeOK
    <2>2. CASE o = s
      <3>1. events[s] \in Seq(Event) /\ events'[s] = Append(events[s], e)
        BY <1>2 DEF TypeOK, Sends, Event
      <3>2. events[s] = <<>> => e \notin Ends
        BY <1>2, <2>2 DEF Owes
      <3>3. events[s] # <<>> => Head(events[s]) \notin Ends
        BY <2>2 DEF Owes, AnswerComesFirst
      <3>. QED
        BY <2>2, <3>1, <3>2, <3>3, HeadOfAppend DEF Owes
    <2>. QED
      BY <2>1, <2>2
  <1>3. CASE ThreadFails(s)
    BY <1>2, <1>3 DEF ThreadFails, Event, Ends, TypeOK
  <1>4. CASE ThreadOpensShell(s)
    BY <1>2, <1>4 DEF ThreadOpensShell, Event, Ends, TypeOK
  <1>5. CASE SessionEnds(s)
    <2>1. PICK e \in Event : Sends(s, e)
      BY <1>5 DEF SessionEnds, TypeOK, Event
    <2>. QED
      BY <1>2, <1>5, <2>1 DEF SessionEnds, Started, TypeOK
  <1>6. CASE WriteSeesClose(s) \/ ReadEnds(s)
    BY <1>6 DEF Owes, Started, WriteSeesClose, ReadEnds
  <1>. QED
    BY <1>1, <1>3, <1>4, <1>5, <1>6 DEF ThreadStep

LEMMA PendingStep ==
    TypeOK /\ AnswerComesFirst /\ ConnectingIsPending /\ [Next]_vars
        => ConnectingIsPending'
  <1>. SUFFICES ASSUME TypeOK, AnswerComesFirst, ConnectingIsPending,
                       [Next]_vars
                PROVE  ConnectingIsPending'
    OBVIOUS
  <1>1. SUFFICES ASSUME NEW c \in Connection, status'[c] = "Connecting"
                 PROVE  \E o \in Session : conn'[o] = c /\ Owes(o)'
    BY DEF ConnectingIsPending, Owes, Of
  <1>2. status[c] = "Connecting"
            => \E o \in Session : conn[o] = c /\ Owes(o)
    BY DEF ConnectingIsPending, Owes, Of
  <1>3. ASSUME NEW s \in Session, NEW d \in Connection, ConnectSsh(s, d)
        PROVE  \E o \in Session : conn'[o] = c /\ Owes(o)'
    <2>1. conn'[s] = d /\ thr'[s] = "connecting"
      BY <1>3 DEF ConnectSsh, OpenTab, TypeOK
    <2>2. CASE d = c
      BY <2>1, <2>2 DEF Owes, Started
    <2>3. CASE d # c
      <3>1. status[c] = "Connecting"
        BY <1>1, <1>3, <2>3 DEF ConnectSsh, WithStatus, TypeOK
      <3>2. PICK o \in Session : conn[o] = c /\ Owes(o)
        BY <1>2, <3>1
      <3>3. o # s
        BY <1>3, <3>2
        DEF Owes, AnswerComesFirst, ConnectSsh, OpenTab, Started
      <3>. QED
        BY <1>3, <3>2, <3>3 DEF Owes, Started, ConnectSsh, OpenTab, TypeOK
    <2>. QED
      BY <2>2, <2>3
  <1>4. ASSUME NEW s \in Session, NEW d \in Connection,
               ConnectSshNoThread(s, d)
        PROVE  \E o \in Session : conn'[o] = c /\ Owes(o)'
    <2>1. status[c] = "Connecting"
      BY <1>1, <1>4 DEF ConnectSshNoThread, OpenTab, WithStatus, TypeOK
    <2>2. PICK o \in Session : conn[o] = c /\ Owes(o)
      BY <1>2, <2>1
    <2>3. o # s
      BY <1>4, <2>2
      DEF Owes, AnswerComesFirst, ConnectSshNoThread, OpenTab, Started
    <2>. QED
      BY <1>4, <2>2, <2>3
      DEF Owes, Started, ConnectSshNoThread, OpenTab, TypeOK
  <1>5. CASE \/ \E s \in Session : CloseTab(s)
             \/ CloseAllSessions
             \/ \E s \in Session :
                  \/ WriteFails(s) \/ ReaderExits(s) \/ RemoteExits(s)
                  \/ TransportLost(s)
             \/ UNCHANGED vars
    BY <1>1, <1>2, <1>5 DEF CloseTab, CloseAllSessions, WriteFails,
       ReaderExits, RemoteExits, TransportLost, vars, Owes, Started
  <1>6. ASSUME NEW d \in Connection, DeleteConnection(d)
        PROVE  \E o \in Session : conn'[o] = c /\ Owes(o)'
    <2>1. status[c] = "Connecting"
      BY <1>1, <1>6 DEF DeleteConnection, TypeOK
    <2>. QED
      BY <1>2, <1>6, <2>1 DEF DeleteConnection, Owes, Started
  <1>7. ASSUME NEW s \in Session, ThreadStep(s)
        PROVE  \E o \in Session : conn'[o] = c /\ Owes(o)'
    <2>1. conn' = conn /\ status' = status
      BY <1>7 DEF ThreadStep, ThreadConnects, ThreadFails, ThreadOpensShell,
                  WriteSeesClose, ReadEnds, SessionEnds
    <2>2. PICK o \in Session : conn[o] = c /\ Owes(o)
      BY <1>1, <1>2, <2>1
    <2>. QED
      BY <1>7, <2>1, <2>2, OwesStep
  <1>8. ASSUME NEW s \in Session, Apply(s)
        PROVE  \E o \in Session : conn'[o] = c /\ Owes(o)'
    <2>1. /\ conn' = conn /\ thr' = thr
          /\ \A o \in Session \ {s} : events'[o] = events[o]
      BY <1>8 DEF TypeOK, Apply, ApplyConnected, ApplyConnectFailed,
                  ApplyEnded, Receives
    <2>2. status[c] = "Connecting"
      BY <1>1, <1>8 DEF TypeOK, Apply, ApplyConnected, ApplyConnectFailed,
                        ApplyEnded, WithStatus
    <2>3. PICK o \in Session : conn[o] = c /\ Owes(o)
      BY <1>2, <2>2
    <2>4. ASSUME o = s PROVE FALSE
      <3>1. events[s] # <<>> /\ Head(events[s]) \notin Ends
        BY <1>8, <2>3, <2>4 DEF Owes, AnswerComesFirst, Apply,
           ApplyConnected, ApplyConnectFailed, ApplyEnded, Receives
      <3>2. ApplyConnected(s) \/ ApplyConnectFailed(s)
        BY <1>8, <3>1 DEF Apply, ApplyEnded, Receives
      <3>3. status'[c] # "Connecting"
        BY <2>3, <2>4, <3>2
        DEF TypeOK, ApplyConnected, ApplyConnectFailed, WithStatus
      <3>. QED
        BY <1>1, <3>3
    <2>. QED
      BY <2>1, <2>3, <2>4 DEF Owes, Started
  <1>. QED
    BY <1>3, <1>4, <1>5, <1>6, <1>7, <1>8 DEF Next, UserStep

-----------------------------------------------------------------------------
(* Sending or receiving events leaves the reports of losses real.          *)
LEMMA LossSend ==
    ASSUME TypeOK, LossIsReal, NEW s \in Session, NEW e \in Event,
           Sends(s, e), e = "UnexpectedDisconnect" => lost[s] = TRUE,
           UNCHANGED <<write, read, lost, notified>>
    PROVE  LossIsReal'
  <1>1. ASSUME NEW o \in Session, o # s
        PROVE  events'[o] = events[o]
    BY <1>1 DEF Sends, TypeOK
  <1>2. events[s] \in Seq(Event) /\ events'[s] = Append(events[s], e)
    BY DEF Sends, TypeOK, Event
  <1>3. ASSUME NEW i \in 1..Len(events'[s]),
               events'[s][i] = "UnexpectedDisconnect"
        PROVE  lost[s] = TRUE
    <2>1. CASE i = Len(events[s]) + 1
      BY <1>2, <1>3, <2>1, HeadOfAppend
    <2>2. CASE i # Len(events[s]) + 1
      <3>1. i \in 1..Len(events[s])
        BY <1>2, <1>3, <2>2, HeadOfAppend
      <3>. QED
        BY <1>2, <1>3, <3>1, HeadOfAppend DEF LossIsReal
    <2>. QED
      BY <2>1, <2>2
  <1>. QED
    BY <1>1, <1>3 DEF LossIsReal

LEMMA LossReceive ==
    ASSUME TypeOK, LossIsReal, NEW s \in Session, NEW e, Receives(s, e),
           UNCHANGED <<write, read, lost>>,
           notified' \subseteq notified
             \cup (IF e = "UnexpectedDisconnect" THEN {s} ELSE {})
    PROVE  LossIsReal'
  <1>1. ASSUME NEW o \in Session, o # s
        PROVE  events'[o] = events[o]
    BY <1>1 DEF Receives, TypeOK
  <1>2. /\ events[s] \in Seq(Event) /\ events[s] # <<>>
        /\ events'[s] = Tail(events[s])
    BY DEF Receives, TypeOK, Event
  <1>3. ASSUME NEW i \in 1..Len(events'[s]),
               events'[s][i] = "UnexpectedDisconnect"
        PROVE  lost[s] = TRUE
    <2>1. i + 1 \in 1..Len(events[s]) /\ events'[s][i] = events[s][i + 1]
      BY <1>2, TailOfQueue
    <2>. QED
      BY <1>3, <2>1 DEF LossIsReal
  <1>4. ASSUME e = "UnexpectedDisconnect" PROVE lost[s] = TRUE
    <2>1. events[s][1] = e /\ 1 \in 1..Len(events[s])
      BY <1>2, TailOfQueue DEF Receives
    <2>. QED
      BY <1>4, <2>1 DEF LossIsReal
  <1>5. ASSUME NEW o \in Session, o \in notified' PROVE lost[o] = TRUE
    BY <1>4, <1>5 DEF LossIsReal
  <1>. QED
    BY <1>1, <1>3, <1>5 DEF LossIsReal

LEMMA LossStep == TypeOK /\ LossIsReal /\ [Next]_vars => LossIsReal'
  <1>. SUFFICES ASSUME TypeOK, LossIsReal, [Next]_vars PROVE LossIsReal'
    OBVIOUS
  <1>1. CASE UserStep \/ UNCHANGED vars
    BY <1>1 DEF LossIsReal, UserStep, ConnectSsh, ConnectSshNoThread, OpenTab,
       CloseTab, CloseAllSessions, DeleteConnection, vars, remote, tasks
  <1>2. ASSUME NEW s \in Session,
               ThreadConnects(s) \/ ReaderExits(s) \/ RemoteExits(s)
        PROVE  LossIsReal'
    BY <1>2 DEF LossIsReal, ThreadConnects, ReaderExits, RemoteExits,
                remote, tasks
  <1>3. ASSUME NEW s \in Session, TransportLost(s) PROVE LossIsReal'
    <2>1. /\ \A o \in Session : lost[o] = TRUE => lost'[o] = TRUE
          /\ UNCHANGED <<write, read, events, notified>>
      BY <1>3 DEF TypeOK, TransportLost, tasks
    <2>. QED
      BY <2>1 DEF LossIsReal
  <1>4. ASSUME NEW s \in Session,
               WriteSeesClose(s) \/ WriteFails(s) \/ ReadEnds(s)
        PROVE  LossIsReal'
    <2>1. /\ UNCHANGED <<lost, events, notified>>
          /\ \A o \in Session \ {s} : write'[o] = write[o] /\ read'[o] = read[o]
      BY <1>4 DEF TypeOK, WriteSeesClose, WriteFails, ReadEnds, remote
    <2>2. /\ write'[s] = "UnexpectedDisconnect" =>
                write[s] = "UnexpectedDisconnect" \/ lost[s]
          /\ read'[s] = "UnexpectedDisconnect" =>
                read[s] = "UnexpectedDisconnect" \/ lost[s]
      BY <1>4 DEF TypeOK, WriteSeesClose, WriteFails, ReadEnds
    <2>3. lost[s] => lost[s] = TRUE
      BY DEF TypeOK
    <2>4. /\ write'[s] = "UnexpectedDisconnect" => lost'[s] = TRUE
          /\ read'[s] = "UnexpectedDisconnect" => lost'[s] = TRUE
      BY <2>1, <2>2, <2>3 DEF LossIsReal
    <2>. QED
      BY <2>1, <2>4 DEF LossIsReal
  <1>5. ASSUME NEW s \in Session, ThreadFails(s) \/ ThreadOpensShell(s)
        PROVE  LossIsReal'
    <2>1. PICK e \in {"Connected", "ConnectFailed"} : Sends(s, e)
      BY <1>5 DEF ThreadFails, ThreadOpensShell
    <2>2. UNCHANGED <<write, read, lost, notified>>
      BY <1>5 DEF ThreadFails, ThreadOpensShell, remote, tasks
    <2>3. e \in Event /\ e # "UnexpectedDisconnect"
      BY DEF Event
    <2>. QED
      BY <2>1, <2>2, <2>3, LossSend
  <1>6. ASSUME NEW s \in Session, SessionEnds(s) PROVE LossIsReal'
    <2>. DEFINE e == IF write[s] # "run" THEN write[s] ELSE read[s]
    <2>1. e \in Event /\ Sends(s, e)
      BY <1>6 DEF SessionEnds, TypeOK, Event
    <2>2. e = "UnexpectedDisconnect" => lost[s] = TRUE
      BY DEF LossIsReal
    <2>3. UNCHANGED <<write, read, lost, notified>>
      BY <1>6 DEF SessionEnds, remote, tasks
    <2>. HIDE DEF e
    <2>. QED
      BY <2>1, <2>2, <2>3, LossSend
  <1>7. ASSUME NEW s \in Session, Apply(s) PROVE LossIsReal'
    <2>1. PICK e \in Event :
            /\ Receives(s, e)
            /\ notified' \subseteq notified
                 \cup (IF e = "UnexpectedDisconnect" THEN {s} ELSE {})
      BY <1>7 DEF Apply, ApplyConnected, ApplyConnectFailed, ApplyEnded, Event
    <2>2. UNCHANGED <<write, read, lost>>
      BY <1>7 DEF Apply, ApplyConnected, ApplyConnectFailed, ApplyEnded,
                  remote, tasks
    <2>. QED
      BY <2>1, <2>2, LossReceive
  <1>. QED
    BY <1>1, <1>2, <1>3, <1>4, <1>5, <1>6, <1>7 DEF Next, ThreadStep

-----------------------------------------------------------------------------
(* Every state is typed; a row says Connecting only while a tab owes it an *)
(* answer; and a notification means that a transport was lost.             *)
THEOREM SessionReports ==
    Spec => [](TypeOK /\ ConnectingIsPending /\ NotifiesOnlyLostLinks)
  <1>. DEFINE IInv == /\ TypeOK /\ AnswerComesFirst
                      /\ ConnectingIsPending /\ LossIsReal
  <1>1. Init => IInv
    <2>1. Init => TypeOK
      BY DEF Init, TypeOK
    <2>2. Init => AnswerComesFirst /\ ConnectingIsPending /\ LossIsReal
      BY DEF Init, AnswerComesFirst, ConnectingIsPending, LossIsReal
    <2>. QED
      BY <2>1, <2>2
  <1>2. IInv /\ [Next]_vars => IInv'
    BY TypeStep, AnswerStep, PendingStep, LossStep
  <1>3. IInv => TypeOK /\ ConnectingIsPending /\ NotifiesOnlyLostLinks
    BY DEF LossIsReal, NotifiesOnlyLostLinks, TypeOK
  <1>. QED
    BY <1>1, <1>2, <1>3, PTL DEF Spec

-----------------------------------------------------------------------------
(* What may wait in the queue of a session, by where its thread is: at     *)
(* most an answer and an end, in that order.                               *)
QueueShape(s) ==
    /\ thr[s] = "idle" => conn[s] = "none" /\ events[s] = <<>>
    /\ Started(s) => events[s] = <<>>
    /\ thr[s] = "live" => events[s] \in {<<>>, <<"Connected">>}
    /\ thr[s] = "done" =>
         \/ events[s] = <<>>
         \/ events[s] = <<"ConnectFailed">>
         \/ \E end \in Ends : \/ events[s] = <<end>>
                              \/ events[s] = <<"Connected", end>>

QueuesAreShaped == \A s \in Session : QueueShape(s)

(* No other session was opened for the connection of s.                    *)
IsSole(s) == \A o \in Session : conn[o] = conn[s] => o = s

(* What the row says of a sole tab: nothing of a shell before there is one,*)
(* and the truth once everything is applied.                               *)
RowTells(s) ==
    conn[s] \in Connection /\ IsSole(s) /\ status[conn[s]] # "gone" =>
        /\ Started(s) => status[conn[s]] # "Connected"
        /\ Settled(s) => (status[conn[s]] = "Connected" <=> thr[s] = "live")

RowsTell == \A s \in Session : RowTells(s)

(* The queues that occur, and what is left of them.                        *)
LEMMA ShortQueues ==
    ASSUME NEW a \in Event, NEW b \in Event
    PROVE  /\ Append(<<>>, a) = <<a>> /\ Append(<<a>>, b) = <<a, b>>
           /\ Tail(<<a>>) = <<>> /\ Tail(<<a, b>>) = <<b>>
           /\ Head(<<a>>) = a /\ Head(<<a, b>>) = a
           /\ <<a>> # <<>> /\ <<a, b>> # <<>>
  <1>1. Append(<<>>, a) = <<a>>
    OBVIOUS
  <1>2. Append(<<a>>, b) = <<a, b>>
    <2>. DEFINE q == Append(<<a>>, b)
    <2>1. <<a>> \in Seq(Event) /\ Len(<<a>>) = 1 /\ <<a>>[1] = a
      OBVIOUS
    <2>2. q \in Seq(Event) /\ Len(q) = 2 /\ q[1] = a /\ q[2] = b
      BY <2>1, HeadOfAppend
    <2>. HIDE DEF q
    <2>3. q = <<a, b>>
      BY <2>2
    <2>. QED
      BY <2>3 DEF q
  <1>3. Tail(<<a>>) = <<>>
    OBVIOUS
  <1>4. Tail(<<a, b>>) = <<b>>
    OBVIOUS
  <1>5. Head(<<a>>) = a /\ Head(<<a, b>>) = a
    OBVIOUS
  <1>6. <<a>> # <<>> /\ <<a, b>> # <<>>
    OBVIOUS
  <1>. QED
    BY <1>1, <1>2, <1>3, <1>4, <1>5, <1>6

(* A session whose own state is unchanged keeps its shape.                 *)
LEMMA ShapeKept ==
    ASSUME NEW s \in Session, QueueShape(s), thr'[s] = thr[s],
           conn'[s] = conn[s], events'[s] = events[s]
    PROVE  QueueShape(s)'
  BY DEF QueueShape, Started

(* Every step leaves the queues shaped.                                    *)
LEMMA ShapeStep ==
    TypeOK /\ QueuesAreShaped /\ [Next]_vars => QueuesAreShaped'
  <1>. SUFFICES ASSUME TypeOK, QueuesAreShaped, [Next]_vars,
                       NEW o \in Session
                PROVE  QueueShape(o)'
    BY DEF QueuesAreShaped
  <1>0. QueueShape(o)
    BY DEF QueuesAreShaped
  <1>1. ASSUME NEW s \in Session, NEW c \in Connection,
               ConnectSsh(s, c) \/ ConnectSshNoThread(s, c)
        PROVE  QueueShape(o)'
    <2>1. CASE o = s
      <3>1. events'[s] = <<>> /\ thr'[s] \in {"connecting", "done"}
        BY <1>0, <1>1, <2>1
        DEF QueueShape, ConnectSsh, ConnectSshNoThread, OpenTab, TypeOK
      <3>. QED
        BY <2>1, <3>1 DEF QueueShape, Started
    <2>2. CASE o # s
      BY <1>0, <1>1, <2>2, ShapeKept
      DEF ConnectSsh, ConnectSshNoThread, OpenTab, TypeOK
    <2>. QED
      BY <2>1, <2>2
  <1>2. CASE \/ \E s \in Session :
                  \/ CloseTab(s) \/ WriteSeesClose(s) \/ WriteFails(s)
                  \/ ReadEnds(s) \/ ReaderExits(s) \/ RemoteExits(s)
                  \/ TransportLost(s)
             \/ CloseAllSessions
             \/ \E c \in Connection : DeleteConnection(c)
             \/ UNCHANGED vars
    BY <1>0, <1>2, ShapeKept
    DEF CloseTab, WriteSeesClose, WriteFails, ReadEnds, ReaderExits,
        RemoteExits, TransportLost, CloseAllSessions, DeleteConnection, vars
  <1>3. ASSUME NEW s \in Session, ThreadConnects(s) PROVE QueueShape(o)'
    BY <1>0, <1>3 DEF QueueShape, Started, ThreadConnects, TypeOK
  <1>4. ASSUME NEW s \in Session, ThreadFails(s) \/ ThreadOpensShell(s)
        PROVE  QueueShape(o)'
    <2>1. CASE o = s
      <3>1. events[s] = <<>>
        BY <1>0, <1>4, <2>1
        DEF QueueShape, Started, ThreadFails, ThreadOpensShell
      <3>2. \/ thr'[s] = "done" /\ events'[s] = <<"ConnectFailed">>
            \/ thr'[s] = "live" /\ events'[s] = <<"Connected">>
        BY <1>4, <3>1, ShortQueues
        DEF ThreadFails, ThreadOpensShell, Sends, TypeOK
      <3>. QED
        BY <2>1, <3>2 DEF QueueShape, Started
    <2>2. CASE o # s
      BY <1>0, <1>4, <2>2, ShapeKept
      DEF ThreadFails, ThreadOpensShell, Sends, TypeOK
    <2>. QED
      BY <2>1, <2>2
  <1>5. ASSUME NEW s \in Session, SessionEnds(s) PROVE QueueShape(o)'
    <2>1. CASE o = s
      <3>1. PICK end \in Ends : Sends(s, end)
        BY <1>5 DEF SessionEnds, TypeOK
      <3>2. events[s] \in {<<>>, <<"Connected">>} /\ thr'[s] = "done"
        BY <1>0, <1>5, <2>1 DEF QueueShape, SessionEnds, TypeOK
      <3>3. events'[s] = Append(events[s], end) /\ end \in Event
        BY <3>1 DEF Sends, TypeOK, Event
      <3>4. "Connected" \in Event
        BY DEF Event
      <3>5. events'[s] = <<end>> \/ events'[s] = <<"Connected", end>>
        BY <3>2, <3>3, <3>4, ShortQueues
      <3>. QED
        BY <2>1, <3>2, <3>5 DEF QueueShape, Started
    <2>2. CASE o # s
      BY <1>0, <1>5, <2>2, ShapeKept DEF SessionEnds, Sends, TypeOK
    <2>. QED
      BY <2>1, <2>2
  <1>6. ASSUME NEW s \in Session, Apply(s) PROVE QueueShape(o)'
    <2>1. /\ thr' = thr /\ conn' = conn /\ events[s] # <<>>
          /\ events' = [events EXCEPT ![s] = Tail(@)]
      BY <1>6 DEF Apply, ApplyConnected, ApplyConnectFailed, ApplyEnded,
                  Receives
    <2>2. CASE o = s
      <3>1. events'[s] = Tail(events[s])
        BY <2>1 DEF TypeOK
      <3>2. thr[s] \in {"live", "done"}
        BY <1>0, <2>1, <2>2 DEF QueueShape, Started, TypeOK
      <3>3. CASE thr[s] = "live"
        <4>1. events'[s] = <<>>
          <5>1. events[s] = <<"Connected">>
            BY <1>0, <2>1, <2>2, <3>3 DEF QueueShape
          <5>. QED
            BY <3>1, <5>1, ShortQueues DEF Event
        <4>. QED
          BY <2>1, <2>2, <3>3, <4>1 DEF QueueShape, Started
      <3>4. CASE thr[s] = "done"
        <4>1. events'[s] = <<>> \/ \E end \in Ends : events'[s] = <<end>>
          <5>1. CASE events[s] = <<"ConnectFailed">>
            BY <3>1, <5>1, ShortQueues DEF Event
          <5>2. ASSUME NEW end \in Ends, events[s] = <<end>>
                PROVE  events'[s] = <<>>
            BY <3>1, <5>2, ShortQueues DEF Event
          <5>3. ASSUME NEW end \in Ends, events[s] = <<"Connected", end>>
                PROVE  events'[s] = <<end>>
            BY <3>1, <5>3, ShortQueues DEF Event
          <5>. QED
            BY <1>0, <2>1, <2>2, <3>4, <5>1, <5>2, <5>3 DEF QueueShape
        <4>. QED
          BY <2>1, <2>2, <3>4, <4>1 DEF QueueShape, Started
      <3>. QED
        BY <3>2, <3>3, <3>4
    <2>3. CASE o # s
      BY <1>0, <2>1, <2>3, ShapeKept DEF TypeOK
    <2>. QED
      BY <2>2, <2>3
  <1>. QED
    BY <1>1, <1>2, <1>3, <1>4, <1>5, <1>6 DEF Next, UserStep, ThreadStep
-----------------------------------------------------------------------------
(* A step that changes neither the row nor what a session owes it keeps    *)
(* what the row tells; other sessions may have been opened meanwhile.      *)
LEMMA RowKept ==
    ASSUME TypeOK, NEW o \in Session, RowTells(o), conn'[o] = conn[o],
           \A p \in Session : conn'[p] = conn[p] \/ conn[p] = "none",
           status'[conn[o]] = status[conn[o]] \/ status'[conn[o]] = "gone",
           Started(o)' = Started(o), events'[o] = events[o],
           (thr'[o] = "live") = (thr[o] = "live")
    PROVE  RowTells(o)'
  <1>. SUFFICES ASSUME conn[o] \in Connection, IsSole(o)',
                       status'[conn[o]] # "gone"
                PROVE  /\ Started(o)' => status'[conn[o]] # "Connected"
                       /\ Settled(o)' =>
                            (status'[conn[o]] = "Connected" <=> thr'[o] = "live")
    BY DEF RowTells
  <1>1. IsSole(o)
    BY NoneAssumption DEF IsSole
  <1>2. Settled(o)' = Settled(o)
    BY DEF Settled
  <1>. QED
    BY <1>1, <1>2 DEF RowTells

(* A session opened for a connection finds its row reset.                  *)
LEMMA RowOpened ==
    ASSUME TypeOK, QueuesAreShaped, RowsTell, NEW s \in Session,
           NEW c \in Connection, ConnectSsh(s, c) \/ ConnectSshNoThread(s, c),
           NEW o \in Session
    PROVE  RowTells(o)'
  <1>1. conn' = [conn EXCEPT ![s] = c] /\ status[c] # "gone" /\ thr[s] = "idle"
    BY DEF ConnectSsh, ConnectSshNoThread, OpenTab
  <1>2. CASE o = s
    <2>1. /\ conn'[s] = c
          /\ \/ thr'[s] = "connecting" /\ status'[c] = "Connecting"
             \/ thr'[s] = "done" /\ status'[c] = "Error"
      BY <1>1 DEF ConnectSsh, ConnectSshNoThread, WithStatus, TypeOK
    <2>. QED
      BY <1>2, <2>1 DEF RowTells, Started
  <1>3. CASE o # s /\ conn[o] = c
    <2>1. conn'[s] = conn'[o]
      BY <1>1, <1>3 DEF TypeOK
    <2>. QED
      BY <1>3, <2>1 DEF RowTells, IsSole
  <1>4. CASE o # s /\ conn[o] # c
    <2>1. conn[s] = "none" /\ RowTells(o)
      BY <1>1 DEF QueuesAreShaped, QueueShape, RowsTell
    <2>2. /\ conn'[o] = conn[o]
          /\ \A p \in Session : conn'[p] = conn[p] \/ conn[p] = "none"
      BY <1>1, <1>4, <2>1 DEF TypeOK
    <2>3. thr'[o] = thr[o] /\ events'[o] = events[o]
      BY <1>4 DEF ConnectSsh, ConnectSshNoThread, OpenTab, TypeOK
    <2>4. CASE conn[o] \in Connection
      <3>1. status'[conn[o]] = status[conn[o]]
        BY <1>4, <2>4
        DEF ConnectSsh, ConnectSshNoThread, WithStatus, TypeOK
      <3>2. Started(o)' = Started(o)
        BY <2>3 DEF Started
      <3>. QED
        BY <2>1, <2>2, <2>3, <3>1, <3>2, RowKept
    <2>5. CASE conn[o] \notin Connection
      BY <2>2, <2>5 DEF RowTells
    <2>. QED
      BY <2>4, <2>5
  <1>. QED
    BY <1>2, <1>3, <1>4

(* A thread that sends leaves an event to apply.                           *)
LEMMA RowAwaits ==
    ASSUME TypeOK, RowsTell, NEW s \in Session,
           ThreadFails(s) \/ ThreadOpensShell(s) \/ SessionEnds(s),
           NEW o \in Session
    PROVE  RowTells(o)'
  <1>1. /\ conn' = conn /\ status' = status
        /\ \A p \in Session \ {s} : thr'[p] = thr[p] /\ events'[p] = events[p]
    BY DEF ThreadFails, ThreadOpensShell, SessionEnds, Sends, TypeOK
  <1>2. CASE o = s
    <2>1. PICK e \in Event : Sends(s, e)
      BY DEF ThreadFails, ThreadOpensShell, SessionEnds, TypeOK, Event
    <2>2. events[s] \in Seq(Event) /\ events'[s] = Append(events[s], e)
      BY <2>1 DEF Sends, TypeOK, Event
    <2>3. events'[s] # <<>>
      BY <2>2, HeadOfAppend
    <2>4. ~Started(s)'
      BY DEF ThreadFails, ThreadOpensShell, SessionEnds, Started, TypeOK
    <2>. QED
      BY <1>2, <2>3, <2>4 DEF RowTells, Settled
  <1>3. CASE o # s
    <2>1. Started(o)' = Started(o)
      BY <1>1, <1>3 DEF Started
    <2>. QED
      BY <1>1, <1>3, <2>1, RowKept DEF RowsTell
  <1>. QED
    BY <1>2, <1>3

(* Applying the last event of a sole session makes its row truthful.       *)
LEMMA RowApplied ==
    ASSUME TypeOK, QueuesAreShaped, RowsTell, NEW s \in Session, Apply(s),
           NEW o \in Session
    PROVE  RowTells(o)'
  <1>1. /\ conn' = conn /\ thr' = thr /\ events[s] # <<>>
        /\ events' = [events EXCEPT ![s] = Tail(@)]
        /\ \A c \in Connection \ {conn[s]} : status'[c] = status[c]
        /\ \A c \in Connection : status[c] = "gone" => status'[c] = "gone"
    BY DEF Apply, ApplyConnected, ApplyConnectFailed, ApplyEnded, Receives,
           WithStatus, TypeOK
  <1>2. CASE o # s /\ conn[o] # conn[s]
    <2>1. Started(o)' = Started(o) /\ events'[o] = events[o]
      BY <1>1, <1>2 DEF Started, TypeOK
    <2>2. CASE conn[o] \in Connection
      BY <1>1, <1>2, <2>1, <2>2, RowKept DEF RowsTell
    <2>3. CASE conn[o] \notin Connection
      BY <1>1, <2>3 DEF RowTells
    <2>. QED
      BY <2>2, <2>3
  <1>3. CASE o # s /\ conn[o] = conn[s]
    BY <1>1, <1>3 DEF RowTells, IsSole
  <1>4. CASE o = s
    <2>. SUFFICES ASSUME conn[s] \in Connection, IsSole(s),
                         status[conn[s]] # "gone", Settled(s)'
                  PROVE  status'[conn[s]] = "Connected" <=> thr[s] = "live"
      <3>1. ~Started(s)
        BY <1>1 DEF QueuesAreShaped, QueueShape
      <3>2. ~Started(s)' /\ IsSole(s)' = IsSole(s)
        BY <1>1, <3>1 DEF Started, IsSole
      <3>. QED
        BY <1>1, <1>4, <3>2 DEF RowTells
    <2>1. Tail(events[s]) = <<>>
      BY <1>1 DEF Settled, TypeOK
    <2>2. QueueShape(s)
      BY DEF QueuesAreShaped
    <2>3. \/ thr[s] = "live" /\ Head(events[s]) = "Connected"
          \/ thr[s] = "done" /\ Head(events[s]) \in Ends \cup {"ConnectFailed"}
      <3>1. thr[s] \in {"live", "done"}
        BY <1>1, <2>2 DEF QueueShape, Started, TypeOK
      <3>2. ASSUME NEW end \in Ends, events[s] = <<"Connected", end>>
            PROVE  FALSE
        BY <2>1, <3>2, ShortQueues DEF Event
      <3>3. ASSUME NEW e \in Event, events[s] = <<e>>
            PROVE  Head(events[s]) = e
        BY <3>3, ShortQueues
      <3>. QED
        BY <1>1, <2>2, <3>1, <3>2, <3>3 DEF QueueShape, Event
    <2>4. CASE ApplyConnected(s)
      BY <2>3, <2>4
      DEF ApplyConnected, Receives, WithStatus, TypeOK, Ends
    <2>5. CASE ApplyConnectFailed(s)
      BY <2>3, <2>5 DEF ApplyConnectFailed, Receives, WithStatus, TypeOK
    <2>6. ASSUME NEW end \in Ends, ApplyEnded(s, end)
          PROVE  status'[conn[s]] = "Connected" <=> thr[s] = "live"
      <3>1. ~HasOtherSession(s)
        BY DEF HasOtherSession, Of, IsSole
      <3>2. thr[s] = "done"
        BY <2>3, <2>6 DEF ApplyEnded, Receives, Ends
      <3>3. status'[conn[s]] \in {"Error", "Disconnected"}
        BY <2>6, <3>1 DEF ApplyEnded, WithStatus, TypeOK
      <3>. QED
        BY <3>2, <3>3
    <2>. QED
      BY <2>4, <2>5, <2>6 DEF Apply
  <1>. QED
    BY <1>2, <1>3, <1>4

LEMMA RowStep ==
    TypeOK /\ QueuesAreShaped /\ RowsTell /\ [Next]_vars => RowsTell'
  <1>. SUFFICES ASSUME TypeOK, QueuesAreShaped, RowsTell, [Next]_vars,
                       NEW o \in Session
                PROVE  RowTells(o)'
    BY DEF RowsTell
  <1>0. RowTells(o)
    BY DEF RowsTell
  <1>1. CASE \/ \E s \in Session :
                  \/ CloseTab(s) \/ WriteSeesClose(s) \/ WriteFails(s)
                  \/ ReadEnds(s) \/ ReaderExits(s) \/ RemoteExits(s)
                  \/ TransportLost(s)
             \/ CloseAllSessions
             \/ UNCHANGED vars
    <2>1. UNCHANGED <<conn, thr, events, status>>
      BY <1>1
      DEF CloseTab, WriteSeesClose, WriteFails, ReadEnds, ReaderExits,
          RemoteExits, TransportLost, CloseAllSessions, vars
    <2>. QED
      BY <1>0, <2>1 DEF RowTells, IsSole, Started, Settled
  <1>2. ASSUME NEW c \in Connection, DeleteConnection(c) PROVE RowTells(o)'
    <2>1. UNCHANGED <<conn, thr, events>> /\ Started(o)' = Started(o)
      BY <1>2 DEF DeleteConnection, Started
    <2>2. \A d \in Connection : status'[d] = status[d] \/ status'[d] = "gone"
      BY <1>2 DEF DeleteConnection, TypeOK
    <2>3. CASE conn[o] \in Connection
      BY <1>0, <2>1, <2>2, <2>3, RowKept
    <2>4. CASE conn[o] \notin Connection
      BY <2>1, <2>4 DEF RowTells
    <2>. QED
      BY <2>3, <2>4
  <1>3. ASSUME NEW s \in Session, ThreadConnects(s) PROVE RowTells(o)'
    <2>1. UNCHANGED <<conn, events, status>> /\ Started(o)' = Started(o)
      BY <1>3 DEF ThreadConnects, Started, TypeOK
    <2>2. (thr'[o] = "live") = (thr[o] = "live")
      BY <1>3 DEF ThreadConnects, TypeOK
    <2>. QED
      BY <1>0, <2>1, <2>2, RowKept
  <1>. QED
    BY <1>1, <1>2, <1>3, RowOpened, RowAwaits, RowApplied
    DEF Next, UserStep, ThreadStep

(* The row of a connection that one tab was opened for says Connected      *)
(* exactly while that tab's shell runs, once its events are applied,       *)
(* however many other tabs and connections there are (ssh.rs:254-328).     *)
THEOREM SoleTabs == Spec => []SoleTabIsTruthful
  <1>. DEFINE IInv == TypeOK /\ QueuesAreShaped /\ RowsTell
  <1>1. Init => IInv
    <2>1. Init => TypeOK
      BY DEF Init, TypeOK
    <2>2. Init => QueuesAreShaped
      BY DEF Init, QueuesAreShaped, QueueShape, Started
    <2>3. Init => RowsTell
      BY NoneAssumption DEF Init, RowsTell, RowTells
    <2>. QED
      BY <2>1, <2>2, <2>3
  <1>2. IInv /\ [Next]_vars => IInv'
    BY TypeStep, ShapeStep, RowStep
  <1>3. IInv => SoleTabIsTruthful
    BY DEF RowsTell, RowTells, IsSole, SoleTabIsTruthful, Of
  <1>. QED
    BY <1>1, <1>2, <1>3, PTL DEF Spec
-----------------------------------------------------------------------------
(* Several tabs on one row: how each of them stands.                       *)

(* The tasks report nothing before there is a shell; a close is reported   *)
(* only of a tab that is gone; a refusal means a failed attempt; and a tab *)
(* still shown as running, with nothing left to apply, has a shell or      *)
(* never had one.                                                          *)
Fate(s) ==
    /\ thr[s] = "idle" => tab[s] = "none"
    /\ thr[s] = "idle" \/ Started(s) => write[s] = "run" /\ read[s] = "run"
    /\ read[s] # "UserClosed"
    /\ write[s] = "UserClosed" => tab[s] \notin Open
    /\ events[s] = <<"UserClosed">> => tab[s] \notin Open
    /\ events[s] = <<"Connected", "UserClosed">> => tab[s] \notin Open
    /\ events[s] = <<"ConnectFailed">> => Failed(s)
    /\ thr[s] = "done" /\ events[s] = <<>> /\ tab[s] = "Running" => Failed(s)

FatesHold == \A s \in Session : Fate(s)

(* The words of the queues differ.                                         *)
LEMMA EventsDiffer ==
    ASSUME NEW end \in Ends
    PROVE  /\ <<end>> # <<>> /\ <<"Connected">> # <<>>
           /\ <<"ConnectFailed">> # <<>> /\ <<"Connected", end>> # <<>>
           /\ <<end>> # <<"Connected">> /\ <<end>> # <<"ConnectFailed">>
           /\ <<"Connected">> # <<"ConnectFailed">>
           /\ <<"Connected", end>> # <<"ConnectFailed">>
           /\ <<"Connected">> # <<"Connected", end>>
           /\ \A e \in Ends : /\ <<e>> # <<"Connected", end>>
                              /\ <<e>> = <<end>> => e = end
                              /\ <<"Connected", e>> = <<"Connected", end>>
                                   => e = end
  BY DEF Ends

(* What a step of the Workspace that applies an end finds and leaves.      *)
LEMMA EndFacts ==
    ASSUME TypeOK, QueuesAreShaped, NEW s \in Session, NEW end \in Ends,
           ApplyEnded(s, end)
    PROVE  thr[s] = "done" /\ events[s] = <<end>> /\ events'[s] = <<>>
  <1>1. /\ QueueShape(s) /\ events[s] # <<>> /\ Head(events[s]) = end
        /\ events'[s] = Tail(events[s])
    BY DEF QueuesAreShaped, ApplyEnded, Receives, TypeOK
  <1>2. "Connected" \in Event /\ end \in Event /\ "ConnectFailed" \in Event
    BY DEF Event
  <1>3. /\ events[s] # <<"Connected">> /\ events[s] # <<"ConnectFailed">>
        /\ \A e \in Ends : events[s] # <<"Connected", e>>
    BY <1>1, <1>2, ShortQueues DEF Ends, Event
  <1>4. thr[s] = "done" /\ \E e \in Ends : events[s] = <<e>>
    BY <1>1, <1>3 DEF QueueShape, Started, TypeOK
  <1>5. events[s] = <<end>>
    BY <1>1, <1>4, ShortQueues DEF Event
  <1>. QED
    BY <1>1, <1>2, <1>4, <1>5, ShortQueues

(* A session none of whose own state changes keeps its fate.               *)
LEMMA FateKept ==
    ASSUME NEW s \in Session, Fate(s), thr'[s] = thr[s], tab'[s] = tab[s],
           events'[s] = events[s], write'[s] = write[s], read'[s] = read[s]
    PROVE  Fate(s)'
  BY DEF Fate, Started, Failed

LEMMA FateStep ==
    TypeOK /\ QueuesAreShaped /\ FatesHold /\ [Next]_vars => FatesHold'
  <1>. SUFFICES ASSUME TypeOK, QueuesAreShaped, FatesHold, [Next]_vars,
                       NEW o \in Session
                PROVE  Fate(o)'
    BY DEF FatesHold
  <1>0. Fate(o) /\ QueueShape(o)
    BY DEF FatesHold, QueuesAreShaped
  <1>1. ASSUME NEW s \in Session, NEW c \in Connection,
               ConnectSsh(s, c) \/ ConnectSshNoThread(s, c)
        PROVE  Fate(o)'
    <2>1. CASE o = s
      <3>1. /\ thr[s] = "idle" /\ thr'[s] \in {"connecting", "done"}
            /\ events'[s] = events[s] /\ write'[s] = write[s] /\ read'[s] = read[s]
        BY <1>1
        DEF ConnectSsh, ConnectSshNoThread, OpenTab, TypeOK, tasks
      <3>2. events'[s] = <<>> /\ write'[s] = "run" /\ read'[s] = "run"
        BY <1>0, <2>1, <3>1 DEF Fate, QueueShape
      <3>. QED
        BY <2>1, <3>1, <3>2 DEF Fate, Started, Failed
    <2>2. CASE o # s
      BY <1>0, <1>1, <2>2, FateKept
      DEF ConnectSsh, ConnectSshNoThread, OpenTab, TypeOK, tasks
    <2>. QED
      BY <2>1, <2>2
  <1>2. CASE (\E s \in Session : CloseTab(s)) \/ CloseAllSessions
    <2>1. /\ UNCHANGED <<thr, events, write, read>>
          /\ tab'[o] = tab[o] \/ (tab[o] # "none" /\ tab'[o] = "closed")
      BY <1>2 DEF CloseTab, CloseAllSessions, TypeOK, tasks, Open
    <2>2. "closed" \notin Open /\ "closed" # "Running"
      BY DEF Open
    <2>. QED
      BY <1>0, <2>1, <2>2 DEF Fate, Started, Failed
  <1>3. CASE \/ \E c \in Connection : DeleteConnection(c)
             \/ \E s \in Session :
                  ReaderExits(s) \/ RemoteExits(s) \/ TransportLost(s)
             \/ UNCHANGED vars
    BY <1>0, <1>3, FateKept
    DEF DeleteConnection, ReaderExits, RemoteExits, TransportLost, vars, tasks
  <1>4. ASSUME NEW s \in Session, ThreadConnects(s) PROVE Fate(o)'
    BY <1>0, <1>4 DEF Fate, Started, Failed, ThreadConnects, TypeOK, tasks
  <1>5. ASSUME NEW s \in Session,
               WriteSeesClose(s) \/ WriteFails(s) \/ ReadEnds(s)
        PROVE  Fate(o)'
    <2>1. CASE o = s
      <3>1. /\ thr[s] = "live" /\ UNCHANGED <<thr, tab, events>>
            /\ \/ write'[s] \in {write[s], "UnexpectedDisconnect"}
               \/ write'[s] = "UserClosed" /\ tab[s] \notin Open
            /\ read'[s] \in {read[s], "CleanRemoteExit", "UnexpectedDisconnect"}
        BY <1>5
        DEF WriteSeesClose, WriteFails, ReadEnds, InputOpen, TypeOK, remote
      <3>2. events[s] # <<"ConnectFailed">>
        <4>1. events[s] \in {<<>>, <<"Connected">>}
          BY <1>0, <2>1, <3>1 DEF QueueShape
        <4>. QED
          BY <4>1
      <3>. QED
        BY <1>0, <2>1, <3>1, <3>2 DEF Fate, Started
    <2>2. CASE o # s
      BY <1>0, <1>5, <2>2, FateKept
      DEF WriteSeesClose, WriteFails, ReadEnds, TypeOK, remote
    <2>. QED
      BY <2>1, <2>2
  <1>6. ASSUME NEW s \in Session, ThreadFails(s) \/ ThreadOpensShell(s)
        PROVE  Fate(o)'
    <2>1. CASE o = s
      <3>1. Started(s) /\ events[s] = <<>> /\ UNCHANGED <<tab, write, read>>
        BY <1>0, <1>6, <2>1
        DEF QueueShape, Started, ThreadFails, ThreadOpensShell, tasks
      <3>2. \/ thr'[s] = "done" /\ events'[s] = <<"ConnectFailed">>
            \/ thr'[s] = "live" /\ events'[s] = <<"Connected">>
        BY <1>6, <3>1, ShortQueues
        DEF ThreadFails, ThreadOpensShell, Sends, TypeOK, Event
      <3>3. write'[s] = "run" /\ read'[s] = "run"
        BY <1>0, <2>1, <3>1 DEF Fate
      <3>4. /\ events'[s] # <<>> /\ events'[s] # <<"UserClosed">>
            /\ events'[s] # <<"Connected", "UserClosed">>
        BY <3>2
      <3>. QED
        BY <2>1, <3>2, <3>3, <3>4, EventsDiffer DEF Fate, Failed, Started, Ends
    <2>2. CASE o # s
      BY <1>0, <1>6, <2>2, FateKept
      DEF ThreadFails, ThreadOpensShell, Sends, TypeOK, tasks
    <2>. QED
      BY <2>1, <2>2
  <1>7. ASSUME NEW s \in Session, SessionEnds(s) PROVE Fate(o)'
    <2>1. CASE o = s
      <3>. DEFINE end == IF write[s] # "run" THEN write[s] ELSE read[s]
      <3>1. /\ thr[s] = "live" /\ thr'[s] = "done" /\ UNCHANGED <<tab, write, read>>
            /\ events'[s] = Append(events[s], end) /\ end \in Ends
        BY <1>7 DEF SessionEnds, Sends, TypeOK, tasks
      <3>2. end = "UserClosed" => tab[s] \notin Open
        BY <1>0, <2>1 DEF Fate
      <3>3. events[s] \in {<<>>, <<"Connected">>}
        BY <1>0, <2>1, <3>1 DEF QueueShape
      <3>. HIDE DEF end
      <3>4. events'[s] = <<end>> \/ events'[s] = <<"Connected", end>>
        BY <3>1, <3>3, ShortQueues DEF Event
      <3>5. "UserClosed" \in Ends
        BY DEF Ends
      <3>. QED
        BY <1>0, <2>1, <3>1, <3>2, <3>4, <3>5, EventsDiffer
        DEF Fate, Started
    <2>2. CASE o # s
      BY <1>0, <1>7, <2>2, FateKept DEF SessionEnds, Sends, TypeOK, tasks
    <2>. QED
      BY <2>1, <2>2
  <1>8. ASSUME NEW s \in Session, ApplyConnected(s) \/ ApplyConnectFailed(s)
        PROVE  Fate(o)'
    <2>1. CASE o = s
      <3>1. /\ UNCHANGED <<thr, tab, write, read>> /\ events[s] # <<>>
            /\ events'[s] = Tail(events[s])
            /\ Head(events[s]) \in {"Connected", "ConnectFailed"}
        BY <1>8
        DEF ApplyConnected, ApplyConnectFailed, Receives, TypeOK, tasks
      <3>2. CASE events[s] = <<"Connected">>
        <4>1. events'[s] = <<>> /\ thr[s] # "done"
          <5>1. thr[s] # "done"
            BY <1>0, <2>1, <3>2, EventsDiffer DEF QueueShape, Ends
          <5>. QED
            BY <3>1, <3>2, <5>1, ShortQueues DEF Event
        <4>. QED
          BY <1>0, <2>1, <3>1, <4>1, EventsDiffer DEF Fate, Started, Ends
      <3>3. CASE events[s] = <<"ConnectFailed">>
        <4>1. events'[s] = <<>> /\ Failed(s)
          BY <1>0, <2>1, <3>1, <3>3, ShortQueues DEF Event, Fate
        <4>. QED
          BY <1>0, <2>1, <3>1, <4>1, EventsDiffer
          DEF Fate, Started, Failed, Ends
      <3>4. ASSUME NEW e \in Ends, events[s] = <<"Connected", e>>
            PROVE  Fate(o)'
        <4>1. events'[s] = <<e>>
          BY <3>1, <3>4, ShortQueues DEF Event
        <4>2. e = "UserClosed" => tab[s] \notin Open
          BY <1>0, <2>1, <3>4 DEF Fate
        <4>3. "UserClosed" \in Ends
          BY DEF Ends
        <4>. QED
          BY <1>0, <2>1, <3>1, <4>1, <4>2, <4>3, EventsDiffer
          DEF Fate, Started
      <3>5. \A e \in Ends : events[s] # <<e>>
        BY <3>1, ShortQueues DEF Ends, Event
      <3>6. thr[s] \in {"live", "done"}
        BY <1>0, <2>1, <3>1 DEF QueueShape, Started, TypeOK
      <3>. QED
        BY <1>0, <2>1, <3>1, <3>2, <3>3, <3>4, <3>5, <3>6 DEF QueueShape
    <2>2. CASE o # s
      BY <1>0, <1>8, <2>2, FateKept
      DEF ApplyConnected, ApplyConnectFailed, Receives, TypeOK, tasks
    <2>. QED
      BY <2>1, <2>2
  <1>9. ASSUME NEW s \in Session, NEW end \in Ends, ApplyEnded(s, end)
        PROVE  Fate(o)'
    <2>1. CASE o = s
      <3>1. /\ thr[s] = "done" /\ events[s] = <<end>> /\ events'[s] = <<>>
            /\ UNCHANGED <<thr, write, read>> /\ tab'[s] = TabAfter(s, end)
        BY <1>9, EndFacts DEF ApplyEnded, TypeOK, tasks
      <3>2. end = "UserClosed" => tab[s] \notin Open
        BY <1>0, <2>1, <3>1 DEF Fate
      <3>3. tab'[s] # "Running" /\ (tab[s] \notin Open => tab'[s] \notin Open)
        BY <3>1, <3>2 DEF TabAfter, Open
      <3>. QED
        BY <1>0, <2>1, <3>1, <3>3, EventsDiffer DEF Fate, Started, Ends
    <2>2. CASE o # s
      BY <1>0, <1>9, <2>2, FateKept DEF ApplyEnded, Receives, TypeOK, tasks
    <2>. QED
      BY <2>1, <2>2
  <1>. QED
    BY <1>1, <1>2, <1>3, <1>4, <1>5, <1>6, <1>7, <1>8, <1>9
    DEF Next, UserStep, ThreadStep, Apply

-----------------------------------------------------------------------------
(* What the row tells of all its tabs, events still to be applied included.*)

NoneFailed(c) == \A s \in Session : conn[s] = c => ~Failed(s)

RowStands(c) ==
    status[c] # "gone" /\ NoneFailed(c) =>
        /\ \A s \in Session :
             conn[s] = c /\ Live(s) /\ tab[s] = "Running" /\ events[s] = <<>>
                 => status[c] \in {"Connected", "Connecting"}
        /\ status[c] = "Connected" =>
             \E s \in Session : conn[s] = c /\ (~Settled(s) \/ Live(s))

RowsStand == \A c \in Connection : RowStands(c)

(* A row is left standing by a step that changes neither it nor what its   *)
(* tabs owe it; tabs may be closed, and attempts fail.                     *)
LEMMA StandsKept ==
    ASSUME RowsStand, NEW c \in Connection,
           status'[c] = status[c] \/ status'[c] = "gone",
           \A s \in Session : conn'[s] = c <=> conn[s] = c,
           \A s \in Session : conn[s] = c =>
               /\ Failed(s) => Failed(s)'
               /\ Live(s)' = Live(s) /\ Started(s)' = Started(s)
               /\ events'[s] = events[s]
               /\ tab'[s] = "Running" => tab[s] = "Running"
    PROVE  RowStands(c)'
  <1>. SUFFICES ASSUME status'[c] # "gone", NoneFailed(c)'
                PROVE  /\ \A s \in Session :
                            conn'[s] = c /\ Live(s)' /\ tab'[s] = "Running"
                              /\ events'[s] = <<>>
                                => status'[c] \in {"Connected", "Connecting"}
                       /\ status'[c] = "Connected" =>
                            \E s \in Session :
                               conn'[s] = c /\ (~Settled(s)' \/ Live(s)')
    BY DEF RowStands
  <1>1. status'[c] = status[c] /\ NoneFailed(c)
    BY DEF NoneFailed
  <1>2. RowStands(c)
    BY DEF RowsStand
  <1>3. \A s \in Session : conn[s] = c => Settled(s)' = Settled(s)
    BY DEF Settled
  <1>. QED
    BY <1>1, <1>2, <1>3 DEF RowStands

(* A new attempt takes the row to Connecting, or fails at once.            *)
LEMMA StandsOpened ==
    ASSUME TypeOK, QueuesAreShaped, FatesHold, RowsStand, NEW s \in Session,
           NEW d \in Connection, ConnectSsh(s, d) \/ ConnectSshNoThread(s, d),
           NEW c \in Connection
    PROVE  RowStands(c)'
  <1>1. /\ conn' = [conn EXCEPT ![s] = d] /\ thr[s] = "idle"
        /\ status[d] # "gone" /\ UNCHANGED <<write, read, events>>
        /\ \A o \in Session \ {s} : thr'[o] = thr[o] /\ tab'[o] = tab[o]
    BY DEF ConnectSsh, ConnectSshNoThread, OpenTab, TypeOK, tasks
  <1>2. CASE c = d
    <2>1. CASE ConnectSsh(s, d)
      <3>1. status'[d] = "Connecting"
        BY <1>1, <2>1 DEF ConnectSsh, WithStatus, TypeOK
      <3>. QED
        BY <1>2, <3>1 DEF RowStands
    <2>2. CASE ConnectSshNoThread(s, d)
      <3>1. thr'[s] = "done" /\ conn'[s] = d
        BY <1>1, <2>2 DEF ConnectSshNoThread, TypeOK
      <3>2. write'[s] = "run" /\ read'[s] = "run"
        BY <1>1 DEF FatesHold, Fate
      <3>. QED
        BY <1>2, <3>1, <3>2 DEF RowStands, NoneFailed, Failed
    <2>. QED
      BY <2>1, <2>2
  <1>3. CASE c # d
    <2>1. conn[s] = "none" /\ conn[s] # c
      BY <1>1, NoneAssumption DEF QueuesAreShaped, QueueShape
    <2>2. status'[c] = status[c]
      BY <1>3 DEF ConnectSsh, ConnectSshNoThread, WithStatus, TypeOK
    <2>3. \A o \in Session : conn'[o] = c <=> conn[o] = c
      BY <1>1, <1>3, <2>1 DEF TypeOK
    <2>. QED
      BY <1>1, <2>1, <2>2, <2>3, StandsKept DEF Failed, Live, Started
  <1>. QED
    BY <1>2, <1>3

(* An answer or an end that was sent waits to be applied.                  *)
LEMMA StandsAwaits ==
    ASSUME TypeOK, FatesHold, RowsStand, NEW s \in Session,
           ThreadFails(s) \/ ThreadOpensShell(s) \/ SessionEnds(s),
           NEW c \in Connection
    PROVE  RowStands(c)'
  <1>1. /\ UNCHANGED <<conn, status, tab, write, read>>
        /\ \A p \in Session \ {s} : thr'[p] = thr[p] /\ events'[p] = events[p]
    BY DEF ThreadFails, ThreadOpensShell, SessionEnds, Sends, TypeOK, tasks
  <1>2. ~Failed(s) /\ events'[s] # <<>>
    <2>1. PICK e \in Event : Sends(s, e)
      BY DEF ThreadFails, ThreadOpensShell, SessionEnds, TypeOK, Event
    <2>2. events[s] \in Seq(Event) /\ events'[s] = Append(events[s], e)
      BY <2>1 DEF Sends, TypeOK, Event
    <2>3. thr[s] # "done"
      BY DEF ThreadFails, ThreadOpensShell, SessionEnds, Started
    <2>. QED
      BY <2>2, <2>3, HeadOfAppend DEF Failed
  <1>3. CASE conn[s] = c
    <2>. SUFFICES ASSUME status'[c] # "gone", NoneFailed(c)'
                  PROVE  /\ \A o \in Session :
                              conn'[o] = c /\ Live(o)' /\ tab'[o] = "Running"
                                /\ events'[o] = <<>>
                                  => status'[c] \in {"Connected", "Connecting"}
                         /\ ~Settled(s)'
      BY <1>1, <1>3 DEF RowStands
    <2>1. NoneFailed(c)
      BY <1>1, <1>2 DEF NoneFailed, Failed
    <2>. QED
      BY <1>1, <1>2, <2>1 DEF RowsStand, RowStands, Settled, Live
  <1>4. CASE conn[s] # c
    BY <1>1, <1>4, StandsKept DEF Failed, Live, Started
  <1>. QED
    BY <1>3, <1>4

(* Applying an event: an end that leaves the row alone leaves a tab that   *)
(* has a shell or owes the row an event.                                   *)
LEMMA StandsApplied ==
    ASSUME TypeOK, QueuesAreShaped, FatesHold, RowsStand, NEW s \in Session,
           Apply(s), NEW c \in Connection
    PROVE  RowStands(c)'
  <1>1. /\ UNCHANGED <<conn, thr, write, read>> /\ events[s] # <<>>
        /\ \A p \in Session \ {s} : tab'[p] = tab[p] /\ events'[p] = events[p]
        /\ \A d \in Connection \ {conn[s]} : status'[d] = status[d]
        /\ \A d \in Connection : status[d] = "gone" => status'[d] = "gone"
    BY DEF Apply, ApplyConnected, ApplyConnectFailed, ApplyEnded, Receives,
           WithStatus, TypeOK, tasks
  <1>2. CASE conn[s] # c
    BY <1>1, <1>2, StandsKept DEF Failed, Live, Started
  <1>3. CASE conn[s] = c
    <2>. SUFFICES ASSUME status'[c] # "gone", NoneFailed(c)'
                  PROVE  /\ \A o \in Session :
                              conn'[o] = c /\ Live(o)' /\ tab'[o] = "Running"
                                /\ events'[o] = <<>>
                                  => status'[c] \in {"Connected", "Connecting"}
                         /\ status'[c] = "Connected" =>
                              \E o \in Session :
                                 conn'[o] = c /\ (~Settled(o)' \/ Live(o)')
      BY DEF RowStands
    <2>1. status[c] # "gone" /\ NoneFailed(c) /\ RowStands(c)
      BY <1>1 DEF NoneFailed, Failed, RowsStand
    <2>2. QueueShape(s) /\ Fate(s) /\ ~Failed(s)
      BY <1>3, <2>1 DEF QueuesAreShaped, FatesHold, NoneFailed
    <2>3. CASE ApplyConnected(s)
      <3>1. status'[c] = "Connected"
        BY <1>3, <2>1, <2>3 DEF ApplyConnected, WithStatus, TypeOK
      <3>2. /\ events'[s] = Tail(events[s]) /\ Head(events[s]) = "Connected"
        BY <2>3 DEF ApplyConnected, Receives, TypeOK
      <3>3. events'[s] # <<>> \/ Live(s)
        <4>1. events[s] # <<"ConnectFailed">> /\ \A e \in Ends : events[s] # <<e>>
          BY <3>2, ShortQueues DEF Event, Ends
        <4>2. ASSUME NEW e \in Ends, events[s] = <<"Connected", e>>
              PROVE  events'[s] = <<e>>
          BY <3>2, <4>2, ShortQueues DEF Event
        <4>3. thr[s] \in {"live", "done"}
          BY <1>1, <2>2 DEF QueueShape, Started, TypeOK
        <4>. QED
          BY <1>1, <2>2, <4>1, <4>2, <4>3, EventsDiffer DEF QueueShape, Live
      <3>. QED
        BY <1>1, <1>3, <3>1, <3>3 DEF Settled, Live
    <2>4. CASE ApplyConnectFailed(s)
      <3>1. Head(events[s]) = "ConnectFailed"
        BY <2>4 DEF ApplyConnectFailed, Receives
      <3>2. /\ events[s] # <<"Connected">> /\ \A e \in Ends : events[s] # <<e>>
            /\ \A e \in Ends : events[s] # <<"Connected", e>>
        BY <3>1, ShortQueues DEF Event, Ends
      <3>3. events[s] = <<"ConnectFailed">>
        BY <1>1, <2>2, <3>2 DEF QueueShape, Started, TypeOK
      <3>. QED
        BY <2>2, <3>3 DEF Fate
    <2>5. ASSUME NEW end \in Ends, ApplyEnded(s, end),
                 ~HasOtherSession(s)
          PROVE  /\ \A o \in Session :
                      conn'[o] = c /\ Live(o)' /\ tab'[o] = "Running"
                        => FALSE
                 /\ status'[c] # "Connected"
      <3>1. ~Live(s)' /\ \A o \in Session \ {s} : conn[o] = c => tab[o] # "Running"
        BY <1>1, <1>3, <2>5, EndFacts DEF Live, HasOtherSession, Of
      <3>2. status'[c] # "Connected"
        BY <1>3, <2>5 DEF ApplyEnded, WithStatus, TypeOK
      <3>. QED
        BY <1>1, <3>1, <3>2
    <2>6. ASSUME NEW end \in Ends, ApplyEnded(s, end), HasOtherSession(s)
          PROVE  /\ \A o \in Session :
                      conn'[o] = c /\ Live(o)' /\ tab'[o] = "Running"
                        /\ events'[o] = <<>>
                          => status'[c] \in {"Connected", "Connecting"}
                 /\ \E o \in Session :
                      conn'[o] = c /\ (~Settled(o)' \/ Live(o)')
      <3>1. ~Live(s) /\ ~Live(s)' /\ status' = status
        BY <1>1, <2>6, EndFacts DEF Live, ApplyEnded
      <3>2. PICK o \in Session : conn[o] = c /\ o # s /\ tab[o] = "Running"
        BY <1>3, <2>6 DEF HasOtherSession, Of
      <3>3. ~Settled(o) \/ Live(o)
        <4>1. Fate(o) /\ ~Failed(o)
          BY <2>1, <3>2 DEF FatesHold, NoneFailed
        <4>. QED
          BY <3>2, <4>1 DEF Fate, Settled, Started, Live, TypeOK
      <3>4. ~Settled(o)' \/ Live(o)'
        BY <1>1, <3>2, <3>3 DEF Settled, Started, Live
      <3>. QED
        BY <1>1, <2>1, <3>1, <3>2, <3>4 DEF RowStands, Live
    <2>. QED
      BY <2>3, <2>4, <2>5, <2>6 DEF Apply
  <1>. QED
    BY <1>2, <1>3

LEMMA StandsStep ==
    TypeOK /\ QueuesAreShaped /\ FatesHold /\ RowsStand /\ [Next]_vars
        => RowsStand'
  <1>. SUFFICES ASSUME TypeOK, QueuesAreShaped, FatesHold, RowsStand,
                       [Next]_vars, NEW c \in Connection
                PROVE  RowStands(c)'
    BY DEF RowsStand
  <1>1. CASE \/ \E s \in Session :
                  CloseTab(s) \/ ReaderExits(s) \/ RemoteExits(s)
                    \/ TransportLost(s)
             \/ CloseAllSessions
             \/ \E d \in Connection : DeleteConnection(d)
             \/ UNCHANGED vars
    <2>1. /\ UNCHANGED <<conn, thr, events, write, read>>
          /\ \A s \in Session : tab'[s] = "Running" => tab[s] = "Running"
          /\ status'[c] = status[c] \/ status'[c] = "gone"
      BY <1>1
      DEF CloseTab, ReaderExits, RemoteExits, TransportLost, CloseAllSessions,
          DeleteConnection, vars, tasks, TypeOK
    <2>. QED
      BY <2>1, StandsKept DEF Failed, Live, Started
  <1>2. ASSUME NEW s \in Session,
               WriteSeesClose(s) \/ WriteFails(s) \/ ReadEnds(s)
        PROVE  RowStands(c)'
    <2>1. /\ UNCHANGED <<conn, thr, events, tab, status>>
          /\ \A o \in Session : Failed(o) => Failed(o)'
      BY <1>2
      DEF WriteSeesClose, WriteFails, ReadEnds, remote, TypeOK, Failed
    <2>. QED
      BY <2>1, StandsKept DEF Live, Started
  <1>3. ASSUME NEW s \in Session, ThreadConnects(s) PROVE RowStands(c)'
    <2>1. /\ UNCHANGED <<conn, events, tab, status, write, read>>
          /\ \A o \in Session : /\ Failed(o) => Failed(o)'
                                /\ Live(o)' = Live(o)
                                /\ Started(o)' = Started(o)
      BY <1>3 DEF ThreadConnects, tasks, TypeOK, Failed, Live, Started
    <2>. QED
      BY <2>1, StandsKept
  <1>. QED
    BY <1>1, <1>2, <1>3, StandsOpened, StandsAwaits, StandsApplied
    DEF Next, UserStep, ThreadStep

(* The row shared by any number of tabs, none of whose attempts failed, is *)
(* Connected once every event is applied only if one of them has a running *)
(* shell, and is while one of those is open (ssh.rs:254-328).              *)
THEOREM SharedRows == Spec => []RowIsTruthful
  <1>. DEFINE IInv == /\ TypeOK /\ AnswerComesFirst /\ ConnectingIsPending
                      /\ QueuesAreShaped /\ FatesHold /\ RowsStand
  <1>1. Init => IInv
    <2>1. Init => TypeOK
      BY DEF Init, TypeOK
    <2>2. Init => AnswerComesFirst /\ ConnectingIsPending /\ QueuesAreShaped
      BY DEF Init, AnswerComesFirst, ConnectingIsPending, QueuesAreShaped,
             QueueShape, Started
    <2>3. Init => FatesHold /\ RowsStand
      <3>1. ASSUME Init, NEW s \in Session
            PROVE  /\ thr[s] = "idle" /\ tab[s] = "none" /\ events[s] = <<>>
                   /\ write[s] = "run" /\ read[s] = "run"
        BY <3>1 DEF Init
      <3>2. ASSUME Init PROVE FatesHold
        BY <3>1, <3>2, EventsDiffer DEF FatesHold, Fate, Ends
      <3>3. ASSUME Init PROVE RowsStand
        BY <3>3 DEF Init, RowsStand, RowStands, Live
      <3>. QED
        BY <3>2, <3>3
    <2>. QED
      BY <2>1, <2>2, <2>3
  <1>2. IInv /\ [Next]_vars => IInv'
    BY TypeStep, AnswerStep, PendingStep, ShapeStep, FateStep, StandsStep
  <1>3. IInv => RowIsTruthful
    <2>. SUFFICES ASSUME IInv, NEW c \in Connection, status[c] # "gone",
                         \A s \in Of(c) : Settled(s) /\ ~Failed(s)
                  PROVE  /\ status[c] = "Connected" => \E s \in Of(c) : Live(s)
                         /\ (\E s \in Of(c) : Live(s) /\ tab[s] = "Running")
                              => status[c] = "Connected"
      BY DEF RowIsTruthful
    <2>1. RowStands(c) /\ NoneFailed(c)
      BY DEF RowsStand, NoneFailed, Of
    <2>2. status[c] # "Connecting"
      BY DEF ConnectingIsPending, Settled
    <2>. QED
      BY <2>1, <2>2 DEF RowStands, Of, Settled
  <1>. QED
    BY <1>1, <1>2, <1>3, PTL DEF Spec
=============================================================================
