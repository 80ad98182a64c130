----------------------------- MODULE SshSessions -----------------------------
(***************************************************************************)
(* The primary SSH terminals of shelldeck-ui/src/workspace/ssh.rs.  Every  *)
(* tab has a TerminalSession, a grid reader thread (shelldeck-terminal     *)
(* session.rs), a dedicated SSH thread that runs a write task and a read   *)
(* task, and a queue of lifecycle events that the Workspace applies one by *)
(* one.  All tabs of a connection share the status of its sidebar row.     *)
(*                                                                         *)
(* Left out: split panes (connect_ssh_split reports no lifecycle), bytes,  *)
(* resizing, a panic of a task, and the workspace being dropped.           *)
(***************************************************************************)
EXTENDS Naturals, Sequences

CONSTANTS Session, Connection

(* A session that was never opened is of no connection.                    *)
ASSUME NoneAssumption == "none" \notin Connection

VARIABLES
    conn,      \* the connection a session was opened for, or "none"
    tab,       \* what the tab strip shows of it; "closed" once dropped
    thr,       \* where its SSH thread is
    reader,    \* its grid reader thread runs; it holds a clone of input_tx
    eof,       \* the remote shell ended in good order
    lost,      \* the transport is gone
    write,     \* result of the write task, or "run"
    read,      \* result of the read task, or "run"
    events,    \* the lifecycle channel of the session
    status,    \* per connection: the status of its row, "gone" once deleted
    notified   \* sessions whose loss raised an OS notification

vars == <<conn, tab, thr, reader, eof, lost, write, read, events, status,
          notified>>
remote == <<eof, lost>>
tasks == <<write, read>>

Open == {"Running", "Exited", "Error"}
Ends == {"UserClosed", "CleanRemoteExit", "UnexpectedDisconnect"}
Started(s) == thr[s] \in {"connecting", "shell"}
Of(c) == {s \in Session : conn[s] = c}

(* The two ends of the session's channels.                                 *)
DataOpen(s) == Started(s) \/ (thr[s] = "live" /\ read[s] = "run")
InputOpen(s) == tab[s] \in Open \/ reader[s]

WithStatus(c, v) ==
    [status EXCEPT ![c] = IF @ = "gone" THEN @ ELSE v]
Sends(s, e) == events' = [events EXCEPT ![s] = Append(@, e)]

Init ==
    /\ conn = [s \in Session |-> "none"]
    /\ tab = [s \in Session |-> "none"]
    /\ thr = [s \in Session |-> "idle"]
    /\ reader = [s \in Session |-> FALSE]
    /\ eof = [s \in Session |-> FALSE]
    /\ lost = [s \in Session |-> FALSE]
    /\ write = [s \in Session |-> "run"]
    /\ read = [s \in Session |-> "run"]
    /\ events = [s \in Session |-> <<>>]
    /\ status = [c \in Connection |-> "Disconnected"]
    /\ notified = {}

-----------------------------------------------------------------------------
(* The user.                                                               *)

OpenTab(s, c) ==
    /\ thr[s] = "idle"
    /\ status[c] # "gone"
    /\ conn' = [conn EXCEPT ![s] = c]
    /\ tab' = [tab EXCEPT ![s] = "Running"]
    /\ reader' = [reader EXCEPT ![s] = TRUE]
    /\ UNCHANGED <<remote, tasks, events, notified>>

ConnectSsh(s, c) ==
    /\ OpenTab(s, c)
    /\ thr' = [thr EXCEPT ![s] = "connecting"]
    /\ status' = WithStatus(c, "Connecting")

(* The OS refuses the thread: its closure is dropped with data_tx.         *)
ConnectSshNoThread(s, c) ==
    /\ OpenTab(s, c)
    /\ thr' = [thr EXCEPT ![s] = "done"]
    /\ status' = WithStatus(c, "Error")

(* Dropping the TerminalSession drops its own sender, nothing else.        *)
CloseTab(s) ==
    /\ tab[s] \in Open
    /\ tab' = [tab EXCEPT ![s] = "closed"]
    /\ UNCHANGED <<conn, thr, reader, remote, tasks, events, status, notified>>

CloseAllSessions ==
    /\ \E s \in Session : tab[s] \in Open
    /\ tab' = [s \in Session |-> IF tab[s] \in Open THEN "closed" ELSE tab[s]]
    /\ UNCHANGED <<conn, thr, reader, remote, tasks, events, status, notified>>

DeleteConnection(c) ==
    /\ status[c] # "gone"
    /\ status' = [status EXCEPT ![c] = "gone"]
    /\ UNCHANGED <<conn, tab, thr, reader, remote, tasks, events, notified>>

-----------------------------------------------------------------------------
(* The SSH thread of a session and its two tasks.                          *)

ThreadConnects(s) ==
    /\ thr[s] = "connecting"
    /\ thr' = [thr EXCEPT ![s] = "shell"]
    /\ UNCHANGED <<conn, tab, reader, remote, tasks, events, status, notified>>

(* As it would be if a refused shell were only logged.                     *)
ThreadFailsFaultSilentShell(s) ==
    /\ Started(s)
    /\ thr' = [thr EXCEPT ![s] = "done"]
    /\ IF thr[s] = "connecting" THEN Sends(s, "ConnectFailed")
                                ELSE UNCHANGED events
    /\ UNCHANGED <<conn, tab, reader, remote, tasks, status, notified>>

(* No runtime, no connection or no shell: one event, and the thread ends.  *)
ThreadFails(s) ==
    /\ Started(s)
    /\ thr' = [thr EXCEPT ![s] = "done"]
    /\ Sends(s, "ConnectFailed")
    /\ UNCHANGED <<conn, tab, reader, remote, tasks, status, notified>>

ThreadOpensShell(s) ==
    /\ thr[s] = "shell"
    /\ thr' = [thr EXCEPT ![s] = "live"]
    /\ Sends(s, "Connected")
    /\ UNCHANGED <<conn, tab, reader, remote, tasks, status, notified>>

RemoteExits(s) ==
    /\ thr[s] = "live" /\ ~eof[s] /\ ~lost[s]
    /\ eof' = [eof EXCEPT ![s] = TRUE]
    /\ UNCHANGED <<conn, tab, thr, reader, lost, tasks, events, status, notified>>

TransportLost(s) ==
    /\ thr[s] = "live" /\ ~lost[s]
    /\ lost' = [lost EXCEPT ![s] = TRUE]
    /\ UNCHANGED <<conn, tab, thr, reader, eof, tasks, events, status, notified>>

(* input_rx.recv() returns None only when the last sender is gone.         *)
WriteSeesClose(s) ==
    /\ thr[s] = "live" /\ write[s] = "run" /\ ~InputOpen(s)
    /\ write' = [write EXCEPT ![s] = "UserClosed"]
    /\ UNCHANGED <<conn, tab, thr, reader, remote, read, events, status, notified>>

(* Pending input (or the tmux command) cannot be written any more.         *)
WriteFails(s) ==
    /\ thr[s] = "live" /\ write[s] = "run" /\ lost[s]
    /\ write' = [write EXCEPT ![s] = "UnexpectedDisconnect"]
    /\ UNCHANGED <<conn, tab, thr, reader, remote, read, events, status, notified>>

(* As it would be if the end of the channel counted as a loss.             *)
ReadEndsFaultNoExit(s) ==
    /\ thr[s] = "live" /\ read[s] = "run" /\ (eof[s] \/ lost[s])
    /\ read' = [read EXCEPT ![s] = "UnexpectedDisconnect"]
    /\ UNCHANGED <<conn, tab, thr, reader, remote, write, events, status, notified>>

(* The channel delivers its messages in order: an end that was received    *)
(* comes before the loss.  data_tx.send never fails, because the reader    *)
(* thread lives as long as this task holds data_tx.                        *)
ReadEnds(s) ==
    /\ thr[s] = "live" /\ read[s] = "run" /\ (eof[s] \/ lost[s])
    /\ read' = [read EXCEPT ![s] = IF eof[s] THEN "CleanRemoteExit"
                                             ELSE "UnexpectedDisconnect"]
    /\ UNCHANGED <<conn, tab, thr, reader, remote, write, events, status, notified>>

(* As it would be if only the write task were awaited.                     *)
SessionEndsFaultWriteOnly(s) ==
    /\ thr[s] = "live" /\ write[s] # "run"
    /\ thr' = [thr EXCEPT ![s] = "done"]
    /\ Sends(s, write[s])
    /\ UNCHANGED <<conn, tab, reader, remote, tasks, status, notified>>

(* The biased select: the write task's result first.                       *)
SessionEnds(s) ==
    /\ thr[s] = "live" /\ <<write[s], read[s]>> # <<"run", "run">>
    /\ thr' = [thr EXCEPT ![s] = "done"]
    /\ Sends(s, IF write[s] # "run" THEN write[s] ELSE read[s])
    /\ UNCHANGED <<conn, tab, reader, remote, tasks, status, notified>>

ReaderExits(s) ==
    /\ reader[s] /\ ~DataOpen(s)
    /\ reader' = [reader EXCEPT ![s] = FALSE]
    /\ UNCHANGED <<conn, tab, thr, remote, tasks, events, status, notified>>

-----------------------------------------------------------------------------
(* The Workspace applies the lifecycle events on its foreground executor.  *)

Receives(s, e) ==
    /\ events[s] # <<>> /\ Head(events[s]) = e
    /\ events' = [events EXCEPT ![s] = Tail(@)]

ApplyConnected(s) ==
    /\ Receives(s, "Connected")
    /\ status' = WithStatus(conn[s], "Connected")
    /\ UNCHANGED <<conn, tab, thr, reader, remote, tasks, notified>>

ApplyConnectFailed(s) ==
    /\ Receives(s, "ConnectFailed")
    /\ status' = WithStatus(conn[s], "Error")
    /\ UNCHANGED <<conn, tab, thr, reader, remote, tasks, notified>>

TabAfter(s, end) ==
    IF end = "UserClosed" \/ tab[s] \notin Open THEN tab[s]
    ELSE IF end = "CleanRemoteExit" THEN "Exited" ELSE "Error"

(* As it would be if tabs of the connection were not looked at.            *)
HasOtherSessionFaultNone(s) == FALSE

(* Any tab of the connection that still says Running counts, whatever its  *)
(* thread does.                                                            *)
HasOtherSession(s) ==
    \E o \in Of(conn[s]) : o # s /\ tab[o] = "Running"

(* As it would be if the row were only updated along with the tab.         *)
ApplyEndedFaultTabOnly(s, end) ==
    /\ Receives(s, end)
    /\ tab' = [tab EXCEPT ![s] = TabAfter(s, end)]
    /\ status' =
         IF HasOtherSession(s) \/ end = "UserClosed" THEN status
         ELSE WithStatus(conn[s], IF end = "UnexpectedDisconnect"
                                  THEN "Error" ELSE "Disconnected")
    /\ notified' = IF end = "UnexpectedDisconnect" THEN notified \cup {s}
                                                  ELSE notified
    /\ UNCHANGED <<conn, thr, reader, remote, tasks>>

ApplyEnded(s, end) ==
    /\ Receives(s, end)
    /\ tab' = [tab EXCEPT ![s] = TabAfter(s, end)]
    /\ status' =
         IF HasOtherSession(s) THEN status
         ELSE WithStatus(conn[s], IF end = "UnexpectedDisconnect"
                                  THEN "Error" ELSE "Disconnected")
    /\ notified' = IF end = "UnexpectedDisconnect" THEN notified \cup {s}
                                                  ELSE notified
    /\ UNCHANGED <<conn, thr, reader, remote, tasks>>

-----------------------------------------------------------------------------
UserStep ==
    \/ \E s \in Session, c \in Connection :
         ConnectSsh(s, c) \/ ConnectSshNoThread(s, c)
    \/ \E s \in Session : CloseTab(s)
    \/ CloseAllSessions
    \/ \E c \in Connection : DeleteConnection(c)

ThreadStep(s) ==
    \/ ThreadConnects(s) \/ ThreadFails(s) \/ ThreadOpensShell(s)
    \/ WriteSeesClose(s) \/ ReadEnds(s) \/ SessionEnds(s)

Apply(s) ==
    \/ ApplyConnected(s) \/ ApplyConnectFailed(s)
    \/ \E end \in Ends : ApplyEnded(s, end)

Next ==
    \/ UserStep
    \/ \E s \in Session :
         \/ ThreadStep(s) \/ WriteFails(s) \/ ReaderExits(s) \/ Apply(s)
         \/ RemoteExits(s) \/ TransportLost(s)

Spec == Init /\ [][Next]_vars

(* Threads and the executor run; a connection attempt ends (russh gives up *)
(* on a silent peer, client.rs:20).  The user, the remote shell and the    *)
(* network owe nothing.                                                    *)
Fairness ==
    \A s \in Session : /\ WF_vars(ThreadStep(s))
                       /\ WF_vars(ReaderExits(s))
                       /\ WF_vars(Apply(s))

FairSpec == Spec /\ Fairness

-----------------------------------------------------------------------------
(* Every variable has its kind.                                            *)
TypeOK ==
    /\ conn \in [Session -> Connection \cup {"none"}]
    /\ tab \in [Session -> Open \cup {"none", "closed"}]
    /\ thr \in [Session -> {"idle", "connecting", "shell", "live", "done"}]
    /\ reader \in [Session -> BOOLEAN]
    /\ eof \in [Session -> BOOLEAN]
    /\ lost \in [Session -> BOOLEAN]
    /\ write \in [Session -> Ends \cup {"run"}]
    /\ read \in [Session -> Ends \cup {"run"}]
    /\ events \in [Session -> Seq(Ends \cup {"Connected", "ConnectFailed"})]
    /\ status \in [Connection -> {"Disconnected", "Connecting", "Connected",
                                  "Error", "gone"}]
    /\ notified \in SUBSET Session

(* A row says Connecting only while an attempt of one of its tabs is under *)
(* way or its answer waits to be applied, in whatever order the answers of *)
(* several tabs come (ssh.rs:94, 257-275).                                 *)
ConnectingIsPending ==
    \A c \in Connection : status[c] = "Connecting" =>
        \E s \in Of(c) :
            Started(s) \/ (events[s] # <<>> /\ Head(events[s]) \notin Ends)

Settled(s) == ~Started(s) /\ events[s] = <<>>

(* The row of a connection that one tab was opened for says Connected      *)
(* exactly while that tab's shell runs, once its events are applied: over  *)
(* failures, exits, losses and closed tabs alike (ssh.rs:254-328).         *)
SoleTabIsTruthful ==
    \A s \in Session : conn[s] \in Connection =>
        ((Of(conn[s]) = {s} /\ Settled(s) /\ status[conn[s]] # "gone")
        => (status[conn[s]] = "Connected" <=> thr[s] = "live"))

(* A notification means that the transport was really lost: an orderly     *)
(* exit alone, or a closed tab, never raises one (ssh.rs:23-27, 320-325).  *)
NotifiesOnlyLostLinks == \A s \in notified : lost[s]

Live(s) == thr[s] = "live"

(* An attempt that never had a shell.                                      *)
Failed(s) == thr[s] = "done" /\ <<write[s], read[s]>> = <<"run", "run">>

(* However many tabs share a row, and in whatever order they connect, are  *)
(* closed, exit and lose their links: once every event is applied, the row *)
(* says Connected only if one of them has a running shell, and does say so *)
(* while one of those is still open (ssh.rs:254-328).  Not so with a       *)
(* failed attempt among them: see the two properties at the end.           *)
RowIsTruthful ==
    \A c \in Connection :
        (status[c] # "gone" /\ \A s \in Of(c) : Settled(s) /\ ~Failed(s)) =>
            /\ status[c] = "Connected" => \E s \in Of(c) : Live(s)
            /\ (\E s \in Of(c) : Live(s) /\ tab[s] = "Running")
                 => status[c] = "Connected"

(* Every attempt is answered: the row leaves Connecting (ssh.rs:103-152).  *)
ConnectingResolves ==
    \A c \in Connection :
        status[c] = "Connecting" ~> status[c] # "Connecting"

(* A tab whose transport is lost stops saying Running, through whichever   *)
(* of the two tasks notices first (ssh.rs:215-229, 271-302).               *)
LostSessionIsShown ==
    \A s \in Session : lost[s] ~> tab[s] # "Running"

(* The documented end of a tab: closing it ends its SSH session.  VIOLATED:*)
(* the grid reader thread keeps a sender of the input channel and waits    *)
(* for the read task, so neither task ever sees the close.                 *)
ClosedTabEndsSession ==
    \A s \in Session : tab[s] = "closed" ~> thr[s] = "done"

(* The documented effect of a loss: once every event is applied, a row     *)
(* with no running shell is not Connected.  VIOLATED: the tab of a failed  *)
(* attempt still says Running and counts as another session.               *)
LostConnectionLeavesActive ==
    \A c \in Connection :
        status[c] = "Connected" =>
            \E s \in Of(c) : thr[s] = "live" \/ events[s] # <<>>

(* The documented sharing of the row: when nothing is under way, a         *)
(* connection with a live tab says Connected.  VIOLATED: a second attempt  *)
(* that fails sets Error over it.                                          *)
LiveTabKeepsConnected ==
    \A c \in Connection :
        /\ status[c] # "gone"
        /\ \A s \in Of(c) : Settled(s)
        /\ \E s \in Of(c) : tab[s] = "Running" /\ thr[s] = "live"
        => status[c] = "Connected"
=============================================================================
