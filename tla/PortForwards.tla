----------------------------- MODULE PortForwards -----------------------------
(***************************************************************************)
(* Port forwards of the workspace: the UI handler of start, stop and edit   *)
(* events (workspace/forwards.rs), the thread each start spawns, the tunnel *)
(* task running on that thread's own runtime (shelldeck-ssh/src/tunnel.rs), *)
(* the waiter that brings the outcome back to the UI within 30 seconds, and *)
(* the account boundary that drains the tunnels (workspace/navigation.rs).  *)
(*                                                                         *)
(* Every start is an attempt of its own: attempt a owns one thread, one SSH *)
(* session, one result channel, one waiter and at most one tunnel task.     *)
(***************************************************************************)
EXTENDS Integers, FiniteSets

CONSTANTS
  Forwards,       \* the forwards listed in the view
  RemoteForwards, \* those whose direction is RemoteToLocal
  LocalPort,      \* LocalPort[f]: the local port of a forward
  Attempts,       \* the starts a behaviour may contain
  MaxConns,       \* bound: connections a tunnel serves at once
  MaxAccounts,    \* bound: sign-ins after the first one
  None            \* no attempt, no forward

ASSUME PortForwardsAssumption ==
  /\ RemoteForwards \subseteq Forwards
  /\ DOMAIN LocalPort = Forwards
  /\ None \notin Attempts /\ None \notin Forwards
  /\ MaxConns \in Nat /\ MaxAccounts \in Nat

VARIABLES
  signedIn,  \* an account with access to Dev mode is signed in
  account,   \* which one (a counter: no two sign-ins are the same account)
  status,    \* status[f]: ForwardStatus in the view, "unlisted" once removed
  active,    \* active[f]: the attempt whose handle active_tunnels holds, or None
  fwd,       \* fwd[a]: the forward attempt a was started for
  born,      \* born[a]: history: the account that started attempt a
  thr,       \* thr[a]: the dedicated thread
  ssh,       \* ssh[a]: the thread's SSH session is connected
  mail,      \* mail[a]: the result channel
  waiter,    \* waiter[a]: the UI task waiting for the result
  task,      \* task[a]: the tunnel task on the thread's runtime
  tstat,     \* tstat[a]: TunnelStatus shared through the handle
  conns      \* conns[a]: connection tasks in the tunnel's JoinSet

uiVars   == <<signedIn, account, status, active>>
startVars == <<fwd, born>>
taskVars == <<task, tstat, conns>>
vars == <<uiVars, startVars, thr, ssh, mail, waiter, taskVars>>

Listed(f) == status[f] # "unlisted"

\* Every status update looks the forward up first: none if it is not listed.
StatusWith(f, s) == [status EXCEPT ![f] = IF @ = "unlisted" THEN @ ELSE s]

\* Faulty variants, used by no action, are named ...Fault...: each is a mistake
\* this code could have made, and the checks show which property notices it.
\* Fault: the map's handle does not carry the sender the thread listens to.
HandleHeldFaultTransitOnly(a) == mail[a] = "ok" \/ waiter[a] = "ok"

\* Fault: the thread keeps a clone of the sender, so only a stop wakes it.
HandleHeldFaultClone(a) == waiter[a] # "applied" \/ \E f \in Forwards : active[f] = a

\* Somebody still holds the proxy handle, so the thread's shutdown channel is
\* open and unsignalled.  stop() is always followed by the handle's drop: both
\* wake the thread.
HandleHeld(a) == \/ mail[a] = "ok"
                 \/ waiter[a] = "ok"
                 \/ \E f \in Forwards : active[f] = a

IsRemote(a) == fwd[a] \in RemoteForwards

\* The listener lives until its task ends: a draining one holds the port too.
HoldsPort(a) == task[a] \in {"listening", "draining"} /\ ~IsRemote(a)
PortTakenFor(a) ==
  \E b \in Attempts \ {a} : HoldsPort(b) /\ LocalPort[fwd[b]] = LocalPort[fwd[a]]

Init ==
  /\ signedIn \in BOOLEAN
  /\ account = 0
  /\ status = [f \in Forwards |-> "inactive"]
  /\ active = [f \in Forwards |-> None]
  /\ fwd = [a \in Attempts |-> None]
  /\ born = [a \in Attempts |-> 0]
  /\ thr = [a \in Attempts |-> "idle"]
  /\ ssh = [a \in Attempts |-> FALSE]
  /\ mail = [a \in Attempts |-> "none"]
  /\ waiter = [a \in Attempts |-> "none"]
  /\ task = [a \in Attempts |-> "none"]
  /\ tstat = [a \in Attempts |-> "none"]
  /\ conns = [a \in Attempts |-> 0]

-----------------------------------------------------------------------------
(* The UI thread: one event handler at a time.                              *)

\* The handler runs for a listed forward without a tracked tunnel; a start
\* still under way does not stop it.
MayStart(f) == signedIn /\ Listed(f) /\ active[f] = None

StartForward(f, a) ==
  /\ MayStart(f)
  /\ thr[a] = "idle"
  /\ status' = StatusWith(f, "active")
  /\ fwd' = [fwd EXCEPT ![a] = f]
  /\ born' = [born EXCEPT ![a] = account]
  /\ thr' = [thr EXCEPT ![a] = "connecting"]
  /\ waiter' = [waiter EXCEPT ![a] = "waiting"]
  /\ UNCHANGED <<signedIn, account, active, ssh, mail, taskVars>>

\* The connection is no longer known, or the thread cannot be spawned.
StartImpossible(f) ==
  /\ MayStart(f)
  /\ status' = StatusWith(f, "error")
  /\ UNCHANGED <<signedIn, account, active, startVars, thr, ssh, mail, waiter, taskVars>>

\* The view offers Stop exactly when the forward is shown Active.  Stop removes
\* the handle, signals it and drops it; with no handle it only resets the status.
StopForward(f) ==
  /\ signedIn
  /\ status[f] = "active"
  /\ active' = [active EXCEPT ![f] = None]
  /\ status' = StatusWith(f, "inactive")
  /\ UNCHANGED <<signedIn, account, startVars, thr, ssh, mail, waiter, taskVars>>

\* Saving the edit form replaces the listed forward by a freshly built one.
EditForward(f) ==
  /\ signedIn
  /\ status' = StatusWith(f, "inactive")
  /\ UNCHANGED <<signedIn, account, active, startVars, thr, ssh, mail, waiter, taskVars>>

\* Deleting the connection drops its forwards from the view, nothing else.
DeleteConnection(f) ==
  /\ signedIn
  /\ Listed(f)
  /\ status' = [status EXCEPT ![f] = "unlisted"]
  /\ UNCHANGED <<signedIn, account, active, startVars, thr, ssh, mail, waiter, taskVars>>

\* stop_authenticated_runtime, on logout or when the session is invalidated.
Logout ==
  /\ signedIn
  /\ signedIn' = FALSE
  /\ active' = [f \in Forwards |-> None]
  /\ UNCHANGED <<account, status, startVars, thr, ssh, mail, waiter, taskVars>>

Login ==
  /\ ~signedIn
  /\ account < MaxAccounts
  /\ signedIn' = TRUE
  /\ account' = account + 1
  /\ UNCHANGED <<status, active, startVars, thr, ssh, mail, waiter, taskVars>>

-----------------------------------------------------------------------------
(* The waiter: recv_timeout on a background executor, then a UI update.     *)

RecvResult(a) ==
  /\ waiter[a] = "waiting"
  /\ mail[a] # "none"
  /\ waiter' = [waiter EXCEPT ![a] = mail[a]]
  /\ mail' = [mail EXCEPT ![a] = "none"]
  /\ UNCHANGED <<uiVars, startVars, thr, ssh, taskVars>>

\* The receiver is dropped with whatever arrived too late.
TimeoutFires(a) ==
  /\ waiter[a] = "waiting"
  /\ waiter' = [waiter EXCEPT ![a] = "timeout"]
  /\ mail' = [mail EXCEPT ![a] = "none"]
  /\ UNCHANGED <<uiVars, startVars, thr, ssh, taskVars>>

\* Fault: an answer later than the timeout is still applied.
ApplyOkFaultLate(a) ==
  /\ waiter[a] \in {"ok", "timeout"} /\ thr[a] = "parked"
  /\ waiter' = [waiter EXCEPT ![a] = "applied"]
  /\ active' = [active EXCEPT ![fwd[a]] = a]
  /\ status' = StatusWith(fwd[a], "active")
  /\ UNCHANGED <<signedIn, account, startVars, thr, ssh, mail, taskVars>>

\* The insert drops a handle already held for the same forward.
ApplyOk(a) ==
  /\ waiter[a] = "ok"
  /\ waiter' = [waiter EXCEPT ![a] = "applied"]
  /\ active' = [active EXCEPT ![fwd[a]] = a]
  /\ status' = StatusWith(fwd[a], "active")
  /\ UNCHANGED <<signedIn, account, startVars, thr, ssh, mail, taskVars>>

\* Fault: a disconnected or timed-out receive is ignored.
ApplyFailureFaultErrOnly(a) ==
  /\ waiter[a] = "err"
  /\ waiter' = [waiter EXCEPT ![a] = "failed"]
  /\ status' = StatusWith(fwd[a], "error")
  /\ UNCHANGED <<signedIn, account, active, startVars, thr, ssh, mail, taskVars>>

ApplyFailure(a) ==
  /\ waiter[a] \in {"err", "timeout"}
  /\ waiter' = [waiter EXCEPT ![a] = "failed"]
  /\ status' = StatusWith(fwd[a], "error")
  /\ UNCHANGED <<signedIn, account, active, startVars, thr, ssh, mail, taskVars>>

-----------------------------------------------------------------------------
(* The dedicated thread.                                                    *)

\* A send reaches the channel only while the receiver is alive.
MailWith(a, m) == [mail EXCEPT ![a] = IF waiter[a] = "waiting" THEN m ELSE @]

ThreadConnects(a) ==
  /\ thr[a] = "connecting"
  /\ thr' = [thr EXCEPT ![a] = "connected"]
  /\ ssh' = [ssh EXCEPT ![a] = TRUE]
  /\ UNCHANGED <<uiVars, startVars, mail, waiter, taskVars>>

\* No runtime, no SSH session, the local port taken (by a tunnel or by another
\* program) or the remote bind refused: the error is sent and the thread ends.
ThreadFails(a) ==
  /\ thr[a] \in {"connecting", "connected"}
  /\ thr' = [thr EXCEPT ![a] = "exited"]
  /\ ssh' = [ssh EXCEPT ![a] = FALSE]
  /\ mail' = MailWith(a, "err")
  /\ UNCHANGED <<uiVars, startVars, waiter, taskVars>>

\* start_*_forward returns before its task has run: the handle is created with
\* status Active, sent, and the thread parks on the shutdown channel.
ThreadStartsTunnel(a) ==
  /\ thr[a] = "connected"
  /\ IF IsRemote(a) THEN ssh[a] ELSE ~PortTakenFor(a)
  /\ thr' = [thr EXCEPT ![a] = "parked"]
  /\ task' = [task EXCEPT ![a] = "spawned"]
  /\ tstat' = [tstat EXCEPT ![a] = "active"]
  /\ mail' = MailWith(a, "ok")
  /\ UNCHANGED <<uiVars, startVars, ssh, waiter, conns>>

\* Signalled, or the last handle is gone: stop_all, then 100 ms of grace.
ThreadWakes(a) ==
  /\ thr[a] = "parked"
  /\ ~HandleHeld(a)
  /\ thr' = [thr EXCEPT ![a] = "grace"]
  /\ UNCHANGED <<uiVars, startVars, ssh, mail, waiter, taskVars>>

\* Fault: the tasks of the runtime outlive it.
GraceEndsFaultLeavesTasks(a) ==
  /\ thr[a] = "grace"
  /\ thr' = [thr EXCEPT ![a] = "exited"]
  /\ ssh' = [ssh EXCEPT ![a] = FALSE]
  /\ UNCHANGED <<uiVars, startVars, mail, waiter, taskVars>>

\* The runtime is dropped with every task still on it, the session with it.
GraceEnds(a) ==
  /\ thr[a] = "grace"
  /\ thr' = [thr EXCEPT ![a] = "exited"]
  /\ ssh' = [ssh EXCEPT ![a] = FALSE]
  /\ task' = [task EXCEPT ![a] = "ended"]
  /\ conns' = [conns EXCEPT ![a] = 0]
  /\ UNCHANGED <<uiVars, startVars, mail, waiter, tstat>>

SessionLost(a) ==
  /\ ssh[a]
  /\ ssh' = [ssh EXCEPT ![a] = FALSE]
  /\ UNCHANGED <<uiVars, startVars, thr, mail, waiter, taskVars>>

-----------------------------------------------------------------------------
(* The tunnel task.  It runs while the thread drives the runtime.           *)

Driven(a) == thr[a] \in {"parked", "grace"}

TaskBinds(a) ==
  /\ task[a] = "spawned" /\ Driven(a)
  /\ IsRemote(a) \/ ~PortTakenFor(a)
  /\ task' = [task EXCEPT ![a] = "listening"]
  /\ UNCHANGED <<uiVars, startVars, thr, ssh, mail, waiter, tstat, conns>>

\* The port was free when it was checked and is taken when it is bound.
TaskBindFails(a) ==
  /\ task[a] = "spawned" /\ Driven(a) /\ ~IsRemote(a)
  /\ task' = [task EXCEPT ![a] = "ended"]
  /\ tstat' = [tstat EXCEPT ![a] = "error"]
  /\ UNCHANGED <<uiVars, startVars, thr, ssh, mail, waiter, conns>>

\* A connection is accepted, or a forwarded channel arrives.
ConnAccept(a) ==
  /\ task[a] = "listening" /\ Driven(a)
  /\ conns[a] < MaxConns
  /\ conns' = [conns EXCEPT ![a] = @ + 1]
  /\ UNCHANGED <<uiVars, startVars, thr, ssh, mail, waiter, task, tstat>>

\* A connection task ends by itself, or was aborted while draining.
ConnEnds(a) ==
  /\ task[a] \in {"listening", "draining"} /\ Driven(a)
  /\ conns[a] > 0
  /\ conns' = [conns EXCEPT ![a] = @ - 1]
  /\ UNCHANGED <<uiVars, startVars, thr, ssh, mail, waiter, task, tstat>>

\* Shutdown received, or the event channel of a remote forward is closed.
TaskStops(a) ==
  /\ task[a] = "listening" /\ Driven(a)
  /\ thr[a] = "grace" \/ (IsRemote(a) /\ ~ssh[a])
  /\ task' = [task EXCEPT ![a] = "draining"]
  /\ UNCHANGED <<uiVars, startVars, thr, ssh, mail, waiter, tstat, conns>>

TaskDrained(a) ==
  /\ task[a] = "draining" /\ Driven(a)
  /\ conns[a] = 0
  /\ task' = [task EXCEPT ![a] = "ended"]
  /\ tstat' = [tstat EXCEPT ![a] = "stopped"]
  /\ UNCHANGED <<uiVars, startVars, thr, ssh, mail, waiter, conns>>

-----------------------------------------------------------------------------
UIStep == \/ \E f \in Forwards : \/ \E a \in Attempts : StartForward(f, a)
                                 \/ StartImpossible(f)
                                 \/ StopForward(f)
                                 \/ EditForward(f)
                                 \/ DeleteConnection(f)
          \/ Logout
          \/ Login

WaiterStep(a) == RecvResult(a) \/ TimeoutFires(a) \/ ApplyOk(a) \/ ApplyFailure(a)

ThreadStep(a) == \/ ThreadConnects(a)
                 \/ ThreadFails(a)
                 \/ ThreadStartsTunnel(a)
                 \/ ThreadWakes(a)
                 \/ GraceEnds(a)

TaskStep(a) == \/ TaskBinds(a)
               \/ TaskBindFails(a)
               \/ ConnAccept(a)
               \/ ConnEnds(a)
               \/ TaskStops(a)
               \/ TaskDrained(a)

AttemptStep(a) == WaiterStep(a) \/ ThreadStep(a) \/ SessionLost(a) \/ TaskStep(a)

Next == UIStep \/ (\E a \in Attempts : AttemptStep(a))

Spec == Init /\ [][Next]_vars

\* The executor polls the waiter and its timer; the OS runs the thread, and the
\* SSH and TCP timeouts end a connect that hangs.  The user owes nothing, and no
\* step of the tunnel task is needed for a released attempt to go away.
Fairness == \A a \in Attempts : WF_vars(WaiterStep(a)) /\ WF_vars(ThreadStep(a))

FairSpec == Spec /\ Fairness

-----------------------------------------------------------------------------
(* Properties                                                               *)

\* Every variable has its type; the JoinSet is never joined below zero.
TypeOK ==
  /\ signedIn \in BOOLEAN
  /\ account \in 0..MaxAccounts
  /\ status \in [Forwards -> {"inactive", "active", "error", "unlisted"}]
  /\ active \in [Forwards -> Attempts \cup {None}]
  /\ fwd \in [Attempts -> Forwards \cup {None}]
  /\ born \in [Attempts -> 0..MaxAccounts]
  /\ thr \in [Attempts ->
       {"idle", "connecting", "connected", "parked", "grace", "exited"}]
  /\ ssh \in [Attempts -> BOOLEAN]
  /\ mail \in [Attempts -> {"none", "ok", "err"}]
  /\ waiter \in [Attempts ->
       {"none", "waiting", "ok", "err", "timeout", "applied", "failed"}]
  /\ task \in [Attempts -> {"none", "spawned", "listening", "draining", "ended"}]
  /\ tstat \in [Attempts -> {"none", "active", "error", "stopped"}]
  /\ conns \in [Attempts -> 0..MaxConns]

\* A tunnel the workspace tracks can be stopped: its handle belongs to that
\* forward's own attempt, whose thread is parked on the shutdown channel, and
\* its outcome is applied, so removing the handle leaves no second owner
\* (active_tunnels in forwards.rs against the parked thread).
TrackedStoppable ==
  \A f \in Forwards, a \in Attempts :
    active[f] = a => fwd[a] = f /\ thr[a] = "parked" /\ waiter[a] = "applied"

\* A handle on its way to the UI is held in one place and keeps a parked thread
\* alive: a thread never wakes under a handle that is about to be tracked.
HandleInTransit ==
  \A a \in Attempts :
    mail[a] = "ok" \/ waiter[a] = "ok" =>
      /\ thr[a] = "parked"
      /\ ~(mail[a] = "ok" /\ waiter[a] = "ok")
      /\ \A f \in Forwards : active[f] # a

\* A task that listens or drains, and a connection it accepted, is always driven
\* by its thread: no port and no connection outlives the thread that could end it
\* (the runtime's drop in the tunnel thread, whatever the task had come to).
ListenerIsDriven ==
  \A a \in Attempts :
    task[a] \in {"spawned", "listening", "draining"} \/ conns[a] > 0 => Driven(a)

\* Every start gets its answer in the view, whatever the network does.
EveryStartSettles ==
  \A a \in Attempts : waiter[a] = "waiting" ~> waiter[a] \in {"applied", "failed"}

\* A tunnel the workspace let go of, by Stop, by a logout, or because a second
\* start of the same forward took its place in the map, ends for good, with its
\* port and the connections it was serving, whatever its task was doing.
ReleasedTunnelCloses ==
  \A a \in Attempts :
    waiter[a] = "applied" /\ ~HandleHeld(a)
      ~> [](thr[a] = "exited" /\ ~HoldsPort(a) /\ conns[a] = 0)

\* A start given up after 30 seconds may still succeed on its thread; it must
\* not keep the local port for good.
TimedOutStartFreesPort ==
  \A a \in Attempts : waiter[a] = "timeout" ~> [](thr[a] = "exited" /\ ~HoldsPort(a))

-----------------------------------------------------------------------------
(* The promise, as an abstract specification.                               *)

Phase(a) ==
  IF thr[a] = "idle" THEN "unused"
  ELSE IF thr[a] = "exited" THEN "gone"
  ELSE IF \E f \in Forwards : active[f] = a THEN "open"
  ELSE IF waiter[a] \in {"waiting", "ok"} THEN "pending"
  ELSE "closing"

\* The threads, channels and timers implement TunnelLifecycle: one owner at a
\* time, a released attempt is never owned again, and it goes away.
Lifecycle == INSTANCE TunnelLifecycle
               WITH phase <- [a \in Attempts |-> Phase(a)], owner <- active

ImplementsLifecycle == Lifecycle!Spec

-----------------------------------------------------------------------------
(* What the documents say and the code does not do.                         *)

\* Logout stops tunnels "so runtime authority cannot cross an account boundary":
\* a tracked tunnel was started by the account signed in now.
NoTunnelCrossesAccount ==
  \A f \in Forwards : active[f] # None => signedIn /\ born[active[f]] = account

\* "Tunnels with visual status": a tracked tunnel of a listed forward is shown
\* Active, which is also what makes the view offer Stop for it.
TrackedIsShown ==
  \A f \in Forwards : active[f] # None /\ Listed(f) => status[f] = "active"

\* The same for the listener: a tracked tunnel whose session stands is served by
\* its task.  The port is checked before the tunnel is reported started and bound
\* afterwards, and a task that finds it taken ends unseen.
TrackedServes ==
  \A f \in Forwards, a \in Attempts :
    active[f] = a /\ ssh[a] => task[a] # "ended"
=============================================================================
