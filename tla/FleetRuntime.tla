----------------------------- MODULE FleetRuntime -----------------------------
(***************************************************************************)
(* This machine as a runtime of the Monique fleet (workspace/fleet.rs, and   *)
(* runtime_tick and execute_job of monique_fleet.rs).                        *)
(*                                                                         *)
(* While the runtime is enabled and the user signed in, a loop on the UI     *)
(* thread sends one request after the other to a background thread: it       *)
(* registers the machine, then ticks.  A tick claims a pending job and, when *)
(* the instance is autonomous, executes it; otherwise the job waits for a    *)
(* click.  An approved job is executed by a task of its own, which nothing   *)
(* cancels; dropping the loop discards the answer of its tick but does not   *)
(* stop the thread that runs it.                                             *)
(***************************************************************************)
EXTENDS Integers, FiniteSets

CONSTANTS
  Jobs,        \* the jobs filed for this machine
  Workers,     \* bound: background executions at one time
  MaxSwitches, \* bound: switching on and off, logins, logouts and restarts
  None

ASSUME FleetRuntimeAssumption == None \notin Jobs /\ None \notin Workers /\ MaxSwitches \in Nat

VARIABLES
  enabled,     \* app_config.monique_runtime.enabled
  copy,        \* the same field in the settings view's copy
  saved,       \* and in the configuration file
  signedIn,
  loop,        \* _runtime_loop: no task, or what the task is doing
  tick,        \* the worker of the tick the loop is waiting for
  inst,        \* autonomy of runtime_instance, None when not registered
  busy,        \* runtime_busy
  awaiting,    \* runtime_awaiting
  shown,       \* the jobs the fleet view offers to run or to reject
  work,        \* work[w]: a tick or an approved job on a background thread
  server,      \* server[j]: the status of job j in Manage
  rejecting,   \* rejections on their way to Manage
  wanted,      \* history: the user's last choice was to enable
  tainted,     \* history: the file may not hold that choice
  interrupted, \* history: the runtime was stopped with a job or a tick under way
  lost,        \* history: a request about a job failed
  runs,        \* history: runs[j] executions of job j were started
  switches     \* counter of the bound

config == <<enabled, copy, saved, wanted, tainted>>
local == <<inst, busy, awaiting, shown>>
remote == <<server, rejecting, lost, runs>>
vars == <<config, signedIn, loop, tick, local, work, remote, interrupted, switches>>

Idle == [kind |-> "none", phase |-> "none", job |-> None, auto |-> FALSE]
WorkStates == [kind : {"none", "tick", "approved"},
               phase : {"none", "claim", "start", "run", "done"},
               job : Jobs \cup {None},
               auto : BOOLEAN]
Executing == {w \in Workers : work[w].phase \in {"start", "run"}}

Init ==
  /\ enabled = FALSE /\ copy = FALSE /\ saved = FALSE
  /\ signedIn = TRUE
  /\ loop = "none" /\ tick = None
  /\ inst = None /\ busy = FALSE /\ awaiting = {} /\ shown = {}
  /\ work = [w \in Workers |-> Idle]
  /\ server = [j \in Jobs |-> "pending"]
  /\ rejecting = {}
  /\ wanted = FALSE /\ tainted = FALSE /\ interrupted = FALSE /\ lost = FALSE
  /\ runs = [j \in Jobs |-> 0]
  /\ switches = 0

-----------------------------------------------------------------------------
(* Switching.                                                               *)

Switch == switches < MaxSwitches /\ switches' = switches + 1

\* AppConfig::save: a whole configuration is written, or the error is logged.
Save(on) == \/ saved' = on /\ tainted' = (tainted \/ on # enabled')
            \/ UNCHANGED saved /\ tainted' = TRUE

\* Faulty variants, used by no action, are named ...Fault...
\* Fault: the loop is left running.
SyncLoopFaultKeeps(want) ==
  loop' = IF want /\ loop = "none" THEN "sleeping" ELSE loop

\* sync_runtime_loop: a loop that has a task keeps it, whatever became of it.
SyncLoop(want) ==
  loop' = CASE ~want -> "none"
            [] want /\ loop = "none" -> "sleeping"
            [] OTHER -> loop

\* Fault: the runtime goes on waiting for the tick.
DropTickFaultWaits ==
  /\ UNCHANGED <<tick, work>>
  /\ interrupted' = (interrupted \/ awaiting # {} \/ \E w \in Workers : work[w] # Idle)

\* The loop's task is dropped: the answer of its tick will be discarded, and the
\* tick itself is cancelled only if no thread has begun it.
DropTick ==
  /\ tick' = None
  /\ \/ work' = work
     \/ /\ tick # None /\ work[tick].phase = "claim"
        /\ work' = [work EXCEPT ![tick] = Idle]
  /\ interrupted' = (interrupted \/ awaiting # {} \/ \E w \in Workers : work[w] # Idle)

ClearLocal == inst' = None /\ awaiting' = {} /\ busy' = FALSE

Enable ==
  /\ Switch /\ signedIn /\ ~enabled
  /\ enabled' = TRUE /\ wanted' = TRUE /\ Save(TRUE)
  /\ SyncLoop(TRUE)
  /\ shown' = awaiting
  /\ UNCHANGED <<copy, signedIn, tick, inst, busy, awaiting, work, remote, interrupted>>

Disable ==
  /\ Switch /\ signedIn /\ enabled
  /\ enabled' = FALSE /\ wanted' = FALSE /\ Save(FALSE)
  /\ ClearLocal /\ shown' = {}
  /\ SyncLoop(FALSE) /\ DropTick
  /\ UNCHANGED <<copy, signedIn, remote>>

\* apply_login ends in activate_current_mode, which starts the loop.
Login ==
  /\ Switch /\ ~signedIn
  /\ signedIn' = TRUE
  /\ UNCHANGED enabled /\ Save(enabled) /\ copy' = enabled
  /\ SyncLoop(enabled)
  /\ UNCHANGED <<wanted, tick, local, work, remote, interrupted>>

\* invalidate_cloud_session; the fleet view is not told.
Logout ==
  /\ Switch /\ signedIn
  /\ signedIn' = FALSE
  /\ UNCHANGED enabled /\ Save(enabled) /\ copy' = enabled
  /\ ClearLocal
  /\ SyncLoop(FALSE) /\ DropTick
  /\ UNCHANGED <<wanted, shown, remote>>

\* Settings are edited: the settings view saves its whole copy, and the workspace
\* takes over slices the runtime is not part of.
SettingsSave ==
  /\ UNCHANGED enabled /\ Save(copy)
  /\ UNCHANGED <<copy, wanted, signedIn, loop, tick, local, work, remote,
                 interrupted, switches>>

\* Another change of the workspace is saved and the settings view is told of it.
WorkspaceSave ==
  /\ UNCHANGED enabled /\ Save(enabled) /\ copy' = enabled
  /\ UNCHANGED <<wanted, signedIn, loop, tick, local, work, remote,
                 interrupted, switches>>

\* The program ends and is launched again.
Restart ==
  /\ Switch
  /\ enabled' = saved /\ copy' = saved
  /\ tick' = None /\ work' = [w \in Workers |-> Idle]
  /\ ClearLocal /\ shown' = {} /\ rejecting' = {}
  /\ loop' = IF saved /\ signedIn THEN "sleeping" ELSE "none"
  /\ interrupted' = (interrupted \/ awaiting # {} \/ \E w \in Workers : work[w] # Idle)
  /\ lost' = (lost \/ rejecting # {})
  /\ UNCHANGED <<saved, wanted, tainted, signedIn, server, runs>>

-----------------------------------------------------------------------------
(* The loop.                                                                *)

Start(w, item) == work[w] = Idle /\ work' = [work EXCEPT ![w] = item]

\* runtime_loop_step when there is nothing to tick: the loop ends, registers the
\* machine, or, while the runtime is busy, sends a heartbeat.
LoopSteps ==
  /\ loop = "sleeping"
  /\ loop' = CASE ~enabled \/ ~signedIn -> "ended"
               [] enabled /\ signedIn /\ inst = None -> "registering"
               [] OTHER -> "sleeping"
  /\ (busy \/ loop' # "sleeping")
  /\ UNCHANGED <<config, signedIn, tick, local, work, remote, interrupted, switches>>

\* Fault: a busy runtime claims as well.
LoopTicksFaultBusy(w) ==
  /\ loop = "sleeping" /\ enabled /\ signedIn /\ inst # None
  /\ Start(w, [kind |-> "tick", phase |-> "claim", job |-> None, auto |-> inst = "auto"])
  /\ loop' = "ticking" /\ tick' = w
  /\ UNCHANGED <<config, signedIn, local, remote, interrupted, switches>>

\* The autonomy travels with the tick.
LoopTicks(w) ==
  /\ loop = "sleeping" /\ enabled /\ signedIn /\ inst # None /\ ~busy
  /\ Start(w, [kind |-> "tick", phase |-> "claim", job |-> None, auto |-> inst = "auto"])
  /\ loop' = "ticking" /\ tick' = w
  /\ UNCHANGED <<config, signedIn, local, remote, interrupted, switches>>

\* apply_register: Manage chooses the autonomy; the id is saved.
ApplyRegister ==
  /\ loop = "registering" /\ loop' = "sleeping"
  /\ \/ /\ inst' \in {"confirm", "auto"}
        /\ UNCHANGED enabled /\ Save(enabled)
        /\ shown' = awaiting
     \/ UNCHANGED <<inst, enabled, saved, tainted, shown>>
  /\ UNCHANGED <<copy, wanted, signedIn, tick, busy, awaiting, work, remote, interrupted, switches>>

\* apply_tick_result; after an error the view is not told.
ApplyTick ==
  /\ loop = "ticking" /\ work[tick].phase = "done"
  /\ loop' = "sleeping" /\ tick' = None
  /\ work' = [work EXCEPT ![tick] = Idle]
  /\ LET job == work[tick].job IN
     IF job # None
     THEN /\ awaiting' = awaiting \cup {job} /\ busy' = TRUE
          /\ shown' = awaiting'
     ELSE shown' \in {shown, awaiting} /\ UNCHANGED <<awaiting, busy>>
  /\ UNCHANGED <<config, signedIn, inst, remote, interrupted, switches>>

-----------------------------------------------------------------------------
(* Background threads.                                                      *)

Phase(w, p) == [work[w] EXCEPT !.phase = p]

\* runtime_tick: heartbeat and claim.  The claim may be answered with a job, with
\* none, or fail; it may also fail after Manage has assigned the job.
TickClaims(w) ==
  /\ work[w].phase = "claim"
  /\ \/ \E j \in Jobs :
          /\ server[j] = "pending" /\ server' = [server EXCEPT ![j] = "claimed"]
          /\ \/ /\ work' = [work EXCEPT ![w] = [Phase(w, IF work[w].auto THEN "start" ELSE "done")
                                                 EXCEPT !.job = j]]
                /\ UNCHANGED lost
             \/ work' = [work EXCEPT ![w] = Phase(w, "done")] /\ lost' = TRUE
     \/ work' = [work EXCEPT ![w] = Phase(w, "done")] /\ UNCHANGED <<server, lost>>
  /\ UNCHANGED <<config, signedIn, loop, tick, local, rejecting, runs, interrupted, switches>>

\* A request that fails may have reached Manage.
Update(j, status) == server' = [server EXCEPT ![j] = status]
MayUpdate(j, status) == UNCHANGED server \/ Update(j, status)

\* execute_job: the job is marked running, or the tick ends with an error.
JobStarts(w) ==
  /\ work[w].phase = "start"
  /\ LET j == work[w].job IN
     \/ /\ Update(j, "running") /\ runs' = [runs EXCEPT ![j] = @ + 1]
        /\ work' = [work EXCEPT ![w] = Phase(w, "run")]
        /\ UNCHANGED lost
     \/ /\ work' = [work EXCEPT ![w] = [Phase(w, "done") EXCEPT !.job = None]]
        /\ MayUpdate(j, "running") /\ lost' = TRUE /\ UNCHANGED runs
  /\ UNCHANGED <<config, signedIn, loop, tick, local, rejecting, interrupted, switches>>

\* The executor returns and the result is reported.  It need not return: its timeout
\* kills the child alone, the output is read until every descendant has closed it,
\* and the prompt is written to the child before the timer starts.
JobEnds(w) ==
  /\ work[w].phase = "run"
  /\ work' = [work EXCEPT ![w] = [Phase(w, "done") EXCEPT !.job = None]]
  /\ \E status \in {"done", "failed"} :
       \/ Update(work[w].job, status) /\ UNCHANGED lost
       \/ MayUpdate(work[w].job, status) /\ lost' = TRUE
  /\ UNCHANGED <<config, signedIn, loop, tick, local, rejecting, runs, interrupted, switches>>

\* A tick nobody waits for ends: what it claimed is dropped.
OrphanEnds(w) ==
  /\ work[w].kind = "tick" /\ w # tick /\ work[w].phase = "done"
  /\ work' = [work EXCEPT ![w] = Idle]
  /\ UNCHANGED <<config, signedIn, loop, tick, local, remote, interrupted, switches>>

-----------------------------------------------------------------------------
(* The user's choices (handle_fleet_event).                                 *)

\* Fault: the job stays on offer while it is executed.
ApproveFaultOffered(j, w) ==
  /\ signedIn /\ j \in shown /\ j \in awaiting
  /\ Start(w, [kind |-> "approved", phase |-> "start", job |-> j, auto |-> FALSE])
  /\ UNCHANGED <<config, signedIn, loop, tick, local, remote, interrupted, switches>>

\* approve_fleet_job.
Approve(j, w) ==
  /\ signedIn /\ j \in shown /\ j \in awaiting
  /\ Start(w, [kind |-> "approved", phase |-> "start", job |-> j, auto |-> FALSE])
  /\ awaiting' = awaiting \ {j} /\ shown' = awaiting'
  /\ UNCHANGED <<config, signedIn, loop, tick, inst, busy, remote, interrupted, switches>>

\* Fault: the runtime stays busy after an error.
ApprovedEndsFaultBusy(w) ==
  /\ work[w].kind = "approved" /\ work[w].phase = "done"
  /\ work' = [work EXCEPT ![w] = Idle]
  /\ busy' \in {busy, FALSE} /\ shown' = awaiting
  /\ UNCHANGED <<config, signedIn, loop, tick, inst, awaiting, remote, interrupted, switches>>

\* The approved job has been executed, or could not be: the runtime is free.
ApprovedEnds(w) ==
  /\ work[w].kind = "approved" /\ work[w].phase = "done"
  /\ work' = [work EXCEPT ![w] = Idle]
  /\ busy' = FALSE /\ shown' = awaiting
  /\ UNCHANGED <<config, signedIn, loop, tick, inst, awaiting, remote, interrupted, switches>>

\* Fault: Manage is not told.
RejectFaultSilent(j) ==
  /\ signedIn /\ j \in shown
  /\ awaiting' = awaiting \ {j} /\ shown' = awaiting' /\ busy' = FALSE
  /\ UNCHANGED <<config, signedIn, loop, tick, inst, work, remote, interrupted, switches>>

\* reject_fleet_job: Manage is told in the background.
Reject(j) ==
  /\ signedIn /\ j \in shown
  /\ awaiting' = awaiting \ {j} /\ shown' = awaiting' /\ busy' = FALSE
  /\ rejecting' = rejecting \cup {j}
  /\ UNCHANGED <<config, signedIn, loop, tick, inst, work, server, lost, runs, interrupted, switches>>

RejectArrives(j) ==
  /\ j \in rejecting /\ rejecting' = rejecting \ {j}
  /\ \/ Update(j, "cancelled") /\ UNCHANGED lost
     \/ MayUpdate(j, "cancelled") /\ lost' = TRUE
  /\ UNCHANGED <<config, signedIn, loop, tick, local, work, runs, interrupted, switches>>

\* The fleet view is refreshed (refresh_fleet_view).
RefreshView ==
  /\ signedIn /\ shown' = awaiting
  /\ UNCHANGED <<config, signedIn, loop, tick, inst, busy, awaiting, work, remote,
                 interrupted, switches>>

-----------------------------------------------------------------------------
LoopNext == LoopSteps \/ ApplyRegister \/ ApplyTick
            \/ \E w \in Workers : LoopTicks(w)
WorkerOwes(w) == TickClaims(w) \/ JobStarts(w) \/ OrphanEnds(w) \/ ApprovedEnds(w)
WorkerNext(w) == WorkerOwes(w) \/ JobEnds(w)
UserNext == \/ Enable \/ Disable \/ Login \/ Logout \/ SettingsSave \/ WorkspaceSave \/ Restart
            \/ RefreshView
            \/ \E j \in Jobs : Reject(j) \/ RejectArrives(j) \/ \E w \in Workers : Approve(j, w)

Next == LoopNext \/ UserNext \/ \E w \in Workers : WorkerNext(w)

\* The loop's timer fires and requests time out (the client's ten seconds).  That an
\* execution ends, what the user does, and whether Manage answers well, is not
\* assumed.
Spec == Init /\ [][Next]_vars /\ WF_vars(LoopNext) /\ \A w \in Workers : WF_vars(WorkerOwes(w))

-----------------------------------------------------------------------------
(* Properties.                                                              *)

\* The values of the state; a tick is waited for exactly while the loop is ticking,
\* however the loop was dropped and started again.
TypeOK ==
  /\ {enabled, copy, saved, signedIn, busy, wanted, tainted, interrupted, lost} \subseteq BOOLEAN
  /\ loop \in {"none", "sleeping", "registering", "ticking", "ended"}
  /\ tick \in Workers \cup {None} /\ (tick # None <=> loop = "ticking")
  /\ inst \in {"confirm", "auto", None}
  /\ awaiting \subseteq Jobs /\ shown \subseteq Jobs /\ rejecting \subseteq Jobs
  /\ work \in [Workers -> WorkStates]
  /\ server \in [Jobs -> {"pending", "claimed", "running", "done", "failed", "cancelled"}]
  /\ runs \in [Jobs -> Nat]
  /\ switches \in 0..MaxSwitches

\* A machine executes one job at a time, whatever it claims, is told to run and is
\* told to reject, until it is stopped with work under way: neither stopping nor
\* signing out ends that work, and a runtime started again does not know of it.
OneJobAtATime == Cardinality(Executing) > 1 => interrupted

\* A job is executed at most once, and never after the user rejected it.
RunsOnceOrNever ==
  \A j \in Jobs : /\ runs[j] <= 1
                  /\ (j \in rejecting \/ server[j] = "cancelled") => runs[j] = 0

\* A job that Manage counts as assigned to this machine is still in its hands: it
\* waits for the user, is executed, or is being rejected.  The exceptions are a
\* request that failed and a runtime that was stopped, which forget it.
Held(j) == \/ j \in awaiting \cup rejecting
           \/ \E w \in Workers : work[w].job = j
AssignedJobsAreHeld ==
  \A j \in Jobs : server[j] \in {"claimed", "running"} => Held(j) \/ lost \/ interrupted

\* The runtime never starts implicitly: it runs only if enabling it was the user's
\* last choice, unless that choice could not be saved or the settings view
\* overwrote it in the file with its own copy.
StartsOnlyWanted == loop # "none" /\ ~wanted => tainted

\* The loop registers the machine, or asks Manage for a job.
Asks == \/ loop = "registering"
        \/ tick # None /\ work[tick].phase = "claim"
Waiting == enabled /\ signedIn /\ awaiting = {}

\* An enabled runtime that has no job to show the user, and executes none, asks for
\* work again: whatever failed on the way, the runtime is not left busy, nor its
\* loop dropped or waiting for a tick that is over.
EnabledRuntimeAsks ==
  Waiting ~> Asks \/ ~Waiting \/ \E w \in Workers : work[w].phase = "run"

\* With the hard timeout that ExecutorConfig documents for every job it would ask
\* again in any case.  An execution that does not return keeps the runtime busy, or
\* its loop waiting, for ever.
HardTimeoutFrees == Waiting ~> Asks \/ ~Waiting
=============================================================================
