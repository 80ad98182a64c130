------------------------------ MODULE ScriptRuns ------------------------------
(***************************************************************************)
(* Script executions (workspace/scripts.rs), with the confirmed AI actions    *)
(* that start one and the timer that stops it (workspace/ai.rs).             *)
(*                                                                         *)
(* A start is refused while the editor shows a running script.  It pushes a  *)
(* record, and spawns a thread that executes the command on this machine or  *)
(* over SSH; a poller on the UI thread takes its lines and its result.  Stop  *)
(* frees the editor at once, but the thread of the stopped run and its poller *)
(* go on until the result arrives, which may be in the middle of the next run. *)
(* The editor, the records and the handles do not say which run they are of:  *)
(* the record is the last one, and the handle is found by the script.         *)
(***************************************************************************)
EXTENDS Integers, FiniteSets

CONSTANTS
  Scripts,
  Remote,    \* the scripts whose target is a connection
  Templates, \* the scripts with variables, which ask for values first
  MaxRuns,   \* bound: starts
  MaxPlans,  \* bound: confirmed AI actions
  None

ASSUME ScriptRunsAssumption ==
  /\ Remote \subseteq Scripts /\ Templates \subseteq Scripts /\ None \notin Scripts
  /\ MaxRuns \in Nat /\ MaxPlans \in Nat

Runs == 1..MaxRuns
Plans == 1..MaxPlans

VARIABLES
  running,    \* running_script_id of the editor
  prompt,     \* the script whose variable prompt is open
  last,       \* number of starts; run `last` has the last record of the history
  script,     \* script[r]: what run r executes
  record,     \* record[r]: open, or finished with exit code 0 or another one
  handle,     \* active_scripts: handle[s] is the run whose shutdown sender it holds
  phase,      \* phase[r]: the thread of run r, and when it is gone its poller
  result,     \* result[r]: what it sent on the done channel
  plan,       \* ai_script_runs: plan[s] is the AI action tracked for s, 0 if none
  timers,     \* the AI actions whose timer runs
  audit,      \* audit[p]: the last status audited for p
  plans,      \* number of AI actions confirmed
  started,    \* history: started[p] is the run p started, 0 if it started none
  adrift,     \* the runs whose thread ended while their command may go on
  mixed,      \* history: the runs whose record has lines of another run
  cut,        \* history: <<p, r>> when the timer of p stopped run r
  overlapped  \* history: the runs started while another was shown or still to be
              \* answered, and those others

editor == <<running, prompt, last, script, record, mixed>>
threads == <<phase, result, adrift>>
ai == <<plan, timers, audit, plans, started, cut>>
vars == <<editor, handle, threads, ai, overlapped>>

Told(r) == handle[script[r]] # r       \* its shutdown channel has a message or is closed
Polled(r) == phase[r] \notin {"none", "answered"}
Executing(r) == phase[r] \in {"starting", "executing"}
Untold == {r \in Runs : Executing(r) /\ ~Told(r)}

Init ==
  /\ running = None /\ prompt = None /\ last = 0
  /\ script = [r \in Runs |-> None]
  /\ record = [r \in Runs |-> "none"]
  /\ handle = [s \in Scripts |-> 0]
  /\ phase = [r \in Runs |-> "none"]
  /\ result = [r \in Runs |-> "none"]
  /\ plan = [s \in Scripts |-> 0]
  /\ timers = {} /\ audit = [p \in Plans |-> "none"] /\ plans = 0
  /\ started = [p \in Plans |-> 0]
  /\ adrift = {} /\ mixed = {} /\ cut = {} /\ overlapped = {}

-----------------------------------------------------------------------------
(* The user and the assistant.                                              *)

\* The runs that a start finds shown by the editor or still to be answered.
Unanswered == {q \in Runs : Polled(q)} \cup IF running # None THEN {last} ELSE {}

\* What RunScript and run_script_with_values do past their checks: the record, the
\* editor, and then a thread with its poller, or an error.  A connection that was
\* deleted frees the editor, a thread that cannot be created does not.
Begin(s) ==
  LET r == last + 1 IN
  /\ r \in Runs
  /\ last' = r
  /\ script' = [script EXCEPT ![r] = s]
  /\ record' = [record EXCEPT ![r] = "open"]
  /\ overlapped' = overlapped \cup Unanswered \cup (IF Unanswered # {} THEN {r} ELSE {})
  /\ \/ /\ running' = s
        /\ handle' = [handle EXCEPT ![s] = r]
        /\ phase' = [phase EXCEPT ![r] = "starting"]
     \/ running' = s /\ UNCHANGED <<handle, phase>>
     \/ s \in Remote /\ running' = None /\ UNCHANGED <<handle, phase>>
  /\ UNCHANGED <<result, adrift, mixed>>

\* RunScript of a script without variables.
Run(s) ==
  /\ running = None /\ s \notin Templates
  /\ Begin(s)
  /\ UNCHANGED <<prompt, ai>>

\* RunScript of a script with variables: they are asked for.
Ask(s) ==
  /\ running = None /\ s \in Templates
  /\ prompt' = s
  /\ UNCHANGED <<running, last, script, record, mixed, handle, threads, ai,
                 overlapped>>

\* The values are given: the run starts, whatever was started meanwhile.
RunWithValues ==
  /\ prompt # None /\ prompt' = None
  /\ Begin(prompt)
  /\ UNCHANGED ai

CancelPrompt ==
  /\ prompt # None /\ prompt' = None
  /\ UNCHANGED <<running, last, script, record, mixed, handle, threads, ai,
                 overlapped>>

\* Faulty variants, used by no action, are named ...Fault...
\* Fault: the tracker stays.
FinishFaultKeeps(s, status) ==
  /\ audit' = IF plan[s] # 0 THEN [audit EXCEPT ![plan[s]] = status] ELSE audit
  /\ UNCHANGED plan

\* finish_ai_script_run.
Finish(s, status) ==
  /\ plan' = [plan EXCEPT ![s] = 0]
  /\ audit' = IF plan[s] # 0 THEN [audit EXCEPT ![plan[s]] = status] ELSE audit

\* Fault: the run is told nothing.
DropHandlesFaultKept(which) == UNCHANGED handle

\* ActiveScript::stop, and the handle dropped, with its sender.
DropHandles(which) == handle' = [s \in Scripts |-> IF s \in which THEN 0 ELSE handle[s]]

\* StopScript: the script shown as running is stopped and the last record closed.
StopRunning ==
  /\ running # None
  /\ DropHandles({running})
  /\ running' = None
  /\ record' = [record EXCEPT ![last] = "other"]

Stop ==
  /\ StopRunning
  /\ Finish(running, "cancelled")
  /\ UNCHANGED <<prompt, last, script, mixed, threads, timers, plans, started, cut,
                 overlapped>>

\* stop_authenticated_runtime and the account state reset with it.
Logout ==
  /\ DropHandles(Scripts)
  /\ prompt' = None
  /\ plan' = [s \in Scripts |-> 0]
  /\ UNCHANGED <<running, last, script, record, mixed, threads, timers, audit, plans,
                 started, cut, overlapped>>

\* confirm_ai_action: the script is run, and tracked if it is the running one then,
\* which it also is when the start was refused because it was running already.
Confirm(s) ==
  LET p == plans + 1 IN
  /\ p \in Plans /\ plans' = p
  /\ \/ running = None /\ s \notin Templates /\ Begin(s) /\ UNCHANGED prompt
     \/ /\ running = None /\ s \in Templates /\ prompt' = s
        /\ UNCHANGED <<running, last, script, record, mixed, handle, threads, overlapped>>
     \/ running = s /\ UNCHANGED <<editor, handle, threads, overlapped>>
  /\ IF running' = s
     THEN /\ plan' = [plan EXCEPT ![s] = p]
          /\ audit' = [audit EXCEPT ![p] = "started"]
          /\ timers' = timers \cup {p}
          /\ started' = [started EXCEPT ![p] = IF last' # last THEN last' ELSE 0]
     ELSE UNCHANGED <<plan, audit, timers, started>>
  /\ UNCHANGED cut

\* Fault: whatever runs is stopped.
TimerOwnsRunFaultBlind(p, s) == running = s

\* ai_timeout_outcome: the action must be the one tracked, and the script running.
TimerOwnsRun(p, s) == plan[s] = p /\ running = s

\* The timer of an AI action fires.
TimerFires(p) ==
  /\ p \in timers /\ timers' = timers \ {p}
  /\ \/ \E s \in Scripts :
          /\ TimerOwnsRun(p, s)
          /\ StopRunning
          /\ Finish(s, "timed_out")
          /\ cut' = cut \cup ({<<p, handle[s]>>} \ {<<p, 0>>})
     \/ /\ \A s \in Scripts : ~TimerOwnsRun(p, s)
        /\ UNCHANGED <<running, record, handle, plan, audit, cut>>
  /\ UNCHANGED <<prompt, last, script, mixed, threads, plans, started, overlapped>>

-----------------------------------------------------------------------------
(* The thread of a run.                                                     *)

Ends(r, value) ==
  /\ phase' = [phase EXCEPT ![r] = "gone"]
  /\ result' = [result EXCEPT ![r] = value]

\* The child is spawned, or the SSH session is connected and the command sent.
\* Neither looks at the shutdown channel first.
Starts(r) ==
  /\ phase[r] = "starting"
  /\ \/ phase' = [phase EXCEPT ![r] = "executing"] /\ UNCHANGED result
     \/ Ends(r, "other")
  /\ UNCHANGED <<adrift, editor, handle, ai, overlapped>>

\* The command exits.  A local run then waits for its pipes, which a process it
\* left behind keeps open.
Exits(r) ==
  /\ phase[r] = "executing"
  /\ \E value \in {"zero", "other"} :
       IF script[r] \in Remote THEN Ends(r, value)
       ELSE phase' = [phase EXCEPT ![r] = "joining"] /\ result' = [result EXCEPT ![r] = value]
  /\ UNCHANGED <<adrift, editor, handle, ai, overlapped>>

\* The thread of run r lets go of its command: the child is killed, while a command
\* on a connection is sent an end of input, which it may outlive.
LetsGo(r) ==
  IF script[r] \in Remote
  THEN Ends(r, "other") /\ adrift' \in {adrift, adrift \cup {r}}
  ELSE /\ phase' = [phase EXCEPT ![r] = "joining"]
       /\ result' = [result EXCEPT ![r] = "other"]
       /\ UNCHANGED adrift

\* Fault: only the message stops a run, not the channel closed by a later run.
HeedsStopFaultMessage(r) ==
  /\ phase[r] = "executing" /\ handle[script[r]] = 0
  /\ LetsGo(r)
  /\ UNCHANGED <<editor, handle, ai, overlapped>>

\* The thread looks at the shutdown channel.
HeedsStop(r) ==
  /\ phase[r] = "executing" /\ Told(r)
  /\ LetsGo(r)
  /\ UNCHANGED <<editor, handle, ai, overlapped>>

\* The pipes are closed, and the result is sent.
Joins(r) ==
  /\ phase[r] = "joining"
  /\ phase' = [phase EXCEPT ![r] = "gone"]
  /\ UNCHANGED <<editor, handle, result, adrift, ai, overlapped>>

\* The thread panics: its channels close without a result, and nothing kills what it
\* had started.
Dies(r) ==
  /\ Executing(r) /\ Ends(r, "none")
  /\ IF phase[r] = "executing" THEN adrift' \in {adrift, adrift \cup {r}} ELSE UNCHANGED adrift
  /\ UNCHANGED <<editor, handle, ai, overlapped>>

-----------------------------------------------------------------------------
(* The poller of a run.                                                     *)

\* Lines go to the last record.  Lines sent between the last look at them and the
\* result are lost.
Drain(r) ==
  /\ Polled(r) /\ last # r
  /\ mixed' = mixed \cup {last}
  /\ UNCHANGED <<running, prompt, last, script, record, handle, threads, ai,
                 overlapped>>

\* Fault: a run that failed is recorded with exit code 0.
RecordedFaultZero(r) == IF result[r] = "none" THEN record[last] ELSE "zero"

\* Fault: the last record is overwritten by what a dead thread left.
RecordedFaultRaw(r) == result[r]

\* The result closes the last record; a thread that died closes none.
Recorded(r) == IF result[r] = "none" THEN record[last] ELSE result[r]

\* The result, or the loss of the thread, is applied.
Applies(r) ==
  /\ phase[r] = "gone" /\ phase' = [phase EXCEPT ![r] = "answered"]
  /\ running' = None
  /\ record' = [record EXCEPT ![last] = Recorded(r)]
  /\ handle' = [handle EXCEPT ![script[r]] = 0]
  /\ Finish(script[r], IF result[r] = "zero" THEN "succeeded" ELSE "failed")
  /\ UNCHANGED <<prompt, last, script, mixed, result, adrift, timers, plans,
                 started, cut, overlapped>>

-----------------------------------------------------------------------------
RunNext(r) == Starts(r) \/ Exits(r) \/ HeedsStop(r) \/ Joins(r) \/ Dies(r)
              \/ Drain(r) \/ Applies(r)
UserNext == \/ RunWithValues \/ CancelPrompt \/ Stop \/ Logout
            \/ \E s \in Scripts : Run(s) \/ Ask(s) \/ Confirm(s)
            \/ \E p \in Plans : TimerFires(p)

Next == UserNext \/ \E r \in Runs : RunNext(r)

\* A connection attempt ends, a thread looks at its shutdown channel every 50 ms or
\* waits for it, and pollers are polled.  What the command does, and who holds its
\* pipes, is not assumed.
Spec == /\ Init /\ [][Next]_vars
        /\ \A r \in Runs : WF_vars(Starts(r)) /\ WF_vars(HeedsStop(r)) /\ WF_vars(Applies(r))

-----------------------------------------------------------------------------
(* Properties.                                                              *)

\* The values of the state; the history has a record of every start and of no other,
\* however the run ended.
TypeOK ==
  /\ running \in Scripts \cup {None} /\ prompt \in Scripts \cup {None}
  /\ last \in 0..MaxRuns /\ plans \in 0..MaxPlans
  /\ script \in [Runs -> Scripts \cup {None}]
  /\ record \in [Runs -> {"none", "open", "zero", "other"}]
  /\ \A r \in Runs : record[r] = "none" <=> r > last
  /\ handle \in [Scripts -> 0..MaxRuns] /\ plan \in [Scripts -> 0..MaxPlans]
  /\ phase \in [Runs -> {"none", "starting", "executing", "joining", "gone", "answered"}]
  /\ result \in [Runs -> {"none", "zero", "other"}]
  /\ audit \in [Plans -> {"none", "started", "succeeded", "failed", "cancelled", "timed_out"}]
  /\ started \in [Plans -> 0..MaxRuns]
  /\ adrift \subseteq Runs /\ mixed \subseteq Runs /\ overlapped \subseteq Runs
  /\ timers \subseteq Plans /\ cut \subseteq Plans \X Runs

\* A command that nothing told to stop is the one the editor shows, with its Stop:
\* there is never a second one, nor one that cannot be stopped.  Runs that overlapped
\* lose this: the late answer of one frees the editor under the other.  A run started
\* after all of them were answered has it again.
UntoldRunIsShown == \A r \in Untold \ overlapped : running = script[r]

\* A record says what happened to its own run: it closes with exit code 0 only if
\* the command of that run did, and has only its lines.  The late answer of a run
\* started before closes the record of a run that overlapped it.
RecordsAreTruthful ==
  \A r \in Runs \ overlapped : r \notin mixed /\ (record[r] = "zero" => result[r] = "zero")

\* The timer of an AI action stops the run that action started and no later one:
\* every end of the run removes the tracker.  Two kinds of actions are left out: one
\* confirmed while its script was running already started none, and its timer stops
\* the run it found; and one whose run overlapped another can keep its tracker, and
\* its timer then stops a later run, which docs/testing/USE_CASES.md:1668 excludes
\* (StaleTimersAreHarmless).
TimersStopTheirRun == \A c \in cut : started[c[1]] \in overlapped \cup {0, c[2]}

\* An AI action is audited as succeeded only if the command it started did, unless
\* the run it started overlapped another: its tracker, found by the script alone, is
\* then closed by whichever run of that script is answered first.
AuditIsTruthful ==
  \A p \in Plans :
    audit[p] = "succeeded" /\ started[p] \notin overlapped \cup {0} =>
      result[started[p]] = "zero"

\* A run that was told to stop, by a message or because its handle was replaced,
\* removed or drained, is answered, even if the connection was still being made; or
\* it is a local one, its command was killed or has exited, and its thread waits for
\* pipes that a process left behind holds open.  That a command on a connection ends
\* is not claimed.
StoppedRunEnds ==
  \A r \in Runs : Executing(r) /\ Told(r) ~>
    \/ phase[r] = "answered"
    \/ phase[r] = "joining" /\ script[r] \notin Remote /\ r \notin adrift

-----------------------------------------------------------------------------
(* What the documents say and the code does not do.                         *)

\* "Completion, failure, manual cancellation, and timeout remove the action-specific
\* tracker so stale timers cannot affect later runs" (docs/testing/USE_CASES.md:1668).
\* The late answer of a stopped run frees the editor under the run of the action; the
\* script is started again, and the timer stops that run.  So it is when the values
\* of a prompt start a run under it.
StaleTimersAreHarmless == \A c \in cut : started[c[1]] \in {0, c[2]}

\* "Confirmed script executions reuse the existing Stop control and are forcibly
\* stopped after 30 minutes" (docs/testing/USE_CASES.md:1666): what a timer stopped
\* does not go on.  exec_cancellable sends an end of input and returns.
TimedOutCommandStops == \A c \in cut : c[2] \notin adrift
=============================================================================
