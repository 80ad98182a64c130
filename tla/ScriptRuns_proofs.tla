--------------------------- MODULE ScriptRuns_proofs ---------------------------
(***************************************************************************)
(* Proofs about ScriptRuns, for any scripts and any number of starts and of   *)
(* confirmed actions.                                                       *)
(***************************************************************************)
EXTENDS ScriptRuns, TLAPS

-----------------------------------------------------------------------------
(* The parts of the invariant.                                              *)

\* What has been started: a script, which the editor shows only as the last one.
Past ==
  /\ \A r \in Runs : /\ phase[r] # "none" => r <= last
                     /\ r <= last => script[r] \in Scripts
  /\ running # None => last \in Runs /\ script[last] = running

\* What has been confirmed.
Tracked == /\ \A s \in Scripts : plan[s] <= plans
           /\ \A p \in Plans : p > plans => audit[p] = "none" /\ \A r \in Runs : <<p, r>> \notin cut

\* A thread or a poller other than the last run's is left only by runs that
\* overlapped, and a handle is of a run that has one.
LastOnly ==
  /\ \A r \in Runs : Polled(r) => r = last \/ {r, last} \subseteq overlapped
  /\ \A s \in Scripts : \A q \in Runs : handle[s] = q => Polled(q) /\ script[q] = s

\* A command that nothing told to stop is shown.
Shown == \A r \in Untold \ overlapped : running = script[r]

\* An exit code of 0 was sent by the run of the record, whose poller is done.
Closed ==
  /\ mixed \subseteq overlapped
  /\ \A r \in Runs \ overlapped :
       record[r] = "zero" => phase[r] = "answered" /\ result[r] = "zero"

\* A tracked action is the one of the script shown, and the run it started the last,
\* unless it started none or one that overlapped.
TrackerInv ==
  \A s \in Scripts : plan[s] # 0 =>
    \/ started[plan[s]] \in overlapped \cup {0}
    \/ running = s /\ started[plan[s]] = last

CutInv ==
  \A p \in Plans : \A r \in Runs : <<p, r>> \in cut => started[p] \in overlapped \cup {0, r}

AuditInv ==
  \A p \in Plans : audit[p] = "succeeded" /\ started[p] \notin overlapped \cup {0} =>
    phase[started[p]] = "answered" /\ result[started[p]] = "zero"

\* What overlapping runs leave true of the others.
Calm == LastOnly /\ Shown /\ Closed /\ TrackerInv /\ CutInv /\ AuditInv

Inv == TypeOK /\ Past /\ Tracked /\ Calm
-----------------------------------------------------------------------------
(* What the steps do.                                                       *)

\* A start: run r is the last one now, with an open record; it has a thread and the
\* handle of its script, or neither.
LEMMA BeginFacts ==
  ASSUME TypeOK, NEW s \in Scripts, Begin(s)
  PROVE  /\ last + 1 \in Runs /\ last' = last + 1
         /\ script' \in [Runs -> Scripts \cup {None}] /\ script'[last'] = s
         /\ \A q \in Runs \ {last'} : script'[q] = script[q]
         /\ record' \in [Runs -> {"none", "open", "zero", "other"}] /\ record'[last'] = "open"
         /\ \A q \in Runs \ {last'} : record'[q] = record[q]
         /\ overlapped' = overlapped \cup Unanswered \cup (IF Unanswered # {} THEN {last'} ELSE {})
         /\ running' \in {s, None} /\ result' = result /\ adrift' = adrift /\ mixed' = mixed
         /\ \/ /\ running' = s
               /\ handle' = [handle EXCEPT ![s] = last']
               /\ phase' = [phase EXCEPT ![last'] = "starting"]
            \/ handle' = handle /\ phase' = phase
  BY DEF Begin, TypeOK

\* A thread goes on: no run is ever executed by another thread, or again.
ThreadStep(r) == Starts(r) \/ Exits(r) \/ HeedsStop(r) \/ Joins(r) \/ Dies(r)

LEMMA ThreadFacts ==
  ASSUME TypeOK, NEW r \in Runs, ThreadStep(r)
  PROVE  /\ UNCHANGED <<editor, handle, ai, overlapped>>
         /\ phase' \in [Runs -> {"none", "starting", "executing", "joining", "gone", "answered"}]
         /\ result' \in [Runs -> {"none", "zero", "other"}] /\ adrift' \subseteq Runs
         /\ \A q \in Runs \ {r} : phase'[q] = phase[q] /\ result'[q] = result[q]
         /\ phase[r] \notin {"none", "answered"}
         /\ phase'[r] \in {"executing", "joining", "gone"}
         /\ phase'[r] = "executing" => phase[r] = "starting"
<1> USE DEF TypeOK
<1>1. CASE Starts(r)
  BY <1>1 DEF Starts, Ends
<1>2. CASE Exits(r)
  BY <1>2 DEF Exits, Ends
<1>3. CASE HeedsStop(r)
  BY <1>3 DEF HeedsStop, LetsGo, Ends
<1>4. CASE Joins(r)
  BY <1>4 DEF Joins
<1>5. CASE Dies(r)
  BY <1>5 DEF Dies, Ends, Executing
<1>6. QED
  BY <1>1, <1>2, <1>3, <1>4, <1>5 DEF ThreadStep

\* The script shown is stopped, by the user or by a timer.
LEMMA StopFacts ==
  ASSUME TypeOK, Past, StopRunning
  PROVE  /\ running \in Scripts /\ last \in Runs /\ script[last] = running
         /\ handle' \in [Scripts -> 0..MaxRuns] /\ handle'[running] = 0
         /\ \A s \in Scripts \ {running} : handle'[s] = handle[s]
         /\ running' = None
         /\ record' \in [Runs -> {"none", "open", "zero", "other"}] /\ record'[last] = "other"
         /\ \A q \in Runs \ {last} : record'[q] = record[q]
<1>1. running \in Scripts /\ last \in Runs /\ script[last] = running /\ running' = None
  BY DEF TypeOK, Past, StopRunning
<1>2. /\ handle' \in [Scripts -> 0..MaxRuns] /\ handle'[running] = 0
      /\ \A s \in Scripts \ {running} : handle'[s] = handle[s]
  BY <1>1, ScriptRunsAssumption DEF TypeOK, StopRunning, DropHandles
<1>3. /\ record' \in [Runs -> {"none", "open", "zero", "other"}] /\ record'[last] = "other"
      /\ \A q \in Runs \ {last} : record'[q] = record[q]
  BY <1>1 DEF TypeOK, StopRunning
<1>4. QED
  BY <1>1, <1>2, <1>3

\* The tracker of a script is removed and its action audited.
LEMMA FinishFacts ==
  ASSUME TypeOK, NEW s \in Scripts, NEW status \in {"succeeded", "failed", "cancelled", "timed_out"},
         Finish(s, status)
  PROVE  /\ plan' \in [Scripts -> 0..MaxPlans] /\ plan'[s] = 0
         /\ \A t \in Scripts \ {s} : plan'[t] = plan[t]
         /\ audit' \in [Plans -> {"none", "started", "succeeded", "failed", "cancelled", "timed_out"}]
         /\ \A p \in Plans : audit'[p] = audit[p] \/ (p = plan[s] /\ audit'[p] = status)
<1>1. /\ plan' \in [Scripts -> 0..MaxPlans] /\ plan'[s] = 0
      /\ \A t \in Scripts \ {s} : plan'[t] = plan[t]
  BY ScriptRunsAssumption DEF TypeOK, Finish
<1>2. /\ audit' \in [Plans -> {"none", "started", "succeeded", "failed", "cancelled", "timed_out"}]
      /\ \A p \in Plans : audit'[p] = audit[p] \/ (p = plan[s] /\ audit'[p] = status)
  BY DEF TypeOK, Finish
<1>3. QED
  BY <1>1, <1>2

\* A result is applied, to the last record.
LEMMA AppliesFacts ==
  ASSUME TypeOK, Past, NEW r \in Runs, Applies(r)
  PROVE  /\ r <= last /\ last \in Runs /\ script[r] \in Scripts
         /\ phase[r] = "gone" /\ phase'[r] = "answered"
         /\ phase' \in [Runs -> {"none", "starting", "executing", "joining", "gone", "answered"}]
         /\ \A q \in Runs \ {r} : phase'[q] = phase[q]
         /\ running' = None
         /\ record' \in [Runs -> {"none", "open", "zero", "other"}]
         /\ record'[last] \in {record[last], result[r]}
         /\ record'[last] = "none" => record[last] = "none"
         /\ \A q \in Runs \ {last} : record'[q] = record[q]
         /\ handle' \in [Scripts -> 0..MaxRuns] /\ handle'[script[r]] = 0
         /\ \A s \in Scripts \ {script[r]} : handle'[s] = handle[s]
         /\ \/ Finish(script[r], "succeeded") /\ result[r] = "zero"
            \/ Finish(script[r], "failed")
         /\ UNCHANGED <<prompt, last, script, mixed, result, adrift, timers, plans,
                        started, cut, overlapped>>
<1>1. r <= last /\ last \in Runs /\ script[r] \in Scripts
  BY ScriptRunsAssumption DEF TypeOK, Past, Applies, Runs
<1>2. Recorded(r) \in {record[last], result[r]} /\ (Recorded(r) = "none" => record[last] = "none")
  BY DEF Recorded
<1>3. /\ phase[r] = "gone" /\ phase'[r] = "answered"
      /\ phase' \in [Runs -> {"none", "starting", "executing", "joining", "gone", "answered"}]
      /\ \A q \in Runs \ {r} : phase'[q] = phase[q]
  BY DEF TypeOK, Applies
<1>4. /\ record' \in [Runs -> {"none", "open", "zero", "other"}]
      /\ record'[last] = Recorded(r)
      /\ \A q \in Runs \ {last} : record'[q] = record[q]
  BY <1>1, <1>2 DEF TypeOK, Applies
<1>5. /\ handle' \in [Scripts -> 0..MaxRuns] /\ handle'[script[r]] = 0
      /\ \A s \in Scripts \ {script[r]} : handle'[s] = handle[s]
  BY <1>1, ScriptRunsAssumption DEF TypeOK, Applies
<1>6. \/ Finish(script[r], "succeeded") /\ result[r] = "zero"
      \/ Finish(script[r], "failed")
  BY DEF Applies
<1>7. QED
  BY <1>1, <1>2, <1>3, <1>4, <1>5, <1>6 DEF Applies

\* The steps that neither start, stop nor answer a run: a timer that stops none
\* changes nothing but the set of timers.
QuietStep ==
  /\ UNCHANGED <<running, last, script, record, mixed, handle, threads, plan, audit,
                 plans, started, cut, overlapped>>
  /\ prompt' \in Scripts \cup {None} /\ timers' \subseteq timers

\* A timer stops the script whose tracked action is its own.
TimerStops(p, s) ==
  /\ p \in timers /\ timers' = timers \ {p}
  /\ TimerOwnsRun(p, s) /\ StopRunning /\ Finish(s, "timed_out")
  /\ cut' = cut \cup ({<<p, handle[s]>>} \ {<<p, 0>>})
  /\ UNCHANGED <<prompt, last, script, mixed, threads, plans, started, overlapped>>

\* Every step is quiet, a start, a stop, or one of a thread or of a poller.
LEMMA StepKinds ==
  ASSUME TypeOK, [Next]_vars
  PROVE  \/ QuietStep \/ RunWithValues \/ Stop \/ Logout
         \/ \E s \in Scripts : Run(s) \/ Confirm(s)
         \/ \E p \in Plans : \E s \in Scripts : TimerStops(p, s)
         \/ \E r \in Runs : ThreadStep(r) \/ Drain(r) \/ Applies(r)
<1>1. CASE CancelPrompt \/ UNCHANGED vars
  BY <1>1 DEF CancelPrompt, vars, editor, ai, TypeOK, QuietStep
<1>2. ASSUME NEW s \in Scripts, Ask(s)
      PROVE  QuietStep
  BY <1>2 DEF Ask, ai, TypeOK, QuietStep
<1>3. ASSUME NEW p \in Plans, TimerFires(p)
      PROVE  QuietStep \/ \E s \in Scripts : TimerStops(p, s)
  BY <1>3 DEF TimerFires, TypeOK, QuietStep, TimerStops
<1>4. QED
  BY <1>1, <1>2, <1>3 DEF ThreadStep, Next, UserNext, RunNext

-----------------------------------------------------------------------------
(* Types, and what has been started and confirmed.                           *)

\* The parts of TypeOK by the component they are about.
EditorType ==
  /\ running \in Scripts \cup {None} /\ prompt \in Scripts \cup {None}
  /\ last \in 0..MaxRuns
  /\ script \in [Runs -> Scripts \cup {None}]
  /\ record \in [Runs -> {"none", "open", "zero", "other"}]
  /\ \A r \in Runs : record[r] = "none" <=> r > last
  /\ mixed \subseteq Runs /\ overlapped \subseteq Runs
ThreadType ==
  /\ handle \in [Scripts -> 0..MaxRuns]
  /\ phase \in [Runs -> {"none", "starting", "executing", "joining", "gone", "answered"}]
  /\ result \in [Runs -> {"none", "zero", "other"}] /\ adrift \subseteq Runs
AiType ==
  /\ plans \in 0..MaxPlans /\ plan \in [Scripts -> 0..MaxPlans]
  /\ audit \in [Plans -> {"none", "started", "succeeded", "failed", "cancelled", "timed_out"}]
  /\ started \in [Plans -> 0..MaxRuns]
  /\ timers \subseteq Plans /\ cut \subseteq Plans \X Runs

LEMMA TypeParts == TypeOK <=> EditorType /\ ThreadType /\ AiType
  BY DEF TypeOK, EditorType, ThreadType, AiType

LEMMA BeginTypes ==
  ASSUME TypeOK, Past, NEW s \in Scripts, Begin(s), prompt' \in Scripts \cup {None}
  PROVE  EditorType' /\ ThreadType'
<1>1. EditorType'
  <2>1. \A r \in Runs : record'[r] = "none" <=> r > last'
    BY BeginFacts DEF TypeOK, Runs
  <2>2. last' \in 0..MaxRuns
    BY BeginFacts, ScriptRunsAssumption DEF Runs
  <2>3. mixed' \subseteq Runs /\ overlapped' \subseteq Runs
    <3>1. Unanswered \subseteq Runs
      BY DEF Unanswered, Past
    <3>2. QED
      BY <3>1, BeginFacts DEF TypeOK
  <2>4. QED
    BY <2>1, <2>2, <2>3, BeginFacts DEF EditorType
<1>2. ThreadType'
  <2>1. last' \in 0..MaxRuns
    BY BeginFacts, ScriptRunsAssumption DEF Runs
  <2>2. QED
    BY <2>1, BeginFacts DEF TypeOK, ThreadType
<1>3. QED
  BY <1>1, <1>2

LEMMA TypeStep ==
  ASSUME TypeOK, Past, [Next]_vars
  PROVE  TypeOK'
<1>0. EditorType /\ ThreadType /\ AiType
  BY TypeParts
<1>1. CASE QuietStep
  BY <1>0, <1>1 DEF QuietStep, threads, TypeOK, EditorType, ThreadType, AiType
<1>2. CASE RunWithValues
  <2>1. prompt \in Scripts /\ Begin(prompt) /\ prompt' = None
    BY <1>2 DEF RunWithValues, TypeOK
  <2>2. AiType'
    BY <1>0, <1>2 DEF RunWithValues, ai, AiType
  <2>3. QED
    BY <2>1, <2>2, BeginTypes DEF TypeOK, EditorType, ThreadType, AiType
<1>3. CASE Stop
  <2>1. EditorType'
    <3>1. \A r \in Runs : record'[r] = "none" <=> r > last'
      BY <1>3, StopFacts, <1>0 DEF Stop, EditorType
    <3>2. QED
      BY <1>0, <1>3, <3>1, StopFacts DEF Stop, EditorType
  <2>2. ThreadType' /\ AiType'
    BY <1>0, <1>3, StopFacts, FinishFacts DEF Stop, ThreadType, AiType, threads
  <2>3. QED
    BY <2>1, <2>2 DEF TypeOK, EditorType, ThreadType, AiType
<1>4. CASE Logout
  <2>1. EditorType'
    BY <1>0, <1>4 DEF Logout, EditorType
  <2>2. ThreadType' /\ AiType'
    BY <1>0, <1>4, ScriptRunsAssumption DEF Logout, DropHandles, ThreadType, AiType, threads
  <2>3. QED
    BY <2>1, <2>2 DEF TypeOK, EditorType, ThreadType, AiType
<1>5. ASSUME NEW s \in Scripts, Run(s)
      PROVE  TypeOK'
  <2>1. AiType' /\ prompt' = prompt /\ Begin(s)
    BY <1>0, <1>5 DEF Run, ai, AiType
  <2>2. QED
    BY <2>1, BeginTypes DEF TypeOK, EditorType, ThreadType, AiType
<1>6. ASSUME NEW s \in Scripts, Confirm(s)
      PROVE  TypeOK'
  <2>1. EditorType' /\ ThreadType'
    <3>1. CASE Begin(s) /\ UNCHANGED prompt
      BY <3>1, BeginTypes DEF TypeOK
    <3>2. CASE UNCHANGED <<running, last, script, record, mixed, handle, threads, overlapped>>
               /\ prompt' \in {prompt, s}
      BY <1>0, <3>2 DEF EditorType, ThreadType, threads
    <3>3. QED
      BY <1>6, <3>1, <3>2 DEF Confirm, editor
  <2>2. plans' = plans + 1 /\ plans' \in Plans /\ last' \in 0..MaxRuns
    BY <1>6, <2>1 DEF Confirm, EditorType
  <2>3. AiType'
    <3>1. plans' \in 0..MaxPlans /\ 0 \in 0..MaxRuns
      BY <2>2, ScriptRunsAssumption DEF Plans
    <3>2. CASE running' = s
      <4>1. /\ plan' = [plan EXCEPT ![s] = plans'] /\ audit' = [audit EXCEPT ![plans'] = "started"]
            /\ timers' = timers \cup {plans'} /\ cut' = cut
            /\ started' \in {[started EXCEPT ![plans'] = last'], [started EXCEPT ![plans'] = 0]}
        BY <1>6, <3>2 DEF Confirm
      <4>2. QED
        BY <1>0, <2>2, <3>1, <4>1 DEF AiType
    <3>3. CASE running' # s
      BY <1>0, <1>6, <3>1, <3>3 DEF Confirm, AiType
    <3>4. QED
      BY <3>2, <3>3
  <2>4. QED
    BY <2>1, <2>3 DEF TypeOK, EditorType, ThreadType, AiType
<1>7. ASSUME NEW p \in Plans, NEW s \in Scripts, TimerStops(p, s)
      PROVE  TypeOK'
  <2>1. EditorType'
    <3>1. \A r \in Runs : record'[r] = "none" <=> r > last'
      BY <1>7, StopFacts, <1>0 DEF TimerStops, EditorType
    <3>2. QED
      BY <1>0, <1>7, <3>1, StopFacts DEF TimerStops, EditorType
  <2>2. ThreadType' /\ AiType'
    <3>1. handle[s] # 0 => handle[s] \in Runs
      BY <1>0, ScriptRunsAssumption DEF ThreadType, Runs
    <3>2. cut' \subseteq Plans \X Runs
      BY <1>0, <1>7, <3>1 DEF TimerStops, AiType
    <3>3. QED
      BY <1>0, <1>7, <3>2, StopFacts, FinishFacts DEF TimerStops, ThreadType, AiType, threads
  <2>3. QED
    BY <2>1, <2>2 DEF TypeOK, EditorType, ThreadType, AiType
<1>8. ASSUME NEW r \in Runs, ThreadStep(r)
      PROVE  TypeOK'
  BY <1>8, ThreadFacts DEF TypeOK, editor, ai
<1>9. ASSUME NEW r \in Runs, Drain(r)
      PROVE  TypeOK'
  BY <1>9, ScriptRunsAssumption DEF Drain, Polled, Past, TypeOK, Runs, threads, ai
<1>10. ASSUME NEW r \in Runs, Applies(r)
       PROVE  TypeOK'
  <2>1. EditorType'
    <3>1. \A q \in Runs : record'[q] = "none" <=> q > last'
      <4>1. record[last] # "none" /\ record'[last] # "none"
        BY <1>10, AppliesFacts, <1>0 DEF EditorType, Runs
      <4>2. QED
        BY <1>10, <4>1, AppliesFacts, <1>0 DEF EditorType
    <3>2. QED
      BY <1>0, <1>10, <3>1, AppliesFacts DEF EditorType
  <2>2. ThreadType'
    BY <1>0, <1>10, AppliesFacts DEF ThreadType
  <2>3. AiType'
    BY <1>0, <1>10, AppliesFacts, FinishFacts DEF AiType
  <2>4. QED
    BY <2>1, <2>2, <2>3 DEF TypeOK, EditorType, ThreadType, AiType
<1>11. QED
  BY <1>1, <1>2, <1>3, <1>4, <1>5, <1>6, <1>7, <1>8, <1>9, <1>10, StepKinds

\* What a confirmation does for the assistant: action plans' is new, and tracked if
\* the script is the one shown afterwards.
LEMMA ConfirmFacts ==
  ASSUME TypeOK, NEW s \in Scripts, Confirm(s)
  PROVE  /\ plans' = plans + 1 /\ plans' \in Plans /\ cut' = cut
         /\ \A p \in Plans \ {plans'} : started'[p] = started[p] /\ audit'[p] = audit[p]
         /\ \A t \in Scripts \ {s} : plan'[t] = plan[t]
         /\ \/ /\ running' = s /\ plan'[s] = plans' /\ audit'[plans'] = "started"
               /\ started'[plans'] = IF last' # last THEN last' ELSE 0
            \/ UNCHANGED <<plan, audit, started>> /\ running' # s
         /\ \/ running = None /\ Begin(s)
            \/ UNCHANGED <<running, last, script, record, mixed, handle, threads, overlapped>>
<1>1. plans' = plans + 1 /\ plans' \in Plans /\ cut' = cut
  BY DEF Confirm
<1>2. CASE running' = s
  <2>1. /\ plan' = [plan EXCEPT ![s] = plans'] /\ audit' = [audit EXCEPT ![plans'] = "started"]
        /\ started' = [started EXCEPT ![plans'] = IF last' # last THEN last' ELSE 0]
    BY <1>2 DEF Confirm
  <2>2. /\ \A p \in Plans \ {plans'} : started'[p] = started[p] /\ audit'[p] = audit[p]
        /\ \A t \in Scripts \ {s} : plan'[t] = plan[t]
        /\ plan'[s] = plans' /\ audit'[plans'] = "started"
        /\ started'[plans'] = IF last' # last THEN last' ELSE 0
    BY <1>1, <2>1 DEF TypeOK
  <2>3. QED
    BY <1>1, <1>2, <2>2 DEF Confirm, editor
<1>3. CASE running' # s
  BY <1>1, <1>3 DEF Confirm, editor
<1>4. QED
  BY <1>2, <1>3

LEMMA BeginPast ==
  ASSUME TypeOK, Past, NEW s \in Scripts, Begin(s)
  PROVE  Past'
<1>1. \A r \in Runs \ {last'} : phase'[r] = phase[r]
  BY BeginFacts DEF TypeOK
<1>2. ASSUME NEW r \in Runs
      PROVE  (phase'[r] # "none" => r <= last') /\ (r <= last' => script'[r] \in Scripts)
  <2>1. CASE r = last'
    BY <2>1, BeginFacts DEF Runs
  <2>2. CASE r # last'
    <3>1. phase'[r] = phase[r] /\ script'[r] = script[r] /\ last' = last + 1
      BY <1>1, <2>2, BeginFacts
    <3>2. QED
      BY <2>2, <3>1 DEF Past, TypeOK, Runs
  <2>3. QED
    BY <2>1, <2>2
<1>3. running' # None => last' \in Runs /\ script'[last'] = running'
  BY BeginFacts
<1>4. QED
  BY <1>2, <1>3 DEF Past

LEMMA PastStep ==
  ASSUME TypeOK, Past, [Next]_vars
  PROVE  Past'
<1>1. CASE QuietStep \/ Logout
  BY <1>1 DEF QuietStep, Logout, threads, Past
<1>2. CASE RunWithValues
  BY <1>2, BeginPast DEF RunWithValues, TypeOK
<1>3. CASE Stop
  BY <1>3 DEF Stop, StopRunning, threads, Past
<1>4. ASSUME NEW s \in Scripts, Run(s)
      PROVE  Past'
  BY <1>4, BeginPast DEF Run
<1>5. ASSUME NEW s \in Scripts, Confirm(s)
      PROVE  Past'
  <2>1. CASE Begin(s)
    BY <2>1, BeginPast
  <2>2. CASE UNCHANGED <<running, last, script, phase>>
    BY <2>2 DEF Past
  <2>3. QED
    BY <1>5, <2>1, <2>2, ConfirmFacts DEF threads
<1>6. ASSUME NEW p \in Plans, NEW s \in Scripts, TimerStops(p, s)
      PROVE  Past'
  BY <1>6 DEF TimerStops, StopRunning, threads, Past
<1>7. ASSUME NEW r \in Runs, ThreadStep(r)
      PROVE  Past'
  BY <1>7, ThreadFacts DEF editor, Past
<1>8. ASSUME NEW r \in Runs, Drain(r)
      PROVE  Past'
  BY <1>8 DEF Drain, threads, Past
<1>9. ASSUME NEW r \in Runs, Applies(r)
      PROVE  Past'
  BY <1>9, AppliesFacts DEF Past
<1>10. QED
  BY <1>1, <1>2, <1>3, <1>4, <1>5, <1>6, <1>7, <1>8, <1>9, StepKinds

\* The end of a run concerns no action but the tracked one.
LEMMA FinishTracked ==
  ASSUME TypeOK, Tracked, NEW s \in Scripts,
         NEW status \in {"succeeded", "failed", "cancelled", "timed_out"},
         Finish(s, status), plans' = plans,
         \A p \in Plans : \A r \in Runs : <<p, r>> \in cut' => <<p, r>> \in cut \/ p <= plans
  PROVE  Tracked'
<1>1. \A t \in Scripts : plan'[t] <= plans'
  BY FinishFacts DEF Tracked, TypeOK
<1>2. \A p \in Plans : p > plans => audit'[p] = audit[p]
  BY FinishFacts DEF Tracked, TypeOK, Plans
<1>3. \A p \in Plans : p > plans => \A r \in Runs : <<p, r>> \notin cut'
  BY DEF Tracked, TypeOK, Plans
<1>4. QED
  BY <1>1, <1>2, <1>3 DEF Tracked

LEMMA TrackedStep ==
  ASSUME TypeOK, Past, Tracked, [Next]_vars
  PROVE  Tracked'
<1>1. CASE QuietStep
  BY <1>1 DEF QuietStep, Tracked
<1>2. CASE RunWithValues
  BY <1>2 DEF RunWithValues, ai, Tracked
<1>3. CASE Stop
  BY <1>3, StopFacts, FinishTracked DEF Stop
<1>4. CASE Logout
  BY <1>4 DEF Logout, Tracked, TypeOK
<1>5. ASSUME NEW s \in Scripts, Run(s)
      PROVE  Tracked'
  BY <1>5 DEF Run, ai, Tracked
<1>6. ASSUME NEW s \in Scripts, Confirm(s)
      PROVE  Tracked'
  <2>1. plans' = plans + 1 /\ plans' \in Plans /\ plans \in Nat /\ cut' = cut
    BY <1>6, ConfirmFacts DEF TypeOK
  <2>2. \A t \in Scripts : plan'[t] <= plans'
    BY <1>6, <2>1, ConfirmFacts DEF Tracked, TypeOK
  <2>3. ASSUME NEW p \in Plans, p > plans'
        PROVE  audit'[p] = "none" /\ \A r \in Runs : <<p, r>> \notin cut'
    <3>1. p # plans' /\ p > plans
      BY <2>1, <2>3 DEF Plans
    <3>2. QED
      BY <1>6, <2>1, <3>1, ConfirmFacts DEF Tracked
  <2>4. QED
    BY <2>2, <2>3 DEF Tracked
<1>7. ASSUME NEW p \in Plans, NEW s \in Scripts, TimerStops(p, s)
      PROVE  Tracked'
  <2>1. p <= plans
    BY <1>7 DEF TimerStops, TimerOwnsRun, Tracked
  <2>2. QED
    BY <1>7, <2>1, FinishTracked DEF TimerStops
<1>8. ASSUME NEW r \in Runs, ThreadStep(r) \/ Drain(r)
      PROVE  Tracked'
  BY <1>8, ThreadFacts DEF ai, Tracked, Drain
<1>9. ASSUME NEW r \in Runs, Applies(r)
      PROVE  Tracked'
  BY <1>9, AppliesFacts, FinishTracked
<1>10. QED
  BY <1>1, <1>2, <1>3, <1>4, <1>5, <1>6, <1>7, <1>8, <1>9, StepKinds
-----------------------------------------------------------------------------
(* Runs that follow one another.                                             *)

\* The script shown is stopped, by whom is left open.
Halts(status) ==
  /\ StopRunning /\ Finish(running, status)
  /\ UNCHANGED <<last, script, mixed, threads, plans, started, overlapped>>

LEMMA StopHalts == Stop => Halts("cancelled")
  BY DEF Stop, Halts

LEMMA TimerHalts ==
  ASSUME NEW p \in Plans, NEW s \in Scripts, TimerStops(p, s)
  PROVE  Halts("timed_out") /\ running = s
  BY DEF TimerStops, TimerOwnsRun, Halts

\* Runs that overlapped stay known as such.
LEMMA OverlapGrows ==
  ASSUME TypeOK, [Next]_vars
  PROVE  overlapped \subseteq overlapped'
<1>1. ASSUME NEW s \in Scripts, Begin(s)
      PROVE  overlapped \subseteq overlapped'
  BY <1>1, BeginFacts
<1>2. ASSUME NEW s \in Scripts, Confirm(s), ~Begin(s)
      PROVE  overlapped \subseteq overlapped'
  BY <1>2, ConfirmFacts
<1>3. ASSUME NEW r \in Runs, ThreadStep(r) \/ Drain(r) \/ Applies(r)
      PROVE  overlapped \subseteq overlapped'
  BY <1>3, ThreadFacts DEF Drain, Applies
<1>4. QED
  BY <1>1, <1>2, <1>3, StepKinds
     DEF QuietStep, Stop, Logout, TimerStops, Run, RunWithValues, TypeOK

\* A start overlaps whatever is polled or shown; the others of the older runs stay as
\* they are, without a poller.
LEMMA BeginCalm ==
  ASSUME TypeOK, Past, Calm, NEW s \in Scripts, Begin(s)
  PROVE  /\ \A q \in Runs \ {last'} : phase'[q] = phase[q]
         /\ \A q \in Runs : Polled(q) => {q, last'} \subseteq overlapped'
         /\ running # None => {last, last'} \subseteq overlapped'
         /\ phase[last'] = "none" /\ phase'[last'] \in {"none", "starting"}
         /\ phase'[last'] = "starting" => running' = s /\ handle'[s] = last'
         /\ \A t \in Scripts \ {s} : handle'[t] = handle[t]
         /\ handle'[s] = handle[s] \/ (handle'[s] = last' /\ phase'[last'] = "starting")
<1>1. /\ \A q \in Runs : Polled(q) => {q, last'} \subseteq overlapped'
      /\ running # None => {last, last'} \subseteq overlapped'
  BY BeginFacts DEF Unanswered
<1>2. last' \in Runs /\ phase[last'] = "none" /\ last' # 0
  BY BeginFacts DEF Past, Runs, TypeOK
<1>3. CASE running' = s /\ handle' = [handle EXCEPT ![s] = last']
           /\ phase' = [phase EXCEPT ![last'] = "starting"]
  BY <1>1, <1>2, <1>3 DEF TypeOK
<1>4. CASE handle' = handle /\ phase' = phase
  BY <1>1, <1>2, <1>4
<1>5. QED
  BY <1>3, <1>4, BeginFacts

\* While a poller other than that of the last run is left, the last run overlapped.
LEMMA OtherPolled ==
  ASSUME Calm, NEW r \in Runs, Polled(r), r # last
  PROVE  r \in overlapped /\ last \in overlapped
  BY DEF Calm, LastOnly

LEMMA LastOnlyStep ==
  ASSUME TypeOK, Past, Calm, [Next]_vars
  PROVE  LastOnly'
<1>0. LastOnly
  BY DEF Calm
<1>1. CASE QuietStep
  BY <1>0, <1>1 DEF QuietStep, threads, LastOnly, Polled
<1>2. ASSUME NEW s \in Scripts, Begin(s)
      PROVE  LastOnly'
  <2>1. \A r \in Runs : Polled(r)' => r = last' \/ {r, last'} \subseteq overlapped'
    BY <1>2, BeginCalm DEF Polled
  <2>2. ASSUME NEW t \in Scripts, NEW q \in Runs, handle'[t] = q
        PROVE  Polled(q)' /\ script'[q] = t
    <3>1. CASE q = last' /\ t = s /\ phase'[q] = "starting"
      BY <1>2, <3>1, BeginFacts DEF Polled
    <3>2. CASE handle[t] = q
      <4>1. Polled(q) /\ script[q] = t
        BY <1>0, <3>2 DEF LastOnly
      <4>2. q # last'
        BY <1>2, <4>1, BeginCalm DEF Polled
      <4>3. QED
        BY <1>2, <4>1, <4>2, BeginCalm, BeginFacts DEF Polled
    <3>3. QED
      BY <1>2, <2>2, <3>1, <3>2, BeginCalm
  <2>3. QED
    BY <2>1, <2>2 DEF LastOnly
<1>3. ASSUME NEW status \in {"cancelled", "timed_out"}, Halts(status)
      PROVE  LastOnly'
  <2>1. \A t \in Scripts : \A q \in Runs : handle'[t] = q => handle[t] = q
    BY <1>3, StopFacts DEF Halts, Runs
  <2>2. QED
    BY <1>0, <1>3, <2>1 DEF Halts, threads, LastOnly, Polled
<1>4. CASE Logout
  BY <1>0, <1>4 DEF Logout, DropHandles, threads, LastOnly, Polled, Runs
<1>5. ASSUME NEW s \in Scripts, Confirm(s), ~Begin(s)
      PROVE  LastOnly'
  BY <1>0, <1>5, ConfirmFacts DEF threads, LastOnly, Polled
<1>6. ASSUME NEW r \in Runs, ThreadStep(r)
      PROVE  LastOnly'
  <2>1. \A q \in Runs : Polled(q)' <=> Polled(q)
    BY <1>6, ThreadFacts DEF Polled
  <2>2. last' = last /\ handle' = handle /\ script' = script /\ overlapped' = overlapped
    BY <1>6, ThreadFacts DEF editor
  <2>3. QED
    BY <1>0, <2>1, <2>2 DEF LastOnly
<1>7. ASSUME NEW r \in Runs, Drain(r)
      PROVE  LastOnly'
  BY <1>0, <1>7 DEF Drain, threads, LastOnly, Polled
<1>8. ASSUME NEW r \in Runs, Applies(r)
      PROVE  LastOnly'
  <2>1. \A q \in Runs : Polled(q)' <=> Polled(q) /\ q # r
    BY <1>8, AppliesFacts DEF Polled
  <2>2. ASSUME NEW s \in Scripts, NEW q \in Runs, handle'[s] = q
        PROVE  Polled(q)' /\ script'[q] = s
    <3>1. s # script[r] /\ handle[s] = q
      BY <1>8, <2>2, AppliesFacts DEF Runs
    <3>2. Polled(q) /\ script[q] = s
      BY <1>0, <3>1 DEF LastOnly
    <3>3. QED
      BY <1>8, <2>1, <3>1, <3>2, AppliesFacts
  <2>3. \A q \in Runs : Polled(q)' => q = last' \/ {q, last'} \subseteq overlapped'
    BY <1>0, <1>8, <2>1, AppliesFacts DEF LastOnly
  <2>4. QED
    BY <2>2, <2>3 DEF LastOnly
<1>9. QED
  BY <1>1, <1>2, <1>3, <1>4, <1>5, <1>6, <1>7, <1>8, StepKinds, StopHalts, TimerHalts
     DEF Run, RunWithValues, TypeOK

LEMMA ShownStep ==
  ASSUME TypeOK, Past, Calm, [Next]_vars
  PROVE  Shown'
<1>0. LastOnly /\ Shown
  BY DEF Calm
<1> USE DEF Untold, Executing, Told
<1>1. CASE QuietStep
  BY <1>0, <1>1 DEF QuietStep, threads, Shown
<1>2. ASSUME NEW s \in Scripts, Begin(s)
      PROVE  Shown'
  <2>1. ASSUME NEW r \in Runs, phase'[r] \in {"starting", "executing"}, r \notin overlapped'
        PROVE  running' = script'[r]
    <3>1. r = last' /\ phase'[r] = "starting"
      BY <1>2, <2>1, BeginCalm DEF Polled
    <3>2. QED
      BY <1>2, <3>1, BeginCalm, BeginFacts
  <2>2. QED
    BY <2>1 DEF Shown
<1>3. ASSUME NEW status \in {"cancelled", "timed_out"}, Halts(status)
      PROVE  Shown'
  <2>1. ASSUME NEW r \in Runs, phase'[r] \in {"starting", "executing"}, r \notin overlapped'
        PROVE  handle'[script'[r]] # r
    <3>1. phase'[r] = phase[r] /\ script' = script /\ overlapped' = overlapped
      BY <1>3 DEF Halts, threads
    <3>2. r = last
      BY <2>1, <3>1, OtherPolled DEF Polled
    <3>3. handle'[script'[r]] = 0
      BY <1>3, <3>1, <3>2, StopFacts DEF Halts
    <3>4. QED
      BY <3>3 DEF Runs
  <2>2. QED
    BY <2>1 DEF Shown
<1>4. CASE Logout
  <2>1. ASSUME NEW r \in Runs, phase'[r] \in {"starting", "executing"}
        PROVE  handle'[script'[r]] # r
    <3>1. script'[r] \in Scripts
      BY <1>4, <2>1 DEF Logout, threads, Past
    <3>2. QED
      BY <1>4, <3>1 DEF Logout, DropHandles, Runs
  <2>2. QED
    BY <2>1 DEF Shown
<1>5. ASSUME NEW s \in Scripts, Confirm(s), ~Begin(s)
      PROVE  Shown'
  BY <1>0, <1>5, ConfirmFacts DEF threads, Shown
<1>6. ASSUME NEW r \in Runs, ThreadStep(r)
      PROVE  Shown'
  BY <1>0, <1>6, ThreadFacts DEF editor, Shown
<1>7. ASSUME NEW r \in Runs, Drain(r)
      PROVE  Shown'
  BY <1>0, <1>7 DEF Drain, threads, Shown
<1>8. ASSUME NEW r \in Runs, Applies(r)
      PROVE  Shown'
  <2>1. ASSUME NEW q \in Runs, phase'[q] \in {"starting", "executing"}
        PROVE  q \in overlapped'
    <3>1. q # r /\ phase'[q] = phase[q] /\ Polled(q) /\ Polled(r)
      BY <1>8, <2>1, AppliesFacts DEF Polled
    <3>2. q \in overlapped
      BY <3>1, OtherPolled
    <3>3. QED
      BY <1>8, <3>2, AppliesFacts
  <2>2. QED
    BY <2>1 DEF Shown
<1>9. QED
  BY <1>1, <1>2, <1>3, <1>4, <1>5, <1>6, <1>7, <1>8, StepKinds, StopHalts, TimerHalts
     DEF Run, RunWithValues, TypeOK

\* Once its poller is done a run is left alone.
LEMMA AnsweredStays ==
  ASSUME TypeOK, Past, [Next]_vars, NEW r \in Runs, phase[r] = "answered"
  PROVE  phase'[r] = "answered" /\ result'[r] = result[r]
<1>1. CASE QuietStep \/ Stop \/ Logout
  BY <1>1 DEF QuietStep, Stop, Logout, threads
<1>2. ASSUME NEW s \in Scripts, Begin(s)
      PROVE  phase'[r] = "answered" /\ result'[r] = result[r]
  <2>1. r # last' /\ result' = result
    <3>1. last' = last + 1 /\ result' = result
      BY <1>2, BeginFacts
    <3>2. r <= last
      BY DEF Past
    <3>3. QED
      BY <3>1, <3>2 DEF TypeOK, Runs
  <2>2. QED
    BY <1>2, <2>1, BeginFacts DEF TypeOK
<1>3. ASSUME NEW s \in Scripts, Confirm(s), ~Begin(s)
      PROVE  phase'[r] = "answered" /\ result'[r] = result[r]
  BY <1>3, ConfirmFacts DEF threads
<1>4. ASSUME NEW p \in Plans, NEW s \in Scripts, TimerStops(p, s)
      PROVE  phase'[r] = "answered" /\ result'[r] = result[r]
  BY <1>4 DEF TimerStops, threads
<1>5. ASSUME NEW q \in Runs, ThreadStep(q)
      PROVE  phase'[r] = "answered" /\ result'[r] = result[r]
  BY <1>5, ThreadFacts
<1>6. ASSUME NEW q \in Runs, Drain(q)
      PROVE  phase'[r] = "answered" /\ result'[r] = result[r]
  BY <1>6 DEF Drain, threads
<1>7. ASSUME NEW q \in Runs, Applies(q)
      PROVE  phase'[r] = "answered" /\ result'[r] = result[r]
  BY <1>7, AppliesFacts
<1>8. QED
  BY <1>1, <1>2, <1>3, <1>4, <1>5, <1>6, <1>7, StepKinds DEF Run, RunWithValues, TypeOK

LEMMA ClosedStep ==
  ASSUME TypeOK, Past, Calm, [Next]_vars
  PROVE  Closed'
<1>0. Closed /\ overlapped \subseteq overlapped'
  BY OverlapGrows DEF Calm
<1>1. SUFFICES /\ mixed' \subseteq mixed \cup overlapped
               /\ \A r \in Runs \ overlapped : record'[r] = "zero" =>
                    record[r] = "zero" \/ (phase'[r] = "answered" /\ result'[r] = "zero")
  BY <1>0, AnsweredStays DEF Closed
<1>2. CASE QuietStep \/ Logout
  BY <1>2 DEF QuietStep, Logout
<1>3. ASSUME NEW s \in Scripts, Begin(s)
      PROVE  mixed' = mixed /\ \A r \in Runs : record'[r] = "zero" => record[r] = "zero"
  BY <1>3, BeginFacts
<1>4. ASSUME NEW status \in {"cancelled", "timed_out"}, Halts(status)
      PROVE  mixed' = mixed /\ \A r \in Runs : record'[r] = "zero" => record[r] = "zero"
  BY <1>4, StopFacts DEF Halts
<1>5. ASSUME NEW s \in Scripts, Confirm(s), ~Begin(s)
      PROVE  mixed' = mixed /\ record' = record
  BY <1>5, ConfirmFacts
<1>6. ASSUME NEW r \in Runs, ThreadStep(r)
      PROVE  mixed' = mixed /\ record' = record
  BY <1>6, ThreadFacts DEF editor
<1>7. ASSUME NEW r \in Runs, Drain(r)
      PROVE  mixed' \subseteq mixed \cup overlapped /\ record' = record
  BY <1>7, OtherPolled DEF Drain
<1>8. ASSUME NEW r \in Runs, Applies(r)
      PROVE  mixed' = mixed /\ \A q \in Runs \ overlapped : record'[q] = "zero" =>
               record[q] = "zero" \/ (phase'[q] = "answered" /\ result'[q] = "zero")
  <2>1. r = last \/ last \in overlapped
    BY <1>8, OtherPolled DEF Applies, Polled
  <2>2. QED
    BY <1>8, <2>1, AppliesFacts
<1>9. QED
  BY <1>2, <1>3, <1>4, <1>5, <1>6, <1>7, <1>8, StepKinds, StopHalts, TimerHalts
     DEF Run, RunWithValues, TypeOK

\* When the editor is freed and the action of one script is over, the actions that stay
\* tracked started a run that overlapped, or none.
LEMMA FinishTracker ==
  ASSUME TypeOK, Calm, NEW s \in Scripts,
         NEW status \in {"succeeded", "failed", "cancelled", "timed_out"},
         Finish(s, status), started' = started, overlapped' = overlapped,
         running \in {s, None} \/ last \in overlapped, None \notin Scripts
  PROVE  TrackerInv'
<1>1. ASSUME NEW t \in Scripts, plan'[t] # 0
      PROVE  started'[plan'[t]] \in overlapped' \cup {0}
  <2>1. t # s /\ plan'[t] = plan[t]
    BY <1>1, FinishFacts
  <2>2. \/ started[plan[t]] \in overlapped \cup {0}
        \/ running = t /\ started[plan[t]] = last
    BY <1>1, <2>1 DEF Calm, TrackerInv
  <2>3. QED
    BY <2>1, <2>2
<1>2. QED
  BY <1>1 DEF TrackerInv

LEMMA TrackerStep ==
  ASSUME TypeOK, Past, Tracked, Calm, [Next]_vars
  PROVE  TrackerInv'
<1>0. TrackerInv
  BY DEF Calm
<1>1. CASE QuietStep
  BY <1>0, <1>1 DEF QuietStep, TrackerInv
\* A start makes the run of a tracked action overlap, or finds none shown.
<1>2. ASSUME NEW s \in Scripts, Begin(s), NEW t \in Scripts, plan[t] # 0
      PROVE  started[plan[t]] \in overlapped' \cup {0}
  <2>1. \/ started[plan[t]] \in overlapped \cup {0}
        \/ running = t /\ started[plan[t]] = last
    BY <1>0, <1>2 DEF TrackerInv
  <2>2. running = t => last \in overlapped'
    BY <1>2, BeginCalm, ScriptRunsAssumption
  <2>3. QED
    BY <2>1, <2>2, OverlapGrows
<1>3. ASSUME NEW status \in {"cancelled", "timed_out"}, Halts(status)
      PROVE  TrackerInv'
  BY <1>3, StopFacts, FinishTracker, ScriptRunsAssumption DEF Halts
<1>4. CASE Logout
  BY <1>4 DEF Logout, TrackerInv
<1>5. ASSUME NEW s \in Scripts, Begin(s), UNCHANGED ai
      PROVE  TrackerInv'
  BY <1>2, <1>5 DEF ai, TrackerInv
<1>6. ASSUME NEW s \in Scripts, Confirm(s)
      PROVE  TrackerInv'
  <2>0. plans' \in Plans /\ \A t \in Scripts : plan[t] < plans' /\ plan[t] \in Nat
    BY <1>6, ConfirmFacts DEF Tracked, TypeOK
  <2>1. ASSUME NEW t \in Scripts, plan'[t] # 0, plan'[t] = plan[t]
        PROVE  \/ started'[plan'[t]] \in overlapped' \cup {0}
               \/ running' = t /\ started'[plan'[t]] = last'
    <3>1. plan[t] \in Plans /\ plan[t] # plans'
      BY <2>0, <2>1 DEF TypeOK, Plans
    <3>2. started'[plan[t]] = started[plan[t]]
      BY <1>6, <3>1, ConfirmFacts
    <3>3. CASE Begin(s)
      BY <1>2, <2>1, <3>2, <3>3
    <3>4. CASE UNCHANGED <<running, last, overlapped>>
      BY <1>0, <2>1, <3>2, <3>4 DEF TrackerInv
    <3>5. QED
      BY <1>6, <3>3, <3>4, ConfirmFacts
  <2>2. CASE /\ running' = s /\ plan'[s] = plans'
             /\ started'[plans'] = IF last' # last THEN last' ELSE 0
    BY <1>6, <2>1, <2>2, ConfirmFacts DEF TrackerInv
  <2>3. CASE UNCHANGED plan
    BY <2>1, <2>3 DEF TrackerInv
  <2>4. QED
    BY <1>6, <2>2, <2>3, ConfirmFacts
<1>7. ASSUME NEW r \in Runs, ThreadStep(r)
      PROVE  TrackerInv'
  BY <1>0, <1>7, ThreadFacts DEF editor, ai, TrackerInv
<1>8. ASSUME NEW r \in Runs, Drain(r)
      PROVE  TrackerInv'
  BY <1>0, <1>8 DEF Drain, ai, TrackerInv
<1>9. ASSUME NEW r \in Runs, Applies(r)
      PROVE  TrackerInv'
  <2>1. r = last \/ last \in overlapped
    BY <1>9, OtherPolled DEF Applies, Polled
  <2>2. running \in {script[r], None} \/ last \in overlapped
    BY <2>1 DEF Past
  <2>3. QED
    BY <1>9, <2>2, AppliesFacts, FinishTracker, ScriptRunsAssumption
<1>10. QED
  BY <1>1, <1>3, <1>4, <1>5, <1>6, <1>7, <1>8, <1>9, StepKinds, StopHalts, TimerHalts
     DEF Run, RunWithValues, TypeOK

LEMMA CutStep ==
  ASSUME TypeOK, Past, Tracked, Calm, [Next]_vars
  PROVE  CutInv'
<1>0. LastOnly /\ TrackerInv /\ CutInv /\ overlapped \subseteq overlapped'
  BY OverlapGrows DEF Calm
<1>1. CASE QuietStep \/ RunWithValues \/ Stop \/ Logout
  BY <1>0, <1>1 DEF QuietStep, RunWithValues, Stop, Logout, ai, CutInv
<1>2. ASSUME NEW s \in Scripts, Run(s)
      PROVE  CutInv'
  BY <1>0, <1>2 DEF Run, ai, CutInv
<1>3. ASSUME NEW s \in Scripts, Confirm(s)
      PROVE  CutInv'
  <2>1. cut' = cut /\ plans' > plans /\ plans' \in Plans
    BY <1>3, ConfirmFacts DEF TypeOK
  <2>2. \A r \in Runs : <<plans', r>> \notin cut'
    BY <2>1 DEF Tracked
  <2>3. \A p \in Plans \ {plans'} : started'[p] = started[p]
    BY <1>3, ConfirmFacts
  <2>4. QED
    BY <1>0, <2>1, <2>2, <2>3 DEF CutInv
\* The handle a timer finds is of the last run, which its action started, or the last
\* run overlapped.
<1>4. ASSUME NEW p \in Plans, NEW s \in Scripts, TimerStops(p, s)
      PROVE  CutInv'
  <2>1. ASSUME handle[s] \in Runs
        PROVE  started[p] \in overlapped \cup {0, handle[s]}
    <3>1. Polled(handle[s])
      BY <1>0, <2>1 DEF LastOnly
    <3>2. handle[s] = last \/ last \in overlapped
      BY <2>1, <3>1, OtherPolled
    <3>3. started[p] \in overlapped \cup {0, last}
      BY <1>0, <1>4 DEF TimerStops, TimerOwnsRun, TrackerInv, Plans
    <3>4. QED
      BY <3>2, <3>3
  <2>2. ASSUME NEW q \in Plans, NEW r \in Runs, <<q, r>> \in cut'
        PROVE  <<q, r>> \in cut \/ (q = p /\ r = handle[s])
    BY <1>4, <2>2 DEF TimerStops
  <2>3. started' = started
    BY <1>4 DEF TimerStops
  <2>4. QED
    BY <1>0, <2>1, <2>2, <2>3 DEF CutInv
<1>5. ASSUME NEW r \in Runs, ThreadStep(r) \/ Drain(r) \/ Applies(r)
      PROVE  CutInv'
  BY <1>0, <1>5, ThreadFacts DEF Drain, Applies, ai, CutInv
<1>6. QED
  BY <1>1, <1>2, <1>3, <1>4, <1>5, StepKinds

LEMMA AuditStep ==
  ASSUME TypeOK, Past, Tracked, Calm, [Next]_vars
  PROVE  AuditInv'
<1>0. TrackerInv /\ AuditInv /\ overlapped \subseteq overlapped'
  BY OverlapGrows DEF Calm
\* It is enough that an action is audited as succeeded, or has a start, only if it
\* was and had one before, or the run it started is answered with success now.
<1>1. SUFFICES ASSUME NEW p \in Plans, audit'[p] = "succeeded",
                      started'[p] \notin overlapped' \cup {0}
               PROVE  \/ audit[p] = "succeeded" /\ started'[p] = started[p]
                      \/ phase'[started'[p]] = "answered" /\ result'[started'[p]] = "zero"
  <2>1. started' \in [Plans -> 0..MaxRuns]
    BY TypeStep DEF TypeOK
  <2>2. \A p \in Plans : started'[p] # 0 => started'[p] \in Runs
    BY <2>1, ScriptRunsAssumption DEF Runs
  <2>3. QED
    BY <1>0, <1>1, <2>2, AnsweredStays DEF AuditInv
<1>2. CASE QuietStep \/ RunWithValues \/ Logout
  BY <1>1, <1>2 DEF QuietStep, RunWithValues, Logout, ai
<1>3. ASSUME NEW s \in Scripts, Run(s)
      PROVE  audit[p] = "succeeded" /\ started'[p] = started[p]
  BY <1>1, <1>3 DEF Run, ai
<1>4. ASSUME NEW status \in {"cancelled", "timed_out"}, Halts(status)
      PROVE  audit[p] = "succeeded" /\ started'[p] = started[p]
  BY <1>1, <1>4, StopFacts, FinishFacts DEF Halts
<1>5. ASSUME NEW s \in Scripts, Confirm(s)
      PROVE  audit[p] = "succeeded" /\ started'[p] = started[p]
  <2>1. p # plans'
    <3>1. plans' > plans
      BY <1>5, ConfirmFacts DEF TypeOK
    <3>2. audit'[plans'] \in {"started", "none"}
      BY <1>5, <3>1, ConfirmFacts DEF Tracked
    <3>3. QED
      BY <1>1, <3>2
  <2>2. QED
    BY <1>1, <1>5, <2>1, ConfirmFacts
<1>6. ASSUME NEW r \in Runs, ThreadStep(r) \/ Drain(r)
      PROVE  audit[p] = "succeeded" /\ started'[p] = started[p]
  BY <1>1, <1>6, ThreadFacts DEF Drain, ai
<1>7. ASSUME NEW r \in Runs, Applies(r)
      PROVE  \/ audit[p] = "succeeded" /\ started'[p] = started[p]
             \/ phase'[started'[p]] = "answered" /\ result'[started'[p]] = "zero"
  <2>1. /\ r = last \/ last \in overlapped
        /\ script[r] \in Scripts /\ started' = started /\ result' = result
        /\ phase'[r] = "answered"
    BY <1>7, AppliesFacts, OtherPolled DEF Polled
  <2>2. CASE audit[p] # "succeeded"
    <3>1. plan[script[r]] = p /\ result[r] = "zero"
      BY <1>1, <1>7, <2>1, <2>2, AppliesFacts, FinishFacts
    <3>2. started[p] = r
      BY <1>0, <1>1, <2>1, <3>1 DEF TrackerInv, Plans
    <3>3. QED
      BY <2>1, <3>1, <3>2
  <2>3. QED
    BY <2>1, <2>2
<1>8. QED
  BY <1>1, <1>2, <1>3, <1>4, <1>5, <1>6, <1>7, StepKinds, StopHalts, TimerHalts
-----------------------------------------------------------------------------
(* The invariant and what follows from it.                                   *)

LEMMA InitInv == Init => Inv
<1> SUFFICES ASSUME Init
             PROVE  Inv
  OBVIOUS
<1>1. TypeOK
  <2>1. EditorType
    <3>1. \A r \in Runs : record[r] = "none" /\ r > last
      BY ScriptRunsAssumption DEF Init, Runs
    <3>2. mixed = {} /\ overlapped = {} /\ running = None /\ prompt = None
      BY DEF Init
    <3>3. last \in 0..MaxRuns
      BY ScriptRunsAssumption DEF Init
    <3>4. /\ script \in [Runs -> Scripts \cup {None}]
          /\ record \in [Runs -> {"none", "open", "zero", "other"}]
      BY DEF Init
    <3>5. QED
      BY <3>1, <3>2, <3>3, <3>4 DEF EditorType
  <2>2. ThreadType
    BY ScriptRunsAssumption DEF Init, ThreadType
  <2>3. AiType
    BY ScriptRunsAssumption DEF Init, AiType
  <2>4. QED
    BY <2>1, <2>2, <2>3, TypeParts
<1>2. Past /\ Tracked
  BY ScriptRunsAssumption DEF Init, Past, Tracked, Runs
<1>3. LastOnly /\ Shown /\ Closed
  BY DEF Init, LastOnly, Shown, Closed, Polled, Untold, Executing, Runs
<1>4. TrackerInv /\ CutInv /\ AuditInv
  BY DEF Init, TrackerInv, CutInv, AuditInv
<1>5. QED
  BY <1>1, <1>2, <1>3, <1>4 DEF Inv, Calm

LEMMA StepInv == Inv /\ [Next]_vars => Inv'
<1> SUFFICES ASSUME Inv, [Next]_vars
             PROVE  Inv'
  OBVIOUS
<1>1. TypeOK /\ Past /\ Tracked /\ Calm
  BY DEF Inv
<1>2. TypeOK' /\ Past' /\ Tracked'
  BY <1>1, TypeStep, PastStep, TrackedStep
<1>3. Calm'
  <2>1. LastOnly' /\ Shown' /\ Closed'
    BY <1>1, LastOnlyStep, ShownStep, ClosedStep
  <2>2. TrackerInv' /\ CutInv' /\ AuditInv'
    BY <1>1, TrackerStep, CutStep, AuditStep
  <2>3. QED
    BY <2>1, <2>2 DEF Calm
<1>4. QED
  BY <1>2, <1>3 DEF Inv

THEOREM Invariance == Spec => []Inv
  BY InitInv, StepInv, PTL DEF Spec

\* The state has its values, and the history has a record of every start and of no
\* other (run_script_with_values, StopScript, the poller).
THEOREM ScriptTypes == Spec => []TypeOK
<1>1. Inv => TypeOK
  BY DEF Inv
<1>2. QED
  BY <1>1, Invariance, PTL

\* A command nothing told to stop is the one the editor shows, whatever overlapped
\* before it: only a run that overlapped another itself can lose its Stop (StopScript,
\* the end of the poller).
THEOREM UntoldIsShown == Spec => []UntoldRunIsShown
<1>1. Inv => UntoldRunIsShown
  BY DEF Inv, Calm, Shown, UntoldRunIsShown
<1>2. QED
  BY <1>1, Invariance, PTL

\* The record of a run that overlapped no other closes with exit code 0 only if the
\* command of that run did, and has only its lines; a late answer falls into the
\* record of a run that overlapped (the poller, StopScript).
THEOREM TruthfulRecords == Spec => []RecordsAreTruthful
<1>1. Inv => RecordsAreTruthful
  BY DEF Inv, TypeOK, Calm, Closed, RecordsAreTruthful
<1>2. QED
  BY <1>1, Invariance, PTL

\* The timer of an AI action stops the run that action started and no later one, if
\* that run overlapped no other (ai_timeout_outcome, finish_ai_script_run).
THEOREM TimersStopTheirs == Spec => []TimersStopTheirRun
<1>1. Inv => TimersStopTheirRun
  <2> SUFFICES ASSUME Inv, NEW c \in cut
               PROVE  started[c[1]] \in overlapped \cup {0, c[2]}
    BY DEF TimersStopTheirRun
  <2>1. c \in Plans \X Runs
    BY DEF Inv, TypeOK
  <2>2. PICK p \in Plans, r \in Runs : c = <<p, r>>
    BY <2>1
  <2>3. QED
    BY <2>2 DEF Inv, Calm, CutInv
<1>2. QED
  BY <1>1, Invariance, PTL

\* An AI action whose run overlapped no other is audited as succeeded only if the
\* command it started did (finish_ai_script_run).
THEOREM TruthfulAudit == Spec => []AuditIsTruthful
<1>1. Inv => AuditIsTruthful
  BY DEF Inv, Calm, AuditInv, AuditIsTruthful
<1>2. QED
  BY <1>1, Invariance, PTL
=============================================================================
