-------------------------- MODULE FleetRuntime_proofs --------------------------
(***************************************************************************)
(* Proofs about FleetRuntime, for any number of jobs, of background threads   *)
(* and of switches.                                                         *)
(***************************************************************************)
EXTENDS FleetRuntime, FiniteSetTheorems, TLAPS

-----------------------------------------------------------------------------
(* The parts of the invariant.                                              *)

\* What a background thread can be at: a tick has no job before its claim and,
\* when it waits to be applied, only one that is left to the user.
WorkShape(x) ==
  \/ x = Idle
  \/ /\ x.kind = "tick"
     /\ \/ x.phase = "claim" /\ x.job = None
        \/ x.phase \in {"start", "run"} /\ x.job \in Jobs
        \/ x.phase = "done"
  \/ /\ x.kind = "approved"
     /\ \/ x.phase \in {"start", "run"} /\ x.job \in Jobs
        \/ x.phase = "done" /\ x.job = None

\* The loop exists only in an enabled runtime of a signed-in user, and waits for
\* the tick it started.
LoopInv ==
  /\ loop # "none" => enabled /\ signedIn
  /\ tick # None => work[tick].kind = "tick"

\* While the file holds the user's choice, so does the program.
ChoiceInv == ~tainted => saved = enabled /\ enabled = wanted

\* Before it is stopped with work under way the runtime has one thing to do: a tick
\* it waits for, a job it offers and is busy with, or a job that was approved.
LoneInv ==
  ~interrupted =>
    /\ shown = awaiting
    /\ \A i, j \in awaiting : i = j
    /\ awaiting # {} => busy /\ \A w \in Workers : work[w] = Idle
    /\ \A w \in Workers :
         /\ work[w].kind = "tick" => tick = w /\ ~busy
         /\ work[w].kind = "approved" => busy
    /\ \A v, w \in Workers : work[v] # Idle /\ work[w] # Idle => v = w

\* A job is in one place at a time, and nowhere before it was claimed.
OnOffer(j) == j \in awaiting \cup shown
PlaceInv ==
  \A j \in Jobs :
    /\ \A w \in Workers : work[w].job = j => ~OnOffer(j) /\ j \notin rejecting
    /\ \A v, w \in Workers : work[v].job = j /\ work[w].job = j => v = w
    /\ OnOffer(j) => j \notin rejecting
    /\ server[j] = "pending" =>
         ~OnOffer(j) /\ j \notin rejecting /\ \A w \in Workers : work[w].job # j

\* A job that was started is nowhere but on the thread that executes it, and so
\* will not be started again; one that was cancelled is nowhere.
OnceInv ==
  \A j \in Jobs :
    /\ runs[j] \in {0, 1}
    /\ runs[j] = 1 =>
         /\ ~OnOffer(j) /\ j \notin rejecting
         /\ server[j] \notin {"pending", "cancelled"}
         /\ \A w \in Workers : work[w].job = j => work[w].phase = "run"
    /\ server[j] = "cancelled" => ~OnOffer(j) /\ \A w \in Workers : work[w].job # j

Inv == /\ TypeOK
       /\ \A w \in Workers : WorkShape(work[w])
       /\ LoopInv /\ ChoiceInv /\ LoneInv /\ PlaceInv /\ OnceInv
       /\ AssignedJobsAreHeld
-----------------------------------------------------------------------------
(* What the steps do to the background threads.                              *)

Phases == {"none", "claim", "start", "run", "done"}

\* Only thread w changes, and it stays what it is: a tick or an approved job.
Moves(w) ==
  /\ work' \in [Workers -> WorkStates]
  /\ \A v \in Workers \ {w} : work'[v] = work[v]
  /\ work'[w].kind = work[w].kind
  /\ work'[w].phase # "claim"

LEMMA Items ==
  /\ Idle \in WorkStates /\ Idle.kind = "none" /\ Idle.phase = "none" /\ Idle.job = None
  /\ \A x \in WorkStates : \A p \in Phases : \A j \in Jobs \cup {None} :
       /\ [x EXCEPT !.phase = p] \in WorkStates
       /\ [x EXCEPT !.phase = p].kind = x.kind
       /\ [x EXCEPT !.phase = p].phase = p
       /\ [x EXCEPT !.phase = p].job = x.job
       /\ [[x EXCEPT !.phase = p] EXCEPT !.job = j] \in WorkStates
       /\ [[x EXCEPT !.phase = p] EXCEPT !.job = j].kind = x.kind
       /\ [[x EXCEPT !.phase = p] EXCEPT !.job = j].phase = p
       /\ [[x EXCEPT !.phase = p] EXCEPT !.job = j].job = j
<1>1. Idle \in WorkStates /\ Idle.kind = "none" /\ Idle.phase = "none" /\ Idle.job = None
  BY DEF Idle, WorkStates, Phases
<1>2. ASSUME NEW x \in WorkStates, NEW p \in Phases
      PROVE  /\ [x EXCEPT !.phase = p] \in WorkStates
             /\ [x EXCEPT !.phase = p].kind = x.kind
             /\ [x EXCEPT !.phase = p].phase = p
             /\ [x EXCEPT !.phase = p].job = x.job
  BY DEF WorkStates, Phases
<1>3. ASSUME NEW y \in WorkStates, NEW j \in Jobs \cup {None}
      PROVE  /\ [y EXCEPT !.job = j] \in WorkStates
             /\ [y EXCEPT !.job = j].kind = y.kind
             /\ [y EXCEPT !.job = j].phase = y.phase
             /\ [y EXCEPT !.job = j].job = j
  BY DEF WorkStates
<1>4. ASSUME NEW x \in WorkStates, NEW p \in Phases, NEW j \in Jobs \cup {None}
      PROVE  /\ [x EXCEPT !.phase = p] \in WorkStates
             /\ [x EXCEPT !.phase = p].kind = x.kind
             /\ [x EXCEPT !.phase = p].phase = p
             /\ [x EXCEPT !.phase = p].job = x.job
             /\ [[x EXCEPT !.phase = p] EXCEPT !.job = j] \in WorkStates
             /\ [[x EXCEPT !.phase = p] EXCEPT !.job = j].kind = x.kind
             /\ [[x EXCEPT !.phase = p] EXCEPT !.job = j].phase = p
             /\ [[x EXCEPT !.phase = p] EXCEPT !.job = j].job = j
  <2> DEFINE y == [x EXCEPT !.phase = p]
  <2>1. y \in WorkStates /\ y.kind = x.kind /\ y.phase = p /\ y.job = x.job
    BY <1>2
  <2> HIDE DEF y
  <2>2. /\ [y EXCEPT !.job = j] \in WorkStates
        /\ [y EXCEPT !.job = j].kind = y.kind
        /\ [y EXCEPT !.job = j].phase = y.phase
        /\ [y EXCEPT !.job = j].job = j
    BY <1>3, <2>1
  <2>3. QED
    BY <2>1, <2>2 DEF y
<1>5. QED
  BY <1>1, <1>4

\* Thread w goes on to phase p, with the job it had or with job j.
LEMMA PhaseMoves ==
  ASSUME TypeOK, NEW w \in Workers, NEW p \in Phases \ {"claim"},
         work' = [work EXCEPT ![w] = Phase(w, p)]
  PROVE  Moves(w) /\ work'[w].phase = p /\ work'[w].job = work[w].job
<1>1. work \in [Workers -> WorkStates] /\ work[w] \in WorkStates
  BY DEF TypeOK
<1>2. /\ Phase(w, p) \in WorkStates /\ Phase(w, p).kind = work[w].kind
      /\ Phase(w, p).phase = p /\ Phase(w, p).job = work[w].job
  <2>1. \A x \in WorkStates :
          /\ [x EXCEPT !.phase = p] \in WorkStates
          /\ [x EXCEPT !.phase = p].kind = x.kind
          /\ [x EXCEPT !.phase = p].phase = p
          /\ [x EXCEPT !.phase = p].job = x.job
    BY DEF WorkStates, Phases
  <2>2. QED
    BY <1>1, <2>1 DEF Phase
<1>3. QED
  BY <1>1, <1>2 DEF Moves

LEMMA JobMoves ==
  ASSUME TypeOK, NEW w \in Workers, NEW p \in Phases \ {"claim"},
         NEW j \in Jobs \cup {None},
         work' = [work EXCEPT ![w] = [Phase(w, p) EXCEPT !.job = j]]
  PROVE  Moves(w) /\ work'[w].phase = p /\ work'[w].job = j
<1>1. work \in [Workers -> WorkStates] /\ work[w] \in WorkStates
  BY DEF TypeOK
<1>2. /\ [Phase(w, p) EXCEPT !.job = j] \in WorkStates
      /\ [Phase(w, p) EXCEPT !.job = j].kind = work[w].kind
      /\ [Phase(w, p) EXCEPT !.job = j].phase = p
      /\ [Phase(w, p) EXCEPT !.job = j].job = j
  <2>1. \A x \in WorkStates :
          /\ [[x EXCEPT !.phase = p] EXCEPT !.job = j] \in WorkStates
          /\ [[x EXCEPT !.phase = p] EXCEPT !.job = j].kind = x.kind
          /\ [[x EXCEPT !.phase = p] EXCEPT !.job = j].phase = p
          /\ [[x EXCEPT !.phase = p] EXCEPT !.job = j].job = j
    BY DEF WorkStates, Phases
  <2>2. QED
    BY <1>1, <2>1 DEF Phase
<1>3. QED
  BY <1>1, <1>2 DEF Moves

\* A free thread is given a tick or an approved job, and a thread that is done
\* becomes free.
LEMMA StartMoves ==
  ASSUME TypeOK, NEW w \in Workers, NEW x \in WorkStates, Start(w, x)
  PROVE  /\ work[w] = Idle /\ work' \in [Workers -> WorkStates] /\ work'[w] = x
         /\ \A v \in Workers \ {w} : work'[v] = work[v]
  BY DEF TypeOK, Start

LEMMA FreeMoves ==
  ASSUME TypeOK, NEW w \in Workers, work' = [work EXCEPT ![w] = Idle]
  PROVE  /\ work' \in [Workers -> WorkStates] /\ work'[w] = Idle
         /\ \A v \in Workers \ {w} : work'[v] = work[v]
  BY Items DEF TypeOK

\* The items the loop and the user hand to a thread.
LEMMA NewItems ==
  /\ \A a \in BOOLEAN :
       [kind |-> "tick", phase |-> "claim", job |-> None, auto |-> a] \in WorkStates
  /\ \A j \in Jobs :
       [kind |-> "approved", phase |-> "start", job |-> j, auto |-> FALSE] \in WorkStates
  BY DEF WorkStates

\* The three steps of an execution.
LEMMA ClaimFacts ==
  ASSUME TypeOK, NEW w \in Workers, TickClaims(w)
  PROVE  /\ Moves(w)
         /\ \/ \E j \in Jobs :
                 /\ server[j] = "pending" /\ server' = [server EXCEPT ![j] = "claimed"]
                 /\ \/ /\ work'[w].job = j /\ work'[w].phase \in {"start", "done"}
                       /\ lost' = lost
                    \/ /\ work'[w].job = work[w].job /\ work'[w].phase = "done"
                       /\ lost' = TRUE
            \/ /\ work'[w].job = work[w].job /\ work'[w].phase = "done"
               /\ UNCHANGED <<server, lost>>
<1>1. ASSUME work' = [work EXCEPT ![w] = Phase(w, "done")]
      PROVE  Moves(w) /\ work'[w].job = work[w].job /\ work'[w].phase = "done"
  BY <1>1, PhaseMoves DEF Phases
<1>2. ASSUME NEW j \in Jobs,
             work' = [work EXCEPT ![w] =
               [Phase(w, IF work[w].auto THEN "start" ELSE "done") EXCEPT !.job = j]]
      PROVE  Moves(w) /\ work'[w].job = j /\ work'[w].phase \in {"start", "done"}
  <2>1. PICK p \in {"start", "done"} :
          work' = [work EXCEPT ![w] = [Phase(w, p) EXCEPT !.job = j]]
    BY <1>2
  <2>2. QED
    BY <2>1, JobMoves DEF Phases
<1>3. QED
  BY <1>1, <1>2 DEF TickClaims

LEMMA StartFacts ==
  ASSUME TypeOK, NEW w \in Workers, JobStarts(w), work[w].job \in Jobs
  PROVE  /\ Moves(w)
         /\ \/ /\ server' = [server EXCEPT ![work[w].job] = "running"]
               /\ runs' = [runs EXCEPT ![work[w].job] = @ + 1]
               /\ work'[w].phase = "run" /\ work'[w].job = work[w].job /\ lost' = lost
            \/ /\ server' = [server EXCEPT ![work[w].job] = "running"] \/ UNCHANGED server
               /\ work'[w].phase = "done" /\ work'[w].job = None
               /\ lost' = TRUE /\ runs' = runs
<1>1. CASE work' = [work EXCEPT ![w] = Phase(w, "run")]
           /\ Update(work[w].job, "running") /\ UNCHANGED lost
           /\ runs' = [runs EXCEPT ![work[w].job] = @ + 1]
  BY <1>1, PhaseMoves DEF Phases, Update
<1>2. CASE work' = [work EXCEPT ![w] = [Phase(w, "done") EXCEPT !.job = None]]
           /\ MayUpdate(work[w].job, "running") /\ lost' = TRUE /\ UNCHANGED runs
  BY <1>2, JobMoves DEF Phases, Update, MayUpdate
<1>3. QED
  BY <1>1, <1>2 DEF JobStarts

LEMMA EndFacts ==
  ASSUME TypeOK, NEW w \in Workers, JobEnds(w)
  PROVE  /\ Moves(w) /\ work'[w].phase = "done" /\ work'[w].job = None
         /\ \E status \in {"done", "failed"} :
              \/ server' = [server EXCEPT ![work[w].job] = status] /\ lost' = lost
              \/ /\ server' = [server EXCEPT ![work[w].job] = status] \/ UNCHANGED server
                 /\ lost' = TRUE
  BY JobMoves DEF JobEnds, Phases, Update, MayUpdate
-----------------------------------------------------------------------------
(* Types.                                                                   *)

\* The parts of TypeOK, for the flags one by one.
Flags == /\ enabled \in BOOLEAN /\ copy \in BOOLEAN /\ saved \in BOOLEAN
         /\ signedIn \in BOOLEAN /\ busy \in BOOLEAN /\ wanted \in BOOLEAN
         /\ tainted \in BOOLEAN /\ interrupted \in BOOLEAN /\ lost \in BOOLEAN
LoopType == /\ loop \in {"none", "sleeping", "registering", "ticking", "ended"}
            /\ tick \in Workers \cup {None} /\ (tick # None <=> loop = "ticking")
LocalType == /\ inst \in {"confirm", "auto", None}
             /\ awaiting \subseteq Jobs /\ shown \subseteq Jobs /\ rejecting \subseteq Jobs
RemoteType ==
  /\ server \in [Jobs -> {"pending", "claimed", "running", "done", "failed", "cancelled"}]
  /\ runs \in [Jobs -> Nat]
WorkType == work \in [Workers -> WorkStates]

LEMMA TypeParts ==
  TypeOK <=> /\ Flags /\ LoopType /\ LocalType /\ RemoteType /\ WorkType
             /\ switches \in 0..MaxSwitches
  BY DEF TypeOK, Flags, LoopType, LocalType, RemoteType, WorkType

LEMMA FlagsStep ==
  ASSUME Flags, [Next]_vars
  PROVE  Flags'
<1> USE DEF Flags, vars, config, local, remote
<1>1. CASE Enable
  BY <1>1 DEF Enable, Save
<1>2. CASE Disable
  BY <1>2 DEF Disable, Save, ClearLocal, DropTick
<1>3. CASE Login
  BY <1>3 DEF Login, Save
<1>4. CASE Logout
  BY <1>4 DEF Logout, Save, ClearLocal, DropTick
<1>5. CASE SettingsSave \/ WorkspaceSave
  BY <1>5 DEF SettingsSave, WorkspaceSave, Save
<1>6. CASE Restart
  BY <1>6 DEF Restart, ClearLocal
<1>7. CASE LoopSteps \/ RefreshView
  BY <1>7 DEF LoopSteps, RefreshView
<1>8. CASE ApplyRegister
  BY <1>8 DEF ApplyRegister, Save
<1>9. CASE ApplyTick
  BY <1>9 DEF ApplyTick
<1>10. ASSUME NEW w \in Workers, LoopTicks(w) \/ OrphanEnds(w) \/ ApprovedEnds(w)
       PROVE  Flags'
  BY <1>10 DEF LoopTicks, OrphanEnds, ApprovedEnds
<1>11. ASSUME NEW w \in Workers, TickClaims(w) \/ JobStarts(w) \/ JobEnds(w)
       PROVE  Flags'
  BY <1>11 DEF TickClaims, JobStarts, JobEnds
<1>12. ASSUME NEW j \in Jobs, Reject(j) \/ RejectArrives(j) \/ \E w \in Workers : Approve(j, w)
       PROVE  Flags'
  BY <1>12 DEF Reject, RejectArrives, Approve
<1>13. CASE UNCHANGED vars
  BY <1>13
<1>14. QED
  BY <1>1, <1>2, <1>3, <1>4, <1>5, <1>6, <1>7, <1>8, <1>9, <1>10, <1>11, <1>12, <1>13
     DEF Next, LoopNext, UserNext, WorkerNext, WorkerOwes

LEMMA LoopTypeStep ==
  ASSUME LoopType, LoopInv, [Next]_vars
  PROVE  LoopType'
<1> USE FleetRuntimeAssumption DEF LoopType, vars, config, local, remote
<1>1. CASE Enable \/ Disable \/ Login \/ Logout
  BY <1>1 DEF Enable, Disable, Login, Logout, SyncLoop, DropTick, LoopInv
<1>2. CASE SettingsSave \/ WorkspaceSave \/ Restart
  BY <1>2 DEF SettingsSave, WorkspaceSave, Restart
<1>3. CASE LoopSteps \/ RefreshView \/ ApplyRegister \/ ApplyTick
  BY <1>3 DEF LoopSteps, RefreshView, ApplyRegister, ApplyTick
<1>4. ASSUME NEW w \in Workers, LoopTicks(w) \/ OrphanEnds(w) \/ ApprovedEnds(w)
      PROVE  LoopType'
  BY <1>4 DEF LoopTicks, OrphanEnds, ApprovedEnds
<1>5. ASSUME NEW w \in Workers, TickClaims(w) \/ JobStarts(w) \/ JobEnds(w)
      PROVE  LoopType'
  BY <1>5 DEF TickClaims, JobStarts, JobEnds
<1>6. ASSUME NEW j \in Jobs, Reject(j) \/ RejectArrives(j) \/ \E w \in Workers : Approve(j, w)
      PROVE  LoopType'
  BY <1>6 DEF Reject, RejectArrives, Approve
<1>7. CASE UNCHANGED vars
  BY <1>7
<1>8. QED
  BY <1>1, <1>2, <1>3, <1>4, <1>5, <1>6, <1>7 DEF Next, LoopNext, UserNext, WorkerNext, WorkerOwes

LEMMA LocalTypeStep ==
  ASSUME LocalType, WorkType, LoopType, [Next]_vars
  PROVE  LocalType'
<1> USE DEF LocalType, vars, config, local, remote
<1>1. CASE Enable \/ Disable \/ Login \/ Logout
  BY <1>1 DEF Enable, Disable, Login, Logout, ClearLocal
<1>2. CASE SettingsSave \/ WorkspaceSave \/ Restart
  BY <1>2 DEF SettingsSave, WorkspaceSave, Restart, ClearLocal
<1>3. CASE LoopSteps \/ RefreshView \/ ApplyRegister
  BY <1>3 DEF LoopSteps, RefreshView, ApplyRegister
<1>4. CASE ApplyTick
  <2>1. work[tick] \in WorkStates
    BY <1>4 DEF ApplyTick, LoopType, WorkType
  <2>2. work[tick].job # None => work[tick].job \in Jobs
    BY <2>1 DEF WorkStates
  <2>3. QED
    BY <1>4, <2>2 DEF ApplyTick
<1>5. ASSUME NEW w \in Workers, LoopTicks(w) \/ OrphanEnds(w) \/ ApprovedEnds(w)
      PROVE  LocalType'
  BY <1>5 DEF LoopTicks, OrphanEnds, ApprovedEnds
<1>6. ASSUME NEW w \in Workers, TickClaims(w) \/ JobStarts(w) \/ JobEnds(w)
      PROVE  LocalType'
  BY <1>6 DEF TickClaims, JobStarts, JobEnds
<1>7. ASSUME NEW j \in Jobs, Reject(j) \/ RejectArrives(j) \/ \E w \in Workers : Approve(j, w)
      PROVE  LocalType'
  BY <1>7 DEF Reject, RejectArrives, Approve
<1>8. CASE UNCHANGED vars
  BY <1>8
<1>9. QED
  BY <1>1, <1>2, <1>3, <1>4, <1>5, <1>6, <1>7, <1>8 DEF Next, LoopNext, UserNext, WorkerNext, WorkerOwes

LEMMA RemoteTypeStep ==
  ASSUME RemoteType, [Next]_vars
  PROVE  RemoteType'
<1> USE DEF RemoteType, vars, config, local, remote
<1>1. CASE Enable \/ Disable \/ Login \/ Logout
  BY <1>1 DEF Enable, Disable, Login, Logout
<1>2. CASE SettingsSave \/ WorkspaceSave \/ Restart
  BY <1>2 DEF SettingsSave, WorkspaceSave, Restart
<1>3. CASE LoopSteps \/ RefreshView \/ ApplyRegister \/ ApplyTick
  BY <1>3 DEF LoopSteps, RefreshView, ApplyRegister, ApplyTick
<1>4. ASSUME NEW w \in Workers, LoopTicks(w) \/ OrphanEnds(w) \/ ApprovedEnds(w)
      PROVE  RemoteType'
  BY <1>4 DEF LoopTicks, OrphanEnds, ApprovedEnds
<1>5. ASSUME NEW w \in Workers, TickClaims(w)
      PROVE  RemoteType'
  BY <1>5 DEF TickClaims
<1>6. ASSUME NEW w \in Workers, JobStarts(w)
      PROVE  RemoteType'
  BY <1>6 DEF JobStarts, Update, MayUpdate
<1>7. ASSUME NEW w \in Workers, JobEnds(w)
      PROVE  RemoteType'
  BY <1>7 DEF JobEnds, Update, MayUpdate
<1>8. ASSUME NEW j \in Jobs, Reject(j) \/ RejectArrives(j) \/ \E w \in Workers : Approve(j, w)
      PROVE  RemoteType'
  BY <1>8 DEF Reject, RejectArrives, Approve, Update, MayUpdate
<1>9. CASE UNCHANGED vars
  BY <1>9
<1>10. QED
  BY <1>1, <1>2, <1>3, <1>4, <1>5, <1>6, <1>7, <1>8, <1>9
     DEF Next, LoopNext, UserNext, WorkerNext, WorkerOwes
-----------------------------------------------------------------------------
(* The steps that execute, approve or reject nothing.                        *)

QuietStep ==
  \/ Enable \/ Disable \/ Login \/ Logout \/ SettingsSave \/ WorkspaceSave \/ Restart
  \/ RefreshView \/ LoopSteps \/ ApplyRegister \/ UNCHANGED vars
  \/ \E w \in Workers : LoopTicks(w) \/ OrphanEnds(w) \/ ApprovedEnds(w)

\* They may forget a job, and put none anywhere.
NewTick(x) == x.kind = "tick" /\ x.phase = "claim" /\ x.job = None
Fades ==
  /\ work' \in [Workers -> WorkStates]
  /\ \A w \in Workers : work'[w] = work[w] \/ work'[w] = Idle \/ NewTick(work'[w])
  /\ awaiting' \subseteq awaiting /\ shown' \subseteq awaiting \cup shown
  /\ rejecting' \subseteq rejecting
  /\ server' = server /\ runs' = runs

LEMMA DropTickFades ==
  ASSUME TypeOK, DropTick
  PROVE  /\ work' \in [Workers -> WorkStates]
         /\ \A w \in Workers : work'[w] = work[w] \/ work'[w] = Idle
<1>1. work \in [Workers -> WorkStates] /\ tick \in Workers \cup {None}
  BY DEF TypeOK
<1>2. CASE work' = work
  BY <1>1, <1>2
<1>3. CASE tick # None /\ work' = [work EXCEPT ![tick] = Idle]
  BY <1>1, <1>3, FreeMoves
<1>4. QED
  BY <1>2, <1>3 DEF DropTick

LEMMA TickMoves ==
  ASSUME TypeOK, NEW w \in Workers, LoopTicks(w)
  PROVE  /\ work[w] = Idle /\ work' \in [Workers -> WorkStates] /\ NewTick(work'[w])
         /\ \A v \in Workers \ {w} : work'[v] = work[v]
<1> DEFINE item == [kind |-> "tick", phase |-> "claim", job |-> None, auto |-> inst = "auto"]
<1>1. item \in WorkStates /\ Start(w, item)
  BY NewItems DEF LoopTicks
<1>2. NewTick(item)
  BY DEF NewTick
<1> HIDE DEF item
<1>3. QED
  BY <1>1, <1>2, StartMoves

LEMMA QuietFades ==
  ASSUME TypeOK, QuietStep
  PROVE  Fades
<1>1. work \in [Workers -> WorkStates] /\ [w \in Workers |-> Idle] \in [Workers -> WorkStates]
  BY Items DEF TypeOK
<1>2. CASE Disable \/ Logout
  BY <1>2, DropTickFades DEF Disable, Logout, ClearLocal, remote, Fades
<1>3. CASE Enable \/ Login \/ SettingsSave \/ WorkspaceSave
  BY <1>1, <1>3 DEF Enable, Login, SettingsSave, WorkspaceSave, local, remote, Fades
<1>4. CASE Restart
  BY <1>1, <1>4 DEF Restart, ClearLocal, Fades
<1>5. CASE RefreshView \/ LoopSteps \/ ApplyRegister \/ UNCHANGED vars
  BY <1>1, <1>5 DEF RefreshView, LoopSteps, ApplyRegister, vars, local, remote, Fades
<1>6. ASSUME NEW w \in Workers, LoopTicks(w)
      PROVE  Fades
  BY <1>6, TickMoves DEF LoopTicks, local, remote, Fades
<1>7. ASSUME NEW w \in Workers, OrphanEnds(w) \/ ApprovedEnds(w)
      PROVE  Fades
  BY <1>1, <1>7, FreeMoves DEF OrphanEnds, ApprovedEnds, local, remote, Fades
<1>8. QED
  BY <1>2, <1>3, <1>4, <1>5, <1>6, <1>7 DEF QuietStep

\* Every step is one of these, or one of the seven that move a job.
LEMMA StepKinds ==
  ASSUME [Next]_vars
  PROVE  \/ QuietStep \/ ApplyTick
         \/ \E w \in Workers : TickClaims(w) \/ JobStarts(w) \/ JobEnds(w)
         \/ \E j \in Jobs : Reject(j) \/ RejectArrives(j)
                            \/ \E w \in Workers : Approve(j, w)
  BY DEF QuietStep, Next, LoopNext, UserNext, WorkerNext, WorkerOwes

LEMMA ApproveMoves ==
  ASSUME TypeOK, NEW j \in Jobs, NEW w \in Workers, Approve(j, w)
  PROVE  /\ work[w] = Idle /\ work' \in [Workers -> WorkStates]
         /\ work'[w].kind = "approved" /\ work'[w].phase = "start" /\ work'[w].job = j
         /\ \A v \in Workers \ {w} : work'[v] = work[v]
<1> DEFINE item == [kind |-> "approved", phase |-> "start", job |-> j, auto |-> FALSE]
<1>1. item \in WorkStates /\ Start(w, item)
  BY NewItems DEF Approve
<1>2. item.kind = "approved" /\ item.phase = "start" /\ item.job = j
  OBVIOUS
<1> HIDE DEF item
<1>3. QED
  BY <1>1, <1>2, StartMoves

LEMMA ApplyMoves ==
  ASSUME TypeOK, ApplyTick
  PROVE  /\ tick \in Workers /\ work' \in [Workers -> WorkStates] /\ work'[tick] = Idle
         /\ \A v \in Workers \ {tick} : work'[v] = work[v]
         /\ work[tick].job \in Jobs \cup {None}
<1>1. tick \in Workers /\ work \in [Workers -> WorkStates]
  BY DEF TypeOK, ApplyTick
<1>2. work[tick].job \in Jobs \cup {None}
  BY <1>1 DEF WorkStates
<1>3. QED
  BY <1>1, <1>2, FreeMoves DEF ApplyTick

LEMMA StepTypes ==
  ASSUME TypeOK, LoopInv, [Next]_vars
  PROVE  TypeOK'
<1>1. Flags' /\ LoopType' /\ LocalType' /\ RemoteType'
  BY TypeParts, FlagsStep, LoopTypeStep, LocalTypeStep, RemoteTypeStep
<1>2. WorkType'
  <2>1. CASE QuietStep
    BY <2>1, QuietFades DEF Fades, WorkType
  <2>2. CASE ApplyTick
    BY <2>2, ApplyMoves DEF WorkType
  <2>3. ASSUME NEW w \in Workers, TickClaims(w) \/ JobEnds(w)
        PROVE  WorkType'
    BY <2>3, ClaimFacts, EndFacts DEF WorkType, Moves
  <2>4. ASSUME NEW w \in Workers, JobStarts(w)
        PROVE  WorkType'
    BY <2>4, PhaseMoves, JobMoves DEF WorkType, Moves, JobStarts, Phases
  <2>5. ASSUME NEW j \in Jobs, Reject(j) \/ RejectArrives(j)
        PROVE  WorkType'
    BY <2>5 DEF Reject, RejectArrives, TypeOK, WorkType
  <2>6. ASSUME NEW j \in Jobs, NEW w \in Workers, Approve(j, w)
        PROVE  WorkType'
    BY <2>6, ApproveMoves DEF WorkType
  <2>7. QED
    BY <2>1, <2>2, <2>3, <2>4, <2>5, <2>6, StepKinds
<1>3. (switches \in 0..MaxSwitches)'
  <2>1. Switch \/ UNCHANGED switches
    BY DEF Next, LoopNext, UserNext, WorkerNext, WorkerOwes, Enable, Disable, Login, Logout,
           SettingsSave, WorkspaceSave, Restart, RefreshView, LoopSteps, ApplyRegister,
           ApplyTick, LoopTicks, TickClaims, JobStarts, JobEnds, OrphanEnds, ApprovedEnds,
           Approve, Reject, RejectArrives, vars
  <2>2. QED
    BY <2>1, FleetRuntimeAssumption DEF TypeOK, Switch
<1>4. QED
  BY <1>1, <1>2, <1>3 DEF TypeOK, Flags, LoopType, LocalType, RemoteType, WorkType
-----------------------------------------------------------------------------
(* What threads are at, the loop and the user's choice.                      *)

Shapes == \A w \in Workers : WorkShape(work[w])

LEMMA ShapeStep ==
  ASSUME TypeOK, Shapes, [Next]_vars
  PROVE  Shapes'
<1> USE DEF Shapes
<1>1. CASE QuietStep
  BY <1>1, QuietFades DEF Fades, NewTick, WorkShape
<1>2. CASE ApplyTick
  BY <1>2, ApplyMoves DEF WorkShape
<1>3. ASSUME NEW w \in Workers, TickClaims(w)
      PROVE  Shapes'
  <2>1. work[w].kind = "tick"
    BY <1>3, Items DEF TickClaims, WorkShape
  <2>2. WorkShape(work'[w])
    BY <1>3, <2>1, ClaimFacts DEF Moves, WorkShape
  <2>3. QED
    BY <1>3, <2>2, ClaimFacts DEF Moves
<1>4. ASSUME NEW w \in Workers, JobStarts(w)
      PROVE  Shapes'
  <2>1. work[w].job \in Jobs /\ work[w].kind \in {"tick", "approved"}
    BY <1>4, Items DEF JobStarts, WorkShape
  <2>2. WorkShape(work'[w])
    BY <1>4, <2>1, StartFacts DEF Moves, WorkShape
  <2>3. QED
    BY <1>4, <2>1, <2>2, StartFacts DEF Moves
<1>5. ASSUME NEW w \in Workers, JobEnds(w)
      PROVE  Shapes'
  <2>1. work[w].kind \in {"tick", "approved"}
    BY <1>5, Items DEF JobEnds, WorkShape
  <2>2. WorkShape(work'[w])
    BY <1>5, <2>1, EndFacts DEF Moves, WorkShape
  <2>3. QED
    BY <1>5, <2>2, EndFacts DEF Moves
<1>6. ASSUME NEW j \in Jobs, Reject(j) \/ RejectArrives(j)
      PROVE  Shapes'
  BY <1>6 DEF Reject, RejectArrives
<1>7. ASSUME NEW j \in Jobs, NEW w \in Workers, Approve(j, w)
      PROVE  Shapes'
  BY <1>7, ApproveMoves DEF WorkShape
<1>8. QED
  BY <1>1, <1>2, <1>3, <1>4, <1>5, <1>6, <1>7, StepKinds

LEMMA LoopStep ==
  ASSUME TypeOK, LoopInv, [Next]_vars
  PROVE  LoopInv'
<1> USE DEF LoopInv
<1>1. (loop # "none" => enabled /\ signedIn)'
  <2>1. CASE Enable \/ Disable \/ Login \/ Logout
    <3>1. CASE Enable
      BY <3>1 DEF Enable, SyncLoop
    <3>2. CASE Disable \/ Logout
      BY <3>2 DEF Disable, Logout, SyncLoop
    <3>3. CASE Login
      BY <3>3 DEF Login, SyncLoop, TypeOK
    <3>4. QED
      BY <2>1, <3>1, <3>2, <3>3
  <2>2. CASE SettingsSave \/ WorkspaceSave \/ Restart
    BY <2>2 DEF SettingsSave, WorkspaceSave, Restart, config, local, remote
  <2>3. CASE LoopSteps \/ RefreshView \/ ApplyRegister \/ ApplyTick \/ UNCHANGED vars
    BY <2>3 DEF LoopSteps, RefreshView, ApplyRegister, ApplyTick, vars, config
  <2>4. ASSUME NEW w \in Workers, LoopTicks(w) \/ WorkerNext(w)
        PROVE  (loop # "none" => enabled /\ signedIn)'
    BY <2>4 DEF LoopTicks, WorkerNext, WorkerOwes, TickClaims, JobStarts, JobEnds, OrphanEnds,
                ApprovedEnds, config
  <2>5. ASSUME NEW j \in Jobs,
               Reject(j) \/ RejectArrives(j) \/ \E w \in Workers : Approve(j, w)
        PROVE  (loop # "none" => enabled /\ signedIn)'
    BY <2>5 DEF Reject, RejectArrives, Approve, config
  <2>6. QED
    BY <2>1, <2>2, <2>3, <2>4, <2>5 DEF Next, LoopNext, UserNext
<1>2. (tick # None => work[tick].kind = "tick")'
  <2>1. CASE Disable \/ Logout \/ Restart \/ ApplyTick
    BY <2>1 DEF Disable, Logout, Restart, ApplyTick, DropTick
  <2>2. CASE \/ Enable \/ Login \/ SettingsSave \/ WorkspaceSave \/ LoopSteps
             \/ RefreshView \/ ApplyRegister \/ UNCHANGED vars
    BY <2>2 DEF Enable, Login, SettingsSave, WorkspaceSave, LoopSteps, RefreshView,
                ApplyRegister, vars
  <2>3. ASSUME NEW w \in Workers, LoopTicks(w)
        PROVE  (tick # None => work[tick].kind = "tick")'
    BY <2>3, TickMoves DEF LoopTicks, NewTick
  <2>4. ASSUME NEW w \in Workers, TickClaims(w) \/ JobEnds(w)
        PROVE  (tick # None => work[tick].kind = "tick")'
    <3>1. Moves(w) /\ tick' = tick
      BY <2>4, ClaimFacts, EndFacts DEF TickClaims, JobEnds
    <3>2. QED
      BY <3>1 DEF Moves, TypeOK
  <2>5. ASSUME NEW w \in Workers, JobStarts(w)
        PROVE  (tick # None => work[tick].kind = "tick")'
    BY <2>5, PhaseMoves, JobMoves DEF Moves, JobStarts, Phases, TypeOK
  <2>6. ASSUME NEW w \in Workers, OrphanEnds(w)
        PROVE  (tick # None => work[tick].kind = "tick")'
    BY <2>6, FreeMoves DEF OrphanEnds, TypeOK
  <2>7. ASSUME NEW w \in Workers, ApprovedEnds(w)
        PROVE  (tick # None => work[tick].kind = "tick")'
    BY <2>7, FreeMoves DEF ApprovedEnds, TypeOK
  <2>8. ASSUME NEW j \in Jobs, Reject(j) \/ RejectArrives(j)
        PROVE  (tick # None => work[tick].kind = "tick")'
    BY <2>8 DEF Reject, RejectArrives
  <2>9. ASSUME NEW j \in Jobs, NEW w \in Workers, Approve(j, w)
        PROVE  (tick # None => work[tick].kind = "tick")'
    BY <2>9, ApproveMoves, Items DEF Approve, TypeOK
  <2>10. QED
    BY <2>1, <2>2, <2>3, <2>4, <2>5, <2>6, <2>7, <2>8, <2>9
       DEF Next, LoopNext, UserNext, WorkerNext, WorkerOwes
<1>3. QED
  BY <1>1, <1>2

LEMMA ChoiceStep ==
  ASSUME Flags, ChoiceInv, [Next]_vars
  PROVE  ChoiceInv'
<1> USE DEF ChoiceInv, Flags
<1>1. CASE Enable \/ Disable \/ Login \/ Logout
  <2>1. CASE Enable
    BY <2>1 DEF Enable, Save
  <2>2. CASE Disable
    BY <2>2 DEF Disable, Save
  <2>3. CASE Login
    BY <2>3 DEF Login, Save
  <2>4. CASE Logout
    BY <2>4 DEF Logout, Save
  <2>5. QED
    BY <1>1, <2>1, <2>2, <2>3, <2>4
<1>2. CASE SettingsSave \/ WorkspaceSave \/ Restart
  BY <1>2 DEF SettingsSave, WorkspaceSave, Restart, Save
<1>3. CASE ApplyRegister
  BY <1>3 DEF ApplyRegister, Save
<1>4. CASE LoopSteps \/ RefreshView \/ ApplyTick \/ UNCHANGED vars
  BY <1>4 DEF LoopSteps, RefreshView, ApplyTick, vars, config
<1>5. ASSUME NEW w \in Workers, LoopTicks(w) \/ WorkerNext(w)
      PROVE  ChoiceInv'
  BY <1>5 DEF LoopTicks, WorkerNext, WorkerOwes, TickClaims, JobStarts, JobEnds, OrphanEnds,
              ApprovedEnds, config
<1>6. ASSUME NEW j \in Jobs,
             Reject(j) \/ RejectArrives(j) \/ \E w \in Workers : Approve(j, w)
      PROVE  ChoiceInv'
  BY <1>6 DEF Reject, RejectArrives, Approve, config
<1>7. QED
  BY <1>1, <1>2, <1>3, <1>4, <1>5, <1>6 DEF Next, LoopNext, UserNext
-----------------------------------------------------------------------------
(* Where a job is, and how often it is started.                              *)

\* What a tick leaves to the user is now on offer, and on no thread.
LEMMA ApplyFacts ==
  ASSUME TypeOK, ApplyTick
  PROVE  /\ \A v \in Workers : work'[v].job \in Jobs => work'[v] = work[v] /\ v # tick
         /\ awaiting' \subseteq awaiting \cup shown \cup {work[tick].job}
         /\ shown' \subseteq awaiting \cup shown \cup {work[tick].job}
         /\ server' = server /\ rejecting' = rejecting /\ runs' = runs
         /\ tick \in Workers /\ work[tick].phase = "done"
<1>1. /\ tick \in Workers /\ work'[tick].job \notin Jobs
      /\ \A v \in Workers \ {tick} : work'[v] = work[v]
  BY ApplyMoves, Items, FleetRuntimeAssumption
<1>2. /\ awaiting' \subseteq awaiting \cup {work[tick].job}
      /\ shown' \subseteq awaiting \cup shown \cup {work[tick].job}
  BY DEF ApplyTick
<1>3. /\ server' = server /\ rejecting' = rejecting /\ runs' = runs
      /\ work[tick].phase = "done"
  BY DEF ApplyTick, remote
<1>4. QED
  BY <1>1, <1>2, <1>3

LEMMA FadesKeepJobs ==
  ASSUME Fades, NEW w \in Workers, NEW j \in Jobs, work'[w].job = j
  PROVE  work'[w] = work[w]
  BY FleetRuntimeAssumption, Items DEF Fades, NewTick

LEMMA FadesPlace ==
  ASSUME Fades, PlaceInv
  PROVE  PlaceInv'
<1> SUFFICES ASSUME NEW j \in Jobs
             PROVE  /\ \A w \in Workers : work'[w].job = j => ~OnOffer(j)' /\ j \notin rejecting'
                    /\ \A v, w \in Workers : work'[v].job = j /\ work'[w].job = j => v = w
                    /\ OnOffer(j)' => j \notin rejecting'
                    /\ server'[j] = "pending" =>
                         /\ ~OnOffer(j)' /\ j \notin rejecting'
                         /\ \A w \in Workers : work'[w].job # j
  BY DEF PlaceInv, OnOffer
<1>1. OnOffer(j)' => OnOffer(j)
  BY DEF Fades, OnOffer
<1>2. j \in rejecting' => j \in rejecting
  BY DEF Fades
<1>3. \A w \in Workers : work'[w].job = j => work[w].job = j
  BY FadesKeepJobs
<1>4. server' = server
  BY DEF Fades
<1>5. QED
  BY <1>1, <1>2, <1>3, <1>4 DEF PlaceInv

LEMMA PlaceStep ==
  ASSUME TypeOK, Shapes, PlaceInv, [Next]_vars
  PROVE  PlaceInv'
<1>1. CASE QuietStep
  BY <1>1, QuietFades, FadesPlace
<1>2. CASE ApplyTick
  <2>1. /\ \A v \in Workers : work'[v].job \in Jobs => work'[v] = work[v] /\ v # tick
        /\ awaiting' \subseteq awaiting \cup shown \cup {work[tick].job}
        /\ shown' \subseteq awaiting \cup shown \cup {work[tick].job}
        /\ server' = server /\ rejecting' = rejecting /\ tick \in Workers
    BY <1>2, ApplyFacts
  <2>2. QED
    BY <2>1 DEF PlaceInv, OnOffer
<1>3. ASSUME NEW w \in Workers, TickClaims(w)
      PROVE  PlaceInv'
  <2>1. /\ awaiting' = awaiting /\ shown' = shown /\ rejecting' = rejecting
        /\ \A v \in Workers \ {w} : work'[v] = work[v]
    BY <1>3, ClaimFacts DEF TickClaims, Moves, local
  <2>2. CASE work'[w].job = work[w].job /\ server' = server
    BY <2>1, <2>2 DEF PlaceInv, OnOffer
  <2>3. ASSUME NEW j \in Jobs, server[j] = "pending", server' = [server EXCEPT ![j] = "claimed"],
               work'[w].job \in {j, work[w].job}
        PROVE  PlaceInv'
    <3>1. server'[j] = "claimed" /\ \A i \in Jobs \ {j} : server'[i] = server[i]
      BY <2>3 DEF TypeOK
    <3>2. ~OnOffer(j) /\ j \notin rejecting /\ \A v \in Workers : work[v].job # j
      BY <2>3 DEF PlaceInv
    <3>3. QED
      BY <2>1, <2>3, <3>1, <3>2 DEF PlaceInv, OnOffer
  <2>4. QED
    BY <1>3, <2>2, <2>3, ClaimFacts
<1>4. ASSUME NEW w \in Workers, JobStarts(w) \/ JobEnds(w)
      PROVE  PlaceInv'
  <2>1. work[w].job \in Jobs
    BY <1>4, Items DEF JobStarts, JobEnds, Shapes, WorkShape
  <2>2. /\ awaiting' = awaiting /\ shown' = shown /\ rejecting' = rejecting
        /\ \A v \in Workers \ {w} : work'[v] = work[v]
        /\ work'[w].job \in {work[w].job, None}
    BY <1>4, <2>1, StartFacts, EndFacts DEF JobStarts, JobEnds, Moves, local
  <2>3. \A j \in Jobs : server'[j] = "pending" => server[j] = "pending"
    BY <1>4, <2>1, StartFacts, EndFacts DEF TypeOK
  <2>4. QED
    BY <2>2, <2>3, FleetRuntimeAssumption DEF PlaceInv, OnOffer
<1>5. ASSUME NEW j \in Jobs, Reject(j)
      PROVE  PlaceInv'
  BY <1>5 DEF Reject, PlaceInv, OnOffer
<1>6. ASSUME NEW j \in Jobs, RejectArrives(j)
      PROVE  PlaceInv'
  <2>1. /\ awaiting' = awaiting /\ shown' = shown /\ work' = work
        /\ rejecting' \subseteq rejecting
    BY <1>6 DEF RejectArrives, local
  <2>2. \A i \in Jobs : server'[i] = "pending" => server[i] = "pending"
    BY <1>6 DEF RejectArrives, Update, MayUpdate, TypeOK
  <2>3. QED
    BY <2>1, <2>2 DEF PlaceInv, OnOffer
<1>7. ASSUME NEW j \in Jobs, NEW w \in Workers, Approve(j, w)
      PROVE  PlaceInv'
  <2>1. /\ work'[w].job = j /\ \A v \in Workers \ {w} : work'[v] = work[v]
        /\ OnOffer(j) /\ awaiting' = awaiting \ {j} /\ shown' = awaiting'
        /\ rejecting' = rejecting /\ server' = server
    BY <1>7, ApproveMoves DEF Approve, OnOffer, remote
  <2>2. QED
    BY <2>1 DEF PlaceInv, OnOffer
<1>8. QED
  BY <1>1, <1>2, <1>3, <1>4, <1>5, <1>6, <1>7, StepKinds

LEMMA FadesOnce ==
  ASSUME Fades, OnceInv
  PROVE  OnceInv'
<1> SUFFICES ASSUME NEW j \in Jobs
             PROVE  /\ runs'[j] \in {0, 1}
                    /\ runs'[j] = 1 =>
                         /\ ~OnOffer(j)' /\ j \notin rejecting'
                         /\ server'[j] \notin {"pending", "cancelled"}
                         /\ \A w \in Workers : work'[w].job = j => work'[w].phase = "run"
                    /\ server'[j] = "cancelled" =>
                         ~OnOffer(j)' /\ \A w \in Workers : work'[w].job # j
  BY DEF OnceInv, OnOffer
<1>1. OnOffer(j)' => OnOffer(j)
  BY DEF Fades, OnOffer
<1>2. j \in rejecting' => j \in rejecting
  BY DEF Fades
<1>3. \A w \in Workers : work'[w].job = j => work'[w] = work[w]
  BY FadesKeepJobs
<1>4. server' = server /\ runs' = runs
  BY DEF Fades
<1>5. QED
  BY <1>1, <1>2, <1>3, <1>4 DEF OnceInv

LEMMA OnceStep ==
  ASSUME TypeOK, Shapes, PlaceInv, OnceInv, [Next]_vars
  PROVE  OnceInv'
<1>1. CASE QuietStep
  BY <1>1, QuietFades, FadesOnce
<1>2. CASE ApplyTick
  <2>1. /\ \A v \in Workers : work'[v].job \in Jobs => work'[v] = work[v]
        /\ awaiting' \subseteq awaiting \cup shown \cup {work[tick].job}
        /\ shown' \subseteq awaiting \cup shown \cup {work[tick].job}
        /\ server' = server /\ rejecting' = rejecting /\ runs' = runs
        /\ tick \in Workers /\ work[tick].phase = "done"
    BY <1>2, ApplyFacts
  <2>2. QED
    BY <2>1 DEF OnceInv, OnOffer
<1>3. ASSUME NEW w \in Workers, TickClaims(w)
      PROVE  OnceInv'
  <2>1. /\ awaiting' = awaiting /\ shown' = shown /\ rejecting' = rejecting /\ runs' = runs
        /\ \A v \in Workers \ {w} : work'[v] = work[v]
        /\ work[w].job = None
    BY <1>3, ClaimFacts, Items DEF TickClaims, Moves, local, Shapes, WorkShape
  <2>2. CASE work'[w].job = work[w].job /\ server' = server
    BY <2>1, <2>2, FleetRuntimeAssumption DEF OnceInv, OnOffer
  <2>3. ASSUME NEW j \in Jobs, server[j] = "pending", server' = [server EXCEPT ![j] = "claimed"],
               work'[w].job \in {j, work[w].job}
        PROVE  OnceInv'
    <3>1. server'[j] = "claimed" /\ \A i \in Jobs \ {j} : server'[i] = server[i]
      BY <2>3 DEF TypeOK
    <3>2. runs[j] = 0
      BY <2>3 DEF OnceInv
    <3>3. QED
      BY <2>1, <2>3, <3>1, <3>2, FleetRuntimeAssumption DEF OnceInv, OnOffer
  <2>4. QED
    BY <1>3, <2>2, <2>3, ClaimFacts
<1>4. ASSUME NEW w \in Workers, JobStarts(w)
      PROVE  OnceInv'
  <2> DEFINE k == work[w].job
  <2>1. k \in Jobs /\ work[w].phase = "start"
    BY <1>4, Items DEF JobStarts, Shapes, WorkShape
  <2>2. /\ awaiting' = awaiting /\ shown' = shown /\ rejecting' = rejecting
        /\ \A v \in Workers \ {w} : work'[v] = work[v]
    BY <1>4, <2>1, StartFacts DEF JobStarts, Moves, local
  <2>3. /\ runs[k] = 0 /\ ~OnOffer(k) /\ k \notin rejecting /\ server[k] # "cancelled"
        /\ \A v \in Workers : work[v].job = k => v = w
    BY <2>1 DEF OnceInv, PlaceInv
  <2>4. CASE /\ server' = [server EXCEPT ![k] = "running"]
             /\ runs' = [runs EXCEPT ![k] = @ + 1]
             /\ work'[w].phase = "run" /\ work'[w].job = k
    <3>1. /\ server'[k] = "running" /\ runs'[k] = 1
          /\ \A i \in Jobs \ {k} : server'[i] = server[i] /\ runs'[i] = runs[i]
      BY <2>1, <2>3, <2>4 DEF TypeOK
    <3>2. QED
      BY <2>1, <2>2, <2>3, <2>4, <3>1 DEF OnceInv, OnOffer
  <2>5. CASE /\ server' = [server EXCEPT ![k] = "running"] \/ UNCHANGED server
             /\ work'[w].job = None /\ runs' = runs
    <3>1. /\ server'[k] # "cancelled"
          /\ \A i \in Jobs \ {k} : server'[i] = server[i]
      BY <2>1, <2>3, <2>5 DEF TypeOK
    <3>2. QED
      BY <2>1, <2>2, <2>3, <2>5, <3>1, FleetRuntimeAssumption DEF OnceInv, OnOffer
  <2>6. QED
    BY <1>4, <2>1, <2>4, <2>5, StartFacts
<1>5. ASSUME NEW w \in Workers, JobEnds(w)
      PROVE  OnceInv'
  <2>1. work[w].job \in Jobs
    BY <1>5, Items DEF JobEnds, Shapes, WorkShape
  <2>2. /\ awaiting' = awaiting /\ shown' = shown /\ rejecting' = rejecting /\ runs' = runs
        /\ \A v \in Workers \ {w} : work'[v] = work[v]
        /\ work'[w].job = None
    BY <1>5, EndFacts DEF JobEnds, Moves, local
  <2>3. /\ \A i \in Jobs : server'[i] = server[i] \/ server'[i] \in {"done", "failed"}
    BY <1>5, <2>1, EndFacts DEF TypeOK
  <2>4. QED
    BY <2>2, <2>3, FleetRuntimeAssumption DEF OnceInv, OnOffer
<1>6. ASSUME NEW j \in Jobs, Reject(j)
      PROVE  OnceInv'
  BY <1>6 DEF Reject, OnceInv, OnOffer
<1>7. ASSUME NEW j \in Jobs, RejectArrives(j)
      PROVE  OnceInv'
  <2>1. /\ awaiting' = awaiting /\ shown' = shown /\ work' = work /\ runs' = runs
        /\ rejecting' \subseteq rejecting
    BY <1>7 DEF RejectArrives, local
  <2>2. /\ runs[j] = 0 /\ ~OnOffer(j) /\ \A w \in Workers : work[w].job # j
    BY <1>7 DEF RejectArrives, OnceInv, PlaceInv
  <2>3. \A i \in Jobs \ {j} : server'[i] = server[i]
    BY <1>7 DEF RejectArrives, Update, MayUpdate, TypeOK
  <2>4. QED
    BY <2>1, <2>2, <2>3 DEF OnceInv, OnOffer
<1>8. ASSUME NEW j \in Jobs, NEW w \in Workers, Approve(j, w)
      PROVE  OnceInv'
  <2>1. /\ work'[w].job = j /\ \A v \in Workers \ {w} : work'[v] = work[v]
        /\ OnOffer(j) /\ awaiting' = awaiting \ {j} /\ shown' = awaiting'
        /\ rejecting' = rejecting /\ server' = server /\ runs' = runs
    BY <1>8, ApproveMoves DEF Approve, OnOffer, remote
  <2>2. QED
    BY <2>1 DEF OnceInv, OnOffer
<1>9. QED
  BY <1>1, <1>2, <1>3, <1>4, <1>5, <1>6, <1>7, <1>8, StepKinds
-----------------------------------------------------------------------------
(* Until the runtime is stopped with work under way.                         *)

LEMMA NotIdle ==
  ASSUME NEW w \in Workers,
         work[w].phase # "none" \/ work[w].kind # "none"
  PROVE  work[w] # Idle
  BY Items

\* Stopping leaves no trace of work only if there was none.
LEMMA Stops ==
  ASSUME [Next]_vars, ~interrupted'
  PROVE  /\ ~interrupted
         /\ Disable \/ Logout \/ Restart =>
              awaiting = {} /\ \A w \in Workers : work[w] = Idle
<1>1. CASE Disable \/ Logout \/ Restart
  BY <1>1 DEF Disable, Logout, Restart, DropTick
<1>2. CASE ~(Disable \/ Logout \/ Restart)
  <2>1. interrupted' = interrupted
    BY <1>2 DEF Next, LoopNext, UserNext, WorkerNext, WorkerOwes, Enable, Login, SettingsSave,
           WorkspaceSave, RefreshView, LoopSteps, ApplyRegister, ApplyTick, LoopTicks,
           TickClaims, JobStarts, JobEnds, OrphanEnds, ApprovedEnds, Approve, Reject,
           RejectArrives, vars
  <2>2. QED
    BY <1>2, <2>1
<1>3. QED
  BY <1>1, <1>2

\* One thing to do: at most thread w has work.
LEMMA LoneWork ==
  ASSUME NEW w \in Workers, awaiting' = {}, shown' = {},
         \A v \in Workers \ {w} : work'[v] = Idle,
         work'[w].kind = "tick" => tick' = w /\ ~busy',
         work'[w].kind = "approved" => busy'
  PROVE  LoneInv'
<1>1. Idle.kind = "none"
  BY Items
<1>2. \A v \in Workers : /\ work'[v].kind = "tick" => tick' = v /\ ~busy'
                         /\ work'[v].kind = "approved" => busy'
  BY <1>1
<1>3. QED
  BY <1>2 DEF LoneInv

LEMMA LoneStep ==
  ASSUME TypeOK, Shapes, LoneInv, [Next]_vars
  PROVE  LoneInv'
<1> SUFFICES ASSUME ~interrupted'
             PROVE  LoneInv'
  BY DEF LoneInv
<1>0. ~interrupted
  BY Stops
<1>1. CASE Disable \/ Logout \/ Restart
  <2>1. awaiting = {} /\ (\A w \in Workers : work[w] = Idle) /\ shown = {}
    BY <1>0, <1>1, Stops DEF LoneInv
  <2>2. \A w \in Workers : work'[w] = Idle
    BY <1>1, <2>1, DropTickFades DEF Disable, Logout, Restart
  <2>3. awaiting' = {} /\ shown' = {}
    BY <1>1, <2>1 DEF Disable, Logout, Restart, ClearLocal
  <2>4. QED
    BY <2>2, <2>3, Items DEF LoneInv
<1>2. CASE \/ Enable \/ Login \/ SettingsSave \/ WorkspaceSave \/ RefreshView
           \/ LoopSteps \/ ApplyRegister \/ UNCHANGED vars
  <2>1. /\ awaiting' = awaiting /\ busy' = busy /\ work' = work /\ tick' = tick
        /\ shown' \in {shown, awaiting}
    BY <1>2 DEF Enable, Login, SettingsSave, WorkspaceSave, RefreshView, LoopSteps,
                ApplyRegister, vars, local
  <2>2. QED
    BY <1>0, <2>1 DEF LoneInv
<1>3. CASE ApplyTick
  <2>1. tick \in Workers /\ work[tick] # Idle
    BY <1>3, ApplyFacts, NotIdle
  <2>2. awaiting = {} /\ shown = {} /\ \A w \in Workers \ {tick} : work[w] = Idle
    BY <1>0, <2>1 DEF LoneInv
  <2>3. \A w \in Workers : work'[w] = Idle
    BY <1>3, <2>2, ApplyMoves
  <2>4. /\ shown' = awaiting' /\ \A i, j \in awaiting' : i = j
        /\ awaiting' # {} => busy'
    BY <1>3, <2>2 DEF ApplyTick
  <2>5. QED
    BY <2>3, <2>4, Items DEF LoneInv
<1>4. ASSUME NEW w \in Workers, LoopTicks(w)
      PROVE  LoneInv'
  <2>1. ~busy /\ tick = None
    BY <1>4 DEF LoopTicks, TypeOK
  <2>2. awaiting = {} /\ shown = {} /\ \A v \in Workers : work[v] = Idle
    BY <1>0, <2>1, FleetRuntimeAssumption DEF LoneInv, Shapes, WorkShape
  <2>3. /\ NewTick(work'[w]) /\ \A v \in Workers \ {w} : work'[v] = Idle
        /\ tick' = w /\ busy' = busy /\ awaiting' = awaiting /\ shown' = shown
    BY <1>4, <2>2, TickMoves DEF LoopTicks, local
  <2>4. QED
    BY <2>1, <2>2, <2>3, LoneWork DEF NewTick
<1>5. ASSUME NEW w \in Workers, TickClaims(w) \/ JobStarts(w) \/ JobEnds(w)
      PROVE  LoneInv'
  <2>1. work[w] # Idle
    BY <1>5, NotIdle DEF TickClaims, JobStarts, JobEnds
  <2>2. Moves(w)
    <3>1. JobStarts(w) => work[w].job \in Jobs
      BY Items DEF JobStarts, Shapes, WorkShape
    <3>2. QED
      BY <1>5, <3>1, ClaimFacts, StartFacts, EndFacts
  <2>3. awaiting' = awaiting /\ shown' = shown /\ busy' = busy /\ tick' = tick
    BY <1>5 DEF TickClaims, JobStarts, JobEnds, local
  <2>4. awaiting = {} /\ shown = {} /\ \A v \in Workers \ {w} : work[v] = Idle
    BY <1>0, <2>1 DEF LoneInv
  <2>5. /\ work[w].kind = "tick" => tick = w /\ ~busy
        /\ work[w].kind = "approved" => busy
    BY <1>0 DEF LoneInv
  <2>6. QED
    BY <2>2, <2>3, <2>4, <2>5, LoneWork DEF Moves
<1>6. ASSUME NEW w \in Workers, OrphanEnds(w)
      PROVE  LoneInv'
  BY <1>0, <1>6 DEF OrphanEnds, LoneInv
<1>7. ASSUME NEW w \in Workers, ApprovedEnds(w)
      PROVE  LoneInv'
  <2>1. work[w] # Idle
    BY <1>7, NotIdle DEF ApprovedEnds
  <2>2. awaiting = {} /\ \A v \in Workers \ {w} : work[v] = Idle
    BY <1>0, <2>1 DEF LoneInv
  <2>3. \A v \in Workers : work'[v] = Idle
    BY <1>7, <2>2, FreeMoves DEF ApprovedEnds
  <2>4. awaiting' = {} /\ shown' = {}
    BY <1>7, <2>2 DEF ApprovedEnds
  <2>5. QED
    BY <2>3, <2>4, Items DEF LoneInv
<1>8. ASSUME NEW j \in Jobs, Reject(j)
      PROVE  LoneInv'
  <2>1. j \in awaiting /\ (\A i \in awaiting : i = j) /\ \A w \in Workers : work[w] = Idle
    BY <1>0, <1>8 DEF Reject, LoneInv
  <2>2. awaiting' = {} /\ shown' = {} /\ work' = work
    BY <1>8, <2>1 DEF Reject
  <2>3. QED
    BY <2>1, <2>2, Items DEF LoneInv
<1>9. ASSUME NEW j \in Jobs, RejectArrives(j)
      PROVE  LoneInv'
  BY <1>0, <1>9 DEF RejectArrives, LoneInv, local
<1>10. ASSUME NEW j \in Jobs, NEW w \in Workers, Approve(j, w)
       PROVE  LoneInv'
  <2>1. /\ j \in awaiting /\ (\A i \in awaiting : i = j) /\ busy
        /\ \A v \in Workers : work[v] = Idle
    BY <1>0, <1>10 DEF Approve, LoneInv
  <2>2. awaiting' = {} /\ shown' = {} /\ busy' = busy
    BY <1>10, <2>1 DEF Approve
  <2>3. work'[w].kind = "approved" /\ \A v \in Workers \ {w} : work'[v] = Idle
    BY <1>10, <2>1, ApproveMoves
  <2>4. QED
    BY <2>1, <2>2, <2>3, LoneWork
<1>11. QED
  BY <1>1, <1>2, <1>3, <1>4, <1>5, <1>6, <1>7, <1>8, <1>9, <1>10
     DEF Next, LoopNext, UserNext, WorkerNext, WorkerOwes

\* What was assigned and held stays held by the steps that have no job to forget.
LEMMA HeldOn ==
  ASSUME AssignedJobsAreHeld, ~lost, ~interrupted, NEW j \in Jobs,
         server'[j] \in {"claimed", "running"}, server'[j] = server[j],
         awaiting \cup rejecting \subseteq awaiting' \cup rejecting',
         \A w \in Workers : work[w].job = j => work'[w].job = j \/ j \in awaiting'
  PROVE  Held(j)'
  BY DEF AssignedJobsAreHeld, Held

LEMMA HeldStep ==
  ASSUME TypeOK, Shapes, LoneInv, AssignedJobsAreHeld, [Next]_vars
  PROVE  AssignedJobsAreHeld'
<1> SUFFICES ASSUME NEW j \in Jobs, server'[j] \in {"claimed", "running"},
                    ~lost', ~interrupted'
             PROVE  Held(j)'
  BY DEF AssignedJobsAreHeld, Held
<1>1. ~interrupted
  BY Stops
<1>2. ~lost
  BY DEF Next, LoopNext, UserNext, WorkerNext, WorkerOwes, Enable, Disable, Login, Logout,
         SettingsSave, WorkspaceSave, Restart, RefreshView, LoopSteps, ApplyRegister,
         ApplyTick, LoopTicks, TickClaims, JobStarts, JobEnds, OrphanEnds, ApprovedEnds,
         Approve, Reject, RejectArrives, vars, remote
<1>3. CASE Disable \/ Logout \/ Restart
  <2>0. Idle.job # j
    BY Items, FleetRuntimeAssumption
  <2>1. server' = server /\ awaiting = {} /\ \A w \in Workers : work[w].job # j
    <3>1. server' = server
      BY <1>3 DEF Disable, Logout, Restart, remote
    <3>2. QED
      BY <1>3, <2>0, <3>1, Stops
  <2>2. j \in rejecting
    BY <1>1, <1>2, <2>1 DEF AssignedJobsAreHeld, Held
  <2>3. j \in rejecting'
    BY <1>3, <2>2 DEF Disable, Logout, Restart, remote
  <2>4. QED
    BY <2>3 DEF Held
<1>4. CASE \/ Enable \/ Login \/ SettingsSave \/ WorkspaceSave \/ RefreshView
           \/ LoopSteps \/ ApplyRegister \/ UNCHANGED vars
  <2>1. /\ awaiting' = awaiting /\ work' = work /\ server' = server
        /\ rejecting' = rejecting
    BY <1>4 DEF Enable, Login, SettingsSave, WorkspaceSave, RefreshView, LoopSteps,
                ApplyRegister, vars, local, remote
  <2>2. QED
    BY <1>1, <1>2, <2>1, HeldOn
<1>5. CASE ApplyTick
  <2>1. /\ server' = server /\ rejecting' = rejecting /\ awaiting \subseteq awaiting'
        /\ work[tick].job = j => j \in awaiting'
    BY <1>5, FleetRuntimeAssumption DEF ApplyTick, remote
  <2>2. QED
    BY <1>1, <1>2, <1>5, <2>1, ApplyMoves, HeldOn
<1>6. ASSUME NEW w \in Workers, LoopTicks(w)
      PROVE  Held(j)'
  <2>1. /\ awaiting' = awaiting /\ rejecting' = rejecting /\ server' = server
        /\ work[w] = Idle /\ \A v \in Workers \ {w} : work'[v] = work[v]
    BY <1>6, TickMoves DEF LoopTicks, local, remote
  <2>2. work[w].job # j
    BY <2>1, Items, FleetRuntimeAssumption
  <2>3. QED
    BY <1>1, <1>2, <2>1, <2>2, HeldOn
<1>7. ASSUME NEW w \in Workers, TickClaims(w)
      PROVE  Held(j)'
  <2>1. /\ awaiting' = awaiting /\ rejecting' = rejecting
        /\ \A v \in Workers \ {w} : work'[v] = work[v]
        /\ work[w].job = None
    BY <1>7, ClaimFacts, Items DEF TickClaims, Moves, local, Shapes, WorkShape
  <2>2. CASE work'[w].job = j
    BY <2>2 DEF Held
  <2>3. CASE work'[w].job # j
    <3>1. server'[j] = server[j]
      BY <1>7, <2>3, ClaimFacts DEF TypeOK
    <3>2. QED
      BY <1>1, <1>2, <2>1, <3>1, HeldOn, FleetRuntimeAssumption
  <2>4. QED
    BY <2>2, <2>3
<1>8. ASSUME NEW w \in Workers, JobStarts(w)
      PROVE  Held(j)'
  <2>1. work[w].job \in Jobs
    BY <1>8, Items DEF JobStarts, Shapes, WorkShape
  <2>2. /\ awaiting' = awaiting /\ rejecting' = rejecting
        /\ \A v \in Workers \ {w} : work'[v] = work[v]
        /\ work'[w].job = work[w].job
        /\ server' = [server EXCEPT ![work[w].job] = "running"]
    BY <1>8, <2>1, StartFacts DEF JobStarts, Moves, local
  <2>3. CASE work[w].job = j
    BY <2>2, <2>3 DEF Held
  <2>4. CASE work[w].job # j
    <3>1. server'[j] = server[j]
      BY <2>2, <2>4 DEF TypeOK
    <3>2. QED
      BY <1>1, <1>2, <2>2, <3>1, HeldOn
  <2>5. QED
    BY <2>3, <2>4
<1>9. ASSUME NEW w \in Workers, JobEnds(w)
      PROVE  Held(j)'
  <2>1. /\ awaiting' = awaiting /\ rejecting' = rejecting
        /\ \A v \in Workers \ {w} : work'[v] = work[v]
    BY <1>9, EndFacts DEF JobEnds, Moves, local
  <2>2. PICK status \in {"done", "failed"} : server' = [server EXCEPT ![work[w].job] = status]
    BY <1>9, EndFacts
  <2>3. work[w].job # j /\ server'[j] = server[j]
    BY <2>2 DEF TypeOK
  <2>4. QED
    BY <1>1, <1>2, <2>1, <2>3, HeldOn
<1>10. ASSUME NEW w \in Workers, OrphanEnds(w)
       PROVE  Held(j)'
  BY <1>1, <1>10 DEF OrphanEnds, LoneInv
<1>11. ASSUME NEW w \in Workers, ApprovedEnds(w)
       PROVE  Held(j)'
  <2>1. /\ awaiting' = awaiting /\ rejecting' = rejecting /\ server' = server
        /\ \A v \in Workers \ {w} : work'[v] = work[v]
    BY <1>11, FreeMoves DEF ApprovedEnds, remote
  <2>2. work[w].job # j
    BY <1>11, Items, FleetRuntimeAssumption DEF ApprovedEnds, Shapes, WorkShape
  <2>3. QED
    BY <1>1, <1>2, <2>1, <2>2, HeldOn
<1>12. ASSUME NEW i \in Jobs, Reject(i)
       PROVE  Held(j)'
  BY <1>1, <1>2, <1>12, HeldOn DEF Reject
<1>13. ASSUME NEW i \in Jobs, RejectArrives(i)
       PROVE  Held(j)'
  <2>1. /\ awaiting' = awaiting /\ work' = work /\ rejecting' = rejecting \ {i}
        /\ server' = [server EXCEPT ![i] = "cancelled"]
    BY <1>13 DEF RejectArrives, Update, local
  <2>2. i # j /\ server'[j] = server[j]
    BY <2>1 DEF TypeOK
  <2>3. QED
    BY <1>1, <1>2, <2>1, <2>2 DEF AssignedJobsAreHeld, Held
<1>14. ASSUME NEW i \in Jobs, NEW w \in Workers, Approve(i, w)
       PROVE  Held(j)'
  <2>1. /\ awaiting' = awaiting \ {i} /\ rejecting' = rejecting /\ server' = server
        /\ work[w] = Idle /\ work'[w].job = i
        /\ \A v \in Workers \ {w} : work'[v] = work[v]
    BY <1>14, ApproveMoves DEF Approve, remote
  <2>2. work[w].job # j
    BY <2>1, Items, FleetRuntimeAssumption
  <2>3. QED
    BY <1>1, <1>2, <2>1, <2>2 DEF AssignedJobsAreHeld, Held
<1>15. QED
  BY <1>3, <1>4, <1>5, <1>6, <1>7, <1>8, <1>9, <1>10, <1>11, <1>12, <1>13, <1>14
     DEF Next, LoopNext, UserNext, WorkerNext, WorkerOwes
-----------------------------------------------------------------------------
(* The invariant and what follows from it.                                   *)

LEMMA InitInv == Init => Inv
<1> SUFFICES ASSUME Init
             PROVE  Inv
  OBVIOUS
<1>0. work = [w \in Workers |-> Idle] /\ Idle \in WorkStates /\ Idle.job = None
      /\ \A w \in Workers : work[w] = Idle
  BY Items DEF Init
<1>1. TypeOK /\ Shapes
  <2>1. Shapes /\ WorkType
    BY <1>0 DEF Shapes, WorkShape, WorkType
  <2>2. Flags /\ LoopType /\ LocalType
    BY FleetRuntimeAssumption DEF Init, Flags, LoopType, LocalType
  <2>3. RemoteType /\ switches \in 0..MaxSwitches
    BY FleetRuntimeAssumption DEF Init, RemoteType
  <2>4. QED
    BY <2>1, <2>2, <2>3, TypeParts
<1>2. LoopInv /\ ChoiceInv
  BY DEF Init, LoopInv, ChoiceInv
<1>3. LoneInv
  BY Items DEF Init, LoneInv
<1>4. PlaceInv /\ OnceInv
  <2>1. \A w \in Workers : \A j \in Jobs : work[w].job # j
    BY <1>0, FleetRuntimeAssumption
  <2>2. awaiting = {} /\ shown = {} /\ rejecting = {}
        /\ \A j \in Jobs : server[j] = "pending" /\ runs[j] = 0
    BY DEF Init
  <2>3. QED
    BY <2>1, <2>2 DEF PlaceInv, OnceInv, OnOffer
<1>5. AssignedJobsAreHeld
  BY DEF Init, AssignedJobsAreHeld
<1>6. QED
  BY <1>1, <1>2, <1>3, <1>4, <1>5 DEF Inv, Shapes

LEMMA StepInv == Inv /\ [Next]_vars => Inv'
<1> SUFFICES ASSUME Inv, [Next]_vars
             PROVE  Inv'
  OBVIOUS
<1>1. /\ TypeOK /\ Shapes /\ LoopInv /\ ChoiceInv /\ LoneInv /\ PlaceInv /\ OnceInv
      /\ AssignedJobsAreHeld
  BY DEF Inv, Shapes
<1>2. TypeOK' /\ Shapes' /\ LoopInv'
  BY <1>1, StepTypes, ShapeStep, LoopStep
<1>3. ChoiceInv'
  BY <1>1, TypeParts, ChoiceStep
<1>4. LoneInv' /\ PlaceInv' /\ OnceInv'
  BY <1>1, LoneStep, PlaceStep, OnceStep
<1>5. AssignedJobsAreHeld'
  BY <1>1, HeldStep
<1>6. QED
  BY <1>2, <1>3, <1>4, <1>5 DEF Inv, Shapes

THEOREM Invariance == Spec => []Inv
  BY InitInv, StepInv, PTL DEF Spec

\* The runtime's state has its values; in particular a tick is waited for exactly
\* while the loop is ticking (runtime_loop_step, sync_runtime_loop).
THEOREM FleetTypes == Spec => []TypeOK
<1>1. Inv => TypeOK
  BY DEF Inv
<1>2. QED
  BY <1>1, Invariance, PTL

\* A machine executes one job at a time until it is stopped with work under way
\* (runtime_busy, sync_runtime_loop and approve_fleet_job).
THEOREM OneAtATime == Spec => []OneJobAtATime
<1>1. Inv => OneJobAtATime
  <2> SUFFICES ASSUME Inv, ~interrupted
               PROVE  ~(Cardinality(Executing) > 1)
    BY DEF OneJobAtATime
  <2>1. \A v, w \in Executing : v = w
    <3>1. \A w \in Executing : w \in Workers /\ work[w] # Idle
      BY NotIdle DEF Executing
    <3>2. QED
      BY <3>1 DEF Inv, LoneInv
  <2>2. CASE Executing = {}
    BY <2>2, FS_EmptySet
  <2>3. CASE Executing # {}
    <3>1. PICK w \in Executing : Executing = {w}
      BY <2>1, <2>3
    <3>2. Cardinality(Executing) = 1
      BY <3>1, FS_Singleton
    <3>3. QED
      BY <3>2
  <2>4. QED
    BY <2>2, <2>3
<1>2. QED
  BY <1>1, Invariance, PTL

\* No job is executed twice, and none that the user rejected (reject_fleet_job,
\* approve_fleet_job, runtime_tick).
THEOREM ExecutedOnce == Spec => []RunsOnceOrNever
<1>1. Inv => RunsOnceOrNever
  BY DEF Inv, OnceInv, RunsOnceOrNever
<1>2. QED
  BY <1>1, Invariance, PTL

\* A job assigned to this machine is waiting for the user, under way or being
\* rejected, unless a request failed or the runtime was stopped with it.
THEOREM NothingForgotten == Spec => []AssignedJobsAreHeld
<1>1. Inv => AssignedJobsAreHeld
  BY DEF Inv
<1>2. QED
  BY <1>1, Invariance, PTL

\* The runtime's loop runs only while enabling it was the user's last choice, as
\* long as the configuration file holds that choice (sync_runtime_loop).
THEOREM WantedOnly == Spec => []StartsOnlyWanted
<1>1. Inv => StartsOnlyWanted
  BY DEF Inv, LoopInv, ChoiceInv, StartsOnlyWanted
<1>2. QED
  BY <1>1, Invariance, PTL
=============================================================================
