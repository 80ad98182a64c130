------------------------- MODULE PortForwards_proofs -------------------------
(***************************************************************************)
(* Proofs about PortForwards, for any sets of forwards and attempts and any *)
(* bounds.  Typing is inductive by itself.  TrackedStoppable is not: the    *)
(* handle an answer carries to the UI must already keep its thread parked   *)
(* (HandleInTransit).  The task invariants need only typing.                *)
(***************************************************************************)
EXTENDS PortForwards, TLAPS

\* One step keeps every variable in its type.
LEMMA TypeStep == TypeOK /\ [Next]_vars => TypeOK'
<1>. SUFFICES ASSUME TypeOK, [Next]_vars PROVE TypeOK'
  OBVIOUS
<1>. USE PortForwardsAssumption DEF TypeOK, uiVars, startVars, taskVars
<1>1. ASSUME NEW f \in Forwards, NEW a \in Attempts, StartForward(f, a)
      PROVE  TypeOK'
  BY <1>1 DEF StartForward, StatusWith, MayStart
<1>2. ASSUME NEW f \in Forwards, StartImpossible(f) PROVE TypeOK'
  BY <1>2 DEF StartImpossible, StatusWith, MayStart
<1>3. ASSUME NEW f \in Forwards, StopForward(f) PROVE TypeOK'
  BY <1>3 DEF StopForward, StatusWith
<1>4. ASSUME NEW f \in Forwards, EditForward(f) PROVE TypeOK'
  BY <1>4 DEF EditForward, StatusWith
<1>5. ASSUME NEW f \in Forwards, DeleteConnection(f) PROVE TypeOK'
  BY <1>5 DEF DeleteConnection
<1>6. CASE Logout
  BY <1>6 DEF Logout
<1>7. CASE Login
  BY <1>7 DEF Login
<1>8. ASSUME NEW a \in Attempts, RecvResult(a) PROVE TypeOK'
  BY <1>8 DEF RecvResult
<1>9. ASSUME NEW a \in Attempts, TimeoutFires(a) PROVE TypeOK'
  BY <1>9 DEF TimeoutFires
<1>10. ASSUME NEW a \in Attempts, ApplyOk(a) PROVE TypeOK'
  BY <1>10 DEF ApplyOk, StatusWith
<1>11. ASSUME NEW a \in Attempts, ApplyFailure(a) PROVE TypeOK'
  BY <1>11 DEF ApplyFailure, StatusWith
<1>12. ASSUME NEW a \in Attempts, ThreadConnects(a) PROVE TypeOK'
  BY <1>12 DEF ThreadConnects
<1>13. ASSUME NEW a \in Attempts, ThreadFails(a) PROVE TypeOK'
  BY <1>13 DEF ThreadFails, MailWith
<1>14. ASSUME NEW a \in Attempts, ThreadStartsTunnel(a) PROVE TypeOK'
  BY <1>14 DEF ThreadStartsTunnel, MailWith
<1>15. ASSUME NEW a \in Attempts, ThreadWakes(a) PROVE TypeOK'
  BY <1>15 DEF ThreadWakes
<1>16. ASSUME NEW a \in Attempts, GraceEnds(a) PROVE TypeOK'
  BY <1>16 DEF GraceEnds
<1>17. ASSUME NEW a \in Attempts, SessionLost(a) PROVE TypeOK'
  BY <1>17 DEF SessionLost
<1>18. ASSUME NEW a \in Attempts, TaskBinds(a) PROVE TypeOK'
  BY <1>18 DEF TaskBinds
<1>19. ASSUME NEW a \in Attempts, TaskBindFails(a) PROVE TypeOK'
  BY <1>19 DEF TaskBindFails
<1>20. ASSUME NEW a \in Attempts, ConnAccept(a) PROVE TypeOK'
  BY <1>20 DEF ConnAccept
<1>21. ASSUME NEW a \in Attempts, ConnEnds(a) PROVE TypeOK'
  BY <1>21 DEF ConnEnds
<1>22. ASSUME NEW a \in Attempts, TaskStops(a) PROVE TypeOK'
  BY <1>22 DEF TaskStops
<1>23. ASSUME NEW a \in Attempts, TaskDrained(a) PROVE TypeOK'
  BY <1>23 DEF TaskDrained
<1>24. CASE UNCHANGED vars
  BY <1>24 DEF vars
<1>25. QED
  BY <1>1, <1>2, <1>3, <1>4, <1>5, <1>6, <1>7, <1>8, <1>9, <1>10, <1>11, <1>12,
     <1>13, <1>14, <1>15, <1>16, <1>17, <1>18, <1>19, <1>20, <1>21, <1>22,
     <1>23, <1>24
  DEF Next, UIStep, AttemptStep, WaiterStep, ThreadStep, TaskStep

\* Type correctness of every reachable state (every variable of the handler,
\* the waiter, the thread and the tunnel task).
THEOREM TypeCorrect == Spec => []TypeOK
<1>1. Init => TypeOK
  BY PortForwardsAssumption DEF Init, TypeOK
<1>2. QED
  BY <1>1, TypeStep, PTL DEF Spec

\* Ownership of the proxy handle: in the map, or in transit, never both.
Ownership == TypeOK /\ TrackedStoppable /\ HandleInTransit

LEMMA OwnershipStep == Ownership /\ [Next]_vars => Ownership'
<1>. SUFFICES ASSUME TypeOK, TrackedStoppable, HandleInTransit, [Next]_vars
              PROVE  TrackedStoppable' /\ HandleInTransit'
  BY TypeStep DEF Ownership
<1>. USE PortForwardsAssumption
     DEF TypeOK, TrackedStoppable, HandleInTransit, uiVars, startVars, taskVars
<1>1. ASSUME NEW f \in Forwards, NEW a \in Attempts, StartForward(f, a)
      PROVE  TrackedStoppable' /\ HandleInTransit'
  BY <1>1 DEF StartForward, StatusWith, MayStart
<1>2. ASSUME NEW f \in Forwards, StartImpossible(f)
      PROVE  TrackedStoppable' /\ HandleInTransit'
  BY <1>2 DEF StartImpossible, StatusWith, MayStart
<1>3. ASSUME NEW f \in Forwards, StopForward(f)
      PROVE  TrackedStoppable' /\ HandleInTransit'
  BY <1>3 DEF StopForward, StatusWith
<1>4. ASSUME NEW f \in Forwards, EditForward(f)
      PROVE  TrackedStoppable' /\ HandleInTransit'
  BY <1>4 DEF EditForward, StatusWith
<1>5. ASSUME NEW f \in Forwards, DeleteConnection(f)
      PROVE  TrackedStoppable' /\ HandleInTransit'
  BY <1>5 DEF DeleteConnection
<1>6. CASE Logout
  BY <1>6 DEF Logout
<1>7. CASE Login
  BY <1>7 DEF Login
<1>8. ASSUME NEW a \in Attempts, RecvResult(a)
      PROVE  TrackedStoppable' /\ HandleInTransit'
  BY <1>8 DEF RecvResult
<1>9. ASSUME NEW a \in Attempts, TimeoutFires(a)
      PROVE  TrackedStoppable' /\ HandleInTransit'
  BY <1>9 DEF TimeoutFires
<1>10. ASSUME NEW a \in Attempts, ApplyOk(a)
      PROVE  TrackedStoppable' /\ HandleInTransit'
  BY <1>10 DEF ApplyOk, StatusWith
<1>11. ASSUME NEW a \in Attempts, ApplyFailure(a)
      PROVE  TrackedStoppable' /\ HandleInTransit'
  BY <1>11 DEF ApplyFailure, StatusWith
<1>12. ASSUME NEW a \in Attempts, ThreadConnects(a)
      PROVE  TrackedStoppable' /\ HandleInTransit'
  BY <1>12 DEF ThreadConnects
<1>13. ASSUME NEW a \in Attempts, ThreadFails(a)
      PROVE  TrackedStoppable' /\ HandleInTransit'
  BY <1>13 DEF ThreadFails, MailWith
<1>14. ASSUME NEW a \in Attempts, ThreadStartsTunnel(a)
      PROVE  TrackedStoppable' /\ HandleInTransit'
  BY <1>14 DEF ThreadStartsTunnel, MailWith
<1>15. ASSUME NEW a \in Attempts, ThreadWakes(a)
      PROVE  TrackedStoppable' /\ HandleInTransit'
  BY <1>15 DEF ThreadWakes, HandleHeld
<1>16. ASSUME NEW a \in Attempts, GraceEnds(a)
      PROVE  TrackedStoppable' /\ HandleInTransit'
  BY <1>16 DEF GraceEnds
<1>17. ASSUME NEW a \in Attempts, SessionLost(a)
      PROVE  TrackedStoppable' /\ HandleInTransit'
  BY <1>17 DEF SessionLost
<1>18. ASSUME NEW a \in Attempts, TaskBinds(a)
      PROVE  TrackedStoppable' /\ HandleInTransit'
  BY <1>18 DEF TaskBinds
<1>19. ASSUME NEW a \in Attempts, TaskBindFails(a)
      PROVE  TrackedStoppable' /\ HandleInTransit'
  BY <1>19 DEF TaskBindFails
<1>20. ASSUME NEW a \in Attempts, ConnAccept(a)
      PROVE  TrackedStoppable' /\ HandleInTransit'
  BY <1>20 DEF ConnAccept
<1>21. ASSUME NEW a \in Attempts, ConnEnds(a)
      PROVE  TrackedStoppable' /\ HandleInTransit'
  BY <1>21 DEF ConnEnds
<1>22. ASSUME NEW a \in Attempts, TaskStops(a)
      PROVE  TrackedStoppable' /\ HandleInTransit'
  BY <1>22 DEF TaskStops
<1>23. ASSUME NEW a \in Attempts, TaskDrained(a)
      PROVE  TrackedStoppable' /\ HandleInTransit'
  BY <1>23 DEF TaskDrained
<1>24. CASE UNCHANGED vars
  BY <1>24 DEF vars
<1>25. QED
  BY <1>1, <1>2, <1>3, <1>4, <1>5, <1>6, <1>7, <1>8, <1>9, <1>10, <1>11, <1>12,
     <1>13, <1>14, <1>15, <1>16, <1>17, <1>18, <1>19, <1>20, <1>21, <1>22,
     <1>23, <1>24
  DEF Next, UIStep, AttemptStep, WaiterStep, ThreadStep, TaskStep

\* A tracked tunnel can be stopped: its thread is parked on the channel of the
\* very handle active_tunnels holds.
THEOREM TrackedTunnelsAreStoppable == Spec => [](TrackedStoppable /\ HandleInTransit)
<1>1. Init => Ownership
  BY PortForwardsAssumption DEF Init, Ownership, TypeOK, TrackedStoppable, HandleInTransit
<1>2. Ownership => TrackedStoppable /\ HandleInTransit
  BY DEF Ownership
<1>3. QED
  BY <1>1, <1>2, OwnershipStep, PTL DEF Spec

\* The tunnel task and its connections: driven as long as there are any.
TaskInv == TypeOK /\ ListenerIsDriven

LEMMA TaskStepKeeps == TaskInv /\ [Next]_vars => TaskInv'
<1>. SUFFICES ASSUME TypeOK, ListenerIsDriven, [Next]_vars
              PROVE  ListenerIsDriven'
  BY TypeStep DEF TaskInv
<1>. USE PortForwardsAssumption
     DEF TypeOK, ListenerIsDriven, Driven, uiVars, startVars, taskVars
<1>1. ASSUME NEW f \in Forwards, NEW a \in Attempts, StartForward(f, a)
      PROVE  ListenerIsDriven'
  BY <1>1 DEF StartForward, StatusWith, MayStart
<1>2. ASSUME NEW f \in Forwards, StartImpossible(f)
      PROVE  ListenerIsDriven'
  BY <1>2 DEF StartImpossible, StatusWith, MayStart
<1>3. ASSUME NEW f \in Forwards, StopForward(f)
      PROVE  ListenerIsDriven'
  BY <1>3 DEF StopForward, StatusWith
<1>4. ASSUME NEW f \in Forwards, EditForward(f)
      PROVE  ListenerIsDriven'
  BY <1>4 DEF EditForward, StatusWith
<1>5. ASSUME NEW f \in Forwards, DeleteConnection(f)
      PROVE  ListenerIsDriven'
  BY <1>5 DEF DeleteConnection
<1>6. CASE Logout
  BY <1>6 DEF Logout
<1>7. CASE Login
  BY <1>7 DEF Login
<1>8. ASSUME NEW a \in Attempts, RecvResult(a)
      PROVE  ListenerIsDriven'
  BY <1>8 DEF RecvResult
<1>9. ASSUME NEW a \in Attempts, TimeoutFires(a)
      PROVE  ListenerIsDriven'
  BY <1>9 DEF TimeoutFires
<1>10. ASSUME NEW a \in Attempts, ApplyOk(a)
      PROVE  ListenerIsDriven'
  BY <1>10 DEF ApplyOk, StatusWith
<1>11. ASSUME NEW a \in Attempts, ApplyFailure(a)
      PROVE  ListenerIsDriven'
  BY <1>11 DEF ApplyFailure, StatusWith
<1>12. ASSUME NEW a \in Attempts, ThreadConnects(a)
      PROVE  ListenerIsDriven'
  BY <1>12 DEF ThreadConnects
<1>13. ASSUME NEW a \in Attempts, ThreadFails(a)
      PROVE  ListenerIsDriven'
  BY <1>13 DEF ThreadFails, MailWith
<1>14. ASSUME NEW a \in Attempts, ThreadStartsTunnel(a)
      PROVE  ListenerIsDriven'
  BY <1>14 DEF ThreadStartsTunnel, MailWith
<1>15. ASSUME NEW a \in Attempts, ThreadWakes(a)
      PROVE  ListenerIsDriven'
  BY <1>15 DEF ThreadWakes
<1>16. ASSUME NEW a \in Attempts, GraceEnds(a)
      PROVE  ListenerIsDriven'
  BY <1>16 DEF GraceEnds
<1>17. ASSUME NEW a \in Attempts, SessionLost(a)
      PROVE  ListenerIsDriven'
  BY <1>17 DEF SessionLost
<1>18. ASSUME NEW a \in Attempts, TaskBinds(a)
      PROVE  ListenerIsDriven'
  BY <1>18 DEF TaskBinds
<1>19. ASSUME NEW a \in Attempts, TaskBindFails(a)
      PROVE  ListenerIsDriven'
  BY <1>19 DEF TaskBindFails
<1>20. ASSUME NEW a \in Attempts, ConnAccept(a)
      PROVE  ListenerIsDriven'
  BY <1>20 DEF ConnAccept
<1>21. ASSUME NEW a \in Attempts, ConnEnds(a)
      PROVE  ListenerIsDriven'
  BY <1>21 DEF ConnEnds
<1>22. ASSUME NEW a \in Attempts, TaskStops(a)
      PROVE  ListenerIsDriven'
  BY <1>22 DEF TaskStops
<1>23. ASSUME NEW a \in Attempts, TaskDrained(a)
      PROVE  ListenerIsDriven'
  BY <1>23 DEF TaskDrained
<1>24. CASE UNCHANGED vars
  BY <1>24 DEF vars
<1>25. QED
  BY <1>1, <1>2, <1>3, <1>4, <1>5, <1>6, <1>7, <1>8, <1>9, <1>10, <1>11, <1>12,
     <1>13, <1>14, <1>15, <1>16, <1>17, <1>18, <1>19, <1>20, <1>21, <1>22,
     <1>23, <1>24
  DEF Next, UIStep, AttemptStep, WaiterStep, ThreadStep, TaskStep

\* No task holds a port, and no connection is served, unless the thread that can
\* end them runs, however task and thread came to their ends.
THEOREM TunnelTasksAreDriven == Spec => [](ListenerIsDriven)
<1>1. Init => TaskInv
  BY PortForwardsAssumption DEF Init, TaskInv, TypeOK, ListenerIsDriven
<1>2. TaskInv => ListenerIsDriven
  BY DEF TaskInv
<1>3. QED
  BY <1>1, <1>2, TaskStepKeeps, PTL DEF Spec
-----------------------------------------------------------------------------
(* The refinement: every step is a step of TunnelLifecycle or a stutter.    *)

\* A thread that was started was started for a forward.
StartedForAForward == \A a \in Attempts : thr[a] # "idle" => fwd[a] \in Forwards

RefinementInv == Ownership /\ StartedForAForward

LEMMA RefinementInvStep == RefinementInv /\ [Next]_vars => RefinementInv'
<1>. SUFFICES ASSUME Ownership, StartedForAForward, [Next]_vars PROVE StartedForAForward'
  BY OwnershipStep DEF RefinementInv
<1>. USE PortForwardsAssumption
     DEF Ownership, TypeOK, StartedForAForward, uiVars, startVars, taskVars
<1>1. ASSUME NEW f \in Forwards, NEW a \in Attempts, StartForward(f, a)
      PROVE  StartedForAForward'
  BY <1>1 DEF StartForward, StatusWith, MayStart
<1>2. ASSUME NEW f \in Forwards, StartImpossible(f) PROVE StartedForAForward'
  BY <1>2 DEF StartImpossible, StatusWith, MayStart
<1>3. ASSUME NEW f \in Forwards, StopForward(f) PROVE StartedForAForward'
  BY <1>3 DEF StopForward, StatusWith
<1>4. ASSUME NEW f \in Forwards, EditForward(f) PROVE StartedForAForward'
  BY <1>4 DEF EditForward, StatusWith
<1>5. ASSUME NEW f \in Forwards, DeleteConnection(f) PROVE StartedForAForward'
  BY <1>5 DEF DeleteConnection
<1>6. CASE Logout
  BY <1>6 DEF Logout
<1>7. CASE Login
  BY <1>7 DEF Login
<1>8. ASSUME NEW a \in Attempts, RecvResult(a) PROVE StartedForAForward'
  BY <1>8 DEF RecvResult
<1>9. ASSUME NEW a \in Attempts, TimeoutFires(a) PROVE StartedForAForward'
  BY <1>9 DEF TimeoutFires
<1>10. ASSUME NEW a \in Attempts, ApplyOk(a) PROVE StartedForAForward'
  BY <1>10 DEF ApplyOk, StatusWith
<1>11. ASSUME NEW a \in Attempts, ApplyFailure(a) PROVE StartedForAForward'
  BY <1>11 DEF ApplyFailure, StatusWith
<1>12. ASSUME NEW a \in Attempts, ThreadConnects(a) PROVE StartedForAForward'
  BY <1>12 DEF ThreadConnects
<1>13. ASSUME NEW a \in Attempts, ThreadFails(a) PROVE StartedForAForward'
  BY <1>13 DEF ThreadFails, MailWith
<1>14. ASSUME NEW a \in Attempts, ThreadStartsTunnel(a) PROVE StartedForAForward'
  BY <1>14 DEF ThreadStartsTunnel, MailWith
<1>15. ASSUME NEW a \in Attempts, ThreadWakes(a) PROVE StartedForAForward'
  BY <1>15 DEF ThreadWakes
<1>16. ASSUME NEW a \in Attempts, GraceEnds(a) PROVE StartedForAForward'
  BY <1>16 DEF GraceEnds
<1>17. ASSUME NEW a \in Attempts, SessionLost(a) PROVE StartedForAForward'
  BY <1>17 DEF SessionLost
<1>18. ASSUME NEW a \in Attempts, TaskBinds(a) PROVE StartedForAForward'
  BY <1>18 DEF TaskBinds
<1>19. ASSUME NEW a \in Attempts, TaskBindFails(a) PROVE StartedForAForward'
  BY <1>19 DEF TaskBindFails
<1>20. ASSUME NEW a \in Attempts, ConnAccept(a) PROVE StartedForAForward'
  BY <1>20 DEF ConnAccept
<1>21. ASSUME NEW a \in Attempts, ConnEnds(a) PROVE StartedForAForward'
  BY <1>21 DEF ConnEnds
<1>22. ASSUME NEW a \in Attempts, TaskStops(a) PROVE StartedForAForward'
  BY <1>22 DEF TaskStops
<1>23. ASSUME NEW a \in Attempts, TaskDrained(a) PROVE StartedForAForward'
  BY <1>23 DEF TaskDrained
<1>24. CASE UNCHANGED vars
  BY <1>24 DEF vars
<1>25. QED
  BY <1>1, <1>2, <1>3, <1>4, <1>5, <1>6, <1>7, <1>8, <1>9, <1>10, <1>11, <1>12,
     <1>13, <1>14, <1>15, <1>16, <1>17, <1>18, <1>19, <1>20, <1>21, <1>22,
     <1>23, <1>24
  DEF Next, UIStep, AttemptStep, WaiterStep, ThreadStep, TaskStep

\* A step that moves the phase of a alone, as the abstract actions write it.
LEMMA OnePhaseMoves ==
  ASSUME NEW a \in Attempts, NEW p,
         \A b \in Attempts : Phase(b)' = IF b = a THEN p ELSE Phase(b)
  PROVE  [b \in Attempts |-> Phase(b)]' = [[b \in Attempts |-> Phase(b)] EXCEPT ![a] = p]
<1>. DEFINE ph == [b \in Attempts |-> Phase(b)]
<1>1. ph' = [b \in Attempts |-> IF b = a THEN p ELSE Phase(b)]
  OBVIOUS
<1>2. [ph EXCEPT ![a] = p] = [b \in Attempts |-> IF b = a THEN p ELSE Phase(b)]
  OBVIOUS
<1>3. QED
  BY <1>1, <1>2

LEMMA RefinementStep ==
  RefinementInv /\ [Next]_vars => [Lifecycle!Next]_(Lifecycle!vars)
<1>. SUFFICES ASSUME RefinementInv, [Next]_vars
              PROVE  Lifecycle!Next \/ UNCHANGED Lifecycle!vars
  OBVIOUS
<1>. USE PortForwardsAssumption
     DEF RefinementInv, Ownership, TypeOK, TrackedStoppable, HandleInTransit,
         StartedForAForward, uiVars, startVars, taskVars
<1>1. ASSUME NEW f \in Forwards, NEW a \in Attempts, StartForward(f, a)
      PROVE  Lifecycle!Begin(a)
  <2>1. Phase(a) = "unused" /\ Phase(a)' = "pending"
    BY <1>1 DEF StartForward, MayStart, Phase
  <2>2. \A b \in Attempts : Phase(b)' = IF b = a THEN "pending" ELSE Phase(b)
    BY <1>1 DEF StartForward, MayStart, Phase
  <2>3. QED
    BY <1>1, <2>1, <2>2, OnePhaseMoves DEF StartForward, Lifecycle!Begin
<1>2. ASSUME NEW f \in Forwards, StartImpossible(f) PROVE UNCHANGED Lifecycle!vars
  BY <1>2 DEF StartImpossible, Lifecycle!vars, Phase
<1>3. ASSUME NEW f \in Forwards, StopForward(f)
      PROVE  Lifecycle!Release({f}) \/ UNCHANGED Lifecycle!vars
  <2>1. CASE active[f] = None
    BY <1>3, <2>1 DEF StopForward, Lifecycle!vars, Phase
  <2>2. CASE active[f] # None
    <3>1. \A b \in Attempts :
            Phase(b)' = IF active[f] = b THEN "closing" ELSE Phase(b)
      BY <1>3, <2>2 DEF StopForward, Phase
    <3>2. active' = [g \in Forwards |-> IF g \in {f} THEN None ELSE active[g]]
      BY <1>3 DEF StopForward
    <3>3. \A b \in Attempts :
            Phase(b)' = IF \E g \in {f} : active[g] = b THEN "closing" ELSE Phase(b)
      BY <3>1
    <3>4. QED
      BY <2>2, <3>2, <3>3 DEF Lifecycle!Release
  <2>3. QED
    BY <2>1, <2>2
<1>4. ASSUME NEW f \in Forwards, EditForward(f) PROVE UNCHANGED Lifecycle!vars
  BY <1>4 DEF EditForward, Lifecycle!vars, Phase
<1>5. ASSUME NEW f \in Forwards, DeleteConnection(f) PROVE UNCHANGED Lifecycle!vars
  BY <1>5 DEF DeleteConnection, Lifecycle!vars, Phase
<1>6. CASE Logout
  <2>1. CASE \A f \in Forwards : active[f] = None
    BY <1>6, <2>1 DEF Logout, Lifecycle!vars, Phase
  <2>2. CASE \E f \in Forwards : active[f] # None
    <3>1. \A b \in Attempts :
            Phase(b)' = IF \E f \in Forwards : active[f] = b THEN "closing" ELSE Phase(b)
      BY <1>6, <2>2 DEF Logout, Phase
    <3>2. Lifecycle!Release(Forwards)
      BY <1>6, <2>2, <3>1 DEF Logout, Lifecycle!Release
    <3>3. Forwards \in (SUBSET Forwards) \ {{}}
      BY <2>2
    <3>4. QED
      BY <3>2, <3>3 DEF Lifecycle!Next
  <2>3. QED
    BY <2>1, <2>2
<1>7. CASE Login
  BY <1>7 DEF Login, Lifecycle!vars, Phase
<1>8. ASSUME NEW a \in Attempts, RecvResult(a) \/ TimeoutFires(a)
      PROVE  Lifecycle!Abandon(a) \/ UNCHANGED Lifecycle!vars
  <2>1. \A b \in Attempts \ {a} : Phase(b)' = Phase(b)
    BY <1>8 DEF RecvResult, TimeoutFires, Phase
  <2>2. \/ Phase(a)' = Phase(a)
        \/ Phase(a) = "pending" /\ Phase(a)' = "closing"
    BY <1>8 DEF RecvResult, TimeoutFires, Phase
  <2>3. UNCHANGED active
    BY <1>8 DEF RecvResult, TimeoutFires
  <2>4. CASE Phase(a)' = Phase(a)
    <3>1. \A b \in Attempts : Phase(b)' = Phase(b)
      BY <2>1, <2>4
    <3>2. QED
      BY <2>3, <3>1 DEF Lifecycle!vars
  <2>5. CASE Phase(a) = "pending" /\ Phase(a)' = "closing"
    <3>1. \A b \in Attempts : Phase(b)' = IF b = a THEN "closing" ELSE Phase(b)
      BY <2>1, <2>5
    <3>2. QED
      BY <2>3, <2>5, <3>1, OnePhaseMoves DEF Lifecycle!Abandon
  <2>6. QED
    BY <2>2, <2>4, <2>5
<1>9. ASSUME NEW a \in Attempts, ApplyOk(a)
      PROVE  \E f \in Forwards : Lifecycle!Adopt(a, f)
  <2>1. fwd[a] \in Forwards /\ Phase(a) = "pending"
    BY <1>9 DEF ApplyOk, Phase
  <2>2. \A b \in Attempts :
          Phase(b)' = IF b = a THEN "open"
                      ELSE IF b = active[fwd[a]] THEN "closing" ELSE Phase(b)
    BY <1>9, <2>1 DEF ApplyOk, Phase
  <2>3. Lifecycle!Adopt(a, fwd[a])
    BY <1>9, <2>1, <2>2 DEF ApplyOk, Lifecycle!Adopt
  <2>4. QED
    BY <2>1, <2>3
<1>10. ASSUME NEW a \in Attempts, ApplyFailure(a) PROVE UNCHANGED Lifecycle!vars
  BY <1>10 DEF ApplyFailure, Lifecycle!vars, Phase
<1>11. ASSUME NEW a \in Attempts, ThreadConnects(a) PROVE UNCHANGED Lifecycle!vars
  BY <1>11 DEF ThreadConnects, Lifecycle!vars, Phase
<1>12. ASSUME NEW a \in Attempts, ThreadFails(a) \/ GraceEnds(a)
       PROVE  Lifecycle!Fail(a) \/ Lifecycle!Finish(a)
  <2>1. \A b \in Attempts : Phase(b)' = IF b = a THEN "gone" ELSE Phase(b)
    BY <1>12 DEF ThreadFails, GraceEnds, Phase
  <2>2. Phase(a) \in {"pending", "closing"}
    BY <1>12 DEF ThreadFails, GraceEnds, Phase
  <2>3. UNCHANGED active
    BY <1>12 DEF ThreadFails, GraceEnds
  <2>4. QED
    BY <2>1, <2>2, <2>3, OnePhaseMoves DEF Lifecycle!Fail, Lifecycle!Finish
<1>13. ASSUME NEW a \in Attempts, ThreadStartsTunnel(a) PROVE UNCHANGED Lifecycle!vars
  BY <1>13 DEF ThreadStartsTunnel, Lifecycle!vars, Phase
<1>14. ASSUME NEW a \in Attempts, ThreadWakes(a) PROVE UNCHANGED Lifecycle!vars
  BY <1>14 DEF ThreadWakes, Lifecycle!vars, Phase
<1>15. ASSUME NEW a \in Attempts, SessionLost(a) \/ TaskStep(a)
       PROVE  UNCHANGED Lifecycle!vars
  BY <1>15 DEF SessionLost, TaskStep, TaskBinds, TaskBindFails, ConnAccept, ConnEnds,
               TaskStops, TaskDrained, Lifecycle!vars, Phase
<1>16. CASE UNCHANGED vars
  BY <1>16 DEF vars, Lifecycle!vars, Phase
<1>17. QED
  <2>1. CASE UIStep
    <3>1. \A f \in Forwards : {f} \in (SUBSET Forwards) \ {{}}
      OBVIOUS
    <3>2. QED
      BY <2>1, <3>1, <1>1, <1>2, <1>3, <1>4, <1>5, <1>6, <1>7 DEF UIStep, Lifecycle!Next
  <2>2. ASSUME NEW a \in Attempts, AttemptStep(a)
        PROVE  Lifecycle!Next \/ UNCHANGED Lifecycle!vars
    BY <2>2, <1>8, <1>9, <1>10, <1>11, <1>12, <1>13, <1>14, <1>15
    DEF AttemptStep, WaiterStep, ThreadStep, Lifecycle!Next, Lifecycle!Settle
  <2>3. QED
    BY <2>1, <2>2, <1>16 DEF Next

\* Stop, timeout, overwrite and logout all let go of an attempt for good: with
\* its threads, channels and timers the code implements TunnelLifecycle's steps.
THEOREM ImplementsLifecycleSafety == Spec => Lifecycle!Safety
<1>1. Init => RefinementInv
  BY PortForwardsAssumption
  DEF Init, RefinementInv, Ownership, TypeOK, TrackedStoppable, HandleInTransit,
      StartedForAForward
<1>2. Init => Lifecycle!Init
  BY DEF Init, Lifecycle!Init, Phase
<1>3. QED
  BY <1>1, <1>2, RefinementInvStep, RefinementStep, PTL DEF Spec, Lifecycle!Safety
=============================================================================
