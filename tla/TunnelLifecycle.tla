--------------------------- MODULE TunnelLifecycle ---------------------------
(***************************************************************************)
(* What the port-forward feature promises, with no thread, channel or      *)
(* timer in sight.  Every start of a forward is an attempt that owns a      *)
(* background resource (an SSH session, a listener, its connections).  The  *)
(* workspace owns at most one attempt per forward; an attempt it does not   *)
(* own any more can never be owned again, and its resource goes away.       *)
(***************************************************************************)

CONSTANTS Forwards, Attempts, None

VARIABLES
  phase,    \* phase[a]: where the background resource of attempt a stands
  owner     \* owner[f]: the attempt the workspace holds for forward f, or None

vars == <<phase, owner>>

Init == /\ phase = [a \in Attempts |-> "unused"]
        /\ owner = [f \in Forwards |-> None]

\* A start: the resource is being set up and may still be adopted.
Begin(a) == /\ phase[a] = "unused"
            /\ phase' = [phase EXCEPT ![a] = "pending"]
            /\ UNCHANGED owner

\* The set-up fails and takes the resource with it.
Fail(a) == /\ phase[a] = "pending"
           /\ phase' = [phase EXCEPT ![a] = "gone"]
           /\ UNCHANGED owner

\* Nobody waits for the outcome any more.
Abandon(a) == /\ phase[a] = "pending"
              /\ phase' = [phase EXCEPT ![a] = "closing"]
              /\ UNCHANGED owner

\* The workspace takes the attempt; one it held for the same forward is let go.
Adopt(a, f) == /\ phase[a] = "pending"
               /\ owner' = [owner EXCEPT ![f] = a]
               /\ phase' = [b \in Attempts |->
                              IF b = a THEN "open"
                              ELSE IF b = owner[f] THEN "closing" ELSE phase[b]]

\* The workspace lets go of the attempts it holds for the forwards in F.
Release(F) ==
  /\ \E f \in F : owner[f] # None
  /\ owner' = [f \in Forwards |-> IF f \in F THEN None ELSE owner[f]]
  /\ phase' = [a \in Attempts |->
                 IF \E f \in F : owner[f] = a THEN "closing" ELSE phase[a]]

\* The resource of an attempt nobody owns is gone.
Finish(a) == /\ phase[a] = "closing"
             /\ phase' = [phase EXCEPT ![a] = "gone"]
             /\ UNCHANGED owner

Settle(a) == Fail(a) \/ Abandon(a) \/ (\E f \in Forwards : Adopt(a, f))

Next == \/ \E a \in Attempts : Begin(a) \/ Settle(a) \/ Finish(a)
        \/ \E F \in (SUBSET Forwards) \ {{}} : Release(F)

Safety == Init /\ [][Next]_vars

Spec == Safety /\ \A a \in Attempts : WF_vars(Settle(a)) /\ WF_vars(Finish(a))
=============================================================================
