--------------------------- MODULE SingleInstance ---------------------------
(***************************************************************************)
(* The single-instance guard (shelldeck-core/src/config/single_instance.rs   *)
(* and main.rs): a launch reads the discovery file, hands its link to the    *)
(* process the file names, and exits on its OK; on anything else it binds a  *)
(* listener, publishes itself in the file and becomes the window.            *)
(*                                                                         *)
(* A process is known by the port and token it publishes: a connection to a  *)
(* port whose owner is gone is refused, or answered by a stranger that does   *)
(* not know the token, which is the same to the launch.                      *)
(***************************************************************************)
EXTENDS Integers, Sequences

CONSTANTS
  Procs,   \* the processes that may be launched
  None

ASSUME SingleInstanceAssumption == None \notin Procs

VARIABLES
  pc,       \* pc[p]: how far the launch or the life of p has come
  info,     \* info[p]: the process the file named when p read it
  file,     \* the process instance.json names, or None
  linked,   \* the launches that carry a shelldeck:// link
  queue,    \* queue[q]: connections at the listener of q, in order
  serving,  \* serving[q]: the hand-off q has answered and not yet delivered
  ackedBy,  \* ackedBy[p]: the process that sent p its OK
  opened,   \* opened[p]: windows shown the request p was launched with
  upset     \* history: what made the hand-off unreliable

vars == <<pc, info, file, linked, queue, serving, ackedBy, opened, upset>>

Undecided == {"reading", "connecting", "waiting", "binding", "bound", "primary"}
Owning == {"primary", "listening", "closing"}   \* its published socket is open
Windows == {"bound", "primary", "listening", "deaf"}
In(S) == {p \in Procs : pc[p] \in S}

Goto(p, s) == pc' = [pc EXCEPT ![p] = s]

Init ==
  /\ pc = [p \in Procs |-> "new"]
  /\ info = [p \in Procs |-> None]
  /\ file = None
  /\ linked \in SUBSET Procs
  /\ queue = [p \in Procs |-> <<>>]
  /\ serving = [p \in Procs |-> None]
  /\ ackedBy = [p \in Procs |-> None]
  /\ opened = [p \in Procs |-> 0]
  /\ upset = {}

-----------------------------------------------------------------------------
(* acquire_at                                                               *)

Launch(p) ==
  /\ pc[p] = "new"
  /\ Goto(p, "reading")
  /\ upset' = IF In(Undecided) = {} THEN upset ELSE upset \cup {"raced"}
  /\ UNCHANGED <<info, file, linked, queue, serving, ackedBy, opened>>

\* Faulty variants, used by no action, are named ...Fault...
\* Fault: another path is read than the one written.
ReadFaultPath(p) ==
  /\ pc[p] = "reading"
  /\ Goto(p, "binding")
  /\ UNCHANGED <<info, file, linked, queue, serving, ackedBy, opened, upset>>
ReadInfo(p) ==
  /\ pc[p] = "reading"
  /\ info' = [info EXCEPT ![p] = file]
  /\ Goto(p, IF file = None THEN "binding" ELSE "connecting")
  /\ UNCHANGED <<file, linked, queue, serving, ackedBy, opened, upset>>

\* The kernel accepts for an open socket whatever its thread is doing.
Connect(p) ==
  /\ pc[p] = "connecting"
  /\ IF pc[info[p]] \in Owning
     THEN /\ Goto(p, "waiting")
          /\ queue' = [queue EXCEPT ![info[p]] = Append(@, p)]
     ELSE Goto(p, "binding") /\ UNCHANGED queue
  /\ UNCHANGED <<info, file, linked, serving, ackedBy, opened, upset>>

HandedOff(p) ==
  /\ pc[p] = "waiting" /\ ackedBy[p] # None
  /\ Goto(p, "exited")
  /\ UNCHANGED <<info, file, linked, queue, serving, ackedBy, opened, upset>>

\* Fault: no read timeout; only a closed connection ends the wait.
GiveUpFaultNoTimeout(p) ==
  /\ pc[p] = "waiting" /\ ackedBy[p] = None /\ pc[info[p]] \notin Owning
  /\ Goto(p, "binding")
  /\ UNCHANGED <<info, file, linked, queue, serving, ackedBy, opened, upset>>

\* The connection is closed without OK, or the read times out; the request stays
\* in the socket of a process that is only slow.
GiveUp(p) ==
  /\ pc[p] = "waiting" /\ ackedBy[p] = None
  /\ Goto(p, "binding")
  /\ upset' = IF pc[info[p]] \in Owning THEN upset \cup {"late"} ELSE upset
  /\ UNCHANGED <<info, file, linked, queue, serving, ackedBy, opened>>

Bind(p) ==
  /\ pc[p] = "binding"
  /\ Goto(p, "bound")
  /\ UNCHANGED <<info, file, linked, queue, serving, ackedBy, opened, upset>>

\* The second bind fails too: the process exits as if it had handed over.
BindFails(p) ==
  /\ pc[p] = "binding"
  /\ Goto(p, "exited")
  /\ UNCHANGED <<info, file, linked, queue, serving, ackedBy, opened, upset>>

\* A file that cannot be written leaves the old one and a window nobody finds.
Publish(p) ==
  /\ pc[p] = "bound"
  /\ Goto(p, "primary")
  /\ \/ file' = p /\ UNCHANGED upset
     \/ UNCHANGED file /\ upset' = upset \cup {"unpublished"}
  /\ UNCHANGED <<info, linked, queue, serving, ackedBy, opened>>

-----------------------------------------------------------------------------
(* listen_with                                                              *)

\* A thread that cannot be created takes its socket with it: the window stays, named
\* by a file that leads to nobody.
Listen(p) ==
  /\ pc[p] = "primary"
  /\ opened' = IF p \in linked THEN [opened EXCEPT ![p] = @ + 1] ELSE opened
  /\ \/ Goto(p, "listening") /\ UNCHANGED <<queue, upset>>
     \/ /\ Goto(p, "deaf")
        /\ queue' = [queue EXCEPT ![p] = <<>>]
        /\ upset' = upset \cup {"deaf"}
  /\ UNCHANGED <<info, file, linked, serving, ackedBy>>

\* handle_handoff: the answer goes out before the payload is delivered.
Accept(q) ==
  /\ pc[q] \in {"listening", "closing"} /\ serving[q] = None /\ queue[q] # <<>>
  /\ serving' = [serving EXCEPT ![q] = Head(queue[q])]
  /\ queue' = [queue EXCEPT ![q] = Tail(@)]
  /\ ackedBy' = [ackedBy EXCEPT ![Head(queue[q])] = q]
  /\ UNCHANGED <<pc, info, file, linked, opened, upset>>

\* Fault: the test of the empty payload is inverted.
DeliverFaultInverted(q) ==
  /\ pc[q] = "listening" /\ serving[q] # None
  /\ serving' = [serving EXCEPT ![q] = None]
  /\ opened' = IF serving[q] \notin linked THEN [opened EXCEPT ![serving[q]] = @ + 1] ELSE opened
  /\ UNCHANGED <<pc, info, file, linked, queue, ackedBy, upset>>

\* An empty payload is passed on to nobody.
Deliver(q) ==
  /\ serving[q] # None /\ (pc[q] = "listening" \/ serving[q] \notin linked)
  /\ serving' = [serving EXCEPT ![q] = None]
  /\ opened' = IF serving[q] \in linked THEN [opened EXCEPT ![serving[q]] = @ + 1] ELSE opened
  /\ UNCHANGED <<pc, info, file, linked, queue, ackedBy, upset>>

\* Nobody receives: the listener scrubs the file, whoever it names, and ends.
DeliveryFails(q) ==
  /\ serving[q] # None /\ pc[q] = "closing" /\ serving[q] \in linked
  /\ Goto(q, "closed")
  /\ serving' = [serving EXCEPT ![q] = None]
  /\ queue' = [queue EXCEPT ![q] = <<>>]
  /\ file' = None
  /\ UNCHANGED <<info, linked, ackedBy, opened, upset>>

-----------------------------------------------------------------------------
(* The end of a process                                                     *)

\* The window goes, and with it the receiver of the links.
Quit(q) ==
  /\ pc[q] = "listening"
  /\ Goto(q, "closing")
  /\ UNCHANGED <<info, file, linked, queue, serving, ackedBy, opened, upset>>

\* Fault: the file is scrubbed when the process ends.
EndFaultScrubs(q) ==
  /\ pc[q] \in Undecided \cup {"listening", "deaf", "closing", "closed"}
  /\ Goto(q, "dead")
  /\ queue' = [queue EXCEPT ![q] = <<>>]
  /\ serving' = [serving EXCEPT ![q] = None]
  /\ file' = IF pc[q] \in {"closing", "closed"} THEN None ELSE file
  /\ UNCHANGED <<info, linked, ackedBy, opened, upset>>

\* The process exits or dies, at any step; its socket closes, the file stays.
End(q) ==
  /\ pc[q] \in Undecided \cup {"listening", "deaf", "closing", "closed"}
  /\ Goto(q, "dead")
  /\ queue' = [queue EXCEPT ![q] = <<>>]
  /\ serving' = [serving EXCEPT ![q] = None]
  /\ UNCHANGED <<info, file, linked, ackedBy, opened, upset>>

Deciding(p) ==
  \/ ReadInfo(p) \/ Connect(p) \/ HandedOff(p) \/ GiveUp(p) \/ Bind(p) \/ Publish(p) \/ Listen(p)

Next ==
  \E p \in Procs :
    \/ Launch(p) \/ Deciding(p) \/ BindFails(p)
    \/ Accept(p) \/ Deliver(p) \/ DeliveryFails(p)
    \/ Quit(p) \/ End(p)

Spec == Init /\ [][Next]_vars

\* A launch runs on, and its read times out, whether or not anybody answers it.
FairSpec == Spec /\ \A p \in Procs : WF_vars(Deciding(p))

-----------------------------------------------------------------------------
(* Properties                                                               *)

States == {"new", "closed", "exited", "dead"} \cup Undecided \cup Windows \cup Owning

\* Every variable has its kind; no launch waits for itself, and only an open
\* listener serves.
TypeOK ==
  /\ pc \in [Procs -> States]
  /\ info \in [Procs -> Procs \cup {None}] /\ \A p \in Procs : info[p] # p
  /\ file \in Procs \cup {None}
  /\ linked \subseteq Procs
  /\ queue \in [Procs -> Seq(Procs)]
  /\ \A q \in Procs : pc[q] \notin Owning => queue[q] = <<>>
  /\ serving \in [Procs -> Procs \cup {None}]
  /\ \A q \in Procs : serving[q] # None => pc[q] \in {"listening", "closing"}
  /\ ackedBy \in [Procs -> Procs \cup {None}]
  /\ opened \in [Procs -> Nat]
  /\ upset \subseteq {"raced", "late", "unpublished", "deaf"}

\* "Never a duplicate window": launches that come one after the other, whose
\* primary listens and answers in time and whose file is written, leave one window at most,
\* whatever quits, dies or left a stale file behind.
SoleWindow ==
  upset = {} => \A p, q \in In(Windows) : p = q

\* The next launch finds the window: the file names every published listener,
\* and nobody scrubs the file of another.
WindowIsFound ==
  upset = {} => \A q \in In({"primary", "listening"}) : file = q

\* A launch that exits on an OK leaves its link opened, about to be, or with a
\* process that was quitting or has ended: no link is dropped on the way.
AckedLinkIsOpened ==
  \A p \in linked : ackedBy[p] # None =>
     \/ opened[p] > 0
     \/ serving[ackedBy[p]] = p
     \/ pc[ackedBy[p]] \in {"closing", "closed", "dead"}

\* Every launch becomes the window, hands over or ends, though every process it
\* turns to may hang (the timeouts of forward_to_primary).
LaunchSettles == \A p \in Procs : pc[p] \in Undecided ~> pc[p] \notin Undecided

\* What the comments promise of a launch without a link: the running window is
\* told of it, to come to the front.
BareLaunchFocuses ==
  \A p \in Procs : ackedBy[p] # None =>
     \/ opened[p] > 0
     \/ serving[ackedBy[p]] = p
     \/ pc[ackedBy[p]] \in {"closing", "closed", "dead"}
=============================================================================
