---------------------------- MODULE Window_proofs ----------------------------
(***************************************************************************)
(* The one window, and the tabs in it.                                     *)
(*                                                                         *)
(* SingleInstance, for any number of launches.  That undisturbed launches  *)
(* leave one window rests on what a launch knows while it decides: as long *)
(* as it asks, the only process it could disturb is the one it asks; once  *)
(* it takes over, there is none.                                           *)
(*                                                                         *)
(* TerminalTabs, for any number of sessions.  Closing the tabs to one side *)
(* is a recursive function of the view; what it keeps is shown for one tab *)
(* and then, by least counterexample, for a run of them.                   *)
(***************************************************************************)
EXTENDS SingleInstance, TerminalTabs, SequenceTheorems, WellFoundedInduction,
        NaturalsInduction, TLAPS

\* Only a process that published itself is named by the file, and a launch
\* that connects was given a name.
NamesArePublished ==
  /\ file # None => pc[file] \in {"deaf", "closed", "dead"} \cup Owning
  /\ \A p \in In({"connecting", "waiting"}) : info[p] # None

\* What holds while launches are not disturbed.
OneDecides == \A p, q \in In(Undecided) : p = q
FileNamesOwner == \A q \in In(Owning) : file = q
AskerKnowsOwner == \A p \in In({"connecting", "waiting"}) : \A q \in In(Owning) : info[p] = q
TakerMeetsNobody == In({"binding", "bound"}) # {} => In(Owning) = {}
NoneIsDeaf == In({"deaf"}) = {}

Sole ==
  upset = {} => OneDecides /\ FileNamesOwner /\ AskerKnowsOwner /\ TakerMeetsNobody /\ NoneIsDeaf

Inv == TypeOK /\ NamesArePublished /\ Sole

LEMMA InvInit == Init => Inv
<1>. SUFFICES ASSUME Init PROVE Inv
  OBVIOUS
<1>. USE SingleInstanceAssumption DEF Init
<1>1. TypeOK
  BY DEF TypeOK, States, Undecided, Windows, Owning
<1>2. NamesArePublished /\ Sole
  BY DEF NamesArePublished, Sole, OneDecides, FileNamesOwner, AskerKnowsOwner,
         TakerMeetsNobody, NoneIsDeaf, In, Undecided, Owning
<1>3. QED
  BY <1>1, <1>2 DEF Inv

\* The steps of one process, as the proofs group them.
LEMMA NextCases ==
  ASSUME [Next]_vars, NEW Q,
         \A p \in Procs : Launch(p) => Q,
         \A p \in Procs : ReadInfo(p) => Q,
         \A p \in Procs : Connect(p) => Q,
         \A p \in Procs : HandedOff(p) => Q,
         \A p \in Procs : BindFails(p) => Q,
         \A p \in Procs : GiveUp(p) => Q,
         \A p \in Procs : Bind(p) => Q,
         \A p \in Procs : Publish(p) => Q,
         \A p \in Procs : Listen(p) => Q,
         \A p \in Procs : Quit(p) => Q,
         \A p \in Procs : Accept(p) => Q,
         \A p \in Procs : Deliver(p) => Q,
         \A p \in Procs : DeliveryFails(p) => Q,
         \A p \in Procs : End(p) => Q,
         UNCHANGED vars => Q
  PROVE  Q
  BY DEF Next, Deciding

\* What connecting does to the launch, wherever it is sent.
LEMMA ConnectMoves ==
  ASSUME NEW p \in Procs, Connect(p)
  PROVE  /\ pc[p] = "connecting"
         /\ pc' = [pc EXCEPT ![p] = "waiting"] \/ pc' = [pc EXCEPT ![p] = "binding"]
         /\ UNCHANGED <<info, file, linked, serving, ackedBy, opened, upset>>
  BY DEF Connect, Goto

LEMMA TypeStep == TypeOK /\ NamesArePublished /\ [Next]_vars => TypeOK'
<1>. SUFFICES ASSUME TypeOK, NamesArePublished, [Next]_vars PROVE TypeOK'
  OBVIOUS
<1>. USE SingleInstanceAssumption DEF TypeOK, States, Undecided, Windows, Owning, Goto
<1>1. ASSUME NEW p \in Procs, Launch(p) PROVE TypeOK'
  BY <1>1 DEF Launch
<1>2. ASSUME NEW p \in Procs, ReadInfo(p) PROVE TypeOK'
  <2>1. file # p
    BY <1>2 DEF ReadInfo, NamesArePublished
  <2>2. QED
    BY <1>2, <2>1 DEF ReadInfo
<1>3. ASSUME NEW p \in Procs, Connect(p) PROVE TypeOK'
  <2>1. info[p] \in Procs
    BY <1>3 DEF Connect, NamesArePublished, In
  <2>2. CASE pc[info[p]] \in Owning
    <3>1. /\ pc' = [pc EXCEPT ![p] = "waiting"]
          /\ queue' = [queue EXCEPT ![info[p]] = Append(queue[info[p]], p)]
          /\ UNCHANGED <<info, file, linked, serving, ackedBy, opened, upset>>
      BY <1>3, <2>2 DEF Connect
    <3>2. Append(queue[info[p]], p) \in Seq(Procs)
      BY <2>1
    <3>3. pc[p] = "connecting"
      BY <1>3 DEF Connect
    <3>4. QED
      BY <2>1, <2>2, <3>1, <3>2, <3>3
  <2>3. CASE pc[info[p]] \notin Owning
    BY <1>3, <2>3 DEF Connect
  <2>4. QED
    BY <2>2, <2>3
<1>4. ASSUME NEW p \in Procs, HandedOff(p) PROVE TypeOK'
  BY <1>4 DEF HandedOff
<1>4b. ASSUME NEW p \in Procs, BindFails(p) PROVE TypeOK'
  BY <1>4b DEF BindFails
<1>5. ASSUME NEW p \in Procs, GiveUp(p) PROVE TypeOK'
  BY <1>5 DEF GiveUp
<1>6. ASSUME NEW p \in Procs, Bind(p) PROVE TypeOK'
  BY <1>6 DEF Bind
<1>7. ASSUME NEW p \in Procs, Publish(p) PROVE TypeOK'
  BY <1>7 DEF Publish
<1>8. ASSUME NEW p \in Procs, Listen(p) PROVE TypeOK'
  <2>1. /\ UNCHANGED <<info, file, linked, serving, ackedBy>> /\ pc[p] = "primary"
        /\ opened' \in [Procs -> Nat]
    BY <1>8 DEF Listen
  <2>2. serving[p] = None
    BY <2>1
  <2>3. CASE pc' = [pc EXCEPT ![p] = "listening"] /\ UNCHANGED <<queue, upset>>
    BY <2>1, <2>2, <2>3
  <2>4. CASE /\ pc' = [pc EXCEPT ![p] = "deaf"] /\ queue' = [queue EXCEPT ![p] = <<>>]
             /\ upset' = upset \cup {"deaf"}
    BY <2>1, <2>2, <2>4
  <2>5. QED
    BY <1>8, <2>3, <2>4 DEF Listen
<1>8b. ASSUME NEW p \in Procs, Quit(p) PROVE TypeOK'
  BY <1>8b DEF Quit
<1>9. ASSUME NEW p \in Procs, Accept(p) PROVE TypeOK'
  <2>1. Head(queue[p]) \in Procs /\ Tail(queue[p]) \in Seq(Procs)
    BY <1>9 DEF Accept
  <2>2. QED
    BY <1>9, <2>1 DEF Accept
<1>10. ASSUME NEW p \in Procs, Deliver(p) PROVE TypeOK'
  BY <1>10 DEF Deliver
<1>11. ASSUME NEW p \in Procs, DeliveryFails(p) PROVE TypeOK'
  BY <1>11 DEF DeliveryFails
<1>12. ASSUME NEW p \in Procs, End(p) PROVE TypeOK'
  BY <1>12 DEF End
<1>13. CASE UNCHANGED vars
  BY <1>13 DEF vars
<1>14. QED
  BY <1>1, <1>2, <1>3, <1>4, <1>4b, <1>5, <1>6, <1>7, <1>8, <1>8b, <1>9, <1>10, <1>11, <1>12, <1>13,
     NextCases

LEMMA NamesStep == Inv /\ [Next]_vars => NamesArePublished'
<1>. SUFFICES ASSUME Inv, [Next]_vars PROVE NamesArePublished'
  OBVIOUS
<1>. USE SingleInstanceAssumption DEF Inv, TypeOK, NamesArePublished, In, Owning, Goto
<1>1. ASSUME NEW p \in Procs, Launch(p) PROVE NamesArePublished'
  BY <1>1 DEF Launch
<1>2. ASSUME NEW p \in Procs, ReadInfo(p) PROVE NamesArePublished'
  BY <1>2 DEF ReadInfo
<1>3. ASSUME NEW p \in Procs, Connect(p) PROVE NamesArePublished'
  BY <1>3 DEF Connect
<1>4. ASSUME NEW p \in Procs, HandedOff(p) PROVE NamesArePublished'
  BY <1>4 DEF HandedOff
<1>4b. ASSUME NEW p \in Procs, BindFails(p) PROVE NamesArePublished'
  BY <1>4b DEF BindFails
<1>5. ASSUME NEW p \in Procs, GiveUp(p) PROVE NamesArePublished'
  BY <1>5 DEF GiveUp
<1>6. ASSUME NEW p \in Procs, Bind(p) PROVE NamesArePublished'
  BY <1>6 DEF Bind
<1>7. ASSUME NEW p \in Procs, Publish(p) PROVE NamesArePublished'
  BY <1>7 DEF Publish
<1>8. ASSUME NEW p \in Procs, Listen(p) PROVE NamesArePublished'
  <2>1. UNCHANGED <<info, file>> /\ pc[p] = "primary"
    BY <1>8 DEF Listen
  <2>2. CASE pc' = [pc EXCEPT ![p] = "listening"] /\ UNCHANGED upset
    BY <2>1, <2>2
  <2>3. CASE pc' = [pc EXCEPT ![p] = "deaf"] /\ upset' # {}
    BY <2>1, <2>3
  <2>4. QED
    BY <1>8, <2>2, <2>3 DEF Listen
<1>8b. ASSUME NEW p \in Procs, Quit(p) PROVE NamesArePublished'
  BY <1>8b DEF Quit
<1>9. ASSUME NEW p \in Procs, Accept(p) PROVE NamesArePublished'
  BY <1>9 DEF Accept
<1>10. ASSUME NEW p \in Procs, Deliver(p) PROVE NamesArePublished'
  BY <1>10 DEF Deliver
<1>11. ASSUME NEW p \in Procs, DeliveryFails(p) PROVE NamesArePublished'
  BY <1>11 DEF DeliveryFails
<1>12. ASSUME NEW p \in Procs, End(p) PROVE NamesArePublished'
  BY <1>12 DEF End
<1>13. CASE UNCHANGED vars
  BY <1>13 DEF vars
<1>14. QED
  BY <1>1, <1>2, <1>3, <1>4, <1>4b, <1>5, <1>6, <1>7, <1>8, <1>8b, <1>9, <1>10, <1>11, <1>12, <1>13,
     NextCases

LEMMA SoleStep == Inv /\ [Next]_vars => Sole'
<1>. SUFFICES ASSUME Inv, [Next]_vars PROVE Sole'
  OBVIOUS
<1>. USE SingleInstanceAssumption
     DEF Inv, TypeOK, NamesArePublished, Sole, OneDecides, FileNamesOwner, AskerKnowsOwner,
         TakerMeetsNobody, NoneIsDeaf, In, Undecided, Owning, Goto
<1>1. ASSUME NEW p \in Procs, Launch(p) PROVE Sole'
  BY <1>1 DEF Launch
<1>2. ASSUME NEW p \in Procs, ReadInfo(p) PROVE Sole'
  BY <1>2 DEF ReadInfo
<1>3. ASSUME NEW p \in Procs, Connect(p) PROVE Sole'
  <2>1. /\ pc[p] = "connecting" /\ info[p] \in Procs
        /\ UNCHANGED <<info, file, upset>>
    BY <1>3 DEF Connect
  <2>2. CASE pc[info[p]] \in Owning
    <3>1. pc' = [pc EXCEPT ![p] = "waiting"]
      BY <1>3, <2>2 DEF Connect
    <3>2. QED
      BY <2>1, <3>1
  <2>3. CASE pc[info[p]] \notin Owning
    <3>1. pc' = [pc EXCEPT ![p] = "binding"]
      BY <1>3, <2>3 DEF Connect
    <3>2. upset = {} => In(Owning) = {}
      BY <2>1, <2>3
    <3>3. In(Owning)' = In(Owning)
      BY <2>1, <3>1
    <3>4. In(Undecided)' = In(Undecided)
      BY <2>1, <3>1
    <3>5. In({"connecting", "waiting"})' \subseteq In({"connecting", "waiting"})
      BY <2>1, <3>1
    <3>6. In({"deaf"})' = In({"deaf"})
      BY <2>1, <3>1
    <3>7. QED
      BY <2>1, <3>2, <3>3, <3>4, <3>5, <3>6
  <2>4. QED
    BY <2>2, <2>3
<1>4. ASSUME NEW p \in Procs, HandedOff(p) PROVE Sole'
  BY <1>4 DEF HandedOff
<1>4b. ASSUME NEW p \in Procs, BindFails(p) PROVE Sole'
  BY <1>4b DEF BindFails
<1>5. ASSUME NEW p \in Procs, GiveUp(p) PROVE Sole'
  BY <1>5 DEF GiveUp
<1>6. ASSUME NEW p \in Procs, Bind(p) PROVE Sole'
  BY <1>6 DEF Bind
<1>7. ASSUME NEW p \in Procs, Publish(p) PROVE Sole'
  BY <1>7 DEF Publish
<1>8. ASSUME NEW p \in Procs, Listen(p) PROVE Sole'
  <2>1. UNCHANGED <<info, file>> /\ pc[p] = "primary"
    BY <1>8 DEF Listen
  <2>2. CASE pc' = [pc EXCEPT ![p] = "listening"] /\ UNCHANGED upset
    BY <2>1, <2>2
  <2>3. CASE pc' = [pc EXCEPT ![p] = "deaf"] /\ upset' # {}
    BY <2>1, <2>3
  <2>4. QED
    BY <1>8, <2>2, <2>3 DEF Listen
<1>8b. ASSUME NEW p \in Procs, Quit(p) PROVE Sole'
  BY <1>8b DEF Quit
<1>9. ASSUME NEW p \in Procs, Accept(p) PROVE Sole'
  BY <1>9 DEF Accept
<1>10. ASSUME NEW p \in Procs, Deliver(p) PROVE Sole'
  BY <1>10 DEF Deliver
<1>11. ASSUME NEW p \in Procs, DeliveryFails(p) PROVE Sole'
  BY <1>11 DEF DeliveryFails
<1>12. ASSUME NEW p \in Procs, End(p) PROVE Sole'
  <2>1. pc' = [pc EXCEPT ![p] = "dead"] /\ UNCHANGED <<info, file, upset>>
    BY <1>12 DEF End
  <2>2. /\ In(Undecided)' \subseteq In(Undecided) /\ In(Owning)' \subseteq In(Owning)
        /\ In({"connecting", "waiting"})' \subseteq In({"connecting", "waiting"})
        /\ In({"binding", "bound"})' \subseteq In({"binding", "bound"})
        /\ In({"deaf"})' \subseteq In({"deaf"})
    BY <2>1
  <2>3. QED
    BY <2>1, <2>2 DEF Sole, OneDecides, FileNamesOwner, AskerKnowsOwner, TakerMeetsNobody,
                      NoneIsDeaf
<1>13. CASE UNCHANGED vars
  BY <1>13 DEF vars
<1>14. QED
  BY <1>1, <1>2, <1>3, <1>4, <1>4b, <1>5, <1>6, <1>7, <1>8, <1>8b, <1>9, <1>10, <1>11, <1>12, <1>13,
     NextCases

\* The inductive invariant.
THEOREM Invariant == Spec => []Inv
<1>1. Inv /\ [Next]_vars => Inv'
  BY TypeStep, NamesStep, SoleStep DEF Inv
<1>2. QED
  BY InvInit, <1>1, PTL DEF Spec

\* Every variable keeps its kind, no launch waits for itself and only an open
\* listener serves.
THEOREM TypeCorrect == Spec => []TypeOK
  BY Invariant, PTL DEF Inv

\* Undisturbed launches of any number of processes leave one window at most,
\* through every quit, crash and stale file (acquire_at).
THEOREM OneWindow == Spec => []SoleWindow
<1>1. Inv => SoleWindow
  BY DEF Inv, Sole, OneDecides, FileNamesOwner, TakerMeetsNobody, NoneIsDeaf, SoleWindow, In,
         Undecided, Owning, Windows
<1>2. QED
  BY <1>1, Invariant, PTL

\* The discovery file names that window, so that the next launch finds it.
THEOREM WindowFound == Spec => []WindowIsFound
<1>1. Inv => WindowIsFound
  BY DEF Inv, Sole, FileNamesOwner, WindowIsFound, In, Owning
<1>2. QED
  BY <1>1, Invariant, PTL

\* An OK is a promise kept by a process that goes on: the link is opened, or
\* about to be (handle_handoff answers before it delivers).
Leaving == {"closing", "closed", "dead"}
Kept(x) == ackedBy[x] # None =>
             opened[x] > 0 \/ serving[ackedBy[x]] = x \/ pc[ackedBy[x]] \in Leaving

\* A step that neither answers nor delivers keeps every promise: nobody comes back.
LEMMA KeptByMove ==
  ASSUME TypeOK, NEW p \in Procs, NEW s, NEW x \in Procs, Kept(x),
         pc' = [pc EXCEPT ![p] = s], pc[p] \in Leaving => s \in Leaving,
         serving' = serving \/ (s \in Leaving /\ serving' = [serving EXCEPT ![p] = None]),
         ackedBy' = ackedBy, opened' = opened \/ opened' = [opened EXCEPT ![p] = @ + 1]
  PROVE  Kept(x)'
<1>1. CASE ackedBy[x] = None
  BY <1>1 DEF Kept
<1>2. CASE opened[x] > 0
  <2>1. opened'[x] = opened[x] \/ opened'[x] = opened[x] + 1
    BY DEF TypeOK
  <2>2. opened'[x] > 0
    BY <1>2, <2>1 DEF TypeOK
  <2>3. QED
    BY <2>2 DEF Kept
<1>3. CASE ackedBy[x] # None /\ pc[ackedBy[x]] \in Leaving
  BY <1>3 DEF Kept, TypeOK
<1>4. CASE ackedBy[x] # None /\ serving[ackedBy[x]] = x
  BY <1>4 DEF Kept, TypeOK
<1>5. QED
  BY <1>1, <1>2, <1>3, <1>4 DEF Kept

THEOREM AckKept == Spec => []AckedLinkIsOpened
<1>1. /\ AckedLinkIsOpened <=> \A x \in linked : Kept(x)
      /\ AckedLinkIsOpened' <=> \A x \in linked' : Kept(x)'
  BY DEF AckedLinkIsOpened, Kept, Leaving
<1>2. Init => AckedLinkIsOpened
  BY DEF Init, AckedLinkIsOpened
<1>3. TypeOK /\ AckedLinkIsOpened /\ [Next]_vars => AckedLinkIsOpened'
  <2>. SUFFICES ASSUME TypeOK, AckedLinkIsOpened, [Next]_vars PROVE AckedLinkIsOpened'
    OBVIOUS
  <2>1. SUFFICES ASSUME TypeOK, [Next]_vars, NEW x \in Procs, x \in linked, Kept(x)
                 PROVE  Kept(x)'
    <3>1. linked' = linked /\ linked \subseteq Procs
      BY DEF TypeOK, Next, Deciding, vars, Launch, ReadInfo, Connect, HandedOff, GiveUp,
             Bind, BindFails, Publish, Listen, Accept, Deliver, DeliveryFails, Quit, End
    <3>2. QED
      BY <1>1, <3>1
  <2>2. ASSUME NEW p \in Procs,
               Launch(p) \/ ReadInfo(p) \/ HandedOff(p) \/ BindFails(p) \/ GiveUp(p) \/ Bind(p)
        PROVE  Kept(x)'
    BY <2>1, <2>2, KeptByMove
    DEF Launch, ReadInfo, HandedOff, BindFails, GiveUp, Bind, Goto, Leaving
  <2>3. ASSUME NEW p \in Procs, Connect(p) PROVE Kept(x)'
    BY <2>1, <2>3, ConnectMoves, KeptByMove DEF Leaving
  <2>4. ASSUME NEW p \in Procs, Publish(p) PROVE Kept(x)'
    BY <2>1, <2>4, KeptByMove DEF Publish, Goto, Leaving
  <2>5. ASSUME NEW p \in Procs, Listen(p) PROVE Kept(x)'
    BY <2>1, <2>5, KeptByMove DEF Listen, Goto, Leaving
  <2>6. ASSUME NEW p \in Procs, Quit(p) PROVE Kept(x)'
    BY <2>1, <2>6, KeptByMove DEF Quit, Goto, Leaving
  <2>7. ASSUME NEW p \in Procs, DeliveryFails(p) \/ End(p) PROVE Kept(x)'
    BY <2>1, <2>7, KeptByMove DEF DeliveryFails, End, Goto, Leaving
  <2>8. ASSUME NEW p \in Procs, Accept(p) PROVE Kept(x)'
    <3> DEFINE h == Head(queue[p])
    <3>1. /\ h \in Procs /\ serving[p] = None
          /\ serving' = [serving EXCEPT ![p] = h]
          /\ ackedBy' = [ackedBy EXCEPT ![h] = p]
          /\ UNCHANGED <<pc, linked, opened>>
      BY <2>1, <2>8 DEF Accept, TypeOK
    <3> HIDE DEF h
    <3>2. CASE h = x
      BY <2>1, <3>1, <3>2 DEF Kept, TypeOK
    <3>3. CASE h # x
      BY <2>1, <3>1, <3>3, SingleInstanceAssumption DEF Kept, TypeOK
    <3>4. QED
      BY <3>2, <3>3, <3>1
  <2>9. ASSUME NEW p \in Procs, Deliver(p) PROVE Kept(x)'
    <3>1. /\ serving[p] \in Procs
          /\ serving' = [serving EXCEPT ![p] = None]
          /\ UNCHANGED <<pc, linked, ackedBy>>
      BY <2>1, <2>9 DEF Deliver, TypeOK
    <3>2. CASE serving[p] = x
      <4>1. opened' = [opened EXCEPT ![x] = opened[x] + 1]
        BY <2>1, <2>9, <3>2 DEF Deliver
      <4>2. opened'[x] > 0
        BY <4>1 , <2>1 DEF TypeOK
      <4>3. QED
        BY <3>1, <4>2 DEF Kept
    <3>3. CASE serving[p] # x
      <4>1. opened[x] > 0 => opened'[x] > 0
        BY <2>1, <2>9, <3>1 DEF Deliver, TypeOK
      <4>2. QED
        BY <2>1, <3>1, <3>3, <4>1 DEF Kept, TypeOK
    <3>4. QED
      BY <3>1, <3>2, <3>3
  <2>10. CASE UNCHANGED vars
    BY <2>1, <2>10 DEF vars, Kept
  <2>11. QED
    BY <2>1, <2>2, <2>3, <2>4, <2>5, <2>6, <2>7, <2>8, <2>9, <2>10 DEF Next, Deciding
<1>4. QED
  BY <1>2, <1>3, TypeCorrect, PTL DEF Spec

-----------------------------------------------------------------------------
(* What a run of closings computes is proved by the least counterexample:  *)
(* a non-empty set of numbers has a least one.                             *)
LEMMA Least ==
    ASSUME NEW T, T \subseteq Nat, T # {}
    PROVE  \E x \in T : \A y \in T : x <= y
  <1>1. IsWellFoundedOn(OpToRel(<, Nat), Nat)
    BY NatLessThanWellFounded
  <1>2. PICK x \in T : \A y \in T : ~(<<y, x>> \in OpToRel(<, Nat))
    BY <1>1, WFMin
  <1>3. \A y \in T : ~(y < x)
    BY <1>2 DEF OpToRel
  <1>. QED
    BY <1>3

(* The elements m to n of a sequence.                                      *)
LEMMA PartOf ==
    ASSUME NEW S, NEW q \in Seq(S), NEW m \in 1 .. Len(q) + 1, NEW n \in 0 .. Len(q),
           m <= n + 1
    PROVE  /\ SubSeq(q, m, n) \in Seq(S)
           /\ Len(SubSeq(q, m, n)) = n - m + 1
           /\ \A i \in 1 .. n - m + 1 : SubSeq(q, m, n)[i] = q[m + i - 1]
  <1>1. \A i \in m .. n : q[i] \in S
    BY ElementOfSeq
  <1>. QED
    BY <1>1, SubSeqProperties

(* What follows the removed element moves up by one.                       *)
LEMMA Removing ==
    ASSUME NEW S, NEW q \in Seq(S), NEW i \in 1 .. Len(q)
    PROVE  /\ RemoveAt(q, i) \in Seq(S)
           /\ Len(RemoveAt(q, i)) = Len(q) - 1
           /\ \A k \in 1 .. Len(q) - 1 :
                RemoveAt(q, i)[k] = IF k < i THEN q[k] ELSE q[k + 1]
  <1> DEFINE a == SubSeq(q, 1, i - 1)  b == SubSeq(q, i + 1, Len(q))
  <1>1. /\ a \in Seq(S) /\ Len(a) = i - 1
        /\ \A k \in 1 .. i - 1 : a[k] = q[k]
    <2>1. 1 \in 1 .. Len(q) + 1 /\ i - 1 \in 0 .. Len(q) /\ 1 <= (i - 1) + 1
      OBVIOUS
    <2>. QED
      BY <2>1, PartOf
  <1>2. /\ b \in Seq(S) /\ Len(b) = Len(q) - i
        /\ \A k \in 1 .. Len(q) - i : b[k] = q[i + k]
    <2>1. i + 1 \in 1 .. Len(q) + 1 /\ Len(q) \in 0 .. Len(q) /\ i + 1 <= Len(q) + 1
      OBVIOUS
    <2>. QED
      BY <2>1, PartOf
  <1>3. RemoveAt(q, i) = a \o b
    BY DEF RemoveAt
  <1> HIDE DEF a, b
  <1>4. /\ a \o b \in Seq(S)
        /\ Len(a \o b) = Len(a) + Len(b)
        /\ \A k \in 1 .. Len(a) + Len(b) :
             (a \o b)[k] = IF k <= Len(a) THEN a[k] ELSE b[k - Len(a)]
    BY <1>1, <1>2, ConcatProperties
  <1>5. ASSUME NEW k \in 1 .. Len(q) - 1
        PROVE  (a \o b)[k] = IF k < i THEN q[k] ELSE q[k + 1]
    <2>1. CASE k < i
      BY <1>1, <1>2, <1>4, <2>1
    <2>2. CASE k >= i
      <3>1. k - (i - 1) \in 1 .. Len(q) - i /\ i + (k - (i - 1)) = k + 1
        BY <2>2
      <3>2. (a \o b)[k] = b[k - (i - 1)]
        BY <1>1, <1>2, <1>4, <2>2
      <3>3. b[k - (i - 1)] = q[i + (k - (i - 1))]
        BY ONLY <1>2, <3>1
      <3>. QED
        BY <3>1, <3>2, <3>3, <2>2
    <2>3. i \in Int /\ k \in Int
      BY LenProperties
    <2>4. k < i \/ k >= i
      BY <2>3
    <2>. QED
      BY <2>1, <2>2, <2>4, Zenon
  <1>. QED
    BY <1>1, <1>2, <1>3, <1>4, <1>5

(* What follows the place of insertion moves down by one.                  *)
LEMMA Inserting ==
    ASSUME NEW S, NEW q \in Seq(S), NEW i \in 1 .. Len(q) + 1, NEW e \in S
    PROVE  /\ InsertAt(q, i, e) \in Seq(S)
           /\ Len(InsertAt(q, i, e)) = Len(q) + 1
           /\ \A k \in 1 .. Len(q) + 1 :
                InsertAt(q, i, e)[k] = IF k < i THEN q[k]
                                       ELSE IF k = i THEN e ELSE q[k - 1]
  <1> DEFINE a == SubSeq(q, 1, i - 1)  b == SubSeq(q, i, Len(q))
             c == a \o <<e>>
  <1>1. /\ a \in Seq(S) /\ Len(a) = i - 1
        /\ \A k \in 1 .. i - 1 : a[k] = q[k]
    <2>1. 1 \in 1 .. Len(q) + 1 /\ i - 1 \in 0 .. Len(q) /\ 1 <= (i - 1) + 1
      OBVIOUS
    <2>. QED
      BY <2>1, PartOf
  <1>2. /\ b \in Seq(S) /\ Len(b) = Len(q) - i + 1
        /\ \A k \in 1 .. Len(q) - i + 1 : b[k] = q[i + k - 1]
    <2>1. i \in 1 .. Len(q) + 1 /\ Len(q) \in 0 .. Len(q) /\ i <= Len(q) + 1
      OBVIOUS
    <2>. QED
      BY <2>1, PartOf
  <1>3. InsertAt(q, i, e) = c \o b
    BY DEF InsertAt
  <1>4. /\ c \in Seq(S) /\ Len(c) = i
        /\ \A k \in 1 .. i : c[k] = IF k < i THEN q[k] ELSE e
    <2>1. <<e>> \in Seq(S) /\ Len(<<e>>) = 1 /\ <<e>>[1] = e
      OBVIOUS
    <2> HIDE DEF a
    <2>2. /\ a \o <<e>> \in Seq(S)
          /\ Len(a \o <<e>>) = Len(a) + Len(<<e>>)
          /\ \A k \in 1 .. Len(a) + Len(<<e>>) :
               (a \o <<e>>)[k] = IF k <= Len(a) THEN a[k] ELSE <<e>>[k - Len(a)]
      BY <1>1, <2>1, ConcatProperties
    <2>3. c \in Seq(S) /\ Len(c) = i
      BY <1>1, <2>1, <2>2
    <2>4. ASSUME NEW k \in 1 .. i
          PROVE  (a \o <<e>>)[k] = IF k < i THEN q[k] ELSE e
      <3>1. k \in 1 .. Len(a) + Len(<<e>>)
        BY <1>1, <2>1
      <3>2. k < i => (a \o <<e>>)[k] = a[k] /\ a[k] = q[k]
        BY <1>1, <2>2, <3>1
      <3>3. k = i => (a \o <<e>>)[k] = <<e>>[k - Len(a)] /\ k - Len(a) = 1
        BY <1>1, <2>2, <3>1
      <3>4. k < i \/ k = i
        OBVIOUS
      <3>. QED
        BY <2>1, <3>2, <3>3, <3>4
    <2>. QED
      BY <2>3, <2>4
  <1> HIDE DEF b, c
  <1>5. /\ c \o b \in Seq(S)
        /\ Len(c \o b) = Len(c) + Len(b)
        /\ \A k \in 1 .. Len(c) + Len(b) :
             (c \o b)[k] = IF k <= Len(c) THEN c[k] ELSE b[k - Len(c)]
    BY <1>2, <1>4, ConcatProperties
  <1>6. ASSUME NEW k \in 1 .. Len(q) + 1
        PROVE  (c \o b)[k] = IF k < i THEN q[k] ELSE IF k = i THEN e ELSE q[k - 1]
    <2>1. CASE k <= i
      BY <1>2, <1>4, <1>5, <2>1
    <2>2. CASE k > i
      <3>1. k - i \in 1 .. Len(q) - i + 1 /\ i + (k - i) - 1 = k - 1
        BY <2>2
      <3>2. (c \o b)[k] = b[k - i]
        BY <1>2, <1>4, <1>5, <2>2
      <3>3. b[k - i] = q[i + (k - i) - 1]
        BY ONLY <1>2, <3>1
      <3>. QED
        BY <3>1, <3>2, <3>3, <2>2
    <2>3. i \in Int /\ k \in Int
      BY LenProperties
    <2>4. k <= i \/ k > i
      BY <2>3
    <2>. QED
      BY <2>1, <2>2, <2>4, Zenon
  <1>. QED
    BY <1>2, <1>3, <1>4, <1>5, <1>6

-----------------------------------------------------------------------------
Distinct(q) == \A i, j \in 1 .. Len(q) : q[i] = q[j] => i = j

(* What every view is: typed, with distinct tabs that are at home, every   *)
(* layout backed by sessions that were opened, and nothing without tabs.   *)
Whole(v, h) ==
    /\ v \in Views /\ IndexOK(v)
    /\ Distinct(v.tabs)
    /\ \A i \in 1 .. Len(v.tabs) : h[v.tabs[i]] = v.tabs[i]
    /\ Backed(v.layout)
    /\ \A s \in v.layout.extra : h[s] # NoTab
    /\ \A t \in Session : v.stored[t] = NoLayout
                          \/ (Backed(v.stored[t]) /\ h[t] # NoTab)
    /\ \A t \in Session : \A s \in v.stored[t].extra : h[s] # NoTab
    /\ v.tabs = <<>> => v.layout = Single /\ v.stored = NoneStored

(* PanesStayInTheirTab, of any view.                                       *)
Placed(v, h) ==
    /\ v.marked = IF v.tabs = <<>> THEN {} ELSE {Current(v)}
    /\ \A i \in 1 .. Len(v.tabs) : h[v.sessions[i]] = v.tabs[i]
    /\ \A s \in v.layout.extra : h[s] = Current(v)
    /\ \A t \in Session : \A s \in v.stored[t].extra : h[s] = t

(* The layout that is shown is not also put aside: a second copy would     *)
(* overwrite it.                                                           *)
Unsaved(v) == v.tabs = <<>> \/ v.stored[Current(v)] = NoLayout

TabsInv ==
    /\ home \in [Session -> Session \cup {NoTab}]
    /\ made \subseteq Irregular
    /\ Whole(view, home)
    /\ made \subseteq {"reselect"} => Placed(view, home)
    /\ made = {} => Unsaved(view)

(* The fields of a view have their types.                                  *)
LEMMA Fields ==
    ASSUME NEW v \in Views
    PROVE  /\ v.tabs \in Seq(Session) /\ v.sessions \in Seq(Session)
           /\ v.active \in Nat /\ v.marked \subseteq Session
           /\ v.layout \in Layouts /\ v.stored \in [Session -> Layouts]
           /\ Len(v.tabs) \in Nat /\ DOMAIN v.tabs = 1 .. Len(v.tabs)
           /\ Len(v.sessions) \in Nat /\ DOMAIN v.sessions = 1 .. Len(v.sessions)
           /\ v.tabs = <<>> <=> Len(v.tabs) = 0
  BY LenProperties, EmptySeq DEF Views

(* ... and those of a layout.                                              *)
LEMMA LayoutFields ==
    ASSUME NEW l \in Layouts
    PROVE  /\ l.leaves \in Seq(Session \cup {Primary}) /\ l.extra \subseteq Session
           /\ l.focused \in Session \cup {Primary}
           /\ Len(l.leaves) \in Nat /\ DOMAIN l.leaves = 1 .. Len(l.leaves)
  BY LenProperties DEF Layouts

(* The layouts a view starts from.                                         *)
LEMMA PlainLayouts ==
    /\ Single \in Layouts /\ NoLayout \in Layouts /\ Single # NoLayout
    /\ NoneStored \in [Session -> Layouts]
    /\ Backed(Single) /\ Single.extra = {} /\ NoLayout.extra = {}
  <1>1. <<Primary>> \in Seq(Session \cup {Primary}) /\ <<>> \in Seq(Session \cup {Primary})
        /\ <<Primary>> # <<>> /\ DOMAIN <<Primary>> = {1} /\ <<Primary>>[1] = Primary
    OBVIOUS
  <1>2. Single \in Layouts /\ NoLayout \in Layouts /\ Single # NoLayout
    BY <1>1 DEF Single, NoLayout, Layouts
  <1>3. Backed(Single)
    BY <1>1 DEF Single, Backed
  <1>. QED
    BY <1>2, <1>3 DEF NoneStored, Single, NoLayout

(* A tab stands at its position.                                           *)
LEMMA PositionFacts ==
    ASSUME NEW v \in Views, NEW t \in Session, IsTab(v, t)
    PROVE  /\ Position(v, t) \in 1 .. Len(v.tabs)
           /\ v.tabs[Position(v, t)] = t
  BY Fields DEF IsTab, Position

(* While there are tabs the index points at one.                           *)
LEMMA CurrentFacts ==
    ASSUME NEW v \in Views, IndexOK(v), v.tabs # <<>>
    PROVE  /\ v.active + 1 \in 1 .. Len(v.tabs)
           /\ v.active \in 0 .. Len(v.tabs) - 1
           /\ Current(v) \in Session
  <1>1. v.active + 1 \in 1 .. Len(v.tabs)
    BY Fields DEF IndexOK
  <1>. QED
    BY <1>1, Fields, ElementOfSeq DEF Current

(* The index after a tab is removed, m being the one before and n the      *)
(* number of tabs left.                                                    *)
LEMMA Clamped ==
    ASSUME NEW n \in Nat, NEW m \in Nat, m = 0 \/ m < n + 1
    PROVE  LET a == IF m >= n /\ n # 0 THEN n - 1 ELSE m
           IN  a \in Nat /\ (a = 0 \/ a < n) /\ a <= m
  OBVIOUS

(* The view between the removal of a tab and the restored layout.          *)
LEMMA RemovedFacts ==
    ASSUME NEW v \in Views, IndexOK(v), NEW t \in Session, IsTab(v, t),
           NEW p, p = Position(v, t), NEW r, r = RemovedTab(v, t)
    PROVE  /\ r \in Views /\ IndexOK(r)
           /\ Len(r.tabs) = Len(v.tabs) - 1
           /\ \A k \in 1 .. Len(v.tabs) - 1 :
                /\ r.tabs[k] = IF k < p THEN v.tabs[k] ELSE v.tabs[k + 1]
                /\ r.sessions[k] = IF k < p THEN v.sessions[k] ELSE v.sessions[k + 1]
           /\ r.active = IF v.active >= Len(v.tabs) - 1 /\ Len(v.tabs) - 1 # 0
                         THEN Len(v.tabs) - 1 - 1 ELSE v.active
           /\ r.layout = IF p = v.active + 1 THEN Single ELSE v.layout
           /\ r.stored = IF p = v.active + 1 THEN v.stored ELSE Drop(v.stored, t)
           /\ r.marked = v.marked \ {t}
  <1> DEFINE count == Len(v.tabs) - 1
             a == IF v.active >= count /\ count # 0 THEN count - 1 ELSE v.active
             lay == IF p = v.active + 1 THEN Single ELSE v.layout
             sto == IF p = v.active + 1 THEN v.stored ELSE Drop(v.stored, t)
  <1>1. p \in 1 .. Len(v.tabs) /\ count \in Nat /\ Len(v.tabs) \in Nat
        /\ Len(v.sessions) = Len(v.tabs) /\ v.active \in Nat
        /\ p \in 1 .. Len(v.sessions)
        /\ (v.active = 0 \/ v.active < Len(v.tabs))
    BY PositionFacts, Fields DEF IndexOK
  <1>2. r = [tabs |-> RemoveAt(v.tabs, p), sessions |-> RemoveAt(v.sessions, p),
             active |-> a, marked |-> v.marked \ {t}, layout |-> lay, stored |-> sto]
    BY DEF RemovedTab, Views
  <1>3. /\ RemoveAt(v.tabs, p) \in Seq(Session)
        /\ Len(RemoveAt(v.tabs, p)) = count
        /\ \A k \in 1 .. count : RemoveAt(v.tabs, p)[k] = IF k < p THEN v.tabs[k] ELSE v.tabs[k + 1]
    BY <1>1, Fields, Removing
  <1>4. /\ RemoveAt(v.sessions, p) \in Seq(Session)
        /\ Len(RemoveAt(v.sessions, p)) = count
        /\ \A k \in 1 .. count :
             RemoveAt(v.sessions, p)[k] = IF k < p THEN v.sessions[k] ELSE v.sessions[k + 1]
    <2> DEFINE q == v.sessions
    <2>1. q \in Seq(Session) /\ p \in 1 .. Len(q)
      BY <1>1, Fields
    <2>2. Len(q) - 1 = count
      BY <1>1
    <2> HIDE DEF q, count
    <2>3. /\ RemoveAt(q, p) \in Seq(Session)
          /\ Len(RemoveAt(q, p)) = Len(q) - 1
          /\ \A k \in 1 .. Len(q) - 1 :
               RemoveAt(q, p)[k] = IF k < p THEN q[k] ELSE q[k + 1]
      BY <2>1, Removing
    <2>. QED
      BY <2>2, <2>3 DEF q
  <1>5. lay \in Layouts /\ sto \in [Session -> Layouts]
    BY Fields, PlainLayouts DEF Drop
  <1>6. a \in Nat /\ (a = 0 \/ a < count)
    <2> DEFINE m == v.active
    <2>1. count \in Nat /\ m \in Nat /\ (m = 0 \/ m < count + 1)
      BY <1>1
    <2> HIDE DEF m, count
    <2>. QED
      BY <2>1, Clamped DEF m
  <1>7. v.marked \ {t} \in SUBSET Session
    BY Fields
  <1> HIDE DEF a, lay, sto
  <1>8. r \in Views
    BY <1>2, <1>3, <1>4, <1>5, <1>6, <1>7 DEF Views
  <1>9. IndexOK(r)
    <2>1. r.tabs = RemoveAt(v.tabs, p) /\ r.sessions = RemoveAt(v.sessions, p)
          /\ r.active = a
      BY <1>2
    <2>. QED
      BY <1>3, <1>4, <1>6, <2>1 DEF IndexOK
  <1>. QED
    BY <1>2, <1>3, <1>4, <1>8, <1>9 DEF a, lay, sto

(* The view after close_tab, field by field.                               *)
LEMMA ClosedFacts ==
    ASSUME NEW v \in Views, IndexOK(v), NEW t \in Session, IsTab(v, t),
           NEW p, p = Position(v, t), NEW w, w = WithoutTab(v, t)
    PROVE  /\ w \in Views /\ IndexOK(w)
           /\ Len(w.tabs) = Len(v.tabs) - 1 /\ w.active <= v.active
           /\ \A k \in 1 .. Len(v.tabs) - 1 :
                /\ w.tabs[k] = IF k < p THEN v.tabs[k] ELSE v.tabs[k + 1]
                /\ w.sessions[k] = IF k < p THEN v.sessions[k] ELSE v.sessions[k + 1]
           /\ w.active = IF v.active >= Len(v.tabs) - 1 /\ Len(v.tabs) - 1 # 0
                         THEN Len(v.tabs) - 1 - 1 ELSE v.active
           /\ w.tabs = <<>> =>
                /\ w.layout = Single /\ w.stored = NoneStored
                /\ w.marked = v.marked \ {t}
           /\ w.tabs # <<>> => w.marked = (v.marked \ {t}) \cup {Current(w)}
           /\ w.tabs # <<>> /\ p = v.active + 1 =>
                /\ w.layout = Found(v.stored, Current(w))
                /\ w.stored = Drop(v.stored, Current(w))
           /\ w.tabs # <<>> /\ p # v.active + 1 =>
                /\ w.layout = v.layout
                /\ w.stored = Drop(v.stored, t)
  <1> DEFINE r == RemovedTab(v, t)
  <1>1. /\ r \in Views /\ IndexOK(r)
        /\ Len(r.tabs) = Len(v.tabs) - 1
        /\ \A k \in 1 .. Len(v.tabs) - 1 :
             /\ r.tabs[k] = IF k < p THEN v.tabs[k] ELSE v.tabs[k + 1]
             /\ r.sessions[k] = IF k < p THEN v.sessions[k] ELSE v.sessions[k + 1]
        /\ r.active = IF v.active >= Len(v.tabs) - 1 /\ Len(v.tabs) - 1 # 0
                      THEN Len(v.tabs) - 1 - 1 ELSE v.active
        /\ r.layout = IF p = v.active + 1 THEN Single ELSE v.layout
        /\ r.stored = IF p = v.active + 1 THEN v.stored ELSE Drop(v.stored, t)
        /\ r.marked = v.marked \ {t}
    BY RemovedFacts
  <1>2. r.active <= v.active
    <2> DEFINE n == Len(v.tabs) - 1  m == v.active
    <2>1. n \in Nat /\ m \in Nat /\ (m = 0 \/ m < n + 1)
      BY PositionFacts, Fields DEF IndexOK
    <2>2. r.active = IF m >= n /\ n # 0 THEN n - 1 ELSE m
      BY <1>1
    <2> HIDE DEF n, m, r
    <2>3. r.active <= m
      BY <2>1, <2>2, Clamped
    <2>. QED
      BY <2>3 DEF m
  <1>3. w = IF r.tabs = <<>> THEN [r EXCEPT !.layout = Single, !.stored = NoneStored]
            ELSE IF p = v.active + 1
            THEN [r EXCEPT !.layout = Found(r.stored, Current(r)),
                           !.stored = Drop(r.stored, Current(r)),
                           !.marked = r.marked \cup {Current(r)}]
            ELSE [r EXCEPT !.marked = r.marked \cup {Current(r)}]
    BY DEF WithoutTab
  <1> HIDE DEF r
  <1>4. w.tabs = r.tabs /\ w.sessions = r.sessions /\ w.active = r.active
    BY <1>1, <1>3 DEF Views
  <1>5. Current(w) = Current(r)
    BY <1>4 DEF Current
  <1>6. r.tabs = <<>> => w.layout = Single /\ w.stored = NoneStored /\ w.marked = r.marked
    BY <1>1, <1>3 DEF Views
  <1>7. r.tabs # <<>> /\ p = v.active + 1 =>
          /\ w.layout = Found(v.stored, Current(w))
          /\ w.stored = Drop(v.stored, Current(w))
          /\ w.marked = (v.marked \ {t}) \cup {Current(w)}
    BY <1>1, <1>3, <1>5 DEF Views
  <1>8. r.tabs # <<>> /\ p # v.active + 1 =>
          /\ w.layout = v.layout /\ w.stored = Drop(v.stored, t)
          /\ w.marked = (v.marked \ {t}) \cup {Current(w)}
    BY <1>1, <1>3, <1>5 DEF Views
  <1>9. w \in Views
    <2>1. CASE r.tabs = <<>>
      <3>1. w = [r EXCEPT !.layout = Single, !.stored = NoneStored]
        BY <1>3, <2>1
      <3>. QED
        BY <1>1, <3>1, PlainLayouts DEF Views
    <2>2. CASE r.tabs # <<>> /\ p = v.active + 1
      <3>1. Current(r) \in Session
        BY <1>1, <2>2, CurrentFacts
      <3>2. w = [r EXCEPT !.layout = Found(r.stored, Current(r)),
                          !.stored = Drop(r.stored, Current(r)),
                          !.marked = r.marked \cup {Current(r)}]
        BY <1>3, <2>2
      <3>3. Found(r.stored, Current(r)) \in Layouts /\ Drop(r.stored, Current(r)) \in [Session -> Layouts]
            /\ r.marked \cup {Current(r)} \in SUBSET Session
        BY <1>1, <3>1, Fields, PlainLayouts DEF Found, Drop
      <3>. QED
        BY <1>1, <3>2, <3>3 DEF Views
    <2>3. CASE r.tabs # <<>> /\ p # v.active + 1
      <3>1. Current(r) \in Session
        BY <1>1, <2>3, CurrentFacts
      <3>2. w = [r EXCEPT !.marked = r.marked \cup {Current(r)}]
        BY <1>3, <2>3
      <3>3. r.marked \cup {Current(r)} \in SUBSET Session
        BY <1>1, <3>1, Fields
      <3>. QED
        BY <1>1, <3>2, <3>3 DEF Views
    <2>. QED
      BY <2>1, <2>2, <2>3
  <1>10. IndexOK(w)
    BY <1>1, <1>4 DEF IndexOK
  <1>. QED
    BY <1>1, <1>2, <1>4, <1>6, <1>7, <1>8, <1>9, <1>10

(* ... of which a run of closings needs only the tabs and the index.       *)
LEMMA ClosedShape ==
    ASSUME NEW v \in Views, IndexOK(v), NEW t \in Session, IsTab(v, t)
    PROVE  /\ Len(WithoutTab(v, t).tabs) = Len(v.tabs) - 1
           /\ WithoutTab(v, t).active <= v.active
           /\ \A i \in 1 .. Len(v.tabs) - 1 :
                WithoutTab(v, t).tabs[i]
                  = IF i < Position(v, t) THEN v.tabs[i] ELSE v.tabs[i + 1]
  <1> DEFINE w == WithoutTab(v, t)  p == Position(v, t)
  <1>1. w = WithoutTab(v, t) /\ p = Position(v, t)
    OBVIOUS
  <1> HIDE DEF w, p
  <1>2. /\ Len(w.tabs) = Len(v.tabs) - 1 /\ w.active <= v.active
        /\ \A k \in 1 .. Len(v.tabs) - 1 :
             w.tabs[k] = IF k < p THEN v.tabs[k] ELSE v.tabs[k + 1]
    BY <1>1, ClosedFacts
  <1>. QED
    BY <1>2 DEF w, p

(* Closing a tab leaves the others in order, distinct and at home.         *)
LEMMA WholeClosed ==
    ASSUME NEW v, NEW h, Whole(v, h), NEW t \in Session, IsTab(v, t)
    PROVE  Whole(WithoutTab(v, t), h)
  <1> DEFINE w == WithoutTab(v, t)  p == Position(v, t)  n == Len(v.tabs)
  <1>1. v \in Views /\ IndexOK(v)
    BY DEF Whole
  <1>2. /\ w \in Views /\ IndexOK(w)
        /\ Len(w.tabs) = n - 1
        /\ \A k \in 1 .. n - 1 :
             w.tabs[k] = IF k < p THEN v.tabs[k] ELSE v.tabs[k + 1]
        /\ w.tabs = <<>> => w.layout = Single /\ w.stored = NoneStored
        /\ w.tabs # <<>> /\ p = v.active + 1 =>
             /\ w.layout = Found(v.stored, Current(w))
             /\ w.stored = Drop(v.stored, Current(w))
        /\ w.tabs # <<>> /\ p # v.active + 1 =>
             /\ w.layout = v.layout
             /\ w.stored = Drop(v.stored, t)
    BY <1>1, ClosedFacts
  <1>3. n \in Nat /\ p \in 1 .. n /\ v.stored \in [Session -> Layouts]
    BY <1>1, Fields, PositionFacts
  <1> DEFINE from(k) == IF k < p THEN k ELSE k + 1
  <1>4. \A k \in 1 .. n - 1 : from(k) \in 1 .. n /\ w.tabs[k] = v.tabs[from(k)]
    BY <1>2, <1>3
  <1>5. \A k, m \in 1 .. n - 1 : from(k) = from(m) => k = m
    BY <1>3
  <1> HIDE DEF w, p, n, from
  <1>6. Distinct(w.tabs)
    <2>1. SUFFICES ASSUME NEW k \in 1 .. n - 1, NEW m \in 1 .. n - 1,
                          w.tabs[k] = w.tabs[m]
                   PROVE  k = m
      BY <1>2 DEF Distinct
    <2>2. from(k) \in 1 .. n /\ from(m) \in 1 .. n
          /\ v.tabs[from(k)] = v.tabs[from(m)]
      BY <1>4, <2>1
    <2>3. from(k) = from(m)
      BY <2>2 DEF Whole, Distinct, n
    <2>. QED
      BY <1>5, <2>3
  <1>7. \A i \in 1 .. Len(w.tabs) : h[w.tabs[i]] = w.tabs[i]
    BY <1>2, <1>4 DEF Whole, n
  <1>8. \A u \in Session : w.stored[u] = NoLayout
                           \/ (w.stored[u] = v.stored[u] /\ Backed(v.stored[u]) /\ h[u] # NoTab)
    <2>1. CASE w.tabs = <<>>
      BY <1>2, <2>1 DEF NoneStored
    <2>2. CASE w.tabs # <<>>
      BY <1>2, <1>3, <2>2 DEF Drop, Whole
    <2>. QED
      BY <2>1, <2>2
  <1>9. Backed(w.layout) /\ \A s \in w.layout.extra : h[s] # NoTab
    <2>1. CASE w.tabs = <<>>
      BY <1>2, <2>1, PlainLayouts
    <2>2. CASE w.tabs # <<>> /\ p = v.active + 1
      <3>1. Current(w) \in Session
        BY <1>2, <2>2, CurrentFacts
      <3>. QED
        BY <1>2, <2>2, <3>1, PlainLayouts DEF Whole, Found
    <2>3. CASE w.tabs # <<>> /\ p # v.active + 1
      BY <1>2, <2>3 DEF Whole
    <2>. QED
      BY <2>1, <2>2, <2>3
  <1>10. \A u \in Session : \A s \in w.stored[u].extra : h[s] # NoTab
    BY <1>8, PlainLayouts DEF Whole
  <1>11. Whole(w, h)
    BY <1>2, <1>6, <1>7, <1>8, <1>9, <1>10 DEF Whole
  <1>. QED
    BY <1>11 DEF w

(* Closing a tab that is not before the active one leaves every pane with  *)
(* its tab: the active tab is the same, or its layout is fetched.          *)
LEMMA PlacedClosed ==
    ASSUME NEW v, NEW h, Whole(v, h), Placed(v, h), NEW t \in Session, IsTab(v, t),
           Position(v, t) >= v.active + 1
    PROVE  Placed(WithoutTab(v, t), h)
  <1> DEFINE w == WithoutTab(v, t)  p == Position(v, t)  n == Len(v.tabs)
  <1>1. v \in Views /\ IndexOK(v)
    BY DEF Whole
  <1>2. /\ w \in Views /\ IndexOK(w)
        /\ Len(w.tabs) = n - 1
        /\ \A k \in 1 .. n - 1 :
             /\ w.tabs[k] = IF k < p THEN v.tabs[k] ELSE v.tabs[k + 1]
             /\ w.sessions[k] = IF k < p THEN v.sessions[k] ELSE v.sessions[k + 1]
        /\ w.active = IF v.active >= n - 1 /\ n - 1 # 0 THEN n - 1 - 1 ELSE v.active
        /\ w.tabs = <<>> =>
             /\ w.layout = Single /\ w.stored = NoneStored
             /\ w.marked = v.marked \ {t}
        /\ w.tabs # <<>> => w.marked = (v.marked \ {t}) \cup {Current(w)}
        /\ w.tabs # <<>> /\ p = v.active + 1 =>
             /\ w.layout = Found(v.stored, Current(w))
             /\ w.stored = Drop(v.stored, Current(w))
        /\ w.tabs # <<>> /\ p # v.active + 1 =>
             /\ w.layout = v.layout
             /\ w.stored = Drop(v.stored, t)
    BY <1>1, ClosedFacts
  <1>3. /\ n \in Nat /\ p \in 1 .. n /\ v.tabs[p] = t
        /\ v.stored \in [Session -> Layouts] /\ v.active \in Nat
        /\ (w.tabs = <<>> <=> Len(w.tabs) = 0) /\ p >= v.active + 1
        /\ v.tabs # <<>>
    BY <1>1, <1>2, Fields, PositionFacts
  <1>4. v.marked = {Current(v)}
    BY <1>3 DEF Placed
  <1>5. \A i \in 1 .. Len(w.tabs) : h[w.sessions[i]] = w.tabs[i]
    <2>1. \A i \in 1 .. n : h[v.sessions[i]] = v.tabs[i]
      BY DEF Placed
    <2>2. \A i \in 1 .. n - 1 :
            \/ i \in 1 .. n /\ w.tabs[i] = v.tabs[i] /\ w.sessions[i] = v.sessions[i]
            \/ /\ i + 1 \in 1 .. n
               /\ w.tabs[i] = v.tabs[i + 1] /\ w.sessions[i] = v.sessions[i + 1]
      <3>1. \A i \in 1 .. n - 1 : i \in 1 .. n /\ i + 1 \in 1 .. n
        BY <1>3
      <3> HIDE DEF w, p, n
      <3>. QED
        BY <1>2, <3>1
    <2> HIDE DEF w, p, n
    <2>. QED
      BY <1>2, <2>1, <2>2
  <1>6. CASE w.tabs = <<>>
    <2>1. p = v.active + 1 /\ Current(v) = t
      BY <1>2, <1>3, <1>6 DEF Current
    <2>2. w.marked = {}
      BY <1>2, <1>4, <1>6, <2>1
    <2> HIDE DEF w
    <2>3. (\A s \in w.layout.extra : h[s] = Current(w))
          /\ \A u \in Session : \A s \in w.stored[u].extra : h[s] = u
      BY <1>2, <1>6, PlainLayouts DEF NoneStored
    <2>. QED
      BY <1>5, <1>6, <2>2, <2>3 DEF Placed, w
  <1>7. CASE w.tabs # <<>> /\ p = v.active + 1
    <2>1. Current(v) = t
      BY <1>3, <1>7 DEF Current
    <2>2. Current(w) \in Session
      BY <1>2, <1>7, CurrentFacts
    <2> HIDE DEF w, p, n
    <2>3. w.marked = {Current(w)}
      BY <1>2, <1>4, <1>7, <2>1
    <2>4. \A s \in w.layout.extra : h[s] = Current(w)
      BY <1>2, <1>7, <2>2, PlainLayouts DEF Placed, Found
    <2>5. \A u \in Session : w.stored[u] = NoLayout \/ w.stored[u] = v.stored[u]
      BY <1>2, <1>3, <1>7 DEF Drop
    <2>6. \A u \in Session : \A s \in w.stored[u].extra : h[s] = u
      BY <2>5, PlainLayouts DEF Placed
    <2>. QED
      BY <1>5, <1>7, <2>3, <2>4, <2>6 DEF Placed, w
  <1>8. CASE w.tabs # <<>> /\ p # v.active + 1
    <2>1. p > v.active + 1 /\ v.active < n - 1
      BY <1>3, <1>8
    <2>2. w.active = v.active
      BY <1>2, <1>3, <2>1
    <2>3. Current(w) = Current(v) /\ Current(v) # t
      <3>1. v.active + 1 \in 1 .. n - 1 /\ v.active + 1 < p /\ v.active + 1 \in 1 .. n
        BY <1>3, <2>1
      <3>2. w.tabs[v.active + 1] = v.tabs[v.active + 1]
        BY <1>2, <3>1
      <3>3. v.tabs[v.active + 1] # v.tabs[p]
        BY <1>3, <3>1 DEF Whole, Distinct
      <3>. QED
        BY <1>3, <2>2, <3>2, <3>3 DEF Current
    <2> HIDE DEF w, p, n
    <2>4. w.marked = {Current(w)}
      BY <1>2, <1>4, <1>8, <2>3
    <2>5. \A s \in w.layout.extra : h[s] = Current(w)
      BY <1>2, <1>8, <2>3 DEF Placed
    <2>6. \A u \in Session : w.stored[u] = NoLayout \/ w.stored[u] = v.stored[u]
      BY <1>2, <1>3, <1>8 DEF Drop
    <2>7. \A u \in Session : \A s \in w.stored[u].extra : h[s] = u
      BY <2>6, PlainLayouts DEF Placed
    <2>. QED
      BY <1>5, <1>8, <2>4, <2>5, <2>7 DEF Placed, w
  <1>. QED
    BY <1>6, <1>7, <1>8

(* ... and, with one that is not before the active one, what is shown is   *)
(* never also put aside.                                                   *)
LEMMA UnsavedClosed ==
    ASSUME NEW v, NEW h, Whole(v, h), Unsaved(v), NEW t \in Session, IsTab(v, t),
           Position(v, t) >= v.active + 1
    PROVE  Unsaved(WithoutTab(v, t))
  <1> DEFINE w == WithoutTab(v, t)  p == Position(v, t)  n == Len(v.tabs)
  <1>1. v \in Views /\ IndexOK(v)
    BY DEF Whole
  <1>2. /\ w \in Views /\ IndexOK(w)
        /\ Len(w.tabs) = n - 1
        /\ \A k \in 1 .. n - 1 :
             w.tabs[k] = IF k < p THEN v.tabs[k] ELSE v.tabs[k + 1]
        /\ w.active = IF v.active >= n - 1 /\ n - 1 # 0 THEN n - 1 - 1 ELSE v.active
        /\ w.tabs # <<>> /\ p = v.active + 1 => w.stored = Drop(v.stored, Current(w))
        /\ w.tabs # <<>> /\ p # v.active + 1 => w.stored = Drop(v.stored, t)
    BY <1>1, ClosedFacts
  <1>3. /\ n \in Nat /\ p \in 1 .. n /\ v.stored \in [Session -> Layouts]
        /\ v.active \in Nat /\ p >= v.active + 1 /\ v.tabs # <<>>
    BY <1>1, Fields, PositionFacts
  <1>4. CASE w.tabs # <<>> /\ p = v.active + 1
    <2>1. Current(w) \in Session
      BY <1>2, <1>4, CurrentFacts
    <2>2. w.stored[Current(w)] = NoLayout
      BY <1>2, <1>3, <1>4, <2>1 DEF Drop
    <2>. QED
      BY <2>2 DEF Unsaved
  <1>5. CASE w.tabs # <<>> /\ p # v.active + 1
    <2>1. v.active + 1 \in 1 .. n - 1 /\ v.active + 1 < p /\ v.active < n - 1
      BY <1>3, <1>5
    <2>2. w.active = v.active
      BY <1>2, <1>3, <2>1
    <2>3. Current(w) = Current(v)
      BY <1>2, <2>1, <2>2 DEF Current
    <2>4. Current(v) \in Session /\ v.stored[Current(v)] = NoLayout
      BY <1>1, <1>3, CurrentFacts DEF Unsaved
    <2>5. w.stored[Current(w)] = NoLayout
      BY <1>2, <1>3, <1>5, <2>3, <2>4 DEF Drop
    <2>. QED
      BY <2>5 DEF Unsaved
  <1>. QED
    BY <1>4, <1>5 DEF Unsaved

(* The tabs left after the first k of ids were closed.                     *)
LEMMA ClosingUnfolds ==
    ASSUME NEW v, NEW ids \in Seq(Session)
    PROVE  \E after :
              /\ after[0] = v
              /\ \A k \in 1 .. Len(ids) : after[k] = WithoutTab(after[k - 1], ids[k])
              /\ WithoutTabs(v, ids) = after[Len(ids)]
  <1> DEFINE Chain(f, m) ==
        f = [k \in 0 .. m |-> IF k = 0 THEN v ELSE WithoutTab(f[k - 1], ids[k])]
  <1>1. ASSUME NEW m \in Nat
        PROVE  \E f : Chain(f, m)
    <2> DEFINE T == {x \in Nat : ~ \E f : Chain(f, x)}
    <2>1. SUFFICES ASSUME T # {} PROVE FALSE
      OBVIOUS
    <2>2. PICK x \in T : \A y \in T : x <= y
      <3>1. T \subseteq Nat
        OBVIOUS
      <3> HIDE DEF T
      <3>. QED
        BY <2>1, <3>1, Least
    <2>3. CASE x = 0
      <3> DEFINE f == [k \in 0 .. 0 |-> v]
      <3>1. Chain(f, 0)
        OBVIOUS
      <3>. QED
        BY <2>2, <2>3, <3>1
    <2>4. CASE x # 0
      <3>1. x - 1 \in Nat /\ x - 1 \notin T
        BY <2>2, <2>4
      <3>2. PICK f : Chain(f, x - 1)
        BY <3>1
      <3> DEFINE g == [k \in 0 .. x |->
                         IF k = x THEN WithoutTab(f[x - 1], ids[x]) ELSE f[k]]
      <3>3. \A k \in 0 .. x - 1 : g[k] = f[k]
        BY <3>1
      <3>4. \A k \in 0 .. x : g[k] = IF k = 0 THEN v ELSE WithoutTab(g[k - 1], ids[k])
        <4>1. ASSUME NEW k \in 0 .. x, k # x
              PROVE  g[k] = IF k = 0 THEN v ELSE WithoutTab(g[k - 1], ids[k])
          <5>1. k \in 0 .. x - 1 /\ (k # 0 => k - 1 \in 0 .. x - 1)
            BY <3>1, <4>1
          <5>2. f[k] = IF k = 0 THEN v ELSE WithoutTab(f[k - 1], ids[k])
            BY <3>2, <5>1
          <5> HIDE DEF g
          <5>. QED
            BY <3>3, <5>1, <5>2
        <4>2. g[x] = WithoutTab(g[x - 1], ids[x])
          <5>1. x \in 0 .. x /\ x - 1 \in 0 .. x - 1
            BY <3>1
          <5>2. g[x] = WithoutTab(f[x - 1], ids[x])
            BY <5>1
          <5> HIDE DEF g
          <5>. QED
            BY <3>3, <5>1, <5>2
        <4> HIDE DEF g
        <4>. QED
          BY <2>4, <4>1, <4>2
      <3>5. Chain(g, x)
        <4>1. g = [k \in 0 .. x |-> g[k]]
          OBVIOUS
        <4> HIDE DEF g
        <4>2. [k \in 0 .. x |-> g[k]]
                = [k \in 0 .. x |-> IF k = 0 THEN v ELSE WithoutTab(g[k - 1], ids[k])]
          BY <3>4
        <4>. QED
          BY <4>1, <4>2
      <3>. QED
        BY <2>2, <3>5
    <2>. QED
      BY <2>3, <2>4
  <1> DEFINE after == CHOOSE f : Chain(f, Len(ids))
  <1>2. Len(ids) \in Nat
    BY LenProperties
  <1>3. Chain(after, Len(ids))
    BY <1>1, <1>2
  <1>4. WithoutTabs(v, ids) = after[Len(ids)]
    BY DEF WithoutTabs
  <1> HIDE DEF after
  <1>5. /\ after[0] = v
        /\ \A k \in 1 .. Len(ids) : after[k] = WithoutTab(after[k - 1], ids[k])
    BY <1>2, <1>3
  <1>. QED
    BY <1>4, <1>5

(* Where tabs are distinct, the position of one is where it stands.        *)
LEMMA PositionIs ==
    ASSUME NEW v \in Views, Distinct(v.tabs), NEW i \in 1 .. Len(v.tabs)
    PROVE  IsTab(v, v.tabs[i]) /\ Position(v, v.tabs[i]) = i
           /\ v.tabs[i] \in Session
  BY Fields, ElementOfSeq DEF IsTab, Position, Distinct

(* The tabs that follow position p are closed one by one: each has come to *)
(* stand at p + 1 when its turn comes, so none is before the active tab if *)
(* the first is not.                                                       *)
LEMMA RunClosed ==
    ASSUME NEW v, NEW h, Whole(v, h), NEW p \in 0 .. Len(v.tabs),
           NEW ids \in Seq(Session), Len(ids) <= Len(v.tabs) - p,
           \A i \in 1 .. Len(ids) : ids[i] = v.tabs[p + i]
    PROVE  LET w == WithoutTabs(v, ids)
           IN  /\ Whole(w, h)
               /\ v.active <= p /\ Placed(v, h) => Placed(w, h)
               /\ v.active <= p /\ Unsaved(v) => Unsaved(w)
  <1> DEFINE L == Len(v.tabs)  m == Len(ids)
  <1>1. /\ L \in Nat /\ m \in Nat /\ m <= L - p /\ p \in Nat
        /\ v \in Views /\ v.active \in Nat
    BY LenProperties, Fields DEF Whole
  <1>2. PICK after :
          /\ after[0] = v
          /\ \A k \in 1 .. m : after[k] = WithoutTab(after[k - 1], ids[k])
          /\ WithoutTabs(v, ids) = after[m]
    BY ClosingUnfolds
  <1> DEFINE J(k) ==
        /\ Whole(after[k], h)
        /\ Len(after[k].tabs) = L - k
        /\ \A i \in 1 .. L - k :
             after[k].tabs[i] = IF i <= p THEN v.tabs[i] ELSE v.tabs[i + k]
        /\ v.active <= p =>
             /\ after[k].active <= p
             /\ Placed(v, h) => Placed(after[k], h)
             /\ Unsaved(v) => Unsaved(after[k])
  <1>3. J(0)
    BY <1>1, <1>2
  <1>4. ASSUME NEW k \in 0 .. m - 1, J(k)
        PROVE  J(k + 1)
    <2> DEFINE a == after[k]  b == after[k + 1]  t == ids[k + 1]
    <2>1. k + 1 \in 1 .. m /\ p + 1 \in 1 .. L - k /\ k \in Nat
      BY <1>1
    <2>2. b = WithoutTab(a, t)
      <3>1. (k + 1) - 1 = k
        BY <2>1
      <3>. QED
        BY <1>2, <2>1, <3>1
    <2>3. /\ Whole(a, h) /\ Len(a.tabs) = L - k
          /\ \A i \in 1 .. L - k :
               a.tabs[i] = IF i <= p THEN v.tabs[i] ELSE v.tabs[i + k]
          /\ v.active <= p =>
               /\ a.active <= p
               /\ Placed(v, h) => Placed(a, h)
               /\ Unsaved(v) => Unsaved(a)
      BY <1>4
    <2>4. t = a.tabs[p + 1]
      <3>1. t = v.tabs[p + (k + 1)]
        BY <2>1
      <3>2. a.tabs[p + 1] = v.tabs[(p + 1) + k]
        <4>1. p + 1 \in 1 .. L - k /\ ~(p + 1 <= p)
          BY <1>1, <2>1
        <4> HIDE DEF L, a
        <4>. QED
          BY ONLY <2>3, <4>1
      <3>3. p + (k + 1) = (p + 1) + k
        BY <1>1, <2>1
      <3>. QED
        BY <3>1, <3>2, <3>3
    <2> HIDE DEF a, b, t
    <2>5. a \in Views /\ IndexOK(a) /\ Distinct(a.tabs)
      BY <2>3 DEF Whole
    <2>6. IsTab(a, t) /\ Position(a, t) = p + 1 /\ t \in Session
      BY <2>1, <2>3, <2>4, <2>5, PositionIs
    <2>7. Whole(b, h)
      BY <2>2, <2>3, <2>6, WholeClosed
    <2>8. /\ Len(b.tabs) = L - k - 1 /\ b.active <= a.active /\ b.active \in Nat
          /\ a.active \in Nat
          /\ \A i \in 1 .. L - k - 1 :
               b.tabs[i] = IF i < p + 1 THEN a.tabs[i] ELSE a.tabs[i + 1]
      <3>1. b \in Views /\ b.active \in Nat /\ a.active \in Nat
        BY <2>5, <2>7, Fields DEF Whole
      <3>2. /\ Len(b.tabs) = Len(a.tabs) - 1 /\ b.active <= a.active
            /\ \A i \in 1 .. Len(a.tabs) - 1 :
                 b.tabs[i] = IF i < Position(a, t) THEN a.tabs[i] ELSE a.tabs[i + 1]
        BY <2>2, <2>5, <2>6, ClosedShape
      <3> HIDE DEF L
      <3>. QED
        BY ONLY <2>3, <2>6, <3>1, <3>2
    <2>9. Len(b.tabs) = L - (k + 1)
      <3>1. Len(b.tabs) = L - k - 1 /\ L \in Nat /\ k \in Nat
        BY <1>1, <2>1, <2>8
      <3> HIDE DEF L
      <3>. QED
        BY ONLY <3>1
    <2>10. ASSUME NEW i \in 1 .. L - (k + 1)
           PROVE  b.tabs[i] = IF i <= p THEN v.tabs[i] ELSE v.tabs[i + (k + 1)]
      <3>1. i \in 1 .. L - k - 1 /\ i \in 1 .. L - k /\ i + 1 \in 1 .. L - k
            /\ i \in Nat /\ (i + 1) + k = i + (k + 1)
        <4>1. L \in Int /\ k \in Int /\ i \in Int /\ 1 <= i /\ i <= L - (k + 1)
          BY <1>1, <2>1
        <4> HIDE DEF L
        <4>. QED
          BY ONLY <4>1
      <3>2. CASE i <= p
        BY <1>1, <2>3, <2>8, <3>1, <3>2
      <3>3. CASE i > p
        <4>1. b.tabs[i] = a.tabs[i + 1]
          BY <1>1, <2>8, <3>1, <3>3
        <4>2. a.tabs[i + 1] = v.tabs[(i + 1) + k]
          BY <1>1, <2>3, <3>1, <3>3
        <4>. QED
          BY <1>1, <3>1, <3>3, <4>1, <4>2
      <3>. QED
        BY <1>1, <3>1, <3>2, <3>3
    <2>11. v.active <= p =>
             /\ b.active <= p
             /\ Placed(v, h) => Placed(b, h)
             /\ Unsaved(v) => Unsaved(b)
      <3>1. SUFFICES ASSUME v.active <= p
                     PROVE  /\ b.active <= p
                            /\ Placed(v, h) => Placed(b, h)
                            /\ Unsaved(v) => Unsaved(b)
        OBVIOUS
      <3>2. b.active <= p /\ Position(a, t) >= a.active + 1
        BY <1>1, <2>3, <2>6, <2>8, <3>1
      <3>3. Placed(v, h) => Placed(b, h)
        BY <2>2, <2>3, <2>6, <3>1, <3>2, PlacedClosed
      <3>4. Unsaved(v) => Unsaved(b)
        BY <2>2, <2>3, <2>6, <3>1, <3>2, UnsavedClosed
      <3>. QED
        BY <3>2, <3>3, <3>4
    <2>. QED
      BY <2>7, <2>9, <2>10, <2>11 DEF b
  <1> HIDE DEF J
  <1>5. J(m)
    <2> DEFINE T == {x \in 0 .. m : ~ J(x)}
    <2>1. SUFFICES ASSUME T # {} PROVE FALSE
      BY <1>1
    <2>2. PICK x \in T : \A y \in T : x <= y
      <3>1. T \subseteq Nat
        OBVIOUS
      <3> HIDE DEF T
      <3>. QED
        BY <2>1, <3>1, Least
    <2>3. x \in 0 .. m /\ x # 0 /\ x - 1 \in 0 .. m - 1 /\ x - 1 \notin T
      BY <1>1, <1>3, <2>2
    <2>4. J(x - 1)
      BY <1>1, <2>3
    <2>5. J((x - 1) + 1)
      BY <1>4, <2>3, <2>4
    <2>6. (x - 1) + 1 = x
      BY <1>1, <2>3
    <2>. QED
      BY <2>2, <2>5, <2>6
  <1>. QED
    BY <1>2, <1>5 DEF J

(* Every pane of a layout has its leaf.                                    *)
LEMMA LeafFacts ==
    ASSUME NEW l \in Layouts, Backed(l), NEW p \in l.extra \cup {Primary}
    PROVE  Leaf(l, p) \in 1 .. Len(l.leaves) /\ l.leaves[Leaf(l, p)] = p
  <1>1. \E i \in DOMAIN l.leaves : l.leaves[i] = p
    BY DEF Backed
  <1>. QED
    BY <1>1, LayoutFields DEF Leaf

(* A layout of several leaves has an extra pane to put in the primary      *)
(* one's place.                                                            *)
LEMMA FirstExtraFacts ==
    ASSUME NEW l \in Layouts, Backed(l), Len(l.leaves) > 1
    PROVE  FirstExtra(l) \in 1 .. Len(l.leaves) /\ l.leaves[FirstExtra(l)] # Primary
  <1> DEFINE T == {i \in 1 .. Len(l.leaves) : l.leaves[i] # Primary}
  <1>1. Len(l.leaves) \in Nat /\ DOMAIN l.leaves = 1 .. Len(l.leaves)
    BY LayoutFields
  <1>2. T # {}
    <2>1. 1 \in 1 .. Len(l.leaves) /\ 2 \in 1 .. Len(l.leaves) /\ 1 # 2
      BY <1>1
    <2>2. l.leaves[1] # l.leaves[2]
      BY <1>1, <2>1 DEF Backed
    <2>. QED
      BY <2>1, <2>2
  <1>3. PICK x \in T : \A y \in T : x <= y
    <2>1. T \subseteq Nat
      OBVIOUS
    <2> HIDE DEF T
    <2>. QED
      BY <1>2, <2>1, Least
  <1>4. x \in DOMAIN l.leaves /\ l.leaves[x] # Primary
        /\ \A j \in 1 .. x - 1 : l.leaves[j] = Primary
    BY <1>1, <1>3
  <1>. QED
    BY <1>1, <1>4 DEF FirstExtra

(* A split adds one leaf and its session.                                  *)
LEMMA SplitBacked ==
    ASSUME NEW l \in Layouts, Backed(l), NEW s \in Session, s \notin l.extra,
           NEW m, m = [leaves |-> InsertAt(l.leaves, Leaf(l, l.focused) + 1, s),
                       extra |-> l.extra \cup {s}, focused |-> s]
    PROVE  m \in Layouts /\ Backed(m) /\ m.extra = l.extra \cup {s}
  <1> DEFINE q == l.leaves  at == Leaf(l, l.focused) + 1  r == InsertAt(q, at, s)
             P == Session \cup {Primary}  n == Len(q)
  <1>1. /\ q \in Seq(P) /\ l.extra \subseteq Session
        /\ n \in Nat /\ DOMAIN q = 1 .. n
    BY LayoutFields
  <1>2. at \in 1 .. n + 1 /\ s \in P
    <2>1. l.focused \in l.extra \cup {Primary}
      BY DEF Backed
    <2>. QED
      BY <1>1, <2>1, LeafFacts
  <1>3. /\ r \in Seq(P) /\ Len(r) = n + 1
        /\ \A k \in 1 .. n + 1 :
             r[k] = IF k < at THEN q[k] ELSE IF k = at THEN s ELSE q[k - 1]
    <2>1. q \in Seq(P) /\ at \in 1 .. Len(q) + 1 /\ s \in P
      BY <1>1, <1>2
    <2> HIDE DEF P, at, q
    <2>. QED
      BY <2>1, Inserting
  <1>4. m.leaves = r /\ m.extra = l.extra \cup {s} /\ m.focused = s
    OBVIOUS
  <1>5. m \in Layouts
    <2> HIDE DEF r
    <2>1. l.extra \cup {s} \in SUBSET Session
      BY <1>1
    <2>2. m = [leaves |-> r, extra |-> l.extra \cup {s}, focused |-> s]
      BY DEF r
    <2>. QED
      BY <1>2, <1>3, <2>1, <2>2 DEF Layouts
  <1>6. DOMAIN r = 1 .. n + 1
    BY <1>3, LenProperties
  <1>7. \A i, j \in 1 .. n : q[i] = q[j] => i = j
    BY <1>1 DEF Backed
  <1>8. {q[i] : i \in 1 .. n} = l.extra \cup {Primary}
    BY <1>1 DEF Backed
  <1>9. s # Primary /\ \A k \in 1 .. n : q[k] # s
    BY <1>8, TabsAssumption
  <1> HIDE DEF r, q, at, n
  <1>10. \A i, j \in 1 .. n + 1 : r[i] = r[j] => i = j
    <2>1. TAKE i, j \in 1 .. n + 1
    <2>2. HAVE r[i] = r[j]
    <2>3. i \in Nat /\ j \in Nat /\ at \in Nat
      BY <1>1, <1>2
    <2> DEFINE back(k) == IF k < at THEN k ELSE k - 1
    <2>4. \A k \in 1 .. n + 1 : k # at => back(k) \in 1 .. n /\ r[k] = q[back(k)]
      BY <1>1, <1>2, <1>3
    <2>5. r[at] = s
      BY <1>1, <1>2, <1>3
    <2>6. CASE i # at /\ j # at
      <3>1. back(i) \in 1 .. n /\ back(j) \in 1 .. n /\ q[back(i)] = q[back(j)]
        BY <2>2, <2>4, <2>6
      <3> HIDE DEF back
      <3>2. back(i) = back(j)
        BY <1>7, <3>1
      <3>. QED
        BY <2>3, <2>6, <3>2 DEF back
    <2>7. CASE i = at \/ j = at
      <3> HIDE DEF back
      <3>. QED
        BY <1>9, <2>2, <2>4, <2>5, <2>7
    <2>. QED
      BY <2>6, <2>7
  <1>11. {r[i] : i \in 1 .. n + 1} = l.extra \cup {s} \cup {Primary}
    <2>1. ASSUME NEW i \in 1 .. n + 1 PROVE r[i] \in l.extra \cup {s} \cup {Primary}
      <3>1. i = at \/ (i < at /\ i \in 1 .. n) \/ (i > at /\ i - 1 \in 1 .. n)
        BY <1>1, <1>2
      <3>. QED
        BY <1>2, <1>3, <1>8, <3>1
    <2>2. ASSUME NEW p \in l.extra \cup {s} \cup {Primary}
          PROVE  \E i \in 1 .. n + 1 : r[i] = p
      <3>1. CASE p = s
        <4>1. at \in 1 .. n + 1 /\ ~(at < at)
          BY <1>1, <1>2
        <4>2. r[at] = s
          BY <1>3, <4>1
        <4>. QED
          BY <3>1, <4>1, <4>2
      <3>2. CASE p # s
        <4>1. PICK k \in 1 .. n : q[k] = p
          BY <1>8, <3>2
        <4>2. CASE k < at
          <5>1. k \in 1 .. n + 1
            BY <1>1
          <5>. QED
            BY <1>3, <4>1, <4>2, <5>1
        <4>3. CASE k >= at
          <5>1. k + 1 \in 1 .. n + 1 /\ k + 1 > at /\ (k + 1) - 1 = k
                /\ ~(k + 1 < at) /\ k + 1 # at
            BY <1>1, <1>2, <4>3
          <5>2. r[k + 1] = q[k]
            BY <1>3, <5>1
          <5>. QED
            BY <4>1, <5>1, <5>2
        <4>4. k < at \/ k >= at
          BY <1>1, <1>2
        <4>. QED
          BY <4>2, <4>3, <4>4
      <3>. QED
        BY <3>1, <3>2
    <2>. QED
      BY <2>1, <2>2
  <1>12. Backed(m)
    <2>1. {m.leaves[i] : i \in DOMAIN m.leaves} = {r[i] : i \in 1 .. n + 1}
      BY <1>4, <1>6
    <2>2. {m.leaves[i] : i \in DOMAIN m.leaves} = m.extra \cup {Primary}
      BY <1>4, <1>11, <2>1
    <2>3. \A i, j \in DOMAIN m.leaves : m.leaves[i] = m.leaves[j] => i = j
      BY <1>4, <1>6, <1>10
    <2>4. m.focused \in m.extra \cup {Primary}
      BY <1>4
    <2>. QED
      BY <2>2, <2>3, <2>4 DEF Backed
  <1>. QED
    BY <1>4, <1>5, <1>12

(* A closed pane takes one leaf and one session with it.                   *)
LEMMA UnsplitBacked ==
    ASSUME NEW l \in Layouts, Backed(l), Len(l.leaves) > 1,
           NEW at, at = IF l.focused = Primary THEN FirstExtra(l) ELSE Leaf(l, l.focused),
           NEW m, m = [leaves |-> RemoveAt(l.leaves, at),
                       extra |-> l.extra \ {l.leaves[at]}, focused |-> Primary]
    PROVE  /\ m \in Layouts /\ Backed(m)
           /\ l.leaves[at] \in l.extra /\ m.extra = l.extra \ {l.leaves[at]}
  <1> DEFINE q == l.leaves  r == RemoveAt(q, at)
             P == Session \cup {Primary}  n == Len(q)
  <1>1. /\ q \in Seq(P) /\ l.extra \subseteq Session
        /\ n \in Nat /\ DOMAIN q = 1 .. n
    BY LayoutFields
  <1>2. {q[i] : i \in 1 .. n} = l.extra \cup {Primary}
    BY <1>1 DEF Backed
  <1>3. \A i, j \in 1 .. n : q[i] = q[j] => i = j
    BY <1>1 DEF Backed
  <1>4. at \in 1 .. n /\ q[at] # Primary
    <2>1. l.focused \in l.extra \cup {Primary}
      BY DEF Backed
    <2>. QED
      BY <2>1, LeafFacts, FirstExtraFacts
  <1>5. q[at] \in l.extra
    BY <1>2, <1>4
  <1>6. /\ r \in Seq(P) /\ Len(r) = n - 1
        /\ \A k \in 1 .. n - 1 : r[k] = IF k < at THEN q[k] ELSE q[k + 1]
    <2> HIDE DEF P
    <2>. QED
      BY <1>1, <1>4, Removing
  <1>7. m.leaves = r /\ m.extra = l.extra \ {q[at]} /\ m.focused = Primary
    OBVIOUS
  <1>8. m \in Layouts
    <2> HIDE DEF r
    <2>1. l.extra \ {q[at]} \in SUBSET Session
      BY <1>1
    <2>2. m = [leaves |-> r, extra |-> l.extra \ {q[at]}, focused |-> Primary]
      BY DEF r
    <2>. QED
      BY <1>6, <2>1, <2>2 DEF Layouts
  <1>9. DOMAIN r = 1 .. n - 1
    BY <1>6, LenProperties
  <1> HIDE DEF r, q, n
  <1> DEFINE from(k) == IF k < at THEN k ELSE k + 1
  <1>10. \A k \in 1 .. n - 1 : /\ from(k) \in 1 .. n /\ from(k) # at
                               /\ r[k] = q[from(k)]
    BY <1>1, <1>4, <1>6
  <1>11. \A j, k \in 1 .. n - 1 : from(j) = from(k) => j = k
    BY <1>1, <1>4
  <1>12. \A k \in 1 .. n : k # at => \E j \in 1 .. n - 1 : from(j) = k
    <2>1. TAKE k \in 1 .. n
    <2>2. HAVE k # at
    <2>3. k < at => k \in 1 .. n - 1 /\ from(k) = k
      BY <1>1, <1>4
    <2>4. k > at => k - 1 \in 1 .. n - 1 /\ from(k - 1) = k
      BY <1>1, <1>4
    <2>5. k < at \/ k > at
      BY <1>1, <1>4, <2>2
    <2> HIDE DEF from
    <2>. QED
      BY <2>3, <2>4, <2>5
  <1> HIDE DEF from
  <1>13. \A i, j \in 1 .. n - 1 : r[i] = r[j] => i = j
    <2>1. TAKE i, j \in 1 .. n - 1
    <2>2. HAVE r[i] = r[j]
    <2>3. from(i) = from(j)
      BY <1>3, <1>10, <2>2
    <2>. QED
      BY <1>11, <2>3
  <1>14. {r[i] : i \in 1 .. n - 1} = (l.extra \ {q[at]}) \cup {Primary}
    <2>1. ASSUME NEW i \in 1 .. n - 1
          PROVE  r[i] \in (l.extra \ {q[at]}) \cup {Primary}
      <3>1. from(i) \in 1 .. n /\ q[from(i)] # q[at] /\ r[i] = q[from(i)]
        BY <1>3, <1>4, <1>10
      <3>. QED
        BY <1>2, <3>1
    <2>2. ASSUME NEW p \in (l.extra \ {q[at]}) \cup {Primary}
          PROVE  \E i \in 1 .. n - 1 : r[i] = p
      <3>1. PICK k \in 1 .. n : q[k] = p
        BY <1>2
      <3>2. k # at
        BY <1>4, <3>1
      <3>3. PICK j \in 1 .. n - 1 : from(j) = k
        BY <1>12, <3>2
      <3>. QED
        BY <1>10, <3>1, <3>3
    <2>. QED
      BY <2>1, <2>2
  <1>15. Backed(m)
    <2>1. {m.leaves[i] : i \in DOMAIN m.leaves} = {r[i] : i \in 1 .. n - 1}
      BY <1>7, <1>9
    <2>2. {m.leaves[i] : i \in DOMAIN m.leaves} = m.extra \cup {Primary}
      BY <1>7, <1>14, <2>1
    <2>3. \A i, j \in DOMAIN m.leaves : m.leaves[i] = m.leaves[j] => i = j
      <3>1. m.leaves = r
        BY <1>7
      <3>2. \A i, j \in DOMAIN r : r[i] = r[j] => i = j
        BY <1>9, <1>13
      <3> HIDE DEF r
      <3>. QED
        BY ONLY <3>1, <3>2
    <2>4. m.focused \in m.extra \cup {Primary}
      BY <1>7
    <2>. QED
      BY <2>2, <2>3, <2>4 DEF Backed
  <1>. QED
    BY <1>5, <1>7, <1>8, <1>15 DEF q

(* A session is held as a tab's own, or in a layout that is shown or put   *)
(* aside.                                                                  *)
LEMMA HeldIs ==
    ASSUME NEW v \in Views
    PROVE  \A x : x \in Held(v) <=> \/ \E i \in 1 .. Len(v.sessions) : v.sessions[i] = x
                                   \/ x \in v.layout.extra
                                   \/ \E t \in Session : x \in v.stored[t].extra
  BY Fields DEF Held

(* A new tab: the layout shown is put aside under its tab, and nothing is  *)
(* put aside under the new one.                                            *)
LEMMA TabAdded ==
    ASSUME NEW v, NEW h \in [Session -> Session \cup {NoTab}], Whole(v, h),
           NEW s \in Session, h[s] = NoTab,
           NEW g, g = [h EXCEPT ![s] = s]
    PROVE  LET w == WithTab(v, s)
           IN  /\ Whole(w, g) /\ Unsaved(w)
               /\ Placed(v, h) => Placed(w, g)
               /\ Unsaved(v) => Held(v) \subseteq Held(w)
  <1> DEFINE w == WithTab(v, s)  n == Len(v.tabs)
             lay == IF v.tabs = <<>> THEN v.layout ELSE Single
             sto == IF v.tabs = <<>> THEN v.stored ELSE Put(v.stored, Current(v), v.layout)
  <1>1. /\ v \in Views /\ IndexOK(v)
        /\ v.tabs \in Seq(Session) /\ v.sessions \in Seq(Session)
        /\ v.layout \in Layouts /\ v.stored \in [Session -> Layouts]
        /\ n \in Nat /\ Len(v.sessions) = n /\ (v.tabs = <<>> <=> n = 0)
    BY Fields DEF Whole, IndexOK
  <1>2. w = [tabs |-> Append(v.tabs, s), sessions |-> Append(v.sessions, s),
             active |-> Len(v.sessions), marked |-> {s}, layout |-> lay, stored |-> sto]
    <2>1. w = [v EXCEPT !.stored = sto, !.layout = lay, !.tabs = Append(v.tabs, s),
                        !.sessions = Append(v.sessions, s),
                        !.active = Len(v.sessions), !.marked = {s}]
      BY DEF WithTab
    <2> HIDE DEF w, sto, lay
    <2>. QED
      BY <1>1, <2>1 DEF Views
  <1>3. /\ Append(v.tabs, s) \in Seq(Session) /\ Len(Append(v.tabs, s)) = n + 1
        /\ \A i \in 1 .. n : Append(v.tabs, s)[i] = v.tabs[i]
        /\ Append(v.tabs, s)[n + 1] = s
    BY <1>1, AppendProperties
  <1>4. /\ Append(v.sessions, s) \in Seq(Session) /\ Len(Append(v.sessions, s)) = n + 1
        /\ \A i \in 1 .. n : Append(v.sessions, s)[i] = v.sessions[i]
        /\ Append(v.sessions, s)[n + 1] = s
    BY <1>1, AppendProperties
  <1>5. v.tabs # <<>> => Current(v) \in Session /\ h[Current(v)] = Current(v)
    BY <1>1, CurrentFacts DEF Current, Whole
  <1>6. lay \in Layouts /\ sto \in [Session -> Layouts]
    BY <1>1, <1>5, PlainLayouts DEF Put
  <1>7. \A u \in Session : \/ sto[u] = v.stored[u]
                           \/ /\ sto[u] = v.layout /\ v.tabs # <<>>
                              /\ u = Current(v)
    BY <1>1, <1>5 DEF Put
  <1>8. s # NoTab /\ NoTab \notin Session
    BY TabsAssumption
  <1>9. /\ g[s] = s /\ \A u \in Session : h[u] # NoTab => g[u] = h[u] /\ u # s
    OBVIOUS
  <1> HIDE DEF lay, sto, w
  <1>10. /\ w.tabs = Append(v.tabs, s) /\ w.sessions = Append(v.sessions, s)
         /\ w.active = n /\ w.marked = {s} /\ w.layout = lay /\ w.stored = sto
    BY <1>1, <1>2
  <1>11. w \in Views
    BY <1>1, <1>2, <1>3, <1>4, <1>6 DEF Views
  <1>12. IndexOK(w)
    BY <1>1, <1>3, <1>4, <1>10 DEF IndexOK
  <1>13. \A i \in 1 .. n : v.tabs[i] \in Session /\ h[v.tabs[i]] = v.tabs[i]
                           /\ v.tabs[i] # s /\ g[v.tabs[i]] = v.tabs[i]
    <2>1. TAKE i \in 1 .. n
    <2>2. v.tabs[i] \in Session /\ h[v.tabs[i]] = v.tabs[i]
      BY <1>1, ElementOfSeq DEF Whole
    <2>. QED
      BY <1>8, <1>9, <2>2
  <1>14. \A i \in 1 .. n + 1 : g[w.tabs[i]] = w.tabs[i]
    BY <1>1, <1>3, <1>9, <1>10, <1>13
  <1>15. Distinct(w.tabs)
    <2>1. SUFFICES ASSUME NEW i \in 1 .. n + 1, NEW j \in 1 .. n + 1, w.tabs[i] = w.tabs[j]
                   PROVE  i = j
      BY <1>3, <1>10 DEF Distinct
    <2>2. \A k \in 1 .. n + 1 : k = n + 1 \/ k \in 1 .. n
      BY <1>1
    <2>3. \A k, m \in 1 .. n : v.tabs[k] = v.tabs[m] => k = m
      BY DEF Whole, Distinct
    <2>. QED
      BY <1>3, <1>10, <1>13, <2>1, <2>2, <2>3
  <1>16. w.tabs # <<>> /\ Current(w) = s
    BY <1>1, <1>3, <1>10, EmptySeq DEF Current
  <1>17. Backed(lay) /\ \A u \in lay.extra : h[u] # NoTab
    BY PlainLayouts DEF lay, Whole
  <1>18. \A u \in Session : \/ sto[u] = NoLayout
                            \/ Backed(sto[u]) /\ h[u] # NoTab
    BY <1>5, <1>7, <1>8 DEF Whole
  <1>19. \A u \in Session : \A x \in sto[u].extra : h[x] # NoTab
    BY <1>7 DEF Whole
  <1>20. lay.extra \subseteq Session /\ \A u \in Session : sto[u].extra \subseteq Session
    BY <1>6, LayoutFields
  <1>21. Whole(w, g)
    BY <1>3, <1>8, <1>9, <1>10, <1>11, <1>12, <1>14, <1>15, <1>16, <1>17, <1>18,
       <1>19, <1>20 DEF Whole
  <1>22. Unsaved(w)
    BY <1>9, <1>10, <1>16, <1>18 DEF Unsaved
  <1>23. ASSUME Placed(v, h) PROVE Placed(w, g)
    <2>1. w.marked = {Current(w)}
      BY <1>10, <1>16
    <2>2. \A i \in 1 .. n + 1 : g[w.sessions[i]] = w.tabs[i]
      <3>1. TAKE i \in 1 .. n + 1
      <3>2. CASE i \in 1 .. n
        <4>1. v.sessions[i] \in Session /\ h[v.sessions[i]] = v.tabs[i]
          BY <1>1, <1>23, <3>2, ElementOfSeq DEF Placed
        <4>2. g[v.sessions[i]] = v.tabs[i]
          BY <1>8, <1>9, <1>13, <3>2, <4>1
        <4>. QED
          BY <1>3, <1>4, <1>10, <3>2, <4>2
      <3>3. CASE i = n + 1
        BY <1>3, <1>4, <1>9, <1>10, <3>3
      <3>. QED
        BY <1>1, <3>2, <3>3
    <2>3. \A x \in lay.extra : g[x] = Current(w)
      <3>1. CASE v.tabs = <<>>
        BY <3>1, PlainLayouts DEF lay, Whole
      <3>2. CASE v.tabs # <<>>
        BY <3>2, PlainLayouts DEF lay
      <3>. QED
        BY <3>1, <3>2
    <2>4. \A u \in Session : \A x \in sto[u].extra : h[x] = u
      BY <1>7, <1>23 DEF Placed
    <2>5. \A u \in Session : \A x \in sto[u].extra : g[x] = u
      BY <1>9, <1>19, <1>20, <2>4
    <2>. QED
      BY <1>3, <1>10, <1>16, <2>1, <2>2, <2>3, <2>5 DEF Placed
  <1>24. ASSUME Unsaved(v), NEW x \in Held(v) PROVE x \in Held(w)
    <2>1. \/ \E i \in 1 .. n : v.sessions[i] = x
          \/ x \in v.layout.extra
          \/ \E u \in Session : x \in v.stored[u].extra
      BY <1>1, <1>24, HeldIs
    <2>2. CASE \E i \in 1 .. n : v.sessions[i] = x
      <3>1. PICK i \in 1 .. n : v.sessions[i] = x
        BY <2>2
      <3>2. i \in 1 .. Len(w.sessions) /\ w.sessions[i] = x
        BY <1>1, <1>4, <1>10, <3>1
      <3>. QED
        BY <1>11, <3>2, HeldIs
    <2>3. CASE x \in v.layout.extra
      <3>1. x \in lay.extra \/ \E u \in Session : x \in sto[u].extra
        BY <1>1, <1>5, <2>3 DEF lay, sto, Put
      <3>. QED
        BY <1>10, <1>11, <3>1, HeldIs
    <2>4. CASE \E u \in Session : x \in v.stored[u].extra
      <3>1. PICK u \in Session : x \in v.stored[u].extra
        BY <2>4
      <3>2. sto[u] = v.stored[u]
        BY <1>7, <1>24, <3>1, PlainLayouts DEF Unsaved
      <3>. QED
        BY <1>10, <1>11, <3>1, <3>2, HeldIs
    <2>. QED
      BY <2>1, <2>2, <2>3, <2>4
  <1>. QED
    BY <1>21, <1>22, <1>23, <1>24 DEF w

(* A switch: the layout shown is put aside unless the tab is shown already,*)
(* and the layout put aside for the tab is shown.                          *)
LEMMA TabSelected ==
    ASSUME NEW v, NEW h \in [Session -> Session \cup {NoTab}], Whole(v, h),
           NEW t \in Session, h[t] # NoTab
    PROVE  LET w == WithSelected(v, t)
           IN  /\ Whole(w, h)
               /\ IsTab(v, t) => Unsaved(w) /\ Current(w) = t
               /\ IsTab(v, t) /\ Placed(v, h) => Placed(w, h)
               /\ IsTab(v, t) /\ Current(v) # t /\ Unsaved(v) =>
                    Held(v) \subseteq Held(w)
  <1> DEFINE w == WithSelected(v, t)  n == Len(v.tabs)
             saved == IF v.tabs # <<>> /\ Current(v) # t
                      THEN Put(v.stored, Current(v), v.layout) ELSE v.stored
             found == Found(saved, t)
             lay == [found EXCEPT !.focused = Primary]
             mar == {t} \cap {v.tabs[i] : i \in DOMAIN v.tabs}
             act == IF IsTab(v, t) THEN Position(v, t) - 1 ELSE v.active
  <1>1. /\ v \in Views /\ IndexOK(v)
        /\ v.tabs \in Seq(Session) /\ v.sessions \in Seq(Session)
        /\ v.layout \in Layouts /\ v.stored \in [Session -> Layouts]
        /\ n \in Nat /\ Len(v.sessions) = n /\ (v.tabs = <<>> <=> n = 0)
        /\ v.active \in Nat /\ DOMAIN v.tabs = 1 .. n
    BY Fields DEF Whole, IndexOK
  <1>2. w = [tabs |-> v.tabs, sessions |-> v.sessions, active |-> act,
             marked |-> mar, layout |-> lay, stored |-> Drop(saved, t)]
    <2>1. w = [v EXCEPT !.marked = mar, !.active = act, !.layout = lay,
                        !.stored = Drop(saved, t)]
      BY DEF WithSelected
    <2> HIDE DEF w, mar, act, lay, saved
    <2>. QED
      BY <1>1, <2>1 DEF Views
  <1>3. v.tabs # <<>> => Current(v) \in Session /\ h[Current(v)] = Current(v)
    BY <1>1, CurrentFacts DEF Current, Whole
  <1>4. saved \in [Session -> Layouts]
    BY <1>1, <1>3 DEF Put
  <1>5. \A u \in Session : \/ saved[u] = v.stored[u]
                           \/ /\ saved[u] = v.layout /\ v.tabs # <<>>
                              /\ u = Current(v) /\ u # t
    BY <1>1, <1>3 DEF Put
  <1>6. saved[t] = v.stored[t]
    BY <1>5
  <1>7. found \in Layouts /\ Backed(found) /\ (found = Single \/ found = v.stored[t])
    BY <1>1, <1>6, PlainLayouts DEF Found, Whole
  <1>8. /\ lay \in Layouts /\ lay.leaves = found.leaves /\ lay.extra = found.extra
        /\ lay.focused = Primary
    <2> HIDE DEF found
    <2>. QED
      BY <1>7 DEF Layouts
  <1>9. Backed(lay)
    <2> HIDE DEF found, lay
    <2>. QED
      BY <1>7, <1>8 DEF Backed
  <1>10. act \in Nat /\ (act = 0 \/ act < n)
    BY <1>1, PositionFacts DEF IndexOK
  <1>11. mar \in SUBSET Session /\ (IsTab(v, t) => mar = {t})
    BY <1>1 DEF IsTab
  <1>12. \A u \in Session : Drop(saved, t)[u] = IF u = t THEN NoLayout ELSE saved[u]
    <2> HIDE DEF saved
    <2>. QED
      BY <1>4 DEF Drop
  <1>13. Drop(saved, t) \in [Session -> Layouts]
    <2> HIDE DEF saved
    <2>. QED
      BY <1>4, PlainLayouts DEF Drop
  <1>14. v.tabs = <<>> => lay = Single /\ Drop(saved, t) = NoneStored
    <2>1. SUFFICES ASSUME v.tabs = <<>> PROVE lay = Single /\ Drop(saved, t) = NoneStored
      OBVIOUS
    <2>2. v.stored = NoneStored /\ saved = NoneStored
      BY <2>1 DEF Whole
    <2>3. saved[t] = NoLayout /\ found = Single
      BY <2>2 DEF NoneStored, Found
    <2>4. lay = Single
      BY <2>3 DEF Single
    <2>5. Drop(saved, t) = NoneStored
      BY <2>2 DEF NoneStored, Drop
    <2>. QED
      BY <2>4, <2>5
  <1>15. IsTab(v, t) => v.tabs[act + 1] = t /\ v.tabs # <<>>
    BY <1>1, PositionFacts DEF IsTab
  <1> HIDE DEF saved, found, lay, mar, act, w
  <1>16. /\ w.tabs = v.tabs /\ w.sessions = v.sessions /\ w.active = act
         /\ w.marked = mar /\ w.layout = lay /\ w.stored = Drop(saved, t)
    BY <1>2
  <1>17. w \in Views
    BY <1>1, <1>2, <1>8, <1>10, <1>11, <1>13 DEF Views
  <1>18. IndexOK(w)
    BY <1>1, <1>10, <1>16 DEF IndexOK
  <1>19. \A s \in lay.extra : h[s] # NoTab
    BY <1>7, <1>8, PlainLayouts DEF Whole
  <1>20. \A u \in Session : w.stored[u] = NoLayout
                            \/ (Backed(w.stored[u]) /\ h[u] # NoTab)
    BY <1>3, <1>5, <1>12, <1>16, TabsAssumption DEF Whole
  <1>21. \A u \in Session : \A s \in w.stored[u].extra : h[s] # NoTab
    BY <1>5, <1>12, <1>16, PlainLayouts DEF Whole
  <1>22. Whole(w, h)
    BY <1>9, <1>14, <1>16, <1>17, <1>18, <1>19, <1>20, <1>21 DEF Whole
  <1>23. IsTab(v, t) => Current(w) = t
    BY <1>15, <1>16 DEF Current
  <1>24. IsTab(v, t) => Unsaved(w)
    BY <1>12, <1>16, <1>23 DEF Unsaved
  <1>25. ASSUME IsTab(v, t), Placed(v, h) PROVE Placed(w, h)
    <2>1. w.marked = {Current(w)}
      BY <1>11, <1>16, <1>23, <1>25
    <2>2. \A s \in lay.extra : h[s] = t
      BY <1>7, <1>8, <1>25, PlainLayouts DEF Placed
    <2>3. \A u \in Session : \A s \in w.stored[u].extra : h[s] = u
      BY <1>5, <1>12, <1>16, <1>25, PlainLayouts DEF Placed
    <2>. QED
      BY <1>15, <1>16, <1>23, <1>25, <2>1, <2>2, <2>3 DEF Placed
  <1>26. ASSUME IsTab(v, t), Current(v) # t, Unsaved(v), NEW x \in Held(v)
         PROVE  x \in Held(w)
    <2>1. \/ \E i \in 1 .. n : v.sessions[i] = x
          \/ x \in v.layout.extra
          \/ \E u \in Session : x \in v.stored[u].extra
      BY <1>1, <1>26, HeldIs
    <2>2. CASE \E i \in 1 .. n : v.sessions[i] = x
      BY <1>1, <1>16, <1>17, <2>2, HeldIs
    <2>3. CASE x \in v.layout.extra
      <3>1. Current(v) \in Session /\ saved[Current(v)] = v.layout
        BY <1>1, <1>3, <1>15, <1>26 DEF saved, Put
      <3>2. w.stored[Current(v)] = v.layout
        BY <1>12, <1>16, <1>26, <3>1
      <3>. QED
        BY <1>17, <2>3, <3>1, <3>2, HeldIs
    <2>4. CASE \E u \in Session : x \in v.stored[u].extra
      <3>1. PICK u \in Session : x \in v.stored[u].extra
        BY <2>4
      <3>2. u # Current(v) /\ saved[u] = v.stored[u] /\ saved[u] # NoLayout
        BY <1>5, <1>15, <1>26, <3>1, PlainLayouts DEF Unsaved
      <3>3. CASE u = t
        <4>1. lay.extra = v.stored[u].extra
          BY <1>8, <3>2, <3>3 DEF found, Found
        <4>. QED
          BY <1>16, <1>17, <3>1, <4>1, HeldIs
      <3>4. CASE u # t
        <4>1. w.stored[u] = v.stored[u]
          BY <1>12, <1>16, <3>2, <3>4
        <4>. QED
          BY <1>17, <3>1, <4>1, HeldIs
      <3>. QED
        BY <3>3, <3>4
    <2>. QED
      BY <2>1, <2>2, <2>3, <2>4
  <1>. QED
    BY <1>22, <1>23, <1>24, <1>25, <1>26 DEF w

Relaid(v, m, q) == [v EXCEPT !.layout = m, !.sessions = q]

(* A split, a change of focus and a closed pane change only the layout that *)
(* is shown, and which session is the tab's own.                           *)
LEMMA LayoutChanged ==
    ASSUME NEW v, NEW h, Whole(v, h), v.tabs # <<>>,
           NEW g, \A u \in Session : h[u] # NoTab => g[u] = h[u],
           NEW m \in Layouts, Backed(m), \A x \in m.extra : g[x] # NoTab,
           NEW q \in Seq(Session), Len(q) = Len(v.tabs)
    PROVE  /\ Whole(Relaid(v, m, q), g)
           /\ Unsaved(v) => Unsaved(Relaid(v, m, q))
           /\ Placed(v, h) /\ (\A i \in 1 .. Len(q) : g[q[i]] = v.tabs[i])
                /\ (\A x \in m.extra : g[x] = Current(v))
                => Placed(Relaid(v, m, q), g)
  <1> DEFINE w == Relaid(v, m, q)
  <1>1. v \in Views /\ IndexOK(v)
    BY DEF Whole
  <1>2. /\ w.tabs = v.tabs /\ w.sessions = q /\ w.active = v.active
        /\ w.marked = v.marked /\ w.layout = m /\ w.stored = v.stored
        /\ w \in Views
    BY <1>1 DEF Views, Relaid
  <1> HIDE DEF w
  <1>3. IndexOK(w)
    BY <1>1, <1>2 DEF IndexOK
  <1>4. \A i \in 1 .. Len(v.tabs) : v.tabs[i] \in Session /\ h[v.tabs[i]] = v.tabs[i]
    BY <1>1, Fields, ElementOfSeq DEF Whole
  <1>5. \A i \in 1 .. Len(v.tabs) : g[v.tabs[i]] = v.tabs[i]
    BY <1>4, TabsAssumption
  <1>6. \A u \in Session : v.stored[u].extra \subseteq Session
    BY <1>1, Fields, LayoutFields
  <1>7. \A u \in Session : v.stored[u] = NoLayout \/ (Backed(v.stored[u]) /\ g[u] # NoTab)
    BY DEF Whole
  <1>8. \A u \in Session : \A x \in v.stored[u].extra : g[x] # NoTab /\ g[x] = h[x]
    BY <1>6 DEF Whole
  <1>9. Whole(w, g)
    BY <1>2, <1>3, <1>5, <1>7, <1>8 DEF Whole
  <1>10. Current(w) = Current(v)
    BY <1>2 DEF Current
  <1>11. Unsaved(v) => Unsaved(w)
    BY <1>2, <1>10 DEF Unsaved
  <1>12. Placed(v, h) /\ (\A i \in 1 .. Len(q) : g[q[i]] = v.tabs[i])
           /\ (\A x \in m.extra : g[x] = Current(v)) => Placed(w, g)
    BY <1>2, <1>8, <1>10 DEF Placed
  <1>. QED
    BY <1>9, <1>11, <1>12 DEF w

(* A split opens its session in the active tab.                            *)
LEMMA PaneSplit ==
    ASSUME NEW v, NEW h \in [Session -> Session \cup {NoTab}], Whole(v, h),
           v.sessions # <<>>, NEW s \in Session, h[s] = NoTab,
           NEW g, g = [h EXCEPT ![s] = Current(v)]
    PROVE  LET w == WithSplit(v, s)
           IN  /\ Whole(w, g)
               /\ Unsaved(v) => Unsaved(w)
               /\ Placed(v, h) => Placed(w, g)
               /\ w.layout.extra = v.layout.extra \cup {s}
               /\ w.sessions = v.sessions /\ w.stored = v.stored
  <1> DEFINE w == WithSplit(v, s)  l == v.layout
             m == [leaves |-> InsertAt(l.leaves, Leaf(l, l.focused) + 1, s),
                   extra |-> l.extra \cup {s}, focused |-> s]
  <1>1. /\ v \in Views /\ IndexOK(v) /\ v.sessions \in Seq(Session)
        /\ v.tabs # <<>> /\ l \in Layouts /\ Len(v.sessions) = Len(v.tabs)
    BY Fields, EmptySeq DEF Whole, IndexOK
  <1>2. Current(v) \in Session
    BY <1>1, CurrentFacts
  <1>3. g[s] = Current(v) /\ g[s] # NoTab
    BY <1>2, TabsAssumption
  <1>4. \A u \in Session : h[u] # NoTab => g[u] = h[u]
    OBVIOUS
  <1>5. Backed(l) /\ l.extra \subseteq Session /\ \A x \in l.extra : h[x] # NoTab
    BY <1>1, LayoutFields DEF Whole
  <1>6. m \in Layouts /\ Backed(m) /\ m.extra = l.extra \cup {s}
    BY <1>1, <1>5, SplitBacked
  <1> HIDE DEF m
  <1>7. \A x \in m.extra : g[x] # NoTab
    BY <1>3, <1>4, <1>5, <1>6
  <1>8. w = Relaid(v, m, v.sessions)
    BY <1>1 DEF WithSplit, Views, Relaid, m
  <1> HIDE DEF w
  <1>9. Whole(w, g) /\ (Unsaved(v) => Unsaved(w))
        /\ (Placed(v, h) /\ (\A i \in 1 .. Len(v.sessions) : g[v.sessions[i]] = v.tabs[i])
              /\ (\A x \in m.extra : g[x] = Current(v)) => Placed(w, g))
    <2>1. Whole(v, h) /\ v.tabs # <<>> /\ v.sessions \in Seq(Session)
          /\ Len(v.sessions) = Len(v.tabs)
      BY <1>1
    <2>2. Whole(Relaid(v, m, v.sessions), g)
      BY ONLY <1>4, <1>6, <1>7, <2>1, LayoutChanged
    <2>3. Unsaved(v) => Unsaved(Relaid(v, m, v.sessions))
      BY ONLY <1>4, <1>6, <1>7, <2>1, LayoutChanged
    <2>4. Placed(v, h) /\ (\A i \in 1 .. Len(v.sessions) : g[v.sessions[i]] = v.tabs[i])
            /\ (\A x \in m.extra : g[x] = Current(v))
            => Placed(Relaid(v, m, v.sessions), g)
      BY ONLY <1>4, <1>6, <1>7, <2>1, LayoutChanged
    <2>. QED
      BY <1>8, <2>2, <2>3, <2>4
  <1>10. ASSUME Placed(v, h)
         PROVE  /\ \A i \in 1 .. Len(v.sessions) : g[v.sessions[i]] = v.tabs[i]
                /\ \A x \in m.extra : g[x] = Current(v)
    <2>1. \A i \in 1 .. Len(v.sessions) : /\ v.sessions[i] \in Session
                                          /\ h[v.sessions[i]] = v.tabs[i]
                                          /\ v.tabs[i] \in Session
      BY <1>1, <1>10, Fields, ElementOfSeq DEF Placed
    <2>2. \A i \in 1 .. Len(v.sessions) : g[v.sessions[i]] = v.tabs[i]
      BY <1>4, <2>1, TabsAssumption
    <2>3. \A x \in m.extra : g[x] = Current(v)
      BY <1>3, <1>4, <1>5, <1>6, <1>10 DEF Placed
    <2>. QED
      BY <2>2, <2>3
  <1>11. w.layout = m /\ w.sessions = v.sessions /\ w.stored = v.stored
    BY <1>1, <1>8 DEF Views, Relaid
  <1>. QED
    BY <1>6, <1>9, <1>10, <1>11 DEF w

(* The focus moves between the leaves of the layout that is shown.         *)
LEMMA PaneFocused ==
    ASSUME NEW v, NEW h, Whole(v, h), NEW p, p # v.layout.focused,
           \E i \in DOMAIN v.layout.leaves : v.layout.leaves[i] = p
    PROVE  LET w == [v EXCEPT !.layout.focused = p]
           IN  /\ Whole(w, h)
               /\ Unsaved(v) => Unsaved(w)
               /\ Placed(v, h) => Placed(w, h)
               /\ w.layout.extra = v.layout.extra
               /\ w.sessions = v.sessions /\ w.stored = v.stored
  <1> DEFINE w == [v EXCEPT !.layout.focused = p]  l == v.layout
             m == [l EXCEPT !.focused = p]
  <1>1. /\ v \in Views /\ v.sessions \in Seq(Session)
        /\ l \in Layouts /\ Len(v.sessions) = Len(v.tabs)
        /\ Backed(l)
    BY Fields DEF Whole, IndexOK
  <1>2. p \in l.extra \cup {Primary}
    BY <1>1 DEF Backed
  <1>3. v.tabs # <<>>
    <2>1. SUFFICES ASSUME v.tabs = <<>> PROVE FALSE
      OBVIOUS
    <2>2. l = Single
      BY <2>1 DEF Whole
    <2>. QED
      BY <1>2, <2>2, PlainLayouts DEF Single
  <1>4. m \in Layouts /\ m.leaves = l.leaves /\ m.extra = l.extra /\ m.focused = p
    BY <1>1, <1>2, LayoutFields DEF Layouts
  <1>5. w = Relaid(v, m, v.sessions)
    BY <1>1 DEF Views, Relaid
  <1> HIDE DEF m, w, l
  <1>6. Backed(m)
    <2>1. {m.leaves[i] : i \in DOMAIN m.leaves} = m.extra \cup {Primary}
      BY <1>1, <1>4 DEF Backed
    <2>. QED
      BY <1>1, <1>2, <1>4, <2>1 DEF Backed
  <1>7. \A x \in m.extra : h[x] # NoTab
    BY <1>4 DEF Whole, l
  <1>8. Whole(w, h) /\ (Unsaved(v) => Unsaved(w))
        /\ (Placed(v, h) /\ (\A i \in 1 .. Len(v.sessions) : h[v.sessions[i]] = v.tabs[i])
              /\ (\A x \in m.extra : h[x] = Current(v)) => Placed(w, h))
    BY <1>1, <1>3, <1>4, <1>5, <1>6, <1>7, LayoutChanged
  <1>9. Placed(v, h) => Placed(w, h)
    BY <1>1, <1>3, <1>4, <1>8 DEF Placed, l
  <1>10. w.layout = m /\ w.sessions = v.sessions /\ w.stored = v.stored
    BY <1>1, <1>5 DEF Views, Relaid
  <1>. QED
    BY <1>4, <1>8, <1>9, <1>10 DEF w, l

(* The session that takes the place of the primary one is of the same tab. *)
LEMMA PaneClosed ==
    ASSUME NEW v, NEW h, Whole(v, h), Len(v.layout.leaves) > 1
    PROVE  LET w == WithoutSplit(v)
           IN  /\ Whole(w, h)
               /\ Unsaved(v) => Unsaved(w)
               /\ Placed(v, h) => Placed(w, h)
  <1> DEFINE w == WithoutSplit(v)  l == v.layout
             at == IF l.focused = Primary THEN FirstExtra(l) ELSE Leaf(l, l.focused)
             gone == l.leaves[at]
             m == [leaves |-> RemoveAt(l.leaves, at), extra |-> l.extra \ {gone},
                   focused |-> Primary]
             q == IF l.focused = Primary THEN [v.sessions EXCEPT ![v.active + 1] = gone]
                  ELSE v.sessions
  <1>1. /\ v \in Views /\ IndexOK(v) /\ v.sessions \in Seq(Session)
        /\ l \in Layouts /\ Len(v.sessions) = Len(v.tabs) /\ Backed(l)
    BY Fields DEF Whole, IndexOK
  <1>2. v.tabs # <<>>
    <2>1. SUFFICES ASSUME v.tabs = <<>> PROVE FALSE
      OBVIOUS
    <2>2. l.leaves = <<Primary>>
      BY <2>1 DEF Whole, Single
    <2>. QED
      BY <2>2
  <1>3. m \in Layouts /\ Backed(m) /\ gone \in l.extra /\ m.extra = l.extra \ {gone}
    BY <1>1, UnsplitBacked
  <1>4. w = Relaid(v, m, q)
    BY DEF WithoutSplit, Relaid
  <1>5. gone \in Session
    BY <1>1, <1>3, LayoutFields
  <1> HIDE DEF m, gone, w
  <1>6. v.active + 1 \in 1 .. Len(v.sessions)
    BY <1>1, <1>2, CurrentFacts
  <1>7. /\ q \in Seq(Session) /\ Len(q) = Len(v.sessions)
        /\ \A i \in 1 .. Len(v.sessions) :
             q[i] = v.sessions[i] \/ (i = v.active + 1 /\ q[i] = gone)
    <2>1. /\ [v.sessions EXCEPT ![v.active + 1] = gone] \in Seq(Session)
          /\ Len([v.sessions EXCEPT ![v.active + 1] = gone]) = Len(v.sessions)
          /\ \A j \in 1 .. Len(v.sessions) :
               [v.sessions EXCEPT ![v.active + 1] = gone][j]
                 = IF j = v.active + 1 THEN gone ELSE v.sessions[j]
      BY <1>1, <1>5, <1>6, ExceptSeq
    <2>2. CASE l.focused = Primary
      <3>1. q = [v.sessions EXCEPT ![v.active + 1] = gone]
        BY <2>2
      <3> HIDE DEF q
      <3>. QED
        BY <2>1, <3>1
    <2>3. CASE l.focused # Primary
      <3>1. q = v.sessions
        BY <2>3
      <3> HIDE DEF q
      <3>. QED
        BY <1>1, <3>1
    <2>. QED
      BY <2>2, <2>3
  <1> HIDE DEF q
  <1>8. \A x \in m.extra : h[x] # NoTab
    BY <1>3 DEF Whole
  <1>9. Whole(w, h) /\ (Unsaved(v) => Unsaved(w))
        /\ (Placed(v, h) /\ (\A i \in 1 .. Len(q) : h[q[i]] = v.tabs[i])
              /\ (\A x \in m.extra : h[x] = Current(v)) => Placed(w, h))
    BY <1>1, <1>2, <1>3, <1>4, <1>7, <1>8, LayoutChanged
  <1>10. ASSUME Placed(v, h)
         PROVE  /\ \A i \in 1 .. Len(q) : h[q[i]] = v.tabs[i]
                /\ \A x \in m.extra : h[x] = Current(v)
    BY <1>1, <1>3, <1>7, <1>10 DEF Placed, Current
  <1>. QED
    BY <1>9, <1>10 DEF w

(* A view without tabs.                                                    *)
LEMMA EmptyView ==
    ASSUME NEW h
    PROVE  Whole(Empty, h) /\ Placed(Empty, h) /\ Unsaved(Empty)
  <1>3. <<>> \in Seq(Session) /\ Len(<<>>) = 0
    OBVIOUS
  <1>4. Empty \in Views /\ IndexOK(Empty)
    BY <1>3, PlainLayouts DEF Empty, Views, IndexOK
  <1>5. \A t \in Session : NoneStored[t] = NoLayout
    BY DEF NoneStored
  <1>6. Whole(Empty, h)
    BY <1>3, <1>4, <1>5, PlainLayouts DEF Whole, Distinct, Empty
  <1>7. Placed(Empty, h) /\ Unsaved(Empty)
    BY <1>3, <1>5, PlainLayouts DEF Placed, Unsaved, Empty
  <1>. QED
    BY <1>6, <1>7

LEMMA TabsInvInit == TabsInit => TabsInv
  BY EmptyView DEF TabsInit, TabsInv

(* The gestures.                                                           *)
LEMMA TabsNextParts ==
    ASSUME TabsNext
    PROVE  \/ \E t \in Session : CloseTab(t)
           \/ \E t \in Session : CloseTabsToLeft(t)
           \/ \E t \in Session : CloseTabsToRight(t)
           \/ CloseAllSessions
           \/ CloseSplit
           \/ \E s \in Session : AddSession(s)
           \/ \E s \in Session : Split(s)
           \/ \E s \in Session : SelectTab(s)
           \/ \E p \in Session \cup {Primary} : FocusPane(p)
  BY DEF TabsNext, Closing

(* A gesture that is noted stays noted.                                    *)
LEMMA NotingFacts ==
    ASSUME NEW g \in Irregular, NEW applies, Noting(g, applies), made \subseteq Irregular
    PROVE  /\ made \subseteq made' /\ made' \subseteq Irregular
           /\ applies => g \in made'
  BY DEF Noting

(* A run of tabs after position p is closed; if one of them stood before   *)
(* the active tab, that is noted.                                          *)
LEMMA RunStep ==
    ASSUME TabsInv, NEW p \in 0 .. Len(view.tabs), NEW m \in 0 .. Len(view.tabs), p <= m,
           view' = WithoutTabs(view, SubSeq(view.tabs, p + 1, m)), home' = home,
           made \subseteq made', made' \subseteq Irregular,
           p < m /\ p < view.active => "close before active" \in made'
    PROVE  TabsInv'
  <1> DEFINE ids == SubSeq(view.tabs, p + 1, m)  w == WithoutTabs(view, ids)
  <1>1. Whole(view, home) /\ view.tabs \in Seq(Session) /\ Len(view.tabs) \in Nat
        /\ view.active \in Nat
    BY Fields DEF TabsInv, Whole
  <1>2. p \in Nat /\ m \in Nat /\ p <= Len(view.tabs) /\ m <= Len(view.tabs)
    <2> DEFINE L == Len(view.tabs)
    <2>1. L \in Nat /\ p \in 0 .. L /\ m \in 0 .. L
      BY <1>1
    <2> HIDE DEF L
    <2>2. p \in Nat /\ m \in Nat /\ p <= L /\ m <= L
      BY ONLY <2>1
    <2>. QED
      BY ONLY <2>2 DEF L
  <1>3. /\ ids \in Seq(Session) /\ Len(ids) = m - p
        /\ \A i \in 1 .. m - p : ids[i] = view.tabs[p + i]
    <2> DEFINE q == view.tabs  L == Len(q)
    <2>1. L \in Nat /\ p \in Nat /\ m \in Nat /\ p <= L /\ m <= L /\ p <= m
      BY <1>1, <1>2
    <2> HIDE DEF L
    <2>2. p + 1 \in 1 .. L + 1 /\ m \in 0 .. L /\ p + 1 <= m + 1
      BY ONLY <2>1
    <2>3. /\ SubSeq(q, p + 1, m) \in Seq(Session)
          /\ Len(SubSeq(q, p + 1, m)) = m - (p + 1) + 1
          /\ \A i \in 1 .. m - (p + 1) + 1 : SubSeq(q, p + 1, m)[i] = q[(p + 1) + i - 1]
      <3>1. q \in Seq(Session)
        BY <1>1
      <3> HIDE DEF q
      <3>. QED
        BY <2>2, <3>1, PartOf DEF L
    <2> HIDE DEF q
    <2>4. m - (p + 1) + 1 = m - p /\ \A i \in 1 .. m - p : (p + 1) + i - 1 = p + i
      BY ONLY <2>1
    <2>. QED
      BY ONLY <2>3, <2>4 DEF ids, q
  <1> HIDE DEF ids
  <1>4. view' = w
    BY DEF ids
  <1>5. Len(ids) <= Len(view.tabs) - p
    <2> DEFINE L == Len(view.tabs)  k == Len(ids)
    <2>1. L \in Nat /\ p \in Nat /\ m \in Nat /\ m <= L /\ k = m - p
      BY <1>1, <1>2, <1>3
    <2> HIDE DEF L, k
    <2>2. k <= L - p
      BY ONLY <2>1
    <2>. QED
      BY ONLY <2>2 DEF L, k
  <1>6. \A i \in 1 .. Len(ids) : ids[i] = view.tabs[p + i]
    BY <1>3
  <1>7. /\ Whole(w, home)
        /\ view.active <= p /\ Placed(view, home) => Placed(w, home)
        /\ view.active <= p /\ Unsaved(view) => Unsaved(w)
    BY <1>1, <1>3, <1>5, <1>6, RunClosed
  <1>8. p = m => w = view
    <2>1. SUFFICES ASSUME p = m PROVE w = view
      OBVIOUS
    <2>2. Len(ids) = 0
      <3>1. p \in Nat /\ m = p /\ Len(ids) = m - p
        BY <1>2, <1>3, <2>1
      <3>. QED
        BY ONLY <3>1
    <2>3. ids \in Seq(Session)
      BY <1>3
    <2>4. PICK after :
            /\ after[0] = view
            /\ \A k \in 1 .. Len(ids) : after[k] = WithoutTab(after[k - 1], ids[k])
            /\ w = after[Len(ids)]
      BY <2>3, ClosingUnfolds
    <2>. QED
      BY <2>2, <2>4
  <1> HIDE DEF w
  <1>9. made' \subseteq {"reselect"} => p = m \/ view.active <= p
    <2> DEFINE a == view.active
    <2>1. p \in Nat /\ m \in Nat /\ p <= m /\ a \in Nat
      BY <1>1, <1>2
    <2>2. made' \subseteq {"reselect"} => ~(p < m /\ p < a)
      OBVIOUS
    <2> HIDE DEF a
    <2>3. (p < m /\ p < a) \/ p = m \/ a <= p
      BY ONLY <2>1
    <2>. QED
      BY ONLY <2>2, <2>3 DEF a
  <1>10. made' \subseteq {"reselect"} => Placed(w, home)
    BY <1>7, <1>8, <1>9 DEF TabsInv
  <1>11. made' = {} => Unsaved(w)
    BY <1>7, <1>8, <1>9 DEF TabsInv
  <1>. QED
    BY <1>4, <1>7, <1>10, <1>11 DEF TabsInv

(* Every gesture keeps the invariant.                                      *)
LEMMA TabsInvStep == TabsInv /\ [TabsNext]_tabVars => TabsInv'
  <1>1. SUFFICES ASSUME TabsInv, [TabsNext]_tabVars PROVE TabsInv'
    OBVIOUS
  <1>2. /\ home \in [Session -> Session \cup {NoTab}] /\ made \subseteq Irregular
        /\ Whole(view, home) /\ view \in Views /\ IndexOK(view)
        /\ view.tabs \in Seq(Session) /\ Len(view.tabs) \in Nat
        /\ view.active \in Nat
    BY <1>1, Fields DEF TabsInv, Whole
  <1>3. ASSUME UNCHANGED tabVars PROVE TabsInv'
    BY <1>1, <1>3 DEF tabVars, TabsInv
  <1>4. ASSUME NEW t \in Session, CloseTab(t) PROVE TabsInv'
    <2>1. IsTab(view, t) /\ view' = WithoutTab(view, t) /\ home' = home
      BY <1>4 DEF CloseTab
    <2>2. /\ made \subseteq made' /\ made' \subseteq Irregular
          /\ Position(view, t) < view.active + 1 => "close before active" \in made'
      <3>1. Noting("close before active", Position(view, t) < view.active + 1)
        BY <1>4 DEF CloseTab
      <3>2. "close before active" \in Irregular
        BY DEF Irregular
      <3>. QED
        BY <1>2, <3>1, <3>2, NotingFacts
    <2>3. Position(view, t) \in 1 .. Len(view.tabs)
      BY <1>2, <2>1, PositionFacts
    <2>4. made' \subseteq {"reselect"} => Position(view, t) >= view.active + 1
      <3> DEFINE p == Position(view, t)  a == view.active
      <3>1. p \in Nat /\ a \in Nat
        BY <1>2, <2>3
      <3>2. made' \subseteq {"reselect"} => ~(p < a + 1)
        BY <2>2
      <3> HIDE DEF p, a
      <3>3. p < a + 1 \/ p >= a + 1
        BY ONLY <3>1
      <3>. QED
        BY ONLY <3>2, <3>3 DEF p, a
    <2>5. Whole(view', home')
      BY <1>2, <2>1, WholeClosed
    <2>6. made' \subseteq {"reselect"} => Placed(view', home')
      BY <1>1, <1>2, <2>1, <2>2, <2>4, PlacedClosed DEF TabsInv
    <2>7. made' = {} => Unsaved(view')
      BY <1>1, <1>2, <2>1, <2>2, <2>4, UnsavedClosed DEF TabsInv
    <2>. QED
      BY <1>2, <2>1, <2>2, <2>5, <2>6, <2>7 DEF TabsInv
  <1>5. ASSUME NEW t \in Session, CloseTabsToLeft(t) PROVE TabsInv'
    <2> DEFINE m == Position(view, t) - 1
    <2>1. IsTab(view, t) /\ home' = home
          /\ view' = WithoutTabs(view, SubSeq(view.tabs, 1, m))
      BY <1>5 DEF CloseTabsToLeft
    <2>2. /\ made \subseteq made' /\ made' \subseteq Irregular
          /\ Position(view, t) > 1 /\ view.active > 0 => "close before active" \in made'
      <3>1. Noting("close before active", Position(view, t) > 1 /\ view.active > 0)
        BY <1>5 DEF CloseTabsToLeft
      <3>2. "close before active" \in Irregular
        BY DEF Irregular
      <3>. QED
        BY <1>2, <3>1, <3>2, NotingFacts
    <2>3. Position(view, t) \in 1 .. Len(view.tabs)
      BY <1>2, <2>1, PositionFacts
    <2>4. 0 \in 0 .. Len(view.tabs) /\ m \in 0 .. Len(view.tabs) /\ 0 <= m
      BY <1>2, <2>3
    <2>5. 0 < m /\ 0 < view.active => "close before active" \in made'
      <3>1. 0 < m => Position(view, t) > 1
        BY <1>2, <2>3
      <3>2. 0 < view.active => view.active > 0
        BY <1>2
      <3>. QED
        BY <2>2, <3>1, <3>2
    <2>6. view' = WithoutTabs(view, SubSeq(view.tabs, 0 + 1, m))
      BY <2>1
    <2> HIDE DEF m
    <2>. QED
      BY <1>1, <2>1, <2>2, <2>4, <2>5, <2>6, RunStep
  <1>6. ASSUME NEW t \in Session, CloseTabsToRight(t) PROVE TabsInv'
    <2> DEFINE p == Position(view, t)
    <2>1. IsTab(view, t) /\ home' = home
          /\ view' = WithoutTabs(view, SubSeq(view.tabs, p + 1, Len(view.tabs)))
      BY <1>6 DEF CloseTabsToRight
    <2>2. /\ made \subseteq made' /\ made' \subseteq Irregular
          /\ p < view.active => "close before active" \in made'
      <3>1. Noting("close before active", p < view.active)
        BY <1>6 DEF CloseTabsToRight
      <3>2. "close before active" \in Irregular
        BY DEF Irregular
      <3>. QED
        BY <1>2, <3>1, <3>2, NotingFacts
    <2>3. p \in 1 .. Len(view.tabs)
      BY <1>2, <2>1, PositionFacts
    <2> HIDE DEF p
    <2>4. p \in 0 .. Len(view.tabs) /\ Len(view.tabs) \in 0 .. Len(view.tabs)
          /\ p <= Len(view.tabs)
      BY <1>2, <2>3
    <2>. QED
      BY <1>1, <2>1, <2>2, <2>4, RunStep
  <1>7. ASSUME CloseAllSessions PROVE TabsInv'
    BY <1>2, <1>7, EmptyView DEF CloseAllSessions, TabsInv
  <1>8. ASSUME CloseSplit PROVE TabsInv'
    <2>1. /\ view' = WithoutSplit(view) /\ home' = home /\ made' = made
          /\ Len(view.layout.leaves) > 1
      BY <1>8 DEF CloseSplit
    <2>. QED
      BY <1>1, <1>2, <2>1, PaneClosed DEF TabsInv
  <1>9. ASSUME NEW s \in Session, AddSession(s) PROVE TabsInv'
    <2>1. /\ view' = WithTab(view, s) /\ made' = made /\ home[s] = NoTab
          /\ home' = [home EXCEPT ![s] = s]
      BY <1>9 DEF AddSession
    <2>2. home' \in [Session -> Session \cup {NoTab}]
      BY <1>2, <2>1
    <2>3. /\ Whole(view', home') /\ Unsaved(view')
          /\ Placed(view, home) => Placed(view', home')
      BY <1>2, <2>1, TabAdded
    <2>. QED
      BY <1>1, <2>1, <2>2, <2>3 DEF TabsInv
  <1>10. ASSUME NEW s \in Session, Split(s) PROVE TabsInv'
    <2>1. /\ view' = WithSplit(view, s) /\ made' = made /\ home[s] = NoTab
          /\ view.sessions # <<>>
          /\ home' = [home EXCEPT ![s] = Current(view)]
      BY <1>10 DEF Split
    <2>2. home' \in [Session -> Session \cup {NoTab}]
      <3>1. view.tabs # <<>>
        BY <1>2, <2>1, Fields, EmptySeq DEF IndexOK
      <3>2. Current(view) \in Session
        BY <1>2, <3>1, CurrentFacts
      <3>. QED
        BY <1>2, <2>1, <3>2
    <2>3. /\ Whole(view', home') /\ (Unsaved(view) => Unsaved(view'))
          /\ Placed(view, home) => Placed(view', home')
      BY <1>2, <2>1, PaneSplit
    <2>. QED
      BY <1>1, <2>1, <2>2, <2>3 DEF TabsInv
  <1>11. ASSUME NEW t \in Session, SelectTab(t) PROVE TabsInv'
    <2>1. view' = WithSelected(view, t) /\ home' = home /\ home[t] # NoTab
      BY <1>11 DEF SelectTab
    <2>2. /\ made \subseteq made' /\ made' \subseteq Irregular
          /\ ~IsTab(view, t) => "select missing" \in made'
      <3>1. "reselect" \in Irregular /\ "select missing" \in Irregular
        BY DEF Irregular
      <3>2. \/ IsTab(view, t) /\ Noting("reselect", Current(view) = t)
            \/ ~IsTab(view, t) /\ Noting("select missing", TRUE)
        BY <1>11 DEF SelectTab
      <3>. QED
        BY <1>2, <3>1, <3>2, NotingFacts
    <2>3. /\ Whole(view', home')
          /\ IsTab(view, t) => Unsaved(view')
          /\ IsTab(view, t) /\ Placed(view, home) => Placed(view', home')
      BY <1>2, <2>1, TabSelected
    <2>4. made' \subseteq {"reselect"} => IsTab(view, t)
      BY <2>2
    <2>. QED
      BY <1>1, <1>2, <2>1, <2>2, <2>3, <2>4 DEF TabsInv
  <1>12. ASSUME NEW p \in Session \cup {Primary}, FocusPane(p) PROVE TabsInv'
    <2>1. /\ view' = [view EXCEPT !.layout.focused = p] /\ home' = home /\ made' = made
          /\ p # view.layout.focused
          /\ \E i \in DOMAIN view.layout.leaves : view.layout.leaves[i] = p
      BY <1>12 DEF FocusPane
    <2>2. /\ Whole(view', home) /\ (Unsaved(view) => Unsaved(view'))
          /\ Placed(view, home) => Placed(view', home)
      BY <1>2, <2>1, PaneFocused
    <2>. QED
      BY <1>1, <2>1, <2>2 DEF TabsInv
  <1>. QED
    BY <1>1, <1>3, <1>4, <1>5, <1>6, <1>7, <1>8, <1>9, <1>10, <1>11, <1>12, TabsNextParts

(* Every reachable view satisfies the invariant.                           *)
THEOREM TabsInvariant == TabsSpec => []TabsInv
  BY TabsInvInit, TabsInvStep, PTL DEF TabsSpec

(* However tabs are opened and closed, singly or in runs, the vectors of tabs *)
(* and primary sessions stay parallel and the active index points into them *)
(* (terminal_view.rs:552-674).                                             *)
THEOREM TabTypes == TabsSpec => []TabsTypeOK
  <1>1. TabsInv => TabsTypeOK
    BY DEF TabsInv, Whole, TabsTypeOK
  <1>. QED
    BY <1>1, TabsInvariant, PTL

(* In every layout, shown or put aside, each leaf has its session, and the *)
(* focus is on a leaf (terminal_view.rs:4345-4445).                        *)
THEOREM PanesBacked == TabsSpec => []PanesAreBacked
  <1>1. TabsInv => PanesAreBacked
    BY DEF TabsInv, Whole, PanesAreBacked
  <1>. QED
    BY <1>1, TabsInvariant, PTL

(* Unless a tab before the active one was closed or a session without a tab *)
(* selected, every pane is in the tab it was opened in, and the active tab is *)
(* the one that is marked (terminal_view.rs:552-727).                      *)
THEOREM PanesAtHome == TabsSpec => []PanesStayInTheirTab
  <1>1. TabsInv => PanesStayInTheirTab
    <2>1. SUFFICES ASSUME TabsInv PROVE PanesStayInTheirTab
      OBVIOUS
    <2>2. DOMAIN view.tabs = 1 .. Len(view.tabs)
      BY <2>1, Fields DEF TabsInv, Whole
    <2>. QED
      BY <2>1, <2>2 DEF TabsInv, Placed, PanesStayInTheirTab
  <1>. QED
    BY <1>1, TabsInvariant, PTL

(* In a view that saw no irregular gesture, opening, splitting, focusing and *)
(* switching end no terminal (terminal_view.rs:552-594, 700-727).          *)
THEOREM RegularUseKeeps == TabsSpec => RegularUseKeepsPanes
  <1>1. ASSUME TabsInv, TabsInv', TabsNext, made' = {}
        PROVE  Closing \/ Held(view) \subseteq Held(view')
    <2>1. /\ home \in [Session -> Session \cup {NoTab}] /\ Whole(view, home)
          /\ view \in Views /\ view' \in Views
      BY <1>1 DEF TabsInv, Whole
    <2>2. CASE Closing
      BY <2>2
    <2>3. ASSUME NEW s \in Session, AddSession(s)
          PROVE  Held(view) \subseteq Held(view')
      <3>1. view' = WithTab(view, s) /\ made = {} /\ home[s] = NoTab
        BY <1>1, <2>3 DEF AddSession
      <3>2. Unsaved(view)
        BY <1>1, <3>1 DEF TabsInv
      <3>. QED
        BY <2>1, <3>1, <3>2, TabAdded
    <2>4. ASSUME NEW s \in Session, Split(s)
          PROVE  Held(view) \subseteq Held(view')
      <3>1. view' = WithSplit(view, s) /\ home[s] = NoTab /\ view.sessions # <<>>
        BY <2>4 DEF Split
      <3>2. /\ view'.layout.extra = view.layout.extra \cup {s}
            /\ view'.sessions = view.sessions /\ view'.stored = view.stored
        <4> DEFINE g == [home EXCEPT ![s] = Current(view)]
        <4>1. g = [home EXCEPT ![s] = Current(view)]
          OBVIOUS
        <4> HIDE DEF g
        <4>. QED
          BY <2>1, <3>1, <4>1, PaneSplit
      <3>. QED
        BY <3>2 DEF Held
    <2>5. ASSUME NEW t \in Session, SelectTab(t)
          PROVE  Held(view) \subseteq Held(view')
      <3>1. view' = WithSelected(view, t) /\ home[t] # NoTab
        BY <2>5 DEF SelectTab
      <3>2. IsTab(view, t) /\ Current(view) # t /\ made = {}
        BY <1>1, <2>5 DEF SelectTab, Noting
      <3>3. Unsaved(view)
        BY <1>1, <3>2 DEF TabsInv
      <3>. QED
        BY <2>1, <3>1, <3>2, <3>3, TabSelected
    <2>6. ASSUME NEW p \in Session \cup {Primary}, FocusPane(p)
          PROVE  Held(view) \subseteq Held(view')
      <3>1. /\ view' = [view EXCEPT !.layout.focused = p] /\ p # view.layout.focused
            /\ \E i \in DOMAIN view.layout.leaves : view.layout.leaves[i] = p
        BY <2>6 DEF FocusPane
      <3>2. /\ view'.layout.extra = view.layout.extra
            /\ view'.sessions = view.sessions /\ view'.stored = view.stored
        BY <2>1, <3>1, PaneFocused
      <3>. QED
        BY <3>2 DEF Held
    <2>. QED
      BY <1>1, <2>2, <2>3, <2>4, <2>5, <2>6 DEF TabsNext
  <1>2. TabsInv /\ TabsInv' /\ [TabsNext]_tabVars
          => [made' = {} => Closing \/ Held(view) \subseteq Held(view')]_tabVars
    BY <1>1
  <1>. QED
    BY <1>2, TabsInvariant, PTL DEF TabsSpec, RegularUseKeepsPanes
=============================================================================
