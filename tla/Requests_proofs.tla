---------------------------- MODULE Requests_proofs ----------------------------
(***************************************************************************)
(* Proofs about Requests: its type invariant, and its three safety            *)
(* invariants, for any number of requests, imports, animations and sends.      *)
(***************************************************************************)
EXTENDS Requests, TLAPS

Cap == Existing + MaxDrafts

-----------------------------------------------------------------------------
(* The strengthenings.                                                      *)

\* Until an import ends during a send there is one send at most, and the flag stands
\* for it; the request it creates is the one draft that may have been created
\* without its composer knowing.
OneSend ==
  /\ sends # {} => busy
  /\ \A s, t \in sends : s = t
  /\ \A s \in sends : s.kind = "create" =>
        s.for <= draft /\ s.for < Cap /\ made[s.for] = IF s.done THEN 1 ELSE 0
  /\ \A r \in Requests : r >= draft /\ made[r] # 0 =>
        \E s \in sends : s.kind = "create" /\ s.done /\ s.for = r
  /\ OneRequestPerDraft
SendInv == ~unsure => OneSend

\* An import that is not out of date was asked for in the composer it will join, and
\* nothing will empty that composer, unless that was so when it was asked for.
Waits(i) ==
  i.for # None => /\ Steady(i.to)
                  /\ i.for = Shown(i.to) \/ (i.to = "comment" /\ selected = None)
WaitsInv == \A i \in imports : i.fresh => Waits(i)

\* Closing the sheet closes the annotator, so the draft a capture was asked for is
\* overtaken only by a creation, which was sent later.
KeptInv ==
  annotator.to = "new" /\ annotator.for # None =>
    /\ timers = 0 /\ annotator.for <= draft
    /\ \A s \in sends : s.kind = "create" => annotator.for <= s.for

\* A draft that is not the one being created has nothing that was asked for at rest,
\* which the answer of that creation might carry along.
SentInv ==
  \A s \in sends : s.kind = "create" =>
    /\ s.for <= draft /\ s.for < Cap
    /\ "annotator" \notin strays => s.for = draft \/ holds \subseteq {None}

ContentInv == WaitsInv /\ KeptInv /\ SentInv /\ ContentStaysWithItsRequest

-----------------------------------------------------------------------------
(* Types.                                                                   *)

LEMMA StaleType == ASSUME TypeOK PROVE Stale(imports) \subseteq StaleImports
<1>1. ASSUME NEW i \in imports PROVE [NoImport EXCEPT !.stage = i.stage] \in StaleImports
  <2>1. i.stage \in {"dialog", "file", "capture"}
    BY DEF TypeOK, Imports, StaleImports, NoImport
  <2>. QED  BY <2>1 DEF StaleImports
<1>. QED  BY <1>1 DEF Stale

LEMMA FreshType == ASSUME TypeOK, NEW i \in imports, i.fresh PROVE i \in Imports
<1>1. i \notin StaleImports
  BY DEF StaleImports, NoImport
<1>. QED  BY <1>1 DEF TypeOK

LEMMA TypeStep == TypeOK /\ [Next]_vars => TypeOK'
<1>. SUFFICES ASSUME TypeOK, [Next]_vars PROVE TypeOK'
  OBVIOUS
<1>. USE RequestsAssumption DEF TypeOK, newSheet, detailSheet, Requests, None
<1>1. CASE OpenSheet \/ CloseSheet \/ SheetCloses
  <2>1. ASSUME OpenSheet PROVE TypeOK'
    BY <2>1 DEF OpenSheet
  <2>2. ASSUME CloseSheet PROVE TypeOK'
    <3>1. imports' \subseteq Imports \cup StaleImports
      BY <2>2, StaleType DEF CloseSheet
    <3>. QED  BY <2>2, <3>1 DEF CloseSheet
  <2>3. ASSUME SheetCloses PROVE TypeOK'
    <3>1. timers' \in 0..MaxTimers /\ draft' \in Requests
      BY <2>3 DEF SheetCloses, NewDraft
    <3>. QED  BY <2>3, <3>1 DEF SheetCloses
  <2>. QED  BY <1>1, <2>1, <2>2, <2>3
<1>2. CASE CloseDetail \/ DetailCloses \/ Reset \/ \E r \in Requests : Select(r)
  <2>1. ASSUME CloseDetail PROVE TypeOK'
    <3>1. imports' \subseteq Imports \cup StaleImports
      BY <2>1, StaleType DEF CloseDetail
    <3>. QED  BY <2>1, <3>1 DEF CloseDetail
  <2>2. ASSUME DetailCloses PROVE TypeOK'
    <3>1. leaveTimers' \in 0..MaxTimers
      BY <2>2 DEF DetailCloses
    <3>. QED  BY <2>2, <3>1 DEF DetailCloses
  <2>3. ASSUME Reset PROVE TypeOK'
    BY <2>3 DEF Reset
  <2>4. ASSUME NEW r \in Requests, Select(r) PROVE TypeOK'
    <3>1. imports' \subseteq Imports \cup StaleImports
      BY <2>4, StaleType DEF Select
    <3>. QED  BY <2>4, <3>1 DEF Select
  <2>. QED  BY <1>2, <2>1, <2>2, <2>3, <2>4
<1>3. CASE AttachmentNext
  <2>1. ASSUME NEW to \in {"new", "comment"}, NEW stage \in {"dialog", "file", "capture"},
               Ask(to, stage)
        PROVE  TypeOK'
    <3>1. Asked(to) \in Requests \cup {None}
      BY <2>1 DEF Ask, Target, Shown, Asked
    <3>2. [to |-> to, for |-> Asked(to), stage |-> stage, fresh |-> TRUE] \in Imports
      BY <3>1 DEF Imports
    <3>. QED  BY <2>1, <3>2 DEF Ask
  <2>2. ASSUME NEW to \in {"new", "comment"}, Paste(to) PROVE TypeOK'
    BY <2>2 DEF Paste, Target, Shown, Asked, Add
  <2>3. ASSUME NEW i \in imports, DialogAnswered(i) PROVE TypeOK'
    <3>1. i.fresh => [i EXCEPT !.stage = "file"] \in Imports
      BY FreshType DEF Imports
    <3>. QED  BY <2>3, <3>1 DEF DialogAnswered
  <2>4. ASSUME NEW i \in imports, Lands(i) PROVE TypeOK'
    <3>1. i.fresh => i \in Imports /\ i.for \in Requests \cup {None}
      BY FreshType DEF Imports
    <3>2. holds' \subseteq Requests \cup {None} /\ attached' \subseteq Requests \cup {None}
      BY <2>4, <3>1 DEF Lands, Add
    <3>. QED  BY <2>4, <3>1, <3>2 DEF Lands, Freed
  <2>5. ASSUME Annotated PROVE TypeOK'
    BY <2>5 DEF Annotated, Add, Imports
  <2>. QED  BY <1>3, <2>1, <2>2, <2>3, <2>4, <2>5 DEF AttachmentNext
<1>4. CASE Submit \/ Comment
  <2>1. ASSUME NEW new \in Sends, Send(new) PROVE TypeOK'
    <3>1. imports' \subseteq Imports \cup StaleImports
      BY <2>1, StaleType DEF Send
    <3>. QED  BY <2>1, <3>1 DEF Send
  <2>. QED  BY <1>4, <2>1 DEF Submit, Comment, Sends
<1>5. CASE Sending
  <2>1. ASSUME NEW s \in sends, Handled(s) PROVE TypeOK'
    <3>1. s.for \in Requests /\ s.kind \in {"create", "comment"}
      BY DEF Sends
    <3>2. [s EXCEPT !.done = TRUE] \in Sends
      BY DEF Sends
    <3>3. made' \in [Requests -> 0..2]
      BY <2>1, <3>1 DEF Handled
    <3>. QED  BY <2>1, <3>2, <3>3 DEF Handled
  <2>2. ASSUME NEW s \in sends, Created(s) PROVE TypeOK'
    <3>1. draft' \in Requests /\ selected' \in Requests
      BY <2>2 DEF Created, Sends, NewDraft
    <3>. QED  BY <2>2, <3>1 DEF Created
  <2>3. ASSUME NEW s \in sends, Commented(s) \/ SendFails(s) PROVE TypeOK'
    BY <2>3 DEF Commented, SendFails, Sends
  <2>. QED  BY <1>5, <2>1, <2>2, <2>3 DEF Sending
<1>6. CASE UNCHANGED vars
  BY <1>6 DEF vars
<1>. QED  BY <1>1, <1>2, <1>3, <1>4, <1>5, <1>6 DEF Next, SheetNext

\* Every reachable state of the composers has its type.
THEOREM TypeCorrect == Spec => []TypeOK
<1>1. Init => TypeOK
  <2>. SUFFICES ASSUME Init PROVE TypeOK
    OBVIOUS
  <2>1. draft \in Requests /\ made \in [Requests -> 0..2]
    BY RequestsAssumption DEF Init, Requests
  <2>2. timers \in 0..MaxTimers /\ leaveTimers \in 0..MaxTimers
    BY RequestsAssumption DEF Init
  <2>. QED  BY <2>1, <2>2 DEF Init, TypeOK
<1>. QED  BY <1>1, TypeStep, PTL DEF Spec

-----------------------------------------------------------------------------
(* The flag.                                                                *)

LEMMA BusyStep == TypeOK /\ BusyMeansPending /\ [Next]_vars => BusyMeansPending'
<1>. SUFFICES ASSUME TypeOK, BusyMeansPending, [Next]_vars PROVE BusyMeansPending'
  OBVIOUS
<1>. USE DEF BusyMeansPending, newSheet, detailSheet
<1>1. ASSUME imports' = Stale(imports), UNCHANGED <<busy, sends>> PROVE BusyMeansPending'
  <2>1. ASSUME NEW i \in imports, i.stage # "dialog"
        PROVE  \E k \in Stale(imports) : k.stage # "dialog"
    <3>1. [NoImport EXCEPT !.stage = i.stage] \in Stale(imports)
      BY DEF Stale
    <3>2. [NoImport EXCEPT !.stage = i.stage].stage = i.stage
      BY DEF NoImport
    <3>. QED  BY <2>1, <3>1, <3>2
  <2>. QED  BY <1>1, <2>1
<1>2. CASE SheetNext
  <2>1. \/ UNCHANGED <<imports, busy, sends>>
        \/ imports' = Stale(imports) /\ UNCHANGED <<busy, sends>>
    BY <1>2 DEF SheetNext, OpenSheet, CloseSheet, SheetCloses, CloseDetail, DetailCloses,
                Reset, Select
  <2>. QED  BY <1>1, <2>1
<1>3. CASE AttachmentNext
  <2>1. ASSUME NEW to \in {"new", "comment"}, NEW stage \in {"dialog", "file", "capture"},
               Ask(to, stage)
        PROVE  BusyMeansPending'
    <3>1. CASE stage = "dialog"
      BY <2>1, <3>1 DEF Ask, TypeOK
    <3>2. CASE stage # "dialog"
      <4>. DEFINE new == [to |-> to, for |-> Asked(to), stage |-> stage, fresh |-> TRUE]
      <4>1. new \in imports' /\ new.stage = stage
        BY <2>1 DEF Ask
      <4>. QED  BY <3>2, <4>1
    <3>. QED  BY <3>1, <3>2
  <2>2. ASSUME NEW to \in {"new", "comment"}, Paste(to) PROVE BusyMeansPending'
    BY <2>2 DEF Paste
  <2>3. ASSUME NEW i \in imports, DialogAnswered(i) PROVE BusyMeansPending'
    <3>1. [i EXCEPT !.stage = "file"].stage = "file"
      BY DEF TypeOK, Imports, StaleImports, NoImport
    <3>. QED  BY <2>3, <3>1 DEF DialogAnswered
  <2>4. ASSUME NEW i \in imports, Lands(i) PROVE BusyMeansPending'
    BY <2>4 DEF Lands, Freed
  <2>5. ASSUME Annotated PROVE BusyMeansPending'
    BY <2>5 DEF Annotated
  <2>. QED  BY <1>3, <2>1, <2>2, <2>3, <2>4, <2>5 DEF AttachmentNext
<1>4. CASE Submit \/ Comment
  BY <1>4 DEF Submit, Comment, Send
<1>5. CASE Sending
  BY <1>5 DEF Sending, Handled, Created, Commented, SendFails
<1>6. CASE UNCHANGED vars
  BY <1>6 DEF vars
<1>. QED  BY <1>2, <1>3, <1>4, <1>5, <1>6 DEF Next

\* The flag that blocks the composers is set only while something is under way whose
\* end clears it.
THEOREM FlagIsCleared == Spec => []BusyMeansPending
<1>1. Init => BusyMeansPending
  BY DEF Init, BusyMeansPending
<1>. QED  BY <1>1, BusyStep, TypeCorrect, PTL DEF Spec

-----------------------------------------------------------------------------
(* One request for one draft.                                               *)

LEMMA SendStep == TypeOK /\ SendInv /\ [Next]_vars => SendInv'
<1>. SUFFICES ASSUME TypeOK, SendInv, [Next]_vars, ~unsure' PROVE OneSend'
  BY DEF SendInv
<1>0. ~unsure
  <2>. SUFFICES ASSUME unsure PROVE unsure'
    OBVIOUS
  <2>1. CASE SheetNext
    BY <2>1 DEF SheetNext, OpenSheet, CloseSheet, SheetCloses, CloseDetail, DetailCloses,
                Reset, Select
  <2>2. CASE AttachmentNext
    BY <2>2 DEF AttachmentNext, Ask, Paste, DialogAnswered, Lands, Annotated
  <2>3. CASE Submit \/ Comment \/ Sending
    BY <2>3 DEF Submit, Comment, Send, Sending, Handled, Created, Commented, SendFails
  <2>4. CASE UNCHANGED vars
    BY <2>4 DEF vars
  <2>. QED  BY <2>1, <2>2, <2>3, <2>4 DEF Next
<1>. USE <1>0 DEF SendInv
<1>. USE RequestsAssumption DEF Requests, newSheet, detailSheet
<1>1. NewDraft >= draft /\ (draft < Cap => NewDraft = draft + 1)
  BY DEF NewDraft, TypeOK, Cap
\* What moves the draft on, or leaves it, with the sends and the flag as they are.
<1>2. ASSUME draft' >= draft, draft' \in Requests, UNCHANGED <<sends, made>>,
             sends # {} => busy'
      PROVE  OneSend'
  BY <1>2 DEF OneSend, OneRequestPerDraft, TypeOK, Sends
<1>3. CASE SheetNext
  <2>1. draft' \in {draft, NewDraft} /\ UNCHANGED <<sends, made, busy>>
    BY <1>3 DEF SheetNext, OpenSheet, CloseSheet, SheetCloses, CloseDetail, DetailCloses,
                Reset, Select
  <2>2. draft' >= draft /\ draft' \in Requests
    BY <1>1, <2>1 DEF TypeOK, NewDraft
  <2>. QED  BY <1>2, <2>1, <2>2 DEF OneSend
<1>4. CASE AttachmentNext
  <2>1. UNCHANGED <<draft, sends, made>>
    BY <1>4 DEF AttachmentNext, Ask, Paste, DialogAnswered, Lands, Annotated
  <2>2. sends # {} => busy'
    BY <1>4 DEF OneSend, AttachmentNext, Ask, Paste, DialogAnswered, Lands, Annotated
  <2>3. draft >= draft
    BY DEF TypeOK
  <2>. QED  BY <1>2, <2>1, <2>2, <2>3 DEF TypeOK
<1>5. CASE Submit \/ Comment
  <2>1. PICK new \in Sends : /\ Send(new) /\ ~new.done
                             /\ new.kind = "create" => new.for = draft /\ draft < Cap
    <3>1. CASE Submit
      <4>1. [kind |-> "create", for |-> draft, done |-> FALSE] \in Sends
        BY DEF Sends, TypeOK
      <4>. QED  BY <3>1, <4>1 DEF Submit, Cap
    <3>2. CASE Comment
      <4>1. [kind |-> "comment", for |-> selected, done |-> FALSE] \in Sends
        BY <3>2 DEF Comment, Sends, TypeOK
      <4>. QED  BY <3>2, <4>1 DEF Comment
    <3>. QED  BY <1>5, <3>1, <3>2
  <2>2. sends = {} /\ sends' = {new} /\ busy' /\ UNCHANGED <<draft, made>>
    BY <2>1 DEF Send, MaySend, OneSend
  <2>. QED  BY <2>1, <2>2 DEF OneSend, OneRequestPerDraft, TypeOK
<1>6. CASE Sending
  <2>. PICK s \in sends : Handled(s) \/ Created(s) \/ Commented(s) \/ SendFails(s)
    BY <1>6 DEF Sending
  <2>1. sends = {s} /\ busy /\ s.for \in Requests /\ s.kind \in {"create", "comment"}
    BY DEF OneSend, TypeOK, Sends
  <2>2. CASE Handled(s)
    <3>. DEFINE t == [s EXCEPT !.done = TRUE]
    <3>1. t.kind = "create" /\ t.done /\ t.for = s.for
      BY <2>2 DEF Handled, TypeOK, Sends
    <3>2. sends' = {t} /\ busy' /\ UNCHANGED draft
      BY <2>1, <2>2 DEF Handled
    <3>3. made' = [made EXCEPT ![s.for] = 1] /\ s.for <= draft /\ s.for < Cap
      BY <2>1, <2>2 DEF Handled, OneSend
    <3>. HIDE DEF t
    <3>. QED  BY <2>1, <3>1, <3>2, <3>3 DEF OneSend, OneRequestPerDraft, TypeOK
  <2>3. CASE Created(s)
    <3>1. sends' = {} /\ UNCHANGED made /\ draft' = NewDraft /\ s.kind = "create"
      BY <2>1, <2>3 DEF Created
    <3>2. s.for <= draft /\ s.for < Cap /\ draft' > s.for
      BY <1>1, <2>1, <3>1 DEF OneSend, TypeOK, NewDraft, Cap
    <3>3. ASSUME NEW r \in Requests, r >= draft', made[r] # 0 PROVE FALSE
      <4>1. r >= draft
        BY <1>1, <3>1, <3>3 DEF TypeOK, NewDraft
      <4>2. r = s.for
        BY <2>1, <3>3, <4>1 DEF OneSend
      <4>3. draft' \in Requests
        BY <3>1 DEF TypeOK, NewDraft
      <4>. QED  BY <3>2, <3>3, <4>2, <4>3
    <3>. QED  BY <3>1, <3>3 DEF OneSend, OneRequestPerDraft
  <2>4. CASE Commented(s) \/ SendFails(s)
    <3>1. sends' = {} /\ UNCHANGED <<draft, made>> /\ ~(s.kind = "create" /\ s.done)
      BY <2>1, <2>4 DEF Commented, SendFails
    <3>. QED  BY <2>1, <3>1 DEF OneSend, OneRequestPerDraft
  <2>. QED  BY <2>2, <2>3, <2>4
<1>7. CASE UNCHANGED vars
  BY <1>7 DEF vars, OneSend, OneRequestPerDraft
<1>. QED  BY <1>3, <1>4, <1>5, <1>6, <1>7 DEF Next

\* A draft becomes one request, while creations are acknowledged and no import ends
\* during one.
THEOREM DraftsBecomeOne == Spec => []OneRequestPerDraft
<1>1. Init => SendInv
  <2>. SUFFICES ASSUME Init PROVE OneSend
    BY DEF SendInv
  <2>. QED  BY RequestsAssumption DEF Init, OneSend, OneRequestPerDraft, Requests
<1>2. SendInv => OneRequestPerDraft
  BY DEF SendInv, OneSend, OneRequestPerDraft
<1>. QED  BY <1>1, <1>2, SendStep, TypeCorrect, PTL DEF Spec

-----------------------------------------------------------------------------
(* Attachments.                                                             *)

LEMMA ContentStep == TypeOK /\ ContentInv /\ [Next]_vars => ContentInv'
<1>. SUFFICES ASSUME TypeOK, ContentInv, [Next]_vars PROVE ContentInv'
  OBVIOUS
<1>. USE RequestsAssumption DEF Requests, None, newSheet, detailSheet
\* The parts the steps are checked for.
<1>1. /\ WaitsInv /\ KeptInv /\ SentInv
      /\ "annotator" \notin strays => holds \subseteq {draft, None}
      /\ strays = {} /\ selected # None => attached \subseteq {selected, None}
  BY DEF ContentInv, ContentStaysWithItsRequest
<1>2. ASSUME /\ WaitsInv' /\ KeptInv' /\ SentInv'
             /\ "annotator" \notin strays' => holds' \subseteq {draft', None}
             /\ strays' = {} /\ selected' # None => attached' \subseteq {selected', None}
      PROVE  ContentInv'
  BY <1>2 DEF ContentInv, ContentStaysWithItsRequest, WaitsInv, Waits
<1>3. \A i \in Stale(imports) : ~i.fresh
  BY DEF Stale, NoImport
<1>4. ASSUME NEW i \in imports, i.fresh
      PROVE  i \in Imports /\ i.for \in Requests \cup {None} /\ i.to \in {"new", "comment"}
  <2>1. i \in Imports
    BY <1>4, FreshType
  <2>. QED  BY <2>1 DEF Imports
<1>5. /\ annotator # NoImport =>
           annotator.for \in Requests \cup {None} /\ annotator.to \in {"new", "comment"}
      /\ NoImport.to = "none"
  BY DEF TypeOK, Imports, NoImport
\* What leaves the draft, the sends and their answers alone.
<1>6. ASSUME UNCHANGED <<draft, sends, holds, strays>>
      PROVE  SentInv' /\ ("annotator" \notin strays' => holds' \subseteq {draft', None})
  BY <1>1, <1>6 DEF SentInv
<1>7. ASSUME UNCHANGED <<draft, sends, timers, annotator>> PROVE KeptInv'
  BY <1>1, <1>7 DEF KeptInv
<1>8. ASSUME imports' \subseteq imports, UNCHANGED <<draft, sends, timers, leaveTimers>>,
             selected' \in {selected, None}
      PROVE  WaitsInv'
  <2>. SUFFICES ASSUME NEW i \in imports, i.fresh PROVE Waits(i)'
    BY <1>8 DEF WaitsInv
  <2>1. Waits(i) /\ i.to \in {"new", "comment"}
    BY <1>1, <1>4 DEF WaitsInv
  <2>. QED  BY <1>8, <2>1 DEF Waits, Steady, Shown
<1>9. CASE OpenSheet \/ Reset
  <2>1. /\ UNCHANGED <<draft, timers, holds, leaveTimers, attached, imports, annotator, sends, strays>>
        /\ selected' \in {selected, None}
    BY <1>9 DEF OpenSheet, Reset
  <2>. QED  BY <1>1, <1>2, <1>6, <1>7, <1>8, <2>1
<1>10. CASE CloseSheet \/ CloseDetail
  <2>1. /\ imports' = Stale(imports) /\ annotator' = NoImport
        /\ UNCHANGED <<draft, sends, holds, strays, selected, attached>>
    BY <1>10 DEF CloseSheet, CloseDetail
  <2>2. WaitsInv' /\ KeptInv'
    BY <1>3, <1>5, <2>1 DEF WaitsInv, KeptInv
  <2>. QED  BY <1>1, <1>2, <1>6, <2>1, <2>2
<1>11. CASE SheetCloses
  <2>1. timers > 0 /\ NewDraft >= draft /\ draft \in Nat /\ NewDraft \in Nat
    BY <1>11 DEF SheetCloses, NewDraft, TypeOK
  <2>2. WaitsInv'
    <3>1. ASSUME NEW i \in imports, i.fresh, i.for # None PROVE i.to # "new"
      BY <1>1, <2>1, <3>1 DEF WaitsInv, Waits, Steady
    <3>2. UNCHANGED <<imports, sends, leaveTimers, selected>>
      BY <1>11 DEF SheetCloses
    <3>. QED  BY <1>1, <3>1, <3>2 DEF WaitsInv, Waits, Steady, Shown
  <2>3. KeptInv'
    BY <1>1, <1>11, <2>1 DEF SheetCloses, KeptInv
  <2>4. SentInv'
    <3>1. \A s \in sends : s.for \in Nat
      BY DEF TypeOK, Sends
    <3>. QED  BY <1>1, <1>11, <2>1, <3>1 DEF SheetCloses, SentInv
  <2>. QED  BY <1>1, <1>2, <1>11, <2>2, <2>3, <2>4 DEF SheetCloses
<1>12. ASSUME NEW r \in Requests, Select(r) PROVE ContentInv'
  <2>1. UNCHANGED <<draft, sends, holds, strays, timers, leaveTimers, annotator>> /\ selected' = r
    BY <1>12 DEF Select
  <2>2. CASE r = selected
    BY <1>1, <1>2, <1>6, <1>7, <1>8, <1>12, <2>1, <2>2 DEF Select
  <2>3. CASE r # selected
    <3>1. WaitsInv' /\ attached' = {}
      BY <1>3, <1>12, <2>3 DEF Select, WaitsInv
    <3>. QED  BY <1>1, <1>2, <1>6, <1>7, <2>1, <3>1
  <2>. QED  BY <2>2, <2>3
<1>13. CASE DetailCloses
  <2>1. /\ UNCHANGED <<draft, sends, holds, strays, timers, imports, annotator>>
        /\ selected' = None /\ attached' = {} /\ leaveTimers # 0
    BY <1>13 DEF DetailCloses, TypeOK
  <2>2. WaitsInv'
    BY <1>1, <2>1 DEF WaitsInv, Waits, Steady, Shown
  <2>. QED  BY <1>2, <1>6, <1>7, <2>1, <2>2
<1>14. ASSUME NEW to \in {"new", "comment"}, NEW stage \in {"dialog", "file", "capture"},
              Ask(to, stage)
       PROVE  ContentInv'
  <2>. PICK new : new = [to |-> to, for |-> Asked(to), stage |-> stage, fresh |-> TRUE]
    OBVIOUS
  <2>1. imports' = imports \cup {new} /\ UNCHANGED <<annotator, newSheet, detailSheet, sends, strays>>
    BY <1>14 DEF Ask
  <2>2. Waits(new)'
    BY <2>1 DEF Asked, Steady, Shown, Waits
  <2>3. WaitsInv'
    BY <1>1, <2>1, <2>2 DEF WaitsInv, Waits, Steady, Shown
  <2>. QED  BY <1>1, <1>2, <1>6, <1>7, <2>1, <2>3
\* What joins a composer was asked for it, or not at rest.
<1>15. ASSUME NEW to \in {"new", "comment"}, NEW for, Add(to, for),
              for # None => sends = {} /\ (for = Shown(to) \/ (to = "comment" /\ selected = None)),
              UNCHANGED <<draft, sends, selected, strays>>
       PROVE  /\ SentInv'
              /\ "annotator" \notin strays' => holds' \subseteq {draft', None}
              /\ strays' = {} /\ selected' # None => attached' \subseteq {selected', None}
  BY <1>1, <1>15 DEF Add, Shown, SentInv
<1>16. ASSUME NEW to \in {"new", "comment"}, Paste(to) PROVE ContentInv'
  <2>1. /\ Add(to, Asked(to))
        /\ UNCHANGED <<draft, timers, selected, leaveTimers, imports, annotator, sends, strays>>
    BY <1>16 DEF Paste
  <2>2. Asked(to) # None => sends = {} /\ Asked(to) = Shown(to)
    BY DEF Asked, Steady
  <2>. QED  BY <1>2, <1>7, <1>8, <1>15, <2>1, <2>2
<1>17. ASSUME NEW i \in imports, DialogAnswered(i) PROVE ContentInv'
  <2>. DEFINE new == [i EXCEPT !.stage = "file"]
  <2>1. i.fresh => Waits(new)
    BY <1>1, <1>4 DEF WaitsInv, Waits, Imports
  <2>2. /\ imports' \subseteq imports \/ (i.fresh /\ imports' \subseteq imports \cup {new})
        /\ UNCHANGED <<newSheet, detailSheet, annotator, sends, strays>>
    BY <1>17 DEF DialogAnswered
  <2>. HIDE DEF new
  <2>3. WaitsInv'
    BY <1>1, <2>1, <2>2 DEF WaitsInv, Waits, Steady, Shown
  <2>. QED  BY <1>1, <1>2, <1>6, <1>7, <2>2, <2>3
<1>18. ASSUME NEW i \in imports, Lands(i) PROVE ContentInv'
  <2>1. /\ imports' \subseteq imports
        /\ UNCHANGED <<draft, timers, selected, leaveTimers, sends, strays>>
    BY <1>18 DEF Lands
  <2>2. \/ UNCHANGED <<holds, attached, annotator>>
        \/ i.fresh /\ Add(i.to, i.for) /\ UNCHANGED annotator
        \/ i.fresh /\ annotator' = i /\ UNCHANGED <<holds, attached>>
    BY <1>18, Zenon DEF Lands
  <2>3. KeptInv'
    <3>1. CASE i.fresh /\ annotator' = i
      BY <1>1, <1>4, <2>1, <3>1 DEF KeptInv, WaitsInv, Waits, Steady, Shown, TypeOK
    <3>. QED  BY <1>7, <2>1, <2>2, <3>1
  <2>4. /\ SentInv'
        /\ "annotator" \notin strays' => holds' \subseteq {draft', None}
        /\ strays' = {} /\ selected' # None => attached' \subseteq {selected', None}
    <3>1. CASE UNCHANGED <<holds, attached>>
      BY <1>1, <1>6, <2>1, <3>1
    <3>2. CASE i.fresh /\ Add(i.to, i.for)
      <4>1. i.for # None =>
              sends = {} /\ (i.for = Shown(i.to) \/ (i.to = "comment" /\ selected = None))
        BY <1>1, <3>2 DEF WaitsInv, Waits, Steady
      <4>. QED  BY <1>4, <1>15, <2>1, <3>2, <4>1
    <3>. QED  BY <2>2, <3>1, <3>2
  <2>. QED  BY <1>2, <1>8, <2>1, <2>3, <2>4
<1>19. CASE Annotated
  <2>1. /\ annotator # NoImport /\ annotator' = NoImport
        /\ UNCHANGED <<draft, timers, selected, leaveTimers, imports, sends>>
        /\ strays \subseteq strays'
    BY <1>19 DEF Annotated
  <2>2. WaitsInv' /\ KeptInv'
    BY <1>5, <1>8, <2>1 DEF KeptInv
  <2>3. CASE UNCHANGED <<holds, attached, strays>>
    BY <1>1, <1>2, <1>6, <2>1, <2>2, <2>3
  <2>4. CASE Add(annotator.to, annotator.for) /\ "annotator" \in strays'
    <3>1. SentInv' /\ strays' # {}
      BY <1>1, <2>1, <2>4 DEF SentInv
    <3>. QED  BY <1>2, <2>2, <2>4, <3>1
  <2>5. CASE /\ Add(annotator.to, annotator.for) /\ strays' = strays
             /\ \/ None \in {annotator.for, Shown(annotator.to)}
                \/ annotator.for = Shown(annotator.to)
    <3>1. CASE annotator.to = "new"
      <4>1. /\ annotator.for \in {draft, None} /\ holds' = holds \cup {annotator.for}
            /\ attached' = attached
        BY <2>5, <3>1 DEF Shown, Add, TypeOK
      <4>2. annotator.for # None => \A s \in sends : s.kind = "create" => s.for = draft
        <5>1. \A s \in sends : s.for \in Nat
          BY DEF TypeOK, Sends
        <5>. QED  BY <1>1, <3>1, <4>1, <5>1 DEF KeptInv, SentInv, TypeOK
      <4>3. SentInv'
        BY <1>1, <2>1, <2>5, <4>1, <4>2 DEF SentInv
      <4>. QED  BY <1>1, <1>2, <2>1, <2>2, <2>5, <4>1, <4>3
    <3>2. CASE annotator.to = "comment"
      <4>1. /\ holds' = holds /\ attached' = attached \cup {annotator.for}
            /\ selected # None => annotator.for \in {selected, None}
        BY <2>5, <3>2 DEF Shown, Add
      <4>. QED  BY <1>1, <1>2, <1>6, <2>1, <2>2, <2>5, <4>1
    <3>. QED  BY <1>5, <2>1, <3>1, <3>2
  <2>6. \/ UNCHANGED <<holds, attached, strays>>
        \/ Add(annotator.to, annotator.for) /\ "annotator" \in strays'
        \/ /\ Add(annotator.to, annotator.for) /\ strays' = strays
           /\ \/ None \in {annotator.for, Shown(annotator.to)}
              \/ annotator.for = Shown(annotator.to)
    BY <1>19 DEF Annotated
  <2>. QED  BY <2>3, <2>4, <2>5, <2>6
<1>20. CASE Submit \/ Comment
  <2>1. /\ imports' = Stale(imports)
        /\ UNCHANGED <<newSheet, detailSheet, annotator, strays>>
    BY <1>20 DEF Submit, Comment, Send
  <2>2. PICK new : /\ sends' = sends \cup {new}
                   /\ new.kind = "create" => new.for = draft /\ draft < Cap
    <3>1. CASE Submit
      <4>. DEFINE new == [kind |-> "create", for |-> draft, done |-> FALSE]
      <4>1. sends' = sends \cup {new} /\ new.for = draft /\ draft < Cap
        BY <3>1 DEF Submit, Send, Cap
      <4>. QED  BY <4>1
    <3>2. CASE Comment
      <4>. DEFINE new == [kind |-> "comment", for |-> selected, done |-> FALSE]
      <4>1. sends' = sends \cup {new} /\ new.kind # "create"
        BY <3>2 DEF Comment, Send
      <4>. QED  BY <4>1
    <3>. QED  BY <1>20, <3>1, <3>2
  <2>3. WaitsInv' /\ SentInv'
    BY <1>1, <1>3, <2>1, <2>2 DEF WaitsInv, SentInv, TypeOK
  <2>4. KeptInv'
    BY <1>1, <2>1, <2>2 DEF KeptInv
  <2>. QED  BY <1>1, <1>2, <2>1, <2>3, <2>4
<1>21. CASE Sending
  <2>. PICK s \in sends : Handled(s) \/ Created(s) \/ Commented(s) \/ SendFails(s)
    BY <1>21 DEF Sending
  <2>1. \A i \in imports : i.fresh => i.for = None
    BY <1>1 DEF WaitsInv, Waits, Steady
  <2>2. UNCHANGED <<imports, annotator, timers>>
    BY DEF Handled, Created, Commented, SendFails
  <2>3. WaitsInv'
    BY <2>1, <2>2 DEF WaitsInv, Waits
  <2>4. CASE Created(s)
    <3>1. /\ sends' \subseteq sends /\ s.kind = "create" /\ draft' = NewDraft /\ holds' = {}
          /\ selected' = s.for /\ strays \subseteq strays'
      BY <2>4 DEF Created
    <3>2. NewDraft >= draft /\ NewDraft \in Nat /\ draft \in Nat /\ \A t \in sends : t.for \in Nat
      BY DEF NewDraft, TypeOK, Sends
    <3>3. KeptInv' /\ SentInv'
      <4>1. KeptInv'
        BY <1>1, <1>5, <2>2, <3>1, <3>2 DEF KeptInv, NoImport
      <4>2. SentInv'
        BY <1>1, <3>1, <3>2 DEF SentInv
      <4>. QED  BY <4>1, <4>2
    <3>4. strays' = {} => attached' \subseteq {s.for, None}
      <4>1. "annotator" \notin strays => holds \subseteq {s.for, None}
        BY <1>1, <3>1 DEF SentInv
      <4>2. \/ attached' = holds /\ strays' = strays
            \/ attached' = attached /\ (attached \subseteq {s.for, None} \/ strays' # {})
        BY <2>4 DEF Created
      <4>. QED  BY <4>1, <4>2
    <3>. QED  BY <1>2, <2>3, <3>1, <3>3, <3>4
  <2>5. CASE Handled(s)
    <3>. DEFINE t == [s EXCEPT !.done = TRUE]
    <3>1. t.kind = s.kind /\ t.for = s.for
      BY DEF TypeOK, Sends
    <3>2. /\ sends' \subseteq sends \cup {t}
          /\ UNCHANGED <<draft, holds, strays, selected, attached>>
      BY <2>5 DEF Handled
    <3>. HIDE DEF t
    <3>3. KeptInv' /\ SentInv'
      BY <1>1, <2>2, <3>1, <3>2 DEF KeptInv, SentInv
    <3>. QED  BY <1>1, <1>2, <2>3, <3>2, <3>3
  <2>6. CASE Commented(s) \/ SendFails(s)
    <3>1. /\ sends' \subseteq sends /\ attached' \in {attached, {}}
          /\ UNCHANGED <<draft, holds, strays, selected>>
      BY <2>6 DEF Commented, SendFails
    <3>2. KeptInv' /\ SentInv'
      BY <1>1, <2>2, <3>1 DEF KeptInv, SentInv
    <3>. QED  BY <1>1, <1>2, <2>3, <3>1, <3>2
  <2>. QED  BY <2>4, <2>5, <2>6
<1>22. CASE UNCHANGED vars
  <2>1. UNCHANGED <<draft, timers, holds, selected, leaveTimers, attached, imports, annotator,
                    sends, strays>>
    BY <1>22 DEF vars
  <2>. QED  BY <1>1, <1>2, <1>6, <1>7, <1>8, <2>1
<1>. QED  BY <1>9, <1>10, <1>11, <1>12, <1>13, <1>14, <1>16, <1>17, <1>18, <1>19, <1>20,
             <1>21, <1>22 DEF Next, SheetNext, AttachmentNext

\* An attachment asked for while its composer was at rest joins that request or is
\* dropped, until an annotator was applied to another request or a creation kept the
\* comment attachments of the one it replaced; what is out of date never lands
\* (issue_attachment_generation).
THEOREM ContentStays == Spec => []ContentStaysWithItsRequest
<1>1. Init => ContentInv
  <2>. SUFFICES ASSUME Init PROVE ContentInv
    OBVIOUS
  <2>. QED  BY DEF Init, ContentInv, WaitsInv, KeptInv, SentInv, NoImport,
               ContentStaysWithItsRequest
<1>2. ContentInv => ContentStaysWithItsRequest
  BY DEF ContentInv, ContentStaysWithItsRequest
<1>. QED  BY <1>1, <1>2, ContentStep, TypeCorrect, PTL DEF Spec
=============================================================================
