------------------------------- MODULE Requests -------------------------------
(***************************************************************************)
(* The hosted requests of User mode (workspace/requests.rs): the composer of  *)
(* a new request, the comment composer of the open one, and the attachments  *)
(* that reach either of them late.                                          *)
(*                                                                         *)
(* A request is a draft until Manage creates it.  Attachments are read,      *)
(* downloaded or captured in the background, and join the composer they were *)
(* asked for when they land, unless issue_attachment_generation has moved on. *)
(* Here the generation is the flag `fresh` of each import: whatever increments *)
(* the generation clears it.  One flag, issue_attachment_busy, stands for      *)
(* imports and sends alike.  Both sheets are emptied by a timer at the end of  *)
(* their closing animation.                                                *)
(***************************************************************************)
EXTENDS Integers, FiniteSets

CONSTANTS
  Existing,   \* number of requests created before
  MaxDrafts,  \* bound: drafts of new requests told apart
  MaxImports, \* bound: imports under way
  MaxTimers,  \* bound: animations of each sheet under way
  MaxSends    \* bound: sends under way

ASSUME RequestsAssumption ==
  /\ Existing \in Nat /\ MaxDrafts \in Nat \ {0} /\ MaxImports \in Nat
  /\ MaxTimers \in Nat /\ MaxSends \in Nat

Requests == 1..(Existing + MaxDrafts)
None == 0

VARIABLES
  draft,      \* the request whose draft the composer of new requests holds
  opened,     \* user_new_request_sheet_open
  dismissing, \* user_new_request_sheet_dismissing
  timers,     \* timers that will empty this sheet
  holds,      \* the requests its attachments were asked for
  selected,   \* issue_selected
  leaving,    \* user_issue_detail_dismissing
  leaveTimers, \* timers that will empty the detail sheet
  attached,   \* the requests its comment attachments were asked for
  busy,       \* issue_attachment_busy
  imports,    \* attachments asked for and not landed
  annotator,  \* the capture being annotated: the import it came from
  sends,      \* creations and comments under way
  made,       \* made[r]: how many times Manage created r, 2 for more than once
  strays,     \* history: what carried content to a request it was not asked for
  unsure      \* history: an import ended during a send, or a creation was not acknowledged

newSheet == <<draft, opened, dismissing, timers, holds>>
detailSheet == <<selected, leaving, leaveTimers, attached>>
vars == <<newSheet, detailSheet, busy, imports, annotator, sends, made, strays, unsure>>

\* The content of a composer that was not at rest when it was asked for is not told
\* apart: it is for None.
Imports == [to : {"new", "comment"}, for : Requests \cup {None}, stage : {"dialog", "file", "capture"},
            fresh : {TRUE}]
NoImport == [to |-> "none", for |-> None, stage |-> "none", fresh |-> FALSE]
StaleImports == {[NoImport EXCEPT !.stage = stage] : stage \in {"dialog", "file", "capture"}}
Sends == [kind : {"create", "comment"}, for : Requests, done : BOOLEAN]
Issues == {r \in Requests : made[r] > 0}

Init ==
  /\ draft = Existing + 1 /\ opened = FALSE /\ dismissing = FALSE /\ timers = 0 /\ holds = {}
  /\ selected = None /\ leaving = FALSE /\ leaveTimers = 0 /\ attached = {}
  /\ busy = FALSE /\ imports = {} /\ annotator = NoImport
  /\ sends = {}
  /\ made = [r \in Requests |-> IF r <= Existing THEN 1 ELSE 0]
  /\ strays = {} /\ unsure = FALSE

\* A composer at rest: no send is under way and no animation that will empty it.
Steady(to) == sends = {} /\ (IF to = "new" THEN timers = 0 ELSE leaveTimers = 0)
Shown(to) == IF to = "new" THEN draft ELSE selected
Asked(to) == IF Steady(to) THEN Shown(to) ELSE None

\* A new draft is another request; the last number stands for every further draft,
\* and those are not sent.
NewDraft == IF draft < Existing + MaxDrafts THEN draft + 1 ELSE draft

\* Faulty variants, used by no action, are named ...Fault...
\* Fault: the generation stays.
StaleFaultKept(some) == some

\* issue_attachment_generation + 1: what these imports were asked for is forgotten.
Stale(some) == {[NoImport EXCEPT !.stage = i.stage] : i \in some}

-----------------------------------------------------------------------------
(* The composer of new requests.                                           *)

\* open_new_request and open_prefilled_request, which replaces the text and keeps
\* the attachments.  Support agents are taken to User mode first, which closes both
\* sheets.
OpenSheet ==
  /\ opened' = TRUE
  /\ \/ UNCHANGED <<dismissing, selected, leaving>>
     \/ dismissing' = FALSE /\ selected' = None /\ leaving' = FALSE
  /\ UNCHANGED <<draft, timers, holds, leaveTimers, attached, busy, imports, annotator, sends,
                 made, strays, unsure>>

\* close_new_request_sheet.
CloseSheet ==
  /\ opened /\ ~dismissing /\ timers < MaxTimers
  /\ dismissing' = TRUE /\ timers' = timers + 1
  /\ imports' = Stale(imports)
  /\ annotator' = NoImport
  /\ UNCHANGED <<draft, opened, holds, detailSheet, busy, sends, made, strays, unsure>>

\* Its animation ends.
SheetCloses ==
  /\ timers > 0 /\ timers' = timers - 1
  /\ opened' = FALSE /\ dismissing' = FALSE
  /\ draft' = NewDraft /\ holds' = {}
  /\ UNCHANGED <<detailSheet, busy, imports, annotator, sends, made, strays, unsure>>

-----------------------------------------------------------------------------
(* The detail of a request.                                                 *)

\* select_issue: another request empties the comment composer, and keeps its annotator.
Select(r) ==
  /\ r \in Issues
  /\ selected' = r
  /\ IF r # selected
     THEN imports' = Stale(imports) /\ attached' = {}
     ELSE UNCHANGED <<imports, attached>>
  /\ UNCHANGED <<newSheet, leaving, leaveTimers, busy, annotator, sends, made, strays, unsure>>

\* close_user_issue_detail.
CloseDetail ==
  /\ selected # None /\ ~leaving /\ leaveTimers < MaxTimers
  /\ leaving' = TRUE /\ leaveTimers' = leaveTimers + 1
  /\ imports' = Stale(imports)
  /\ annotator' = NoImport
  /\ UNCHANGED <<newSheet, selected, attached, busy, sends, made, strays, unsure>>

\* Its animation ends.
DetailCloses ==
  /\ leaveTimers > 0 /\ leaveTimers' = leaveTimers - 1
  /\ selected' = None /\ leaving' = FALSE /\ attached' = {}
  /\ UNCHANGED <<newSheet, busy, imports, annotator, sends, made, strays, unsure>>

\* reset_issue_selection, at a change of mode and at the end of a session: both
\* sheets are closed with what they hold.
Reset ==
  /\ selected' = None /\ opened' = FALSE /\ dismissing' = FALSE /\ leaving' = FALSE
  /\ UNCHANGED <<draft, timers, holds, leaveTimers, attached, busy, imports, annotator,
                 sends, made, strays, unsure>>

-----------------------------------------------------------------------------
(* Attachments.                                                             *)

Target(to) == IF to = "new" THEN opened ELSE selected # None

Add(to, for) ==
  IF to = "new" THEN holds' = holds \cup {for} /\ UNCHANGED attached
                ELSE attached' = attached \cup {for} /\ UNCHANGED holds

\* The buttons wait for the flag; a drop does not, nor a paste.  A dialog takes the
\* generation when it opens, and the flag only when it is answered.
Ask(to, stage) ==
  /\ Target(to) /\ Cardinality(imports) < MaxImports
  /\ stage = "file" \/ ~busy
  /\ imports' = imports \cup {[to |-> to, for |-> Asked(to), stage |-> stage, fresh |-> TRUE]}
  /\ busy' = (busy \/ stage # "dialog")
  /\ UNCHANGED <<newSheet, detailSheet, annotator, sends, made, strays, unsure>>

\* paste_issue_attachment reads the clipboard at once.
Paste(to) ==
  /\ Target(to)
  /\ Add(to, Asked(to))
  /\ UNCHANGED <<draft, opened, dismissing, timers, selected, leaving, leaveTimers, busy, imports,
                 annotator, sends, made, strays, unsure>>

\* The dialog of pick_issue_attachments is answered: import_attachment_paths.
DialogAnswered(i) ==
  /\ i \in imports /\ i.stage = "dialog"
  /\ \/ /\ i.fresh /\ busy' = TRUE
        /\ imports' = (imports \ {i}) \cup {[i EXCEPT !.stage = "file"]}
     \/ imports' = imports \ {i} /\ UNCHANGED busy
  /\ UNCHANGED <<newSheet, detailSheet, annotator, sends, made, strays, unsure>>

\* The flag is cleared by every import, whoever set it.
Freed(i) == busy' = FALSE

\* An import has been read, downloaded or captured, or has failed.
Lands(i) ==
  /\ i \in imports /\ i.stage # "dialog"
  /\ imports' = imports \ {i}
  /\ Freed(i)
  /\ unsure' = (unsure \/ sends # {})
  /\ \/ UNCHANGED <<holds, attached, annotator>>
     \/ /\ i.fresh /\ i.stage = "file"
        /\ Add(i.to, i.for)
        /\ UNCHANGED annotator
     \/ /\ i.fresh /\ i.stage = "capture"
        /\ annotator' = i
        /\ UNCHANGED <<holds, attached>>
  /\ UNCHANGED <<draft, opened, dismissing, timers, selected, leaving, leaveTimers, sends,
                 made, strays>>

\* The annotator is applied, to whatever its composer shows by then, or cancelled.
Annotated ==
  /\ annotator # NoImport /\ annotator' = NoImport
  /\ \/ /\ Add(annotator.to, annotator.for)
        /\ strays' = IF None \in {annotator.for, Shown(annotator.to)}
                        \/ annotator.for = Shown(annotator.to)
                     THEN strays ELSE strays \cup {"annotator"}
     \/ UNCHANGED <<holds, attached, strays>>
  /\ UNCHANGED <<draft, opened, dismissing, timers, selected, leaving, leaveTimers, busy, imports,
                 sends, made, unsure>>

-----------------------------------------------------------------------------
(* Sends.                                                                   *)

\* Fault: the flag is not looked at.
MaySendFaultAnyTime == TRUE

\* The guard of create_issue_now and comment_issue_with_images.
MaySend == ~busy

\* Two sends that nothing tells apart are not modelled.
Send(new) ==
  /\ MaySend /\ new \notin sends /\ Cardinality(sends) < MaxSends
  /\ sends' = sends \cup {new}
  /\ busy' = TRUE
  /\ imports' = Stale(imports)
  /\ UNCHANGED <<newSheet, detailSheet, annotator, made, strays, unsure>>

Submit ==
  opened /\ draft < Existing + MaxDrafts /\ Send([kind |-> "create", for |-> draft, done |-> FALSE])
Comment ==
  selected # None /\ Send([kind |-> "comment", for |-> selected, done |-> FALSE])

\* Manage creates the request; its answer is on the way.
Handled(s) ==
  /\ s \in sends /\ s.kind = "create" /\ ~s.done
  /\ sends' = (sends \ {s}) \cup {[s EXCEPT !.done = TRUE]}
  /\ made' = [made EXCEPT ![s.for] = IF @ = 0 THEN 1 ELSE 2]
  /\ UNCHANGED <<newSheet, detailSheet, busy, imports, annotator, strays, unsure>>

\* The answer to create_issue_now: the composer is emptied, whatever it holds by
\* then, and the request selected; attachments that could not be uploaded go to
\* its comment composer, which otherwise keeps what it has for another request.
Created(s) ==
  /\ s \in sends /\ s.kind = "create" /\ s.done
  /\ sends' = sends \ {s} /\ busy' = FALSE
  /\ opened' = FALSE /\ draft' = NewDraft /\ holds' = {}
  /\ selected' = s.for
  /\ \E uploaded \in BOOLEAN :
       /\ attached' = IF uploaded THEN attached ELSE holds
       /\ strays' = IF uploaded /\ ~(attached \subseteq {s.for, None})
                    THEN strays \cup {"creation"} ELSE strays
  /\ UNCHANGED <<dismissing, timers, leaving, leaveTimers, imports, annotator, made, unsure>>

\* The answer to a comment, which empties the comment composer.
Commented(s) ==
  /\ s \in sends /\ s.kind = "comment"
  /\ sends' = sends \ {s} /\ busy' = FALSE
  /\ attached' = {}
  /\ UNCHANGED <<newSheet, selected, leaving, leaveTimers, imports, annotator, made,
                 strays, unsure>>

\* A send failed, or its answer was lost: everything stays for another try.
SendFails(s) ==
  /\ s \in sends
  /\ sends' = sends \ {s} /\ busy' = FALSE
  /\ unsure' = (unsure \/ s.done)
  /\ UNCHANGED <<newSheet, detailSheet, imports, annotator, made, strays>>

-----------------------------------------------------------------------------
SheetNext == OpenSheet \/ CloseSheet \/ SheetCloses \/ CloseDetail \/ DetailCloses \/ Reset
             \/ \E r \in Requests : Select(r)
AttachmentNext == \/ Annotated
                  \/ \E to \in {"new", "comment"} :
                       Paste(to) \/ \E stage \in {"dialog", "file", "capture"} : Ask(to, stage)
                  \/ \E i \in imports : DialogAnswered(i) \/ Lands(i)
Sending == \E s \in sends : Handled(s) \/ Created(s) \/ Commented(s) \/ SendFails(s)

Next == SheetNext \/ AttachmentNext \/ Submit \/ Comment \/ Sending

Spec == Init /\ [][Next]_vars

-----------------------------------------------------------------------------
(* Properties.                                                              *)

\* The values of the state.
TypeOK ==
  /\ draft \in Requests /\ selected \in Requests \cup {None}
  /\ {opened, dismissing, leaving, busy, unsure} \subseteq BOOLEAN
  /\ strays \subseteq {"annotator", "creation"}
  /\ timers \in 0..MaxTimers /\ leaveTimers \in 0..MaxTimers
  /\ holds \subseteq Requests \cup {None} /\ attached \subseteq Requests \cup {None}
  /\ imports \subseteq Imports \cup StaleImports /\ annotator \in Imports \cup {NoImport}
  /\ sends \subseteq Sends
  /\ made \in [Requests -> 0..2]

\* An attachment asked for in a composer at rest joins the request it was asked for or
\* is dropped, however late it is and whatever was opened, selected or closed
\* meanwhile; what fell out of date is never waited for again.  The code has two ways
\* to carry such content to another request, and nothing more is said once one was
\* taken (NothingStrays): an annotator stays open when another request is selected or
\* created, and applies to that one; and a creation keeps what the comment composer
\* holds for the request it replaces.
ContentStaysWithItsRequest ==
  /\ \A i \in imports : i.fresh /\ i.for # None =>
       i.for = Shown(i.to) \/ (i.to = "comment" /\ selected = None)
  /\ "annotator" \notin strays => holds \subseteq {draft, None}
  /\ strays = {} /\ selected # None => attached \subseteq {selected, None}

\* One draft becomes one request, as long as every creation was acknowledged and no
\* import ended during one: the import clears the flag that keeps a second from
\* being sent.
OneRequestPerDraft == ~unsure => \A r \in Requests : made[r] <= 1

\* The flag never outlives what will clear it: as reads, downloads and requests end,
\* no composer is blocked for good, whatever was closed, selected or dropped meanwhile.
BusyMeansPending == busy => sends # {} \/ \E i \in imports : i.stage # "dialog"

-----------------------------------------------------------------------------
(* What the code does not do.                                               *)

\* Nothing carries an attachment asked for in a composer at rest to another request.
\* reset_issue_selection, also at a logout, leaves the comment attachments, which
\* create_issue_now keeps for the request it selects; neither it nor select_issue
\* closes the annotator.
NothingStrays == strays = {}
=============================================================================
