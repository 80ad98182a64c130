----------------------------- MODULE TerminalTabs -----------------------------
(***************************************************************************)
(* The tabs and split panes of shelldeck-ui/src/terminal_view.rs and       *)
(* terminal_view/layout.rs: parallel vectors of tabs and primary sessions  *)
(* with an active index, the live pane layout of the active tab and the    *)
(* stored layouts of the others.  Dropping a session ends its terminal.    *)
(*                                                                         *)
(* A layout's tree is kept as its leaves in order: directions and ratios   *)
(* only place them on the screen.                                          *)
(***************************************************************************)
EXTENDS Integers, SequencesExt

CONSTANT Session   \* sessions that can be opened; a tab has the id of its first

VARIABLES
    view,   \* the fields of TerminalView
    home,   \* history: the tab each opened session was opened in
    made    \* history: the irregular gestures made so far

tabVars == <<view, home, made>>

(* The gestures after which the view is not what the user was shown.       *)
Irregular == {"close before active", "reselect", "select missing"}
Noting(g, applies) == made' = IF applies THEN made \cup {g} ELSE made

Primary == "primary"   \* the pane of the tab's own session
NoTab == "none"        \* a session that was never opened has no tab
ASSUME TabsAssumption == Primary \notin Session /\ NoTab \notin Session

Single == [leaves |-> <<Primary>>, extra |-> {}, focused |-> Primary]
NoLayout == [leaves |-> <<>>, extra |-> {}, focused |-> Primary]
NoneStored == [t \in Session |-> NoLayout]

Empty == [tabs |-> <<>>, sessions |-> <<>>, active |-> 0, marked |-> {},
          layout |-> Single, stored |-> NoneStored]

Current(v) == v.tabs[v.active + 1]
Position(v, t) == CHOOSE i \in DOMAIN v.tabs : v.tabs[i] = t
IsTab(v, t) == \E i \in DOMAIN v.tabs : v.tabs[i] = t
Leaf(l, p) == CHOOSE i \in DOMAIN l.leaves : l.leaves[i] = p
FirstExtra(l) ==
    CHOOSE i \in DOMAIN l.leaves :
        l.leaves[i] # Primary /\ \A j \in 1 .. i - 1 : l.leaves[j] = Primary

Put(f, t, l) == [f EXCEPT ![t] = l]
Drop(f, t) == [f EXCEPT ![t] = NoLayout]
Found(f, t) == IF f[t] = NoLayout THEN Single ELSE f[t]

-----------------------------------------------------------------------------
(* As it would be if the index were taken after the push.                  *)
WithTabFaultIndex(v, s) ==
    [v EXCEPT
        !.stored = IF v.tabs = <<>> THEN @ ELSE Put(@, Current(v), v.layout),
        !.layout = IF v.tabs = <<>> THEN @ ELSE Single,
        !.tabs = Append(@, s),
        !.sessions = Append(@, s),
        !.active = Len(v.sessions) + 1,
        !.marked = {s}]

(* add_session_with_connection                                             *)
WithTab(v, s) ==
    [v EXCEPT
        !.stored = IF v.tabs = <<>> THEN @ ELSE Put(@, Current(v), v.layout),
        !.layout = IF v.tabs = <<>> THEN @ ELSE Single,
        !.tabs = Append(@, s),
        !.sessions = Append(@, s),
        !.active = Len(v.sessions),
        !.marked = {s}]

(* close_tab, up to the restored layout                                    *)
RemovedTab(v, t) ==
    LET pos == Position(v, t)
        count == Len(v.tabs) - 1
    IN  [v EXCEPT
            !.layout = IF pos = v.active + 1 THEN Single ELSE @,
            !.stored = IF pos = v.active + 1 THEN @ ELSE Drop(@, t),
            !.tabs = RemoveAt(@, pos),
            !.sessions = RemoveAt(@, pos),
            !.active = IF @ >= count /\ count # 0 THEN count - 1 ELSE @,
            !.marked = @ \ {t}]

(* close_tab                                                               *)
WithoutTab(v, t) ==
    LET r == RemovedTab(v, t)
    IN  IF r.tabs = <<>> THEN [r EXCEPT !.layout = Single, !.stored = NoneStored]
        ELSE IF Position(v, t) = v.active + 1
        THEN [r EXCEPT !.layout = Found(r.stored, Current(r)),
                       !.stored = Drop(@, Current(r)),
                       !.marked = @ \cup {Current(r)}]
        ELSE [r EXCEPT !.marked = @ \cup {Current(r)}]

(* One tab after another, in the order in which their ids were collected.  *)
WithoutTabs(v, ids) ==
    LET after[n \in 0 .. Len(ids)] ==
            IF n = 0 THEN v ELSE WithoutTab(after[n - 1], ids[n])
    IN  after[Len(ids)]

(* As it would be if the current layout were not put aside first.          *)
WithSelectedFaultUnsaved(v, t) ==
    [v EXCEPT
        !.marked = {t} \cap {v.tabs[i] : i \in DOMAIN v.tabs},
        !.active = IF IsTab(v, t) THEN Position(v, t) - 1 ELSE @,
        !.layout = [Found(v.stored, t) EXCEPT !.focused = Primary],
        !.stored = Drop(@, t)]
(* As it would be if only the index and the mark moved.                    *)
WithSelectedFaultKeepsLayout(v, t) ==
    [v EXCEPT
        !.marked = {t} \cap {v.tabs[i] : i \in DOMAIN v.tabs},
        !.active = IF IsTab(v, t) THEN Position(v, t) - 1 ELSE @,
        !.layout = [@ EXCEPT !.focused = Primary]]
(* select_tab: nothing checks that the tab exists or that it is another.   *)
WithSelected(v, t) ==
    LET saved == IF v.tabs # <<>> /\ Current(v) # t
                 THEN Put(v.stored, Current(v), v.layout) ELSE v.stored
    IN  [v EXCEPT
            !.marked = {t} \cap {v.tabs[i] : i \in DOMAIN v.tabs},
            !.active = IF IsTab(v, t) THEN Position(v, t) - 1 ELSE @,
            !.layout = [Found(saved, t) EXCEPT !.focused = Primary],
            !.stored = Drop(saved, t)]

(* install_split_pane: the new leaf comes right after the focused one.     *)
WithSplit(v, s) ==
    [v EXCEPT
        !.layout = [leaves |-> InsertAt(@.leaves, Leaf(@, @.focused) + 1, s),
                    extra |-> @.extra \cup {s},
                    focused |-> s]]

(* As it would be if the focus stayed where it was.                        *)
WithoutSplitFaultFocus(v) ==
    LET l == v.layout
        gone == IF l.focused = Primary THEN CHOOSE s \in l.extra : TRUE
                ELSE l.focused
    IN  [v EXCEPT
            !.layout = [leaves |-> Remove(l.leaves, gone),
                        extra |-> l.extra \ {gone},
                        focused |-> l.focused],
            !.sessions = IF l.focused = Primary
                         THEN [@ EXCEPT ![v.active + 1] = gone] ELSE @]

(* close_split: an extra pane is dropped; the primary one is replaced by   *)
(* the first extra pane of the tree.                                       *)
WithoutSplit(v) ==
    LET l == v.layout
        at == IF l.focused = Primary THEN FirstExtra(l) ELSE Leaf(l, l.focused)
        gone == l.leaves[at]
    IN  [v EXCEPT
            !.layout = [leaves |-> RemoveAt(l.leaves, at),
                        extra |-> l.extra \ {gone},
                        focused |-> Primary],
            !.sessions = IF l.focused = Primary
                         THEN [@ EXCEPT ![v.active + 1] = gone] ELSE @]

-----------------------------------------------------------------------------
TabsInit == view = Empty /\ home = [s \in Session |-> NoTab] /\ made = {}

AddSession(s) ==
    /\ home[s] = NoTab
    /\ view' = WithTab(view, s)
    /\ home' = [home EXCEPT ![s] = s]
    /\ UNCHANGED made

CloseTab(t) ==
    /\ IsTab(view, t)
    /\ view' = WithoutTab(view, t)
    /\ Noting("close before active", Position(view, t) < view.active + 1)
    /\ UNCHANGED home

(* close_tabs_to_left and close_tabs_to_right close one tab after another. *)
CloseTabsToLeft(t) ==
    /\ IsTab(view, t)
    /\ view' = WithoutTabs(view,
                           SubSeq(view.tabs, 1, Position(view, t) - 1))
    /\ Noting("close before active", Position(view, t) > 1 /\ view.active > 0)
    /\ UNCHANGED home

CloseTabsToRight(t) ==
    /\ IsTab(view, t)
    /\ view' = WithoutTabs(view,
                SubSeq(view.tabs, Position(view, t) + 1, Len(view.tabs)))
    /\ Noting("close before active", Position(view, t) < view.active)
    /\ UNCHANGED home

CloseAllSessions ==
    /\ view' = Empty
    /\ UNCHANGED <<home, made>>

(* A tab click, the sidebar, next_tab and prev_tab select an open tab; the *)
(* task list of the assistant selects the session a task was about, which  *)
(* may be closed or a split pane (workspace/ai.rs:2361-2380).              *)
SelectTab(t) ==
    /\ home[t] # NoTab
    /\ view' = WithSelected(view, t)
    /\ IF IsTab(view, t) THEN Noting("reselect", Current(view) = t)
                         ELSE Noting("select missing", TRUE)
    /\ UNCHANGED home

Split(s) ==
    /\ home[s] = NoTab
    /\ view.sessions # <<>>
    /\ view' = WithSplit(view, s)
    /\ home' = [home EXCEPT ![s] = Current(view)]
    /\ UNCHANGED made

FocusPane(p) ==
    /\ p # view.layout.focused
    /\ \E i \in DOMAIN view.layout.leaves : view.layout.leaves[i] = p
    /\ view' = [view EXCEPT !.layout.focused = p]
    /\ UNCHANGED <<home, made>>

CloseSplit ==
    /\ Len(view.layout.leaves) > 1
    /\ view' = WithoutSplit(view)
    /\ UNCHANGED <<home, made>>

Closing ==
    \/ \E t \in Session :
         CloseTab(t) \/ CloseTabsToLeft(t) \/ CloseTabsToRight(t)
    \/ CloseAllSessions
    \/ CloseSplit

TabsNext ==
    \/ Closing
    \/ \E s \in Session : AddSession(s) \/ Split(s) \/ SelectTab(s)
    \/ \E p \in Session \cup {Primary} : FocusPane(p)

TabsSpec == TabsInit /\ [][TabsNext]_tabVars

-----------------------------------------------------------------------------
Layouts == [leaves : Seq(Session \cup {Primary}), extra : SUBSET Session,
            focused : Session \cup {Primary}]

Views == [tabs : Seq(Session), sessions : Seq(Session), active : Nat,
          marked : SUBSET Session, layout : Layouts,
          stored : [Session -> Layouts]]

(* The vectors stay parallel, and the index points into them.              *)
IndexOK(v) ==
    /\ Len(v.tabs) = Len(v.sessions)
    /\ v.active = 0 \/ v.active < Len(v.tabs)

TabsTypeOK ==
    /\ view \in Views /\ IndexOK(view)
    /\ home \in [Session -> Session \cup {NoTab}]
    /\ made \subseteq Irregular

(* In every layout the leaves are the primary pane and the extra sessions, *)
(* each once, and the focus is on one of them: keyboard input always has a *)
(* session to go to (session_for, terminal_view.rs:750-783).               *)
Backed(l) ==
    /\ {l.leaves[i] : i \in DOMAIN l.leaves} = l.extra \cup {Primary}
    /\ \A i, j \in DOMAIN l.leaves : l.leaves[i] = l.leaves[j] => i = j
    /\ l.focused \in l.extra \cup {Primary}

PanesAreBacked ==
    /\ Backed(view.layout)
    /\ \A t \in Session : view.stored[t] = NoLayout \/ Backed(view.stored[t])

(* The active tab, and no other, is drawn as active, and every pane is held *)
(* by the tab it was opened in, the live layout by the active tab and a     *)
(* stored one by its own, unless a tab before the active one was closed or  *)
(* a session without a tab selected (layout.rs:22-24, 63-65;                *)
(* terminal_view.rs:583-640, 700-727).                                      *)
PanesStayInTheirTab ==
    made \subseteq {"reselect"} =>
        /\ view.marked = IF view.tabs = <<>> THEN {} ELSE {Current(view)}
        /\ \A i \in DOMAIN view.tabs : home[view.sessions[i]] = view.tabs[i]
        /\ \A s \in view.layout.extra : home[s] = Current(view)
        /\ \A t \in Session : \A s \in view.stored[t].extra : home[s] = t

Held(v) ==
    {v.sessions[i] : i \in DOMAIN v.sessions} \cup v.layout.extra
      \cup UNION {v.stored[t].extra : t \in Session}

(* Opening, splitting, focusing and switching end no terminal, in a view   *)
(* that saw no irregular gesture: every layout put aside is found again    *)
(* (terminal_view.rs:552-594, 700-727).                                    *)
RegularUseKeepsPanes ==
    [][made' = {} => Closing \/ Held(view) \subseteq Held(view')]_tabVars

(* The documented effect of a switch: the panes of the tab left are saved, *)
(* so a terminal ends only when the user closes something.  VIOLATED: the  *)
(* tab may be the active one, whose layout is not saved and not found.     *)
PanesEndWhenClosed == [][Closing \/ Held(view) \subseteq Held(view')]_tabVars
=============================================================================
