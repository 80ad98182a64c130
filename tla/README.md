# ShellDeck in TLA+

ShellDeck is a desktop SSH client (Rust, GPUI) with tabs of terminals, port
forwards, scripts, and an account at a portal (Inklura Manage) that shares
connection profiles. This directory models the parts of it where several
actors meet: the UI thread, the dedicated thread of every SSH session and
tunnel, the background executor, the files, the network, and a user who closes,
deletes and logs out at any moment.

Paths below are relative to `crates/` unless they start with `docs/`.
`workspace/` stands for `shelldeck-ui/src/workspace/`.

## The system

| Component | State it keeps | Operations | Interacts with |
|---|---|---|---|
| Port forwards (`workspace/forwards.rs`, `shelldeck-ssh/src/tunnel.rs`) | status of each forward in the view, `active_tunnels`, one thread, session, result channel and tunnel task per start | start, stop, edit, delete, answer or timeout of a start, drain of a tunnel | account boundary (`workspace/navigation.rs`), sidebar (`workspace/events.rs`) |
| Account session (`workspace/account.rs`, `sites.rs`, `settings.rs`) | `app_config`, the copy of the settings view, `config.toml` | login, whoami, rejection, logout, select a site, pin, save settings, relaunch | everything that runs for an account |
| Connection store and cloud sync (`shelldeck-core/src/config/store.rs`, `cloud_sync.rs`, `workspace/cloud_sync.rs`) | store in memory, `connections.json`, the portal's profiles | edits, syncs (fetch, load, merge, save, reload) | atomic write, portal |
| Atomic file write (`shelldeck-core/src/util.rs`) | target, temporary name, inodes | create, write, sync, rename, clean up | every file the program saves |
| SSH terminals (`workspace/ssh.rs`, `shelldeck-terminal/src/session.rs`, `shelldeck-ssh/src/session.rs`) | tab state, SSH thread with read and write task, lifecycle channel, status of the row | connect, close, end of a session, application of its events | tabs, notifications, tray |
| Tabs and panes (`shelldeck-ui/src/terminal_view.rs`, `terminal_view/layout.rs`) | tabs, sessions, active index, live layout, stored layouts | add, close (one, left, right, all), select, split, close a split, focus | SSH and local terminals, AI tasks |
| Local PTY (`shelldeck-terminal/src/pty.rs`) | child, reader and writer threads, reaper | spawn, drop, reap with a grace period | tabs |
| Single instance (`shelldeck-core/src/config/single_instance.rs`) | discovery file, listener | acquire, hand-off, clean up | deep links |
| Auto-updater (`shelldeck-update`) | status, latest release, executable, `.new`, `.bak`, staging | poll, check, download, install, roll back | the executable |
| Requests and attachments (`workspace/requests.rs`) | two composers and their sheets, generation counter, busy flag, annotator | open, close, select, import, paste, capture, submit, comment | portal |
| Scripts (`workspace/scripts.rs`) | editor, history, `active_scripts`, a thread and a poller per run | run, ask for values, stop, output, end | SSH, account boundary, AI actions |
| AI actions on scripts (`workspace/ai.rs`, `ai_routing.rs`) | `ai_script_runs`, audit | confirm, time out, finish | scripts |
| Fleet runtime (`workspace/fleet.rs`, `monique_fleet.rs`) | switch in three copies, loop, registered instance, jobs that wait, `runtime_busy` | switch, register, tick, execute, approve, reject | portal, account, configuration |
| SSH client, known hosts, pool (`shelldeck-ssh`) | sessions, `known_hosts` | connect, authenticate, trust on first use | every SSH user |
| Grid and parser, server sync, other AI actions, Monique and bext consoles, companion, config files, tray, rendering | see `PROJECT.json` | | |

### What is hard here

* One start of a forward crosses four actors (UI handler, thread, waiter, tunnel
  task) and two channels, with a 30 s timeout that races a late answer, while
  the user edits, deletes or logs out.
* The configuration exists three times, and the settings view writes its own
  copy whole. Background answers are applied to whatever session is current.
* The sync thread and the UI thread both load, change and save
  `connections.json`.
* A session ends through one of two tasks, and its events reach a row that
  several tabs share.
* A layout is moved between the view and a map by every gesture; what is
  overwritten is dropped, and with it running terminals.
* Files must survive a crash at any point, and so must the executable that an
  update swaps under a running program, while a second update may start.
* Launches find each other through a file that outlives its process, race to
  replace it, and exit on an answer sent before the work is done.
* A script that was stopped goes on until its thread notices, and its answer
  is applied to an editor that may show another run by then.
* A job of the fleet is claimed by a thread whose task may have been dropped,
  executed by another, and rejected by the user, all through requests that fail.
* An attachment lands long after it was asked for, in a composer that may have
  been closed, sent or reopened on another request.

### What makes each part correct

* Forwards: a tracked tunnel can be stopped; a stopped or given-up one goes away
  with its port and its connections; every start is answered; nothing crosses a
  logout.
* Account: an ended session stays ended across late answers, stale copies and
  crashes; a crash keeps the login; the roles are those of the token.
* Store: no edit is lost, no vanished profile stays, a quiet sync converges.
* Atomic write: the target is always one whole document.
* SSH terminals: the row and the notifications say what is true, every attempt
  and every loss is reported, and tabs that share a row agree with it.
* Tabs: the index is in range, every pane has one session and stays in its tab,
  and a terminal ends only when something is closed.
* Updater: whatever fails or is killed, a whole executable is left, under the
  program's name; what is announced as installed is installed; the previous release
  is kept.
* Single instance: one window, which the next launch finds; a link is opened
  once and is not dropped; every launch comes to an end.
* Scripts: what the editor, the history and the audit say of a run is true of
  that run; a timer stops its own run only; a stopped run is answered and its
  command ends.
* Fleet: one job at a time, each at most once and never after its rejection; no
  assigned job is forgotten; the runtime runs only if the user wanted it to,
  and while it does it goes on asking for work.
* Requests: an attachment stays with the request it was asked for; a draft
  becomes one request; no composer stays blocked.

## Modules

| Module | What it is |
|---|---|
| `TunnelLifecycle` | abstract promise: an attempt is begun, adopted by at most one owner, released for good, finished |
| `PortForwards` | the detailed system; implements `TunnelLifecycle` |
| `AtomicFile` | abstract promise: a file changes from one document to another in one step |
| `AtomicWrite` | `atomic_write` on names and inodes; implements `AtomicFile` with one writer |
| `ConnectionStore` | memory, disk and portal; one save is one step, which `AtomicWrite` says when to believe |
| `AccountSession` | logins, answers, copies of the configuration |
| `SshSessions` | tabs, threads, events and rows |
| `TerminalTabs` | the tab strip and its layouts |
| `UpdateInstall` | checks, clicks and the two renames of the Linux installation |
| `SingleInstance` | the launches, the discovery file and the listener |
| `ScriptRuns` | runs of scripts, the AI actions that start them and their timers |
| `FleetRuntime` | the switch, the loop, the background threads and the jobs of one machine |
| `Requests` | the two composers, late attachments and sends |
| `MC*` | small instances for TLC |
| `*_proofs` | theorems and proofs |

In every module an operator with `Fault` in its name is used by no action: it is
an action as it would be with a mistake the code could have, next to the one it
varies. Substituted for it, TLC finds the property it is named for violated;
`PROJECT.json` pairs them. Some modules end with properties under the heading
"what the documents say and the code does not do", and others mark such a
property in its comment: they do not hold, see *Findings*.

### Correspondence

**PortForwards.** One *attempt* is one start, with its own thread, SSH session,
result channel, waiter and task, as in `handle_forward_event`. `active` is
`active_tunnels`, `status` the status shown in the view; both are written by the
handlers and by the waiter's UI update. A handle is not a variable: `HandleHeld`
says who still owns it (the channel, the waiter or the map), because the thread
parks on a channel that closes with the handle. Tunnel tasks step only while the
thread drives its runtime (`Driven`). The three directions differ in what can
fail: only local and SOCKS tunnels hold a local port, only a remote one ends
when the event channel closes.

**AtomicWrite.** Paths and inodes are kept apart, since a writer goes on writing
the inode it opened when another renames or removes the name. A short write is
one chunk; a crash loses everything that is not in the file system.

**ConnectionStore.** `mem` is the workspace's copy, `disk` the file. A save is
one step, and so is each of fetch, load, merge-and-save and reload of a sync, in
the order of `sync_now` and `reload_connections_after_sync`. Entries are told
apart by their source only. `exposed` records edits that fell into the window
between load and save of a sync, or whose save failed.

**AccountSession.** A token is a login: it has an owner, and its answers arrive
at any later time. `SetConfig` changes `app_config` and saves,
`SetConfigAndCopy` also refreshes the settings view; which of the two an action
uses is the code's choice and the heart of the module. A save may fail, which
the code logs and ignores; `failed` remembers it.

**SshSessions.** `thr` is the thread of `connect_ssh`, `write` and `read` are
the results of its two tasks, `events` its lifecycle channel. `InputOpen` is true
as long as the tab or the reader thread holds a sender: the reader's clone
serves the answers of the terminal to queries. Tab states are changed only when
an event is applied, as in the code.

**TerminalTabs.** The record `view` has the fields of `TerminalView`: tabs and
sessions in parallel, the index (from 0), the marked tabs, the live layout and
the map of stored ones. A layout is its leaves in tree order, its extra sessions
and its focus; which leaf is beside which is not told apart; a tab for which nothing is
put aside has `NoLayout`. `home` remembers the tab a session was opened in, `made`
which of three irregular gestures were used
(closing before the active tab, selecting the active tab again, selecting a
session that has no tab); the properties say after which of them they still hold.

**UpdateInstall.** `inst[i]` is one call of `download_and_install` with the steps
of `install_linux` and `atomic_replace_file`. `worker` is the one worker thread of
`http_runtime`: an install runs from the copy to its return without an await, so
two of them interleave only around the download and tar. `file` maps the three
names to binaries, `self` is where the kernel says the running executable is: after
a swap that is the backup, which the next install takes for the executable to
replace. `Stop` is a quit or a kill between any two steps, `Launch` starts what is
under the program's name. Before the swap an install touches only the staging
directory and `.new`. Every I/O step may fail, the rename that undoes a failed swap
included: the code ignores its result, nothing is left under the program's name,
and `stranded` remembers it (`RollbackFails`). A tar that outlives a killed
program, a backup that cannot be removed where the rename over it can, installs by
another process, and the macOS and Windows installers are left out.

**SingleInstance.** A process stands for the port and token it publishes, so a
connection to a port taken over by a stranger is the same as a refused one.
`Accept` answers, `Deliver` passes the link on: `handle_handoff` and the loop of
`listen_with` do them in that order. `upset` remembers what made a hand-off
unreliable: launches that overlapped (`raced`), a read that timed out on a process
that was only slow (`late`), a discovery file that could not be written
(`unpublished`), a listener thread that could not be created (`deaf`: the socket is
closed, the file stays and the window is shown); a property says which of them it
survives. `End` is an exit or a
kill at any step, and leaves the file.

**ScriptRuns.** A run is one start: its record, its thread and the poller that
outlives it. The editor (`running_script_id`) and the handles know scripts, not
runs, and the record written is the last one: `Applies` does to them what the
poller does, whichever run they are of by then. `Told(r)` holds when the shutdown
channel of run `r` has a message or is closed, which is the same as its handle
having left `active_scripts`. A local run whose command ended still joins its two
pipe readers (`joining`); a remote one has no such step. The checks of
`confirm_ai_action` before the script is run, which decline an action, are left
out. `overlapped` has the runs that were started while an earlier one was shown or
unanswered, and those earlier ones: what the properties except is a run, and a run
started after all of them were answered is not excepted. `adrift` has the runs whose
thread ended while the command may go on: a panic kills nothing, and a stop over SSH
sends an end of input and returns without waiting. `started` and `cut` relate an
action to the run it started and its timer to the run it stopped.

**FleetRuntime.** `enabled`, `copy` and `saved` are the switch in `app_config`, in
the settings view and in the file. `loop` is the task `_runtime_loop`: it sleeps,
registers, waits for a tick, or has ended, and a loop that ended is still a task
that `sync_runtime_loop` leaves in place. A worker executes `runtime_tick` or an
approved `execute_job` request by request, and goes on when the task that waits for
it is dropped. `server` is what Manage thinks of each job; a failed request may
have reached it. Registration chooses the autonomy, which then travels with each
tick. `tainted`, `interrupted` and `lost` remember what excuses a property: a save
that failed or wrote an older switch, a runtime stopped with work under way, a
failed request. Heartbeats, output and labels of jobs are left out.

**Requests.** A request is a number from the moment its draft is begun. The
generation counter is a flag of each import, cleared by whatever increments the
counter: `wrapping_add` on 64 bits never comes back to an old value, so an import
that is out of date stays so. `holds` and `attached` are the requests the
attachments of either composer were asked for. A drop, a URL and a dialog are an
`Ask` that lands as a file, a capture opens the annotator instead; only a paste
joins at once. A new request answers in two steps, `Handled` in Manage and
`Created` in the program; a send fails before or after the first. The last number
stands for every further draft and is never sent. Two equal sends under way are
one. Content asked for while its composer was not at rest, with a send under way or
an animation about to empty it, is for `None` and is not followed. `strays` has the
two ways in which the code carries other content to a request it was not asked for,
an annotator kept over a selection or a creation, and comment attachments kept over
a creation; `unsure` remembers an import that ended during a send and a creation that
was not acknowledged. The list,
filters, staff actions, mentions, deletions and the AI draft are left out.

## Runs

| Run | Bounds | What it shows |
|---|---|---|
| `pf_safety` | 2 forwards (local, remote) on one port, 2 starts, 1 connection each, 2 accounts | a tracked tunnel can be stopped, though two starts of one forward overlap |
| `pf_live` | 1 forward, 2 starts, 1 connection each, fair | every start is answered, a start that timed out frees its port, a tunnel that was let go of ends with its connections, the abstract life cycle is implemented |
| `write_single` | 1 writer, documents of 1 to 3 chunks, 3 inodes | through errors and crashes, implements `AtomicFile` |
| `store_safety` | 1 entry, 1 profile, 2 syncs, 3 edits, 1 change, 1 fault, fair | edits outside a sync's window are safe; a quiet sync converges |
| `account_safety` | 3 tokens of 2 accounts, 1 site, 1 relaunch | ended sessions stay ended; a crash keeps the login |
| `ssh_safety` | 2 tabs of 1 connection, fair | the row the tabs share and the notifications, without failed attempts beside a live tab; attempts and losses are reported |
| `tabs_safety` | 5 sessions, every gesture | types, index and marks; every leaf has a session; panes stay in their tab, and end only when closed, after the gestures the properties allow |
| `upd_safety` | 2 installs, 2 releases, 1 check at a time, 1 restart | an executable survives every failure and kill, under its name unless a rollback failed; the status is true |
| `instance_safety` | 3 launches, fair | one window that is found, acknowledged links not dropped, every launch settles |
| `scripts_safety` | a remote and a local script with variables, 2 runs, 2 AI actions, fair | editor, history, timers and audit are true of a run that overlapped no other; a stopped run is answered |
| `fleet_safety` | 2 jobs, 2 background threads, 4 switches, logins, logouts or restarts, fair | one job at a time, once, none forgotten, only when wanted; an enabled runtime that executes nothing asks again |
| `requests_safety` | 1 request, 2 drafts, 1 import, 1 animation of each sheet, 2 sends | attachments stay with their request until one of two ways to stray is taken; one draft is one request |

Why the bounds are enough: every hazard needs at most two actors of a kind and a
third to be disturbed. Two attempts give overlap of starts and a late answer
under a new tunnel; two tokens an answer of one session in another, and a third a
second session of the same account; two syncs both orders of fetch and save; two
tabs a failed or a closed one and a live one on one row; five sessions two tabs
with splits and a neighbour; two installs, in turn or at once, and two releases an
install over the result of another, with a restart in between; three launches a
window, one that meets it, and one that meets what they left; two runs one that is
stopped and one under its late answer (an overlap takes in both, so that what holds
of a run started after one is shown by the proofs, which have any number), and two AI actions one timer that outlives
its run; two jobs and two threads one job executed while another is claimed,
approved or rejected, and four switches two rounds of stopping and starting; one
import is late for any composer, and two sends and two drafts give a creation whose
answer finds the next draft. Rows of different
connections, and forwards without a common port, share no state. The bounds are
constants of the modules (`MaxConns`, `MaxAccounts`, `MaxEdits`, `MaxChanges`,
`MaxFaults`, `MaxLaunches`, `MaxRelease`, `MaxChecks`, `MaxRuns`, `MaxPlans`,
`MaxSwitches`, `MaxDrafts`, `MaxImports`, `MaxTimers`, `MaxSends`, `Inodes` and the
sets of actors) and nothing else caps a behaviour. Deadlock is not checked where a bounded
behaviour ends: after the last attempt (`PortForwards`), session (`SshSessions`,
`TerminalTabs`), launch (`UpdateInstall`, `SingleInstance`), run (`ScriptRuns`) or
draft (`Requests`) the system may stop.

The invariants these runs check are all proved as well, and so are the action
properties; what only the runs show is listed at the end of *Proofs*.

### Fairness

`PortForwards`: weak fairness of each waiter (the executor polls it, its timer
fires) and each thread (the OS runs it, TCP and SSH timeouts end a connect that
hangs). No fairness of the user, the network or the tunnel task: a connection is
aborted with the runtime of its thread.
`ConnectionStore`: weak fairness of each sync; requests have timeouts.
`SshSessions`: weak fairness of each SSH thread and its tasks, of the reader
thread and of the executor that applies events; none of the user, the remote
shell, the transport or pending input.
`SingleInstance`: weak fairness of each launch up to its window or exit, its
connect and read have timeouts of 800 ms; none of the listeners it talks to.
`ScriptRuns`: weak fairness of the start of a run (a connection attempt ends), of
its look at the shutdown channel (every 50 ms, or on waking) and of its poller; none
of the command, nor of whoever holds its pipes.
`FleetRuntime`: weak fairness of the loop, whose timer fires, and of each background
thread as long as it makes requests, which the client gives up after 10 s
(`monique_fleet.rs:380-381`); none of the user, of how Manage answers, nor of an
execution. `wait_with_timeout` kills the direct child only and then joins its pipe
readers without a limit, and standard input is written before its timer starts, so an
execution need not end.
`AccountSession`, `TerminalTabs`, `UpdateInstall` and `Requests` assume none and
state no liveness: a download has no timeout, so an install need not end. That no
composer stays blocked is the invariant `BusyMeansPending` instead.

## Findings

The modules state further properties that a document or comment promises and the
code does not keep. To see one, name it as the only INVARIANT or PROPERTY of the
configuration given.

| Property | Configuration | What happens |
|---|---|---|
| `NoTunnelCrossesAccount` | `PortForwards_live` with `MaxAccounts = 1` | a start under way at a logout becomes a tracked tunnel of the next account |
| `TrackedIsShown` | `PortForwards_live` | editing a running forward shows it Inactive and takes its Stop away |
| `TrackedServes` | `PortForwards_safety` | the port is free when it is checked and taken when it is bound: the tunnel is tracked and shown Active, and serves nobody |
| `TargetIsWhole` | `AtomicWrite_single` with `Writers = {ui, sync}` | two writers of one file share the temporary name; one publishes the other's half-written file |
| `SyncKeepsManual` | `ConnectionStore_safety` | a sync overwrites a manual edit made between its load and its save |
| `VanishedProfilesAreDeleted` | `ConnectionStore_safety` | an edit during a sync, or another sync, brings a vanished profile back |
| `RolesFollowToken` | `AccountSession_safety` | a late whoami of one account gives its roles to the session of another |
| `OnlyItsRejectionEndsASession` | `AccountSession_safety` | a late rejection ends a session whose own token is good |
| `SiteIsPersisted` | `AccountSession_safety` | the selected site is overwritten by the next save of the settings |
| `ClosedTabEndsSession` | `SshSessions_safety` | the reader's clone of the input sender keeps the session of a closed tab alive |
| `LostConnectionLeavesActive` | `SshSessions_safety` | the tab of a failed attempt counts as running and keeps the row Connected after a loss |
| `LiveTabKeepsConnected` | `SshSessions_safety` | a failed attempt shows Error on a row with a live tab |
| `PanesEndWhenClosed` | `TerminalTabs_safety` | selecting the active tab again ends its split panes |
| `NeverHalfInstalled` | `UpdateInstall_safety` | a second install started by a click shares the staging directory of the first, and either may install a half-extracted binary |
| `FailureKeepsName` | `UpdateInstall_safety` | the second rename fails and so does the rename back, which nobody is told: nothing is left under the program's name |
| `RollbackStays` | `UpdateInstall_safety` | after an update the next install takes the backup for the current executable, deletes it and fails |
| `BareLaunchFocuses` | `SingleInstance_safety` | a launch without a link is answered OK and nothing is shown: `listen_with` drops the empty payload |
| `HardTimeoutFrees` | `FleetRuntime_safety` | `monique_fleet.rs:129` promises a hard timeout per job; an execution whose pipes stay open, or whose input is not read, never returns and keeps the runtime busy |
| `TimedOutCommandStops` | `ScriptRuns_safety` | `docs/testing/USE_CASES.md:1666` says forcibly stopped; `exec_cancellable` sends an end of input and returns, and the remote command may go on |
| `NothingStrays` | `Requests_safety` | comment attachments, which `reset_issue_selection` leaves even at a logout, go to the request just created (`requests.rs:943-958`); an annotator opened for one request stays over `select_issue` or a creation and applies to the other |
| `StaleTimersAreHarmless` | `ScriptRuns_safety` with `MaxRuns = 3`, `MaxPlans = 1` | the timer of an AI action stops a later run of its script (`docs/testing/USE_CASES.md:1668` says it cannot) |

Other findings are the histories in the properties that hold. Without its history
a property shows what the history stands for:

* `PanesStayInTheirTab` without `made`: closing a tab before the active one gives its
  panes to another tab. `SoleWindow` without `upset = {}`: launches that race leave
  two windows, and so does a launch after a primary whose listener thread could not be
  created. `WindowIsFound` without it: a listener that ends reads the file late and
  removes that of a new owner. `AckedLinkIsOpened` without its last disjunct: the OK
  goes out before the link is passed on, and a window that is closed then drops it.
* `KeepsAnExecutable` without `stranded`: after a failed rollback the backup is the only
  executable, and the next install removes it as its own backup before it fails.
* `UntoldRunIsShown`, `RecordsAreTruthful` and `AuditIsTruthful` of the runs in `overlapped`: a
  run started before a stopped one has answered is freed by that answer, gets its
  lines and exit code, and goes on without a Stop. The values of a prompt
  (`run_script_with_values`) start a run whatever runs already.
* `OneJobAtATime` without `interrupted`: switching the runtime off and on, or signing
  out and in, while a job is executed starts a second beside it
  (`monique_fleet.rs:1283` promises one at a time). `AssignedJobsAreHeld` without it: a
  job claimed by a tick whose loop was dropped stays claimed for ever, and an
  autonomous tick still executes it after the switch-off.
* `StartsOnlyWanted` without `tainted`: `toggle_monique_runtime` does not refresh the
  settings view, whose next save writes the old switch, so that a runtime switched off
  starts again with the program.
* `ContentStaysWithItsRequest` of content that is for `None`: a drop or an import asked for
  while a sheet closes or a request is sent is emptied with the composer, lands in the
  next draft, or goes to the request just created; a creation acknowledged after the
  sheet was reopened empties the next draft.
* `OneRequestPerDraft` without `unsure`: an import that ends during a send clears the busy
  flag and the draft can be sent a second time.

Reading the code for these modules showed more, which no property states: a remote
script without an exit code, such as one that could not connect, is announced as
completed while the audit says failed (`workspace/scripts.rs:836-857`); a thread
that cannot be created leaves the editor running; a stop during a connection is
heeded only after the command was sent; a process left behind that holds the pipes
keeps a stopped local run unanswered; the answer of a `select_issue` may replace the
detail of another request.

## Proofs

All are for every value of the constants, under the assumption each module names.

* `PortForwards_proofs`. `TypeCorrect`, its type invariant. `TrackedTunnelsAreStoppable`: the
  invariant `Ownership` says that a handle is in the channel, with the waiter
  or in the map, in one place only, and that its thread is parked; a wake
  needs all three to be empty, which is what `TrackedStoppable` alone cannot
  say. `TunnelTasksAreDriven`: `TaskInv` ties each task, and each connection it
  accepted, to a thread that drives it, so that none outlives what can end it.
  `ImplementsLifecycleSafety`: under `RefinementInv` every step maps to a step
  of `TunnelLifecycle` or leaves its variables alone.
* `Persistence_proofs`: what is on the disk. The modules `AtomicWrite`,
  `ConnectionStore` and `AccountSession` are proved about in one place, which is why the
  first two prefix the names they would share (`WriteSpec`, `StoreSpec`).
  * `AtomicWrite`, for one writer. The invariant says that the target's
    inode is never the one open, and that an open inode holds exactly the chunks
    written. `SingleWriterIsWhole`, `SingleWriterIsAtomic`.
  * `ConnectionStore`. `SafeEdits`: between load and save the copy of a
    sync agrees with the file on every entry not exposed (`CopiesAgree`).
  * `AccountSession`. `EndedSessions`: while no save has failed the three
    copies have the same token, and a token granted but not applied has not ended.
    `CrashFindsToken` is a part of the same invariant.
* `SshSessions_proofs`. `SessionReports`: an answer is the first event of a
  session (`AnswerComesFirst`), and an unexpected end in a task, a channel or a
  notification belongs to a lost transport (`LossIsReal`). `SoleTabs`: a queue holds
  at most an answer and an end (`QueueShape`), and the row of a tab that is alone on its
  connection says nothing of a shell before its answer and the truth after its
  last event (`RowTells`); it needs that the name for no connection is not one.
  `SharedRows`: for any number of tabs, `RowStands` ties the row to the tabs that are
  open with an answer and to the events still to be applied.
* `UpdateInstall_proofs`. The invariant is about installs that never overlapped: a
  lone install owns the staging directory and the worker, so the binary it copies
  is whole and is its own; and it ties the step of the install to what is under
  each of the three names and to `self`. That `self` may be the backup, or a
  removed one, is what makes a second install harmless: its first rename fails.
  After a failed rollback the name stays empty and `self` is the backup or removed,
  which is all that is left to say (`stranded`). `ExecutableKept`, `NameRuns`,
  `UpdatedHolds`, `BackupKept` follow from it.
* `Window_proofs`: the one window, and the tabs in it (`TerminalTabs` prefixes the names
  it would share with `SingleInstance`).
  * `SingleInstance`, for any number of launches. While nothing was upset there
    is one launch that has not decided, at most one owner of a published socket, and
    the file names it; while a launch asks, the only owner is the one it asks, and once
    it takes over there is none, and none lost its listener (`NoneIsDeaf`).
    `OneWindow`, `WindowFound`. `AckKept` needs no such
    condition: by itself it is inductive over the type invariant.
  * `TerminalTabs`, for any number of sessions. `TabsInv` has what every view is
    (`Whole`: distinct tabs, each opened as itself, layouts backed by sessions that were
    opened, nothing left without tabs), where panes are (`Placed`), and that the layout
    shown is not also put aside (`Unsaved`), which alone keeps the next switch from
    overwriting one. `close_tabs_to_left` and `close_tabs_to_right` close one tab after
    another: `WithoutTabs` is a recursive function, `ClosingUnfolds` that it is what its
    equation says, and `RunClosed` what a run of closings keeps. Both are inductions
    over the length, argued by the least counterexample (`Least`, from the
    well-foundedness of the naturals). The point of `RunClosed` is that each tab stands
    right after position `p` when its turn comes, so none is closed before the active
    one if the first is not. `TabTypes`, `PanesBacked`, `PanesAtHome`, and the action
    property `RegularUseKeeps`.
* `FleetRuntime_proofs`, for any number of jobs, threads and switches. `LoneInv`: until the
  runtime is stopped with work under way there is one thing to do, a tick or a job, and
  `runtime_busy` stands for it; `OneAtATime` follows. `PlaceInv` and `OnceInv`: a job is in
  one place (offered, being rejected, or with one thread), and one that was
  started is nowhere else than with the thread that executes it: `ExecutedOnce`,
  `NothingForgotten`. `LoopInv` and `ChoiceInv` tie the loop to the last choice of the
  user and to the file: `WantedOnly`.
* `ScriptRuns_proofs`, for any scripts and AI actions. Types, `Past` (every run up to the
  last has its script, and no other has a phase) and `Tracked` (no record of an AI action
  that was not confirmed) hold always. So does `Calm`: besides the last run only runs that
  overlapped are polled or have a handle, so what happens to the record, the timer or
  the audit of a run that overlapped none is that run's own doing, also after an
  overlap has passed. `UntoldIsShown`,
  `TruthfulRecords`, `TimersStopTheirs`, `TruthfulAudit`.
* `Requests_proofs`, for any number of requests, imports, animations and sends.
  `FlagIsCleared` (`BusyMeansPending`) is inductive. `DraftsBecomeOne` needs
  `OneSend`: until an import ended during a send there is one send at most, the
  flag stands for it, and the only draft that may have been created without its
  composer knowing is the one it was sent for. `ContentStays` needs three parts
  more, all about content asked for at rest: an import that is not out of date will join
  the request it was asked for, in a composer that no send and no timer will empty
  (`WaitsInv`); the draft a capture was asked for is overtaken only by a creation sent
  later (`KeptInv`); and a draft that is not the one being created holds none that the
  answer might carry along (`SentInv`).

Model-checked only: all liveness (`EveryStartSettles`, `TimedOutStartFreesPort`,
`ConnectingResolves`, `LostSessionIsShown`, `QuietSyncConverges`, `LaunchSettles`,
`ReleasedTunnelCloses`, `EnabledRuntimeAsks`, `StoppedRunEnds`): fairness and ENABLED are out of the prover's
reach, and with them `ImplementsLifecycle` beyond its safety part.

## Plan

1. Done: the modules above.
2. Done: every invariant and action property of the runs, and the safety of both
   refinements, as theorems. Next proofs go with the next modules.
3. Next modules: `LocalTerminal` (reaper against the writer's EOF), `KnownHosts` (two
   first connections to one host).
4. Compositions: `PortForwards` and `ScriptRuns` with `AccountSession` through
   `stop_authenticated_runtime`; `SshSessions` with `TerminalTabs` (a close
   drops exactly the sessions of the layout); `ConnectionStore` over
   `AtomicWrite` with two writers.

## Not modelled

The terminal grid and parser are sequential data transformations with large
state. The pool and the configuration watcher have no caller outside tests.
Server sync runs external tools one after the other in one thread; the AI backends,
the Monique and bext consoles and the update worker are requests to services. Of
the AI actions only those that run a script are modelled. The polls of the consoles (`monique.rs`,
`bext.rs`) are not modelled: one that finds the settings open ends, and its finished
task keeps it from being started again until its surface is left. The local terminal is left to the plan: whether a child hears of its closed
terminal depends on the descriptors the operating system duplicates, not on state the
program keeps. Rendering, menus, themes, the companion
and packaging have no protocol. Split panes of SSH sessions
(`connect_ssh_split`) report no lifecycle, so no row depends on them.
