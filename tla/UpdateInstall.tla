---------------------------- MODULE UpdateInstall ----------------------------
(***************************************************************************)
(* The automatic updater (shelldeck-update): the hourly check, the status    *)
(* bar entry that starts an install by hand, and the Linux installation,     *)
(* which stages the new binary next to the executable and swaps it in with   *)
(* two renames.                                                             *)
(*                                                                         *)
(* Installs are tasks of a runtime with a single worker thread: they         *)
(* interleave only where they wait, for the download and for tar.  Nothing   *)
(* keeps a second one from starting, and all of them use the same staging    *)
(* directory and the same three paths.  The kernel reports the executable of *)
(* the process under the name it has now, so once moved aside it is the      *)
(* backup.                                                                   *)
(*                                                                         *)
(* Left out: a backup that cannot be removed where the rename over it can    *)
(* (the directory permits both or neither).                                  *)
(***************************************************************************)
EXTENDS Integers

CONSTANTS
  Installs,    \* bound: installs under way at the same time
  MaxRelease,  \* bound: releases published, numbered from 1
  MaxChecks,   \* bound: checks under way at the same time
  MaxLaunches, \* bound: restarts of the program
  None

ASSUME UpdateInstallAssumption ==
  /\ MaxRelease \in Nat /\ MaxChecks \in Nat /\ MaxLaunches \in Nat
  /\ None \notin Nat /\ None \notin Installs
  /\ None \notin [rel : Nat, whole : BOOLEAN]

VARIABLES
  published,  \* the newest release on the server
  running,    \* the release this process runs; None when the program is not running
  enabled,    \* the auto-update setting
  checks,     \* checks waiting for the server
  latest,     \* latest_release: what a click on the status bar installs
  status,     \* AutoUpdateStatus
  inst,       \* inst[i]: progress, release and current_exe of install i (Exe until read)
  worker,     \* the install that holds the worker thread, or None
  stage,      \* the staging directory: who made it and the binary in it
  file,       \* file[p]: the binary at path p
  self,       \* the path of the running executable
  overlapped, \* history: two installs were under way at the same time
  stranded,   \* history: a rollback failed and left nothing under the program's name
  launches    \* counter of the bound

updater == <<enabled, checks, latest, status>>
disk == <<stage, file, self>>
process == <<published, running, launches, stranded>>
vars == <<updater, inst, worker, disk, process, overlapped>>

Exe == "shelldeck"
Bak == "shelldeck.bak"
New == "shelldeck.new"
Deleted == "shelldeck.bak (deleted)"
Paths == {Exe, Bak, New, Deleted}

Release == 1..MaxRelease
Whole(r) == [rel |-> r, whole |-> TRUE]
Part(r) == [rel |-> r, whole |-> FALSE]
Binary == [rel : 0..MaxRelease, whole : BOOLEAN]
Says(kind, r) == [kind |-> kind, rel |-> r]
Quiet == Says("Idle", None)

Idle == [pc |-> "none", rel |-> None, exe |-> Exe]
NoStage == [by |-> None, bin |-> None]

Init ==
  /\ published = 0 /\ running = 0 /\ launches = 0
  /\ enabled \in BOOLEAN /\ checks = 0 /\ latest = None /\ status = Quiet
  /\ inst = [i \in Installs |-> Idle] /\ worker = None
  /\ stage = NoStage
  /\ file = [p \in Paths |-> IF p = Exe THEN Whole(0) ELSE None] /\ self = Exe
  /\ overlapped = FALSE /\ stranded = FALSE

Active(i) == inst[i].pc # "none"

-----------------------------------------------------------------------------
(* The updater                                                              *)

Publish ==
  /\ published < MaxRelease
  /\ published' = published + 1
  /\ UNCHANGED <<updater, inst, worker, disk, running, launches, stranded, overlapped>>

SetEnabled ==
  /\ running # None
  /\ enabled' = ~enabled
  /\ UNCHANGED <<checks, latest, status, inst, worker, disk, process, overlapped>>

Poll ==
  /\ running # None /\ enabled /\ checks < MaxChecks
  /\ checks' = checks + 1
  /\ status' = Says("Checking", None)
  /\ UNCHANGED <<enabled, latest, inst, worker, disk, process, overlapped>>

CheckFails ==
  /\ checks > 0
  /\ checks' = checks - 1
  /\ status' = Says("Errored", None)
  /\ UNCHANGED <<enabled, latest, inst, worker, disk, process, overlapped>>

\* download_and_install: no other install is looked for.
Begin(r) ==
  /\ \E i \in Installs :
       /\ ~Active(i)
       /\ inst' = [inst EXCEPT ![i] = [pc |-> "downloading", rel |-> r, exe |-> Exe]]
  /\ overlapped' = (overlapped \/ \E i \in Installs : Active(i))
  /\ status' = Says("Downloading", None)

UpToDate ==
  /\ checks > 0 /\ published <= running
  /\ checks' = checks - 1
  /\ status' = Quiet
  /\ UNCHANGED <<enabled, latest, inst, worker, disk, process, overlapped>>

Found ==
  /\ checks > 0 /\ published > running
  /\ checks' = checks - 1
  /\ latest' = published
  /\ IF enabled THEN Begin(published)
                ELSE status' = Says("UpdateAvailable", published) /\ UNCHANGED <<inst, overlapped>>
  /\ UNCHANGED <<enabled, worker, disk, process>>

\* The status bar shows every status but Idle, and takes a click on any of them.
Click ==
  /\ status.kind # "Idle" /\ latest # None
  /\ latest' = None
  /\ Begin(latest)
  /\ UNCHANGED <<enabled, checks, worker, disk, process>>

-----------------------------------------------------------------------------
(* One install                                                              *)

Goto(i, pc) == inst' = [inst EXCEPT ![i].pc = pc]
AtStep(i, pc) == inst[i].pc = pc
elsewhere == <<enabled, checks, latest, process, overlapped>>

DownloadEnds(i) ==
  /\ AtStep(i, "downloading")
  /\ \/ Goto(i, "ready") /\ status' = Says("Installing", None)
     \/ Goto(i, "failed") /\ UNCHANGED status
  /\ UNCHANGED <<elsewhere, worker, disk>>

\* The staging directory is made anew and tar started in it.
Prepare(i) ==
  /\ AtStep(i, "ready") /\ worker = None
  /\ inst' = [inst EXCEPT ![i].pc = "tar", ![i].exe = self]
  /\ stage' = [by |-> i, bin |-> None]
  /\ UNCHANGED <<elsewhere, status, worker, file, self>>

TarWrites(i) ==
  /\ AtStep(i, "tar") /\ stage.by = i
  /\ stage' = [stage EXCEPT !.bin = Part(inst[i].rel)]
  /\ UNCHANGED <<elsewhere, status, inst, worker, file, self>>

\* In a directory removed under it tar may go on writing, where nobody looks.
TarEnds(i) ==
  /\ AtStep(i, "tar")
  /\ Goto(i, "extracted")
  /\ stage' = IF stage.by = i THEN [stage EXCEPT !.bin = Whole(inst[i].rel)] ELSE stage
  /\ UNCHANGED <<elsewhere, status, worker, file, self>>

\* Making the directory, tar or the search for the binary fails.
StagingFails(i) ==
  /\ \/ AtStep(i, "ready") /\ worker = None
     \/ AtStep(i, "tar")
     \/ AtStep(i, "extracted") /\ worker = None
  /\ Goto(i, "failed")
  /\ UNCHANGED <<elsewhere, status, worker, disk>>

Copy(i) ==
  /\ AtStep(i, "extracted") /\ worker = None /\ stage.bin # None
  /\ worker' = i
  /\ \/ Goto(i, "copied") /\ file' = [file EXCEPT ![New] = stage.bin]
     \/ Goto(i, "broken") /\ file' = [file EXCEPT ![New] = Part(inst[i].rel)]
  /\ UNCHANGED <<elsewhere, status, stage, self>>

(* atomic_replace_file                                                      *)

DropBackup(i) ==
  /\ AtStep(i, "copied")
  /\ Goto(i, "dropped")
  /\ file' = [file EXCEPT ![Bak] = None]
  /\ self' = IF self = Bak THEN Deleted ELSE self
  /\ UNCHANGED <<elsewhere, status, worker, stage>>

\* Faulty variants, used by no action, are named ...Fault...
\* Fault: the executable is removed instead of moved.
MoveAsideFaultRemoves(i) ==
  /\ AtStep(i, "dropped") /\ file[inst[i].exe] # None
  /\ Goto(i, "aside")
  /\ file' = [file EXCEPT ![inst[i].exe] = None]
  /\ self' = IF self = inst[i].exe THEN Deleted ELSE self
  /\ UNCHANGED <<elsewhere, status, worker, stage>>

MoveAside(i) ==
  /\ AtStep(i, "dropped") /\ file[inst[i].exe] # None
  /\ Goto(i, "aside")
  /\ file' = [file EXCEPT ![Bak] = file[inst[i].exe], ![inst[i].exe] = None]
  /\ self' = IF self = inst[i].exe THEN Bak ELSE self
  /\ UNCHANGED <<elsewhere, status, worker, stage>>

\* The first rename fails, always when current_exe is the backup just removed.
MoveAsideFails(i) ==
  /\ AtStep(i, "dropped")
  /\ Goto(i, "broken")
  /\ UNCHANGED <<elsewhere, status, worker, disk>>

PutInPlace(i) ==
  /\ AtStep(i, "aside")
  /\ Goto(i, "placed")
  /\ file' = [file EXCEPT ![inst[i].exe] = file[New], ![New] = None]
  /\ UNCHANGED <<elsewhere, status, worker, stage, self>>

\* Fault: nothing is moved back.
PutFailsFaultNoRollback(i) ==
  /\ AtStep(i, "aside")
  /\ Goto(i, "broken")
  /\ UNCHANGED <<elsewhere, status, worker, disk>>

\* The second rename fails: the first one is undone.
PutFails(i) ==
  /\ AtStep(i, "aside")
  /\ Goto(i, "broken")
  /\ file' = [file EXCEPT ![inst[i].exe] = file[Bak], ![Bak] = None]
  /\ self' = IF self = Bak THEN inst[i].exe ELSE self
  /\ UNCHANGED <<elsewhere, status, worker, stage>>

\* The rename back fails too, which nobody is told: the program is left as its backup.
RollbackFails(i) ==
  /\ AtStep(i, "aside")
  /\ Goto(i, "broken")
  /\ stranded' = TRUE
  /\ UNCHANGED <<updater, published, running, launches, worker, disk, overlapped>>

\* The staging directory goes only when all went well, and if it can.
LeaveWorker(i) ==
  /\ worker = i
  /\ worker' = None
  /\ \/ AtStep(i, "broken") /\ Goto(i, "failed") /\ UNCHANGED stage
     \/ AtStep(i, "placed") /\ Goto(i, "installed") /\ stage' \in {NoStage, stage}
  /\ UNCHANGED <<elsewhere, status, file, self>>

\* Fault: the newest release is named, not the one installed.
ReportFaultNewest(i) ==
  /\ AtStep(i, "installed") \/ AtStep(i, "failed")
  /\ inst' = [inst EXCEPT ![i] = Idle]
  /\ status' = IF AtStep(i, "installed") THEN Says("Updated", published)
                                         ELSE Says("Errored", None)
  /\ UNCHANGED <<elsewhere, worker, disk>>

Report(i) ==
  /\ AtStep(i, "installed") \/ AtStep(i, "failed")
  /\ inst' = [inst EXCEPT ![i] = Idle]
  /\ status' = IF AtStep(i, "installed") THEN Says("Updated", inst[i].rel)
                                         ELSE Says("Errored", None)
  /\ UNCHANGED <<elsewhere, worker, disk>>

-----------------------------------------------------------------------------
(* The process                                                              *)

\* The user quits or the program dies, at any step of an install.
Stop ==
  /\ running # None
  /\ running' = None
  /\ checks' = 0 /\ latest' = None /\ status' = Quiet
  /\ inst' = [i \in Installs |-> Idle] /\ worker' = None
  /\ UNCHANGED <<enabled, disk, published, launches, stranded, overlapped>>

\* Started by its name, if what is there can be executed.
Launch ==
  /\ running = None /\ launches < MaxLaunches
  /\ file[Exe] # None /\ file[Exe].whole
  /\ running' = file[Exe].rel
  /\ self' = Exe
  /\ launches' = launches + 1
  /\ UNCHANGED <<updater, inst, worker, stage, file, published, stranded, overlapped>>

InstallStep(i) ==
  \/ DownloadEnds(i) \/ Prepare(i) \/ TarWrites(i) \/ TarEnds(i) \/ StagingFails(i)
  \/ Copy(i) \/ DropBackup(i) \/ MoveAside(i) \/ MoveAsideFails(i)
  \/ PutInPlace(i) \/ PutFails(i) \/ RollbackFails(i) \/ LeaveWorker(i) \/ Report(i)

Next ==
  \/ Publish \/ SetEnabled \/ Poll \/ CheckFails \/ UpToDate \/ Found \/ Click
  \/ \E i \in Installs : InstallStep(i)
  \/ Stop \/ Launch

Spec == Init /\ [][Next]_vars

-----------------------------------------------------------------------------
(* Properties                                                               *)

Steps == {"none", "downloading", "ready", "tar", "extracted", "copied", "dropped",
          "aside", "placed", "broken", "installed", "failed"}
OnWorker == {"copied", "dropped", "aside", "placed", "broken"}

Progress == [pc : Steps, rel : Release \cup {None}, exe : {Exe, Bak, Deleted}]

\* Every variable has its kind; the worker is held in the swap and nowhere else;
\* the release a click would install is newer than the running one.
TypeOK ==
  /\ published \in 0..MaxRelease /\ running \in 0..MaxRelease \cup {None}
  /\ launches \in Nat /\ overlapped \in BOOLEAN /\ stranded \in BOOLEAN
  /\ enabled \in BOOLEAN /\ checks \in 0..MaxChecks
  /\ latest # None => latest \in Release /\ latest > running
  /\ status.kind \in {"Idle", "Checking", "Downloading", "Installing",
                      "UpdateAvailable", "Updated", "Errored"}
  /\ status.rel \in Release \cup {None}
  /\ inst \in [Installs -> Progress]
  /\ \A i \in Installs : worker = i <=> inst[i].pc \in OnWorker
  /\ worker \in Installs \cup {None}
  /\ stage \in [by : Installs \cup {None}, bin : Binary \cup {None}]
  /\ file \in [Paths -> Binary \cup {None}] /\ file[Deleted] = None
  /\ self \in {Exe, Bak, Deleted}

IsWhole(p) == file[p] # None /\ file[p].whole
Swapping == \E i \in Installs : AtStep(i, "aside")

\* Whenever the program is killed, a whole executable is left under its own name or
\* as the backup (install_linux), unless two installs ran at once.  A rollback that
\* failed still leaves the backup; it takes a further install, which removes what is
\* then the running program as its own backup, to lose that too.
KeepsAnExecutable ==
  ~overlapped => IsWhole(Exe) \/ IsWhole(Bak) \/ (stranded /\ self = Deleted)

\* While the program runs and no swap is half done, its name leads to a whole
\* executable, whatever failed before but the rollback itself (atomic_replace_file).
RunnableByName ==
  ~overlapped /\ ~stranded /\ running # None /\ ~Swapping => IsWhole(Exe)

\* "Updated to v - restart to apply" is shown only while v is what a restart runs.
UpdatedIsInstalled ==
  ~overlapped /\ status.kind = "Updated" => file[Exe] = Whole(status.rel)

\* An install that succeeds leaves the release it replaced, the running one, as
\* the backup (the rollback copy of linux_binary_replacement_is_atomic_and_keeps_backup).
BackupIsPrevious ==
  \A i \in Installs : ~overlapped /\ AtStep(i, "installed") => file[Bak] = Whole(running)

\* What atomic_replace_file is tested for: an update that fails leaves the program
\* under its name.  The result of the rename back is ignored, and when it fails
\* nothing is left there.
FailureKeepsName == ~overlapped /\ running # None /\ ~Swapping => IsWhole(Exe)

\* What the documentation promises: no failure and no success leaves a
\* half-installed executable (two installs share the staging directory).
NeverHalfInstalled == file[Exe] # None => file[Exe].whole

\* The binary of the running program stays, as the rollback copy once it is
\* replaced (a second install takes it for the current executable, deletes it as
\* its own backup and fails).
RollbackStays == ~overlapped /\ running # None => self # Deleted
=============================================================================
