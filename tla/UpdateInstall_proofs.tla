------------------------- MODULE UpdateInstall_proofs -------------------------
(***************************************************************************)
(* Proofs about UpdateInstall, for any number of concurrent installs,        *)
(* releases, checks and launches.                                            *)
(*                                                                         *)
(* As long as no two installs have run at once, the one under way owns the    *)
(* staging directory and the three paths: what it staged is the whole         *)
(* binary of its release, and where the running binary is follows from how    *)
(* far it has come.                                                          *)
(***************************************************************************)
EXTENDS UpdateInstall, TLAPS

\* A stopped program has no install, check or release in hand; an install has a
\* release, and what it moved aside was there.
Stopped == running = None => /\ checks = 0 /\ latest = None /\ status = Quiet
                             /\ worker = None /\ \A i \in Installs : ~Active(i)
Named == \A i \in Installs : /\ Active(i) => inst[i].rel \in Release
                             /\ inst[i].pc = "aside" => inst[i].exe # Deleted

Alone == \A i, j \in Installs : Active(i) /\ Active(j) => i = j

\* Where the running binary is while install i is under way ...
Captured(i) ==
  /\ inst[i].pc \in {"tar", "extracted", "copied"} => inst[i].exe = self
  /\ inst[i].pc = "aside" => file[Exe] = None
  /\ inst[i].pc = "dropped" => file[Bak] = None /\ (inst[i].exe = Exe => self = Exe)
  /\ inst[i].pc \in {"aside", "placed", "installed"} =>
       inst[i].exe = Exe /\ self = Bak /\ file[Bak] = Whole(running) /\ ~stranded
\* ... and where the new one is.
Staged(i) ==
  /\ inst[i].pc = "tar" => stage.by = i
  /\ inst[i].pc = "extracted" => stage.bin = Whole(inst[i].rel)
  /\ inst[i].pc \in {"copied", "dropped", "aside"} => file[New] = Whole(inst[i].rel)
  /\ inst[i].pc \in {"placed", "installed"} => file[Exe] = Whole(inst[i].rel)

\* What a launch finds, now or after a crash, and after a failed rollback.
Usable == /\ IsWhole(Exe) \/ IsWhole(Bak) \/ (stranded /\ self = Deleted)
          /\ running # None /\ ~Swapping /\ ~stranded => IsWhole(Exe)
          /\ running # None /\ self = Exe => file[Exe] = Whole(running)
          /\ stranded => file[Exe] = None /\ self # Exe
UpdatedStands == status.kind = "Updated" => /\ file[Exe] = Whole(status.rel)
                                            /\ \A i \in Installs : ~Active(i)

Undisturbed == /\ Alone /\ Usable /\ UpdatedStands
               /\ \A i \in Installs : Captured(i) /\ Staged(i)

Inv == TypeOK /\ Stopped /\ Named /\ (~overlapped => Undisturbed)

-----------------------------------------------------------------------------
(* Facts about the operators                                                *)

LEMMA PathsDiffer ==
  /\ Exe # Bak /\ Exe # New /\ Bak # New /\ Deleted \notin {Exe, Bak, New}
  /\ Paths = {Exe, Bak, New, Deleted}
  BY DEF Exe, Bak, New, Deleted, Paths

LEMMA Binaries ==
  ASSUME NEW r \in 0..MaxRelease
  PROVE  /\ Whole(r) \in Binary /\ Part(r) \in Binary
         /\ Whole(r) # None /\ Part(r) # None /\ Whole(r).whole /\ Whole(r).rel = r
<1>1. Whole(r) \in [rel : Nat, whole : BOOLEAN] /\ Part(r) \in [rel : Nat, whole : BOOLEAN]
  BY UpdateInstallAssumption DEF Whole, Part
<1>2. QED
  BY <1>1, UpdateInstallAssumption DEF Whole, Part, Binary

LEMMA WholeBinary ==
  ASSUME NEW b \in Binary, b.whole
  PROVE  b = Whole(b.rel) /\ b.rel \in 0..MaxRelease
  BY DEF Whole, Binary

\* A step of one install moves that install and no other.
LEMMA GotoFacts ==
  ASSUME TypeOK, NEW i \in Installs, NEW s \in Steps, Goto(i, s)
  PROVE  /\ inst' \in [Installs -> Progress]
         /\ inst'[i].pc = s /\ inst'[i].rel = inst[i].rel /\ inst'[i].exe = inst[i].exe
         /\ \A j \in Installs \ {i} : inst'[j] = inst[j]
  BY DEF Goto, TypeOK, Progress

LEMMA BeginFacts ==
  ASSUME TypeOK, NEW r \in Release, Begin(r)
  PROVE  /\ inst' \in [Installs -> Progress]
         /\ \E i \in Installs :
              /\ inst[i].pc = "none" /\ inst'[i].pc = "downloading" /\ inst'[i].rel = r
              /\ \A j \in Installs \ {i} : inst'[j] = inst[j]
         /\ overlapped' \in BOOLEAN
         /\ ~overlapped' => ~overlapped /\ \A j \in Installs : inst[j].pc = "none"
         /\ status' = Says("Downloading", None)
<1>1. PICK i \in Installs : /\ ~Active(i)
                            /\ inst' = [inst EXCEPT ![i] = [pc |-> "downloading", rel |-> r,
                                                            exe |-> Exe]]
  BY DEF Begin
<1>2. /\ inst' \in [Installs -> Progress]
      /\ inst'[i].pc = "downloading" /\ inst'[i].rel = r
      /\ \A j \in Installs \ {i} : inst'[j] = inst[j]
  BY <1>1 DEF TypeOK, Progress, Steps
<1>3. QED
  BY <1>1, <1>2 DEF Begin, Active, TypeOK

LEMMA InvInit == Init => Inv
<1>. SUFFICES ASSUME Init PROVE Inv
  OBVIOUS
<1>. USE UpdateInstallAssumption, PathsDiffer
<1>1. 0 \in 0..MaxRelease /\ file[Exe] = Whole(0) /\ file \in [Paths -> Binary \cup {None}]
  BY Binaries DEF Init
<1>2. \A i \in Installs : inst[i] = Idle /\ inst[i].pc = "none"
  BY DEF Init, Idle
<1>3. TypeOK
  <2>1. /\ inst \in [Installs -> Progress]
        /\ \A i \in Installs : inst[i].pc \notin OnWorker
    BY <1>2 DEF Init, Idle, Progress, Steps, OnWorker
  <2>2. /\ stage \in [by : Installs \cup {None}, bin : Binary \cup {None}]
        /\ file[Deleted] = None
    BY DEF Init, NoStage
  <2>3. published \in 0..MaxRelease /\ running \in 0..MaxRelease /\ checks \in 0..MaxChecks
    BY DEF Init
  <2>4. status = Quiet /\ latest = None /\ worker = None /\ worker \notin Installs
    BY DEF Init
  <2>5. enabled \in BOOLEAN /\ overlapped \in BOOLEAN /\ stranded \in BOOLEAN
    BY DEF Init
  <2>6. /\ status.kind \in {"Idle", "Checking", "Downloading", "Installing",
                            "UpdateAvailable", "Updated", "Errored"}
        /\ status.rel \in Release \cup {None}
    BY <2>4 DEF Quiet, Says
  <2>7. launches \in Nat /\ self \in {Exe, Bak, Deleted}
    BY DEF Init
  <2>8. \A i \in Installs : worker = i <=> inst[i].pc \in OnWorker
    BY <2>1, <2>4
  <2>9. QED
    BY <1>1, <2>1, <2>2, <2>3, <2>4, <2>5, <2>6, <2>7, <2>8 DEF TypeOK
<1>4. Stopped /\ Named /\ Alone /\ \A i \in Installs : Captured(i) /\ Staged(i)
  BY <1>2 DEF Init, Stopped, Named, Alone, Active, Captured, Staged
<1>5. Usable /\ UpdatedStands
  BY <1>1, Binaries DEF Init, Usable, IsWhole, UpdatedStands, Quiet, Says
<1>6. QED
  BY <1>3, <1>4, <1>5 DEF Inv, Undisturbed

-----------------------------------------------------------------------------
(* The steps of an install                                                  *)

TypeDisk == /\ stage \in [by : Installs \cup {None}, bin : Binary \cup {None}]
            /\ file \in [Paths -> Binary \cup {None}] /\ file[Deleted] = None
            /\ self \in {Exe, Bak, Deleted}

\* The worker stays, is taken by install i, or is left by it.
WorkerMoves(i, s) ==
  \/ worker' = worker /\ (inst[i].pc \in OnWorker <=> s \in OnWorker)
  \/ worker = None /\ worker' = i /\ s \in OnWorker
  \/ worker = i /\ worker' = None /\ s \notin OnWorker

\* Install i goes to step s; nothing else of any install moves but its executable.
Moves(i, s) ==
  /\ inst' \in [Installs -> Progress]
  /\ inst'[i].pc = s /\ inst'[i].rel = inst[i].rel
  /\ s = "aside" => inst'[i].exe # Deleted
  /\ \A j \in Installs \ {i} : inst'[j] = inst[j]

\* What most of them leave alone.
LEMMA Elsewhere ==
  ASSUME Inv, UNCHANGED elsewhere
  PROVE  /\ UNCHANGED <<enabled, checks, latest, published, running, launches, overlapped>>
         /\ stranded' = stranded /\ stranded' \in BOOLEAN
  BY DEF Inv, TypeOK, elsewhere, process

\* What is left to show of a step of install i.
LEMMA InstallMoves ==
  ASSUME Inv, NEW i \in Installs, Active(i), NEW s \in Steps \ {"none"}, Moves(i, s),
         UNCHANGED <<enabled, checks, latest, published, running, launches, overlapped>>,
         stranded' \in BOOLEAN, status' = status \/ status' = Says("Installing", None),
         WorkerMoves(i, s), TypeDisk',
         ~overlapped /\ (Swapping <=> inst[i].pc = "aside") /\ (Swapping' <=> s = "aside")
           => Captured(i)' /\ Staged(i)' /\ Usable'
  PROVE  Inv'
<1>. USE UpdateInstallAssumption
<1>1. /\ running # None /\ inst[i].rel \in Release
      /\ inst \in [Installs -> Progress] /\ overlapped \in BOOLEAN
      /\ UNCHANGED <<enabled, checks, latest, published, running, launches, overlapped>>
  BY DEF Inv, Stopped, Named, TypeOK
<1>2. Stopped' /\ Named'
  <2>1. running' # None
    BY <1>1
  <2>2. \A j \in Installs : /\ inst'[j].pc # "none" => inst'[j].rel \in Release
                            /\ inst'[j].pc = "aside" => inst'[j].exe # Deleted
    BY <1>1 DEF Inv, Named, Moves, Active
  <2>3. QED
    BY <2>1, <2>2 DEF Stopped, Named, Active
<1>3. TypeOK'
  <2>1. \A j \in Installs : worker = j <=> inst[j].pc \in OnWorker
    BY DEF Inv, TypeOK
  <2>2. \A j \in Installs : worker' = j <=> inst'[j].pc \in OnWorker
    BY <2>1 DEF Moves, WorkerMoves
  <2>3. worker' \in Installs \cup {None}
    BY DEF WorkerMoves, Inv, TypeOK
  <2>4. /\ status'.kind \in {"Idle", "Checking", "Downloading", "Installing",
                             "UpdateAvailable", "Updated", "Errored"}
        /\ status'.rel \in Release \cup {None}
    BY DEF Inv, TypeOK, Says
  <2>5. /\ published' \in 0..MaxRelease /\ running' \in 0..MaxRelease \cup {None}
        /\ launches' \in Nat /\ checks' \in 0..MaxChecks
        /\ latest' # None => latest' \in Release /\ latest' > running'
    BY <1>1 DEF Inv, TypeOK
  <2>6. enabled' \in BOOLEAN /\ overlapped' \in BOOLEAN
    BY <1>1 DEF Inv, TypeOK
  <2>7. inst' \in [Installs -> Progress]
    BY DEF Moves
  <2>8. QED
    BY <2>2, <2>3, <2>4, <2>5, <2>6, <2>7 DEF TypeOK, TypeDisk
<1>4. ASSUME ~overlapped' PROVE Undisturbed'
  <2>1. ~overlapped /\ Undisturbed
    BY <1>1, <1>4 DEF Inv
  <2>2. \A j \in Installs \ {i} : inst[j].pc = "none" /\ inst'[j].pc = "none"
    BY <2>1 DEF Undisturbed, Alone, Active, Moves
  <2>3. (Swapping <=> inst[i].pc = "aside") /\ (Swapping' <=> s = "aside")
    BY <2>2 DEF Swapping, AtStep, Moves
  <2>4. Captured(i)' /\ Staged(i)' /\ Usable'
    BY <2>1, <2>3
  <2>5. \A j \in Installs : Captured(j)' /\ Staged(j)'
    BY <2>2, <2>4 DEF Captured, Staged
  <2>6. Alone'
    BY <2>2 DEF Alone, Active
  <2>7. UpdatedStands'
    <3>1. status.kind # "Updated"
      BY <2>1 DEF Undisturbed, UpdatedStands
    <3>2. status'.kind # "Updated"
      BY <3>1 DEF Says
    <3>3. QED
      BY <3>2 DEF UpdatedStands
  <2>8. QED
    BY <2>4, <2>5, <2>6, <2>7 DEF Undisturbed
<1>5. QED
  BY <1>2, <1>3, <1>4 DEF Inv

\* The same for the steps that only go on.
LEMMA GotoMoves ==
  ASSUME Inv, NEW i \in Installs, NEW s \in Steps \ {"aside"}, Goto(i, s)
  PROVE  Moves(i, s) /\ inst'[i].exe = inst[i].exe /\ TypeDisk
  BY GotoFacts DEF Inv, Moves, TypeOK, TypeDisk

LEMMA DownloadStep == ASSUME Inv, NEW i \in Installs, DownloadEnds(i) PROVE Inv'
<1>1. PICK s \in {"ready", "failed"} : Goto(i, s)
  BY DEF DownloadEnds
<1>2. /\ inst[i].pc = "downloading" /\ UNCHANGED elsewhere
      /\ status' = status \/ status' = Says("Installing", None)
      /\ worker' = worker /\ UNCHANGED <<stage, file, self>>
  BY DEF DownloadEnds, AtStep, disk
<1>3. Moves(i, s) /\ TypeDisk /\ s \in Steps \ {"none"}
  BY <1>1, GotoMoves DEF Steps
<1>4. WorkerMoves(i, s)
  BY <1>2 DEF WorkerMoves, OnWorker
<1>5. ASSUME ~overlapped, Swapping <=> inst[i].pc = "aside", Swapping' <=> s = "aside"
      PROVE  Captured(i)' /\ Staged(i)' /\ Usable'
  <2>1. Captured(i)' /\ Staged(i)'
    BY <1>3 DEF Captured, Staged, Moves
  <2>2. Usable'
    BY <1>2, <1>5 DEF Inv, Undisturbed, Usable, IsWhole, elsewhere, process
  <2>3. QED
    BY <2>1, <2>2
<1>6. TypeDisk'
  BY <1>2, <1>3 DEF TypeDisk
<1>7. QED
  BY <1>2, <1>3, <1>4, <1>5, <1>6, InstallMoves, Elsewhere DEF Active

LEMMA PrepareStep == ASSUME Inv, NEW i \in Installs, Prepare(i) PROVE Inv'
<1>1. /\ inst[i].pc = "ready" /\ UNCHANGED elsewhere /\ status' = status
      /\ worker' = worker /\ UNCHANGED <<file, self>> /\ stage' = [by |-> i, bin |-> None]
  BY DEF Prepare, AtStep
<1>2. /\ inst \in [Installs -> Progress] /\ self \in {Exe, Bak, Deleted} /\ TypeDisk
  BY DEF Inv, TypeOK, TypeDisk
<1>3. Moves(i, "tar") /\ inst'[i].exe = self /\ "tar" \in Steps \ {"none"}
  BY <1>2 DEF Prepare, Moves, Progress, Steps
<1>4. WorkerMoves(i, "tar")
  BY <1>1 DEF WorkerMoves, OnWorker
<1>5. ASSUME ~overlapped, Swapping <=> inst[i].pc = "aside", Swapping' <=> "tar" = "aside"
      PROVE  Captured(i)' /\ Staged(i)' /\ Usable'
  <2>1. Captured(i)' /\ Staged(i)'
    BY <1>1, <1>3 DEF Captured, Staged, Moves
  <2>2. Usable'
    BY <1>1, <1>5 DEF Inv, Undisturbed, Usable, IsWhole, elsewhere, process
  <2>3. QED
    BY <2>1, <2>2
<1>6. TypeDisk'
  BY <1>1, <1>2 DEF TypeDisk
<1>7. QED
  BY <1>1, <1>3, <1>4, <1>5, <1>6, InstallMoves, Elsewhere DEF Active

LEMMA TarWritesStep == ASSUME Inv, NEW i \in Installs, TarWrites(i) PROVE Inv'
<1>1. /\ inst[i].pc = "tar" /\ UNCHANGED elsewhere /\ status' = status
      /\ worker' = worker /\ UNCHANGED <<inst, file, self>>
      /\ stage' = [stage EXCEPT !.bin = Part(inst[i].rel)]
  BY DEF TarWrites, AtStep
<1>2. /\ inst \in [Installs -> Progress] /\ TypeDisk /\ inst[i].rel \in 0..MaxRelease
  BY <1>1, UpdateInstallAssumption DEF Inv, TypeOK, TypeDisk, Named, Active, Release
<1>3. Moves(i, "tar") /\ "tar" \in Steps \ {"none"}
  BY <1>1, <1>2 DEF Moves, Steps
<1>4. WorkerMoves(i, "tar")
  BY <1>1 DEF WorkerMoves
<1>5. ASSUME ~overlapped, Swapping <=> inst[i].pc = "aside", Swapping' <=> "tar" = "aside"
      PROVE  Captured(i)' /\ Staged(i)' /\ Usable'
  <2>1. Captured(i) /\ Staged(i) /\ Usable
    BY <1>5 DEF Inv, Undisturbed
  <2>2. stage'.by = stage.by
    BY <1>1, <1>2 DEF TypeDisk
  <2>3. Captured(i)' /\ Staged(i)'
    BY <1>1, <2>1, <2>2 DEF Captured, Staged
  <2>4. Usable'
    BY <1>1, <1>5, <2>1 DEF Usable, IsWhole, elsewhere, process
  <2>5. QED
    BY <2>3, <2>4
<1>6. TypeDisk'
  BY <1>1, <1>2, Binaries DEF TypeDisk
<1>7. QED
  BY <1>1, <1>3, <1>4, <1>5, <1>6, InstallMoves, Elsewhere DEF Active

LEMMA TarEndsStep == ASSUME Inv, NEW i \in Installs, TarEnds(i) PROVE Inv'
<1>1. /\ inst[i].pc = "tar" /\ UNCHANGED elsewhere /\ status' = status
      /\ worker' = worker /\ UNCHANGED <<file, self>> /\ Goto(i, "extracted")
      /\ stage' = IF stage.by = i THEN [stage EXCEPT !.bin = Whole(inst[i].rel)] ELSE stage
  BY DEF TarEnds, AtStep
<1>2. /\ inst \in [Installs -> Progress] /\ TypeDisk /\ inst[i].rel \in 0..MaxRelease
  BY <1>1, UpdateInstallAssumption DEF Inv, TypeOK, TypeDisk, Named, Active, Release
<1>3. Moves(i, "extracted") /\ inst'[i].exe = inst[i].exe /\ "extracted" \in Steps \ {"none"}
  BY <1>1, GotoMoves DEF Steps
<1>4. WorkerMoves(i, "extracted")
  BY <1>1 DEF WorkerMoves, OnWorker
<1>5. ASSUME ~overlapped, Swapping <=> inst[i].pc = "aside", Swapping' <=> "extracted" = "aside"
      PROVE  Captured(i)' /\ Staged(i)' /\ Usable'
  <2>1. Captured(i) /\ Staged(i) /\ Usable
    BY <1>5 DEF Inv, Undisturbed
  <2>2. stage'.bin = Whole(inst[i].rel)
    BY <1>1, <1>2, <2>1 DEF TypeDisk, Staged
  <2>3. Captured(i)' /\ Staged(i)'
    BY <1>1, <1>3, <2>1, <2>2 DEF Captured, Staged, Moves
  <2>4. Usable'
    BY <1>1, <1>5, <2>1 DEF Usable, IsWhole, elsewhere, process
  <2>5. QED
    BY <2>3, <2>4
<1>6. TypeDisk'
  BY <1>1, <1>2, Binaries DEF TypeDisk
<1>7. QED
  BY <1>1, <1>3, <1>4, <1>5, <1>6, InstallMoves, Elsewhere DEF Active

LEMMA StagingFailsStep == ASSUME Inv, NEW i \in Installs, StagingFails(i) PROVE Inv'
<1>1. /\ inst[i].pc \in {"ready", "tar", "extracted"} /\ UNCHANGED elsewhere /\ status' = status
      /\ worker' = worker /\ UNCHANGED <<stage, file, self>> /\ Goto(i, "failed")
  BY DEF StagingFails, AtStep, disk
<1>2. Moves(i, "failed") /\ TypeDisk /\ "failed" \in Steps \ {"none"}
  BY <1>1, GotoMoves DEF Steps
<1>3. WorkerMoves(i, "failed")
  BY <1>1 DEF WorkerMoves, OnWorker
<1>4. ASSUME ~overlapped, Swapping <=> inst[i].pc = "aside", Swapping' <=> "failed" = "aside"
      PROVE  Captured(i)' /\ Staged(i)' /\ Usable'
  <2>1. Captured(i)' /\ Staged(i)'
    BY <1>2 DEF Captured, Staged, Moves
  <2>2. Usable'
    BY <1>1, <1>4 DEF Inv, Undisturbed, Usable, IsWhole, elsewhere, process
  <2>3. QED
    BY <2>1, <2>2
<1>5. TypeDisk'
  BY <1>1, <1>2 DEF TypeDisk
<1>6. QED
  BY <1>1, <1>2, <1>3, <1>4, <1>5, InstallMoves, Elsewhere DEF Active

LEMMA CopyStep == ASSUME Inv, NEW i \in Installs, Copy(i) PROVE Inv'
<1>1. /\ inst[i].pc = "extracted" /\ UNCHANGED elsewhere /\ status' = status
      /\ worker = None /\ worker' = i /\ UNCHANGED <<stage, self>> /\ stage.bin # None
  BY DEF Copy, AtStep
<1>2. /\ inst \in [Installs -> Progress] /\ TypeDisk /\ inst[i].rel \in 0..MaxRelease
  BY <1>1, UpdateInstallAssumption DEF Inv, TypeOK, TypeDisk, Named, Active, Release
<1>3. PICK s \in {"copied", "broken"}, b \in {stage.bin, Part(inst[i].rel)} :
        /\ Goto(i, s) /\ file' = [file EXCEPT ![New] = b]
        /\ s = "copied" => b = stage.bin
  BY DEF Copy
<1>4. Moves(i, s) /\ inst'[i].exe = inst[i].exe /\ s \in Steps \ {"none"}
  BY <1>3, GotoMoves DEF Steps
<1>5. WorkerMoves(i, s)
  BY <1>1, <1>3 DEF WorkerMoves, OnWorker
<1>6. /\ b \in Binary
      /\ file' \in [Paths -> Binary \cup {None}]
      /\ file'[New] = b /\ \A p \in {Exe, Bak, Deleted} : file'[p] = file[p]
  <2>1. b \in Binary
    BY <1>1, <1>2, Binaries DEF TypeDisk
  <2>2. QED
    BY <1>2, <1>3, <2>1, PathsDiffer DEF TypeDisk
<1>7. ASSUME ~overlapped, Swapping <=> inst[i].pc = "aside", Swapping' <=> s = "aside"
      PROVE  Captured(i)' /\ Staged(i)' /\ Usable'
  <2>1. Captured(i) /\ Staged(i) /\ Usable
    BY <1>7 DEF Inv, Undisturbed
  <2>2. Captured(i)' /\ Staged(i)'
    BY <1>1, <1>3, <1>4, <1>6, <2>1 DEF Captured, Staged, Moves
  <2>3. Usable'
    BY <1>1, <1>3, <1>6, <1>7, <2>1 DEF Usable, IsWhole, elsewhere, process
  <2>4. QED
    BY <2>2, <2>3
<1>8. TypeDisk'
  BY <1>1, <1>2, <1>6 DEF TypeDisk
<1>9. QED
  BY <1>1, <1>4, <1>5, <1>7, <1>8, InstallMoves, Elsewhere DEF Active

LEMMA DropBackupStep == ASSUME Inv, NEW i \in Installs, DropBackup(i) PROVE Inv'
<1>1. /\ inst[i].pc = "copied" /\ UNCHANGED elsewhere /\ status' = status
      /\ worker' = worker /\ UNCHANGED stage /\ Goto(i, "dropped")
      /\ file' = [file EXCEPT ![Bak] = None]
      /\ self' = IF self = Bak THEN Deleted ELSE self
  BY DEF DropBackup, AtStep
<1>2. Moves(i, "dropped") /\ inst'[i].exe = inst[i].exe /\ TypeDisk /\ "dropped" \in Steps \ {"none"}
  BY <1>1, GotoMoves DEF Steps
<1>3. WorkerMoves(i, "dropped")
  BY <1>1 DEF WorkerMoves, OnWorker
<1>4. /\ file' \in [Paths -> Binary \cup {None}]
      /\ file'[Bak] = None /\ \A p \in {Exe, New, Deleted} : file'[p] = file[p]
  BY <1>1, <1>2, PathsDiffer DEF TypeDisk
<1>5. ASSUME ~overlapped, Swapping <=> inst[i].pc = "aside", Swapping' <=> "dropped" = "aside"
      PROVE  Captured(i)' /\ Staged(i)' /\ Usable'
  <2>1. Captured(i) /\ Staged(i) /\ Usable /\ running # None
    BY <1>1, <1>5 DEF Inv, Undisturbed, Stopped, Active
  <2>2. inst[i].exe = self
    BY <1>1, <2>1 DEF Captured
  <2>3. Captured(i)' /\ Staged(i)'
    BY <1>1, <1>2, <1>4, <2>1, <2>2, PathsDiffer DEF Captured, Staged, Moves
  <2>4. stranded' = stranded /\ running' = running
    BY <1>1 DEF elsewhere, process
  <2>5. Usable'
    <3>1. CASE ~stranded
      <4>1. IsWhole(Exe) /\ IsWhole(Exe)'
        BY <1>1, <1>4, <1>5, <2>1, <3>1 DEF Usable, IsWhole
      <4>2. running' # None /\ self' = Exe => file'[Exe] = Whole(running')
        BY <1>1, <1>4, <2>1, <2>4, PathsDiffer DEF Usable
      <4>3. QED
        BY <2>4, <3>1, <4>1, <4>2 DEF Usable
    <3>2. CASE stranded
      <4>1. file[Exe] = None /\ self # Exe /\ self \in {Exe, Bak, Deleted}
        BY <1>2, <2>1, <3>2 DEF Usable, TypeDisk
      <4>2. file'[Exe] = None /\ self' = Deleted /\ self' # Exe
        BY <1>1, <1>4, <4>1, PathsDiffer
      <4>3. QED
        BY <2>4, <3>2, <4>2 DEF Usable
    <3>3. QED
      BY <1>1, <3>1, <3>2
  <2>6. QED
    BY <2>3, <2>5
<1>6. TypeDisk'
  BY <1>1, <1>2, <1>4 DEF TypeDisk
<1>7. QED
  BY <1>1, <1>2, <1>3, <1>5, <1>6, InstallMoves, Elsewhere DEF Active

LEMMA MoveAsideStep == ASSUME Inv, NEW i \in Installs, MoveAside(i) PROVE Inv'
<1>1. /\ inst[i].pc = "dropped" /\ UNCHANGED elsewhere /\ status' = status
      /\ worker' = worker /\ UNCHANGED stage /\ Goto(i, "aside")
      /\ file[inst[i].exe] # None
      /\ file' = [file EXCEPT ![Bak] = file[inst[i].exe], ![inst[i].exe] = None]
      /\ self' = IF self = inst[i].exe THEN Bak ELSE self
  BY DEF MoveAside, AtStep
<1>2. /\ TypeOK /\ TypeDisk /\ inst[i].exe \in {Exe, Bak}
  BY <1>1 DEF Inv, TypeOK, TypeDisk, Progress
<1>3. Moves(i, "aside") /\ inst'[i].exe = inst[i].exe /\ "aside" \in Steps \ {"none"}
  BY <1>1, <1>2, GotoFacts, PathsDiffer DEF Moves, Steps
<1>4. WorkerMoves(i, "aside")
  BY <1>1 DEF WorkerMoves, OnWorker
<1>5. /\ file' \in [Paths -> Binary \cup {None}] /\ file'[Deleted] = None
      /\ file'[New] = file[New]
      /\ inst[i].exe = Exe => file'[Exe] = None /\ file'[Bak] = file[Exe]
  BY <1>1, <1>2, PathsDiffer DEF TypeDisk
<1>6. ASSUME ~overlapped, Swapping <=> inst[i].pc = "aside", Swapping' <=> "aside" = "aside"
      PROVE  Captured(i)' /\ Staged(i)' /\ Usable'
  <2>1. Captured(i) /\ Staged(i) /\ Usable /\ running # None /\ running \in 0..MaxRelease
    BY <1>1, <1>6 DEF Inv, Undisturbed, Stopped, Active, TypeOK
  <2>2. inst[i].exe = Exe /\ self = Exe
    BY <1>1, <1>2, <2>1 DEF Captured
  <2>3. file[Exe] = Whole(running)
    BY <2>1, <2>2 DEF Usable
  <2>4. running' = running /\ stranded' = stranded /\ ~stranded
    BY <1>1, <2>1, <2>2 DEF elsewhere, process, Usable
  <2>5. Captured(i)' /\ Staged(i)'
    <3>1. /\ self' = Bak /\ file'[Exe] = None /\ file'[Bak] = Whole(running')
          /\ inst'[i].exe = Exe /\ ~stranded'
      BY <1>1, <1>3, <1>5, <2>2, <2>3, <2>4
    <3>2. file'[New] = Whole(inst'[i].rel)
      BY <1>1, <1>3, <1>5, <2>1 DEF Staged, Moves
    <3>3. QED
      BY <1>3, <3>1, <3>2 DEF Captured, Staged, Moves
  <2>6. IsWhole(Bak)' /\ self' = Bak
    BY <1>1, <1>5, <2>1, <2>2, <2>3, Binaries DEF IsWhole
  <2>7. Usable'
    BY <1>6, <2>4, <2>6, PathsDiffer DEF Usable
  <2>8. QED
    BY <2>5, <2>7
<1>7. TypeDisk'
  BY <1>1, <1>2, <1>5 DEF TypeDisk
<1>8. QED
  BY <1>1, <1>3, <1>4, <1>6, <1>7, InstallMoves, Elsewhere DEF Active

LEMMA MoveAsideFailsStep == ASSUME Inv, NEW i \in Installs, MoveAsideFails(i) PROVE Inv'
<1>1. /\ inst[i].pc = "dropped" /\ UNCHANGED elsewhere /\ status' = status
      /\ worker' = worker /\ UNCHANGED <<stage, file, self>> /\ Goto(i, "broken")
  BY DEF MoveAsideFails, AtStep, disk
<1>2. Moves(i, "broken") /\ TypeDisk /\ "broken" \in Steps \ {"none"}
  BY <1>1, GotoMoves DEF Steps
<1>3. WorkerMoves(i, "broken")
  BY <1>1 DEF WorkerMoves, OnWorker
<1>4. ASSUME ~overlapped, Swapping <=> inst[i].pc = "aside", Swapping' <=> "broken" = "aside"
      PROVE  Captured(i)' /\ Staged(i)' /\ Usable'
  <2>1. Captured(i)' /\ Staged(i)'
    BY <1>2 DEF Captured, Staged, Moves
  <2>2. Usable'
    BY <1>1, <1>4 DEF Inv, Undisturbed, Usable, IsWhole, elsewhere, process
  <2>3. QED
    BY <2>1, <2>2
<1>5. TypeDisk'
  BY <1>1, <1>2 DEF TypeDisk
<1>6. QED
  BY <1>1, <1>2, <1>3, <1>4, <1>5, InstallMoves, Elsewhere DEF Active

LEMMA PutInPlaceStep == ASSUME Inv, NEW i \in Installs, PutInPlace(i) PROVE Inv'
<1>1. /\ inst[i].pc = "aside" /\ UNCHANGED elsewhere /\ status' = status
      /\ worker' = worker /\ UNCHANGED <<stage, self>> /\ Goto(i, "placed")
      /\ file' = [file EXCEPT ![inst[i].exe] = file[New], ![New] = None]
  BY DEF PutInPlace, AtStep
<1>2. /\ TypeDisk /\ inst[i].exe \in {Exe, Bak} /\ inst[i].rel \in 0..MaxRelease
  BY <1>1, UpdateInstallAssumption
  DEF Inv, TypeOK, TypeDisk, Progress, Named, Active, Release
<1>3. Moves(i, "placed") /\ inst'[i].exe = inst[i].exe /\ "placed" \in Steps \ {"none"}
  BY <1>1, GotoMoves DEF Steps
<1>4. WorkerMoves(i, "placed")
  BY <1>1 DEF WorkerMoves, OnWorker
<1>5. /\ file' \in [Paths -> Binary \cup {None}] /\ file'[Deleted] = None
      /\ inst[i].exe = Exe => file'[Exe] = file[New] /\ file'[Bak] = file[Bak]
  BY <1>1, <1>2, PathsDiffer DEF TypeDisk
<1>6. ASSUME ~overlapped, Swapping <=> inst[i].pc = "aside", Swapping' <=> "placed" = "aside"
      PROVE  Captured(i)' /\ Staged(i)' /\ Usable'
  <2>1. Captured(i) /\ Staged(i) /\ Usable
    BY <1>1, <1>6 DEF Inv, Undisturbed
  <2>2. inst[i].exe = Exe /\ self = Bak
    BY <1>1, <2>1 DEF Captured
  <2>3. file'[Exe] = Whole(inst[i].rel)
    BY <1>1, <1>5, <2>1, <2>2 DEF Staged
  <2>4. running' = running /\ stranded' = stranded /\ ~stranded
    BY <1>1, <2>1 DEF elsewhere, process, Captured
  <2>5. Captured(i)' /\ Staged(i)'
    BY <1>1, <1>3, <1>5, <2>1, <2>2, <2>3, <2>4 DEF Captured, Staged, Moves
  <2>6. IsWhole(Exe)' /\ self' = Bak
    BY <1>1, <1>2, <2>2, <2>3, Binaries DEF IsWhole
  <2>7. Usable'
    BY <2>4, <2>6, PathsDiffer DEF Usable
  <2>8. QED
    BY <2>5, <2>7
<1>7. TypeDisk'
  BY <1>1, <1>2, <1>5 DEF TypeDisk
<1>8. QED
  BY <1>1, <1>3, <1>4, <1>6, <1>7, InstallMoves, Elsewhere DEF Active

LEMMA PutFailsStep == ASSUME Inv, NEW i \in Installs, PutFails(i) PROVE Inv'
<1>1. /\ inst[i].pc = "aside" /\ UNCHANGED elsewhere /\ status' = status
      /\ worker' = worker /\ UNCHANGED stage /\ Goto(i, "broken")
      /\ file' = [file EXCEPT ![inst[i].exe] = file[Bak], ![Bak] = None]
      /\ self' = IF self = Bak THEN inst[i].exe ELSE self
  BY DEF PutFails, AtStep
<1>2. TypeDisk /\ inst[i].exe \in {Exe, Bak}
  BY <1>1 DEF Inv, TypeOK, TypeDisk, Progress, Named
<1>3. Moves(i, "broken") /\ "broken" \in Steps \ {"none"}
  BY <1>1, GotoMoves DEF Steps
<1>4. WorkerMoves(i, "broken")
  BY <1>1 DEF WorkerMoves, OnWorker
<1>5. /\ file' \in [Paths -> Binary \cup {None}] /\ file'[Deleted] = None
      /\ inst[i].exe = Exe => file'[Exe] = file[Bak]
  BY <1>1, <1>2, PathsDiffer DEF TypeDisk
<1>6. ASSUME ~overlapped, Swapping <=> inst[i].pc = "aside", Swapping' <=> "broken" = "aside"
      PROVE  Captured(i)' /\ Staged(i)' /\ Usable'
  <2>1. Captured(i) /\ Usable /\ running # None /\ running \in 0..MaxRelease
    BY <1>1, <1>6 DEF Inv, Undisturbed, Stopped, Active, TypeOK
  <2>2. /\ inst[i].exe = Exe /\ file[Bak] = Whole(running) /\ running' = running
        /\ ~stranded'
    BY <1>1, <2>1 DEF Captured, elsewhere, process
  <2>3. file'[Exe] = Whole(running)
    BY <1>5, <2>2
  <2>4. Captured(i)' /\ Staged(i)'
    BY <1>3 DEF Captured, Staged, Moves
  <2>5. IsWhole(Exe)'
    BY <2>1, <2>3, Binaries DEF IsWhole
  <2>6. Usable'
    BY <2>2, <2>3, <2>5 DEF Usable
  <2>7. QED
    BY <2>4, <2>6
<1>7. TypeDisk'
  BY <1>1, <1>2, <1>5 DEF TypeDisk
<1>8. QED
  BY <1>1, <1>3, <1>4, <1>6, <1>7, InstallMoves, Elsewhere DEF Active

LEMMA RollbackFailsStep == ASSUME Inv, NEW i \in Installs, RollbackFails(i) PROVE Inv'
<1>1. /\ inst[i].pc = "aside" /\ stranded' = TRUE /\ worker' = worker /\ Goto(i, "broken")
      /\ UNCHANGED <<enabled, checks, latest, status, published, running, launches, overlapped>>
      /\ UNCHANGED <<stage, file, self>>
  BY DEF RollbackFails, AtStep, updater, disk
<1>2. Moves(i, "broken") /\ TypeDisk /\ "broken" \in Steps \ {"none"}
  BY <1>1, GotoMoves DEF Steps
<1>3. WorkerMoves(i, "broken")
  BY <1>1 DEF WorkerMoves, OnWorker
<1>4. ASSUME ~overlapped, Swapping <=> inst[i].pc = "aside", Swapping' <=> "broken" = "aside"
      PROVE  Captured(i)' /\ Staged(i)' /\ Usable'
  <2>1. Captured(i) /\ running \in 0..MaxRelease
    BY <1>1, <1>4 DEF Inv, Undisturbed, Stopped, Active, TypeOK
  <2>2. self = Bak /\ file[Exe] = None /\ file[Bak] = Whole(running)
    BY <1>1, <2>1 DEF Captured
  <2>3. Captured(i)' /\ Staged(i)'
    BY <1>2 DEF Captured, Staged, Moves
  <2>4. IsWhole(Bak)'
    BY <1>1, <2>1, <2>2, Binaries DEF IsWhole
  <2>5. Usable'
    BY <1>1, <2>2, <2>4, PathsDiffer DEF Usable
  <2>6. QED
    BY <2>3, <2>5
<1>5. TypeDisk'
  BY <1>1, <1>2 DEF TypeDisk
<1>6. QED
  BY <1>1, <1>2, <1>3, <1>4, <1>5, InstallMoves DEF Active

LEMMA LeaveWorkerStep == ASSUME Inv, NEW i \in Installs, LeaveWorker(i) PROVE Inv'
<1>1. PICK s \in {"failed", "installed"} :
        /\ Goto(i, s)
        /\ s = "installed" => inst[i].pc = "placed"
        /\ inst[i].pc \in {"broken", "placed"} /\ stage' \in {NoStage, stage}
  BY DEF LeaveWorker, AtStep
<1>2. /\ UNCHANGED elsewhere /\ status' = status
      /\ worker = i /\ worker' = None /\ UNCHANGED <<file, self>>
  BY DEF LeaveWorker
<1>3. Moves(i, s) /\ inst'[i].exe = inst[i].exe /\ TypeDisk /\ s \in Steps \ {"none"}
  <2>1. s \in Steps \ {"none"} /\ s \in Steps \ {"aside"}
    BY <1>1 DEF Steps
  <2>2. Goto(i, s)
    BY <1>1
  <2>3. QED
    BY <2>1, <2>2, GotoMoves
<1>4. WorkerMoves(i, s)
  BY <1>1, <1>2 DEF WorkerMoves, OnWorker
<1>5. ASSUME ~overlapped, Swapping <=> inst[i].pc = "aside", Swapping' <=> s = "aside"
      PROVE  Captured(i)' /\ Staged(i)' /\ Usable'
  <2>1. Captured(i) /\ Staged(i) /\ Usable
    BY <1>1, <1>5 DEF Inv, Undisturbed
  <2>2. running' = running /\ stranded' = stranded
    BY <1>2 DEF elsewhere, process
  <2>3. Captured(i)' /\ Staged(i)'
    <3>1. CASE s = "failed"
      BY <1>3, <3>1 DEF Captured, Staged, Moves
    <3>2. CASE s = "installed"
      <4>1. inst[i].pc = "placed" /\ inst'[i].pc = "installed" /\ inst'[i].rel = inst[i].rel
        BY <1>1, <1>3, <3>2 DEF Moves
      <4>2. QED
        BY <1>2, <1>3, <2>1, <2>2, <4>1 DEF Captured, Staged
    <3>3. QED
      BY <1>1, <3>1, <3>2
  <2>4. Usable'
    BY <1>1, <1>2, <1>5, <2>1, <2>2 DEF Usable, IsWhole
  <2>5. QED
    BY <2>3, <2>4
<1>6. TypeDisk'
  BY <1>1, <1>2, <1>3 DEF TypeDisk, NoStage
<1>7. QED
  BY <1>1, <1>2, <1>3, <1>4, <1>5, <1>6, InstallMoves, Elsewhere DEF Active

\* The last step frees the install for another one.
LEMMA ReportStep == ASSUME Inv, NEW i \in Installs, Report(i) PROVE Inv'
<1>. USE UpdateInstallAssumption
<1>1. /\ inst[i].pc \in {"installed", "failed"} /\ inst' = [inst EXCEPT ![i] = Idle]
      /\ UNCHANGED <<enabled, checks, latest, published, running, launches, stranded, overlapped>>
      /\ UNCHANGED <<worker, stage, file, self>>
      /\ status' = IF inst[i].pc = "installed" THEN Says("Updated", inst[i].rel)
                                               ELSE Says("Errored", None)
  BY DEF Report, AtStep, elsewhere, process, disk
<1>2. TypeOK /\ Idle \in Progress /\ inst[i].rel \in Release /\ running # None
  BY <1>1 DEF Inv, Idle, Progress, Steps, Named, Stopped, Active
<1>3. /\ inst' \in [Installs -> Progress] /\ inst'[i].pc = "none"
      /\ \A j \in Installs \ {i} : inst'[j] = inst[j]
  BY <1>1, <1>2 DEF TypeOK, Idle
<1>4. TypeOK'
  <2>1. \A j \in Installs : worker' = j <=> inst'[j].pc \in OnWorker
    BY <1>1, <1>2, <1>3 DEF TypeOK, OnWorker
  <2>2. /\ status'.kind \in {"Idle", "Checking", "Downloading", "Installing",
                             "UpdateAvailable", "Updated", "Errored"}
        /\ status'.rel \in Release \cup {None}
    BY <1>1, <1>2 DEF Says
  <2>3. enabled' \in BOOLEAN /\ overlapped' \in BOOLEAN
    BY <1>1, <1>2 DEF TypeOK
  <2>4. QED
    BY <1>1, <1>2, <1>3, <2>1, <2>2, <2>3 DEF TypeOK
<1>5. Stopped' /\ Named'
  BY <1>1, <1>2, <1>3 DEF Inv, Stopped, Named, Active
<1>6. ASSUME ~overlapped' PROVE Undisturbed'
  <2>1. Undisturbed
    BY <1>1, <1>6 DEF Inv
  <2>2. \A j \in Installs : inst'[j].pc = "none"
    BY <1>1, <1>3, <2>1 DEF Undisturbed, Alone, Active
  <2>3. Alone' /\ \A j \in Installs : Captured(j)' /\ Staged(j)'
    BY <2>2 DEF Alone, Active, Captured, Staged
  <2>4. Usable'
    <3>1. ~Swapping
      BY <1>1, <2>1 DEF Undisturbed, Alone, Active, Swapping, AtStep
    <3>2. QED
      BY <1>1, <2>1, <3>1 DEF Undisturbed, Usable, IsWhole
  <2>5. UpdatedStands'
    BY <1>1, <2>1, <2>2 DEF Undisturbed, Staged, UpdatedStands, Active, Says
  <2>6. QED
    BY <2>1, <2>3, <2>4, <2>5 DEF Undisturbed
<1>7. QED
  BY <1>4, <1>5, <1>6 DEF Inv

-----------------------------------------------------------------------------
(* The steps of the updater and of the process                              *)

\* A step of the updater that starts no install.
LEMMA UpdaterStep ==
  ASSUME Inv, UNCHANGED <<inst, worker, disk, running, launches, stranded, overlapped>>,
         running # None \/ UNCHANGED <<checks, latest, status>>,
         published' \in 0..MaxRelease, enabled' \in BOOLEAN, checks' \in 0..MaxChecks,
         latest' = latest \/ (latest' \in Release /\ latest' > running),
         status' = status \/ \E k \in {"Idle", "Checking", "UpdateAvailable", "Errored"},
                               r \in Release \cup {None} : status' = Says(k, r)
  PROVE  Inv'
<1>1. TypeOK'
  <2>1. /\ status'.kind \in {"Idle", "Checking", "Downloading", "Installing",
                             "UpdateAvailable", "Updated", "Errored"}
        /\ status'.rel \in Release \cup {None}
    BY DEF Inv, TypeOK, Says
  <2>2. overlapped' \in BOOLEAN
    BY DEF Inv, TypeOK
  <2>3. QED
    BY <2>1, <2>2 DEF Inv, TypeOK, disk
<1>2. Stopped' /\ Named'
  BY DEF Inv, Stopped, Named, Active
<1>3. ASSUME ~overlapped' PROVE Undisturbed'
  <2>1. Undisturbed /\ UNCHANGED <<stage, file, self>>
    BY <1>3 DEF Inv, disk
  <2>2. UpdatedStands'
    BY <2>1 DEF Undisturbed, UpdatedStands, Says, Active
  <2>3. Alone' /\ Usable' /\ \A i \in Installs : Captured(i)' /\ Staged(i)'
    BY <2>1 DEF Undisturbed, Alone, Active, Usable, IsWhole, Swapping, AtStep, Captured, Staged
  <2>4. QED
    BY <2>2, <2>3 DEF Undisturbed
<1>4. QED
  BY <1>1, <1>2, <1>3 DEF Inv

\* One that does.
LEMMA BeginStep ==
  ASSUME Inv, NEW r \in Release, Begin(r), running # None,
         UNCHANGED <<worker, disk, process, enabled>>,
         checks' \in 0..MaxChecks, latest' = None \/ (latest' \in Release /\ latest' > running)
  PROVE  Inv'
<1>. USE UpdateInstallAssumption
<1>1. TypeOK /\ UNCHANGED <<worker, stage, file, self, published, running, launches, stranded, enabled>>
  BY DEF Inv, disk, process
<1>2. PICK i \in Installs : /\ inst[i].pc = "none" /\ inst'[i].pc = "downloading"
                            /\ inst'[i].rel = r
                            /\ \A j \in Installs \ {i} : inst'[j] = inst[j]
  BY <1>1, BeginFacts
<1>3. /\ inst' \in [Installs -> Progress] /\ overlapped' \in BOOLEAN
      /\ ~overlapped' => ~overlapped /\ \A j \in Installs : inst[j].pc = "none"
      /\ status' = Says("Downloading", None)
  BY <1>1, BeginFacts
<1>4. TypeOK'
  <2>1. \A j \in Installs : worker' = j <=> inst'[j].pc \in OnWorker
    BY <1>1, <1>2 DEF TypeOK, OnWorker
  <2>2. enabled' \in BOOLEAN
    BY <1>1 DEF TypeOK
  <2>3. QED
    BY <1>1, <1>3, <2>1, <2>2 DEF TypeOK, Says
<1>5. Stopped' /\ Named'
  BY <1>1, <1>2 DEF Inv, Stopped, Named, Active
<1>6. ASSUME ~overlapped' PROVE Undisturbed'
  <2>1. Undisturbed /\ \A j \in Installs \ {i} : inst'[j].pc = "none"
    BY <1>2, <1>3, <1>6 DEF Inv
  <2>2. Alone' /\ \A j \in Installs : Captured(j)' /\ Staged(j)'
    BY <1>2, <2>1 DEF Alone, Active, Captured, Staged
  <2>3. ~Swapping
    BY <1>3, <1>6 DEF Swapping, AtStep
  <2>4. Usable' /\ UpdatedStands'
    BY <1>1, <1>3, <2>1, <2>3 DEF Undisturbed, Usable, IsWhole, UpdatedStands, Says
  <2>5. QED
    BY <2>2, <2>4 DEF Undisturbed
<1>7. QED
  BY <1>4, <1>5, <1>6 DEF Inv

LEMMA StopStep == ASSUME Inv, Stop PROVE Inv'
<1>. USE UpdateInstallAssumption
<1>1. /\ running' = None /\ checks' = 0 /\ latest' = None /\ status' = Quiet /\ worker' = None
      /\ inst' = [i \in Installs |-> Idle]
      /\ UNCHANGED <<enabled, stage, file, self, published, launches, stranded, overlapped>>
  BY DEF Stop, disk
<1>2. /\ inst' \in [Installs -> Progress]
      /\ \A i \in Installs : inst'[i].pc = "none"
  BY <1>1 DEF Idle, Progress, Steps
<1>3. TypeOK'
  <2>1. enabled' \in BOOLEAN /\ overlapped' \in BOOLEAN
    BY <1>1 DEF Inv, TypeOK
  <2>2. \A j \in Installs : worker' = j <=> inst'[j].pc \in OnWorker
    BY <1>1, <1>2 DEF OnWorker
  <2>3. QED
    BY <1>1, <1>2, <2>1, <2>2 DEF Inv, TypeOK, Quiet, Says
<1>4. Stopped' /\ Named'
  BY <1>1, <1>2 DEF Stopped, Named, Active
<1>5. ASSUME ~overlapped' PROVE Undisturbed'
  <2>1. Usable
    BY <1>1, <1>5 DEF Inv, Undisturbed
  <2>2. Usable' /\ UpdatedStands'
    BY <1>1, <2>1 DEF Usable, IsWhole, UpdatedStands, Quiet, Says
  <2>3. Alone' /\ \A j \in Installs : Captured(j)' /\ Staged(j)'
    BY <1>2 DEF Alone, Active, Captured, Staged
  <2>4. QED
    BY <2>2, <2>3 DEF Undisturbed
<1>6. QED
  BY <1>3, <1>4, <1>5 DEF Inv

LEMMA LaunchStep == ASSUME Inv, Launch PROVE Inv'
<1>. USE UpdateInstallAssumption
<1>1. /\ running = None /\ file[Exe] # None /\ file[Exe].whole /\ running' = file[Exe].rel
      /\ self' = Exe /\ launches' = launches + 1
      /\ UNCHANGED <<enabled, checks, latest, status, inst, worker, stage, file, published, stranded,
                  overlapped>>
  BY DEF Launch, updater
<1>2. TypeOK /\ file[Exe] \in Binary
  BY <1>1, PathsDiffer DEF Inv, TypeOK
<1>3. file[Exe] = Whole(running') /\ running' \in 0..MaxRelease
  BY <1>1, <1>2, WholeBinary
<1>4. /\ latest = None /\ status = Quiet /\ \A i \in Installs : inst[i].pc = "none"
  BY <1>1 DEF Inv, Stopped, Active
<1>5. TypeOK'
  <2>1. enabled' \in BOOLEAN /\ overlapped' \in BOOLEAN
    BY <1>1, <1>2 DEF TypeOK
  <2>2. QED
    BY <1>1, <1>2, <1>3, <1>4, <2>1 DEF TypeOK
<1>6. Stopped' /\ Named'
  BY <1>1, <1>3, <1>4 DEF Stopped, Named, Active
<1>7. ASSUME ~overlapped' PROVE Undisturbed'
  <2>0. ASSUME ~overlapped PROVE ~stranded
    BY <1>1, <2>0 DEF Inv, Undisturbed, Usable
  <2>1. Usable' /\ UpdatedStands'
    BY <1>1, <1>3, <1>4, <1>7, <2>0 DEF Usable, IsWhole, UpdatedStands, Quiet, Says
  <2>2. Alone' /\ \A j \in Installs : Captured(j)' /\ Staged(j)'
    BY <1>1, <1>4 DEF Alone, Active, Captured, Staged
  <2>3. QED
    BY <2>1, <2>2 DEF Undisturbed
<1>8. QED
  BY <1>5, <1>6, <1>7 DEF Inv

LEMMA InvStep == Inv /\ [Next]_vars => Inv'
<1>. SUFFICES ASSUME Inv, [Next]_vars PROVE Inv'
  OBVIOUS
<1>. USE UpdateInstallAssumption
<1>0. /\ published \in 0..MaxRelease /\ checks \in 0..MaxChecks /\ enabled \in BOOLEAN
      /\ checks > 0 => running \in 0..MaxRelease
      /\ latest # None => latest \in Release /\ running # None
      /\ status.kind # "Idle" => running # None
  BY DEF Inv, TypeOK, Stopped, Quiet, Says
<1>1. CASE Publish
  BY <1>0, <1>1, UpdaterStep DEF Publish, updater
<1>2. CASE SetEnabled
  <2>1. enabled' \in BOOLEAN
    BY <1>2 DEF SetEnabled
  <2>2. QED
    BY <1>0, <1>2, <2>1, UpdaterStep DEF SetEnabled, process
<1>3. CASE Poll
  BY <1>0, <1>3, UpdaterStep DEF Poll, process
<1>4. CASE CheckFails
  BY <1>0, <1>4, UpdaterStep DEF CheckFails, process
<1>5. CASE UpToDate
  BY <1>0, <1>5, UpdaterStep DEF UpToDate, process, Quiet
<1>6. CASE Found
  <2>1. /\ published \in Release /\ published > running /\ running # None
        /\ checks' \in 0..MaxChecks /\ latest' = published
        /\ UNCHANGED <<enabled, worker, disk, process>>
    BY <1>0, <1>6 DEF Found, Release
  <2>2. CASE enabled
    BY <1>6, <2>1, <2>2, BeginStep DEF Found
  <2>3. CASE ~enabled
    BY <1>0, <1>6, <2>1, <2>3, UpdaterStep DEF Found, process
  <2>4. QED
    BY <2>2, <2>3
<1>7. CASE Click
  BY <1>0, <1>7, BeginStep DEF Click
<1>8. ASSUME NEW i \in Installs, InstallStep(i) PROVE Inv'
  BY <1>8, DownloadStep, PrepareStep, TarWritesStep, TarEndsStep, StagingFailsStep, CopyStep,
     DropBackupStep, MoveAsideStep, MoveAsideFailsStep, PutInPlaceStep, PutFailsStep,
     RollbackFailsStep, LeaveWorkerStep, ReportStep
  DEF InstallStep
<1>9. CASE Stop
  BY <1>9, StopStep
<1>10. CASE Launch
  BY <1>10, LaunchStep
<1>11. CASE UNCHANGED vars
  BY <1>0, <1>11, UpdaterStep DEF vars, updater, process
<1>12. QED
  BY <1>1, <1>2, <1>3, <1>4, <1>5, <1>6, <1>7, <1>8, <1>9, <1>10, <1>11 DEF Next

-----------------------------------------------------------------------------
(* The theorems                                                             *)

\* The inductive invariant.
THEOREM Invariant == Spec => []Inv
  BY InvInit, InvStep, PTL DEF Spec

\* Every variable keeps its kind, and the worker is held in the swap only.
THEOREM TypeCorrect == Spec => []TypeOK
  BY Invariant, PTL DEF Inv

\* While no two installs ran at once, a crash at any step, and the failure of any
\* of them, leaves a whole executable under its name or as the backup; all that can
\* lose it is an install begun after a rollback that failed (atomic_replace_file).
THEOREM ExecutableKept == Spec => []KeepsAnExecutable
<1>1. Inv => KeepsAnExecutable
  BY DEF Inv, Undisturbed, Usable, KeepsAnExecutable
<1>2. QED
  BY <1>1, Invariant, PTL

\* Outside the two renames the program can be started by its name, whatever has
\* failed before, the rollback of atomic_replace_file excepted.
THEOREM NameRuns == Spec => []RunnableByName
<1>1. Inv => RunnableByName
  BY DEF Inv, Undisturbed, Usable, RunnableByName
<1>2. QED
  BY <1>1, Invariant, PTL

\* "Updated to v" is shown only while a restart runs v (download_and_install).
THEOREM UpdatedHolds == Spec => []UpdatedIsInstalled
<1>1. Inv => UpdatedIsInstalled
  BY DEF Inv, Undisturbed, UpdatedStands, UpdatedIsInstalled
<1>2. QED
  BY <1>1, Invariant, PTL

\* The release an install replaced is its rollback copy (atomic_replace_file).
THEOREM BackupKept == Spec => []BackupIsPrevious
<1>1. Inv => BackupIsPrevious
  BY DEF Inv, Undisturbed, Captured, BackupIsPrevious, AtStep
<1>2. QED
  BY <1>1, Invariant, PTL
=============================================================================
