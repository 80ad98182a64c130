----------------------------- MODULE AtomicWrite -----------------------------
(***************************************************************************)
(* util::atomic_write: write a temporary file next to the target, sync it,  *)
(* rename it over the target.  The temporary name is made of the file name  *)
(* and the process id, so all writers of one process share it.              *)
(*                                                                         *)
(* Two paths (the target and the temporary name) point to inodes; a writer   *)
(* keeps the inode it opened whatever the paths become.  A document is the   *)
(* sequence of its chunks <<d, 1>> .. <<d, Size[d]>>.                        *)
(*                                                                         *)
(* The usual names carry the prefix Write, so that a module can extend this  *)
(* one together with those of the files that are saved this way.            *)
(***************************************************************************)
EXTENDS Integers, Sequences

CONSTANTS
  Writers,   \* threads of the process that may save the file at the same time
  Docs,      \* the documents written
  Size,      \* Size[d]: its number of chunks
  Inodes,    \* bound: the files that exist at once, one per writer and two more
  NoInode

ASSUME AtomicWriteAssumption ==
  /\ Size \in [Docs -> Nat]
  /\ NoInode \notin Inodes

VARIABLES
  target,   \* the inode the target path names
  tmp,      \* the inode the temporary name points to, or NoInode
  content,  \* content[i]: the chunks in inode i
  step,     \* step[w]: "idle", "writing" or "synced"
  doc,      \* doc[w]: the document w writes
  fd,       \* fd[w]: the inode w has open
  done      \* done[w]: chunks written so far

writeVars == <<target, tmp, content, step, doc, fd, done>>

Chunk(d, k) == <<d, k>>
Whole(d) == [k \in 1..Size[d] |-> Chunk(d, k)]
Hole == "zeros"

\* A write beyond the end leaves zeros in between.
WriteAt(c, pos, x) ==
  [k \in 1..(IF pos > Len(c) THEN pos ELSE Len(c)) |->
     IF k = pos THEN x ELSE IF k <= Len(c) THEN c[k] ELSE Hole]

WriteInit ==
  /\ target \in Inodes
  /\ tmp = NoInode
  /\ \E d \in Docs : /\ content = [i \in Inodes |-> IF i = target THEN Whole(d) ELSE <<>>]
                      /\ doc = [w \in Writers |-> d]
  /\ step = [w \in Writers |-> "idle"]
  /\ fd = [w \in Writers |-> NoInode]
  /\ done = [w \in Writers |-> 0]

Free(i) == i # target /\ i # tmp /\ \A w \in Writers : fd[w] # i

\* Faulty variants, used by no action, are named ...Fault...
\* Fault: the target itself is opened and truncated.
CreateFaultInPlace(w, d) ==
  /\ step[w] = "idle"
  /\ fd' = [fd EXCEPT ![w] = target]
  /\ content' = [content EXCEPT ![target] = <<>>]
  /\ step' = [step EXCEPT ![w] = "writing"]
  /\ doc' = [doc EXCEPT ![w] = d]
  /\ done' = [done EXCEPT ![w] = 0]
  /\ UNCHANGED <<target, tmp>>

\* File::create: truncates the file of that name, or makes a new one.
Create(w, d) ==
  /\ step[w] = "idle"
  /\ \E i \in Inodes :
       /\ IF tmp = NoInode THEN Free(i) ELSE i = tmp
       /\ tmp' = i
       /\ fd' = [fd EXCEPT ![w] = i]
       /\ content' = [content EXCEPT ![i] = <<>>]
  /\ step' = [step EXCEPT ![w] = "writing"]
  /\ doc' = [doc EXCEPT ![w] = d]
  /\ done' = [done EXCEPT ![w] = 0]
  /\ UNCHANGED target

WriteChunk(w) ==
  /\ step[w] = "writing"
  /\ done[w] < Size[doc[w]]
  /\ done' = [done EXCEPT ![w] = @ + 1]
  /\ content' = [content EXCEPT ![fd[w]] =
                   WriteAt(@, done[w] + 1, Chunk(doc[w], done[w] + 1))]
  /\ UNCHANGED <<target, tmp, step, doc, fd>>

Sync(w) ==
  /\ step[w] = "writing"
  /\ done[w] = Size[doc[w]]
  /\ step' = [step EXCEPT ![w] = "synced"]
  /\ UNCHANGED <<target, tmp, content, doc, fd, done>>

Close(w) == /\ step' = [step EXCEPT ![w] = "idle"]
            /\ fd' = [fd EXCEPT ![w] = NoInode]

\* A failed create, write or sync removes whatever the temporary name points to.
Fail(w) ==
  /\ step[w] \in {"idle", "writing"}
  /\ Close(w)
  /\ tmp' = NoInode
  /\ UNCHANGED <<target, content, doc, done>>

\* rename replaces the target; with the name gone it fails.
Rename(w) ==
  /\ step[w] = "synced"
  /\ Close(w)
  /\ target' = IF tmp = NoInode THEN target ELSE tmp
  /\ tmp' = NoInode
  /\ UNCHANGED <<content, doc, done>>

\* The rename itself fails: the temporary file is removed.
RenameFails(w) ==
  /\ step[w] = "synced"
  /\ Close(w)
  /\ tmp' = NoInode
  /\ UNCHANGED <<target, content, doc, done>>

\* The process dies.  The next one finds the leftover under its own temporary
\* name only if it gets the same process id.
Crash ==
  /\ \E w \in Writers : step[w] # "idle"
  /\ step' = [w \in Writers |-> "idle"]
  /\ fd' = [w \in Writers |-> NoInode]
  /\ tmp' \in {tmp, NoInode}
  /\ UNCHANGED <<target, content, doc, done>>

WriteNext ==
  \/ \E w \in Writers : \/ \E d \in Docs : Create(w, d)
                        \/ WriteChunk(w)
                        \/ Sync(w)
                        \/ Fail(w)
                        \/ Rename(w)
                        \/ RenameFails(w)
  \/ Crash

WriteSpec == WriteInit /\ [][WriteNext]_writeVars

-----------------------------------------------------------------------------
(* Properties                                                               *)

\* Every variable has its kind, and a writer never writes past its document.
WriteTypeOK ==
  /\ target \in Inodes
  /\ tmp \in Inodes \cup {NoInode}
  /\ step \in [Writers -> {"idle", "writing", "synced"}]
  /\ doc \in [Writers -> Docs]
  /\ fd \in [Writers -> Inodes \cup {NoInode}]
  /\ done \in [Writers -> Nat] /\ \A w \in Writers : done[w] <= Size[doc[w]]
  /\ DOMAIN content = Inodes

\* A reader of the target, at any moment and after any crash, finds one whole
\* document (connections.json, shelldeck.toml and every other file saved this way).
TargetIsWhole == \E d \in Docs : content[target] = Whole(d)

-----------------------------------------------------------------------------
(* With a single writer this implements the abstract atomic file.           *)

Reading == IF TargetIsWhole THEN CHOOSE d \in Docs : content[target] = Whole(d) ELSE NoInode

File == INSTANCE AtomicFile WITH value <- Reading

ImplementsAtomicFile == File!Spec
=============================================================================
