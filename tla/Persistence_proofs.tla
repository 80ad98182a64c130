-------------------------- MODULE Persistence_proofs --------------------------
(***************************************************************************)
(* Proofs about the files the program keeps, for every value of the          *)
(* constants: how atomic_write replaces one of them (AtomicWrite), the       *)
(* connections and their syncs (ConnectionStore), and the account session    *)
(* in the configuration (AccountSession).                                   *)
(***************************************************************************)
EXTENDS AccountSession, ConnectionStore, AtomicWrite, TLAPS

-----------------------------------------------------------------------------
(* AtomicWrite.  With one writer at a time atomic_write keeps its promise, for *)
(* documents of any size, whatever fails and whenever the process dies.  The  *)
(* invariant says what the writer knows between its steps: the temporary name *)
(* is its own, differs from the target, and holds the prefix written so far.  *)

Prefix(d, n) == [k \in 1..n |-> Chunk(d, k)]

WriterKnows(w) ==
  step[w] # "idle" =>
    /\ fd[w] = tmp
    /\ tmp \in Inodes
    /\ content[tmp] = Prefix(doc[w], done[w])
    /\ step[w] = "synced" => done[w] = Size[doc[w]]

WriteInv == /\ WriteTypeOK
       /\ tmp # target
       /\ TargetIsWhole
       /\ \A w \in Writers : WriterKnows(w)

SingleWriter == \A v, w \in Writers : v = w

LEMMA PrefixGrows ==
  ASSUME NEW d, NEW n \in Nat
  PROVE  WriteAt(Prefix(d, n), n + 1, Chunk(d, n + 1)) = Prefix(d, n + 1)
<1>1. Prefix(d, n) \in Seq({Chunk(d, k) : k \in 1..n}) /\ Len(Prefix(d, n)) = n
  BY DEF Prefix
<1>2. WriteAt(Prefix(d, n), n + 1, Chunk(d, n + 1))
        = [k \in 1..(n + 1) |-> IF k = n + 1 THEN Chunk(d, n + 1)
                                ELSE IF k <= n THEN Prefix(d, n)[k] ELSE Hole]
  BY <1>1 DEF WriteAt
<1>3. \A k \in 1..(n + 1) :
        (IF k = n + 1 THEN Chunk(d, n + 1)
         ELSE IF k <= n THEN Prefix(d, n)[k] ELSE Hole) = Chunk(d, k)
  BY DEF Prefix
<1>4. QED
  BY <1>2, <1>3 DEF Prefix

LEMMA WriteInvInit == WriteInit => WriteInv
<1>. SUFFICES ASSUME WriteInit PROVE WriteInv
  OBVIOUS
<1>. USE AtomicWriteAssumption DEF WriteInit
<1>1. WriteTypeOK
  BY DEF WriteTypeOK
<1>2. TargetIsWhole
  BY DEF TargetIsWhole
<1>3. QED
  BY <1>1, <1>2 DEF WriteInv, WriterKnows

LEMMA WriteInvStep == SingleWriter /\ WriteInv /\ [WriteNext]_writeVars => WriteInv'
<1>. SUFFICES ASSUME SingleWriter, WriteInv, [WriteNext]_writeVars PROVE WriteInv'
  OBVIOUS
<1>. USE AtomicWriteAssumption DEF WriteInv, WriteTypeOK, SingleWriter
<1>1. ASSUME NEW w \in Writers, NEW d \in Docs, Create(w, d) PROVE WriteInv'
  <2>1. PICK i \in Inodes : /\ IF tmp = NoInode THEN Free(i) ELSE i = tmp
                            /\ tmp' = i
                            /\ fd' = [fd EXCEPT ![w] = i]
                            /\ content' = [content EXCEPT ![i] = <<>>]
    BY <1>1 DEF Create
  <2>2. i # target
    BY <2>1 DEF Free
  <2>3. TargetIsWhole'
    BY <1>1, <2>1, <2>2 DEF Create, TargetIsWhole
  <2>4. <<>> = Prefix(d, 0)
    BY DEF Prefix
  <2>5. WriterKnows(w)'
    BY <1>1, <2>1, <2>4 DEF Create, WriterKnows
  <2>6. QED
    BY <1>1, <2>1, <2>2, <2>3, <2>5 DEF Create
<1>2. ASSUME NEW w \in Writers, WriteChunk(w) PROVE WriteInv'
  <2>1. fd[w] = tmp /\ tmp \in Inodes /\ content[tmp] = Prefix(doc[w], done[w])
    BY <1>2 DEF WriteChunk, WriterKnows
  <2>2. content'[tmp] = Prefix(doc[w], done[w] + 1)
    BY <1>2, <2>1, PrefixGrows DEF WriteChunk
  <2>3. TargetIsWhole'
    BY <1>2, <2>1 DEF WriteChunk, TargetIsWhole
  <2>4. WriterKnows(w)'
    BY <1>2, <2>1, <2>2 DEF WriteChunk, WriterKnows
  <2>5. QED
    BY <1>2, <2>3, <2>4 DEF WriteChunk
<1>3. ASSUME NEW w \in Writers, Sync(w) PROVE WriteInv'
  <2>1. TargetIsWhole'
    BY <1>3 DEF Sync, TargetIsWhole
  <2>2. WriterKnows(w)'
    BY <1>3 DEF Sync, WriterKnows
  <2>3. QED
    BY <1>3, <2>1, <2>2 DEF Sync
<1>4. ASSUME NEW w \in Writers, Fail(w) \/ RenameFails(w) PROVE WriteInv'
  <2>1. TargetIsWhole'
    BY <1>4 DEF Fail, RenameFails, TargetIsWhole
  <2>2. target \in Inodes /\ tmp' = NoInode /\ UNCHANGED target
    BY <1>4 DEF Fail, RenameFails
  <2>3. QED
    BY <1>4, <2>1, <2>2 DEF Fail, RenameFails, Close, WriterKnows
<1>5. ASSUME NEW w \in Writers, Rename(w) PROVE WriteInv'
  <2>1. tmp \in Inodes /\ content[tmp] = Whole(doc[w])
    BY <1>5 DEF Rename, WriterKnows, Prefix, Whole
  <2>2. target' = tmp /\ UNCHANGED content
    BY <1>5, <2>1 DEF Rename
  <2>3. TargetIsWhole'
    BY <2>1, <2>2 DEF TargetIsWhole
  <2>4. QED
    BY <1>5, <2>1, <2>2, <2>3 DEF Rename, Close, WriterKnows
<1>6. CASE Crash
  <2>1. TargetIsWhole'
    BY <1>6 DEF Crash, TargetIsWhole
  <2>2. QED
    BY <1>6, <2>1 DEF Crash, WriterKnows
<1>7. CASE UNCHANGED writeVars
  BY <1>7 DEF writeVars, TargetIsWhole, WriterKnows
<1>8. QED
  BY <1>1, <1>2, <1>3, <1>4, <1>5, <1>6, <1>7 DEF WriteNext

\* One writer at a time: at every moment and after every crash the file holds a
\* whole document.
THEOREM SingleWriterIsWhole ==
  ASSUME SingleWriter PROVE WriteSpec => []TargetIsWhole
<1>1. WriteInv => TargetIsWhole
  BY DEF WriteInv
<1>2. QED
  BY SingleWriter, WriteInvInit, WriteInvStep, <1>1, PTL DEF WriteSpec

\* One writer at a time: the steps of the writer, its failures and the crashes
\* implement a file whose document is replaced at once.
THEOREM SingleWriterIsAtomic ==
  ASSUME SingleWriter PROVE WriteSpec => ImplementsAtomicFile
<1>1. TargetIsWhole => Reading \in Docs
  BY DEF Reading, TargetIsWhole
<1>2. WriteInit => File!Init
  BY WriteInvInit, <1>1 DEF WriteInv, File!Init
<1>3. WriteInv /\ WriteInv' /\ [WriteNext]_writeVars => [File!Next]_Reading
  <2>1. TargetIsWhole' => Reading' \in Docs
    BY DEF Reading, TargetIsWhole
  <2>2. QED
    BY <2>1 DEF WriteInv, File!Next, File!Replace
<1>4. QED
  BY SingleWriter, WriteInvInit, WriteInvStep, <1>2, <1>3, PTL
  DEF WriteSpec, ImplementsAtomicFile, File!Spec

-----------------------------------------------------------------------------
(* ConnectionStore, for any number of syncs, entries and profiles.            *)
(* EditsOutsideSyncsAreSafe is inductive once the copy a sync holds is known   *)
(* to agree on every entry that is not exposed.                               *)

\* The copy a sync is about to save agrees with the user on the safe entries.
CopiesAgree ==
  \A s \in Syncs : pc[s] = "loaded" =>
    \A i \in Items \ exposed : i \in wanted <=> i \in buf[s].items

StoreInv == StoreTypeOK /\ EditsOutsideSyncsAreSafe /\ CopiesAgree

LEMMA StoreTypeStep == StoreTypeOK /\ [StoreNext]_storeVars => StoreTypeOK'
<1>. SUFFICES ASSUME StoreTypeOK, [StoreNext]_storeVars PROVE StoreTypeOK'
  OBVIOUS
<1>. USE ConnectionStoreAssumption DEF StoreTypeOK, Stores, syncVars, history, Fault
<1>1. ASSUME NEW store \in Stores, NEW touched \in SUBSET Items, Save(store, touched)
      PROVE  /\ mem' \in Stores /\ disk' \in Stores /\ exposed' \in SUBSET Items
             /\ edits' \in 0..MaxEdits /\ faults' \in 0..MaxFaults
             /\ UNCHANGED <<remote, syncVars, changes>>
  BY <1>1 DEF Save
<1>2. ASSUME NEW i \in Items, UserAdds(i) PROVE StoreTypeOK'
  <2>1. [mem EXCEPT !.items = @ \cup {i}] \in Stores
    OBVIOUS
  <2>2. QED
    BY <1>1, <1>2, <2>1 DEF UserAdds
<1>3. ASSUME NEW i \in Items, UserRemoves(i) PROVE StoreTypeOK'
  <2>1. [mem EXCEPT !.items = @ \ {i}] \in Stores
    OBVIOUS
  <2>2. QED
    BY <1>1, <1>3, <2>1 DEF UserRemoves
<1>4. ASSUME NEW p \in Profiles, UserRemovesProfile(p) PROVE StoreTypeOK'
  <2>1. [mem EXCEPT !.cloud = @ \ {p}] \in Stores
    OBVIOUS
  <2>2. QED
    BY <1>1, <1>4, <2>1 DEF UserRemovesProfile
<1>5. CASE UserUpdates
  BY <1>1, <1>5 DEF UserUpdates
<1>6. ASSUME NEW s \in Syncs, SyncSave(s) PROVE StoreTypeOK'
  <2>1. Merge(buf[s], payload[s]) \in Stores
    BY DEF Merge
  <2>2. QED
    BY <1>6, <2>1 DEF SyncSave
<1>7. ASSUME NEW s \in Syncs,
             SyncStart(s) \/ SyncFetch(s) \/ SyncLoad(s) \/ SyncFails(s)
               \/ SyncReload(s) \/ SyncReloadFails(s)
      PROVE  StoreTypeOK'
  <2>1. CASE SyncStart(s) \/ SyncFetch(s)
    BY <2>1 DEF SyncStart, SyncFetch
  <2>2. CASE SyncLoad(s) \/ SyncFails(s)
    BY <2>2 DEF SyncLoad, SyncFails
  <2>3. CASE SyncReload(s)
    BY <2>3 DEF SyncReload
  <2>4. CASE SyncReloadFails(s)
    BY <2>4 DEF SyncReloadFails
  <2>5. QED
    BY <1>7, <2>1, <2>2, <2>3, <2>4
<1>8. CASE RemoteChanges
  BY <1>8 DEF RemoteChanges
<1>9. CASE Restart
  BY <1>9 DEF Restart
<1>10. CASE UNCHANGED storeVars
  BY <1>10 DEF storeVars
<1>11. QED
  BY <1>2, <1>3, <1>4, <1>5, <1>6, <1>7, <1>8, <1>9, <1>10 DEF StoreNext, SyncStep

\* An edit is exposed exactly when it happens while a sync holds a copy, so the
\* copies keep agreeing on the entries that are not exposed.
LEMMA SaveIsSafe ==
  ASSUME StoreInv, NEW i \in Items,
         \/ Save([mem EXCEPT !.items = @ \cup {i}], {i}) /\ wanted' = wanted \cup {i}
         \/ Save([mem EXCEPT !.items = @ \ {i}], {i}) /\ wanted' = wanted \ {i}
  PROVE  (EditsOutsideSyncsAreSafe /\ CopiesAgree)'
<1>. USE DEF StoreInv, StoreTypeOK, Stores, EditsOutsideSyncsAreSafe, CopiesAgree, syncVars
<1>1. CASE SyncHoldsCopy
  <2>1. exposed' = exposed \cup {i}
    BY <1>1 DEF Save
  <2>2. QED
    BY <2>1 DEF Save
<1>2. CASE ~SyncHoldsCopy
  <2>1. \A s \in Syncs : pc'[s] # "loaded"
    BY <1>2 DEF SyncHoldsCopy, Save
  <2>2. CASE disk' = mem' /\ exposed' = exposed
    BY <2>1, <2>2 DEF Save
  <2>3. CASE disk' = disk /\ exposed' = exposed \cup {i}
    BY <2>1, <2>3 DEF Save
  <2>4. QED
    BY <1>2, <2>2, <2>3 DEF Save
<1>3. QED
  BY <1>1, <1>2

LEMMA StoreInvStep == StoreInv /\ [StoreNext]_storeVars => StoreInv'
<1>. SUFFICES ASSUME StoreInv, [StoreNext]_storeVars PROVE (EditsOutsideSyncsAreSafe /\ CopiesAgree)'
  BY StoreTypeStep DEF StoreInv
<1>. USE DEF StoreInv, StoreTypeOK, Stores, EditsOutsideSyncsAreSafe, CopiesAgree, syncVars, history
<1>1. ASSUME NEW i \in Items, UserAdds(i) \/ UserRemoves(i)
      PROVE  (EditsOutsideSyncsAreSafe /\ CopiesAgree)'
  BY <1>1, SaveIsSafe DEF UserAdds, UserRemoves
<1>2. ASSUME NEW p \in Profiles, UserRemovesProfile(p)
      PROVE  (EditsOutsideSyncsAreSafe /\ CopiesAgree)'
  BY <1>2 DEF UserRemovesProfile, Save
<1>3. CASE UserUpdates
  BY <1>3 DEF UserUpdates, Save
<1>4. ASSUME NEW s \in Syncs, SyncLoad(s)
      PROVE  (EditsOutsideSyncsAreSafe /\ CopiesAgree)'
  BY <1>4 DEF SyncLoad
<1>5. ASSUME NEW s \in Syncs, SyncSave(s)
      PROVE  (EditsOutsideSyncsAreSafe /\ CopiesAgree)'
  <2>1. Merge(buf[s], payload[s]).items = buf[s].items
    BY DEF Merge
  <2>2. QED
    BY <1>5, <2>1 DEF SyncSave
<1>6. ASSUME NEW s \in Syncs,
             SyncStart(s) \/ SyncFetch(s) \/ SyncFails(s) \/ SyncReload(s)
               \/ SyncReloadFails(s)
      PROVE  (EditsOutsideSyncsAreSafe /\ CopiesAgree)'
  BY <1>6 DEF SyncStart, SyncFetch, SyncFails, SyncReload, SyncReloadFails
<1>7. CASE RemoteChanges
  BY <1>7 DEF RemoteChanges
<1>8. CASE Restart
  BY <1>8 DEF Restart
<1>9. CASE UNCHANGED storeVars
  BY <1>9 DEF storeVars
<1>10. QED
  BY <1>1, <1>2, <1>3, <1>4, <1>5, <1>6, <1>7, <1>8, <1>9 DEF StoreNext, SyncStep

\* Whatever syncs, failures and restarts do, an entry the user made or removed
\* is right in the file and in memory unless that edit itself was exposed.
THEOREM SafeEdits == StoreSpec => [](StoreTypeOK /\ EditsOutsideSyncsAreSafe)
<1>1. StoreInit => StoreInv
  BY ConnectionStoreAssumption
  DEF StoreInit, Empty, StoreInv, StoreTypeOK, Stores, EditsOutsideSyncsAreSafe, CopiesAgree
<1>2. StoreInv => StoreTypeOK /\ EditsOutsideSyncsAreSafe
  BY DEF StoreInv
<1>3. QED
  BY <1>1, <1>2, StoreInvStep, PTL DEF StoreSpec

-----------------------------------------------------------------------------
(* AccountSession, for any tokens, accounts, sites and launches.  Two facts    *)
(* make the properties inductive: a token that is in use anywhere has a        *)
(* finished login, so no login can yield it again; and while saves succeed,    *)
(* the settings view's copy has the current token.                            *)

UsedTokensAreDone ==
  \A t \in Tokens : t \in ended \/ t \in {cfg.token, copy.token, saved.token}
                      => login[t] = "done"

CopyHasToken == ~failed => copy.token = cfg.token

SessionSafe == /\ EndedStaysEnded
        /\ CrashKeepsToken
        /\ UsedTokensAreDone
        /\ CopyHasToken

SessionInv == TypeOK /\ SessionSafe

\* The configurations the steps build, and the fields they leave alone.
LEMMA SignedOutIsConfig == SignedOut \in Configs /\ SignedOut.token = None
  BY DEF Configs, SignedOut

LEMMA LoggedIn ==
  ASSUME NEW c \in Configs, NEW t \in Tokens, NEW a \in Accounts, NEW d,
         d = [c EXCEPT !.token = t, !.account = a]
  PROVE  d \in Configs /\ d.token = t
  BY DEF Configs

LEMMA Renamed ==
  ASSUME NEW c \in Configs, NEW a \in Accounts, NEW d, d = [c EXCEPT !.account = a]
  PROVE  d \in Configs /\ d.token = c.token
  BY DEF Configs

LEMMA Moved ==
  ASSUME NEW c \in Configs, NEW s \in Sites \cup {None}, NEW d,
         d = [c EXCEPT !.site = s]
  PROVE  d \in Configs /\ d.token = c.token
  BY DEF Configs

LEMMA SessionInvInit == Init => SessionInv
<1>. SUFFICES ASSUME Init PROVE SessionInv
  OBVIOUS
<1>1. cfg \in Configs /\ copy \in Configs /\ saved \in Configs
  BY SignedOutIsConfig DEF Init
<1>2. TypeOK
  <2>1. failed \in BOOLEAN
    BY DEF Init
  <2>2. launches \in 0..MaxLaunches
    BY AccountSessionAssumption DEF Init
  <2>3. /\ login \in [Tokens -> {"none", "asked", "granted", "done"}]
        /\ whoami \in [Tokens -> {"none", "asked", "ok", "rejected", "offline"}]
        /\ revoked \subseteq Tokens /\ ended \subseteq Tokens
    BY DEF Init
  <2>4. QED
    BY <1>1, <2>1, <2>2, <2>3 DEF TypeOK
<1>3. SessionSafe
  BY SignedOutIsConfig, AccountSessionAssumption
  DEF Init, SessionSafe, EndedStaysEnded, CrashKeepsToken,
      UsedTokensAreDone, CopyHasToken
<1>4. QED
  BY <1>2, <1>3 DEF SessionInv

LEMMA SessionTypeStep == TypeOK /\ [Next]_vars => TypeOK'
<1>. SUFFICES ASSUME TypeOK, [Next]_vars PROVE TypeOK'
  OBVIOUS
<1>. USE AccountSessionAssumption DEF TypeOK, files, requests, Write, SetConfig,
         SetConfigAndCopy
<1>1. ASSUME NEW t \in Tokens, StartLogin(t) \/ LoginAnswers(t) PROVE TypeOK'
  BY <1>1 DEF StartLogin, LoginAnswers
<1>2. ASSUME NEW t \in Tokens, ApplyLogin(t) PROVE TypeOK'
  <2>1. cfg' = [cfg EXCEPT !.token = t, !.account = Owner[t]] /\ copy' = cfg'
    BY <1>2 DEF ApplyLogin
  <2>2. cfg' \in Configs
    <3>1. Owner[t] \in Accounts /\ cfg \in Configs
      OBVIOUS
    <3>2. QED
      BY <2>1, <3>1, LoggedIn
  <2>3. QED
    BY <1>2, <2>1, <2>2 DEF ApplyLogin
<1>3. ASSUME NEW t \in Tokens, Revoke(t) \/ WhoamiAnswers(t) PROVE TypeOK'
  BY <1>3 DEF Revoke, WhoamiAnswers
<1>4. ASSUME NEW t \in Tokens, ApplyWhoami(t) PROVE TypeOK'
  <2>1. cfg' \in Configs /\ saved' \in Configs /\ failed' \in BOOLEAN /\ copy' = copy
    BY <1>4, Renamed DEF ApplyWhoami
  <2>2. QED
    BY <1>4, <2>1 DEF ApplyWhoami
<1>5. ASSUME NEW t \in Tokens, ApplyRejection(t) PROVE TypeOK'
  <2>1. cfg' \in Configs /\ copy' \in Configs /\ saved' \in Configs /\ failed' \in BOOLEAN
    BY <1>5, SignedOutIsConfig DEF ApplyRejection, Invalidate
  <2>2. QED
    BY <1>5, <2>1, SignedOutIsConfig DEF ApplyRejection, Invalidate, Configs
<1>6. CASE Logout
  <2>1. cfg' \in Configs /\ copy' \in Configs /\ saved' \in Configs /\ failed' \in BOOLEAN
    BY <1>6, SignedOutIsConfig DEF Logout, Invalidate
  <2>2. QED
    BY <1>6, <2>1, SignedOutIsConfig DEF Logout, Invalidate, Configs
<1>7. CASE ConfigStep
  <2>1. CASE SelectSite
    <3>1. cfg' \in Configs /\ saved' \in Configs /\ failed' \in BOOLEAN
      BY <2>1, Moved DEF SelectSite
    <3>2. QED
      BY <2>1, <3>1 DEF SelectSite
  <2>2. CASE PinConnection
    BY <2>2 DEF PinConnection
  <2>3. CASE SettingsSave
    BY <2>3 DEF SettingsSave
  <2>4. QED
    BY <1>7, <2>1, <2>2, <2>3 DEF ConfigStep
<1>8. CASE Relaunch
  BY <1>8 DEF Relaunch
<1>9. CASE UNCHANGED vars
  BY <1>9 DEF vars
<1>10. QED
  BY <1>1, <1>2, <1>3, <1>4, <1>5, <1>6, <1>7, <1>8, <1>9 DEF Next, TokenStep

LEMMA SessionSafeStep == SessionInv /\ [Next]_vars => SessionSafe'
<1>. SUFFICES ASSUME SessionInv, [Next]_vars PROVE SessionSafe'
  OBVIOUS
<1>. USE AccountSessionAssumption
     DEF SessionSafe, EndedStaysEnded, CrashKeepsToken,
         UsedTokensAreDone, CopyHasToken, files, requests, Write, SetConfig,
         SetConfigAndCopy
<1>1. /\ cfg \in Configs /\ copy \in Configs /\ saved \in Configs
      /\ login \in [Tokens -> {"none", "asked", "granted", "done"}]
      /\ ended \subseteq Tokens /\ SessionSafe
  BY DEF SessionInv, TypeOK
<1>2. ASSUME NEW t \in Tokens, StartLogin(t) \/ LoginAnswers(t) PROVE SessionSafe'
  BY <1>1, <1>2 DEF StartLogin, LoginAnswers
<1>3. ASSUME NEW t \in Tokens, ApplyLogin(t) PROVE SessionSafe'
  <2>1. cfg'.token = t /\ copy' = cfg'
    <3>1. cfg' = [cfg EXCEPT !.token = t, !.account = Owner[t]] /\ copy' = cfg'
      BY <1>3 DEF ApplyLogin
    <3>2. Owner[t] \in Accounts /\ cfg \in Configs
      BY <1>1
    <3>3. QED
      BY <3>1, <3>2 DEF Configs
  <2>2. t \notin ended /\ t # None
    BY <1>1, <1>3 DEF ApplyLogin
  <2>3. QED
    BY <1>1, <1>3, <2>1, <2>2 DEF ApplyLogin
<1>4. ASSUME NEW t \in Tokens, Revoke(t) \/ WhoamiAnswers(t) PROVE SessionSafe'
  BY <1>1, <1>4 DEF Revoke, WhoamiAnswers
<1>5. ASSUME NEW t \in Tokens, ApplyWhoami(t) PROVE SessionSafe'
  <2>1. cfg'.token = cfg.token
    BY <1>1, <1>5, Renamed DEF ApplyWhoami
  <2>2. QED
    BY <1>1, <1>5, <2>1 DEF ApplyWhoami
<1>6. ASSUME NEW t \in Tokens, ApplyRejection(t) PROVE SessionSafe'
  BY <1>1, <1>6, SignedOutIsConfig DEF ApplyRejection, Invalidate
<1>7. CASE Logout
  BY <1>1, <1>7, SignedOutIsConfig DEF Logout, Invalidate
<1>8. CASE ConfigStep
  <2>1. CASE SelectSite
    <3>1. cfg'.token = cfg.token
      <4>1. PICK s \in Sites \cup {None} : cfg' = [cfg EXCEPT !.site = s]
        BY <2>1 DEF SelectSite
      <4>2. cfg \in Configs
        BY <1>1
      <4>3. QED
        BY <4>1, <4>2 DEF Configs
    <3>2. /\ UNCHANGED <<copy, login, ended>>
          /\ \/ saved' = cfg' /\ failed' = failed
             \/ saved' = saved /\ failed' = TRUE
      BY <2>1 DEF SelectSite
    <3>3. QED
      BY <1>1, <3>1, <3>2
  <2>2. CASE PinConnection
    BY <1>1, <2>2 DEF PinConnection
  <2>3. CASE SettingsSave
    BY <1>1, <2>3 DEF SettingsSave
  <2>4. QED
    BY <1>8, <2>1, <2>2, <2>3 DEF ConfigStep
<1>9. CASE Relaunch
  BY <1>1, <1>9 DEF Relaunch
<1>10. CASE UNCHANGED vars
  BY <1>1, <1>10 DEF vars
<1>11. QED
  BY <1>2, <1>3, <1>4, <1>5, <1>6, <1>7, <1>8, <1>9, <1>10 DEF Next, TokenStep

\* An ended session stays ended, across late answers, other logins, settings
\* saved from a copy and crashes; a crash finds the current token in the file.
THEOREM EndedSessions ==
  Spec => [](TypeOK /\ EndedStaysEnded /\ CrashKeepsToken)
<1>1. SessionInv /\ [Next]_vars => SessionInv'
  BY SessionTypeStep, SessionSafeStep DEF SessionInv
<1>2. SessionInv => TypeOK /\ EndedStaysEnded /\ CrashKeepsToken
  BY DEF SessionInv, SessionSafe
<1>3. QED
  BY SessionInvInit, <1>1, <1>2, PTL DEF Spec

\* While saves succeed the settings file holds the login in memory, so a crash
\* at any point finds the token that was last obtained.
THEOREM CrashFindsToken == Spec => []CrashKeepsToken
  BY EndedSessions, PTL
=============================================================================
