---------------------------- MODULE ConnectionStore ----------------------------
(***************************************************************************)
(* connections.json and its two writers.  The UI thread edits its copy in   *)
(* memory and saves all of it (config/store.rs).  A cloud sync runs on a    *)
(* background thread: fetch the profiles, load the file, merge, save; then  *)
(* the UI thread reloads its copy from the file (config/cloud_sync.rs and   *)
(* workspace/cloud_sync.rs).  Several syncs may be under way: the one at    *)
(* startup, the one of a login and those of the sync command.               *)
(*                                                                         *)
(* A save is one step here; AtomicWrite says when that is right.  The usual  *)
(* names carry the prefix Store, so that a module can extend both.          *)
(***************************************************************************)
EXTENDS Integers, FiniteSets

CONSTANTS
  Items,       \* entries the user makes: manual connections, forwards, scripts
  Profiles,    \* connection profiles of the portal, source CloudSync once merged
  Syncs,       \* syncs that may run at the same time
  MaxEdits,    \* bound: saves by the user
  MaxChanges,  \* bound: changes of the portal's profiles
  MaxFaults    \* bound: failed fetches and saves, and restarts

ASSUME ConnectionStoreAssumption ==
  MaxEdits \in Nat /\ MaxChanges \in Nat /\ MaxFaults \in Nat

VARIABLES
  mem,      \* the UI thread's ConnectionStore
  disk,     \* connections.json
  remote,   \* the profiles the portal would send
  pc,       \* pc[s]: where sync s stands
  payload,  \* payload[s]: the profiles it fetched
  buf,      \* buf[s]: the store it loaded
  wanted,   \* history: the entries the user made and did not remove
  exposed,  \* history: entries whose edit was not saved, or was saved between
            \* the load and the save of a sync
  edits, changes, faults   \* counters of the bounds

history == <<wanted, exposed>>
syncVars == <<pc, payload, buf>>
storeVars == <<mem, disk, remote, syncVars, history, edits, changes, faults>>

Stores == [items : SUBSET Items, cloud : SUBSET Profiles]
Empty == [items |-> {}, cloud |-> {}]

StoreInit ==
  /\ mem = Empty
  /\ disk = Empty
  /\ remote \in SUBSET Profiles
  /\ pc = [s \in Syncs |-> "idle"]
  /\ payload = [s \in Syncs |-> {}]
  /\ buf = [s \in Syncs |-> Empty]
  /\ wanted = {} /\ exposed = {}
  /\ edits = 0 /\ changes = 0 /\ faults = 0

Fault == faults < MaxFaults /\ faults' = faults + 1

SyncHoldsCopy == \E s \in Syncs : pc[s] = "loaded"

-----------------------------------------------------------------------------
(* The UI thread: every edit changes the copy in memory and saves it whole.  *)
(* A failed save leaves the edit in memory.                                 *)

Save(store, touched) ==
  /\ edits < MaxEdits
  /\ edits' = edits + 1
  /\ mem' = store
  /\ \/ /\ disk' = store
        /\ exposed' = exposed \cup (IF SyncHoldsCopy THEN touched ELSE {})
        /\ UNCHANGED faults
     \/ /\ Fault
        /\ exposed' = exposed \cup touched
        /\ UNCHANGED disk
  /\ UNCHANGED <<remote, syncVars, changes>>

UserAdds(i) ==
  /\ i \notin mem.items
  /\ Save([mem EXCEPT !.items = @ \cup {i}], {i})
  /\ wanted' = wanted \cup {i}

UserRemoves(i) ==
  /\ i \in mem.items
  /\ Save([mem EXCEPT !.items = @ \ {i}], {i})
  /\ wanted' = wanted \ {i}

\* Deleting a cloud connection: the next sync brings it back.
UserRemovesProfile(p) ==
  /\ p \in mem.cloud
  /\ Save([mem EXCEPT !.cloud = @ \ {p}], {})
  /\ UNCHANGED wanted

\* An update in place, a discovery or a script run: the set of entries is the same.
UserUpdates == Save(mem, {}) /\ UNCHANGED wanted

-----------------------------------------------------------------------------
(* A sync.                                                                  *)

SyncStart(s) ==
  /\ pc[s] = "idle"
  /\ pc' = [pc EXCEPT ![s] = "fetching"]
  /\ UNCHANGED <<mem, disk, remote, payload, buf, history, edits, changes, faults>>

SyncFetch(s) ==
  /\ pc[s] = "fetching"
  /\ pc' = [pc EXCEPT ![s] = "fetched"]
  /\ payload' = [payload EXCEPT ![s] = remote]
  /\ UNCHANGED <<mem, disk, remote, buf, history, edits, changes, faults>>

SyncLoad(s) ==
  /\ pc[s] = "fetched"
  /\ pc' = [pc EXCEPT ![s] = "loaded"]
  /\ buf' = [buf EXCEPT ![s] = disk]
  /\ UNCHANGED <<mem, disk, remote, payload, history, edits, changes, faults>>

\* Faulty variants, used by no action, are named ...Fault...
\* Fault: the prune looks at every connection, whatever its source.
MergeFaultPrunesAll(store, profiles) == [items |-> {}, cloud |-> profiles]

\* merge_profiles: every profile of the payload is upserted, cloud entries that
\* are not in it are pruned, the others are left alone.
Merge(store, profiles) == [store EXCEPT !.cloud = profiles]

\* Every upsert counts as a change: only a merge of nothing into a store without
\* cloud entries is not saved.
MergeChanged(store, profiles) == profiles # {} \/ store.cloud # {}

SyncSave(s) ==
  /\ pc[s] = "loaded"
  /\ pc' = [pc EXCEPT ![s] = "saved"]
  /\ disk' = IF MergeChanged(buf[s], payload[s]) THEN Merge(buf[s], payload[s]) ELSE disk
  /\ UNCHANGED <<mem, remote, payload, buf, history, edits, changes, faults>>

\* Any error ends the sync with a toast: no reload.
SyncFails(s) ==
  /\ pc[s] \in {"fetching", "fetched", "loaded"}
  /\ Fault
  /\ pc' = [pc EXCEPT ![s] = "idle"]
  /\ UNCHANGED <<mem, disk, remote, payload, buf, history, edits, changes>>

\* Fault: the reload is skipped.
SyncReloadFaultSkipped(s) ==
  /\ pc[s] = "saved"
  /\ pc' = [pc EXCEPT ![s] = "idle"]
  /\ UNCHANGED <<mem, disk, remote, payload, buf, history, edits, changes, faults>>

\* reload_connections_after_sync, on the UI thread.
SyncReload(s) ==
  /\ pc[s] = "saved"
  /\ pc' = [pc EXCEPT ![s] = "idle"]
  /\ mem' = disk
  /\ UNCHANGED <<disk, remote, payload, buf, history, edits, changes, faults>>

\* The reload cannot read the file: the copy in memory stays.
SyncReloadFails(s) ==
  /\ pc[s] = "saved"
  /\ Fault
  /\ pc' = [pc EXCEPT ![s] = "idle"]
  /\ UNCHANGED <<mem, disk, remote, payload, buf, history, edits, changes>>

-----------------------------------------------------------------------------
(* The surroundings.                                                        *)

RemoteChanges ==
  /\ changes < MaxChanges
  /\ changes' = changes + 1
  /\ remote' \in SUBSET Profiles
  /\ UNCHANGED <<mem, disk, syncVars, history, edits, faults>>

\* The program ends at any point and starts again from the file.
Restart ==
  /\ Fault
  /\ mem' = disk
  /\ pc' = [s \in Syncs |-> "idle"]
  /\ UNCHANGED <<disk, remote, payload, buf, history, edits, changes>>

SyncStep(s) == \/ SyncFetch(s)
               \/ SyncLoad(s)
               \/ SyncSave(s)
               \/ SyncFails(s)
               \/ SyncReload(s)
               \/ SyncReloadFails(s)

StoreNext ==
  \/ \E i \in Items : UserAdds(i) \/ UserRemoves(i)
  \/ \E p \in Profiles : UserRemovesProfile(p)
  \/ UserUpdates
  \/ \E s \in Syncs : SyncStart(s) \/ SyncStep(s)
  \/ RemoteChanges
  \/ Restart

StoreSpec == StoreInit /\ [][StoreNext]_storeVars

\* The background executor runs a sync to its end; every request has a timeout.
StoreFairSpec == StoreSpec /\ \A s \in Syncs : WF_storeVars(SyncStep(s))

-----------------------------------------------------------------------------
(* Properties                                                               *)

\* Every variable has its kind: a store holds entries and profiles only.
StoreTypeOK ==
  /\ mem \in Stores /\ disk \in Stores
  /\ remote \in SUBSET Profiles
  /\ pc \in [Syncs -> {"idle", "fetching", "fetched", "loaded", "saved"}]
  /\ payload \in [Syncs -> SUBSET Profiles]
  /\ buf \in [Syncs -> Stores]
  /\ wanted \in SUBSET Items /\ exposed \in SUBSET Items
  /\ edits \in 0..MaxEdits /\ changes \in 0..MaxChanges /\ faults \in 0..MaxFaults

\* An entry of the user is lost, or comes back after its removal, only if that
\* very edit failed to save or fell between the load and the save of a sync:
\* nothing else in the two writers' steps touches it, in the file or in memory.
EditsOutsideSyncsAreSafe ==
  \A i \in Items \ exposed : (i \in wanted <=> i \in disk.items)
                             /\ (i \in wanted <=> i \in mem.items)

\* Once the user, the portal and the network are quiet, a sync that is under way
\* alone leaves the file and the sidebar with exactly the portal's profiles.
Quiet == edits = MaxEdits /\ changes = MaxChanges /\ faults = MaxFaults
QuietSyncConverges ==
  \A s \in Syncs :
    (Quiet /\ pc[s] = "fetching" /\ \A t \in Syncs \ {s} : pc[t] = "idle")
      ~> (disk.cloud = remote /\ mem = disk)

-----------------------------------------------------------------------------
(* What the documents say and the code does not do.                         *)

\* "Manual / SSH-config connections are never removed" by a sync.
SyncKeepsManual ==
  [][\A s \in Syncs : SyncSave(s) => disk.items \subseteq disk'.items]_storeVars

\* "A cloud profile that stops appearing in the payload is deleted from the
\* local store on the next sync."
VanishedProfilesAreDeleted ==
  [][\A s \in Syncs : SyncReload(s) => mem'.cloud \subseteq payload[s]]_storeVars
=============================================================================
