-------------------------- MODULE SnapshotManager --------------------------
(***************************************************************************)
(* The Virtual A/B snapshot manager of libsnapshot (snapshot.cpp): the     *)
(* update state file, the boot indicator, the per-partition snapshot       *)
(* records, the device-mapper devices a partition is mapped to, and the    *)
(* merge driver.  Every top-level operation holds the flock on             *)
(* <metadata>/state for its whole body, so one lock section is one atomic  *)
(* action.  Two processes call the library: the update engine, which       *)
(* applies an update, and a merge daemon polling ProcessUpdateState.  The  *)
(* kernel's background merge and reboots (with first-stage mounting) are   *)
(* the environment.  Device sizes are abstracted to device_size =          *)
(* snapshot_size, so the snapshot device is <name> itself (no -inner).     *)
(***************************************************************************)
EXTENDS Naturals, FiniteSets

CONSTANTS
    Names,        \* suffixed partition names (system_a, system_b, ...)
    SlotOf,       \* the slot suffix of each name
    MaxReboots,   \* bound on reboots
    MaxFailures,  \* bound on injected mapper failures and process deaths
    TornWrites,   \* whether a process may die between truncate and write
    FreeSpace     \* whether a target partition may fit in free space of super

Slots == {"a", "b"}
NoSlot == "none"    \* the boot indicator file does not exist
Empty == ""         \* the state file is empty (created, or truncated only)
Absent == "absent"  \* no status file under <metadata>/snapshots

ASSUME /\ SlotOf \in [Names -> Slots]
       /\ MaxReboots \in Nat /\ MaxFailures \in Nat /\ TornWrites \in BOOLEAN
       /\ FreeSpace \in BOOLEAN

UpdateState == {"None", "Initiated", "Unverified", "Merging",
                "MergeNeedsReboot", "MergeCompleted", "MergeFailed"}
SnapshotState == {"Created", "Merging", "MergeCompleted"}
Tables == {"none", "linear", "snapshot", "snapshot-merge"}
SnapshotTables == {"snapshot", "snapshot-merge"}
Progress == {"none", "partial", "done"}
Procs == {"engine", "daemon"}
Pcs == {"idle", "wait", "ack", "begin", "begun", "created"}

VARIABLES
    state,      \* contents of <metadata>/state
    indicator,  \* contents of <metadata>/snapshot-boot, or NoSlot
    slot,       \* the slot the device booted from (GetSlotSuffix)
    rec,        \* the SnapshotState in each status file, or Absent
    updated,    \* LP_PARTITION_ATTR_UPDATED of each name in super metadata
    dev,        \* the table of the device-mapper device <name>
    cow,        \* whether <name>-cow and <name>-cow-img are mapped
    merged,     \* how much of the COW the kernel merged into the base
    pc,         \* where the engine and the daemon are in their calls
    reboots, failures

vars == <<state, indicator, slot, rec, updated, dev, cow, merged, pc,
          reboots, failures>>

TargetNames == {n \in Names : SlotOf[n] # slot}

TypeOK ==
    /\ state \in UpdateState \cup {Empty}
    /\ indicator \in Slots \cup {NoSlot}
    /\ slot \in Slots
    /\ rec \in [Names -> SnapshotState \cup {Absent}]
    /\ updated \in [Names -> BOOLEAN]
    /\ dev \in [Names -> Tables]
    /\ cow \in [Names -> BOOLEAN]
    /\ merged \in [Names -> Progress]
    /\ pc \in [Procs -> Pcs]
    /\ reboots \in 0..MaxReboots /\ failures \in 0..MaxFailures

-----------------------------------------------------------------------------
(* The state store.                                                        *)

\* Empty or unknown contents read as None.
ReadUpdateState(c) == IF c = Empty THEN "None" ELSE c

\* Truncate, then write: a process dying in between leaves the file empty.
WriteUpdateState(s) == state' \in IF TornWrites THEN {s, Empty} ELSE {s}

\* The writing process died between truncate and write.
Torn == state' = Empty /\ state # Empty

ListSnapshots(r) == {n \in Names : r[n] # Absent}

\* DeviceMapper::DeleteDeviceIfExists on <name>: the booted slot's
\* partitions are mounted, so deleting one fails (EBUSY).
DeleteDeviceIfExists(n, d) == d[n] = "none" \/ SlotOf[n] # slot

\* IsSnapshotDevice: <name> has a single snapshot or snapshot-merge target.
IsSnapshotDevice(n, d) == d[n] \in SnapshotTables

\* UnmapSnapshot deletes <name> (and the -inner device, absent here).
UnmapSnapshot(n, d) == DeleteDeviceIfExists(n, d)

\* UnmapCowDevices deletes <name>-cow, which fails while a snapshot table
\* still holds the COW.
UnmapCowDevices(n, d) == d[n] \notin SnapshotTables

\* UnmapPartitionWithSnapshot: the snapshot device, then the COW devices.
UnmapPartitionWithSnapshot(n, d) ==
    UnmapSnapshot(n, d) /\ UnmapCowDevices(n, [d EXCEPT ![n] = "none"])

\* DeleteSnapshot: UnmapCowDevices, then the COW image and the status file
\* are removed (neither fails here).
DeleteSnapshot(n, d) == UnmapCowDevices(n, d)

\* RemoveAllSnapshots: UnmapPartitionWithSnapshot && DeleteSnapshot for every
\* record, continuing past failures; a failed unmap leaves the name as it was.
RemoveAllSnapshots(r, d, c) ==
    LET gone == {n \in ListSnapshots(r) :
                   UnmapPartitionWithSnapshot(n, d)
                   /\ DeleteSnapshot(n, [d EXCEPT ![n] = "none"])}
    IN [ok  |-> gone = ListSnapshots(r),
        rec |-> [n \in Names |-> IF n \in gone THEN Absent ELSE r[n]],
        dev |-> [n \in Names |-> IF n \in gone THEN "none" ELSE d[n]],
        cow |-> [n \in Names |-> IF n \in gone THEN FALSE ELSE c[n]]]

\* RemoveAllUpdateState applied to records and devices r, d, c: the boot
\* indicator is removed and None written only if every snapshot went away.
RemoveAllUpdateState(r, d, c) ==
    LET x == RemoveAllSnapshots(r, d, c)
    IN /\ rec' = x.rec /\ dev' = x.dev /\ cow' = x.cow
       /\ IF x.ok THEN indicator' = NoSlot /\ WriteUpdateState("None")
                  ELSE UNCHANGED <<indicator, state>>

RemovedAll(r, d, c) == RemoveAllSnapshots(r, d, c).ok /\ ~Torn

-----------------------------------------------------------------------------
(* The snapshot composer.                                                  *)

\* A live snapshot: UPDATED is set and the record exists and is not
\* MergeCompleted.
LiveSnapshot(n, u) == u[n] /\ rec[n] \in {"Created", "Merging"}

\* Mutant: a merge target is also chosen for an unverified update.
SnapshotModeMergeWhenUnverified(st) ==
    CASE st \in {"Merging", "MergeFailed", "Unverified"} -> "snapshot-merge"
      [] st \in {"MergeCompleted", "MergeNeedsReboot"}   -> "none"
      [] OTHER                                          -> "snapshot"

\* MapSnapshot's storage mode, chosen from the global state ("none" when it
\* refuses to map, after which the AutoDeviceList removes base and COW).
SnapshotMode(st) ==
    CASE st \in {"Merging", "MergeFailed"}           -> "snapshot-merge"
      [] st \in {"MergeCompleted", "MergeNeedsReboot"} -> "none"
      [] OTHER                                        -> "snapshot"

\* The table MapPartitionWithSnapshot leaves on <name>.
MapPartitionWithSnapshot(n, u, st) ==
    IF LiveSnapshot(n, u) THEN SnapshotMode(st) ELSE "linear"

NeedSnapshotsInFirstStageMount(s) ==
    /\ indicator # NoSlot
    /\ s # indicator
    /\ ReadUpdateState(state) \in {"Unverified", "Merging", "MergeFailed"}

\* First-stage init of slot s: CreateLogicalAndSnapshotPartitions when
\* snapshots are needed, else plain linear partitions.
FirstStageTable(n, s, u) ==
    IF SlotOf[n] # s THEN "none"
    ELSE IF NeedSnapshotsInFirstStageMount(s)
         THEN MapPartitionWithSnapshot(n, u, ReadUpdateState(state))
         ELSE "linear"


-----------------------------------------------------------------------------
(* The update coordinator: operations of the update engine.               *)

\* The engine's program counter after a call, given the results.
SetPc(p, to) == pc' = [pc EXCEPT ![p] = IF Torn THEN "idle" ELSE to]

\* TryCancelUpdate; goes to onOk when nothing is left of an update and to
\* onMerge when the update must be merged first.
TryCancelUpdate(onMerge, onOk) ==
    LET st == ReadUpdateState(state)
        cancellable == \/ st = "Initiated"
                       \/ st = "Unverified" /\ indicator \in {NoSlot, slot}
    IN \/ /\ st = "None"
          /\ UNCHANGED <<state, indicator, rec, dev, cow>>
          /\ SetPc("engine", onOk)
       \/ /\ cancellable
          /\ RemoveAllUpdateState(rec, dev, cow)
          /\ SetPc("engine", IF RemovedAll(rec, dev, cow) THEN onOk ELSE "idle")
       \/ /\ st # "None" /\ ~cancellable
          /\ UNCHANGED <<state, indicator, rec, dev, cow>>
          /\ SetPc("engine", onMerge)

\* BeginUpdate, first lock section; with needs_merge it runs
\* ProcessUpdateState ("wait") before taking the lock again ("begin").
BeginUpdate ==
    /\ pc["engine"] = "idle"
    /\ TryCancelUpdate("wait", "begin")
    /\ UNCHANGED <<slot, updated, merged, reboots, failures>>

BeginUpdateLocked ==
    /\ pc["engine"] = "begin"
    /\ IF ReadUpdateState(state) = "None"
       THEN WriteUpdateState("Initiated") /\ SetPc("engine", "begun")
       ELSE UNCHANGED state /\ SetPc("engine", "idle")
    /\ UNCHANGED <<indicator, slot, rec, updated, dev, cow, merged,
                   reboots, failures>>

CancelUpdate ==
    /\ pc["engine"] = "idle"
    /\ TryCancelUpdate("idle", "idle")
    /\ UNCHANGED <<slot, updated, merged, reboots, failures>>

\* The target partitions PartitionCowCreator gives snapshot_size 0 (the
\* whole partition fits in free space of super): any set of them.
NoSnapshotNeeded(T) == IF FreeSpace THEN SUBSET T ELSE {{}}

\* CreateUpdateSnapshots for the other slot.  The first loop deletes each
\* name's old snapshot (failing while its snapshot table holds the COW),
\* skips the names in U, and writes a Created record and the COW image of
\* the others.  The second loop unmaps each name, CHECKs that it has a
\* status entry, and maps, zero-fills and unmaps its COW; the target
\* metadata with UPDATED is written last.  On an error return the
\* AutoDeleteSnapshot entries remove the records created so far: in some
\* order, a subset D of names has lost its old record.  A process death
\* runs no destructor: dying in the first loop leaves the Created records
\* of C and the deleted records of D; the CHECK failing at a skipped name
\* aborts after the names in P were unmapped.
CreateUpdateSnapshots ==
    LET T == TargetNames
        deletable == {n \in T : DeleteSnapshot(n, dev)}
    IN
    /\ pc["engine"] = "begun"
    /\ \E U \in NoSnapshotNeeded(T) :
       \/ /\ deletable = T /\ U = {}
          /\ rec' = [n \in Names |-> IF n \in T THEN "Created" ELSE rec[n]]
          /\ merged' = [n \in Names |-> IF n \in T THEN "none" ELSE merged[n]]
          /\ dev' = [n \in Names |-> IF n \in T THEN "none" ELSE dev[n]]
          /\ cow' = [n \in Names |-> IF n \in T THEN FALSE ELSE cow[n]]
          /\ updated' = [n \in Names |-> n \in T \/ updated[n]]
          /\ pc' = [pc EXCEPT !["engine"] = "created"]
          /\ UNCHANGED failures
       \/ /\ deletable = T /\ U # {}
          /\ rec' = [n \in Names |-> CASE n \in U     -> Absent
                                        [] n \in T     -> "Created"
                                        [] OTHER       -> rec[n]]
          /\ merged' = [n \in Names |-> IF n \in T \ U THEN "none" ELSE merged[n]]
          /\ \E P \in SUBSET T :
                /\ P \cap U # {}
                /\ dev' = [n \in Names |-> IF n \in P THEN "none" ELSE dev[n]]
          /\ cow' = [n \in Names |-> IF n \in T THEN FALSE ELSE cow[n]]
          /\ pc' = [pc EXCEPT !["engine"] = "idle"]
          /\ UNCHANGED <<updated, failures>>
       \/ /\ deletable # T \/ failures < MaxFailures
          /\ failures' = IF deletable = T THEN failures + 1 ELSE failures
          /\ \E D \in SUBSET deletable :
                /\ rec' = [n \in Names |-> IF n \in D THEN Absent ELSE rec[n]]
                /\ cow' = [n \in Names |-> IF n \in D THEN FALSE ELSE cow[n]]
          /\ pc' = [pc EXCEPT !["engine"] = "idle"]
          /\ UNCHANGED <<dev, updated, merged>>
       \/ /\ failures < MaxFailures
          /\ failures' = failures + 1
          /\ \E C \in SUBSET (deletable \ U), D \in SUBSET deletable :
                /\ rec' = [n \in Names |-> CASE n \in C -> "Created"
                                              [] n \in D -> Absent
                                              [] OTHER   -> rec[n]]
                /\ merged' = [n \in Names |-> IF n \in C THEN "none" ELSE merged[n]]
                /\ cow' = [n \in Names |-> IF n \in C \cup D THEN FALSE ELSE cow[n]]
          /\ pc' = [pc EXCEPT !["engine"] = "idle"]
          /\ UNCHANGED <<dev, updated>>
    /\ UNCHANGED <<state, indicator, slot, reboots>>

\* MapUpdateSnapshot (shared lock): unmap any leftover stack, then map.
MapUpdateSnapshot(n) ==
    LET t == MapPartitionWithSnapshot(n, updated, ReadUpdateState(state))
    IN /\ pc["engine"] = "created" /\ n \in TargetNames
       /\ dev' = [dev EXCEPT ![n] = t]
       /\ cow' = [cow EXCEPT ![n] = t \in SnapshotTables]
       /\ UNCHANGED <<state, indicator, slot, rec, updated, merged, pc,
                      reboots, failures>>

UnmapUpdateSnapshot(n) ==
    /\ pc["engine"] = "created" /\ n \in TargetNames
    /\ dev' = [dev EXCEPT ![n] = "none"]
    /\ cow' = [cow EXCEPT ![n] = FALSE]
    /\ UNCHANGED <<state, indicator, slot, rec, updated, merged, pc,
                   reboots, failures>>

\* FinishedSnapshotWrites: idempotent from Unverified; from Initiated the
\* boot indicator gets the current slot before Unverified is written.
FinishedSnapshotWrites ==
    LET st == ReadUpdateState(state) IN
    /\ pc["engine"] = "created"
    /\ IF st = "Initiated"
       THEN indicator' = slot /\ WriteUpdateState("Unverified")
       ELSE UNCHANGED <<indicator, state>>
    /\ pc' = [pc EXCEPT !["engine"] = "idle"]
    /\ UNCHANGED <<slot, rec, updated, dev, cow, merged, reboots, failures>>


-----------------------------------------------------------------------------
(* The merge driver.                                                       *)

\* RewriteSnapshotDeviceTable: the live table must be a single snapshot
\* target, which is reloaded as snapshot-merge over the same base and COW.
RewriteSnapshotDeviceTable(n) == dev[n] = "snapshot"

\* InitiateMerge: from Unverified, booted off the new slot, with every
\* snapshot mapped.  Merging is written first, then each snapshot's table is
\* swapped to snapshot-merge and its record set to Merging.  A swap fails
\* when the table is not a single snapshot target, or by a mapper failure
\* (inj); then MergeFailed is written, and true returned regardless.  The
\* process may also die after processing P, having swapped but not recorded
\* at most one name (P \ R).
InitiateMerge ==
    LET S == ListSnapshots(rec)
        switchable == {n \in S : RewriteSnapshotDeviceTable(n)}
    IN
    /\ pc["engine"] = "idle"
    /\ ReadUpdateState(state) = "Unverified"
    /\ indicator \notin {NoSlot, slot}
    /\ \A n \in S : dev[n] # "none"
    /\ \/ /\ TornWrites /\ state' = Empty
          /\ UNCHANGED <<rec, dev, failures>>
       \/ \E inj \in SUBSET switchable, died \in BOOLEAN,
             P \in SUBSET S, R \in SUBSET S :
            LET bad == (S \ switchable) \cup inj
            IN /\ failures' = failures + Cardinality(inj) + IF died THEN 1 ELSE 0
               /\ failures' <= MaxFailures
               /\ IF died THEN R \subseteq P /\ Cardinality(P \ R) <= 1
                          ELSE P = S /\ R = S
               /\ dev' = [n \in Names |->
                            IF n \in P \ bad THEN "snapshot-merge" ELSE dev[n]]
               /\ rec' = [n \in Names |->
                            IF n \in R \ bad THEN "Merging" ELSE rec[n]]
               /\ IF ~died /\ bad # {} THEN WriteUpdateState("MergeFailed")
                                       ELSE state' = "Merging"
    /\ pc' = [pc EXCEPT !["engine"] = "idle"]
    /\ UNCHANGED <<indicator, slot, updated, cow, merged, reboots>>

\* IsCancelledSnapshot: the name is in the booted slot's metadata and its
\* UPDATED attribute is clear (the partition was flashed).
IsCancelledSnapshot(n) == SlotOf[n] = slot /\ ~updated[n]

\* OnSnapshotMergeComplete on a drained snapshot-merge device:
\* CollapseSnapshotDevice loads the base's linear table into <name> in place
\* (failing when the mapper fails), then DeleteSnapshot, the COW being free,
\* unmaps it and removes the image and the status file.
OnSnapshotMergeComplete(n, collapseFails) ==
    IF collapseFails THEN [ok |-> FALSE, dev |-> dev[n], cow |-> cow[n]]
                     ELSE [ok |-> TRUE, dev |-> "linear", cow |-> FALSE]

\* Mutant: a failed collapse stores the UpdateState result in the record.
CheckTargetMergeStateRecordsResult(n, collapseFails) ==
    LET keep(res) == [res |-> res, rec |-> rec[n], dev |-> dev[n], cow |-> cow[n],
                      collapse |-> FALSE]
        deleted(res) == [res |-> res, rec |-> Absent, dev |-> dev[n], cow |-> FALSE,
                         collapse |-> FALSE]
        completed(m) == [res |-> IF m.ok THEN "MergeCompleted" ELSE "MergeNeedsReboot",
                         rec |-> IF m.ok THEN Absent ELSE "MergeNeedsReboot",
                         dev |-> m.dev, cow |-> m.cow, collapse |-> TRUE]
    IN
    CASE ~IsSnapshotDevice(n, dev) /\ IsCancelledSnapshot(n) -> deleted("Cancelled")
      [] ~IsSnapshotDevice(n, dev) /\ rec[n] = "MergeCompleted" -> deleted("MergeCompleted")
      [] dev[n] # "snapshot-merge" -> keep("MergeFailed")
      [] merged[n] # "done"
            -> keep(IF rec[n] = "MergeCompleted" THEN "MergeFailed" ELSE "Merging")
      [] OTHER -> completed(OnSnapshotMergeComplete(n, collapseFails))

\* Mutant: cleanup is not retried for a record already marked MergeCompleted.
CheckTargetMergeStateNoCleanupRetry(n, collapseFails) ==
    LET keep(res) == [res |-> res, rec |-> rec[n], dev |-> dev[n], cow |-> cow[n],
                      collapse |-> FALSE]
        deleted(res) == [res |-> res, rec |-> Absent, dev |-> dev[n], cow |-> FALSE,
                         collapse |-> FALSE]
        completed(m) == [res |-> IF m.ok THEN "MergeCompleted" ELSE "MergeNeedsReboot",
                         rec |-> IF m.ok THEN Absent ELSE "MergeCompleted",
                         dev |-> m.dev, cow |-> m.cow, collapse |-> TRUE]
    IN
    CASE ~IsSnapshotDevice(n, dev) /\ IsCancelledSnapshot(n) -> deleted("Cancelled")
      [] dev[n] # "snapshot-merge" -> keep("MergeFailed")
      [] merged[n] # "done"
            -> keep(IF rec[n] = "MergeCompleted" THEN "MergeFailed" ELSE "Merging")
      [] OTHER -> completed(OnSnapshotMergeComplete(n, collapseFails))

\* CheckTargetMergeState for snapshot n, whose collapse fails when
\* collapseFails: its result, n's record, table and COW afterwards, and
\* whether it went on to collapse the device.  A device that is no longer a
\* snapshot is deleted if cancelled, cleaned up again if its record is
\* MergeCompleted, and a failure otherwise; a drained merge target has its
\* record set to MergeCompleted before OnSnapshotMergeComplete.
CheckTargetMergeState(n, collapseFails) ==
    LET keep(res) == [res |-> res, rec |-> rec[n], dev |-> dev[n], cow |-> cow[n],
                      collapse |-> FALSE]
        deleted(res) == [res |-> res, rec |-> Absent, dev |-> dev[n], cow |-> FALSE,
                         collapse |-> FALSE]
        completed(m) == [res |-> IF m.ok THEN "MergeCompleted" ELSE "MergeNeedsReboot",
                         rec |-> IF m.ok THEN Absent ELSE "MergeCompleted",
                         dev |-> m.dev, cow |-> m.cow, collapse |-> TRUE]
    IN
    CASE ~IsSnapshotDevice(n, dev) /\ IsCancelledSnapshot(n) -> deleted("Cancelled")
      [] ~IsSnapshotDevice(n, dev) /\ rec[n] = "MergeCompleted" -> deleted("MergeCompleted")
      [] dev[n] # "snapshot-merge" -> keep("MergeFailed")
      [] merged[n] # "done"
            -> keep(IF rec[n] = "MergeCompleted" THEN "MergeFailed" ELSE "Merging")
      [] OTHER -> completed(OnSnapshotMergeComplete(n, collapseFails))

\* Mutant: MergeNeedsReboot outranks Merging in the aggregation.
MergeResultNeedsRebootFirst(R) ==
    CASE "MergeNeedsReboot" \in R -> "MergeNeedsReboot"
      [] "Merging" \in R          -> "Merging"
      [] "MergeFailed" \in R      -> "MergeFailed"
      [] "Cancelled" \in R        -> "Cancelled"
      [] OTHER                    -> "MergeCompleted"

\* HandleCancelledUpdate: the boot indicator names the booted slot, so the
\* device rolled back or was switched back before the new slot booted.
HandleCancelledUpdate == indicator = slot

\* CheckMergeState's aggregation of the per-snapshot results.
MergeResult(R) ==
    CASE "Merging" \in R          -> "Merging"
      [] "MergeFailed" \in R      -> "MergeFailed"
      [] "MergeNeedsReboot" \in R -> "MergeNeedsReboot"
      [] "Cancelled" \in R        -> "Cancelled"
      [] OTHER                    -> "MergeCompleted"

\* The program counter ProcessUpdateState leaves after a CheckMergeState
\* that returned r: acknowledge a failure, poll again while merging, else
\* return to the caller.
Polling(p) == IF p = "engine" THEN "wait" ELSE "idle"
Returned(p) == IF p = "engine" THEN "begin" ELSE "idle"
AfterPoll(p, r) ==
    CASE r = "MergeFailed" -> "ack"
      [] r = "Merging"     -> pc[p]
      [] OTHER             -> Returned(p)

\* One iteration of ProcessUpdateState by p: CheckMergeState, which returns
\* MergeFailed if the exclusive lock cannot be taken, and otherwise runs
\* under it, with AcknowledgeMergeSuccess / RemoveAllUpdateState on a
\* completed or cancelled merge.
CheckMergeState(p) ==
    LET st == ReadUpdateState(state)
        S == ListSnapshots(rec)
        collapsing == {n \in S : CheckTargetMergeState(n, FALSE).collapse}
    IN
    /\ pc[p] = Polling(p)
    /\ \/ /\ failures < MaxFailures      \* LockExclusive failed
          /\ failures' = failures + 1
          /\ UNCHANGED <<state, indicator, rec, dev, cow>>
          /\ SetPc(p, AfterPoll(p, "MergeFailed"))
       \/ /\ \/ st \in {"None", "MergeCompleted", "Initiated"}
             \/ st = "Unverified" /\ ~HandleCancelledUpdate
          /\ UNCHANGED <<state, indicator, rec, dev, cow, failures>>
          /\ SetPc(p, AfterPoll(p, st))
       \/ /\ st = "Unverified" /\ HandleCancelledUpdate
          /\ RemoveAllUpdateState(rec, dev, cow)
          /\ SetPc(p, AfterPoll(p, "Cancelled"))
          /\ UNCHANGED failures
       \/ /\ st \in {"Merging", "MergeNeedsReboot", "MergeFailed"}
          /\ \E fails \in SUBSET collapsing :
             LET out == [n \in S |-> CheckTargetMergeState(n, n \in fails)]
                 r2 == [n \in Names |-> IF n \in S THEN out[n].rec ELSE rec[n]]
                 d2 == [n \in Names |-> IF n \in S THEN out[n].dev ELSE dev[n]]
                 c2 == [n \in Names |-> IF n \in S THEN out[n].cow ELSE cow[n]]
                 res == MergeResult({out[n].res : n \in S})
             IN /\ failures' = failures + Cardinality(fails)
                /\ failures' <= MaxFailures
                /\ IF res \in {"MergeCompleted", "Cancelled"}
                   THEN RemoveAllUpdateState(r2, d2, c2)
                   ELSE /\ rec' = r2 /\ dev' = d2 /\ cow' = c2
                        /\ UNCHANGED indicator
                        /\ IF res = "MergeNeedsReboot"
                           THEN WriteUpdateState(res) ELSE UNCHANGED state
                /\ SetPc(p, AfterPoll(p, res))
    /\ UNCHANGED <<slot, updated, merged, reboots>>

\* Mutant: MergeFailed is written without re-reading the state.
AcknowledgeMergeFailureNoReread(p) ==
    /\ pc[p] = "ack"
    /\ WriteUpdateState("MergeFailed")
    /\ SetPc(p, Returned(p))
    /\ UNCHANGED <<indicator, slot, rec, updated, dev, cow, merged,
                   reboots, failures>>

\* AcknowledgeMergeFailure: re-lock, re-read, and write MergeFailed only over
\* Merging or MergeNeedsReboot.
AcknowledgeMergeFailure(p) ==
    /\ pc[p] = "ack"
    /\ IF ReadUpdateState(state) \in {"Merging", "MergeNeedsReboot"}
       THEN WriteUpdateState("MergeFailed") ELSE UNCHANGED state
    /\ SetPc(p, Returned(p))
    /\ UNCHANGED <<indicator, slot, rec, updated, dev, cow, merged,
                   reboots, failures>>

-----------------------------------------------------------------------------
(* The environment: the kernel merge, and reboots.                         *)

\* dm-snapshot-merge copies the COW into the base in the background.
KernelMerge(n) ==
    /\ dev[n] = "snapshot-merge" /\ merged[n] # "done"
    /\ merged' = [merged EXCEPT ![n] = IF @ = "none" THEN "partial" ELSE "done"]
    /\ UNCHANGED <<state, indicator, slot, rec, updated, dev, cow, pc,
                   reboots, failures>>

\* A reboot, into the same slot or, while the update is unverified, into the
\* other one (slot switch or rollback), with some partitions of that slot
\* flashed from the bootloader; then first-stage init maps the partitions.
Reboot ==
    /\ reboots < MaxReboots
    /\ \E s \in IF ReadUpdateState(state) = "Unverified" THEN Slots ELSE {slot} :
       \E wiped \in SUBSET {n \in Names : SlotOf[n] = s /\ updated[n]} :
         LET u == [n \in Names |-> updated[n] /\ n \notin wiped]
             d == [n \in Names |-> FirstStageTable(n, s, u)]
         IN /\ slot' = s /\ updated' = u /\ dev' = d
            /\ cow' = [n \in Names |-> d[n] \in SnapshotTables]
    /\ pc' = [p \in Procs |-> "idle"]
    /\ reboots' = reboots + 1
    /\ UNCHANGED <<state, indicator, rec, merged, failures>>

-----------------------------------------------------------------------------

\* A device that never took an update, booted from slot a; the state file
\* does not exist yet, which reads as None.
Init ==
    /\ state = Empty /\ indicator = NoSlot /\ slot = "a"
    /\ rec = [n \in Names |-> Absent]
    /\ updated = [n \in Names |-> FALSE]
    /\ dev = [n \in Names |-> IF SlotOf[n] = "a" THEN "linear" ELSE "none"]
    /\ cow = [n \in Names |-> FALSE]
    /\ merged = [n \in Names |-> "none"]
    /\ pc = [p \in Procs |-> "idle"]
    /\ reboots = 0 /\ failures = 0

Next ==
    \/ BeginUpdate \/ BeginUpdateLocked \/ CancelUpdate
    \/ CreateUpdateSnapshots \/ FinishedSnapshotWrites \/ InitiateMerge
    \/ \E n \in Names : MapUpdateSnapshot(n) \/ UnmapUpdateSnapshot(n)
    \/ \E p \in Procs : CheckMergeState(p) \/ AcknowledgeMergeFailure(p)
    \/ \E n \in Names : KernelMerge(n)
    \/ Reboot

Spec == Init /\ [][Next]_vars

\* The merge daemon loops in ProcessUpdateState as long as it runs, and the
\* kernel keeps merging a snapshot-merge target; the engine and reboots get
\* no fairness.
FairSpec ==
    /\ Spec
    /\ WF_vars(CheckMergeState("daemon"))
    /\ WF_vars(AcknowledgeMergeFailure("daemon"))
    /\ \A n \in Names : WF_vars(KernelMerge(n))


-----------------------------------------------------------------------------
(* Properties.                                                             *)

\* A partition of the booted slot that an update wrote is never mounted on
\* a view that is neither the update (snapshot over base and COW) nor a base
\* the merge has finished: first-stage mapping, the snapshot-merge switch,
\* collapse and cleanup must agree on when the base alone is the update.
UpdateDataVisible ==
    \A n \in Names :
        (SlotOf[n] = slot /\ updated[n] /\ dev[n] # "none")
            => (dev[n] \in SnapshotTables /\ cow[n]) \/ merged[n] = "done"

\* The kernel merges into a base only while the state file says a merge is
\* in progress (Merging, MergeNeedsReboot or MergeFailed), so that the next
\* boot maps that partition in merge mode again.
MergeOnlyWhileMerging ==
    \A n \in Names :
        dev[n] = "snapshot-merge"
            => ReadUpdateState(state) \in {"Merging", "MergeNeedsReboot", "MergeFailed"}


\* The coordinator implements UpdateStateMachine: the state read back from
\* the state file and the set of status files move only along its steps.
\* In particular no sequence of operations, failures and reboots writes
\* None while a record remains, and AcknowledgeMergeFailure's re-read keeps
\* a late acknowledgement from overwriting a finished merge.
Abstract == INSTANCE UpdateStateMachine
                WITH ustate <- ReadUpdateState(state), snaps <- ListSnapshots(rec)
ImplementsUpdateStateMachine == Abstract!Spec


\* CreateUpdateSnapshots ends without creating the update only on an error:
\* an old snapshot it cannot delete or an injected failure or death.  The
\* spec and the comment at the skip say that a partition needing no
\* snapshot (snapshot_size 0) is skipped, not a reason to fail.
CreateFailsOnlyOnError ==
    [][ pc["engine"] = "begun" /\ pc'["engine"] = "idle" /\ reboots' = reboots
          => \/ failures' > failures
             \/ \E n \in TargetNames : ~DeleteSnapshot(n, dev) ]_vars

\* Merge completion law: once Merging is written, polling eventually
\* collapses every snapshot, deletes the records and writes None, unless a
\* snapshot still has a plain snapshot table (its swap in InitiateMerge
\* failed or never ran), which only the next boot remaps as a merge target.
MergeStalled == \E n \in ListSnapshots(rec) : dev[n] = "snapshot"

MergeEventuallyEnds ==
    ReadUpdateState(state) = "Merging"
        ~> (ReadUpdateState(state) = "None" \/ MergeStalled)

=====
