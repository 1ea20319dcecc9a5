--------------------------- MODULE SnapshotStack ---------------------------
(***************************************************************************)
(* One call of MapPartitionWithSnapshot for a partition <n>, step by step, *)
(* over the kernel's device-mapper table: the base device, the COW image   *)
(* and COW device (MapCowDevices), the snapshot device and, when the       *)
(* snapshot covers only part of the partition, the outer linear device     *)
(* (MapSnapshot).  Every device is made by DeviceMapper::CreateDevice:     *)
(* DM_DEV_CREATE, DM_TABLE_LOAD, resume, then a wait for ueventd to make   *)
(* its node.  Devices created along the way are registered in an           *)
(* AutoDeviceList, which deletes them in reverse order on an error return. *)
(* The time budget (params.timeout_ms) is a discrete clock that advances  *)
(* while CreateDevice waits.                                               *)
(***************************************************************************)
EXTENDS Integers, Sequences, SequencesExt

CONSTANTS Timeouts,     \* values of params.timeout_ms, in ticks (0: none)
          MaxFailures   \* injected ioctl / image-manager failures

ASSUME Timeouts \subseteq Nat /\ MaxFailures \in Nat

MaxTimeout == CHOOSE m \in Timeouts : \A x \in Timeouts : x <= m

\* The devices of <n> by role: <n>-base (<n> itself without a live
\* snapshot), <n>-cow-img, <n>-cow, the snapshot device (<n>-inner when
\* stacked, else <n>) and the outer <n>.
Devices == {"base", "cowimg", "cow", "snap", "outer"}

\* DmDeviceState, with "created" for a device without a table and "loaded"
\* for one whose table is loaded but not yet resumed.
KState == {"absent", "created", "loaded", "active"}

\* What the status file and metadata say about <n>: a live snapshot, a
\* non-snapshot tail (linear_sectors > 0), a COW file and/or partition,
\* and whether MapSnapshot's checks of the record and state pass.
Configs ==
    {c \in [live : BOOLEAN, linear : BOOLEAN, cowFile : BOOLEAN,
            cowPart : BOOLEAN, mapOk : BOOLEAN, timeout : Timeouts] :
        /\ c.cowFile \/ c.cowPart
        /\ ~c.live => c.linear = FALSE /\ c.cowFile /\ ~c.cowPart /\ c.mapOk}

\* GetRemainingTime returns min() when the budget is spent, since 0 means
\* "no timeout".
MinMs == -1

Stages == {"base", "cowimg", "cow", "snap", "outer", "done"}
Steps  == {"check", "map", "create", "load", "resume", "wait", "none"}

VARIABLES cfg, kdev, node, list, pc, step, t, deadline, clock, result,
          failures

vars == <<cfg, kdev, node, list, pc, step, t, deadline, clock, result,
          failures>>

TypeOK ==
    /\ cfg \in Configs
    /\ kdev \in [Devices -> KState]
    /\ node \in [Devices -> BOOLEAN]
    /\ list \in Seq(Devices)
    /\ pc \in Stages /\ step \in Steps
    /\ t \in {MinMs} \cup 0..MaxTimeout
    /\ clock \in 0..2 * MaxTimeout
    /\ result \in {"none", "ok", "fail"}
    /\ failures \in 0..MaxFailures

-----------------------------------------------------------------------------
(* The kernel.                                                             *)

\* MapCowDevices returns the COW image alone when there is no COW partition.
CowDev == IF cfg.cowPart THEN "cow" ELSE "cowimg"

\* The devices each role's table opens: the COW device's last extent is
\* the image; the snapshot sits on base and COW; the outer device stacks
\* the snapshot and the base's tail.
Lower(d) ==
    CASE d = "cow"   -> IF cfg.cowFile THEN {"cowimg"} ELSE {}
      [] d = "snap"  -> {"base", CowDev}
      [] d = "outer" -> {"snap", "base"}
      [] OTHER       -> {}

\* DM_DEV_REMOVE fails with EBUSY while a loaded table holds d open.
DeleteDevice(d, k) ==
    IF \E u \in Devices : k[u] \in {"loaded", "active"} /\ d \in Lower(u)
    THEN k ELSE [k EXCEPT ![d] = "absent"]

\* Applies a new device table; ueventd's nodes go with deleted devices.
SetKernel(k) ==
    /\ kdev' = k
    /\ node' = [d \in Devices |-> node[d] /\ k[d] # "absent"]

-----------------------------------------------------------------------------
(* The AutoDeviceList.                                                     *)

\* Mutant: the list is destroyed in creation order.
UnwindInCreationOrder(l, k) == FoldLeft(LAMBDA acc, d : DeleteDevice(d, acc), k, l)

\* ~AutoDeviceList: newest first, since newer devices depend on older ones;
\* a failed delete is logged and the next entry is still tried.
Unwind(l, k) == FoldRight(LAMBDA d, acc : DeleteDevice(d, acc), l, k)

\* An error return from MapPartitionWithSnapshot with device table k; pc
\* keeps the stage that failed.
Fail(k) ==
    /\ SetKernel(Unwind(list, k))
    /\ list' = <<>> /\ result' = "fail" /\ step' = "none" /\ UNCHANGED pc

\* created_devices.Release() and a true return.
Release ==
    /\ list' = <<>> /\ result' = "ok" /\ pc' = "done" /\ step' = "none"

-----------------------------------------------------------------------------
(* The caller.                                                             *)

\* Mutant: the budget is not reduced by the time already spent.
GetRemainingTimeNoElapsed(c) == cfg.timeout

\* Mutant: a spent budget is returned as is, 0 at the deadline.
GetRemainingTimeNoMin(c) ==
    IF cfg.timeout = 0 THEN 0 ELSE IF cfg.timeout - c < 0 THEN MinMs
                                   ELSE cfg.timeout - c

GetRemainingTime(c) ==
    IF cfg.timeout = 0 THEN 0 ELSE IF cfg.timeout - c <= 0 THEN MinMs
                                   ELSE cfg.timeout - c

\* The GetRemainingTime checks before MapCowImage, before the COW device
\* and before MapSnapshot, with MapSnapshot's refusal to map a snapshot
\* whose record or global state says the merge completed.
StartStage ==
    LET rt == GetRemainingTime(clock) IN
    /\ step = "check"
    /\ IF rt < 0 \/ (pc = "snap" /\ ~cfg.mapOk)
       THEN Fail(kdev) /\ UNCHANGED t
       ELSE /\ t' = rt
            /\ step' = IF pc = "cowimg" THEN "map" ELSE "create"
            /\ UNCHANGED <<kdev, node, list, pc, result>>
    /\ UNCHANGED <<cfg, deadline, clock, failures>>

\* Mutant: the COW image is returned alone even with a COW partition.
MapCowImageAlwaysAlone ==
    /\ pc = "cowimg" /\ step = "map"
    /\ \/ /\ kdev' = [kdev EXCEPT !["cowimg"] = "active"]
          /\ node' = [node EXCEPT !["cowimg"] = TRUE]
          /\ list' = Append(list, "cowimg")
          /\ pc' = "snap" /\ step' = "check"
          /\ UNCHANGED <<result, failures>>
       \/ /\ failures < MaxFailures /\ failures' = failures + 1
          /\ Fail(kdev)
    /\ UNCHANGED <<cfg, t, deadline, clock>>

\* MapCowImage: the image manager maps <n>-cow-img and waits for it, or
\* fails having mapped nothing; the image is registered (AutoUnmapImage),
\* and returned alone when there is no COW partition.
MapCowImage ==
    /\ pc = "cowimg" /\ step = "map"
    /\ \/ /\ kdev' = [kdev EXCEPT !["cowimg"] = "active"]
          /\ node' = [node EXCEPT !["cowimg"] = TRUE]
          /\ list' = Append(list, "cowimg")
          /\ pc' = IF cfg.cowPart THEN "cow" ELSE "snap"
          /\ step' = "check"
          /\ UNCHANGED <<result, failures>>
       \/ /\ failures < MaxFailures /\ failures' = failures + 1
          /\ Fail(kdev)
    /\ UNCHANGED <<cfg, t, deadline, clock>>

\* CreateDevice returned true for role pc, leaving device table k: the
\* base and COW device are registered; the snapshot device is not.  When
\* part of the partition is not snapshotted, MapSnapshot reads the snapshot
\* device's major:minor (GetDeviceString) for the outer table, and returns
\* false without deleting the snapshot device if that fails.
Created(k) ==
    CASE pc = "base" /\ cfg.live ->
            /\ kdev' = k /\ list' = Append(list, "base")
            /\ pc' = IF cfg.cowFile THEN "cowimg" ELSE "cow"
            /\ step' = "check" /\ UNCHANGED <<node, result, failures>>
      [] pc = "cow" ->
            /\ kdev' = k /\ list' = Append(list, "cow")
            /\ pc' = "snap" /\ step' = "check"
            /\ UNCHANGED <<node, result, failures>>
      [] pc = "snap" /\ cfg.linear ->
            \/ /\ kdev' = k /\ pc' = "outer" /\ step' = "create"
               /\ UNCHANGED <<node, list, result, failures>>
            \/ /\ failures < MaxFailures /\ failures' = failures + 1
               /\ Fail(k)
      [] OTHER -> kdev' = k /\ Release /\ UNCHANGED <<node, failures>>

\* CreateDevice returned false for role pc, having deleted its own device;
\* MapSnapshot also deletes the snapshot device when the outer one fails.
NotCreated(k) ==
    Fail(IF pc = "outer" THEN DeleteDevice("snap", k) ELSE k)

\* DM_DEV_CREATE: fails on an existing name, or by an injected error.
DmCreate ==
    /\ step = "create"
    /\ \/ /\ kdev[pc] = "absent"
          /\ kdev' = [kdev EXCEPT ![pc] = "created"] /\ step' = "load"
          /\ UNCHANGED <<node, list, pc, result, failures>>
       \/ /\ failures < MaxFailures /\ failures' = failures + 1
          /\ NotCreated(kdev)
    /\ UNCHANGED <<cfg, t, deadline, clock>>

\* LoadTableAndActivate, DM_TABLE_LOAD: the new table opens its devices.
DmLoad ==
    /\ step = "load"
    /\ \/ /\ kdev' = [kdev EXCEPT ![pc] = "loaded"] /\ step' = "resume"
          /\ UNCHANGED <<node, list, pc, result, failures>>
       \/ /\ failures < MaxFailures /\ failures' = failures + 1
          /\ NotCreated(DeleteDevice(pc, kdev))
    /\ UNCHANGED <<cfg, t, deadline, clock>>

\* LoadTableAndActivate, the resume; with no timeout CreateDevice returns
\* at once, otherwise it waits for the unique path up to t.
DmResume ==
    /\ step = "resume"
    /\ \/ LET k == [kdev EXCEPT ![pc] = "active"] IN
          IF t <= 0 THEN Created(k) /\ UNCHANGED deadline
                    ELSE /\ kdev' = k /\ step' = "wait" /\ deadline' = clock + t
                         /\ UNCHANGED <<node, list, pc, result, failures>>
       \/ /\ failures < MaxFailures /\ failures' = failures + 1
          /\ NotCreated(DeleteDevice(pc, kdev))
          /\ UNCHANGED deadline
    /\ UNCHANGED <<cfg, t, clock>>

\* WaitForFile: the node appeared, or the wait timed out and the device is
\* deleted.
WaitForFile ==
    /\ step = "wait"
    /\ \/ node[pc] /\ Created(kdev)
       \/ ~node[pc] /\ clock >= deadline /\ NotCreated(DeleteDevice(pc, kdev))
          /\ UNCHANGED failures
    /\ UNCHANGED <<cfg, t, deadline, clock>>

-----------------------------------------------------------------------------
(* The environment: ueventd and the passing of time.                       *)

Uevent(d) ==
    /\ kdev[d] = "active" /\ ~node[d]
    /\ node' = [node EXCEPT ![d] = TRUE]
    /\ UNCHANGED <<cfg, kdev, list, pc, step, t, deadline, clock, result,
                   failures>>

\* Time passes while CreateDevice waits for a node, up to the wait's
\* deadline; the ioctls themselves take no time at this scale.
Tick ==
    /\ step = "wait" /\ clock < deadline
    /\ clock' = clock + 1
    /\ UNCHANGED <<cfg, kdev, node, list, pc, step, t, deadline, result,
                   failures>>

\* The call has returned.
Returned == result # "none" /\ UNCHANGED vars

\* MapPartitionWithSnapshot starts with no device of <n> mapped (its
\* callers unmap first) and creates the base device with the full budget.
Init ==
    /\ cfg \in Configs
    /\ kdev = [d \in Devices |-> "absent"]
    /\ node = [d \in Devices |-> FALSE]
    /\ list = <<>>
    /\ pc = "base" /\ step = "create" /\ t = cfg.timeout
    /\ deadline = 0 /\ clock = 0 /\ result = "none" /\ failures = 0

Next ==
    \/ StartStage \/ MapCowImage \/ DmCreate \/ DmLoad \/ DmResume
    \/ WaitForFile \/ \E d \in Devices : Uevent(d)
    \/ Tick \/ Returned

Spec == Init /\ [][Next]_vars

-----------------------------------------------------------------------------
(* Properties.                                                             *)

\* The devices a successful call leaves: the base, the COW image and/or
\* COW device, the snapshot, and the outer device when stacked.
Stack ==
    IF ~cfg.live THEN {"base"}
    ELSE {"base", "snap", CowDev}
         \cup (IF cfg.cowFile THEN {"cowimg"} ELSE {})
         \cup (IF cfg.linear THEN {"outer"} ELSE {})

\* An error return leaves nothing of <n> mapped, whichever step failed:
\* CreateDevice's own delete, MapSnapshot's delete of the snapshot device
\* and the AutoDeviceList must together remove every device despite the
\* kernel refusing to delete a device another table still holds.
NoDevicesLeftOnFailure ==
    result = "fail" => \A d \in Devices : kdev[d] = "absent"

\* The devices the snapshot device's table keeps open, directly or not.
HeldBySnap == {"base", CowDev} \cup Lower(CowDev)

\* What an error return may leave besides the snapshot device MapSnapshot
\* abandons when GetDeviceString fails (line 389): nothing.  Wherever else
\* the call fails, CreateDevice's own delete, MapSnapshot's delete of the
\* snapshot device when the outer one fails (line 404) and the newest-first
\* AutoDeviceList must together remove every device, though the kernel
\* refuses to delete a device another table still holds.
OnlyUnreadSnapshotLeft ==
    result = "fail" =>
        \A d \in Devices :
            kdev[d] # "absent" =>
                pc = "snap" /\ kdev["snap"] = "active" /\ d \in {"snap"} \cup HeldBySnap

\* A true return leaves exactly the stack of <n>, every device active.
StackOnSuccess ==
    result = "ok" =>
        /\ {d \in Devices : kdev[d] # "absent"} = Stack
        /\ \A d \in Stack : kdev[d] = "active"

\* With a time budget, a true return means every device's node exists:
\* GetRemainingTime never hands CreateDevice a 0 (which means "do not
\* wait") once the budget is spent.
NodesReadyOnSuccess ==
    result = "ok" /\ cfg.timeout > 0 => \A d \in Stack : node[d]

\* Section 5 of the spec: a composition operation takes one timeout,
\* measured from its start, and its sub-calls get what remains of it; so
\* MapPartitionWithSnapshot never waits longer than params.timeout_ms.
WaitsWithinTimeout == cfg.timeout > 0 => clock <= cfg.timeout

=============================================================================
