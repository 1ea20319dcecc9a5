# TLA+ models of libsnapshot (Virtual A/B) and its neighbours

This directory holds TLA+ models of the snapshot manager in
`src/fs_mgr/libsnapshot/snapshot.cpp`, which is the core of Virtual A/B updates,
and of two parts of init: the subcontext (`src/init/subcontext.cpp`) and the
reboot / shutdown sequence (`src/init/reboot.cpp`), and of the debuggerd
client (`src/debuggerd/client/debuggerd_client.cpp`).

## The system

Virtual A/B writes an update to the inactive slot through device-mapper
snapshots. After the reboot into the new slot, the kernel merges the
snapshots into the base partitions. The parts involved:

| Part | Code | What it owns |
|---|---|---|
| State Store | `snapshot.cpp` ReadUpdateState / WriteUpdateState / Truncate / Read+WriteSnapshotStatus, LockShared / LockExclusive | `<metadata>/state` (one UpdateState word), the boot indicator `snapshot-boot` (the slot the update was written from), one status file per snapshot (its SnapshotState), and the flock on the state file |
| Mapper Client | `libdm/dm.cpp` | create, delete and reload device-mapper devices; table status |
| Auto-Cleanup List | `libsnapshot/utility.cpp` | devices and records created so far, released on an error return |
| Update Coordinator | `snapshot.cpp` BeginUpdate, CancelUpdate, TryCancelUpdate, CreateUpdateSnapshots, Map/UnmapUpdateSnapshot, FinishedSnapshotWrites | called by the update engine |
| Snapshot Composer | `snapshot.cpp` MapPartitionWithSnapshot, MapSnapshot, MapCowDevices, UnmapPartitionWithSnapshot, DeleteSnapshot | the linear / snapshot / snapshot-merge table on each partition |
| Merge Driver | `snapshot.cpp` InitiateMerge, ProcessUpdateState, CheckMergeState, CheckTargetMergeState, OnSnapshotMergeComplete, HandleCancelledUpdate, AcknowledgeMergeFailure | run by the engine and by the merge daemon |
| First-Stage Bootstrap | `snapshot.cpp` NeedSnapshotsInFirstStageMount, CreateLogicalAndSnapshotPartitions | maps every partition of the booted slot at boot |

Two processes share the state under the flock:

- the **engine**, which runs the coordinator's operations and also polls the
  merge in BeginUpdate;
- the **merge daemon**, which loops in ProcessUpdateState.

The kernel merges a snapshot-merge target in the background. Reboots can
switch slots while an update is unverified, and the bootloader can flash
partitions.

## Modules

- `UpdateStateMachine.tla` is the **abstract specification** of the
  coordinator. It has two variables: the update state and the set of snapshot
  records. Its steps are Begin, Create, Delete, Finish, Clear, StartMerge and
  MergeOutcome.
- `SnapshotManager.tla` models the State Store, Snapshot Composer, Update
  Coordinator, Merge Driver and First-Stage Bootstrap together, because they
  share one lock and one state file.
  - **State:**
    - `state`: the state file's contents, where `""` is an empty file that
      reads as None;
    - `indicator`: the boot indicator;
    - `rec[n]`: the status record, `"absent"` when there is no file;
    - `updated[n]`: the UPDATED attribute in the partition's metadata;
    - `dev[n]`: the table on `<n>`;
    - `cow[n]`: whether the COW is attached under that table;
    - `merged[n]`: the kernel's merge progress;
    - `slot`: the booted slot;
    - `pc`: where the engine and the daemon are between lock sections;
    - `reboots` and `failures`: bounded counters.
  - **Actions:**
    - one per lock section of the code: `BeginUpdate`, `BeginUpdateLocked`,
      `CancelUpdate`, `CreateUpdateSnapshots`, `MapUpdateSnapshot`,
      `UnmapUpdateSnapshot`, `FinishedSnapshotWrites`, `InitiateMerge`,
      `CheckMergeState(p)`, `AcknowledgeMergeFailure(p)`;
    - the environment: `KernelMerge(n)` and `Reboot`. `Reboot` includes
      flashing by the bootloader and the first-stage mapping
      (`FirstStageTable` = NeedSnapshotsInFirstStageMount +
      MapPartitionWithSnapshot).
  - Helpers named after the source functions (`UnmapPartitionWithSnapshot`,
    `DeleteSnapshot`, `RemoveAllSnapshots`, `RemoveAllUpdateState`,
    `CheckTargetMergeState`, `OnSnapshotMergeComplete`, `MergeResult`, ...)
    compute what one call does. `PROJECT.json` maps every definition to the
    lines it translates.
  - Failures are chosen nondeterministically, bounded by `MaxFailures`:
    - a table swap failing in InitiateMerge;
    - the process dying inside InitiateMerge after some swaps;
    - a collapse failure;
    - LockExclusive failing in CheckMergeState;
    - CreateUpdateSnapshots failing after deleting some old records (the
      AutoDeleteSnapshot destructors ran);
    - the process dying in CreateUpdateSnapshots' first loop, which runs no
      destructor and leaves Created records without UPDATED.

  With `FreeSpace`, PartitionCowCreator may give any target partition
  snapshot_size 0 (`NoSnapshotNeeded`). The first loop then skips it, and
  the second loop's CHECK aborts the process at it.

  With `TornWrites`, every state write may leave an empty file instead.
- `SnapshotStack.tla` models one MapPartitionWithSnapshot call step by
  step. This covers the Snapshot Composer together with the Mapper Client
  and the Auto-Cleanup List.
  - **State:**
    - `kdev[d]`: the kernel's state of each device of the stack (absent,
      created, loaded, active), where `d` ranges over `base`, `cowimg`,
      `cow`, `snap` (`<n>-inner`, or `<n>` when the partition has no tail)
      and `outer`;
    - `node[d]`: whether ueventd has made the by-uuid node;
    - `list`: the AutoDeviceList;
    - `pc` / `step`: the stage and the step within CreateDevice;
    - `t`: the timeout handed to the current CreateDevice;
    - `clock` / `deadline`: time;
    - `cfg`: the partition's shape, chosen in Init from every combination
      the code accepts.
  - **Actions:**
    - `StartStage`: the GetRemainingTime checks and MapSnapshot's refusal;
    - `MapCowImage`;
    - `DmCreate`, `DmLoad`, `DmResume` and `WaitForFile`: the steps of
      DeviceMapper::CreateDevice;
    - the environment: `Uevent(d)` (ueventd) and `Tick`;
    - `Returned`, the returned call.
  - A delete fails with EBUSY while a loaded table holds the device.
    `Unwind` is the AutoDeviceList destructor, a `FoldRight` over the list.
    Time passes only while CreateDevice waits, since the ioctls are
    instantaneous at that scale.
- `Subcontext.tla` models init's subcontext. It is modelled from the code
  alone: the spec places init out of scope. init forks a child that runs
  vendor commands in the vendor SELinux context and talks to it over a
  SOCK_SEQPACKET pair.
  - **State:**
    - `proc[p]`: the kernel's process table, by pid. Each entry is free,
      live or zombie, and marked as the subcontext or a service. A pid the
      reaper has freed can go to the next fork.
    - `pid_`: Subcontext::pid_.
    - `sock`: init's socket. It records whether the child's end is open, and
      the command and reply in flight.
    - `ipc`: init is idle in its main loop, or blocked in TransmitMessage.
    - `cpc`: the child is polling, or running the command it read.
    - `result`: what the last call returned.
    - `shutting_down`.
    - `killed`: a history variable, the kinds of process Restart's SIGKILL
      reached.
  - **Actions:**
    - init's side: `Transmit(k)` (Execute or ExpandArgs, then the send;
      EPIPE leads to Restart) and `ReadReply` (the reply, or end of file
      leading to Restart);
    - the child's MainLoop: `ChildRecv`, then `ChildReply` (success,
      failure, or dying);
    - init's main loop: `Reap(p)` (SubcontextChildReap), `ForkService` and
      `SubcontextTerminate`;
    - the environment: `SubcontextDies`, `ServiceExits(p)` and `Waiting`.
  - `subcontexts` is the static vector the reaper searches. It is `{}`
    because nothing appends to it.
- `RebootSequence.tla` models init's reboot and shutdown sequence
  (`reboot.cpp`), from the code alone. HandlePowerctlMessage turns the
  powerctl command into an ANDROID_RB_* value and a fsck flag. DoReboot then
  runs on init's main thread, beside the watchdog RebootMonitorThread. The
  two threads share `reboot_semaphore` and `reboot_monitor_run`.
  - **Time:** a clock in whole seconds, because the watchdog computes its
    deadline in tv_sec. A thread step takes no time (`Instant` blocks
    `Tick`). Waiting for processes, retrying umount2, fsck and a hung
    umount2 or sync take time. The watchdog may be scheduled up to `MaxLag`
    seconds after it is woken.
  - **State:**
    - the main thread: `pc`, `blocked` (stuck in umount2, vdc or sync);
    - `mounted` (/proc/mounts, restricted to /data, /metadata and the
      emulated storage on /data);
    - the processes: `alive`, the ones still running, out of three services
      (an app, the console shell and logd, which stands for the
      kill_after_apps services) and one other process; `holds`, the
      partitions each keeps busy; `sigterm` and `sigkill`, the processes
      that were sent each signal; `vold`, whether vold is running; and
      `loop`, whether the zram backing loop device still sits on /data.
      `Holders` is the set of partitions held by a live process or by the
      loop device;
    - TryUmountAndFsck's `fsckList` and `stat`, UmountPartitions' timer
      `ut0` and `utimeout`, and `killedAll`;
    - the watchdog: `mpc`, `remaining` (remaining_shutdown_time) and
      `deadline` (shutdown_timeout_timespec.tv_sec);
    - `sem`, `run`, `clock`, and `outcome`: who took the device down.
  - **Actions:**
    - the main thread: `Start` (the /data check, the two syncs before the
      watchdog exists, and the first post),
      `TerminateServices` and `TerminationWait` (step 1: SIGTERM to the
      services that are not shutdown critical, then the wait until none of
      them but the console runs or half of shutdown_timeout has gone by),
      `StopServices` (step 2: their SIGKILL and SubcontextTerminate),
      `ShutdownVold` (step 3: vdc, which may hang, then the stop of the
      kill_after_apps services), `KillZramBackingDevice` (step 5; any of
      its steps may fail and leave the loop device), `TryUmountAndFsck`,
      `UmountPartitions`, `LastResortUmount`, `PauseMonitor`, `Fsck`,
      `ResumeMonitor` and `RebootSystem`;
    - the watchdog: `MonitorLoop`, `MonitorWait`, `TimerExpires`,
      `MonitorPosted`, `MonitorTimeout` and `MonitorCheck`;
    - the environment: `Tick`, `Hang` / `Unhang`, `Exit(p)` (a process
      exits, with or without a signal, and lets go of its partitions; the
      console is left running, since nothing reads whether it exits), and the stutters `Rebooted` and `Horizon`.
  - `remaining` is unsigned in the code. TLC's integers cannot wrap at 2^32,
    so a negative difference becomes `Never`, a value far past the clock's
    horizon, which is what 2^32 seconds is.
  - sem_timedwait follows bionic and the kernel's futex. A post before the
    timer expires is taken, and so is a post in the deadline's second that
    beats the timer. Once the timer has expired (`TimerExpires`), the call
    returns ETIMEDOUT even if a post follows.
  - KillAllProcesses (sysrq "i") sends SIGKILL asynchronously, so any
    holder may survive into the last-resort pass.
  - SubcontextTerminate signals the processes of the `subcontexts` vector,
    which init never fills (`SubcontextPids = {}`), so the subcontext
    process survives it. It is left out of the processes: it holds no
    partition, so it cannot keep an unmount from succeeding, and
    KillAllProcesses reaches it.
- `DebuggerdClient.tla` models debuggerd_trigger_dump, from the code alone.
  The client registers an intercept with tombstoned over a SOCK_SEQPACKET
  socket, passing it the write end of a pipe. It waits for kRegistered,
  signals the target, waits for kStarted, and copies the pipe to output_fd
  until end of file.
  - **Time:** in ticks finer than a microsecond (`TicksPerUs`), with a
    millisecond scaled down to `UsPerMs` microseconds. Any step of the
    client may take time. A blocked call returns as soon as it can (`Ready`
    blocks `Tick`). The clock starts when the deadline `end` is fixed.
  - **State:** the client's `pc`, `end`, and the blocked call's `waitStart`
    and `waitLimit`. A `waitLimit` of -1 means no timeout. tombstoned has
    `tomb`, the queue `sock` of InterceptStatus responses, and `sockClosed`.
    The pipe has `pipe` (unread chunks) and `pipeEof`. `produced` and
    `written` count chunks at the target and at output_fd. Also `signalled`,
    `nsig` (EINTRs delivered to the client) and `result`.
  - **Actions:**
    - the client: `Start`, `Connect`, `MakePipe`, `Send`, `EnterRecv` and
      `RecvReturns` (twice), `Signal`, `PollStart`, `PollReturns` and
      `Read`;
    - the environment: `TombRegister`, `TombStart`, `TombClose`,
      `TargetWrite`, `TargetClose`, `Interrupt` (an EINTR: TEMP_FAILURE_RETRY
      evaluates `recv(set_timeout(sockfd), ...)` again, so the recv restarts
      from `EnterRecv` with what is left of the deadline) and `Tick`, and the
      stutter `Finished`.
  - `SetTimeout` is set_timeout with populate_timeval's cut to whole
    microseconds. A zero timeval means no timeout, as SO_RCVTIMEO defines
    it. `TruncDiv` is duration_cast's truncation toward zero.
- `SnapshotMapping.tla` models MapUpdateSnapshot and UnmapUpdateSnapshot of
  one partition (with a COW partition, no tail) as the device-mapper ioctls
  they issue under the **shared** lock, so that several callers interleave.
  `MCSnapshotMapping.tla` gives it two callers and minors `0..3`.
  - **Kernel state:** `kminor[r]` is the minor of `<n>`, `<n>-cow` or
    `<n>-base` (`NoDev` when absent); `ktable[r]` is its table, a record
    whose snapshot form names its origin and COW by minor, as the
    "major:minor" strings of MapSnapshot do.
  - **Caller state:** `op` (idle, map, unmap), `pc` (step and role), the
    AutoDeviceList `list`, the strings read by GetDeviceString `str`, and
    `result`; `calls` and `failures` are bounded counters.
  - **Actions:** `Call` starts a call. The unmap half is `UnmapCheck` and
    `UnmapDelete` (DeleteDeviceIfExists's GetState and DM_DEV_REMOVE, in the
    teardown order snap, cow, base). The map half is `Create` (DM_DEV_CREATE
    on a free minor), `Load` (LoadTableAndActivate; a failure goes to
    `CreateDelete`, CreateDevice's own DeleteDevice), `GetDeviceString`, and
    `Unwind`, the AutoDeviceList destructor deleting by name, newest first.
  - **Kernel rules:** a create fails when the name exists or no minor is
    free; a snapshot table loads only over existing, distinct devices with
    tables; DM_DEV_REMOVE fails with EBUSY while a snapshot table holds the
    device. The minor a create gets is any free one.
- `MCSnapshotManager.tla` instantiates the model with two partitions per slot
  (`system_a`, `vendor_a`, `system_b`, `vendor_b`, model values).

## Abstractions

- Each lock section is one atomic step in SnapshotManager. The exclusive flock serialises them, and
  nothing the model tracks changes outside a lock except the kernel merge and
  reboots.
- Shared-lock sections are not serialised; SnapshotMapping splits the
  mapping path into its ioctls. It leaves out the COW image and the
  partition tail (SnapshotStack covers those shapes), and treats the
  creation of `<n>-base` and `<n>-cow` (CreateLogicalPartition, MapCowDevices)
  as one CreateDevice each.
- `device_size == snapshot_size`, so there is no `-inner` device.
- The COW is one unit; the COW partition and image split is not modelled.
- The partitions of the booted slot are mounted, so deleting their devices
  fails with EBUSY.
- The status file's size counters are abstracted to "drained"
  (`merged[n] = "done"`).
- Slot switches happen only while the state reads Unverified. In every other
  state the bootloader has no snapshot to boot around.

## Runs

| Run | Config | Checks | Result |
|---|---|---|---|
| core_safety | `MCSnapshotManager.cfg` (MaxReboots 4, MaxFailures 2, atomic writes, FreeSpace) | TypeOK, UpdateDataVisible, MergeOnlyWhileMerging, ImplementsUpdateStateMachine | passes (213,966 distinct states, about 35 s) |
| merge_liveness | `MCSnapshotManagerLive.cfg` (same bounds without FreeSpace, FairSpec) | MergeEventuallyEnds | passes (about 2.5 min) |
| stack_cleanup | `SnapshotStack.cfg` (timeouts 0 and 2 ticks, up to 2 failures, every partition shape) | TypeOK, OnlyUnreadSnapshotLeft, StackOnSuccess, NodesReadyOnSuccess | passes (1,225 distinct states) |
| stack_timeout | `SnapshotStackTimeout.cfg` (timeout 2, no failures) | WaitsWithinTimeout | **violated**: see the second finding |
| subcontext_restart | `Subcontext.cfg` (6 pids, 3 commands, 1 idle death, 1 service, FairSpec) | TypeOK, TransmitMessageReturns | passes (205,200 distinct states, about 30 s) |
| subcontext_pid_reuse | `SubcontextPidReuse.cfg` (2 pids, 1 command) | RestartKillsOnlySubcontext | **violated**: see the third finding |
| reboot_shutdown | `RebootSequence.cfg` (shutdown_timeout 4 s, watchdog 1 s, lag 1 s, fsck 1 s, every command and mount layout, one hang anywhere, the final sync included, FairSpec) | TypeOK, FsckOnlyUnmounted, LastPassLeavesOnlyBusy, DebugToolsLast, WatchdogRescues | passes (600,066 distinct states, about 75 s) |
| reboot_final_sync_hang | `RebootSequenceHang.cfg` (same bounds) | ShutdownCompletes | **violated**: see the fourth finding |
| debuggerd_dump | `DebuggerdClient.cfg` (timeout_ms 0 and 1, 2 ticks per us, 2 us per ms, 2 chunks, 1 EINTR) | TypeOK, DumpForwardedOnSuccess | passes (29,529 distinct states) |
| debuggerd_zero_timeval | `DebuggerdClientTimeout.cfg` (timeout_ms 1, no EINTR) | BoundedWait | **violated**: see the fifth finding |
| torn_state_write | `MCSnapshotManagerTorn.cfg` (MaxReboots 3, MaxFailures 1, TornWrites) | UpdateDataVisible | **violated**: see the finding below |
| skipped_partition_abort | `MCSnapshotManagerSkip.cfg` (MaxReboots 1, no failures, FreeSpace) | CreateFailsOnlyOnError | **violated**: see the sixth finding |


SnapshotMapping's three configurations are on disk but are not yet runs in
`PROJECT.json`, which is at its limit of 12 runs. Checked by hand with
`tlc -workers 2 -config <cfg> MCSnapshotMapping`:

- `SnapshotMapping.cfg` (1 caller, 3 calls, 2 failures, minors 0..3):
  StackOverItsDevices holds (1,530 distinct states);
- `SnapshotMappingShared.cfg` (2 callers, 2 calls each, 1 failure): TypeOK
  and NoLeftoverDevices hold (850,641 distinct states, about 23 s);
- `SnapshotMappingRace.cfg` (2 callers, 1 call each, no failures):
  StackOverItsDevices is **violated** (see the seventh finding).

For the same reason `SnapshotStackLeak.cfg` (timeout 0, one failure) is not a
registered run. Checked by hand with `tlc -workers 2 -config
SnapshotStackLeak.cfg SnapshotStack`, NoDevicesLeftOnFailure is **violated**
(see the eighth finding).

What the properties say:

- **UpdateDataVisible:** an updated partition of the booted slot is mapped
  either as a snapshot with its COW or over a base the merge has finished.
  Breaking it needs the first-stage decision, the merge switch, collapse and
  cleanup to disagree, across a reboot.
- **MergeOnlyWhileMerging:** a snapshot-merge table exists only while the state
  file says a merge is in progress, so the next boot remaps it for merging.
- **ImplementsUpdateStateMachine:** the refinement mapping is
  `ustate <- ReadUpdateState(state)`, `snaps <- ListSnapshots(rec)`. It shows
  that None is never written while a record remains, and that AcknowledgeMergeFailure's re-read
  under the lock stops a late acknowledgement from reviving a finished merge.
- **MergeEventuallyEnds:** Merging leads to None, or to a state where some
  snapshot still has a plain snapshot table. That exception is the case the
  code leaves to the next boot (comment at snapshot.cpp:535-537).
- **CreateFailsOnlyOnError:** (action property) CreateUpdateSnapshots returns
  to the engine without an update only when an old snapshot could not be
  deleted, or on an injected failure or death. The spec says a partition
  with snapshot_size 0 is skipped.

- **OnlyUnreadSnapshotLeft:** whichever ioctl fails, an error return
  leaves nothing of the partition mapped, except in one case: the snapshot
  device was created and resumed, and its major:minor could not be read
  (snapshot.cpp:389). Then only that device and what its table holds remain.
  It depends on three pieces of code together:
  - CreateDevice deletes its own device;
  - MapSnapshot deletes `<n>-inner` when the outer device fails (line 404);
  - the AutoDeviceList deletes newest first, because the kernel refuses to
    delete a device another table holds.
- **NoDevicesLeftOnFailure** (hand-checked, `SnapshotStackLeak.cfg` only):
  the unqualified form, that a failed call leaves nothing mapped. The
  GetDeviceString failure violates it (eighth finding).
- **StackOnSuccess:** a true return leaves exactly the stack the spec
  describes (§4.E), every device active.
- **NodesReadyOnSuccess:** with a timeout, a true return means every node
  exists. GetRemainingTime must never hand CreateDevice a 0 ("do not wait")
  once the budget is spent.
- **TypeOK** (SnapshotStack) bounds the clock by twice the timeout, which
  holds because each stage is given only what remains of the budget.

- **TransmitMessageReturns:** init, blocked in ReadMessage without a
  timeout, always returns. The child replies on every path, including the
  early return in ExpandArgs, or it dies.

- **FsckOnlyUnmounted:** fsck runs only on block devices that are no longer
  mounted. It fails if TryUmountAndFsck goes on to fsck after a timeout, when
  the last-resort pass may have left a partition held.
- **LastPassLeavesOnlyBusy:** (action property) when the last-resort
  UmountPartitions(0ms) ends, after KillAllProcesses, it leaves mounted only
  what umount2 could not take: a partition a surviving process or the zram
  loop device keeps busy, or /data under emulated storage that stayed. It
  depends on the order of the pass: the emulated storage first, then the
  block devices. Block devices first would leave /data mounted under
  emulated storage that the same pass then removes.
- **WatchdogRescues:** once DoReboot has posted the semaphore that starts
  the watchdog, the device goes down, or remaining_shutdown_time has wrapped
  (fourth finding). Either DoReboot reboots it, or the watchdog powers it
  off or panics it, with any one umount2, vdc or sync hung for good. It
  relies on the watchdog staying armed in every phase, with the budget
  carried over across the fsck pause, and on a timed-out sem_timedwait
  being acted on rather than retried.
- **ShutdownCompletes** (violation run only): the unqualified form, that
  once the watchdog is armed the device goes down.
- **DebugToolsLast:** the kill_after_apps services are stopped only once
  every other service was stopped and vold has shut down. Without their
  shutdown-critical marking (lines 514-516) steps 1-2 take them with the
  apps.
- **TypeOK** (RebootSequence) bounds `remaining` by the budget or the
  wrapped value, and `deadline` by the horizon plus the budget. The first
  budget is the watchdog timeout plus shutdown_timeout in seconds
  (`InitialRemaining`, line 284).

- **DumpForwardedOnSuccess:** a true return means the pipe was read to its
  end of file and every chunk the target wrote reached output_fd. A poll
  timeout or an EINTR must not pass for the end of the dump.
- **BoundedWait** (violation run only): with a timeout, no recv or poll stays
  blocked past the deadline. It cannot hold in a passing run: the trace
  below needs only one step that ends exactly at the deadline.

- **StackOverItsDevices:** whenever `<n>` has a snapshot table, its origin
  is the minor `<n>-base` has and its COW the minor `<n>-cow` has. A single
  caller keeps it through failures and unwinding; two callers under the
  shared lock do not (seventh finding).
- **NoLeftoverDevices:** once every caller has returned, `<n>-base` and
  `<n>-cow` exist only under an existing `<n>`, and no device is left
  without a table. It needs DeleteDeviceIfExists to tolerate a device that
  another caller already removed, the unwind to delete every entry, newest
  first, and CreateDevice to delete its own half-made device, in every
  interleaving of two callers.

Every property of the passing runs is killed by a mutant of the code it is
about; `PROJECT.json` lists them.

### Finding: torn state write (snapshot.cpp:1580)

WriteUpdateState calls Truncate and then writes. If the process dies in
between, the state file is left empty. ReadUpdateState returns None for an
empty file (line 1532). The trace TLC finds:

1. An update is written and FinishedSnapshotWrites runs.
2. The device reboots into the new slot, and its partitions are mapped as
   snapshots.
3. InitiateMerge dies after truncating the state file.
4. The next boot finds None, and NeedSnapshotsInFirstStageMount maps the
   updated partitions linear, over their old base.

The data the update wrote is no longer visible. Had the merge started, the
base would be only partly merged.

### Finding: MapSnapshot reuses its timeout (snapshot.cpp:402)

Spec §5 says a composition operation takes a single timeout measured from
its start, with each sub-call getting what remains. MapSnapshot passes the
same `timeout_ms` to CreateDevice for `<n>-inner` (line 382) and again for the
outer `<n>` (line 402). CreateDevice's WaitForFile starts its own timer each
time. If the inner node appears at the end of its wait, the outer wait
starts over, and the call waits past `params.timeout_ms`. TLC shows a clock
of 3 against a budget of 2.

### Finding: Restart can SIGKILL a process that reused the subcontext's pid (subcontext.cpp:324)

SubcontextChildReap looks for the reaped pid in the static vector
`subcontexts` (line 313). Nothing appends to it: InitializeSubcontext returns
its Subcontext to the caller instead. So a subcontext that dies while init is
idle is reaped and its pid freed, but `pid_` is kept and nothing restarts it.
This contradicts the comment at line 128 ("init will restart us").

The next Execute fails its send and calls Restart, which runs
`kill(pid_, SIGKILL)` (line 224). TLC's trace:
1. The subcontext at pid 1 dies.
2. init reaps it.
3. init starts a service, which the kernel gives pid 1.
4. The next command fails and Restart kills the service.

### Finding: the watchdog's remaining time wraps (reboot.cpp:351)

RebootMonitorThread stores `shutdown_timeout_timespec.tv_sec -
current_time_timespec.tv_sec` in the unsigned `remaining_shutdown_time`.
TLC's trace, for a user-requested shutdown with a 5 s budget:
1. The watchdog waits with its deadline at second 5.
2. The first UmountPartitions succeeds in second 5, and TryUmountAndFsck
   posts the fsck pause (line 390) before the timer expires.
3. The watchdog is scheduled in second 6. It reads 5 - 6 = -1, which wraps
   to about 2^32 seconds.
4. After fsck, the resume post starts a wait that will never time out.
5. The sync after unmounting (line 644) hangs, and nothing reboots the
   device.

The comment at line 279 says the watchdog covers the final unmount pass. A
signed difference clamped at 0 would fire the watchdog at once instead.

### Finding: a zero timeval disables the recv timeout (debuggerd_client.cpp:166)

set_timeout returns -1 only when the time left is negative (line 166).
populate_timeval then cuts it to whole microseconds (line 172). With less
than 1 us left, 0 included, the timeval is {0, 0}, which SO_RCVTIMEO reads
as no timeout. TLC's trace, for timeout_ms = 1:
1. SendFileDescriptors ends exactly at the deadline.
2. The first recv's set_timeout finds 0 left and sets no timeout.
3. tombstoned does not answer, and the call stays blocked past its
   deadline.

With a tombstoned that never answers, the caller (dumpstate, or an ANR dump
in system_server) hangs.

### Finding: a skipped partition aborts CreateUpdateSnapshots (snapshot.cpp:1913)

The first loop skips a partition that fits in free space of super
(lines 1835-1845), so it gets no entry in all_snapshot_status. The second
loop walks every target partition again, and
`CHECK(it != all_snapshot_status.end())` at line 1913 aborts the process at
the skipped one. TLC's trace: BeginUpdate; CreateUpdateSnapshots with
system_b skipped. The engine dies with vendor_b's Created record in place,
and no error was injected. An update in which any partition fits in free
space can never be created. core_safety shows that the abort is at least
safe: the record is cancelled by the next BeginUpdate, and it is never
mapped, because the target metadata has no UPDATED.

### Finding: shared-lock mappers bind a snapshot over stale minors (snapshot.cpp:1326)

MapUpdateSnapshot takes only LockShared (line 1948), as spec section 5
allows for the mapping path. MapPartitionWithSnapshot reads the
"major:minor" strings of `<n>-base` (line 1326) and `<n>-cow` (line 1341),
and MapSnapshot puts them in the snapshot table several ioctls later
(lines 378-382). In the 24-state trace of `mapping_stale_minor`:

1. caller 1 maps `<n>-base` (minor 0) and `<n>-cow` (minor 1) and reads
   both strings;
2. caller 2 starts MapUpdateSnapshot of the same partition, finds `<n>`
   still absent, and caller 1 creates the empty `<n>` (minor 2);
3. caller 2's unmap deletes `<n>-cow` and `<n>-base`, which no table holds
   yet;
4. caller 2 recreates `<n>-base` on minor 1 and `<n>-cow` on minor 0;
5. caller 1 loads `<n>` as a snapshot with origin 0 and COW 1, now the COW
   and the base, and returns true.

The snapshot then reads the update's COW as its origin and writes its
exceptions into the base partition. The same trace exists when the kernel
always hands out the lowest free minor. dm.h (lines 109-127) warns of the
same reuse for paths; the strings were chosen to avoid ueventd, not this.

### Finding: a failed GetDeviceString leaks the stack (snapshot.cpp:389)

This one is checked by hand (`SnapshotStackLeak.cfg`), since the project is
at its limit of 12 runs. When the partition has a tail, MapSnapshot creates
`<n>-inner` and reads its major:minor with GetDeviceString. If that fails,
it returns false at line 391 without deleting `<n>-inner`. The
AutoDeviceList does not hold `<n>-inner`: MapSnapshot deletes it itself,
but only when the outer device fails (line 405). TLC's 10-state trace:
1. `<n>-base` is created;
2. the COW image is mapped;
3. `<n>-inner` is created and resumed;
4. GetDeviceString fails.

The unwind then tries to delete the COW image and `<n>-base`. The kernel
refuses both with EBUSY, because `<n>-inner`'s snapshot table holds them.
The call returns false with the whole stack still mapped.
OnlyUnreadSnapshotLeft shows that this is the only way a failed call leaves
devices behind.

## Bounds and fairness

- **Partitions:** two per slot. With two per slot, one snapshot can be
  merging while another fails, is cancelled or is collapsed.
- **`MaxReboots = 4`:** enough for apply, reboot into the new slot, a reboot
  during the merge, and one more after a collapse failure.
- **`MaxFailures = 2`:** allows two independent failures in one behaviour,
  such as a swap failure followed by a lock failure.
- **Reachable states:** the reachability checks made while building the
  model reached MergeNeedsReboot, MergeFailed with a partly merged base, a
  flash during a merge, and None after a completed merge.
- **SnapshotStack:** one partition. Partitions do not share devices, and
  `cfg` ranges over every shape the code accepts. A budget of 2 ticks lets
  a wait end exactly at the deadline, the boundary GetRemainingTime
  handles. Two failures cover a failure during cleanup after an earlier one.
- **Subcontext:** the pass run's 6 pids are enough for every subcontext
  that the 3 commands and the one death can fork, even while zombies wait
  for init to reap them. A fork never fails for lack of a pid: in the code,
  a failed fork is LOG(FATAL) and ends init. The violation run needs only 2
  pids, because the kernel reuses a freed pid. Fairness (Subcontext's `FairSpec`) is
  weak fairness on the child's two steps and on init's blocked read. These
  are separate processes, or a process woken by the kernel when data or end
  of file arrives. Deaths, services and shutdown get no fairness.
- **DebuggerdClient:** timeout_ms 0 covers the wait-forever paths, and 1
  covers the budget. Two ticks per microsecond allow a time left below
  1 us. Two microseconds per millisecond let poll's millisecond rounding
  differ from the microsecond one. Two chunks exercise the read loop. One
  EINTR reaches both the recv retry, which evaluates set_timeout again,
  and the poll continue. There is no
  fairness: the properties are safety properties, and tombstoned may stay
  silent for good.
- **RebootSequence:**
  - A shutdown_timeout of 4 s exercises the thermal cap at 3 s.
  - A watchdog of 1 s keeps the budget small, and its deadline still falls
    both in the unmount phase and after it.
  - `MaxLag = 1` and `MaxFsck = 1` are the smallest values at which a
    wake-up can fall in the second after a deadline and fsck takes time.
  - One hang per behaviour is enough: a second hang adds nothing once the
    main thread is stuck. The hang may fall in any blocking call: the two
    syncs before the watchdog exists, vdc, the syncs and umount2 of the
    unmount passes, and the final sync. A hang before the watchdog is
    modelled as permanent. One that comes back late only hands DoReboot a
    partly spent budget (Timer t starts at line 455), which a slow step 1
    and a short UmountPartitions timeout already give. Letting it return
    would repeat the whole shutdown at every clock offset.
  - The last-resort UmountPartitions(0ms) makes one pass, or two when the
    first pass took under a millisecond and the 100 ms sleep follows
    (`LastResort`).
  - Two block partitions and one emulated partition give /data's dependence
    on the emulated storage and a second partition that can be left
    mounted.
  - The horizon `MaxClock` lies past every deadline the watchdog can set
    without wrapping. `Horizon` stutters there, so a behaviour that reaches
    it with the device still up violates ShutdownCompletes rather than
    deadlocking.
  - Three services give one step 1 waits for, the console it ignores and
    a kill_after_apps service; the other process stands for everything
    only KillAllProcesses reaches. Only that process holds a chosen set of
    partitions; the services hold /data if it is mounted. Letting every
    process choose its partitions multiplies the state space without a new
    ordering.
  - Fairness is weak fairness on each thread and on `Tick`: both are threads
    of init that the kernel schedules, and time passes. A hung umount2,
    vdc or sync need not return, and `Exit` has no fairness: a process may
    ignore SIGTERM, and a SIGKILLed one may stay in uninterruptible sleep.
  - vdc hangs only when vold runs: DoReboot calls ShutdownVold only then.
- **SnapshotMapping:** two callers are the least that interleave; two
  calls each let a map follow an unmap or a map of the other caller. One
  injected failure reaches CreateDevice's own delete and the unwind; four
  minors let three devices exist while a fourth create picks a freed or a
  fresh one. The sequential run gives one caller three calls and two
  failures. There is no fairness: the properties are safety properties.
  The passing two-caller run reaches about 850,000 states in under a
  minute.
- **Fairness (`FairSpec`):**
  - weak fairness for the daemon's `CheckMergeState` and
    `AcknowledgeMergeFailure`, because the daemon polls every two seconds
    while it runs (line 695);
  - weak fairness for `KernelMerge`, because the kernel always progresses a
    merge target.

  The engine, reboots and failures get no fairness.

## Not modelled, and the plan

**Not modelled:**

- GetUpdateState, Dump and IsSnapshotManagerNeeded only read state.
- The status file's text format and the size arithmetic of PartitionCowCreator.
- The init service parser and builtin checker: pure text parsing and
  validation.
- The nativeloader header: declarations only.
- Subcontext::PathMatchesSubcontext, which only reads state. Command arguments
  and property expansion are reduced to their outcome. An ExpandArgs call
  with no arguments is not enumerated, because its callers, outside `src/`,
  always pass some.
- Tests.

**Planned, in order:**

1. Done: `SnapshotStack.tla`, which covers CreateDevice,
   DeleteDevice, LoadTableAndActivate, the AutoDeviceList and the timeout
   budget.
2. Done in part: `SnapshotMapping.tla` splits the shared-lock
   MapUpdateSnapshot and UnmapUpdateSnapshot into their ioctls. Still open:
   the partition tail and the COW image in that model, and the timeout
   budget of SnapshotStack under interleaving.
3. Done: CreateUpdateSnapshots with partitions that need no snapshot (the
   CHECK at line 1913), and process death inside it.
4. Done: `Subcontext.tla`.
5. Done: `RebootSequence.tla`, steps 1-5 of DoReboot included. The boot
   animation, the reboot-reason property and the bootloader messages are
   left out: they change no state the sequence reads. The subcontext that
   SubcontextTerminate misses (subcontext.cpp:339) holds no partition, so
   the model leaves it to KillAllProcesses rather than composing
   `Subcontext.tla` with it.
6. Done: `DebuggerdClient.tla`. dump_backtrace_to_file(_timeout) and the
   wchan text are /proc reads and formatting around the call, and are not
   modelled.
