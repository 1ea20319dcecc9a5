--------------------------- MODULE RebootSequence ---------------------------
(***************************************************************************)
(* init's reboot / shutdown sequence (src/init/reboot.cpp).  DoReboot runs *)
(* on init's main thread: it starts RebootMonitorThread, a watchdog that   *)
(* reboots or panics the device if the shutdown overruns its budget, then  *)
(* unmounts the read-write partitions with retries until a timeout, kills  *)
(* every process and tries once more, optionally runs fsck with the        *)
(* watchdog paused, and reboots.  The threads share a semaphore and the    *)
(* flag reboot_monitor_run.                                                *)
(*                                                                         *)
(* Time is a clock in whole seconds: the watchdog works on tv_sec.  A      *)
(* thread step takes no time, except that the watchdog may wake up to     *)
(* MaxLag seconds late.  Waiting, unmounting, fsck and a hung umount2 or  *)
(* sync take time.                                                         *)
(***************************************************************************)
EXTENDS Integers, FiniteSets

CONSTANTS ShutdownTimeoutProp,  \* ro.build.shutdown_timeout, seconds
          WatchdogProp,         \* ro.build.shutdown.watchdog.timeout, seconds
          MaxLag,               \* how late the watchdog may wake up
          MaxFsck,              \* how long fsck may take
          HangFinalSync         \* whether the sync after unmounting may hang

\* The clock's horizon: every deadline the watchdog can set lies within it.
Budget == WatchdogProp + ShutdownTimeoutProp
MaxClock == 2 * Budget + MaxLag + MaxFsck + 1

\* An unsigned remaining_shutdown_time that wrapped below zero is about
\* 2^32 seconds; it stands here as a value far past the horizon.
Never == 2^16

\* remaining_shutdown_time = tv_sec difference, stored in an unsigned int.
ToUnsigned(x) == IF x >= 0 THEN x ELSE Never

Block == {"data", "metadata"}     \* read-write /dev/block mounts
Emulated == {"emu"}               \* the emulated storage, on /data
Parts == Block \cup Emulated

(***************************************************************************)
(* The processes that can keep a partition busy.  Three services stand for *)
(* the kinds DoReboot treats apart: a plain one, one with SVC_CONSOLE that *)
(* ignores SIGTERM, and one of kill_after_apps.  "other" is a process that *)
(* is no service of init (an app forked by zygote, in a process group of   *)
(* its own).  init's subcontext is left out: it runs no command during the *)
(* shutdown, so it holds no partition, and SubcontextTerminate does not    *)
(* reach it (SubcontextPids below); it runs until KillAllProcesses.        *)
(***************************************************************************)
Services == {"app", "shell", "logd"}
Console == {"shell"}
Procs == Services \cup {"other"}

\* kill_after_apps: "keep debugging tools until non critical ones are all
\* gone".  DoReboot marks them shutdown critical.
KillAfterApps == {"logd"}

\* DoReboot without the loop that marks kill_after_apps shutdown critical.
ShutdownCriticalUnmarked == {}

ShutdownCritical == KillAfterApps

\* The `subcontexts` vector SubcontextTerminate signals.  Nothing in the
\* code appends to it (see Subcontext.tla).
SubcontextPids == {}

\* The services that step 1 waits for: running, not shutdown critical, not
\* the console.
Counted(a) == {s \in Services \ ShutdownCritical : s \in a /\ s \notin Console}

(***************************************************************************)
(* HandlePowerctlMessage: the command's ANDROID_RB_* value and whether to  *)
(* run fsck.                                                               *)
(***************************************************************************)
HandlePowerctlMessage(name) ==
    CASE name = "shutdown,userrequested" -> [cmd |-> "poweroff", runFsck |-> TRUE]
      [] name = "shutdown,thermal" -> [cmd |-> "thermoff", runFsck |-> FALSE]
      [] name = "shutdown" -> [cmd |-> "poweroff", runFsck |-> FALSE]
      [] name = "reboot" -> [cmd |-> "restart2", runFsck |-> FALSE]

Commands == {"shutdown", "shutdown,userrequested", "shutdown,thermal", "reboot"}

\* DoReboot's shutdown_timeout: thermal shutdowns are capped at 3 seconds.
ShutdownTimeout(c) ==
    IF c.cmd = "thermoff" /\ ShutdownTimeoutProp > 3 THEN 3 ELSE ShutdownTimeoutProp

\* The watchdog's first budget with shutdown_timeout's milliseconds taken
\* for seconds.
InitialRemainingMillis(c) == WatchdogProp + 1000 * ShutdownTimeout(c)

\* RebootMonitorThread's first remaining_shutdown_time: the watchdog
\* timeout plus shutdown_timeout in seconds.
InitialRemaining(c) == WatchdogProp + ShutdownTimeout(c)

VARIABLES
    req,        \* the parsed powerctl command
    pc,         \* DoReboot's position
    blocked,    \* the main thread is stuck in umount2 or sync
    nhang,
    mounted,    \* /proc/mounts, restricted to Parts
    alive,      \* processes still running
    holds,      \* the partition each process has files open on, if any
    loop,       \* zram's backing file is a loop device on /data, still attached
    vold,       \* vold is running
    sigterm,    \* processes sent SIGTERM
    sigkill,    \* processes sent SIGKILL
    fsckList,   \* TryUmountAndFsck's block_devices
    stat,       \* the UmountStat of the first UmountPartitions
    killedAll,  \* KillAllProcesses has run
    ut0,        \* UmountPartitions' Timer start
    utimeout,   \* UmountPartitions' timeout argument, seconds
    sem,        \* reboot_semaphore's count
    run,        \* reboot_monitor_run
    mpc,        \* RebootMonitorThread's position
    remaining,  \* remaining_shutdown_time
    deadline,   \* shutdown_timeout_timespec.tv_sec
    lag, fsckStart, clock,
    outcome     \* who rebooted the device: "main", "poweroff" or "panic"

procVars == <<alive, holds, loop, vold, sigterm, sigkill>>

vars == <<req, pc, blocked, nhang, mounted, procVars, fsckList, stat, killedAll,
          ut0, utimeout, sem, run, mpc, remaining, deadline, lag, fsckStart,
          clock, outcome>>

TypeOK ==
    /\ req \in {HandlePowerctlMessage(n) : n \in Commands}
    /\ pc \in {"start", "terminate", "wait", "stop", "vold", "sync", "prepare", "umount", "lastresort", "lastretry", "pause", "fsck",
               "resume", "final", "rebooted"}
    /\ blocked \in BOOLEAN /\ nhang \in 0..1
    /\ mounted \subseteq Parts /\ fsckList \subseteq Block
    /\ alive \subseteq Procs /\ holds \in [Procs -> SUBSET Parts]
    /\ loop \in BOOLEAN /\ vold \in BOOLEAN
    /\ sigterm \subseteq Procs /\ sigkill \subseteq Procs
    /\ stat \in {"none", "success", "timeout"} /\ killedAll \in BOOLEAN
    /\ ut0 \in 0..MaxClock /\ utimeout \in -MaxClock..ShutdownTimeoutProp
    /\ sem \in 0..4 /\ run \in BOOLEAN
    /\ mpc \in {"loop", "wait", "timed", "check", "expired", "exit",
                "fired"}
    /\ remaining \in (0..Budget) \cup {Never}
    /\ deadline \in (0..(MaxClock + Budget)) \cup {Never}
    /\ lag \in 0..MaxLag /\ fsckStart \in 0..MaxClock /\ clock \in 0..MaxClock
    /\ outcome \in {"none", "main", "poweroff", "panic"}

---------------------------------------------------------------------------
(* UmountPartitions. *)

\* FindPartitionsToUmount: the read-write block mounts and the emulated ones.
FindPartitionsToUmount(m) == [block |-> m \cap Block, emulated |-> m \cap Emulated]

\* The partitions a running process has files open on, and /data while
\* zram's loop device still has its backing file there.
Holders == {x \in Parts : \E p \in alive : x \in holds[p]}
           \cup (IF loop THEN {"data"} ELSE {})

\* MountEntry::Umount: umount2 fails (EBUSY) while a process has files
\* open on the mount, or /data while the emulated storage is mounted on it.
Umount(x, m) == x \notin Holders /\ (x = "data" => m \cap Emulated = {})

\* A pass that unmounts the block mounts before the emulated ones.
UmountPassBlockFirst(timeout) ==
    LET found == FindPartitionsToUmount(mounted)
        m1 == mounted \ {b \in found.block : Umount(b, mounted)}
        m2 == m1 \ {e \in found.emulated : Umount(e, m1)}
        done == m2 \cap (found.block \cup found.emulated) = {}
    IN  [mounted |-> IF found.block = {} THEN mounted ELSE m2,
         verdict |-> CASE found.block = {} -> "success"
                       [] done -> "success"
                       [] timeout < clock - ut0 -> "timeout"
                       [] OTHER -> "retry"]

\* One pass of UmountPartitions' loop: the emulated mounts first, then the
\* block mounts.  Returns what stays mounted and the pass's verdict.
UmountPass(timeout) ==
    LET found == FindPartitionsToUmount(mounted)
        m1 == mounted \ {e \in found.emulated : Umount(e, mounted)}
        m2 == m1 \ {b \in found.block : Umount(b, m1)}
        done == m2 \cap (found.block \cup found.emulated) = {}
    IN  [mounted |-> IF found.block = {} THEN mounted ELSE m2,
         verdict |-> CASE found.block = {} -> "success"
                       [] done -> "success"
                       [] timeout < clock - ut0 -> "timeout"
                       [] OTHER -> "retry"]

\* KillAllProcesses: sysrq "i" sends SIGKILL to every process but init.  The
\* signal is delivered asynchronously and a task in uninterruptible sleep
\* lingers, so any of them may still be there on the next umount2.  A loop
\* device is no process: it keeps its backing file.
KillAllProcesses ==
    /\ alive' \in SUBSET alive /\ sigkill' = Procs /\ killedAll' = TRUE
    /\ UNCHANGED <<holds, loop, vold, sigterm>>

---------------------------------------------------------------------------
(* DoReboot, on init's main thread. *)

\* /data is not mounted: sync and reboot at once.  Otherwise set the
\* last-reboot-reason property, sync, create the monitor thread and post
\* the semaphore that starts it.  Both syncs run before the monitor thread
\* exists, and either may hang (Hang).
Start ==
    /\ pc = "start" /\ ~blocked /\ outcome = "none"
    /\ \/ /\ "data" \notin mounted
          /\ pc' = "rebooted" /\ outcome' = "main"
          /\ UNCHANGED sem
       \/ /\ "data" \in mounted
          /\ sem' = sem + 1 /\ pc' = "terminate"
          /\ UNCHANGED outcome
    /\ UNCHANGED <<req, blocked, nhang, mounted, procVars, fsckList, stat, killedAll,
                   ut0, utimeout, run, mpc, remaining, deadline, lag, fsckStart, clock>>

\* Step 1, when shutdown_timeout > 0: SIGTERM every service but the
\* shutdown critical ones.
TerminateServices ==
    /\ pc = "terminate" /\ outcome = "none"
    /\ IF ShutdownTimeout(req) > 0
       THEN sigterm' = sigterm \cup (Services \ ShutdownCritical) /\ pc' = "wait"
       ELSE UNCHANGED sigterm /\ pc' = "stop"
    /\ UNCHANGED <<req, blocked, nhang, mounted, alive, holds, loop, vold, sigkill,
                   fsckList, stat, killedAll, ut0, utimeout, sem, run, mpc, remaining,
                   deadline, lag, fsckStart, clock, outcome>>

\* Step 1's loop: reap, count the services still running, and sleep 50 ms,
\* while t.duration() < shutdown_timeout / 2.  It ends when none is left or
\* when half the timeout may have gone by within the current second.
WaitOver == Counted(alive) = {} \/ 2 * (clock + 1) > ShutdownTimeout(req)
WaitMustEnd == Counted(alive) = {} \/ 2 * clock >= ShutdownTimeout(req)

TerminationWait ==
    /\ pc = "wait" /\ outcome = "none" /\ WaitOver
    /\ pc' = "stop"
    /\ UNCHANGED <<req, blocked, nhang, mounted, procVars, fsckList, stat, killedAll,
                   ut0, utimeout, sem, run, mpc, remaining, deadline, lag, fsckStart,
                   clock, outcome>>

\* Step 2: Stop (SIGKILL) every service but the shutdown critical ones,
\* then SubcontextTerminate and a reap.  A killed process exits when the
\* kernel gets to it (Exit).
StopServices ==
    /\ pc = "stop" /\ outcome = "none"
    /\ sigkill' = sigkill \cup (Services \ ShutdownCritical)
    /\ sigterm' = sigterm \cup SubcontextPids
    /\ pc' = "vold"
    /\ UNCHANGED <<req, blocked, nhang, mounted, alive, holds, loop, vold, fsckList,
                   stat, killedAll, ut0, utimeout, sem, run, mpc, remaining, deadline,
                   lag, fsckStart, clock, outcome>>

\* Step 3: if vold runs, `vdc volume shutdown` (vold unmounts the emulated
\* storage, or fails to) and Stop vold; then Stop kill_after_apps.
ShutdownVold ==
    /\ pc = "vold" /\ ~blocked /\ outcome = "none"
    /\ IF vold
       THEN mounted' \in {mounted, mounted \ Emulated} /\ vold' = FALSE
       ELSE UNCHANGED <<mounted, vold>>
    /\ sigkill' = sigkill \cup KillAfterApps
    /\ pc' = "sync"
    /\ UNCHANGED <<req, blocked, nhang, alive, holds, loop, sigterm, fsckList, stat,
                   killedAll, ut0, utimeout, sem, run, mpc, remaining, deadline, lag,
                   fsckStart, clock, outcome>>

\* Steps 4 and 5: sync, then KillZramBackingDevice.  Each of swapoff, the
\* zram reset, the open of the loop device and LOOP_CLR_FD may fail, and
\* every failure returns with the loop device still attached.
KillZramBackingDevice ==
    /\ pc = "sync" /\ ~blocked /\ outcome = "none"
    /\ loop' \in IF loop THEN BOOLEAN ELSE {FALSE}
    /\ pc' = "prepare"
    /\ UNCHANGED <<req, blocked, nhang, mounted, alive, holds, vold, sigterm, sigkill,
                   fsckList, stat, killedAll, ut0, utimeout, sem, run, mpc, remaining,
                   deadline, lag, fsckStart, clock, outcome>>

\* TryUmountAndFsck(shutdown_timeout - t.duration()): list the block
\* devices to fsck and call UmountPartitions.
TryUmountAndFsck ==
    /\ pc = "prepare" /\ outcome = "none"
    /\ fsckList' = IF req.runFsck THEN FindPartitionsToUmount(mounted).block ELSE {}
    /\ ut0' = clock
    /\ utimeout' = ShutdownTimeout(req) - clock
    /\ pc' = "umount"
    /\ UNCHANGED <<req, blocked, nhang, mounted, procVars, stat, killedAll, sem, run,
                   mpc, remaining, deadline, lag, fsckStart, clock, outcome>>

\* TryUmountAndFsck going on to fsck after any UmountStat.
AfterUmountAnyStat(s) == IF req.runFsck THEN "pause" ELSE "final"

\* TryUmountAndFsck after the first UmountPartitions: fsck only when it
\* succeeded and fsck was asked for.
AfterUmount(s) == IF s = "success" /\ req.runFsck THEN "pause" ELSE "final"

\* The two passes UmountPartitions(0ms) may make.
LastResort == {"lastresort", "lastretry"}

\* The first UmountPartitions.  On a timeout: KillAllProcesses and one more
\* UmountPartitions(0ms).
UmountPartitions ==
    /\ pc = "umount" /\ ~blocked /\ outcome = "none"
    /\ LET r == UmountPass(utimeout) IN
       /\ mounted' = r.mounted
       /\ CASE r.verdict = "success" ->
                 /\ stat' = "success" /\ pc' = AfterUmount("success")
                 /\ UNCHANGED <<procVars, killedAll, ut0, utimeout>>
            [] r.verdict = "timeout" ->
                 /\ stat' = "timeout" /\ pc' = "lastresort"
                 /\ KillAllProcesses
                 /\ ut0' = clock /\ utimeout' = 0
            [] OTHER -> UNCHANGED <<pc, stat, procVars, killedAll, ut0, utimeout>>
    /\ UNCHANGED <<req, blocked, nhang, fsckList, sem, run, mpc, remaining, deadline,
                   lag, fsckStart, clock, outcome>>

\* The last resort: UmountPartitions(0ms) with MNT_FORCE; its result is
\* only logged.  After a pass that leaves something mounted, the loop gives
\* up once `0ms < t.duration()`: at once, or after one 100 ms sleep when the
\* pass took under a millisecond (LastResortRetry).
LastResortUmount ==
    /\ pc \in LastResort /\ ~blocked /\ outcome = "none"
    /\ LET r == UmountPass(0) IN
       /\ mounted' = r.mounted
       /\ pc' \in IF r.verdict = "success" \/ pc = "lastretry"
                   THEN {AfterUmount(stat)}
                   ELSE {AfterUmount(stat), "lastretry"}
    /\ UNCHANGED <<req, blocked, nhang, procVars, fsckList, stat, killedAll, ut0,
                   utimeout, sem, run, mpc, remaining, deadline, lag, fsckStart,
                   clock, outcome>>

\* "Pause reboot monitor thread before fsck".
PauseMonitor ==
    /\ pc = "pause" /\ outcome = "none"
    /\ sem' = sem + 1 /\ pc' = "fsck" /\ fsckStart' = clock
    /\ UNCHANGED <<req, blocked, nhang, mounted, procVars, fsckList, stat, killedAll,
                   ut0, utimeout, run, mpc, remaining, deadline, lag, clock, outcome>>

\* DoFsck on each block device; then "Resume reboot monitor thread".
Fsck ==
    /\ pc = "fsck" /\ outcome = "none"
    /\ pc' = "resume"
    /\ UNCHANGED <<req, blocked, nhang, mounted, procVars, fsckList, stat, killedAll,
                   ut0, utimeout, sem, run, mpc, remaining, deadline, lag, fsckStart,
                   clock, outcome>>

ResumeMonitor ==
    /\ pc = "resume" /\ outcome = "none"
    /\ sem' = sem + 1 /\ pc' = "final"
    /\ UNCHANGED <<req, blocked, nhang, mounted, procVars, fsckList, stat, killedAll,
                   ut0, utimeout, run, mpc, remaining, deadline, lag, fsckStart,
                   clock, outcome>>

\* sync, reboot_monitor_run = false, sem_post, RebootSystem.
RebootSystem ==
    /\ pc = "final" /\ ~blocked /\ outcome = "none"
    /\ run' = FALSE /\ sem' = sem + 1
    /\ pc' = "rebooted" /\ outcome' = "main"
    /\ UNCHANGED <<req, blocked, nhang, mounted, procVars, fsckList, stat, killedAll,
                   ut0, utimeout, mpc, remaining, deadline, lag, fsckStart, clock>>

---------------------------------------------------------------------------
(* RebootMonitorThread. *)

\* while (*reboot_monitor_run == true)
MonitorLoop ==
    /\ mpc = "loop" /\ outcome = "none"
    /\ mpc' = IF run THEN "wait" ELSE "exit"
    /\ UNCHANGED <<req, pc, blocked, nhang, mounted, procVars, fsckList, stat, killedAll,
                   ut0, utimeout, sem, run, remaining, deadline, lag, fsckStart, clock,
                   outcome>>

\* The monitor waits in sem_timedwait, unposted, and its deadline's second
\* has come.
TimerDue == mpc = "timed" /\ sem = 0 /\ deadline # Never /\ clock >= deadline

\* sem_wait, then the deadline: now + remaining_shutdown_time.
MonitorWait ==
    /\ mpc = "wait" /\ sem > 0 /\ outcome = "none"
    /\ sem' = sem - 1
    /\ deadline' = IF remaining = Never THEN Never ELSE clock + remaining
    /\ mpc' = "timed" /\ lag' = 0
    /\ UNCHANGED <<req, pc, blocked, nhang, mounted, procVars, fsckList, stat, killedAll,
                   ut0, utimeout, run, remaining, fsckStart, clock, outcome>>

\* The timer of sem_timedwait expires in the deadline's second, before any
\* post.  The futex wait then returns ETIMEDOUT even if a post follows.
TimerExpires ==
    /\ TimerDue /\ outcome = "none"
    /\ mpc' = "expired"
    /\ UNCHANGED <<req, pc, blocked, nhang, mounted, procVars, fsckList, stat, killedAll,
                   ut0, utimeout, sem, run, remaining, deadline, lag, fsckStart, clock,
                   outcome>>

\* sem_timedwait returns 0: the semaphore was posted before the timer
\* expired.
MonitorPosted ==
    /\ mpc = "timed" /\ sem > 0 /\ outcome = "none"
    /\ sem' = sem - 1 /\ mpc' = "check" /\ lag' = 0
    /\ UNCHANGED <<req, pc, blocked, nhang, mounted, procVars, fsckList, stat, killedAll,
                   ut0, utimeout, run, remaining, deadline, fsckStart, clock, outcome>>

\* The retry loop around sem_timedwait taken on every -1, not only on EINTR:
\* the wait is restarted with the same absolute deadline, which has passed.
MonitorTimeoutRetried ==
    /\ mpc = "expired" /\ outcome = "none"
    /\ mpc' = "timed"
    /\ UNCHANGED <<req, pc, blocked, nhang, mounted, procVars, fsckList, stat, killedAll,
                   ut0, utimeout, sem, run, remaining, deadline, lag, fsckStart, clock,
                   outcome>>

\* sem_timedwait returns -1: "Reboot thread timed out".  A shutdown syncs,
\* remounts read-only and powers off; anything else panics the kernel.
MonitorTimeout ==
    /\ mpc = "expired" /\ outcome = "none"
    /\ mpc' = "fired"
    /\ outcome' = IF req.cmd \in {"poweroff", "thermoff"} THEN "poweroff" ELSE "panic"
    /\ UNCHANGED <<req, pc, blocked, nhang, mounted, procVars, fsckList, stat, killedAll,
                   ut0, utimeout, sem, run, remaining, deadline, lag, fsckStart, clock>>

\* remaining_shutdown_time = deadline - now, in an unsigned int.
MonitorCheck ==
    /\ mpc = "check" /\ outcome = "none"
    /\ remaining' = IF deadline = Never THEN Never ELSE ToUnsigned(deadline - clock)
    /\ mpc' = "loop"
    /\ UNCHANGED <<req, pc, blocked, nhang, mounted, procVars, fsckList, stat, killedAll,
                   ut0, utimeout, sem, run, deadline, lag, fsckStart, clock, outcome>>

---------------------------------------------------------------------------
(* The environment. *)

\* The monitor has been woken and not yet run.
MonitorPending == (mpc = "timed" /\ sem > 0) \/ mpc = "expired"

\* A step that takes no time is due.
Instant ==
    \/ ~blocked /\ pc \in {"start", "terminate", "stop", "prepare", "pause", "resume"}
    \/ pc = "wait" /\ WaitMustEnd
    \/ mpc \in {"loop", "check"}
    \/ mpc = "wait" /\ sem > 0
    \/ TimerDue

\* A second passes.  fsck takes at most MaxFsck seconds; the monitor wakes
\* at most MaxLag seconds late.
Tick ==
    /\ outcome = "none" /\ clock < MaxClock /\ ~Instant
    /\ pc = "fsck" => clock - fsckStart < MaxFsck
    /\ MonitorPending => lag < MaxLag
    /\ clock' = clock + 1
    /\ lag' = IF MonitorPending THEN lag + 1 ELSE 0
    /\ UNCHANGED <<req, pc, blocked, nhang, mounted, procVars, fsckList, stat, killedAll,
                   ut0, utimeout, sem, run, mpc, remaining, deadline, fsckStart, outcome>>

\* umount2, sync or vdc blocks, and may or may not come back.
Hang ==
    /\ outcome = "none" /\ ~blocked /\ nhang < 1
    /\ pc \in {"start", "vold", "sync", "umount"} \cup LastResort
              \cup (IF HangFinalSync THEN {"final"} ELSE {})
    /\ pc = "vold" => vold
    /\ blocked' = TRUE /\ nhang' = nhang + 1
    /\ UNCHANGED <<req, pc, mounted, procVars, fsckList, stat, killedAll, ut0, utimeout,
                   sem, run, mpc, remaining, deadline, lag, fsckStart, clock, outcome>>

\* A sync before the monitor thread exists is only modelled hanging for
\* good: one that comes back late hands DoReboot a budget partly spent,
\* which a slow step 1 and a short UmountPartitions timeout already give.
Unhang ==
    /\ blocked /\ pc # "start" /\ outcome = "none"
    /\ blocked' = FALSE
    /\ UNCHANGED <<req, pc, nhang, mounted, procVars, fsckList, stat, killedAll, ut0,
                   utimeout, sem, run, mpc, remaining, deadline, lag, fsckStart, clock,
                   outcome>>

\* A process exits, on a signal or of its own accord.  The console ignores
\* SIGTERM, and whether it dies of the SIGKILL is read by nothing: it holds
\* no partition and step 1 does not count it.  So it stays.
Exit(p) ==
    /\ p \in alive /\ outcome = "none"
    /\ p \notin Console
    /\ alive' = alive \ {p}
    /\ UNCHANGED <<req, pc, blocked, nhang, mounted, holds, loop, vold, sigterm,
                   sigkill, fsckList, stat, killedAll, ut0,
                   utimeout, sem, run, mpc, remaining, deadline, lag, fsckStart, clock,
                   outcome>>

\* The device is off.
Rebooted == outcome # "none" /\ UNCHANGED vars

\* The clock has reached the horizon with the device still up: the model
\* stops counting, and the behaviour stutters here for ever.
Horizon == outcome = "none" /\ clock = MaxClock /\ UNCHANGED vars

---------------------------------------------------------------------------
(* HandlePowerctlMessage has queued DoReboot; the emulated storage is only *)
(* mounted on a mounted /data.  Every process runs: the services with     *)
(* files open on /data (logd's /data/misc/logd), the console on none, and *)
(* the other processes on any of the mounts.  vold may not be running.    *)
Init ==
    /\ \E n \in Commands : req = HandlePowerctlMessage(n)
    /\ mounted \in {m \in SUBSET Parts : m \cap Emulated # {} => "data" \in m}
    /\ alive = Procs
    /\ \E o \in SUBSET mounted :
          holds = [p \in Procs |-> CASE p = "other" -> o
                                      [] p = "shell" -> {}
                                      [] OTHER -> mounted \cap {"data"}]
    /\ loop \in IF "data" \in mounted THEN BOOLEAN ELSE {FALSE}
    /\ vold \in BOOLEAN
    /\ sigterm = {} /\ sigkill = {}
    /\ pc = "start" /\ blocked = FALSE /\ nhang = 0
    /\ fsckList = {} /\ stat = "none" /\ killedAll = FALSE
    /\ ut0 = 0 /\ utimeout = 0
    /\ sem = 0 /\ run = TRUE /\ mpc = "loop"
    /\ remaining = InitialRemaining(req)
    /\ deadline = 0 /\ lag = 0 /\ fsckStart = 0 /\ clock = 0
    /\ outcome = "none"

Main == Start \/ TerminateServices \/ TerminationWait \/ StopServices \/ ShutdownVold
        \/ KillZramBackingDevice \/ TryUmountAndFsck \/ UmountPartitions \/ LastResortUmount
        \/ PauseMonitor \/ Fsck \/ ResumeMonitor \/ RebootSystem

Monitor == MonitorLoop \/ MonitorWait \/ TimerExpires \/ MonitorPosted \/ MonitorTimeout
           \/ MonitorCheck

Next == Main \/ Monitor \/ Tick \/ Hang \/ Unhang \/ (\E p \in Procs : Exit(p))
        \/ Rebooted \/ Horizon

\* Both threads are scheduled, the kernel wakes the monitor, and time
\* passes.  A hung umount2, sync or vdc need not come back, and a process
\* need not exit, not even on SIGKILL (uninterruptible sleep).
Fairness == WF_vars(Main) /\ WF_vars(Monitor) /\ WF_vars(Tick)

Spec == Init /\ [][Next]_vars

FairSpec == Spec /\ Fairness

---------------------------------------------------------------------------
(* Properties. *)

\* TryUmountAndFsck runs fsck only on block devices that are no longer
\* mounted: fsck of a mounted file system corrupts it.
FsckOnlyUnmounted == pc = "fsck" => fsckList \cap mounted = {}

\* The last-resort UmountPartitions(0ms), after KillAllProcesses, leaves
\* mounted only what umount2 could not take: a partition a surviving
\* process or zram's loop device keeps busy, or /data under emulated
\* storage that stays.  Everything else is gone before the reboot.
LastPassLeavesOnlyBusy ==
    [][(pc \in LastResort /\ pc' \notin LastResort) =>
         (\A x \in mounted' :
             x \in Holders \/ (x = "data" /\ mounted' \cap Emulated # {}))]_vars

\* The kill_after_apps services (tombstoned, logd, adbd) are stopped only
\* once every other service has been stopped and vold has shut down, so
\* that the debugging tools see the rest of the shutdown.
DebugToolsLast ==
    [][KillAfterApps \cap (sigkill' \ sigkill) # {} =>
         /\ Services \ KillAfterApps \subseteq sigkill
         /\ ~vold']_vars

\* Once DoReboot has posted the semaphore that starts the monitor thread,
\* the device goes down: DoReboot reboots it, or the monitor thread does
\* when DoReboot overruns its budget, hung umount2, vdc or sync included.
\* (The syncs before that post have no watchdog behind them.)
Armed == pc # "start"

ShutdownCompletes == Armed ~> outcome # "none"

\* The watchdog covers every hang after it is armed, up to one thing: a
\* remaining_shutdown_time that wrapped below zero when the monitor was
\* resumed after fsck (RebootMonitorThread's unsigned subtraction), which
\* leaves it waiting with no deadline.
WatchdogRescues == Armed ~> (outcome # "none" \/ remaining = Never)

====
