-------------------------- MODULE SnapshotMapping --------------------------
(***************************************************************************)
(* MapUpdateSnapshot and UnmapUpdateSnapshot (snapshot.cpp) called by     *)
(* several clients at once.  Both take only the shared lock on the state   *)
(* file, so their device-mapper ioctls on the devices of one partition <n> *)
(* interleave: <n>-base, <n>-cow and the snapshot device <n> itself (the   *)
(* partition has a COW partition and no COW file, and the snapshot covers  *)
(* it whole, so there is no <n>-cow-img and no <n>-inner).  Every ioctl    *)
(* is one step.  The kernel gives a created device a free minor, and a     *)
(* table names its lower devices by the "major:minor" string the caller    *)
(* read with GetDeviceString, resolved when the table is loaded.           *)
(***************************************************************************)
EXTENDS Integers, Sequences, SequencesExt, Functions

CONSTANTS
    Callers,      \* processes calling the library with a shared lock
    MaxCalls,     \* calls each of them makes
    Minors,       \* minors free for dm devices (other devices hold the rest)
    MaxFailures   \* injected DM_DEV_CREATE / DM_TABLE_LOAD failures

ASSUME MaxCalls \in Nat /\ MaxFailures \in Nat

NoDev == -1   \* no device of that name (minors are naturals)

\* The devices of <n>, in the order UnmapPartitionWithSnapshot deletes them
\* and the reverse of the order MapPartitionWithSnapshot creates them.
Roles == {"snap", "cow", "base"}
Teardown == <<"snap", "cow", "base">>
NextUnmap == [snap |-> "cow", cow |-> "base"]
NextMap == [base |-> "cow", cow |-> "snap"]

\* A device's table: none loaded, a linear table over super, or the
\* snapshot target over the origin and COW given by minor.
Tables == [kind : {"none", "linear", "snapshot"},
           origin : Minors \cup {NoDev}, cow : Minors \cup {NoDev}]
NoTable == [kind |-> "none", origin |-> NoDev, cow |-> NoDev]
Linear == [kind |-> "linear", origin |-> NoDev, cow |-> NoDev]
IsSnapTable(t) == t.kind = "snapshot"

Steps == {"idle", "ucheck", "udelete", "create", "load", "cdelete",
          "string", "undo"}

VARIABLES
    kminor,   \* the minor of the device named by each role, or NoDev
    ktable,   \* the table loaded into it
    op,       \* the call a client is in: "idle", "map" or "unmap"
    pc,       \* [step, role] within that call
    list,     \* its AutoDeviceList (created_devices), oldest first
    str,      \* the device strings it read, by role
    result,   \* what its last call returned
    calls, failures

vars == <<kminor, ktable, op, pc, list, str, result, calls, failures>>

TypeOK ==
    /\ kminor \in [Roles -> Minors \cup {NoDev}]
    /\ ktable \in [Roles -> Tables]
    /\ op \in [Callers -> {"idle", "map", "unmap"}]
    /\ pc \in [Callers -> [step : Steps, role : Roles]]
    /\ list \in [Callers -> Seq(Roles)]
    /\ str \in [Callers -> [Roles -> Minors \cup {NoDev}]]
    /\ result \in [Callers -> {"none", "ok", "fail"}]
    /\ calls \in [Callers -> 0..MaxCalls] /\ failures \in 0..MaxFailures

-----------------------------------------------------------------------------
(* The kernel.                                                             *)

FreeMinors == Minors \ Range(kminor)

\* DM_DEV_REMOVE fails with EBUSY while a loaded snapshot table holds the
\* device open.
Busy(r) == IsSnapTable(ktable["snap"])
           /\ kminor[r] \in {ktable["snap"].origin, ktable["snap"].cow}

\* DM_TABLE_LOAD of t into <r>: each lower minor must be a device with a
\* table (an empty device has size 0), other than <r> and each other.
Loadable(r, t) ==
    /\ kminor[r] # NoDev
    /\ IsSnapTable(t) =>
         /\ t.origin # t.cow /\ kminor[r] \notin {t.origin, t.cow}
         /\ \A m \in {t.origin, t.cow} :
              \E s \in Roles : kminor[s] = m /\ ktable[s] # NoTable

RemoveDevice(r) ==
    /\ kminor' = [kminor EXCEPT ![r] = NoDev]
    /\ ktable' = [ktable EXCEPT ![r] = NoTable]

\* DeviceMapper::DeleteDevice(<r>), whose failure the caller may ignore.
DeleteDevice(r) ==
    IF kminor[r] # NoDev /\ ~Busy(r) THEN RemoveDevice(r)
    ELSE UNCHANGED <<kminor, ktable>>

-----------------------------------------------------------------------------
(* A client.                                                               *)

Goto(c, s, r) == pc' = [pc EXCEPT ![c] = [step |-> s, role |-> r]]

Return(c, res) ==
    /\ op' = [op EXCEPT ![c] = "idle"]
    /\ result' = [result EXCEPT ![c] = res]
    /\ list' = [list EXCEPT ![c] = <<>>]
    /\ Goto(c, "idle", pc[c].role)

\* An error return: the AutoDeviceList is destroyed, if it has entries.
Fail(c) ==
    IF list[c] = <<>> THEN Return(c, "fail")
    ELSE Goto(c, "undo", pc[c].role) /\ UNCHANGED <<op, result, list>>

\* The shared lock taken, MapUpdateSnapshot or UnmapUpdateSnapshot starts
\* with UnmapPartitionWithSnapshot.
Call(c) ==
    /\ op[c] = "idle" /\ calls[c] < MaxCalls
    /\ \E o \in {"map", "unmap"} : op' = [op EXCEPT ![c] = o]
    /\ Goto(c, "ucheck", Teardown[1])
    /\ str' = [str EXCEPT ![c] = [r \in Roles |-> NoDev]]
    /\ result' = [result EXCEPT ![c] = "none"]
    /\ calls' = [calls EXCEPT ![c] = @ + 1]
    /\ UNCHANGED <<kminor, ktable, list, failures>>

\* After the base device is gone, UnmapUpdateSnapshot returns true and
\* MapUpdateSnapshot goes on to MapPartitionWithSnapshot.
Unmapped(c, r) ==
    IF r # "base" THEN Goto(c, "ucheck", NextUnmap[r]) /\ UNCHANGED <<op, result, list>>
    ELSE IF op[c] = "unmap" THEN Return(c, "ok")
    ELSE Goto(c, "create", "base") /\ UNCHANGED <<op, result, list>>

\* DeleteDeviceIfExists, first ioctl: GetState (DM_DEV_STATUS).
UnmapCheck(c) ==
    LET r == pc[c].role IN
    /\ pc[c].step = "ucheck"
    /\ IF kminor[r] = NoDev THEN Unmapped(c, r)
       ELSE Goto(c, "udelete", r) /\ UNCHANGED <<op, result, list>>
    /\ UNCHANGED <<kminor, ktable, str, calls, failures>>

\* DeleteDeviceIfExists, second ioctl: DeleteDevice.  A device already
\* removed by another client, or still held, makes the unmap fail.
UnmapDelete(c) ==
    LET r == pc[c].role IN
    /\ pc[c].step = "udelete"
    /\ IF kminor[r] # NoDev /\ ~Busy(r)
       THEN RemoveDevice(r) /\ Unmapped(c, r)
       ELSE Return(c, "fail") /\ UNCHANGED <<kminor, ktable>>
    /\ UNCHANGED <<str, calls, failures>>

\* Mutant: an injected failure ignores the bound on failures.
CreateFailUnbounded(c) ==
    LET r == pc[c].role IN
    /\ pc[c].step = "create"
    /\ \/ /\ kminor[r] = NoDev
          /\ \E m \in FreeMinors :
               /\ kminor' = [kminor EXCEPT ![r] = m]
               /\ ktable' = [ktable EXCEPT ![r] = NoTable]
          /\ Goto(c, "load", r)
          /\ UNCHANGED <<op, result, list, failures>>
       \/ /\ failures' = IF kminor[r] = NoDev /\ FreeMinors # {}
                         THEN failures + 1 ELSE failures
          /\ Fail(c)
          /\ UNCHANGED <<kminor, ktable>>
    /\ UNCHANGED <<str, calls>>

\* CreateDevice, DM_DEV_CREATE: fails when the name exists.
Create(c) ==
    LET r == pc[c].role IN
    /\ pc[c].step = "create"
    /\ \/ /\ kminor[r] = NoDev
          /\ \E m \in FreeMinors :
               /\ kminor' = [kminor EXCEPT ![r] = m]
               /\ ktable' = [ktable EXCEPT ![r] = NoTable]
          /\ Goto(c, "load", r)
          /\ UNCHANGED <<op, result, list, failures>>
       \/ /\ kminor[r] # NoDev \/ FreeMinors = {} \/ failures < MaxFailures
          /\ failures' = IF kminor[r] = NoDev /\ FreeMinors # {}
                         THEN failures + 1 ELSE failures
          /\ Fail(c)
          /\ UNCHANGED <<kminor, ktable>>
    /\ UNCHANGED <<str, calls>>

\* Mutant: origin and COW swapped in the snapshot target's arguments.
TableOfSwapped(c, r) ==
    IF r = "snap"
    THEN [kind |-> "snapshot", origin |-> str[c]["cow"], cow |-> str[c]["base"]]
    ELSE Linear

\* The table a client loads into <r>: linear over super for the base and
\* the COW device, MapSnapshot's snapshot target over the strings it read.
TableOf(c, r) ==
    IF r = "snap"
    THEN [kind |-> "snapshot", origin |-> str[c]["base"], cow |-> str[c]["cow"]]
    ELSE Linear

\* CreateDevice, LoadTableAndActivate and the path lookups.  The base and
\* COW device are added to created_devices; the snapshot device ends
\* MapPartitionWithSnapshot with created_devices.Release().
Load(c) ==
    LET r == pc[c].role
        t == TableOf(c, r)
    IN
    /\ pc[c].step = "load"
    /\ \/ /\ Loadable(r, t)
          /\ ktable' = [ktable EXCEPT ![r] = t]
          /\ IF r = "snap" THEN Return(c, "ok")
             ELSE /\ list' = [list EXCEPT ![c] = Append(@, r)]
                  /\ Goto(c, "string", r)
                  /\ UNCHANGED <<op, result>>
          /\ UNCHANGED failures
       \/ /\ ~Loadable(r, t) \/ failures < MaxFailures
          /\ failures' = IF Loadable(r, t) THEN failures + 1 ELSE failures
          /\ Goto(c, "cdelete", r)
          /\ UNCHANGED <<ktable, op, result, list>>
    /\ UNCHANGED <<kminor, str, calls>>

\* A failed CreateDevice deletes the device by its name.
CreateDelete(c) ==
    /\ pc[c].step = "cdelete"
    /\ DeleteDevice(pc[c].role)
    /\ Fail(c)
    /\ UNCHANGED <<str, calls, failures>>

\* GetDeviceString (DM_DEV_STATUS): the base's and the COW's minor.
GetDeviceString(c) ==
    LET r == pc[c].role IN
    /\ pc[c].step = "string"
    /\ IF kminor[r] = NoDev
       THEN Fail(c) /\ UNCHANGED str
       ELSE /\ str' = [str EXCEPT ![c][r] = kminor[r]]
            /\ Goto(c, "create", NextMap[r])
            /\ UNCHANGED <<op, result, list>>
    /\ UNCHANGED <<kminor, ktable, calls, failures>>

\* Mutant: the destructor deletes only the newest entry.
UnwindNewestOnly(c) ==
    /\ pc[c].step = "undo"
    /\ DeleteDevice(Last(list[c]))
    /\ Return(c, "fail")
    /\ UNCHANGED <<str, calls, failures>>

\* ~AutoDeviceList: AutoUnmapDevice runs DeleteDeviceIfExists on the newest
\* entry's name; a failure is logged and the next entry is still tried.
Unwind(c) ==
    /\ pc[c].step = "undo"
    /\ DeleteDevice(Last(list[c]))
    /\ IF Len(list[c]) = 1 THEN Return(c, "fail")
       ELSE /\ list' = [list EXCEPT ![c] = Front(@)]
            /\ UNCHANGED <<op, pc, result>>
    /\ UNCHANGED <<str, calls, failures>>

\* Every client has made its calls.
Finished ==
    /\ \A c \in Callers : op[c] = "idle" /\ calls[c] = MaxCalls
    /\ UNCHANGED vars

-----------------------------------------------------------------------------

\* The partition's snapshot was created earlier and nothing of it is mapped.
Init ==
    /\ kminor = [r \in Roles |-> NoDev]
    /\ ktable = [r \in Roles |-> NoTable]
    /\ op = [c \in Callers |-> "idle"]
    /\ pc = [c \in Callers |-> [step |-> "idle", role |-> "snap"]]
    /\ list = [c \in Callers |-> <<>>]
    /\ str = [c \in Callers |-> [r \in Roles |-> NoDev]]
    /\ result = [c \in Callers |-> "none"]
    /\ calls = [c \in Callers |-> 0]
    /\ failures = 0

Next ==
    \/ \E c \in Callers :
         \/ Call(c) \/ UnmapCheck(c) \/ UnmapDelete(c) \/ Create(c)
         \/ Load(c) \/ CreateDelete(c) \/ GetDeviceString(c) \/ Unwind(c)
    \/ Finished

Spec == Init /\ [][Next]_vars

-----------------------------------------------------------------------------
(* Properties.                                                             *)

\* The stack of section 4.E: a snapshot table loaded into <n> has <n>-base
\* as its origin and <n>-cow as its COW.  The minors in the table were read
\* by GetDeviceString before the table was loaded, so this fails if one of
\* those devices was removed and its minor given to another device between
\* the two.
StackOverItsDevices ==
    IsSnapTable(ktable["snap"])
        => /\ ktable["snap"].origin = kminor["base"]
           /\ ktable["snap"].cow = kminor["cow"]

\* Once no call is running, the partition is either unmapped or mapped as a
\* whole stack: no base or COW device is left behind by a failed or
\* interleaved call, and no device is left without a table.
Quiet == \A c \in Callers : op[c] = "idle"

NoLeftoverDevices ==
    Quiet =>
        /\ kminor["snap"] = NoDev => kminor["cow"] = NoDev /\ kminor["base"] = NoDev
        /\ \A r \in Roles : kminor[r] # NoDev => ktable[r] # NoTable

=============================================================================
