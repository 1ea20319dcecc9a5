------------------------ MODULE UpdateStateMachine ------------------------
(***************************************************************************)
(* What the update coordinator promises about the global update state in  *)
(* <metadata>/state and the set of snapshot records: the state moves along *)
(* the transitions of the coordinator's operations, records are created    *)
(* only for an initiated update, and None is reached only together with    *)
(* the removal of every record.                                            *)
(***************************************************************************)
CONSTANT Names

VARIABLES ustate, snaps

MergeStates == {"Merging", "MergeNeedsReboot", "MergeFailed"}

TypeOK ==
    /\ ustate \in {"None", "Initiated", "Unverified"} \cup MergeStates
    /\ snaps \subseteq Names

Init == ustate = "None" /\ snaps = {}

\* BeginUpdate: only from None.
Begin == ustate = "None" /\ ustate' = "Initiated" /\ UNCHANGED snaps

\* CreateUpdateSnapshots: records are (re)written for an initiated update.
Create == ustate = "Initiated" /\ snaps' \subseteq Names /\ UNCHANGED ustate

\* Any record may be deleted while an update exists (failed creation,
\* merge completion of a single snapshot, cancelled snapshots).
Delete == ustate # "None" /\ snaps' \subseteq snaps /\ UNCHANGED ustate

\* FinishedSnapshotWrites.
Finish == ustate = "Initiated" /\ ustate' = "Unverified" /\ UNCHANGED snaps

\* RemoveAllUpdateState: cancel, rollback, or the end of a merge.
Clear == ustate # "None" /\ ustate' = "None" /\ snaps' = {}

\* InitiateMerge: Merging, or MergeFailed when a table swap failed.
StartMerge ==
    /\ ustate = "Unverified"
    /\ ustate' \in {"Merging", "MergeFailed"}
    /\ UNCHANGED snaps

\* CheckMergeState writing MergeNeedsReboot, and AcknowledgeMergeFailure.
MergeOutcome ==
    \/ ustate \in MergeStates /\ ustate' = "MergeNeedsReboot" /\ snaps' \subseteq snaps
    \/ ustate \in {"Merging", "MergeNeedsReboot"} /\ ustate' = "MergeFailed"
       /\ UNCHANGED snaps

Next == Begin \/ Create \/ Delete \/ Finish \/ Clear \/ StartMerge \/ MergeOutcome

Spec == Init /\ [][Next]_<<ustate, snaps>>

=============================================================================
