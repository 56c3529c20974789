----------------------------- MODULE UfsSystem ------------------------------
(***************************************************************************)
(* The system handle from ufs_sys_new (UFSSYNEW) to ufs_sys_term           *)
(* (UFSSYTRM): the mount table, the disks it is made of, and the lock of   *)
(* the handle that ufs_sync shares with the mounts.  A stop waits until no *)
(* session is inside a call; a crash does not.                             *)
(***************************************************************************)
EXTENDS UfsMount

CONSTANTS ReadOnly, OldFormat, FaultAt, \* see UfsSync
          Allocated,                   \* the disks of a start, and those with a pager,
                                       \* in the order of their numbers
          MaxStarts                    \* bound on the starts

Ascending(s) == \A i, j \in DOMAIN s : i < j => s[i] < s[j]

ASSUME JobAssumption ==
  \A job \in Allocated :
    /\ job.disks \in Seq(Disk) /\ job.disks # << >> /\ Ascending(job.disks)
    /\ job.pagers \in Seq(Range(job.disks)) /\ Ascending(job.pagers)

VARIABLES data, mem, modified, open, paged, saving, phase, todo, failed, broken,
          starts                       \* number of starts

Sync == INSTANCE UfsSync

syncVars == <<data, mem, modified, open, paged, saving, phase, todo, failed, broken>>
vars == <<mountVars, syncVars, starts>>

Init == MountInit /\ Sync!SyncInit /\ starts = 0

(* Starts with the disks that are allocated and can be opened.  A pager    *)
(* that cannot be had is done without.                                     *)
Start ==
  /\ starts < MaxStarts /\ starts' = starts + 1
  /\ \E job \in Allocated :
       MountUp(job.disks) /\ Sync!OpenDisks(job.disks, job.pagers)

(* A call about mounts. *)
Mounts(s) == phase = "up" /\ MountStep(s) /\ UNCHANGED <<syncVars, starts>>

(* A change of a disk inside some other call.                              *)
Update(s, d) ==
  /\ Starts(s)
  /\ Sync!Change(d) \/ Sync!Spill(d) \/ Sync!ScanSave(d)
  /\ UNCHANGED <<vdisks, fsroot, table, gone, holder, call, odd, starts>>

(* ufs_sync keeps the lock of the system handle for all disks.             *)
BeginSync(s) ==
  /\ Starts(s) /\ Free
  /\ Sync!SyncAll
  /\ holder' = s /\ call' = [call EXCEPT ![s] = [op |-> "sync"]]
  /\ UNCHANGED <<vdisks, fsroot, table, gone, odd, starts>>

EndSync(s) ==
  /\ call[s].op = "sync" /\ todo = << >>
  /\ holder' = NoSession /\ call' = [call EXCEPT ![s] = Idle]
  /\ UNCHANGED <<vdisks, fsroot, table, gone, calls, odd, syncVars, starts>>

(* One write, by whoever saves a disk.                                     *)
SaveStep == Sync!SaveStep /\ UNCHANGED <<mountVars, starts>>

(* ufs_sys_term unmounts all disks before it frees what they are mounted   *)
(* in.                                                                     *)
Stop ==
  /\ \A s \in Session : call[s] = Idle
  /\ Sync!BeginStop /\ MountDown /\ UNCHANGED starts

Off == Sync!Stopped /\ UNCHANGED <<mountVars, starts>>

Crash == Sync!Crash /\ MountDown /\ UNCHANGED starts

Next ==
  \/ Start \/ SaveStep \/ Stop \/ Off \/ Crash
  \/ \E s \in Session :
       \/ Mounts(s) \/ BeginSync(s) \/ EndSync(s)
       \/ \E d \in Disk : Update(s, d)

Spec == Init /\ [][Next]_vars

(* The properties of the disks: see UfsSync.                               *)
UnsavedMarked == Sync!UnsavedMarked
Saved         == Sync!Saved
LinkedSaved   == Sync!LinkedSaved

=============================================================================
