----------------------------- MODULE ShmTransfer ----------------------------
(***************************************************************************)
(* studio15/share_mem: a leader copies an array into a shared memory       *)
(* object and a follower copies it out.  They signal each other through    *)
(* three words of the object, each of which one process sets to 1 and the  *)
(* other waits for, and each of which is also set to 0 by the process that *)
(* is about to wait (leader.c lines 63 and 82, follower.c line 44).        *)
(*                                                                         *)
(* The object has a name; a name may be unlinked, by either process, while *)
(* the object is still mapped, and an object whose name was not unlinked   *)
(* is found again by the next run.  A process may be killed at any step    *)
(* and started again.  At most one leader and one follower run at a time,  *)
(* and a follower is started while a leader runs ("the leader ... is       *)
(* always executed first").  Stores of one process are seen in program     *)
(* order.                                                                  *)
(***************************************************************************)
EXTENDS Integers, Sequences

CONSTANTS
  MaxLaunch,     \* bound: runs of the leader
  MaxFollower,   \* bound: runs of the follower
  MaxKill        \* bound: processes killed from outside

ASSUME BoundAssumption ==
  MaxLaunch \in Nat /\ MaxFollower \in Nat /\ MaxKill \in Nat

VARIABLES
  name,          \* the object NAME_SHARE_MEM refers to, or NoObject
  objects,       \* all objects ever created, by number
  lpc, lmap,     \* the leader: next statement and mapped object
  fpc, fmap,     \* the follower: next statement and mapped object
  s32local,      \* the leader's array: one value per run
  got,           \* the two halves of the follower's copy
  launches,      \* runs of the leader and of the follower so far
  kills,         \* processes killed so far
  lost,          \* history: the notifications that were overwritten
  delivered      \* history: the arrays a follower has copied out

leader   == <<lpc, lmap, s32local>>
follower == <<fpc, fmap, got>>
history  == <<launches, kills, lost, delivered>>
vars     == <<name, objects, leader, follower, history>>

NoObject == 0
Zero     == [sized |-> FALSE, write_guard |-> 0, read_guard |-> 0,
             delete_guard |-> 0, data |-> <<0, 0>>]

Over == {"idle", "ended", "failed", "killed"}

Init ==
  /\ name = NoObject
  /\ objects = << >>
  /\ lpc = "idle" /\ lmap = NoObject /\ s32local = 0
  /\ fpc = "idle" /\ fmap = NoObject /\ got = <<0, 0>>
  /\ launches = [leader |-> 0, follower |-> 0]
  /\ kills = 0
  /\ lost = {}
  /\ delivered = {}

LGoto(from, to) == lpc = from /\ lpc' = to
FGoto(from, to) == fpc = from /\ fpc' = to

-----------------------------------------------------------------------------
(* leader.c *)

\* A new process with an array of its own (line 31).
LaunchLeader ==
  /\ lpc \in Over
  /\ launches.leader < MaxLaunch
  /\ lpc' = "open"
  /\ lmap' = NoObject
  /\ launches' = [launches EXCEPT !.leader = @ + 1]
  /\ s32local' = launches.leader + 1
  /\ UNCHANGED <<name, objects, follower, kills, lost, delivered>>

\* shm_open(O_CREAT): the named object if there is one, or a new one of size 0.
OpenLeader ==
  /\ LGoto("open", "truncate")
  /\ IF name = NoObject
     THEN /\ objects' = Append(objects, Zero)
          /\ name' = Len(objects) + 1
     ELSE UNCHANGED <<objects, name>>
  /\ lmap' = name'
  /\ UNCHANGED <<s32local, follower, history>>

\* ftruncate() to the size the object may already have, and mmap().
Truncate ==
  /\ LGoto("truncate", "clearwrite")
  /\ objects' = [objects EXCEPT ![lmap].sized = TRUE]
  /\ UNCHANGED <<name, lmap, s32local, follower, history>>

\* write_guard = 0.  It may erase the 1 of a follower that is already waiting.
ClearWriteGuard ==
  /\ LGoto("clearwrite", "waitwrite")
  /\ objects' = [objects EXCEPT ![lmap].write_guard = 0]
  /\ lost' = IF objects[lmap].write_guard = 1 THEN lost \cup {"write"} ELSE lost
  /\ UNCHANGED <<name, lmap, s32local, follower, launches, kills, delivered>>

WaitWriteGuard ==
  /\ LGoto("waitwrite", "copy1")
  /\ objects[lmap].write_guard # 0
  /\ UNCHANGED <<name, objects, lmap, s32local, follower, history>>

\* Mutant: the follower is told before the array is complete.
CopyIn_NotifyEarly ==
  /\ \/ LGoto("copy1", "setread") /\ objects' = [objects EXCEPT ![lmap].data[1] = s32local]
     \/ LGoto("copy2", "setread") /\ objects' = [objects EXCEPT ![lmap].data[2] = s32local]
  /\ UNCHANGED <<name, lmap, s32local, follower, history>>

\* memcpy(), which others may see half done.
CopyIn ==
  /\ \/ LGoto("copy1", "copy2") /\ objects' = [objects EXCEPT ![lmap].data[1] = s32local]
     \/ LGoto("copy2", "setread") /\ objects' = [objects EXCEPT ![lmap].data[2] = s32local]
  /\ UNCHANGED <<name, lmap, s32local, follower, history>>

\* Mutant: the follower is not told.
SetReadGuard_Forgotten ==
  /\ LGoto("setread", "cleardelete")
  /\ UNCHANGED <<name, objects, lmap, s32local, follower, history>>

SetReadGuard ==
  /\ LGoto("setread", "cleardelete")
  /\ objects' = [objects EXCEPT ![lmap].read_guard = 1]
  /\ UNCHANGED <<name, lmap, s32local, follower, history>>

\* Mutant: delete_guard is left as the last run left it.
ClearDeleteGuard_Forgotten ==
  /\ LGoto("cleardelete", "waitdelete")
  /\ UNCHANGED <<name, objects, lmap, s32local, follower, history>>

\* delete_guard = 0, after the follower may have set it.
ClearDeleteGuard ==
  /\ LGoto("cleardelete", "waitdelete")
  /\ objects' = [objects EXCEPT ![lmap].delete_guard = 0]
  /\ lost' = IF objects[lmap].delete_guard = 1 THEN lost \cup {"delete"} ELSE lost
  /\ UNCHANGED <<name, lmap, s32local, follower, launches, kills, delivered>>

WaitDeleteGuard ==
  /\ LGoto("waitdelete", "unlink")
  /\ objects[lmap].delete_guard # 0
  /\ UNCHANGED <<name, objects, lmap, s32local, follower, history>>

\* munmap() and shm_unlink(): the name goes, whatever it refers to by now.
UnlinkLeader ==
  /\ LGoto("unlink", "ended")
  /\ name' = NoObject
  /\ lmap' = NoObject
  /\ UNCHANGED <<objects, s32local, follower, history>>

Leader ==
  \/ OpenLeader \/ Truncate \/ ClearWriteGuard \/ WaitWriteGuard \/ CopyIn
  \/ SetReadGuard \/ ClearDeleteGuard \/ WaitDeleteGuard \/ UnlinkLeader

-----------------------------------------------------------------------------
(* follower.c *)

LaunchFollower ==
  /\ fpc \in Over
  /\ lpc \notin Over
  /\ launches.follower < MaxFollower
  /\ fpc' = "open"
  /\ fmap' = NoObject
  /\ got' = <<0, 0>>
  /\ launches' = [launches EXCEPT !.follower = @ + 1]
  /\ UNCHANGED <<name, objects, leader, kills, lost, delivered>>

\* Without the object shm_open() returns -1, mmap() fails and the process exits.
OpenFollower ==
  /\ IF name = NoObject THEN FGoto("open", "failed") ELSE FGoto("open", "setwrite")
  /\ fmap' = name
  /\ UNCHANGED <<name, objects, leader, got, history>>

\* write_guard = 1, the first access: SIGBUS in an object of size 0.
SetWriteGuard ==
  /\ fpc = "setwrite"
  /\ IF objects[fmap].sized
     THEN /\ FGoto("setwrite", "clearread")
          /\ objects' = [objects EXCEPT ![fmap].write_guard = 1]
     ELSE /\ FGoto("setwrite", "failed")
          /\ UNCHANGED objects
  /\ UNCHANGED <<name, leader, fmap, got, history>>

\* read_guard = 0, after the leader may have set it.
ClearReadGuard ==
  /\ FGoto("clearread", "waitread")
  /\ objects' = [objects EXCEPT ![fmap].read_guard = 0]
  /\ lost' = IF objects[fmap].read_guard = 1 THEN lost \cup {"read"} ELSE lost
  /\ UNCHANGED <<name, leader, fmap, got, launches, kills, delivered>>

WaitReadGuard ==
  /\ FGoto("waitread", "copy1")
  /\ objects[fmap].read_guard # 0
  /\ UNCHANGED <<name, objects, leader, fmap, got, history>>

\* The array is printed or copied out, element by element.
CopyOut ==
  /\ \/ /\ FGoto("copy1", "copy2")
        /\ got' = [got EXCEPT ![1] = objects[fmap].data[1]]
        /\ UNCHANGED delivered
     \/ /\ FGoto("copy2", "setdelete")
        /\ got' = [got EXCEPT ![2] = objects[fmap].data[2]]
        /\ delivered' = delivered \cup {got'[2]}
  /\ UNCHANGED <<name, objects, leader, fmap, launches, kills, lost>>

\* Mutant: the leader is not told.
SetDeleteGuard_Forgotten ==
  /\ FGoto("setdelete", "unlink")
  /\ UNCHANGED <<name, objects, leader, fmap, got, history>>

SetDeleteGuard ==
  /\ FGoto("setdelete", "unlink")
  /\ objects' = [objects EXCEPT ![fmap].delete_guard = 1]
  /\ UNCHANGED <<name, leader, fmap, got, history>>

\* The follower removes the name as well, first or second.
UnlinkFollower ==
  /\ FGoto("unlink", "ended")
  /\ name' = NoObject
  /\ fmap' = NoObject
  /\ UNCHANGED <<objects, leader, got, history>>

Follower ==
  \/ OpenFollower \/ SetWriteGuard \/ ClearReadGuard \/ WaitReadGuard
  \/ CopyOut \/ SetDeleteGuard \/ UnlinkFollower

-----------------------------------------------------------------------------
\* A signal from outside ends a process; nothing in the object changes.
Kill ==
  /\ kills < MaxKill
  /\ kills' = kills + 1
  /\ \/ lpc \notin Over /\ lpc' = "killed" /\ UNCHANGED fpc
     \/ fpc \notin Over /\ fpc' = "killed" /\ UNCHANGED lpc
  /\ UNCHANGED <<name, objects, lmap, s32local, fmap, got>>
  /\ UNCHANGED <<launches, lost, delivered>>

Next == LaunchLeader \/ Leader \/ LaunchFollower \/ Follower \/ Kill

Spec == Init /\ [][Next]_vars

\* Running processes are scheduled; nobody has to start or to kill one.
FairSpec == Spec /\ WF_vars(Leader) /\ WF_vars(Follower)

-----------------------------------------------------------------------------
(* Properties *)

\* An access through the map is always to an object the process has mapped.
TypeOK ==
  /\ name \in 0 .. Len(objects)
  /\ Len(objects) <= MaxLaunch
  /\ {lmap, fmap} \subseteq 0 .. Len(objects)
  /\ lpc \notin Over \cup {"open"} => lmap # NoObject
  /\ fpc \notin Over \cup {"open"} => fmap # NoObject
  /\ lost \subseteq {"write", "read", "delete"}
  /\ delivered \subseteq 1 .. launches.leader

(***************************************************************************)
(* A follower that has finished copying holds one array of one run of the  *)
(* leader, whole: memcpy() of leader.c line 73 never overlaps the reads of *)
(* follower.c lines 50-58, even in an object left by a run that was killed.*)
(***************************************************************************)
CopyIsWhole ==
  fpc \in {"setdelete", "unlink", "ended"} => got[1] = got[2] /\ got[1] # 0

\* The two together: accesses reach a mapped object, and a copy is whole.
Safety == TypeOK /\ CopyIsWhole

(***************************************************************************)
(* The leader removes the object only after a follower has copied this     *)
(* run's array out of it (leader.c lines 81-94): a 1 that a killed run     *)
(* left in delete_guard is not mistaken for the answer.                    *)
(***************************************************************************)
LeaderLeavesAfterCopy ==
  lpc \in {"unlink", "ended"} => s32local \in delivered

(***************************************************************************)
(* The ways the exchange can break down: a 1 was overwritten by a 0, the   *)
(* follower found no object or one without memory, or someone was killed.  *)
(***************************************************************************)
Trouble == lost # {} \/ kills > 0 \/ fpc = "failed"

(***************************************************************************)
(* Otherwise a follower that was started ends, and a leader ends once a    *)
(* follower has the data: no other interleaving of the three waits hangs.  *)
(***************************************************************************)
FollowerEnds == (fpc = "open") ~> (fpc = "ended" \/ Trouble)

LeaderEnds == (fpc = "setdelete") ~> (lpc = "ended" \/ Trouble)

(***************************************************************************)
(* The sequence of Requirement/Studio15_Inter-process_Shared_Memory.html,  *)
(* lines 143-151: with the leader already waiting, a follower that is      *)
(* created gets the data, notifies the leader, and both finish.            *)
(***************************************************************************)
SequenceCompletes ==
  (lpc = "waitwrite" /\ fpc = "open") ~> (lpc = "ended" /\ fpc = "ended")
=============================================================================
