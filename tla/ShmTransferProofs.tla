-------------------------- MODULE ShmTransferProofs --------------------------
(***************************************************************************)
(* Proofs about studio15/share_mem, for any number of runs and of kills:   *)
(* a copy is whole, and the leader waits for the copy of its own array.    *)
(***************************************************************************)
EXTENDS ShmTransfer, TLAPS

-----------------------------------------------------------------------------
(* The inductive invariant *)

Guard  == {0, 1}
Object == [sized : BOOLEAN, write_guard : Guard, read_guard : Guard,
           delete_guard : Guard, data : [{1, 2} -> Nat]]

Types ==
  /\ objects \in Seq(Object)
  /\ got \in [{1, 2} -> Nat]
  /\ s32local \in Nat
  /\ launches \in [leader : Nat, follower : Nat]
  /\ name \in 0 .. Len(objects)
  /\ lmap \in 0 .. Len(objects) /\ fmap \in 0 .. Len(objects)
  /\ lpc \notin Over \cup {"open"} => lmap # NoObject
  /\ fpc \notin Over \cup {"open"} => fmap # NoObject
  /\ lost \subseteq {"write", "read", "delete"}

\* Every run of the leader creates at most one object, and has a value of its own.
Runs ==
  /\ launches.leader <= MaxLaunch
  /\ Len(objects) <= launches.leader
  /\ lpc = "open" => Len(objects) < launches.leader
  /\ s32local <= launches.leader
  /\ lpc \notin Over => s32local # 0
  /\ \A n \in 1 .. Len(objects), h \in {1, 2} : objects[n].data[h] <= launches.leader
  /\ delivered \subseteq 1 .. launches.leader

\* What the leader has written is its own, once it has written it.
Written ==
  /\ lpc \in {"copy2", "setread", "cleardelete", "waitdelete"} =>
       objects[lmap].data[1] = s32local
  /\ lpc \in {"setread", "cleardelete", "waitdelete"} => objects[lmap].data[2] = s32local

\* The follower has been told that the object is complete, or is about to see it.
Told == \/ fpc = "waitread" /\ objects[fmap].read_guard = 1
        \/ fpc \in {"copy1", "copy2", "setdelete"}

\* Then the object is whole, and no leader has leave to write into it.
Whole ==
  Told =>
    /\ objects[fmap].data[1] = objects[fmap].data[2] /\ objects[fmap].data[1] # 0
    /\ lmap = fmap => /\ lpc \notin {"copy1", "copy2", "setread"}
                      /\ lpc = "waitwrite" => objects[lmap].write_guard = 0

Copied ==
  /\ fpc = "copy2" => got[1] = objects[fmap].data[1]
  /\ fpc \in {"setdelete", "unlink", "ended"} => got[1] = got[2] /\ got[1] # 0

\* A 1 in delete_guard, or on its way there, answers this run of the leader.
Answered ==
  /\ lpc \in {"cleardelete", "waitdelete"} /\ lmap = fmap /\ fpc = "setdelete" =>
       s32local \in delivered
  /\ lpc = "waitdelete" /\ objects[lmap].delete_guard = 1 => s32local \in delivered
  /\ lpc \in {"unlink", "ended"} => s32local \in delivered

IInv == Types /\ Runs /\ Written /\ Whole /\ Copied /\ Answered

-----------------------------------------------------------------------------
(* The steps *)

LEMMA Update == ASSUME NEW s \in Seq(Object), NEW n \in 1 .. Len(s), NEW o \in Object
                PROVE  /\ [s EXCEPT ![n] = o] \in Seq(Object)
                       /\ Len([s EXCEPT ![n] = o]) = Len(s)
                       /\ [s EXCEPT ![n] = o][n] = o
                       /\ \A m \in 1 .. Len(s) : m # n => [s EXCEPT ![n] = o][m] = s[m]
  OBVIOUS

LEMMA InitInv == Init => IInv
<1> SUFFICES ASSUME Init PROVE IInv
  OBVIOUS
<1>1. Types
  BY DEF Init, Types, Over, NoObject
<1>2. Runs
  BY BoundAssumption DEF Init, Runs, Over
<1>3. Written /\ Whole /\ Copied /\ Answered
  BY DEF Init, Written, Whole, Told, Copied, Answered
<1> QED
  BY <1>1, <1>2, <1>3 DEF IInv

\* One step per action; the stores into an object go through Update.
LEMMA StepInv == IInv /\ [Next]_vars => IInv'
<1> SUFFICES ASSUME IInv, [Next]_vars PROVE IInv'
  OBVIOUS
<1> USE DEF IInv, Over, NoObject, LGoto, FGoto, leader, follower, history
<1>1. CASE LaunchLeader
  <2>1. Types'
    BY <1>1 DEF Types, LaunchLeader
  <2>2. launches'.leader = launches.leader + 1 /\ launches.leader \in Nat
    BY <1>1 DEF LaunchLeader, Types
  <2>3. ASSUME NEW n \in 1 .. Len(objects), NEW h \in {1, 2}
        PROVE  objects[n].data[h] \in Nat
    <3>1. objects[n] \in Object
      BY DEF Types
    <3> QED
      BY <3>1 DEF Object
  <2>4. launches.leader + 1 <= MaxLaunch
    BY <1>1, <2>2, BoundAssumption DEF LaunchLeader
  <2>5. Runs'
    BY <1>1, <2>2, <2>3, <2>4 DEF Types, Runs, LaunchLeader
  <2>6. Written'
    BY <1>1 DEF Types, Written, Runs, LaunchLeader
  <2>7. Whole'
    BY <1>1 DEF Types, Whole, Told, Written, Runs, LaunchLeader
  <2>8. Copied'
    BY <1>1 DEF Types, Copied, Whole, Told, LaunchLeader
  <2>9. Answered'
    BY <1>1 DEF Types, Answered, Written, Whole, Told, Runs, Copied, LaunchLeader
  <2> QED
    BY <2>1, <2>5, <2>6, <2>7, <2>8, <2>9
<1>2. CASE OpenLeader
  <2>1. CASE name = NoObject
    <3>1. Zero \in Object /\ Zero.data[1] = 0 /\ Zero.data[2] = 0
      BY DEF Zero, Object, Guard
    <3>2. objects' = Append(objects, Zero) /\ name' = Len(objects) + 1 /\ lmap' = name'
      BY <1>2, <2>1 DEF OpenLeader
    <3>3. /\ objects' \in Seq(Object) /\ Len(objects') = Len(objects) + 1
          /\ objects'[Len(objects) + 1] = Zero
          /\ \A m \in 1 .. Len(objects) : objects'[m] = objects[m]
      BY <3>1, <3>2 DEF Types
    <3> HIDE DEF Zero
    <3>4. UNCHANGED <<s32local, fpc, fmap, got, launches, kills, lost, delivered>>
      BY <1>2 DEF OpenLeader
    <3>5. lpc = "open" /\ lpc' = "truncate"
      BY <1>2 DEF OpenLeader
    <3>6. Len(objects) \in Nat
      BY DEF Types
    <3>7. Types'
      BY <3>1, <3>2, <3>3, <3>4, <3>5, <3>6 DEF Types
    <3>8. Runs'
      BY <3>1, <3>2, <3>3, <3>4, <3>5, <3>6 DEF Types, Runs
    <3>9. Written'
      BY <3>1, <3>2, <3>3, <3>4, <3>5, <3>6 DEF Types, Written, Runs
    <3>10. Whole'
      BY <3>1, <3>2, <3>3, <3>4, <3>5, <3>6 DEF Types, Whole, Told, Written, Runs
    <3>11. Copied'
      BY <3>1, <3>2, <3>3, <3>4, <3>5, <3>6 DEF Types, Copied, Whole, Told
    <3>12. Answered'
      BY <3>1, <3>2, <3>3, <3>4, <3>5, <3>6 DEF Types, Answered, Written, Whole,
         Told, Runs, Copied
    <3> QED
      BY <3>7, <3>8, <3>9, <3>10, <3>11, <3>12 DEF IInv
  <2>2. CASE name # NoObject
    <3>1. Types'
      BY <1>2, <2>2 DEF Types, OpenLeader
    <3>2. Runs'
      BY <1>2, <2>2 DEF Types, Runs, OpenLeader
    <3>3. Written'
      BY <1>2, <2>2 DEF Types, Written, Runs, OpenLeader
    <3>4. Whole'
      BY <1>2, <2>2 DEF Types, Whole, Told, Written, Runs, OpenLeader
    <3>5. Copied'
      BY <1>2, <2>2 DEF Types, Copied, Whole, Told, OpenLeader
    <3>6. Answered'
      BY <1>2, <2>2 DEF Types, Answered, Written, Whole, Told, Runs, Copied, OpenLeader
    <3> QED
      BY <3>1, <3>2, <3>3, <3>4, <3>5, <3>6 DEF IInv
  <2> QED
    BY <2>1, <2>2
<1>3. CASE Truncate
  <2> DEFINE o == [objects[lmap] EXCEPT !.sized = TRUE]
  <2>1. objects[lmap] \in Object /\ lmap \in 1 .. Len(objects)
    BY <1>3 DEF Types, Truncate
  <2>2. o \in Object
    BY <2>1 DEF Object, Guard, Types
  <2>3. objects' = [objects EXCEPT ![lmap] = o]
    BY <1>3 DEF Truncate
  <2>4. /\ o.sized = TRUE
        /\ o.write_guard = objects[lmap].write_guard
        /\ o.read_guard = objects[lmap].read_guard
        /\ o.delete_guard = objects[lmap].delete_guard
        /\ o.data = objects[lmap].data
    BY <2>1 DEF Object, Types
  <2> HIDE DEF o
  <2>5. /\ objects' \in Seq(Object) /\ Len(objects') = Len(objects) /\ objects'[lmap] = o
        /\ \A m \in 1 .. Len(objects) : m # lmap => objects'[m] = objects[m]
    BY <2>1, <2>2, <2>3, Update DEF Types
  <2>6. Types'
    BY <2>1, <2>2, <2>5, <2>4, <1>3 DEF Types, Truncate
  <2>7. Runs'
    BY <2>1, <2>2, <2>5, <2>4, <1>3 DEF Types, Runs, Truncate
  <2>8. Written'
    BY <2>1, <2>2, <2>5, <2>4, <1>3 DEF Types, Written, Runs, Truncate
  <2>9. Whole'
    BY <2>1, <2>2, <2>5, <2>4, <1>3 DEF Types, Whole, Told, Written, Runs, Truncate
  <2>10. Copied'
    BY <2>1, <2>2, <2>5, <2>4, <1>3 DEF Types, Copied, Whole, Told, Truncate
  <2>11. Answered'
    BY <2>1, <2>2, <2>5, <2>4, <1>3 DEF Types, Answered, Written, Whole, Told, Runs,
       Copied, Truncate
  <2> QED
    BY <2>6, <2>7, <2>8, <2>9, <2>10, <2>11 DEF IInv
<1>4. CASE ClearWriteGuard
  <2> DEFINE o == [objects[lmap] EXCEPT !.write_guard = 0]
  <2>1. objects[lmap] \in Object /\ lmap \in 1 .. Len(objects)
    BY <1>4 DEF Types, ClearWriteGuard
  <2>2. o \in Object
    BY <2>1 DEF Object, Guard, Types
  <2>3. objects' = [objects EXCEPT ![lmap] = o]
    BY <1>4 DEF ClearWriteGuard
  <2>4. /\ objects' \in Seq(Object) /\ Len(objects') = Len(objects) /\ objects'[lmap] = o
        /\ \A m \in 1 .. Len(objects) : m # lmap => objects'[m] = objects[m]
    BY <2>1, <2>2, <2>3, Update DEF Types
  <2>5. /\ o.sized = objects[lmap].sized
        /\ o.write_guard = 0
        /\ o.read_guard = objects[lmap].read_guard
        /\ o.delete_guard = objects[lmap].delete_guard
        /\ o.data = objects[lmap].data
    BY <2>1 DEF Object
  <2> HIDE DEF o
  <2>6. Types'
    BY <2>1, <2>2, <2>4, <2>5, <1>4 DEF Types, ClearWriteGuard
  <2>7. Runs'
    BY <2>1, <2>2, <2>4, <2>5, <1>4 DEF Types, Runs, ClearWriteGuard
  <2>8. Written'
    BY <2>1, <2>2, <2>4, <2>5, <1>4 DEF Types, Written, Runs, ClearWriteGuard
  <2>9. Whole'
    BY <2>1, <2>2, <2>4, <2>5, <1>4 DEF Types, Whole, Told, Written, Runs,
       ClearWriteGuard
  <2>10. Copied'
    BY <2>1, <2>2, <2>4, <2>5, <1>4 DEF Types, Copied, Whole, Told, ClearWriteGuard
  <2>11. Answered'
    BY <2>1, <2>2, <2>4, <2>5, <1>4 DEF Types, Answered, Written, Whole, Told, Runs,
       Copied, ClearWriteGuard
  <2> QED
    BY <2>6, <2>7, <2>8, <2>9, <2>10, <2>11
<1>5. CASE WaitWriteGuard
  <2>1. Types'
    BY <1>5 DEF Types, WaitWriteGuard
  <2>2. Runs'
    BY <1>5 DEF Types, Runs, WaitWriteGuard
  <2>3. Written'
    BY <1>5 DEF Types, Written, Runs, WaitWriteGuard
  <2>4. Whole'
    BY <1>5 DEF Types, Whole, Told, Written, Runs, WaitWriteGuard
  <2>5. Copied'
    BY <1>5 DEF Types, Copied, Whole, Told, WaitWriteGuard
  <2>6. Answered'
    BY <1>5 DEF Types, Answered, Written, Whole, Told, Runs, Copied, WaitWriteGuard
  <2> QED
    BY <2>1, <2>2, <2>3, <2>4, <2>5, <2>6
<1>6. CASE CopyIn
  <2>1. CASE lpc = "copy1"
    <3> DEFINE o == [objects[lmap] EXCEPT !.data = [@ EXCEPT ![1] = s32local]]
    <3>1. objects[lmap] \in Object /\ lmap \in 1 .. Len(objects)
      BY <1>6, <2>1 DEF Types, CopyIn
    <3>2. o \in Object
      BY <3>1 DEF Object, Guard, Types
    <3>3. objects' = [objects EXCEPT ![lmap] = o]
      BY <1>6, <2>1 DEF CopyIn
    <3>4. /\ o.sized = objects[lmap].sized
          /\ o.write_guard = objects[lmap].write_guard
          /\ o.read_guard = objects[lmap].read_guard
          /\ o.delete_guard = objects[lmap].delete_guard
          /\ o.data[1] = s32local
          /\ o.data[2] = objects[lmap].data[2]
      BY <3>1 DEF Object, Types
    <3> HIDE DEF o
    <3>5. /\ objects' \in Seq(Object) /\ Len(objects') = Len(objects)
          /\ objects'[lmap] = o
          /\ \A m \in 1 .. Len(objects) : m # lmap => objects'[m] = objects[m]
      BY <3>1, <3>2, <3>3, Update DEF Types
    <3>6. /\ lpc' = "copy2"
          /\ UNCHANGED <<name, lmap, s32local, fpc, fmap, got, launches, kills, lost,
                         delivered>>
      BY <1>6, <2>1 DEF CopyIn
    <3>7. Types'
      BY <3>1, <3>2, <3>5, <3>4, <3>6, <2>1 DEF Types
    <3>8. Runs'
      BY <3>1, <3>2, <3>5, <3>4, <3>6, <2>1 DEF Types, Runs
    <3>9. Written'
      BY <3>1, <3>2, <3>5, <3>4, <3>6, <2>1 DEF Types, Written, Runs
    <3>10. Whole'
      BY <3>1, <3>2, <3>5, <3>4, <3>6, <2>1 DEF Types, Whole, Told, Written, Runs
    <3>11. Copied'
      BY <3>1, <3>2, <3>5, <3>4, <3>6, <2>1 DEF Types, Copied, Whole, Told
    <3>12. Answered'
      BY <3>1, <3>2, <3>5, <3>4, <3>6, <2>1 DEF Types, Answered, Written, Whole,
         Told, Runs, Copied
    <3> QED
      BY <3>7, <3>8, <3>9, <3>10, <3>11, <3>12 DEF IInv
  <2>2. CASE lpc = "copy2"
    <3> DEFINE o == [objects[lmap] EXCEPT !.data = [@ EXCEPT ![2] = s32local]]
    <3>1. objects[lmap] \in Object /\ lmap \in 1 .. Len(objects)
      BY <1>6, <2>2 DEF Types, CopyIn
    <3>2. o \in Object
      BY <3>1 DEF Object, Guard, Types
    <3>3. objects' = [objects EXCEPT ![lmap] = o]
      BY <1>6, <2>2 DEF CopyIn
    <3>4. /\ o.sized = objects[lmap].sized
          /\ o.write_guard = objects[lmap].write_guard
          /\ o.read_guard = objects[lmap].read_guard
          /\ o.delete_guard = objects[lmap].delete_guard
          /\ o.data[2] = s32local
          /\ o.data[1] = objects[lmap].data[1]
      BY <3>1 DEF Object, Types
    <3> HIDE DEF o
    <3>5. /\ objects' \in Seq(Object) /\ Len(objects') = Len(objects)
          /\ objects'[lmap] = o
          /\ \A m \in 1 .. Len(objects) : m # lmap => objects'[m] = objects[m]
      BY <3>1, <3>2, <3>3, Update DEF Types
    <3>6. /\ lpc' = "setread"
          /\ UNCHANGED <<name, lmap, s32local, fpc, fmap, got, launches, kills, lost,
                         delivered>>
      BY <1>6, <2>2 DEF CopyIn
    <3>7. Types'
      BY <3>1, <3>2, <3>5, <3>4, <3>6, <2>2 DEF Types
    <3>8. Runs'
      BY <3>1, <3>2, <3>5, <3>4, <3>6, <2>2 DEF Types, Runs
    <3>9. Written'
      BY <3>1, <3>2, <3>5, <3>4, <3>6, <2>2 DEF Types, Written, Runs
    <3>10. Whole'
      BY <3>1, <3>2, <3>5, <3>4, <3>6, <2>2 DEF Types, Whole, Told, Written, Runs
    <3>11. Copied'
      BY <3>1, <3>2, <3>5, <3>4, <3>6, <2>2 DEF Types, Copied, Whole, Told
    <3>12. Answered'
      BY <3>1, <3>2, <3>5, <3>4, <3>6, <2>2 DEF Types, Answered, Written, Whole,
         Told, Runs, Copied
    <3> QED
      BY <3>7, <3>8, <3>9, <3>10, <3>11, <3>12 DEF IInv
  <2> QED
    BY <1>6, <2>1, <2>2 DEF CopyIn
<1>7. CASE SetReadGuard
  <2> DEFINE o == [objects[lmap] EXCEPT !.read_guard = 1]
  <2>1. objects[lmap] \in Object /\ lmap \in 1 .. Len(objects)
    BY <1>7 DEF Types, SetReadGuard
  <2>2. o \in Object
    BY <2>1 DEF Object, Guard, Types
  <2>3. objects' = [objects EXCEPT ![lmap] = o]
    BY <1>7 DEF SetReadGuard
  <2>4. /\ objects' \in Seq(Object) /\ Len(objects') = Len(objects) /\ objects'[lmap] = o
        /\ \A m \in 1 .. Len(objects) : m # lmap => objects'[m] = objects[m]
    BY <2>1, <2>2, <2>3, Update DEF Types
  <2>5. /\ o.sized = objects[lmap].sized
        /\ o.write_guard = objects[lmap].write_guard
        /\ o.read_guard = 1
        /\ o.delete_guard = objects[lmap].delete_guard
        /\ o.data = objects[lmap].data
    BY <2>1 DEF Object
  <2> HIDE DEF o
  <2>6. Types'
    BY <2>1, <2>2, <2>4, <2>5, <1>7 DEF Types, SetReadGuard
  <2>7. Runs'
    BY <2>1, <2>2, <2>4, <2>5, <1>7 DEF Types, Runs, SetReadGuard
  <2>8. Written'
    BY <2>1, <2>2, <2>4, <2>5, <1>7 DEF Types, Written, Runs, SetReadGuard
  <2>9. Whole'
    BY <2>1, <2>2, <2>4, <2>5, <1>7 DEF Types, Whole, Told, Written, Runs, SetReadGuard
  <2>10. Copied'
    BY <2>1, <2>2, <2>4, <2>5, <1>7 DEF Types, Copied, Whole, Told, SetReadGuard
  <2>11. Answered'
    BY <2>1, <2>2, <2>4, <2>5, <1>7 DEF Types, Answered, Written, Whole, Told, Runs,
       Copied, SetReadGuard
  <2> QED
    BY <2>6, <2>7, <2>8, <2>9, <2>10, <2>11
<1>8. CASE ClearDeleteGuard
  <2> DEFINE o == [objects[lmap] EXCEPT !.delete_guard = 0]
  <2>1. objects[lmap] \in Object /\ lmap \in 1 .. Len(objects)
    BY <1>8 DEF Types, ClearDeleteGuard
  <2>2. o \in Object
    BY <2>1 DEF Object, Guard, Types
  <2>3. objects' = [objects EXCEPT ![lmap] = o]
    BY <1>8 DEF ClearDeleteGuard
  <2>4. /\ objects' \in Seq(Object) /\ Len(objects') = Len(objects) /\ objects'[lmap] = o
        /\ \A m \in 1 .. Len(objects) : m # lmap => objects'[m] = objects[m]
    BY <2>1, <2>2, <2>3, Update DEF Types
  <2>5. /\ o.sized = objects[lmap].sized
        /\ o.write_guard = objects[lmap].write_guard
        /\ o.read_guard = objects[lmap].read_guard
        /\ o.delete_guard = 0
        /\ o.data = objects[lmap].data
    BY <2>1 DEF Object
  <2> HIDE DEF o
  <2>6. Types'
    BY <2>1, <2>2, <2>4, <2>5, <1>8 DEF Types, ClearDeleteGuard
  <2>7. Runs'
    BY <2>1, <2>2, <2>4, <2>5, <1>8 DEF Types, Runs, ClearDeleteGuard
  <2>8. Written'
    BY <2>1, <2>2, <2>4, <2>5, <1>8 DEF Types, Written, Runs, ClearDeleteGuard
  <2>9. Whole'
    BY <2>1, <2>2, <2>4, <2>5, <1>8 DEF Types, Whole, Told, Written, Runs,
       ClearDeleteGuard
  <2>10. Copied'
    BY <2>1, <2>2, <2>4, <2>5, <1>8 DEF Types, Copied, Whole, Told, ClearDeleteGuard
  <2>11. Answered'
    BY <2>1, <2>2, <2>4, <2>5, <1>8 DEF Types, Answered, Written, Whole, Told, Runs,
       Copied, ClearDeleteGuard
  <2> QED
    BY <2>6, <2>7, <2>8, <2>9, <2>10, <2>11
<1>9. CASE WaitDeleteGuard
  <2>1. Types'
    BY <1>9 DEF Types, WaitDeleteGuard
  <2>2. Runs'
    BY <1>9 DEF Types, Runs, WaitDeleteGuard
  <2>3. Written'
    BY <1>9 DEF Types, Written, Runs, WaitDeleteGuard
  <2>4. Whole'
    BY <1>9 DEF Types, Whole, Told, Written, Runs, WaitDeleteGuard
  <2>5. Copied'
    BY <1>9 DEF Types, Copied, Whole, Told, WaitDeleteGuard
  <2>6. objects[lmap].delete_guard = 1
    <3>1. objects[lmap] \in Object
      BY <1>9 DEF WaitDeleteGuard, Types
    <3>2. objects[lmap].delete_guard \in Guard
      BY <3>1 DEF Object
    <3> QED
      BY <1>9, <3>2 DEF WaitDeleteGuard, Guard
  <2>7. Answered'
    BY <1>9, <2>6 DEF Types, Answered, Written, Whole, Told, Runs, Copied,
       WaitDeleteGuard
  <2> QED
    BY <2>1, <2>2, <2>3, <2>4, <2>5, <2>7
<1>10. CASE UnlinkLeader
  <2>1. Types'
    BY <1>10 DEF Types, UnlinkLeader
  <2>2. Runs'
    BY <1>10 DEF Types, Runs, UnlinkLeader
  <2>3. Written'
    BY <1>10 DEF Types, Written, Runs, UnlinkLeader
  <2>4. Whole'
    BY <1>10 DEF Types, Whole, Told, Written, Runs, UnlinkLeader
  <2>5. Copied'
    BY <1>10 DEF Types, Copied, Whole, Told, UnlinkLeader
  <2>6. Answered'
    BY <1>10 DEF Types, Answered, Written, Whole, Told, Runs, Copied, UnlinkLeader
  <2> QED
    BY <2>1, <2>2, <2>3, <2>4, <2>5, <2>6
<1>11. CASE LaunchFollower
  <2>1. Types'
    BY <1>11 DEF Types, LaunchFollower
  <2>2. Runs'
    BY <1>11 DEF Types, Runs, LaunchFollower
  <2>3. Written'
    BY <1>11 DEF Types, Written, Runs, LaunchFollower
  <2>4. Whole'
    BY <1>11 DEF Types, Whole, Told, Written, Runs, LaunchFollower
  <2>5. Copied'
    BY <1>11 DEF Types, Copied, Whole, Told, LaunchFollower
  <2>6. Answered'
    BY <1>11 DEF Types, Answered, Written, Whole, Told, Runs, Copied, LaunchFollower
  <2> QED
    BY <2>1, <2>2, <2>3, <2>4, <2>5, <2>6
<1>12. CASE OpenFollower
  <2>1. Types'
    BY <1>12 DEF Types, OpenFollower
  <2>2. Runs'
    BY <1>12 DEF Types, Runs, OpenFollower
  <2>3. Written'
    BY <1>12 DEF Types, Written, Runs, OpenFollower
  <2>4. Whole'
    BY <1>12 DEF Types, Whole, Told, Written, Runs, OpenFollower
  <2>5. Copied'
    BY <1>12 DEF Types, Copied, Whole, Told, OpenFollower
  <2>6. Answered'
    BY <1>12 DEF Types, Answered, Written, Whole, Told, Runs, Copied, OpenFollower
  <2> QED
    BY <2>1, <2>2, <2>3, <2>4, <2>5, <2>6
<1>13. CASE SetWriteGuard
  <2>1. CASE objects[fmap].sized
    <3> DEFINE o == [objects[fmap] EXCEPT !.write_guard = 1]
    <3>1. objects[fmap] \in Object /\ fmap \in 1 .. Len(objects)
      BY <1>13, <2>1 DEF Types, SetWriteGuard
    <3>2. o \in Object
      BY <3>1 DEF Object, Guard, Types
    <3>3. objects' = [objects EXCEPT ![fmap] = o]
      BY <1>13, <2>1 DEF SetWriteGuard
    <3>4. /\ o.sized = objects[fmap].sized
          /\ o.write_guard = 1
          /\ o.read_guard = objects[fmap].read_guard
          /\ o.delete_guard = objects[fmap].delete_guard
          /\ o.data = objects[fmap].data
      BY <3>1 DEF Object, Types
    <3> HIDE DEF o
    <3>5. /\ objects' \in Seq(Object) /\ Len(objects') = Len(objects)
          /\ objects'[fmap] = o
          /\ \A m \in 1 .. Len(objects) : m # fmap => objects'[m] = objects[m]
      BY <3>1, <3>2, <3>3, Update DEF Types
    <3>6. Types'
      BY <3>1, <3>2, <3>5, <3>4, <1>13, <2>1 DEF Types, SetWriteGuard
    <3>7. Runs'
      BY <3>1, <3>2, <3>5, <3>4, <1>13, <2>1 DEF Types, Runs, SetWriteGuard
    <3>8. Written'
      BY <3>1, <3>2, <3>5, <3>4, <1>13, <2>1 DEF Types, Written, Runs, SetWriteGuard
    <3>9. Whole'
      BY <3>1, <3>2, <3>5, <3>4, <1>13, <2>1 DEF Types, Whole, Told, Written, Runs,
         SetWriteGuard
    <3>10. Copied'
      BY <3>1, <3>2, <3>5, <3>4, <1>13, <2>1 DEF Types, Copied, Whole, Told,
         SetWriteGuard
    <3>11. Answered'
      BY <3>1, <3>2, <3>5, <3>4, <1>13, <2>1 DEF Types, Answered, Written, Whole,
         Told, Runs, Copied, SetWriteGuard
    <3> QED
      BY <3>6, <3>7, <3>8, <3>9, <3>10, <3>11 DEF IInv
  <2>2. CASE ~objects[fmap].sized
    <3>1. Types'
      BY <1>13, <2>2 DEF Types, SetWriteGuard
    <3>2. Runs'
      BY <1>13, <2>2 DEF Types, Runs, SetWriteGuard
    <3>3. Written'
      BY <1>13, <2>2 DEF Types, Written, Runs, SetWriteGuard
    <3>4. Whole'
      BY <1>13, <2>2 DEF Types, Whole, Told, Written, Runs, SetWriteGuard
    <3>5. Copied'
      BY <1>13, <2>2 DEF Types, Copied, Whole, Told, SetWriteGuard
    <3>6. Answered'
      BY <1>13, <2>2 DEF Types, Answered, Written, Whole, Told, Runs, Copied,
         SetWriteGuard
    <3> QED
      BY <3>1, <3>2, <3>3, <3>4, <3>5, <3>6 DEF IInv
  <2> QED
    BY <2>1, <2>2
<1>14. CASE ClearReadGuard
  <2> DEFINE o == [objects[fmap] EXCEPT !.read_guard = 0]
  <2>1. objects[fmap] \in Object /\ fmap \in 1 .. Len(objects)
    BY <1>14 DEF Types, ClearReadGuard
  <2>2. o \in Object
    BY <2>1 DEF Object, Guard, Types
  <2>3. objects' = [objects EXCEPT ![fmap] = o]
    BY <1>14 DEF ClearReadGuard
  <2>4. /\ objects' \in Seq(Object) /\ Len(objects') = Len(objects) /\ objects'[fmap] = o
        /\ \A m \in 1 .. Len(objects) : m # fmap => objects'[m] = objects[m]
    BY <2>1, <2>2, <2>3, Update DEF Types
  <2>5. /\ o.sized = objects[fmap].sized
        /\ o.write_guard = objects[fmap].write_guard
        /\ o.read_guard = 0
        /\ o.delete_guard = objects[fmap].delete_guard
        /\ o.data = objects[fmap].data
    BY <2>1 DEF Object
  <2> HIDE DEF o
  <2>6. Types'
    BY <2>1, <2>2, <2>4, <2>5, <1>14 DEF Types, ClearReadGuard
  <2>7. Runs'
    BY <2>1, <2>2, <2>4, <2>5, <1>14 DEF Types, Runs, ClearReadGuard
  <2>8. Written'
    BY <2>1, <2>2, <2>4, <2>5, <1>14 DEF Types, Written, Runs, ClearReadGuard
  <2>9. Whole'
    BY <2>1, <2>2, <2>4, <2>5, <1>14 DEF Types, Whole, Told, Written, Runs,
       ClearReadGuard
  <2>10. Copied'
    BY <2>1, <2>2, <2>4, <2>5, <1>14 DEF Types, Copied, Whole, Told, ClearReadGuard
  <2>11. Answered'
    BY <2>1, <2>2, <2>4, <2>5, <1>14 DEF Types, Answered, Written, Whole, Told, Runs,
       Copied, ClearReadGuard
  <2> QED
    BY <2>6, <2>7, <2>8, <2>9, <2>10, <2>11
<1>15. CASE WaitReadGuard
  <2>1. Types'
    BY <1>15 DEF Types, WaitReadGuard
  <2>2. Runs'
    BY <1>15 DEF Types, Runs, WaitReadGuard
  <2>3. Written'
    BY <1>15 DEF Types, Written, Runs, WaitReadGuard
  <2>4. objects[fmap].read_guard = 1
    <3>1. objects[fmap] \in Object
      BY <1>15 DEF WaitReadGuard, Types
    <3>2. objects[fmap].read_guard \in Guard
      BY <3>1 DEF Object
    <3> QED
      BY <1>15, <3>2 DEF WaitReadGuard, Guard
  <2>5. Whole'
    BY <1>15, <2>4 DEF Types, Whole, Told, Written, Runs, WaitReadGuard
  <2>6. Copied'
    BY <1>15 DEF Types, Copied, Whole, Told, WaitReadGuard
  <2>7. Answered'
    BY <1>15 DEF Types, Answered, Written, Whole, Told, Runs, Copied, WaitReadGuard
  <2> QED
    BY <2>1, <2>2, <2>3, <2>5, <2>6, <2>7
<1>16. CASE CopyOut
  <2>1. CASE fpc = "copy1"
    <3>1. /\ fpc' = "copy2" /\ got' = [got EXCEPT ![1] = objects[fmap].data[1]]
          /\ delivered' = delivered
      BY <1>16, <2>1 DEF CopyOut, Types
    <3>2. objects[fmap] \in Object /\ fmap \in 1 .. Len(objects)
      BY <2>1 DEF Types
    <3>3. objects[fmap].data[1] \in Nat /\ objects[fmap].data[2] \in Nat
      BY <3>2 DEF Object
    <3>4. /\ got' \in [{1, 2} -> Nat] /\ got'[1] = objects[fmap].data[1]
          /\ got'[2] = got[2]
      BY <3>1, <3>3 DEF Types
    <3>5. UNCHANGED <<name, objects, lpc, lmap, s32local, fmap, launches, kills, lost>>
      BY <1>16 DEF CopyOut
    <3>6. Types'
      BY <3>1, <3>2, <3>3, <3>4, <3>5, <2>1 DEF Types
    <3>7. Runs'
      BY <3>1, <3>2, <3>3, <3>4, <3>5, <2>1 DEF Types, Runs
    <3>8. Written'
      BY <3>1, <3>2, <3>3, <3>4, <3>5, <2>1 DEF Types, Written, Runs
    <3>9. Whole'
      BY <3>1, <3>2, <3>3, <3>4, <3>5, <2>1 DEF Types, Whole, Told, Written, Runs
    <3>10. Copied'
      BY <3>1, <3>2, <3>3, <3>4, <3>5, <2>1 DEF Types, Copied, Whole, Told
    <3>11. Answered'
      BY <3>1, <3>2, <3>3, <3>4, <3>5, <2>1 DEF Types, Answered, Written, Whole,
         Told, Runs, Copied
    <3> QED
      BY <3>6, <3>7, <3>8, <3>9, <3>10, <3>11 DEF IInv
  <2>2. CASE fpc = "copy2"
    <3>1. /\ fpc' = "setdelete" /\ got' = [got EXCEPT ![2] = objects[fmap].data[2]]
          /\ delivered' = delivered \cup {objects[fmap].data[2]}
      BY <1>16, <2>2 DEF CopyOut, Types
    <3>2. objects[fmap] \in Object /\ fmap \in 1 .. Len(objects)
      BY <2>2 DEF Types
    <3>3. objects[fmap].data[1] \in Nat /\ objects[fmap].data[2] \in Nat
      BY <3>2 DEF Object
    <3>4. /\ got' \in [{1, 2} -> Nat] /\ got'[2] = objects[fmap].data[2]
          /\ got'[1] = got[1]
      BY <3>1, <3>3 DEF Types
    <3>5. UNCHANGED <<name, objects, lpc, lmap, s32local, fmap, launches, kills, lost>>
      BY <1>16 DEF CopyOut
    <3>6. Types'
      BY <3>1, <3>2, <3>3, <3>4, <3>5, <2>2 DEF Types
    <3>7. objects[fmap].data[2] \in 1 .. launches.leader
      BY <3>2, <3>3, <2>2 DEF Runs, Whole, Told
    <3>8. Runs'
      BY <3>1, <3>2, <3>3, <3>4, <3>5, <3>7, <2>2 DEF Types, Runs
    <3>9. Written'
      BY <3>1, <3>2, <3>3, <3>4, <3>5, <2>2 DEF Types, Written, Runs
    <3>10. Whole'
      BY <3>1, <3>2, <3>3, <3>4, <3>5, <2>2 DEF Types, Whole, Told, Written, Runs
    <3>11. Copied'
      BY <3>1, <3>2, <3>3, <3>4, <3>5, <2>2 DEF Types, Copied, Whole, Told
    <3>12. Answered'
      BY <3>1, <3>2, <3>3, <3>4, <3>5, <2>2 DEF Types, Answered, Written, Whole,
         Told, Runs, Copied
    <3> QED
      BY <3>6, <3>8, <3>9, <3>10, <3>11, <3>12 DEF IInv
  <2> QED
    BY <1>16, <2>1, <2>2 DEF CopyOut
<1>17. CASE SetDeleteGuard
  <2> DEFINE o == [objects[fmap] EXCEPT !.delete_guard = 1]
  <2>1. objects[fmap] \in Object /\ fmap \in 1 .. Len(objects)
    BY <1>17 DEF Types, SetDeleteGuard
  <2>2. o \in Object
    BY <2>1 DEF Object, Guard, Types
  <2>3. objects' = [objects EXCEPT ![fmap] = o]
    BY <1>17 DEF SetDeleteGuard
  <2>4. /\ objects' \in Seq(Object) /\ Len(objects') = Len(objects) /\ objects'[fmap] = o
        /\ \A m \in 1 .. Len(objects) : m # fmap => objects'[m] = objects[m]
    BY <2>1, <2>2, <2>3, Update DEF Types
  <2>5. /\ o.sized = objects[fmap].sized
        /\ o.write_guard = objects[fmap].write_guard
        /\ o.read_guard = objects[fmap].read_guard
        /\ o.delete_guard = 1
        /\ o.data = objects[fmap].data
    BY <2>1 DEF Object
  <2> HIDE DEF o
  <2>6. Types'
    BY <2>1, <2>2, <2>4, <2>5, <1>17 DEF Types, SetDeleteGuard
  <2>7. Runs'
    BY <2>1, <2>2, <2>4, <2>5, <1>17 DEF Types, Runs, SetDeleteGuard
  <2>8. Written'
    BY <2>1, <2>2, <2>4, <2>5, <1>17 DEF Types, Written, Runs, SetDeleteGuard
  <2>9. Whole'
    BY <2>1, <2>2, <2>4, <2>5, <1>17 DEF Types, Whole, Told, Written, Runs,
       SetDeleteGuard
  <2>10. Copied'
    BY <2>1, <2>2, <2>4, <2>5, <1>17 DEF Types, Copied, Whole, Told, SetDeleteGuard
  <2>11. Answered'
    BY <2>1, <2>2, <2>4, <2>5, <1>17 DEF Types, Answered, Written, Whole, Told, Runs,
       Copied, SetDeleteGuard
  <2> QED
    BY <2>6, <2>7, <2>8, <2>9, <2>10, <2>11
<1>18. CASE UnlinkFollower
  <2>1. Types'
    BY <1>18 DEF Types, UnlinkFollower
  <2>2. Runs'
    BY <1>18 DEF Types, Runs, UnlinkFollower
  <2>3. Written'
    BY <1>18 DEF Types, Written, Runs, UnlinkFollower
  <2>4. Whole'
    BY <1>18 DEF Types, Whole, Told, Written, Runs, UnlinkFollower
  <2>5. Copied'
    BY <1>18 DEF Types, Copied, Whole, Told, UnlinkFollower
  <2>6. Answered'
    BY <1>18 DEF Types, Answered, Written, Whole, Told, Runs, Copied, UnlinkFollower
  <2> QED
    BY <2>1, <2>2, <2>3, <2>4, <2>5, <2>6
<1>19. CASE Kill
  <2>1. Types'
    BY <1>19 DEF Types, Kill
  <2>2. Runs'
    BY <1>19 DEF Types, Runs, Kill
  <2>3. Written'
    BY <1>19 DEF Types, Written, Runs, Kill
  <2>4. Whole'
    BY <1>19 DEF Types, Whole, Told, Written, Runs, Kill
  <2>5. Copied'
    BY <1>19 DEF Types, Copied, Whole, Told, Kill
  <2>6. Answered'
    BY <1>19 DEF Types, Answered, Written, Whole, Told, Runs, Copied, Kill
  <2> QED
    BY <2>1, <2>2, <2>3, <2>4, <2>5, <2>6
<1>20. CASE UNCHANGED vars
  BY <1>20 DEF vars, Types, Runs, Written, Whole, Told, 
     Copied, Answered
<1> QED
  BY <1>1, <1>2, <1>3, <1>4, <1>5, <1>6, <1>7, <1>8, <1>9, <1>10, <1>11, <1>12,
     <1>13, <1>14, <1>15, <1>16, <1>17, <1>18, <1>19, <1>20 DEF Next, Leader, Follower

LEMMA InvTells == IInv => Safety /\ LeaderLeavesAfterCopy
<1> SUFFICES ASSUME IInv PROVE Safety /\ LeaderLeavesAfterCopy
  OBVIOUS
<1>1. TypeOK
  <2>1. Len(objects) \in Nat /\ launches.leader \in Nat
    BY DEF IInv, Types
  <2>2. Len(objects) <= MaxLaunch
    BY <2>1, BoundAssumption DEF IInv, Runs
  <2> QED
    BY <2>2 DEF IInv, Types, Runs, TypeOK
<1>2. CopyIsWhole
  BY DEF IInv, Copied, CopyIsWhole
<1>3. LeaderLeavesAfterCopy
  BY DEF IInv, Answered, LeaderLeavesAfterCopy
<1> QED
  BY <1>1, <1>2, <1>3 DEF Safety

LEMMA Invariance == Spec => []IInv
  BY InitInv, StepInv, PTL DEF Spec

(***************************************************************************)
(* Both programs access the object they have mapped, and an array that a   *)
(* follower has copied out is one run's array, whole: however often either *)
(* is killed and started again.  It holds without fairness, and so of      *)
(* FairSpec as well.                                                       *)
(***************************************************************************)
THEOREM SafetyHolds == Spec => []Safety
  BY Invariance, InvTells, PTL

(***************************************************************************)
(* No run of the leader removes its object before its own array has been   *)
(* copied out, whatever earlier runs have left in delete_guard.            *)
(***************************************************************************)
THEOREM LeaderLeavesAfterCopyHolds == Spec => []LeaderLeavesAfterCopy
  BY Invariance, InvTells, PTL
=============================================================================
