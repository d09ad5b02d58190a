------------------------- MODULE PersistStoreProofs -------------------------
(***************************************************************************)
(* PersistStore implements DurableStore, and a saving call that succeeds   *)
(* has its change in the file: for every set of handlers, with failing     *)
(* writes, kills, shutdown and roll-backs.                                 *)
(***************************************************************************)
EXTENDS PersistStore, TLAPS

Types ==
    /\ mem \in Nat /\ disk \in Nat /\ tmp \in Nat
    /\ pc \in [Flushers -> Stages]
    /\ snap \in [Flushers -> Nat]
    /\ wrote \in [Flushers -> Nat]

(* The file is never ahead of memory.                                      *)
Behind == disk <= mem

(* Only the holder of writeMu is between Lock and Unlock.                  *)
OneWriter == \A f \in Flushers : pc[f] \in Holding => writeMu = f

(* What is about to be written is newer than the file and was in memory;   *)
(* the temp file about to be renamed is the writer's own.                  *)
SnapshotsFresh ==
    \A f \in Flushers :
        /\ pc[f] \in {"write", "rename"} => disk <= snap[f] /\ snap[f] <= mem
        /\ pc[f] = "rename" => tmp = snap[f]

(* A saving call's change travels from memory to snapshot to file.         *)
OwnChangeCarried ==
    \A h \in Handlers :
        /\ pc[h] \in {"clear", "lock", "snapshot"} => wrote[h] <= mem
        /\ pc[h] \in {"write", "rename"} => wrote[h] <= snap[h]
        /\ pc[h] = "saved" => wrote[h] <= disk
        /\ pc[h] \in {"idle", "busy", "mark", "undo"} => wrote[h] = 0

IInv == Types /\ Behind /\ OneWriter /\ SnapshotsFresh /\ OwnChangeCarried

LEMMA LoopIsNoHandler ==
    /\ Loop \in Flushers /\ Handlers \subseteq Flushers
    /\ Loop \notin Handlers /\ NoOne \notin Flushers
BY HandlersAssumption DEF Flushers

LEMMA InitInv == Init => IInv
BY LoopIsNoHandler DEF Init, IInv, Types, Behind, OneWriter, SnapshotsFresh,
   OwnChangeCarried, Stages, Holding

(* A handler's move outside a flush: file, temp file and lock are left     *)
(* alone, memory does not go back, its own change is carried along.        *)
LEMMA MoveInv ==
    ASSUME IInv, NEW h \in Handlers, NEW s \in Stages \ Holding, Goto(h, s),
           pc[h] \notin Holding, mem' \in {mem, mem + 1},
           UNCHANGED <<disk, tmp, writeMu, snap>>,
           wrote' \in [Flushers -> Nat],
           \A g \in Handlers : g # h => wrote'[g] = wrote[g],
           s \in {"clear", "lock"} => wrote'[h] <= mem',
           s \in {"idle", "busy", "mark", "undo"} => wrote'[h] = 0
    PROVE  IInv'
<1>1. h \in Flushers /\ mem' \in Nat /\ mem <= mem'
  BY LoopIsNoHandler DEF IInv, Types
<1>2. /\ pc' \in [Flushers -> Stages]
      /\ pc'[h] = s
      /\ \A g \in Flushers \ {h} : pc'[g] = pc[g]
  BY <1>1 DEF Goto, IInv, Types
<1>3. Types' /\ Behind'
  BY <1>1, <1>2 DEF IInv, Types, Behind
<1>4. OneWriter'
  BY <1>2 DEF IInv, OneWriter
<1>5. SnapshotsFresh'
  <2> SUFFICES ASSUME NEW f \in Flushers PROVE SnapshotsFresh!(f)'
    BY DEF SnapshotsFresh
  <2>1. SnapshotsFresh!(f) /\ disk \in Nat /\ snap[f] \in Nat /\ mem \in Nat
    BY DEF IInv, Types, SnapshotsFresh
  <2>2. CASE f = h
    BY <1>2, <2>2 DEF Stages, Holding
  <2>3. CASE f # h
    BY <1>1, <1>2, <2>1, <2>3
  <2> QED
    BY <2>2, <2>3
<1>6. OwnChangeCarried'
  <2> SUFFICES ASSUME NEW g \in Handlers PROVE OwnChangeCarried!(g)'
    BY DEF OwnChangeCarried
  <2>1. /\ OwnChangeCarried!(g) /\ g \in Flushers
        /\ wrote[g] \in Nat /\ mem \in Nat
    BY LoopIsNoHandler DEF IInv, Types, OwnChangeCarried
  <2>2. CASE g = h
    BY <1>2, <2>2 DEF Stages, Holding
  <2>3. CASE g # h
    BY <1>1, <1>2, <2>1, <2>3
  <2> QED
    BY <2>2, <2>3
<1> QED
  BY <1>3, <1>4, <1>5, <1>6 DEF IInv

LEMMA HandlerStepInv ==
    ASSUME IInv, NEW h \in Handlers, Arrive(h) \/ HandlerStep(h)
    PROVE  IInv' /\ disk' = disk /\ (mem' = mem \/ mem' = mem + 1)
<1> DEFINE Own == /\ h \in Flushers /\ mem \in Nat /\ wrote \in [Flushers -> Nat]
                  /\ OwnChangeCarried!(h)
<1>0. Own
  BY LoopIsNoHandler DEF IInv, Types, OwnChangeCarried
<1> HIDE DEF Own
<1>1. CASE Arrive(h)
  BY <1>0, <1>1, MoveInv DEF Own, Arrive, Stages, Holding
<1>2. CASE Change(h)
  BY <1>0, <1>2, MoveInv DEF Own, Change, Changed, Stages, Holding
<1>3. CASE Touch(h)
  BY <1>0, <1>3, MoveInv DEF Own, Touch, Changed, Stages, Holding
<1>4. CASE Mark(h)
  BY <1>0, <1>4, MoveInv DEF Own, Mark, Stages, Holding
<1>5. CASE SaveNow(h)
  <2>1. /\ wrote' \in [Flushers -> Nat]
        /\ wrote'[h] = mem'
        /\ \A g \in Handlers : g # h => wrote'[g] = wrote[g]
    BY <1>0, <1>5, LoopIsNoHandler DEF Own, SaveNow, Changed
  <2>2. mem' = mem + 1 /\ mem' \in Nat
    BY <1>0, <1>5 DEF Own, SaveNow, Changed
  <2> QED
    BY <1>5, <2>1, <2>2, MoveInv DEF SaveNow, Stages, Holding
<1>6. CASE ClearDirty(h)
  BY <1>0, <1>6, MoveInv DEF Own, ClearDirty, Stages, Holding
<1>7. CASE Undo(h)
  BY <1>0, <1>7, MoveInv DEF Own, Undo, Changed, Stages, Holding
<1> QED
  BY <1>1, <1>2, <1>3, <1>4, <1>5, <1>6, <1>7 DEF HandlerStep

LEMMA LoopStepInv ==
    ASSUME IInv, LoopStep
    PROVE  IInv' /\ disk' = disk /\ mem' = mem
<1> USE LoopIsNoHandler DEF IInv, Types, Behind, OneWriter, SnapshotsFresh,
        OwnChangeCarried, Goto, Stages, Holding
<1>1. CASE Tick
  BY <1>1 DEF Tick
<1>2. CASE LastTick
  BY <1>2 DEF LastTick
<1>3. CASE FlushPending
  BY <1>3 DEF FlushPending
<1>4. CASE PassOver
  BY <1>4 DEF PassOver
<1> QED
  BY <1>1, <1>2, <1>3, <1>4 DEF LoopStep

LEMMA FlushStepInv ==
    ASSUME IInv, NEW f \in Flushers, FlushStep(f)
    PROVE  IInv' /\ mem' = mem /\ (disk' = disk \/ disk' \in (disk + 1) .. mem)
<1> USE LoopIsNoHandler DEF IInv, Types, Behind, OneWriter, SnapshotsFresh,
        OwnChangeCarried, Goto, Stages, Holding
<1>1. CASE Lock(f)
  BY <1>1 DEF Lock
<1>2. CASE Snapshot(f)
  BY <1>2 DEF Snapshot
<1>3. CASE WriteTemp(f)
  BY <1>3 DEF WriteTemp
<1>4. CASE Rename(f)
  <2>1. disk <= tmp /\ tmp <= mem /\ tmp = snap[f]
    BY <1>4 DEF Rename
  <2>2. disk' = disk \/ disk' \in (disk + 1) .. mem
    BY <1>4, <2>1 DEF Rename
  <2>3. \A g \in Flushers : g # f => pc[g] \notin Holding
    BY <1>4 DEF Rename
  <2> QED
    BY <1>4, <2>1, <2>2, <2>3 DEF Rename
<1>5. CASE Saved(f)
  BY <1>5 DEF Saved, Release, Resume
<1>6. CASE Failed(f)
  BY <1>6 DEF Failed, Release, Resume
<1> QED
  BY <1>1, <1>2, <1>3, <1>4, <1>5, <1>6 DEF FlushStep

(* Every step keeps the invariant and is, for memory and file, a step of   *)
(* the abstract store or none.                                             *)
LEMMA StepInv ==
    ASSUME IInv, [Next]_vars
    PROVE  /\ IInv'
           /\ [Abstract!Change \/ Abstract!Persist \/ Abstract!Reload]_(Abstract!store)
<1> USE DEF Abstract!Change, Abstract!Persist, Abstract!Reload, Abstract!store
<1>1. ASSUME NEW h \in Handlers, Arrive(h) \/ HandlerStep(h) PROVE
          IInv' /\ (Abstract!Change \/ UNCHANGED <<mem, disk>>)
  BY <1>1, HandlerStepInv
<1>2. ASSUME LoopStep PROVE IInv' /\ UNCHANGED <<mem, disk>>
  BY <1>2, LoopStepInv
<1>3. ASSUME NEW f \in Flushers, FlushStep(f) PROVE
          IInv' /\ (Abstract!Persist \/ UNCHANGED <<mem, disk>>)
  BY <1>3, FlushStepInv
<1>4. ASSUME Shutdown PROVE IInv' /\ UNCHANGED <<mem, disk>>
  BY <1>4 DEF Shutdown, IInv, Types, Behind, OneWriter, SnapshotsFresh, OwnChangeCarried
<1>5. ASSUME Restart PROVE IInv' /\ Abstract!Reload
  BY <1>5, LoopIsNoHandler DEF Restart, IInv, Types, Behind, OneWriter,
     SnapshotsFresh, OwnChangeCarried, Stages, Holding
<1>6. ASSUME UNCHANGED vars PROVE IInv' /\ UNCHANGED <<mem, disk>>
  BY <1>6 DEF vars, IInv, Types, Behind, OneWriter, SnapshotsFresh, OwnChangeCarried
<1> QED
  BY <1>1, <1>2, <1>3, <1>4, <1>5, <1>6 DEF Next, Running

(* The file follows memory: it only moves forward, to contents memory has  *)
(* really held, and a restart resumes from it.                             *)
THEOREM Refinement == Spec => FileFollowsMemory
<1>1. Init => Abstract!Init
  BY DEF Init, Abstract!Init
<1> QED
  BY <1>1, InitInv, StepInv, PTL DEF Spec, FileFollowsMemory, Abstract!Spec

(* A create, revoke, delete or update of an API key that returns success   *)
(* is in the file, whichever flushes ran meanwhile.                        *)
THEOREM AcknowledgedIsDurable == Spec => []AckedIsDurable
<1>1. IInv => AckedIsDurable
  BY DEF IInv, OwnChangeCarried, AckedIsDurable
<1> QED
  BY <1>1, InitInv, StepInv, PTL DEF Spec

-----------------------------------------------------------------------------
(* Whoever still has memory's contents on his hands: he will snapshot the  *)
(* store or mark it, or what he writes is what memory holds.               *)
Carries(f) ==
    \/ pc[f] \in {"mark", "clear", "lock", "snapshot", "failed"}
    \/ pc[f] \in {"write", "rename"} /\ snap[f] = mem

(* A step that sets the flag, leaves a carrier, or leaves memory equal to  *)
(* the file or to a roll-back, loses nothing.                              *)
LEMMA NotLost ==
    ASSUME \/ dirty'
           \/ \E f \in Flushers : Carries(f)'
           \/ mem' = undone'
           \/ disk' = mem' /\ mem' \in Nat
    PROVE  NoLostUpdate'
BY DEF NoLostUpdate, Carries

(* A carrier that a step does not touch still carries.                     *)
LEMMA CarriersStay ==
    ASSUME IInv, NoLostUpdate, NEW f \in Flushers,
           UNCHANGED <<mem, disk, undone>>, dirty => dirty' \/ Carries(f)',
           \A g \in Flushers \ {f} : pc'[g] = pc[g] /\ snap'[g] = snap[g],
           Carries(f) => Carries(f)' \/ dirty'
    PROVE  NoLostUpdate'
BY DEF NoLostUpdate, Carries

LEMMA HandlerLosesNothing ==
    ASSUME IInv, NoLostUpdate, NEW h \in Handlers, Arrive(h) \/ HandlerStep(h)
    PROVE  NoLostUpdate'
<1>0. h \in Flushers /\ pc \in [Flushers -> Stages] /\ mem \in Nat
  BY LoopIsNoHandler DEF IInv, Types
<1>1. CASE Arrive(h)
  BY <1>0, <1>1, CarriersStay DEF Arrive, Goto, Carries
<1>2. CASE Change(h)
  BY <1>2, NotLost DEF Change, Marked
<1>3. CASE Touch(h)
  BY <1>0, <1>3, NotLost DEF Touch, Goto, Carries
<1>4. CASE Mark(h)
  BY <1>4, NotLost DEF Mark, Marked
<1>5. CASE SaveNow(h)
  BY <1>0, <1>5, NotLost DEF SaveNow, Goto, Carries
<1>6. CASE ClearDirty(h)
  BY <1>0, <1>6, NotLost DEF ClearDirty, Goto, Carries
<1>7. CASE Undo(h)
  BY <1>7, NotLost DEF Undo
<1> QED
  BY <1>1, <1>2, <1>3, <1>4, <1>5, <1>6, <1>7 DEF HandlerStep

LEMMA LoopLosesNothing ==
    ASSUME IInv, NoLostUpdate, LoopStep
    PROVE  NoLostUpdate'
<1>0. Loop \in Flushers /\ pc \in [Flushers -> Stages]
  BY LoopIsNoHandler DEF IInv, Types
<1>1. CASE Tick
  BY <1>0, <1>1, CarriersStay DEF Tick, Goto, Carries
<1>2. CASE LastTick
  BY <1>0, <1>2, CarriersStay DEF LastTick, Goto, Carries
<1>3. CASE FlushPending
  BY <1>0, <1>3, CarriersStay DEF FlushPending, Goto, Carries
<1>4. CASE PassOver
  BY <1>0, <1>4, CarriersStay DEF PassOver, Goto, Carries
<1> QED
  BY <1>1, <1>2, <1>3, <1>4 DEF LoopStep

LEMMA FlushLosesNothing ==
    ASSUME IInv, NoLostUpdate, NEW f \in Flushers, FlushStep(f)
    PROVE  NoLostUpdate'
<1>0. /\ pc \in [Flushers -> Stages] /\ snap \in [Flushers -> Nat]
      /\ mem \in Nat
  BY DEF IInv, Types
<1>1. CASE Lock(f)
  BY <1>0, <1>1, CarriersStay DEF Lock, Goto, Carries
<1>2. CASE Snapshot(f)
  BY <1>0, <1>2, NotLost DEF Snapshot, Goto, Carries
<1>3. CASE WriteTemp(f)
  BY <1>0, <1>3, CarriersStay DEF WriteTemp, Goto, Carries
<1>4. CASE Rename(f)
  <2>1. CASE disk' = disk /\ pc'[f] = "failed"
    BY <1>4, <2>1, NotLost DEF Carries
  <2>2. CASE disk' = tmp /\ Goto(f, "saved")
    <3>1. tmp = snap[f] /\ pc[f] = "rename" /\ disk <= snap[f] /\ disk \in Nat
      BY <1>4 DEF Rename, IInv, SnapshotsFresh, Types
    <3>2. CASE snap[f] = mem
      BY <1>0, <1>4, <2>2, <3>1, <3>2, NotLost DEF Rename
    <3>3. CASE snap[f] # mem
      <4>1. ~ Carries(f)
        BY <3>1, <3>3 DEF Carries
      <4>2. snap[f] <= mem
        BY <3>1 DEF IInv, SnapshotsFresh
      <4>3. disk' < mem' => disk < mem
        BY <1>0, <1>4, <2>2, <3>1, <4>2 DEF Rename
      <4>4. /\ UNCHANGED <<mem, dirty, snap, undone>>
            /\ \A g \in Flushers \ {f} : pc'[g] = pc[g]
        BY <1>0, <1>4, <2>2 DEF Rename, Goto
      <4> QED
        BY <4>1, <4>3, <4>4 DEF NoLostUpdate, Carries
    <3> QED
      BY <3>2, <3>3
  <2> QED
    BY <1>0, <1>4, <2>1, <2>2 DEF Rename, Goto
<1>5. CASE Saved(f)
  BY <1>0, <1>5, CarriersStay DEF Saved, Release, Resume, Goto, Carries
<1>6. CASE Failed(f)
  BY <1>6, NotLost DEF Failed
<1> QED
  BY <1>1, <1>2, <1>3, <1>4, <1>5, <1>6 DEF FlushStep

LEMMA NothingLost ==
    ASSUME IInv, NoLostUpdate, [Next]_vars
    PROVE  NoLostUpdate'
<1>1. CASE Shutdown
  BY <1>1 DEF Shutdown, NoLostUpdate
<1>2. CASE Restart
  <2>1. disk' = mem' /\ mem' \in Nat
    BY <1>2 DEF Restart, IInv, Types
  <2> QED
    BY <2>1, NotLost
<1>3. CASE UNCHANGED vars
  BY <1>3 DEF vars, NoLostUpdate
<1> QED
  BY <1>1, <1>2, <1>3, HandlerLosesNothing, LoopLosesNothing, FlushLosesNothing
     DEF Next, Running

(* A change that is not in the file is always on somebody's hands, however *)
(* marks, clears, snapshots and failing writes interleave; only roll-backs *)
(* (which the code does not mark) are exempt.                              *)
THEOREM NothingIsLost == Spec => []NoLostUpdate
<1>1. Init => NoLostUpdate
  BY DEF Init, NoLostUpdate
<1> QED
  BY <1>1, InitInv, StepInv, NothingLost, PTL DEF Spec
=============================================================================
