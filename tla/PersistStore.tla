---------------------------- MODULE PersistStore ----------------------------
(***************************************************************************)
(* The lazy persistence of internal/web/persist.go, with the callers it    *)
(* has: requests that change a store under its lock and mark it dirty      *)
(* (sessions, bindings, statistics), requests that mark it after the lock  *)
(* is released (apiKeyStore.valid), and administrator calls that save at   *)
(* once (apiKeyStore.create, revoke, delete, update).  One store is        *)
(* modelled; its contents are numbered in the order memory has held them,  *)
(* so every change, an undo included, is the next number.                  *)
(*                                                                         *)
(* The background loop and the saving calls all go through the same steps: *)
(* clear the flag, take writeMu, snapshot, write the temp file, rename.    *)
(***************************************************************************)
EXTENDS Naturals, FiniteSets

CONSTANTS
    Handlers,       \* HTTP handler goroutines
    Loop,           \* persistLoop
    NoOne,          \* writeMu is free
    MaxVersion,     \* bound: changes of the store
    DiskMayFail,    \* whether WriteFile and Rename can return an error
    MayCrash,       \* whether the process can be killed
    MayUndo         \* whether saving calls roll back on error (not update)

ASSUME HandlersAssumption == Loop \notin Handlers /\ NoOne \notin Handlers \cup {Loop}
ASSUME BoundsAssumption ==
    MaxVersion \in Nat /\ {DiskMayFail, MayCrash, MayUndo} \subseteq BOOLEAN

VARIABLES
    mem,        \* the store in memory
    disk,       \* its file
    tmp,        \* the file's ".tmp" sibling
    dirty,      \* persistStore.dirty
    entries,    \* how often the store stands in persistList
    writeMu,    \* who holds persistStore.writeMu
    pc,         \* where each handler and the loop are
    snap,       \* the snapshot a flusher is writing
    wrote,      \* the change a saving handler made
    left,       \* entries of persistList the loop's pass has still to visit
    phase,      \* of the process: serving, stopping, final, exited
    undone      \* history: what the last roll-back put back, which nobody marks

vars == <<mem, disk, tmp, dirty, entries, writeMu, pc, snap, wrote, left,
          phase, undone>>

Flushers == Handlers \cup {Loop}
Version == 0..MaxVersion

(* Between Lock and the deferred Unlock.                                   *)
Holding == {"snapshot", "write", "rename", "failed", "saved"}
Stages == Holding \cup {"idle", "busy", "mark", "clear", "lock", "undo", "pass"}

Goto(f, stage) == pc' = [pc EXCEPT ![f] = stage]

Changed == mem < MaxVersion /\ mem' = mem + 1

(* markDirty: every call appends the store to persistList again.           *)
Marked == dirty' = TRUE /\ entries' = entries + 1

Init ==
    /\ mem = 0 /\ disk = 0 /\ tmp = 0
    /\ dirty = FALSE
    /\ entries = 0
    /\ writeMu = NoOne
    /\ pc = [f \in Flushers |-> "idle"]
    /\ snap = [f \in Flushers |-> 0]
    /\ wrote = [f \in Flushers |-> 0]
    /\ left = 0
    /\ phase = "serving"
    /\ undone = 0

-----------------------------------------------------------------------------
(* A request is accepted while the listener is open.                       *)
Arrive(h) ==
    /\ phase = "serving" /\ pc[h] = "idle"
    /\ Goto(h, "busy")
    /\ UNCHANGED <<mem, disk, tmp, dirty, entries, writeMu, snap, wrote, left, phase, undone>>

(* It changes the store and marks it within the store's lock.              *)
Change(h) ==
    /\ pc[h] = "busy"
    /\ Changed /\ Marked
    /\ Goto(h, "idle")
    /\ UNCHANGED <<disk, tmp, writeMu, snap, wrote, left, phase, undone>>

(* apiKeyStore.valid: LastUsedAt changes under the lock ...                *)
Touch(h) ==
    /\ pc[h] = "busy"
    /\ Changed
    /\ Goto(h, "mark")
    /\ UNCHANGED <<disk, tmp, dirty, entries, writeMu, snap, wrote, left, phase, undone>>

(* Variant: a mark is skipped while somebody is writing anyway.            *)
MarkUnlessWriting(h) ==
    /\ pc[h] = "mark"
    /\ IF writeMu = NoOne THEN Marked ELSE UNCHANGED <<dirty, entries>>
    /\ Goto(h, "idle")
    /\ UNCHANGED <<mem, disk, tmp, writeMu, snap, wrote, left, phase, undone>>

(* ... and is marked after it.                                             *)
Mark(h) ==
    /\ pc[h] = "mark"
    /\ Marked
    /\ Goto(h, "idle")
    /\ UNCHANGED <<mem, disk, tmp, writeMu, snap, wrote, left, phase, undone>>

(* An administrator's change of the API keys ...                           *)
SaveNow(h) ==
    /\ pc[h] = "busy"
    /\ Changed
    /\ wrote' = [wrote EXCEPT ![h] = mem']
    /\ Goto(h, "clear")
    /\ UNCHANGED <<disk, tmp, dirty, entries, writeMu, snap, left, phase, undone>>

(* ... is flushed by flushNowBlocking, whatever the flag says.             *)
ClearDirty(h) ==
    /\ pc[h] = "clear"
    /\ dirty' = FALSE
    /\ Goto(h, "lock")
    /\ UNCHANGED <<mem, disk, tmp, entries, writeMu, snap, wrote, left, phase, undone>>

(* On an error create, revoke and delete put the old contents back.        *)
Undo(h) ==
    /\ pc[h] = "undo"
    /\ Changed
    /\ undone' = mem'
    /\ Goto(h, "idle")
    /\ UNCHANGED <<disk, tmp, dirty, entries, writeMu, snap, wrote, left, phase>>

-----------------------------------------------------------------------------
(* FlushAllPersist copies the list: on a tick, ...                         *)
Tick ==
    /\ phase \in {"serving", "stopping"} /\ pc[Loop] = "idle"
    /\ entries > 0
    /\ left' = entries
    /\ Goto(Loop, "pass")
    /\ UNCHANGED <<mem, disk, tmp, dirty, entries, writeMu, snap, wrote, phase, undone>>

(* ... and once more when persistStop is closed.                           *)
LastTick ==
    /\ phase = "stopping" /\ pc[Loop] = "idle"
    /\ phase' = "final"
    /\ left' = entries
    /\ Goto(Loop, "pass")
    /\ UNCHANGED <<mem, disk, tmp, dirty, entries, writeMu, snap, wrote, undone>>

(* flushPending of the next entry: nothing to do, or clear the flag.       *)
FlushPending ==
    /\ pc[Loop] = "pass" /\ left > 0
    /\ left' = left - 1
    /\ dirty' = FALSE
    /\ Goto(Loop, IF dirty THEN "lock" ELSE "pass")
    /\ UNCHANGED <<mem, disk, tmp, entries, writeMu, snap, wrote, phase, undone>>

(* The pass is over; after the last one StopPersistLoop returns and main   *)
(* with it.                                                                *)
PassOver ==
    /\ pc[Loop] = "pass" /\ left = 0
    /\ phase' = IF phase = "final" THEN "exited" ELSE phase
    /\ Goto(Loop, "idle")
    /\ UNCHANGED <<mem, disk, tmp, dirty, entries, writeMu, snap, wrote, left, undone>>

-----------------------------------------------------------------------------
(* Variant: writeMu is not taken.                                          *)
LockSkipped(f) ==
    /\ pc[f] = "lock"
    /\ writeMu' = f
    /\ Goto(f, "snapshot")
    /\ UNCHANGED <<mem, disk, tmp, dirty, entries, snap, wrote, left, phase, undone>>

(* writeMu.Lock()                                                          *)
Lock(f) ==
    /\ pc[f] = "lock" /\ writeMu = NoOne
    /\ writeMu' = f
    /\ Goto(f, "snapshot")
    /\ UNCHANGED <<mem, disk, tmp, dirty, entries, snap, wrote, left, phase, undone>>

(* The flush function marshals the store under the store's own lock.       *)
Snapshot(f) ==
    /\ pc[f] = "snapshot"
    /\ snap' = [snap EXCEPT ![f] = mem]
    /\ Goto(f, "write")
    /\ UNCHANGED <<mem, disk, tmp, dirty, entries, writeMu, wrote, left, phase, undone>>

(* writeFileAtomic: the temp file ...                                      *)
WriteTemp(f) ==
    /\ pc[f] = "write"
    /\ \/ tmp' = snap[f] /\ Goto(f, "rename")
       \/ DiskMayFail /\ UNCHANGED tmp /\ Goto(f, "failed")
    /\ UNCHANGED <<mem, disk, dirty, entries, writeMu, snap, wrote, left, phase, undone>>

(* ... takes the file's place.                                             *)
Rename(f) ==
    /\ pc[f] = "rename"
    /\ \/ disk' = tmp /\ Goto(f, "saved")
       \/ DiskMayFail /\ UNCHANGED disk /\ Goto(f, "failed")
    /\ UNCHANGED <<mem, tmp, dirty, entries, writeMu, snap, wrote, left, phase, undone>>

(* The flush is over: the lock is free, the flusher's locals are gone.     *)
Release(f) ==
    /\ writeMu' = NoOne
    /\ snap' = [snap EXCEPT ![f] = 0]
    /\ wrote' = [wrote EXCEPT ![f] = 0]

Resume(f) == Goto(f, IF f = Loop THEN "pass" ELSE "idle")

Saved(f) ==
    /\ pc[f] = "saved"
    /\ Release(f) /\ Resume(f)
    /\ UNCHANGED <<mem, disk, tmp, dirty, entries, left, phase, undone>>

(* Variant: a failed flush is logged and forgotten.                        *)
FailedForgetting(f) ==
    /\ pc[f] = "failed"
    /\ Release(f) /\ Resume(f)
    /\ UNCHANGED <<mem, disk, tmp, dirty, entries, left, phase, undone>>

(* A failed flush sets the flag again before it unlocks.                   *)
Failed(f) ==
    /\ pc[f] = "failed"
    /\ dirty' = TRUE
    /\ Release(f)
    /\ \/ Resume(f)
       \/ MayUndo /\ f # Loop /\ Goto(f, "undo")
    /\ UNCHANGED <<mem, disk, tmp, entries, left, phase, undone>>

FlushStep(f) ==
    \/ Lock(f) \/ Snapshot(f) \/ WriteTemp(f) \/ Rename(f) \/ Saved(f) \/ Failed(f)

-----------------------------------------------------------------------------
(* A signal: Shutdown closes the listener, ListenAndServe returns at once  *)
(* and main calls StopPersistLoop, while accepted requests still run.      *)
Shutdown ==
    /\ phase = "serving"
    /\ phase' = "stopping"
    /\ UNCHANGED <<mem, disk, tmp, dirty, entries, writeMu, pc, snap, wrote, left, undone>>

(* The process is killed or has exited, and a new one loads the file.      *)
Restart ==
    /\ MayCrash \/ phase = "exited"
    /\ mem' = disk
    /\ dirty' = FALSE
    /\ entries' = 0
    /\ writeMu' = NoOne
    /\ pc' = [f \in Flushers |-> "idle"]
    /\ snap' = [f \in Flushers |-> 0]
    /\ wrote' = [f \in Flushers |-> 0]
    /\ left' = 0
    /\ phase' = "serving"
    /\ undone' = 0
    /\ UNCHANGED <<disk, tmp>>

HandlerStep(h) ==
    \/ Change(h) \/ Touch(h) \/ Mark(h) \/ SaveNow(h) \/ ClearDirty(h) \/ Undo(h)

LoopStep == Tick \/ LastTick \/ FlushPending \/ PassOver

Running ==
    \/ \E h \in Handlers : Arrive(h) \/ HandlerStep(h)
    \/ LoopStep
    \/ \E f \in Flushers : FlushStep(f)
    \/ Shutdown

Next ==
    \/ phase # "exited" /\ Running
    \/ Restart

(* Goroutines are scheduled, the ticker ticks, writeMu does not starve a   *)
(* waiter, and a disk that fails does not fail for ever.  Nothing forces a *)
(* request, a signal or a restart.                                         *)
Working == phase # "exited"
Fairness ==
    /\ WF_vars(Working /\ LoopStep)
    /\ \A h \in Handlers : WF_vars(Working /\ (Mark(h) \/ ClearDirty(h)))
    /\ \A f \in Flushers :
          /\ SF_vars(Working /\ Lock(f))
          /\ WF_vars(Working /\ FlushStep(f))
          /\ SF_vars(Working /\ WriteTemp(f) /\ tmp' = snap[f] /\ pc'[f] = "rename")
          /\ SF_vars(Working /\ Rename(f) /\ pc'[f] = "saved")

Spec == Init /\ [][Next]_vars
FairSpec == Spec /\ Fairness

-----------------------------------------------------------------------------
(* Every variable keeps its type and range.                                *)
TypeOK ==
    /\ mem \in Version /\ disk \in Version /\ tmp \in Version
    /\ dirty \in BOOLEAN
    /\ entries \in Version
    /\ writeMu \in Flushers \cup {NoOne}
    /\ pc \in [Flushers -> Stages]
    /\ snap \in [Flushers -> Version]
    /\ wrote \in [Flushers -> Version]
    /\ left \in Version
    /\ phase \in {"serving", "stopping", "final", "exited"}
    /\ undone \in Version

(* A change that is not in the file is still on somebody's hands: the flag *)
(* is set or about to be, or a flusher will snapshot it, or has.  Only     *)
(* roll-backs are exempt: their callers do not mark them.                  *)
NoLostUpdate ==
    disk < mem /\ mem # undone =>
        \/ dirty
        \/ \E f \in Flushers :
              \/ pc[f] \in {"mark", "clear", "lock", "snapshot", "failed"}
              \/ pc[f] \in {"write", "rename"} /\ snap[f] = mem

(* A saving call that is about to return success has its own change in     *)
(* the file, however many flushes ran meanwhile.                           *)
AckedIsDurable == \A h \in Handlers : pc[h] = "saved" => wrote[h] <= disk

(* Seen from outside, the file only ever moves forward to contents that    *)
(* memory has really held.                                                 *)
Abstract == INSTANCE DurableStore WITH mem <- mem, disk <- disk
FileFollowsMemory == Abstract!Spec

(* Once the store is on the loop's list, every change a request has made   *)
(* reaches the file unless the process is killed or stopped, also when     *)
(* writes fail now and then.                                               *)
EveryChangeSaved ==
    \A v \in Version :
        mem = v /\ undone # v /\ entries > 0 ~>
            (disk >= v \/ mem < v \/ phase # "serving")
=============================================================================
