------------------------------- MODULE UsageLog -------------------------------
(***************************************************************************)
(* The usage log of internal/web/usage.go: records are kept in memory and  *)
(* appended to a file, in batches, by the persistence loop.  Records are   *)
(* numbered in the order they are made.  A line of the file is readable    *)
(* when it is one record; what a write left of a line that it did not end  *)
(* (its newline is enough) spoils the line written behind it.  The         *)
(* statistics computed from the records, the cap of 50000 of them in       *)
(* memory and a machine that stops with a write not yet synced are left    *)
(* out.                                                                    *)
(***************************************************************************)
EXTENDS Naturals, Sequences, SequencesExt, FiniteSets

CONSTANTS
    MaxRecords,  \* bound: records ever made
    MaxFile,     \* bound: records in the file after a write that failed
    LogMayFail   \* whether opening, writing or syncing the file can fail

ASSUME UsageAssumption == {MaxRecords, MaxFile} \subseteq Nat /\ LogMayFail \in BOOLEAN

VARIABLES
    recorded,   \* records made so far
    unsaved,    \* usageLog.pending
    logDirty,   \* its persistStore's dirty flag
    flusher,    \* where the loop is in flush
    batch,      \* the records flush took out
    file,       \* the readable records of usage.jsonl
    cut,        \* usage.jsonl ends within a line
    lost,       \* history: records gone with a failed open, a spoilt line or the process
    repeated    \* history: records in the file of which a failed write made the batch wait again
usageVars == <<recorded, unsaved, logDirty, flusher, batch, file, cut, lost, repeated>>

Records == 1..MaxRecords

InitUsage ==
    /\ recorded = 0 /\ unsaved = <<>> /\ logDirty = FALSE
    /\ flusher = "idle" /\ batch = <<>> /\ file = <<>> /\ cut = FALSE
    /\ lost = {} /\ repeated = {}

-----------------------------------------------------------------------------
(* record, by any request that ends; beyond the bound nothing is recorded. *)
Record ==
    IF recorded < MaxRecords
    THEN /\ recorded' = recorded + 1 /\ unsaved' = Append(unsaved, recorded + 1)
         /\ logDirty' = TRUE
         /\ UNCHANGED <<flusher, batch, file, cut, lost, repeated>>
    ELSE UNCHANGED usageVars

(* flushPending clears the flag; flush takes the pending records out.      *)
TakeBatch ==
    /\ flusher = "idle" /\ logDirty
    /\ logDirty' = FALSE /\ batch' = unsaved /\ unsaved' = <<>>
    /\ flusher' = IF unsaved = <<>> THEN "idle" ELSE "open"
    /\ UNCHANGED <<recorded, file, cut, lost, repeated>>

(* flush is over, with an error or without.                                *)
FlushOver(failed) == /\ flusher' = "idle" /\ batch' = <<>>
                     /\ logDirty' = (failed \/ logDirty)
                     /\ UNCHANGED recorded

OpenLog ==
    /\ flusher = "open"
    /\ \/ flusher' = "write" /\ UNCHANGED <<recorded, batch, logDirty, unsaved, lost>>
       \/ /\ LogMayFail /\ FlushOver(TRUE)
          /\ lost' = lost \cup ToSet(batch) /\ UNCHANGED unsaved
    /\ UNCHANGED <<file, cut, repeated>>

(* n records of the batch are written, and perhaps a part of the next; the *)
(* first is not readable behind the rest of a line.                        *)
Readable(n) == SubSeq(batch, IF cut THEN 2 ELSE 1, n)
Written(n) ==
    /\ file' = file \o Readable(n)
    /\ cut' \in {n = 0 /\ cut, n < Len(batch)}
LostOf(n) == ToSet(batch) \ ToSet(Readable(n))

(* After a write that fails the whole batch waits again.                   *)
WriteLog ==
    /\ flusher = "write"
    /\ \/ /\ Written(Len(batch)) /\ lost' = lost \cup LostOf(Len(batch))
          /\ flusher' = "sync" /\ UNCHANGED <<recorded, batch, logDirty, unsaved, repeated>>
       \/ /\ LogMayFail /\ FlushOver(TRUE)
          /\ \E n \in 0..Len(batch) - 1 :
                /\ Len(file) + n <= MaxFile
                /\ Written(n) /\ repeated' = repeated \cup ToSet(Readable(n))
          /\ unsaved' = batch \o unsaved /\ UNCHANGED lost

(* Variant: a failed sync puts the batch back as a failed write does. *)
SyncLogAgain ==
    /\ flusher = "sync"
    /\ \/ FlushOver(FALSE) /\ UNCHANGED unsaved
       \/ LogMayFail /\ FlushOver(TRUE) /\ unsaved' = batch \o unsaved
    /\ UNCHANGED <<file, cut, lost, repeated>>
SyncLog ==
    /\ flusher = "sync"
    /\ FlushOver(FALSE) \/ (LogMayFail /\ FlushOver(TRUE))
    /\ UNCHANGED <<unsaved, file, cut, lost, repeated>>

FlushUsage == TakeBatch \/ OpenLog \/ WriteLog \/ SyncLog

(* The process ends, in a write perhaps, and is started again: load reads  *)
(* what is readable, and what waited or was on its way is gone.            *)
Forgotten ==
    /\ unsaved' = <<>> /\ batch' = <<>> /\ logDirty' = FALSE /\ flusher' = "idle"
    /\ UNCHANGED <<recorded, repeated>>
RestartLog ==
    /\ \/ /\ flusher = "write"
          /\ \E n \in 0..Len(batch) : Written(n) /\ lost' = lost \cup LostOf(n) \cup ToSet(unsaved)
       \/ /\ flusher # "write" /\ UNCHANGED <<file, cut>>
          /\ lost' = lost \cup (IF flusher = "open" THEN ToSet(batch) ELSE {}) \cup ToSet(unsaved)
    /\ Forgotten

-----------------------------------------------------------------------------
(* A record is in exactly one place, the file, the batch being written or  *)
(* the waiting records, and the places hold the records in the order they  *)
(* were made; except what a failed open took away, what is written behind  *)
(* a line that was cut, what a process that ended had not written, and     *)
(* what a failed write brought into the file before all of the batch       *)
(* waits again.                                                            *)
LogIsWhole ==
    LET all == file \o (IF flusher \in {"open", "write"} THEN batch ELSE <<>>) \o unsaved
        sound == {i \in DOMAIN all : all[i] \notin repeated}
    IN /\ \A i, k \in sound : i < k => all[i] < all[k]
       /\ {all[i] : i \in sound} = (1..recorded) \ (lost \cup repeated)
=============================================================================
