---------------------------- MODULE DurableStore ----------------------------
(***************************************************************************)
(* What a lazily persisted store promises (internal/web/persist.go seen    *)
(* from outside): memory changes at will, the file follows it and never    *)
(* goes back to older contents, and a restart resumes from the file.       *)
(* Contents are numbered in the order memory has held them.                *)
(***************************************************************************)
EXTENDS Naturals

VARIABLES
    mem,    \* what the process works with
    disk    \* what the file holds

store == <<mem, disk>>

Init == mem = 0 /\ disk = 0

(* A request changes the store.                                            *)
Change == mem' = mem + 1 /\ UNCHANGED disk

(* Some newer contents reach the file.                                     *)
Persist == disk' \in (disk + 1) .. mem /\ UNCHANGED mem

(* A new process loads the file.                                           *)
Reload == mem' = disk /\ UNCHANGED disk

Spec == Init /\ [][Change \/ Persist \/ Reload]_store
=============================================================================
