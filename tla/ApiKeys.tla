------------------------------- MODULE ApiKeys -------------------------------
(***************************************************************************)
(* The API keys of internal/web/keys.go and their handler adminKeys in     *)
(* internal/web/server.go.  A change is made in memory under the store's   *)
(* mutex, saved by flushNowBlocking outside it, and taken back under it    *)
(* when the save fails.  A key is its number; names and hashes are left    *)
(* out, and so is revoke, which nothing calls.  PersistStore has the steps *)
(* of a flush; here a flush is one step, which is what its write mutex     *)
(* makes of it.                                                            *)
(***************************************************************************)
EXTENDS Naturals, Sequences, SequencesExt, FiniteSets

CONSTANTS
    Clerks,        \* console requests that may be under way
    MaxKeys,       \* bound: keys ever created
    KeySaveFails   \* whether writing the file can fail

ASSUME KeyAssumption == MaxKeys \in Nat /\ KeySaveFails \in BOOLEAN

VARIABLES
    keys,       \* apiKeyStore.Keys: a sequence of [id, revoked]
    keyFile,    \* api-keys.json
    keyDirty, keyListed,  \* the store's dirty flag; whether the loop knows it
    keyStuck,   \* a panic left the store's mutex locked
    clerk,      \* the change each request is making
    created,    \* keys created so far
    said,       \* history: what the last answer about each key said
    undone      \* history: a change was taken back that was not the latest
keyVars == <<keys, keyFile, keyDirty, keyListed, keyStuck, clerk, created, said, undone>>

KeyIds == 1..MaxKeys
KeyIdle == [op |-> "none", id |-> 0, index |-> 0, failed |-> FALSE, latest |-> FALSE, alone |-> TRUE, removed |-> <<>>]

KeysInit ==
    /\ keys = <<>> /\ keyFile = <<>>
    /\ keyDirty = FALSE /\ keyListed = FALSE /\ keyStuck = FALSE
    /\ clerk = [c \in Clerks |-> KeyIdle]
    /\ created = 0 /\ said = [id \in KeyIds |-> "none"] /\ undone = FALSE

-----------------------------------------------------------------------------
Where(id) == {i \in DOMAIN keys : keys[i].id = id}

(* A change in memory, of clerk c; the changes under way are no longer the *)
(* latest, nor is this one if there are any.  A change of the same key     *)
(* makes the answer to an earlier one mean nothing.                        *)
Change(c, op, id, index, removed) ==
    LET others == {d \in Clerks \ {c} : clerk[d].op # "none"}
    IN /\ clerk[c].op = "none" /\ ~keyStuck
       /\ clerk' = [d \in Clerks |->
             IF d = c THEN [KeyIdle EXCEPT !.op = op, !.id = id, !.index = index,
                                           !.removed = removed, !.latest = (others = {})]
             ELSE [clerk[d] EXCEPT !.latest = FALSE, !.alone = @ /\ clerk[d].id # id]]
       /\ said' = [said EXCEPT ![id] = "open"]
       /\ UNCHANGED <<keyFile, keyDirty, keyListed, keyStuck, undone>>

CreateKey(c) ==
    /\ created < MaxKeys /\ created' = created + 1
    /\ keys' = Append(keys, [id |-> created', revoked |-> FALSE])
    /\ Change(c, "create", created', 0, <<>>)

DeleteKey(c, id) == \E i \in Where(id) :
    /\ keys' = RemoveAt(keys, i)
    /\ Change(c, "delete", id, i, <<keys[i]>>)
    /\ UNCHANGED created

UpdateKey(c, id, revoked) == \E i \in Where(id) :
    /\ keys' = [keys EXCEPT ![i].revoked = revoked]
    /\ Change(c, IF revoked THEN "revoke" ELSE "allow", id, i, <<>>)
    /\ UNCHANGED created

Answer(op) == CASE op \in {"create", "allow"} -> "valid" [] op = "revoke" -> "revoked" [] OTHER -> "gone"
(* Variant: the error of the save is dropped. *)
SaveKeysQuietly(c) ==
    /\ clerk[c].op # "none" /\ ~clerk[c].failed /\ ~keyStuck
    /\ \/ keyFile' = keys /\ keyDirty' = FALSE
       \/ KeySaveFails /\ keyDirty' = TRUE /\ UNCHANGED keyFile
    /\ said' = [said EXCEPT ![clerk[c].id] = IF clerk[c].alone THEN Answer(clerk[c].op) ELSE @]
    /\ clerk' = [clerk EXCEPT ![c] = KeyIdle]
    /\ UNCHANGED <<keys, keyListed, keyStuck, created, undone>>
(* flushNowBlocking: the snapshot of this moment is written, and the       *)
(* request is answered; after an error, the change is taken back.          *)
SaveKeys(c) ==
    /\ clerk[c].op # "none" /\ ~clerk[c].failed /\ ~keyStuck
    /\ \/ /\ keyFile' = keys /\ keyDirty' = FALSE
          /\ said' = [said EXCEPT ![clerk[c].id] = IF clerk[c].alone THEN Answer(clerk[c].op) ELSE @]
          /\ clerk' = [clerk EXCEPT ![c] = KeyIdle]
       \/ /\ KeySaveFails /\ keyDirty' = TRUE
          /\ clerk' = [clerk EXCEPT ![c].failed = TRUE]
          /\ UNCHANGED <<keyFile, said>>
    /\ UNCHANGED <<keys, keyListed, keyStuck, created, undone>>

(* The roll-back: create cuts the last key, whichever that is; delete puts *)
(* the key back at the index it had, and panics, the mutex still locked,   *)
(* when the list has become shorter than that; update keeps its change.    *)
RollBackKeys(c) ==
    LET change == clerk[c]
        outside == \/ change.op = "create" /\ keys = <<>>
                   \/ change.op = "delete" /\ change.index > Len(keys) + 1
    IN /\ change.failed /\ ~keyStuck
       /\ keyStuck' = outside
       /\ keys' = IF outside \/ change.op \in {"allow", "revoke"} THEN keys
                  ELSE IF change.op = "create" THEN Front(keys)
                  ELSE InsertAt(keys, change.index, change.removed[1])
       /\ undone' = (undone \/ ~change.latest)
       /\ clerk' = [clerk EXCEPT ![c] = KeyIdle]
       /\ UNCHANGED <<keyFile, keyDirty, keyListed, created, said>>

(* valid, of a request that carries the key: its last use is noted, and    *)
(* the store is known to the loop from then on.                            *)
UseKey(id) ==
    /\ ~keyStuck /\ \E i \in Where(id) : ~keys[i].revoked
    /\ keyDirty' = TRUE /\ keyListed' = TRUE
    /\ UNCHANGED <<keys, keyFile, keyStuck, clerk, created, said, undone>>

KeyLoop ==
    /\ keyDirty /\ keyListed /\ ~keyStuck
    /\ \/ keyFile' = keys /\ keyDirty' = FALSE
       \/ KeySaveFails /\ UNCHANGED <<keyFile, keyDirty>>
    /\ UNCHANGED <<keys, keyListed, keyStuck, clerk, created, said, undone>>

(* The process ends at any moment and opens the file again.                *)
OpenKeys ==
    /\ keys' = keyFile /\ keyDirty' = FALSE /\ keyListed' = FALSE /\ keyStuck' = FALSE
    /\ clerk' = [c \in Clerks |-> KeyIdle]
    /\ UNCHANGED <<keyFile, created, said, undone>>

KeysNext ==
    \/ \E c \in Clerks : \/ CreateKey(c) \/ SaveKeys(c) \/ RollBackKeys(c)
                         \/ \E id \in KeyIds : DeleteKey(c, id) \/ \E r \in BOOLEAN : UpdateKey(c, id, r)
    \/ \E id \in KeyIds : UseKey(id)
    \/ KeyLoop \/ OpenKeys
KeysSpec == KeysInit /\ [][KeysNext]_keyVars

-----------------------------------------------------------------------------
(* What the last successful answer said of a key stays so, over crashes,   *)
(* failed saves of other keys and concurrent requests, and no panic locks  *)
(* the store, unless a failed change was taken back after a later one had  *)
(* been made: only then does a roll-back hit another key (keys.go:84-88    *)
(* and 126-142).                                                           *)
AcknowledgedKeys ==
    LET state(list, id) == {IF r.revoked THEN "revoked" ELSE "valid" : r \in {s \in ToSet(list) : s.id = id}}
        is(list, id) == said[id] \in state(list, id) \/ (said[id] = "gone" /\ state(list, id) = {})
    IN undone \/ (~keyStuck /\ \A id \in KeyIds :
                     said[id] \in {"none", "open"} \/ (is(keys, id) /\ is(keyFile, id)))
=============================================================================
