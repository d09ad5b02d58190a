---------------------------- MODULE ProxySettings ----------------------------
(***************************************************************************)
(* The runtime settings (internal/web/settings.go) and the proxy pool they *)
(* describe, which the console also edits proxy by proxy                   *)
(* (internal/web/proxy_pool.go) and which internal/outbound/proxy.go puts  *)
(* into use as a whole.  Of the settings the model keeps the list of       *)
(* proxies and one other field; every value put forward passes validation. *)
(* The pool in use is the list it was made of: <<>> is an empty pool and   *)
(* NoPool none at all.  It is what HTTPClient and WebSocketDialer hand out *)
(* from then on; who has taken his before keeps it, as the chat client     *)
(* does (chathub/client.go:124-133).                                       *)
(***************************************************************************)
EXTENDS Naturals, Sequences, SequencesExt, FiniteSets

CONSTANTS
    Editors,           \* console requests that may be under way
    Proxies, Others,   \* addresses of proxies; values of the other field
    Lists,             \* lists of proxies that may be put forward
    MaxListed,         \* bound: length of a list of proxies
    SettingsSaveFails

NoPool == <<"none">>
ASSUME SettingsAssumption ==
    /\ MaxListed \in Nat /\ SettingsSaveFails \in BOOLEAN /\ Others # {}
    /\ Lists \subseteq Seq(Proxies) /\ "none" \notin Proxies

VARIABLES
    settings, settingsFile,   \* settingsStore.v and settings.json: [pool, other]
    poolInUse,                \* outbound.proxyPool
    editor,                   \* what each request is doing
    mixed                     \* history: the latest request overlapped another, or failed to save
settingsVars == <<settings, settingsFile, poolInUse, editor, mixed>>

(* NewPool leaves out an address it has seen.                              *)
NewPool(list) ==
    LET pool[n \in 0..Len(list)] ==
            IF n = 0 THEN <<>>
            ELSE IF list[n] \in ToSet(pool[n - 1]) THEN pool[n - 1] ELSE Append(pool[n - 1], list[n])
    IN pool[Len(list)]
List == IF poolInUse = NoPool THEN <<>> ELSE poolInUse

(* ApplyStartupSettingsEnv and ConfigureFromEnv: an empty list leaves the  *)
(* process without a pool.                                                 *)
Startup(file) == IF file.pool = <<>> THEN NoPool ELSE NewPool(file.pool)

EditorIdle(o) == [at |-> "idle", list |-> <<>>, v |-> [pool |-> <<>>, other |-> o], via |-> "put"]
AnyOther == CHOOSE o \in Others : TRUE

SettingsInit ==
    /\ settings \in [pool : Lists, other : {AnyOther}]
    /\ settingsFile = settings /\ poolInUse = Startup(settings)
    /\ editor = [e \in Editors |-> EditorIdle(AnyOther)] /\ mixed = FALSE

Quiet(e) == \A d \in Editors \ {e} : editor[d].at = "idle"
Begin(e, new) ==
    /\ editor[e].at = "idle" /\ editor' = [editor EXCEPT ![e] = new]
    /\ mixed' = ~Quiet(e)
    /\ UNCHANGED <<settings, settingsFile, poolInUse>>
Step(e, new) == editor' = [editor EXCEPT ![e] = new]
End(e) == Step(e, EditorIdle(AnyOther))

-----------------------------------------------------------------------------
(* PUT of the settings: the patch goes over a copy of what they are now.   *)
PutPool(e, list) ==
    Begin(e, [at |-> "file", list |-> <<>>, v |-> [settings EXCEPT !.pool = list], via |-> "put"])
PutOther(e, o) ==
    Begin(e, [at |-> "file", list |-> <<>>, v |-> [settings EXCEPT !.other = o], via |-> "put"])

(* POST and DELETE of a proxy: the list of the pool in use, which has an   *)
(* address at most once, changed.                                          *)
Replacing(list) == [EditorIdle(AnyOther) EXCEPT !.at = "replace", !.list = list, !.via = "edit"]
AddProxy(e, p) == Len(List) < MaxListed /\ Begin(e, Replacing(Append(List, p)))
RemoveProxy(e, p) ==
    \/ \E i \in DOMAIN List : List[i] = p /\ Begin(e, Replacing(RemoveAt(List, i)))
    \/ poolInUse = NoPool /\ Begin(e, [Replacing(<<>>) EXCEPT !.at = "copy"])
RemoveAll(e) == Begin(e, Replacing(<<>>))

ReplacePool(e) ==
    /\ editor[e].at = "replace"
    /\ poolInUse' = NewPool(editor[e].list)
    /\ Step(e, [editor[e] EXCEPT !.at = "copy", !.list = <<>>])
    /\ UNCHANGED <<settings, settingsFile, mixed>>

(* Variant: the settings are saved without the list of the pool. *)
CopySettingsOnly(e) ==
    /\ editor[e].at = "copy"
    /\ Step(e, [editor[e] EXCEPT !.at = "file", !.v = settings])
    /\ UNCHANGED <<settings, settingsFile, poolInUse, mixed>>
(* persistProxyPool: a copy of the settings, then the list of the pool in  *)
(* use, of which nobody says that it is still this request's.              *)
CopySettings(e) ==
    /\ editor[e].at = "copy"
    /\ Step(e, [editor[e] EXCEPT !.at = "list", !.v = settings])
    /\ UNCHANGED <<settings, settingsFile, poolInUse, mixed>>
CopyList(e) ==
    /\ editor[e].at = "list"
    /\ Step(e, [editor[e] EXCEPT !.at = "file", !.v.pool = List])
    /\ UNCHANGED <<settings, settingsFile, poolInUse, mixed>>

-----------------------------------------------------------------------------
(* settingsStore.save: the file and then, under the lock, the memory.      *)
SaveSettings(e) ==
    /\ editor[e].at = "file"
    /\ \/ settingsFile' = editor[e].v /\ Step(e, [editor[e] EXCEPT !.at = "memory"]) /\ UNCHANGED mixed
       \/ SettingsSaveFails /\ End(e) /\ mixed' = TRUE /\ UNCHANGED settingsFile
    /\ UNCHANGED <<settings, poolInUse>>
TakeSettings(e) ==
    /\ editor[e].at = "memory"
    /\ settings' = editor[e].v
    /\ IF editor[e].via = "put" THEN Step(e, [editor[e] EXCEPT !.at = "configure", !.v.other = AnyOther])
       ELSE End(e)
    /\ UNCHANGED <<settingsFile, poolInUse, mixed>>
(* ConfigurePool at the end of a PUT, whatever the patch was about: with   *)
(* no proxies listed it is an empty pool, and the single proxy is out of   *)
(* use from then on.                                                       *)
ConfigurePool(e) ==
    /\ editor[e].at = "configure"
    /\ poolInUse' = NewPool(editor[e].v.pool)
    /\ End(e)
    /\ UNCHANGED <<settings, settingsFile, mixed>>

RestartSettings ==
    /\ settings' = settingsFile /\ poolInUse' = Startup(settingsFile)
    /\ editor' = [e \in Editors |-> EditorIdle(AnyOther)]
    /\ mixed' = FALSE /\ UNCHANGED settingsFile

SettingsNext ==
    \/ \E e \in Editors :
          \/ \E list \in Lists : PutPool(e, list)
          \/ \E o \in Others : PutOther(e, o)
          \/ \E p \in Proxies : AddProxy(e, p) \/ RemoveProxy(e, p)
          \/ RemoveAll(e) \/ ReplacePool(e) \/ CopySettings(e) \/ CopyList(e)
          \/ SaveSettings(e) \/ TakeSettings(e) \/ ConfigurePool(e)
    \/ RestartSettings
SettingsSpec == SettingsInit /\ [][SettingsNext]_settingsVars

-----------------------------------------------------------------------------
(* A request that ran alone and could save, and a restart, leave the       *)
(* settings in memory, the file and the pool in use in agreement, whatever *)
(* overlapping requests and failed saves had left before (settings.go:204, *)
(* proxy_pool.go:51-57).  It does not say which way connections go.        *)
SettingsAgree ==
    \/ mixed
    \/ \E e \in Editors : editor[e].at # "idle"
    \/ settings = settingsFile /\ List = NewPool(settings.pool)
=============================================================================
