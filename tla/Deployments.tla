----------------------------- MODULE Deployments -----------------------------
(***************************************************************************)
(* The worker deployments of internal/web/deployments.go.  The list is a   *)
(* Go slice, of which a health check keeps a pointer to its element over   *)
(* the request it makes without the lock; an append to a full slice moves  *)
(* the list to a larger array, and pointers into the old one then write to *)
(* what nobody reads.  Of a deployment the model keeps its address, 0 the  *)
(* default one, and the status.                                            *)
(***************************************************************************)
EXTENDS Naturals, Sequences, SequencesExt, FiniteSets

CONSTANTS
    Operators,       \* console requests that may be under way
    MaxDeployments,  \* bound: deployments ever made
    MaxAddress,      \* bound: addresses are numbers up to it
    DeploymentSaveFails

ASSUME DeploymentAssumption == {MaxDeployments, MaxAddress} \subseteq Nat /\ DeploymentSaveFails \in BOOLEAN

VARIABLES
    items,            \* deploymentStore.Items: a sequence of [url, status]
    capacity, array,  \* of the slice; which of the arrays allocated so far it is in
    itemsFile,        \* deployments.json
    operator,         \* what each request is doing
    deployed,         \* deployments made so far
    unsavedItems      \* history: the latest save failed
deploymentVars == <<items, capacity, array, itemsFile, operator, deployed, unsavedItems>>

OperatorIdle == [at |-> "idle", array |-> 0, index |-> 0]

DeploymentsInit ==
    /\ items = <<>> /\ capacity = 0 /\ array = 0 /\ itemsFile = <<>>
    /\ operator = [o \in Operators |-> OperatorIdle]
    /\ deployed = 0 /\ unsavedItems = FALSE

Is(o, at) == operator[o].at = at
Go(o, at) == operator' = [operator EXCEPT ![o] = [OperatorIdle EXCEPT !.at = at]]

-----------------------------------------------------------------------------
(* deployCloudflare: what is known of a worker the provider has made; a    *)
(* provider that fails leaves nothing.                                     *)
NewDeployment == [url |-> 0, status |-> "deployed"]
(* POST appends it.  Go doubles the capacity of a small slice.             *)
Deploy(o) ==
    /\ Is(o, "idle") /\ deployed < MaxDeployments
    /\ deployed' = deployed + 1
    /\ items' = Append(items, NewDeployment)
    /\ IF Len(items) < capacity THEN UNCHANGED <<capacity, array>>
       ELSE capacity' = (IF capacity = 0 THEN 1 ELSE 2 * capacity) /\ array' = array + 1
    /\ Go(o, "save") /\ UNCHANGED <<itemsFile, unsavedItems>>

(* PUT of an address. *)
SetAddress(o, i, url) ==
    /\ Is(o, "idle")
    /\ items' = [items EXCEPT ![i].url = url]
    /\ Go(o, "save") /\ UNCHANGED <<capacity, array, itemsFile, deployed, unsavedItems>>

(* deploymentCheck: the pointer is kept over the request ...               *)
StartCheck(o, i) ==
    /\ Is(o, "idle")
    /\ operator' = [operator EXCEPT ![o] = [at |-> "check", array |-> array, index |-> i]]
    /\ UNCHANGED <<items, capacity, array, itemsFile, deployed, unsavedItems>>
(* ... and the result is written through it, to the address of now and, if *)
(* the list has moved, to nobody.                                          *)
CheckResult(o, status) ==
    LET check == operator[o]
    IN /\ Is(o, "check")
       /\ items' = IF check.array = array THEN [items EXCEPT ![check.index].status = status] ELSE items
       /\ UNCHANGED <<capacity, array, itemsFile, deployed, unsavedItems>>
(* Variant: the result is not saved. *)
EndCheckInMemory(o, status) == CheckResult(o, status) /\ Go(o, "idle")
EndCheck(o, status) == CheckResult(o, status) /\ Go(o, "save")

(* save, which holds the lock while it writes; a check ignores its error. *)
SaveDeployments(o) ==
    /\ Is(o, "save")
    /\ \/ itemsFile' = items /\ unsavedItems' = FALSE
       \/ DeploymentSaveFails /\ unsavedItems' = TRUE /\ UNCHANGED itemsFile
    /\ Go(o, "idle") /\ UNCHANGED <<items, capacity, array, deployed>>

RestartDeployments ==
    /\ items' = itemsFile /\ capacity' \in {Len(itemsFile), Len(itemsFile) + 1} /\ array' = 0
    /\ operator' = [o \in Operators |-> OperatorIdle]
    /\ unsavedItems' = FALSE /\ UNCHANGED <<itemsFile, deployed>>

DeploymentsNext ==
    \/ \E o \in Operators :
          \/ Deploy(o) \/ SaveDeployments(o)
          \/ \E i \in DOMAIN items : StartCheck(o, i) \/ \E url \in 0..MaxAddress : SetAddress(o, i, url)
          \/ \E status \in {"healthy", "unhealthy"} : EndCheck(o, status)
    \/ RestartDeployments
DeploymentsSpec == DeploymentsInit /\ [][DeploymentsNext]_deploymentVars

-----------------------------------------------------------------------------
(* The file has what the console shows whenever no request has a change to *)
(* save and the latest save did not fail, also when requests overlap and   *)
(* the list moved under a check (deployments.go:56-67 and 202-247).        *)
DeploymentsSaved ==
    items = itemsFile \/ unsavedItems \/ \E o \in Operators : Is(o, "save")
=============================================================================
