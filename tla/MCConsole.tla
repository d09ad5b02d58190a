------------------------------ MODULE MCConsole ------------------------------
(***************************************************************************)
(* The administration console: two requests at a time against each of the  *)
(* things it administers, the clean-ups of the cloud, and the benchmark.   *)
(* These share no state with each other, so that a behaviour is about one  *)
(* of them, chosen at its beginning.                                       *)
(***************************************************************************)
EXTENDS AdminAccess, ApiKeys, ProxySettings, OutboundPool, Deployments, Benchmark

CONSTANTS
    p, q,                               \* two proxies
    Sweeps, Count, Page, KeepN, Rounds  \* of CloudSweep

ASSUME SweepAssumption ==
    Count \in Nat /\ Page \in Nat \ {0} /\ KeepN \in Nat \ {0} /\ Rounds \in Nat

VARIABLES
    area,                       \* what the behaviour is about
    cloud, chats, old, sweep    \* of CloudSweep
sweepVars == <<cloud, chats, old, sweep>>

Cleanup == INSTANCE CloudSweep WITH opened <- chats

Areas == {"access", "keys", "settings", "pool", "deployments", "cleanup", "benchmark", "usage"}

(* The usage log is full where the benchmark is the thing looked at, and   *)
(* where the log is there is one benchmark run beside the other requests.  *)
FullLog ==
    /\ recorded = MaxRecords /\ file = [r \in 1..MaxRecords |-> r]
    /\ unsaved = <<>> /\ logDirty = FALSE /\ flusher = "idle" /\ batch = <<>>
    /\ cut = FALSE /\ lost = {} /\ repeated = {}

MCInit ==
    /\ area \in Areas
    /\ AccessInit /\ (area # "access" => passwordFile = <<>>)
    /\ SettingsInit /\ (area # "settings" => settings.pool = <<>>)
    /\ KeysInit /\ PoolInit /\ DeploymentsInit
    /\ Cleanup!Init /\ (area # "cleanup" => chats = 0)
    /\ BenchInit /\ IF area = "usage" THEN InitUsage ELSE FullLog
MCNext ==
    \/ area = "access" /\ AccessNext /\ UNCHANGED <<sweepVars, keyVars, settingsVars, poolVars, deploymentVars, vars, area>>
    \/ area = "keys" /\ KeysNext /\ UNCHANGED <<sweepVars, accessVars, settingsVars, poolVars, deploymentVars, vars, area>>
    \/ area = "settings" /\ SettingsNext /\ UNCHANGED <<sweepVars, accessVars, keyVars, poolVars, deploymentVars, vars, area>>
    \/ area = "pool" /\ PoolNext /\ UNCHANGED <<sweepVars, accessVars, keyVars, settingsVars, deploymentVars, vars, area>>
    \/ area = "deployments" /\ DeploymentsNext /\ UNCHANGED <<sweepVars, accessVars, keyVars, settingsVars, poolVars, vars, area>>
    \/ area = "cleanup" /\ Cleanup!Next
       /\ UNCHANGED <<accessVars, keyVars, settingsVars, poolVars, deploymentVars, vars, area>>
    \/ area = "benchmark" /\ Next
       /\ UNCHANGED <<sweepVars, accessVars, keyVars, settingsVars, poolVars, deploymentVars, area>>
    \/ area = "usage" /\ Next /\ started' <= 1
       /\ UNCHANGED <<sweepVars, accessVars, keyVars, settingsVars, poolVars, deploymentVars, area>>
MCSpec ==
    /\ MCInit
    /\ [][MCNext]_<<sweepVars, accessVars, keyVars, settingsVars, poolVars, deploymentVars, vars, area>>
    /\ BenchFairness

(* A clean-up that ends because a round deleted nothing, and missed        *)
(* nothing, leaves nothing old behind (CloudSweep, of                      *)
(* CleanupOldConversations).                                               *)
CleanMeansClean == Cleanup!CleanMeansClean

ThePasswords == {"admin123", "first", "second"}
TheWorking == {3}
TheLists == {<<>>, <<p, q>>, <<p, p>>}
TheTasks == <<"coding", "reasoning">>
Both == {<<1, 2>>}
Grades == [start |-> 1, worse |-> 0, full |-> 3]
=============================================================================
