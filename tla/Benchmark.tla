------------------------------ MODULE Benchmark ------------------------------
(***************************************************************************)
(* The benchmark of internal/web/benchmark.go: the single store of the     *)
(* current run, the console's start and stop, and a goroutine per started  *)
(* run that works through the tasks.  In a task the model is asked for at  *)
(* most MaxSteps replies, each a chat through the gateway's own handler    *)
(* that leaves a usage record.                                             *)
(*                                                                         *)
(* A workspace is reduced to what the graders say of its contents: Score,  *)
(* or "tampered" when a protected input was changed.  A reply holds at     *)
(* most one call; reading and listing files is one kind of call.           *)
(***************************************************************************)
EXTENDS UsageLog

CONSTANTS
    Category,    \* of each task, "coding" or "reasoning", in the catalog's order
    Selections,  \* sequences of tasks that may be started
    Score,       \* contents of the workspace |-> checks passed
    Total,       \* checks of a task
    MaxSteps,    \* benchMaxSteps, 14 in the code
    MaxForced,   \* maxForcedClosures, 3 in the code
    MaxRuns      \* bound: runs ever started

ASSUME BenchAssumption ==
    /\ {MaxSteps, MaxForced, MaxRuns, Total} \subseteq Nat
    /\ "start" \in DOMAIN Score /\ Score \in [DOMAIN Score -> 0..Total]
    /\ Selections \subseteq Seq(DOMAIN Category)

VARIABLES
    run,        \* benchmarkStore.run
    job,        \* the goroutine of each started run
    started,    \* runs started so far
    overlap     \* history: a run was started while the stopped one still ran
benchVars == <<run, job, started, overlap>>
vars == <<benchVars, usageVars>>

Jobs == 1..MaxRuns
Contents == DOMAIN Score \cup {"tampered"}
Passed(content) == IF content = "tampered" THEN 0 ELSE Score[content]

NoJob == [at |-> "none", left |-> <<>>, step |-> 0, forced |-> 0, content |-> "start",
          testsPass |-> FALSE, cancelled |-> FALSE, result |-> <<>>]
Idle == [state |-> "idle", id |-> 0, current |-> 0, tasks |-> <<>>, cancel |-> 0, selected |-> <<>>]

BenchInit == run = Idle /\ job = [j \in Jobs |-> NoJob] /\ started = 0 /\ overlap = FALSE
Init == BenchInit /\ InitUsage

Alive(j) == job[j].at \notin {"none", "over"}
SetJob(j, new) == job' = [job EXCEPT ![j] = new]

-----------------------------------------------------------------------------
(* Variant: a start does not look at the state. *)
StartAnyway(sel) ==
    /\ started < MaxRuns
    /\ started' = started + 1
    /\ run' = [Idle EXCEPT !.state = "running", !.id = started', !.cancel = started', !.selected = sel]
    /\ SetJob(started', [NoJob EXCEPT !.at = "begin", !.left = sel])
    /\ UNCHANGED <<overlap, usageVars>>
(* startBenchmark: refused while the store says "running".                 *)
Start(sel) ==
    /\ started < MaxRuns /\ run.state # "running"
    /\ started' = started + 1
    /\ run' = [Idle EXCEPT !.state = "running", !.id = started', !.cancel = started', !.selected = sel]
    /\ SetJob(started', [NoJob EXCEPT !.at = "begin", !.left = sel])
    /\ overlap' = (overlap \/ \E j \in Jobs : Alive(j))
    /\ UNCHANGED usageVars

(* benchmarkStore.stop: the context is cancelled and the state changes at  *)
(* once; the goroutine notices later.                                      *)
Stop ==
    /\ run.state = "running" /\ run.cancel # 0
    /\ run' = [run EXCEPT !.state = "cancelled"]
    /\ job' = [job EXCEPT ![run.cancel].cancelled = TRUE]
    /\ UNCHANGED <<started, overlap, usageVars>>

-----------------------------------------------------------------------------
(* The goroutine names its next task in the store, whoever's run that is,  *)
(* and enters runBenchTask with a fresh workspace.                         *)
BeginTask(j) ==
    /\ job[j].at = "begin" /\ job[j].left # <<>>
    /\ run' = IF run.state = "running" THEN [run EXCEPT !.current = Head(job[j].left)] ELSE run
    /\ SetJob(j, [job[j] EXCEPT !.at = "head", !.step = 0, !.forced = 0, !.content = "start",
                                !.testsPass = FALSE])
    /\ UNCHANGED <<started, overlap, usageVars>>

Result(j, status, net) ==
    [task |-> Head(job[j].left), status |-> status, net |-> net, content |-> job[j].content]
Deliver(j, status, net) ==
    SetJob(j, [job[j] EXCEPT !.at = "append", !.result = <<Result(j, status, net)>>, !.step = 0,
                             !.forced = 0, !.testsPass = FALSE, !.content = "start"])

(* The head of the loop looks at the context, then the chat is under way.  *)
NextStep(j) ==
    /\ job[j].at = "head"
    /\ IF job[j].step >= MaxSteps THEN SetJob(j, [job[j] EXCEPT !.at = "grade"])
       ELSE IF job[j].cancelled THEN Deliver(j, "cancelled", 0)
       ELSE SetJob(j, [job[j] EXCEPT !.at = "chat", !.step = @ + 1])
    /\ UNCHANGED <<run, started, overlap, usageVars>>

(* recordBenchUsage, deferred by benchChat: made whether the chat failed.  *)
RecordChat == Record
(* benchChat fails, also when it is cancelled.                             *)
ChatFails(j) ==
    /\ job[j].at = "chat"
    /\ Deliver(j, "error", 0)
    /\ RecordChat /\ UNCHANGED <<run, started, overlap>>

Coding(j) == Category[Head(job[j].left)] = "coding"
Back(j) == [job[j] EXCEPT !.at = "head"]

(* A reply without a call: a coding task whose tests have not passed is    *)
(* pushed on, MaxForced times in a row.                                    *)
ReplyText(j) ==
    /\ job[j].at = "chat"
    /\ IF Coding(j) /\ ~job[j].testsPass /\ job[j].forced < MaxForced
       THEN SetJob(j, [Back(j) EXCEPT !.forced = @ + 1])
       ELSE SetJob(j, [job[j] EXCEPT !.at = "grade"])
    /\ RecordChat /\ UNCHANGED <<run, started, overlap>>

(* A reply with a call, executed in the workspace.  Writing does not reset *)
(* testsPass.                                                              *)
ReplyRead(j) ==
    /\ job[j].at = "chat"
    /\ SetJob(j, [Back(j) EXCEPT !.forced = 0])
    /\ RecordChat /\ UNCHANGED <<run, started, overlap>>
ReplyWrite(j, content) ==
    /\ job[j].at = "chat"
    /\ SetJob(j, [Back(j) EXCEPT !.forced = 0, !.content = content])
    /\ RecordChat /\ UNCHANGED <<run, started, overlap>>
ReplyTests(j) ==
    /\ job[j].at = "chat"
    /\ SetJob(j, [Back(j) EXCEPT !.forced = 0, !.testsPass = Total > 0 /\ Passed(job[j].content) = Total])
    /\ RecordChat /\ UNCHANGED <<run, started, overlap>>

(* Variant: only a run of the tests that passed counts. *)
NetOfLastTests(j) ==
    LET passed == Passed(job[j].content)
        net == IF Coding(j) /\ ~job[j].testsPass THEN Score["start"] ELSE passed
    IN IF net < Score["start"] THEN Score["start"] ELSE net
(* The score: the floor, which the untouched workspace has, when a coding  *)
(* task has neither run its tests successfully nor ends in a full score.   *)
Net(j) ==
    LET passed == Passed(job[j].content)
        closed == job[j].testsPass \/ (Total > 0 /\ passed = Total)
        net == IF Coding(j) /\ ~closed THEN Score["start"] ELSE passed
    IN IF net < Score["start"] THEN Score["start"] ELSE net
Grade(j) ==
    /\ job[j].at = "grade"
    /\ IF job[j].content = "tampered" THEN Deliver(j, "error", 0) ELSE Deliver(j, "done", Net(j))
    /\ UNCHANGED <<run, started, overlap, usageVars>>

(* The result goes to the store if that is running; the model keeps there  *)
(* whose result it is.                                                     *)
AppendResult(j) ==
    LET result == job[j].result[1]
    IN /\ job[j].at = "append"
       /\ run' = IF run.state = "running"
                 THEN [run EXCEPT !.tasks = Append(@, [run |-> j, task |-> result.task])] ELSE run
       /\ SetJob(j, [job[j] EXCEPT !.at = "begin", !.result = <<>>,
                                   !.left = IF result.status = "cancelled" THEN <<>> ELSE Tail(@)])
       /\ UNCHANGED <<started, overlap, usageVars>>

FinishRun(j) ==
    /\ job[j].at = "begin" /\ job[j].left = <<>>
    /\ run' = [run EXCEPT !.state = IF @ = "running" THEN "done" ELSE @, !.current = 0, !.cancel = 0]
    /\ SetJob(j, [NoJob EXCEPT !.at = "over"])
    /\ UNCHANGED <<started, overlap, usageVars>>

(* Variant: a panic is only caught. *)
PanicCaught(j) ==
    /\ Alive(j)
    /\ SetJob(j, [NoJob EXCEPT !.at = "over"])
    /\ UNCHANGED <<run, started, overlap, usageVars>>
(* A panic of the goroutine, outside the chat, which catches its own.      *)
Panic(j) ==
    /\ Alive(j) /\ job[j].at # "chat"
    /\ run' = [run EXCEPT !.state = "error", !.current = 0]
    /\ SetJob(j, [NoJob EXCEPT !.at = "over"])
    /\ UNCHANGED <<started, overlap, usageVars>>

(* The process ends and is started again: runs are in memory only.         *)
Restart ==
    /\ RestartLog
    /\ run' = Idle /\ job' = [j \in Jobs |-> NoJob] /\ overlap' = FALSE
    /\ UNCHANGED started

-----------------------------------------------------------------------------
AtWork(j) ==
    \/ BeginTask(j) \/ NextStep(j) \/ Grade(j) \/ AppendResult(j) \/ FinishRun(j)
    \/ ChatFails(j) \/ ReplyText(j) \/ ReplyRead(j) \/ ReplyTests(j)
    \/ \E content \in Contents : ReplyWrite(j, content)
Flushing == FlushUsage /\ UNCHANGED benchVars
OtherRequest == Record /\ UNCHANGED benchVars
Next ==
    \/ \E sel \in Selections : Start(sel)
    \/ Stop
    \/ \E j \in Jobs : AtWork(j) \/ Panic(j)
    \/ Flushing \/ OtherRequest \/ Restart

(* A goroutine is scheduled and its chat ends within four minutes.         *)
BenchFairness == \A j \in Jobs : WF_vars(AtWork(j))
Spec == Init /\ [][Next]_vars /\ BenchFairness

-----------------------------------------------------------------------------
(* A run that is done has a result of its own for each of the tasks it was *)
(* started with, in their order, unless it was started while the goroutine *)
(* of a stopped run was still at work (benchmark.go:1016-1017).            *)
CompleteRun ==
    run.state = "done" /\ ~overlap =>
        /\ Len(run.tasks) = Len(run.selected)
        /\ \A i \in DOMAIN run.tasks : /\ run.tasks[i].run = run.id
                                       /\ run.tasks[i].task = run.selected[i]

(* Whatever the order of writes and test runs, a task that ends in a full  *)
(* workspace gets the full score, and no task gets less than the untouched *)
(* workspace or, in the end, something for a tampered one                  *)
(* (benchmark.go:974-982).                                                 *)
WorkIsCredited ==
    \A j \in Jobs : job[j].at = "append" =>
        LET result == job[j].result[1]
        IN /\ result.status = "done" =>
                 /\ result.content # "tampered" /\ result.net >= Score["start"]
                 /\ Passed(result.content) = Total => result.net = Total
           /\ result.status # "done" => result.net = 0

(* A benchmark that is running comes to an end by itself: every task is    *)
(* bounded, and a panic settles the state.                                 *)
BenchEnds == (run.state = "running") ~> (run.state # "running")
=============================================================================
