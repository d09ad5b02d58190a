----------------------------- MODULE AgentLedger -----------------------------
(***************************************************************************)
(* The pure part of the tool loop: the protocol a conversation with tool   *)
(* calls must follow (tool_state.go), the evidence ledger computed from it *)
(* (agent_ledger.go), the trimming to the context budget                   *)
(* (context_budget.go), and what a model's routing text is read as         *)
(* (tool_decision_extract.go) and validated against (toolloop.go).         *)
(*                                                                         *)
(* A message is [role, calls, id, result]; a call is [id, name, args].     *)
(* Every message costs one unit of the budget, and there are no            *)
(* instruction messages.  Schema validation is reduced to the argument     *)
(* "bad", which violates every schema; a result is "ok", "failed" or       *)
(* "empty", which is what the code distinguishes of its text.              *)
(***************************************************************************)
EXTENDS Naturals, Sequences, FiniteSets, FiniteSetsExt, SequencesExt

CONSTANTS
    WordsIn,    \* which of the listed words the name of each tool contains
    Arguments,  \* what a call may have as arguments, "bad" among them
    Declared    \* the tools the client declares

Names == DOMAIN WordsIn
Candidate == [name : Names, args : Arguments]

(* The elements of s that are in S, in the order of s: SelectSeq as a      *)
(* function on the length of s, of which something can be proved.          *)
Among(s, S) ==
    LET among[n \in 0..Len(s)] ==
          IF n = 0 THEN <<>>
          ELSE IF s[n] \in S THEN Append(among[n - 1], s[n]) ELSE among[n - 1]
    IN among[Len(s)]

-----------------------------------------------------------------------------
(* What the gateway takes a tool for, from the words in its name.          *)
ObservationalWords ==
    {"read", "list", "get", "search", "find", "fetch", "inspect", "stat", "status", "describe",
     "info", "test", "check", "verify", "validate", "browser", "lookup", "diff", "log", "show",
     "view", "grep"}
MutatingWords ==
    {"exec", "shell", "command", "write", "edit", "update", "delete", "remove", "move", "rename",
     "create", "patch", "apply", "install", "run"}
ReadOnlyWords ==
    {"read", "list", "search", "find", "get", "fetch", "browser", "lookup", "inspect", "stat",
     "status", "describe", "info"}
Observational(name) == WordsIn[name] \cap ObservationalWords # {}
Mutating(name) == WordsIn[name] \cap MutatingWords # {}
ReadOnly(name) == WordsIn[name] \cap ReadOnlyWords # {}

-----------------------------------------------------------------------------
(* validateToolConversation: the ids waiting for a result and those that   *)
(* have one, and whether every message so far was legal.                   *)
After(s, m) ==
    LET ids == {c.id : c \in ToSet(m.calls)}
    IN IF m.role = "assistant"
       THEN [ok |-> /\ s.ok /\ s.pending = {} /\ ids \cap s.completed = {}
                    /\ Cardinality(ids) = Len(m.calls),
             pending |-> ids, completed |-> s.completed]
       ELSE IF m.role = "tool"
       THEN [ok |-> s.ok /\ m.id \in s.pending,
             pending |-> s.pending \ {m.id}, completed |-> s.completed \cup {m.id}]
       ELSE s
Protocol(ms) ==
    LET state[i \in 0..Len(ms)] ==
          IF i = 0 THEN [ok |-> TRUE, pending |-> {}, completed |-> {}]
          ELSE After(state[i - 1], ms[i])
    IN state[Len(ms)]
ValidConversation(ms) == Protocol(ms).ok /\ Protocol(ms).pending = {}

(* trimMessagesWithBudget: the newest whole user turns that fit; nothing   *)
(* is left, and the request fails, when the latest turn alone does not.    *)
TurnStarts(ms) == {i \in DOMAIN ms : i = 1 \/ ms[i].role = "user"}
Trimmed(ms, budget) ==
    LET fits == {i \in TurnStarts(ms) : Len(ms) - i + 1 <= budget}
    IN IF fits = {} THEN <<>> ELSE SubSeq(ms, Min(fits), Len(ms))

(* activeMessages: from the last user message on.                          *)
ActiveMessages(ms) == SubSeq(ms, Max(TurnStarts(ms)), Len(ms))

-----------------------------------------------------------------------------
(* buildAgentLedger: the calls with and without a result, and how many     *)
(* they are.  A result whose text is blank counts as none.                 *)
Made(ms) == FlattenSeq([i \in DOMAIN ms |-> ms[i].calls])
Ledger(ms) ==
    LET calls == ToSet(Made(ms))
        Result(id) == IF \E i \in DOMAIN ms : ms[i].role = "tool" /\ ms[i].id = id
                      THEN ms[CHOOSE i \in DOMAIN ms : ms[i].role = "tool" /\ ms[i].id = id].result
                      ELSE "empty"
        completed == {c \in calls : Result(c.id) # "empty"}
    IN [completed |-> completed, pending |-> calls \ completed, rounds |-> Len(Made(ms))]

Same(c, d) == c.name = d.name /\ c.args = d.args
HasCompleted(l, c) == \E e \in l.completed : Same(e, c)
HasAnyMutation(l) == \E e \in l.completed : ~Observational(e.name)

(* Variant: every call that already has a result is dropped. *)
FilterCompletedAll(calls, l) == Among(calls, {c \in ToSet(calls) : ~HasCompleted(l, c)})
(* filterCompletedCalls: a call that already has a result is dropped,      *)
(* unless it observes and something may have changed since.                *)
FilterCompleted(calls, l) ==
    Among(calls, {c \in ToSet(calls) :
                     ~HasCompleted(l, c) \/ (Observational(c.name) /\ HasAnyMutation(l))})

CanContinue(l, limit) == l.rounds < limit /\ l.pending = {}

(* completionEvidenceAllows, for an answer that claims a success, admits   *)
(* that it cannot confirm one, or does neither.                            *)
EvidenceAllows(says, l) ==
    /\ l.pending = {}
    /\ IF l.completed = {} THEN says # "claim" ELSE says # "hedge"

-----------------------------------------------------------------------------
(* toolChoiceAllows; a choice other than auto, required and none names one *)
(* tool.                                                                   *)
ChoiceAllows(choice, name) == choice \in {"auto", "required"} \/ choice = name
Acceptable(c, choice) == c.name \in Declared /\ ChoiceAllows(choice, c.name) /\ c.args # "bad"
(* validateDetectedToolCalls, selectAllValid.                              *)
ValidateCalls(calls, choice) == Among(calls, {c \in ToSet(calls) : Acceptable(c, choice)})

(* parseModelToolDecision: the last valid directive, else all valid calls  *)
(* of the envelopes, else the statement that no tool is needed.            *)
NotParsed == [parsed |-> FALSE, calls |-> <<>>]
Decision(text, choice) ==
    LET directives == ValidateCalls(text.directives, choice)
    IN IF directives # <<>> THEN [parsed |-> TRUE, calls |-> <<Last(directives)>>]
       ELSE IF text.enveloped
            THEN [parsed |-> TRUE, calls |-> ValidateCalls(text.envelope, choice)]
            ELSE [parsed |-> text.noTool, calls |-> <<>>]

(* fencedToolCalls (no shell is declared) and nativeToolCalls.             *)
FencedCalls(cands, choice) ==
    Among(cands, {c \in ToSet(cands) : c.name \in Declared /\ ChoiceAllows(choice, c.name)})
NativeCalls(cands) == Among(cands, {c \in ToSet(cands) : c.name \in Declared})

(* Variant: the first call decides for all. *)
LimitOfFirst(calls, configured) ==
    IF Len(calls) < 2 \/ configured < 2 \/ Mutating(calls[1].name) \/ ~ReadOnly(calls[1].name)
    THEN 1 ELSE configured
(* adaptiveToolCallLimit and limitToolCalls.                               *)
LimitOf(calls, configured) ==
    IF \/ Len(calls) < 2 \/ configured < 2
       \/ \E c \in ToSet(calls) : Mutating(c.name) \/ ~ReadOnly(c.name)
    THEN 1 ELSE configured
LimitCalls(calls, configured) ==
    SubSeq(calls, 1, IF Len(calls) < LimitOf(calls, configured) THEN Len(calls)
                     ELSE LimitOf(calls, configured))
=============================================================================
