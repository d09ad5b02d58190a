----------------------------- MODULE MCToolTurns -----------------------------
(* Four tools, of which one is not declared; the words in their names are  *)
(* those of the lists of agent_ledger.go and settings.go.                  *)
EXTENDS ToolTurns

ToolWords == [read_file |-> {"read"}, write_file |-> {"write"}, run_tests |-> {"run", "test"},
              unknown_tool |-> {}]
SomeArguments == {"a", "b", "bad"}
ClientTools == {"read_file", "write_file", "run_tests"}
Writers == {"write_file"}

CallOf(name, args) == [name |-> name, args |-> args]
Read == CallOf("read_file", "a")
Write == CallOf("write_file", "a")
BadWrite == CallOf("write_file", "bad")
Test == CallOf("run_tests", "a")
Ghost == CallOf("unknown_tool", "a")

Text(directives, envelope, noTool) ==
    [directives |-> directives, enveloped |-> envelope # <<>>, envelope |-> envelope,
     noTool |-> noTool, err |-> FALSE]
Broken == [Text(<<>>, <<>>, FALSE) EXCEPT !.err = TRUE]
Texts == {Text(<<Test>>, <<>>, FALSE), Text(<<Write>>, <<>>, TRUE), Text(<<>>, <<Read, Test>>, FALSE),
          Text(<<Write, Ghost>>, <<>>, FALSE), Text(<<BadWrite>>, <<Write, Read>>, FALSE),
          Text(<<>>, <<Ghost>>, FALSE), Text(<<>>, <<>>, TRUE), Text(<<>>, <<>>, FALSE), Broken}

Reply(fenced, native, says) ==
    [err |-> FALSE, fenced |-> fenced, native |-> native, refuses |-> FALSE, says |-> says]
Replies == {Reply(<<>>, <<>>, "plain"), Reply(<<>>, <<>>, "claim"), Reply(<<BadWrite>>, <<>>, "hedge"),
            Reply(<<>>, <<Ghost>>, "plain"), Reply(<<Read, Write>>, <<>>, "plain"),
            Reply(<<Ghost>>, <<Read, CallOf("read_file", "b"), Test>>, "plain"),
            Reply(<<>>, <<Read, CallOf("read_file", "b")>>, "plain"),
            [Reply(<<>>, <<>>, "plain") EXCEPT !.refuses = TRUE], NoAnswer}
Told == {"ok", "failed"}
BothPlannings == {"router", "native"}
TheChoices == {"auto", "required", "none", "run_tests"}
=============================================================================
