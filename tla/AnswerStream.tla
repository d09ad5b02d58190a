---------------------------- MODULE AnswerStream ----------------------------
(***************************************************************************)
(* What a streamed chat completion promises the client (the SSE protocol   *)
(* of openaiChat, internal/web/server.go): text is only ever added, the    *)
(* stream ends once, and nothing is said after its end.                    *)
(***************************************************************************)
EXTENDS Sequences, SequencesExt

CONSTANT Symbols    \* what text consists of

VARIABLES
    shown,  \* the text sent to the client
    end     \* "none", or how the stream has ended

stream == <<shown, end>>

Ways == {"stop", "tools", "error"}

Init == shown = <<>> /\ end = "none"

Longer == shown' \in Seq(Symbols) /\ IsPrefix(shown, shown')

(* More text.                                                              *)
More == end = "none" /\ Longer /\ UNCHANGED end

(* The finish chunk, with the last of the text, or an error event.         *)
Close == end = "none" /\ Longer /\ end' \in Ways

Spec == Init /\ [][More \/ Close]_stream
=============================================================================
