----------------------------- MODULE MCTranscript -----------------------------
(* A small instance of Transcript for TLC: objects that answer either id,   *)
(* with a result, an error or neither, and text of one byte and of two.     *)
EXTENDS Transcript

Object(id, has) == [form |-> "object", id |-> id, has |-> has, size |-> 2]
Byte(form) == [form |-> form, id |-> 0, has |-> {}, size |-> 1]

MCPieces ==
  {Byte("newline"), Byte("space"), Byte("text"), Text(2),
   Object(1, {"result"}), Object(2, {}), Object(2, {"result"}), Object(2, {"error"})}
=============================================================================
