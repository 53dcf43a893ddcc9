------------------------------ MODULE Transcript ------------------------------
(***************************************************************************)
(* What the host makes of a guest's stdout: the bounded pipe of execute()  *)
(* in src/src/sandbox.rs, extract_response of src/src/rpc.rs, which call() *)
(* and parse_probe() run over it, and the outcome handle_call reports.     *)
(*                                                                         *)
(* Output is a sequence of pieces, as coarse as the host can tell apart:   *)
(* newlines, white space, whole JSON objects, and text, which is anything  *)
(* that neither is an object nor can be part of one.                       *)
(***************************************************************************)
EXTENDS Integers, Sequences, FiniteSets, FiniteSetsExt

CONSTANTS
  Pieces,     \* what a guest may print
  OutputMax,  \* limits.output_max_kb, in bytes
  Slack,      \* OUTPUT_SLACK_BYTES
  MaxPieces   \* bound: how many pieces a guest prints

Piece ==
  [form: {"newline", "space", "text", "object"}, id: {0, 1, 2},
   has: SUBSET {"result", "error"}, size: Nat \ {0}]

ASSUME PiecesAssumption == \A p \in Pieces : p \in Piece
ASSUME BytesAssumption == OutputMax \in Nat /\ Slack \in Nat \ {0} /\ MaxPieces \in Nat

VARIABLES
  scan,     \* a call's scan, or one of the two of the probe, and the id it wants
  stage,    \* the guest runs, the host scans, or all is done
  printed,  \* everything the guest has tried to print
  stdout,   \* what the pipe took of it
  bytes,    \* how many bytes that is
  exit,     \* how the guest ended, or that it was abandoned
  pos,      \* how many pieces of stdout are scanned
  line,     \* where the pieces of the scanned line are, white space aside
  found,    \* where the response is, 0 if there is none
  garbage,  \* how many lines were no objects
  rpc,      \* how many lines were objects
  outcome   \* what comes of it

scanner == <<pos, line, found, garbage, rpc>>
vars == <<scan, stage, printed, stdout, bytes, exit, scanner, outcome>>

-----------------------------------------------------------------------------
(* The guest, and the pipe it prints to. *)

Scans == [of: {"call"}, want: {2}] \cup [of: {"probe"}, want: {1, 2}]

(* Mutant: the pipe is cut at output_max_kb itself. *)
NoSlack == OutputMax

StdoutCap == OutputMax + Slack

Text(n) == [form |-> "text", id |-> 0, has |-> {}, size |-> n]

(* What of a piece fits; half an object is text. *)
Fitting(piece, room) ==
  IF piece.size <= room THEN <<piece>> ELSE IF room > 0 THEN <<Text(room)>> ELSE <<>>

(* Mutant: the pipe does not stop at its capacity. *)
EmitOn(piece) ==
  /\ stage = "guest"
  /\ Len(printed) < MaxPieces
  /\ printed' = Append(printed, piece)
  /\ stdout' = Append(stdout, piece)
  /\ bytes' = bytes + piece.size
  /\ UNCHANGED <<scan, stage, exit, scanner, outcome>>

Emit(piece) ==
  /\ stage = "guest"
  /\ Len(printed) < MaxPieces
  /\ printed' = Append(printed, piece)
  /\ stdout' = stdout \o Fitting(piece, StdoutCap - bytes)
  /\ bytes' = IF bytes + piece.size <= StdoutCap THEN bytes + piece.size ELSE StdoutCap
  /\ UNCHANGED <<scan, stage, exit, scanner, outcome>>

Exits == {"clean", "exit", "trap", "hosterror"}

(* What keeps the output from being looked at: its size, for a call, and   *)
(* a failure of the host, for the probe.                                   *)
Unscanned(kind) ==
  IF scan.of = "call" /\ bytes > OutputMax THEN "output_overflow"
  ELSE IF scan.of = "probe" /\ kind = "hosterror" THEN "hosterror" ELSE "none"

End(kind) ==
  /\ stage = "guest"
  /\ exit' = kind
  /\ outcome' = Unscanned(kind)
  /\ stage' = IF outcome' = "none" THEN "scanning" ELSE "done"
  /\ UNCHANGED <<scan, printed, stdout, bytes, scanner>>

(* Mutant: a guest that is given up leaves behind what it printed so far. *)
AbandonWithOutput ==
  /\ stage = "guest"
  /\ exit' = "abandoned"
  /\ stage' = "scanning"
  /\ UNCHANGED <<scan, printed, stdout, bytes, scanner, outcome>>

(* The host gives up waiting for the guest: an empty stdout is looked at   *)
(* in place of what it printed.                                            *)
Abandon ==
  /\ stage = "guest"
  /\ exit' = "abandoned"
  /\ stdout' = <<>> /\ bytes' = 0
  /\ stage' = "scanning"
  /\ UNCHANGED <<scan, printed, scanner, outcome>>

-----------------------------------------------------------------------------
(* extract_response. *)

IsObject(at) == \E i \in at : at = {i} /\ stdout[i].form = "object"

Place(at) == CHOOSE i \in at : TRUE

(* Mutant: the last response wins. *)
LastMatch(at) ==
  IF IsObject(at) /\ stdout[Place(at)].id = scan.want /\ stdout[Place(at)].has # {}
    THEN Place(at) ELSE found

Match(at) ==
  IF found = 0 /\ IsObject(at) /\ stdout[Place(at)].id = scan.want /\ stdout[Place(at)].has # {}
    THEN Place(at) ELSE found

(* Mutant: blank lines are garbage too. *)
CountBlankLines(at) ==
  /\ found' = Match(at)
  /\ rpc' = IF IsObject(at) THEN rpc + 1 ELSE rpc
  /\ garbage' = IF ~ IsObject(at) THEN garbage + 1 ELSE garbage

(* One line of stdout, which is blank if nothing is left of it. *)
ParseLine(at) ==
  /\ found' = Match(at)
  /\ rpc' = IF IsObject(at) THEN rpc + 1 ELSE rpc
  /\ garbage' = IF at # {} /\ ~ IsObject(at) THEN garbage + 1 ELSE garbage

ScanPiece ==
  /\ stage = "scanning"
  /\ pos < Len(stdout)
  /\ pos' = pos + 1
  /\ \/ /\ stdout[pos + 1].form = "newline"
        /\ ParseLine(line)
        /\ line' = {}
     \/ /\ stdout[pos + 1].form = "space"
        /\ UNCHANGED <<line, found, garbage, rpc>>
     \/ /\ stdout[pos + 1].form \in {"text", "object"}
        /\ line' = line \cup {pos + 1}
        /\ UNCHANGED <<found, garbage, rpc>>
  /\ UNCHANGED <<scan, stage, printed, stdout, bytes, exit, outcome>>

(* The last line has no newline, and may be empty. *)
ScanEnd ==
  /\ stage = "scanning"
  /\ pos = Len(stdout)
  /\ ParseLine(line)
  /\ line' = {}
  /\ stage' = "scanned"
  /\ UNCHANGED <<scan, printed, stdout, bytes, exit, pos, outcome>>

-----------------------------------------------------------------------------
(* What comes of the response, or of its absence. *)

ClassOfExit ==
  CASE exit = "trap"      -> "guest_trap"
    [] exit = "hosterror" -> "internal"
    [] exit = "exit"      -> "guest_exit"
    [] exit = "abandoned" -> "timeout"
    [] OTHER              -> "no_response"

ReplyOutcome(has) ==
  CASE "result" \in has           -> "ok"
    [] has = {"error"}            -> "guest_rpc_error"
    [] OTHER                      -> "invalid_guest_response"

Conclude ==
  /\ stage = "scanned"
  /\ stage' = "done"
  /\ outcome' = IF found = 0 THEN ClassOfExit ELSE ReplyOutcome(stdout[found].has)
  /\ UNCHANGED <<scan, printed, stdout, bytes, exit, scanner>>

Done == stage = "done" /\ UNCHANGED vars

Init ==
  /\ scan \in Scans
  /\ stage = "guest"
  /\ printed = <<>> /\ stdout = <<>> /\ bytes = 0
  /\ exit = "none"
  /\ pos = 0 /\ line = {}
  /\ found = 0 /\ garbage = 0 /\ rpc = 0
  /\ outcome = "none"

Next ==
  \/ \E piece \in Pieces : Emit(piece)
  \/ \E kind \in Exits : End(kind)
  \/ Abandon
  \/ ScanPiece
  \/ ScanEnd
  \/ Conclude
  \/ Done

Spec == Init /\ [][Next]_vars

-----------------------------------------------------------------------------
(* Properties. *)

TypeOK ==
  /\ scan \in Scans
  /\ stage \in {"guest", "scanning", "scanned", "done"}
  /\ printed \in Seq(Piece) /\ stdout \in Seq(Piece)
  /\ bytes \in 0..StdoutCap
  /\ exit \in Exits \cup {"none", "abandoned"}
  /\ pos \in 0..Len(stdout) /\ line \subseteq 1..pos /\ found \in 0..pos
  /\ garbage \in Nat /\ rpc \in Nat

(* The reference, over a whole output: which objects have a line of their  *)
(* own, and which of these answer an id.                                   *)
SameLine(out, i, j) == \A k \in (i..j) \cup (j..i) : out[k].form # "newline"

Alone(out, i) ==
  /\ out[i].form = "object"
  /\ \A j \in DOMAIN out \ {i} : SameLine(out, i, j) => out[j].form = "space"

Answers(out, id) == {i \in DOMAIN out : Alone(out, i) /\ out[i].id = id /\ out[i].has # {}}

(* "The first matching response wins": whatever else is printed before it, *)
(* between or after, on lines of its own or in front of a newline that     *)
(* never comes.                                                            *)
FirstAnswerWins ==
  stage = "scanned" =>
    IF Answers(stdout, scan.want) = {} THEN found = 0
    ELSE found = Min(Answers(stdout, scan.want))

(* Every line that is not blank is counted once, as garbage or as an       *)
(* object.                                                                 *)
OpensLine(i) ==
  /\ stdout[i].form \in {"text", "object"}
  /\ \A j \in 1..(i - 1) : SameLine(stdout, j, i) => stdout[j].form = "space"

LinesAreCounted ==
  stage = "scanned" =>
    /\ rpc = Cardinality({i \in DOMAIN stdout : Alone(stdout, i)})
    /\ garbage + rpc = Cardinality({i \in DOMAIN stdout : OpensLine(i)})

(* The outcome of a call whose guest ended is a function of everything the *)
(* guest printed: the cut the pipe makes never shows, neither as a         *)
(* truncated answer nor as one that only looks alone on its line because   *)
(* the rest was cut. And nothing a guest printed, be it an answer or too   *)
(* much, makes anything but a timeout of a guest that was given up.        *)
Printed(out) ==
  LET sum[n \in 0..Len(out)] == IF n = 0 THEN 0 ELSE sum[n - 1] + out[n].size
  IN  sum[Len(out)]

OutcomeFollowsPrint ==
  stage = "done" /\ scan.of = "call" =>
    LET answers == Answers(printed, 2) IN
    outcome = IF exit = "abandoned" THEN "timeout"
              ELSE IF Printed(printed) > OutputMax THEN "output_overflow"
              ELSE IF answers = {} THEN ClassOfExit
              ELSE IF "result" \in printed[Min(answers)].has THEN "ok" ELSE "guest_rpc_error"

=============================================================================
