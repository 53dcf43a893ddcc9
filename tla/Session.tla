------------------------------- MODULE Session -------------------------------
(***************************************************************************)
(* The client-facing server loop of src/src/server.rs with the audit trail *)
(* of src/src/audit.rs and the process around them (cmd_run of             *)
(* src/src/main.rs): lines are read one by one, each handler writes its    *)
(* audit events and then at most one reply line, and an allowed tools/call *)
(* runs a guest through the Runner, of which only the contract ToolCall is *)
(* assumed. A write to the audit file may fail whole or half way, a reply  *)
(* may find stdout closed, and the process may be killed at any point.     *)
(*                                                                         *)
(* A request is named by the number of its line. JSON, ids and wording are *)
(* left out: a line is one of the kinds the handlers tell apart.           *)
(***************************************************************************)
EXTENDS Integers, Sequences, FiniteSets

CONSTANTS
  Probed,     \* the names of the tools the guest listed when it was probed
  Names,      \* the names a client may put into tools/call
  Decision,   \* Policy::decide: "allow", "deny_policy" or "deny_unlisted"
  Outcomes,   \* what Runner::call may return: "completed" or a FailClass
  None,       \* no call, no reply pending
  MaxLines,   \* bound: how many lines the client sends
  MaxFaults   \* bound: how many writes fail

ASSUME NamesAssumption == Probed \subseteq Names
ASSUME PolicyAssumption ==
  Decision \in [Names -> {"allow", "deny_policy", "deny_unlisted"}]
ASSUME BoundsAssumption == MaxLines \in Nat /\ MaxFaults \in Nat

(* What a reply says: a result, an error, or the outcome of a failed call. *)
Codes ==
  {"result", "guest_error", "invalid_request", "method_not_found", "not_initialized",
   "invalid_params", "policy_denied"} \cup Outcomes

AnswerSet == [line: 1..MaxLines, code: Codes]

ASSUME NoneAssumption == None \notin 1..MaxLines \cup AnswerSet

VARIABLES
  stage,        \* where the main thread is in its loop
  inputs,       \* the lines read so far
  initialized,  \* Session.initialized
  calls,        \* Session.calls
  events,       \* audit events the handler has still to log
  answer,       \* the reply the handler has still to write
  audit,        \* the lines of the audit file
  torn,         \* the audit file ends in the middle of a line
  lost,         \* the events Auditor.dropped counts
  replies,      \* the replies that reached the client
  faults,       \* how many writes have failed
  ran,          \* the calls whose guest was ever started
  open, acting, outcome  \* the Runner, see ToolCall

io == <<audit, torn, lost, replies, faults>>
runner == <<ran, open, acting, outcome>>
vars == <<stage, inputs, initialized, calls, events, answer, io, runner>>

Runner == INSTANCE ToolCall WITH Calls <- 1..MaxLines

-----------------------------------------------------------------------------

Kinds == {"blank", "malformed", "notification", "initialized", "initialize", "ping",
          "unknown_method", "list", "call_unnamed"}

Lines == [kind: Kinds, tool: {None}] \cup [kind: {"call"}, tool: Names]

IsRequest(l) == l.kind \notin {"blank", "notification", "initialized"}

(* The line being handled once it was read, and the one to be read next. *)
Current == Len(inputs)
Fresh == Len(inputs) + 1

(* An event's data, as far as the properties read it. *)
Event(kind, line, decision, result) ==
  [event |-> kind, line |-> line, decision |-> decision, result |-> result, calls |-> 0]

(* visible_tool_defs: what tools/list shows. *)
Visible == {t \in Probed : Decision[t] = "allow"}

(* handle_line takes the next line once the last one is done with. *)
Idle == stage = "reading" /\ events = <<>> /\ answer = None

Read(l) ==
  /\ Idle
  /\ Len(inputs) < MaxLines
  /\ inputs' = Append(inputs, l)
  /\ UNCHANGED <<io, runner>>

(* Mutant: the reply carries the id of the request before. *)
StaleDone(log, code) ==
  /\ events' = log
  /\ answer' = [line |-> Current, code |-> code]
  /\ UNCHANGED <<stage, initialized, calls>>

(* The handler's result: events for the audit trail, a reply to write. *)
Done(log, code) ==
  /\ events' = log
  /\ answer' = [line |-> Fresh, code |-> code]
  /\ UNCHANGED <<stage, initialized, calls>>

-----------------------------------------------------------------------------
(* handle_line and handle_request. *)

(* Mutant: a notification is answered. *)
AnswerNotification(l) ==
  /\ l.kind \in {"blank", "notification"}
  /\ Read(l)
  /\ Done(<<>>, "method_not_found")

Ignore(l) ==
  /\ l.kind \in {"blank", "notification"}
  /\ Read(l)
  /\ UNCHANGED <<stage, initialized, calls, events, answer>>

Initialized(l) ==
  /\ l.kind = "initialized"
  /\ Read(l)
  /\ initialized' = TRUE
  /\ UNCHANGED <<stage, calls, events, answer>>

Malformed(l) ==
  /\ l.kind = "malformed"
  /\ Read(l)
  /\ Done(<<>>, "invalid_request")

Initialize(l) ==
  /\ l.kind = "initialize"
  /\ Read(l)
  /\ Done(<<Event("client_initialize", Fresh, "", "")>>, "result")

Ping(l) ==
  /\ l.kind = "ping"
  /\ Read(l)
  /\ Done(<<>>, "result")

UnknownMethod(l) ==
  /\ l.kind = "unknown_method"
  /\ Read(l)
  /\ Done(<<>>, "method_not_found")

NotInitialized(l) ==
  /\ l.kind \in {"list", "call_unnamed", "call"}
  /\ ~ initialized
  /\ Read(l)
  /\ Done(<<>>, "not_initialized")

(* handle_list: which cursors are good is the business of Pagination. *)
List(l) ==
  /\ l.kind = "list"
  /\ initialized
  /\ Read(l)
  /\ \/ Done(<<Event("tools_list", Fresh, "", "ok")>>, "result")
     \/ Done(<<Event("tools_list", Fresh, "", "invalid_cursor")>>, "invalid_params")

-----------------------------------------------------------------------------
(* handle_call. *)

(* Mutant: the call is counted before its name is looked at. *)
CountUnnamed(l) ==
  /\ l.kind = "call_unnamed"
  /\ initialized
  /\ Read(l)
  /\ calls' = calls + 1
  /\ events' = <<>>
  /\ answer' = [line |-> Fresh, code |-> "invalid_params"]
  /\ UNCHANGED <<stage, initialized>>

CallUnnamed(l) ==
  /\ l.kind = "call_unnamed"
  /\ initialized
  /\ Read(l)
  /\ Done(<<>>, "invalid_params")

Refuse(l, decision, code) ==
  /\ Read(l)
  /\ calls' = calls + 1
  /\ events' = <<Event("call", Fresh, decision, "")>>
  /\ answer' = [line |-> Fresh, code |-> code]
  /\ UNCHANGED <<stage, initialized>>

CallUnknown(l) ==
  /\ l.kind = "call"
  /\ initialized
  /\ l.tool \notin Probed
  /\ Refuse(l, "deny_unknown_tool", "invalid_params")

CallDenied(l) ==
  /\ l.kind = "call"
  /\ initialized
  /\ l.tool \in Probed
  /\ Decision[l.tool] # "allow"
  /\ Refuse(l, Decision[l.tool], "policy_denied")

(* Mutant: tools/call does not ask for initialized. *)
CallUninitialized(l) ==
  /\ l.kind = "call"
  /\ l.tool \in Probed
  /\ Decision[l.tool] = "allow"
  /\ Read(l)
  /\ calls' = calls + 1
  /\ stage' = "calling"
  /\ UNCHANGED <<initialized, events, answer>>

CallAllowed(l) ==
  /\ l.kind = "call"
  /\ initialized
  /\ l.tool \in Probed
  /\ Decision[l.tool] = "allow"
  /\ Read(l)
  /\ calls' = calls + 1
  /\ stage' = "calling"
  /\ UNCHANGED <<initialized, events, answer>>

(* Runner::call starts the guest; see Sandbox. *)
BeginCall ==
  /\ stage = "calling"
  /\ Runner!Begin(Current)
  /\ ran' = ran \cup {Current}
  /\ stage' = "running"
  /\ UNCHANGED <<inputs, initialized, calls, events, answer, io>>

(* Mutant: the reply waits for the guest to be gone, whatever the outcome. *)
EndStoppedCall(o) ==
  /\ stage = "running"
  /\ open \notin acting
  /\ Runner!Answer(o)
  /\ stage' = "reading"
  /\ events' = <<Event("call", Current, "allow", o)>>
  /\ answer' = [line |-> Current, code |-> IF o = "completed" THEN "result" ELSE o]
  /\ UNCHANGED <<inputs, initialized, calls, io, ran>>

(* Runner::call returns: a completed call carries a result or an error of  *)
(* the guest's, a failed one its class.                                    *)
EndCall(o) ==
  /\ stage = "running"
  /\ Runner!Answer(o)
  /\ stage' = "reading"
  /\ events' = <<Event("call", Current, "allow", o)>>
  /\ \E code \in IF o = "completed" THEN {"result", "guest_error"} ELSE {o} :
       answer' = [line |-> Current, code |-> code]
  /\ UNCHANGED <<inputs, initialized, calls, io, ran>>

GuestStops ==
  /\ \E c \in 1..MaxLines : Runner!Stop(c)
  /\ UNCHANGED <<stage, inputs, initialized, calls, events, answer, io, ran>>

-----------------------------------------------------------------------------
(* Auditor::log, the reply, and the end of the process. *)

Log ==
  /\ events # <<>>
  /\ events' = Tail(events)
  /\ \/ /\ audit' = Append(audit, [event |-> Head(events), alone |-> ~ torn])
        /\ torn' = FALSE
        /\ UNCHANGED <<lost, faults>>
     \/ /\ faults < MaxFaults
        /\ faults' = faults + 1
        /\ lost' = Append(lost, Head(events))
        /\ torn' \in {torn, TRUE}
        /\ UNCHANGED audit
  /\ UNCHANGED <<stage, inputs, initialized, calls, answer, replies, runner>>

(* Mutant: the reply is written before the event is logged. *)
ReplyFirst ==
  /\ stage = "reading"
  /\ answer # None
  /\ answer' = None
  /\ \/ replies' = Append(replies, answer) /\ UNCHANGED faults
     \/ faults < MaxFaults /\ faults' = faults + 1 /\ UNCHANGED replies
  /\ UNCHANGED <<stage, inputs, initialized, calls, events, audit, torn, lost, runner>>

(* handle_line writes the reply; a failed write is ignored. *)
Reply ==
  /\ stage = "reading"
  /\ events = <<>>
  /\ answer # None
  /\ answer' = None
  /\ \/ replies' = Append(replies, answer) /\ UNCHANGED faults
     \/ faults < MaxFaults /\ faults' = faults + 1 /\ UNCHANGED replies
  /\ UNCHANGED <<stage, inputs, initialized, calls, events, audit, torn, lost, runner>>

(* EOF, or a line that is not UTF-8: the loop ends and finish() logs. *)
Finish ==
  /\ Idle
  /\ stage' = "closing"
  /\ events' = <<[Event("session_end", Current, "", "") EXCEPT !.calls = calls]>>
  /\ UNCHANGED <<inputs, initialized, calls, answer, io, runner>>

Die ==
  /\ stage' = "stopped"
  /\ Runner!Crash
  /\ events' = <<>>
  /\ answer' = None
  /\ UNCHANGED <<inputs, initialized, calls, io, ran>>

Exit == stage = "closing" /\ events = <<>> /\ Die

(* A panic of the main thread, thread::spawn's among them. *)
RunnerPanics == stage = "calling" /\ Die

(* The process is killed from outside. *)
Kill == stage # "stopped" /\ Die

Stopped == stage = "stopped" /\ UNCHANGED vars

-----------------------------------------------------------------------------

Init ==
  /\ stage = "reading"
  /\ inputs = <<>>
  /\ initialized = FALSE
  /\ calls = 0
  /\ events = <<Event("session_start", 0, "", ""), Event("probe", 0, "", "")>>
  /\ answer = None
  /\ audit = <<>>
  /\ torn = FALSE
  /\ lost = <<>>
  /\ replies = <<>>
  /\ faults = 0
  /\ ran = {}
  /\ Runner!Init

HandleLine(l) ==
  \/ Ignore(l)
  \/ Initialized(l)
  \/ Malformed(l)
  \/ Initialize(l)
  \/ Ping(l)
  \/ UnknownMethod(l)
  \/ NotInitialized(l)
  \/ List(l)
  \/ CallUnnamed(l)
  \/ CallUnknown(l)
  \/ CallDenied(l)
  \/ CallAllowed(l)

Next ==
  \/ \E l \in Lines : HandleLine(l)
  \/ BeginCall
  \/ \E o \in Outcomes : EndCall(o)
  \/ GuestStops
  \/ Log
  \/ Reply
  \/ Finish
  \/ Exit
  \/ RunnerPanics
  \/ Kill
  \/ Stopped

Spec == Init /\ [][Next]_vars

(* The main thread runs on, and the Runner keeps its contract: a call that *)
(* was begun is answered. Nothing makes the client send or the guest end.  *)
Fairness ==
  /\ WF_vars(BeginCall)
  /\ WF_vars(\E o \in Outcomes : EndCall(o))
  /\ WF_vars(Log)
  /\ WF_vars(Reply)

FairSpec == Spec /\ Fairness

-----------------------------------------------------------------------------
(* Properties. *)

(* The events the handlers logged, whether the sink took them or not. *)
Logged == {audit[i].event : i \in DOMAIN audit} \cup {lost[i] : i \in DOMAIN lost}

CallEvents == {e \in Logged : e.event = "call"}

TypeOK ==
  /\ stage \in {"reading", "calling", "running", "closing", "stopped"}
  /\ inputs \in Seq(Lines)
  /\ initialized \in BOOLEAN
  /\ calls \in Nat
  /\ Len(events) <= 2
  /\ answer \in AnswerSet \cup {None}
  /\ torn \in BOOLEAN
  /\ faults \in 0..MaxFaults
  /\ ran \subseteq 1..MaxLines
  /\ open \in 1..MaxLines \cup {None}
  /\ acting \subseteq 1..MaxLines
  /\ outcome \in [1..MaxLines -> Outcomes \cup {"none"}]

(* Replies come in the order of the requests, at most one to each and none *)
(* to a notification; a request whose handler is done has its reply,       *)
(* whatever became of its audit event, unless stdout refused it.           *)
OneReplyPerRequest ==
  /\ \A i, j \in DOMAIN replies : i < j => replies[i].line < replies[j].line
  /\ \A i \in DOMAIN replies : IsRequest(inputs[replies[i].line])
  /\ Idle /\ faults = Len(lost) =>
       {replies[i].line : i \in DOMAIN replies} = {n \in DOMAIN inputs : IsRequest(inputs[n])}

(* No guest runs, or ever ran, but for a call of a tool that tools/list    *)
(* shows, from a client that had sent notifications/initialized before.    *)
OnlyVisibleToolsRun ==
  \A c \in ran : /\ inputs[c].kind = "call"
                 /\ inputs[c].tool \in Visible
                 /\ \E n \in 1..(c - 1) : inputs[n].kind = "initialized"

(* No call is answered before its audit event was handed to the sink, and  *)
(* the event says what the client was told.                                *)
Tells(e, code) ==
  CASE e.decision = "allow"             -> \/ e.result = code
                                           \/ e.result = "completed" /\ code \in {"result", "guest_error"}
    [] e.decision = "deny_unknown_tool" -> code = "invalid_params"
    [] OTHER                            -> code = "policy_denied"

AnswersAreAudited ==
  \A i \in DOMAIN replies :
    inputs[replies[i].line].kind = "call" /\ replies[i].code # "not_initialized" =>
      \E e \in CallEvents : e.line = replies[i].line /\ Tells(e, replies[i].code)

(* The count session_end reports is the number of call events, each of a   *)
(* call of its own, that were logged or counted as dropped.                *)
SessionEndCounts ==
  \A e \in Logged : e.event = "session_end" =>
    /\ e.calls = Cardinality(CallEvents)
    /\ e.calls = Cardinality({d.line : d \in CallEvents})

(* Every request is answered, unless the process dies: a guest that hangs, *)
(* an audit sink that fails or a reply that is lost does not stop the loop. *)
RequestsEnd ==
  \A n \in 1..MaxLines : Len(inputs) = n ~> (Idle \/ stage \in {"closing", "stopped"})

(* "audit.jsonl <- every decision + outcome": a call that ran has its      *)
(* event, also when the process is gone.                                   *)
RunsAreAudited ==
  stage = "stopped" => \A c \in ran : \E e \in CallEvents : e.line = c

(* "JSONL, one event per line": an event that was not counted as dropped   *)
(* is a line of its own.                                                   *)
OneEventPerLine == \A i \in DOMAIN audit : audit[i].alone

=============================================================================
