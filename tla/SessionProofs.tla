--------------------------- MODULE SessionProofs ---------------------------
(***************************************************************************)
(* Theorems about Session, for any policy and guest, any number of lines   *)
(* and any number of failing writes; and about the timestamps of its       *)
(* events, for any time.                                                   *)
(***************************************************************************)
EXTENDS Session, Timestamp, FiniteSetTheorems, TLAPS

EventKinds ==
  {"session_start", "probe", "client_initialize", "tools_list", "call", "session_end"}

Denials == {"deny_policy", "deny_unlisted", "deny_unknown_tool"}

(* What a handler makes of a line, whichever it is: nothing, or a reply,   *)
(* perhaps with an event, or a refused call, or one that is to be run.     *)
Passes(l) ==
  /\ ~ IsRequest(l)
  /\ initialized' = IF l.kind = "initialized" THEN TRUE ELSE initialized
  /\ UNCHANGED <<stage, calls, events, answer>>

Answers(l) ==
  /\ IsRequest(l)
  /\ \/ events' = <<>>
     \/ events' = <<Event("client_initialize", Fresh, "", "")>>
     \/ events' = <<Event("tools_list", Fresh, "", "ok")>>
     \/ events' = <<Event("tools_list", Fresh, "", "invalid_cursor")>>
  /\ answer' = [line |-> Fresh, code |-> answer'.code]
  /\ answer'.code \in Codes
  /\ l.kind = "call" => answer'.code = "not_initialized"
  /\ UNCHANGED <<stage, initialized, calls>>

Refuses(l) ==
  /\ l.kind = "call"
  /\ calls' = calls + 1
  /\ events' = <<Event("call", Fresh, events'[1].decision, "")>>
  /\ events'[1].decision \in Denials
  /\ answer' = [line |-> Fresh, code |-> answer'.code]
  /\ answer'.code \in Codes
  /\ Tells(events'[1], answer'.code)
  /\ UNCHANGED <<stage, initialized>>

Admits(l) ==
  /\ l.kind = "call"
  /\ initialized
  /\ l.tool \in Visible
  /\ calls' = calls + 1
  /\ stage' = "calling"
  /\ UNCHANGED <<initialized, events, answer>>

(* Every handler is one of the four. *)
LEMMA Handlers ==
  ASSUME NEW l \in Lines, HandleLine(l)
  PROVE  /\ Read(l)
         /\ Passes(l) \/ Answers(l) \/ Refuses(l) \/ Admits(l)
<1>1. Read(l)
  BY DEF HandleLine, Ignore, Initialized, Malformed, Initialize, Ping, UnknownMethod,
         NotInitialized, List, CallUnnamed, CallUnknown, CallDenied, CallAllowed, Refuse
<1>2. CASE Ignore(l)
  BY <1>2 DEF Ignore, Passes, IsRequest
<1>3. CASE Initialized(l)
  BY <1>3 DEF Initialized, Passes, IsRequest
<1>4. CASE Malformed(l)
  BY <1>4 DEF Malformed, Done, Answers, IsRequest, Codes
<1>5. CASE Initialize(l)
  BY <1>5 DEF Initialize, Done, Answers, IsRequest, Codes
<1>6. CASE Ping(l)
  BY <1>6 DEF Ping, Done, Answers, IsRequest, Codes
<1>7. CASE UnknownMethod(l)
  BY <1>7 DEF UnknownMethod, Done, Answers, IsRequest, Codes
<1>8. CASE NotInitialized(l)
  BY <1>8 DEF NotInitialized, Done, Answers, IsRequest, Codes
<1>9. CASE List(l)
  <2>1. l.kind = "list"
    BY <1>9 DEF List
  <2>2. CASE Done(<<Event("tools_list", Fresh, "", "ok")>>, "result")
    BY <2>1, <2>2, <1>1 DEF Done, Answers, IsRequest, Codes
  <2>3. CASE Done(<<Event("tools_list", Fresh, "", "invalid_cursor")>>, "invalid_params")
    BY <2>1, <2>3, <1>1 DEF Done, Answers, IsRequest, Codes
  <2> QED BY <1>9, <2>2, <2>3 DEF List
<1>10. CASE CallUnnamed(l)
  BY <1>10 DEF CallUnnamed, Done, Answers, IsRequest, Codes
<1>11. CASE CallUnknown(l)
  <2>1. /\ events' = <<Event("call", Fresh, "deny_unknown_tool", "")>>
        /\ answer' = [line |-> Fresh, code |-> "invalid_params"]
    BY <1>11 DEF CallUnknown, Refuse
  <2>2. events'[1] = Event("call", Fresh, "deny_unknown_tool", "")
    BY <2>1
  <2>3. events'[1].decision = "deny_unknown_tool"
    <3>1. Event("call", Fresh, "deny_unknown_tool", "").decision = "deny_unknown_tool"
      BY DEF Event
    <3> QED BY <2>2, <3>1, Zenon
  <2>4. answer'.code = "invalid_params"
    BY <2>1
  <2>5. Tells(events'[1], answer'.code)
    BY <2>3, <2>4 DEF Tells
  <2>6. events'[1].decision \in Denials /\ answer'.code \in Codes
    BY <2>3, <2>4 DEF Denials, Codes
  <2> QED BY <1>11, <2>1, <2>3, <2>4, <2>5, <2>6 DEF CallUnknown, Refuse, Refuses
<1>12. CASE CallDenied(l)
  <2>1. Decision[l.tool] \in {"deny_policy", "deny_unlisted"}
    BY <1>12, PolicyAssumption, NamesAssumption DEF CallDenied
  <2>2. /\ events' = <<Event("call", Fresh, Decision[l.tool], "")>>
        /\ answer' = [line |-> Fresh, code |-> "policy_denied"]
    BY <1>12 DEF CallDenied, Refuse
  <2>3. events'[1] = Event("call", Fresh, Decision[l.tool], "")
    BY <2>2
  <2>4. events'[1].decision = Decision[l.tool]
    <3>1. Event("call", Fresh, Decision[l.tool], "").decision = Decision[l.tool]
      BY DEF Event
    <3> QED BY <2>3, <3>1, Zenon
  <2>5. answer'.code = "policy_denied"
    BY <2>2
  <2>6. Tells(events'[1], answer'.code)
    BY <2>1, <2>4, <2>5 DEF Tells
  <2>7. events'[1].decision \in Denials /\ answer'.code \in Codes
    BY <2>1, <2>4, <2>5 DEF Denials, Codes
  <2> QED BY <1>12, <2>2, <2>4, <2>5, <2>6, <2>7 DEF CallDenied, Refuse, Refuses
<1>13. CASE CallAllowed(l)
  BY <1>13 DEF CallAllowed, Admits, Visible
<1> QED BY <1>1, <1>2, <1>3, <1>4, <1>5, <1>6, <1>7, <1>8, <1>9, <1>10, <1>11, <1>12, <1>13
        DEF HandleLine

-----------------------------------------------------------------------------
(* Types. *)

Events ==
  [event: EventKinds, line: 0..MaxLines, decision: Denials \cup {"", "allow"},
   result: Outcomes \cup {"", "ok", "invalid_cursor"}, calls: Nat]

Types ==
  /\ stage \in {"reading", "calling", "running", "closing", "stopped"}
  /\ inputs \in Seq(Lines) /\ Len(inputs) <= MaxLines
  /\ initialized \in BOOLEAN
  /\ calls \in Nat
  /\ events \in Seq(Events) /\ Len(events) <= 2
  /\ answer \in AnswerSet \cup {None}
  /\ audit \in Seq([event: Events, alone: BOOLEAN])
  /\ torn \in BOOLEAN
  /\ lost \in Seq(Events)
  /\ replies \in Seq(AnswerSet)
  /\ faults \in 0..MaxFaults
  /\ ran \subseteq 1..MaxLines
  /\ open \in 1..MaxLines \cup {None}
  /\ acting \subseteq 1..MaxLines
  /\ outcome \in [1..MaxLines -> Outcomes \cup {"none"}]
  /\ stage \in {"calling", "running"} => Len(inputs) > 0

(* The lines read before stay what they are.                               *)
LEMMA LinesStay ==
  ASSUME Types, NEW l \in Lines, Read(l)
  PROVE  /\ inputs' \in Seq(Lines) /\ Len(inputs') = Fresh /\ Fresh \in 1..MaxLines
         /\ inputs'[Fresh] = l
         /\ \A n \in 1..Current : inputs'[n] = inputs[n]
         /\ Current \in 0..MaxLines
BY BoundsAssumption DEF Types, Read, Fresh, Current

LEMMA EventTypes ==
  ASSUME NEW kind \in EventKinds, NEW line \in 0..MaxLines,
         NEW decision \in Denials \cup {"", "allow"},
         NEW result \in Outcomes \cup {"", "ok", "invalid_cursor"}
  PROVE  Event(kind, line, decision, result) \in Events
BY DEF Event, Events

LEMMA AnswerTypes ==
  ASSUME NEW r, NEW line \in 1..MaxLines, NEW code \in Codes, r = [line |-> line, code |-> code]
  PROVE  r \in AnswerSet
BY DEF AnswerSet

(* A handler leaves at most one event, and it is one.                      *)
LEMMA OneEvent ==
  ASSUME NEW e \in Events, NEW log, log = <<e>> \/ log = <<>>
  PROVE  log \in Seq(Events) /\ Len(log) <= 2
<1>1. CASE log = <<e>>
  BY <1>1
<1>2. CASE log = <<>>
  BY <1>2
<1> QED BY <1>1, <1>2

LEMMA AppendTypes ==
  ASSUME NEW S, NEW s \in Seq(S), NEW x \in S
  PROVE  Append(s, x) \in Seq(S)
OBVIOUS

LEMMA TypesStep ==
  ASSUME Types, [Next]_vars
  PROVE  Types'
<1> USE BoundsAssumption DEF Types
<1>1. ASSUME NEW l \in Lines, HandleLine(l) PROVE Types'
  <2>7. Passes(l) \/ Answers(l) \/ Refuses(l) \/ Admits(l)
    BY <1>1, Handlers
  <2>1. /\ inputs' \in Seq(Lines) /\ Len(inputs') <= MaxLines /\ Len(inputs') > 0
        /\ Fresh \in 1..MaxLines /\ Fresh \in 0..MaxLines
    BY <1>1, Handlers, LinesStay
  <2>2. UNCHANGED <<io, runner>>
    BY <1>1, Handlers DEF Read
  <2>3. CASE Passes(l)
    BY <2>1, <2>2, <2>3 DEF Passes, io, runner
  <2>4. CASE Answers(l)
    <3> HIDE DEF Types
    <3>1. /\ Event("client_initialize", Fresh, "", "") \in Events
          /\ Event("tools_list", Fresh, "", "ok") \in Events
          /\ Event("tools_list", Fresh, "", "invalid_cursor") \in Events
      BY <2>1, EventTypes DEF EventKinds
    <3>2. events' \in Seq(Events) /\ Len(events') <= 2
      <4>1. PICK e \in Events : events' = <<e>> \/ events' = <<>>
        BY <2>4, <3>1, Zenon DEF Answers
      <4> QED BY <4>1, OneEvent
    <3>3. answer' \in AnswerSet
      BY <2>1, <2>4, AnswerTypes DEF Answers
    <3> QED BY <2>1, <2>2, <2>4, <3>2, <3>3 DEF Answers, io, runner, Types
  <2>5. CASE Refuses(l)
    <3> HIDE DEF Types
    <3>1. Event("call", Fresh, events'[1].decision, "") \in Events
      BY <2>1, <2>5, EventTypes DEF Refuses, EventKinds
    <3>2. events' \in Seq(Events) /\ Len(events') <= 2
      <4>1. PICK e \in Events : events' = <<e>>
        BY <2>5, <3>1, Zenon DEF Refuses
      <4> QED BY <4>1, OneEvent
    <3>3. answer' \in AnswerSet
      BY <2>1, <2>5, AnswerTypes DEF Refuses
    <3>4. calls' = calls + 1 /\ stage' = stage /\ initialized' = initialized
      BY <2>5 DEF Refuses
    <3> QED BY <2>1, <2>2, <3>2, <3>3, <3>4 DEF io, runner, Types
  <2>6. CASE Admits(l)
    BY <2>1, <2>2, <2>6 DEF Admits, io, runner
  <2> HIDE DEF Types
  <2> QED BY <2>3, <2>4, <2>5, <2>6, <2>7
<1>2. CASE BeginCall
  <2>1. Current \in 1..MaxLines
    BY <1>2 DEF BeginCall, Current
  <2>2. /\ stage' = "running" /\ ran' = ran \cup {Current} /\ open' = Current
        /\ acting' = acting \cup {Current} /\ outcome' = outcome
        /\ UNCHANGED <<inputs, initialized, calls, events, answer, audit, torn, lost, replies, faults>>
    BY <1>2 DEF BeginCall, Runner!Begin, io
  <2>3. Len(inputs') > 0
    BY <2>1, <2>2 DEF Current
  <2> QED BY <2>1, <2>2, <2>3
<1>3. ASSUME NEW o \in Outcomes, EndCall(o) PROVE Types'
  <2>1. Current \in 1..MaxLines /\ Current \in 0..MaxLines
    BY <1>3 DEF EndCall, Current
  <2>2. events' \in Seq(Events) /\ Len(events') <= 2
    <3>1. Event("call", Current, "allow", o) \in Events
      BY <2>1, EventTypes DEF EventKinds
    <3>2. PICK e \in Events : events' = <<e>>
      BY <1>3, <3>1, Zenon DEF EndCall
    <3> QED BY <3>2, OneEvent
  <2>3. answer' \in AnswerSet
    <3>1. PICK code \in Codes : answer' = [line |-> Current, code |-> code]
      BY <1>3 DEF EndCall, Codes
    <3> QED BY <2>1, <3>1, AnswerTypes
  <2>4. open' = None /\ outcome' \in [1..MaxLines -> Outcomes \cup {"none"}]
    BY <1>3 DEF EndCall, Runner!Answer
  <2> QED BY <1>3, <2>2, <2>3, <2>4 DEF EndCall, Runner!Answer, io
<1>4. CASE GuestStops
  BY <1>4 DEF GuestStops, Runner!Stop, io
<1>5. CASE Log
  <2>1. Head(events) \in Events /\ events' \in Seq(Events) /\ Len(events') <= 2
    BY <1>5 DEF Log
  <2>2. audit' \in Seq([event: Events, alone: BOOLEAN])
    <3>1. [event |-> Head(events), alone |-> ~ torn] \in [event: Events, alone: BOOLEAN]
      BY <2>1
    <3>2. Append(audit, [event |-> Head(events), alone |-> ~ torn])
            \in Seq([event: Events, alone: BOOLEAN])
      BY <3>1, AppendTypes
    <3> QED BY <1>5, <3>2, Zenon DEF Log
  <2>3. lost' \in Seq(Events)
    <3>1. Append(lost, Head(events)) \in Seq(Events)
      BY <2>1, AppendTypes
    <3> QED BY <1>5, <3>1, Zenon DEF Log
  <2>4. torn' \in BOOLEAN
    BY <1>5, Zenon DEF Log
  <2>5. faults' \in 0..MaxFaults
    <3>1. faults' = faults \/ (faults < MaxFaults /\ faults' = faults + 1)
      BY <1>5, Zenon DEF Log
    <3> QED BY <3>1
  <2>6. UNCHANGED <<stage, inputs, initialized, calls, answer, replies, ran, open, acting, outcome>>
    BY <1>5 DEF Log, runner
  <2>7. /\ stage' \in {"reading", "calling", "running", "closing", "stopped"}
        /\ answer' \in AnswerSet \cup {None}
        /\ stage' \in {"calling", "running"} => Len(inputs') > 0
        /\ Len(inputs') <= MaxLines
    BY <2>6
  <2>8. /\ inputs' \in Seq(Lines) /\ initialized' \in BOOLEAN /\ calls' \in Nat
        /\ replies' \in Seq(AnswerSet)
        /\ ran' \subseteq 1..MaxLines /\ open' \in 1..MaxLines \cup {None}
        /\ acting' \subseteq 1..MaxLines
        /\ outcome' \in [1..MaxLines -> Outcomes \cup {"none"}]
    BY <2>6
  <2> QED BY <2>1, <2>2, <2>3, <2>4, <2>5, <2>7, <2>8
<1>6. CASE Reply
  <2>1. /\ answer' = None
        /\ UNCHANGED <<stage, inputs, initialized, calls, events, audit, torn, lost,
                       ran, open, acting, outcome>>
    BY <1>6 DEF Reply, runner
  <2>2. replies' \in Seq(AnswerSet)
    <3>1. Append(replies, answer) \in Seq(AnswerSet)
      BY <1>6, AppendTypes DEF Reply
    <3> QED BY <1>6, <3>1, Zenon DEF Reply
  <2>3. faults' \in 0..MaxFaults
    <3>1. faults' = faults \/ (faults < MaxFaults /\ faults' = faults + 1)
      BY <1>6, Zenon DEF Reply
    <3> QED BY <3>1
  <2> QED BY <2>1, <2>2, <2>3
<1>7. CASE Finish
  <2>1. Current \in 0..MaxLines
    BY DEF Current
  <2>2. events' \in Seq(Events) /\ Len(events') <= 2
    <3>1. Event("session_end", Current, "", "") \in Events
      BY <2>1, EventTypes DEF EventKinds
    <3>2. [Event("session_end", Current, "", "") EXCEPT !.calls = calls] \in Events
      BY <3>1 DEF Events
    <3>3. PICK e \in Events : events' = <<e>>
      BY <1>7, <3>2, Zenon DEF Finish
    <3> QED BY <3>3, OneEvent
  <2> QED BY <1>7, <2>2 DEF Finish, io, runner
<1>8. CASE Die
  BY <1>8 DEF Die, Runner!Crash, io
<1>9. CASE UNCHANGED vars
  BY <1>9 DEF vars, io, runner
<1> QED BY <1>1, <1>2, <1>3, <1>4, <1>5, <1>6, <1>7, <1>8, <1>9
        DEF Next, Exit, RunnerPanics, Kill, Stopped

LEMMA SessionStarts == Init => Types
<1> SUFFICES ASSUME Init PROVE Types
  OBVIOUS
<1>1. /\ Event("session_start", 0, "", "") \in Events
      /\ Event("probe", 0, "", "") \in Events
  <2>1. 0 \in 0..MaxLines
    BY BoundsAssumption
  <2> QED BY <2>1, EventTypes DEF EventKinds
<1>2. events \in Seq(Events) /\ Len(events) <= 2
  <2>1. PICK d \in Events, e \in Events : events = <<d, e>>
    BY <1>1, Zenon DEF Init
  <2> QED BY <2>1
<1>3. /\ outcome \in [1..MaxLines -> Outcomes \cup {"none"}]
      /\ open = None
      /\ acting = {}
  BY DEF Init, Runner!Init
<1>4. /\ inputs = <<>> /\ audit = <<>> /\ lost = <<>> /\ replies = <<>>
      /\ stage = "reading" /\ initialized = FALSE /\ calls = 0 /\ answer = None
      /\ torn = FALSE /\ faults = 0 /\ ran = {}
  BY DEF Init
<1>5. \A S : inputs \in Seq(S) /\ audit \in Seq(S) /\ lost \in Seq(S) /\ replies \in Seq(S)
  BY <1>4
<1>6. Len(inputs) <= MaxLines /\ faults \in 0..MaxFaults /\ calls \in Nat
  BY <1>4, BoundsAssumption
<1> QED BY <1>2, <1>3, <1>4, <1>5, <1>6 DEF Types

(* Every variable of the session has its type.                             *)
THEOREM SessionTyped == Spec => []TypeOK
<1>1. Types => TypeOK
  BY DEF Types, TypeOK
<1> QED BY <1>1, SessionStarts, TypesStep, PTL DEF Spec

-----------------------------------------------------------------------------
(* Which guests run. *)

(* Line c is a call that may run a guest. *)
Announced(c) == \E n \in 1..c : inputs[n].kind = "initialized"

MayRun(c) ==
  /\ c \in 1..Current
  /\ inputs[c].kind = "call"
  /\ inputs[c].tool \in Visible
  /\ Announced(c - 1)

Admission ==
  /\ initialized => Announced(Current)
  /\ stage = "calling" => MayRun(Current)
  /\ \A c \in ran : MayRun(c)

LEMMA AnnouncedStays ==
  ASSUME Types, NEW l \in Lines, Read(l), NEW c \in 0..Current, Announced(c)
  PROVE  Announced(c)' /\ Announced(c + 1)'
<1>1. PICK n \in 1..c : inputs[n].kind = "initialized"
  BY DEF Announced
<1>2. inputs'[n] = inputs[n] /\ n \in 1..(c + 1)
  BY LinesStay, <1>1 DEF Current, Fresh, Types
<1> QED BY <1>1, <1>2 DEF Announced

LEMMA MayRunStays ==
  ASSUME Types, NEW l \in Lines, Read(l), NEW c, MayRun(c)
  PROVE  MayRun(c)'
<1>1. c \in 1..Current /\ c - 1 \in 0..Current /\ Current' = Fresh
  BY LinesStay DEF MayRun, Current, Types
<1>2. Announced(c - 1)'
  BY <1>1, AnnouncedStays DEF MayRun
<1>3. inputs'[c] = inputs[c] /\ c \in 1..Fresh
  BY <1>1, LinesStay DEF Current, Fresh, Types
<1> QED BY <1>1, <1>2, <1>3 DEF MayRun

LEMMA AdmissionStep ==
  ASSUME Types, Admission, [Next]_vars
  PROVE  Admission'
<1>1. ASSUME NEW l \in Lines, HandleLine(l) PROVE Admission'
  <2>1. Read(l) /\ (Passes(l) \/ Answers(l) \/ Refuses(l) \/ Admits(l))
    BY <1>1, Handlers
  <2> PICK k \in 0..Current : k = Current
    BY <2>1, LinesStay DEF Current, Types
  <2>2. /\ Current' = k + 1 /\ k + 1 \in 1..MaxLines /\ (k + 1) - 1 = k
        /\ inputs'[k + 1] = l
    BY <2>1, LinesStay DEF Current, Fresh, Types
  <2>3. ran' = ran
    BY <2>1 DEF Read, runner
  <2>4. \A c \in ran' : MayRun(c)'
    BY <2>1, <2>3, MayRunStays DEF Admission
  <2>5. initialized => Announced(k)' /\ Announced(k + 1)'
    BY <2>1, <2>2, AnnouncedStays DEF Admission
  <2>6. CASE Passes(l)
    <3>1. initialized' => Announced(k + 1)'
      <4>1. CASE l.kind = "initialized"
        BY <2>2, <4>1 DEF Announced
      <4>2. CASE l.kind # "initialized"
        BY <2>5, <2>6, <4>2 DEF Passes
      <4> QED BY <4>1, <4>2
    <3>2. stage' # "calling"
      BY <2>1, <2>6 DEF Read, Idle, Passes
    <3> QED BY <2>2, <2>4, <3>1, <3>2 DEF Admission
  <2>7. CASE Answers(l) \/ Refuses(l)
    <3>1. initialized' = initialized /\ stage' = stage /\ stage # "calling"
      BY <2>1, <2>7 DEF Answers, Refuses, Read, Idle
    <3> QED BY <2>2, <2>4, <2>5, <3>1 DEF Admission
  <2>8. CASE Admits(l)
    <3>1. MayRun(k + 1)'
      BY <2>2, <2>5, <2>8 DEF Admits, MayRun, Visible
    <3> QED BY <2>2, <2>4, <2>5, <2>8, <3>1 DEF Admission, Admits
  <2> QED BY <2>1, <2>6, <2>7, <2>8
<1>2. ASSUME inputs' = inputs, initialized' = initialized,
             stage' # "calling" \/ stage' = stage,
             ran' = ran \/ (stage = "calling" /\ ran' = ran \cup {Current})
      PROVE  Admission'
  <2>1. \A c : MayRun(c)' <=> MayRun(c)
    BY <1>2 DEF MayRun, Current, Announced, Visible
  <2>2. Announced(Current)' <=> Announced(Current)
    BY <1>2 DEF Current, Announced
  <2>3. Current' = Current
    BY <1>2 DEF Current
  <2>4. \A c \in ran' : MayRun(c)'
    BY <1>2, <2>1 DEF Admission
  <2>5. stage' = "calling" => MayRun(Current)'
    BY <1>2, <2>1, <2>3 DEF Admission
  <2> QED BY <1>2, <2>2, <2>4, <2>5 DEF Admission
<1>3. CASE BeginCall
  BY <1>2, <1>3 DEF BeginCall
<1>4. ASSUME NEW o \in Outcomes, EndCall(o) PROVE Admission'
  BY <1>2, <1>4 DEF EndCall
<1>5. CASE GuestStops \/ Log \/ Reply \/ Finish \/ UNCHANGED vars
  BY <1>2, <1>5 DEF GuestStops, Log, Reply, Finish, vars, runner
<1>6. CASE Die
  BY <1>2, <1>6 DEF Die
<1> QED BY <1>1, <1>3, <1>4, <1>5, <1>6 DEF Next, Exit, RunnerPanics, Kill, Stopped

(* No guest runs but for a visible tool and an initialized client: the     *)
(* gates of handle_request and handle_call.                                *)
THEOREM SessionGates == Spec => []OnlyVisibleToolsRun
<1>1. Init => Types /\ Admission
  BY SessionStarts DEF Init, Admission
<1>2. Types /\ Admission /\ [Next]_vars => (Types /\ Admission)'
  BY TypesStep, AdmissionStep
<1>3. Admission => OnlyVisibleToolsRun
  BY DEF Admission, MayRun, Announced, OnlyVisibleToolsRun
<1> QED BY <1>1, <1>2, <1>3, PTL DEF Spec

-----------------------------------------------------------------------------
(* Which requests are answered. *)

Requests == {n \in DOMAIN inputs : IsRequest(inputs[n])}

Answered == {replies[i].line : i \in DOMAIN replies}

(* The current line is a request whose reply is still to come. *)
Owing == answer # None \/ stage \in {"calling", "running"}

Owed == IF Owing THEN {Current} ELSE {}

Ordered ==
  /\ Answered \subseteq Requests
  /\ \A i, j \in DOMAIN replies : i < j => replies[i].line < replies[j].line
  /\ Owing => Current \in Requests \ Answered
  /\ answer # None => answer.line = Current
  /\ stage \in {"calling", "running"} => events = <<>> /\ answer = None

Complete ==
  /\ Len(lost) <= faults
  /\ stage # "stopped" /\ faults = Len(lost) => Answered = Requests \ Owed

(* Reading line Fresh makes it a request, or not, and the others stay what *)
(* they are.                                                               *)
LEMMA RequestsGrow ==
  ASSUME Types, NEW l \in Lines, Read(l)
  PROVE  /\ Requests' = IF IsRequest(l) THEN Requests \cup {Fresh} ELSE Requests
         /\ Fresh \notin Requests
         /\ Current' = Fresh
         /\ Answered' = Answered /\ replies' = replies /\ lost' = lost /\ faults' = faults
<1>1. /\ DOMAIN inputs' = 1..Fresh /\ DOMAIN inputs = 1..Current
      /\ Current' = Fresh /\ Current \in Nat /\ Fresh = Current + 1
      /\ inputs'[Fresh] = l
      /\ \A n \in 1..Current : inputs'[n] = inputs[n]
  BY LinesStay DEF Current, Fresh, Types
<1>2. 1..Fresh = (1..Current) \cup {Fresh} /\ Fresh \notin 1..Current
  BY <1>1
<1>3. \A n : n \in Requests' <=> n \in Requests \/ (n = Fresh /\ IsRequest(l))
  BY <1>1, <1>2 DEF Requests, IsRequest
<1>4. Fresh \notin Requests
  BY <1>1, <1>2 DEF Requests
<1>5. replies' = replies /\ lost' = lost /\ faults' = faults
  BY DEF Read, io
<1> QED BY <1>1, <1>3, <1>4, <1>5 DEF Answered

LEMMA OrderStep ==
  ASSUME Types, Ordered, Complete, [Next]_vars
  PROVE  (Ordered /\ Complete)'
<1>0. Types'
  BY TypesStep
<1>1. ASSUME NEW l \in Lines, HandleLine(l) PROVE (Ordered /\ Complete)'
  <2>1. Read(l) /\ (Passes(l) \/ Answers(l) \/ Refuses(l) \/ Admits(l))
    BY <1>1, Handlers
  <2>2. /\ Requests' = IF IsRequest(l) THEN Requests \cup {Fresh} ELSE Requests
        /\ Fresh \notin Requests /\ Current' = Fresh
        /\ Answered' = Answered /\ replies' = replies /\ lost' = lost /\ faults' = faults
    BY <2>1, RequestsGrow
  <2>3. stage = "reading" /\ events = <<>> /\ answer = None /\ ~ Owing /\ Owed = {}
    BY <2>1 DEF Read, Idle, Owing, Owed
  <2>4. CASE Passes(l)
    <3>1. ~ Owing' /\ Owed' = {} /\ Requests' = Requests
          /\ answer' = None /\ stage' = "reading"
      BY <2>2, <2>3, <2>4 DEF Passes, Owing, Owed
    <3> QED BY <2>2, <2>3, <3>1 DEF Ordered, Complete
  <2>5. CASE ~ Passes(l)
    <3>1. IsRequest(l)
      BY <2>1, <2>5 DEF Answers, Refuses, Admits, IsRequest
    <3>2. \/ answer' # None /\ answer'.line = Fresh /\ stage' = "reading"
          \/ answer' = None /\ events' = <<>> /\ stage' = "calling"
      <4>1. CASE Answers(l) \/ Refuses(l)
        <5>1. answer' = [line |-> Fresh, code |-> answer'.code] /\ answer'.code \in Codes
          BY <4>1 DEF Answers, Refuses
        <5>2. Fresh \in 1..MaxLines
          BY <2>1, LinesStay
        <5>3. answer' # None
          BY <5>1, <5>2, NoneAssumption DEF AnswerSet
        <5>4. stage' = stage
          BY <4>1 DEF Answers, Refuses
        <5> QED BY <2>3, <5>1, <5>3, <5>4
      <4>2. CASE Admits(l)
        BY <2>3, <4>2 DEF Admits
      <4> QED BY <2>1, <2>5, <4>1, <4>2
    <3>3. Owing' /\ Owed' = {Fresh}
      BY <2>2, <3>2 DEF Owing, Owed
    <3>4. Requests' = Requests \cup {Fresh} /\ Fresh \notin Answered
      BY <2>2, <3>1 DEF Ordered
    <3>5. Ordered'
      BY <2>2, <3>2, <3>3, <3>4 DEF Ordered
    <3>6. Complete'
      BY <2>2, <2>3, <3>3, <3>4 DEF Complete
    <3> QED BY <3>5, <3>6
  <2> QED BY <2>4, <2>5
<1>2. ASSUME inputs' = inputs, replies' = replies, Owing' <=> Owing,
             answer' # None => answer'.line = Current,
             stage' \in {"calling", "running"} => events' = <<>> /\ answer' = None,
             \/ lost' = lost /\ faults' = faults
             \/ Len(lost') = Len(lost) + 1 /\ faults' = faults + 1,
             stage' # "stopped" => stage # "stopped"
      PROVE  (Ordered /\ Complete)'
  <2>1. /\ Requests' = Requests /\ Answered' = Answered /\ Current' = Current
        /\ Owed' = Owed
    BY <1>2 DEF Requests, Answered, Current, Owed
  <2>2. Ordered'
    BY <1>2, <2>1 DEF Ordered
  <2>3. /\ Len(lost') <= faults'
        /\ faults' = Len(lost') => faults = Len(lost)
    BY <1>2 DEF Complete, Types
  <2> QED BY <1>2, <2>1, <2>2, <2>3 DEF Complete
<1>3. CASE BeginCall
  BY <1>2, <1>3 DEF BeginCall, Owing, Ordered, io
<1>4. ASSUME NEW o \in Outcomes, EndCall(o) PROVE (Ordered /\ Complete)'
  <2>1. PICK code : answer' = [line |-> Current, code |-> code]
    BY <1>4 DEF EndCall
  <2>2. answer' # None
    <3>1. answer' \in AnswerSet \cup {None}
      BY <1>0 DEF Types
    <3>2. Current \in 1..MaxLines
      BY <1>4 DEF EndCall, Current, Types
    <3>3. code \in Codes
      BY <2>1, <1>4 DEF EndCall, Codes
    <3> QED BY <2>1, <3>2, <3>3, NoneAssumption DEF AnswerSet
  <2>3. answer'.line = Current
    BY <2>1
  <2>4. stage = "running" /\ stage' = "reading"
        /\ inputs' = inputs /\ replies' = replies /\ lost' = lost /\ faults' = faults
    BY <1>4 DEF EndCall, io
  <2> QED BY <1>2, <2>2, <2>3, <2>4 DEF Owing
<1>5. CASE GuestStops
  <2>1. UNCHANGED <<stage, inputs, events, answer, lost, replies, faults>>
    BY <1>5 DEF GuestStops, io
  <2> QED BY <1>2, <2>1 DEF Owing, Ordered
<1>6. CASE Log
  <2>1. /\ UNCHANGED <<stage, inputs, answer, replies>>
        /\ events # <<>>
    BY <1>6 DEF Log
  <2>2. \/ lost' = lost /\ faults' = faults
        \/ Len(lost') = Len(lost) + 1 /\ faults' = faults + 1
    <3>1. \/ lost' = lost /\ faults' = faults
          \/ lost' = Append(lost, Head(events)) /\ faults' = faults + 1
      BY <1>6, Zenon DEF Log
    <3>2. lost \in Seq(Events) /\ Head(events) \in Events
      BY <2>1 DEF Types
    <3>3. Len(Append(lost, Head(events))) = Len(lost) + 1
      BY <3>2
    <3> QED BY <3>1, <3>3, Zenon
  <2>3. /\ stage \notin {"calling", "running"} /\ (Owing' <=> Owing)
        /\ answer' # None => answer'.line = Current
    BY <2>1 DEF Owing, Ordered
  <2> QED BY <1>2, <2>1, <2>2, <2>3
<1>7. CASE Reply
  <2>1. /\ stage = "reading" /\ stage' = "reading" /\ answer # None /\ answer' = None
        /\ inputs' = inputs /\ lost' = lost /\ Current' = Current
    BY <1>7 DEF Reply, Current
  <2>2. /\ answer.line = Current /\ Current \in Requests \ Answered /\ Owing /\ Owed = {Current}
        /\ ~ Owing' /\ Owed' = {} /\ Requests' = Requests
    BY <2>1 DEF Ordered, Owing, Owed, Requests
  <2>3. CASE replies' = replies /\ faults' = faults + 1
    <3>1. Answered' = Answered
      BY <2>3 DEF Answered
    <3>2. Ordered'
      BY <2>1, <2>2, <2>3, <3>1 DEF Ordered
    <3>3. Complete'
      BY <2>1, <2>3 DEF Complete, Types
    <3> QED BY <3>2, <3>3
  <2>4. CASE replies' = Append(replies, answer) /\ faults' = faults
    <3>1. /\ replies \in Seq(AnswerSet) /\ answer \in AnswerSet
          /\ DOMAIN replies = 1..Len(replies) /\ DOMAIN replies' = 1..(Len(replies) + 1)
          /\ Len(replies) \in Nat
          /\ \A i \in 1..Len(replies) : replies'[i] = replies[i]
          /\ replies'[Len(replies) + 1] = answer
      BY <2>1, <2>4 DEF Types
    <3>2. \A n : n \in Answered' <=> n \in Answered \cup {Current}
      BY <2>2, <3>1 DEF Answered
    <3>3. \A i \in DOMAIN replies : replies[i].line < Current
      <4> SUFFICES ASSUME NEW i \in DOMAIN replies PROVE replies[i].line < Current
        OBVIOUS
      <4>1. replies[i].line \in Requests /\ replies[i].line # Current
        BY <2>2 DEF Ordered, Answered
      <4> QED BY <4>1 DEF Requests, Current, Types
    <3>4. \A i, j \in DOMAIN replies' : i < j => replies'[i].line < replies'[j].line
      <4> SUFFICES ASSUME NEW i \in DOMAIN replies', NEW j \in DOMAIN replies', i < j
                   PROVE  replies'[i].line < replies'[j].line
        OBVIOUS
      <4>1. i \in DOMAIN replies /\ replies'[i] = replies[i]
        BY <3>1
      <4>2. CASE j \in DOMAIN replies
        BY <3>1, <4>1, <4>2 DEF Ordered
      <4>3. CASE j \notin DOMAIN replies
        <5>1. j = Len(replies) + 1
          BY <3>1, <4>3
        <5> QED BY <2>2, <3>1, <3>3, <4>1, <5>1
      <4> QED BY <4>2, <4>3
    <3>5. Ordered'
      BY <2>1, <2>2, <3>2, <3>4 DEF Ordered
    <3>6. Complete'
      BY <2>1, <2>2, <2>4, <3>2 DEF Complete
    <3> QED BY <3>5, <3>6
  <2> QED BY <1>7, <2>3, <2>4 DEF Reply
<1>8. CASE Finish
  BY <1>2, <1>8 DEF Finish, Idle, Owing, io
<1>9. CASE Die
  <2>1. /\ UNCHANGED <<inputs, lost, replies, faults>>
        /\ stage' = "stopped" /\ answer' = None
    BY <1>9 DEF Die, io
  <2> QED BY <2>1 DEF Ordered, Complete, Owing, Requests, Answered, Current
<1>10. CASE UNCHANGED vars
  <2>1. UNCHANGED <<stage, inputs, events, answer, lost, replies, faults>>
    BY <1>10 DEF vars, io
  <2> QED BY <2>1 DEF Ordered, Complete, Owing, Owed, Requests, Answered, Current
<1> QED BY <1>1, <1>3, <1>4, <1>5, <1>6, <1>7, <1>8, <1>9, <1>10
        DEF Next, Exit, RunnerPanics, Kill, Stopped

LEMMA OrderStarts == Init => Ordered /\ Complete
<1> SUFFICES ASSUME Init PROVE Ordered /\ Complete
  OBVIOUS
<1>1. /\ stage = "reading" /\ inputs = <<>> /\ answer = None /\ replies = <<>>
      /\ lost = <<>> /\ faults = 0
  BY DEF Init
<1>2. Requests = {} /\ Answered = {} /\ ~ Owing /\ Owed = {}
  BY <1>1 DEF Requests, Answered, Owing, Owed
<1> QED BY <1>1, <1>2 DEF Ordered, Complete

(* Every request gets one reply, in the order of the requests, and no      *)
(* notification gets any: handle_line's reply follows its handler.         *)
THEOREM SessionReplies == Spec => []OneReplyPerRequest
<1>1. Init => Types /\ Ordered /\ Complete
  BY SessionStarts, OrderStarts
<1>2. Types /\ Ordered /\ Complete /\ [Next]_vars => (Types /\ Ordered /\ Complete)'
  BY TypesStep, OrderStep
<1>3. Ordered /\ Complete => OneReplyPerRequest
  BY DEF Ordered, Complete, OneReplyPerRequest, Requests, Answered, Idle, Owing, Owed
<1> QED BY <1>1, <1>2, <1>3, PTL DEF Spec

-----------------------------------------------------------------------------
(* What is audited, and how often. *)

Pending == {events[i] : i \in DOMAIN events}

(* The events the handlers made, logged or not. *)
Handed == Logged \cup Pending

Accounted(r, log) ==
  inputs[r.line].kind = "call" /\ r.code # "not_initialized" =>
    \E e \in log : e.event = "call" /\ e.line = r.line /\ Tells(e, r.code)

Audited ==
  /\ \A i \in DOMAIN replies : Accounted(replies[i], Logged)
  /\ answer # None => Accounted(answer, Handed)

(* An event is logged: it moves from the one set to the other.             *)
LEMMA LogMoves ==
  ASSUME Types, Log
  PROVE  /\ Logged' = Logged \cup {Head(events)}
         /\ Handed' = Handed
         /\ Pending' \subseteq Pending
<1>1. events \in Seq(Events) /\ events # <<>> /\ events' = Tail(events)
  BY DEF Log, Types
<1>2. Pending = {Head(events)} \cup Pending'
  <2>1. \A i \in DOMAIN events' : i + 1 \in DOMAIN events /\ events'[i] = events[i + 1]
    BY <1>1
  <2>2. \A i \in DOMAIN events : i = 1 \/ (i - 1 \in DOMAIN events' /\ events'[i - 1] = events[i])
    BY <1>1
  <2>3. 1 \in DOMAIN events /\ Head(events) = events[1]
    BY <1>1
  <2> QED BY <2>1, <2>2, <2>3 DEF Pending
<1>3. CASE /\ audit' = Append(audit, [event |-> Head(events), alone |-> ~ torn])
           /\ lost' = lost
  <2>1. /\ DOMAIN audit' = DOMAIN audit \cup {Len(audit) + 1}
        /\ \A i \in DOMAIN audit : audit'[i] = audit[i]
        /\ audit'[Len(audit) + 1].event = Head(events)
    BY <1>3 DEF Types
  <2> QED BY <1>2, <1>3, <2>1 DEF Logged, Handed
<1>4. CASE audit' = audit /\ lost' = Append(lost, Head(events))
  <2>1. /\ DOMAIN lost' = DOMAIN lost \cup {Len(lost) + 1}
        /\ \A i \in DOMAIN lost : lost'[i] = lost[i]
        /\ lost'[Len(lost) + 1] = Head(events)
    BY <1>4 DEF Types
  <2> QED BY <1>2, <1>4, <2>1 DEF Logged, Handed
<1> QED BY <1>3, <1>4, Zenon DEF Log

LEMMA LoggedStays ==
  ASSUME audit' = audit, lost' = lost
  PROVE  Logged' = Logged
BY DEF Logged

LEMMA PendingOf ==
  ASSUME NEW e
  PROVE  /\ events' = <<e>> => Pending' = {e}
         /\ events' = <<>> => Pending' = {}
         /\ events = <<>> => Pending = {}
BY DEF Pending

(* What a handler says is one event, of line Fresh.                        *)
LEMMA HandlersSay ==
  ASSUME Types, NEW l \in Lines, Read(l),
         Passes(l) \/ Answers(l) \/ Refuses(l) \/ Admits(l)
  PROVE  /\ Logged' = Logged /\ Handed = Logged
         /\ \/ Handed' = Handed /\ Pending' = {} /\ ~ Refuses(l)
            \/ \E e : /\ Handed' = Handed \cup {e}
                      /\ Pending' = {e}
                      /\ IF Refuses(l)
                         THEN e.event = "call" /\ e.line = Fresh /\ Tells(e, answer'.code)
                         ELSE e.event \notin {"call", "session_end"}
<1>1. events = <<>> /\ audit' = audit /\ lost' = lost
  BY DEF Read, Idle, io
<1>2. Logged' = Logged /\ Pending = {} /\ Handed = Logged /\ Handed' = Logged \cup Pending'
  BY <1>1, LoggedStays, PendingOf DEF Handed
<1>3. CASE events' = <<>> /\ ~ Refuses(l)
  BY <1>2, <1>3, PendingOf
<1>4. CASE Refuses(l)
  <2>1. PICK e : e = Event("call", Fresh, events'[1].decision, "")
    OBVIOUS
  <2>2. events' = <<e>>
    BY <1>4, <2>1, Zenon DEF Refuses
  <2>3. e.event = "call" /\ e.line = Fresh
    BY <2>1 DEF Event
  <2>4. Tells(e, answer'.code)
    <3>1. events'[1] = e
      BY <2>2
    <3>2. Tells(events'[1], answer'.code)
      BY <1>4, Zenon DEF Refuses
    <3> QED BY <3>1, <3>2, Zenon
  <2>5. Pending' = {e}
    BY <2>2, PendingOf
  <2> QED BY <1>2, <1>4, <2>3, <2>4, <2>5
<1>5. CASE Answers(l) /\ events' # <<>>
  <2>1. PICK e : events' = <<e>> /\ e.event \in {"client_initialize", "tools_list"}
    <3>1. /\ Event("client_initialize", Fresh, "", "").event = "client_initialize"
          /\ Event("tools_list", Fresh, "", "ok").event = "tools_list"
          /\ Event("tools_list", Fresh, "", "invalid_cursor").event = "tools_list"
      BY DEF Event
    <3> QED BY <1>5, <3>1, Zenon DEF Answers
  <2>2. Pending' = {e}
    BY <2>1, PendingOf
  <2>3. ~ Refuses(l)
    <3> SUFFICES ASSUME Refuses(l) PROVE FALSE
      OBVIOUS
    <3>1. events'[1] = e
      BY <2>1
    <3>2. Event("call", Fresh, events'[1].decision, "").event = "call"
      BY DEF Event
    <3>3. e.event = "call"
      <4>1. events' = <<Event("call", Fresh, events'[1].decision, "")>>
        BY Zenon DEF Refuses
      <4>2. PICK d : d = Event("call", Fresh, events'[1].decision, "")
        OBVIOUS
      <4>3. e = d
        BY <4>1, <4>2, <2>1
      <4> QED BY <3>2, <4>2, <4>3, Zenon
    <3> QED BY <2>1, <3>3
  <2> QED BY <1>2, <2>1, <2>2, <2>3
<1>6. CASE Passes(l) \/ Admits(l)
  <2>1. events' = <<>>
    BY <1>1, <1>6 DEF Passes, Admits
  <2>2. ~ Refuses(l)
    <3> SUFFICES ASSUME Refuses(l) PROVE FALSE
      OBVIOUS
    <3>1. PICK e : events' = <<e>>
      BY Zenon DEF Refuses
    <3> QED BY <2>1, <3>1
  <2> QED BY <1>3, <2>1, <2>2
<1> QED BY <1>3, <1>4, <1>5, <1>6

(* What Runner::call came to.                                              *)
LEMMA CallSays ==
  ASSUME Types, Ordered, NEW o \in Outcomes, EndCall(o)
  PROVE  /\ Logged' = Logged /\ Handed = Logged
         /\ answer' = [line |-> Current, code |-> answer'.code]
         /\ \E e : /\ Handed' = Handed \cup {e}
                   /\ Pending' = {e}
                   /\ e.event = "call" /\ e.line = Current /\ Tells(e, answer'.code)
<1>1. events = <<>> /\ audit' = audit /\ lost' = lost
  BY DEF EndCall, Ordered, io
<1>2. Logged' = Logged /\ Pending = {} /\ Handed = Logged /\ Handed' = Logged \cup Pending'
  BY <1>1, LoggedStays, PendingOf DEF Handed
<1>3. PICK e : e = Event("call", Current, "allow", o)
  OBVIOUS
<1>4. events' = <<e>>
  BY <1>3, Zenon DEF EndCall
<1>5. e.event = "call" /\ e.line = Current /\ e.decision = "allow" /\ e.result = o
  BY <1>3 DEF Event
<1>6. /\ answer' = [line |-> Current, code |-> answer'.code]
      /\ answer'.code \in IF o = "completed" THEN {"result", "guest_error"} ELSE {o}
  <2>1. PICK code \in IF o = "completed" THEN {"result", "guest_error"} ELSE {o} :
          answer' = [line |-> Current, code |-> code]
    BY Zenon DEF EndCall
  <2> QED BY <2>1
<1>7. Tells(e, answer'.code)
  BY <1>5, <1>6 DEF Tells
<1>8. Pending' = {e}
  BY <1>4, PendingOf
<1> QED BY <1>2, <1>5, <1>6, <1>7, <1>8

LEMMA AuditStep ==
  ASSUME Types, Ordered, Audited, [Next]_vars
  PROVE  Audited'
<1>1. ASSUME NEW l \in Lines, HandleLine(l) PROVE Audited'
  <2>1. Read(l) /\ (Passes(l) \/ Answers(l) \/ Refuses(l) \/ Admits(l))
    BY <1>1, Handlers
  <2>2. replies' = replies /\ answer = None /\ Logged' = Logged
    BY <2>1, HandlersSay DEF Read, Idle, io
  <2>3. \A i \in DOMAIN replies : inputs'[replies[i].line] = inputs[replies[i].line]
    <3>1. \A i \in DOMAIN replies : replies[i].line \in 1..Current
      <4>1. \A i \in DOMAIN replies : replies[i].line \in Requests
        BY DEF Ordered, Answered
      <4>2. Requests \subseteq 1..Current
        BY DEF Requests, Current, Types
      <4> QED BY <4>1, <4>2
    <3> QED BY <2>1, <3>1, LinesStay
  <2>4. \A i \in DOMAIN replies' : Accounted(replies[i], Logged)'
    BY <2>2, <2>3 DEF Audited, Accounted
  <2>5. answer' # None => Accounted(answer, Handed)'
    <3>1. CASE Passes(l) \/ Admits(l)
      BY <2>2, <3>1 DEF Passes, Admits
    <3>2. CASE Answers(l)
      <4>1. inputs'[Fresh] = l /\ answer'.line = Fresh
        <5>1. PICK r : r = [line |-> Fresh, code |-> answer'.code]
          OBVIOUS
        <5>2. answer' = r
          BY <3>2, <5>1, Zenon DEF Answers
        <5> QED BY <2>1, <5>1, <5>2, LinesStay
      <4>2. l.kind = "call" => answer'.code = "not_initialized"
        BY <3>2 DEF Answers
      <4> QED BY <4>1, <4>2 DEF Accounted
    <3>3. CASE Refuses(l)
      <4>1. PICK e \in Handed' : e.event = "call" /\ e.line = Fresh /\ Tells(e, answer'.code)
        BY <2>1, <3>3, HandlersSay
      <4>2. answer'.line = Fresh
        <5>1. PICK r : r = [line |-> Fresh, code |-> answer'.code]
          OBVIOUS
        <5>2. answer' = r
          BY <3>3, <5>1, Zenon DEF Refuses
        <5> QED BY <5>1, <5>2
      <4> QED BY <4>1, <4>2 DEF Accounted
    <3> QED BY <2>1, <3>1, <3>2, <3>3
  <2> QED BY <2>4, <2>5 DEF Audited
<1>2. ASSUME NEW o \in Outcomes, EndCall(o) PROVE Audited'
  <2>1. inputs' = inputs /\ replies' = replies /\ Logged' = Logged
    BY <1>2, CallSays DEF EndCall, io
  <2>2. PICK e \in Handed' : e.event = "call" /\ e.line = Current /\ Tells(e, answer'.code)
    BY <1>2, CallSays
  <2>3. answer'.line = Current
    BY <1>2, CallSays
  <2> QED BY <2>1, <2>2, <2>3 DEF Audited, Accounted
<1>3. ASSUME inputs' = inputs, Logged \subseteq Logged',
             replies' = replies,
             answer' = None \/ (answer' = answer /\ Handed \subseteq Handed')
      PROVE  Audited'
  BY <1>3 DEF Audited, Accounted
<1>4. CASE BeginCall \/ GuestStops \/ UNCHANGED vars
  <2>1. UNCHANGED <<inputs, replies, answer, audit, lost, events>>
    BY <1>4 DEF BeginCall, GuestStops, vars, io
  <2>2. Logged' = Logged /\ Handed' = Handed
    BY <2>1, LoggedStays DEF Handed, Pending
  <2> QED BY <1>3, <2>1, <2>2
<1>5. CASE Log
  <2>1. UNCHANGED <<inputs, replies, answer>>
    BY <1>5 DEF Log
  <2> QED BY <1>3, <1>5, <2>1, LogMoves
<1>6. CASE Reply
  <2>1. /\ events = <<>> /\ answer # None /\ answer' = None /\ inputs' = inputs
        /\ audit' = audit /\ lost' = lost
    BY <1>6 DEF Reply
  <2>2. Logged' = Logged /\ Handed = Logged
    BY <2>1, LoggedStays, PendingOf DEF Handed
  <2>3. CASE replies' = replies
    BY <1>3, <2>1, <2>2, <2>3
  <2>4. CASE replies' = Append(replies, answer)
    <3>1. /\ DOMAIN replies' = DOMAIN replies \cup {Len(replies) + 1}
          /\ \A i \in DOMAIN replies : replies'[i] = replies[i]
          /\ replies'[Len(replies) + 1] = answer
      BY <2>4 DEF Types
    <3> QED BY <2>1, <2>2, <3>1 DEF Audited, Accounted
  <2> QED BY <1>6, <2>3, <2>4, Zenon DEF Reply
<1>7. CASE Finish
  <2>1. inputs' = inputs /\ replies' = replies /\ answer' = None /\ audit' = audit /\ lost' = lost
    BY <1>7 DEF Finish, Idle, io
  <2> QED BY <1>3, <2>1, LoggedStays
<1>8. CASE Die
  <2>1. inputs' = inputs /\ replies' = replies /\ answer' = None /\ audit' = audit /\ lost' = lost
    BY <1>8 DEF Die, io
  <2> QED BY <1>3, <2>1, LoggedStays
<1> QED BY <1>1, <1>2, <1>4, <1>5, <1>6, <1>7, <1>8
        DEF Next, Exit, RunnerPanics, Kill, Stopped

(* No call is answered before its event was handed to the sink: handle_call *)
(* logs before handle_line writes the reply.                                *)
THEOREM SessionAudits == Spec => []AnswersAreAudited
<1>1. Init => Types /\ Ordered /\ Complete /\ Audited
  <2>1. Init => replies = <<>> /\ answer = None
    BY DEF Init
  <2>2. replies = <<>> /\ answer = None => Audited
    BY DEF Audited
  <2> QED BY <2>1, <2>2, SessionStarts, OrderStarts
<1>2. Types /\ Ordered /\ Complete /\ Audited /\ [Next]_vars
        => (Types /\ Ordered /\ Complete /\ Audited)'
  BY TypesStep, OrderStep, AuditStep
<1>3. Audited => AnswersAreAudited
  BY DEF Audited, Accounted, AnswersAreAudited, CallEvents
<1> QED BY <1>1, <1>2, <1>3, PTL DEF Spec

-----------------------------------------------------------------------------
(* The count of session_end. *)

HandedCalls == {e \in Handed : e.event = "call"}

(* The current line is a call that was counted and has no event yet.       *)
Busy == IF stage \in {"calling", "running"} THEN 1 ELSE 0

Counted ==
  /\ IsFiniteSet(HandedCalls)
  /\ \A d, e \in HandedCalls : d.line = e.line => d = e
  /\ \A e \in HandedCalls : /\ e.line \in 1..Current
                            /\ stage \in {"calling", "running"} => e.line < Current
  /\ stage # "stopped" => calls = Cardinality(HandedCalls) + Busy

Closed ==
  \A e \in Handed : e.event = "session_end" =>
    /\ stage \in {"closing", "stopped"}
    /\ e.calls = Cardinality(HandedCalls)
    /\ \A d \in Pending : d.event # "call"

LEMMA CountStep ==
  ASSUME Types, Ordered, Counted, Closed, [Next]_vars
  PROVE  Counted' /\ Closed'
<1>0. Current \in Nat /\ Fresh = Current + 1 /\ Fresh > Current /\ calls \in Nat
  BY DEF Current, Fresh, Types
<1>1. ASSUME HandedCalls' = HandedCalls,
             Current' \in {Current, Fresh},
             stage' \in {"calling", "running"} =>
               (stage \in {"calling", "running"} /\ inputs' = inputs) \/ Current' = Fresh,
             stage' # "stopped" => stage # "stopped" /\ calls' - Busy' = calls - Busy,
             calls' \in Nat
      PROVE  Counted'
  <2>1. inputs' = inputs => Current' = Current
    BY DEF Current
  <2>2. Busy \in {0, 1} /\ Busy' \in {0, 1} /\ Cardinality(HandedCalls) \in Nat
    BY FS_CardinalityType DEF Busy, Counted
  <2>3. \A e \in HandedCalls : /\ e.line \in 1..Current'
                               /\ stage' \in {"calling", "running"} => e.line < Current'
    BY <1>0, <1>1, <2>1 DEF Counted
  <2>4. stage' # "stopped" => calls' = Cardinality(HandedCalls) + Busy'
    BY <1>0, <1>1, <2>2 DEF Counted
  <2> QED BY <1>1, <2>3, <2>4 DEF Counted
<1>2. ASSUME NEW e, e.event = "call", Handed' = Handed \cup {e}, e.line = Current',
             \A d \in HandedCalls : d.line < Current',
             Current' \in 1..MaxLines, Current' >= Current,
             stage' = "reading", calls' = calls + 1 - Busy, stage # "stopped"
      PROVE  Counted'
  <2>1. HandedCalls' = HandedCalls \cup {e} /\ Busy' = 0 /\ e \notin HandedCalls
    BY <1>2 DEF HandedCalls, Busy
  <2>2. IsFiniteSet(HandedCalls') /\ Cardinality(HandedCalls') = Cardinality(HandedCalls) + 1
    BY <2>1, FS_AddElement DEF Counted
  <2>3. \A d \in HandedCalls' : d.line \in 1..Current'
    BY <1>0, <1>2, <2>1 DEF Counted
  <2>4. \A d, f \in HandedCalls' : d.line = f.line => d = f
    BY <1>0, <1>2, <2>1 DEF Counted
  <2>5. calls' = Cardinality(HandedCalls') + Busy'
    <3>1. Busy \in {0, 1} /\ Cardinality(HandedCalls) \in Nat /\ calls = Cardinality(HandedCalls) + Busy
      BY <1>2, FS_CardinalityType DEF Busy, Counted
    <3> QED BY <1>2, <2>1, <2>2, <3>1
  <2> QED BY <1>2, <2>2, <2>3, <2>4, <2>5 DEF Counted
<1>3. ASSUME HandedCalls' = HandedCalls, Pending' \subseteq Pending, Handed' \subseteq Handed,
             stage \in {"closing", "stopped"} => stage' \in {"closing", "stopped"}
      PROVE  Closed'
  BY <1>3 DEF Closed
<1>4. stage \notin {"closing", "stopped"} => \A e \in Handed : e.event # "session_end"
  BY DEF Closed
<1>5. ASSUME NEW l \in Lines, HandleLine(l) PROVE Counted' /\ Closed'
  <2>1. Read(l) /\ (Passes(l) \/ Answers(l) \/ Refuses(l) \/ Admits(l))
    BY <1>5, Handlers
  <2>2. stage = "reading" /\ Busy = 0 /\ Current' = Fresh /\ Fresh \in 1..MaxLines
    BY <2>1, RequestsGrow, LinesStay DEF Read, Idle, Busy
  <2>3. \A e \in Handed' : e.event # "session_end"
    BY <2>1, <2>2, <1>4, HandlersSay
  <2>4. Closed'
    BY <2>3 DEF Closed
  <2>5. CASE Refuses(l)
    <3>1. PICK e : Handed' = Handed \cup {e} /\ e.event = "call" /\ e.line = Fresh
      BY <2>1, <2>5, HandlersSay
    <3>2. stage' = "reading" /\ calls' = calls + 1
      BY <2>2, <2>5 DEF Refuses
    <3>3. \A d \in HandedCalls : d.line < Fresh
      BY <1>0 DEF Counted
    <3>4. calls' = calls + 1 - Busy
      BY <1>0, <2>2, <3>2
    <3> QED BY <1>0, <1>2, <2>2, <2>4, <3>1, <3>2, <3>3, <3>4
  <2>6. CASE ~ Refuses(l)
    <3>1. HandedCalls' = HandedCalls
      BY <2>1, <2>6, HandlersSay DEF HandedCalls
    <3>2. \/ stage' = "reading" /\ calls' = calls
          \/ stage' = "calling" /\ calls' = calls + 1
      BY <2>1, <2>2, <2>6 DEF Passes, Answers, Admits
    <3>3. calls' - Busy' = calls - Busy /\ calls' \in Nat
      BY <1>0, <2>2, <3>2 DEF Busy
    <3> QED BY <1>1, <2>2, <2>4, <3>1, <3>2, <3>3
  <2> QED BY <2>5, <2>6
<1>6. ASSUME NEW o \in Outcomes, EndCall(o) PROVE Counted' /\ Closed'
  <2>1. stage = "running" /\ stage' = "reading" /\ Busy = 1 /\ calls' = calls
        /\ Current' = Current /\ Current \in 1..MaxLines
    BY <1>6 DEF EndCall, Busy, Current, Types
  <2>2. PICK e : Handed' = Handed \cup {e} /\ e.event = "call" /\ e.line = Current
    BY <1>6, CallSays
  <2>3. \A d \in HandedCalls : d.line < Current
    BY <2>1 DEF Counted
  <2>4. Closed'
    BY <1>4, <2>1, <2>2 DEF Closed
  <2> QED BY <1>0, <1>2, <2>1, <2>2, <2>3, <2>4
<1>7. CASE BeginCall \/ GuestStops \/ Reply \/ UNCHANGED vars
  <2>1. UNCHANGED <<inputs, calls, audit, lost, events>>
    BY <1>7 DEF BeginCall, GuestStops, Reply, vars, io
  <2>2. stage' = stage \/ (stage = "calling" /\ stage' = "running")
    BY <1>7 DEF BeginCall, GuestStops, Reply, vars
  <2>3. Logged' = Logged /\ Pending' = Pending /\ Handed' = Handed /\ HandedCalls' = HandedCalls
        /\ Current' = Current /\ Busy' = Busy
    BY <2>1, <2>2, LoggedStays DEF Handed, HandedCalls, Pending, Current, Busy
  <2> QED BY <1>0, <1>1, <1>3, <2>1, <2>2, <2>3
<1>8. CASE Log
  <2>1. UNCHANGED <<stage, inputs, calls>>
    BY <1>8 DEF Log
  <2>2. Handed' = Handed /\ HandedCalls' = HandedCalls /\ Pending' \subseteq Pending
        /\ Current' = Current /\ Busy' = Busy
    BY <1>8, <2>1, LogMoves DEF HandedCalls, Current, Busy
  <2> QED BY <1>0, <1>1, <1>3, <2>1, <2>2
<1>9. CASE Finish
  <2>1. /\ stage = "reading" /\ stage' = "closing" /\ events = <<>> /\ inputs' = inputs
        /\ calls' = calls /\ audit' = audit /\ lost' = lost
    BY <1>9 DEF Finish, Idle, io
  <2>2. PICK e : e = [Event("session_end", Current, "", "") EXCEPT !.calls = calls]
    OBVIOUS
  <2>3. e.event = "session_end" /\ e.calls = calls
    BY <2>2 DEF Event
  <2>4. Pending' = {e} /\ Pending = {}
    BY <1>9, <2>1, <2>2, PendingOf, Zenon DEF Finish
  <2>5. Handed' = Handed \cup {e} /\ HandedCalls' = HandedCalls
        /\ Current' = Current /\ Busy' = 0 /\ Busy = 0
    BY <2>1, <2>3, <2>4, LoggedStays DEF Handed, HandedCalls, Current, Busy
  <2>6. Counted'
    BY <1>0, <1>1, <2>1, <2>5
  <2>7. calls = Cardinality(HandedCalls)
    BY <2>1, <2>5, FS_CardinalityType DEF Counted
  <2>8. Closed'
    BY <1>4, <2>1, <2>3, <2>4, <2>5, <2>7 DEF Closed
  <2> QED BY <2>6, <2>8
<1>10. CASE Die
  <2>1. /\ stage' = "stopped" /\ events' = <<>> /\ inputs' = inputs
        /\ calls' = calls /\ audit' = audit /\ lost' = lost
    BY <1>10 DEF Die, io
  <2>2. Handed' = Logged /\ Pending' = {} /\ HandedCalls' \subseteq HandedCalls /\ Current' = Current
    BY <2>1, LoggedStays, PendingOf DEF Handed, HandedCalls, Current
  <2>3. Counted'
    BY <2>1, <2>2, FS_Subset DEF Counted
  <2>4. ASSUME NEW e \in Handed', e.event = "session_end" PROVE HandedCalls' = HandedCalls
    BY <2>2, <2>4 DEF Closed, Handed, HandedCalls
  <2>5. Closed'
    BY <2>1, <2>2, <2>4 DEF Closed, Handed
  <2> QED BY <2>3, <2>5
<1> QED BY <1>5, <1>6, <1>7, <1>8, <1>9, <1>10
        DEF Next, Exit, RunnerPanics, Kill, Stopped

LEMMA CountStarts == Init => Counted /\ Closed
<1> SUFFICES ASSUME Init PROVE Counted /\ Closed
  OBVIOUS
<1>0. stage = "reading" /\ calls = 0 /\ audit = <<>> /\ lost = <<>>
  BY DEF Init
<1>1. /\ audit = <<>> /\ lost = <<>>
      /\ events = <<Event("session_start", 0, "", ""), Event("probe", 0, "", "")>>
  BY DEF Init
<1>2. /\ Event("session_start", 0, "", "").event = "session_start"
      /\ Event("probe", 0, "", "").event = "probe"
  BY DEF Event
<1>3. \A e \in Handed : e.event \in {"session_start", "probe"}
  <2>1. PICK d, e : events = <<d, e>> /\ d.event = "session_start" /\ e.event = "probe"
    BY <1>1, <1>2, Zenon
  <2>2. Logged = {} /\ Pending = {d, e}
    <3>1. DOMAIN events = {1, 2} /\ events[1] = d /\ events[2] = e
      BY <2>1
    <3>2. Pending = {d, e}
      BY <3>1, Zenon DEF Pending
    <3>3. DOMAIN audit = {} /\ DOMAIN lost = {}
      BY <1>0
    <3> QED BY <3>2, <3>3 DEF Logged
  <2> QED BY <2>1, <2>2 DEF Handed
<1>4. HandedCalls = {} /\ Busy = 0
  BY <1>0, <1>3 DEF HandedCalls, Busy
<1>5. Counted
  <2>1. IsFiniteSet(HandedCalls) /\ Cardinality(HandedCalls) = 0
    BY <1>4, FS_EmptySet
  <2>2. calls = Cardinality(HandedCalls) + Busy
    BY <1>0, <1>4, <2>1
  <2> QED BY <1>4, <2>1, <2>2 DEF Counted
<1> QED BY <1>3, <1>5 DEF Closed

(* session_end reports as many calls as were logged or counted as dropped, *)
(* each of a line of its own: handle_call's count and its one call event.  *)
THEOREM SessionCounts == Spec => []SessionEndCounts
<1>1. Init => Types /\ Ordered /\ Complete /\ Counted /\ Closed
  BY SessionStarts, OrderStarts, CountStarts
<1>2. Types /\ Ordered /\ Complete /\ Counted /\ Closed /\ [Next]_vars
        => (Types /\ Ordered /\ Complete /\ Counted /\ Closed)'
  BY TypesStep, OrderStep, CountStep
<1>3. Counted /\ Closed => SessionEndCounts
  <2> SUFFICES ASSUME Counted, Closed, NEW e \in Logged, e.event = "session_end"
               PROVE  /\ e.calls = Cardinality(CallEvents)
                      /\ e.calls = Cardinality({d.line : d \in CallEvents})
    BY DEF SessionEndCounts
  <2>1. HandedCalls = CallEvents /\ e.calls = Cardinality(CallEvents) /\ IsFiniteSet(CallEvents)
    BY DEF Closed, Handed, HandedCalls, CallEvents, Counted
  <2> DEFINE lines == {d.line : d \in CallEvents}
             f == [d \in CallEvents |-> d.line]
  <2>2. f \in Surjection(CallEvents, lines) /\ f \in Injection(CallEvents, lines)
    BY <2>1 DEF Surjection, Injection, IsInjective, Counted
  <2>3. Cardinality(lines) = Cardinality(CallEvents)
    <3> HIDE DEF f, lines
    <3> QED BY <2>1, <2>2, FS_Surjection
  <2> QED BY <2>1, <2>3
<1> QED BY <1>1, <1>2, <1>3, PTL DEF Spec

-----------------------------------------------------------------------------
(* Session_killed and Session_torn show two promises broken. This is what  *)
(* is left of them.                                                        *)

(* A call that ran has its event, the one that still runs excepted.        *)
Recorded ==
  /\ \A c \in ran : \/ stage = "running" /\ c = Current
                    \/ \E e \in Handed : e.event = "call" /\ e.line = c
  /\ stage = "stopped" => events = <<>>

(* The process ends by itself: at the end of input, or because a thread    *)
(* cannot be spawned. Nobody kills it.                                     *)
EndsByItself == stage' = "stopped" => stage = "stopped" \/ Exit \/ RunnerPanics

LEMMA RecordedStep ==
  ASSUME Types, Ordered, Recorded, [Next]_vars, EndsByItself
  PROVE  Recorded'
<1>1. ASSUME ran' = ran, stage # "running", Handed \subseteq Handed',
             stage' = "stopped" => events' = <<>>
      PROVE  Recorded'
  BY <1>1 DEF Recorded
<1>2. ASSUME NEW l \in Lines, HandleLine(l) PROVE Recorded'
  <2>1. Read(l) /\ (Passes(l) \/ Answers(l) \/ Refuses(l) \/ Admits(l))
    BY <1>2, Handlers
  <2>2. Handed \subseteq Handed'
    BY <2>1, HandlersSay
  <2>3. ran' = ran /\ stage = "reading" /\ stage' \in {"reading", "calling"}
    BY <2>1 DEF Read, Idle, runner, Passes, Answers, Refuses, Admits
  <2> QED BY <1>1, <2>2, <2>3
<1>3. CASE BeginCall
  <2>1. /\ stage = "calling" /\ stage' = "running" /\ ran' = ran \cup {Current}
        /\ inputs' = inputs /\ events' = events /\ audit' = audit /\ lost' = lost
    BY <1>3 DEF BeginCall, io
  <2>2. Handed' = Handed /\ Current' = Current
    BY <2>1, LoggedStays DEF Handed, Pending, Current
  <2> QED BY <2>1, <2>2 DEF Recorded
<1>4. ASSUME NEW o \in Outcomes, EndCall(o) PROVE Recorded'
  <2>1. stage' = "reading" /\ ran' = ran
    BY <1>4 DEF EndCall
  <2>2. PICK e : Handed' = Handed \cup {e} /\ e.event = "call" /\ e.line = Current
    BY <1>4, CallSays
  <2> QED BY <2>1, <2>2 DEF Recorded
<1>5. CASE Log
  <2>1. Handed' = Handed /\ events # <<>>
    BY <1>5, LogMoves DEF Log
  <2>2. ran' = ran /\ stage' = stage /\ inputs' = inputs
    BY <1>5 DEF Log, runner
  <2> QED BY <2>1, <2>2 DEF Recorded, Current
<1>6. CASE Finish
  <2>1. events = <<>> /\ audit' = audit /\ lost' = lost /\ ran' = ran
        /\ stage = "reading" /\ stage' = "closing"
    BY <1>6 DEF Finish, Idle, io, runner
  <2>2. Handed \subseteq Handed'
    BY <2>1, LoggedStays, PendingOf DEF Handed
  <2> QED BY <1>1, <2>1, <2>2
<1>7. CASE Die /\ stage # "stopped"
  <2>1. stage \in {"closing", "calling"} /\ events = <<>> /\ events' = <<>>
        /\ audit' = audit /\ lost' = lost /\ ran' = ran
    BY <1>7 DEF Die, EndsByItself, Exit, RunnerPanics, Ordered, io
  <2>2. Handed \subseteq Handed'
    BY <2>1, LoggedStays, PendingOf DEF Handed
  <2> QED BY <1>1, <2>1, <2>2
<1>8. CASE GuestStops \/ Reply \/ UNCHANGED vars
  <2>1. /\ stage' = stage /\ inputs' = inputs /\ ran' = ran
        /\ events' = events /\ audit' = audit /\ lost' = lost
    BY <1>8 DEF GuestStops, Reply, vars, io, runner
  <2>2. Handed' = Handed /\ Current' = Current
    BY <2>1, LoggedStays DEF Handed, Pending, Current
  <2> QED BY <2>1, <2>2 DEF Recorded
<1> QED BY <1>2, <1>3, <1>4, <1>5, <1>6, <1>7, <1>8
        DEF Next, Exit, RunnerPanics, Kill, Stopped

(* Every run is in the audit trail of a process that nobody killed:        *)
(* handle_call logs as soon as Runner::call is back, cmd_run's loop ends   *)
(* between two lines, and a panic of thread::spawn, which comes before the *)
(* guest runs, takes the event of no run with it.                          *)
THEOREM RunsAudited == Spec /\ [][EndsByItself]_vars => []RunsAreAudited
<1>1. Init => Types /\ Ordered /\ Complete /\ Recorded
  <2>1. Init => Recorded
    BY DEF Init, Recorded
  <2> QED BY <2>1, SessionStarts, OrderStarts
<1>2. Types /\ Ordered /\ Complete /\ Recorded /\ [Next]_vars /\ [EndsByItself]_vars
        => (Types /\ Ordered /\ Complete /\ Recorded)'
  <2> SUFFICES ASSUME Types, Ordered, Complete, Recorded, [Next]_vars, [EndsByItself]_vars
               PROVE  (Types /\ Ordered /\ Complete /\ Recorded)'
    OBVIOUS
  <2>1. EndsByItself
    BY DEF EndsByItself, vars
  <2> QED BY <2>1, TypesStep, OrderStep, RecordedStep
<1>3. Recorded => RunsAreAudited
  <2> SUFFICES ASSUME Recorded, stage = "stopped", NEW c \in ran
               PROVE  \E e \in CallEvents : e.line = c
    BY DEF RunsAreAudited
  <2>1. Handed = Logged
    BY PendingOf DEF Recorded, Handed
  <2> QED BY <2>1 DEF Recorded, CallEvents
<1> QED BY <1>1, <1>2, <1>3, PTL DEF Spec

(* The lines of the audit file that hold more than one event.              *)
Damaged == {i \in DOMAIN audit : ~ audit[i].alone}

DamageIsCounted ==
  /\ IsFiniteSet(Damaged)
  /\ Cardinality(Damaged) + (IF torn THEN 1 ELSE 0) <= Len(lost)

LEMMA DamageStep ==
  ASSUME Types, DamageIsCounted, [Next]_vars
  PROVE  DamageIsCounted'
<1>0. Cardinality(Damaged) \in Nat /\ Len(lost) \in Nat /\ audit \in Seq([event: Events, alone: BOOLEAN])
  BY FS_CardinalityType DEF DamageIsCounted, Types
<1>1. CASE audit' = audit /\ torn' = torn /\ lost' = lost
  BY <1>1 DEF DamageIsCounted, Damaged
<1>2. CASE /\ audit' = Append(audit, [event |-> Head(events), alone |-> ~ torn])
           /\ torn' = FALSE /\ lost' = lost
  <2>1. /\ DOMAIN audit' = DOMAIN audit \cup {Len(audit) + 1}
        /\ \A i \in DOMAIN audit : audit'[i] = audit[i]
        /\ audit'[Len(audit) + 1].alone = ~ torn
        /\ Len(audit) + 1 \notin DOMAIN audit
    BY <1>0, <1>2
  <2>2. CASE torn
    <3>1. Damaged' = Damaged \cup {Len(audit) + 1} /\ Len(audit) + 1 \notin Damaged
      BY <2>1, <2>2 DEF Damaged
    <3>2. IsFiniteSet(Damaged') /\ Cardinality(Damaged') = Cardinality(Damaged) + 1
      BY <3>1, FS_AddElement DEF DamageIsCounted
    <3> QED BY <1>0, <1>2, <2>2, <3>2 DEF DamageIsCounted
  <2>3. CASE ~ torn
    <3>1. Damaged' = Damaged
      BY <2>1, <2>3 DEF Damaged
    <3> QED BY <1>0, <1>2, <2>3, <3>1 DEF DamageIsCounted
  <2> QED BY <2>2, <2>3
<1>3. CASE audit' = audit /\ lost' = Append(lost, Head(events)) /\ torn' \in BOOLEAN
  <2>1. Damaged' = Damaged
    BY <1>3 DEF Damaged
  <2>2. Len(lost') = Len(lost) + 1
    BY <1>3 DEF Types
  <2> QED BY <1>0, <1>3, <2>1, <2>2 DEF DamageIsCounted
<1>4. CASE Log
  <2>1. torn' \in BOOLEAN
    BY <1>4, Zenon DEF Log, Types
  <2> QED BY <1>2, <1>3, <1>4, <2>1, Zenon DEF Log
<1>5. CASE ~ Log
  <2>1. io' = io \/ (UNCHANGED <<audit, torn, lost>>)
    <3>1. ASSUME NEW l \in Lines, HandleLine(l) PROVE UNCHANGED io
      BY <3>1, Handlers DEF Read
    <3> QED BY <1>5, <3>1 DEF Next, BeginCall, EndCall, GuestStops, Reply, Finish, Exit,
                              RunnerPanics, Kill, Die, Stopped, vars
  <2> QED BY <1>1, <2>1 DEF io
<1> QED BY <1>4, <1>5

(* An audit file has no more lines that hold two events than the count of  *)
(* dropped events says: while it says none, each line is one event. What a *)
(* write that failed half way spoils is the one event after it.            *)
THEOREM DamageCounted ==
  Spec => [](Cardinality(Damaged) <= Len(lost) /\ (lost = <<>> => OneEventPerLine))
<1>1. Init => Types /\ DamageIsCounted
  <2>1. Init => Damaged = {} /\ torn = FALSE /\ Len(lost) = 0
    <3> SUFFICES ASSUME Init PROVE Damaged = {} /\ torn = FALSE /\ Len(lost) = 0
      OBVIOUS
    <3>1. audit = <<>> /\ lost = <<>> /\ torn = FALSE
      BY DEF Init
    <3> QED BY <3>1 DEF Damaged
  <2> QED BY <2>1, SessionStarts, FS_EmptySet DEF DamageIsCounted
<1>2. Types /\ DamageIsCounted /\ [Next]_vars => (Types /\ DamageIsCounted)'
  BY TypesStep, DamageStep
<1>3. Types /\ DamageIsCounted
        => Cardinality(Damaged) <= Len(lost) /\ (lost = <<>> => OneEventPerLine)
  <2> SUFFICES ASSUME Types, DamageIsCounted
               PROVE  Cardinality(Damaged) <= Len(lost) /\ (lost = <<>> => OneEventPerLine)
    OBVIOUS
  <2>1. Cardinality(Damaged) \in Nat /\ Len(lost) \in Nat
    BY FS_CardinalityType DEF DamageIsCounted, Types
  <2>2. Cardinality(Damaged) <= Len(lost)
    BY <2>1 DEF DamageIsCounted
  <2>3. ASSUME lost = <<>> PROVE Damaged = {}
    <3>1. Cardinality(Damaged) = 0
      BY <2>1, <2>2, <2>3
    <3> QED BY <3>1, FS_EmptySet DEF DamageIsCounted
  <2> QED BY <2>2, <2>3 DEF Damaged, OneEventPerLine
<1> QED BY <1>1, <1>2, <1>3, PTL DEF Spec

-----------------------------------------------------------------------------
(* The Runner. *)

(* The session uses its Runner as the contract has it, a call at a time    *)
(* and each line's once; whatever keeps the contract, and Sandbox does, may *)
(* stand behind it.                                                        *)
THEOREM SessionUsesToolCall == Spec => Runner!Spec
<1>1. Init => Runner!Init
  BY DEF Init
<1>2. Types /\ [Next]_vars => [Runner!Next]_(Runner!vars)
  <2> SUFFICES ASSUME Types, [Next]_vars PROVE Runner!Next \/ UNCHANGED Runner!vars
    OBVIOUS
  <2>1. ASSUME NEW l \in Lines, HandleLine(l) PROVE UNCHANGED Runner!vars
    BY <2>1, Handlers DEF Read, runner, Runner!vars
  <2>2. CASE BeginCall
    <3>1. Current \in 1..MaxLines
      BY <2>2, BoundsAssumption DEF BeginCall, Types, Current
    <3> QED BY <2>2, <3>1 DEF BeginCall, Runner!Next
  <2>3. ASSUME NEW o \in Outcomes, EndCall(o) PROVE Runner!Next
    BY <2>3 DEF EndCall, Runner!Next
  <2>4. CASE GuestStops
    BY <2>4 DEF GuestStops, Runner!Next
  <2>5. CASE Die
    BY <2>5 DEF Die, Runner!Next
  <2>6. CASE Log \/ Reply \/ Finish \/ UNCHANGED vars
    BY <2>6 DEF Log, Reply, Finish, vars, runner, Runner!vars
  <2> QED BY <2>1, <2>2, <2>3, <2>4, <2>5, <2>6 DEF Next, Exit, RunnerPanics, Kill, Stopped
<1> QED BY <1>1, <1>2, SessionStarts, TypesStep, PTL DEF Spec, Runner!Spec

(* Whose guests may act: those of the current call, and of calls whose     *)
(* reply, sent or pending, is "timeout".                                   *)
Abandoned ==
  /\ \A i \in DOMAIN replies : replies[i].line \in acting => replies[i].code = "timeout"
  /\ answer # None /\ answer.line \in acting => answer.code = "timeout"
  /\ \A c \in acting : c <= Current
  /\ stage = "running" => open = Current

LEMMA AbandonedStep ==
  ASSUME Types, Ordered, Abandoned, [Next]_vars
  PROVE  Abandoned'
<1>0. Current \in Nat /\ Fresh = Current + 1 /\ acting \subseteq 1..MaxLines /\ MaxLines \in Nat
  BY BoundsAssumption DEF Current, Fresh, Types
<1>1. ASSUME NEW l \in Lines, HandleLine(l) PROVE Abandoned'
  <2>1. Read(l) /\ (Passes(l) \/ Answers(l) \/ Refuses(l) \/ Admits(l))
    BY <1>1, Handlers
  <2>2. /\ answer = None /\ replies' = replies /\ acting' = acting
        /\ stage = "reading" /\ stage' \in {"reading", "calling"}
    BY <2>1 DEF Read, Idle, io, runner, Passes, Answers, Refuses, Admits
  <2>3. Current' = Fresh
    BY <2>1, RequestsGrow
  <2>4. answer' = None \/ answer'.line = Fresh
    <3>1. CASE Answers(l) \/ Refuses(l)
      <4>1. answer' = [line |-> Fresh, code |-> answer'.code]
        BY <3>1 DEF Answers, Refuses
      <4> QED BY <4>1
    <3>2. CASE Passes(l) \/ Admits(l)
      BY <2>2, <3>2 DEF Passes, Admits
    <3> QED BY <2>1, <3>1, <3>2
  <2>5. Fresh \notin acting /\ \A c \in acting : c <= Fresh
    BY <1>0 DEF Abandoned
  <2> QED BY <2>2, <2>3, <2>4, <2>5 DEF Abandoned
<1>2. CASE BeginCall
  <2>1. /\ acting' = acting \cup {Current} /\ open' = Current /\ stage' = "running"
        /\ inputs' = inputs /\ replies' = replies /\ answer' = answer
    BY <1>2 DEF BeginCall, Runner!Begin, io
  <2>2. answer = None /\ Current \notin Answered
    BY <1>2 DEF BeginCall, Ordered, Owing
  <2>3. \A i \in DOMAIN replies : replies[i].line # Current
    BY <2>2 DEF Answered
  <2>4. Current' = Current /\ Current <= Current
    BY <1>0, <2>1 DEF Current
  <2> QED BY <2>1, <2>2, <2>3, <2>4 DEF Abandoned
<1>3. ASSUME NEW o \in Outcomes, EndCall(o) PROVE Abandoned'
  <2>1. /\ stage' = "reading" /\ acting' = acting /\ replies' = replies /\ inputs' = inputs
        /\ open = Current /\ (open \in acting => o = "timeout")
    BY <1>3 DEF EndCall, Runner!Answer, io, Abandoned
  <2>2. PICK code \in IF o = "completed" THEN {"result", "guest_error"} ELSE {o} :
          answer' = [line |-> Current, code |-> code]
    BY <1>3, Zenon DEF EndCall
  <2>3. answer'.line = Current /\ (Current \in acting => answer'.code = "timeout")
    BY <2>1, <2>2
  <2>4. Current' = Current
    BY <2>1 DEF Current
  <2> QED BY <2>1, <2>3, <2>4 DEF Abandoned
<1>4. CASE GuestStops \/ Die
  <2>1. /\ acting' \subseteq acting /\ replies' = replies /\ inputs' = inputs
        /\ answer' = answer \/ answer' = None
        /\ (stage' = stage /\ open' = open) \/ stage' = "stopped"
    BY <1>4 DEF GuestStops, Runner!Stop, Die, Runner!Crash, io
  <2>2. Current' = Current
    BY <2>1 DEF Current
  <2> QED BY <2>1, <2>2 DEF Abandoned
<1>5. CASE Reply
  <2>1. /\ acting' = acting /\ open' = open /\ inputs' = inputs /\ stage' = "reading"
        /\ answer # None /\ answer' = None
    BY <1>5 DEF Reply, runner
  <2>2. replies' = replies \/ replies' = Append(replies, answer)
    BY <1>5, Zenon DEF Reply
  <2>3. ASSUME NEW i \in DOMAIN replies' PROVE replies'[i] = answer \/ \E j \in DOMAIN replies : replies'[i] = replies[j]
    <3>1. replies \in Seq(AnswerSet)
      BY DEF Types
    <3>2. CASE replies' = Append(replies, answer)
      <4>1. i \in DOMAIN replies \/ i = Len(replies) + 1
        BY <3>1, <3>2
      <4>2. replies'[Len(replies) + 1] = answer /\ \A j \in DOMAIN replies : replies'[j] = replies[j]
        BY <3>1, <3>2
      <4> QED BY <4>1, <4>2
    <3>3. CASE replies' = replies
      BY <3>3
    <3> QED BY <2>2, <3>2, <3>3
  <2>4. Current' = Current
    BY <2>1 DEF Current
  <2> QED BY <2>1, <2>3, <2>4 DEF Abandoned
<1>6. CASE Log \/ Finish \/ UNCHANGED vars
  <2>1. /\ acting' = acting /\ open' = open /\ inputs' = inputs /\ answer' = answer
        /\ replies' = replies /\ stage' \in {stage, "closing"}
    BY <1>6 DEF Log, Finish, vars, io, runner
  <2>2. Current' = Current
    BY <2>1 DEF Current
  <2> QED BY <2>1, <2>2 DEF Abandoned
<1> QED BY <1>1, <1>2, <1>3, <1>4, <1>5, <1>6 DEF Next, Exit, RunnerPanics, Kill, Stopped

(* Behind a reply that says anything but "timeout" there is no guest left, *)
(* as long as the session lives: what the sandbox promises of its answers  *)
(* is what the client may conclude from its replies.                       *)
THEOREM RepliesLeaveNoGuest ==
  Spec => [](\A i \in DOMAIN replies : replies[i].line \in acting => replies[i].code = "timeout")
<1>1. Init => Types /\ Ordered /\ Complete /\ Abandoned
  <2>1. Init => Abandoned
    <3> SUFFICES ASSUME Init PROVE Abandoned
      OBVIOUS
    <3>1. replies = <<>> /\ answer = None /\ acting = {} /\ stage = "reading"
      BY DEF Init, Runner!Init
    <3> QED BY <3>1 DEF Abandoned
  <2> QED BY <2>1, SessionStarts, OrderStarts
<1>2. Types /\ Ordered /\ Complete /\ Abandoned /\ [Next]_vars
        => (Types /\ Ordered /\ Complete /\ Abandoned)'
  BY TypesStep, OrderStep, AbandonedStep
<1>3. Abandoned => \A i \in DOMAIN replies : replies[i].line \in acting => replies[i].code = "timeout"
  BY DEF Abandoned
<1> QED BY <1>1, <1>2, <1>3, PTL DEF Spec

-----------------------------------------------------------------------------
(* That the closed form of civil_from_days is the calendar, on every day.  *)
(* A day of an era falls on one year and one day of that year; what the    *)
(* code computes with nested quotients is found to be that pair, and the   *)
(* next day's pair is its successor. A quotient by a constant k is known   *)
(* to the prover as k * q <= n < k * q + k, which makes each lemma linear. *)

(* The day of the year that begins with March, and its month and day.      *)
YearStart(y) == 365 * y + y \div 4 - y \div 100
Mp(t) == (5 * t + 2) \div 153
MonthDay(t) == t - (153 * Mp(t) + 2) \div 5 + 1
MonthOf(p) == IF p < 10 THEN p + 3 ELSE p - 9

(* The years of an era that end with a 29th of February.                   *)
EndsLeap(y) == y % 4 = 3 /\ (y % 100 = 99 => y = 399)

(* A day of the era and the year and day of the year it falls on. *)
Falls(n, y, t) ==
  /\ n = YearStart(y) + t
  /\ 0 <= y /\ y <= 399
  /\ 0 <= t /\ t <= 365
  /\ t = 365 => EndsLeap(y)

(* The quotients of Yoe find the year a day falls on.                      *)
LEMMA YearIsUnique ==
  ASSUME NEW n \in Int, NEW y \in Int, NEW t \in Int, Falls(n, y, t)
  PROVE  Yoe(n) = y
<1> DEFINE a == n \div 1460
           b == n \div 36524
           c == n \div 146096
           z == Yoe(n)
           p == y \div 4
           q == y \div 100
<1>1. a \in Int /\ 1460 * a <= n /\ n < 1460 * a + 1460
  BY SMT
<1>2. b \in Int /\ 36524 * b <= n /\ n < 36524 * b + 36524
  BY SMT
<1>3. c \in Int /\ 146096 * c <= n /\ n < 146096 * c + 146096
  BY SMT
<1>4. z \in Int /\ 365 * z <= n - a + b - c /\ n - a + b - c < 365 * z + 365
  <2> DEFINE s == n - a + b - c
  <2>1. s \in Int
    BY <1>1, <1>2, <1>3, SMT
  <2> HIDE DEF s
  <2>2. s \div 365 \in Int /\ 365 * (s \div 365) <= s /\ s < 365 * (s \div 365) + 365
    BY <2>1, SMT
  <2> QED BY <2>2 DEF Yoe, s
<1>5. p \in Int /\ 4 * p <= y /\ y < 4 * p + 4 /\ (y % 4 = 3 => y = 4 * p + 3)
  BY SMT
<1>6. q \in Int /\ 100 * q <= y /\ y < 100 * q + 100 /\ (y % 100 = 99 <=> y = 100 * q + 99)
  BY SMT
<1>7. /\ n = 365 * y + p - q + t /\ 0 <= y /\ y <= 399 /\ 0 <= t /\ t <= 365
      /\ t = 365 => y = 4 * p + 3 /\ (y = 100 * q + 99 => y = 399)
  BY <1>5, <1>6 DEF Falls, YearStart, EndsLeap
<1> HIDE DEF a, b, c, z, p, q
<1>8. z = y
  BY <1>1, <1>2, <1>3, <1>4, <1>5, <1>6, <1>7, SMTT(60)
<1> QED BY <1>8 DEF z

(* Every day of an era falls on a year of it.                              *)
LEMMA DaysFall ==
  ASSUME NEW n \in Int, 0 <= n, n <= 146096
  PROVE  Yoe(n) \in Int /\ n - YearStart(Yoe(n)) \in Int /\ Falls(n, Yoe(n), n - YearStart(Yoe(n)))
<1> DEFINE a == n \div 1460
           b == n \div 36524
           c == n \div 146096
           y == Yoe(n)
           p == y \div 4
           q == y \div 100
<1>1. a \in Int /\ 1460 * a <= n /\ n < 1460 * a + 1460
  BY SMT
<1>2. b \in Int /\ 36524 * b <= n /\ n < 36524 * b + 36524
  BY SMT
<1>3. c \in Int /\ 146096 * c <= n /\ n < 146096 * c + 146096
  BY SMT
<1>4. y \in Int /\ 365 * y <= n - a + b - c /\ n - a + b - c < 365 * y + 365
  <2> DEFINE s == n - a + b - c
  <2>1. s \in Int
    BY <1>1, <1>2, <1>3, SMT
  <2> HIDE DEF s
  <2>2. s \div 365 \in Int /\ 365 * (s \div 365) <= s /\ s < 365 * (s \div 365) + 365
    BY <2>1, SMT
  <2> QED BY <2>2 DEF Yoe, s
<1> HIDE DEF y
<1>5. p \in Int /\ 4 * p <= y /\ y < 4 * p + 4 /\ (y % 4 = 3 <=> y = 4 * p + 3)
  BY <1>4, SMT
<1>6. q \in Int /\ 100 * q <= y /\ y < 100 * q + 100 /\ (y % 100 = 99 <=> y = 100 * q + 99)
  BY <1>4, SMT
<1> DEFINE t == n - (365 * y + p - q)
<1>7. t \in Int
  BY <1>4, <1>5, <1>6, SMT
<1> HIDE DEF a, b, c, p, q
<1>8. /\ 0 <= y /\ y <= 399 /\ 0 <= t /\ t <= 365
      /\ t = 365 => y = 4 * p + 3 /\ (y = 100 * q + 99 => y = 399)
  BY <1>1, <1>2, <1>3, <1>4, <1>5, <1>6, SMTT(60)
<1>9. Falls(n, y, t)
  BY <1>4, <1>5, <1>6, <1>8 DEF Falls, YearStart, EndsLeap, p, q
<1> QED BY <1>4, <1>7, <1>9 DEF y, p, q, YearStart

(* Tomorrow is the next day of the year, or the first of the next year.    *)
LEMMA NextFalls ==
  ASSUME NEW n \in Int, NEW y \in Int, NEW t \in Int, Falls(n, y, t), n < 146096
  PROVE  \/ Falls(n + 1, y, t + 1) /\ (t = 364 => EndsLeap(y))
         \/ Falls(n + 1, y + 1, 0) /\ t >= 364 /\ (t = 364 => ~ EndsLeap(y))
<1> DEFINE p == y \div 4
           q == y \div 100
           p1 == (y + 1) \div 4
           q1 == (y + 1) \div 100
<1>1. p \in Int /\ 4 * p <= y /\ y < 4 * p + 4 /\ (y % 4 = 3 <=> y = 4 * p + 3)
  BY SMT
<1>2. q \in Int /\ 100 * q <= y /\ y < 100 * q + 100 /\ (y % 100 = 99 <=> y = 100 * q + 99)
  BY SMT
<1>3. p1 \in Int /\ 4 * p1 <= y + 1 /\ y + 1 < 4 * p1 + 4
  BY SMT
<1>4. q1 \in Int /\ 100 * q1 <= y + 1 /\ y + 1 < 100 * q1 + 100
  BY SMT
<1>5. n = 365 * y + p - q + t /\ 0 <= y /\ y <= 399 /\ 0 <= t /\ t <= 365
  BY DEF Falls, YearStart
<1>6. EndsLeap(y) <=> y = 4 * p + 3 /\ (y = 100 * q + 99 => y = 399)
  BY <1>1, <1>2 DEF EndsLeap
<1>7. t = 365 => EndsLeap(y)
  BY DEF Falls
<1> HIDE DEF p, q, p1, q1
<1>8. CASE t < 364 \/ (t = 364 /\ EndsLeap(y))
  <2>1. n + 1 = 365 * y + p - q + (t + 1) /\ 0 <= t + 1 /\ t + 1 <= 365
    BY <1>1, <1>2, <1>5, <1>8, SMT
  <2>2. t + 1 = 365 => EndsLeap(y)
    BY <1>8, SMT
  <2>3. Falls(n + 1, y, t + 1)
    BY <2>1, <2>2, <1>5 DEF Falls, YearStart, p, q
  <2> QED BY <2>3, <1>8, SMT
<1>9. CASE t = 365 \/ (t = 364 /\ ~ EndsLeap(y))
  <2>1. n + 1 = 365 * (y + 1) + p1 - q1 + 0 /\ y + 1 <= 399
    BY <1>1, <1>2, <1>3, <1>4, <1>5, <1>6, <1>7, <1>9, SMTT(60)
  <2>2. Falls(n + 1, y + 1, 0)
    BY <2>1, <1>5 DEF Falls, YearStart, p1, q1
  <2> QED BY <2>2, <1>9, SMT
<1> QED BY <1>5, <1>8, <1>9, SMT

(* An era ends with a 29th of February.                                    *)
LEMMA EraEnds ==
  ASSUME NEW y \in Int, NEW t \in Int, Falls(146096, y, t)
  PROVE  y = 399 /\ t = 365
<1> DEFINE p == y \div 4
           q == y \div 100
<1>1. p \in Int /\ 4 * p <= y /\ y < 4 * p + 4
  BY SMT
<1>2. q \in Int /\ 100 * q <= y /\ y < 100 * q + 100
  BY SMT
<1>3. 146096 = 365 * y + p - q + t /\ 0 <= y /\ y <= 399 /\ 0 <= t /\ t <= 365
  BY DEF Falls, YearStart
<1> HIDE DEF p, q
<1> QED BY <1>1, <1>2, <1>3, SMTT(60)

-----------------------------------------------------------------------------
(* Months: their number counts from March, and the days in front of month  *)
(* p are (153 * p + 2) \div 5.                                             *)

Length(p) == IF p = 11 THEN 29 ELSE IF p \in {1, 3, 6, 8} THEN 30 ELSE 31

(* Months have their lengths, and one follows upon the other.              *)
LEMMA MonthsFall ==
  ASSUME NEW t \in Int, 0 <= t, t <= 365
  PROVE  /\ Mp(t) \in 0..11 /\ MonthDay(t) \in 1..31 /\ MonthDay(t) <= Length(Mp(t))
         /\ t < 365 =>
              \/ Mp(t + 1) = Mp(t) /\ MonthDay(t + 1) = MonthDay(t) + 1
              \/ /\ Mp(t + 1) = Mp(t) + 1 /\ MonthDay(t + 1) = 1
                 /\ MonthDay(t) = Length(Mp(t))
<1> DEFINE p == Mp(t)
           q == Mp(t + 1)
           e == (153 * p + 2) \div 5
           f == (153 * q + 2) \div 5
<1>1. p \in Int /\ 153 * p <= 5 * t + 2 /\ 5 * t + 2 < 153 * p + 153
  BY SMT DEF Mp
<1>2. q \in Int /\ 153 * q <= 5 * t + 7 /\ 5 * t + 7 < 153 * q + 153
  BY SMT DEF Mp
<1> HIDE DEF p, q
<1>3. e \in Int /\ 5 * e <= 153 * p + 2 /\ 153 * p + 2 < 5 * e + 5
  BY <1>1, SMT
<1>4. f \in Int /\ 5 * f <= 153 * q + 2 /\ 153 * q + 2 < 5 * f + 5
  BY <1>2, SMT
<1> HIDE DEF e, f
<1>5. 0 <= p /\ p <= 11
  BY <1>1, SMT
<1>6. t - e + 1 >= 1 /\ t - e + 1 <= Length(p)
  BY <1>1, <1>3, <1>5, SMTT(60) DEF Length
<1>7. t < 365 => \/ q = p /\ (t + 1) - f + 1 = t - e + 1 + 1
                 \/ q = p + 1 /\ (t + 1) - f + 1 = 1 /\ t - e + 1 = Length(p)
  BY <1>1, <1>2, <1>3, <1>4, <1>5, SMTT(60) DEF Length
<1>8. MonthDay(t) = t - e + 1 /\ MonthDay(t + 1) = (t + 1) - f + 1
  BY DEF MonthDay, e, f, p, q
<1>9. t - e + 1 \in 1..31
  BY <1>3, <1>5, <1>6, SMT DEF Length
<1> QED BY <1>1, <1>5, <1>6, <1>7, <1>8, <1>9 DEF p, q

(* The last two days of February are the last of a year.                   *)
LEMMA YearEnds ==
  /\ Mp(364) = 11 /\ MonthDay(364) = 28
  /\ Mp(365) = 11 /\ MonthDay(365) = 29
  /\ Mp(0) = 0 /\ MonthDay(0) = 1
  /\ \A t \in 0..365 : Mp(t) = 11 /\ MonthDay(t) >= 28 => t >= 364
BY SMT DEF Mp, MonthDay

-----------------------------------------------------------------------------
(* Dates. *)

(* The years an era's years stand for are leap years where they end with a *)
(* 29th of February.                                                       *)
LEMMA LeapYears ==
  ASSUME NEW era \in Int, NEW y \in Int, 0 <= y, y <= 399
  PROVE  IsLeap(y + era * 400 + 1) <=> EndsLeap(y)
<1> DEFINE Y == y + era * 400 + 1
<1>1. Y \in Int
  BY SMT
<1>2. Y % 4 = 0 <=> y % 4 = 3
  BY SMT
<1>3. Y % 100 = 0 <=> y % 100 = 99
  BY SMT
<1>4. Y % 400 = 0 <=> y = 399
  BY SMT
<1> HIDE DEF Y
<1>5. IsLeap(Y) <=> EndsLeap(y)
  BY <1>2, <1>3, <1>4, Zenon DEF IsLeap, EndsLeap
<1> QED BY <1>5 DEF Y

DateOf(era, y, t) ==
  [y |-> y + era * 400 + (IF MonthOf(Mp(t)) <= 2 THEN 1 ELSE 0),
   m |-> MonthOf(Mp(t)),
   d |-> MonthDay(t)]

(* What civil_from_days makes of a day whose year and day of it are known. *)
LEMMA Civil ==
  ASSUME NEW z \in Int, NEW era \in Int, NEW n \in Int, NEW y \in Int, NEW t \in Int,
         z + 719468 = 146097 * era + n, 0 <= n, n <= 146096, Falls(n, y, t)
  PROVE  CivilFromDays(z) = DateOf(era, y, t)
<1> DEFINE g == z + 719468
<1>1. g \div 146097 = era /\ g % 146097 = n
  BY SMT
<1>2. Yoe(n) = y
  BY YearIsUnique
<1>3. n - YearStart(y) = t
  BY SMT DEF Falls, YearStart
<1> QED BY <1>1, <1>2, <1>3 DEF CivilFromDays, DateOf, Mp, MonthDay, MonthOf, YearStart

(* The calendar's months are as long as those counted from March.          *)
LEMMA FebruaryDays ==
  ASSUME NEW era \in Int, NEW y \in Int, NEW t \in Int, 0 <= y, y <= 399, 0 <= t, t <= 365
  PROVE  LET r == DateOf(era, y, t) IN
         /\ r.m \in 1..12
         /\ Mp(t) = 11 => DaysIn(r.y, r.m) = IF EndsLeap(y) THEN 29 ELSE 28
         /\ Mp(t) # 11 => DaysIn(r.y, r.m) = Length(Mp(t))
<1> DEFINE r == DateOf(era, y, t)
           p == Mp(t)
<1>1. p \in 0..11
  BY MonthsFall
<1>2. r.m = MonthOf(p) /\ r.y = y + era * 400 + (IF MonthOf(p) <= 2 THEN 1 ELSE 0)
  BY DEF DateOf
<1> HIDE DEF r, p
<1>3. MonthOf(p) \in 1..12 /\ (p = 11 => MonthOf(p) = 2) /\ (p # 11 => MonthOf(p) # 2)
  BY <1>1, SMT DEF MonthOf
<1>4. p # 11 => DaysIn(r.y, r.m) = Length(p)
  BY <1>1, <1>2, <1>3, SMT DEF DaysIn, Length, MonthOf
<1>5. ASSUME p = 11
      PROVE  DaysIn(r.y, r.m) = IF EndsLeap(y) THEN 29 ELSE 28
  <2>1. r.m = 2 /\ r.y = y + era * 400 + 1
    BY <1>2, <1>3, <1>5, SMT
  <2>2. IsLeap(r.y) <=> EndsLeap(y)
    BY <2>1, LeapYears
  <2> QED BY <2>1, <2>2 DEF DaysIn
<1> QED BY <1>2, <1>3, <1>4, <1>5 DEF r, p

(* The date that rfc3339_utc stamps advances as the calendar does, for     *)
(* every day whatsoever: in leap years and at the ends of months, years,   *)
(* centuries and eras, before the epoch of Unix and after it.              *)
THEOREM DatesFollow ==
  /\ CivilFromDays(0) = [y |-> 1970, m |-> 1, d |-> 1]
  /\ \A z \in Int : CivilFromDays(z + 1) = NextDate(CivilFromDays(z))
<1>1. CivilFromDays(0) = [y |-> 1970, m |-> 1, d |-> 1]
  BY SMT DEF CivilFromDays, Yoe
<1>2. ASSUME NEW z \in Int
      PROVE  CivilFromDays(z + 1) = NextDate(CivilFromDays(z))
  <2> DEFINE era == (z + 719468) \div 146097
             n   == (z + 719468) % 146097
             y   == Yoe(n)
             t   == n - YearStart(y)
  <2>1. /\ era \in Int /\ n \in Int /\ z + 719468 = 146097 * era + n
        /\ 0 <= n /\ n <= 146096
    BY SMT
  <2> HIDE DEF era, n
  <2>2. y \in Int /\ t \in Int /\ Falls(n, y, t)
    BY <2>1, DaysFall
  <2> HIDE DEF y, t
  <2>3. 0 <= y /\ y <= 399 /\ 0 <= t /\ t <= 365 /\ (t = 365 => EndsLeap(y))
    BY <2>2 DEF Falls
  <2>4. CivilFromDays(z) = DateOf(era, y, t)
    BY <2>1, <2>2, Civil
  <2>5. /\ Mp(t) \in 0..11 /\ MonthDay(t) \in 1..31 /\ MonthDay(t) <= Length(Mp(t))
        /\ t < 365 =>
             \/ Mp(t + 1) = Mp(t) /\ MonthDay(t + 1) = MonthDay(t) + 1
             \/ /\ Mp(t + 1) = Mp(t) + 1 /\ MonthDay(t + 1) = 1
                /\ MonthDay(t) = Length(Mp(t))
    BY <2>2, <2>3, MonthsFall
  <2> DEFINE r == DateOf(era, y, t)
  <2>6. r.m = MonthOf(Mp(t)) /\ r.d = MonthDay(t)
        /\ r.y = y + era * 400 + (IF MonthOf(Mp(t)) <= 2 THEN 1 ELSE 0)
        /\ r = [y |-> r.y, m |-> r.m, d |-> r.d]
    BY DEF DateOf
  <2>7. /\ r.m \in 1..12
        /\ Mp(t) = 11 => DaysIn(r.y, r.m) = IF EndsLeap(y) THEN 29 ELSE 28
        /\ Mp(t) # 11 => DaysIn(r.y, r.m) = Length(Mp(t))
    BY <2>1, <2>2, <2>3, FebruaryDays
  <2> HIDE DEF r
  <2>8. CASE n < 146096 /\ Falls(n + 1, y, t + 1) /\ (t = 364 => EndsLeap(y))
    <3>1. CivilFromDays(z + 1) = DateOf(era, y, t + 1)
      BY <2>1, <2>2, <2>8, Civil, SMT
    <3>2. t + 1 \in Int /\ 0 <= t + 1 /\ t + 1 <= 365
      BY <2>2, <2>8 DEF Falls
    <3>3. Mp(t + 1) \in 0..11 /\ MonthDay(t + 1) <= Length(Mp(t + 1))
      BY <3>2, MonthsFall
    <3>4. CASE Mp(t + 1) = Mp(t) /\ MonthDay(t + 1) = MonthDay(t) + 1
      <4>1. DateOf(era, y, t + 1) = [y |-> r.y, m |-> r.m, d |-> r.d + 1]
        BY <2>6, <3>4 DEF DateOf
      <4>2. r.d < DaysIn(r.y, r.m)
        <5>1. CASE Mp(t) # 11
          BY <5>1, <2>5, <2>6, <2>7, <3>3, <3>4, SMT DEF Length
        <5>2. CASE Mp(t) = 11
          BY <5>2, <2>2, <2>3, <2>5, <2>6, <2>7, <2>8, <3>2, <3>3, <3>4, YearEnds, SMT DEF Length
        <5> QED BY <5>1, <5>2
      <4>3. NextDate(r) = [y |-> r.y, m |-> r.m, d |-> r.d + 1]
        BY <4>2, <2>6 DEF NextDate
      <4> QED BY <2>4, <3>1, <4>1, <4>3 DEF r
    <3>5. CASE Mp(t + 1) = Mp(t) + 1 /\ MonthDay(t + 1) = 1 /\ MonthDay(t) = Length(Mp(t))
      <4>1. Mp(t) \in 0..10 /\ r.d = DaysIn(r.y, r.m)
        BY <2>5, <2>6, <2>7, <3>3, <3>5, SMT
      <4>2. DaysIn(r.y, r.m) \in Int
        BY DEF DaysIn
      <4>3. NextDate(r) = IF r.m < 12 THEN [y |-> r.y, m |-> r.m + 1, d |-> 1]
                          ELSE [y |-> r.y + 1, m |-> 1, d |-> 1]
        BY <4>1, <4>2, SMT DEF NextDate
      <4>4. DateOf(era, y, t + 1) = IF r.m < 12 THEN [y |-> r.y, m |-> r.m + 1, d |-> 1]
                                    ELSE [y |-> r.y + 1, m |-> 1, d |-> 1]
        BY <2>1, <2>2, <2>6, <3>5, <4>1, SMT DEF DateOf, MonthOf
      <4> QED BY <2>4, <3>1, <4>3, <4>4 DEF r
    <3>6. t < 365
      BY <2>2, <3>2, SMT
    <3> QED BY <2>5, <3>4, <3>5, <3>6
  <2>9. ASSUME t >= 364, t = 364 => ~ EndsLeap(y)
        PROVE  NextDate(r) = [y |-> y + era * 400 + 1, m |-> 3, d |-> 1]
    <3>1. t = 364 \/ t = 365
      BY <2>2, <2>3, <2>9, SMT
    <3>2. Mp(t) = 11 /\ MonthDay(t) = IF t = 365 THEN 29 ELSE 28
      BY <3>1, YearEnds
    <3>3. r.m = 2 /\ r.y = y + era * 400 + 1 /\ r.d = DaysIn(r.y, r.m)
      BY <2>3, <2>6, <2>7, <2>9, <3>1, <3>2 DEF MonthOf
    <3>4. r.d \in Int
      BY <2>5, <2>6
    <3> QED BY <3>3, <3>4, SMT DEF NextDate
  <2>10. CASE n < 146096 /\ Falls(n + 1, y + 1, 0) /\ t >= 364 /\ (t = 364 => ~ EndsLeap(y))
    <3>1. CivilFromDays(z + 1) = DateOf(era, y + 1, 0)
      BY <2>1, <2>2, <2>10, Civil, SMT
    <3>2. DateOf(era, y + 1, 0) = [y |-> y + era * 400 + 1, m |-> 3, d |-> 1]
      BY <2>1, <2>2, YearEnds, SMT DEF DateOf, MonthOf
    <3> QED BY <2>4, <2>9, <2>10, <3>1, <3>2 DEF r
  <2>11. CASE n = 146096
    <3>1. y = 399 /\ t = 365
      BY <2>2, <2>11, EraEnds
    <3>2. Falls(0, 0, 0)
      BY SMT DEF Falls, YearStart
    <3>3. CivilFromDays(z + 1) = DateOf(era + 1, 0, 0)
      BY <2>1, <2>11, <3>2, Civil, SMT
    <3>4. DateOf(era + 1, 0, 0) = [y |-> y + era * 400 + 1, m |-> 3, d |-> 1]
      BY <2>1, <3>1, YearEnds, SMT DEF DateOf, MonthOf
    <3> QED BY <2>4, <2>9, <3>1, <3>3, <3>4 DEF r
  <2> QED BY <2>1, <2>2, <2>8, <2>10, <2>11, NextFalls
<1> QED BY <1>1, <1>2

(* A number of seconds is a number of days and less than another day.      *)
LEMMA SecondsOfDays ==
  ASSUME NEW secs \in Nat
  PROVE  /\ secs \div 86400 \in Nat
         /\ secs % 86400 \in Nat /\ secs % 86400 < 86400
         /\ secs = 86400 * (secs \div 86400) + (secs % 86400)
<1>1. secs \div 86400 \in Nat
  BY SMT
<1>2. secs % 86400 \in Nat /\ secs % 86400 < 86400
  BY SMT
<1>3. secs = 86400 * (secs \div 86400) + (secs % 86400)
  BY SMT
<1> QED BY <1>1, <1>2, <1>3

(* A timestamp is in range and stands for the very millisecond it was made *)
(* of: its date is that of the day of the instant, and its time of day the *)
(* rest.                                                                   *)
THEOREM TimestampsAgree ==
  ASSUME NEW ms \in Nat
  PROVE  LET r == Rfc3339Utc(ms) IN
         /\ r.hh \in 0..23 /\ r.mm \in 0..59 /\ r.ss \in 0..59 /\ r.millis \in 0..999
         /\ \E day \in Nat :
              /\ r.date = CivilFromDays(day)
              /\ ms = 86400000 * day + ((r.hh * 60 + r.mm) * 60 + r.ss) * 1000 + r.millis
<1> DEFINE r    == Rfc3339Utc(ms)
           secs == ms \div 1000
           day  == secs \div 86400
           sod  == secs % 86400
           u    == sod % 3600
<1>1. secs \in Nat /\ ms % 1000 \in 0..999 /\ ms = 1000 * secs + (ms % 1000)
  BY SMT
<1>2. /\ r.date = CivilFromDays(day) /\ r.millis = ms % 1000
      /\ r.hh = sod \div 3600 /\ r.mm = u \div 60 /\ r.ss = sod % 60
  BY DEF Rfc3339Utc
<1> HIDE DEF r, secs
<1>3. day \in Nat /\ sod \in Nat /\ sod < 86400 /\ secs = 86400 * day + sod
  BY <1>1, SecondsOfDays DEF day, sod
<1> HIDE DEF day, sod
<1>4. sod \div 3600 \in 0..23 /\ u \in 0..3599 /\ sod = 3600 * (sod \div 3600) + u
  BY <1>3, SMT
<1>5. sod % 60 = u % 60
  BY <1>3, SMT
<1> HIDE DEF u
<1>6. u \div 60 \in 0..59 /\ u % 60 \in 0..59 /\ u = 60 * (u \div 60) + (u % 60)
  BY <1>4, SMT
<1>7. r.hh \in 0..23 /\ r.mm \in 0..59 /\ r.ss \in 0..59 /\ r.millis \in 0..999
  BY <1>1, <1>2, <1>4, <1>5, <1>6
<1>8. ms = 86400000 * day + ((r.hh * 60 + r.mm) * 60 + r.ss) * 1000 + r.millis
  BY <1>1, <1>2, <1>3, <1>4, <1>5, <1>6, SMT
<1>9. \E d \in Nat :
        /\ r.date = CivilFromDays(d)
        /\ ms = 86400000 * d + ((r.hh * 60 + r.mm) * 60 + r.ss) * 1000 + r.millis
  <2> USE <1>3
  <2> WITNESS day \in Nat
  <2> QED BY <1>2, <1>8
<1> QED BY <1>7, <1>9 DEF r

=============================================================================
