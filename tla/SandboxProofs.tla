---------------------------- MODULE SandboxProofs ----------------------------
(***************************************************************************)
(* Theorems about Sandbox, for every set of calls, every grant, every grid *)
(* of time steps and every lateness of the host's threads.                 *)
(***************************************************************************)
EXTENDS Sandbox, TLAPS

Serving == main \in {"waiting", "joining"}

(* Which thread may be where while the main thread is where it is. *)
ThreadInv ==
  /\ Serving => /\ current \in Calls
                /\ timeout[current] \in Timeouts
                /\ outcome[current] = "none"
                /\ worker[current] # "none"
                /\ chan \in {None, current}
  /\ ~ Serving => current = None /\ chan = None
  /\ Serving /\ chan # None => worker[current] \in {"sent", "gone"}
  /\ main = "joining" => chan = current
  /\ main = "crashed" => \A c \in Calls : worker[c] \in {"none", "gone"}
  /\ \A c \in Calls : worker[c] = "none" => outcome[c] = "none"
  /\ \A c \in Calls : outcome[c] = "none" /\ worker[c] # "none" /\ main # "crashed"
                        => c = current
  /\ OnlyTimeoutsLeaveAWorker

(* Output the pipe refused left it full. *)
OutputInv == \A c \in Calls : run[c].lost => run[c].bytes = StdoutCap

(* How many epoch increments the guest of the current call has seen. *)
Seen == Deadline(timeout[current]) - epochsLeft[current]

(* Between two increments at least EPOCH_TICK_MS pass, and the first may   *)
(* come at once: after k of them at least k - 1 periods have passed.       *)
TicksTakeTime ==
  /\ epochsLeft[current] <= Deadline(timeout[current])
  /\ Seen >= 1 =>
       elapsed >= (Seen - 1) * EPOCH_TICK_MS
                    + (IF epochsLeft[current] > 0 THEN sinceTick ELSE 0)

EarlyInv ==
  /\ \A c \in Calls : worker[c] \in {"none", "setup", "running", "hostcall"}
                        => run[c].exit = "none"
  /\ Serving => /\ worker[current] \in InGuest => TicksTakeTime
                /\ run[current].exit = "interrupt" => elapsed > timeout[current]

(* Without --debug-guest-stderr no worker panics: it ends by sending. *)
NoPanicInv ==
  /\ \A c \in Calls : worker[c] # "report"
  /\ main = "waiting" /\ worker[current] \in {"sent", "gone"} => chan = current

(* Between two increments at most EPOCH_TICK_MS + Late pass. *)
LateInv ==
  /\ sinceTick <= EPOCH_TICK_MS + Late
  /\ main = "waiting" =>
       /\ worker[current] = "setup" => elapsed <= SetupMax
       /\ worker[current] \in InGuest /\ epochsLeft[current] > 0 =>
            /\ epochsLeft[current] <= Deadline(timeout[current])
            /\ elapsed <= SetupMax + Seen * (EPOCH_TICK_MS + Late) + sinceTick

-----------------------------------------------------------------------------
(* Arithmetic of the limits. *)

(* The code's constants and what it derives from a grant's limits. *)
LEMMA LimitsFacts ==
  /\ OutputMax \in Nat
  /\ StdoutCap \in Nat
  /\ OutputMax < StdoutCap
BY LimitsAssumption DEF OutputMax, StdoutCap, OUTPUT_SLACK_BYTES

(* A call's timeout is a natural number, 0 before the call started. *)
LEMMA TimeoutFacts == \A t \in Timeouts \cup {0} : t \in Nat
BY LimitsAssumption

(* The deadline armed for t ms leaves room for the tick that comes at once. *)
LEMMA DeadlineFacts ==
  ASSUME NEW t \in Nat
  PROVE  /\ Deadline(t) \in Nat
         /\ Deadline(t) >= 2
         /\ (Deadline(t) - 1) * EPOCH_TICK_MS > t
BY DEF Deadline, EPOCH_TICK_MS

LEMMA BudgetFacts ==
  ASSUME NEW t \in Nat
  PROVE  Budget(t) \in Nat /\ Budget(t) > t
BY DEF Budget, EPOCH_TICK_MS, JOIN_GRACE_MS

(* The output of a guest that wrote nothing is a RunOutput. *)
LEMMA NoOutputType == NoOutput \in RunOutputs
BY LimitsFacts DEF NoOutput, RunOutputs

(* Recording how the guest ended keeps a RunOutput a RunOutput. *)
LEMMA EndedByType ==
  ASSUME NEW r \in RunOutputs, NEW exit \in Exits
  PROVE  EndedBy(r, exit) \in RunOutputs
BY DEF RunOutputs, EndedBy

(* So does a write, which never takes more than the pipe's capacity. *)
LEMMA WrittenType ==
  ASSUME NEW r \in RunOutputs, NEW n \in WriteSizes, NEW answers \in BOOLEAN
  PROVE  Written(r, n, answers) \in RunOutputs
<1>1. n \in Nat
  BY GuestAssumption
<1>2. QED
  BY <1>1, LimitsFacts DEF RunOutputs, Written

(* Every RunOutput is classified as one of the outcomes. *)
LEMMA ClassifyType ==
  ASSUME NEW r \in RunOutputs
  PROVE  Classify(r) \in Outcomes
<1>1. ClassOfExit(r.exit) \in FailClass
  BY DEF ClassOfExit, FailClass
<1>2. QED
  BY <1>1 DEF Classify, Outcomes, FailClass

-----------------------------------------------------------------------------
(* Type correctness. *)

(* Every variable keeps its type: the type invariant of the sandbox. *)
THEOREM TypeCorrect == Spec => []TypeOK
<1>1. Init => TypeOK
  BY NoOutputType DEF Init, TypeOK
<1>2. TypeOK /\ [Next]_vars => TypeOK'
  <2> SUFFICES ASSUME TypeOK, [Next]_vars PROVE TypeOK'
    OBVIOUS
  <2> USE DEF TypeOK
  <2>1. ASSUME NEW c \in Calls, NEW t \in Timeouts, Start(c, t) PROVE TypeOK'
    BY <2>1 DEF Start
  <2>2. CASE SpawnPanic
    BY <2>2, NoOutputType DEF SpawnPanic
  <2>3. CASE RecvOutput
    BY <2>3 DEF RecvOutput, threads
  <2>4. CASE Joined
    <3>1. PICK o \in Outcomes : outcome' = [outcome EXCEPT ![current] = o]
      BY <2>4, CallsAssumption, ClassifyType DEF Joined, Reply
    <3>2. QED
      BY <2>4, <3>1, NoOutputType DEF Joined, Reply
  <2>5. CASE JoinTimeout \/ Disconnected
    BY <2>5 DEF JoinTimeout, Disconnected, Reply, Outcomes, FailClass
  <2>6. ASSUME NEW c \in Calls, WorkerStep(c) PROVE TypeOK'
    <3> USE DEF GoTo, main_vars
    <3>1. CASE SetupFails(c)
      <4>1. PICK exit \in Exits : exit = "hosterror"
        BY DEF Exits
      <4>2. QED
        BY <3>1, <4>1, EndedByType DEF SetupFails
    <3>2. CASE Arm(c)
      <4>1. timeout[c] \in Nat
        BY TimeoutFacts
      <4>2. QED
        BY <3>2, <4>1, DeadlineFacts DEF Arm
    <3>3. ASSUME NEW n \in WriteSizes, NEW answers \in BOOLEAN, Write(c, n, answers)
          PROVE  TypeOK'
      BY <3>3, WrittenType DEF Write
    <3>4. CASE EnterHostCall(c) \/ LeaveHostCall(c)
      BY <3>4 DEF EnterHostCall, LeaveHostCall
    <3>5. CASE GuestEnds(c) \/ Interrupt(c)
      <4>1. PICK exit \in Exits : End(c, exit)
        BY <3>5 DEF GuestEnds, Interrupt, Exits
      <4>2. QED
        BY <4>1, EndedByType DEF End
    <3>6. CASE Reported(c) \/ ThreadEnds(c)
      BY <3>6 DEF Reported, ThreadEnds
    <3>7. CASE ReportPanic(c)
      BY <3>7, NoOutputType DEF ReportPanic
    <3>8. CASE Send(c)
      BY <3>8, NoOutputType DEF Send
    <3>9. QED
      BY <2>6, <3>1, <3>2, <3>3, <3>4, <3>5, <3>6, <3>7, <3>8 DEF WorkerStep
  <2>7. CASE Tick
    BY <2>7 DEF Tick
  <2>8. ASSUME NEW d \in Steps, Advance(d) PROVE TypeOK'
    BY <2>8, TimeAssumption DEF Advance, threads
  <2>9. CASE UNCHANGED vars
    BY <2>9 DEF vars, threads
  <2>10. QED
    BY <2>1, <2>2, <2>3, <2>4, <2>5, <2>6, <2>7, <2>8, <2>9
       DEF Next, MainStep, TimeStep, Crashed
<1>3. QED
  BY <1>1, <1>2, PTL DEF Spec

-----------------------------------------------------------------------------
(* The threads. *)

(* Each step of a thread leaves the others where ThreadInv says they may be. *)
LEMMA ThreadStep ==
  ASSUME TypeOK, ThreadInv, [Next]_vars
  PROVE  ThreadInv'
<1> USE DEF TypeOK, ThreadInv, Serving, OnlyTimeoutsLeaveAWorker, Live
<1>1. ASSUME NEW c \in Calls, NEW t \in Timeouts, Start(c, t) PROVE ThreadInv'
  BY <1>1, CallsAssumption DEF Start
<1>2. CASE SpawnPanic
  BY <1>2 DEF SpawnPanic
<1>3. CASE RecvOutput
  BY <1>3 DEF RecvOutput, threads
<1>4. CASE Joined
  BY <1>4, ClassifyType DEF Joined, Reply, Outcomes, FailClass
<1>5. CASE JoinTimeout \/ Disconnected
  BY <1>5 DEF JoinTimeout, Disconnected, Reply
<1>6. ASSUME NEW c \in Calls, WorkerStep(c) PROVE ThreadInv'
  <2> USE DEF GoTo, main_vars
  <2>1. CASE Send(c)
    BY <2>1 DEF Send
  <2>2. CASE ~ Send(c)
    <3>1. /\ worker[c] \in {"setup", "running", "hostcall", "report", "sent"}
          /\ worker[c] = "sent" => worker'[c] = "gone"
          /\ \A d \in Calls \ {c} : worker'[d] = worker[d]
          /\ worker'[c] # "none"
          /\ UNCHANGED <<main_vars, chan>>
      BY <1>6, <2>2 DEF WorkerStep, SetupFails, Arm, Write, EnterHostCall, LeaveHostCall,
           GuestEnds, Interrupt, End, Reported, ReportPanic, ThreadEnds
    <3>2. QED
      BY <3>1
  <2>3. QED
    BY <2>1, <2>2
<1>7. CASE Tick
  BY <1>7 DEF Tick
<1>8. ASSUME NEW d \in Steps, Advance(d) PROVE ThreadInv'
  BY <1>8 DEF Advance, threads
<1>9. CASE UNCHANGED vars
  BY <1>9 DEF vars, threads
<1>10. QED
  BY <1>1, <1>2, <1>3, <1>4, <1>5, <1>6, <1>7, <1>8, <1>9
     DEF Next, MainStep, TimeStep, Crashed

(* ThreadInv holds throughout. *)
LEMMA ThreadsRight == Spec => []ThreadInv
<1>1. Init => ThreadInv
  BY DEF Init, ThreadInv, Serving, OnlyTimeoutsLeaveAWorker, Live
<1>2. TypeOK /\ ThreadInv /\ [Next]_vars => ThreadInv'
  BY ThreadStep
<1>3. QED
  BY <1>1, <1>2, TypeCorrect, PTL DEF Spec

(* A call answered with anything but "timeout" left no worker thread.      *)
THEOREM RepliesWaitForWorkers == Spec => []OnlyTimeoutsLeaveAWorker
<1>1. ThreadInv => OnlyTimeoutsLeaveAWorker
  BY DEF ThreadInv
<1>2. QED
  BY <1>1, ThreadsRight, PTL

(* No call is answered from the output of another call's instance. *)
THEOREM RepliesFromOwnInstance == Spec => []NoForeignAnswer
<1>1. ThreadInv => NoForeignAnswer
  BY DEF ThreadInv, Serving, NoForeignAnswer
<1>2. QED
  BY <1>1, ThreadsRight, PTL

(* thread::spawn fails only for want of threads that abandoned workers     *)
(* hold: between two calls every worker that is left was given up.         *)
THEOREM CrashesNeedAbandoned == Spec => CrashNeedsAbandonedWorkers
<1>1. ASSUME TypeOK, ThreadInv, [Next]_vars, main # "crashed", main' = "crashed"
      PROVE  Cardinality({c \in Live : outcome[c] = "timeout"}) >= MaxThreads
  <2>1. SpawnPanic
    BY <1>1 DEF Next, MainStep, TimeStep, Start, RecvOutput, Joined, JoinTimeout, Disconnected,
         Reply, Crashed, WorkerStep, SetupFails, Arm, Write, EnterHostCall, LeaveHostCall,
         GuestEnds, Interrupt, End, Reported, ReportPanic, Send, ThreadEnds, GoTo, main_vars,
         Tick, Advance, threads, vars
  <2>2. \A c \in Live : outcome[c] = "timeout"
    BY <1>1, <2>1, CallsAssumption
       DEF SpawnPanic, ThreadInv, Serving, OnlyTimeoutsLeaveAWorker, Live
  <2>3. {c \in Live : outcome[c] = "timeout"} = Live
    BY <2>2
  <2>4. QED
    BY <2>1, <2>3 DEF SpawnPanic
<1>2. QED
  BY <1>1, TypeCorrect, ThreadsRight, PTL DEF Spec, CrashNeedsAbandonedWorkers

-----------------------------------------------------------------------------
(* The contract. *)

(* Every step of the sandbox is a step of ToolCall, or leaves it as it was. *)
LEMMA ContractStep ==
  ASSUME TypeOK, ThreadInv, [Next]_vars
  PROVE  [Contract!Next]_(Contract!vars)
<1> USE DEF TypeOK, ThreadInv, Serving, Live, Contract!vars
<1>1. ASSUME NEW c \in Calls, NEW t \in Timeouts, Start(c, t) PROVE Contract!Begin(c)
  BY <1>1, CallsAssumption DEF Start, Contract!Begin
<1>2. CASE SpawnPanic
  <2>1. \A c \in Calls : worker'[c] \in {"none", "gone"}
    BY <1>2 DEF SpawnPanic
  <2>2. Contract!Crash
    BY <1>2, <2>1 DEF SpawnPanic, Contract!Crash
  <2>3. QED
    BY <2>2 DEF Contract!Next
<1>3. CASE RecvOutput
  BY <1>3 DEF RecvOutput, threads
<1>4. CASE Joined
  <2>1. Classify(run[chan]) \in Outcomes
    BY <1>4, ClassifyType DEF Joined
  <2>2. Contract!Answer(Classify(run[chan]))
    BY <1>4, CallsAssumption DEF Joined, Reply, Contract!Answer
  <2>3. QED
    BY <2>1, <2>2 DEF Contract!Next
<1>5. CASE JoinTimeout \/ Disconnected
  <2>1. Contract!Answer("timeout")
    BY <1>5, CallsAssumption DEF JoinTimeout, Disconnected, Reply, Contract!Answer
  <2>2. QED
    BY <2>1 DEF Contract!Next, Outcomes, FailClass
<1>6. ASSUME NEW c \in Calls, WorkerStep(c) PROVE [Contract!Next]_(Contract!vars)
  <2>1. /\ \A d \in Calls \ {c} : worker'[d] = worker[d]
        /\ worker[c] \notin {"none", "gone"} /\ worker'[c] # "none"
        /\ UNCHANGED <<main, current, outcome>>
    BY <1>6 DEF WorkerStep, SetupFails, Arm, Write, EnterHostCall, LeaveHostCall,
         GuestEnds, Interrupt, End, Reported, ReportPanic, Send, ThreadEnds, GoTo, main_vars
  <2>2. CASE worker'[c] = "gone"
    <3>1. Contract!Stop(c)
      BY <2>1, <2>2 DEF Contract!Stop
    <3>2. QED
      BY <3>1 DEF Contract!Next
  <2>3. CASE worker'[c] # "gone"
    BY <2>1, <2>3
  <2>4. QED
    BY <2>2, <2>3
<1>7. CASE Tick
  BY <1>7 DEF Tick
<1>8. ASSUME NEW d \in Steps, Advance(d) PROVE UNCHANGED Contract!vars
  BY <1>8 DEF Advance, threads
<1>9. CASE UNCHANGED vars
  BY <1>9 DEF vars, threads
<1>10. QED
  BY <1>1, <1>2, <1>3, <1>4, <1>5, <1>6, <1>7, <1>8, <1>9
     DEF Next, MainStep, TimeStep, Crashed, Contract!Next

(* The sandbox implements the contract its callers rely on. *)
THEOREM SandboxImplementsToolCall == Spec => ImplementsToolCall
<1>1. Init => Contract!Init
  BY DEF Init, Contract!Init, Live
<1>2. TypeOK /\ ThreadInv /\ [Next]_vars => [Contract!Next]_(Contract!vars)
  BY ContractStep
<1>3. QED
  BY <1>1, <1>2, TypeCorrect, ThreadsRight, PTL DEF Spec, ImplementsToolCall, Contract!Spec

-----------------------------------------------------------------------------
(* Timeouts are not early. *)

(* Only the trap of the epoch deadline is classified as a timeout. *)
LEMMA ClassifyTimeout ==
  ASSUME NEW r \in RunOutputs, Classify(r) = "timeout"
  PROVE  r.exit = "interrupt"
BY LimitsFacts DEF Classify, ClassOfExit, RunOutputs, Exits

(* A tick brings the current guest one increment nearer to its deadline    *)
(* after EPOCH_TICK_MS or more.                                            *)
LEMMA TickTakesTime ==
  ASSUME TypeOK, ThreadInv, EarlyInv, Tick
  PROVE  EarlyInv'
<1> USE DEF TypeOK
<1>1. ASSUME Serving, worker[current] \in InGuest PROVE TicksTakeTime'
  <2> DEFINE T == timeout[current]
  <2>1. /\ current \in Calls /\ T \in Nat /\ epochsLeft[current] \in Nat /\ elapsed \in Nat
        /\ Deadline(T) \in Nat /\ TicksTakeTime
    BY <1>1, TimeoutFacts, DeadlineFacts DEF ThreadInv, EarlyInv
  <2>2. /\ sinceTick >= EPOCH_TICK_MS /\ sinceTick' = 0
        /\ UNCHANGED <<current, elapsed, timeout>>
        /\ epochsLeft'[current] =
             IF epochsLeft[current] > 0 THEN epochsLeft[current] - 1 ELSE 0
    BY <2>1 DEF Tick
  <2>3. CASE epochsLeft[current] = 0
    BY <2>1, <2>2, <2>3 DEF TicksTakeTime, Seen
  <2>4. CASE epochsLeft[current] > 0
    BY <2>1, <2>2, <2>4 DEF TicksTakeTime, Seen, EPOCH_TICK_MS
  <2>5. QED
    BY <2>1, <2>3, <2>4
<1>2. QED
  BY <1>1 DEF Tick, EarlyInv, Serving

(* Time that passes only helps. *)
LEMMA AdvanceTakesTime ==
  ASSUME TypeOK, ThreadInv, EarlyInv, NEW d \in Steps, Advance(d)
  PROVE  EarlyInv'
<1> USE DEF TypeOK
<1>1. CASE main = "waiting"
  <2>1. /\ current \in Calls /\ timeout[current] \in Nat /\ Deadline(timeout[current]) \in Nat
        /\ d \in Nat /\ epochsLeft[current] \in Nat
    BY <1>1, TimeoutFacts, DeadlineFacts, TimeAssumption DEF ThreadInv, Serving
  <2>2. /\ elapsed' = elapsed + d /\ sinceTick' = sinceTick + d
        /\ UNCHANGED <<main, current, timeout, worker, run, epochsLeft>>
    BY <1>1 DEF Advance, threads
  <2>3. TicksTakeTime => TicksTakeTime'
    BY <2>1, <2>2 DEF TicksTakeTime, Seen, EPOCH_TICK_MS
  <2>4. QED
    BY <2>1, <2>2, <2>3 DEF EarlyInv, Serving
<1>2. CASE main # "waiting"
  BY <1>2 DEF Advance, Prompt, threads, EarlyInv, Serving
<1>3. QED
  BY <1>1, <1>2

(* The guest of the current call is interrupted after its timeout.         *)
LEMMA InterruptNotEarly ==
  ASSUME TypeOK, ThreadInv, EarlyInv, Serving, Interrupt(current)
  PROVE  elapsed > timeout[current]
<1> DEFINE T == timeout[current]
<1>1. /\ current \in Calls /\ T \in Nat /\ elapsed \in Nat
      /\ Deadline(T) \in Nat /\ Deadline(T) >= 2
      /\ (Deadline(T) - 1) * EPOCH_TICK_MS > T
  BY TimeoutFacts, DeadlineFacts DEF TypeOK, ThreadInv
<1>2. epochsLeft[current] = 0 /\ TicksTakeTime
  BY DEF Interrupt, End, EarlyInv, InGuest
<1>3. elapsed >= (Deadline(T) - 1) * EPOCH_TICK_MS
  BY <1>1, <1>2 DEF TicksTakeTime, Seen, EPOCH_TICK_MS
<1>4. QED
  BY <1>1, <1>3 DEF EPOCH_TICK_MS

(* EarlyInv is inductive, given the types and the places of the threads. *)
LEMMA EarlyStep ==
  ASSUME TypeOK, ThreadInv, EarlyInv, [Next]_vars
  PROVE  EarlyInv'
<1> USE DEF TypeOK, EarlyInv, Serving, InGuest
<1>1. ASSUME NEW c \in Calls, NEW t \in Timeouts, Start(c, t) PROVE EarlyInv'
  BY <1>1 DEF Start
<1>2. CASE SpawnPanic
  BY <1>2, NoOutputType DEF SpawnPanic, NoOutput
<1>3. CASE RecvOutput
  BY <1>3 DEF RecvOutput, threads, TicksTakeTime, Seen
<1>4. CASE Joined \/ JoinTimeout \/ Disconnected
  BY <1>4 DEF Joined, JoinTimeout, Disconnected, Reply, NoOutput
<1>5. ASSUME NEW c \in Calls, WorkerStep(c) PROVE EarlyInv'
  <2> USE DEF GoTo, main_vars
  <2>0. Serving => current \in Calls
    BY DEF ThreadInv
  <2>1. UNCHANGED <<current, elapsed, sinceTick, timeout>>
          /\ epochsLeft'[current] = epochsLeft[current] => (TicksTakeTime' <=> TicksTakeTime)
    BY DEF TicksTakeTime, Seen
  <2>2. CASE SetupFails(c)
    BY <2>1, <2>2 DEF SetupFails, EndedBy
  <2>3. CASE Arm(c)
    <3>1. timeout[c] \in Nat /\ Deadline(timeout[c]) \in Nat
      BY TimeoutFacts, DeadlineFacts
    <3>2. c = current => TicksTakeTime'
      BY <2>3, <3>1 DEF Arm, TicksTakeTime, Seen
    <3>3. c # current => (TicksTakeTime' <=> TicksTakeTime)
      BY <2>1, <2>3 DEF Arm
    <3>4. QED
      BY <2>3, <3>2, <3>3 DEF Arm
  <2>4. ASSUME NEW n \in WriteSizes, NEW answers \in BOOLEAN, Write(c, n, answers)
        PROVE  EarlyInv'
    BY <2>1, <2>4 DEF Write, Written
  <2>5. CASE EnterHostCall(c) \/ LeaveHostCall(c)
    BY <2>0, <2>1, <2>5 DEF EnterHostCall, LeaveHostCall
  <2>6. CASE GuestEnds(c) \/ Interrupt(c)
    <3>1. PICK exit \in Exits : End(c, exit) /\ (exit = "interrupt" => Interrupt(c))
      BY <2>6 DEF GuestEnds, Interrupt, Exits
    <3>2. Serving /\ c = current /\ exit = "interrupt" => elapsed > timeout[current]
      BY <3>1, InterruptNotEarly
    <3>3. /\ worker' = [worker EXCEPT ![c] = worker'[c]] /\ worker'[c] \in {"ended", "report"}
          /\ run' = [run EXCEPT ![c] = run'[c]] /\ run'[c].exit = exit
          /\ epochsLeft' = [epochsLeft EXCEPT ![c] = 0]
          /\ UNCHANGED main_vars
      BY <3>1 DEF End, EndedBy
    <3>4. c # current => (TicksTakeTime' <=> TicksTakeTime)
      BY <2>1, <3>3
    <3>5. QED
      BY <2>0, <3>2, <3>3, <3>4
  <2>7. CASE Reported(c) \/ ThreadEnds(c)
    BY <2>0, <2>1, <2>7 DEF Reported, ThreadEnds
  <2>8. CASE ReportPanic(c) \/ Send(c)
    BY <2>0, <2>1, <2>8 DEF ReportPanic, Send, NoOutput
  <2>9. QED
    BY <1>5, <2>2, <2>3, <2>4, <2>5, <2>6, <2>7, <2>8 DEF WorkerStep
<1>6. CASE Tick
  BY <1>6, TickTakesTime
<1>7. ASSUME NEW d \in Steps, Advance(d) PROVE EarlyInv'
  BY <1>7, AdvanceTakesTime
<1>8. CASE UNCHANGED vars
  BY <1>8 DEF vars, threads, TicksTakeTime, Seen
<1>9. QED
  BY <1>1, <1>2, <1>3, <1>4, <1>5, <1>6, <1>7, <1>8
     DEF Next, MainStep, TimeStep, Crashed

(* EarlyInv holds throughout. *)
LEMMA NeverEarly == Spec => []EarlyInv
<1>1. Init => EarlyInv
  BY DEF Init, EarlyInv, Serving, NoOutput
<1>2. TypeOK /\ ThreadInv /\ EarlyInv /\ [Next]_vars => EarlyInv'
  BY EarlyStep
<1>3. QED
  BY <1>1, <1>2, TypeCorrect, ThreadsRight, PTL DEF Spec

(* Without the echo of stderr every worker thread ends by sending. *)
LEMMA NoPanic ==
  ASSUME ~ DebugGuestStderr
  PROVE  Spec => []NoPanicInv
<1>1. Init => NoPanicInv
  BY DEF Init, NoPanicInv
<1>2. ASSUME TypeOK, ThreadInv, NoPanicInv, [Next]_vars PROVE NoPanicInv'
  <2> USE <1>2 DEF TypeOK, ThreadInv, Serving, NoPanicInv
  <2>1. ASSUME NEW c \in Calls, NEW t \in Timeouts, Start(c, t) PROVE NoPanicInv'
    BY <2>1 DEF Start
  <2>2. CASE SpawnPanic \/ RecvOutput \/ Joined \/ JoinTimeout \/ Disconnected
    BY <2>2 DEF SpawnPanic, RecvOutput, Joined, JoinTimeout, Disconnected, Reply, threads
  <2>3. ASSUME NEW c \in Calls, WorkerStep(c) PROVE NoPanicInv'
    <3> USE DEF GoTo, main_vars
    <3>1. CASE Send(c)
      BY <3>1 DEF Send
    <3>2. CASE ThreadEnds(c)
      BY <3>2 DEF ThreadEnds
    <3>3. CASE ~ Send(c) /\ ~ ThreadEnds(c)
      <4>1. /\ worker'[c] \in {"running", "hostcall", "ended"}
            /\ \A d \in Calls \ {c} : worker'[d] = worker[d]
            /\ UNCHANGED <<main, current, chan>>
        BY <2>3, <3>3 DEF WorkerStep, SetupFails, Arm, Write, EnterHostCall, LeaveHostCall,
             GuestEnds, Interrupt, End, Reported, ReportPanic
      <4>2. QED
        BY <4>1
    <3>4. QED
      BY <3>1, <3>2, <3>3
  <2>4. CASE Tick
    BY <2>4 DEF Tick
  <2>5. ASSUME NEW d \in Steps, Advance(d) PROVE NoPanicInv'
    BY <2>5 DEF Advance, threads
  <2>6. CASE UNCHANGED vars
    BY <2>6 DEF vars, threads
  <2>7. QED
    BY <2>1, <2>2, <2>3, <2>4, <2>5, <2>6 DEF Next, MainStep, TimeStep, Crashed
<1>3. QED
  BY <1>1, <1>2, TypeCorrect, ThreadsRight, PTL DEF Spec

(* No call is answered "timeout" before its timeout_ms have passed, as     *)
(* long as no worker can panic (runner.rs:19 and sandbox.rs:284).          *)
THEOREM TimeoutsAreNotEarly ==
  ASSUME ~ DebugGuestStderr
  PROVE  Spec => TimeoutNotEarly
<1>1. ASSUME TypeOK, ThreadInv, EarlyInv, NoPanicInv, [Next]_vars,
             NEW c \in Calls, outcome[c] = "none", outcome'[c] = "timeout"
      PROVE  elapsed > timeout[c]
  <2> USE <1>1 DEF TypeOK, ThreadInv, Serving
  <2>1. c = current /\ (Joined \/ JoinTimeout \/ Disconnected)
    BY DEF Next, MainStep, TimeStep, Crashed, WorkerStep, Start, SpawnPanic, RecvOutput,
         Joined, JoinTimeout, Disconnected, Reply, SetupFails, Arm, Write, EnterHostCall,
         LeaveHostCall, GuestEnds, Interrupt, End, Reported, ReportPanic, Send, ThreadEnds,
         Tick, Advance, vars, threads, main_vars
  <2>2. CASE Joined
    <3>1. Classify(run[chan]) = "timeout" /\ chan = current
      BY <2>1, <2>2 DEF Joined, Reply
    <3>2. run[current].exit = "interrupt"
      BY <2>1, <3>1, ClassifyTimeout
    <3>3. QED
      BY <2>1, <2>2, <3>2 DEF Joined, EarlyInv
  <2>3. CASE JoinTimeout
    <3>1. timeout[c] \in Nat
      BY TimeoutFacts
    <3>2. QED
      BY <2>1, <2>3, <3>1, BudgetFacts DEF JoinTimeout
  <2>4. CASE Disconnected
    BY <2>1, <2>4, CallsAssumption DEF Disconnected, NoPanicInv
  <2>5. QED
    BY <2>1, <2>2, <2>3, <2>4
<1>2. TypeOK /\ ThreadInv /\ EarlyInv /\ NoPanicInv /\ [Next]_vars
        => [\A c \in Calls : outcome[c] = "none" /\ outcome'[c] = "timeout"
              => elapsed > timeout[c]]_vars
  BY <1>1
<1>3. QED
  BY <1>2, TypeCorrect, ThreadsRight, NeverEarly, NoPanic, PTL DEF Spec, TimeoutNotEarly

-----------------------------------------------------------------------------
(* Truncated output is never passed on. *)

(* What the pipe refused is seen by its size. *)
LEMMA OutputRight == Spec => []OutputInv
<1>1. Init => OutputInv
  BY DEF Init, OutputInv, NoOutput
<1>2. ASSUME TypeOK, OutputInv, [Next]_vars PROVE OutputInv'
  <2> USE <1>2 DEF TypeOK, OutputInv
  <2>1. ASSUME NEW c \in Calls, NEW n \in WriteSizes, NEW answers \in BOOLEAN,
               Write(c, n, answers)
        PROVE  OutputInv'
    BY <2>1 DEF Write, Written
  <2>2. ASSUME NEW c \in Calls, NEW exit \in Exits, End(c, exit) \/ SetupFails(c)
        PROVE  OutputInv'
    BY <2>2 DEF End, SetupFails, EndedBy
  <2>3. CASE \A c \in Calls : run'[c] \in {run[c], NoOutput}
    BY <2>3 DEF NoOutput
  <2>4. QED
    <3>1. CASE UNCHANGED run
      BY <2>3, <3>1
    <3>2. CASE SpawnPanic \/ Joined
      BY <2>3, <3>2 DEF SpawnPanic, Joined
    <3>3. ASSUME NEW c \in Calls, Send(c) \/ ReportPanic(c) PROVE OutputInv'
      BY <2>3, <3>3 DEF Send, ReportPanic
    <3>4. QED
      BY <2>1, <2>2, <3>1, <3>2, <3>3
         DEF Next, MainStep, WorkerStep, TimeStep, Crashed, Start, RecvOutput, JoinTimeout,
             Disconnected, Arm, EnterHostCall, LeaveHostCall, GuestEnds, Interrupt, Exits,
             Reported, ThreadEnds, Tick, Advance, vars, threads, main_vars
<1>3. QED
  BY <1>1, <1>2, TypeCorrect, PTL DEF Spec

(* A guest's answer is passed on only when its stdout was captured whole. *)
THEOREM CompletionsAreWhole == Spec => NoTruncatedCompletion
<1>1. ASSUME TypeOK, ThreadInv, OutputInv, [Next]_vars,
             NEW c \in Calls, outcome[c] = "none", outcome'[c] = "completed"
      PROVE  run[c].answered /\ ~ run[c].lost
  <2> USE <1>1 DEF TypeOK, ThreadInv, Serving
  <2>1. c = current /\ Joined
    BY DEF Next, MainStep, TimeStep, Crashed, WorkerStep, Start, SpawnPanic, RecvOutput,
         Joined, JoinTimeout, Disconnected, Reply, SetupFails, Arm, Write, EnterHostCall,
         LeaveHostCall, GuestEnds, Interrupt, End, Reported, ReportPanic, Send, ThreadEnds,
         Tick, Advance, vars, threads, main_vars
  <2>2. Classify(run[c]) = "completed"
    BY <2>1 DEF Joined, Reply
  <2>3. run[c] \in RunOutputs
    OBVIOUS
  <2>4. run[c].bytes <= OutputMax /\ run[c].answered
    BY <2>2, <2>3, LimitsFacts DEF Classify, ClassOfExit, RunOutputs
  <2>5. QED
    BY <2>4, LimitsFacts DEF OutputInv
<1>2. TypeOK /\ ThreadInv /\ OutputInv /\ [Next]_vars
        => [\A c \in Calls : outcome[c] = "none" /\ outcome'[c] = "completed"
              => run[c].answered /\ ~ run[c].lost]_vars
  BY <1>1
<1>3. QED
  BY <1>2, TypeCorrect, ThreadsRight, OutputRight, PTL DEF Spec, NoTruncatedCompletion

-----------------------------------------------------------------------------
(* The epoch deadline comes before the join timeout. *)

(* The longest time between two ticks, and multiples of it. *)
Period == EPOCH_TICK_MS + Late

LEMMA PeriodFacts ==
  /\ Period \in Nat
  /\ \A k \in Nat : k * Period \in Nat /\ (k + 1) * Period = k * Period + Period
  /\ \A k, n \in Nat : k <= n => k * Period <= n * Period
<1>1. Period \in Nat
  BY TimeAssumption DEF Period, EPOCH_TICK_MS
<1>2. ASSUME NEW p \in Nat
      PROVE  /\ \A k \in Nat : k * p \in Nat /\ (k + 1) * p = k * p + p
             /\ \A k, n \in Nat : k <= n => k * p <= n * p
  OBVIOUS
<1>3. QED
  BY <1>1, <1>2

(* The ticks of a punctual call are over within its budget. *)
LEMMA PunctualFits ==
  ASSUME NEW t \in Nat, Punctual(t)
  PROVE  SetupMax + Deadline(t) * Period < Budget(t)
<1> DEFINE D == Deadline(t)
<1>1. D \in Nat /\ Late \in Nat /\ SetupMax \in Nat /\ D * Late \in Nat
  BY DeadlineFacts, TimeAssumption
<1>2. D * Period = 100 * D + D * Late
  <2> HIDE DEF D
  <2> QED BY <1>1 DEF Period, EPOCH_TICK_MS
<1>3. 100 * D = (t - (t % 100)) + 200
  BY DEF Deadline, EPOCH_TICK_MS
<1>4. SetupMax + D * Late < 2000 + (t % 100)
  BY DEF Punctual, EPOCH_TICK_MS, JOIN_GRACE_MS
<1>5. t % 100 \in Nat /\ Budget(t) = t + 2200
  BY DEF Budget, EPOCH_TICK_MS, JOIN_GRACE_MS
<1> HIDE DEF D
<1>6. SetupMax + D * Period < Budget(t)
  BY <1>1, <1>2, <1>3, <1>4, <1>5
<1> QED BY <1>6 DEF D

(* One increment more per Period at most. *)
LEMMA LateTick ==
  ASSUME TypeOK, ThreadInv, LateInv, Tick
  PROVE  LateInv'
<1> USE DEF TypeOK
<1>1. sinceTick' <= EPOCH_TICK_MS + Late
  BY TimeAssumption DEF Tick, EPOCH_TICK_MS
<1>2. ASSUME main = "waiting", worker[current] \in InGuest, epochsLeft'[current] > 0
      PROVE  /\ epochsLeft'[current] <= Deadline(timeout[current])
             /\ elapsed <= SetupMax + Seen' * Period
  <2>1. /\ current \in Calls /\ Deadline(timeout[current]) \in Nat
        /\ epochsLeft[current] \in Nat /\ epochsLeft[current] > 0
        /\ epochsLeft'[current] = epochsLeft[current] - 1
        /\ UNCHANGED <<current, timeout, elapsed>>
    BY <1>2, TimeoutFacts, DeadlineFacts DEF ThreadInv, Serving, Tick
  <2>2. /\ epochsLeft[current] <= Deadline(timeout[current])
        /\ elapsed <= SetupMax + Seen * Period + sinceTick
        /\ sinceTick <= Period
    BY <1>2, <2>1 DEF LateInv, Period
  <2>3. Seen \in Nat /\ Seen' = Seen + 1
    BY <2>1, <2>2 DEF Seen
  <2>4. Seen * Period \in Nat /\ Seen' * Period = Seen * Period + Period
    BY <2>3, PeriodFacts
  <2>5. QED
    BY <2>1, <2>2, <2>4, PeriodFacts, TimeAssumption
<1>3. UNCHANGED <<main, current, timeout, elapsed, worker>> /\ sinceTick' = 0
  BY DEF Tick
<1>4. ASSUME main = "waiting", worker[current] \in InGuest, epochsLeft'[current] > 0
      PROVE  elapsed' <= SetupMax + Seen' * (EPOCH_TICK_MS + Late) + sinceTick'
  <2>1. Deadline(timeout[current]) \in Nat /\ epochsLeft'[current] \in Nat /\ current \in Calls
    BY <1>4, TimeoutFacts, DeadlineFacts DEF ThreadInv, Serving, Tick
  <2>2. Seen' \in Nat
    BY <1>2, <1>3, <1>4, <2>1 DEF Seen
  <2>3. Seen' * Period \in Nat
    BY <2>2, PeriodFacts
  <2>4. QED
    BY <1>2, <1>3, <1>4, <2>3, TimeAssumption DEF Period
<1>5. QED
  BY <1>1, <1>2, <1>3, <1>4 DEF LateInv

(* LateInv is inductive, given the types and the places of the threads. *)
LEMMA LateStep ==
  ASSUME TypeOK, ThreadInv, LateInv, [Next]_vars
  PROVE  LateInv'
<1> USE DEF TypeOK, LateInv, InGuest
<1>0. /\ SetupMax \in Nat /\ Late \in Nat
      /\ Serving => current \in Calls /\ Deadline(timeout[current]) \in Nat
  BY TimeAssumption, TimeoutFacts, DeadlineFacts DEF ThreadInv
<1>1. ASSUME NEW c \in Calls, NEW t \in Timeouts, Start(c, t) PROVE LateInv'
  BY <1>0, <1>1 DEF Start
<1>2. CASE SpawnPanic \/ RecvOutput \/ Joined \/ JoinTimeout \/ Disconnected
  BY <1>2 DEF SpawnPanic, RecvOutput, Joined, JoinTimeout, Disconnected, Reply, threads
<1>3. ASSUME NEW c \in Calls, WorkerStep(c) PROVE LateInv'
  <2> USE DEF GoTo, main_vars
  <2>1. CASE Arm(c)
    <3>1. CASE main = "waiting" /\ c = current
      <4>1. Seen' = 0 /\ epochsLeft'[c] = Deadline(timeout[c])
        BY <1>0, <2>1, <3>1 DEF Arm, Seen, Serving
      <4>2. QED
        BY <1>0, <2>1, <3>1, <4>1 DEF Arm, EPOCH_TICK_MS, Serving
    <3>2. CASE ~ (main = "waiting" /\ c = current)
      BY <1>0, <2>1, <3>2 DEF Arm, Seen, Serving
    <3>3. QED
      BY <3>1, <3>2
  <2>2. CASE ~ Arm(c)
    <3>1. /\ UNCHANGED main_vars
          /\ worker'[c] \in InGuest => /\ worker[c] \in InGuest
                                       /\ epochsLeft'[c] = epochsLeft[c]
          /\ worker'[c] # "setup"
          /\ \A d \in Calls \ {c} : /\ worker'[d] = worker[d]
                                     /\ epochsLeft'[d] = epochsLeft[d]
      BY <1>3, <2>2 DEF WorkerStep, SetupFails, Write, EnterHostCall, LeaveHostCall,
           GuestEnds, Interrupt, End, Reported, ReportPanic, Send, ThreadEnds
    <3>2. QED
      BY <1>0, <3>1 DEF Seen, Serving
  <2>3. QED
    BY <2>1, <2>2
<1>4. CASE Tick
  BY <1>4, LateTick
<1>5. ASSUME NEW d \in Steps, Advance(d) PROVE LateInv'
  <2>1. /\ UNCHANGED <<main, current, timeout, worker, epochsLeft>> /\ d \in Nat
        /\ sinceTick' = sinceTick + d /\ sinceTick' <= EPOCH_TICK_MS + Late
    BY <1>5, TimeAssumption DEF Advance, threads
  <2>2. ASSUME main = "waiting"
        PROVE  /\ elapsed' = elapsed + d
               /\ worker[current] = "setup" => elapsed' <= SetupMax
    BY <1>5, <2>2 DEF Advance
  <2>3. ASSUME main = "waiting", worker[current] \in InGuest, epochsLeft[current] > 0
        PROVE  elapsed' <= SetupMax + Seen' * (EPOCH_TICK_MS + Late) + sinceTick'
    <3>1. Seen \in Nat /\ Seen' = Seen
      BY <1>0, <2>1, <2>3 DEF Seen, Serving
    <3>2. Seen * Period \in Nat /\ Period = EPOCH_TICK_MS + Late
      BY <3>1, PeriodFacts DEF Period
    <3>3. QED
      BY <1>0, <2>1, <2>2, <2>3, <3>1, <3>2
  <2>4. QED
    BY <2>1, <2>2, <2>3
<1>6. CASE UNCHANGED vars
  BY <1>6 DEF vars, threads, Seen
<1>7. QED
  BY <1>1, <1>2, <1>3, <1>4, <1>5, <1>6 DEF Next, MainStep, TimeStep, Crashed

(* The epoch deadline of a punctual call always comes before its join      *)
(* timeout: a guest that burns CPU is trapped, never abandoned.            *)
THEOREM DeadlinesComeFirst == Spec => []DeadlineBeforeBudget
<1>1. Init => LateInv
  BY TimeAssumption DEF Init, LateInv, EPOCH_TICK_MS
<1>2. TypeOK /\ ThreadInv /\ LateInv /\ [Next]_vars => LateInv'
  BY LateStep
<1>3. ASSUME TypeOK, ThreadInv, LateInv PROVE DeadlineBeforeBudget
  <2> SUFFICES ASSUME main = "waiting", BeforeDeadline(current), Punctual(timeout[current])
               PROVE  elapsed < Budget(timeout[current])
    BY DEF DeadlineBeforeBudget
  <2> DEFINE D == Deadline(timeout[current])
  <2>1. /\ current \in Calls /\ timeout[current] \in Timeouts /\ timeout[current] \in Nat
        /\ D \in Nat /\ Budget(timeout[current]) \in Nat /\ epochsLeft[current] \in Nat
        /\ elapsed \in Nat /\ sinceTick \in Nat /\ SetupMax \in Nat
    BY <1>3, TimeoutFacts, DeadlineFacts, BudgetFacts, TimeAssumption
       DEF ThreadInv, Serving, TypeOK
  <2>2. D * Period \in Nat /\ SetupMax + D * Period < Budget(timeout[current])
    BY <2>1, PeriodFacts, PunctualFits
  <2>3. CASE worker[current] = "setup"
    BY <1>3, <2>1, <2>2, <2>3 DEF LateInv
  <2>4. CASE worker[current] \in InGuest /\ epochsLeft[current] > 0
    <3>1. /\ Seen \in Nat /\ Seen + 1 <= D /\ sinceTick <= Period
          /\ elapsed <= SetupMax + Seen * Period + sinceTick
      BY <1>3, <2>1, <2>4 DEF LateInv, Seen, Period
    <3>2. /\ Seen * Period \in Nat
          /\ (Seen + 1) * Period = Seen * Period + Period
          /\ (Seen + 1) * Period <= D * Period
      BY <2>1, <3>1, PeriodFacts
    <3>3. QED
      BY <2>1, <2>2, <3>1, <3>2, PeriodFacts
  <2>5. QED
    BY <2>3, <2>4 DEF BeforeDeadline
<1>4. QED
  BY <1>1, <1>2, <1>3, TypeCorrect, ThreadsRight, PTL DEF Spec

=============================================================================
