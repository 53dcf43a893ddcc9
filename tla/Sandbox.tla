------------------------------- MODULE Sandbox -------------------------------
(***************************************************************************)
(* The wasmtime host of src/src/sandbox.rs: the main thread that serves    *)
(* one tools/call at a time, the worker thread it spawns per call, the     *)
(* epoch ticker thread, the mpsc channel of each call, and the time that   *)
(* passes between their steps.                                             *)
(*                                                                         *)
(* Time is counted in milliseconds, relative to the start of the call      *)
(* being served (elapsed) and to the last epoch increment (sinceTick); an  *)
(* epoch deadline is the number of increments that are still to come.      *)
(***************************************************************************)
EXTENDS Integers, FiniteSets

CONSTANTS
  Calls,            \* the tools/call requests that reach Runner::call
  None,             \* no call
  Timeouts,         \* limits.timeout_ms of the grants
  OutputMaxKb,      \* limits.output_max_kb of the grants
  WriteSizes,       \* how many bytes a guest writes to stdout at a time
  Steps,            \* by how many milliseconds time may advance at once
  Late,             \* how late a sleeping thread may be woken, in ms
  SetupMax,         \* how long execute() takes to arm the epoch deadline
  MaxThreads,       \* how many worker threads the OS grants the process
  DebugGuestStderr  \* --debug-guest-stderr

ASSUME CallsAssumption == None \notin Calls
ASSUME LimitsAssumption == Timeouts \subseteq Nat \ {0} /\ OutputMaxKb \in Nat \ {0}
ASSUME GuestAssumption == WriteSizes \subseteq Nat \ {0}
ASSUME TimeAssumption ==
  /\ Steps \subseteq Nat \ {0}
  /\ Late \in Nat
  /\ SetupMax \in Nat
ASSUME HostAssumption == MaxThreads \in Nat \ {0} /\ DebugGuestStderr \in BOOLEAN

VARIABLES
  main,        \* what the main thread is doing
  current,     \* the call run_guest() is serving, None when idle
  chan,        \* the call whose RunOutput is in the channel main reads
  elapsed,     \* ms since run_guest() started the current call
  sinceTick,   \* ms since the ticker last incremented the epoch
  timeout,     \* timeout_ms of each call's grant
  worker,      \* where the worker thread of each call is
  epochsLeft,  \* epoch increments left before the deadline of each store
  run,         \* the RunOutput of each call, as far as the worker built it
  outcome      \* CallResult.outcome of each call, by its class

threads == <<chan, worker, epochsLeft, run>>
vars == <<main, current, elapsed, sinceTick, timeout, outcome, threads>>

-----------------------------------------------------------------------------
(* Constants of the code and what it computes from a grant's limits. *)

(* Mutant: the pipe is cut at output_max_kb itself. *)
NoSlack == 0

EPOCH_TICK_MS      == 100
JOIN_GRACE_MS      == 2000
OUTPUT_SLACK_BYTES == 4096

(* Mutant: recv_timeout waits for the deadline without the grace. *)
GracelessBudget(t) == t + 2 * EPOCH_TICK_MS

Budget(t) == t + 2 * EPOCH_TICK_MS + JOIN_GRACE_MS

(* Mutant: the tick that is under way counts as a whole one. *)
EarlyDeadline(t) == t \div EPOCH_TICK_MS + 1

(* Mutant: the slack is taken off the deadline. *)
NegativeDeadline(t) == t \div EPOCH_TICK_MS - 2

Deadline(t) == t \div EPOCH_TICK_MS + 2

OutputMax == OutputMaxKb * 1024

StdoutCap == OutputMax + OUTPUT_SLACK_BYTES

Exits == {"clean", "exit", "fuel", "interrupt", "trap", "hosterror"}

(* answered: stdout holds a whole line that answers the call's id;         *)
(* lost: the pipe refused bytes the guest wrote.                           *)
NoOutput == [bytes |-> 0, answered |-> FALSE, lost |-> FALSE, exit |-> "none"]

RunOutputs ==
  [bytes: 0..StdoutCap, answered: BOOLEAN, lost: BOOLEAN, exit: Exits \cup {"none"}]

(* The pipe takes of n bytes what fits under its capacity; the guest's     *)
(* answer counts if it is among them as a whole.                           *)
Written(r, n, answers) ==
  LET fits == r.bytes + n <= StdoutCap IN
  [bytes    |-> IF fits THEN r.bytes + n ELSE StdoutCap,
   answered |-> r.answered \/ (answers /\ fits),
   lost     |-> ~ fits,
   exit     |-> r.exit]

EndedBy(r, exit) ==
  [bytes |-> r.bytes, answered |-> r.answered, lost |-> r.lost, exit |-> exit]

FailClass == {"timeout", "cpu_budget", "output_overflow", "guest_trap",
              "guest_exit", "no_response", "internal"}

Outcomes == FailClass \cup {"completed"}

ClassOfExit(exit) ==
  CASE exit = "interrupt" -> "timeout"
    [] exit = "fuel"      -> "cpu_budget"
    [] exit = "trap"      -> "guest_trap"
    [] exit = "hosterror" -> "internal"
    [] exit = "exit"      -> "guest_exit"
    [] OTHER              -> "no_response"

Classify(r) ==
  CASE r.bytes > OutputMax -> "output_overflow"
    [] r.bytes <= OutputMax /\ r.answered -> "completed"
    [] OTHER -> ClassOfExit(r.exit)

InGuest == {"running", "hostcall"}

Live == {c \in Calls : worker[c] \notin {"none", "gone"}}

-----------------------------------------------------------------------------
(* The main thread: Runner::call and run_guest. *)

Start(c, t) ==
  /\ main = "idle"
  /\ worker[c] = "none"
  /\ Cardinality(Live) < MaxThreads
  /\ main' = "waiting"
  /\ current' = c
  /\ elapsed' = 0
  /\ timeout' = [timeout EXCEPT ![c] = t]
  /\ worker' = [worker EXCEPT ![c] = "setup"]
  /\ UNCHANGED <<chan, sinceTick, epochsLeft, run, outcome>>

(* thread::spawn panics when the OS refuses a thread: the process ends and *)
(* takes its detached threads with it.                                     *)
SpawnPanic ==
  /\ main = "idle"
  /\ \E c \in Calls : worker[c] = "none"
  /\ Cardinality(Live) >= MaxThreads
  /\ main' = "crashed"
  /\ worker' = [c \in Calls |-> IF c \in Live THEN "gone" ELSE worker[c]]
  /\ epochsLeft' = [c \in Calls |-> 0]
  /\ run' = [c \in Calls |-> NoOutput]
  /\ UNCHANGED <<chan, current, elapsed, sinceTick, timeout, outcome>>

RecvOutput ==
  /\ main = "waiting"
  /\ chan # None
  /\ main' = "joining"
  /\ UNCHANGED <<current, elapsed, sinceTick, timeout, outcome, threads>>

Reply(class) ==
  /\ main' = "idle"
  /\ current' = None
  /\ elapsed' = 0
  /\ outcome' = [outcome EXCEPT ![current] = class]
  /\ UNCHANGED <<sinceTick, timeout, worker, epochsLeft>>

(* Mutant: the RunOutput is used without joining the worker. *)
Unjoined ==
  /\ main = "joining"
  /\ Reply(Classify(run[chan]))
  /\ chan' = None
  /\ run' = [run EXCEPT ![chan] = NoOutput]

(* handle.join() returned: the RunOutput received is classified. *)
Joined ==
  /\ main = "joining"
  /\ worker[current] = "gone"
  /\ Reply(Classify(run[chan]))
  /\ chan' = None
  /\ run' = [run EXCEPT ![chan] = NoOutput]

(* Mutant: the worker is joined after a timeout too. *)
JoinAlways ==
  /\ main = "waiting"
  /\ chan = None
  /\ elapsed >= Budget(timeout[current])
  /\ worker[current] = "gone"
  /\ Reply("timeout")
  /\ UNCHANGED <<chan, run>>

(* Mutant: an abandoned worker is reported as a host failure. *)
InternalTimeout ==
  /\ main = "waiting"
  /\ chan = None
  /\ elapsed >= Budget(timeout[current])
  /\ Reply("internal")
  /\ UNCHANGED <<chan, run>>

(* recv_timeout looks into the channel once more before it gives up. *)
JoinTimeout ==
  /\ main = "waiting"
  /\ chan = None
  /\ elapsed >= Budget(timeout[current])
  /\ Reply("timeout")
  /\ UNCHANGED <<chan, run>>

(* The sender was dropped without a message: recv_timeout's other error,   *)
(* which run_guest() does not tell from a timeout.                         *)
Disconnected ==
  /\ main = "waiting"
  /\ chan = None
  /\ worker[current] = "gone"
  /\ Reply("timeout")
  /\ UNCHANGED <<chan, run>>

-----------------------------------------------------------------------------
(* The worker thread: execute() and the closure that sends its result. *)

main_vars == <<main, current, elapsed, sinceTick, timeout, outcome>>

GoTo(c, place) == worker' = [worker EXCEPT ![c] = place]

(* A preopened directory that cannot be opened, fuel that cannot be set or *)
(* WASI that cannot be linked: no guest code runs.                         *)
SetupFails(c) ==
  /\ worker[c] = "setup"
  /\ GoTo(c, "ended")
  /\ run' = [run EXCEPT ![c] = EndedBy(@, "hosterror")]
  /\ UNCHANGED <<main_vars, chan, epochsLeft>>

Arm(c) ==
  /\ worker[c] = "setup"
  /\ GoTo(c, "running")
  /\ epochsLeft' = [epochsLeft EXCEPT ![c] = Deadline(timeout[c])]
  /\ UNCHANGED <<main_vars, chan, run>>

(* The guest writes n bytes to stdout, its answer among them or not. *)
Write(c, n, answers) ==
  /\ worker[c] = "running"
  /\ ~ run[c].lost
  /\ run' = [run EXCEPT ![c] = Written(@, n, answers)]
  /\ UNCHANGED <<main_vars, chan, worker, epochsLeft>>

EnterHostCall(c) ==
  /\ worker[c] = "running"
  /\ GoTo(c, "hostcall")
  /\ UNCHANGED <<main_vars, chan, epochsLeft, run>>

LeaveHostCall(c) ==
  /\ worker[c] = "hostcall"
  /\ GoTo(c, "running")
  /\ UNCHANGED <<main_vars, chan, epochsLeft, run>>

(* The store stops and execute() builds the RunOutput; with                *)
(* --debug-guest-stderr it first echoes the guest's stderr, if any.        *)
End(c, exit) ==
  /\ worker[c] = "running"
  /\ \/ GoTo(c, "ended")
     \/ DebugGuestStderr /\ GoTo(c, "report")
  /\ epochsLeft' = [epochsLeft EXCEPT ![c] = 0]
  /\ run' = [run EXCEPT ![c] = EndedBy(@, exit)]
  /\ UNCHANGED <<main_vars, chan>>

(* A module without _start ends in a host error once it is instantiated.   *)
GuestEnds(c) == \E exit \in Exits \ {"interrupt"} : End(c, exit)

(* Only wasm code checks the epoch: a host call is not interrupted. *)
Interrupt(c) == epochsLeft[c] = 0 /\ End(c, "interrupt")

Reported(c) ==
  /\ worker[c] = "report"
  /\ GoTo(c, "ended")
  /\ UNCHANGED <<main_vars, chan, epochsLeft, run>>

(* eprintln! panics when stderr is closed; unwinding drops the sender. *)
ReportPanic(c) ==
  /\ worker[c] = "report"
  /\ GoTo(c, "gone")
  /\ run' = [run EXCEPT ![c] = NoOutput]
  /\ UNCHANGED <<main_vars, chan, epochsLeft>>

(* Mutant: all calls share one channel. *)
SendShared(c) ==
  /\ worker[c] = "ended"
  /\ GoTo(c, "sent")
  /\ IF main = "waiting"
       THEN chan' = c /\ UNCHANGED run
       ELSE run' = [run EXCEPT ![c] = NoOutput] /\ UNCHANGED chan
  /\ UNCHANGED <<main_vars, epochsLeft>>

(* The receiver of c's own channel exists while main waits for c; after    *)
(* that the send fails and the RunOutput is dropped.                       *)
Send(c) ==
  /\ worker[c] = "ended"
  /\ GoTo(c, "sent")
  /\ IF main = "waiting" /\ current = c
       THEN chan' = c /\ UNCHANGED run
       ELSE run' = [run EXCEPT ![c] = NoOutput] /\ UNCHANGED chan
  /\ UNCHANGED <<main_vars, epochsLeft>>

ThreadEnds(c) ==
  /\ worker[c] = "sent"
  /\ GoTo(c, "gone")
  /\ UNCHANGED <<main_vars, chan, epochsLeft, run>>

-----------------------------------------------------------------------------
(* The ticker thread and the clock. *)

(* Mutant: the ticker runs only while a call is being served. *)
TickWhileServing ==
  /\ main = "waiting"
  /\ sinceTick >= EPOCH_TICK_MS
  /\ sinceTick' = 0
  /\ epochsLeft' = [c \in Calls |-> IF epochsLeft[c] > 0 THEN epochsLeft[c] - 1 ELSE 0]
  /\ UNCHANGED <<main, current, chan, elapsed, timeout, worker, run, outcome>>

Tick ==
  /\ main # "crashed"
  /\ sinceTick >= EPOCH_TICK_MS
  /\ sinceTick' = 0
  /\ epochsLeft' = [c \in Calls |-> IF epochsLeft[c] > 0 THEN epochsLeft[c] - 1 ELSE 0]
  /\ UNCHANGED <<main, current, chan, elapsed, timeout, worker, run, outcome>>

(* Steps that take no time: a message in the channel or a join is          *)
(* noticed, an overdue guest traps, a finished worker sends and ends.      *)
Prompt ==
  \/ main = "waiting" /\ (chan # None \/ worker[current] = "gone")
  \/ main = "joining"
  \/ \E c \in Calls : \/ worker[c] = "running" /\ epochsLeft[c] = 0
                      \/ worker[c] \in {"ended", "sent"}

Advance(d) ==
  /\ main # "crashed"
  /\ ~ Prompt
  /\ sinceTick + d <= EPOCH_TICK_MS + Late
  /\ main = "waiting" =>
       /\ elapsed + d <= Budget(timeout[current]) + Late
       /\ worker[current] = "setup" => elapsed + d <= SetupMax
  /\ sinceTick' = sinceTick + d
  /\ elapsed' = IF main = "waiting" THEN elapsed + d ELSE 0
  /\ UNCHANGED <<main, current, timeout, outcome, threads>>

-----------------------------------------------------------------------------

Init ==
  /\ main = "idle"
  /\ current = None
  /\ chan = None
  /\ elapsed = 0
  /\ sinceTick = 0
  /\ timeout \in [Calls -> {0}]
  /\ worker = [c \in Calls |-> "none"]
  /\ epochsLeft = [c \in Calls |-> 0]
  /\ run = [c \in Calls |-> NoOutput]
  /\ outcome = [c \in Calls |-> "none"]

MainStep ==
  \/ \E c \in Calls, t \in Timeouts : Start(c, t)
  \/ SpawnPanic
  \/ RecvOutput
  \/ Joined
  \/ JoinTimeout
  \/ Disconnected

WorkerStep(c) ==
  \/ SetupFails(c)
  \/ Arm(c)
  \/ \E n \in WriteSizes, answers \in BOOLEAN : Write(c, n, answers)
  \/ EnterHostCall(c)
  \/ LeaveHostCall(c)
  \/ GuestEnds(c)
  \/ Interrupt(c)
  \/ Reported(c)
  \/ ReportPanic(c)
  \/ Send(c)
  \/ ThreadEnds(c)

TimeStep == Tick \/ \E d \in Steps : Advance(d)

(* After a panic of the main thread the process is gone. *)
Crashed == main = "crashed" /\ UNCHANGED vars

Next ==
  \/ MainStep
  \/ \E c \in Calls : WorkerStep(c)
  \/ TimeStep
  \/ Crashed

Spec == Init /\ [][Next]_vars

(* Threads that can run do run, and time passes; nothing is assumed of the *)
(* guest, which may stay in a host call for ever, nor of execute() and     *)
(* eprintln!, which may block. A guest that keeps coming back to wasm code *)
(* meets an epoch check there, hence the strong fairness of Interrupt.     *)
Fairness ==
  /\ WF_vars(RecvOutput \/ Joined \/ JoinTimeout \/ Disconnected)
  /\ WF_vars(Tick)
  /\ WF_vars(\E d \in Steps : Advance(d))
  /\ \A c \in Calls :
       /\ SF_vars(Interrupt(c))
       /\ WF_vars(Send(c))
       /\ WF_vars(ThreadEnds(c))

FairSpec == Spec /\ Fairness

-----------------------------------------------------------------------------
(* Properties. *)

TypeOK ==
  /\ main \in {"idle", "waiting", "joining", "crashed"}
  /\ current \in Calls \cup {None}
  /\ chan \in Calls \cup {None}
  /\ main = "joining" => chan # None
  /\ elapsed \in Nat
  /\ sinceTick \in Nat
  /\ timeout \in [Calls -> Timeouts \cup {0}]
  /\ worker \in [Calls -> {"none", "setup", "running", "hostcall", "report",
                          "ended", "sent", "gone"}]
  /\ epochsLeft \in [Calls -> Nat]
  /\ run \in [Calls -> RunOutputs]
  /\ outcome \in [Calls -> Outcomes \cup {"none"}]

(* JOIN_GRACE_MS covers the slowest set-up and the lateness of every tick  *)
(* of a call. The grace is fixed while the lateness adds up: with ticks    *)
(* 7 ms late a call of 30 s, the default, is not punctual.                 *)
Punctual(t) == SetupMax + Deadline(t) * Late < JOIN_GRACE_MS + (t % EPOCH_TICK_MS)

(* Two nets, in this order: while the main thread waits for a call that is *)
(* punctual on this host, the epoch deadline of its guest runs out before  *)
(* the budget of recv_timeout does, so that of these calls only guests     *)
(* inside a host call are abandoned; one that burns CPU is trapped and     *)
(* joined. A call that is not punctual may be abandoned while it computes. *)
BeforeDeadline(c) ==
  \/ worker[c] = "setup"
  \/ worker[c] \in InGuest /\ epochsLeft[c] > 0

DeadlineBeforeBudget ==
  main = "waiting" /\ BeforeDeadline(current) /\ Punctual(timeout[current]) =>
    elapsed < Budget(timeout[current])

(* A call is answered "timeout" only when more than its timeout_ms have    *)
(* passed, at whatever phase of the ticker it started, and whether the     *)
(* epoch trap or recv_timeout ended it.                                    *)
TimeoutNotEarly ==
  [][\A c \in Calls : outcome[c] = "none" /\ outcome'[c] = "timeout"
       => elapsed > timeout[c]]_vars

(* An answered call whose worker thread may still run was answered         *)
(* "timeout"; every other reply waits for the thread to end, whose store   *)
(* was dropped before it sent, so that no side effect of a call follows    *)
(* its reply.                                                              *)
OnlyTimeoutsLeaveAWorker ==
  \A c \in Live : c = current \/ outcome[c] = "timeout"

(* The reply to a call is made from the output of its own instance: the    *)
(* late answer of an abandoned worker reaches no later call.               *)
NoForeignAnswer == main \in {"waiting", "joining"} => chan \in {None, current}

(* A guest's answer is passed on only when its stdout was captured whole:  *)
(* the pipe's capacity exceeds output_max_kb, so that output that was cut  *)
(* is seen to exceed it.                                                   *)
NoTruncatedCompletion ==
  [][\A c \in Calls : outcome[c] = "none" /\ outcome'[c] = "completed"
       => run[c].answered /\ ~ run[c].lost]_vars

(* The process runs out of worker threads only when as many calls as the   *)
(* OS grants threads were abandoned and never came back.                   *)
CrashNeedsAbandonedWorkers ==
  [][main # "crashed" /\ main' = "crashed"
       => Cardinality({c \in Live : outcome[c] = "timeout"}) >= MaxThreads]_vars

(* Every call is answered, even if its guest never leaves a host call. *)
EveryCallAnswered ==
  \A c \in Calls : main = "waiting" /\ current = c ~> outcome[c] # "none"

(* A guest that comes back from its host calls does not outlive its        *)
(* deadline for ever: it meets the epoch trap and its thread ends, also    *)
(* after the call was answered.                                            *)
ReturningGuestsEnd ==
  \A c \in Calls :
    []<>(worker[c] = "running") => <>(worker[c] \in {"report", "gone"})

(* What the server loop relies on: calls one at a time, each answered      *)
(* once, and no guest left behind but by a timeout.                        *)
Contract == INSTANCE ToolCall WITH
  open   <- IF main \in {"waiting", "joining"} THEN current ELSE None,
  acting <- Live

ImplementsToolCall == Contract!Spec
ImplementsFairToolCall == Contract!FairSpec

=============================================================================
