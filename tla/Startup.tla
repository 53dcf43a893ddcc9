------------------------------- MODULE Startup -------------------------------
(***************************************************************************)
(* From the command line to the first line a client may send: real_main    *)
(* and cmd_run of src/src/main.rs with their FlagParser, the policy and    *)
(* module files they read, WasmRunner::new with its probe of the guest and *)
(* parse_probe (src/src/sandbox.rs), and the first two audit events.       *)
(* cmd_inspect takes the same way and ends with a report; what cmd_check   *)
(* looks at is the business of Check.                                      *)
(*                                                                         *)
(* The files may be replaced by somebody else at any moment. A file is     *)
(* what it contains; its hash stands for that.                             *)
(***************************************************************************)
EXTENDS Integers, Sequences, SequencesExt, FiniteSetsExt

CONSTANTS
  CommandLines,    \* what the process may be started with
  Dashed,          \* the tokens that begin with "--"
  Numbers,         \* the tokens that parse as a usize
  Disks,           \* what the files may contain at first
  Contents,        \* what a file may be replaced by
  GoodPolicies,    \* the contents that Policy::load accepts
  GoodModules,     \* the contents that wasmtime compiles
  Outputs,         \* what a guest may make of the probe
  Unnamed,         \* a listed tool without a name
  None,            \* no call
  MaxReplacements  \* bound: how often a file is replaced

ASSUME ArgumentsAssumption == CommandLines \subseteq Seq(STRING)
ASSUME DisksAssumption ==
  \A d \in Disks, a \in CommandLines :
    d \in [DOMAIN d -> STRING] /\ \A i \in 2..Len(a) : a[i] \in Dashed \cup DOMAIN d
ASSUME FilesAssumption ==
  /\ GoodPolicies \cap {"vacuum", "missing", "directory", "empty"} = {}
  /\ GoodModules \cap {"missing", "directory", "empty"} = {}
ASSUME OutputsAssumption ==
  \A o \in Outputs :
    /\ o.answer \in {"none", "no_tools", "tools"}
    /\ o.pages # <<>> /\ o.pages \in Seq(Seq(UNION {ToSet(page) : page \in ToSet(o.pages)}))
ASSUME BoundAssumption == MaxReplacements \in Nat

VARIABLES
  args,      \* the command line
  stage,     \* what the main thread does next
  pos,       \* FlagParser.pos
  settings,  \* the value of each flag that was given one
  status,    \* the exit status
  policy,    \* the policy in force: "vacuum", or what its file contained
  compiled,  \* what the module's file contained
  output,    \* what the probed guest printed
  probe,     \* WasmRunner.probe
  hashes,    \* module_sha and policy_sha
  trail,     \* the audit events
  disk,      \* what each file contains
  replaced,  \* the flags whose files were replaced since they were loaded
  replacements,
  open, acting, outcome  \* the Runner, see ToolCall

runner == <<open, acting, outcome>>
files == <<disk, replaced, replacements>>
loaded == <<policy, compiled, output, probe, hashes>>
vars == <<args, stage, pos, settings, status, loaded, trail, files, runner>>

(* The probe is a run_guest like any other; that its RunOutput came too    *)
(* late is the "timeout" of the contract.                                  *)
Runner == INSTANCE ToolCall WITH Calls <- {"probe"}, Outcomes <- {"received", "timeout"}

-----------------------------------------------------------------------------
(* The command line. *)

Commands == {"run", "inspect", "check"}

Valued(command) ==
  CASE command = "run"     -> {"--module", "--policy", "--audit", "--page-size"}
    [] command = "inspect" -> {"--module"}
    [] command = "check"   -> {"--policy"}

Switches(command) ==
  CASE command = "run"     -> {"--debug-guest-stderr"}
    [] command = "inspect" -> {"--json"}
    [] command = "check"   -> {}

ASSUME FlagsAssumption ==
  \A command \in Commands : Valued(command) \cup Switches(command) \subseteq Dashed

Required(command) == IF command = "check" THEN "--policy" ELSE "--module"

Command == args[1]

(* The process ends, and its threads with it. *)
Quit(code) ==
  /\ stage' = "exit"
  /\ status' = code
  /\ Runner!Crash

Proceed(next) == stage' = next /\ UNCHANGED <<status, runner>>

Dispatch ==
  /\ stage = "dispatch"
  /\ \/ /\ args # <<>> /\ Command \in Commands
        /\ Proceed("arguments")
     \/ /\ args # <<>> /\ Command \in {"--version", "-V", "--help", "-h"}
        /\ Quit(0)
     \/ /\ args # <<>> => Command \notin Commands \cup {"--version", "-V", "--help", "-h"}
        /\ Quit(2)
  /\ UNCHANGED <<args, pos, settings, loaded, trail, files>>

(* Mutant: whatever follows a flag is its value. *)
TakesAny(flag) ==
  /\ pos < Len(args)
  /\ flag = "--page-size" => args[pos + 1] \in Numbers

(* Mutant: the last token of the line is never a value. *)
HasValueEarly(flag) ==
  /\ pos + 1 < Len(args)
  /\ args[pos + 1] \notin Dashed
  /\ flag = "--page-size" => args[pos + 1] \in Numbers

HasValue(flag) ==
  /\ pos < Len(args)
  /\ args[pos + 1] \notin Dashed
  /\ flag = "--page-size" => args[pos + 1] \in Numbers

(* Mutant: the first value of a flag stays. *)
KeepFirst(flag, value) ==
  [f \in DOMAIN settings \cup {flag} |-> IF f \in DOMAIN settings THEN settings[f] ELSE value]

Set(flag, value) ==
  [f \in DOMAIN settings \cup {flag} |-> IF f = flag THEN value ELSE settings[f]]

Flag ==
  /\ stage = "arguments"
  /\ pos <= Len(args)
  /\ LET flag == args[pos] IN
     \/ /\ flag \in Switches(Command)
        /\ pos' = pos + 1
        /\ Proceed("arguments") /\ UNCHANGED settings
     \/ /\ flag \in Valued(Command) /\ HasValue(flag)
        /\ settings' = Set(flag, args[pos + 1])
        /\ pos' = pos + 2
        /\ Proceed("arguments")
     \/ /\ flag \notin Switches(Command)
        /\ flag \in Valued(Command) => ~ HasValue(flag)
        /\ Quit(2) /\ UNCHANGED <<pos, settings>>
  /\ UNCHANGED <<args, loaded, trail, files>>

EndOfFlags ==
  /\ stage = "arguments"
  /\ pos > Len(args)
  /\ IF Required(Command) \notin DOMAIN settings THEN Quit(2)
     ELSE Proceed(IF Command = "inspect" THEN "module" ELSE "policy")
  /\ UNCHANGED <<args, pos, settings, loaded, trail, files>>

-----------------------------------------------------------------------------
(* The files. *)

LoadPolicy ==
  /\ stage = "policy"
  /\ LET next == IF Command = "check" THEN "check" ELSE "audit" IN
     \/ /\ "--policy" \notin DOMAIN settings
        /\ policy' = "vacuum"
        /\ Proceed(next) /\ UNCHANGED replaced
     \/ /\ "--policy" \in DOMAIN settings /\ disk[settings["--policy"]] \in GoodPolicies
        /\ policy' = disk[settings["--policy"]]
        /\ replaced' = replaced \ {"--policy"}
        /\ Proceed(next)
     \/ /\ "--policy" \in DOMAIN settings /\ disk[settings["--policy"]] \notin GoodPolicies
        /\ Quit(IF Command = "check" THEN 1 ELSE 2)
        /\ UNCHANGED <<policy, replaced>>
  /\ UNCHANGED <<args, pos, settings, compiled, output, probe, hashes, trail, disk, replacements>>

(* Without problems in the policy's mounts, or with some. *)
CheckPolicy ==
  /\ stage = "check"
  /\ \E code \in {0, 1} : Quit(code)
  /\ UNCHANGED <<args, pos, settings, loaded, trail, files>>

(* Auditor::to_file creates a file that is not there and appends to one    *)
(* that is, whatever it may be.                                            *)
OpenAudit ==
  /\ stage = "audit"
  /\ IF "--audit" \in DOMAIN settings
       THEN LET path == settings["--audit"] IN
            IF disk[path] = "directory"
              THEN Quit(2) /\ UNCHANGED disk
              ELSE /\ disk' = [disk EXCEPT ![path] = IF @ = "missing" THEN "empty" ELSE @]
                   /\ Proceed("module")
       ELSE Proceed("module") /\ UNCHANGED disk
  /\ UNCHANGED <<args, pos, settings, loaded, trail, replaced, replacements>>

LoadModule ==
  /\ stage = "module"
  /\ LET path == settings["--module"] IN
     IF disk[path] \in GoodModules
       THEN /\ compiled' = disk[path]
            /\ replaced' = replaced \ {"--module"}
            /\ Proceed("ready")
       ELSE Quit(2) /\ UNCHANGED <<compiled, replaced>>
  /\ UNCHANGED <<args, pos, settings, policy, output, probe, hashes, trail, disk, replacements>>

-----------------------------------------------------------------------------
(* The probe. *)

BeginProbe ==
  /\ stage = "ready"
  /\ Runner!Begin("probe")
  /\ stage' = "probing"
  /\ UNCHANGED <<args, pos, settings, status, loaded, trail, files>>

(* thread::spawn panics, for the epoch ticker or for the guest's worker. *)
SpawnPanics ==
  /\ stage = "ready"
  /\ Quit(101)
  /\ UNCHANGED <<args, pos, settings, loaded, trail, files>>

Silent == [answer |-> "none", pages |-> <<<<>>>>]

(* Mutant: the guest is waited for in any case. *)
JoinProbe(o, out) ==
  /\ stage = "probing" /\ acting = {}
  /\ Runner!Answer(o)
  /\ output' = out
  /\ stage' = "probed"
  /\ UNCHANGED <<args, pos, settings, status, policy, compiled, probe, hashes, trail, files>>

(* What came too late is not looked at. *)
EndProbe(o, out) ==
  /\ stage = "probing"
  /\ Runner!Answer(o)
  /\ output' = IF o = "timeout" THEN Silent ELSE out
  /\ stage' = "probed"
  /\ UNCHANGED <<args, pos, settings, status, policy, compiled, probe, hashes, trail, files>>

(* Mutant: a guest that says nothing has no tools. *)
NothingListed(out) == out.answer # "no_tools"

(* Is there a result.tools to take? *)
IsListing(out) == out.answer = "tools"

(* The tools that have a name, in order. *)
Named(tools) ==
  FlattenSeq([i \in DOMAIN tools |-> IF tools[i] = Unnamed THEN <<>> ELSE <<tools[i]>>])

(* Mutant: a further page of the listing goes unnoticed. *)
FirstPageOnly(out) == [tools |-> Named(out.pages[1]), truncated |-> FALSE]

(* Mutant: tools without a name are kept. *)
WholePage(out) == [tools |-> out.pages[1], truncated |-> Len(out.pages) > 1]

Listing(out) == [tools |-> Named(out.pages[1]), truncated |-> Len(out.pages) > 1]

ParseProbe ==
  /\ stage = "probed"
  /\ IF IsListing(output)
       THEN /\ probe' = Listing(output)
            /\ Proceed(IF Command = "inspect" THEN "report" ELSE "hash_module")
       ELSE Quit(2) /\ UNCHANGED probe
  /\ UNCHANGED <<args, pos, settings, policy, compiled, output, hashes, trail, files>>

(* cmd_inspect prints what the probe found. *)
Report ==
  /\ stage = "report"
  /\ Quit(0)
  /\ UNCHANGED <<args, pos, settings, loaded, trail, files>>

(* The guest of the probe ends, in time or not. *)
GuestStops ==
  /\ Runner!Stop("probe")
  /\ UNCHANGED <<args, stage, pos, settings, status, loaded, trail, files>>

-----------------------------------------------------------------------------
(* The first events. *)

(* Mutant: the module named first on the command line is hashed. *)
HashFirstModule ==
  /\ stage = "hash_module"
  /\ hashes' = [hashes EXCEPT !.module = disk[args[Min({i \in DOMAIN args : args[i] = "--module"}) + 1]]]
  /\ Proceed("hash_policy")
  /\ UNCHANGED <<args, pos, settings, policy, compiled, output, probe, trail, files>>

HashModule ==
  /\ stage = "hash_module"
  /\ hashes' = [hashes EXCEPT !.module = disk[settings["--module"]]]
  /\ Proceed("hash_policy")
  /\ UNCHANGED <<args, pos, settings, policy, compiled, output, probe, trail, files>>

HashPolicy ==
  /\ stage = "hash_policy"
  /\ hashes' = [hashes EXCEPT !.policy =
                  IF "--policy" \in DOMAIN settings THEN disk[settings["--policy"]] ELSE "vacuum"]
  /\ Proceed("session_start")
  /\ UNCHANGED <<args, pos, settings, policy, compiled, output, probe, trail, files>>

LogStart ==
  /\ stage = "session_start"
  /\ trail' = Append(trail, [event |-> "session_start", data |-> hashes])
  /\ Proceed("probe_event")
  /\ UNCHANGED <<args, pos, settings, loaded, files>>

LogProbe ==
  /\ stage = "probe_event"
  /\ trail' = Append(trail, [event |-> "probe", data |-> probe])
  /\ Proceed("serving")
  /\ UNCHANGED <<args, pos, settings, loaded, files>>

Main ==
  \/ Dispatch \/ Flag \/ EndOfFlags
  \/ LoadPolicy \/ CheckPolicy \/ OpenAudit \/ LoadModule
  \/ BeginProbe \/ SpawnPanics \/ ParseProbe \/ Report
  \/ HashModule \/ HashPolicy \/ LogStart \/ LogProbe
  \/ \E o \in {"received", "timeout"}, out \in Outputs : EndProbe(o, out)

Replace(path, content) ==
  /\ stage \notin {"dispatch", "arguments", "serving", "exit"}
  /\ replacements < MaxReplacements
  /\ content # disk[path]
  /\ disk' = [disk EXCEPT ![path] = content]
  /\ replaced' = replaced \cup {f \in DOMAIN settings : settings[f] = path}
  /\ replacements' = replacements + 1
  /\ UNCHANGED <<args, stage, pos, settings, status, loaded, trail, runner>>

(* From here on it is Session's, or nobody's. *)
Over == stage \in {"serving", "exit"} /\ UNCHANGED vars

Init ==
  /\ args \in CommandLines
  /\ stage = "dispatch" /\ pos = 2 /\ settings = [f \in {} |-> ""] /\ status = 0
  /\ policy = "none" /\ compiled = "none"
  /\ output = Silent
  /\ probe = [tools |-> <<>>, truncated |-> FALSE]
  /\ hashes = [module |-> "none", policy |-> "none"]
  /\ trail = <<>>
  /\ disk \in Disks /\ replaced = {} /\ replacements = 0
  /\ Runner!Init

Next ==
  \/ Main
  \/ GuestStops
  \/ \E path \in DOMAIN disk, content \in Contents : Replace(path, content)
  \/ Over

Spec == Init /\ [][Next]_vars

(* The main thread goes on; that the probe comes back is the contract's.   *)
FairSpec == Spec /\ WF_vars(Main)

-----------------------------------------------------------------------------
(* Properties. *)

TypeOK ==
  /\ stage \in {"dispatch", "arguments", "policy", "check", "audit", "module", "ready", "probing",
                "probed", "report", "hash_module", "hash_policy", "session_start", "probe_event",
                "serving", "exit"}
  /\ pos \in 2..(Len(args) + 2) /\ status \in 0..2 \cup {101}
  /\ stage \notin {"dispatch", "exit"} => DOMAIN settings \subseteq Valued(Command)
  /\ policy \in GoodPolicies \cup {"none", "vacuum"} /\ compiled \in GoodModules \cup {"none"}
  /\ probe.truncated \in BOOLEAN /\ Unnamed \notin ToSet(probe.tools)
  /\ open \in {"probe", None} /\ acting \subseteq {"probe"}

(* The reference: a command line is well formed when every "--" token is a *)
(* flag of the command, every valued flag stands before a value that suits *)
(* it, and everything else stands behind such a flag.                      *)
WellFormed ==
  /\ \A i \in 2..Len(args) :
       IF args[i] \in Dashed
         THEN \/ args[i] \in Switches(Command)
              \/ /\ args[i] \in Valued(Command)
                 /\ i < Len(args) /\ args[i + 1] \notin Dashed
                 /\ args[i] = "--page-size" => args[i + 1] \in Numbers
         ELSE i > 2 /\ args[i - 1] \in Valued(Command)
  /\ \E i \in 2..Len(args) : args[i] = Required(Command)

Given(flag) == {i \in 2..Len(args) : args[i] = flag}

(* Who is past the argument parser had a well-formed command line, and the *)
(* last value of each flag is the one in force. "Without --policy, every   *)
(* tool runs but in a capability vacuum": nobody whose command line        *)
(* mentions --policy is served under the vacuum.                           *)
ArgumentsInForce ==
  /\ stage \notin {"dispatch", "arguments", "exit"} =>
       /\ WellFormed
       /\ \A f \in Valued(Command) :
            /\ (f \in DOMAIN settings) = (Given(f) # {})
            /\ f \in DOMAIN settings => settings[f] = args[Max(Given(f)) + 1]
  /\ stage = "exit" /\ args # <<>> /\ Command \in Commands /\ status # 2 => WellFormed
  /\ stage = "serving" => (policy = "vacuum") = (Given("--policy") = {})

(* A command line of run, inspect or check is taken exactly when it is     *)
(* well formed: what is taken is in force as above, and what the parser    *)
(* turns away, at whatever token, is not well formed.                      *)
ArgumentsAreRead ==
  [][ /\ stage = "arguments" /\ stage' = "exit" => ~ WellFormed
      /\ stage = "dispatch" /\ stage' = "exit" => args = <<>> \/ Command \notin Commands
      /\ ArgumentsInForce' ]_vars

(* What session_start says of the module and the policy is what runs, as   *)
(* long as nobody replaces a file after it was loaded.                     *)
StartEvents == {i \in DOMAIN trail : trail[i].event = "session_start"}

HashesUnlessReplaced ==
  \A i \in StartEvents :
    /\ "--module" \notin replaced => trail[i].data.module = compiled
    /\ "--policy" \in DOMAIN settings /\ "--policy" \notin replaced =>
         trail[i].data.policy = policy

(* Only the first page of a guest's tool list is read. The trail has the   *)
(* named tools of that page, calls the listing truncated exactly when the  *)
(* guest has more pages, and when it does not, it has every named tool of  *)
(* the guest, in order.                                                    *)
ListingsAreHonest ==
  \A i \in DOMAIN trail :
    trail[i].event = "probe" =>
      LET said == trail[i].data IN
      /\ said.tools = Named(output.pages[1])
      /\ said.truncated = (Len(output.pages) > 1)
      /\ ~ said.truncated => said.tools = Named(FlattenSeq(output.pages))

(* No client is served while the guest of the probe may still be running,  *)
(* nor on the word of a probe that was given up.                           *)
ProbesAreOver ==
  stage \in {"hash_module", "serving"} => acting = {} /\ outcome["probe"] = "received"

(* Start-up comes to an end, whatever the guest does.                      *)
StartupEnds == <>(stage \in {"serving", "exit"})

=============================================================================
