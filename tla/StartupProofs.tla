---------------------------- MODULE StartupProofs ----------------------------
(***************************************************************************)
(* Theorems about Startup, for any command lines, files and guests.        *)
(***************************************************************************)
EXTENDS Startup, ListTheorems

Past == {"policy", "check", "audit", "module", "ready", "probing", "probed", "report",
         "hash_module", "hash_policy", "session_start", "probe_event", "serving"}

(* Token i, as far as the parser has come. *)
TokenRead(i) ==
  IF args[i] \in Dashed
    THEN \/ args[i] \in Switches(Command)
         \/ /\ args[i] \in Valued(Command)
            /\ i + 1 < pos /\ args[i + 1] \notin Dashed
            /\ args[i] = "--page-size" => args[i + 1] \in Numbers
    ELSE i > 2 /\ args[i - 1] \in Valued(Command)

(* The setting of a flag is the value behind its last occurrence. *)
LastSet(f) ==
  IF f \in DOMAIN settings
    THEN \E i \in 2..(pos - 1) : /\ args[i] = f /\ settings[f] = args[i + 1]
                                 /\ \A j \in 2..(pos - 1) : args[j] = f => j <= i
    ELSE \A j \in 2..(pos - 1) : args[j] # f

Parsed ==
  /\ pos \in 2..(Len(args) + 1)
  /\ DOMAIN settings \subseteq Valued(Command)
  /\ \A i \in 2..(pos - 1) : TokenRead(i)
  /\ \A f \in Valued(Command) : LastSet(f)

Started == args # <<>> /\ Command \in Commands

(* The inductive invariant of the command line: what was read of it is     *)
(* well formed and in force, and who is past it has read all of it.        *)
Arguments ==
  /\ args \in Seq(STRING)
  /\ stage \in Past \cup {"dispatch", "arguments", "exit"}
  /\ stage = "dispatch" => pos = 2 /\ DOMAIN settings = {}
  /\ stage = "arguments" => Started /\ Parsed
  /\ stage \in Past =>
       /\ Started /\ Parsed
       /\ pos = Len(args) + 1 /\ Required(Command) \in DOMAIN settings
  /\ stage = "exit" /\ Started /\ status # 2 => WellFormed

LEMMA FlagKinds ==
  ASSUME NEW c \in Commands
  PROVE  /\ Valued(c) \cup Switches(c) \subseteq Dashed
         /\ Valued(c) \cap Switches(c) = {}
         /\ Required(c) \in Valued(c)
BY FlagsAssumption DEF Commands, Valued, Switches, Required

(* Who has read all of a command line has read a well-formed one.          *)
LEMMA AllRead ==
  ASSUME args \in Seq(STRING), Started, Parsed, pos = Len(args) + 1,
         Required(Command) \in DOMAIN settings
  PROVE  WellFormed
<1>1. \A i \in 2..Len(args) : TokenRead(i)
  BY DEF Parsed
<1>2. \E i \in 2..Len(args) : args[i] = Required(Command)
  BY FlagKinds DEF Started, Parsed, LastSet
<1>3. ASSUME NEW i \in 2..Len(args), args[i] \in Dashed, args[i] \notin Switches(Command)
      PROVE  /\ args[i] \in Valued(Command)
             /\ i < Len(args) /\ args[i + 1] \notin Dashed
             /\ args[i] = "--page-size" => args[i + 1] \in Numbers
  BY <1>1, <1>3 DEF TokenRead
<1>4. ASSUME NEW i \in 2..Len(args), args[i] \notin Dashed
      PROVE  i > 2 /\ args[i - 1] \in Valued(Command)
  BY <1>1, <1>4 DEF TokenRead
<1>5. QED
  BY <1>2, <1>3, <1>4 DEF WellFormed

(* A switch, or a flag and its value, is read. *)
LEMMA SwitchRead ==
  ASSUME args \in Seq(STRING), Started, Parsed, pos <= Len(args),
         args[pos] \in Switches(Command),
         args' = args, pos' = pos + 1, settings' = settings
  PROVE  Parsed'
<1>1. args[pos] \in Dashed /\ args[pos] \notin Valued(Command) /\ Command' = Command
  BY FlagKinds DEF Started, Command
<1>2. pos' \in 2..(Len(args) + 1)
  BY DEF Parsed
<1>3. ASSUME NEW i \in 2..(pos' - 1) PROVE TokenRead(i)'
  <2>1. i \in 2..(pos - 1) \/ i = pos
    BY DEF Parsed
  <2>2. QED
    BY <1>1, <2>1 DEF Parsed, TokenRead
<1>4. ASSUME NEW f \in Valued(Command) PROVE LastSet(f)'
  <2>1. \A i \in 2..(pos' - 1) : i \in 2..(pos - 1) \/ args[i] # f
    BY <1>1 DEF Parsed
  <2>2. \A i \in 2..(pos - 1) : i \in 2..(pos' - 1)
    BY DEF Parsed
  <2>3. LastSet(f)
    BY DEF Parsed
  <2>4. CASE f \in DOMAIN settings
    <3>1. PICK i \in 2..(pos - 1) : /\ args[i] = f /\ settings[f] = args[i + 1]
                                   /\ \A j \in 2..(pos - 1) : args[j] = f => j <= i
      BY <2>3, <2>4 DEF LastSet
    <3>2. \A j \in 2..(pos' - 1) : args[j] = f => j <= i
      BY <2>1, <3>1
    <3>3. QED
      BY <2>2, <2>4, <3>1, <3>2 DEF LastSet
  <2>5. CASE f \notin DOMAIN settings
    BY <2>1, <2>3, <2>5 DEF LastSet
  <2>6. QED
    BY <2>4, <2>5
<1>5. QED
  BY <1>1, <1>2, <1>3, <1>4 DEF Parsed

LEMMA ValueRead ==
  ASSUME args \in Seq(STRING), Started, Parsed, pos <= Len(args),
         args[pos] \in Valued(Command), HasValue(args[pos]),
         args' = args, pos' = pos + 2, settings' = Set(args[pos], args[pos + 1])
  PROVE  Parsed'
<1>1. /\ args[pos] \in Dashed /\ Command' = Command
      /\ pos < Len(args) /\ args[pos + 1] \notin Dashed
      /\ args[pos] = "--page-size" => args[pos + 1] \in Numbers
      /\ Valued(Command) \subseteq Dashed
  BY FlagKinds DEF Started, Command, HasValue
<1>2. pos' \in 2..(Len(args) + 1)
  BY <1>1 DEF Parsed
<1>3. /\ DOMAIN settings' = DOMAIN settings \cup {args[pos]}
      /\ settings'[args[pos]] = args[pos + 1]
      /\ \A f \in DOMAIN settings : f # args[pos] => settings'[f] = settings[f]
  BY DEF Set
<1>4. ASSUME NEW i \in 2..(pos' - 1) PROVE TokenRead(i)'
  <2>1. i \in 2..(pos - 1) \/ i = pos \/ i = pos + 1
    BY DEF Parsed
  <2>2. CASE i \in 2..(pos - 1)
    BY <1>1, <2>2 DEF Parsed, TokenRead
  <2>3. CASE i = pos
    BY <1>1, <2>3 DEF Parsed, TokenRead
  <2>4. CASE i = pos + 1
    <3>1. i - 1 = pos /\ i > 2
      BY <2>4 DEF Parsed
    <3>2. QED
      BY <1>1, <2>4, <3>1 DEF TokenRead
  <2>5. QED
    BY <2>1, <2>2, <2>3, <2>4
<1>5. ASSUME NEW f \in Valued(Command) PROVE LastSet(f)'
  <2>1. \A i \in 2..(pos' - 1) : i \in 2..(pos - 1) \/ i = pos \/ args[i] # f
    BY <1>1 DEF Parsed
  <2>2. pos \in 2..(pos' - 1) /\ \A i \in 2..(pos - 1) : i \in 2..(pos' - 1)
    BY DEF Parsed
  <2>3. LastSet(f)
    BY DEF Parsed
  <2>4. CASE f = args[pos]
    <3>1. \A j \in 2..(pos' - 1) : args[j] = f => j <= pos
      BY <2>1 DEF Parsed
    <3>2. QED
      BY <1>3, <2>2, <2>4, <3>1 DEF LastSet
  <2>5. CASE f # args[pos] /\ f \in DOMAIN settings
    <3>1. PICK i \in 2..(pos - 1) : /\ args[i] = f /\ settings[f] = args[i + 1]
                                   /\ \A j \in 2..(pos - 1) : args[j] = f => j <= i
      BY <2>3, <2>5 DEF LastSet
    <3>2. \A j \in 2..(pos' - 1) : args[j] = f => j <= i
      BY <2>1, <2>5, <3>1
    <3>3. QED
      BY <1>3, <2>2, <2>5, <3>1, <3>2 DEF LastSet
  <2>6. CASE f # args[pos] /\ f \notin DOMAIN settings
    BY <1>3, <2>1, <2>3, <2>6 DEF LastSet
  <2>7. QED
    BY <2>4, <2>5, <2>6
<1>6. QED
  BY <1>1, <1>2, <1>3, <1>4, <1>5 DEF Parsed

(* What the parser turns away is not well formed: a token that is not what *)
(* its place calls for, or a line without the flag the command requires.   *)
LEMMA TurnedAway ==
  ASSUME args \in Seq(STRING), Started, Parsed,
         \/ /\ pos <= Len(args)
            /\ args[pos] \notin Switches(Command)
            /\ args[pos] \in Valued(Command) => ~ HasValue(args[pos])
         \/ pos > Len(args) /\ Required(Command) \notin DOMAIN settings
  PROVE  ~ WellFormed
<1> SUFFICES ASSUME WellFormed PROVE FALSE
  OBVIOUS
<1>1. pos \in 2..(Len(args) + 1) /\ Len(args) \in Nat
  BY DEF Parsed
<1>2. CASE pos <= Len(args) /\ args[pos] \in Dashed
  <2>1. HasValue(args[pos]) /\ args[pos] \in Valued(Command)
    BY <1>1, <1>2 DEF WellFormed, HasValue
  <2>2. ~ HasValue(args[pos])
    BY <1>1, <1>2, <2>1 DEF HasValue
  <2>3. QED
    BY <2>1, <2>2
<1>3. CASE pos <= Len(args) /\ args[pos] \notin Dashed
  <2>1. pos > 2 /\ args[pos - 1] \in Valued(Command)
    BY <1>1, <1>3 DEF WellFormed
  <2>2. /\ args[pos - 1] \in Dashed /\ args[pos - 1] \notin Switches(Command)
        /\ pos - 1 \in 2..(pos - 1) /\ ~ (pos - 1 + 1 < pos)
    BY <1>1, <2>1, FlagKinds DEF Started
  <2>3. TokenRead(pos - 1)
    BY <2>2 DEF Parsed
  <2>4. QED
    BY <2>2, <2>3 DEF TokenRead
<1>4. CASE pos > Len(args)
  <2>1. pos - 1 = Len(args) /\ Required(Command) \in Valued(Command)
    BY <1>1, <1>4, FlagKinds DEF Started
  <2>2. \A j \in 2..Len(args) : args[j] # Required(Command)
    BY <1>1, <1>4, <2>1 DEF Parsed, LastSet
  <2>3. QED
    BY <2>2 DEF WellFormed
<1>5. QED
  BY <1>1, <1>2, <1>3, <1>4

(* A step that leaves the command line alone and stays past the flags.     *)
LEMMA OnPast ==
  ASSUME Arguments, stage \in Past, UNCHANGED <<args, pos, settings>>,
         stage' \in Past \cup {"exit"}
  PROVE  Arguments'
<1>1. args' = args /\ pos' = pos /\ settings' = settings
  OBVIOUS
<1>2. (Started /\ Parsed)' <=> (Started /\ Parsed)
  BY <1>1 DEF Started, Parsed, TokenRead, LastSet, Command
<1>3. WellFormed
  BY AllRead DEF Arguments, Past
<1>4. WellFormed' <=> WellFormed
  BY <1>1 DEF WellFormed, Command
<1>5. Required(Command)' = Required(Command)
  BY <1>1 DEF Command
<1>6. QED
  BY <1>1, <1>2, <1>3, <1>4, <1>5 DEF Arguments, Past

LEMMA ArgumentsStep ==
  ASSUME Arguments, [Next]_vars
  PROVE  Arguments'
<1>1. CASE Dispatch
  <2>1. args' = args /\ pos' = pos /\ settings' = settings /\ pos = 2 /\ DOMAIN settings = {}
    BY <1>1 DEF Dispatch, Arguments
  <2>2. CASE Started /\ stage' = "arguments"
    <3>1. Len(args) >= 1
      BY <2>2 DEF Arguments, Started
    <3>2. Started' /\ Parsed'
      BY <2>1, <2>2, <3>1 DEF Arguments, Started, Parsed, LastSet, Command
    <3>3. QED
      BY <2>1, <2>2, <3>2 DEF Arguments, Past
  <2>3. CASE stage' = "exit" /\ ~ (Started /\ status' # 2)
    <3>1. Started' = Started
      BY <2>1 DEF Started, Command
    <3>2. QED
      BY <2>1, <2>3, <3>1 DEF Arguments, Past
  <2>4. QED
    BY <1>1, <2>2, <2>3 DEF Dispatch, Proceed, Quit, Started, Commands
<1>2. CASE Flag
  <2>1. /\ args' = args /\ stage = "arguments" /\ Started /\ Parsed /\ pos <= Len(args)
        /\ args \in Seq(STRING) /\ Started'
    BY <1>2 DEF Flag, Arguments, Started, Command
  <2>2. CASE stage' = "exit"
    <3>1. status' = 2
      BY <1>2, <2>2 DEF Flag, Proceed, Quit
    <3>2. QED
      BY <2>1, <2>2, <3>1 DEF Arguments, Past
  <2>3. CASE stage' # "exit"
    <3>1. /\ stage' = "arguments"
          /\ \/ /\ args[pos] \in Switches(Command) /\ pos' = pos + 1 /\ settings' = settings
             \/ /\ args[pos] \in Valued(Command) /\ HasValue(args[pos])
                /\ pos' = pos + 2 /\ settings' = Set(args[pos], args[pos + 1])
      BY <1>2, <2>3 DEF Flag, Proceed, Quit
    <3>2. Parsed'
      BY <2>1, <3>1, SwitchRead, ValueRead
    <3>3. QED
      BY <2>1, <3>1, <3>2 DEF Arguments, Past
  <2>4. QED
    BY <2>2, <2>3
<1>3. CASE EndOfFlags
  <2>1. /\ args' = args /\ pos' = pos /\ settings' = settings
        /\ stage = "arguments" /\ Started /\ Parsed /\ pos = Len(args) + 1
    BY <1>3 DEF EndOfFlags, Arguments, Parsed
  <2>2. (Started /\ Parsed)' /\ Required(Command)' = Required(Command)
    BY <2>1 DEF Started, Parsed, TokenRead, LastSet, Command
  <2>3. \/ stage' = "exit" /\ status' = 2
        \/ stage' \in {"module", "policy"} /\ Required(Command) \in DOMAIN settings
    BY <1>3 DEF EndOfFlags, Proceed, Quit
  <2>4. QED
    BY <2>1, <2>2, <2>3 DEF Arguments, Past
<1>4. CASE stage \in Past /\ UNCHANGED <<args, pos, settings>> /\ stage' \in Past \cup {"exit"}
  BY <1>4, OnPast
<1>5. CASE UNCHANGED <<args, pos, settings, stage, status>>
  <2>1. args' = args /\ pos' = pos /\ settings' = settings /\ stage' = stage /\ status' = status
    BY <1>5
  <2>2. /\ (Started /\ Parsed)' <=> (Started /\ Parsed)
        /\ WellFormed' <=> WellFormed
        /\ Started' <=> Started
        /\ Required(Command)' = Required(Command)
    BY <2>1 DEF Started, Parsed, TokenRead, LastSet, Command, WellFormed
  <2>3. QED
    BY <2>1, <2>2 DEF Arguments
<1>6. CASE LoadPolicy \/ CheckPolicy \/ OpenAudit \/ LoadModule
  <2>1. stage \in Past /\ UNCHANGED <<args, pos, settings>> /\ stage' \in Past \cup {"exit"}
    BY <1>6 DEF LoadPolicy, CheckPolicy, OpenAudit, LoadModule, Proceed, Quit, Past
  <2>2. QED
    BY <1>4, <2>1
<1>7. CASE BeginProbe \/ SpawnPanics \/ ParseProbe \/ Report
  <2>1. stage \in Past /\ UNCHANGED <<args, pos, settings>> /\ stage' \in Past \cup {"exit"}
    BY <1>7 DEF BeginProbe, SpawnPanics, ParseProbe, Report, Proceed, Quit, Past
  <2>2. QED
    BY <1>4, <2>1
<1>8. CASE HashModule \/ HashPolicy \/ LogStart \/ LogProbe
  <2>1. stage \in Past /\ UNCHANGED <<args, pos, settings>> /\ stage' \in Past \cup {"exit"}
    BY <1>8 DEF HashModule, HashPolicy, LogStart, LogProbe, Proceed, Quit, Past
  <2>2. QED
    BY <1>4, <2>1
<1>9. ASSUME NEW o, NEW out, EndProbe(o, out) PROVE Arguments'
  <2>1. stage \in Past /\ UNCHANGED <<args, pos, settings>> /\ stage' \in Past \cup {"exit"}
    BY <1>9 DEF EndProbe, Past
  <2>2. QED
    BY <1>4, <2>1
<1>10. CASE GuestStops
  BY <1>5, <1>10 DEF GuestStops
<1>11. ASSUME NEW path, NEW content, Replace(path, content) PROVE Arguments'
  BY <1>5, <1>11 DEF Replace
<1>12. CASE Over \/ UNCHANGED vars
  BY <1>5, <1>12 DEF Over, vars
<1>13. QED
  BY <1>1, <1>2, <1>3, <1>6, <1>7, <1>8, <1>9, <1>10, <1>11, <1>12 DEF Next, Main

-----------------------------------------------------------------------------
(* The inductive invariant of the files: what was loaded is what its file  *)
(* contains until somebody replaces it, and the trail is what the stage    *)
(* says, so that the hashes taken later are those of what was loaded.      *)
OnDisk ==
  /\ disk = [p \in DOMAIN disk |-> disk[p]]
  /\ \A i \in 2..Len(args) : args[i] \in Dashed \cup DOMAIN disk

PolicyLoaded ==
  stage \in Past \ {"policy"} /\ Command # "inspect" =>
    IF "--policy" \in DOMAIN settings
      THEN /\ policy \in GoodPolicies
           /\ "--policy" \notin replaced => policy = disk[settings["--policy"]]
      ELSE policy = "vacuum"

ModuleLoaded ==
  stage \in Past \ {"policy", "check", "audit", "module"} /\ "--module" \notin replaced =>
    compiled = disk[settings["--module"]]

Ways ==
  /\ stage \in Past \ {"policy", "check"} => Command # "check"
  /\ stage \in {"hash_module", "hash_policy", "session_start", "probe_event", "serving"} =>
       Command # "inspect"

Hashed ==
  /\ hashes = [module |-> hashes.module, policy |-> hashes.policy]
  /\ stage \in {"hash_policy", "session_start", "probe_event", "serving"} /\ "--module" \notin replaced =>
       hashes.module = compiled
  /\ stage \in {"session_start", "probe_event", "serving"}
       /\ "--policy" \in DOMAIN settings /\ "--policy" \notin replaced =>
       hashes.policy = policy

Trail ==
  trail = CASE stage = "probe_event" -> <<[event |-> "session_start", data |-> hashes]>>
            [] stage = "serving"     -> <<[event |-> "session_start", data |-> hashes],
                                          [event |-> "probe", data |-> probe]>>
            [] OTHER                 -> <<>>

Loading == OnDisk /\ PolicyLoaded /\ ModuleLoaded /\ Ways /\ Hashed /\ Trail

(* The value of a flag is a file. *)
LEMMA ValuesAreFiles ==
  ASSUME Arguments, stage \in Past, OnDisk, NEW f \in DOMAIN settings
  PROVE  settings[f] \in DOMAIN disk
<1>1. /\ Parsed /\ Started /\ f \in Valued(Command) /\ pos = Len(args) + 1
      /\ args \in Seq(STRING)
  BY DEF Arguments, Parsed
<1>2. PICK i \in 2..(pos - 1) : args[i] = f /\ settings[f] = args[i + 1]
  BY <1>1 DEF Parsed, LastSet
<1>3. i + 1 < pos /\ args[i + 1] \notin Dashed
  BY <1>1, <1>2, FlagKinds DEF Parsed, TokenRead, Started
<1>4. QED
  BY <1>1, <1>2, <1>3 DEF OnDisk

LEMMA ModuleNamed ==
  ASSUME Arguments, stage \in Past, Command # "check"
  PROVE  "--module" \in DOMAIN settings
BY DEF Arguments, Required

(* A step that leaves the files, what was loaded and the trail alone.      *)
LEMMA OnLoaded ==
  ASSUME Loading, UNCHANGED <<args, settings, files, policy, compiled, hashes, trail, probe>>,
         \/ stage' = stage
         \/ stage' \in {"dispatch", "arguments", "exit"} /\ stage \notin {"probe_event", "serving"}
         \/ stage = "ready" /\ stage' = "probing"
         \/ stage = "probing" /\ stage' = "probed"
  PROVE  Loading'
<1>1. /\ args' = args /\ settings' = settings /\ disk' = disk /\ replaced' = replaced
      /\ policy' = policy /\ compiled' = compiled /\ hashes' = hashes /\ trail' = trail
      /\ probe' = probe /\ Command' = Command
  BY DEF files, Command
<1>2. OnDisk'
  BY <1>1 DEF Loading, OnDisk
<1>3. PolicyLoaded' /\ ModuleLoaded' /\ Ways' /\ Hashed'
  BY <1>1 DEF Loading, PolicyLoaded, ModuleLoaded, Ways, Hashed, Past
<1>4. Trail'
  BY <1>1 DEF Loading, Trail
<1>5. QED
  BY <1>2, <1>3, <1>4 DEF Loading

LEMMA LoadingStep ==
  ASSUME Arguments, Loading, [Next]_vars
  PROVE  Loading'
<1> USE DEF Loading
<1>1. CASE Dispatch
  <2>1. /\ UNCHANGED <<args, settings, files, policy, compiled, hashes, trail, probe>>
        /\ stage = "dispatch" /\ stage' \in {"arguments", "exit"}
    BY <1>1 DEF Dispatch, Proceed, Quit, loaded
  <2>2. QED
    BY <2>1, OnLoaded
<1>2. CASE Flag
  <2>1. /\ args' = args /\ disk' = disk /\ replaced' = replaced /\ trail' = trail /\ hashes' = hashes
        /\ stage = "arguments" /\ stage' \in {"arguments", "exit"}
    BY <1>2 DEF Flag, Proceed, Quit, files, loaded
  <2>2. QED
    BY <2>1 DEF OnDisk, PolicyLoaded, ModuleLoaded, Ways, Hashed, Trail, Past
<1>3. CASE EndOfFlags
  <2>1. /\ args' = args /\ settings' = settings /\ disk' = disk /\ replaced' = replaced /\ trail' = trail /\ hashes' = hashes
        /\ stage = "arguments" /\ Started /\ Command' = Command
        /\ stage' \in {"module", "policy", "exit"}
        /\ stage' = "module" => Command = "inspect"
    BY <1>3 DEF EndOfFlags, Proceed, Quit, files, Arguments, Command, loaded
  <2>2. QED
    BY <2>1 DEF OnDisk, PolicyLoaded, ModuleLoaded, Ways, Hashed, Trail, Past
<1>4. CASE LoadPolicy
  <2>1. /\ args' = args /\ settings' = settings /\ disk' = disk /\ trail' = trail /\ hashes' = hashes
        /\ stage = "policy" /\ Command' = Command
        /\ stage' \in {"check", "audit", "exit"}
        /\ stage' = "audit" => Command # "check"
    BY <1>4 DEF LoadPolicy, Proceed, Quit, Command, loaded
  <2>2. stage' # "exit" => IF "--policy" \in DOMAIN settings
                             THEN policy' \in GoodPolicies /\ policy' = disk[settings["--policy"]]
                             ELSE policy' = "vacuum"
    BY <1>4 DEF LoadPolicy, Proceed, Quit
  <2>3. QED
    BY <2>1, <2>2 DEF OnDisk, PolicyLoaded, ModuleLoaded, Ways, Hashed, Trail, Past
<1>5. CASE CheckPolicy
  <2>1. /\ UNCHANGED <<args, settings, files, policy, compiled, hashes, trail, probe>>
        /\ stage = "check" /\ stage' = "exit"
    BY <1>5 DEF CheckPolicy, Quit, loaded
  <2>2. QED
    BY <2>1, OnLoaded
<1>6. CASE OpenAudit
  <2>1. /\ args' = args /\ settings' = settings /\ trail' = trail /\ hashes' = hashes /\ policy' = policy
        /\ replaced' = replaced
        /\ stage = "audit" /\ stage' \in {"module", "exit"} /\ Command' = Command
        /\ \/ disk' = disk
           \/ disk' = [disk EXCEPT ![settings["--audit"]] = IF @ = "missing" THEN "empty" ELSE @]
    BY <1>6 DEF OpenAudit, Proceed, Quit, loaded, Command
  <2>2. DOMAIN disk' = DOMAIN disk /\ disk' = [p \in DOMAIN disk' |-> disk'[p]]
    BY <2>1 DEF OnDisk
  <2>3. \A p \in DOMAIN disk : disk[p] # "missing" => disk'[p] = disk[p]
    BY <2>1 DEF OnDisk
  <2>4. PolicyLoaded'
    <3>1. \A f \in DOMAIN settings : settings[f] \in DOMAIN disk
      BY <2>1, ValuesAreFiles DEF Past
    <3>2. "missing" \notin GoodPolicies
      BY FilesAssumption
    <3>3. QED
      BY <2>1, <2>3, <3>1, <3>2 DEF PolicyLoaded, Past
  <2>5. OnDisk'
    BY <2>1, <2>2 DEF OnDisk
  <2>6. QED
    BY <2>1, <2>4, <2>5 DEF ModuleLoaded, Ways, Hashed, Trail, Past
<1>7. CASE LoadModule
  <2>1. /\ args' = args /\ settings' = settings /\ disk' = disk /\ trail' = trail /\ hashes' = hashes /\ policy' = policy
        /\ stage = "module" /\ stage' \in {"ready", "exit"} /\ Command' = Command
    BY <1>7 DEF LoadModule, Proceed, Quit, Command, loaded
  <2>2. stage' = "ready" => /\ compiled' = disk[settings["--module"]]
                            /\ "--policy" \notin replaced' => "--policy" \notin replaced
    BY <1>7 DEF LoadModule, Proceed, Quit
  <2>3. QED
    BY <2>1, <2>2 DEF OnDisk, PolicyLoaded, ModuleLoaded, Ways, Hashed, Trail, Past
<1>8. CASE BeginProbe
  <2>1. /\ UNCHANGED <<args, settings, files, policy, compiled, hashes, trail, probe>>
        /\ stage = "ready" /\ stage' = "probing"
    BY <1>8 DEF BeginProbe, loaded
  <2>2. QED
    BY <2>1, OnLoaded
<1>9. ASSUME NEW o, NEW out, EndProbe(o, out) PROVE Loading'
  <2>1. /\ UNCHANGED <<args, settings, files, policy, compiled, hashes, trail, probe>>
        /\ stage = "probing" /\ stage' = "probed"
    BY <1>9 DEF EndProbe
  <2>2. QED
    BY <2>1, OnLoaded
<1>10. CASE ParseProbe
  <2>1. /\ args' = args /\ settings' = settings /\ disk' = disk /\ replaced' = replaced /\ trail' = trail /\ hashes' = hashes
        /\ policy' = policy /\ compiled' = compiled /\ Command' = Command
        /\ stage = "probed" /\ stage' \in {"report", "hash_module", "exit"}
        /\ stage' = "hash_module" => Command # "inspect"
    BY <1>10 DEF ParseProbe, Proceed, Quit, files, Command, loaded
  <2>2. QED
    BY <2>1 DEF OnDisk, PolicyLoaded, ModuleLoaded, Ways, Hashed, Trail, Past
<1>11. CASE SpawnPanics \/ Report
  <2>1. /\ UNCHANGED <<args, settings, files, policy, compiled, hashes, trail, probe>>
        /\ stage \in {"ready", "report"} /\ stage' = "exit"
    BY <1>11 DEF SpawnPanics, Report, Quit, loaded
  <2>2. QED
    BY <2>1, OnLoaded
<1>12. CASE HashModule
  <2>1. /\ args' = args /\ settings' = settings /\ disk' = disk /\ replaced' = replaced /\ trail' = trail
        /\ policy' = policy /\ compiled' = compiled /\ Command' = Command
        /\ stage = "hash_module" /\ stage' = "hash_policy"
        /\ hashes' = [hashes EXCEPT !.module = disk[settings["--module"]]]
    BY <1>12 DEF HashModule, Proceed, files, Command
  <2>2. QED
    BY <2>1 DEF OnDisk, PolicyLoaded, ModuleLoaded, Ways, Hashed, Trail, Past
<1>13. CASE HashPolicy
  <2>1. /\ args' = args /\ settings' = settings /\ disk' = disk /\ replaced' = replaced /\ trail' = trail
        /\ policy' = policy /\ compiled' = compiled /\ Command' = Command
        /\ stage = "hash_policy" /\ stage' = "session_start"
        /\ hashes' = [hashes EXCEPT !.policy =
                        IF "--policy" \in DOMAIN settings THEN disk[settings["--policy"]] ELSE "vacuum"]
    BY <1>13 DEF HashPolicy, Proceed, files, Command
  <2>2. QED
    BY <2>1 DEF OnDisk, PolicyLoaded, ModuleLoaded, Ways, Hashed, Trail, Past
<1>14. CASE LogStart \/ LogProbe
  <2>1. /\ args' = args /\ settings' = settings /\ disk' = disk /\ replaced' = replaced
        /\ policy' = policy /\ compiled' = compiled /\ hashes' = hashes /\ probe' = probe
        /\ Command' = Command
        /\ \/ /\ stage = "session_start" /\ stage' = "probe_event"
              /\ trail' = Append(trail, [event |-> "session_start", data |-> hashes])
           \/ /\ stage = "probe_event" /\ stage' = "serving"
              /\ trail' = Append(trail, [event |-> "probe", data |-> probe])
    BY <1>14 DEF LogStart, LogProbe, Proceed, files, loaded, Command
  <2>2. Trail'
    BY <2>1 DEF Trail
  <2>3. QED
    BY <2>1, <2>2 DEF OnDisk, PolicyLoaded, ModuleLoaded, Ways, Hashed, Past
<1>15. CASE GuestStops
  <2>1. UNCHANGED <<args, settings, files, policy, compiled, hashes, trail, probe>> /\ stage' = stage
    BY <1>15 DEF GuestStops, loaded
  <2>2. QED
    BY <2>1, OnLoaded
<1>16. ASSUME NEW path, NEW content, Replace(path, content) PROVE Loading'
  <2>1. /\ args' = args /\ settings' = settings /\ stage' = stage /\ trail' = trail
        /\ policy' = policy /\ compiled' = compiled /\ hashes' = hashes /\ probe' = probe
        /\ Command' = Command /\ stage \notin {"dispatch", "arguments", "serving", "exit"}
        /\ disk' = [disk EXCEPT ![path] = content]
        /\ replaced' = replaced \cup {f \in DOMAIN settings : settings[f] = path}
    BY <1>16 DEF Replace, loaded, Command
  <2>2. stage \in Past
    BY <2>1 DEF Arguments
  <2>3. DOMAIN disk' = DOMAIN disk /\ disk' = [p \in DOMAIN disk' |-> disk'[p]]
    BY <2>1 DEF OnDisk
  <2>4. \A f \in DOMAIN settings : f \notin replaced' =>
          f \notin replaced /\ disk'[settings[f]] = disk[settings[f]]
    BY <2>1, <2>2, ValuesAreFiles
  <2>5. OnDisk'
    BY <2>1, <2>3 DEF OnDisk
  <2>6. PolicyLoaded'
    BY <2>1, <2>4 DEF PolicyLoaded
  <2>7. ModuleLoaded'
    <3>1. CASE stage \in Past \ {"policy", "check", "audit", "module"} /\ "--module" \notin replaced'
      <4>1. "--module" \in DOMAIN settings
        BY <2>2, <3>1, ModuleNamed DEF Ways
      <4>2. QED
        BY <2>1, <2>4, <3>1, <4>1 DEF ModuleLoaded
    <3>2. QED
      BY <2>1, <3>1 DEF ModuleLoaded
  <2>8. Ways' /\ Hashed'
    BY <2>1 DEF Ways, Hashed
  <2>9. Trail'
    BY <2>1 DEF Trail
  <2>10. QED
    BY <2>5, <2>6, <2>7, <2>8, <2>9
<1>17. CASE Over \/ UNCHANGED vars
  <2>1. UNCHANGED <<args, settings, files, policy, compiled, hashes, trail, probe>> /\ stage' = stage
    BY <1>17 DEF Over, vars, loaded
  <2>2. QED
    BY <2>1, OnLoaded
<1>18. QED
  BY <1>1, <1>2, <1>3, <1>4, <1>5, <1>6, <1>7, <1>8, <1>9, <1>10, <1>11, <1>12, <1>13, <1>14,
     <1>15, <1>16, <1>17 DEF Next, Main

-----------------------------------------------------------------------------
(* The inductive invariant of the probe: an output that lists tools was    *)
(* received, so its guest has ended.                                       *)
Received == acting = {} /\ outcome["probe"] = "received"

Probing ==
  /\ outcome \in [{"probe"} -> {"none", "received", "timeout"}] /\ open \in {"probe", None} /\ acting \subseteq {"probe"}
  /\ stage = "probed" /\ IsListing(output) => Received
  /\ stage \in {"report", "hash_module", "hash_policy", "session_start", "probe_event", "serving"} =>
       Received

(* A step that leaves the probe alone, but for a guest that ends.          *)
LEMMA OnProbed ==
  ASSUME Probing, output' = output, outcome' = outcome, open' \in {open, None},
         acting' \subseteq acting,
         \/ stage' = stage
         \/ stage' \notin {"probed", "report", "hash_module", "hash_policy", "session_start",
                           "probe_event", "serving"}
         \/ /\ stage \in {"hash_module", "hash_policy", "session_start", "probe_event"}
            /\ stage' # "probed"
         \/ stage = "probed" /\ IsListing(output) /\ stage' # "probed"
  PROVE  Probing'
BY DEF Probing, Received, IsListing

LEMMA ProbingStep ==
  ASSUME Probing, [Next]_vars
  PROVE  Probing'
<1>1. CASE Dispatch \/ Flag \/ EndOfFlags
  <2>1. /\ output' = output /\ outcome' = outcome /\ open' \in {open, None} /\ acting' \subseteq acting
        /\ stage' \in {"arguments", "module", "policy", "exit"}
    BY <1>1 DEF Dispatch, Flag, EndOfFlags, Proceed, Quit, Runner!Crash, runner, loaded
  <2>2. QED
    BY <2>1, OnProbed
<1>2. CASE LoadPolicy \/ CheckPolicy \/ OpenAudit \/ LoadModule \/ SpawnPanics \/ Report
  <2>1. /\ output' = output /\ outcome' = outcome /\ open' \in {open, None} /\ acting' \subseteq acting
        /\ stage' \in {"check", "audit", "module", "ready", "exit"}
    BY <1>2 DEF LoadPolicy, CheckPolicy, OpenAudit, LoadModule, SpawnPanics, Report, Proceed, Quit,
                Runner!Crash, runner, loaded
  <2>2. QED
    BY <2>1, OnProbed
<1>3. CASE BeginProbe
  <2>1. /\ stage' = "probing" /\ outcome' = outcome /\ open' = "probe"
        /\ acting' = acting \cup {"probe"}
    BY <1>3 DEF BeginProbe, Runner!Begin
  <2>2. QED
    BY <2>1 DEF Probing, IsListing
<1>4. ASSUME NEW o \in {"received", "timeout"}, NEW out, EndProbe(o, out) PROVE Probing'
  <2>1. /\ stage' = "probed" /\ open # None /\ (open \in acting => o = "timeout")
        /\ outcome' = [outcome EXCEPT ![open] = o] /\ open' = None /\ acting' = acting
        /\ output' = IF o = "timeout" THEN Silent ELSE out
    BY <1>4 DEF EndProbe, Runner!Answer
  <2>2. open = "probe" /\ acting \subseteq {"probe"} /\ outcome \in [{"probe"} -> {"none", "received", "timeout"}]
    BY <2>1 DEF Probing
  <2>3. outcome' \in [{"probe"} -> {"none", "received", "timeout"}] /\ outcome'["probe"] = o
    <3>1. outcome' = [outcome EXCEPT !["probe"] = o] /\ o \in {"none", "received", "timeout"}
      BY <2>1, <2>2
    <3>2. QED
      BY <2>2, <3>1
  <2>4. o = "timeout" => ~ IsListing(output')
    BY <2>1 DEF IsListing, Silent
  <2>5. o = "received" => acting' = {}
    BY <2>1, <2>2
  <2>6. IsListing(output)' => Received'
    BY <2>3, <2>4, <2>5 DEF IsListing, Received
  <2>7. QED
    BY <2>1, <2>2, <2>3, <2>6 DEF Probing
<1>5. CASE ParseProbe
  <2>1. /\ output' = output /\ outcome' = outcome /\ open' \in {open, None} /\ acting' \subseteq acting
        /\ stage = "probed"
        /\ stage' = "exit" \/ (IsListing(output) /\ stage' \in {"report", "hash_module"})
    BY <1>5 DEF ParseProbe, Proceed, Quit, Runner!Crash, runner
  <2>2. QED
    BY <2>1, OnProbed
<1>6. CASE HashModule \/ HashPolicy \/ LogStart \/ LogProbe
  <2>1. /\ output' = output /\ outcome' = outcome /\ open' \in {open, None} /\ acting' \subseteq acting
        /\ stage \in {"hash_module", "hash_policy", "session_start", "probe_event"}
        /\ stage' # "probed"
    BY <1>6 DEF HashModule, HashPolicy, LogStart, LogProbe, Proceed, runner, loaded
  <2>2. QED
    BY <2>1, OnProbed
<1>7. CASE GuestStops
  <2>1. /\ output' = output /\ outcome' = outcome /\ open' \in {open, None} /\ acting' \subseteq acting
        /\ stage' = stage
    BY <1>7 DEF GuestStops, Runner!Stop, loaded
  <2>2. QED
    BY <2>1, OnProbed
<1>8. ASSUME NEW path, NEW content, Replace(path, content) PROVE Probing'
  BY <1>8, OnProbed DEF Replace, loaded, runner
<1>9. CASE Over \/ UNCHANGED vars
  BY <1>9, OnProbed DEF Over, vars, loaded, runner
<1>10. QED
  BY <1>1, <1>2, <1>3, <1>4, <1>5, <1>6, <1>7, <1>8, <1>9 DEF Next, Main

-----------------------------------------------------------------------------
(* The inductive invariant of the types, and of what the probe is made of: *)
(* from the moment it is parsed it is the listing of the guest's output.   *)
OutputTyped(out) ==
  /\ out.answer \in {"none", "no_tools", "tools"}
  /\ out.pages # <<>> /\ out.pages \in Seq(Seq(UNION {ToSet(page) : page \in ToSet(out.pages)}))

Typed ==
  /\ pos \in 2..(Len(args) + 2) /\ status \in 0..2 \cup {101}
  /\ stage \notin {"dispatch", "exit"} => DOMAIN settings \subseteq Valued(Command)
  /\ policy \in GoodPolicies \cup {"none", "vacuum"} /\ compiled \in GoodModules \cup {"none"}
  /\ OutputTyped(output)
  /\ probe.truncated \in BOOLEAN /\ Unnamed \notin ToSet(probe.tools)
  /\ stage \in {"report", "hash_module", "hash_policy", "session_start", "probe_event", "serving"} =>
       probe = Listing(output)

LEMMA SilentTyped == OutputTyped(Silent)
<1>1. ToSet(<<<<>>>>) = {<<>>} /\ ToSet(<<>>) = {}
  BY DEF ToSet
<1>2. UNION {ToSet(page) : page \in ToSet(<<<<>>>>)} = {}
  BY <1>1
<1>3. Silent.answer = "none" /\ Silent.pages = <<<<>>>>
  BY DEF Silent
<1>4. <<<<>>>> \in Seq(Seq({})) /\ <<<<>>>> # <<>>
  OBVIOUS
<1> QED BY <1>2, <1>3, <1>4, Zenon DEF OutputTyped

LEMMA NamedDropsUnnamed ==
  ASSUME NEW S, NEW tools \in Seq(S)
  PROVE  Named(tools) \in Seq(S \ {Unnamed})
<1> DEFINE ss == [i \in 1..Len(tools) |-> IF tools[i] = Unnamed THEN <<>> ELSE <<tools[i]>>]
<1>1. \A i \in 1..Len(tools) : ss[i] \in Seq(S \ {Unnamed})
  <2> SUFFICES ASSUME NEW i \in 1..Len(tools) PROVE ss[i] \in Seq(S \ {Unnamed})
    OBVIOUS
  <2>1. CASE tools[i] = Unnamed
    BY <2>1
  <2>2. CASE tools[i] # Unnamed
    <3>1. tools[i] \in S \ {Unnamed}
      BY <2>2
    <3>2. ss[i] = <<tools[i]>>
      BY <2>2
    <3> HIDE DEF ss
    <3> QED BY <3>1, <3>2
  <2> QED BY <2>1, <2>2
<1>2. ss \in Seq(Seq(S \ {Unnamed}))
  <2>1. ss \in [1..Len(tools) -> Seq(S \ {Unnamed})] /\ Len(tools) \in Nat
    BY <1>1
  <2> HIDE DEF ss
  <2> QED BY <2>1
<1>3. Named(tools) = FlattenSeq(ss)
  <2>1. [i \in DOMAIN tools |-> IF tools[i] = Unnamed THEN <<>> ELSE <<tools[i]>>] = ss
    OBVIOUS
  <2> QED BY <2>1, Zenon DEF Named
<1> HIDE DEF ss
<1> QED BY <1>2, <1>3, FlattenIsSeq

(* What the probe makes of an output has no tool without a name, and when  *)
(* it does not say that it is cut it is what all pages list.               *)
LEMMA ListingTyped ==
  ASSUME NEW out, OutputTyped(out)
  PROVE  /\ Listing(out).truncated \in BOOLEAN
         /\ Unnamed \notin ToSet(Listing(out).tools)
         /\ ~ Listing(out).truncated => Listing(out).tools = Named(FlattenSeq(out.pages))
<1> DEFINE S == UNION {ToSet(page) : page \in ToSet(out.pages)}
<1>1. out.pages \in Seq(Seq(S)) /\ out.pages # <<>>
  BY DEF OutputTyped
<1> HIDE DEF S
<1>2. 1 \in 1..Len(out.pages) /\ out.pages[1] \in Seq(S)
  BY <1>1
<1>3. Listing(out).tools = Named(out.pages[1]) /\ Listing(out).truncated = (Len(out.pages) > 1)
  BY DEF Listing
<1>4. Named(out.pages[1]) \in Seq(S \ {Unnamed})
  BY <1>2, NamedDropsUnnamed
<1>5. Unnamed \notin ToSet(Named(out.pages[1]))
  BY <1>4 DEF ToSet
<1>6. ASSUME ~ (Len(out.pages) > 1) PROVE FlattenSeq(out.pages) = out.pages[1]
  <2>1. PICK n : n = Len(out.pages)
    OBVIOUS
  <2>2. n \in Nat /\ n >= 1 /\ ~ (n > 1)
    BY <1>1, <1>6, <2>1
  <2>3. Len(out.pages) = 1
    <3>1. n = 1
      BY <2>2
    <3> QED BY <2>1, <3>1
  <2> QED BY <1>1, <2>3, FlattenOne
<1>7. CASE Len(out.pages) > 1
  BY <1>3, <1>5, <1>7
<1>8. CASE ~ (Len(out.pages) > 1)
  <2>1. Listing(out).truncated = FALSE
    <3>1. (Len(out.pages) > 1) = FALSE
      BY <1>8
    <3> QED BY <1>3, <3>1, Zenon
  <2>2. Named(FlattenSeq(out.pages)) = Named(out.pages[1])
    BY <1>6, <1>8
  <2> QED BY <1>3, <1>5, <2>1, <2>2
<1> QED BY <1>7, <1>8

LEMMA TypedStep ==
  ASSUME Arguments, Typed, [Next]_vars
  PROVE  Typed'
<1> USE DEF Typed
<1>1. CASE Dispatch
  <2>1. /\ UNCHANGED <<args, pos, settings, policy, compiled, output, probe>>
        /\ DOMAIN settings = {} /\ status' \in 0..2 \cup {101} /\ stage' \in {"arguments", "exit"}
    BY <1>1 DEF Dispatch, Arguments, Proceed, Quit, loaded
  <2> QED BY <2>1
<1>2. CASE Flag
  <2>1. /\ UNCHANGED <<args, policy, compiled, output, probe>> /\ status' \in 0..2 \cup {101}
        /\ stage = "arguments" /\ stage' \in {"arguments", "exit"}
        /\ args \in Seq(STRING) /\ pos <= Len(args)
        /\ \/ pos' = pos /\ settings' = settings
           \/ pos' = pos + 1 /\ settings' = settings
           \/ pos' = pos + 2 /\ args[pos] \in Valued(Command)
              /\ settings' = Set(args[pos], args[pos + 1])
    BY <1>2 DEF Flag, Arguments, Proceed, Quit, loaded
  <2>2. pos' \in 2..(Len(args) + 2)
    BY <2>1
  <2>3. DOMAIN settings' \subseteq Valued(Command) /\ Command' = Command
    BY <2>1 DEF Set, Command
  <2> QED BY <2>1, <2>2, <2>3
<1>3. CASE EndOfFlags \/ CheckPolicy \/ OpenAudit \/ SpawnPanics \/ Report
  <2>1. /\ UNCHANGED <<args, pos, settings, policy, compiled, output, probe>>
        /\ status' \in 0..2 \cup {101} /\ stage # "dispatch" /\ stage # "exit"
        /\ stage' \in {"module", "policy", "exit"}
    BY <1>3 DEF EndOfFlags, CheckPolicy, OpenAudit, SpawnPanics, Report, Proceed, Quit, loaded
  <2> QED BY <2>1 DEF Command
<1>4. CASE LoadPolicy
  <2>1. /\ UNCHANGED <<args, pos, settings, compiled, output, probe>>
        /\ status' \in 0..2 \cup {101} /\ stage = "policy" /\ stage' \in {"check", "audit", "exit"}
        /\ policy' = policy \/ policy' = "vacuum" \/ policy' \in GoodPolicies
    BY <1>4 DEF LoadPolicy, Proceed, Quit
  <2> QED BY <2>1 DEF Command
<1>5. CASE LoadModule
  <2>1. /\ UNCHANGED <<args, pos, settings, policy, output, probe>>
        /\ status' \in 0..2 \cup {101} /\ stage = "module" /\ stage' \in {"ready", "exit"}
        /\ compiled' = compiled \/ compiled' \in GoodModules
    BY <1>5 DEF LoadModule, Proceed, Quit
  <2> QED BY <2>1 DEF Command
<1>6. CASE BeginProbe
  <2>1. /\ UNCHANGED <<args, pos, settings, status, policy, compiled, output, probe>>
        /\ stage = "ready" /\ stage' = "probing"
    BY <1>6 DEF BeginProbe, loaded
  <2> QED BY <2>1 DEF Command
<1>7. ASSUME NEW o \in {"received", "timeout"}, NEW out \in Outputs, EndProbe(o, out) PROVE Typed'
  <2>1. /\ UNCHANGED <<args, pos, settings, status, policy, compiled, probe>>
        /\ stage = "probing" /\ stage' = "probed"
        /\ output' = Silent \/ output' \in Outputs
    BY <1>7 DEF EndProbe
  <2>2. OutputTyped(output')
    BY <2>1, SilentTyped, OutputsAssumption DEF OutputTyped
  <2> QED BY <2>1, <2>2 DEF Command
<1>8. CASE ParseProbe
  <2>1. /\ UNCHANGED <<args, pos, settings, policy, compiled, output>>
        /\ status' \in 0..2 \cup {101} /\ stage = "probed"
        /\ \/ probe' = Listing(output) /\ stage' \in {"report", "hash_module"}
           \/ probe' = probe /\ stage' = "exit"
    BY <1>8 DEF ParseProbe, Proceed, Quit
  <2>2. Listing(output').truncated \in BOOLEAN /\ Unnamed \notin ToSet(Listing(output').tools)
    BY <2>1, ListingTyped
  <2> QED BY <2>1, <2>2 DEF Command
<1>9. CASE HashModule \/ HashPolicy \/ LogStart \/ LogProbe
  <2>1. /\ UNCHANGED <<args, pos, settings, status, policy, compiled, output, probe>>
        /\ stage \in {"hash_module", "hash_policy", "session_start", "probe_event"}
        /\ stage' \in {"hash_policy", "session_start", "probe_event", "serving"}
    BY <1>9 DEF HashModule, HashPolicy, LogStart, LogProbe, Proceed, loaded
  <2> QED BY <2>1 DEF Command
<1>10. CASE UNCHANGED <<args, stage, pos, settings, status, policy, compiled, output, probe>>
  BY <1>10 DEF Command
<1>11. CASE GuestStops
  BY <1>10, <1>11 DEF GuestStops, loaded
<1>12. ASSUME NEW path, NEW content, Replace(path, content) PROVE Typed'
  BY <1>10, <1>12 DEF Replace, loaded
<1>13. CASE Over \/ UNCHANGED vars
  BY <1>10, <1>13 DEF Over, vars, loaded
<1> QED
  BY <1>1, <1>2, <1>3, <1>4, <1>5, <1>6, <1>7, <1>8, <1>9, <1>11, <1>12, <1>13 DEF Next, Main

-----------------------------------------------------------------------------

LEMMA StartupInit ==
  ASSUME Init
  PROVE  Arguments /\ Loading /\ Probing /\ Typed
<1>1. Arguments
  BY ArgumentsAssumption DEF Init, Arguments, Past
<1>2. OnDisk
  BY DisksAssumption DEF Init, OnDisk
<1>3. Loading
  BY <1>2 DEF Init, Loading, PolicyLoaded, ModuleLoaded, Ways, Hashed, Trail, Past
<1>4. Probing
  <2>1. outcome = [c \in {"probe"} |-> "none"] /\ acting = {} /\ open = None /\ stage = "dispatch"
    BY DEF Init, Runner!Init
  <2>2. outcome \in [{"probe"} -> {"none", "received", "timeout"}]
    BY <2>1
  <2>3. QED
    BY <2>1, <2>2 DEF Probing
<1>5. Typed
  <2>1. OutputTyped(output)
    BY SilentTyped DEF Init
  <2>2. pos = 2 /\ Len(args) \in Nat /\ status = 0 /\ stage = "dispatch"
    BY <1>1 DEF Init, Arguments
  <2>3. probe.truncated = FALSE /\ ToSet(probe.tools) = {}
    BY DEF Init, ToSet
  <2> QED BY <2>1, <2>2, <2>3 DEF Init, Typed
<1>6. QED
  BY <1>1, <1>3, <1>4, <1>5

(* The four parts are inductive together: every statement of cmd_run keeps *)
(* them, and so does whoever replaces files.                               *)
THEOREM StartupInvariant == Spec => [](Arguments /\ Loading /\ Probing /\ Typed)
<1>1. Init => Arguments /\ Loading /\ Probing /\ Typed
  BY StartupInit
<1>2. Arguments /\ Loading /\ Probing /\ Typed /\ [Next]_vars
        => (Arguments /\ Loading /\ Probing /\ Typed)'
  BY ArgumentsStep, LoadingStep, ProbingStep, TypedStep
<1>3. QED
  BY <1>1, <1>2, PTL DEF Spec

(* The start-up uses its Runner as the contract has it, for one call, the  *)
(* probe, and ends every guest when it quits.                              *)
THEOREM StartupUsesToolCall == Spec => Runner!Spec
<1>1. Init => Runner!Init
  BY DEF Init
<1>2. [Next]_vars => [Runner!Next]_(Runner!vars)
  <2> SUFFICES ASSUME [Next]_vars PROVE Runner!Next \/ UNCHANGED Runner!vars
    OBVIOUS
  <2>1. ASSUME NEW n, Proceed(n) PROVE UNCHANGED Runner!vars
    BY <2>1 DEF Proceed, runner, Runner!vars
  <2>2. ASSUME NEW n, Quit(n) PROVE Runner!Next
    BY <2>2 DEF Quit, Runner!Next
  <2>3. CASE Dispatch \/ Flag \/ EndOfFlags
    BY <2>1, <2>2, <2>3 DEF Dispatch, Flag, EndOfFlags, runner, Runner!vars
  <2>4. CASE \/ LoadPolicy \/ CheckPolicy \/ OpenAudit \/ LoadModule
             \/ SpawnPanics \/ ParseProbe \/ Report
    BY <2>1, <2>2, <2>4 DEF LoadPolicy, CheckPolicy, OpenAudit, LoadModule, SpawnPanics,
                            ParseProbe, Report
  <2>5. CASE HashModule \/ HashPolicy \/ LogStart \/ LogProbe
    BY <2>1, <2>5 DEF HashModule, HashPolicy, LogStart, LogProbe
  <2>6. CASE BeginProbe \/ GuestStops
    BY <2>6 DEF BeginProbe, GuestStops, Runner!Next
  <2>7. ASSUME NEW o \in {"received", "timeout"}, NEW out, EndProbe(o, out) PROVE Runner!Next
    BY <2>7 DEF EndProbe, Runner!Next
  <2>8. ASSUME NEW path, NEW content, Replace(path, content) PROVE UNCHANGED Runner!vars
    BY <2>8 DEF Replace, runner, Runner!vars
  <2>9. CASE Over \/ UNCHANGED vars
    BY <2>9 DEF Over, vars, runner, Runner!vars
  <2> QED BY <2>3, <2>4, <2>5, <2>6, <2>7, <2>8, <2>9 DEF Next, Main
<1> QED BY <1>1, <1>2, PTL DEF Spec, Runner!Spec

(* The setting of a flag is the value behind its last occurrence.          *)
LEMMA LastGiven ==
  ASSUME args \in Seq(STRING), Parsed, pos = Len(args) + 1, NEW f \in Valued(Command)
  PROVE  /\ (f \in DOMAIN settings) = (Given(f) # {})
         /\ f \in DOMAIN settings => settings[f] = args[Max(Given(f)) + 1]
<1>1. LastSet(f) /\ Given(f) = {i \in 2..(pos - 1) : args[i] = f}
  BY DEF Parsed, Given
<1>2. CASE f \in DOMAIN settings
  <2>1. PICK i \in 2..(pos - 1) : /\ args[i] = f /\ settings[f] = args[i + 1]
                                 /\ \A j \in 2..(pos - 1) : args[j] = f => j <= i
    BY <1>1, <1>2 DEF LastSet
  <2>2. i \in Given(f) /\ (\A j \in Given(f) : i >= j) /\ Given(f) \subseteq Nat
    BY <1>1, <2>1 DEF Given
  <2> DEFINE Greatest(x) == x \in Given(f) /\ \A j \in Given(f) : x >= j
  <2>3. Greatest(i)
    BY <2>2
  <2>4. Max(Given(f)) = CHOOSE x : Greatest(x)
    BY Zenon DEF Max
  <2> HIDE DEF Greatest
  <2>5. Greatest(Max(Given(f)))
    BY <2>3, <2>4, Zenon
  <2>6. Max(Given(f)) \in Given(f) /\ Max(Given(f)) >= i
    BY <2>2, <2>5 DEF Greatest
  <2>7. i >= Max(Given(f)) /\ Max(Given(f)) \in Nat /\ i \in Nat
    BY <2>2, <2>6
  <2>8. Max(Given(f)) = i
    BY <2>6, <2>7
  <2>9. QED
    BY <1>2, <2>1, <2>2, <2>8
<1>3. CASE f \notin DOMAIN settings
  <2>1. Given(f) = {}
    BY <1>1, <1>3 DEF LastSet
  <2>2. QED
    BY <1>3, <2>1
<1>4. QED
  BY <1>2, <1>3

(* Who is past the parser had a well-formed line, the last value of each   *)
(* flag is in force, and nobody who gave --policy is served under the      *)
(* vacuum.                                                                 *)
LEMMA InForce ==
  ASSUME Arguments, Loading
  PROVE  ArgumentsInForce
<1>1. ASSUME stage \notin {"dispatch", "arguments", "exit"}
      PROVE  /\ WellFormed /\ Started /\ args \in Seq(STRING) /\ Parsed /\ pos = Len(args) + 1
  BY <1>1, AllRead DEF Arguments
<1>2. ASSUME stage \notin {"dispatch", "arguments", "exit"}, NEW f \in Valued(Command)
      PROVE  /\ (f \in DOMAIN settings) = (Given(f) # {})
             /\ f \in DOMAIN settings => settings[f] = args[Max(Given(f)) + 1]
  BY <1>1, <1>2, LastGiven
<1>3. stage = "exit" /\ args # <<>> /\ Command \in Commands /\ status # 2 => WellFormed
  BY DEF Arguments, Started
<1>4. ASSUME stage = "serving" PROVE (policy = "vacuum") = (Given("--policy") = {})
  <2>1. Command \in Commands /\ Command # "inspect" /\ stage \in Past \ {"policy"}
    BY <1>1, <1>4 DEF Started, Loading, Ways, Past
  <2>2. "--policy" \in Valued(Command)
    BY <2>1 DEF Commands, Valued
  <2>3. ("--policy" \in DOMAIN settings) = (Given("--policy") # {})
    BY <1>2, <1>4, <2>2
  <2>4. IF "--policy" \in DOMAIN settings THEN policy \in GoodPolicies ELSE policy = "vacuum"
    BY <2>1 DEF Loading, PolicyLoaded
  <2>5. "vacuum" \notin GoodPolicies
    BY FilesAssumption
  <2>6. QED
    BY <2>3, <2>4, <2>5
<1>5. QED
  BY <1>1, <1>2, <1>3, <1>4 DEF ArgumentsInForce

(* Only the argument parser leaves the first two stages. *)
LEMMA OnlyParser ==
  ASSUME Next, stage \in {"dispatch", "arguments"}, stage' = "exit"
  PROVE  IF stage = "dispatch" THEN Dispatch ELSE Flag \/ EndOfFlags
<1>1. ~ (LoadPolicy \/ CheckPolicy \/ OpenAudit \/ LoadModule)
  BY DEF LoadPolicy, CheckPolicy, OpenAudit, LoadModule
<1>2. ~ (BeginProbe \/ SpawnPanics \/ ParseProbe \/ Report)
  BY DEF BeginProbe, SpawnPanics, ParseProbe, Report
<1>3. ~ (HashModule \/ HashPolicy \/ LogStart \/ LogProbe)
  BY DEF HashModule, HashPolicy, LogStart, LogProbe
<1>4. ~ (GuestStops \/ Over)
  BY DEF GuestStops, Over
<1>5. \A o, out : ~ EndProbe(o, out)
  BY DEF EndProbe
<1>6. \A path, content : ~ Replace(path, content)
  BY DEF Replace
<1>7. Dispatch \/ Flag \/ EndOfFlags
  BY <1>1, <1>2, <1>3, <1>4, <1>5, <1>6 DEF Next, Main
<1>8. QED
  BY <1>7 DEF Dispatch, Flag, EndOfFlags

(* A command line is taken exactly when it is well formed, and then the    *)
(* last value of each flag is in force.                                    *)
THEOREM ArgumentsRead == Spec => ArgumentsAreRead
<1>1. ASSUME Arguments, Next, stage = "arguments", stage' = "exit"
      PROVE  ~ WellFormed
  <2>1. args \in Seq(STRING) /\ Started /\ Parsed
    BY <1>1 DEF Arguments
  <2>2. Flag \/ EndOfFlags
    BY <1>1, OnlyParser
  <2>3. CASE Flag
    BY <1>1, <2>1, <2>3, TurnedAway DEF Flag, Proceed, Quit
  <2>4. CASE EndOfFlags
    BY <1>1, <2>1, <2>4, TurnedAway DEF EndOfFlags, Proceed, Commands
  <2>5. QED
    BY <2>2, <2>3, <2>4
<1>2. ASSUME Next, stage = "dispatch", stage' = "exit"
      PROVE  args = <<>> \/ Command \notin Commands
  BY <1>2, OnlyParser DEF Dispatch, Proceed, Commands
<1>3. QED
  BY <1>1, <1>2, InForce, StartupInvariant, PTL DEF Spec, ArgumentsAreRead

(* What session_start says of the module and the policy is what runs, as   *)
(* long as nobody replaces a file after it was loaded.                     *)
THEOREM HashesHold == Spec => []HashesUnlessReplaced
<1>1. ASSUME Loading PROVE HashesUnlessReplaced
  <2>1. ASSUME NEW i \in StartEvents
        PROVE  stage \in {"probe_event", "serving"} /\ trail[i].data = hashes
    BY <1>1 DEF StartEvents, Loading, Trail
  <2>2. QED
    BY <1>1, <2>1 DEF HashesUnlessReplaced, Loading, Hashed
<1>2. QED
  BY <1>1, StartupInvariant, PTL

(* No client is served while the guest of the probe may still be running,  *)
(* nor on the word of a probe that was given up.                           *)
THEOREM ProbesOver == Spec => []ProbesAreOver
<1>1. Probing => ProbesAreOver
  BY DEF Probing, Received, ProbesAreOver
<1>2. QED
  BY <1>1, StartupInvariant, PTL

(* Start-up is in one of its stages with settings its command takes, an    *)
(* exit status of 0 to 2, what its loaders accept, and a probe whose tools *)
(* all have a name.                                                        *)
THEOREM StartupTypes == Spec => []TypeOK
<1>1. Arguments /\ Probing /\ Typed => TypeOK
  BY DEF Arguments, Probing, Typed, TypeOK, Past
<1>2. QED
  BY <1>1, StartupInvariant, PTL

(* The trail has the named tools of the guest's first page, is marked as   *)
(* truncated exactly when there are more pages, and otherwise has every    *)
(* named tool the guest lists, in order.                                   *)
THEOREM ListingsHonest == Spec => []ListingsAreHonest
<1>1. ASSUME Loading, Typed PROVE ListingsAreHonest
  <2> SUFFICES ASSUME NEW i \in DOMAIN trail, trail[i].event = "probe"
               PROVE  LET said == trail[i].data IN
                      /\ said.tools = Named(output.pages[1])
                      /\ said.truncated = (Len(output.pages) > 1)
                      /\ ~ said.truncated => said.tools = Named(FlattenSeq(output.pages))
    BY DEF ListingsAreHonest
  <2>1. stage = "serving" /\ trail[i].data = probe
    BY <1>1 DEF Loading, Trail
  <2>2. probe = Listing(output) /\ OutputTyped(output)
    BY <1>1, <2>1 DEF Typed
  <2>3. probe.tools = Named(output.pages[1]) /\ probe.truncated = (Len(output.pages) > 1)
    BY <2>2 DEF Listing
  <2>4. ~ probe.truncated => probe.tools = Named(FlattenSeq(output.pages))
    BY <2>2, ListingTyped
  <2> QED BY <2>1, <2>3, <2>4
<1>2. QED
  BY <1>1, StartupInvariant, PTL
=============================================================================
