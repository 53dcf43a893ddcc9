------------------------------- MODULE Policy -------------------------------
(***************************************************************************)
(* How src/src/policy.rs turns a policy file into the grants of the tools: *)
(* Policy::from_yaml_str, build_grant with its validations, and decide().  *)
(*                                                                         *)
(* A section of the file is three maps (limits, env, fs) that hold what is *)
(* written there and nothing else. Paths, hosts and keys are values of     *)
(* which only the form the code tests is known.                            *)
(***************************************************************************)
EXTENDS Integers, Sequences, FiniteSetsExt

CONSTANTS
  Files,     \* the policy files: what serde makes of their YAML
  NoFile,    \* toolcage was run without --policy
  BadFile,   \* a file that cannot be read, or YAML that serde refuses
  Names,     \* the names of tools
  Hosts,     \* the host directories of mounts
  PathForm,  \* guest paths: "relative", "root", "dotdot" or "plain"
  HostForm,  \* host directories: "empty", "relative" or "absolute"
  KeyForm,   \* env names: "empty", "equals" or "plain"
  NameForm   \* tools: "empty" or "plain"

Fields == {"timeout_ms", "fuel", "memory_max_mb", "output_max_kb"}

(* A map from some of K into V. *)
IsMap(m, K, V) == m \in [DOMAIN m -> V] /\ DOMAIN m \subseteq K

IsSection(s) ==
  /\ IsMap(s.limits, Fields, Nat)
  /\ IsMap(s.env, DOMAIN KeyForm, STRING)
  /\ IsMap(s.fs, DOMAIN PathForm, [host: Hosts, mode: STRING])

(* An entry without a body is null; a file without unlisted_tools has      *)
(* "none" there.                                                           *)
IsRawPolicy(f) ==
  /\ f.version \in Nat /\ f.unlisted \in STRING /\ IsSection(f.defaults)
  /\ IsMap(f.tools, Names, {f.tools[n] : n \in DOMAIN f.tools})
  /\ \A n \in DOMAIN f.tools :
       /\ f.tools[n].null \in BOOLEAN /\ f.tools[n].deny \in BOOLEAN
       /\ IsSection(f.tools[n].grants)

ASSUME FilesAssumption ==
  /\ \A f \in Files : IsRawPolicy(f)
  /\ NoFile \notin Files
  /\ BadFile \notin Files \cup {NoFile}
ASSUME FormsAssumption ==
  /\ HostForm \in [Hosts -> {"empty", "relative", "absolute"}]
  /\ PathForm \in [DOMAIN PathForm -> {"relative", "root", "dotdot", "plain"}]
  /\ KeyForm \in [DOMAIN KeyForm -> {"empty", "equals", "plain"}]
  /\ NameForm \in [Names -> {"empty", "plain"}]

VARIABLES
  file,      \* the file the process is run with
  stage,     \* how far from_yaml_str has come
  unlisted,  \* Policy.unlisted
  defaults,  \* Policy.defaults
  rules      \* Policy.tools, as far as it is built

vars == <<file, stage, unlisted, defaults, rules>>

-----------------------------------------------------------------------------
(* Grants. *)

Empty == [k \in {} |-> {}]

DefaultLimits ==
  [timeout_ms |-> 30000, fuel |-> 2000000000, memory_max_mb |-> 256, output_max_kb |-> 4096]

Smallest == [timeout_ms |-> 1, fuel |-> 1000, memory_max_mb |-> 1, output_max_kb |-> 1]

(* There is no largest fuel. *)
Largest == [timeout_ms |-> 600000, memory_max_mb |-> 4096, output_max_kb |-> 1048576]

Capped == Fields \ {"fuel"}

DefaultGrant == [limits |-> DefaultLimits, env |-> Empty, mounts |-> Empty]

(* Mutant: the map below wins. *)
MergeUnder(base, over) ==
  [k \in DOMAIN base \cup DOMAIN over |-> IF k \in DOMAIN base THEN base[k] ELSE over[k]]

(* Key by key, with the second map winning. *)
Merge(base, over) ==
  [k \in DOMAIN base \cup DOMAIN over |-> IF k \in DOMAIN over THEN over[k] ELSE base[k]]

(* Mutant: the largest values themselves are refused. *)
LimitsBelow(l) ==
  /\ \A f \in Fields : l[f] >= Smallest[f]
  /\ \A f \in Capped : l[f] < Largest[f]

ValidLimits(l) ==
  /\ \A f \in Fields : l[f] >= Smallest[f]
  /\ \A f \in Capped : l[f] <= Largest[f]

ValidEnv(env) == \A k \in DOMAIN env : KeyForm[k] = "plain"

(* Mutant: any mode is taken. *)
ValidMountAnyMode(path, raw) == PathForm[path] = "plain" /\ HostForm[raw.host] # "empty"

ValidMount(path, raw) ==
  /\ PathForm[path] = "plain"
  /\ HostForm[raw.host] # "empty"
  /\ raw.mode \in {"ro", "rw"}

ValidFs(fs) == \A path \in DOMAIN fs : ValidMount(path, fs[path])

(* A relative host directory is taken from where the policy file is. *)
BuildMount(raw) ==
  [host |-> raw.host, mode |-> raw.mode,
   from |-> IF HostForm[raw.host] = "absolute" THEN "/" ELSE "base_dir"]

(* Mutant: the limits written in the section are not looked at. *)
BuildableOnBase(base, raw) == ValidLimits(base.limits) /\ ValidEnv(raw.env) /\ ValidFs(raw.fs)

(* build_grant: what is written in a section over what is already granted. *)
Buildable(base, raw) ==
  ValidLimits(Merge(base.limits, raw.limits)) /\ ValidEnv(raw.env) /\ ValidFs(raw.fs)

BuildGrant(base, raw) ==
  [limits |-> Merge(base.limits, raw.limits),
   env    |-> Merge(base.env, raw.env),
   mounts |-> Merge(base.mounts, [path \in DOMAIN raw.fs |-> BuildMount(raw.fs[path])])]

Deny(listed) ==
  [decision |-> IF listed THEN "deny_policy" ELSE "deny_unlisted", grant |-> DefaultGrant]

Allow(grant) == [decision |-> "allow", grant |-> grant]

Decide(name) ==
  IF name \in DOMAIN rules THEN rules[name]
  ELSE IF unlisted = "defaults" THEN Allow(defaults) ELSE Deny(FALSE)

-----------------------------------------------------------------------------
(* Loading. *)

IsWritten(s) == DOMAIN s.limits \cup DOMAIN s.env \cup DOMAIN s.fs # {}

Reject == stage' = "rejected" /\ UNCHANGED <<file, unlisted, defaults, rules>>

(* permissive_vacuum. *)
Vacuum ==
  /\ stage = "start"
  /\ file = NoFile
  /\ stage' = "loaded"
  /\ unlisted' = "defaults"
  /\ UNCHANGED <<file, defaults, rules>>

ReadHeader ==
  /\ stage = "start"
  /\ file # NoFile
  /\ IF file # BadFile /\ file.version = 1 /\ file.unlisted \in {"none", "deny", "defaults"}
       THEN /\ stage' = "defaults"
            /\ unlisted' = IF file.unlisted = "none" THEN "deny" ELSE file.unlisted
            /\ UNCHANGED <<file, defaults, rules>>
       ELSE Reject

BuildDefaults ==
  /\ stage = "defaults"
  /\ IF Buildable(DefaultGrant, file.defaults)
       THEN /\ stage' = "tools"
            /\ defaults' = BuildGrant(DefaultGrant, file.defaults)
            /\ UNCHANGED <<file, unlisted, rules>>
       ELSE Reject

(* The rule an entry stands for, and whether it stands for any. *)
Acceptable(name, entry) ==
  /\ NameForm[name] # "empty"
  /\ \/ entry.null
     \/ ~ entry.null /\ entry.deny /\ ~ IsWritten(entry.grants)
     \/ ~ entry.null /\ ~ entry.deny /\ Buildable(defaults, entry.grants)

Rule(entry) ==
  IF entry.null THEN Allow(defaults)
  ELSE IF entry.deny THEN Deny(TRUE) ELSE Allow(BuildGrant(defaults, entry.grants))

(* The entries come in the order of their names, which is left open here.  *)
BuildTool(name) ==
  /\ stage = "tools"
  /\ name \in DOMAIN file.tools \ DOMAIN rules
  /\ IF Acceptable(name, file.tools[name])
       THEN /\ rules' = Merge(rules, [n \in {name} |-> Rule(file.tools[name])])
            /\ UNCHANGED <<file, stage, unlisted, defaults>>
       ELSE Reject

Loaded ==
  /\ stage = "tools"
  /\ DOMAIN rules = DOMAIN file.tools
  /\ stage' = "loaded"
  /\ UNCHANGED <<file, unlisted, defaults, rules>>

Settled == stage \in {"loaded", "rejected"} /\ UNCHANGED vars

Init ==
  /\ file \in Files \cup {NoFile, BadFile}
  /\ stage = "start"
  /\ unlisted = "deny"
  /\ defaults = DefaultGrant
  /\ rules = Empty

Next ==
  \/ Vacuum
  \/ ReadHeader
  \/ BuildDefaults
  \/ \E name \in Names : BuildTool(name)
  \/ Loaded
  \/ Settled

Spec == Init /\ [][Next]_vars

-----------------------------------------------------------------------------
(* Properties. *)

PlainKeys == {k \in DOMAIN KeyForm : KeyForm[k] = "plain"}
PlainPaths == {p \in DOMAIN PathForm : PathForm[p] = "plain"}
Mounts ==
  [host: {h \in Hosts : HostForm[h] # "empty"}, mode: {"ro", "rw"}, from: {"/", "base_dir"}]

(* Every grant the server can hand to a call has its limits in the range   *)
(* the sandbox counts on, and names only plain env keys and mounts, though *)
(* the file's sections are validated one by one and merged afterwards.     *)
ValidGrant(g) ==
  /\ g.limits \in [Fields -> Nat]
  /\ ValidLimits(g.limits)
  /\ IsMap(g.env, PlainKeys, STRING)
  /\ IsMap(g.mounts, PlainPaths, Mounts)

GrantsAreValid ==
  stage = "loaded" => \A n \in Names : ValidGrant(Decide(n).grant)

(* The reference: what the sections of the file say, layer over layer.     *)
Said(layers, k) == layers[Min({i \in DOMAIN layers : k \in DOMAIN layers[i]})][k]

SaysAll(map, layers) ==
  /\ DOMAIN map = UNION {DOMAIN layers[i] : i \in DOMAIN layers}
  /\ \A k \in DOMAIN map : map[k] = Said(layers, k)

Modes(layers) == [i \in DOMAIN layers |-> [p \in DOMAIN layers[i] |-> layers[i][p].mode]]

Sources(name) ==
  IF name \in DOMAIN file.tools /\ ~ file.tools[name].null
    THEN <<file.tools[name].grants, file.defaults>> ELSE <<file.defaults>>

Runs(name) ==
  IF name \in DOMAIN file.tools THEN file.tools[name].null \/ ~ file.tools[name].deny
  ELSE file.unlisted = "defaults"

(* "A tool entry overrides defaults per field; env and fs are merged       *)
(* key-by-key with the tool entry winning": a tool runs exactly when its   *)
(* entry, or unlisted_tools if it has none, lets it, and its grant is what *)
(* its entry, then the defaults section, then the built-in defaults say,   *)
(* with no capability that neither section names.                          *)
GrantsFollowTheFile ==
  stage = "loaded" /\ file # NoFile =>
    \A n \in Names :
      /\ (Decide(n).decision = "allow") = Runs(n)
      /\ Runs(n) =>
           LET g == Decide(n).grant
               s == Sources(n)
               fs == [i \in DOMAIN s |-> s[i].fs]
           IN  /\ SaysAll(g.limits, [i \in DOMAIN s |-> s[i].limits] \o <<DefaultLimits>>)
               /\ SaysAll(g.env, [i \in DOMAIN s |-> s[i].env])
               /\ SaysAll([p \in DOMAIN g.mounts |-> g.mounts[p].mode], Modes(fs))
               /\ \A p \in DOMAIN g.mounts : g.mounts[p].host = Said(fs, p).host

(* The reference: nothing that is written anywhere in the file is bad.     *)
SectionOk(s) ==
  /\ \A f \in DOMAIN s.limits : s.limits[f] >= Smallest[f] /\ (f \in Capped => s.limits[f] <= Largest[f])
  /\ ValidEnv(s.env)
  /\ ValidFs(s.fs)

WellFormed ==
  /\ file # BadFile
  /\ file # NoFile =>
       /\ file.version = 1
       /\ file.unlisted \in {"none", "deny", "defaults"}
       /\ SectionOk(file.defaults)
       /\ \A n \in DOMAIN file.tools :
            /\ NameForm[n] = "plain"
            /\ file.tools[n].null \/ IF file.tools[n].deny THEN ~ IsWritten(file.tools[n].grants)
                                     ELSE SectionOk(file.tools[n].grants)

(* A file is accepted exactly when no part of it is bad, a part that no    *)
(* tool would use included: limits are judged after merging, env and       *)
(* mounts before, and each tool by itself.                                 *)
FilesAreJudged == (stage = "loaded" => WellFormed) /\ (stage = "rejected" => ~ WellFormed)

TypeOK ==
  /\ stage \in {"start", "defaults", "tools", "loaded", "rejected"}
  /\ stage \in {"defaults", "tools"} => file \notin {NoFile, BadFile}
  /\ unlisted \in {"deny", "defaults"}
  /\ ValidGrant(defaults)
  /\ DOMAIN rules \subseteq Names
  /\ \A n \in DOMAIN rules : rules[n].decision \in {"allow", "deny_policy"}
=============================================================================
