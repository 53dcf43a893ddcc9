---------------------------- MODULE PolicyProofs ----------------------------
(***************************************************************************)
(* For any policy files: which are accepted, that grants are valid, and    *)
(* that they say what the layers of the file say. And, for any number of   *)
(* changes of the host directories, what the exit status of `toolcage      *)
(* check` says of the calls that follow.                                   *)
(***************************************************************************)
EXTENDS Check, SequenceTheorems, FiniteSetTheorems, TLAPS

(* Merging keeps maps maps: its keys and values are those of its parts.    *)
LEMMA MergeIsMap ==
  ASSUME NEW K, NEW V, NEW base, NEW over, IsMap(base, K, V), IsMap(over, K, V)
  PROVE  IsMap(Merge(base, over), K, V)
BY DEF IsMap, Merge

(* A complete map stays complete. *)
LEMMA MergeIsTotal ==
  ASSUME NEW K, NEW V, NEW base \in [K -> V], NEW over, IsMap(over, K, V)
  PROVE  Merge(base, over) \in [K -> V]
BY DEF IsMap, Merge

(* The built-in defaults are within the bounds they are checked against.   *)
LEMMA DefaultIsValid == ValidGrant(DefaultGrant)
<1> USE DEF DefaultGrant, Fields, Capped
<1>1. DefaultLimits \in [Fields -> Nat] /\ ValidLimits(DefaultLimits)
  BY DEF DefaultLimits, ValidLimits, Smallest, Largest
<1>2. IsMap(Empty, PlainKeys, STRING) /\ IsMap(Empty, PlainPaths, Mounts)
  BY DEF IsMap, Empty
<1>3. QED
  BY <1>1, <1>2 DEF ValidGrant

(* What a section says may be built over a valid grant gives a valid grant. *)
LEMMA BuildIsValid ==
  ASSUME NEW base, ValidGrant(base), NEW raw, IsSection(raw), Buildable(base, raw)
  PROVE  ValidGrant(BuildGrant(base, raw))
<1> DEFINE built == [path \in DOMAIN raw.fs |-> BuildMount(raw.fs[path])]
<1>1. Merge(base.limits, raw.limits) \in [Fields -> Nat]
  BY MergeIsTotal DEF ValidGrant, IsSection
<1>2. IsMap(Merge(base.env, raw.env), PlainKeys, STRING)
  <2>1. IsMap(raw.env, PlainKeys, STRING)
    BY DEF IsMap, IsSection, Buildable, ValidEnv, PlainKeys
  <2>2. QED
    BY <2>1, MergeIsMap DEF ValidGrant
<1>3. IsMap(Merge(base.mounts, built), PlainPaths, Mounts)
  <2>1. ASSUME NEW p \in DOMAIN raw.fs
        PROVE  p \in PlainPaths /\ BuildMount(raw.fs[p]) \in Mounts
    BY FormsAssumption
       DEF IsMap, IsSection, Buildable, ValidFs, ValidMount, PlainPaths, BuildMount, Mounts
  <2>2. IsMap(built, PlainPaths, Mounts)
    BY <2>1 DEF IsMap
  <2>3. QED
    BY <2>2, MergeIsMap DEF ValidGrant
<1>4. QED
  BY <1>1, <1>2, <1>3 DEF BuildGrant, ValidGrant, Buildable

(* Over a valid grant a section may be built exactly when nothing that is   *)
(* written in it is bad: what it leaves out was judged before.             *)
LEMMA BuildableIsOk ==
  ASSUME NEW base, ValidGrant(base), NEW raw, IsSection(raw)
  PROVE  Buildable(base, raw) <=> SectionOk(raw)
<1> DEFINE merged == Merge(base.limits, raw.limits)
<1>1. /\ base.limits \in [Fields -> Nat] /\ ValidLimits(base.limits)
      /\ DOMAIN raw.limits \subseteq Fields
  BY DEF ValidGrant, IsSection, IsMap
<1>2. \A f \in Fields : merged[f] = IF f \in DOMAIN raw.limits THEN raw.limits[f] ELSE base.limits[f]
  BY <1>1 DEF Merge
<1>3. Capped \subseteq Fields
  BY DEF Capped
<1> HIDE DEF merged
<1>4. ValidLimits(merged) <=>
        \A f \in DOMAIN raw.limits :
          raw.limits[f] >= Smallest[f] /\ (f \in Capped => raw.limits[f] <= Largest[f])
  BY <1>1, <1>2, <1>3, Zenon DEF ValidLimits
<1>5. QED
  BY <1>4 DEF Buildable, SectionOk, merged

(* The parts of a well-formed file, in the order the code judges them.     *)
HeaderOk == file.version = 1 /\ file.unlisted \in {"none", "deny", "defaults"}

EntryOk(name) ==
  /\ NameForm[name] = "plain"
  /\ file.tools[name].null \/ IF file.tools[name].deny THEN ~ IsWritten(file.tools[name].grants)
                              ELSE SectionOk(file.tools[name].grants)

LEMMA WellFormedParts ==
  ASSUME file \in Files
  PROVE  WellFormed <=> /\ HeaderOk /\ SectionOk(file.defaults)
                        /\ \A n \in DOMAIN file.tools : EntryOk(n)
BY FilesAssumption DEF WellFormed, HeaderOk, EntryOk

LEMMA AcceptableIsOk ==
  ASSUME file \in Files, NEW name \in DOMAIN file.tools, ValidGrant(defaults)
  PROVE  Acceptable(name, file.tools[name]) <=> EntryOk(name)
<1>1. /\ name \in Names
      /\ file.tools[name].null \in BOOLEAN /\ file.tools[name].deny \in BOOLEAN
      /\ IsSection(file.tools[name].grants)
  BY FilesAssumption DEF IsRawPolicy, IsMap
<1>2. (NameForm[name] # "empty") <=> (NameForm[name] = "plain")
  BY <1>1, FormsAssumption
<1>3. Buildable(defaults, file.tools[name].grants) <=> SectionOk(file.tools[name].grants)
  BY <1>1, BuildableIsOk
<1>4. QED
  BY <1>1, <1>2, <1>3 DEF Acceptable, EntryOk

(* The inductive invariant. The grants built so far are valid; what has    *)
(* been passed was good and a rejected file has a bad part; and what is    *)
(* built is what the sections passed so far build, the defaults being      *)
(* settled before the first entry is built over them.                      *)
Granted ==
  /\ ValidGrant(defaults)
  /\ DOMAIN rules \subseteq Names
  /\ \A n \in DOMAIN rules : /\ ValidGrant(rules[n].grant)
                             /\ rules[n].decision \in {"allow", "deny_policy"}

Judged ==
  /\ file \in Files \cup {NoFile, BadFile}
  /\ stage \in {"start", "defaults", "tools", "loaded", "rejected"}
  /\ stage \in {"defaults", "tools"} => file \in Files
  /\ stage = "loaded" => file \in Files \cup {NoFile}
  /\ file \in Files =>
       /\ stage \in {"defaults", "tools", "loaded"} => HeaderOk
       /\ stage \in {"tools", "loaded"} => SectionOk(file.defaults)
       /\ stage = "loaded" => DOMAIN rules = DOMAIN file.tools
  /\ \A n \in DOMAIN rules : file \in Files /\ n \in DOMAIN file.tools /\ EntryOk(n)
  /\ stage = "rejected" => ~ WellFormed

Built ==
  /\ unlisted \in {"deny", "defaults"}
  /\ stage \in {"start", "defaults"} => DOMAIN rules = {}
  /\ file \in Files =>
       /\ stage \in {"defaults", "tools", "loaded"} =>
            unlisted = IF file.unlisted = "none" THEN "deny" ELSE file.unlisted
       /\ stage \in {"tools", "loaded"} => defaults = BuildGrant(DefaultGrant, file.defaults)
       /\ \A n \in DOMAIN rules : rules[n] = Rule(file.tools[n])

PolicyInv == Granted /\ Judged /\ Built

(* A bad part of the file is enough to reject it. *)
LEMMA RejectIsSound ==
  ASSUME PolicyInv, Reject, ~ WellFormed
  PROVE  PolicyInv'
<1>1. /\ stage' = "rejected" /\ file' = file /\ unlisted' = unlisted
      /\ defaults' = defaults /\ rules' = rules
  BY DEF Reject
<1>2. Granted'
  BY <1>1 DEF PolicyInv, Granted
<1>3. (~ WellFormed)' /\ (\A n \in DOMAIN rules : EntryOk(n))'
  BY <1>1 DEF PolicyInv, Judged, WellFormed, EntryOk
<1>4. Judged'
  BY <1>1, <1>3 DEF PolicyInv, Judged
<1>5. Built'
  BY <1>1 DEF PolicyInv, Built, Rule
<1>6. QED
  BY <1>2, <1>4, <1>5 DEF PolicyInv

LEMMA PolicyStep ==
  ASSUME PolicyInv, [Next]_vars
  PROVE  PolicyInv'
<1> USE DEF PolicyInv
<1>1. CASE Vacuum
  <2>1. file' = NoFile /\ stage' = "loaded" /\ unlisted' = "defaults"
        /\ defaults' = defaults /\ rules' = rules /\ DOMAIN rules = {} /\ NoFile \notin Files
    BY <1>1, FilesAssumption DEF Vacuum, Built
  <2>2. QED
    BY <2>1 DEF Granted, Judged, Built
<1>2. CASE ReadHeader
  <2>1. DOMAIN rules = {} /\ file \in Files \cup {BadFile} /\ BadFile \notin Files
    BY <1>2, FilesAssumption DEF ReadHeader, Built, Judged
  <2>2. CASE file # BadFile /\ HeaderOk
    <3>1. /\ stage' = "defaults" /\ unlisted' = IF file.unlisted = "none" THEN "deny" ELSE file.unlisted
          /\ file' = file /\ defaults' = defaults /\ rules' = rules /\ file.unlisted \in {"none", "deny", "defaults"}
      BY <1>2, <2>2 DEF ReadHeader, HeaderOk
    <3>2. HeaderOk'
      BY <2>2, <3>1 DEF HeaderOk
    <3>3. QED
      BY <2>1, <2>2, <3>1, <3>2 DEF Granted, Judged, Built
  <2>3. CASE ~ (file # BadFile /\ HeaderOk)
    <3>1. Reject
      BY <1>2, <2>3 DEF ReadHeader, HeaderOk
    <3>2. ~ WellFormed
      BY <2>1, <2>3, WellFormedParts DEF WellFormed
    <3>3. QED
      BY <3>1, <3>2, RejectIsSound
  <2>4. QED
    BY <2>2, <2>3
<1>3. CASE BuildDefaults
  <2>1. /\ file \in Files /\ IsSection(file.defaults) /\ DOMAIN rules = {}
        /\ Buildable(DefaultGrant, file.defaults) <=> SectionOk(file.defaults)
    BY <1>3, FilesAssumption, DefaultIsValid, BuildableIsOk
       DEF BuildDefaults, IsRawPolicy, Judged, Built
  <2>2. CASE Buildable(DefaultGrant, file.defaults)
    <3>1. ValidGrant(BuildGrant(DefaultGrant, file.defaults))
      BY <2>1, <2>2, DefaultIsValid, BuildIsValid
    <3>2. /\ stage = "defaults" /\ stage' = "tools" /\ defaults' = BuildGrant(DefaultGrant, file.defaults)
          /\ file' = file /\ unlisted' = unlisted /\ rules' = rules
      BY <1>3, <2>2 DEF BuildDefaults
    <3>3. Granted'
      BY <3>1, <3>2 DEF Granted
    <3>4. HeaderOk' /\ SectionOk(file.defaults)'
      BY <2>1, <2>2, <3>2 DEF Judged, HeaderOk
    <3>5. Judged' /\ Built'
      BY <2>1, <3>2, <3>4 DEF Judged, Built
    <3>6. QED
      BY <3>3, <3>5
  <2>3. CASE ~ Buildable(DefaultGrant, file.defaults)
    BY <1>3, <2>1, <2>3, WellFormedParts, RejectIsSound DEF BuildDefaults
  <2>4. QED
    BY <2>2, <2>3
<1>4. ASSUME NEW name \in Names, BuildTool(name) PROVE PolicyInv'
  <2> DEFINE entry == file.tools[name]
  <2>1. file \in Files /\ name \in DOMAIN file.tools /\ IsSection(entry.grants)
    BY <1>4, FilesAssumption DEF BuildTool, IsRawPolicy, Judged
  <2>2. Acceptable(name, entry) <=> EntryOk(name)
    BY <2>1, AcceptableIsOk DEF Granted
  <2>3. CASE Acceptable(name, entry)
    <3>1. ValidGrant(Rule(entry).grant) /\ Rule(entry).decision \in {"allow", "deny_policy"}
      BY <2>3, DefaultIsValid, BuildIsValid, <2>1 DEF Acceptable, Rule, Allow, Deny, Granted
    <3>2. /\ rules' = Merge(rules, [n \in {name} |-> Rule(entry)])
          /\ file' = file /\ stage' = stage /\ unlisted' = unlisted /\ defaults' = defaults
          /\ stage = "tools"
      BY <1>4, <2>3 DEF BuildTool
    <3>3. /\ DOMAIN rules' = DOMAIN rules \cup {name}
          /\ \A n \in DOMAIN rules' : rules'[n] = IF n = name THEN Rule(entry) ELSE rules[n]
      BY <3>2 DEF Merge
    <3>4. Granted'
      BY <3>1, <3>2, <3>3 DEF Granted
    <3>5. /\ \A n : EntryOk(n)' <=> EntryOk(n)
          /\ HeaderOk' <=> HeaderOk
          /\ \A e : Rule(e)' = Rule(e)
      BY <3>2 DEF EntryOk, HeaderOk, Rule
    <3>6. Judged'
      BY <2>1, <2>2, <2>3, <3>2, <3>3, <3>5 DEF Judged
    <3>7. Built'
      BY <2>1, <3>2, <3>3 DEF Built, Rule
    <3>8. QED
      BY <3>4, <3>6, <3>7
  <2>4. CASE ~ Acceptable(name, entry)
    BY <1>4, <2>1, <2>2, <2>4, WellFormedParts, RejectIsSound DEF BuildTool
  <2>5. QED
    BY <2>3, <2>4
<1>5. CASE Loaded
  <2>1. /\ stage = "tools" /\ stage' = "loaded" /\ DOMAIN rules = DOMAIN file.tools
        /\ file' = file /\ unlisted' = unlisted /\ defaults' = defaults /\ rules' = rules
    BY <1>5 DEF Loaded
  <2>2. /\ \A n : EntryOk(n)' <=> EntryOk(n)
        /\ HeaderOk' <=> HeaderOk
        /\ \A e : Rule(e)' = Rule(e)
    BY <2>1 DEF EntryOk, HeaderOk, Rule
  <2>3. QED
    BY <2>1, <2>2 DEF Granted, Judged, Built
<1>6. CASE Settled \/ UNCHANGED vars
  <2>1. /\ stage' = stage
        /\ file' = file /\ unlisted' = unlisted /\ defaults' = defaults /\ rules' = rules
    BY <1>6 DEF Settled, vars
  <2>2. /\ \A n : EntryOk(n)' <=> EntryOk(n)
        /\ HeaderOk' <=> HeaderOk
        /\ WellFormed' <=> WellFormed
    BY <2>1 DEF EntryOk, HeaderOk, WellFormed
  <2>3. QED
    BY <2>1, <2>2 DEF Granted, Judged, Built, Rule
<1>7. QED
  BY <1>1, <1>2, <1>3, <1>4, <1>5, <1>6 DEF Next

(* PolicyInv is inductive: no step of from_yaml_str breaks it.              *)
THEOREM PolicyInvariant == Spec => []PolicyInv
<1>1. Init => PolicyInv
  BY DefaultIsValid DEF Init, PolicyInv, Granted, Judged, Built, Empty
<1>2. PolicyInv /\ [Next]_vars => PolicyInv'
  BY PolicyStep
<1>3. QED
  BY <1>1, <1>2, PTL DEF Spec

(* Loading a policy never leaves its state half typed: a grant that is     *)
(* being built over is valid, and no rule is of a name that is no tool's.  *)
THEOREM PolicyTyped == Spec => []TypeOK
<1>1. PolicyInv => TypeOK
  BY FilesAssumption DEF PolicyInv, Granted, Judged, Built, TypeOK
<1>2. QED
  BY <1>1, PolicyInvariant, PTL

(* Whatever the file says, a grant the server hands out has its limits in  *)
(* range and names only plain env keys and well-formed mounts.             *)
THEOREM GrantsValid == Spec => []GrantsAreValid
<1>1. PolicyInv => GrantsAreValid
  BY DefaultIsValid DEF PolicyInv, Granted, GrantsAreValid, Decide, Allow, Deny
<1>2. QED
  BY <1>1, PolicyInvariant, PTL

(* A file is accepted exactly when no part of it is bad.                   *)
THEOREM FilesJudged == Spec => []FilesAreJudged
<1>1. ASSUME PolicyInv PROVE FilesAreJudged
  <2>1. ASSUME stage = "loaded", file \in Files PROVE WellFormed
    BY <1>1, <2>1, WellFormedParts DEF PolicyInv, Judged
  <2>2. ASSUME stage = "loaded", file = NoFile PROVE WellFormed
    BY <2>2, FilesAssumption DEF WellFormed
  <2>3. QED
    BY <1>1, <2>1, <2>2 DEF PolicyInv, Judged, FilesAreJudged
<1>2. QED
  BY <1>1, PolicyInvariant, PTL

(* What layers say of a key is what the first of them that has it says.    *)
LEMMA FirstLayer ==
  ASSUME NEW S \in SUBSET (1..3), NEW first \in S, \A i \in S : first <= i
  PROVE  Min(S) = first
<1> DEFINE Least(x) == x \in S /\ \A i \in S : x <= i
<1>1. Least(first)
  OBVIOUS
<1>2. Min(S) = CHOOSE x : Least(x)
  BY Zenon DEF Min
<1> HIDE DEF Least
<1>3. Least(Min(S))
  BY <1>1, <1>2, Zenon
<1>4. Min(S) \in S /\ Min(S) <= first
  BY <1>3 DEF Least
<1>5. first <= Min(S) /\ first \in 1..3 /\ Min(S) \in 1..3
  BY <1>4
<1>6. QED
  BY <1>4, <1>5

LEMMA TwoLayers ==
  ASSUME NEW a, NEW b, NEW k, k \in DOMAIN a \cup DOMAIN b
  PROVE  Said(<<a, b>>, k) = Merge(b, a)[k]
<1> DEFINE S == {i \in DOMAIN <<a, b>> : k \in DOMAIN <<a, b>>[i]}
<1>1. /\ S \in SUBSET 1..3
      /\ 1 \in S <=> k \in DOMAIN a
      /\ 2 \in S <=> k \in DOMAIN b
  OBVIOUS
<1> HIDE DEF S
<1>2. Min(S) = IF k \in DOMAIN a THEN 1 ELSE 2
  BY <1>1, FirstLayer
<1>3. QED
  BY <1>2 DEF Said, Merge, S

LEMMA ThreeLayers ==
  ASSUME NEW a, NEW b, NEW c, NEW k, k \in DOMAIN a \cup DOMAIN b \cup DOMAIN c
  PROVE  Said(<<a, b, c>>, k) = Merge(Merge(c, b), a)[k]
<1> DEFINE S == {i \in DOMAIN <<a, b, c>> : k \in DOMAIN <<a, b, c>>[i]}
<1>1. /\ S \in SUBSET 1..3
      /\ 1 \in S <=> k \in DOMAIN a
      /\ 2 \in S <=> k \in DOMAIN b
      /\ 3 \in S <=> k \in DOMAIN c
  OBVIOUS
<1> HIDE DEF S
<1>2. Min(S) = IF k \in DOMAIN a THEN 1 ELSE IF k \in DOMAIN b THEN 2 ELSE 3
  BY <1>1, FirstLayer
<1>3. QED
  BY <1>2 DEF Said, Merge, S

LEMMA OneLayer ==
  ASSUME NEW a, NEW k, k \in DOMAIN a
  PROVE  Said(<<a>>, k) = a[k]
<1> DEFINE S == {i \in DOMAIN <<a>> : k \in DOMAIN <<a>>[i]}
<1>1. S \in SUBSET 1..3 /\ 1 \in S
  OBVIOUS
<1> HIDE DEF S
<1>2. Min(S) = 1
  BY <1>1, FirstLayer
<1>3. QED
  BY <1>2 DEF Said, S

LEMMA MergesSay ==
  ASSUME NEW a, NEW b, NEW c
  PROVE  /\ SaysAll(Merge(b, a), <<a, b>>)
         /\ SaysAll(Merge(Merge(c, b), a), <<a, b, c>>)
         /\ SaysAll(Merge(Empty, a), <<a>>)
         /\ SaysAll(Merge(Merge(Empty, b), a), <<a, b>>)
<1>1. SaysAll(Merge(b, a), <<a, b>>)
  <2>1. DOMAIN Merge(b, a) = UNION {DOMAIN <<a, b>>[i] : i \in DOMAIN <<a, b>>}
    BY DEF Merge
  <2>2. QED
    BY <2>1, TwoLayers DEF SaysAll, Merge
<1>2. SaysAll(Merge(Merge(c, b), a), <<a, b, c>>)
  <2>1. DOMAIN Merge(Merge(c, b), a) = DOMAIN a \cup DOMAIN b \cup DOMAIN c
    BY DEF Merge
  <2>2. DOMAIN a \cup DOMAIN b \cup DOMAIN c = UNION {DOMAIN <<a, b, c>>[i] : i \in DOMAIN <<a, b, c>>}
    OBVIOUS
  <2>3. QED
    BY <2>1, <2>2, ThreeLayers DEF SaysAll
<1>3. SaysAll(Merge(Empty, a), <<a>>)
  <2>1. DOMAIN Merge(Empty, a) = DOMAIN a /\ \A k \in DOMAIN a : Merge(Empty, a)[k] = a[k]
    BY DEF Merge, Empty
  <2>2. DOMAIN a = UNION {DOMAIN <<a>>[i] : i \in DOMAIN <<a>>}
    OBVIOUS
  <2>3. QED
    BY <2>1, <2>2, OneLayer DEF SaysAll
<1>4. SaysAll(Merge(Merge(Empty, b), a), <<a, b>>)
  <2>1. Merge(Merge(Empty, b), a) = Merge(b, a)
    BY DEF Merge, Empty
  <2>2. QED
    BY <2>1, <1>1
<1>5. QED
  BY <1>1, <1>2, <1>3, <1>4

(* A grant that says what sections say, the first of them first.           *)
Follows(g, s) ==
  LET fs == [i \in DOMAIN s |-> s[i].fs]
  IN  /\ SaysAll(g.limits, [i \in DOMAIN s |-> s[i].limits] \o <<DefaultLimits>>)
      /\ SaysAll(g.env, [i \in DOMAIN s |-> s[i].env])
      /\ SaysAll([p \in DOMAIN g.mounts |-> g.mounts[p].mode], Modes(fs))
      /\ \A p \in DOMAIN g.mounts : g.mounts[p].host = Said(fs, p).host

BuiltFs(fs) == [path \in DOMAIN fs |-> BuildMount(fs[path])]
ModesOf(fs) == [path \in DOMAIN fs |-> fs[path].mode]

LEMMA MountsKeep ==
  ASSUME NEW raw
  PROVE  BuildMount(raw).mode = raw.mode /\ BuildMount(raw).host = raw.host
BY DEF BuildMount

LEMMA PutBehind ==
  ASSUME NEW a, NEW b, NEW c
  PROVE  <<a>> \o <<c>> = <<a, c>> /\ <<a, b>> \o <<c>> = <<a, b, c>>
<1>2. <<a>> \o <<c>> = <<a, c>>
  <2>1. <<a>> \in Seq({a, c}) /\ <<c>> \in Seq({a, c})
    OBVIOUS
  <2> DEFINE s == <<a>> \o <<c>>
  <2>2. s \in Seq({a, c}) /\ Len(s) = 2 /\ s[1] = a /\ s[2] = c
    BY <2>1, ConcatProperties, Z3
  <2> HIDE DEF s
  <2>3. s = <<a, c>>
    BY <2>2
  <2>4. QED
    BY <2>3 DEF s
<1>3. <<a, b>> \o <<c>> = <<a, b, c>>
  <2>1. <<a, b>> \in Seq({a, b, c}) /\ <<c>> \in Seq({a, b, c})
    OBVIOUS
  <2> DEFINE s == <<a, b>> \o <<c>>
  <2>2. s \in Seq({a, b, c}) /\ Len(s) = 3 /\ s[1] = a /\ s[2] = b /\ s[3] = c
    BY <2>1, ConcatProperties, Z3
  <2> HIDE DEF s
  <2>3. s = <<a, b, c>>
    BY <2>2
  <2>4. QED
    BY <2>3 DEF s
<1>4. QED
  BY <1>2, <1>3

(* The defaults section over the built-in defaults. *)
LEMMA DefaultsFollow ==
  ASSUME NEW d
  PROVE  Follows(BuildGrant(DefaultGrant, d), <<d>>)
<1> DEFINE g == BuildGrant(DefaultGrant, d)
<1>1. /\ g.limits = Merge(DefaultLimits, d.limits) /\ g.env = Merge(Empty, d.env)
      /\ g.mounts = Merge(Empty, BuiltFs(d.fs))
  BY DEF BuildGrant, DefaultGrant, BuiltFs
<1>2. /\ [i \in DOMAIN <<d>> |-> <<d>>[i].limits] \o <<DefaultLimits>> = <<d.limits, DefaultLimits>>
      /\ [i \in DOMAIN <<d>> |-> <<d>>[i].env] = <<d.env>>
      /\ [i \in DOMAIN <<d>> |-> <<d>>[i].fs] = <<d.fs>>
  <2>1. [i \in DOMAIN <<d>> |-> <<d>>[i].limits] = <<d.limits>>
    OBVIOUS
  <2>2. <<d.limits>> \o <<DefaultLimits>> = <<d.limits, DefaultLimits>>
    BY PutBehind
  <2>3. [i \in DOMAIN <<d>> |-> <<d>>[i].env] = <<d.env>>
    OBVIOUS
  <2>4. [i \in DOMAIN <<d>> |-> <<d>>[i].fs] = <<d.fs>>
    OBVIOUS
  <2>5. QED
    BY <2>1, <2>2, <2>3, <2>4
<1>3. Modes(<<d.fs>>) = <<ModesOf(d.fs)>>
  BY DEF Modes, ModesOf
<1>4. DOMAIN g.mounts = DOMAIN d.fs /\ \A p \in DOMAIN d.fs : g.mounts[p] = BuildMount(d.fs[p])
  BY <1>1 DEF Merge, Empty, BuiltFs
<1> HIDE DEF g
<1>5. \A p \in DOMAIN d.fs : g.mounts[p].mode = d.fs[p].mode /\ g.mounts[p].host = d.fs[p].host
  BY <1>4, MountsKeep
<1>6. [p \in DOMAIN g.mounts |-> g.mounts[p].mode] = Merge(Empty, ModesOf(d.fs))
  <2>1. [p \in DOMAIN g.mounts |-> g.mounts[p].mode] = ModesOf(d.fs)
    BY <1>4, <1>5 DEF ModesOf
  <2>2. ModesOf(d.fs) = Merge(Empty, ModesOf(d.fs))
    BY DEF ModesOf, Merge, Empty
  <2>3. QED
    BY <2>1, <2>2
<1>7. \A p \in DOMAIN g.mounts : g.mounts[p].host = Said(<<d.fs>>, p).host
  BY <1>4, <1>5, OneLayer
<1>8. /\ SaysAll(g.limits, <<d.limits, DefaultLimits>>)
      /\ SaysAll(g.env, <<d.env>>)
      /\ SaysAll([p \in DOMAIN g.mounts |-> g.mounts[p].mode], <<ModesOf(d.fs)>>)
  BY <1>1, <1>6, MergesSay
<1>9. Follows(g, <<d>>)
  BY <1>2, <1>3, <1>7, <1>8 DEF Follows
<1>10. QED
  BY <1>9 DEF g

(* An entry over the defaults. *)
LEMMA EntryFollows ==
  ASSUME NEW d, NEW e
  PROVE  Follows(BuildGrant(BuildGrant(DefaultGrant, d), e), <<e, d>>)
<1> DEFINE g == BuildGrant(BuildGrant(DefaultGrant, d), e)
<1>1. /\ g.limits = Merge(Merge(DefaultLimits, d.limits), e.limits)
      /\ g.env = Merge(Merge(Empty, d.env), e.env)
      /\ g.mounts = Merge(Merge(Empty, BuiltFs(d.fs)), BuiltFs(e.fs))
  BY DEF BuildGrant, DefaultGrant, BuiltFs
<1>2. /\ [i \in DOMAIN <<e, d>> |-> <<e, d>>[i].limits] \o <<DefaultLimits>>
           = <<e.limits, d.limits, DefaultLimits>>
      /\ [i \in DOMAIN <<e, d>> |-> <<e, d>>[i].env] = <<e.env, d.env>>
      /\ [i \in DOMAIN <<e, d>> |-> <<e, d>>[i].fs] = <<e.fs, d.fs>>
  <2>1. [i \in DOMAIN <<e, d>> |-> <<e, d>>[i].limits] = <<e.limits, d.limits>>
    OBVIOUS
  <2>2. <<e.limits, d.limits>> \o <<DefaultLimits>> = <<e.limits, d.limits, DefaultLimits>>
    BY PutBehind
  <2>3. [i \in DOMAIN <<e, d>> |-> <<e, d>>[i].env] = <<e.env, d.env>>
    OBVIOUS
  <2>4. [i \in DOMAIN <<e, d>> |-> <<e, d>>[i].fs] = <<e.fs, d.fs>>
    OBVIOUS
  <2>5. QED
    BY <2>1, <2>2, <2>3, <2>4
<1>3. Modes(<<e.fs, d.fs>>) = <<ModesOf(e.fs), ModesOf(d.fs)>>
  BY DEF Modes, ModesOf
<1>4. /\ DOMAIN g.mounts = DOMAIN e.fs \cup DOMAIN d.fs
      /\ \A p \in DOMAIN g.mounts :
           g.mounts[p] = BuildMount(IF p \in DOMAIN e.fs THEN e.fs[p] ELSE d.fs[p])
  BY <1>1 DEF Merge, Empty, BuiltFs
<1> HIDE DEF g
<1>5. \A p \in DOMAIN g.mounts :
        /\ g.mounts[p].mode = (IF p \in DOMAIN e.fs THEN e.fs[p] ELSE d.fs[p]).mode
        /\ g.mounts[p].host = Merge(d.fs, e.fs)[p].host
  BY <1>4, MountsKeep DEF Merge
<1>6. [p \in DOMAIN g.mounts |-> g.mounts[p].mode]
        = Merge(Merge(Empty, ModesOf(d.fs)), ModesOf(e.fs))
  <2>1. Merge(Merge(Empty, ModesOf(d.fs)), ModesOf(e.fs)) = Merge(ModesOf(d.fs), ModesOf(e.fs))
    BY DEF ModesOf, Merge, Empty
  <2>2. [p \in DOMAIN g.mounts |-> g.mounts[p].mode] = Merge(ModesOf(d.fs), ModesOf(e.fs))
    BY <1>4, <1>5 DEF ModesOf, Merge
  <2>3. QED
    BY <2>1, <2>2
<1>7. \A p \in DOMAIN g.mounts : g.mounts[p].host = Said(<<e.fs, d.fs>>, p).host
  BY <1>4, <1>5, TwoLayers
<1>8. /\ SaysAll(g.limits, <<e.limits, d.limits, DefaultLimits>>)
      /\ SaysAll(g.env, <<e.env, d.env>>)
      /\ SaysAll([p \in DOMAIN g.mounts |-> g.mounts[p].mode], <<ModesOf(e.fs), ModesOf(d.fs)>>)
  BY <1>1, <1>6, MergesSay
<1>9. Follows(g, <<e, d>>)
  BY <1>2, <1>3, <1>7, <1>8 DEF Follows
<1>10. QED
  BY <1>9 DEF g

(* A tool runs exactly when its entry or unlisted_tools lets it, and its   *)
(* grant is what its entry, then the defaults, then the built-in defaults  *)
(* say, with nothing that neither section names.                           *)
THEOREM GrantsFollow == Spec => []GrantsFollowTheFile
<1>1. ASSUME PolicyInv, stage = "loaded", file # NoFile, NEW n \in Names
      PROVE  /\ (Decide(n).decision = "allow") = Runs(n)
             /\ Runs(n) => Follows(Decide(n).grant, Sources(n))
  <2>1. /\ file \in Files /\ DOMAIN rules = DOMAIN file.tools
        /\ unlisted = IF file.unlisted = "none" THEN "deny" ELSE file.unlisted
        /\ defaults = BuildGrant(DefaultGrant, file.defaults)
        /\ \A t \in DOMAIN rules : rules[t] = Rule(file.tools[t])
    BY <1>1 DEF PolicyInv, Judged, Built
  <2>2. CASE n \notin DOMAIN file.tools
    <3>1. (unlisted = "defaults") <=> (file.unlisted = "defaults")
      BY <2>1
    <3>2. Sources(n) = <<file.defaults>> /\ Runs(n) = (file.unlisted = "defaults")
      BY <2>2 DEF Sources, Runs
    <3>3. /\ Runs(n) => Decide(n) = Allow(defaults)
          /\ ~ Runs(n) => Decide(n) = Deny(FALSE)
      BY <2>1, <2>2, <3>1, <3>2 DEF Decide
    <3>4. QED
      <4>1. CASE Runs(n) = TRUE
        <5>1. Decide(n).decision = "allow" /\ Decide(n).grant = BuildGrant(DefaultGrant, file.defaults)
          BY <2>1, <3>3, <4>1 DEF Allow
        <5>2. QED
          BY <3>2, <4>1, <5>1, DefaultsFollow
      <4>2. CASE Runs(n) = FALSE
        <5>1. Decide(n).decision = "deny_unlisted"
          BY <3>3, <4>2 DEF Deny
        <5>2. QED
          BY <4>2, <5>1
      <4>3. QED
        BY <3>2, <4>1, <4>2
  <2>3. CASE n \in DOMAIN file.tools
    <3> DEFINE entry == file.tools[n]
    <3>1. entry.null \in BOOLEAN /\ entry.deny \in BOOLEAN /\ Decide(n) = Rule(entry)
      BY <2>1, <2>3, FilesAssumption DEF Decide, IsRawPolicy
    <3>2. CASE entry.null
      <4>1. Decide(n) = Allow(defaults)
        BY <3>1, <3>2 DEF Rule
      <4>2. Sources(n) = <<file.defaults>> /\ Runs(n) = TRUE
        BY <2>3, <3>2 DEF Sources, Runs
      <4>3. Decide(n).decision = "allow" /\ Decide(n).grant = BuildGrant(DefaultGrant, file.defaults)
        BY <2>1, <4>1 DEF Allow
      <4>4. QED
        BY <4>2, <4>3, DefaultsFollow
    <3>3. CASE ~ entry.null /\ entry.deny
      BY <2>3, <3>1, <3>3 DEF Rule, Deny, Runs
    <3>4. CASE ~ entry.null /\ ~ entry.deny
      <4>1. Decide(n) = Allow(BuildGrant(defaults, entry.grants))
        BY <3>1, <3>4 DEF Rule
      <4>2. Sources(n) = <<entry.grants, file.defaults>> /\ Runs(n) = TRUE
        BY <2>3, <3>4 DEF Sources, Runs
      <4>3. /\ Decide(n).decision = "allow"
            /\ Decide(n).grant = BuildGrant(BuildGrant(DefaultGrant, file.defaults), entry.grants)
        BY <2>1, <4>1 DEF Allow
      <4>4. QED
        BY <4>2, <4>3, EntryFollows
    <3>5. QED
      BY <3>1, <3>2, <3>3, <3>4
  <2>4. QED
    BY <2>2, <2>3
<1>2. PolicyInv => GrantsFollowTheFile
  BY <1>1, Zenon DEF GrantsFollowTheFile, Follows
<1>3. QED
  BY <1>2, PolicyInvariant, PTL

-----------------------------------------------------------------------------
(* `toolcage check`. *)

(* Checking and calling change nothing of the policy: every theorem about  *)
(* the loading of a policy holds for a process that checks or serves it.   *)
THEOREM CheckLoadsPolicy == CheckSpec => Spec
<1>1. CheckInit => Init
  BY DEF CheckInit
<1>2. [CheckNext]_<<vars, checkVars>> => [Next]_vars
  <2>1. ASSUME CheckNext PROVE [Next]_vars
    BY <2>1 DEF CheckNext, Load, CheckDefaults, CheckTool, CheckGrant, EndCheck, Call, Change
  <2>2. QED
    BY <2>1
<1>3. QED
  BY <1>1, <1>2, PTL DEF CheckSpec, Spec

(* The grants that have been looked at. *)
Seen == IF Begun THEN {defaults} \cup {Decide(n).grant : n \in checked} ELSE {}

(* The inductive invariant, over that of Policy. A check has a loaded      *)
(* policy; while no directory has changed since it began, its count is     *)
(* zero exactly when no mount of the grants it has seen lacks a directory; *)
(* it ends well only when it has seen all; and the last call met the       *)
(* directories as they are unless one has changed after it.                *)
Hosted == dirs \in [Hosts -> {"dir", "locked", "missing"}] /\ changes \in Nat

Counting ==
  /\ since \in Int /\ since <= changes /\ problems \in Nat
  /\ Begun => stage = "loaded" /\ file # NoFile
  /\ ~ Begun => problems = 0 /\ checked = {}
  /\ checked \subseteq {n \in DOMAIN rules : Decide(n).decision = "allow"}
  /\ changes = since => (problems > 0 <=> \E g \in Seen : NotThere(g))

Ended ==
  /\ status \in {"none", "ok", "problems"}
  /\ status = "ok" => Begun /\ ToCheck = {} /\ problems = 0
  /\ status = "problems" => stage = "rejected" \/ (Begun /\ ToCheck = {} /\ problems > 0)
  /\ stage = "rejected" => ~ Begun

MetBy(name) ==
  LET mounts == Decide(name).grant.mounts IN {dirs[mounts[p].host] : p \in DOMAIN mounts}

Calling ==
  /\ call.at \in Nat /\ call.at <= changes
  /\ call.result = "internal" =>
       /\ stage = "loaded" /\ call.tool \in Names /\ Decide(call.tool).decision = "allow"
       /\ ~ call.met \subseteq {"dir"}
       /\ call.at = changes => call.met = MetBy(call.tool)

CheckInv == Hosted /\ Counting /\ Ended /\ Calling

(* What is_dir() misses is counted once each, and only finitely many       *)
(* mounts there are.                                                       *)
LEMMA MissingIsCounted ==
  ASSUME NEW grant, ValidGrant(grant)
  PROVE  Cardinality(Missing(grant)) \in Nat /\ (Cardinality(Missing(grant)) > 0 <=> NotThere(grant))
<1>1. Missing(grant) \in SUBSET DOMAIN PathForm
  BY DEF Missing, ValidGrant, IsMap, PlainPaths
<1>2. IsFiniteSet(Missing(grant))
  BY <1>1, PathsAssumption, FS_Subset
<1>3. Cardinality(Missing(grant)) \in Nat /\ (Cardinality(Missing(grant)) = 0 <=> Missing(grant) = {})
  BY <1>2, FS_CardinalityType, FS_EmptySet
<1>4. Missing(grant) = {} <=> ~ NotThere(grant)
  BY DEF Missing, NotThere
<1>5. QED
  BY <1>3, <1>4

LEMMA DecidedIsValid ==
  ASSUME PolicyInv, NEW name
  PROVE  ValidGrant(Decide(name).grant)
BY DefaultIsValid DEF PolicyInv, Granted, Decide, Allow, Deny

(* What is said of a policy that stays as it is. *)
LEMMA PolicyStays ==
  ASSUME UNCHANGED vars
  PROVE  /\ \A n : Decide(n)' = Decide(n)
         /\ defaults' = defaults /\ rules' = rules /\ stage' = stage /\ file' = file
BY DEF vars, Decide

(* A loaded policy stays as it is, and so does a rejected one. *)
LEMMA LoadSettles ==
  ASSUME Next, stage \in {"loaded", "rejected"}
  PROVE  UNCHANGED vars
BY DEF Next, Vacuum, ReadHeader, BuildDefaults, BuildTool, Loaded, Settled

LEMMA LoadKeeps ==
  ASSUME PolicyInv, CheckInv, Load
  PROVE  CheckInv'
<1>1. /\ dirs' = dirs /\ changes' = changes /\ since' = since /\ checked' = checked
      /\ problems' = problems /\ call' = call
      /\ status' = IF stage' = "rejected" THEN "problems" ELSE status
  BY DEF Load
<1>2. CASE stage \in {"loaded", "rejected"}
  <2>1. UNCHANGED vars
    BY <1>2, LoadSettles DEF Load
  <2>2. /\ \A n : Decide(n)' = Decide(n)
        /\ defaults' = defaults /\ rules' = rules /\ stage' = stage /\ file' = file
    BY <2>1, PolicyStays
  <2>3. Begun' = Begun /\ Seen' = Seen /\ ToCheck' = ToCheck /\ MetBy(call.tool)' = MetBy(call.tool)
    BY <1>1, <2>2 DEF Begun, Seen, ToCheck, MetBy
  <2>4. \A g : NotThere(g)' <=> NotThere(g)
    BY <1>1 DEF NotThere
  <2>5. QED
    BY <1>1, <2>2, <2>3, <2>4 DEF CheckInv, Hosted, Counting, Ended, Calling
<1>3. CASE stage \notin {"loaded", "rejected"}
  <2>1. ~ Begun /\ status \notin {"ok", "problems"} /\ call.result # "internal"
    BY <1>3 DEF CheckInv, Counting, Ended, Calling
  <2>2. ~ Begun' /\ Seen' = {} /\ Seen = {} /\ checked' = {} /\ problems' = 0
    BY <1>1, <2>1 DEF Begun, Seen, CheckInv, Counting
  <2>3. Hosted' /\ Counting' /\ Ended' /\ Calling'
    BY <1>1, <2>1, <2>2 DEF CheckInv, Hosted, Counting, Ended, Calling
  <2>4. QED
    BY <2>3 DEF CheckInv
<1>4. QED
  BY <1>2, <1>3

(* Looking at one more grant keeps the count true. *)
LEMMA GrantIsCounted ==
  ASSUME PolicyInv, CheckInv, NEW grant, ValidGrant(grant), CheckGrant(grant),
         Begun' , since' <= changes, since' \in Int, stage = "loaded", file # NoFile,
         status = "none", since' = since \/ ~ Begun,
         checked' \subseteq {n \in DOMAIN rules : Decide(n).decision = "allow"},
         since' = changes => Seen' = Seen \cup {grant},
         ~ Begun => since' = changes
  PROVE  CheckInv'
<1>1. /\ dirs' = dirs /\ changes' = changes /\ status' = status /\ call' = call
      /\ problems' = problems + Cardinality(Missing(grant)) /\ UNCHANGED vars
  BY DEF CheckGrant
<1>2. /\ \A n : Decide(n)' = Decide(n)
      /\ defaults' = defaults /\ rules' = rules /\ stage' = stage /\ file' = file
  BY <1>1, PolicyStays
<1>3. \A g : NotThere(g)' <=> NotThere(g)
  BY <1>1 DEF NotThere
<1>4. problems \in Nat /\ problems' \in Nat
  BY <1>1, MissingIsCounted DEF CheckInv, Counting
<1>5. ASSUME changes' = since' PROVE problems' > 0 <=> \E g \in Seen' : NotThere(g)'
  <2>1. problems > 0 <=> \E g \in Seen : NotThere(g)
    <3>1. CASE Begun
      BY <1>1, <1>5, <3>1 DEF CheckInv, Counting
    <3>2. CASE ~ Begun
      BY <3>2 DEF CheckInv, Counting, Seen
    <3>3. QED
      BY <3>1, <3>2
  <2>2. problems' > 0 <=> (problems > 0 \/ NotThere(grant))
    BY <1>1, <1>4, MissingIsCounted
  <2>3. Seen' = Seen \cup {grant}
    BY <1>1, <1>5
  <2>4. QED
    BY <1>3, <2>1, <2>2, <2>3
<1>6. MetBy(call.tool)' = MetBy(call.tool)
  BY <1>1, <1>2 DEF MetBy
<1>7. Counting'
  BY <1>1, <1>2, <1>4, <1>5 DEF Counting
<1>8. Hosted' /\ Ended' /\ Calling'
  BY <1>1, <1>2, <1>6 DEF CheckInv, Hosted, Ended, Calling
<1>9. QED
  BY <1>7, <1>8 DEF CheckInv

LEMMA CheckStep ==
  ASSUME PolicyInv, CheckInv, [CheckNext]_<<vars, checkVars>>
  PROVE  CheckInv'
<1>1. CASE Load
  BY <1>1, LoadKeeps
<1>2. CASE CheckDefaults
  <2>1. /\ stage = "loaded" /\ file # NoFile /\ ~ Begun /\ since' = changes
        /\ CheckGrant(defaults) /\ checked' = checked /\ checked = {} /\ changes \in Nat
    BY <1>2 DEF CheckDefaults, CheckInv, Counting, Hosted
  <2>2. status = "none"
    BY <2>1 DEF CheckInv, Ended
  <2>3. ValidGrant(defaults)
    BY DEF PolicyInv, Granted
  <2>4. Begun'
    BY <2>1 DEF Begun
  <2>5. Seen' = Seen \cup {defaults}
    <3>1. defaults' = defaults /\ Seen = {}
      BY <2>1, PolicyStays DEF CheckGrant, Seen
    <3>2. Seen' = {defaults'} \cup {}
      BY <2>1, <2>4 DEF Seen
    <3>3. QED
      BY <3>1, <3>2
  <2>6. QED
    BY <2>1, <2>2, <2>3, <2>4, <2>5, GrantIsCounted
<1>3. ASSUME NEW name \in Names, CheckTool(name) PROVE CheckInv'
  <2>1. /\ Begun /\ name \in ToCheck /\ CheckGrant(Decide(name).grant)
        /\ checked' = checked \cup {name} /\ since' = since
    BY <1>3 DEF CheckTool
  <2>2. /\ stage = "loaded" /\ file # NoFile /\ status = "none"
        /\ since \in Int /\ since <= changes
    BY <2>1 DEF CheckInv, Counting, Ended
  <2>3. /\ name \in DOMAIN rules /\ Decide(name).decision = "allow"
        /\ checked \subseteq {n \in DOMAIN rules : Decide(n).decision = "allow"}
    BY <2>1 DEF ToCheck, CheckInv, Counting
  <2>4. Begun'
    BY <2>1 DEF Begun
  <2>5. Seen' = Seen \cup {Decide(name).grant}
    <3>1. defaults' = defaults /\ \A n : Decide(n)' = Decide(n)
      BY <2>1, PolicyStays DEF CheckGrant
    <3>2. Seen' = {defaults} \cup {Decide(n).grant : n \in checked \cup {name}}
      BY <2>1, <2>4, <3>1 DEF Seen
    <3>3. Seen = {defaults} \cup {Decide(n).grant : n \in checked}
      BY <2>1 DEF Seen
    <3>4. QED
      BY <3>2, <3>3
  <2>6. ValidGrant(Decide(name).grant)
    BY DecidedIsValid
  <2>7. QED
    BY <2>1, <2>2, <2>3, <2>4, <2>5, <2>6, GrantIsCounted
<1>4. CASE EndCheck
  <2>1. /\ Begun /\ ToCheck = {} /\ status = "none"
        /\ status' = IF problems > 0 THEN "problems" ELSE "ok"
        /\ UNCHANGED <<dirs, changes, since, checked, problems, call>> /\ UNCHANGED vars
    BY <1>4 DEF EndCheck
  <2>2. /\ \A n : Decide(n)' = Decide(n)
        /\ defaults' = defaults /\ rules' = rules /\ stage' = stage /\ file' = file
    BY <2>1, PolicyStays
  <2>3. Begun' = Begun /\ Seen' = Seen /\ ToCheck' = ToCheck /\ MetBy(call.tool)' = MetBy(call.tool)
    BY <2>1, <2>2 DEF Begun, Seen, ToCheck, MetBy
  <2>4. \A g : NotThere(g)' <=> NotThere(g)
    BY <2>1 DEF NotThere
  <2>5. Ended'
    BY <2>1, <2>2, <2>3 DEF CheckInv, Counting, Ended
  <2>6. Hosted' /\ Counting' /\ Calling'
    BY <2>1, <2>2, <2>3, <2>4 DEF CheckInv, Hosted, Counting, Calling
  <2>7. QED
    BY <2>5, <2>6 DEF CheckInv
<1>5. ASSUME NEW name \in Names, Call(name) PROVE CheckInv'
  <2>1. /\ stage = "loaded" /\ Decide(name).decision = "allow"
        /\ call' = [tool |-> name, at |-> changes, met |-> MetBy(name),
                    result |-> IF MetBy(name) \subseteq {"dir"} THEN "runs" ELSE "internal"]
        /\ UNCHANGED <<dirs, changes, since, checked, problems, status>> /\ UNCHANGED vars
    BY <1>5 DEF Call, MetBy, checking
  <2>2. /\ \A n : Decide(n)' = Decide(n)
        /\ defaults' = defaults /\ rules' = rules /\ stage' = stage /\ file' = file
    BY <2>1, PolicyStays
  <2>3. Begun' = Begun /\ Seen' = Seen /\ ToCheck' = ToCheck
    BY <2>1, <2>2 DEF Begun, Seen, ToCheck
  <2>4. \A g : NotThere(g)' <=> NotThere(g)
    BY <2>1 DEF NotThere
  <2>5. MetBy(name)' = MetBy(name)
    BY <2>1, <2>2 DEF MetBy
  <2>6. Calling'
    <3>1. /\ call'.tool = name /\ call'.at = changes /\ call'.met = MetBy(name)
          /\ call'.result = "internal" => ~ MetBy(name) \subseteq {"dir"}
      BY <2>1
    <3>2. changes' = changes /\ changes \in Nat
      BY <2>1 DEF CheckInv, Hosted
    <3>3. MetBy(call.tool)' = MetBy(name)
      BY <2>5, <3>1 DEF MetBy
    <3>4. QED
      BY <2>1, <2>2, <3>1, <3>2, <3>3 DEF Calling
  <2>7. Hosted' /\ Counting' /\ Ended'
    BY <2>1, <2>2, <2>3, <2>4 DEF CheckInv, Hosted, Counting, Ended
  <2>8. QED
    BY <2>6, <2>7 DEF CheckInv
<1>6. ASSUME NEW host \in Hosts, Change(host) PROVE CheckInv'
  <2>1. /\ \E d \in {"dir", "locked", "missing"} : dirs' = [dirs EXCEPT ![host] = d]
        /\ changes' = changes + 1
        /\ UNCHANGED <<since, checked, problems, status, call>> /\ UNCHANGED vars
    BY <1>6 DEF Change
  <2>2. /\ \A n : Decide(n)' = Decide(n)
        /\ defaults' = defaults /\ rules' = rules /\ stage' = stage /\ file' = file
    BY <2>1, PolicyStays
  <2>3. Hosted'
    BY <2>1 DEF CheckInv, Hosted
  <2>4. Begun' = Begun /\ ToCheck' = ToCheck
    BY <2>1, <2>2 DEF Begun, ToCheck
  <2>5. /\ since < changes' /\ call.at < changes'
    BY <2>1 DEF CheckInv, Hosted, Counting, Calling
  <2>6. Counting'
    BY <2>1, <2>2, <2>4, <2>5 DEF CheckInv, Hosted, Counting
  <2>7. Ended' /\ Calling'
    BY <2>1, <2>2, <2>4, <2>5 DEF CheckInv, Hosted, Ended, Calling
  <2>8. QED
    BY <2>3, <2>6, <2>7 DEF CheckInv
<1>7. CASE UNCHANGED <<vars, checkVars>>
  <2>1. UNCHANGED <<dirs, changes, since, checked, problems, status, call>> /\ UNCHANGED vars
    BY <1>7 DEF checkVars, checking
  <2>2. /\ \A n : Decide(n)' = Decide(n)
        /\ defaults' = defaults /\ rules' = rules /\ stage' = stage /\ file' = file
    BY <2>1, PolicyStays
  <2>3. Begun' = Begun /\ Seen' = Seen /\ ToCheck' = ToCheck /\ MetBy(call.tool)' = MetBy(call.tool)
    BY <2>1, <2>2 DEF Begun, Seen, ToCheck, MetBy
  <2>4. \A g : NotThere(g)' <=> NotThere(g)
    BY <2>1 DEF NotThere
  <2>5. QED
    BY <2>1, <2>2, <2>3, <2>4 DEF CheckInv, Hosted, Counting, Ended, Calling
<1>8. QED
  BY <1>1, <1>2, <1>3, <1>4, <1>5, <1>6, <1>7 DEF CheckNext

(* CheckInv is inductive beside the invariant of Policy: cmd_check, calls   *)
(* and changes of directories keep it.                                     *)
THEOREM CheckInvariant == CheckSpec => [](PolicyInv /\ CheckInv)
<1>1. CheckInit => CheckInv
  BY DEF CheckInit, Init, CheckInv, Hosted, Counting, Ended, Calling, Begun
<1>2. PolicyInv /\ CheckInv /\ [CheckNext]_<<vars, checkVars>> => CheckInv'
  BY CheckStep
<1>3. QED
  BY <1>1, <1>2, CheckLoadsPolicy, PolicyInvariant, PTL DEF CheckSpec

(* After a check that found no problem a call fails before its guest runs  *)
(* only because a directory may not be opened, never for want of one,      *)
(* while no directory has changed since the check began.                   *)
THEOREM CheckedOpen == CheckSpec => []CheckedMountsOpen
<1>1. ASSUME PolicyInv, CheckInv,
             status = "ok", changes = since, call.at = since, call.result = "internal"
      PROVE  "locked" \in call.met /\ "missing" \notin call.met
  <2> DEFINE grant == Decide(call.tool).grant
  <2>1. /\ Begun /\ ToCheck = {} /\ \A g \in Seen : ~ NotThere(g)
        /\ Decide(call.tool).decision = "allow"
        /\ call.met = MetBy(call.tool) /\ ~ call.met \subseteq {"dir"}
    BY <1>1 DEF CheckInv, Counting, Ended, Calling
  <2>2. grant \in Seen
    <3>1. CASE call.tool \in DOMAIN rules
      <4>1. call.tool \in checked
        BY <2>1, <3>1 DEF ToCheck
      <4>2. QED
        BY <2>1, <4>1 DEF Seen
    <3>2. CASE call.tool \notin DOMAIN rules
      BY <2>1, <3>2 DEF Decide, Deny, Allow, Seen
    <3>3. QED
      BY <3>1, <3>2
  <2>3. ~ NotThere(grant)
    BY <2>1, <2>2
  <2>4. \A p \in DOMAIN grant.mounts : grant.mounts[p].host \in Hosts
    BY <1>1, DecidedIsValid DEF ValidGrant, IsMap, Mounts
  <2> HIDE DEF grant
  <2>5. "missing" \notin MetBy(call.tool) /\ MetBy(call.tool) \subseteq {"dir", "locked", "missing"}
    BY <1>1, <2>3, <2>4 DEF MetBy, NotThere, CheckInv, Hosted, grant
  <2>6. QED
    BY <2>1, <2>5
<1>2. PolicyInv /\ CheckInv => CheckedMountsOpen
  BY <1>1 DEF CheckedMountsOpen
<1>3. QED
  BY <1>2, CheckInvariant, PTL

(* A check that reports problems of a policy that loads found a mount      *)
(* without a directory in the defaults or in the grant of a tool that runs. *)
THEOREM ProblemsReal == CheckSpec => []ProblemsAreReal
<1>1. ASSUME PolicyInv, CheckInv, status = "problems", stage = "loaded", changes = since
      PROVE  \/ NotThere(defaults)
             \/ \E n \in Names : Decide(n).decision = "allow" /\ NotThere(Decide(n).grant)
  <2>1. /\ Begun /\ \E g \in Seen : NotThere(g)
        /\ checked \subseteq {n \in DOMAIN rules : Decide(n).decision = "allow"}
        /\ DOMAIN rules \subseteq Names
    BY <1>1 DEF CheckInv, Counting, Ended, PolicyInv, Granted
  <2>2. QED
    BY <2>1 DEF Seen
<1>2. PolicyInv /\ CheckInv => ProblemsAreReal
  BY <1>1 DEF ProblemsAreReal
<1>3. QED
  BY <1>2, CheckInvariant, PTL
=============================================================================
