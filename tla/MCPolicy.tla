------------------------------ MODULE MCPolicy ------------------------------
(* A set of policy files for TLC: sections with limits at and beyond their  *)
(* bounds, env names and mounts that are good and bad, in the defaults, in  *)
(* the entry of a tool, or in both, where they collide.                     *)
EXTENDS Check, TLC

CONSTANTS read, write, unnamed

MCNames == {read, write, unnamed}
MCNameForm == read :> "plain" @@ write :> "plain" @@ unnamed :> "empty"
MCPathForm == "/data" :> "plain" @@ "/tmp" :> "plain" @@ "/" :> "root"
                @@ "data" :> "relative" @@ "/a/.." :> "dotdot"
MCHosts == {"", "./data", "/srv"}
MCHostForm == "" :> "empty" @@ "./data" :> "relative" @@ "/srv" :> "absolute"
MCKeyForm == "HOME" :> "plain" @@ "LANG" :> "plain" @@ "" :> "empty" @@ "A=B" :> "equals"

Section(limits, env, fs) == [limits |-> limits, env |-> env, fs |-> fs]
Bare == Section(Empty, Empty, Empty)
Limits(limits) == Section(limits, Empty, Empty)
Mounted(path, host, mode) == Section(Empty, Empty, path :> [host |-> host, mode |-> mode])

GoodSections ==
  {Bare,
   Limits(Smallest),
   Limits(Largest),
   Limits([timeout_ms |-> 500]),
   Section(Empty, [HOME |-> "x", LANG |-> "y"], "/data" :> [host |-> "./data", mode |-> "rw"]),
   Section(Empty, [HOME |-> "z"], "/data" :> [host |-> "/srv", mode |-> "ro"]),
   Section([fuel |-> 1000], Empty, "/tmp" :> [host |-> "/srv", mode |-> "rw"])}

BadSections ==
  {Limits([f \in {g} |-> Smallest[g] - 1]) : g \in Fields}
    \cup {Limits([f \in {g} |-> Largest[g] + 1]) : g \in Capped}
    \cup {Section(Empty, k :> "x", Empty) : k \in {"", "A=B"}}
    \cup {Mounted(p, "/srv", "ro") : p \in {"/", "data", "/a/.."}}
    \cup {Mounted("/data", "", "ro"), Mounted("/data", "/srv", "wo")}

Entry(null, deny, grants) == [null |-> null, deny |-> deny, grants |-> grants]

MCEntries ==
  {Entry(TRUE, FALSE, Bare), Entry(FALSE, TRUE, Bare)}
    \cup {Entry(FALSE, FALSE, s) : s \in GoodSections \cup BadSections}
    \cup {Entry(FALSE, TRUE, s) : s \in GoodSections \ {Bare}}

RawPolicy(version, mode, section, tools) ==
  [version |-> version, unlisted |-> mode, defaults |-> section, tools |-> tools]

MCFiles ==
  {RawPolicy(1, mode, s, read :> e) :
     mode \in {"none", "defaults"}, s \in GoodSections \cup BadSections, e \in MCEntries}
    \cup {RawPolicy(v, mode, Bare, Empty) : v \in 0..2, mode \in {"none", "deny", "defaults", "allow"}}
    \cup {RawPolicy(1, "deny", s, read :> e @@ write :> Entry(FALSE, TRUE, Bare)) :
            s \in GoodSections, e \in MCEntries}
    \cup {RawPolicy(1, "deny", Bare, unnamed :> e) : e \in MCEntries}
=============================================================================
