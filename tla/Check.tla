-------------------------------- MODULE Check --------------------------------
(***************************************************************************)
(* `toolcage check` (cmd_check of src/src/main.rs) over Policy, the host   *)
(* directories it looks for, and the preopens of execute() in              *)
(* src/src/sandbox.rs, which open the same directories when a server that  *)
(* is run with the same policy serves a call.                              *)
(***************************************************************************)
EXTENDS Policy

CONSTANT MaxChanges  \* bound: how often a host directory changes

ASSUME ChangesAssumption == MaxChanges \in Nat
ASSUME PathsAssumption == IsFiniteSet(DOMAIN PathForm)

VARIABLES
  dirs,      \* each host path: a directory, one that may not be opened, or none
  changes,   \* how often one of them changed
  since,     \* the value of changes when the check began, -1 before
  checked,   \* the tools whose grants were looked at
  problems,  \* how many mounts had no directory
  status,    \* the exit status of the check, "none" before
  call       \* the last call's tool, when it was made, and its fate

checking == <<changes, since, checked, problems, status>>
checkVars == <<dirs, checking, call>>

-----------------------------------------------------------------------------
(* cmd_check. *)

(* A step of Policy::load; a file that is refused is reported. *)
Load ==
  /\ Next
  /\ status' = IF stage' = "rejected" THEN "problems" ELSE status
  /\ UNCHANGED <<dirs, changes, since, checked, problems, call>>

(* Mutant: a directory that cannot be opened is a problem, too. *)
Unusable(grant) == {p \in DOMAIN grant.mounts : dirs[grant.mounts[p].host] # "dir"}

(* is_dir() follows the path and opens nothing. *)
Missing(grant) == {p \in DOMAIN grant.mounts : dirs[grant.mounts[p].host] = "missing"}

CheckGrant(grant) ==
  /\ problems' = problems + Cardinality(Missing(grant))
  /\ UNCHANGED <<vars, dirs, changes, status, call>>

Begun == since # -1

CheckDefaults ==
  /\ stage = "loaded" /\ file # NoFile
  /\ ~ Begun
  /\ since' = changes
  /\ CheckGrant(defaults)
  /\ UNCHANGED checked

ToCheck == {n \in DOMAIN rules : Decide(n).decision = "allow"} \ checked

(* Mutant: the defaults are looked at in place of the tool's grant. *)
CheckToolDefaults(name) ==
  /\ Begun
  /\ name \in ToCheck
  /\ CheckGrant(defaults)
  /\ checked' = checked \cup {name}
  /\ UNCHANGED since

CheckTool(name) ==
  /\ Begun
  /\ name \in ToCheck
  /\ CheckGrant(Decide(name).grant)
  /\ checked' = checked \cup {name}
  /\ UNCHANGED since

EndCheck ==
  /\ Begun /\ status = "none"
  /\ ToCheck = {}
  /\ status' = IF problems > 0 THEN "problems" ELSE "ok"
  /\ UNCHANGED <<vars, dirs, changes, since, checked, problems, call>>

-----------------------------------------------------------------------------
(* A server under the same policy, and the host. *)

(* The call fails before its guest runs unless each mount can be opened.   *)
Call(name) ==
  /\ stage = "loaded"
  /\ Decide(name).decision = "allow"
  /\ LET mounts == Decide(name).grant.mounts
         met    == {dirs[mounts[p].host] : p \in DOMAIN mounts}
     IN  call' = [tool |-> name, at |-> changes, met |-> met,
                  result |-> IF met \subseteq {"dir"} THEN "runs" ELSE "internal"]
  /\ UNCHANGED <<vars, dirs, checking>>

Change(host) ==
  /\ changes < MaxChanges
  /\ HostForm[host] # "empty"
  /\ \E d \in {"dir", "locked", "missing"} \ {dirs[host]} : dirs' = [dirs EXCEPT ![host] = d]
  /\ changes' = changes + 1
  /\ UNCHANGED <<vars, since, checked, problems, status, call>>

CheckInit ==
  /\ Init
  /\ dirs = [host \in Hosts |-> "dir"]
  /\ changes = 0 /\ since = -1 /\ checked = {} /\ problems = 0
  /\ status = "none"
  /\ call = [tool |-> "none", at |-> 0, met |-> {}, result |-> "none"]

CheckNext ==
  \/ Load
  \/ CheckDefaults
  \/ \E name \in Names : CheckTool(name) \/ Call(name)
  \/ EndCheck
  \/ \E host \in Hosts : Change(host)

CheckSpec == CheckInit /\ [][CheckNext]_<<vars, checkVars>>

-----------------------------------------------------------------------------
(* Properties. *)

(* "Validate the policy and verify mounted host directories exist": after  *)
(* a check that found no problem, and while no directory has changed since *)
(* it began, a call fails before its guest runs only because a directory   *)
(* may not be opened; never because it is not there, for listed tools and  *)
(* for those that run with the defaults.                                   *)
CheckedMountsOpen ==
  status = "ok" /\ changes = since /\ call.at = since /\ call.result = "internal" =>
    "locked" \in call.met /\ "missing" \notin call.met

(* A check that reports problems found a mount that really has no          *)
(* directory, in the defaults or in the grant of a tool that may run.      *)
NotThere(grant) == \E p \in DOMAIN grant.mounts : dirs[grant.mounts[p].host] = "missing"

ProblemsAreReal ==
  status = "problems" /\ stage = "loaded" /\ changes = since =>
    \/ NotThere(defaults)
    \/ \E n \in Names : Decide(n).decision = "allow" /\ NotThere(Decide(n).grant)
=============================================================================
