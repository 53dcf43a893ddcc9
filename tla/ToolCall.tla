------------------------------ MODULE ToolCall ------------------------------
(***************************************************************************)
(* What a Runner promises the server loop (the trait of                    *)
(* src/src/runner.rs as the sandbox implements it), without threads,       *)
(* channels or clocks: calls are served one at a time, each is answered at *)
(* most once, and when a call is answered with anything but "timeout"      *)
(* there is no guest left that could still act in its name.                *)
(***************************************************************************)
CONSTANTS
  Calls,     \* the calls the server loop may make
  None,      \* no call
  Outcomes   \* what a call may be answered with, "timeout" among it

VARIABLES
  open,      \* the call being served, or None
  acting,    \* the calls whose guest may still act
  outcome    \* what each call was answered with, "none" before

vars == <<open, acting, outcome>>

Init ==
  /\ open = None
  /\ acting = {}
  /\ outcome = [c \in Calls |-> "none"]

Begin(c) ==
  /\ open = None
  /\ c \notin acting
  /\ outcome[c] = "none"
  /\ open' = c
  /\ acting' = acting \cup {c}
  /\ UNCHANGED outcome

(* The guest of c ends, in time or long after its call was answered. *)
Stop(c) ==
  /\ c \in acting
  /\ acting' = acting \ {c}
  /\ UNCHANGED <<open, outcome>>

Answer(o) ==
  /\ open # None
  /\ open \in acting => o = "timeout"
  /\ outcome' = [outcome EXCEPT ![open] = o]
  /\ open' = None
  /\ UNCHANGED acting

(* The process ends, during a call or between two, and every guest with it. *)
Crash ==
  /\ open' = None
  /\ acting' = {}
  /\ UNCHANGED outcome

Next ==
  \/ \E c \in Calls : Begin(c)
  \/ \E c \in Calls : Stop(c)
  \/ \E o \in Outcomes : Answer(o)
  \/ Crash

Spec == Init /\ [][Next]_vars

(* A call that was begun is answered, whatever its guest does. *)
FairSpec == Spec /\ WF_vars(\E o \in Outcomes : Answer(o))

=============================================================================
