------------------------------ MODULE BuildOrder ------------------------------
(***************************************************************************)
(* What target execution promises, without recursion, tables or antcalls:  *)
(* bodies run one at a time, each after the targets it depends on and at   *)
(* most once, only targets the wanted ones need have their body run, and   *)
(* the build succeeds only when every wanted target is done.  TargetExec   *)
(* implements it.                                                          *)
(***************************************************************************)
EXTENDS Sequences, Functions

CONSTANTS Targets, NoTarget

VARIABLES
    depends,   \* the dependency graph; never changes
    wanted,    \* the names of the targets asked for; never changes
    done,      \* targets whose body has run to its end
    body,      \* the target whose body is running, or NoTarget
    verdict    \* "running", "success" or "failure"

vars == <<depends, wanted, done, body, verdict>>

Closed(S) == \A t \in S : Range(depends[t]) \subseteq S

\* t is wanted, or something wanted depends on it.
Needed(t) == \A S \in SUBSET Targets : Closed(S) /\ Range(wanted) \subseteq S => t \in S

Init ==
    /\ done = {}
    /\ body = NoTarget
    /\ verdict = "running"

Begin(t) ==
    /\ verdict = "running" /\ body = NoTarget
    /\ t \notin done
    /\ Range(depends[t]) \subseteq done
    /\ Needed(t)
    /\ body' = t
    /\ UNCHANGED <<depends, wanted, done, verdict>>

Finish ==
    /\ verdict = "running" /\ body # NoTarget
    /\ done' = done \cup {body}
    /\ body' = NoTarget
    /\ UNCHANGED <<depends, wanted, verdict>>

Succeed ==
    /\ verdict = "running" /\ body = NoTarget
    /\ Range(wanted) \subseteq done
    /\ verdict' = "success"
    /\ UNCHANGED <<depends, wanted, done, body>>

Fail ==
    /\ verdict = "running"
    /\ verdict' = "failure"
    /\ UNCHANGED <<depends, wanted, done, body>>

Next == (\E t \in Targets : Begin(t)) \/ Finish \/ Succeed \/ Fail

Spec == Init /\ [][Next]_vars
=============================================================================
