----------------------------- MODULE TargetExec -----------------------------
(***************************************************************************)
(* One gantt process executing targets: main's loop over the requested     *)
(* targets (gantt.c), the recursive target_invoke (target.c) and the       *)
(* antcall task, which calls target_invoke again with tables of its own    *)
(* (property.c).                                                           *)
(*                                                                         *)
(* The recursion is explicit.  A scope is one pair of context/completed    *)
(* hashtables together with the activations of target_invoke that share    *)
(* it: main creates the first scope, every antcall one more on top.  The   *)
(* innermost activation of the innermost scope is the one that runs.       *)
(***************************************************************************)
EXTENDS SequencesExt

CONSTANTS
    Targets,     \* the targets of the parsed build file
    Missing,     \* a name that no target of the build file has
    Plain,       \* any task but antcall: it runs, and returns true or false
    Builds,      \* the build files considered (see Build)
    StackLimit   \* activations of target_invoke the C stack has room for

Names == Targets \cup {Missing}

\* What the parser leaves for the executor.  A member of tasks[t] is Plain
\* or the name an <antcall> calls.  requested is the command line and
\* default the <project default>; disabled are the targets whose `if'
\* property is not set or whose `unless' property is.
Build == [depends   : [Targets -> Seq(Targets)],
          tasks     : [Targets -> Seq(Names \cup {Plain})],
          requested : Seq(Names),
          default   : Names,
          disabled  : SUBSET Targets]

ASSUME NamesAssumption == Missing \notin Targets /\ Plain \notin Names
ASSUME BuildsAssumption == \A b \in Builds : b \in Build
ASSUME StackAssumption == StackLimit \in Nat \ {0}

VARIABLES
    build,    \* the build file and command line; never changes
    scopes,   \* stack of scopes, the innermost last
    outcome   \* how the process stands, or ended

vars == <<build, scopes, outcome>>

\* An activation of target_invoke: its loop over depends_list, then its loop
\* over task_list; next is the position of the loop's list pointer.
Frame == [target : Targets, phase : {"depends", "tasks"}, next : Nat \ {0}]

\* goals: targets still to be invoked at the bottom of the scope; base:
\* activations already on the C stack when the scope began.
Scope == [goals : Seq(Targets), base : Nat, context : SUBSET Targets,
          completed : SUBSET Targets, frames : Seq(Frame)]

Failures == {"unknown target", "recursive", "task failed", "no antcall target"}
Ended == Failures \cup {"success", "stack overflow"}

TypeOK ==
    /\ build \in Build
    /\ scopes \in Seq(Scope)
    /\ outcome \in Ended \cup {"lookup", "running"}
    /\ outcome = "running" => scopes # <<>>
    /\ outcome = "lookup" => scopes = <<>>

-----------------------------------------------------------------------------

Init ==
    /\ build \in Builds
    /\ scopes = <<>>
    /\ outcome = "lookup"

NewScope(goals, base) ==
    [goals |-> goals, base |-> base,
     context |-> {}, completed |-> {}, frames |-> <<>>]

\* The targets main invokes: those of the command line, else the default.
Wanted == IF build.requested = <<>> THEN <<build.default>> ELSE build.requested

\* main looks every wanted target up before it invokes the first one.
LookupTargets ==
    /\ outcome = "lookup"
    /\ IF Range(Wanted) \subseteq Targets
       THEN outcome' = "running" /\ scopes' = <<NewScope(Wanted, 0)>>
       ELSE outcome' = "unknown target" /\ UNCHANGED scopes
    /\ UNCHANGED build

-----------------------------------------------------------------------------
(* One activation, in one scope s of a build with dependency lists d.      *)

Here(s) == Last(s.frames)

Depth(s) == s.base + Len(s.frames)

InFrame(s, phase) == s.frames # <<>> /\ Here(s).phase = phase

\* The scope is about to call target_invoke for t ...
Calls(d, s, t) ==
    \/ /\ s.frames = <<>> /\ s.goals # <<>>
       /\ t = Head(s.goals)
    \/ /\ InFrame(s, "depends")
       /\ Here(s).next <= Len(d[Here(s).target])
       /\ t = d[Here(s).target][Here(s).next]

SetHere(s, frame) == [s EXCEPT !.frames = [@ EXCEPT ![Len(@)] = frame]]

\* ... and moves the list pointer of its loop on.
Advanced(s) ==
    IF s.frames = <<>>
    THEN [s EXCEPT !.goals = Tail(@)]
    ELSE SetHere(s, [Here(s) EXCEPT !.next = @ + 1])

\* Mutant: the target is not inserted into the context.
EnteredUnmarked(s, t) ==
    [Advanced(s) EXCEPT
        !.frames = Append(@, [target |-> t, phase |-> "depends", next |-> 1])]

\* The called target enters the context and begins with its dependencies.
Entered(s, t) ==
    [Advanced(s) EXCEPT
        !.context = @ \cup {t},
        !.frames = Append(@, [target |-> t, phase |-> "depends", next |-> 1])]

\* Mutant: the target is not removed from the context.
StartedMarked(s) ==
    SetHere(s, [target |-> Here(s).target, phase |-> "tasks", next |-> 1])

\* The dependencies are done: leave the context, start the task loop.
Started(s) ==
    [SetHere(s, [target |-> Here(s).target, phase |-> "tasks", next |-> 1])
        EXCEPT !.context = @ \ {Here(s).target}]

\* Mutants: the target is not recorded, or replaces those recorded before.
CompletedUnrecorded(s) == [s EXCEPT !.frames = Front(@)]
CompletedAlone(s) ==
    [s EXCEPT !.completed = {Here(s).target}, !.frames = Front(@)]

\* The tasks are done: record the target and return.
Completed(s) ==
    [s EXCEPT !.completed = @ \cup {Here(s).target}, !.frames = Front(@)]

-----------------------------------------------------------------------------
(* The process                                                             *)

Top == Last(scopes)

Running == outcome = "running"

Continue(s) ==
    /\ scopes' = [scopes EXCEPT ![Len(scopes)] = s]
    /\ UNCHANGED <<build, outcome>>

\* A false result makes every caller return false at once, up to main.
Stop(why) ==
    /\ outcome' = why
    /\ UNCHANGED <<build, scopes>>

\* Mutant: the caller's list pointer stays where it is.
InvokeCompletedStuck(t) ==
    /\ Running /\ Calls(build.depends, Top, t)
    /\ t \in Top.completed
    /\ Continue(Top)

InvokeCompleted(t) ==
    /\ Running /\ Calls(build.depends, Top, t)
    /\ t \in Top.completed
    /\ Continue(Advanced(Top))

\* Mutants: one table serves for both checks; a recursion is passed over.
InvokeRecursiveOneTable(t) ==
    /\ Running /\ Calls(build.depends, Top, t)
    /\ t \in Top.context \cup Top.completed
    /\ Stop("recursive")
InvokeRecursiveSkipped(t) ==
    /\ Running /\ Calls(build.depends, Top, t)
    /\ t \in Top.context
    /\ Continue(Advanced(Top))

InvokeRecursive(t) ==
    /\ Running /\ Calls(build.depends, Top, t)
    /\ t \notin Top.completed
    /\ t \in Top.context
    /\ Stop("recursive")

\* Mutant: a completed target is activated again.
EnterAgain(t) ==
    /\ Running /\ Calls(build.depends, Top, t)
    /\ t \notin Top.context
    /\ IF Depth(Top) < StackLimit
       THEN Continue(Entered(Top, t))
       ELSE Stop("stack overflow")

Enter(t) ==
    /\ Running /\ Calls(build.depends, Top, t)
    /\ t \notin Top.completed
    /\ t \notin Top.context
    /\ IF Depth(Top) < StackLimit
       THEN Continue(Entered(Top, t))
       ELSE Stop("stack overflow")

\* Mutant: the last dependency is left out.
StartTasksEarly ==
    /\ Running /\ InFrame(Top, "depends")
    /\ Here(Top).next >= Len(build.depends[Here(Top).target])
    /\ Continue(Started(Top))

StartTasks ==
    /\ Running /\ InFrame(Top, "depends")
    /\ Here(Top).next > Len(build.depends[Here(Top).target])
    /\ Continue(Started(Top))

\* task is the next one of the innermost task loop.
Task(task) ==
    /\ Running /\ InFrame(Top, "tasks")
    /\ Here(Top).next <= Len(build.tasks[Here(Top).target])
    /\ task = build.tasks[Here(Top).target][Here(Top).next]

RunPlain ==
    /\ Task(Plain)
    /\ Continue(Advanced(Top)) \/ Stop("task failed")

\* antcall: the called target runs under fresh tables; the caller's task
\* loop resumes behind the task when the scope is gone again.
Antcall(t) ==
    /\ Task(t)
    /\ scopes' = Append([scopes EXCEPT ![Len(scopes)] = Advanced(Top)],
                        NewScope(<<t>>, Depth(Top)))
    /\ UNCHANGED <<build, outcome>>

AntcallMissing ==
    /\ Task(Missing)
    /\ Stop("no antcall target")

Complete ==
    /\ Running /\ InFrame(Top, "tasks")
    /\ Here(Top).next > Len(build.tasks[Here(Top).target])
    /\ Continue(Completed(Top))

ScopeDone == Running /\ Top.frames = <<>> /\ Top.goals = <<>>

\* target_invoke returned true to antcall_invoke, which frees its tables.
ReturnAntcall ==
    /\ ScopeDone
    /\ Len(scopes) > 1
    /\ scopes' = Front(scopes)
    /\ UNCHANGED <<build, outcome>>

Succeed ==
    /\ ScopeDone
    /\ Len(scopes) = 1
    /\ Stop("success")

\* The process has exited.
Exited == outcome \in Ended /\ UNCHANGED vars

Step ==
    \/ LookupTargets
    \/ \E t \in Targets : \/ InvokeCompleted(t) \/ InvokeRecursive(t)
                          \/ Enter(t) \/ Antcall(t)
    \/ StartTasks \/ RunPlain \/ AntcallMissing \/ Complete
    \/ ReturnAntcall \/ Succeed

Next == Step \/ Exited

\* A single thread runs on its own, and every plain task returns.
Spec == Init /\ [][Next]_vars /\ WF_vars(Step)

-----------------------------------------------------------------------------
(* The dependency graph d.                                                 *)

DependsOf(d, t) == Range(d[t])

Closed(d, S) == \A t \in S : DependsOf(d, t) \subseteq S

\* u depends on t, directly or through other targets.
Below(d, u, t) ==
    \A S \in SUBSET Targets : Closed(d, S) /\ DependsOf(d, u) \subseteq S => t \in S

\* The targets of the activations in one of the given phases.
TargetsIn(s, phases) ==
    {s.frames[i].target : i \in {j \in DOMAIN s.frames : s.frames[j].phase \in phases}}

-----------------------------------------------------------------------------
(* Safety                                                                  *)

BodiesInOrder(d, s) ==
    \A t \in s.completed \cup TargetsIn(s, {"tasks"}) : DependsOf(d, t) \subseteq s.completed

\* A target's tasks run only after every dependency has completed under the
\* same tables, and a completed target's dependencies are completed too
\* (target_invoke runs depends_list before task_list).
DependenciesFirst ==
    \A k \in DOMAIN scopes : BodiesInOrder(build.depends, scopes[k])

ActiveOnce(s) ==
    /\ \A i, j \in DOMAIN s.frames : s.frames[i].target = s.frames[j].target => i = j
    /\ \A i \in DOMAIN s.frames : s.frames[i].target \notin s.completed

\* Under one pair of tables a target is activated at most once at a time and
\* never again once completed, although it has left `context' while its
\* tasks run: a diamond of dependencies runs each body once.
AtMostOnce == \A k \in DOMAIN scopes : ActiveOnce(scopes[k])

PathInContext(s) == s.context = TargetsIn(s, {"depends"})

\* `context' holds exactly the targets whose dependencies are being run: the
\* entries hashtable_remove takes out are the ones hashtable_insert put in.
ContextIsPath == \A k \in DOMAIN scopes : PathInContext(scopes[k])

\* "This target is recursively defined" is reported only for a target that
\* depends on itself, never for a diamond or for an antcall to a caller.
RecursionIsCycle ==
    outcome = "recursive" =>
        \E t \in Top.context : Calls(build.depends, Top, t) /\ Below(build.depends, t, t)

CompletedAcyclic(d, s) == \A t \in s.completed : ~Below(d, t, t)

\* A target that depends on itself never completes, so no build that needs
\* one is reported successful.
CyclesNeverComplete ==
    \A k \in DOMAIN scopes : CompletedAcyclic(build.depends, scopes[k])

\* "BUILD SUCCESSFUL" means every wanted target completed under main's
\* tables, so by DependenciesFirst everything they depend on did.
SuccessMeansAll ==
    outcome = "success" =>
        /\ Range(Wanted) \subseteq scopes[1].completed
        /\ scopes[1].context = {}

\* Nothing runs when one of the wanted targets does not exist: all are
\* looked up before the first is invoked.
UnknownRunsNothing ==
    ~(Range(Wanted) \subseteq Targets) => scopes = <<>>

\* The targets t antcalls, those one activation of t may activate in turn,
\* and those that may be active above u, u included.
Called(t) == Targets \cap Range(build.tasks[t])

Activates(t) == DependsOf(build.depends, t) \cup Called(t)

Reaches(u, t) ==
    \A S \in SUBSET Targets : (\A v \in S : Activates(v) \subseteq S) /\ u \in S => t \in S

\* The stack overflows only where targets antcall themselves, directly or
\* through other targets; a dependency cycle that an antcall closes is one
\* that the context table, being the callee's own, cannot see.
OverflowIsAntcallCycle ==
    outcome = "stack overflow" => \E t \in Targets : \E u \in Called(t) : Reaches(u, t)

\* `completed' only grows: what one activation has recorded no later one
\* under the same tables takes back.
CompletedGrows ==
    [][\A k \in DOMAIN scopes \cap DOMAIN scopes' :
          scopes[k].completed \subseteq scopes'[k].completed]_vars

\* README.md promises conditional execution: the tasks of a target whose
\* `if' or `unless' attribute rules it out do not run.
DisabledNeverRun ==
    \A k \in DOMAIN scopes : TargetsIn(scopes[k], {"tasks"}) \cap build.disabled = {}

-----------------------------------------------------------------------------
(* What makes the invariants inductive.                                    *)

\* A task loop runs only innermost; a dependency loop has completed what its
\* pointer has passed, except for the dependency being run above it.
LoopInStep(d, s, i) ==
    LET f == s.frames[i] IN
    IF f.phase = "tasks"
    THEN i = Len(s.frames)
    ELSE \A j \in 1..f.next - 1 :
            /\ j <= Len(d[f.target])
            /\ \/ d[f.target][j] \in s.completed
               \/ i < Len(s.frames) /\ s.frames[i + 1].target = d[f.target][j]

LoopsInStep(d, s) == \A i \in DOMAIN s.frames : LoopInStep(d, s, i)

\* The activations form a path of the dependency graph.
FramesArePath(d, s) ==
    \A i, j \in DOMAIN s.frames :
        i < j => Below(d, s.frames[i].target, s.frames[j].target)

ScopeInv(d, s) ==
    /\ BodiesInOrder(d, s)
    /\ ActiveOnce(s)
    /\ PathInContext(s)
    /\ CompletedAcyclic(d, s)
    /\ LoopsInStep(d, s)
    /\ FramesArePath(d, s)

\* A wanted target is still to be invoked, active, or completed.
NoGoalLost ==
    scopes # <<>> =>
        Range(Wanted) \subseteq Range(scopes[1].goals) \cup scopes[1].completed
                                \cup TargetsIn(scopes[1], {"depends", "tasks"})

IInv ==
    /\ TypeOK
    /\ \A k \in DOMAIN scopes : ScopeInv(build.depends, scopes[k])
    /\ NoGoalLost
    /\ RecursionIsCycle
    /\ SuccessMeansAll
    /\ UnknownRunsNothing

\* What a scope is, or will be, asked to run.
Asked(s) == Range(s.goals) \cup TargetsIn(s, {"depends", "tasks"})

\* The scopes below the innermost one are in the antcalls that opened those
\* above them, and base counts the activations they have on the C stack.
StackInv ==
    /\ \A k, l \in DOMAIN scopes : k < l =>
          /\ InFrame(scopes[k], "tasks")
          /\ Depth(scopes[k]) <= scopes[l].base
          /\ \A x \in Asked(scopes[l]) :
                \E w \in Called(Here(scopes[k]).target) : Reaches(w, x)
    /\ scopes # <<>> =>
          \A d \in 1..Depth(Top) :
              \E k \in DOMAIN scopes : \E i \in DOMAIN scopes[k].frames :
                  d = scopes[k].base + i

-----------------------------------------------------------------------------
(* Main's scope implements BuildOrder; antcalls are part of the body that  *)
(* makes them.                                                             *)

MainDone == IF scopes = <<>> THEN {} ELSE scopes[1].completed

MainBody ==
    IF scopes # <<>> /\ TargetsIn(scopes[1], {"tasks"}) # {}
    THEN Last(scopes[1].frames).target
    ELSE Missing

MainVerdict ==
    CASE outcome \in {"lookup", "running"} -> "running"
      [] outcome = "success" -> "success"
      [] OTHER -> "failure"

Order == INSTANCE BuildOrder WITH
            NoTarget <- Missing, depends <- build.depends, wanted <- Wanted,
            done <- MainDone, body <- MainBody, verdict <- MainVerdict

\* Target execution implements the abstract build order: the bodies main's
\* tables record are run one at a time, in dependency order, each once, and
\* only for targets the wanted ones need.
ImplementsBuildOrder == Order!Spec

\* What its proof needs beyond IInv: main's scope is only ever asked for what
\* the wanted targets need.
OnlyNeeded ==
    scopes # <<>> =>
        /\ Range(scopes[1].goals) \subseteq Range(Wanted)
        /\ \A i \in DOMAIN scopes[1].frames : Order!Needed(scopes[1].frames[i].target)

-----------------------------------------------------------------------------
(* Liveness: every build ends, cyclic dependencies and antcalls included.  *)

Terminates == <>(outcome \in Ended)

=============================================================================
