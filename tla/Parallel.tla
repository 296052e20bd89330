------------------------------ MODULE Parallel ------------------------------
(***************************************************************************)
(* The task tree of one build under <parallel> and <sequential>            *)
(* (property.c).  <parallel> forks a process for every nested task; the    *)
(* child runs task_invoke on a copy of the parent's memory, the property   *)
(* table and the unwritten part of stdout included, and leaves by _exit.   *)
(*                                                                         *)
(* A process is named by the task it was forked for; Root is the task the  *)
(* main process runs.                                                      *)
(***************************************************************************)
EXTENDS Naturals, Functions, Sequences, FiniteSets

CONSTANTS
    Tasks,       \* the tasks of the tree
    Root,        \* the outermost one
    NoProcess,   \* no task: the "process" of a task that has not started
    Trees,       \* the task trees considered (see Tree)
    BufferSize,  \* messages a process's stdout buffer holds
    MaxKills     \* children that a signal may kill

\* failonany is the attribute of a parallel task.
Tree == [kind      : [Tasks -> {"plain", "sequential", "parallel"}],
         nested    : [Tasks -> Seq(Tasks)],
         failonany : [Tasks -> BOOLEAN]]

ASSUME TasksAssumption == Root \in Tasks /\ NoProcess \notin Tasks
ASSUME BufferAssumption == BufferSize \in Nat \ {0} /\ MaxKills \in Nat

\* No task is nested in two places, and Root is nested in none.
ASSUME TreesAssumption ==
    \A x \in Trees :
        /\ x \in Tree
        /\ \A t \in Tasks : \A i \in DOMAIN x.nested[t] :
              /\ x.nested[t][i] # Root
              /\ \A u \in Tasks : \A j \in DOMAIN x.nested[u] :
                    x.nested[t][i] = x.nested[u][j] => t = u /\ i = j
        /\ \A t \in Tasks : x.kind[t] = "plain" => x.nested[t] = <<>>

VARIABLES
    tree,      \* the task tree; never changes
    tty,       \* stdout is a terminal, so every line is written at once
    status,    \* how the task_invoke of each task stands
    process,   \* the process each started task runs in
    next,      \* the position of a task's loop: over nested, then over pids
    success,   \* parallel_invoke's local result
    unforked,  \* the parallel tasks for which a fork failed
    memory,    \* process |-> plain tasks whose properties its table holds
    out        \* stdio: process |-> messages in its stdout buffer;
               \* written: message |-> how often it was written

vars == <<tree, tty, status, process, next, success, unforked, memory, out>>

Outcomes == {"ok", "failed", "killed"}

TypeOK ==
    /\ tree \in Trees
    /\ tty \in BOOLEAN
    /\ status \in [Tasks -> Outcomes \cup {"idle", "running"}]
    /\ process \in [Tasks -> Tasks \cup {NoProcess}]
    /\ next \in [Tasks -> Nat \ {0}]
    /\ \A t \in Tasks :
          next[t] <= (IF tree.kind[t] = "parallel" THEN 2 ELSE 1) * Len(tree.nested[t]) + 1
    /\ success \in [Tasks -> BOOLEAN]
    /\ unforked \subseteq Tasks
    /\ memory \in [Tasks -> SUBSET Tasks]
    /\ out \in [stdio : [Tasks -> SUBSET Tasks], written : [Tasks -> Nat]]

Init ==
    /\ tree \in Trees
    /\ tty \in BOOLEAN
    /\ status = [t \in Tasks |-> IF t = Root THEN "running" ELSE "idle"]
    /\ process = [t \in Tasks |-> IF t = Root THEN Root ELSE NoProcess]
    /\ next = [t \in Tasks |-> 1]
    /\ success = [t \in Tasks |-> TRUE]
    /\ unforked = {}
    /\ memory = [t \in Tasks |-> {}]
    /\ out = [stdio   |-> [t \in Tasks |-> {}],
              written |-> [t \in Tasks |-> 0]]

-----------------------------------------------------------------------------
(* Standard output                                                         *)

Flushed(o, p) ==
    [stdio   |-> [o.stdio EXCEPT ![p] = {}],
     written |-> [m \in Tasks |-> o.written[m] + (IF m \in o.stdio[p] THEN 1 ELSE 0)]]

Discarded(o, p) == [o EXCEPT !.stdio[p] = {}]

\* task_log, by printf: m goes to the terminal, or to the buffer of process
\* p, which is written out first when it is full.
Logged(o, p, m) ==
    IF tty THEN [o EXCEPT !.written[m] = @ + 1]
    ELSE LET room == IF Cardinality(o.stdio[p]) < BufferSize THEN o ELSE Flushed(o, p)
         IN  [room EXCEPT !.stdio[p] = @ \cup {m}]

\* Process p ends: main by exit, which flushes stdout, a child by _exit.
Left(o, p) == IF p = Root THEN Flushed(o, p) ELSE Discarded(o, p)

-----------------------------------------------------------------------------
(* task_invoke                                                             *)

Ended(t) == status[t] \in Outcomes

Running(t, kind) == status[t] = "running" /\ tree.kind[t] = kind

\* task_invoke of t returns; the task a process was forked for ends it.
\* o is the output as t leaves it.
Returns(t, result, o) ==
    /\ status' = [status EXCEPT ![t] = result]
    /\ out' = IF process[t] = t THEN Left(o, t) ELSE o

Verdict(ok) == IF ok THEN "ok" ELSE "failed"

\* Any task without nested tasks: it logs a message and, when it succeeds,
\* has set a property in the memory of its process.
RunPlain(t) ==
    /\ Running(t, "plain")
    /\ \E ok \in BOOLEAN :
          /\ Returns(t, Verdict(ok), Logged(out, process[t], t))
          /\ memory' = [memory EXCEPT ![process[t]] = IF ok THEN @ \cup {t} ELSE @]
    /\ UNCHANGED <<tree, tty, process, next, success, unforked>>

Nested(t) == tree.nested[t]

\* The loop of sequential_invoke calls the next nested task ...
Call(t) ==
    /\ Running(t, "sequential")
    /\ next[t] <= Len(Nested(t))
    /\ LET n == Nested(t)[next[t]] IN
          /\ status[n] = "idle"
          /\ status' = [status EXCEPT ![n] = "running"]
          /\ process' = [process EXCEPT ![n] = process[t]]
    /\ UNCHANGED <<tree, tty, next, success, unforked, memory, out>>

\* Mutants: the loop moves its list pointer twice; a task that returned false
\* is not noticed.
CallReturnedTwice(t) ==
    /\ Running(t, "sequential")
    /\ next[t] <= Len(Nested(t))
    /\ LET n == Nested(t)[next[t]] IN
          \/ /\ status[n] = "ok"
             /\ next' = [next EXCEPT ![t] = @ + 2]
             /\ UNCHANGED <<status, out>>
          \/ /\ status[n] = "failed"
             /\ Returns(t, "failed", out)
             /\ UNCHANGED next
    /\ UNCHANGED <<tree, tty, process, success, unforked, memory>>
CallReturnedTrue(t) ==
    /\ Running(t, "sequential")
    /\ next[t] <= Len(Nested(t))
    /\ status[Nested(t)[next[t]]] = "ok"
    /\ next' = [next EXCEPT ![t] = @ + 1]
    /\ UNCHANGED <<tree, tty, status, process, success, unforked, memory, out>>

\* ... and goes on when it returned true, else returns false.
CallReturned(t) ==
    /\ Running(t, "sequential")
    /\ next[t] <= Len(Nested(t))
    /\ LET n == Nested(t)[next[t]] IN
          \/ /\ status[n] = "ok"
             /\ next' = [next EXCEPT ![t] = @ + 1]
             /\ UNCHANGED <<status, out>>
          \/ /\ status[n] = "failed"
             /\ Returns(t, "failed", out)
             /\ UNCHANGED next
    /\ UNCHANGED <<tree, tty, process, success, unforked, memory>>

SequentialDone(t) ==
    /\ Running(t, "sequential")
    /\ next[t] > Len(Nested(t))
    /\ Returns(t, "ok", out)
    /\ UNCHANGED <<tree, tty, process, next, success, unforked, memory>>

\* parallel_invoke forks a child for the next nested task.
Fork(t) ==
    /\ Running(t, "parallel")
    /\ next[t] <= Len(Nested(t))
    /\ LET n == Nested(t)[next[t]] IN
          /\ status' = [status EXCEPT ![n] = "running"]
          /\ process' = [process EXCEPT ![n] = n]
          /\ memory' = [memory EXCEPT ![n] = memory[process[t]]]
          /\ out' = [out EXCEPT !.stdio[n] = out.stdio[process[t]]]
    /\ next' = [next EXCEPT ![t] = @ + 1]
    /\ UNCHANGED <<tree, tty, success, unforked>>

\* fork returned -1: parallel_invoke returns false at once, whatever the
\* children forked so far are doing.
ForkFailed(t) ==
    /\ Running(t, "parallel")
    /\ next[t] <= Len(Nested(t))
    /\ unforked' = unforked \cup {t}
    /\ Returns(t, "failed", out)
    /\ UNCHANGED <<tree, tty, process, next, success, memory>>

\* The child parallel_invoke waits for: one after the other, in fork order.
Awaited(t) == Nested(t)[next[t] - Len(Nested(t))]

Waiting(t) == Running(t, "parallel") /\ next[t] \in Len(Nested(t)) + 1 .. 2 * Len(Nested(t))

\* Mutants: waitpid does not wait; only an exit status counts as failure.
WaitNot(t) ==
    /\ Waiting(t)
    /\ success' = [success EXCEPT ![t] =
                      @ /\ (status[Awaited(t)] \in {"failed", "killed"} => ~tree.failonany[t])]
    /\ next' = [next EXCEPT ![t] = @ + 1]
    /\ UNCHANGED <<tree, tty, status, process, unforked, memory, out>>
WaitExited(t) ==
    /\ Waiting(t)
    /\ Ended(Awaited(t))
    /\ success' = [success EXCEPT ![t] =
                      @ /\ (status[Awaited(t)] = "failed" => ~tree.failonany[t])]
    /\ next' = [next EXCEPT ![t] = @ + 1]
    /\ UNCHANGED <<tree, tty, status, process, unforked, memory, out>>

\* waitpid: a child that exited with another status than 0, or was killed by
\* a signal, fails a parallel task with failonany.
Wait(t) ==
    /\ Waiting(t)
    /\ Ended(Awaited(t))
    /\ success' = [success EXCEPT ![t] =
                      @ /\ (status[Awaited(t)] # "ok" => ~tree.failonany[t])]
    /\ next' = [next EXCEPT ![t] = @ + 1]
    /\ UNCHANGED <<tree, tty, status, process, unforked, memory, out>>

ParallelDone(t) ==
    /\ Running(t, "parallel")
    /\ next[t] > 2 * Len(Nested(t))
    /\ Returns(t, Verdict(success[t]), out)
    /\ UNCHANGED <<tree, tty, process, next, success, unforked, memory>>

Killed == {t \in Tasks : status[t] = "killed" /\ process[t] = t}

\* A signal ends the child forked for p, with every task it is running; its
\* own children live on.
Kill(p) ==
    /\ p # Root /\ process[p] = p /\ status[p] = "running"
    /\ Cardinality(Killed) < MaxKills
    /\ status' = [t \in Tasks |-> IF process[t] = p /\ status[t] = "running"
                                  THEN "killed" ELSE status[t]]
    /\ out' = Discarded(out, p)
    /\ UNCHANGED <<tree, tty, process, next, success, unforked, memory>>

TaskStep(t) ==
    \/ RunPlain(t)
    \/ Call(t) \/ CallReturned(t) \/ SequentialDone(t)
    \/ Fork(t) \/ ForkFailed(t) \/ Wait(t) \/ ParallelDone(t)

\* Nothing runs any more.
Quiet == \A t \in Tasks : status[t] # "running"

Done == Quiet /\ UNCHANGED vars

Next == (\E t \in Tasks : TaskStep(t) \/ Kill(t)) \/ Done

\* Every process runs on, and every plain task returns.
Spec == Init /\ [][Next]_vars /\ \A t \in Tasks : WF_vars(TaskStep(t))

-----------------------------------------------------------------------------

\* The tasks nested in t, directly or in another task.
Inside(t) ==
    {u \in Tasks : \A S \in SUBSET Tasks :
        (\A v \in S \cup {t} : Range(Nested(v)) \subseteq S) => u \in S}

\* No process outlives the parallel task that forked it without a reason: a
\* fork that failed above it, or a signal that killed a process above it.
OrphansExplained ==
    \A t, u \in Tasks :
        Ended(t) /\ status[u] = "running" /\ u \in Inside(t) =>
            \E v \in {t} \cup Inside(t) :
                u \in Inside(v) /\ (v \in unforked \/ status[v] = "killed")

\* A parallel task whose children were all forked succeeds or fails as they
\* did: with failonany one child that failed or was killed fails it, without
\* none does.
VerdictReflectsChildren ==
    \A t \in Tasks \ unforked :
        tree.kind[t] = "parallel" /\ status[t] \in {"ok", "failed"} =>
            (status[t] = "ok" <=>
                \A n \in Range(Nested(t)) : Ended(n) /\ (tree.failonany[t] => status[n] = "ok"))

\* What makes these two inductive.  The loop of a sequential task has run
\* every task it has passed and none of those behind, and a task it runs is
\* part of its process; ...
SequentialInStep(t) ==
    \A i \in DOMAIN Nested(t) :
        LET n == Nested(t)[i] IN
        /\ i < next[t] => status[n] = "ok"
        /\ i > next[t] => status[n] = "idle"
        /\ status[n] = "running" => status[t] = "running" /\ process[n] = process[t]

\* ... those of a parallel task have forked the tasks they have passed and
\* waited for them in turn, and success is what the ended ones leave of it.
ParallelInStep(t) ==
    LET Waited == {i \in DOMAIN Nested(t) : i + Len(Nested(t)) < next[t]} IN
    /\ \A i \in DOMAIN Nested(t) : status[Nested(t)[i]] = "idle" <=> i >= next[t]
    /\ \A i \in Waited : Ended(Nested(t)[i])
    /\ success[t] <=> \A i \in Waited : tree.failonany[t] => status[Nested(t)[i]] = "ok"
    /\ status[t] \in {"ok", "failed"} /\ t \notin unforked =>
          /\ next[t] > 2 * Len(Nested(t))
          /\ status[t] = "ok" <=> success[t]

InStep(t) ==
    /\ status[t] = "idle" => next[t] = 1
    /\ status[t] # "idle" => process[t] \in Tasks
    /\ tree.kind[t] = "sequential" => SequentialInStep(t)
    /\ tree.kind[t] = "parallel" => ParallelInStep(t)

IInv == TypeOK /\ \A t \in Tasks : InStep(t)

\* Every build ends, and no process is left waiting for another.
EventuallyQuiet == <>[]Quiet

-----------------------------------------------------------------------------
(* What comments in the source claim, and the code does not do.            *)

\* "Logs a message to the console" (echo.c): a task that has run has its
\* message written when all is over.
MessagesReachConsole ==
    Quiet /\ Killed = {} /\ unforked = {} =>
        \A t \in Tasks : tree.kind[t] = "plain" /\ Ended(t) => out.written[t] >= 1

=============================================================================
