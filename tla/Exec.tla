-------------------------------- MODULE Exec --------------------------------
(***************************************************************************)
(* The exec task (exec.c) running one command through spawn_sync,          *)
(* spawn_sync_with_input or spawn_async (util.c): gantt and the command    *)
(* are two processes joined by pipes of bounded capacity.  task_spawn, by  *)
(* which the other tasks run commands, is the case without options.        *)
(*                                                                         *)
(* Data is counted in units, of which a pipe holds Capacity.               *)
(***************************************************************************)
EXTENDS Integers, Sequences, FiniteSets

CONSTANTS
    Capacity,   \* units a pipe holds
    Calls,      \* the exec tasks considered (see Call)
    Unset       \* what a property holds that is not set

\* What a command does, in order: read a unit of stdin, write a unit to
\* stdout or stderr, start a background process that keeps both open.
Op == {"in", "out", "err", "background"}

\* ops and exit are the command's: exit is its status, -1 when a signal ends
\* it, and a command that cannot be executed is <<>> with 127.  input is
\* what stdin is to be fed with; wrong, that the command, the input file or
\* an output file is missing.  captures stands for resultproperty and
\* outputproperty, redirects for `output', spawn and the others are the
\* task's attributes.
Call == [ops : Seq(Op), exit : {0, 1, 127, -1}, input : Nat, osmatches : BOOLEAN,
         wrong : BOOLEAN, spawn : BOOLEAN, redirects : BOOLEAN, captures : BOOLEAN,
         failonerror : BOOLEAN, failifexecutionfails : BOOLEAN]

ASSUME CapacityAssumption == Capacity \in Nat \ {0}
ASSUME UnsetAssumption == Unset \notin Int
ASSUME CallsAssumption == \A c \in Calls : c \in Call

VARIABLES
    call,      \* the task; never changes
    gantt,     \* where exec_invoke stands
    verdict,   \* what it returned
    child,     \* the command: "none", "running" or "exited"
    pos,       \* how many of its ops the command has done
    pipes,     \* units in each pipe
    sent,      \* units written to the command's stdin
    got,       \* units read from its stdout and stderr
    held,      \* a background process has the pipes open
    file,      \* units in the file `output' names
    property   \* resultproperty and outputproperty

vars == <<call, gantt, verdict, child, pos, pipes, sent, got, held, file, property>>

TypeOK ==
    /\ call \in Call
    /\ gantt \in {"start", "write", "stdout", "stderr", "wait", "returned", "killed"}
    /\ verdict \in BOOLEAN
    /\ child \in {"none", "running", "exited"}
    /\ pos \in 0..Len(call.ops)
    /\ pipes \in [{"in", "out", "err"} -> 0..Capacity]
    /\ sent \in 0..call.input
    /\ got \in [out : Nat, err : Nat]
    /\ held \in BOOLEAN
    /\ file \in Nat
    /\ property.result \in {Unset, 0, 1, 127, -1}
    /\ property.output \in Nat \cup {Unset}

Init ==
    /\ call \in Calls
    /\ gantt = "start"
    /\ verdict = FALSE
    /\ child = "none" /\ pos = 0
    /\ pipes = [p \in {"in", "out", "err"} |-> 0]
    /\ sent = 0 /\ got = [out |-> 0, err |-> 0]
    /\ held = FALSE /\ file = 0
    /\ property = [result |-> Unset, output |-> Unset]

-----------------------------------------------------------------------------
(* gantt.  What a step waits for has a name of its own.                    *)

Return(result) ==
    /\ gantt' = "returned"
    /\ verdict' = result

\* exec_invoke before it spawns: another operating system's task is done, a
\* task without command, input or output file fails or not as
\* failifexecutionfails says.
Decided == gantt = "start" /\ (~call.osmatches \/ call.wrong)

Prepare ==
    /\ Decided
    /\ \/ ~call.osmatches /\ Return(TRUE)
       \/ call.osmatches /\ call.wrong /\ Return(~call.failifexecutionfails)
    /\ UNCHANGED <<call, child, pos, pipes, sent, got, held, file, property>>

Ready == gantt = "start" /\ call.osmatches /\ ~call.wrong

\* pipe or fork failed: no child, and failonerror alone decides.
SpawnFailed ==
    /\ Ready
    /\ Return(~call.failonerror)
    /\ UNCHANGED <<call, child, pos, pipes, sent, got, held, file, property>>

\* fork; spawn_async returns at once.
Spawn ==
    /\ Ready
    /\ child' = "running"
    /\ IF call.spawn THEN Return(TRUE)
       ELSE /\ gantt' = IF call.input > 0 THEN "write" ELSE "stdout"
            /\ UNCHANGED verdict
    /\ UNCHANGED <<call, pos, pipes, sent, got, held, file, property>>

\* Mutant: more is written than the pipe holds.
CanWritePastFull == gantt = "write" /\ sent < call.input /\ child = "running"

\* The one blocking write of spawn_sync_with_input, unit by unit.
CanWrite ==
    gantt = "write" /\ sent < call.input /\ child = "running" /\ pipes["in"] < Capacity

Write ==
    /\ CanWrite
    /\ pipes' = [pipes EXCEPT !["in"] = @ + 1]
    /\ sent' = sent + 1
    /\ UNCHANGED <<call, gantt, verdict, child, pos, got, held, file, property>>

\* Nobody can read what is left to write: SIGPIPE, which gantt does not
\* handle, ends it.
NoReader == gantt = "write" /\ sent < call.input /\ child = "exited"

BrokenPipe ==
    /\ NoReader
    /\ gantt' = "killed"
    /\ UNCHANGED <<call, verdict, child, pos, pipes, sent, got, held, file, property>>

\* Mutant: the pipe is closed only when the command has read it empty.
WrittenAndRead == gantt = "write" /\ sent = call.input /\ pipes["in"] = 0

\* All is written; closing the pipe is the command's end of file.
Written == gantt = "write" /\ sent = call.input

CloseInput ==
    /\ Written
    /\ gantt' = "stdout"
    /\ UNCHANGED <<call, verdict, child, pos, pipes, sent, got, held, file, property>>

\* Where exec_invoke stands while it reads a stream.
Reading == [out |-> "stdout", err |-> "stderr"]

\* Mutant: the buffer does not grow.
CanReadFixed(stream) ==
    gantt = Reading[stream] /\ pipes[stream] > 0 /\ got[stream] < Capacity

\* read_all_fd, of stdout first and then of stderr.
CanRead(stream) == gantt = Reading[stream] /\ pipes[stream] > 0

Read(stream) ==
    /\ CanRead(stream)
    /\ pipes' = [pipes EXCEPT ![stream] = @ - 1]
    /\ got' = [got EXCEPT ![stream] = @ + 1]
    /\ UNCHANGED <<call, gantt, verdict, child, pos, sent, held, file, property>>

\* Mutant: an empty pipe is taken for the end of the output.
AtEndWhenEmpty(stream) == gantt = Reading[stream] /\ pipes[stream] = 0

\* read returns 0 when the pipe is empty and no process can write to it.
AtEnd(stream) ==
    gantt = Reading[stream] /\ pipes[stream] = 0 /\ child = "exited" /\ ~held

EndOfFile(stream, then) ==
    /\ AtEnd(stream)
    /\ gantt' = then
    /\ UNCHANGED <<call, verdict, child, pos, pipes, sent, got, held, file, property>>

\* waitpid, and what exec_invoke makes of the result: resultproperty is set
\* always, outputproperty only when there was output.
CanWait == gantt = "wait" /\ child = "exited"

Wait ==
    /\ CanWait
    /\ Return(call.exit = 0 \/ ~call.failonerror)
    /\ property' = IF call.captures
                   THEN [result |-> call.exit,
                         output |-> IF got.out > 0 THEN got.out ELSE Unset]
                   ELSE property
    /\ UNCHANGED <<call, child, pos, pipes, sent, got, held, file>>

-----------------------------------------------------------------------------
(* The command                                                             *)

Doing(op) == child = "running" /\ pos < Len(call.ops) /\ call.ops[pos + 1] = op

Fed == ~call.spawn /\ call.input > 0

\* Without a pipe of its own on stdin the command meets end of file.
CanReadInput == Doing("in") /\ (Fed => pipes["in"] > 0 \/ gantt # "write")

ReadInput ==
    /\ CanReadInput
    /\ \/ /\ Fed /\ pipes["in"] > 0
          /\ pipes' = [pipes EXCEPT !["in"] = @ - 1]
       \/ /\ Fed => pipes["in"] = 0 /\ gantt # "write"
          /\ UNCHANGED pipes
    /\ pos' = pos + 1
    /\ UNCHANGED <<call, gantt, verdict, child, sent, got, held, file, property>>

\* Captured output goes into a pipe, when there is room; that of spawn_async
\* goes to the file, or where gantt's own goes.
CanWriteOutput(stream) == Doing(stream) /\ (call.spawn \/ pipes[stream] < Capacity)

WriteOutput(stream) ==
    /\ CanWriteOutput(stream)
    /\ IF call.spawn
       THEN /\ file' = IF call.redirects /\ stream = "out" THEN file + 1 ELSE file
            /\ UNCHANGED pipes
       ELSE /\ pipes' = [pipes EXCEPT ![stream] = @ + 1]
            /\ UNCHANGED file
    /\ pos' = pos + 1
    /\ UNCHANGED <<call, gantt, verdict, child, sent, got, held, property>>

Background ==
    /\ Doing("background")
    /\ held' = TRUE
    /\ pos' = pos + 1
    /\ UNCHANGED <<call, gantt, verdict, child, pipes, sent, got, file, property>>

CanExit == child = "running" /\ pos = Len(call.ops)

Exit ==
    /\ CanExit
    /\ child' = "exited"
    /\ UNCHANGED <<call, gantt, verdict, pos, pipes, sent, got, held, file, property>>

\* The background process ends, if it ever does.
Release ==
    /\ held
    /\ held' = FALSE
    /\ UNCHANGED <<call, gantt, verdict, child, pos, pipes, sent, got, file, property>>

-----------------------------------------------------------------------------

GanttStep ==
    \/ Prepare \/ SpawnFailed \/ Spawn
    \/ Write \/ BrokenPipe \/ CloseInput
    \/ Read("out") \/ EndOfFile("out", "stderr")
    \/ Read("err") \/ EndOfFile("err", "wait")
    \/ Wait

CommandStep == ReadInput \/ WriteOutput("out") \/ WriteOutput("err") \/ Background \/ Exit

\* What gantt and the command wait for, in the order of their steps.
GanttCanStep ==
    \/ Decided \/ Ready
    \/ CanWrite \/ NoReader \/ Written
    \/ \E stream \in {"out", "err"} : CanRead(stream) \/ AtEnd(stream)
    \/ CanWait

CommandCanStep ==
    \/ CanReadInput \/ CanWriteOutput("out") \/ CanWriteOutput("err")
    \/ Doing("background") \/ CanExit

Next == GanttStep \/ CommandStep \/ Release

\* Both processes run; the background process need not end.
Spec == Init /\ [][Next]_vars /\ WF_vars(GanttStep) /\ WF_vars(CommandStep)

-----------------------------------------------------------------------------

Ended == gantt \in {"returned", "killed"}

Count(op) == Cardinality({i \in DOMAIN call.ops : call.ops[i] = op})

Done(op) == Cardinality({i \in 1..pos : call.ops[i] = op})

Captured == gantt = "returned" /\ child # "none" /\ ~call.spawn

\* Nothing the command wrote is lost on the way: whatever is not in the
\* pipes has been read, and a call that returns has read all of it.
CaptureComplete ==
    /\ ~call.spawn => /\ Done("out") = got.out + pipes["out"]
                      /\ Done("err") = got.err + pipes["err"]
    /\ Captured => /\ got.out = Count("out") /\ got.err = Count("err")
                   /\ sent = call.input

\* The waits there is no way out of: the command blocks on a full stderr
\* while gantt reads stdout to its end; gantt blocks on a full stdin while
\* the command blocks on output nobody reads; the command is gone and a
\* background process keeps open what gantt reads to its end.
StderrBlocks ==
    /\ gantt = "stdout" /\ pipes["out"] = 0
    /\ Doing("err") /\ pipes["err"] = Capacity
StdinBlocks ==
    /\ gantt = "write" /\ sent < call.input /\ pipes["in"] = Capacity
    /\ \E stream \in {"out", "err"} : Doing(stream) /\ pipes[stream] = Capacity
BackgroundBlocks ==
    /\ held /\ child = "exited"
    /\ \E stream \in {"out", "err"} : gantt = Reading[stream] /\ pipes[stream] = 0

\* In these and in no other states do gantt and the command both wait, so
\* that exec_invoke never returns unless a background process lets go.
StuckExplained ==
    ~Ended /\ ~GanttCanStep /\ ~CommandCanStep
        <=> StderrBlocks \/ StdinBlocks \/ BackgroundBlocks

\* A command whose stderr fits into the pipe, and whose input or output does,
\* lets exec_invoke return: no order of its reads and writes makes the two
\* wait for each other.  Only one that leaves a part of its input unread can
\* end gantt instead, by SIGPIPE.
Fits ==
    /\ Count("background") = 0 /\ Count("err") <= Capacity
    /\ call.input <= Capacity \/ Count("out") <= Capacity

FittingReturns ==
    Fits ~> gantt = "returned" \/ (gantt = "killed" /\ Count("in") < call.input)

-----------------------------------------------------------------------------
(* What makes CaptureComplete inductive.                                   *)

\* Neither process is ahead of the other.
InStep ==
    /\ gantt = "start" => child = "none"
    /\ child = "none" => gantt \in {"start", "returned"} /\ pos = 0
    /\ child = "exited" => pos = Len(call.ops)
    /\ call.spawn => gantt \in {"start", "returned"}

\* What gantt has left behind stays done: the input once it is written, and
\* a stream once its end is met, as only an exited command ends one.
StreamsEnd ==
    /\ gantt \in {"stdout", "stderr", "wait"} \/ Captured => sent = call.input
    /\ gantt \in {"stderr", "wait"} \/ Captured => child = "exited" /\ pipes["out"] = 0
    /\ gantt = "wait" \/ Captured => pipes["err"] = 0

IInv == TypeOK /\ InStep /\ StreamsEnd /\ CaptureComplete

=============================================================================
