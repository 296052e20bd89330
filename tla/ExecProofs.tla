------------------------------ MODULE ExecProofs ------------------------------
(***************************************************************************)
(* Theorems about Exec, for every command, every option and every capacity *)
(* of a pipe.                                                              *)
(***************************************************************************)
EXTENDS Exec, FiniteSetTheorems, TLAPS

-----------------------------------------------------------------------------
(* How often a command has done an operation                               *)

CountUpTo(ops, n, op) == Cardinality({i \in 1..n : ops[i] = op})

\* Nothing is done at first, and each step counts once.
LEMMA CountNone == \A ops, op : CountUpTo(ops, 0, op) = 0
<1>1. \A ops, op : {i \in 1..0 : ops[i] = op} = {}
  OBVIOUS
<1> QED
  BY <1>1, FS_EmptySet DEF CountUpTo

LEMMA CountStep ==
  ASSUME NEW ops, NEW n \in Nat, NEW op
  PROVE  /\ CountUpTo(ops, n, op) \in Nat
         /\ CountUpTo(ops, n + 1, op) =
              CountUpTo(ops, n, op) + (IF ops[n + 1] = op THEN 1 ELSE 0)
<1> DEFINE S == {i \in 1..n : ops[i] = op}
<1> DEFINE T == {i \in 1..n + 1 : ops[i] = op}
<1>1. IsFiniteSet(1..n)
  BY FS_Interval
<1>2. IsFiniteSet(S) /\ Cardinality(S) \in Nat
  BY <1>1, FS_Subset, FS_CardinalityType
<1>3. CASE ops[n + 1] = op
  <2>1. T = S \cup {n + 1} /\ n + 1 \notin S
    BY <1>3
  <2> QED
    BY <1>2, <1>3, <2>1, FS_AddElement DEF CountUpTo
<1>4. CASE ops[n + 1] # op
  <2>1. T = S
    BY <1>4
  <2> QED
    BY <1>2, <1>4, <2>1 DEF CountUpTo
<1> QED
  BY <1>3, <1>4

\* Done and Count in these terms.
LEMMA DoneIsCount == \A op : Done(op) = CountUpTo(call.ops, pos, op)
  BY DEF Done, CountUpTo

LEMMA AllIsCount ==
  ASSUME call \in Call
  PROVE  \A op : Count(op) = CountUpTo(call.ops, Len(call.ops), op)
<1>1. DOMAIN call.ops = 1..Len(call.ops)
  BY DEF Call
<1> QED
  BY <1>1 DEF Count, CountUpTo

-----------------------------------------------------------------------------
(* The invariant                                                           *)

LEMMA InitIInv == Init => IInv
<1> SUFFICES ASSUME Init PROVE IInv
  OBVIOUS
<1>1. call \in Call /\ Len(call.ops) \in Nat /\ call.input \in Nat
  BY CallsAssumption DEF Init, Call
<1>2. TypeOK
  <2>1. pipes \in [{"in", "out", "err"} -> 0..Capacity]
    BY CapacityAssumption DEF Init
  <2>2. got \in [out : Nat, err : Nat]
    BY DEF Init
  <2>3. property.result \in {Unset, 0, 1, 127, -1} /\ property.output \in Nat \cup {Unset}
    BY DEF Init
  <2>4. sent \in 0..call.input /\ pos \in 0..Len(call.ops)
    BY <1>1 DEF Init
  <2> QED
    BY <1>1, <2>1, <2>2, <2>3, <2>4 DEF Init, TypeOK
<1>3. InStep /\ StreamsEnd
  BY DEF Init, InStep, StreamsEnd, Captured
<1>4. CaptureComplete
  BY DoneIsCount, CountNone DEF Init, CaptureComplete, Captured
<1> QED
  BY <1>2, <1>3, <1>4 DEF IInv


LEMMA CallType ==
  ASSUME TypeOK
  PROVE  /\ call.ops \in Seq(Op) /\ Len(call.ops) \in Nat /\ call.input \in Nat
         /\ call.exit \in {0, 1, 127, -1}
         /\ call.spawn \in BOOLEAN /\ call.failonerror \in BOOLEAN
         /\ call.failifexecutionfails \in BOOLEAN
         /\ Capacity \in Nat \ {0}
  BY CapacityAssumption DEF TypeOK, Call

\* A stream gains or loses a unit within the capacity of its pipe.
LEMMA PipeStep ==
  ASSUME TypeOK, NEW p \in {"in", "out", "err"}
  PROVE  /\ pipes[p] \in 0..Capacity
         /\ pipes[p] < Capacity =>
              [pipes EXCEPT ![p] = @ + 1] \in [{"in", "out", "err"} -> 0..Capacity]
         /\ pipes[p] > 0 =>
              [pipes EXCEPT ![p] = @ - 1] \in [{"in", "out", "err"} -> 0..Capacity]
  BY CapacityAssumption DEF TypeOK

\* gantt's steps and the command's, one by one, keep every variable's type.
LEMMA TypeStep ==
  ASSUME TypeOK, [Next]_vars
  PROVE  TypeOK'
<1> USE CallType
<1>1. CASE Prepare
  BY ZenonT(40), <1>1 DEF Prepare, Decided, Return, TypeOK
<1>2. CASE SpawnFailed
  BY <1>2 DEF SpawnFailed, Return, TypeOK
<1>3. CASE Spawn
  BY ZenonT(40), <1>3 DEF Spawn, Return, TypeOK
<1>4. CASE Write
  BY <1>4, PipeStep DEF Write, CanWrite, TypeOK
<1>5. CASE BrokenPipe
  BY <1>5 DEF BrokenPipe, NoReader, TypeOK
<1>6. CASE CloseInput
  BY <1>6 DEF CloseInput, Written, TypeOK
<1>7. ASSUME NEW stream \in {"out", "err"}, Read(stream)
      PROVE  TypeOK'
  <2>1. pipes' \in [{"in", "out", "err"} -> 0..Capacity]
    BY <1>7, PipeStep DEF Read, CanRead
  <2>2. got' \in [out : Nat, err : Nat]
    BY SMTT(30), <1>7 DEF Read, CanRead, TypeOK
  <2> QED
    BY SMTT(30), <1>7, <2>1, <2>2 DEF Read, CanRead, TypeOK
<1>8. ASSUME NEW stream \in {"out", "err"}, NEW then \in {"stderr", "wait"},
             EndOfFile(stream, then)
      PROVE  TypeOK'
  BY <1>8 DEF EndOfFile, AtEnd, TypeOK
<1>9. CASE Wait
  <2>1. property'.result \in {Unset, 0, 1, 127, -1} /\ property'.output \in Nat \cup {Unset}
    <3>1. got.out \in Nat
      BY DEF TypeOK
    <3> QED
      BY <1>9, <3>1 DEF Wait, CanWait, TypeOK
  <2> QED
    BY <1>9, <2>1 DEF Wait, CanWait, Return, TypeOK
<1>10. ASSUME NEW op \in Op, Doing(op), pos' = pos + 1, UNCHANGED call
       PROVE  pos' \in 0..Len(call'.ops)
  BY <1>10 DEF Doing, TypeOK
<1>11. CASE ReadInput
  <2>1. pipes' \in [{"in", "out", "err"} -> 0..Capacity]
    BY <1>11, PipeStep DEF ReadInput, CanReadInput, TypeOK
  <2> QED
    BY <1>10, <1>11, <2>1 DEF ReadInput, CanReadInput, TypeOK, Op
<1>12. ASSUME NEW stream \in {"out", "err"}, WriteOutput(stream)
       PROVE  TypeOK'
  <2>1. pipes' \in [{"in", "out", "err"} -> 0..Capacity] /\ file' \in Nat
    <3>1. CASE call.spawn
      BY <1>12, <3>1 DEF WriteOutput, CanWriteOutput, TypeOK
    <3>2. CASE ~call.spawn
      BY <1>12, <3>2, PipeStep DEF WriteOutput, CanWriteOutput, TypeOK
    <3> QED
      BY <3>1, <3>2
  <2> QED
    BY <1>10, <1>12, <2>1 DEF WriteOutput, CanWriteOutput, TypeOK, Op
<1>13. CASE Background
  BY <1>10, <1>13 DEF Background, TypeOK, Op
<1>14. CASE Exit
  BY <1>14 DEF Exit, CanExit, TypeOK
<1>15. CASE Release
  <2>1. /\ call' = call /\ gantt' = gantt /\ verdict' = verdict /\ child' = child
        /\ pos' = pos /\ pipes' = pipes /\ sent' = sent /\ got' = got
        /\ file' = file /\ property' = property
    BY <1>15 DEF Release
  <2>2. held' \in BOOLEAN
    BY <1>15, Zenon DEF Release
  <2> QED
    BY <2>1, <2>2 DEF TypeOK
<1>16. CASE UNCHANGED vars
  BY <1>16 DEF vars, TypeOK
<1> QED
  BY <1>1, <1>2, <1>3, <1>4, <1>5, <1>6, <1>7, <1>8, <1>9, <1>11, <1>12, <1>13, <1>14,
     <1>15, <1>16 DEF Next, GanttStep, CommandStep

\* Neither process gets ahead of the other.
LEMMA InStepStep ==
  ASSUME TypeOK, InStep, [Next]_vars
  PROVE  InStep'
<1> USE CallType DEF InStep
<1>1. CASE Prepare
  BY <1>1 DEF Prepare, Decided, Return
<1>2. CASE SpawnFailed
  BY <1>2 DEF SpawnFailed, Ready, Return
<1>3. CASE Spawn
  BY <1>3 DEF Spawn, Ready, Return
<1>4. CASE Write \/ BrokenPipe \/ CloseInput
  BY <1>4 DEF Write, CanWrite, BrokenPipe, NoReader, CloseInput, Written
<1>5. ASSUME NEW stream \in {"out", "err"}, Read(stream)
      PROVE  InStep'
  BY <1>5 DEF Read, CanRead
<1>6. ASSUME NEW stream \in {"out", "err"}, NEW then \in {"stderr", "wait"},
             EndOfFile(stream, then)
      PROVE  InStep'
  BY <1>6 DEF EndOfFile, AtEnd, Reading
<1>7. CASE Wait
  BY <1>7 DEF Wait, CanWait, Return
<1>8. CASE ReadInput \/ Background
  BY <1>8 DEF ReadInput, CanReadInput, Background, Doing
<1>9. ASSUME NEW stream \in {"out", "err"}, WriteOutput(stream)
      PROVE  InStep'
  BY <1>9 DEF WriteOutput, CanWriteOutput, Doing
<1>10. CASE Exit
  BY <1>10 DEF Exit, CanExit
<1>11. CASE Release
  BY <1>11 DEF Release
<1>12. CASE UNCHANGED vars
  BY <1>12 DEF vars
<1> QED
  BY <1>1, <1>2, <1>3, <1>4, <1>5, <1>6, <1>7, <1>8, <1>9, <1>10, <1>11, <1>12
  DEF Next, GanttStep, CommandStep


\* Once gantt is past a stream nothing reaches it any more: its end is met
\* only when the command has exited.
LEMMA StreamsEndStep ==
  ASSUME TypeOK, InStep, StreamsEnd, [Next]_vars
  PROVE  StreamsEnd'
<1> USE CallType DEF StreamsEnd, Captured
<1>1. CASE Prepare
  BY <1>1 DEF Prepare, Decided, Return, InStep
<1>2. CASE SpawnFailed
  BY <1>2 DEF SpawnFailed, Ready, Return, InStep
<1>3. CASE Spawn
  BY <1>3 DEF Spawn, Ready, Return, InStep, TypeOK
<1>4. CASE Write
  BY <1>4 DEF Write, CanWrite
<1>5. CASE BrokenPipe \/ CloseInput
  BY <1>5 DEF BrokenPipe, NoReader, CloseInput, Written
<1>6. ASSUME NEW stream \in {"out", "err"}, Read(stream)
      PROVE  StreamsEnd'
  BY <1>6, PipeStep DEF Read, CanRead, Reading, TypeOK
<1>7. CASE EndOfFile("out", "stderr") \/ EndOfFile("err", "wait")
  BY <1>7 DEF EndOfFile, AtEnd, Reading
<1>8. CASE Wait
  BY <1>8 DEF Wait, CanWait, Return
<1>9. CASE ReadInput
  <2>1. pipes'["out"] = pipes["out"] /\ pipes'["err"] = pipes["err"]
    BY <1>9 DEF ReadInput, CanReadInput, TypeOK
  <2> QED
    BY <1>9, <2>1 DEF ReadInput, CanReadInput
<1>10. ASSUME NEW stream \in {"out", "err"}, WriteOutput(stream)
       PROVE  StreamsEnd'
  BY <1>10 DEF WriteOutput, CanWriteOutput, Doing, InStep
<1>11. CASE Background \/ Release
  BY <1>11 DEF Background, Release
<1>12. CASE Exit
  BY <1>12 DEF Exit, CanExit
<1>13. CASE UNCHANGED vars
  BY <1>13 DEF vars
<1> QED
  BY <1>1, <1>2, <1>3, <1>4, <1>5, <1>6, <1>7, <1>8, <1>9, <1>10, <1>11, <1>12, <1>13
  DEF Next, GanttStep, CommandStep

\* What an operation of the command does to the counts.
LEMMA DoneMoves ==
  ASSUME TypeOK, NEW op, Doing(op), pos' = pos + 1, call' = call
  PROVE  \A x : Done(x)' = Done(x) + (IF x = op THEN 1 ELSE 0)
<1>1. pos \in Nat /\ call.ops[pos + 1] = op
  BY CallType DEF TypeOK, Doing
<1> SUFFICES ASSUME NEW x
             PROVE  Done(x)' = Done(x) + (IF x = op THEN 1 ELSE 0)
  OBVIOUS
<1>2. Done(x)' = CountUpTo(call.ops, pos + 1, x)
  BY DEF Done, CountUpTo
<1> QED
  BY <1>1, <1>2, CountStep, DoneIsCount

\* Where everything is read: a command that has exited has done all.
LEMMA ExitedIsDone ==
  ASSUME TypeOK, InStep, child = "exited"
  PROVE  \A op : Done(op) = Count(op)
  BY DoneIsCount, AllIsCount DEF TypeOK, InStep

LEMMA CaptureStep ==
  ASSUME IInv, [Next]_vars
  PROVE  CaptureComplete'
<1>1. TypeOK /\ InStep /\ StreamsEnd /\ CaptureComplete
  BY DEF IInv
<1>2. /\ pipes["out"] \in Nat /\ pipes["err"] \in Nat /\ got.out \in Nat /\ got.err \in Nat
      /\ pos \in Nat
  BY <1>1, CallType DEF TypeOK
<1>3. Done("out") \in Nat /\ Done("err") \in Nat
  BY <1>2, CountStep, DoneIsCount
<1>4. ASSUME call' = call, pos' = pos, ~Captured' \/ (Captured /\ got' = got /\ sent' = sent),
             got'.out + pipes'["out"] = got.out + pipes["out"],
             got'.err + pipes'["err"] = got.err + pipes["err"]
      PROVE  CaptureComplete'
  <2>1. \A x : Done(x)' = Done(x) /\ Count(x)' = Count(x)
    BY <1>4 DEF Done, Count
  <2> QED
    BY <1>1, <1>4, <2>1 DEF CaptureComplete
<1>5. CASE Prepare
  BY <1>1, <1>4, <1>5 DEF Prepare, Decided, Return, InStep, Captured
<1>6. CASE SpawnFailed
  BY <1>1, <1>4, <1>6 DEF SpawnFailed, Ready, Return, InStep, Captured
<1>7. CASE Spawn
  BY <1>1, <1>4, <1>7, CallType DEF Spawn, Ready, Return, InStep, Captured
<1>8. CASE Write
  <2>1. pipes'["out"] = pipes["out"] /\ pipes'["err"] = pipes["err"]
    BY <1>1, <1>8 DEF Write, CanWrite, TypeOK
  <2> QED
    <3>1. call' = call /\ pos' = pos /\ got' = got /\ ~Captured'
      BY <1>8 DEF Write, CanWrite, Captured
    <3> QED
      BY <1>4, <2>1, <3>1
<1>9. CASE BrokenPipe \/ CloseInput
  BY <1>4, <1>9 DEF BrokenPipe, NoReader, CloseInput, Written, Captured
<1>10. ASSUME NEW stream \in {"out", "err"}, Read(stream)
       PROVE  CaptureComplete'
  <2>1. /\ got'.out + pipes'["out"] = got.out + pipes["out"]
        /\ got'.err + pipes'["err"] = got.err + pipes["err"]
    <3>1. CASE stream = "out"
      BY <1>1, <1>2, <1>10, <3>1 DEF Read, CanRead, TypeOK
    <3>2. CASE stream = "err"
      BY <1>1, <1>2, <1>10, <3>2 DEF Read, CanRead, TypeOK
    <3> QED
      BY <3>1, <3>2
  <2> QED
    <3>1. call' = call /\ pos' = pos /\ ~Captured'
      BY <1>10 DEF Read, CanRead, Reading, Captured
    <3> QED
      BY <1>4, <2>1, <3>1
<1>11. CASE EndOfFile("out", "stderr") \/ EndOfFile("err", "wait")
  BY <1>4, <1>11 DEF EndOfFile, AtEnd, Captured
<1>12. CASE Wait
  <2>1. /\ sent = call.input /\ pipes["out"] = 0 /\ pipes["err"] = 0 /\ child = "exited"
        /\ ~call.spawn
    BY <1>1, <1>12, CallType DEF Wait, CanWait, StreamsEnd, InStep
  <2>2. Done("out") = Count("out") /\ Done("err") = Count("err")
    BY <1>1, <2>1, ExitedIsDone
  <2>3. /\ Done("out") = got.out + pipes["out"]
        /\ Done("err") = got.err + pipes["err"]
    BY <1>1, <2>1 DEF CaptureComplete
  <2>4. \A x : Done(x)' = Done(x) /\ Count(x)' = Count(x)
    BY <1>12 DEF Wait, CanWait, Done, Count
  <2> QED
    BY <1>2, <1>12, <2>1, <2>2, <2>3, <2>4 DEF Wait, CanWait, CaptureComplete
<1>13. ASSUME child = "running" PROVE ~Captured
  BY <1>1, <1>13 DEF StreamsEnd
<1>14. CASE ReadInput
  <2>1. pipes'["out"] = pipes["out"] /\ pipes'["err"] = pipes["err"]
    BY <1>1, <1>14 DEF ReadInput, CanReadInput, TypeOK
  <2>2. \A x : Done(x)' = Done(x) + (IF x = "in" THEN 1 ELSE 0)
    BY <1>1, <1>14, DoneMoves DEF ReadInput, CanReadInput
  <2>3. Done("out")' = Done("out") /\ Done("err")' = Done("err")
    BY <1>3, <2>2
  <2>4. ~Captured'
    BY <1>13, <1>14 DEF ReadInput, CanReadInput, Doing, Captured
  <2> QED
    BY <1>1, <1>14, <2>1, <2>3, <2>4 DEF ReadInput, CanReadInput, CaptureComplete
<1>15. ASSUME NEW stream \in {"out", "err"}, WriteOutput(stream)
       PROVE  CaptureComplete'
  <2>1. \A x : Done(x)' = Done(x) + (IF x = stream THEN 1 ELSE 0)
    BY <1>1, <1>15, DoneMoves DEF WriteOutput, CanWriteOutput
  <2>2. ~Captured'
    BY <1>13, <1>15 DEF WriteOutput, CanWriteOutput, Doing, Captured
  <2>3. CASE call.spawn
    BY <1>15, <2>2, <2>3 DEF WriteOutput, CanWriteOutput, CaptureComplete
  <2>4. CASE ~call.spawn
    <3>1. pipes' = [pipes EXCEPT ![stream] = @ + 1] /\ got' = got
      BY <1>15, <2>4 DEF WriteOutput, CanWriteOutput
    <3>2. Done("out") = got.out + pipes["out"] /\ Done("err") = got.err + pipes["err"]
      BY <1>1, <2>4 DEF CaptureComplete
    <3>3. /\ pipes'["out"] = pipes["out"] + (IF stream = "out" THEN 1 ELSE 0)
          /\ pipes'["err"] = pipes["err"] + (IF stream = "err" THEN 1 ELSE 0)
      BY <1>1, <1>2, <3>1 DEF TypeOK
    <3>4. /\ Done("out")' = got'.out + pipes'["out"]
          /\ Done("err")' = got'.err + pipes'["err"]
      BY <1>2, <1>3, <2>1, <3>1, <3>2, <3>3
    <3> QED
      BY <2>2, <3>4 DEF CaptureComplete
  <2> QED
    BY <2>3, <2>4
<1>16. CASE Background
  <2>1. \A x : Done(x)' = Done(x) + (IF x = "background" THEN 1 ELSE 0)
    BY <1>1, <1>16, DoneMoves DEF Background
  <2>2. Done("out")' = Done("out") /\ Done("err")' = Done("err")
    BY <1>3, <2>1
  <2>3. ~Captured'
    BY <1>13, <1>16 DEF Background, Doing, Captured
  <2> QED
    BY <1>1, <1>16, <2>2, <2>3 DEF Background, CaptureComplete
<1>17. CASE Exit
  BY <1>4, <1>13, <1>17 DEF Exit, CanExit, Captured
<1>18. CASE Release
  BY <1>4, <1>18 DEF Release, Captured
<1>19. CASE UNCHANGED vars
  BY <1>4, <1>19 DEF vars, Captured
<1> QED
  BY <1>5, <1>6, <1>7, <1>8, <1>9, <1>10, <1>11, <1>12, <1>14, <1>15, <1>16, <1>17, <1>18,
     <1>19 DEF Next, GanttStep, CommandStep

-----------------------------------------------------------------------------
(* Who waits for whom                                                      *)

\* A running command that cannot take its next step waits for input that
\* gantt has yet to write, or for room in the pipe of an output.
LEMMA CommandWaits ==
  ASSUME IInv, child = "running", ~call.spawn, ~CommandCanStep
  PROVE  \/ Doing("in") /\ gantt = "write" /\ pipes["in"] = 0
         \/ \E stream \in {"out", "err"} : Doing(stream) /\ pipes[stream] = Capacity
<1>1. TypeOK
  BY DEF IInv
<1>2. pos \in 0..Len(call.ops) /\ pos # Len(call.ops)
  BY <1>1 DEF TypeOK, CommandCanStep, CanExit
<1>3. pos \in Nat /\ pos < Len(call.ops) /\ pos + 1 \in 1..Len(call.ops)
  BY <1>1, <1>2, CallType
<1>4. call.ops[pos + 1] \in Op
  BY <1>1, <1>3, CallType
<1>5. Doing(call.ops[pos + 1])
  BY <1>3 DEF Doing
<1>6. \A p \in {"in", "out", "err"} : pipes[p] \in 0..Capacity
  BY <1>1, PipeStep
<1>7. Capacity \in Nat
  BY <1>1, CallType
<1>8. CASE call.ops[pos + 1] = "in"
  <2>1. ~(pipes["in"] > 0) /\ gantt = "write"
    BY <1>5, <1>8 DEF CommandCanStep, CanReadInput
  <2> QED
    BY <1>5, <1>6, <1>7, <1>8, <2>1
<1>9. ASSUME NEW stream \in {"out", "err"}, call.ops[pos + 1] = stream
      PROVE  Doing(stream) /\ pipes[stream] = Capacity
  <2>1. ~(pipes[stream] < Capacity)
    BY <1>5, <1>9 DEF CommandCanStep, CanWriteOutput
  <2> QED
    BY <1>5, <1>6, <1>7, <1>9, <2>1
<1>10. call.ops[pos + 1] # "background"
  BY <1>5 DEF CommandCanStep
<1> QED
  BY <1>4, <1>8, <1>9, <1>10 DEF Op

\* When neither can go on, one of the three waits is why.
LEMMA NoStepIsBlock ==
  ASSUME IInv, ~Ended, ~GanttCanStep, ~CommandCanStep
  PROVE  StderrBlocks \/ StdinBlocks \/ BackgroundBlocks
<1>1. TypeOK /\ InStep /\ StreamsEnd
  BY DEF IInv
<1>2. /\ pipes["in"] \in 0..Capacity /\ pipes["out"] \in 0..Capacity
      /\ pipes["err"] \in 0..Capacity
      /\ Capacity \in Nat /\ Capacity > 0
      /\ sent \in 0..call.input /\ call.input \in Nat
  BY <1>1, PipeStep, CallType DEF TypeOK
<1>3. gantt \in {"write", "stdout", "stderr", "wait"}
  <2>1. gantt # "start"
    <3>1. call.osmatches \in BOOLEAN /\ call.wrong \in BOOLEAN
      BY <1>1 DEF TypeOK, Call
    <3> QED
      BY <3>1 DEF GanttCanStep, Decided, Ready
  <2> QED
    BY <1>1, <2>1 DEF TypeOK, Ended
<1>4. ~call.spawn /\ child \in {"running", "exited"}
  BY <1>1, <1>3 DEF TypeOK, InStep
<1>5. child = "running" =>
        \/ Doing("in") /\ gantt = "write" /\ pipes["in"] = 0
        \/ \E stream \in {"out", "err"} : Doing(stream) /\ pipes[stream] = Capacity
  BY <1>4, CommandWaits
<1>6. \A stream \in {"out", "err"} : ~CanRead(stream) /\ ~AtEnd(stream)
  BY DEF GanttCanStep
<1>7. CASE gantt = "write"
  <2>1. sent < call.input
    BY <1>2, <1>7 DEF GanttCanStep, Written
  <2>2. child = "running"
    BY <1>4, <1>7, <2>1 DEF GanttCanStep, NoReader
  <2>3. pipes["in"] = Capacity
    BY <1>2, <1>7, <2>1, <2>2 DEF GanttCanStep, CanWrite
  <2>4. \E stream \in {"out", "err"} : Doing(stream) /\ pipes[stream] = Capacity
    BY <1>2, <1>5, <2>2, <2>3
  <2> QED
    BY <1>7, <2>1, <2>3, <2>4 DEF StdinBlocks
<1>8. CASE gantt = "stdout"
  <2>1. pipes["out"] = 0
    BY <1>2, <1>6, <1>8 DEF CanRead, Reading
  <2>2. CASE child = "running"
    <3>1. Doing("err") /\ pipes["err"] = Capacity
      BY <1>2, <1>5, <1>8, <2>1, <2>2
    <3> QED
      BY <1>8, <2>1, <3>1 DEF StderrBlocks
  <2>3. CASE child = "exited"
    <3>1. held
      BY <1>6, <1>8, <2>1, <2>3 DEF AtEnd, Reading
    <3> QED
      BY <1>8, <2>1, <2>3, <3>1 DEF BackgroundBlocks, Reading
  <2> QED
    BY <1>4, <2>2, <2>3
<1>9. CASE gantt = "stderr"
  <2>1. pipes["err"] = 0
    BY <1>2, <1>6, <1>9 DEF CanRead, Reading
  <2>2. child = "exited"
    BY <1>1, <1>9 DEF StreamsEnd
  <2>3. held
    BY <1>6, <1>9, <2>1, <2>2 DEF AtEnd, Reading
  <2> QED
    BY <1>9, <2>1, <2>2, <2>3 DEF BackgroundBlocks, Reading
<1>10. gantt # "wait"
  BY <1>1 DEF StreamsEnd, GanttCanStep, CanWait
<1> QED
  BY <1>3, <1>7, <1>8, <1>9, <1>10

\* In each of the three, neither can go on.
LEMMA BlockIsNoStep ==
  ASSUME IInv, StderrBlocks \/ StdinBlocks \/ BackgroundBlocks
  PROVE  ~Ended /\ ~GanttCanStep /\ ~CommandCanStep
<1>1. TypeOK /\ InStep
  BY DEF IInv
<1>2. Capacity \in Nat /\ Capacity > 0 /\ pos \in Nat /\ Len(call.ops) \in Nat
  BY <1>1, CallType DEF TypeOK
<1>3. ASSUME NEW stream \in {"out", "err"}, Doing(stream), pipes[stream] = Capacity,
             ~call.spawn
      PROVE  ~CommandCanStep
  <2>1. child = "running" /\ pos # Len(call.ops) /\ call.ops[pos + 1] = stream
    BY <1>2, <1>3 DEF Doing
  <2>2. ~CanReadInput /\ ~Doing("background") /\ ~CanExit
    BY <2>1 DEF CanReadInput, Doing, CanExit
  <2>3. ~CanWriteOutput("out") /\ ~CanWriteOutput("err")
    BY <1>2, <1>3, <2>1 DEF CanWriteOutput, Doing
  <2> QED
    BY <2>2, <2>3 DEF CommandCanStep
<1>4. gantt \in {"write", "stdout", "stderr"}
  BY DEF StderrBlocks, StdinBlocks, BackgroundBlocks, Reading
<1>5. ~call.spawn /\ ~Ended /\ ~Decided /\ ~Ready /\ ~CanWait
  BY <1>1, <1>4 DEF InStep, Ended, Decided, Ready, CanWait
<1>6. CASE StderrBlocks
  <2>1. ~CommandCanStep
    BY <1>3, <1>5, <1>6 DEF StderrBlocks
  <2>2. child = "running"
    BY <1>6 DEF StderrBlocks, Doing
  <2>3. ~CanWrite /\ ~NoReader /\ ~Written
    BY <1>6 DEF StderrBlocks, CanWrite, NoReader, Written
  <2>4. \A stream \in {"out", "err"} : ~CanRead(stream) /\ ~AtEnd(stream)
    BY <1>6, <2>2 DEF StderrBlocks, CanRead, AtEnd, Reading
  <2> QED
    BY <1>5, <2>1, <2>3, <2>4 DEF GanttCanStep
<1>7. CASE StdinBlocks
  <2>1. PICK stream \in {"out", "err"} : Doing(stream) /\ pipes[stream] = Capacity
    BY <1>7 DEF StdinBlocks
  <2>2. ~CommandCanStep /\ child = "running"
    BY <1>3, <1>5, <2>1 DEF Doing
  <2>3. sent \in Int /\ call.input \in Int
    BY <1>1, CallType DEF TypeOK
  <2>4. ~CanWrite /\ ~NoReader /\ ~Written
    BY <1>2, <1>7, <2>2, <2>3 DEF StdinBlocks, CanWrite, NoReader, Written
  <2>5. \A s \in {"out", "err"} : ~CanRead(s) /\ ~AtEnd(s)
    BY <1>7 DEF StdinBlocks, CanRead, AtEnd, Reading
  <2> QED
    BY <1>5, <2>2, <2>4, <2>5 DEF GanttCanStep
<1>8. CASE BackgroundBlocks
  <2>1. child = "exited" /\ held
    BY <1>8 DEF BackgroundBlocks
  <2>2. ~CommandCanStep
    BY <2>1 DEF CommandCanStep, CanReadInput, CanWriteOutput, CanExit, Doing
  <2>3. ~CanWrite /\ ~NoReader /\ ~Written
    BY <1>8 DEF BackgroundBlocks, Reading, CanWrite, NoReader, Written
  <2>4. \A s \in {"out", "err"} : ~CanRead(s) /\ ~AtEnd(s)
    BY <1>8, <2>1 DEF BackgroundBlocks, CanRead, AtEnd, Reading
  <2> QED
    BY <1>5, <2>2, <2>3, <2>4 DEF GanttCanStep
<1> QED
  BY <1>6, <1>7, <1>8

-----------------------------------------------------------------------------
(* The theorems                                                            *)

\* gantt, the command and the background process together, in whatever order
\* they take their steps, keep the invariant.
THEOREM Invariance == Spec => []IInv
<1>1. Init => IInv
  BY InitIInv
<1>2. IInv /\ [Next]_vars => IInv'
  BY TypeStep, InStepStep, StreamsEndStep, CaptureStep DEF IInv
<1> QED
  BY <1>1, <1>2, PTL DEF Spec

\* Every variable keeps its type; in particular no pipe ever holds more than
\* its capacity, nor is more written to the command than its input has.
THEOREM TypeCorrect == Spec => []TypeOK
<1>1. IInv => TypeOK
  BY DEF IInv
<1> QED
  BY <1>1, Invariance, PTL

\* Whatever the command writes, in whatever order and amount, read_all_fd
\* reads it before exec_invoke returns, and the command has been written all
\* of its input: spawn_sync and spawn_sync_with_input lose nothing.
THEOREM CapturesAll == Spec => []CaptureComplete
<1>1. IInv => CaptureComplete
  BY DEF IInv
<1> QED
  BY <1>1, Invariance, PTL

\* Of all the ways in which two processes that read and write each other's
\* pipes could wait for each other, spawn_sync and spawn_sync_with_input
\* leave the three of StuckExplained and no fourth: a command that fills
\* stderr while its stdout is read, one that fills an output while its input
\* is written, and a background process that outlives the command.  Each of
\* the three is a wait for good, as far as gantt and the command go.
THEOREM StuckOnlyAsNamed == Spec => []StuckExplained
<1>1. IInv => StuckExplained
  BY NoStepIsBlock, BlockIsNoStep DEF StuckExplained
<1> QED
  BY <1>1, Invariance, PTL

=============================================================================
