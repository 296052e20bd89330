---------------------------- MODULE ParallelProofs ----------------------------
(***************************************************************************)
(* Theorems about Parallel, for every task tree, every buffer size and     *)
(* every number of kills.                                                  *)
(***************************************************************************)
EXTENDS Parallel, FiniteSetTheorems, TLAPS

-----------------------------------------------------------------------------
(* The tree                                                                *)

LEMMA TreeType ==
  ASSUME tree \in Trees, NEW t \in Tasks
  PROVE  /\ Nested(t) \in Seq(Tasks) /\ Len(Nested(t)) \in Nat
         /\ DOMAIN Nested(t) = 1..Len(Nested(t))
         /\ \A i \in DOMAIN Nested(t) : i \in Nat \ {0} /\ Nested(t)[i] \in Tasks
         /\ \A i \in 1..Len(Nested(t)) : Nested(t)[i] \in Tasks
         /\ tree.kind[t] \in {"plain", "sequential", "parallel"}
         /\ tree.kind[t] = "plain" => DOMAIN Nested(t) = {} /\ Len(Nested(t)) = 0
         /\ tree.failonany[t] \in BOOLEAN
<1>1. tree \in Tree
  BY TreesAssumption
<1>2. Nested(t) \in Seq(Tasks)
  BY <1>1 DEF Tree, Nested
<1>3. tree.kind[t] = "plain" => Nested(t) = <<>>
  BY TreesAssumption DEF Nested
<1>4. tree.kind[t] \in {"plain", "sequential", "parallel"} /\ tree.failonany[t] \in BOOLEAN
  BY <1>1 DEF Tree
<1> QED
  BY <1>2, <1>3, <1>4

\* No task is nested in two places, and Root is nested in none.
LEMMA NestedOnce ==
  ASSUME tree \in Trees
  PROVE  \A t, u \in Tasks : \A i \in DOMAIN Nested(t), j \in DOMAIN Nested(u) :
            /\ Nested(t)[i] # Root
            /\ Nested(t)[i] = Nested(u)[j] => t = u /\ i = j
  BY TreesAssumption DEF Nested

-----------------------------------------------------------------------------
(* Standard output keeps its type                                          *)

Output == [stdio : [Tasks -> SUBSET Tasks], written : [Tasks -> Nat]]

LEMMA FlushedType ==
  ASSUME NEW o \in Output, NEW p
  PROVE  Flushed(o, p) \in Output
<1>1. [o.stdio EXCEPT ![p] = {}] \in [Tasks -> SUBSET Tasks]
  BY DEF Output
<1>2. [m \in Tasks |-> o.written[m] + (IF m \in o.stdio[p] THEN 1 ELSE 0)] \in [Tasks -> Nat]
  BY DEF Output
<1> QED
  BY <1>1, <1>2 DEF Flushed, Output

LEMMA DiscardedType ==
  ASSUME NEW o \in Output, NEW p
  PROVE  Discarded(o, p) \in Output
  BY DEF Discarded, Output

LEMMA LeftType ==
  ASSUME NEW o \in Output, NEW p
  PROVE  Left(o, p) \in Output
  BY FlushedType, DiscardedType DEF Left

LEMMA LoggedType ==
  ASSUME NEW o \in Output, NEW p \in Tasks, NEW m \in Tasks
  PROVE  Logged(o, p, m) \in Output
<1>1. [o EXCEPT !.written[m] = @ + 1] \in Output
  BY DEF Output
<1>2. ASSUME NEW r \in Output
      PROVE  [r EXCEPT !.stdio[p] = @ \cup {m}] \in Output
  BY <1>2 DEF Output
<1> QED
  BY <1>1, <1>2, FlushedType DEF Logged

\* task_invoke returns.
LEMMA ReturnsType ==
  ASSUME TypeOK, NEW t \in Tasks, NEW r \in Outcomes, NEW o \in Output, Returns(t, r, o)
  PROVE  /\ status' \in [Tasks -> Outcomes \cup {"idle", "running"}]
         /\ out' \in Output
  BY LeftType DEF Returns, TypeOK

-----------------------------------------------------------------------------
(* Types                                                                   *)

Bound(t) == (IF tree.kind[t] = "parallel" THEN 2 ELSE 1) * Len(Nested(t)) + 1

LEMMA BoundType ==
  ASSUME tree \in Trees, NEW t \in Tasks
  PROVE  /\ Bound(t) \in Nat
         /\ tree.kind[t] = "parallel" => Bound(t) = 2 * Len(Nested(t)) + 1
         /\ tree.kind[t] # "parallel" => Bound(t) = Len(Nested(t)) + 1
  BY TreeType DEF Bound

\* A loop that moves on within its bound.
LEMMA NextMoves ==
  ASSUME TypeOK, NEW t \in Tasks, next[t] < Bound(t),
         next' = [next EXCEPT ![t] = @ + 1], UNCHANGED tree
  PROVE  next' \in [Tasks -> Nat \ {0}] /\ \A u \in Tasks : next'[u] <= Bound(u)'
<1>1. next \in [Tasks -> Nat \ {0}] /\ \A u \in Tasks : next[u] <= Bound(u)
  BY DEF TypeOK, Bound, Nested
<1>2. \A u \in Tasks : Bound(u)' = Bound(u) /\ Bound(u) \in Nat
  BY BoundType DEF Bound, Nested, TypeOK
<1> QED
  BY <1>1, <1>2

\* Every step of a task and every kill keeps the type of every variable.
LEMMA TypeStep ==
  ASSUME IInv, [Next]_vars
  PROVE  TypeOK'
<1>1. TypeOK /\ out \in Output /\ tree \in Trees
  BY DEF IInv, TypeOK, Output
<1>2. \A t \in Tasks : status[t] # "idle" => process[t] \in Tasks
  BY DEF IInv, InStep
<1>3. ASSUME tree' = tree, next' = next
      PROVE  \A t \in Tasks :
               next'[t] <= (IF tree'.kind[t] = "parallel" THEN 2 ELSE 1) * Len(tree'.nested[t]) + 1
  BY <1>1, <1>3 DEF TypeOK
<1>4. ASSUME NEW t \in Tasks, RunPlain(t)
      PROVE  TypeOK'
  <2>1. PICK ok \in BOOLEAN :
              /\ Returns(t, Verdict(ok), Logged(out, process[t], t))
              /\ memory' = [memory EXCEPT ![process[t]] = IF ok THEN @ \cup {t} ELSE @]
    BY <1>4 DEF RunPlain
  <2>2. Verdict(ok) \in Outcomes
    BY DEF Verdict, Outcomes
  <2>3. process[t] \in Tasks
    BY <1>2, <1>4 DEF RunPlain, Running
  <2>4. /\ status' \in [Tasks -> Outcomes \cup {"idle", "running"}]
        /\ out' \in Output
    BY <1>1, <2>1, <2>2, <2>3, LoggedType, ReturnsType
  <2>5. memory' \in [Tasks -> SUBSET Tasks]
    BY <1>1, <2>1, <2>3 DEF TypeOK
  <2> QED
    BY <1>1, <1>3, <1>4, <2>4, <2>5 DEF RunPlain, TypeOK, Output
<1>5. ASSUME NEW t \in Tasks, Call(t)
      PROVE  TypeOK'
  <2>1. Nested(t)[next[t]] \in Tasks
    BY <1>1, <1>5, TreeType DEF Call, TypeOK
  <2>2. /\ status' \in [Tasks -> Outcomes \cup {"idle", "running"}]
        /\ process' \in [Tasks -> Tasks \cup {NoProcess}]
    BY <1>1, <1>5, <2>1 DEF Call, TypeOK
  <2> QED
    BY <1>1, <1>3, <1>5, <2>2 DEF Call, TypeOK
<1>6. ASSUME NEW t \in Tasks, CallReturned(t)
      PROVE  TypeOK'
  <2>1. CASE next' = [next EXCEPT ![t] = @ + 1] /\ UNCHANGED <<status, out>>
    <3>1. next[t] < Bound(t)
      <4>1. tree.kind[t] # "parallel" /\ next[t] <= Len(Nested(t)) /\ next[t] \in Nat
        BY <1>1, <1>6 DEF CallReturned, Running, TypeOK
      <4>2. Bound(t) = Len(Nested(t)) + 1 /\ Len(Nested(t)) \in Nat
        BY <1>1, <4>1, BoundType, TreeType
      <4> QED
        BY <4>1, <4>2
    <3>2. next' \in [Tasks -> Nat \ {0}] /\ \A u \in Tasks : next'[u] <= Bound(u)'
      BY <1>1, <1>6, <2>1, <3>1, NextMoves DEF CallReturned
    <3> QED
      BY <1>1, <1>6, <2>1, <3>2 DEF CallReturned, TypeOK, Bound, Nested
  <2>2. CASE Returns(t, "failed", out) /\ UNCHANGED next
    <3>1. /\ status' \in [Tasks -> Outcomes \cup {"idle", "running"}]
          /\ out' \in Output
      BY <1>1, <2>2, ReturnsType DEF Outcomes
    <3> QED
      BY <1>1, <1>3, <1>6, <2>2, <3>1 DEF CallReturned, TypeOK, Output
  <2> QED
    BY <1>6, <2>1, <2>2 DEF CallReturned
<1>7. ASSUME NEW t \in Tasks, SequentialDone(t)
      PROVE  TypeOK'
  <2>1. /\ status' \in [Tasks -> Outcomes \cup {"idle", "running"}]
        /\ out' \in Output
    BY <1>1, <1>7, ReturnsType DEF Outcomes, SequentialDone
  <2> QED
    BY <1>1, <1>3, <1>7, <2>1 DEF SequentialDone, TypeOK, Output
<1>8. ASSUME NEW t \in Tasks, Fork(t)
      PROVE  TypeOK'
  <2> DEFINE n == Nested(t)[next[t]]
  <2>1. n \in Tasks /\ process[t] \in Tasks
    BY <1>1, <1>2, <1>8, TreeType DEF Fork, Running, TypeOK
  <2>2. next[t] < Bound(t)
    <3>1. tree.kind[t] = "parallel" /\ next[t] <= Len(Nested(t)) /\ next[t] \in Nat
      BY <1>1, <1>8 DEF Fork, Running, TypeOK
    <3>2. Bound(t) = 2 * Len(Nested(t)) + 1 /\ Len(Nested(t)) \in Nat
      BY <1>1, <3>1, BoundType, TreeType
    <3> QED
      BY <3>1, <3>2
  <2>3. next' \in [Tasks -> Nat \ {0}] /\ \A u \in Tasks : next'[u] <= Bound(u)'
    BY <1>1, <1>8, <2>2, NextMoves DEF Fork
  <2>4. /\ status' = [status EXCEPT ![n] = "running"]
        /\ process' = [process EXCEPT ![n] = n]
        /\ memory' = [memory EXCEPT ![n] = memory[process[t]]]
        /\ out' = [out EXCEPT !.stdio[n] = out.stdio[process[t]]]
    BY <1>8 DEF Fork
  <2> HIDE DEF n
  <2>5. /\ status' \in [Tasks -> Outcomes \cup {"idle", "running"}]
        /\ process' \in [Tasks -> Tasks \cup {NoProcess}]
        /\ memory' \in [Tasks -> SUBSET Tasks]
    BY <1>1, <2>1, <2>4 DEF TypeOK
  <2>6. out' \in Output
    BY <1>1, <2>1, <2>4 DEF Output
  <2> QED
    BY <1>1, <1>8, <2>3, <2>5, <2>6 DEF Fork, TypeOK, Output, Bound, Nested
<1>9. ASSUME NEW t \in Tasks, ForkFailed(t)
      PROVE  TypeOK'
  <2>1. /\ status' \in [Tasks -> Outcomes \cup {"idle", "running"}]
        /\ out' \in Output
    BY <1>1, <1>9, ReturnsType DEF Outcomes, ForkFailed
  <2> QED
    BY <1>1, <1>3, <1>9, <2>1 DEF ForkFailed, TypeOK, Output
<1>10. ASSUME NEW t \in Tasks, Wait(t)
       PROVE  TypeOK'
  <2>1. next[t] < Bound(t)
    BY SMTT(30), <1>1, <1>10, BoundType, TreeType DEF Wait, Waiting, Running, TypeOK
  <2>2. next' \in [Tasks -> Nat \ {0}] /\ \A u \in Tasks : next'[u] <= Bound(u)'
    BY <1>1, <1>10, <2>1, NextMoves DEF Wait
  <2>3. success' \in [Tasks -> BOOLEAN]
    BY <1>1, <1>10 DEF Wait, TypeOK
  <2> QED
    BY <1>1, <1>10, <2>2, <2>3 DEF Wait, TypeOK, Bound, Nested
<1>11. ASSUME NEW t \in Tasks, ParallelDone(t)
       PROVE  TypeOK'
  <2>1. Verdict(success[t]) \in Outcomes
    BY DEF Verdict, Outcomes
  <2>2. /\ status' \in [Tasks -> Outcomes \cup {"idle", "running"}]
        /\ out' \in Output
    BY <1>1, <1>11, <2>1, ReturnsType DEF ParallelDone
  <2> QED
    BY <1>1, <1>3, <1>11, <2>2 DEF ParallelDone, TypeOK, Output
<1>12. ASSUME NEW p \in Tasks, Kill(p)
       PROVE  TypeOK'
  <2>1. status' \in [Tasks -> Outcomes \cup {"idle", "running"}]
    BY <1>1, <1>12 DEF Kill, TypeOK, Outcomes
  <2>2. out' \in Output
    BY <1>1, <1>12, DiscardedType DEF Kill
  <2> QED
    BY <1>1, <1>3, <1>12, <2>1, <2>2 DEF Kill, TypeOK, Output
<1>13. CASE UNCHANGED vars
  BY <1>1, <1>13 DEF vars, TypeOK
<1> QED
  BY <1>4, <1>5, <1>6, <1>7, <1>8, <1>9, <1>10, <1>11, <1>12, <1>13
  DEF Next, TaskStep, Done

-----------------------------------------------------------------------------
(* The loops stay in step with their tasks                                 *)

\* What the steps below know of one task and of the tasks nested in it.
LEMMA InStepHolds ==
  ASSUME IInv, NEW t \in Tasks
  PROVE  /\ InStep(t) /\ tree \in Trees
         /\ next[t] \in Nat \ {0} /\ Len(Nested(t)) \in Nat
         /\ status \in [Tasks -> Outcomes \cup {"idle", "running"}]
         /\ process \in [Tasks -> Tasks \cup {NoProcess}]
         /\ success[t] \in BOOLEAN
         /\ \A i \in DOMAIN Nested(t) : i \in Nat \ {0} /\ Nested(t)[i] \in Tasks
         /\ DOMAIN Nested(t) = 1..Len(Nested(t))
<1>1. TypeOK /\ InStep(t)
  BY DEF IInv
<1> QED
  BY <1>1, TreeType DEF TypeOK

\* A running task x ends by itself, with result r: it is plain, or its loop
\* has left nothing running that it waits for.
LEMMA EndKeeps ==
  ASSUME IInv, NEW x \in Tasks, NEW r \in {"ok", "failed"},
         status[x] = "running", status' = [status EXCEPT ![x] = r],
         UNCHANGED <<tree, process, next, success>>,
         unforked' = unforked \/ unforked' = unforked \cup {x},
         tree.kind[x] = "sequential" =>
            \A i \in DOMAIN Nested(x) : status[Nested(x)[i]] # "running",
         tree.kind[x] = "parallel" /\ x \notin unforked' =>
            next[x] > 2 * Len(Nested(x)) /\ (r = "ok" <=> success[x])
  PROVE  \A t \in Tasks : InStep(t)'
<1> SUFFICES ASSUME NEW t \in Tasks
             PROVE  InStep(t)'
  OBVIOUS
<1>1. /\ InStep(t)
      /\ status \in [Tasks -> Outcomes \cup {"idle", "running"}]
      /\ \A i \in DOMAIN Nested(t) : Nested(t)[i] \in Tasks
      /\ next[t] \in Nat \ {0} /\ Len(Nested(t)) \in Nat
  BY InStepHolds
<1>2. /\ tree' = tree /\ process' = process /\ next' = next /\ success' = success
      /\ Nested(t)' = Nested(t)
  BY DEF Nested
<1>3. ASSUME NEW u \in Tasks
      PROVE  /\ u # x => status'[u] = status[u]
             /\ status'[x] = r
  BY <1>1, <1>3
<1>4. t # x => (t \in unforked' <=> t \in unforked)
  OBVIOUS
<1>5. ASSUME tree.kind[t] = "sequential"
      PROVE  SequentialInStep(t)'
  <2>1. SequentialInStep(t)
    BY <1>1, <1>5 DEF InStep
  <2> QED
    BY <1>1, <1>2, <1>3, <1>5, <2>1 DEF SequentialInStep
<1>6. ASSUME tree.kind[t] = "parallel"
      PROVE  ParallelInStep(t)'
  <2>1. ParallelInStep(t)
    BY <1>1, <1>6 DEF InStep
  <2>2. \A i \in DOMAIN Nested(t) : Ended(Nested(t)[i]) => Nested(t)[i] # x
    BY DEF Ended, Outcomes
  <2>3. \A i \in DOMAIN Nested(t) :
           /\ status'[Nested(t)[i]] = "idle" <=> status[Nested(t)[i]] = "idle"
           /\ Ended(Nested(t)[i]) => status'[Nested(t)[i]] = status[Nested(t)[i]]
    BY <1>1, <1>3, <2>2
  <2>4. status'[t] \in {"ok", "failed"} /\ t \notin unforked' =>
          /\ next[t] > 2 * Len(Nested(t))
          /\ status'[t] = "ok" <=> success[t]
    BY <1>3, <1>4, <1>6, <2>1 DEF ParallelInStep
  <2> QED
    BY <1>2, <2>1, <2>3, <2>4 DEF ParallelInStep, Ended
<1> QED
  BY <1>1, <1>2, <1>3, <1>5, <1>6 DEF InStep

\* A sequential task starts the next of the tasks nested in it.
LEMMA CallKeeps ==
  ASSUME IInv, NEW x \in Tasks, Call(x)
  PROVE  \A t \in Tasks : InStep(t)'
<1> DEFINE n == Nested(x)[next[x]]
<1>1. /\ tree.kind[x] = "sequential" /\ status[x] = "running"
      /\ n \in Tasks /\ next[x] \in DOMAIN Nested(x)
      /\ process[x] \in Tasks /\ status[n] = "idle"
  BY InStepHolds DEF Call, Running, InStep
<1>2. /\ status' = [status EXCEPT ![n] = "running"]
      /\ process' = [process EXCEPT ![n] = process[x]]
      /\ tree' = tree /\ next' = next /\ success' = success /\ unforked' = unforked
  BY DEF Call
<1>3. ASSUME NEW t \in Tasks, NEW i \in DOMAIN Nested(t), Nested(t)[i] = n
      PROVE  t = x /\ i = next[x]
  BY <1>1, <1>3, InStepHolds, NestedOnce
<1> HIDE DEF n
<1> SUFFICES ASSUME NEW t \in Tasks
             PROVE  InStep(t)'
  OBVIOUS
<1>4. /\ InStep(t)
      /\ status \in [Tasks -> Outcomes \cup {"idle", "running"}]
      /\ process \in [Tasks -> Tasks \cup {NoProcess}]
      /\ \A i \in DOMAIN Nested(t) : i \in Nat /\ Nested(t)[i] \in Tasks
      /\ next[t] \in Nat \ {0} /\ Len(Nested(t)) \in Nat
      /\ Nested(t)' = Nested(t)
  BY <1>2, InStepHolds DEF Nested
<1>5. /\ \A u \in Tasks : u # n => status'[u] = status[u] /\ process'[u] = process[u]
      /\ status'[n] = "running" /\ process'[n] = process[x]
  BY <1>1, <1>2, <1>4
<1>6. n # x
  BY <1>1
<1>7. ASSUME tree.kind[t] = "sequential"
      PROVE  SequentialInStep(t)'
  <2>1. SequentialInStep(t)
    BY <1>4, <1>7 DEF InStep
  <2>2. ASSUME NEW i \in DOMAIN Nested(t)
        PROVE  /\ i < next[t] => status'[Nested(t)[i]] = "ok"
               /\ i > next[t] => status'[Nested(t)[i]] = "idle"
               /\ status'[Nested(t)[i]] = "running" =>
                     status'[t] = "running" /\ process'[Nested(t)[i]] = process'[t]
    <3>1. CASE Nested(t)[i] = n
      <4>1. t = x /\ i = next[x]
        BY <1>3, <3>1
      <4> QED
        BY <1>1, <1>4, <1>5, <1>6, <3>1, <4>1
    <3>2. CASE Nested(t)[i] # n
      <4>1. /\ status'[Nested(t)[i]] = status[Nested(t)[i]]
            /\ process'[Nested(t)[i]] = process[Nested(t)[i]]
        BY <1>4, <1>5, <3>2
      <4>2. status[t] = "running" => t # n
        BY <1>1
      <4> QED
        BY <1>5, <2>1, <4>1, <4>2 DEF SequentialInStep
    <3> QED
      BY <3>1, <3>2
  <2> QED
    BY <1>2, <1>4, <2>2 DEF SequentialInStep
<1>8. ASSUME tree.kind[t] = "parallel"
      PROVE  ParallelInStep(t)'
  <2>1. ParallelInStep(t)
    BY <1>4, <1>8 DEF InStep
  <2>2. \A i \in DOMAIN Nested(t) : status'[Nested(t)[i]] = status[Nested(t)[i]]
    BY <1>1, <1>3, <1>4, <1>5, <1>8
  <2>3. status'[t] \in {"ok", "failed"} => status[t] = status'[t]
    BY <1>5
  <2> QED
    BY <1>2, <1>4, <2>1, <2>2, <2>3 DEF ParallelInStep, Ended
<1> QED
  BY <1>1, <1>2, <1>4, <1>5, <1>7, <1>8 DEF InStep

\* A parallel task forks a child for the next one.
LEMMA ForkKeeps ==
  ASSUME IInv, NEW x \in Tasks, Fork(x)
  PROVE  \A t \in Tasks : InStep(t)'
<1> DEFINE n == Nested(x)[next[x]]
<1>1. /\ tree.kind[x] = "parallel" /\ status[x] = "running"
      /\ n \in Tasks /\ next[x] \in DOMAIN Nested(x) /\ next[x] <= Len(Nested(x))
  BY InStepHolds DEF Fork, Running
<1>2. status[n] = "idle"
  BY <1>1, InStepHolds DEF InStep, ParallelInStep
<1>3. /\ status' = [status EXCEPT ![n] = "running"]
      /\ process' = [process EXCEPT ![n] = n]
      /\ next' = [next EXCEPT ![x] = @ + 1]
      /\ tree' = tree /\ success' = success /\ unforked' = unforked
  BY DEF Fork
<1>4. ASSUME NEW t \in Tasks, NEW i \in DOMAIN Nested(t), Nested(t)[i] = n
      PROVE  t = x /\ i = next[x]
  BY <1>1, <1>4, InStepHolds, NestedOnce
<1> HIDE DEF n
<1> SUFFICES ASSUME NEW t \in Tasks
             PROVE  InStep(t)'
  OBVIOUS
<1>5. /\ InStep(t)
      /\ status \in [Tasks -> Outcomes \cup {"idle", "running"}]
      /\ process \in [Tasks -> Tasks \cup {NoProcess}]
      /\ \A i \in DOMAIN Nested(t) : i \in Nat \ {0} /\ Nested(t)[i] \in Tasks
      /\ next[t] \in Nat \ {0} /\ Len(Nested(t)) \in Nat
      /\ Nested(t)' = Nested(t)
      /\ DOMAIN Nested(t) = 1..Len(Nested(t))
  BY <1>3, InStepHolds DEF Nested
<1>6. /\ \A u \in Tasks : u # n => status'[u] = status[u] /\ process'[u] = process[u]
      /\ status'[n] = "running" /\ process'[n] = n
  BY <1>1, <1>3, <1>5
<1>7. /\ t # x => next'[t] = next[t]
      /\ t = x => next'[t] = next[t] + 1
  BY <1>3, InStepHolds DEF IInv, TypeOK
<1>8. n # x
  BY <1>1, <1>2
<1>9. ASSUME tree.kind[t] = "sequential"
      PROVE  SequentialInStep(t)'
  <2>1. SequentialInStep(t) /\ t # x
    BY <1>1, <1>5, <1>9 DEF InStep
  <2>2. \A i \in DOMAIN Nested(t) : Nested(t)[i] # n
    BY <1>4, <2>1
  <2>3. status[t] = "running" => t # n
    BY <1>2
  <2> QED
    BY <1>3, <1>5, <1>6, <1>7, <2>1, <2>2, <2>3 DEF SequentialInStep
<1>10. ASSUME tree.kind[t] = "parallel"
       PROVE  ParallelInStep(t)'
  <2>1. ParallelInStep(t)
    BY <1>5, <1>10 DEF InStep
  <2>2. status'[t] \in {"ok", "failed"} => status[t] = status'[t]
    BY <1>6
  <2>3. CASE t # x
    <3>1. \A i \in DOMAIN Nested(t) : status'[Nested(t)[i]] = status[Nested(t)[i]]
      BY <1>4, <1>5, <1>6, <2>3
    <3> QED
      BY <1>3, <1>5, <1>7, <2>1, <2>2, <2>3, <3>1 DEF ParallelInStep, Ended
  <2>4. CASE t = x
    <3>1. \A i \in DOMAIN Nested(t) :
             /\ i # next[x] => status'[Nested(t)[i]] = status[Nested(t)[i]]
             /\ i = next[x] => status'[Nested(t)[i]] = "running"
      BY <1>4, <1>5, <1>6, <2>4 DEF n
    <3>2. \A i \in DOMAIN Nested(t) : status'[Nested(t)[i]] = "idle" <=> i >= next'[t]
      <4> SUFFICES ASSUME NEW i \in DOMAIN Nested(t)
                   PROVE  status'[Nested(t)[i]] = "idle" <=> i >= next'[t]
        OBVIOUS
      <4>1. status[Nested(t)[i]] = "idle" <=> i >= next[t]
        BY <2>1 DEF ParallelInStep
      <4> QED
        BY <1>5, <1>7, <2>4, <3>1, <4>1
    <3>3. {i \in DOMAIN Nested(t) : i + Len(Nested(t)) < next'[t]} = {}
      BY <1>1, <1>5, <1>7, <2>4
    <3>4. {i \in DOMAIN Nested(t) : i + Len(Nested(t)) < next[t]} = {}
      BY <1>1, <1>5, <2>4
    <3>5. status'[t] = "running"
      BY <1>1, <1>6, <1>8, <2>4
    <3> QED
      BY <1>3, <1>5, <2>1, <3>2, <3>3, <3>4, <3>5 DEF ParallelInStep
  <2> QED
    BY <2>3, <2>4
<1>11. status'[t] = "idle" => t # x /\ status[t] = "idle"
  BY <1>1, <1>6, <1>8
<1> QED
  BY <1>1, <1>3, <1>5, <1>6, <1>7, <1>9, <1>10, <1>11 DEF InStep

\* The loop of a sequential task goes on behind a task that returned true.
LEMMA AdvanceKeeps ==
  ASSUME IInv, NEW x \in Tasks, tree.kind[x] = "sequential", status[x] = "running",
         next[x] \in DOMAIN Nested(x), status[Nested(x)[next[x]]] = "ok",
         next' = [next EXCEPT ![x] = @ + 1],
         UNCHANGED <<tree, status, process, success, unforked>>
  PROVE  \A t \in Tasks : InStep(t)'
<1> SUFFICES ASSUME NEW t \in Tasks
             PROVE  InStep(t)'
  OBVIOUS
<1>1. /\ tree' = tree /\ status' = status /\ process' = process /\ success' = success
      /\ unforked' = unforked /\ Nested(t)' = Nested(t)
      /\ \A u : Ended(u)' = Ended(u)
  BY DEF Nested, Ended
<1>2. /\ InStep(t) /\ next[t] \in Nat \ {0} /\ Len(Nested(t)) \in Nat
      /\ \A i \in DOMAIN Nested(t) : i \in Nat \ {0}
  BY InStepHolds
<1>3. /\ t # x => next'[t] = next[t]
      /\ t = x => next'[t] = next[t] + 1
  BY InStepHolds DEF IInv, TypeOK
<1>4. CASE t # x
  <2>1. tree.kind[t] = "sequential" => SequentialInStep(t)'
    BY <1>1, <1>2, <1>3, <1>4 DEF InStep, SequentialInStep
  <2>2. tree.kind[t] = "parallel" => ParallelInStep(t)'
    BY <1>1, <1>2, <1>3, <1>4 DEF InStep, ParallelInStep
  <2> QED
    BY <1>1, <1>2, <1>3, <1>4, <2>1, <2>2 DEF InStep
<1>5. CASE t = x
  <2>1. SequentialInStep(t)'
    BY <1>1, <1>2, <1>3, <1>5 DEF InStep, SequentialInStep
  <2> QED
    BY <1>1, <1>2, <1>5, <2>1 DEF InStep
<1> QED
  BY <1>4, <1>5

\* waitpid returns the next child of a parallel task.
LEMMA WaitKeeps ==
  ASSUME IInv, NEW x \in Tasks, Wait(x)
  PROVE  \A t \in Tasks : InStep(t)'
<1> SUFFICES ASSUME NEW t \in Tasks
             PROVE  InStep(t)'
  OBVIOUS
<1>1. /\ tree' = tree /\ status' = status /\ process' = process
      /\ unforked' = unforked /\ Nested(t)' = Nested(t)
      /\ \A u : Ended(u)' = Ended(u)
      /\ next' = [next EXCEPT ![x] = @ + 1]
  BY DEF Nested, Ended, Wait
<1>2. /\ InStep(t) /\ next[t] \in Nat \ {0} /\ Len(Nested(t)) \in Nat
      /\ \A i \in DOMAIN Nested(t) : i \in Nat \ {0}
      /\ DOMAIN Nested(t) = 1..Len(Nested(t))
      /\ success[t] \in BOOLEAN
  BY InStepHolds
<1>3. /\ t # x => next'[t] = next[t]
      /\ t = x => next'[t] = next[t] + 1
  BY <1>1, InStepHolds DEF IInv, TypeOK
<1>4. CASE t # x
  <2>1. success'[t] = success[t]
    BY <1>4 DEF Wait, IInv, TypeOK
  <2>2. tree.kind[t] = "sequential" => SequentialInStep(t)'
    BY <1>1, <1>2, <1>3, <1>4 DEF InStep, SequentialInStep
  <2>3. tree.kind[t] = "parallel" => ParallelInStep(t)'
    BY <1>1, <1>2, <1>3, <1>4, <2>1 DEF InStep, ParallelInStep
  <2> QED
    BY <1>1, <1>2, <1>3, <1>4, <2>2, <2>3 DEF InStep
<1>5. CASE t = x
  <2> DEFINE j == next[t] - Len(Nested(t))
  <2>1. /\ tree.kind[t] = "parallel" /\ status[t] = "running" /\ ParallelInStep(t)
        /\ j \in DOMAIN Nested(t) /\ Ended(Nested(t)[j])
    BY <1>2, <1>5 DEF Wait, Waiting, Running, Awaited, InStep
  <2>2. success'[t] <=> success[t] /\ (status[Nested(t)[j]] # "ok" => ~tree.failonany[t])
    BY <1>5 DEF Wait, IInv, TypeOK, Awaited
  <2>3. {i \in DOMAIN Nested(t) : i + Len(Nested(t)) < next'[t]}
          = {i \in DOMAIN Nested(t) : i + Len(Nested(t)) < next[t]} \cup {j}
    BY <1>2, <1>3, <1>5, <2>1
  <2>4. \A i \in DOMAIN Nested(t) : i < next[t]
    BY <1>2, <2>1
  <2> HIDE DEF j
  <2>5. ParallelInStep(t)'
    <3>1. \A i \in DOMAIN Nested(t) : status[Nested(t)[i]] = "idle" <=> i >= next'[t]
      BY <1>2, <1>3, <1>5, <2>1, <2>4 DEF ParallelInStep
    <3>2. success'[t] <=>
            \A i \in {k \in DOMAIN Nested(t) : k + Len(Nested(t)) < next'[t]} :
               tree.failonany[t] => status[Nested(t)[i]] = "ok"
      BY <2>1, <2>2, <2>3 DEF ParallelInStep
    <3>3. \A i \in {k \in DOMAIN Nested(t) : k + Len(Nested(t)) < next'[t]} :
             Ended(Nested(t)[i])
      BY <2>1, <2>3 DEF ParallelInStep
    <3> QED
      BY <1>1, <2>1, <3>1, <3>2, <3>3 DEF ParallelInStep
  <2> QED
    BY <1>1, <1>2, <2>1, <2>5 DEF InStep
<1> QED
  BY <1>4, <1>5

\* A signal ends a child and every task it is running.
LEMMA KillKeeps ==
  ASSUME IInv, NEW p \in Tasks, Kill(p)
  PROVE  \A t \in Tasks : InStep(t)'
<1> SUFFICES ASSUME NEW t \in Tasks
             PROVE  InStep(t)'
  OBVIOUS
<1>1. /\ tree' = tree /\ process' = process /\ next' = next /\ success' = success
      /\ unforked' = unforked /\ Nested(t)' = Nested(t)
  BY DEF Nested, Kill
<1>2. /\ InStep(t)
      /\ status \in [Tasks -> Outcomes \cup {"idle", "running"}]
      /\ \A i \in DOMAIN Nested(t) : Nested(t)[i] \in Tasks
  BY InStepHolds
<1>3. \A u \in Tasks :
        status'[u] = IF process[u] = p /\ status[u] = "running" THEN "killed" ELSE status[u]
  BY DEF Kill
<1>4. ASSUME tree.kind[t] = "sequential"
      PROVE  SequentialInStep(t)'
  BY <1>1, <1>2, <1>3, <1>4 DEF InStep, SequentialInStep
<1>5. ASSUME tree.kind[t] = "parallel"
      PROVE  ParallelInStep(t)'
  <2>1. ParallelInStep(t)
    BY <1>2, <1>5 DEF InStep
  <2>2. \A i \in DOMAIN Nested(t) :
           /\ status'[Nested(t)[i]] = "idle" <=> status[Nested(t)[i]] = "idle"
           /\ Ended(Nested(t)[i]) => status'[Nested(t)[i]] = status[Nested(t)[i]]
    BY <1>2, <1>3 DEF Ended, Outcomes
  <2>3. status'[t] \in {"ok", "failed"} => status[t] = status'[t]
    BY <1>3
  <2> QED
    BY <1>1, <2>1, <2>2, <2>3 DEF ParallelInStep, Ended
<1> QED
  BY <1>1, <1>2, <1>3, <1>4, <1>5 DEF InStep

LEMMA InStepStep ==
  ASSUME IInv, [Next]_vars
  PROVE  \A t \in Tasks : InStep(t)'
<1>1. ASSUME NEW t \in Tasks, RunPlain(t)
      PROVE  \A u \in Tasks : InStep(u)'
  <2>1. PICK ok \in BOOLEAN : status' = [status EXCEPT ![t] = Verdict(ok)]
    BY <1>1 DEF RunPlain, Returns
  <2>2. Verdict(ok) \in {"ok", "failed"}
    BY DEF Verdict
  <2> QED
    BY <1>1, <2>1, <2>2, EndKeeps DEF RunPlain, Running
<1>2. ASSUME NEW t \in Tasks, Call(t)
      PROVE  \A u \in Tasks : InStep(u)'
  BY <1>2, CallKeeps
<1>3. ASSUME NEW t \in Tasks, CallReturned(t)
      PROVE  \A u \in Tasks : InStep(u)'
  <2>1. /\ next[t] \in DOMAIN Nested(t) /\ tree.kind[t] = "sequential"
        /\ status[t] = "running" /\ SequentialInStep(t) /\ next[t] \in Nat
        /\ \A i \in DOMAIN Nested(t) : i \in Nat
    BY <1>3, InStepHolds DEF CallReturned, Running, InStep
  <2>2. CASE status[Nested(t)[next[t]]] = "ok" /\ next' = [next EXCEPT ![t] = @ + 1]
              /\ UNCHANGED <<status, out>>
    BY <1>3, <2>1, <2>2, AdvanceKeeps DEF CallReturned
  <2>3. CASE status[Nested(t)[next[t]]] = "failed" /\ Returns(t, "failed", out)
              /\ UNCHANGED next
    <3>1. \A i \in DOMAIN Nested(t) : status[Nested(t)[i]] # "running"
      BY <2>1, <2>3 DEF SequentialInStep
    <3>2. status' = [status EXCEPT ![t] = "failed"] /\ next' = next
      BY <2>3 DEF Returns
    <3> QED
      BY <1>3, <2>1, <3>1, <3>2, EndKeeps DEF CallReturned
  <2> QED
    BY <1>3, <2>2, <2>3 DEF CallReturned
<1>4. ASSUME NEW t \in Tasks, SequentialDone(t)
      PROVE  \A u \in Tasks : InStep(u)'
  <2>1. \A i \in DOMAIN Nested(t) : status[Nested(t)[i]] # "running"
    BY <1>4, InStepHolds DEF SequentialDone, Running, InStep, SequentialInStep
  <2>2. status' = [status EXCEPT ![t] = "ok"]
    BY <1>4 DEF SequentialDone, Returns
  <2> QED
    BY <1>4, <2>1, <2>2, EndKeeps DEF SequentialDone, Running
<1>5. ASSUME NEW t \in Tasks, Fork(t)
      PROVE  \A u \in Tasks : InStep(u)'
  BY <1>5, ForkKeeps
<1>6. ASSUME NEW t \in Tasks, ForkFailed(t)
      PROVE  \A u \in Tasks : InStep(u)'
  <2>1. status' = [status EXCEPT ![t] = "failed"] /\ unforked' = unforked \cup {t}
    BY <1>6 DEF ForkFailed, Returns
  <2> QED
    BY <1>6, <2>1, EndKeeps DEF ForkFailed, Running
<1>7. ASSUME NEW t \in Tasks, Wait(t)
      PROVE  \A u \in Tasks : InStep(u)'
  BY <1>7, WaitKeeps
<1>8. ASSUME NEW t \in Tasks, ParallelDone(t)
      PROVE  \A u \in Tasks : InStep(u)'
  <2>1. /\ status' = [status EXCEPT ![t] = Verdict(success[t])]
        /\ Verdict(success[t]) \in {"ok", "failed"}
        /\ Verdict(success[t]) = "ok" <=> success[t]
    BY <1>8 DEF ParallelDone, Returns, Verdict
  <2> QED
    BY <1>8, <2>1, EndKeeps DEF ParallelDone, Running
<1>9. ASSUME NEW p \in Tasks, Kill(p)
      PROVE  \A u \in Tasks : InStep(u)'
  BY <1>9, KillKeeps
<1>10. CASE UNCHANGED vars
  BY <1>10 DEF vars, IInv, InStep, SequentialInStep, ParallelInStep, Nested, Ended
<1> QED
  BY <1>1, <1>2, <1>3, <1>4, <1>5, <1>6, <1>7, <1>8, <1>9, <1>10 DEF Next, TaskStep, Done

LEMMA InitIInv == Init => IInv
<1> SUFFICES ASSUME Init PROVE IInv
  OBVIOUS
<1>1. tree \in Trees /\ Root \in Tasks
  BY TasksAssumption DEF Init
<1>2. TypeOK
  <2>1. \A t \in Tasks : next[t] <= Bound(t)
    <3> SUFFICES ASSUME NEW t \in Tasks
                 PROVE  next[t] <= Bound(t)
      OBVIOUS
    <3>1. next[t] = 1
      BY DEF Init
    <3>2. Len(Nested(t)) \in Nat
      BY <1>1, TreeType
    <3> QED
      BY <1>1, <3>1, <3>2, BoundType
  <2>2. out \in [stdio : [Tasks -> SUBSET Tasks], written : [Tasks -> Nat]]
    BY DEF Init
  <2>3. status \in [Tasks -> Outcomes \cup {"idle", "running"}]
    BY DEF Init
  <2>4. process \in [Tasks -> Tasks \cup {NoProcess}] /\ next \in [Tasks -> Nat \ {0}]
    BY <1>1 DEF Init
  <2>5. success \in [Tasks -> BOOLEAN] /\ memory \in [Tasks -> SUBSET Tasks]
    BY DEF Init
  <2>6. tty \in BOOLEAN /\ unforked \subseteq Tasks
    BY DEF Init
  <2> QED
    BY <1>1, <2>1, <2>2, <2>3, <2>4, <2>5, <2>6 DEF TypeOK, Bound, Nested
<1>3. ASSUME NEW t \in Tasks
      PROVE  InStep(t)
  <2>1. \A i \in DOMAIN Nested(t) : /\ status[Nested(t)[i]] = "idle" /\ i \in Nat \ {0}
                                    /\ Nested(t)[i] \in Tasks
    BY <1>1, NestedOnce, TreeType DEF Init
  <2>2. next[t] = 1 /\ success[t] = TRUE /\ Len(Nested(t)) \in Nat
    BY <1>1, TreeType DEF Init
  <2>3. SequentialInStep(t)
    BY <2>1, <2>2 DEF SequentialInStep
  <2>4. ParallelInStep(t)
    <3>1. {i \in DOMAIN Nested(t) : i + Len(Nested(t)) < next[t]} = {}
      BY <2>1, <2>2
    <3>2. status[t] \notin {"ok", "failed"}
      BY DEF Init
    <3> QED
      BY <2>1, <2>2, <3>1, <3>2 DEF ParallelInStep
  <2>5. status[t] # "idle" => process[t] \in Tasks
    BY <1>1 DEF Init
  <2> QED
    BY <2>2, <2>3, <2>4, <2>5 DEF InStep
<1> QED
  BY <1>2, <1>3 DEF IInv

-----------------------------------------------------------------------------
(* Orphans                                                                 *)

\* The tasks inside t are the nested ones and those inside them.
LEMMA InsideClosed ==
  ASSUME tree \in Trees, NEW t \in Tasks, NEW v \in {t} \cup Inside(t)
  PROVE  Range(Nested(v)) \subseteq Inside(t)
<1> SUFFICES ASSUME NEW w \in Range(Nested(v))
             PROVE  w \in Inside(t)
  OBVIOUS
<1>1. v \in Tasks /\ w \in Tasks
  BY TreeType DEF Inside, Range
<1>2. ASSUME NEW S \in SUBSET Tasks, \A x \in S \cup {t} : Range(Nested(x)) \subseteq S
      PROVE  w \in S
  BY <1>2 DEF Inside
<1> QED
  BY <1>1, <1>2 DEF Inside

LEMMA InsideUp ==
  ASSUME tree \in Trees, NEW v \in Tasks, NEW w \in Range(Nested(v)),
         NEW u \in {w} \cup Inside(w)
  PROVE  u \in Inside(v)
<1>1. w \in Tasks /\ u \in Tasks
  BY TreeType DEF Inside, Range
<1>2. ASSUME NEW S \in SUBSET Tasks, \A x \in S \cup {v} : Range(Nested(x)) \subseteq S
      PROVE  u \in S
  <2>1. w \in S
    BY <1>2
  <2>2. \A x \in S \cup {w} : Range(Nested(x)) \subseteq S
    BY <1>2, <2>1
  <2> QED
    BY <2>1, <2>2 DEF Inside
<1> QED
  BY <1>1, <1>2 DEF Inside

\* A task that is not running, and has neither failed to fork nor been killed,
\* has nothing running nested in it.
LEMMA NothingLeft ==
  ASSUME IInv, NEW t \in Tasks, status[t] \notin {"running", "killed"}, t \notin unforked
  PROVE  \A n \in Range(Nested(t)) : status[n] # "running"
<1>1. /\ InStep(t) /\ tree \in Trees /\ DOMAIN Nested(t) = 1..Len(Nested(t))
      /\ Len(Nested(t)) \in Nat /\ next[t] \in Nat
      /\ status[t] \in {"idle", "ok", "failed"}
  BY InStepHolds DEF Outcomes
<1>2. \A n \in Range(Nested(t)) : \E i \in DOMAIN Nested(t) : n = Nested(t)[i]
  BY DEF Range
<1>3. CASE tree.kind[t] = "plain"
  BY <1>1, <1>2, <1>3, TreeType
<1>4. CASE tree.kind[t] = "sequential"
  BY <1>1, <1>2, <1>4 DEF InStep, SequentialInStep
<1>5. CASE tree.kind[t] = "parallel"
  <2>1. ParallelInStep(t)
    BY <1>1, <1>5 DEF InStep
  <2>2. CASE status[t] = "idle"
    <3>1. next[t] = 1
      BY <1>1, <2>2 DEF InStep
    <3> QED
      BY <1>1, <1>2, <2>1, <3>1 DEF ParallelInStep
  <2>3. CASE status[t] \in {"ok", "failed"}
    <3>1. next[t] > 2 * Len(Nested(t))
      BY <2>1, <2>3 DEF ParallelInStep
    <3>2. \A i \in DOMAIN Nested(t) : i + Len(Nested(t)) < next[t]
      BY <1>1, <3>1
    <3>3. \A i \in DOMAIN Nested(t) : Ended(Nested(t)[i])
      BY <2>1, <3>2 DEF ParallelInStep
    <3> QED
      BY <1>2, <3>3 DEF Ended, Outcomes
  <2> QED
    BY <1>1, <2>2, <2>3
<1> QED
  BY <1>1, <1>3, <1>4, <1>5, TreeType

\* Were there no reason, everything on the way from t down to u would have
\* come to rest, u included.
LEMMA OrphansLemma == IInv => OrphansExplained
<1> SUFFICES ASSUME IInv, NEW t \in Tasks, NEW u \in Tasks,
                    Ended(t), status[u] = "running", u \in Inside(t),
                    \A v \in {t} \cup Inside(t) :
                       u \in Inside(v) => v \notin unforked /\ status[v] # "killed"
             PROVE  FALSE
  BY DEF OrphansExplained
<1>1. tree \in Trees
  BY DEF IInv, TypeOK
<1> DEFINE S == {w \in Inside(t) : status[w] # "running" \/ u \notin {w} \cup Inside(w)}
<1>2. S \in SUBSET Tasks
  BY DEF Inside
<1>3. ASSUME NEW v \in S \cup {t}, NEW w \in Range(Nested(v))
      PROVE  w \in S
  <2>1. w \in Inside(t) /\ v \in Tasks
    BY <1>1, <1>3, InsideClosed DEF Inside
  <2>2. CASE u \in {w} \cup Inside(w)
    <3>1. u \in Inside(v)
      BY <1>1, <1>3, <2>1, <2>2, InsideUp
    <3>2. v \notin unforked /\ status[v] # "killed"
      BY <3>1
    <3>3. status[v] # "running"
      BY <3>1 DEF Ended, Outcomes
    <3>4. status[w] # "running"
      BY <1>3, <2>1, <3>2, <3>3, NothingLeft
    <3> QED
      BY <2>1, <3>4
  <2> QED
    BY <2>1, <2>2
<1>4. \A v \in S \cup {t} : Range(Nested(v)) \subseteq S
  BY <1>3
<1>5. u \in S
  BY <1>2, <1>4 DEF Inside
<1> QED
  BY <1>5

LEMMA VerdictLemma == IInv => VerdictReflectsChildren
<1> SUFFICES ASSUME IInv, NEW t \in Tasks, t \notin unforked,
                    tree.kind[t] = "parallel", status[t] \in {"ok", "failed"}
             PROVE  status[t] = "ok" <=>
                      \A n \in Range(Nested(t)) :
                         Ended(n) /\ (tree.failonany[t] => status[n] = "ok")
  BY DEF VerdictReflectsChildren
<1>1. /\ ParallelInStep(t) /\ Len(Nested(t)) \in Nat /\ next[t] \in Nat
      /\ DOMAIN Nested(t) = 1..Len(Nested(t))
  BY InStepHolds DEF InStep
<1>2. next[t] > 2 * Len(Nested(t)) /\ (status[t] = "ok" <=> success[t])
  BY <1>1 DEF ParallelInStep
<1>3. {i \in DOMAIN Nested(t) : i + Len(Nested(t)) < next[t]} = DOMAIN Nested(t)
  BY <1>1, <1>2
<1>4. \A i \in DOMAIN Nested(t) : Ended(Nested(t)[i])
  BY <1>1, <1>3 DEF ParallelInStep
<1>5. success[t] <=> \A i \in DOMAIN Nested(t) :
                        tree.failonany[t] => status[Nested(t)[i]] = "ok"
  BY <1>1, <1>3 DEF ParallelInStep
<1> QED
  BY <1>2, <1>4, <1>5 DEF Range

-----------------------------------------------------------------------------
(* The theorems                                                            *)

\* Every loop of the tree stays in step with the tasks it runs or forks,
\* whichever of them end, fail or are killed in the meantime.
THEOREM Invariance == Spec => []IInv
<1>1. IInv /\ [Next]_vars => IInv'
  BY TypeStep, InStepStep DEF IInv
<1> QED
  BY InitIInv, <1>1, PTL DEF Spec

\* Every variable keeps its type: no loop passes the end of its list, and
\* each process has a table and a buffer of its own.
THEOREM TypeCorrect == Spec => []TypeOK
<1>1. IInv => TypeOK
  BY DEF IInv
<1> QED
  BY <1>1, Invariance, PTL

\* A task that runs on inside one that has ended was left behind by a failed
\* fork or a kill; parallel_invoke and sequential_invoke leave none behind.
THEOREM NoUnexplainedOrphans == Spec => []OrphansExplained
  BY OrphansLemma, Invariance, PTL

\* parallel_invoke's verdict is that of its children: it has waited for all,
\* and with failonany no failure or kill among them is lost.
THEOREM VerdictIsChildren == Spec => []VerdictReflectsChildren
  BY VerdictLemma, Invariance, PTL

=============================================================================
