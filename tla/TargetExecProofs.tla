-------------------------- MODULE TargetExecProofs --------------------------
(***************************************************************************)
(* Theorems about TargetExec, for every set of targets, every build file   *)
(* and every stack size.                                                   *)
(***************************************************************************)
EXTENDS TargetExec, SequenceTheorems, FiniteSetTheorems, TLAPS

-----------------------------------------------------------------------------
(* Stacks                                                                  *)

\* Replacing the last element of a sequence.
LEMMA ReplaceLast ==
  ASSUME NEW S, NEW q \in Seq(S), q # <<>>, NEW x \in S
  PROVE  LET r == [q EXCEPT ![Len(q)] = x] IN
         /\ r \in Seq(S) /\ Len(r) = Len(q) /\ Last(r) = x /\ r # <<>>
         /\ \A k \in 1..Len(q) - 1 : r[k] = q[k]
         /\ Len(q) \in Nat \ {0} /\ r[Len(q)] = x
  BY DEF Last

\* Dropping the last element of a sequence.
LEMMA Prefix ==
  ASSUME NEW S, NEW q, NEW n \in Nat, \A i \in 1..n : q[i] \in S
  PROVE  /\ SubSeq(q, 1, n) \in Seq(S)
         /\ Len(SubSeq(q, 1, n)) = n
         /\ \A k \in 1..n : SubSeq(q, 1, n)[k] = q[k]
<1>1. /\ SubSeq(q, 1, n) \in Seq(S)
      /\ Len(SubSeq(q, 1, n)) = IF 1 <= n THEN n - 1 + 1 ELSE 0
      /\ \A i \in 1..n - 1 + 1 : SubSeq(q, 1, n)[i] = q[1 + i - 1]
  BY SubSeqProperties
<1> QED
  BY <1>1

LEMMA DropLast ==
  ASSUME NEW S, NEW q \in Seq(S), q # <<>>
  PROVE  /\ Front(q) \in Seq(S) /\ Len(Front(q)) = Len(q) - 1
         /\ \A k \in 1..Len(q) - 1 : Front(q)[k] = q[k]
         /\ Len(q) \in Nat \ {0}
<1>1. PICK n \in Nat : n = Len(q) - 1 /\ Len(q) = n + 1
  OBVIOUS
<1>2. \A i \in 1..n : q[i] \in S
  BY <1>1
<1>3. /\ SubSeq(q, 1, n) \in Seq(S)
      /\ Len(SubSeq(q, 1, n)) = n
      /\ \A k \in 1..n : SubSeq(q, 1, n)[k] = q[k]
  BY <1>2, Prefix
<1>4. Front(q) = SubSeq(q, 1, n)
  BY <1>1 DEF Front
<1> QED
  BY <1>1, <1>3, <1>4

LEMMA LastType ==
  ASSUME NEW S, NEW q \in Seq(S), q # <<>>
  PROVE  Last(q) \in S /\ Last(q) = q[Len(q)] /\ Len(q) \in Nat \ {0}
  BY DEF Last


-----------------------------------------------------------------------------
(* The dependency graph                                                    *)

Graphs == [Targets -> Seq(Targets)]

LEMMA DependsType ==
  ASSUME NEW d \in Graphs, NEW t \in Targets
  PROVE  /\ DependsOf(d, t) \subseteq Targets
         /\ \A j \in 1..Len(d[t]) : d[t][j] \in DependsOf(d, t) /\ d[t][j] \in Targets
         /\ \A u \in DependsOf(d, t) : \E j \in 1..Len(d[t]) : u = d[t][j]
         /\ Len(d[t]) \in Nat
  BY DEF Graphs, DependsOf, Range

LEMMA BelowStep ==
  ASSUME NEW d, NEW u \in Targets, NEW t \in DependsOf(d, u)
  PROVE  Below(d, u, t)
  BY DEF Below

LEMMA BelowTrans ==
  ASSUME NEW d, NEW u \in Targets, NEW v \in Targets, NEW t \in DependsOf(d, v),
         Below(d, u, v)
  PROVE  Below(d, u, t)
  BY DEF Below, Closed

-----------------------------------------------------------------------------
(* Scopes are well typed                                                   *)

LEMMA HereType ==
  ASSUME NEW s \in Scope, s.frames # <<>>
  PROVE  /\ Here(s) \in Frame /\ Here(s) = s.frames[Len(s.frames)]
         /\ Here(s).target \in Targets /\ Here(s).next \in Nat \ {0}
         /\ Here(s).phase \in {"depends", "tasks"}
         /\ Len(s.frames) \in Nat \ {0}
         /\ s.frames \in Seq(Frame)
<1>1. s.frames \in Seq(Frame)
  BY DEF Scope
<1>2. /\ Here(s) \in Frame /\ Here(s) = s.frames[Len(s.frames)]
      /\ Len(s.frames) \in Nat \ {0}
  BY <1>1, LastType DEF Here
<1> QED
  BY <1>1, <1>2 DEF Frame

LEMMA CallsType ==
  ASSUME NEW d \in Graphs, NEW s \in Scope, NEW t, Calls(d, s, t)
  PROVE  t \in Targets
<1>1. CASE s.frames = <<>>
  BY <1>1 DEF Calls, Scope, InFrame
<1>2. CASE s.frames # <<>>
  BY <1>2, HereType, DependsType DEF Calls, InFrame
<1> QED
  BY <1>1, <1>2

LEMMA SetHereType ==
  ASSUME NEW s \in Scope, s.frames # <<>>, NEW f \in Frame
  PROVE  LET r == SetHere(s, f) IN
         /\ r \in Scope
         /\ r.goals = s.goals /\ r.base = s.base
         /\ r.context = s.context /\ r.completed = s.completed
         /\ Len(r.frames) = Len(s.frames) /\ r.frames # <<>>
         /\ Here(r) = f /\ r.frames[Len(s.frames)] = f
         /\ \A i \in 1..Len(s.frames) - 1 : r.frames[i] = s.frames[i]
<1> DEFINE q == [s.frames EXCEPT ![Len(s.frames)] = f]
<1>1. /\ q \in Seq(Frame) /\ Len(q) = Len(s.frames) /\ Last(q) = f /\ q # <<>>
      /\ \A i \in 1..Len(s.frames) - 1 : q[i] = s.frames[i]
      /\ q[Len(s.frames)] = f
  BY ReplaceLast, HereType
<1>2. SetHere(s, f) = [s EXCEPT !.frames = q]
  BY DEF SetHere
<1> HIDE DEF q
<1> QED
  BY <1>1, <1>2 DEF Scope, Here

LEMMA AdvancedType ==
  ASSUME NEW s \in Scope, s.frames = <<>> => s.goals # <<>>
  PROVE  LET r == Advanced(s) IN
         /\ r \in Scope
         /\ r.base = s.base
         /\ r.context = s.context /\ r.completed = s.completed
         /\ Len(r.frames) = Len(s.frames)
         /\ s.frames = <<>> => r.frames = <<>> /\ r.goals = Tail(s.goals)
         /\ s.frames # <<>> =>
              /\ r.frames # <<>> /\ r.goals = s.goals
              /\ r.frames[Len(s.frames)] = [Here(s) EXCEPT !.next = @ + 1]
              /\ \A i \in 1..Len(s.frames) - 1 : r.frames[i] = s.frames[i]
<1>1. CASE s.frames = <<>>
  BY <1>1, HeadTailProperties DEF Advanced, Scope
<1>2. CASE s.frames # <<>>
  <2>1. [Here(s) EXCEPT !.next = @ + 1] \in Frame
    BY <1>2, HereType DEF Frame
  <2> QED
    BY <1>2, <2>1, SetHereType DEF Advanced
<1> QED
  BY <1>1, <1>2

\* Replacing the context and the stack of a scope leaves a scope.
LEMMA ContextFrames ==
  ASSUME NEW s \in Scope, NEW c \in SUBSET Targets, NEW q \in Seq(Frame)
  PROVE  [s EXCEPT !.context = c, !.frames = q] \in Scope
BY DEF Scope

LEMMA EnteredType ==
  ASSUME NEW s \in Scope, NEW t \in Targets, s.frames = <<>> => s.goals # <<>>
  PROVE  LET r == Entered(s, t) IN
         /\ r \in Scope
         /\ r.base = s.base /\ r.goals = Advanced(s).goals
         /\ r.context = s.context \cup {t} /\ r.completed = s.completed
         /\ Len(r.frames) = Len(s.frames) + 1 /\ r.frames # <<>>
         /\ r.frames[Len(s.frames) + 1] = [target |-> t, phase |-> "depends", next |-> 1]
         /\ \A i \in 1..Len(s.frames) : r.frames[i] = Advanced(s).frames[i]
<1> DEFINE a == Advanced(s)
           f == [target |-> t, phase |-> "depends", next |-> 1]
<1>1. a \in Scope /\ a.base = s.base /\ a.context = s.context
      /\ a.completed = s.completed /\ Len(a.frames) = Len(s.frames)
  BY AdvancedType
<1>2. f \in Frame
  BY DEF Frame
<1>3. /\ Append(a.frames, f) \in Seq(Frame)
      /\ Len(Append(a.frames, f)) = Len(a.frames) + 1
      /\ Append(a.frames, f)[Len(a.frames) + 1] = f
      /\ \A i \in 1..Len(a.frames) : Append(a.frames, f)[i] = a.frames[i]
      /\ Append(a.frames, f) # <<>>
  <2>1. a.frames \in Seq(Frame)
    BY <1>1 DEF Scope
  <2> QED
    BY <2>1, <1>2, AppendProperties
<1>4. Entered(s, t) = [a EXCEPT !.context = @ \cup {t}, !.frames = Append(@, f)]
  BY DEF Entered
<1> DEFINE q == Append(a.frames, f)
<1>5. /\ q \in Seq(Frame) /\ Len(q) = Len(s.frames) + 1 /\ q # <<>>
      /\ q[Len(s.frames) + 1] = f
      /\ \A i \in 1..Len(s.frames) : q[i] = a.frames[i]
  BY <1>1, <1>3
<1>6. Entered(s, t) = [a EXCEPT !.context = @ \cup {t}, !.frames = q]
  BY <1>4
<1> HIDE DEF a, f, q
<1>7. Entered(s, t) \in Scope
  <2> DEFINE c == a.context \cup {t}
  <2>1. c \in SUBSET Targets
    BY <1>1 DEF Scope
  <2>2. Entered(s, t) = [a EXCEPT !.context = c, !.frames = q]
    BY <1>6
  <2> HIDE DEF c
  <2> QED
    BY <1>1, <1>5, <2>1, <2>2, ContextFrames
<1> QED
  BY <1>1, <1>5, <1>6, <1>7 DEF Scope, a, f

LEMMA StartedType ==
  ASSUME NEW s \in Scope, s.frames # <<>>
  PROVE  LET r == Started(s) IN
         /\ r \in Scope
         /\ r.base = s.base /\ r.goals = s.goals
         /\ r.context = s.context \ {Here(s).target} /\ r.completed = s.completed
         /\ Len(r.frames) = Len(s.frames) /\ r.frames # <<>>
         /\ r.frames[Len(s.frames)] = [target |-> Here(s).target, phase |-> "tasks", next |-> 1]
         /\ \A i \in 1..Len(s.frames) - 1 : r.frames[i] = s.frames[i]
<1> DEFINE f == [target |-> Here(s).target, phase |-> "tasks", next |-> 1]
           a == SetHere(s, f)
<1>1. f \in Frame
  BY HereType DEF Frame
<1>2. Started(s) = [a EXCEPT !.context = @ \ {Here(s).target}]
  BY DEF Started
<1>3. /\ a \in Scope
      /\ a.goals = s.goals /\ a.base = s.base
      /\ a.context = s.context /\ a.completed = s.completed
      /\ Len(a.frames) = Len(s.frames) /\ a.frames # <<>>
      /\ a.frames[Len(s.frames)] = f
      /\ \A i \in 1..Len(s.frames) - 1 : a.frames[i] = s.frames[i]
  BY <1>1, SetHereType
<1> HIDE DEF a, f
<1> QED
  BY <1>2, <1>3, HereType DEF Scope, f

LEMMA CompletedType ==
  ASSUME NEW s \in Scope, s.frames # <<>>
  PROVE  LET r == Completed(s) IN
         /\ r \in Scope
         /\ r.base = s.base /\ r.goals = s.goals
         /\ r.context = s.context
         /\ r.completed = s.completed \cup {Here(s).target}
         /\ Len(r.frames) = Len(s.frames) - 1
         /\ \A i \in 1..Len(s.frames) - 1 : r.frames[i] = s.frames[i]
<1>1. /\ Front(s.frames) \in Seq(Frame)
      /\ Len(Front(s.frames)) = Len(s.frames) - 1
      /\ \A i \in 1..Len(s.frames) - 1 : Front(s.frames)[i] = s.frames[i]
  BY HereType, DropLast
<1>2. Completed(s) = [s EXCEPT !.completed = @ \cup {Here(s).target},
                               !.frames = Front(s.frames)]
  BY DEF Completed
<1> DEFINE q == Front(s.frames)
           t == Here(s).target
<1>3. Completed(s) = [s EXCEPT !.completed = @ \cup {t}, !.frames = q]
  BY <1>2
<1>4. t \in Targets
  BY HereType
<1> HIDE DEF q
<1>5. Completed(s) \in Scope
  BY <1>1, <1>3, <1>4 DEF Scope, q
<1> QED
  BY <1>1, <1>3, <1>5 DEF Scope, q

-----------------------------------------------------------------------------
(* Every step on one scope preserves ScopeInv                              *)

\* The parts of ScopeInv that do not look at the list pointers.
ShapeInv(d, s) ==
    /\ BodiesInOrder(d, s)
    /\ ActiveOnce(s)
    /\ PathInContext(s)
    /\ CompletedAcyclic(d, s)
    /\ FramesArePath(d, s)

LEMMA FrameType ==
  ASSUME NEW s \in Scope
  PROVE  /\ s.frames \in Seq(Frame) /\ Len(s.frames) \in Nat
         /\ DOMAIN s.frames = 1..Len(s.frames)
         /\ s.frames = <<>> <=> Len(s.frames) = 0
         /\ \A i \in 1..Len(s.frames) :
              /\ s.frames[i] \in Frame
              /\ s.frames[i].target \in Targets
              /\ s.frames[i].next \in Nat \ {0}
              /\ s.frames[i].phase \in {"depends", "tasks"}
         /\ s.completed \subseteq Targets /\ s.context \subseteq Targets
<1>1. s.frames \in Seq(Frame) /\ s.completed \subseteq Targets /\ s.context \subseteq Targets
  BY DEF Scope
<1>2. /\ Len(s.frames) \in Nat /\ DOMAIN s.frames = 1..Len(s.frames)
      /\ s.frames = <<>> <=> Len(s.frames) = 0
      /\ \A i \in 1..Len(s.frames) : s.frames[i] \in Frame
  BY <1>1
<1>3. \A f \in Frame : /\ f.target \in Targets /\ f.next \in Nat \ {0}
                       /\ f.phase \in {"depends", "tasks"}
  BY DEF Frame
<1> QED
  BY <1>1, <1>2, <1>3

\* Moving list pointers changes none of the shape.
LEMMA SameShape ==
  ASSUME NEW d, NEW s \in Scope, NEW r \in Scope,
         Len(r.frames) = Len(s.frames),
         r.context = s.context, r.completed = s.completed,
         \A i \in 1..Len(s.frames) : /\ r.frames[i].target = s.frames[i].target
                                     /\ r.frames[i].phase = s.frames[i].phase,
         ShapeInv(d, s)
  PROVE  ShapeInv(d, r)
<1>1. DOMAIN r.frames = 1..Len(s.frames) /\ DOMAIN s.frames = 1..Len(s.frames)
  BY FrameType
<1>2. \A P : TargetsIn(r, P) = TargetsIn(s, P)
  BY <1>1 DEF TargetsIn
<1>3. BodiesInOrder(d, r) /\ PathInContext(r) /\ CompletedAcyclic(d, r)
  BY <1>2 DEF ShapeInv, BodiesInOrder, PathInContext, CompletedAcyclic
<1>4. ActiveOnce(r)
  BY <1>1 DEF ShapeInv, ActiveOnce
<1>5. FramesArePath(d, r)
  BY <1>1 DEF ShapeInv, FramesArePath
<1> QED
  BY <1>3, <1>4, <1>5 DEF ShapeInv

LEMMA ScopeInvParts ==
  ASSUME NEW d, NEW s
  PROVE  ScopeInv(d, s) <=> ShapeInv(d, s) /\ LoopsInStep(d, s)
  BY DEF ScopeInv, ShapeInv

\* Advanced, frame by frame.
LEMMA AdvancedFrames ==
  ASSUME NEW s \in Scope, s.frames = <<>> => s.goals # <<>>
  PROVE  LET r == Advanced(s) IN
         \A i \in 1..Len(s.frames) :
            /\ r.frames[i].target = s.frames[i].target
            /\ r.frames[i].phase = s.frames[i].phase
            /\ i < Len(s.frames) => r.frames[i].next = s.frames[i].next
            /\ i = Len(s.frames) => r.frames[i].next = s.frames[i].next + 1
<1> SUFFICES ASSUME NEW i \in 1..Len(s.frames)
             PROVE  LET r == Advanced(s) IN
                    /\ r.frames[i].target = s.frames[i].target
                    /\ r.frames[i].phase = s.frames[i].phase
                    /\ i < Len(s.frames) => r.frames[i].next = s.frames[i].next
                    /\ i = Len(s.frames) => r.frames[i].next = s.frames[i].next + 1
  OBVIOUS
<1>1. s.frames # <<>> /\ Len(s.frames) \in Nat
  BY FrameType
<1>2. CASE i = Len(s.frames)
  <2>1. Advanced(s).frames[i] = [s.frames[i] EXCEPT !.next = @ + 1]
    BY <1>1, <1>2, AdvancedType, HereType
  <2>2. s.frames[i] \in Frame
    BY FrameType
  <2> QED
    BY <1>2, <2>1, <2>2 DEF Frame
<1>3. CASE i # Len(s.frames)
  <2>1. i \in 1..Len(s.frames) - 1
    BY <1>1, <1>3
  <2>2. Advanced(s).frames[i] = s.frames[i]
    BY <1>1, <2>1, AdvancedType
  <2> QED
    BY <1>3, <2>2
<1> QED
  BY <1>2, <1>3

\* Moving the pointer of the innermost loop keeps the shape.
LEMMA AdvancedShape ==
  ASSUME NEW d, NEW s \in Scope, s.frames = <<>> => s.goals # <<>>, ShapeInv(d, s)
  PROVE  ShapeInv(d, Advanced(s))
<1>1. /\ Advanced(s) \in Scope /\ Len(Advanced(s).frames) = Len(s.frames)
      /\ Advanced(s).context = s.context /\ Advanced(s).completed = s.completed
  BY AdvancedType
<1> QED
  BY <1>1, AdvancedFrames, SameShape

\* A loop that is not innermost is not disturbed by what happens above it,
\* as long as the activation above stays.
LEMMA LoopKept ==
  ASSUME NEW d, NEW s \in Scope, NEW r \in Scope,
         NEW i \in 1..Len(s.frames) - 1, i < Len(r.frames),
         r.frames[i].target = s.frames[i].target,
         r.frames[i].phase = s.frames[i].phase,
         r.frames[i].next = s.frames[i].next,
         r.frames[i + 1].target = s.frames[i + 1].target,
         s.completed \subseteq r.completed,
         LoopsInStep(d, s)
  PROVE  LoopInStep(d, r, i)
<1>1. Len(s.frames) \in Nat /\ i \in DOMAIN s.frames /\ i < Len(s.frames) /\ i \in Nat
  BY FrameType
<1>2. LoopInStep(d, s, i)
  BY <1>1 DEF LoopsInStep
<1>3. s.frames[i].phase # "tasks"
  BY <1>1, <1>2 DEF LoopInStep
<1>4. ASSUME NEW j \in 1..r.frames[i].next - 1
      PROVE  /\ j <= Len(d[r.frames[i].target])
             /\ \/ d[r.frames[i].target][j] \in r.completed
                \/ r.frames[i + 1].target = d[r.frames[i].target][j]
  BY <1>2, <1>3 DEF LoopInStep
<1> QED
  BY <1>3, <1>4 DEF LoopInStep

\* An innermost dependency loop has completed what its pointer has passed.
LEMMA LoopTop ==
  ASSUME NEW d, NEW s \in Scope, s.frames # <<>>, LoopsInStep(d, s),
         Here(s).phase = "depends", NEW j \in 1..Here(s).next - 1
  PROVE  j <= Len(d[Here(s).target]) /\ d[Here(s).target][j] \in s.completed
<1>1. /\ Len(s.frames) \in DOMAIN s.frames /\ Here(s) = s.frames[Len(s.frames)]
      /\ Len(s.frames) \in Nat
  BY HereType, FrameType
<1> QED
  BY <1>1 DEF LoopsInStep, LoopInStep

\* The call of a target that is completed already.
LEMMA SkipInv ==
  ASSUME NEW d \in Graphs, NEW s \in Scope, NEW t, Calls(d, s, t),
         t \in s.completed, ScopeInv(d, s)
  PROVE  ScopeInv(d, Advanced(s)) /\ Advanced(s) \in Scope
<1> DEFINE r == Advanced(s)
           n == Len(s.frames)
<1>1. s.frames = <<>> => s.goals # <<>>
  BY DEF Calls, InFrame
<1>2. /\ r \in Scope /\ Len(r.frames) = n /\ n \in Nat /\ r.completed = s.completed
      /\ DOMAIN s.frames = 1..n /\ DOMAIN r.frames = 1..n
  BY <1>1, AdvancedType, FrameType
<1>3. LoopsInStep(d, s) /\ ShapeInv(d, s)
  BY ScopeInvParts
<1>4. ShapeInv(d, r)
  BY <1>1, <1>3, AdvancedShape
<1>5. ASSUME NEW i \in 1..n - 1
      PROVE  LoopInStep(d, r, i)
  <2>1. i \in 1..n /\ i + 1 \in 1..n /\ i < n
    BY <1>2
  <2> QED
    BY <1>1, <1>2, <1>3, <2>1, AdvancedFrames, LoopKept
<1>6. CASE n = 0
  BY <1>2, <1>4, <1>6, ScopeInvParts DEF LoopsInStep
<1>7. CASE n # 0
  <2> DEFINE m == Here(s).next
             x == Here(s).target
  <2>1. /\ n \in 1..n /\ Here(s) = s.frames[n] /\ s.frames # <<>>
        /\ m \in Nat \ {0}
    BY <1>2, <1>7, FrameType, HereType
  <2>2. /\ Here(s).phase = "depends" /\ m <= Len(d[x]) /\ t = d[x][m]
    BY <2>1 DEF Calls, InFrame
  <2>3. /\ r.frames[n].target = x /\ r.frames[n].phase = "depends"
        /\ r.frames[n].next = m + 1
    BY <1>1, <2>1, <2>2, AdvancedFrames
  <2>4. ASSUME NEW j \in 1..m
        PROVE  j <= Len(d[x]) /\ d[x][j] \in s.completed
    <3>1. CASE j = m
      BY <2>2, <3>1
    <3>2. CASE j # m
      <4>1. j \in 1..m - 1
        BY <2>1, <3>2
      <4> QED
        BY <1>3, <2>1, <2>2, <4>1, LoopTop
    <3> QED
      BY <3>1, <3>2
  <2> HIDE DEF m, x, n, r
  <2>5. LoopInStep(d, r, n)
    BY <1>2, <2>1, <2>3, <2>4 DEF LoopInStep
  <2>6. LoopsInStep(d, r)
    BY <1>2, <1>5, <2>5 DEF LoopsInStep
  <2> QED
    BY <1>2, <1>4, <2>6, ScopeInvParts DEF r
<1> QED
  BY <1>6, <1>7

\* The next task of the task loop.
LEMMA TaskInv ==
  ASSUME NEW d \in Graphs, NEW s \in Scope, InFrame(s, "tasks"), ScopeInv(d, s)
  PROVE  ScopeInv(d, Advanced(s)) /\ Advanced(s) \in Scope
<1> DEFINE r == Advanced(s)
           n == Len(s.frames)
<1>1. s.frames # <<>> /\ s.frames[n].phase = "tasks"
  BY HereType DEF InFrame
<1>2. /\ r \in Scope /\ Len(r.frames) = n /\ n \in Nat \ {0} /\ r.completed = s.completed
      /\ DOMAIN r.frames = 1..n
  BY <1>1, AdvancedType, FrameType
<1>3. LoopsInStep(d, s) /\ ShapeInv(d, s)
  BY ScopeInvParts
<1>4. ShapeInv(d, r)
  BY <1>1, <1>3, AdvancedShape
<1>5. ASSUME NEW i \in 1..n - 1
      PROVE  LoopInStep(d, r, i)
  <2>1. i \in 1..n /\ i + 1 \in 1..n /\ i < n
    BY <1>2
  <2> QED
    BY <1>1, <1>2, <1>3, <2>1, AdvancedFrames, LoopKept
<1>6. r.frames[n].phase = "tasks"
  BY <1>1, <1>2, AdvancedFrames
<1> HIDE DEF n, r
<1>7. LoopInStep(d, r, n)
  BY <1>2, <1>6 DEF LoopInStep
<1>8. LoopsInStep(d, r)
  BY <1>2, <1>5, <1>7 DEF LoopsInStep
<1> QED
  BY <1>2, <1>4, <1>8, ScopeInvParts DEF r

\* A fresh scope.
LEMMA NewScopeInv ==
  ASSUME NEW d, NEW goals \in Seq(Targets), NEW base \in Nat
  PROVE  ScopeInv(d, NewScope(goals, base)) /\ NewScope(goals, base) \in Scope
<1> DEFINE s == NewScope(goals, base)
<1>1. s \in Scope /\ s.frames = <<>> /\ s.context = {} /\ s.completed = {}
  BY DEF NewScope, Scope
<1>2. DOMAIN s.frames = {}
  BY <1>1
<1> HIDE DEF s
<1> QED
  BY <1>1, <1>2 DEF ScopeInv, BodiesInOrder, ActiveOnce, PathInContext, CompletedAcyclic,
                    LoopsInStep, FramesArePath, TargetsIn, s

\* Entered, frame by frame: the calling loop moved on, the new activation on
\* top of it.
LEMMA EnteredFrames ==
  ASSUME NEW s \in Scope, NEW t \in Targets, s.frames = <<>> => s.goals # <<>>
  PROVE  LET r == Entered(s, t) IN
         /\ \A i \in 1..Len(s.frames) :
              /\ r.frames[i].target = s.frames[i].target
              /\ r.frames[i].phase = s.frames[i].phase
              /\ i < Len(s.frames) => r.frames[i].next = s.frames[i].next
              /\ i = Len(s.frames) => r.frames[i].next = s.frames[i].next + 1
         /\ r.frames[Len(s.frames) + 1].target = t
         /\ r.frames[Len(s.frames) + 1].phase = "depends"
         /\ r.frames[Len(s.frames) + 1].next = 1
<1>1. \A i \in 1..Len(s.frames) : Entered(s, t).frames[i] = Advanced(s).frames[i]
  BY EnteredType
<1>2. Entered(s, t).frames[Len(s.frames) + 1]
        = [target |-> t, phase |-> "depends", next |-> 1]
  BY EnteredType
<1> QED
  BY <1>1, <1>2, AdvancedFrames

\* Unless the innermost activation runs its tasks, none does.
LEMMA AllInDepends ==
  ASSUME NEW d, NEW s \in Scope, LoopsInStep(d, s),
         s.frames # <<>> => Here(s).phase = "depends"
  PROVE  /\ \A i \in 1..Len(s.frames) : s.frames[i].phase = "depends"
         /\ TargetsIn(s, {"depends"}) = {s.frames[i].target : i \in 1..Len(s.frames)}
<1>1. ASSUME NEW i \in 1..Len(s.frames)
      PROVE  s.frames[i].phase = "depends"
  <2>1. Len(s.frames) \in Nat /\ i \in DOMAIN s.frames /\ s.frames # <<>>
        /\ s.frames[i].phase \in {"depends", "tasks"}
    BY FrameType
  <2>2. CASE i = Len(s.frames)
    BY <2>1, <2>2, HereType
  <2>3. CASE i # Len(s.frames)
    BY <2>1, <2>3 DEF LoopsInStep, LoopInStep
  <2> QED
    BY <2>2, <2>3
<1>2. TargetsIn(s, {"depends"}) = {s.frames[i].target : i \in 1..Len(s.frames)}
  BY <1>1, FrameType DEF TargetsIn
<1> QED
  BY <1>1, <1>2

\* A scope calls only from a dependency loop, or with nothing active.
LEMMA CallerInDepends ==
  ASSUME NEW d \in Graphs, NEW s \in Scope, NEW t, Calls(d, s, t), LoopsInStep(d, s)
  PROVE  /\ s.frames = <<>> => s.goals # <<>>
         /\ \A i \in 1..Len(s.frames) : s.frames[i].phase = "depends"
         /\ TargetsIn(s, {"depends"}) = {s.frames[i].target : i \in 1..Len(s.frames)}
         /\ s.frames # <<>> =>
              /\ Here(s).phase = "depends"
              /\ Here(s).next <= Len(d[Here(s).target])
              /\ t = d[Here(s).target][Here(s).next]
              /\ t \in DependsOf(d, Here(s).target)
<1>1. s.frames = <<>> => s.goals # <<>>
  BY DEF Calls, InFrame
<1>2. s.frames # <<>> => /\ Here(s).phase = "depends"
                         /\ Here(s).next <= Len(d[Here(s).target])
                         /\ t = d[Here(s).target][Here(s).next]
  BY DEF Calls, InFrame
<1>3. ASSUME s.frames # <<>>
      PROVE  t \in DependsOf(d, Here(s).target)
  <2>1. Here(s).target \in Targets /\ Here(s).next \in 1..Len(d[Here(s).target])
    BY <1>2, <1>3, HereType, DependsType
  <2> QED
    BY <1>2, <1>3, <2>1, DependsType
<1> QED
  BY <1>1, <1>2, <1>3, AllInDepends

\* The call of a target that is neither completed nor in the context.
LEMMA EnteredInv ==
  ASSUME NEW d \in Graphs, NEW s \in Scope, NEW t, Calls(d, s, t),
         t \notin s.completed, t \notin s.context, ScopeInv(d, s)
  PROVE  ScopeInv(d, Entered(s, t)) /\ Entered(s, t) \in Scope
<1> DEFINE r == Entered(s, t)
           n == Len(s.frames)
<1>1. t \in Targets
  BY CallsType
<1>2. /\ s.frames = <<>> => s.goals # <<>>
      /\ \A i \in 1..n : s.frames[i].phase = "depends"
      /\ TargetsIn(s, {"depends"}) = {s.frames[i].target : i \in 1..n}
  BY CallerInDepends DEF ScopeInv
<1>3. r \in Scope /\ Len(r.frames) = n + 1 /\ r.completed = s.completed
      /\ r.context = s.context \cup {t}
  BY <1>1, <1>2, EnteredType
<1>4. n \in Nat /\ DOMAIN s.frames = 1..n /\ DOMAIN r.frames = 1..n + 1
  BY <1>3, FrameType
<1>5. /\ \A i \in 1..n : /\ r.frames[i].target = s.frames[i].target
                         /\ r.frames[i].phase = "depends"
                         /\ i < n => r.frames[i].next = s.frames[i].next
                         /\ i = n => r.frames[i].next = s.frames[i].next + 1
      /\ r.frames[n + 1].target = t
      /\ r.frames[n + 1].phase = "depends"
      /\ r.frames[n + 1].next = 1
  BY <1>1, <1>2, EnteredFrames
<1> HIDE DEF r
<1>6. \A i \in 1..n + 1 : r.frames[i].phase = "depends"
  BY <1>4, <1>5
<1>7. TargetsIn(r, {"tasks"}) = {}
  BY <1>4, <1>6 DEF TargetsIn
<1>8. TargetsIn(r, {"depends"}) = TargetsIn(s, {"depends"}) \cup {t}
  <2>1. TargetsIn(r, {"depends"}) = {r.frames[i].target : i \in 1..n + 1}
    BY <1>4, <1>6 DEF TargetsIn
  <2> QED
    BY SMTT(30), <1>2, <1>4, <1>5, <2>1
<1>9. \A i \in 1..n : s.frames[i].target # t
  BY <1>2 DEF ScopeInv, PathInContext
<1>10. BodiesInOrder(d, r)
  BY <1>3, <1>7 DEF ScopeInv, BodiesInOrder
<1>11. ActiveOnce(r)
  <2>1. \A i \in 1..n + 1 : r.frames[i].target \notin r.completed
    BY SMTT(30), <1>3, <1>4, <1>5 DEF ScopeInv, ActiveOnce
  <2>2. ASSUME NEW i \in 1..n + 1, NEW j \in 1..n + 1,
               r.frames[i].target = r.frames[j].target
        PROVE  i = j
    <3>1. i = n + 1 <=> j = n + 1
      BY SMTT(30), <1>4, <1>5, <1>9, <2>2
    <3>2. CASE i # n + 1
      <4>1. i \in 1..n /\ j \in 1..n
        BY <1>4, <3>1, <3>2
      <4>2. s.frames[i].target = s.frames[j].target
        BY <1>5, <2>2, <4>1
      <4> QED
        BY <1>4, <4>1, <4>2 DEF ScopeInv, ActiveOnce
    <3> QED
      BY <3>1, <3>2
  <2> QED
    BY <1>4, <2>1, <2>2 DEF ActiveOnce
<1>12. PathInContext(r)
  BY <1>3, <1>8 DEF ScopeInv, PathInContext
<1>13. CompletedAcyclic(d, r)
  BY <1>3 DEF ScopeInv, CompletedAcyclic
<1>14. FramesArePath(d, r)
  <2> SUFFICES ASSUME NEW i \in 1..n + 1, NEW j \in 1..n + 1, i < j
               PROVE  Below(d, r.frames[i].target, r.frames[j].target)
    BY <1>4 DEF FramesArePath
  <2>1. CASE j # n + 1
    <3>1. i \in 1..n /\ j \in 1..n
      BY <1>4, <2>1
    <3>2. Below(d, s.frames[i].target, s.frames[j].target)
      BY <1>4, <3>1 DEF ScopeInv, FramesArePath
    <3> QED
      BY <1>5, <3>1, <3>2
  <2>2. CASE j = n + 1
    <3>1. n \in 1..n /\ i \in 1..n /\ s.frames # <<>>
      BY <1>4, <2>2
    <3>2. /\ t \in DependsOf(d, s.frames[n].target)
          /\ s.frames[n].target \in Targets /\ s.frames[i].target \in Targets
      BY <3>1, CallerInDepends, HereType, FrameType DEF ScopeInv
    <3>3. CASE i = n
      BY <1>5, <2>2, <3>1, <3>2, <3>3, BelowStep
    <3>4. CASE i # n
      <4>1. Below(d, s.frames[i].target, s.frames[n].target)
        BY <1>4, <3>1, <3>4 DEF ScopeInv, FramesArePath
      <4> QED
        BY <1>5, <2>2, <3>1, <3>2, <4>1, BelowTrans
    <3> QED
      BY <3>3, <3>4
  <2> QED
    BY <2>1, <2>2
<1>15. LoopInStep(d, r, n + 1)
  BY <1>5 DEF LoopInStep
<1>16. ASSUME NEW i \in 1..n - 1
       PROVE  LoopInStep(d, r, i)
  <2>1. i \in 1..n /\ i + 1 \in 1..n /\ i < n /\ i < n + 1
    BY <1>4
  <2>2. s.frames[i].phase = "depends"
    BY <1>2, <2>1
  <2> QED
    BY <1>3, <1>5, <2>1, <2>2, LoopKept DEF ScopeInv
<1>17. ASSUME n # 0
       PROVE  LoopInStep(d, r, n)
  <2> DEFINE m == Here(s).next
             x == Here(s).target
  <2>1. /\ n \in 1..n /\ Here(s) = s.frames[n] /\ s.frames # <<>> /\ n < n + 1
        /\ m \in Nat \ {0}
    BY <1>4, <1>17, FrameType, HereType
  <2>2. /\ Here(s).phase = "depends" /\ m <= Len(d[x]) /\ t = d[x][m]
    BY <2>1, CallerInDepends DEF ScopeInv
  <2>3. /\ r.frames[n].target = x /\ r.frames[n].phase = "depends"
        /\ r.frames[n].next = m + 1
    BY <1>5, <2>1
  <2>4. ASSUME NEW j \in 1..m
        PROVE  /\ j <= Len(d[x])
               /\ d[x][j] \in s.completed \/ t = d[x][j]
    <3>1. CASE j = m
      BY <2>2, <3>1
    <3>2. CASE j # m
      <4>1. j \in 1..m - 1
        BY <2>1, <3>2
      <4> QED
        BY <2>1, <2>2, <4>1, LoopTop DEF ScopeInv
    <3> QED
      BY <3>1, <3>2
  <2> HIDE DEF m, x, n
  <2> QED
    BY <1>3, <1>5, <2>1, <2>3, <2>4 DEF LoopInStep
<1>18. LoopsInStep(d, r)
  BY <1>4, <1>15, <1>16, <1>17 DEF LoopsInStep
<1> QED
  BY <1>3, <1>10, <1>11, <1>12, <1>13, <1>14, <1>18 DEF ScopeInv, r

\* Started, frame by frame.
LEMMA StartedFrames ==
  ASSUME NEW s \in Scope, s.frames # <<>>
  PROVE  LET r == Started(s) IN
         /\ \A i \in 1..Len(s.frames) : r.frames[i].target = s.frames[i].target
         /\ \A i \in 1..Len(s.frames) - 1 : /\ r.frames[i].phase = s.frames[i].phase
                                            /\ r.frames[i].next = s.frames[i].next
         /\ r.frames[Len(s.frames)].phase = "tasks"
<1>1. Len(s.frames) \in Nat \ {0} /\ Here(s) = s.frames[Len(s.frames)]
  BY HereType
<1>2. \A i \in 1..Len(s.frames) - 1 : Started(s).frames[i] = s.frames[i]
  BY StartedType
<1>3. Started(s).frames[Len(s.frames)]
        = [target |-> Here(s).target, phase |-> "tasks", next |-> 1]
  BY StartedType
<1> QED
  BY <1>1, <1>2, <1>3

\* From the dependency loop to the task loop.
LEMMA StartedInv ==
  ASSUME NEW d \in Graphs, NEW s \in Scope, InFrame(s, "depends"),
         Here(s).next > Len(d[Here(s).target]), ScopeInv(d, s)
  PROVE  ScopeInv(d, Started(s)) /\ Started(s) \in Scope
<1> DEFINE r == Started(s)
           n == Len(s.frames)
           x == Here(s).target
<1>1. s.frames # <<>> /\ Here(s).phase = "depends" /\ x \in Targets
      /\ n \in Nat \ {0} /\ x = s.frames[n].target
  BY HereType DEF InFrame
<1>2. /\ \A i \in 1..n : s.frames[i].phase = "depends"
      /\ TargetsIn(s, {"depends"}) = {s.frames[i].target : i \in 1..n}
  BY <1>1, AllInDepends DEF ScopeInv
<1>3. /\ r \in Scope /\ Len(r.frames) = n /\ r.completed = s.completed
      /\ r.context = s.context \ {x}
  BY <1>1, StartedType
<1>4. DOMAIN s.frames = 1..n /\ DOMAIN r.frames = 1..n
  BY <1>3, FrameType
<1>5. /\ \A i \in 1..n : r.frames[i].target = s.frames[i].target
      /\ \A i \in 1..n - 1 : /\ r.frames[i].phase = "depends"
                             /\ r.frames[i].next = s.frames[i].next
      /\ r.frames[n].phase = "tasks"
  <2>1. \A i \in 1..n - 1 : i \in 1..n
    BY <1>1
  <2> QED
    BY <1>1, <1>2, <2>1, StartedFrames
<1>6. DependsOf(d, x) \subseteq s.completed
  <2> SUFFICES ASSUME NEW t \in DependsOf(d, x)
               PROVE  t \in s.completed
    OBVIOUS
  <2>1. PICK j \in 1..Len(d[x]) : t = d[x][j]
    BY <1>1, DependsType
  <2>2. j \in 1..Here(s).next - 1
    BY <1>1, HereType, DependsType
  <2> QED
    BY <1>1, <2>1, <2>2, LoopTop DEF ScopeInv
<1> HIDE DEF r, n, x
<1>7. \A i \in 1..n : r.frames[i].phase = "tasks" <=> i = n
  BY <1>1, <1>5
<1>8. TargetsIn(r, {"tasks"}) = {x}
  <2>1. {i \in DOMAIN r.frames : r.frames[i].phase \in {"tasks"}} = {n}
    BY <1>1, <1>4, <1>7
  <2> QED
    BY <1>1, <1>5, <2>1 DEF TargetsIn
<1>9. TargetsIn(r, {"depends"}) = TargetsIn(s, {"depends"}) \ {x}
  <2>1. {i \in DOMAIN r.frames : r.frames[i].phase \in {"depends"}} = 1..n - 1
    BY <1>1, <1>4, <1>5
  <2>2. TargetsIn(r, {"depends"}) = {s.frames[i].target : i \in 1..n - 1}
    BY <1>1, <1>5, <2>1 DEF TargetsIn
  <2>3. \A i \in 1..n : s.frames[i].target = x <=> i = n
    BY <1>1, <1>4 DEF ScopeInv, ActiveOnce
  <2> QED
    BY <1>1, <1>2, <2>2, <2>3
<1>10. BodiesInOrder(d, r)
  BY <1>3, <1>6, <1>8 DEF ScopeInv, BodiesInOrder
<1>11. ActiveOnce(r)
  BY <1>3, <1>4, <1>5 DEF ScopeInv, ActiveOnce
<1>12. PathInContext(r)
  BY <1>3, <1>9 DEF ScopeInv, PathInContext
<1>13. CompletedAcyclic(d, r)
  BY <1>3 DEF ScopeInv, CompletedAcyclic
<1>14. FramesArePath(d, r)
  BY <1>4, <1>5 DEF ScopeInv, FramesArePath
<1>15. ASSUME NEW i \in 1..n - 1
       PROVE  LoopInStep(d, r, i)
  <2>1. i \in 1..n /\ i + 1 \in 1..n /\ i < n
    BY <1>1
  <2> QED
    BY <1>2, <1>3, <1>5, <2>1, LoopKept DEF ScopeInv, n
<1>16. LoopInStep(d, r, n)
  BY <1>3, <1>5 DEF LoopInStep
<1>17. LoopsInStep(d, r)
  BY <1>1, <1>4, <1>15, <1>16 DEF LoopsInStep
<1> QED
  BY <1>3, <1>10, <1>11, <1>12, <1>13, <1>14, <1>17 DEF ScopeInv, r

\* The end of the task loop.
LEMMA CompletedInv ==
  ASSUME NEW d \in Graphs, NEW s \in Scope, InFrame(s, "tasks"), ScopeInv(d, s)
  PROVE  ScopeInv(d, Completed(s)) /\ Completed(s) \in Scope
<1> DEFINE r == Completed(s)
           n == Len(s.frames)
           x == Here(s).target
<1>1. s.frames # <<>> /\ s.frames[n].phase = "tasks" /\ x \in Targets
      /\ n \in Nat \ {0} /\ x = s.frames[n].target
  BY HereType DEF InFrame
<1>2. /\ r \in Scope /\ Len(r.frames) = n - 1 /\ r.completed = s.completed \cup {x}
      /\ r.context = s.context
      /\ \A i \in 1..n - 1 : r.frames[i] = s.frames[i]
  BY <1>1, CompletedType
<1>3. DOMAIN s.frames = 1..n /\ DOMAIN r.frames = 1..n - 1
  BY <1>2, FrameType
<1> HIDE DEF r, n, x
<1>4. \A i \in 1..n - 1 : s.frames[i].phase = "depends"
  <2> SUFFICES ASSUME NEW i \in 1..n - 1
               PROVE  s.frames[i].phase = "depends"
    OBVIOUS
  <2>1. i \in 1..n /\ i # n
    BY <1>1
  <2>2. s.frames[i].phase \in {"depends", "tasks"}
    BY <2>1, FrameType DEF n
  <2>3. s.frames[i].phase # "tasks"
    BY <1>3, <2>1 DEF ScopeInv, LoopsInStep, LoopInStep, n
  <2> QED
    BY <2>2, <2>3
<1>5. x \in TargetsIn(s, {"tasks"})
  BY <1>1, <1>3 DEF TargetsIn
<1>6. TargetsIn(r, {"tasks"}) = {}
  BY <1>2, <1>3, <1>4 DEF TargetsIn
<1>7. TargetsIn(r, {"depends"}) = TargetsIn(s, {"depends"})
  <2>1. {i \in DOMAIN r.frames : r.frames[i].phase \in {"depends"}} = 1..n - 1
    BY <1>2, <1>3, <1>4
  <2>2. {i \in DOMAIN s.frames : s.frames[i].phase \in {"depends"}} = 1..n - 1
    BY <1>1, <1>3, <1>4
  <2> QED
    BY <1>2, <2>1, <2>2 DEF TargetsIn
<1>8. DependsOf(d, x) \subseteq s.completed
  BY <1>5 DEF ScopeInv, BodiesInOrder
<1>9. BodiesInOrder(d, r)
  BY <1>2, <1>6, <1>8 DEF ScopeInv, BodiesInOrder
<1>10. ActiveOnce(r)
  <2>1. \A i \in 1..n - 1 : i \in 1..n /\ i # n
    BY <1>1
  <2>2. \A i \in 1..n - 1 : s.frames[i].target # x
    BY <1>1, <1>3, <2>1 DEF ScopeInv, ActiveOnce
  <2> QED
    BY <1>2, <1>3, <2>1, <2>2 DEF ScopeInv, ActiveOnce
<1>11. PathInContext(r)
  BY <1>2, <1>7 DEF ScopeInv, PathInContext
<1>12. ~Below(d, x, x)
  <2>1. Closed(d, s.completed)
    BY DEF ScopeInv, BodiesInOrder, Closed
  <2>2. x \notin s.completed /\ s.completed \in SUBSET Targets
    BY <1>1, <1>3, FrameType DEF ScopeInv, ActiveOnce
  <2> QED
    BY <1>8, <2>1, <2>2 DEF Below
<1>13. CompletedAcyclic(d, r)
  BY <1>2, <1>12 DEF ScopeInv, CompletedAcyclic
<1>14. FramesArePath(d, r)
  <2>1. \A i \in 1..n - 1 : i \in 1..n
    BY <1>1
  <2> QED
    BY <1>2, <1>3, <2>1 DEF ScopeInv, FramesArePath
<1>15. ASSUME NEW i \in 1..n - 1
       PROVE  LoopInStep(d, r, i)
  <2>1. CASE i < n - 1
    <3>1. i \in 1..n /\ i + 1 \in 1..n - 1 /\ i < Len(r.frames)
      BY <1>1, <1>2, <2>1
    <3> QED
      BY <1>2, <3>1, LoopKept DEF ScopeInv, n
  <2>2. CASE i = n - 1
    <3>1. i \in 1..n /\ i + 1 = n /\ i < n /\ i = Len(r.frames)
      BY <1>1, <1>2, <2>2
    <3>2. LoopInStep(d, s, i)
      BY <1>3, <3>1 DEF ScopeInv, LoopsInStep
    <3>3. r.frames[i] = s.frames[i] /\ s.frames[i].phase = "depends"
      BY <1>2, <1>4
    <3>4. ASSUME NEW j \in 1..s.frames[i].next - 1
          PROVE  j <= Len(d[s.frames[i].target]) /\ d[s.frames[i].target][j] \in r.completed
      BY <1>1, <1>2, <3>1, <3>2, <3>3 DEF LoopInStep
    <3> QED
      BY <3>3, <3>4 DEF LoopInStep
  <2> QED
    BY <1>1, <2>1, <2>2
<1>16. LoopsInStep(d, r)
  BY <1>3, <1>15 DEF LoopsInStep
<1> QED
  BY <1>2, <1>9, <1>10, <1>11, <1>13, <1>14, <1>16 DEF ScopeInv, r

-----------------------------------------------------------------------------
(* No wanted target is lost sight of                                       *)

\* The targets a scope still has to invoke, is running or has completed.
Known(s) == Range(s.goals) \cup s.completed \cup TargetsIn(s, {"depends", "tasks"})

LEMMA KnownFrames ==
  ASSUME NEW s \in Scope
  PROVE  /\ TargetsIn(s, {"depends", "tasks"}) = {s.frames[i].target : i \in 1..Len(s.frames)}
         /\ Range(s.goals) = {s.goals[i] : i \in 1..Len(s.goals)}
         /\ s.goals \in Seq(Targets)
<1>1. s.goals \in Seq(Targets)
  BY DEF Scope
<1> QED
  BY SMTT(30), <1>1, FrameType DEF TargetsIn, Range

LEMMA SameTargets ==
  ASSUME NEW s \in Scope, NEW r \in Scope, Len(r.frames) = Len(s.frames),
         \A i \in 1..Len(s.frames) : r.frames[i].target = s.frames[i].target
  PROVE  TargetsIn(r, {"depends", "tasks"}) = TargetsIn(s, {"depends", "tasks"})
<1>1. /\ TargetsIn(s, {"depends", "tasks"}) = {s.frames[i].target : i \in 1..Len(s.frames)}
      /\ TargetsIn(r, {"depends", "tasks"}) = {r.frames[i].target : i \in 1..Len(s.frames)}
  BY KnownFrames
<1> QED
  BY <1>1

LEMMA AdvancedKnown ==
  ASSUME NEW s \in Scope, s.frames = <<>> => s.goals # <<>>
  PROVE  /\ s.frames # <<>> => Known(s) \subseteq Known(Advanced(s))
         /\ s.frames = <<>> => Known(s) \subseteq Known(Advanced(s)) \cup {Head(s.goals)}
<1> DEFINE r == Advanced(s)
<1>1. r \in Scope /\ Len(r.frames) = Len(s.frames) /\ r.completed = s.completed
  BY AdvancedType
<1>2. TargetsIn(r, {"depends", "tasks"}) = TargetsIn(s, {"depends", "tasks"})
  <2>1. \A i \in 1..Len(s.frames) : r.frames[i].target = s.frames[i].target
    BY AdvancedFrames
  <2> QED
    BY <1>1, <2>1, SameTargets
<1>3. CASE s.frames # <<>>
  <2>1. r.goals = s.goals
    BY <1>3, AdvancedType
  <2> QED
    BY <1>1, <1>2, <1>3, <2>1 DEF Known
<1>4. CASE s.frames = <<>>
  <2>1. r.goals = Tail(s.goals) /\ s.goals # <<>> /\ s.goals \in Seq(Targets)
    BY <1>4, AdvancedType, KnownFrames
  <2>2. Range(s.goals) \subseteq Range(Tail(s.goals)) \cup {Head(s.goals)}
    <3> SUFFICES ASSUME NEW i \in 1..Len(s.goals), i # 1
                 PROVE  s.goals[i] \in Range(Tail(s.goals))
      BY <2>1 DEF Range
    <3>1. /\ Tail(s.goals) \in Seq(Targets) /\ Len(Tail(s.goals)) = Len(s.goals) - 1
          /\ Len(s.goals) \in Nat /\ i - 1 \in 1..Len(Tail(s.goals))
          /\ Tail(s.goals)[i - 1] = s.goals[i]
      BY <2>1
    <3>2. i - 1 \in DOMAIN Tail(s.goals)
      BY <3>1
    <3> QED
      BY <3>1, <3>2 DEF Range
  <2> QED
    BY <1>1, <1>2, <1>4, <2>1, <2>2 DEF Known
<1> QED
  BY <1>3, <1>4

LEMMA CallsKnown ==
  ASSUME NEW d \in Graphs, NEW s \in Scope, NEW t, Calls(d, s, t)
  PROVE  /\ t \in s.completed => Known(s) \subseteq Known(Advanced(s))
         /\ Known(s) \subseteq Known(Entered(s, t))
<1>1. t \in Targets /\ (s.frames = <<>> => s.goals # <<>> /\ t = Head(s.goals))
  BY CallsType DEF Calls, InFrame
<1>2. t \in s.completed => Known(s) \subseteq Known(Advanced(s))
  <2>1. Advanced(s).completed = s.completed
    BY <1>1, AdvancedType
  <2> QED
    BY <1>1, <2>1, AdvancedKnown DEF Known
<1>3. Known(s) \subseteq Known(Entered(s, t))
  <2> DEFINE r == Entered(s, t)
             a == Advanced(s)
             n == Len(s.frames)
  <2>1. /\ r \in Scope /\ r.goals = a.goals /\ r.completed = s.completed
        /\ Len(r.frames) = n + 1
    BY <1>1, EnteredType
  <2>2. a \in Scope /\ a.completed = s.completed /\ Len(a.frames) = n /\ n \in Nat
    BY <1>1, AdvancedType, FrameType
  <2>3. /\ r.frames[n + 1].target = t
        /\ \A i \in 1..n : r.frames[i].target = a.frames[i].target
    BY <1>1, EnteredFrames, AdvancedFrames
  <2> HIDE DEF r, a, n
  <2>4. TargetsIn(r, {"depends", "tasks"}) = TargetsIn(a, {"depends", "tasks"}) \cup {t}
    BY <2>1, <2>2, <2>3, KnownFrames
  <2>5. Known(a) \cup {t} \subseteq Known(r)
    BY <2>1, <2>2, <2>4 DEF Known
  <2> QED
    BY <1>1, <2>5, AdvancedKnown DEF a, r
<1> QED
  BY <1>2, <1>3

LEMMA StartedKnown ==
  ASSUME NEW s \in Scope, s.frames # <<>>
  PROVE  Known(s) \subseteq Known(Started(s))
<1>1. /\ Started(s) \in Scope /\ Started(s).goals = s.goals
      /\ Started(s).completed = s.completed
      /\ Len(Started(s).frames) = Len(s.frames)
  BY StartedType
<1>2. TargetsIn(Started(s), {"depends", "tasks"}) = TargetsIn(s, {"depends", "tasks"})
  <2>1. \A i \in 1..Len(s.frames) : Started(s).frames[i].target = s.frames[i].target
    BY StartedFrames
  <2> QED
    BY <1>1, <2>1, SameTargets
<1> QED
  BY <1>1, <1>2 DEF Known

LEMMA CompletedKnown ==
  ASSUME NEW s \in Scope, s.frames # <<>>
  PROVE  Known(s) \subseteq Known(Completed(s))
<1> DEFINE r == Completed(s)
           n == Len(s.frames)
<1>1. /\ r \in Scope /\ r.goals = s.goals
      /\ r.completed = s.completed \cup {Here(s).target}
      /\ Len(r.frames) = n - 1
      /\ \A i \in 1..n - 1 : r.frames[i] = s.frames[i]
      /\ n \in Nat \ {0} /\ Here(s) = s.frames[n]
  BY CompletedType, HereType
<1> HIDE DEF r, n
<1>2. TargetsIn(s, {"depends", "tasks"})
        \subseteq TargetsIn(r, {"depends", "tasks"}) \cup {Here(s).target}
  BY <1>1, KnownFrames DEF n
<1> QED
  BY <1>1, <1>2 DEF Known, r

-----------------------------------------------------------------------------
(* The inductive invariant                                                 *)

LEMMA TopType ==
  ASSUME IInv, Running
  PROVE  /\ scopes \in Seq(Scope) /\ scopes # <<>> /\ Len(scopes) \in Nat \ {0}
         /\ DOMAIN scopes = 1..Len(scopes)
         /\ Top \in Scope /\ Top = scopes[Len(scopes)]
         /\ ScopeInv(build.depends, Top)
         /\ build \in Build /\ build.depends \in Graphs
<1>1. scopes \in Seq(Scope) /\ scopes # <<>> /\ build \in Build
  BY DEF IInv, TypeOK, Running
<1>2. /\ Top \in Scope /\ Top = scopes[Len(scopes)] /\ Len(scopes) \in Nat \ {0}
      /\ DOMAIN scopes = 1..Len(scopes)
  BY <1>1, LastType DEF Top
<1>3. ScopeInv(build.depends, Top)
  BY <1>2 DEF IInv
<1>4. build.depends \in Graphs
  BY <1>1 DEF Build, Graphs
<1> QED
  BY <1>1, <1>2, <1>3, <1>4

LEMMA ContinueStep ==
  ASSUME IInv, Running, NEW s \in Scope, ScopeInv(build.depends, s),
         Known(Top) \subseteq Known(s), Continue(s)
  PROVE  IInv'
<1>1. /\ scopes' = [scopes EXCEPT ![Len(scopes)] = s]
      /\ build' = build /\ outcome' = "running" /\ outcome = "running"
  BY DEF Continue, Running
<1>2. /\ scopes' \in Seq(Scope) /\ scopes' # <<>> /\ Len(scopes') = Len(scopes)
      /\ scopes'[Len(scopes)] = s
      /\ \A k \in 1..Len(scopes) - 1 : scopes'[k] = scopes[k]
      /\ DOMAIN scopes' = 1..Len(scopes)
  <2>1. scopes \in Seq(Scope) /\ scopes # <<>> /\ Len(scopes) \in Nat \ {0}
    BY TopType
  <2> DEFINE q == [scopes EXCEPT ![Len(scopes)] = s]
  <2>2. /\ q \in Seq(Scope) /\ Len(q) = Len(scopes) /\ q # <<>>
        /\ \A k \in 1..Len(scopes) - 1 : q[k] = scopes[k]
        /\ q[Len(scopes)] = s
    BY <2>1, ReplaceLast
  <2>3. DOMAIN q = 1..Len(scopes)
    BY <2>1
  <2> QED
    BY <1>1, <2>2, <2>3
<1>3. TypeOK'
  BY <1>1, <1>2 DEF TypeOK, IInv
<1>4. \A k \in DOMAIN scopes' : ScopeInv(build.depends, scopes'[k])
  BY <1>2, TopType DEF IInv
<1>5. Known(scopes[1]) \subseteq Known(scopes'[1])
  BY <1>2, TopType
<1>6. NoGoalLost'
  BY <1>1, <1>5, TopType DEF IInv, NoGoalLost, Wanted, Known
<1>7. UnknownRunsNothing'
  BY <1>1, TopType DEF IInv, UnknownRunsNothing, Wanted
<1>8. RecursionIsCycle' /\ SuccessMeansAll'
  BY <1>1 DEF RecursionIsCycle, SuccessMeansAll
<1> QED
  BY <1>1, <1>3, <1>4, <1>6, <1>7, <1>8 DEF IInv

\* A failure other than a recursion changes the outcome only.
LEMMA StopStep ==
  ASSUME IInv, NEW why \in Ended \ {"recursive", "success"}, Stop(why)
  PROVE  IInv'
<1>1. outcome' = why /\ build' = build /\ scopes' = scopes
  BY DEF Stop
<1>2. TypeOK'
  BY <1>1 DEF IInv, TypeOK, Ended, Failures
<1>3. RecursionIsCycle' /\ SuccessMeansAll'
  BY <1>1 DEF RecursionIsCycle, SuccessMeansAll
<1>4. (\A k \in DOMAIN scopes : ScopeInv(build.depends, scopes[k]))'
  BY <1>1 DEF IInv
<1>5. NoGoalLost' /\ UnknownRunsNothing'
  BY <1>1 DEF IInv, NoGoalLost, UnknownRunsNothing, Wanted
<1> QED
  BY <1>2, <1>3, <1>4, <1>5 DEF IInv

\* The code reports a recursion only on a cycle: the target called is one of
\* the activations below the caller, which depends on it.
LEMMA RecursionStep ==
  ASSUME IInv, NEW t \in Targets, InvokeRecursive(t)
  PROVE  IInv'
<1> DEFINE d == build.depends
           s == Top
           n == Len(s.frames)
<1>1. /\ Running /\ Calls(d, s, t) /\ t \in s.context
      /\ outcome' = "recursive" /\ build' = build /\ scopes' = scopes
  BY DEF InvokeRecursive, Stop
<1>2. s \in Scope /\ d \in Graphs /\ ScopeInv(d, s)
  BY <1>1, TopType
<1> HIDE DEF d, s
<1>3. /\ TargetsIn(s, {"depends"}) = {s.frames[i].target : i \in 1..n}
      /\ s.frames # <<>> => t \in DependsOf(d, Here(s).target)
  BY <1>1, <1>2, CallerInDepends DEF ScopeInv
<1>4. PICK i \in 1..n : t = s.frames[i].target
  BY <1>1, <1>2, <1>3 DEF ScopeInv, PathInContext
<1>5. /\ n \in Nat /\ n \in 1..n /\ s.frames # <<>> /\ DOMAIN s.frames = 1..n
      /\ Here(s) = s.frames[n] /\ Here(s).target \in Targets
  BY <1>2, <1>4, FrameType, HereType
<1>6. Below(d, t, t)
  <2>1. CASE i = n
    BY <1>3, <1>4, <1>5, <2>1, BelowStep
  <2>2. CASE i # n
    <3>1. Below(d, t, Here(s).target)
      BY <1>2, <1>4, <1>5, <2>2 DEF ScopeInv, FramesArePath
    <3> QED
      BY <1>3, <1>5, <3>1, BelowTrans
  <2> QED
    BY <2>1, <2>2
<1>7. RecursionIsCycle'
  <2>1. \E u \in s.context : Calls(d, s, u) /\ Below(d, u, u)
    BY <1>1, <1>6
  <2>2. Top' = Top
    BY <1>1 DEF Top
  <2> QED
    BY <1>1, <2>1, <2>2 DEF RecursionIsCycle, s, d
<1>8. TypeOK' /\ SuccessMeansAll'
  BY <1>1 DEF IInv, TypeOK, Ended, Failures, SuccessMeansAll
<1>9. (\A k \in DOMAIN scopes : ScopeInv(build.depends, scopes[k]))'
  BY <1>1 DEF IInv
<1>10. NoGoalLost' /\ UnknownRunsNothing'
  BY <1>1 DEF IInv, NoGoalLost, UnknownRunsNothing, Wanted
<1> QED
  BY <1>7, <1>8, <1>9, <1>10 DEF IInv

LEMMA SucceedStep ==
  ASSUME IInv, Succeed
  PROVE  IInv'
<1>1. /\ Running /\ Top.frames = <<>> /\ Top.goals = <<>> /\ Len(scopes) = 1
      /\ outcome' = "success" /\ build' = build /\ scopes' = scopes
  BY DEF Succeed, ScopeDone, Stop
<1>2. scopes[1] = Top /\ Top \in Scope /\ scopes # <<>>
  BY <1>1, TopType
<1>3. \A P : TargetsIn(Top, P) = {}
  BY <1>1 DEF TargetsIn
<1>4. Range(Wanted) \subseteq Top.completed
  BY <1>1, <1>2, <1>3 DEF IInv, NoGoalLost, Range
<1>5. Top.context = {}
  BY <1>1, <1>3, TopType DEF ScopeInv, PathInContext
<1>6. SuccessMeansAll'
  BY <1>1, <1>2, <1>4, <1>5 DEF SuccessMeansAll, Wanted
<1>7. TypeOK' /\ RecursionIsCycle'
  BY <1>1 DEF IInv, TypeOK, Ended, Failures, RecursionIsCycle
<1>8. (\A k \in DOMAIN scopes : ScopeInv(build.depends, scopes[k]))'
  BY <1>1 DEF IInv
<1>9. NoGoalLost' /\ UnknownRunsNothing'
  BY <1>1 DEF IInv, NoGoalLost, UnknownRunsNothing, Wanted
<1> QED
  BY <1>6, <1>7, <1>8, <1>9 DEF IInv

LEMMA LookupStep ==
  ASSUME IInv, LookupTargets
  PROVE  IInv'
<1>1. CASE Range(Wanted) \subseteq Targets
  <2> DEFINE s == NewScope(Wanted, 0)
  <2>1. /\ outcome' = "running" /\ scopes' = <<s>> /\ build' = build
    BY <1>1 DEF LookupTargets
  <2>2. Wanted \in Seq(Targets)
    <3>1. Wanted \in Seq(Names)
      BY DEF IInv, TypeOK, Build, Wanted
    <3>2. \A i \in 1..Len(Wanted) : Wanted[i] \in Targets
      BY <1>1, <3>1 DEF Range
    <3> QED
      BY <3>1, <3>2
  <2>3. ScopeInv(build.depends, s) /\ s \in Scope /\ s.goals = Wanted
    BY <2>2, NewScopeInv DEF NewScope
  <2> HIDE DEF s
  <2>4. /\ scopes' \in Seq(Scope) /\ scopes' # <<>>
        /\ DOMAIN scopes' = {1} /\ scopes'[1] = s
    BY <2>1, <2>3
  <2>5. TypeOK'
    BY <2>1, <2>4 DEF IInv, TypeOK
  <2>6. \A k \in DOMAIN scopes' : ScopeInv(build.depends, scopes'[k])
    BY <2>3, <2>4
  <2>7. NoGoalLost' /\ UnknownRunsNothing'
    BY <1>1, <2>1, <2>3, <2>4 DEF NoGoalLost, UnknownRunsNothing, Wanted
  <2>8. RecursionIsCycle' /\ SuccessMeansAll'
    BY <2>1 DEF RecursionIsCycle, SuccessMeansAll
  <2> QED
    BY <2>1, <2>5, <2>6, <2>7, <2>8 DEF IInv
<1>2. CASE ~(Range(Wanted) \subseteq Targets)
  BY <1>2, StopStep DEF LookupTargets, Stop, Ended, Failures
<1> QED
  BY <1>1, <1>2

LEMMA AntcallStep ==
  ASSUME IInv, NEW t \in Targets, Antcall(t)
  PROVE  IInv'
<1> DEFINE s == Advanced(Top)
           new == NewScope(<<t>>, Depth(Top))
           q == [scopes EXCEPT ![Len(scopes)] = s]
<1>1. /\ Running /\ InFrame(Top, "tasks") /\ scopes' = Append(q, new)
      /\ build' = build /\ outcome' = "running" /\ outcome = "running"
  BY DEF Antcall, Task, Running
<1>2. Top \in Scope /\ build.depends \in Graphs /\ ScopeInv(build.depends, Top)
  BY <1>1, TopType
<1>3. s \in Scope /\ ScopeInv(build.depends, s)
  BY <1>1, <1>2, TaskInv
<1>4. new \in Scope /\ ScopeInv(build.depends, new)
  <2>1. Depth(Top) \in Nat
    BY <1>2, FrameType DEF Depth, Scope
  <2>2. <<t>> \in Seq(Targets)
    OBVIOUS
  <2> QED
    BY <2>1, <2>2, NewScopeInv
<1>5. Known(Top) \subseteq Known(s)
  BY <1>1, <1>2, AdvancedKnown DEF InFrame
<1> HIDE DEF s, new
<1>6. /\ q \in Seq(Scope) /\ Len(q) = Len(scopes) /\ q[Len(scopes)] = s
      /\ \A k \in 1..Len(scopes) - 1 : q[k] = scopes[k]
      /\ Len(scopes) \in Nat \ {0}
  <2>1. scopes \in Seq(Scope) /\ scopes # <<>> /\ Len(scopes) \in Nat \ {0}
    BY <1>1, TopType
  <2> QED
    BY <1>3, <2>1, ReplaceLast
<1> HIDE DEF q
<1>7. /\ scopes' \in Seq(Scope) /\ scopes' # <<>> /\ Len(scopes') = Len(scopes) + 1
      /\ DOMAIN scopes' = 1..Len(scopes) + 1
      /\ scopes'[Len(scopes) + 1] = new
      /\ \A k \in 1..Len(scopes) : scopes'[k] = q[k]
  BY <1>1, <1>4, <1>6
<1>8. TypeOK'
  BY <1>1, <1>7 DEF IInv, TypeOK
<1>9. \A k \in DOMAIN scopes' : ScopeInv(build.depends, scopes'[k])
  BY <1>1, <1>3, <1>4, <1>6, <1>7, TopType DEF IInv
<1>10. Known(scopes[1]) \subseteq Known(scopes'[1])
  BY <1>1, <1>5, <1>6, <1>7, TopType
<1>11. NoGoalLost' /\ UnknownRunsNothing'
  BY <1>1, <1>10, TopType DEF IInv, NoGoalLost, UnknownRunsNothing, Wanted, Known
<1>12. RecursionIsCycle' /\ SuccessMeansAll'
  BY <1>1 DEF RecursionIsCycle, SuccessMeansAll
<1> QED
  BY <1>1, <1>8, <1>9, <1>11, <1>12 DEF IInv

LEMMA ReturnStep ==
  ASSUME IInv, ReturnAntcall
  PROVE  IInv'
<1>1. /\ Running /\ Len(scopes) > 1 /\ scopes' = Front(scopes)
      /\ build' = build /\ outcome' = "running" /\ outcome = "running"
  BY DEF ReturnAntcall, ScopeDone, Running
<1>2. /\ scopes' \in Seq(Scope) /\ Len(scopes') = Len(scopes) - 1
      /\ \A k \in 1..Len(scopes) - 1 : scopes'[k] = scopes[k]
      /\ Len(scopes) \in Nat \ {0}
  BY <1>1, TopType, DropLast
<1>3. scopes' # <<>> /\ DOMAIN scopes' = 1..Len(scopes) - 1 /\ scopes'[1] = scopes[1]
  BY <1>1, <1>2
<1>4. TypeOK'
  BY <1>1, <1>2, <1>3 DEF IInv, TypeOK
<1>5. \A k \in DOMAIN scopes' : ScopeInv(build.depends, scopes'[k])
  BY <1>1, <1>2, <1>3, TopType DEF IInv
<1>6. NoGoalLost' /\ UnknownRunsNothing'
  BY <1>1, <1>3, TopType DEF IInv, NoGoalLost, UnknownRunsNothing, Wanted
<1>7. RecursionIsCycle' /\ SuccessMeansAll'
  BY <1>1 DEF RecursionIsCycle, SuccessMeansAll
<1> QED
  BY <1>1, <1>4, <1>5, <1>6, <1>7 DEF IInv

\* Every step preserves the inductive invariant.
LEMMA NextStep == IInv /\ [Next]_vars => IInv'
<1> SUFFICES ASSUME IInv, [Next]_vars
             PROVE  IInv'
  OBVIOUS
<1>1. CASE LookupTargets
  BY <1>1, LookupStep
<1>2. ASSUME NEW t \in Targets, InvokeCompleted(t)
      PROVE  IInv'
  <2>1. /\ Running /\ Calls(build.depends, Top, t) /\ t \in Top.completed
        /\ Continue(Advanced(Top))
    BY <1>2 DEF InvokeCompleted
  <2> QED
    BY <2>1, TopType, SkipInv, CallsKnown, ContinueStep
<1>3. ASSUME NEW t \in Targets, InvokeRecursive(t)
      PROVE  IInv'
  BY <1>3, RecursionStep
<1>4. ASSUME NEW t \in Targets, Enter(t)
      PROVE  IInv'
  <2>1. /\ Running /\ Calls(build.depends, Top, t)
        /\ t \notin Top.completed /\ t \notin Top.context
    BY <1>4 DEF Enter
  <2>2. CASE Depth(Top) < StackLimit
    <3>1. Continue(Entered(Top, t))
      BY <1>4, <2>2 DEF Enter
    <3> QED
      BY <2>1, <3>1, TopType, EnteredInv, CallsKnown, ContinueStep
  <2>3. CASE ~(Depth(Top) < StackLimit)
    BY <1>4, <2>3, StopStep DEF Enter, Ended
  <2> QED
    BY <2>2, <2>3
<1>5. CASE StartTasks
  <2>1. /\ Running /\ InFrame(Top, "depends") /\ Top.frames # <<>>
        /\ Here(Top).next > Len(build.depends[Here(Top).target])
        /\ Continue(Started(Top))
    BY <1>5 DEF StartTasks, InFrame
  <2> QED
    BY <2>1, TopType, StartedInv, StartedKnown, ContinueStep
<1>6. CASE RunPlain
  <2>1. /\ Running /\ InFrame(Top, "tasks") /\ Top.frames # <<>>
        /\ Continue(Advanced(Top)) \/ Stop("task failed")
    BY <1>6 DEF RunPlain, Task, InFrame
  <2>2. CASE Continue(Advanced(Top))
    BY <2>1, <2>2, TopType, TaskInv, AdvancedKnown, ContinueStep
  <2>3. CASE Stop("task failed")
    BY <2>3, StopStep DEF Ended, Failures
  <2> QED
    BY <2>1, <2>2, <2>3
<1>7. ASSUME NEW t \in Targets, Antcall(t)
      PROVE  IInv'
  BY <1>7, AntcallStep
<1>8. CASE AntcallMissing
  BY <1>8, StopStep DEF AntcallMissing, Ended, Failures
<1>9. CASE Complete
  <2>1. /\ Running /\ InFrame(Top, "tasks") /\ Top.frames # <<>>
        /\ Continue(Completed(Top))
    BY <1>9 DEF Complete, InFrame
  <2> QED
    BY <2>1, TopType, CompletedInv, CompletedKnown, ContinueStep
<1>10. CASE ReturnAntcall
  BY <1>10, ReturnStep
<1>11. CASE Succeed
  BY <1>11, SucceedStep
<1>12. CASE UNCHANGED vars
  BY <1>12 DEF vars, IInv, TypeOK, NoGoalLost, RecursionIsCycle, SuccessMeansAll,
               UnknownRunsNothing, Wanted, Top
<1> QED
  BY <1>1, <1>2, <1>3, <1>4, <1>5, <1>6, <1>7, <1>8, <1>9, <1>10, <1>11, <1>12
     DEF Next, Step, Exited

LEMMA InitInv == Init => IInv
<1> SUFFICES ASSUME Init
             PROVE  IInv
  OBVIOUS
<1>1. build \in Build /\ scopes = <<>> /\ outcome = "lookup"
  BY BuildsAssumption DEF Init
<1>2. TypeOK
  BY <1>1 DEF TypeOK
<1> QED
  BY <1>1, <1>2 DEF IInv, NoGoalLost, RecursionIsCycle, SuccessMeansAll, UnknownRunsNothing

\* The inductive invariant holds in every reachable state.
THEOREM Inductive == Spec => []IInv
<1>1. Init => IInv
  BY InitInv
<1>2. IInv /\ [Next]_vars => IInv'
  BY NextStep
<1> QED
  BY <1>1, <1>2, PTL DEF Spec

-----------------------------------------------------------------------------
(* What follows from it                                                    *)

\* The state of the executor is well typed.
THEOREM TypeCorrect == Spec => []TypeOK
<1>1. IInv => TypeOK
  BY DEF IInv
<1> QED
  BY <1>1, Inductive, PTL

\* A target's tasks run only after all its dependencies have completed.
THEOREM DependenciesRunFirst == Spec => []DependenciesFirst
<1>1. IInv => DependenciesFirst
  BY DEF IInv, ScopeInv, DependenciesFirst
<1> QED
  BY <1>1, Inductive, PTL

\* Under one pair of tables no target is activated twice at a time, or again
\* after it completed.
THEOREM EachTargetOnce == Spec => []AtMostOnce
<1>1. IInv => AtMostOnce
  BY DEF IInv, ScopeInv, AtMostOnce
<1> QED
  BY <1>1, Inductive, PTL

\* The context table is exactly the path of unfinished dependency loops.
THEOREM ContextExact == Spec => []ContextIsPath
<1>1. IInv => ContextIsPath
  BY DEF IInv, ScopeInv, ContextIsPath
<1> QED
  BY <1>1, Inductive, PTL

\* A recursion is reported only when a target does depend on itself.
THEOREM RecursionReportsCorrect == Spec => []RecursionIsCycle
<1>1. IInv => RecursionIsCycle
  BY DEF IInv
<1> QED
  BY <1>1, Inductive, PTL

\* A target on a dependency cycle never completes.
THEOREM CyclicTargetsIncomplete == Spec => []CyclesNeverComplete
<1>1. IInv => CyclesNeverComplete
  BY DEF IInv, ScopeInv, CyclesNeverComplete
<1> QED
  BY <1>1, Inductive, PTL

\* A successful build has completed every wanted target.
THEOREM SuccessComplete == Spec => []SuccessMeansAll
<1>1. IInv => SuccessMeansAll
  BY DEF IInv
<1> QED
  BY <1>1, Inductive, PTL

\* One unknown name among the wanted targets and nothing is ever invoked.
THEOREM UnknownNamesRunNothing == Spec => []UnknownRunsNothing
<1>1. IInv => UnknownRunsNothing
  BY DEF IInv
<1> QED
  BY <1>1, Inductive, PTL

-----------------------------------------------------------------------------
(* Steps on the innermost scope, and the scopes below it                   *)

\* Continue changes the innermost scope only.
LEMMA ContinueEffect ==
  ASSUME IInv, Running, NEW s \in Scope, Continue(s)
  PROVE  /\ DOMAIN scopes' = DOMAIN scopes /\ scopes' # <<>>
         /\ scopes'[Len(scopes)] = s
         /\ \A k \in DOMAIN scopes : k # Len(scopes) => scopes'[k] = scopes[k]
<1>1. scopes \in Seq(Scope) /\ scopes # <<>> /\ Len(scopes) \in Nat \ {0}
      /\ DOMAIN scopes = 1..Len(scopes)
  BY TopType
<1> QED
  BY <1>1 DEF Continue

\* Antcall moves the caller's task loop on and opens a scope above it.
LEMMA AntcallEffect ==
  ASSUME IInv, NEW t \in Targets, Antcall(t)
  PROVE  /\ DOMAIN scopes \subseteq DOMAIN scopes'
         /\ scopes'[Len(scopes)] = Advanced(Top)
         /\ \A k \in DOMAIN scopes : k # Len(scopes) => scopes'[k] = scopes[k]
<1> DEFINE s == Advanced(Top)
           new == NewScope(<<t>>, Depth(Top))
           q == [scopes EXCEPT ![Len(scopes)] = s]
<1>1. Running /\ InFrame(Top, "tasks") /\ scopes' = Append(q, new)
  BY DEF Antcall, Task
<1>2. scopes \in Seq(Scope) /\ scopes # <<>> /\ Len(scopes) \in Nat \ {0}
      /\ DOMAIN scopes = 1..Len(scopes)
  BY <1>1, TopType
<1>3. s \in Scope
  BY <1>1, TopType, TaskInv
<1>4. new \in Scope
  <2>1. Depth(Top) \in Nat
    BY <1>1, TopType, FrameType DEF Depth, Scope
  <2>2. <<t>> \in Seq(Targets)
    OBVIOUS
  <2> QED
    BY <2>1, <2>2, NewScopeInv
<1>5. s = Advanced(Top)
  OBVIOUS
<1> HIDE DEF s, new
<1>6. /\ q \in Seq(Scope) /\ Len(q) = Len(scopes) /\ q[Len(scopes)] = s
      /\ \A k \in 1..Len(scopes) - 1 : q[k] = scopes[k]
  <2>1. scopes \in Seq(Scope) /\ scopes # <<>>
    BY <1>2
  <2> QED
    BY <1>3, <2>1, ReplaceLast
<1> HIDE DEF q
<1>7. /\ DOMAIN scopes' = 1..Len(scopes) + 1
      /\ \A k \in 1..Len(scopes) : scopes'[k] = q[k]
  BY <1>1, <1>2, <1>4, <1>6
<1> QED
  BY <1>2, <1>5, <1>6, <1>7

\* What a step does to the table of a scope that is there before and after.
Grows == \A k \in DOMAIN scopes \cap DOMAIN scopes' :
            scopes[k].completed \subseteq scopes'[k].completed

\* A step that leaves the innermost scope at s, and the others alone.
LEMMA TopGrows ==
  ASSUME IInv, Running, NEW s, Top.completed \subseteq s.completed,
         scopes'[Len(scopes)] = s,
         \A k \in DOMAIN scopes : k # Len(scopes) => scopes'[k] = scopes[k]
  PROVE  Grows
<1>1. scopes \in Seq(Scope) /\ Len(scopes) \in Nat \ {0}
      /\ DOMAIN scopes = 1..Len(scopes) /\ Top = scopes[Len(scopes)]
  BY TopType DEF Top, Last
<1> QED
  BY <1>1 DEF Grows

LEMMA AdvancedCompleted ==
  ASSUME NEW s \in Scope
  PROVE  Advanced(s).completed = s.completed
  BY DEF Advanced, SetHere, Scope

\* No step takes a target out of a table of completed targets.
LEMMA StepGrows ==
  ASSUME IInv, [Next]_vars
  PROVE  Grows
<1>1. CASE scopes' = scopes
  BY <1>1 DEF Grows
<1>2. CASE LookupTargets
  <2>1. scopes = <<>>
    BY <1>2 DEF LookupTargets, IInv, TypeOK
  <2> QED
    BY <2>1 DEF Grows
<1>3. ASSUME Running, NEW s \in Scope, Continue(s), Top.completed \subseteq s.completed
      PROVE  Grows
  BY <1>3, ContinueEffect, TopGrows
<1>4. ASSUME Running
      PROVE  Top \in Scope /\ Advanced(Top).completed = Top.completed
  BY <1>4, TopType, AdvancedCompleted
<1>5. ASSUME NEW t \in Targets, InvokeCompleted(t)
      PROVE  Grows
  <2>1. Running /\ Calls(build.depends, Top, t) /\ Continue(Advanced(Top))
    BY <1>5 DEF InvokeCompleted
  <2>2. Advanced(Top) \in Scope
    BY <2>1, TopType, AdvancedType DEF Calls, InFrame
  <2> QED
    BY <2>1, <2>2, <1>3, <1>4
<1>6. ASSUME NEW t \in Targets, Enter(t)
      PROVE  Grows
  <2>1. Running /\ Calls(build.depends, Top, t) /\ t \notin Top.completed /\ t \notin Top.context
    BY <1>6 DEF Enter
  <2>2. CASE Continue(Entered(Top, t))
    <3>1. Entered(Top, t) \in Scope /\ Entered(Top, t).completed = Top.completed
      BY <2>1, TopType, EnteredInv, EnteredType DEF Calls, InFrame
    <3> QED
      BY <2>1, <2>2, <3>1, <1>3
  <2> QED
    BY <2>2, <1>1, <1>6 DEF Enter, Stop
<1>7. CASE StartTasks
  <2>1. Running /\ Top.frames # <<>> /\ Continue(Started(Top))
    BY <1>7 DEF StartTasks, InFrame
  <2>2. Started(Top) \in Scope /\ Started(Top).completed = Top.completed
    BY <2>1, TopType, StartedType
  <2> QED
    BY <2>1, <2>2, <1>3
<1>8. CASE RunPlain
  <2>1. Running /\ InFrame(Top, "tasks") /\ Top.frames # <<>>
    BY <1>8 DEF RunPlain, Task, InFrame
  <2>2. CASE Continue(Advanced(Top))
    <3>1. Advanced(Top) \in Scope
      BY <2>1, TopType, TaskInv
    <3> QED
      BY <2>1, <2>2, <3>1, <1>3, <1>4
  <2> QED
    BY <2>2, <1>1, <1>8 DEF RunPlain, Stop
<1>9. ASSUME NEW t \in Targets, Antcall(t)
      PROVE  Grows
  <2>1. Running
    BY <1>9 DEF Antcall, Task
  <2> QED
    BY <2>1, <1>4, <1>9, AntcallEffect, TopGrows
<1>10. CASE Complete
  <2>1. Running /\ Top.frames # <<>> /\ Continue(Completed(Top))
    BY <1>10 DEF Complete, InFrame
  <2>2. Completed(Top) \in Scope /\ Top.completed \subseteq Completed(Top).completed
    BY <2>1, TopType, CompletedType
  <2> QED
    BY <2>1, <2>2, <1>3
<1>11. CASE ReturnAntcall
  <2>1. Running /\ scopes' = Front(scopes)
    BY <1>11 DEF ReturnAntcall, ScopeDone
  <2>2. \A k \in DOMAIN scopes \cap DOMAIN scopes' : scopes'[k] = scopes[k]
    BY <2>1, TopType, DropLast
  <2> QED
    BY <2>2 DEF Grows
<1> QED
  BY <1>1, <1>2, <1>5, <1>6, <1>7, <1>8, <1>9, <1>10, <1>11
     DEF Next, Step, Exited, vars, InvokeRecursive, AntcallMissing, Succeed, Stop

\* No table of completed targets ever shrinks.
THEOREM CompletedIsMonotone == Spec => CompletedGrows
<1>1. IInv /\ [Next]_vars => [Grows]_vars
  BY StepGrows
<1> QED
  BY <1>1, Inductive, PTL DEF Spec, CompletedGrows, Grows

-----------------------------------------------------------------------------
(* What main's scope does                                                  *)

\* A step leaves main's scope alone ...
MainStays ==
    /\ scopes # <<>> /\ scopes' # <<>> /\ scopes'[1] = scopes[1]
    /\ build' = build /\ outcome' = outcome

\* ... or is a step of main's scope, and makes it s.
MainMoves(s) ==
    /\ Running /\ scopes # <<>> /\ scopes[1] = Top /\ scopes' # <<>> /\ scopes'[1] = s
    /\ build' = build /\ outcome' = outcome

LEMMA ContinueMain ==
  ASSUME IInv, Running, NEW s \in Scope, Continue(s)
  PROVE  MainStays \/ MainMoves(s)
<1>1. scopes # <<>> /\ Len(scopes) \in Nat \ {0} /\ DOMAIN scopes = 1..Len(scopes)
      /\ Top = scopes[Len(scopes)]
  BY TopType
<1>2. build' = build /\ outcome' = outcome
  BY DEF Continue
<1> QED
  BY <1>1, <1>2, ContinueEffect DEF MainStays, MainMoves

\* The steps, as main's scope sees them.
MainStep ==
    \/ MainStays
    \/ LookupTargets
    \/ \E why \in Ended \ {"success"} : outcome \in {"lookup", "running"} /\ Stop(why)
    \/ Succeed
    \/ \E t \in Targets : Calls(build.depends, Top, t) /\ t \in Top.completed
                             /\ MainMoves(Advanced(Top))
    \/ \E t \in Targets : Calls(build.depends, Top, t) /\ t \notin Top.completed
                             /\ t \notin Top.context /\ MainMoves(Entered(Top, t))
    \/ InFrame(Top, "depends") /\ MainMoves(Started(Top))
    \/ InFrame(Top, "tasks") /\ MainMoves(Advanced(Top))
    \/ InFrame(Top, "tasks") /\ MainMoves(Completed(Top))

LEMMA StepsOfMain ==
  ASSUME IInv, Next
  PROVE  MainStep \/ UNCHANGED vars
<1>1. ASSUME Running, NEW why \in Ended \ {"success"}, Stop(why)
      PROVE  MainStep
  BY <1>1 DEF MainStep, Running
<1>2. CASE LookupTargets
  BY <1>2 DEF MainStep
<1>3. ASSUME NEW t \in Targets, InvokeCompleted(t)
      PROVE  MainStep
  <2>1. Running /\ Calls(build.depends, Top, t) /\ t \in Top.completed
        /\ Continue(Advanced(Top))
    BY <1>3 DEF InvokeCompleted
  <2>2. Advanced(Top) \in Scope
    BY <2>1, TopType, AdvancedType DEF Calls, InFrame
  <2> QED
    BY <2>1, <2>2, ContinueMain DEF MainStep
<1>4. ASSUME NEW t \in Targets, InvokeRecursive(t)
      PROVE  MainStep
  BY <1>1, <1>4 DEF InvokeRecursive, Ended, Failures
<1>5. ASSUME NEW t \in Targets, Enter(t)
      PROVE  MainStep
  <2>1. Running /\ Calls(build.depends, Top, t) /\ t \notin Top.completed /\ t \notin Top.context
    BY <1>5 DEF Enter
  <2>2. CASE Continue(Entered(Top, t))
    <3>1. Entered(Top, t) \in Scope
      BY <2>1, TopType, EnteredInv
    <3> QED
      BY <2>1, <2>2, <3>1, ContinueMain DEF MainStep
  <2>3. CASE Stop("stack overflow")
    BY <1>1, <2>1, <2>3 DEF Ended, Failures
  <2> QED
    BY <2>2, <2>3, <1>5 DEF Enter
<1>6. CASE StartTasks
  <2>1. Running /\ InFrame(Top, "depends") /\ Top.frames # <<>> /\ Continue(Started(Top))
    BY <1>6 DEF StartTasks, InFrame
  <2>2. Started(Top) \in Scope
    BY <2>1, TopType, StartedType
  <2> QED
    BY <2>1, <2>2, ContinueMain DEF MainStep
<1>7. CASE RunPlain
  <2>1. Running /\ InFrame(Top, "tasks")
    BY <1>7 DEF RunPlain, Task
  <2>2. CASE Continue(Advanced(Top))
    <3>1. Advanced(Top) \in Scope
      BY <2>1, TopType, TaskInv
    <3> QED
      BY <2>1, <2>2, <3>1, ContinueMain DEF MainStep
  <2>3. CASE Stop("task failed")
    BY <1>1, <2>1, <2>3 DEF Ended, Failures
  <2> QED
    BY <2>2, <2>3, <1>7 DEF RunPlain
<1>8. ASSUME NEW t \in Targets, Antcall(t)
      PROVE  MainStep
  <2>1. Running /\ InFrame(Top, "tasks") /\ build' = build /\ outcome' = outcome
    BY <1>8 DEF Antcall, Task
  <2>2. scopes # <<>> /\ Len(scopes) \in Nat \ {0} /\ DOMAIN scopes = 1..Len(scopes)
        /\ Top = scopes[Len(scopes)]
    BY <2>1, TopType
  <2>3. /\ 1 \in DOMAIN scopes'
        /\ scopes'[Len(scopes)] = Advanced(Top)
        /\ \A k \in DOMAIN scopes : k # Len(scopes) => scopes'[k] = scopes[k]
    BY <1>8, <2>2, AntcallEffect
  <2>4. scopes' # <<>>
    BY <2>3
  <2> QED
    BY <2>1, <2>2, <2>3, <2>4 DEF MainStep, MainStays, MainMoves
<1>9. CASE AntcallMissing
  BY <1>1, <1>9 DEF AntcallMissing, Task, Ended, Failures
<1>10. CASE Complete
  <2>1. Running /\ InFrame(Top, "tasks") /\ Top.frames # <<>> /\ Continue(Completed(Top))
    BY <1>10 DEF Complete, InFrame
  <2>2. Completed(Top) \in Scope
    BY <2>1, TopType, CompletedType
  <2> QED
    BY <2>1, <2>2, ContinueMain DEF MainStep
<1>11. CASE ReturnAntcall
  <2>1. Running /\ Len(scopes) > 1 /\ scopes' = Front(scopes) /\ build' = build
        /\ outcome' = outcome
    BY <1>11 DEF ReturnAntcall, ScopeDone
  <2>2. scopes # <<>> /\ Len(scopes') = Len(scopes) - 1 /\ scopes' \in Seq(Scope)
        /\ Len(scopes) \in Nat /\ \A k \in 1..Len(scopes) - 1 : scopes'[k] = scopes[k]
    BY <2>1, TopType, DropLast
  <2>3. scopes' # <<>> /\ scopes'[1] = scopes[1]
    BY <2>1, <2>2
  <2> QED
    BY <2>1, <2>2, <2>3 DEF MainStep, MainStays
<1>12. CASE Succeed
  BY <1>12 DEF MainStep
<1>13. CASE Exited
  BY <1>13 DEF Exited
<1> QED
  BY <1>2, <1>3, <1>4, <1>5, <1>6, <1>7, <1>8, <1>9, <1>10, <1>11, <1>12, <1>13
     DEF Next, Step

-----------------------------------------------------------------------------
(* Main's scope asks for nothing that is not needed                        *)

NeededOnly(s) ==
    /\ Range(s.goals) \subseteq Range(Wanted)
    /\ \A i \in DOMAIN s.frames : Order!Needed(s.frames[i].target)

\* A wanted target is needed, and so is what a needed one depends on.
LEMMA NeededGoal ==
  ASSUME NEW t \in Range(Wanted)
  PROVE  Order!Needed(t)
  BY DEF Order!Needed, Order!Range, Range

LEMMA NeededDependency ==
  ASSUME NEW u \in Targets, Order!Needed(u), NEW t \in DependsOf(build.depends, u)
  PROVE  Order!Needed(t)
  BY DEF Order!Needed, Order!Closed, Order!Range, Range, DependsOf

\* A scope whose frames have targets of the old one, or needed ones.
LEMMA NeededFrames ==
  ASSUME NEW s \in Scope, NEW r \in Scope, NeededOnly(s),
         Range(r.goals) \subseteq Range(s.goals),
         \A i \in 1..Len(r.frames) :
            \/ i \in 1..Len(s.frames) /\ r.frames[i].target = s.frames[i].target
            \/ Order!Needed(r.frames[i].target)
  PROVE  NeededOnly(r)
<1>1. DOMAIN s.frames = 1..Len(s.frames) /\ DOMAIN r.frames = 1..Len(r.frames)
  BY FrameType
<1>2. ASSUME NEW i \in DOMAIN r.frames
      PROVE  Order!Needed(r.frames[i].target)
  <2>1. CASE i \in 1..Len(s.frames) /\ r.frames[i].target = s.frames[i].target
    <3>1. Order!Needed(s.frames[i].target)
      BY <1>1, <2>1 DEF NeededOnly
    <3> QED
      BY <2>1, <3>1
  <2> QED
    BY <1>1, <1>2, <2>1
<1> QED
  BY <1>2 DEF NeededOnly

LEMMA AdvancedGoals ==
  ASSUME NEW s \in Scope, s.frames = <<>> => s.goals # <<>>
  PROVE  Range(Advanced(s).goals) \subseteq Range(s.goals)
<1>1. CASE s.frames # <<>>
  BY <1>1, AdvancedType
<1>2. CASE s.frames = <<>>
  <2>1. Advanced(s).goals = Tail(s.goals) /\ s.goals \in Seq(Targets) /\ s.goals # <<>>
    BY <1>2, AdvancedType, KnownFrames
  <2> SUFFICES ASSUME NEW i \in DOMAIN Tail(s.goals)
               PROVE  Tail(s.goals)[i] \in Range(s.goals)
    BY <2>1 DEF Range
  <2>2. i \in Nat /\ i + 1 \in DOMAIN s.goals /\ Tail(s.goals)[i] = s.goals[i + 1]
    BY <2>1
  <2> QED
    BY <2>2 DEF Range
<1> QED
  BY <1>1, <1>2

LEMMA CallNeeded ==
  ASSUME NEW s \in Scope, NEW t, build.depends \in Graphs, Calls(build.depends, s, t),
         LoopsInStep(build.depends, s), NeededOnly(s)
  PROVE  Order!Needed(t)
<1>1. CASE s.frames = <<>>
  <2>1. t = Head(s.goals) /\ s.goals # <<>> /\ s.goals \in Seq(Targets)
    BY <1>1, KnownFrames DEF Calls, InFrame
  <2>2. t \in Range(s.goals)
    BY <2>1 DEF Range
  <2> QED
    BY <2>2, NeededGoal DEF NeededOnly
<1>2. CASE s.frames # <<>>
  <2>1. t \in DependsOf(build.depends, Here(s).target)
    BY <1>2, CallerInDepends
  <2>2. Order!Needed(Here(s).target) /\ Here(s).target \in Targets
    BY <1>2, HereType, FrameType DEF NeededOnly
  <2> QED
    BY <2>1, <2>2, NeededDependency
<1> QED
  BY <1>1, <1>2

LEMMA NeededStep ==
  ASSUME IInv, OnlyNeeded, [Next]_vars
  PROVE  OnlyNeeded'
<1>1. OnlyNeeded <=> (scopes # <<>> => NeededOnly(scopes[1]))
  BY DEF OnlyNeeded, NeededOnly
<1>2. ASSUME NEW s \in Scope, NeededOnly(s), build' = build, scopes'[1] = s
      PROVE  OnlyNeeded'
  <2>1. \A t : Order!Needed(t)' <=> Order!Needed(t)
    BY <1>2 DEF Order!Needed, Order!Closed, Wanted
  <2> QED
    BY <1>2, <2>1 DEF OnlyNeeded, NeededOnly, Wanted
<1>3. CASE UNCHANGED vars
  <2>1. build' = build /\ scopes' = scopes
    BY <1>3 DEF vars
  <2>2. CASE scopes = <<>>
    BY <2>1, <2>2 DEF OnlyNeeded
  <2>3. CASE scopes # <<>>
    <3>1. scopes[1] \in Scope
      BY <2>3 DEF IInv, TypeOK
    <3> QED
      BY <1>1, <1>2, <2>1, <2>3, <3>1
  <2> QED
    BY <2>2, <2>3
<1>4. CASE MainStays
  <2>1. scopes[1] \in Scope
    BY <1>4 DEF MainStays, IInv, TypeOK
  <2> QED
    BY <1>1, <1>2, <1>4, <2>1 DEF MainStays
<1>5. CASE LookupTargets
  <2>1. CASE Range(Wanted) \subseteq Targets
    <3> DEFINE s == NewScope(Wanted, 0)
    <3>1. scopes' = <<s>> /\ build' = build
      BY <1>5, <2>1 DEF LookupTargets
    <3>2. s.goals = Wanted /\ s.frames = <<>>
      BY DEF NewScope
    <3> HIDE DEF s
    <3>3. scopes'[1] = s
      BY <3>1
    <3> QED
      BY <3>1, <3>2, <3>3 DEF OnlyNeeded, Wanted
  <2>2. CASE ~(Range(Wanted) \subseteq Targets)
    BY <1>5, <2>2 DEF LookupTargets, IInv, TypeOK, OnlyNeeded
  <2> QED
    BY <2>1, <2>2
<1>6. ASSUME NEW why, Stop(why)
      PROVE  OnlyNeeded'
  <2>1. build' = build /\ scopes' = scopes
    BY <1>6 DEF Stop
  <2>2. CASE scopes # <<>>
    <3>1. scopes[1] \in Scope
      BY <2>2 DEF IInv, TypeOK
    <3> QED
      BY <1>1, <1>2, <2>1, <2>2, <3>1
  <2> QED
    BY <2>1, <2>2 DEF OnlyNeeded
<1>7. ASSUME NEW s, MainMoves(s)
      PROVE  /\ Top \in Scope /\ NeededOnly(Top) /\ build.depends \in Graphs
             /\ ScopeInv(build.depends, Top) /\ LoopsInStep(build.depends, Top)
             /\ s \in Scope /\ NeededOnly(s) => OnlyNeeded'
  BY <1>1, <1>2, <1>7, TopType DEF MainMoves, ScopeInv
<1>8. ASSUME MainMoves(Advanced(Top)), Top.frames = <<>> => Top.goals # <<>>
      PROVE  OnlyNeeded'
  <2>1. Top \in Scope /\ NeededOnly(Top)
    BY <1>7, <1>8
  <2>2. Advanced(Top) \in Scope /\ Len(Advanced(Top).frames) = Len(Top.frames)
    BY <1>8, <2>1, AdvancedType
  <2>3. \A i \in 1..Len(Top.frames) : Advanced(Top).frames[i].target = Top.frames[i].target
    BY <1>8, <2>1, AdvancedFrames
  <2>4. NeededOnly(Advanced(Top))
    BY <1>8, <2>1, <2>2, <2>3, AdvancedGoals, NeededFrames
  <2> QED
    BY <1>7, <1>8, <2>2, <2>4
<1>9. ASSUME NEW t \in Targets, Calls(build.depends, Top, t), MainMoves(Entered(Top, t))
      PROVE  OnlyNeeded'
  <2> DEFINE r == Entered(Top, t)
             n == Len(Top.frames)
  <2>1. Top \in Scope /\ NeededOnly(Top) /\ (Top.frames = <<>> => Top.goals # <<>>)
    BY <1>7, <1>9 DEF Calls, InFrame
  <2>2. Order!Needed(t)
    BY <1>7, <1>9, CallNeeded
  <2>3. /\ r \in Scope /\ Len(r.frames) = n + 1 /\ r.goals = Advanced(Top).goals
        /\ n \in Nat
    BY <2>1, EnteredType, FrameType
  <2>4. \A i \in 1..n : Advanced(Top).frames[i].target = Top.frames[i].target
    BY <2>1, AdvancedFrames
  <2>5. /\ \A i \in 1..n : r.frames[i] = Advanced(Top).frames[i]
        /\ r.frames[n + 1] = [target |-> t, phase |-> "depends", next |-> 1]
    BY <2>1, EnteredType
  <2> HIDE DEF r, n
  <2>6. \A i \in 1..n + 1 :
           \/ i \in 1..n /\ r.frames[i].target = Top.frames[i].target
           \/ Order!Needed(r.frames[i].target)
    BY <2>2, <2>3, <2>4, <2>5
  <2>7. NeededOnly(r)
    BY <2>1, <2>3, <2>6, AdvancedGoals, NeededFrames DEF n
  <2> QED
    BY <1>7, <1>9, <2>3, <2>7 DEF r
<1>10. CASE InFrame(Top, "depends") /\ MainMoves(Started(Top))
  <2>1. Top \in Scope /\ NeededOnly(Top) /\ Top.frames # <<>>
    BY <1>7, <1>10 DEF InFrame
  <2>2. /\ Started(Top) \in Scope /\ Len(Started(Top).frames) = Len(Top.frames)
        /\ Started(Top).goals = Top.goals
    BY <2>1, StartedType
  <2>3. \A i \in 1..Len(Top.frames) : Started(Top).frames[i].target = Top.frames[i].target
    BY <2>1, StartedFrames
  <2>4. NeededOnly(Started(Top))
    BY <2>1, <2>2, <2>3, NeededFrames
  <2> QED
    BY <1>7, <1>10, <2>2, <2>4
<1>11. CASE InFrame(Top, "tasks") /\ MainMoves(Completed(Top))
  <2>1. Top \in Scope /\ NeededOnly(Top) /\ Top.frames # <<>> /\ Len(Top.frames) \in Nat
    BY <1>7, <1>11, FrameType DEF InFrame
  <2>2. /\ Completed(Top) \in Scope /\ Len(Completed(Top).frames) = Len(Top.frames) - 1
        /\ Completed(Top).goals = Top.goals
        /\ \A i \in 1..Len(Top.frames) - 1 : Completed(Top).frames[i] = Top.frames[i]
    BY <2>1, CompletedType
  <2>3. \A i \in 1..Len(Completed(Top).frames) :
           /\ i \in 1..Len(Top.frames)
           /\ Completed(Top).frames[i].target = Top.frames[i].target
    BY <2>1, <2>2
  <2>4. NeededOnly(Completed(Top))
    BY <2>1, <2>2, <2>3, NeededFrames
  <2> QED
    BY <1>7, <1>11, <2>2, <2>4
<1>12. CASE MainStep
  BY <1>4, <1>5, <1>6, <1>8, <1>9, <1>10, <1>11, <1>12 DEF MainStep, Succeed, Calls, InFrame
<1> QED
  BY <1>3, <1>12, StepsOfMain

-----------------------------------------------------------------------------
(* The refinement of BuildOrder                                            *)

\* The body of a scope, of which MainBody is main's.
BodyOf(s) == IF TargetsIn(s, {"tasks"}) # {} THEN Last(s.frames).target ELSE Missing

LEMMA BodyInTasks ==
  ASSUME NEW d, NEW s \in Scope, LoopsInStep(d, s)
  PROVE  /\ InFrame(s, "tasks") => BodyOf(s) = Here(s).target
         /\ ~InFrame(s, "tasks") => BodyOf(s) = Missing
<1>1. CASE InFrame(s, "tasks")
  <2>1. Here(s) = s.frames[Len(s.frames)] /\ Len(s.frames) \in DOMAIN s.frames
    BY <1>1, HereType, FrameType DEF InFrame
  <2>2. Here(s).target \in TargetsIn(s, {"tasks"})
    BY <1>1, <2>1 DEF InFrame, TargetsIn
  <2> QED
    BY <1>1, <2>2 DEF BodyOf, Here
<1>2. CASE ~InFrame(s, "tasks")
  <2>1. s.frames # <<>> => Here(s).phase = "depends"
    BY <1>2, HereType DEF InFrame
  <2>2. \A i \in 1..Len(s.frames) : s.frames[i].phase = "depends"
    BY <2>1, AllInDepends
  <2>3. TargetsIn(s, {"tasks"}) = {}
    BY <2>2, FrameType DEF TargetsIn
  <2> QED
    BY <1>2, <2>3 DEF BodyOf
<1> QED
  BY <1>1, <1>2

\* The mapping, where main's scope is s.
LEMMA MainMaps ==
  /\ scopes = <<>> => MainDone = {} /\ MainBody = Missing
  /\ scopes # <<>> => MainDone = scopes[1].completed /\ MainBody = BodyOf(scopes[1])
  BY DEF MainDone, MainBody, BodyOf

LEMMA MainMapsNext ==
  /\ scopes' = <<>> => MainDone' = {} /\ MainBody' = Missing
  /\ scopes' # <<>> => MainDone' = scopes'[1].completed /\ MainBody' = BodyOf(scopes'[1])
  BY DEF MainDone, MainBody, BodyOf, TargetsIn, Last

LEMMA VerdictMaps ==
  /\ outcome \in {"lookup", "running"} => MainVerdict = "running"
  /\ outcome = "success" => MainVerdict = "success"
  /\ outcome \in Ended \ {"success"} => MainVerdict = "failure"
  BY DEF MainVerdict, Ended, Failures

LEMMA VerdictMapsNext ==
  /\ outcome' \in {"lookup", "running"} => MainVerdict' = "running"
  /\ outcome' = "success" => MainVerdict' = "success"
  /\ outcome' \in Ended \ {"success"} => MainVerdict' = "failure"
  BY DEF MainVerdict, Ended, Failures

LEMMA InitMaps == Init => Order!Init
  BY MainMaps, VerdictMaps DEF Init, Order!Init

\* What stays the same under the mapping.
LEMMA MappedStutter ==
  ASSUME build' = build, MainDone' = MainDone, MainBody' = MainBody, MainVerdict' = MainVerdict
  PROVE  UNCHANGED Order!vars
  BY DEF Order!vars, Wanted

\* Of what main's scope may become, what the mapping shows.
LEMMA MovesMap ==
  ASSUME IInv, NEW s \in Scope, MainMoves(s)
  PROVE  /\ Top \in Scope /\ ScopeInv(build.depends, Top) /\ LoopsInStep(build.depends, Top)
         /\ MainDone = Top.completed /\ MainBody = BodyOf(Top)
         /\ MainDone' = s.completed /\ MainBody' = BodyOf(s)
         /\ MainVerdict = "running" /\ MainVerdict' = "running"
         /\ build' = build /\ scopes' # <<>>
<1>1. /\ Running /\ scopes # <<>> /\ scopes[1] = Top /\ scopes' # <<>> /\ scopes'[1] = s
      /\ build' = build /\ outcome' = outcome /\ outcome = "running"
  BY DEF MainMoves, Running
<1>2. Top \in Scope /\ ScopeInv(build.depends, Top) /\ LoopsInStep(build.depends, Top)
  BY <1>1, TopType DEF ScopeInv
<1>3. MainVerdict = "running" /\ MainVerdict' = "running"
  BY <1>1, VerdictMaps, VerdictMapsNext
<1> QED
  BY <1>1, <1>2, <1>3, MainMaps, MainMapsNext

LEMMA AdvancedBody ==
  ASSUME NEW s \in Scope, s.frames = <<>> => s.goals # <<>>
  PROVE  InFrame(Advanced(s), "tasks") <=> InFrame(s, "tasks")
<1>1. Advanced(s) \in Scope /\ Len(Advanced(s).frames) = Len(s.frames)
  BY AdvancedType
<1>2. CASE s.frames = <<>>
  BY <1>1, <1>2, FrameType DEF InFrame
<1>3. CASE s.frames # <<>>
  <2>1. Len(s.frames) \in 1..Len(s.frames) /\ Advanced(s).frames # <<>>
    BY <1>1, <1>3, FrameType
  <2>2. Advanced(s).frames[Len(s.frames)].phase = s.frames[Len(s.frames)].phase
    BY <2>1, AdvancedFrames
  <2> QED
    BY <1>1, <1>3, <2>1, <2>2, HereType DEF InFrame
<1> QED
  BY <1>2, <1>3

LEMMA AdvancedHere ==
  ASSUME NEW s \in Scope, s.frames # <<>>
  PROVE  Here(Advanced(s)).target = Here(s).target
<1>1. Advanced(s) \in Scope /\ Len(Advanced(s).frames) = Len(s.frames)
      /\ Advanced(s).frames # <<>>
  BY AdvancedType
<1>2. Len(s.frames) \in 1..Len(s.frames)
  BY FrameType
<1> QED
  BY <1>1, <1>2, AdvancedFrames, HereType

\* Moving a list pointer on is not visible in BuildOrder.
LEMMA AdvancedMaps ==
  ASSUME IInv, MainMoves(Advanced(Top)), Top.frames = <<>> => Top.goals # <<>>,
         ScopeInv(build.depends, Advanced(Top))
  PROVE  UNCHANGED Order!vars
<1>1. Top \in Scope
  BY TopType DEF MainMoves
<1>2. Advanced(Top) \in Scope /\ Advanced(Top).completed = Top.completed
  BY <1>1, AdvancedType
<1>3. LoopsInStep(build.depends, Advanced(Top)) /\ LoopsInStep(build.depends, Top)
  BY TopType DEF MainMoves, ScopeInv
<1>4. BodyOf(Advanced(Top)) = BodyOf(Top)
  <2>1. CASE InFrame(Top, "tasks")
    <3>1. Here(Advanced(Top)).target = Here(Top).target
      BY <1>1, <2>1, AdvancedHere DEF InFrame
    <3> QED
      BY <1>1, <1>2, <1>3, <2>1, <3>1, AdvancedBody, BodyInTasks
  <2>2. CASE ~InFrame(Top, "tasks")
    BY <1>1, <1>2, <1>3, <2>2, AdvancedBody, BodyInTasks
  <2> QED
    BY <2>1, <2>2
<1> QED
  BY <1>2, <1>4, MovesMap, MappedStutter

\* Entering a dependency is not visible either: no body runs before or after.
LEMMA EnteredMaps ==
  ASSUME IInv, NEW t \in Targets, Calls(build.depends, Top, t), MainMoves(Entered(Top, t)),
         t \notin Top.completed, t \notin Top.context
  PROVE  UNCHANGED Order!vars
<1> DEFINE r == Entered(Top, t)
<1>1. Top \in Scope /\ ScopeInv(build.depends, Top) /\ build.depends \in Graphs
      /\ LoopsInStep(build.depends, Top)
  BY TopType DEF MainMoves, ScopeInv
<1>2. ScopeInv(build.depends, r) /\ r \in Scope
  BY <1>1, EnteredInv
<1>3. /\ r.completed = Top.completed /\ Len(r.frames) = Len(Top.frames) + 1
      /\ r.frames[Len(Top.frames) + 1] = [target |-> t, phase |-> "depends", next |-> 1]
      /\ r.frames # <<>>
  BY <1>1, EnteredType DEF Calls, InFrame
<1>4. ~InFrame(Top, "tasks")
  BY DEF Calls, InFrame
<1> HIDE DEF r
<1>5. ~InFrame(r, "tasks")
  BY <1>2, <1>3, HereType DEF InFrame
<1>6. BodyOf(r) = Missing /\ BodyOf(Top) = Missing
  BY <1>1, <1>2, <1>4, <1>5, BodyInTasks DEF ScopeInv
<1> QED
  BY <1>2, <1>3, <1>6, MovesMap, MappedStutter DEF r

\* The end of a dependency loop begins the body of its target ...
LEMMA StartedMaps ==
  ASSUME IInv, OnlyNeeded, InFrame(Top, "depends"), MainMoves(Started(Top)),
         ScopeInv(build.depends, Started(Top))
  PROVE  Order!Next
<1> DEFINE r == Started(Top)
           t == Here(Top).target
           n == Len(Top.frames)
<1>1. /\ Top \in Scope /\ Top.frames # <<>> /\ ~InFrame(Top, "tasks")
      /\ ScopeInv(build.depends, Top)
  BY TopType DEF MainMoves, InFrame
<1>2. /\ r \in Scope /\ r.completed = Top.completed /\ Len(r.frames) = n
      /\ r.frames # <<>>
      /\ r.frames[n] = [target |-> t, phase |-> "tasks", next |-> 1]
  BY <1>1, StartedType
<1>3. t \in Targets /\ t = Top.frames[n].target /\ n \in DOMAIN Top.frames
      /\ n \in DOMAIN r.frames
  BY <1>1, <1>2, HereType, FrameType
<1>4. Here(r).target = t /\ InFrame(r, "tasks")
  BY <1>2, HereType DEF InFrame
<1>5. BodyOf(Top) = Missing /\ BodyOf(r) = t
  BY <1>1, <1>2, <1>4, BodyInTasks DEF ScopeInv
<1>6. t \notin Top.completed
  BY <1>1, <1>3 DEF ScopeInv, ActiveOnce
<1>7. Range(build.depends[t]) \subseteq Top.completed
  <2>1. t \in TargetsIn(r, {"tasks"})
    BY <1>2, <1>3 DEF TargetsIn
  <2> QED
    BY <1>2, <2>1 DEF ScopeInv, BodiesInOrder, DependsOf
<1>8. Order!Needed(t)
  BY <1>3 DEF OnlyNeeded, MainMoves
<1> HIDE DEF r, t
<1>9. /\ MainDone = Top.completed /\ MainBody = Missing
      /\ MainDone' = Top.completed /\ MainBody' = t
      /\ MainVerdict = "running" /\ MainVerdict' = "running" /\ build' = build
  BY <1>2, <1>5, MovesMap DEF r
<1>10. Order!Begin(t)
  BY <1>6, <1>7, <1>8, <1>9 DEF Order!Begin, Order!Range, Range, Wanted
<1> QED
  BY <1>3, <1>10 DEF Order!Next

\* ... and the end of a task loop ends it.
LEMMA CompletedMaps ==
  ASSUME IInv, InFrame(Top, "tasks"), MainMoves(Completed(Top)),
         ScopeInv(build.depends, Completed(Top))
  PROVE  Order!Next
<1> DEFINE r == Completed(Top)
           t == Here(Top).target
           n == Len(Top.frames)
<1>1. /\ Top \in Scope /\ Top.frames # <<>> /\ n \in Nat \ {0}
      /\ ScopeInv(build.depends, Top)
  BY TopType, HereType DEF MainMoves, InFrame
<1>2. /\ r \in Scope /\ r.completed = Top.completed \cup {t} /\ Len(r.frames) = n - 1
      /\ \A i \in 1..n - 1 : r.frames[i] = Top.frames[i]
  BY <1>1, CompletedType
<1>3. t \in Targets
  BY <1>1, HereType
<1>4. ~InFrame(r, "tasks")
  <2>1. CASE r.frames = <<>>
    BY <2>1 DEF InFrame
  <2>2. CASE r.frames # <<>>
    <3>1. n - 1 \in 1..n - 1 /\ Here(r) = r.frames[n - 1]
      BY <1>1, <1>2, <2>2, HereType
    <3>2. n - 1 \in DOMAIN Top.frames /\ n - 1 # n
      BY <1>1, <3>1, FrameType
    <3>3. Top.frames[n - 1].phase # "tasks"
      BY <1>1, <3>2 DEF ScopeInv, LoopsInStep, LoopInStep
    <3> QED
      BY <1>2, <3>1, <3>3 DEF InFrame
  <2> QED
    BY <2>1, <2>2
<1>5. BodyOf(Top) = t /\ BodyOf(r) = Missing
  BY <1>1, <1>2, <1>4, BodyInTasks DEF ScopeInv
<1> HIDE DEF r, t
<1>6. /\ MainDone = Top.completed /\ MainBody = t
      /\ MainDone' = Top.completed \cup {t} /\ MainBody' = Missing
      /\ MainVerdict = "running" /\ MainVerdict' = "running" /\ build' = build
  BY <1>2, <1>5, MovesMap DEF r
<1>7. t # Missing
  BY <1>3, NamesAssumption
<1>8. Order!Finish
  BY <1>6, <1>7 DEF Order!Finish, Wanted
<1> QED
  BY <1>8 DEF Order!Next

\* Every step is one of BuildOrder's or changes nothing it shows.
LEMMA StepMaps ==
  ASSUME IInv, IInv', OnlyNeeded, [Next]_vars
  PROVE  [Order!Next]_(Order!vars)
<1>1. ASSUME NEW s \in Scope, MainMoves(s)
      PROVE  ScopeInv(build.depends, s)
  <2>1. 1 \in DOMAIN scopes' /\ build' = build /\ scopes'[1] = s
    BY <1>1 DEF MainMoves, IInv, TypeOK
  <2> QED
    BY <2>1 DEF IInv
<1>2. CASE UNCHANGED vars
  <2>1. build' = build /\ scopes' = scopes /\ outcome' = outcome
    BY <1>2 DEF vars
  <2>2. MainDone' = MainDone /\ MainBody' = MainBody /\ MainVerdict' = MainVerdict
    BY <2>1 DEF MainDone, MainBody, MainVerdict, TargetsIn, Last
  <2> QED
    BY <2>1, <2>2, MappedStutter
<1>3. CASE MainStays
  <2>1. MainDone' = MainDone /\ MainBody' = MainBody
    BY <1>3, MainMaps, MainMapsNext DEF MainStays
  <2>2. MainVerdict' = MainVerdict
    BY <1>3 DEF MainStays, MainVerdict
  <2> QED
    BY <1>3, <2>1, <2>2, MappedStutter DEF MainStays
<1>4. ASSUME NEW why \in Ended \ {"success"}, outcome \in {"lookup", "running"}, Stop(why)
      PROVE  Order!Next
  <2>1. build' = build /\ scopes' = scopes /\ outcome' = why
    BY <1>4 DEF Stop
  <2>2. MainVerdict = "running" /\ MainVerdict' = "failure"
    BY <1>4, <2>1, VerdictMaps, VerdictMapsNext
  <2>3. MainDone' = MainDone /\ MainBody' = MainBody
    BY <2>1 DEF MainDone, MainBody, TargetsIn, Last
  <2>4. Order!Fail
    BY <2>1, <2>2, <2>3 DEF Order!Fail, Wanted
  <2> QED
    BY <2>4 DEF Order!Next
<1>5. CASE LookupTargets
  <2>1. CASE Range(Wanted) \subseteq Targets
    <3> DEFINE s == NewScope(Wanted, 0)
    <3>1. /\ scopes = <<>> /\ scopes' = <<s>> /\ build' = build
          /\ outcome = "lookup" /\ outcome' = "running"
      BY <1>5, <2>1 DEF LookupTargets, IInv, TypeOK
    <3>2. s.completed = {} /\ s.frames = <<>>
      BY DEF NewScope
    <3> HIDE DEF s
    <3>3. scopes' # <<>> /\ scopes'[1] = s
      BY <3>1
    <3>4. BodyOf(s) = Missing
      <4>1. TargetsIn(s, {"tasks"}) = {}
        BY <3>2 DEF TargetsIn
      <4> QED
        BY <4>1 DEF BodyOf
    <3>5. MainDone' = MainDone /\ MainBody' = MainBody
      BY <3>1, <3>2, <3>3, <3>4, MainMaps, MainMapsNext
    <3>6. MainVerdict' = MainVerdict
      BY <3>1, VerdictMaps, VerdictMapsNext
    <3> QED
      BY <3>1, <3>5, <3>6, MappedStutter
  <2>2. CASE ~(Range(Wanted) \subseteq Targets)
    <3>1. Stop("unknown target") /\ outcome = "lookup"
      BY <1>5, <2>2 DEF LookupTargets, Stop
    <3> QED
      BY <1>4, <3>1 DEF Ended, Failures
  <2> QED
    BY <2>1, <2>2
<1>6. CASE Succeed
  <2>1. /\ Running /\ Top.frames = <<>> /\ Len(scopes) = 1
        /\ build' = build /\ scopes' = scopes /\ outcome' = "success" /\ outcome = "running"
    BY <1>6 DEF Succeed, ScopeDone, Stop, Running
  <2>2. scopes # <<>> /\ scopes[1] = Top
    BY <2>1, TopType
  <2>3. Range(Wanted) \subseteq scopes[1].completed
    BY <2>1 DEF IInv, SuccessMeansAll, Wanted
  <2>4. BodyOf(Top) = Missing
    <3>1. TargetsIn(Top, {"tasks"}) = {}
      BY <2>1 DEF TargetsIn
    <3> QED
      BY <3>1 DEF BodyOf
  <2>5. /\ MainDone = Top.completed /\ MainBody = Missing
        /\ MainDone' = MainDone /\ MainBody' = MainBody
    BY <2>1, <2>2, <2>4, MainMaps, MainMapsNext
  <2>6. MainVerdict = "running" /\ MainVerdict' = "success"
    BY <2>1, VerdictMaps, VerdictMapsNext
  <2>7. Order!Succeed
    BY <2>1, <2>2, <2>3, <2>5, <2>6 DEF Order!Succeed, Order!Range, Range, Wanted
  <2> QED
    BY <2>7 DEF Order!Next
<1>7. ASSUME NEW s, MainMoves(s)
      PROVE  Top \in Scope /\ LoopsInStep(build.depends, Top) /\ build.depends \in Graphs
             /\ ScopeInv(build.depends, Top)
  BY <1>7, TopType DEF MainMoves, ScopeInv
<1>8. ASSUME MainMoves(Advanced(Top)), Top.frames = <<>> => Top.goals # <<>>
      PROVE  UNCHANGED Order!vars
  <2>1. Advanced(Top) \in Scope
    BY <1>7, <1>8, AdvancedType
  <2> QED
    BY <1>1, <1>8, <2>1, AdvancedMaps
<1>9. ASSUME NEW t \in Targets, Calls(build.depends, Top, t), t \notin Top.completed,
             t \notin Top.context, MainMoves(Entered(Top, t))
      PROVE  UNCHANGED Order!vars
  BY <1>9, EnteredMaps
<1>10. CASE InFrame(Top, "depends") /\ MainMoves(Started(Top))
  <2>1. Started(Top) \in Scope
    BY <1>7, <1>10, StartedType DEF InFrame
  <2> QED
    BY <1>1, <1>10, <2>1, StartedMaps
<1>11. CASE InFrame(Top, "tasks") /\ MainMoves(Completed(Top))
  <2>1. Completed(Top) \in Scope
    BY <1>7, <1>11, CompletedType DEF InFrame
  <2> QED
    BY <1>1, <1>11, <2>1, CompletedMaps
<1>12. CASE MainStep
  BY <1>3, <1>4, <1>5, <1>6, <1>8, <1>9, <1>10, <1>11, <1>12 DEF MainStep, Calls, InFrame
<1> QED
  BY <1>2, <1>12, StepsOfMain

\* Target execution, with its recursion, its two tables and its antcalls,
\* does only what BuildOrder allows: main's bodies run one at a time, each
\* once, after its dependencies and only when it is needed, and success is
\* reported when every wanted target is done.
THEOREM RefinesBuildOrder == Spec => ImplementsBuildOrder
<1>1. Init => OnlyNeeded
  BY DEF Init, OnlyNeeded
<1>2. IInv /\ OnlyNeeded /\ [Next]_vars => OnlyNeeded'
  BY NeededStep
<1>3. IInv /\ IInv' /\ OnlyNeeded /\ [Next]_vars => [Order!Next]_(Order!vars)
  BY StepMaps
<1> QED
  BY <1>1, <1>2, <1>3, InitMaps, Inductive, PTL DEF Spec, ImplementsBuildOrder, Order!Spec

-----------------------------------------------------------------------------
(* The stack of scopes                                                     *)

LEMMA ReachesSelf ==
  ASSUME NEW u
  PROVE  Reaches(u, u)
  BY DEF Reaches

LEMMA ReachesTrans ==
  ASSUME NEW u, NEW v, NEW t, Reaches(u, v), Reaches(v, t)
  PROVE  Reaches(u, t)
  BY DEF Reaches

LEMMA ReachesStep ==
  ASSUME NEW u, NEW v, NEW t \in Activates(v), Reaches(u, v)
  PROVE  Reaches(u, t)
  BY DEF Reaches

LEMMA BelowReaches ==
  ASSUME NEW u, NEW t, Below(build.depends, u, t)
  PROVE  Reaches(u, t)
  BY DEF Below, Reaches, Closed, Activates

\* In one scope every activation reaches those above it.
LEMMA FramesReach ==
  ASSUME NEW s \in Scope, FramesArePath(build.depends, s),
         NEW i \in DOMAIN s.frames, NEW j \in DOMAIN s.frames, i <= j
  PROVE  Reaches(s.frames[i].target, s.frames[j].target)
<1>1. i \in Nat /\ j \in Nat
  BY FrameType
<1>2. CASE i = j
  BY <1>2, ReachesSelf
<1>3. CASE i < j
  <2>1. Below(build.depends, s.frames[i].target, s.frames[j].target)
    BY <1>3 DEF FramesArePath
  <2> QED
    BY <2>1, BelowReaches
<1> QED
  BY <1>1, <1>2, <1>3

\* StackInv, of any stack of scopes.
Opened(q) ==
    \A k, l \in DOMAIN q : k < l =>
        /\ InFrame(q[k], "tasks")
        /\ Depth(q[k]) <= q[l].base
        /\ \A x \in Asked(q[l]) :
              \E w \in Called(Here(q[k]).target) : Reaches(w, x)

Counted(q) ==
    q # <<>> =>
        \A d \in 1..Depth(Last(q)) :
            \E k \in DOMAIN q : \E i \in DOMAIN q[k].frames : d = q[k].base + i

LEMMA StackIs == StackInv <=> Opened(scopes) /\ Counted(scopes)
  BY DEF StackInv, Opened, Counted, Top

LEMMA StackIsNext ==
  ASSUME build' = build
  PROVE  StackInv' <=> Opened(scopes') /\ Counted(scopes')
  BY DEF StackInv, Opened, Counted, Top, Called, Reaches, Activates, Asked, InFrame, Depth,
         Here, TargetsIn, Last, Range, DependsOf

LEMMA DepthType ==
  ASSUME NEW s \in Scope
  PROVE  s.base \in Nat /\ Depth(s) \in Nat /\ Depth(s) = s.base + Len(s.frames)
  BY FrameType DEF Depth, Scope

LEMMA BeforeLast ==
  ASSUME NEW n \in Nat, NEW k \in 1..n, k # n
  PROVE  k \in 1..n - 1
  OBVIOUS

LEMMA BelowLast ==
  ASSUME NEW n \in Nat, NEW k \in 1..n, NEW l \in 1..n, k < l
  PROVE  k # n
  OBVIOUS

\* A step of the innermost scope, which asks for nothing that was not asked
\* for or activated from there.
LEMMA StackMoves ==
  ASSUME NEW q \in Seq(Scope), NEW r \in Seq(Scope), q # <<>>, Len(r) = Len(q),
         \A k \in 1..Len(q) - 1 : r[k] = q[k],
         r[Len(q)].base = q[Len(q)].base,
         \A x \in Asked(r[Len(q)]) :
            \/ x \in Asked(q[Len(q)])
            \/ \E u \in Asked(q[Len(q)]) : x \in Activates(u),
         Opened(q), Counted(q)
  PROVE  Opened(r) /\ Counted(r)
<1> DEFINE n == Len(q)
<1>1. n \in Nat \ {0} /\ DOMAIN q = 1..n /\ DOMAIN r = 1..n /\ r # <<>>
      /\ r[n] \in Scope /\ q[n] \in Scope
  OBVIOUS
<1>5. ASSUME NEW k \in 1..n, k # n
      PROVE  r[k] = q[k]
  <2>1. n \in Nat
    BY <1>1
  <2>2. k \in 1..n - 1
    BY <1>5, <2>1, BeforeLast
  <2> QED
    BY <2>2
<1>2. ASSUME NEW k \in 1..n, NEW l \in 1..n, k < l
      PROVE  /\ InFrame(r[k], "tasks")
             /\ Depth(r[k]) <= r[l].base
             /\ \A x \in Asked(r[l]) : \E w \in Called(Here(r[k]).target) : Reaches(w, x)
  <2>1. /\ InFrame(q[k], "tasks")
        /\ Depth(q[k]) <= q[l].base
        /\ \A x \in Asked(q[l]) : \E w \in Called(Here(q[k]).target) : Reaches(w, x)
    BY <1>1, <1>2 DEF Opened
  <2>2. r[k] = q[k] /\ r[l].base = q[l].base
    <3>1. k # n
      BY <1>1, <1>2, BelowLast
    <3>2. l = n \/ r[l] = q[l]
      BY <1>5
    <3> QED
      BY <1>5, <3>1, <3>2
  <2>3. ASSUME NEW x \in Asked(r[l])
        PROVE  \E w \in Called(Here(q[k]).target) : Reaches(w, x)
    <3>1. CASE x \in Asked(q[l])
      BY <2>1, <3>1
    <3>2. CASE x \notin Asked(q[l])
      <4>1. PICK u \in Asked(q[l]) : x \in Activates(u)
        <5>1. l # n => r[l] = q[l]
          BY <1>5
        <5>2. l = n
          BY <2>3, <3>2, <5>1
        <5> QED
          BY <2>3, <3>2, <5>2
      <4>2. PICK w \in Called(Here(q[k]).target) : Reaches(w, u)
        BY <2>1
      <4> QED
        BY <4>1, <4>2, ReachesStep
    <3> QED
      BY <3>1, <3>2
  <2> QED
    BY <2>1, <2>2, <2>3
<1>3. Opened(r)
  BY <1>1, <1>2 DEF Opened
<1>4. ASSUME NEW d \in 1..Depth(Last(r))
      PROVE  \E k \in DOMAIN r : \E i \in DOMAIN r[k].frames : d = r[k].base + i
  <2>1. Last(r) = r[n] /\ Last(q) = q[n]
    BY <1>1 DEF Last
  <2>2. /\ r[n].base \in Nat /\ Depth(r[n]) = r[n].base + Len(r[n].frames)
        /\ q[n].base \in Nat /\ Depth(q[n]) = q[n].base + Len(q[n].frames)
        /\ Len(r[n].frames) \in Nat /\ Len(q[n].frames) \in Nat
        /\ DOMAIN r[n].frames = 1..Len(r[n].frames)
        /\ DOMAIN q[n].frames = 1..Len(q[n].frames)
    BY <1>1, DepthType, FrameType
  <2>3. CASE d > r[n].base
    <3>1. d - r[n].base \in DOMAIN r[n].frames /\ d = r[n].base + (d - r[n].base)
      BY <2>1, <2>2, <2>3
    <3> QED
      BY <1>1, <3>1
  <2>4. CASE d <= r[n].base
    <3>1. d \in 1..Depth(q[n])
      BY <2>1, <2>2, <2>4
    <3>2. PICK k \in DOMAIN q : \E i \in DOMAIN q[k].frames : d = q[k].base + i
      BY <2>1, <3>1 DEF Counted
    <3>3. PICK i \in DOMAIN q[k].frames : d = q[k].base + i
      BY <3>2
    <3>4. k # n
      BY <2>2, <2>4, <3>3
    <3>5. r[k] = q[k]
      BY <1>1, <1>5, <3>4
    <3> QED
      BY <1>1, <3>3, <3>5
  <2> QED
    BY <2>2, <2>3, <2>4
<1> QED
  BY <1>3, <1>4 DEF Counted

LEMMA LastOrBefore == \A n \in Nat : \A k \in 1..n : k = n \/ k < n
  OBVIOUS

\* An antcall in the innermost scope opens a new one.
LEMMA StackPush ==
  ASSUME NEW q \in Seq(Scope), q # <<>>, NEW s \in Scope, s.frames = <<>>,
         s.base = Depth(Last(q)), InFrame(Last(q), "tasks"),
         \A x \in Asked(s) : x \in Called(Here(Last(q)).target),
         Opened(q), Counted(q)
  PROVE  Opened(Append(q, s)) /\ Counted(Append(q, s))
<1> DEFINE n == Len(q)
           r == Append(q, s)
<1>1. /\ n \in Nat \ {0} /\ DOMAIN q = 1..n /\ r \in Seq(Scope) /\ DOMAIN r = 1..n + 1
      /\ r # <<>> /\ r[n + 1] = s /\ Len(r) = n + 1
      /\ \A k \in 1..n : r[k] = q[k]
      /\ q[n] \in Scope
  OBVIOUS
<1>2. Last(q) = q[n] /\ Last(r) = s
  BY <1>1 DEF Last
<1> HIDE DEF r
<1>3. ASSUME NEW k \in 1..n
      PROVE  /\ InFrame(q[k], "tasks")
             /\ Depth(q[k]) <= s.base
             /\ \A x \in Asked(s) : \E w \in Called(Here(q[k]).target) : Reaches(w, x)
  <2>1. CASE k = n
    <3>1. Depth(q[n]) \in Nat
      BY <1>1, DepthType
    <3> QED
      BY <1>2, <2>1, <3>1, ReachesSelf
  <2>2. CASE k < n
    <3>1. /\ InFrame(q[k], "tasks")
          /\ Depth(q[k]) <= q[n].base
          /\ \A x \in Asked(q[n]) : \E w \in Called(Here(q[k]).target) : Reaches(w, x)
      BY <1>1, <2>2 DEF Opened
    <3>2. q[k] \in Scope
      BY <1>1
    <3>3. Depth(q[k]) <= s.base
      <4>1. /\ Depth(q[k]) \in Nat /\ q[n].base \in Nat /\ Len(q[n].frames) \in Nat
            /\ s.base = q[n].base + Len(q[n].frames)
        BY <1>1, <1>2, <3>2, DepthType, FrameType
      <4> QED
        BY <3>1, <4>1
    <3>4. Here(q[n]).target \in Asked(q[n])
      <4>1. n \in 1..n /\ q[n].frames # <<>>
        BY <1>1, <1>2 DEF InFrame
      <4>2. /\ Here(q[n]) = q[n].frames[Len(q[n].frames)]
            /\ Here(q[n]).phase \in {"depends", "tasks"}
            /\ Len(q[n].frames) \in DOMAIN q[n].frames
        BY <1>1, <4>1, HereType, FrameType
      <4> QED
        BY <4>2 DEF Asked, TargetsIn
    <3>5. PICK w \in Called(Here(q[k]).target) : Reaches(w, Here(q[n]).target)
      BY <3>1, <3>4
    <3>6. \A x \in Asked(s) : Reaches(w, x)
      BY <1>2, <3>5, ReachesStep DEF Activates
    <3> QED
      BY <3>1, <3>3, <3>6
  <2>3. n \in Nat
    BY <1>1
  <2>4. k = n \/ k < n
    BY <2>3, LastOrBefore
  <2> QED
    BY <2>1, <2>2, <2>4
<1>4. Opened(r)
  <2> SUFFICES ASSUME NEW k \in 1..n + 1, NEW l \in 1..n + 1, k < l
               PROVE  /\ InFrame(r[k], "tasks")
                      /\ Depth(r[k]) <= r[l].base
                      /\ \A x \in Asked(r[l]) :
                            \E w \in Called(Here(r[k]).target) : Reaches(w, x)
    BY <1>1 DEF Opened
  <2>1. CASE l = n + 1
    <3>1. k \in 1..n /\ r[k] = q[k] /\ r[l] = s
      BY <1>1, <2>1
    <3> QED
      BY <1>3, <3>1
  <2>2. CASE l # n + 1
    <3>1. k \in DOMAIN q /\ l \in DOMAIN q /\ r[k] = q[k] /\ r[l] = q[l]
      BY <1>1, <2>2
    <3> QED
      BY <3>1 DEF Opened
  <2> QED
    BY <2>1, <2>2
<1>5. Counted(r)
  <2>1. Depth(s) = Depth(Last(q))
    <3>1. Depth(s) = s.base + 0 /\ s.base \in Nat
      BY DepthType, FrameType
    <3> QED
      BY <3>1
  <2> SUFFICES ASSUME NEW d \in 1..Depth(Last(q))
               PROVE  \E k \in DOMAIN r : \E i \in DOMAIN r[k].frames : d = r[k].base + i
    BY <1>2, <2>1 DEF Counted
  <2>2. PICK k \in DOMAIN q : \E i \in DOMAIN q[k].frames : d = q[k].base + i
    BY DEF Counted
  <2>3. k \in DOMAIN r /\ r[k] = q[k]
    BY <1>1
  <2> QED
    BY <2>2, <2>3
<1> QED
  BY <1>4, <1>5 DEF r

\* The innermost scope is done.
LEMMA StackPop ==
  ASSUME NEW q \in Seq(Scope), Len(q) > 1, Opened(q), Counted(q)
  PROVE  Opened(Front(q)) /\ Counted(Front(q))
<1> DEFINE n == Len(q)
           r == Front(q)
<1>1. n \in Nat \ {0} /\ n > 1 /\ q # <<>> /\ DOMAIN q = 1..n /\ q[n] \in Scope
      /\ q[n - 1] \in Scope
  OBVIOUS
<1>2. /\ r \in Seq(Scope) /\ Len(r) = n - 1
      /\ \A k \in 1..n - 1 : r[k] = q[k]
  BY <1>1, DropLast
<1> HIDE DEF r
<1>3. DOMAIN r = 1..n - 1 /\ Last(r) = q[n - 1] /\ Last(q) = q[n]
  BY <1>1, <1>2 DEF Last
<1>4. Opened(r)
  <2> SUFFICES ASSUME NEW k \in 1..n - 1, NEW l \in 1..n - 1, k < l
               PROVE  /\ InFrame(r[k], "tasks")
                      /\ Depth(r[k]) <= r[l].base
                      /\ \A x \in Asked(r[l]) :
                            \E w \in Called(Here(r[k]).target) : Reaches(w, x)
    BY <1>3 DEF Opened
  <2>1. k \in DOMAIN q /\ l \in DOMAIN q /\ r[k] = q[k] /\ r[l] = q[l]
    BY <1>1, <1>2
  <2> QED
    BY <2>1 DEF Opened
<1>5. Counted(r)
  <2> SUFFICES ASSUME NEW d \in 1..Depth(q[n - 1])
               PROVE  \E k \in DOMAIN r : \E i \in DOMAIN r[k].frames : d = r[k].base + i
    BY <1>3 DEF Counted
  <2>1. Depth(q[n - 1]) <= q[n].base
    BY <1>1 DEF Opened
  <2>2. /\ Depth(q[n - 1]) \in Nat /\ q[n].base \in Nat /\ Len(q[n].frames) \in Nat
        /\ Depth(q[n]) = q[n].base + Len(q[n].frames)
        /\ DOMAIN q[n].frames = 1..Len(q[n].frames)
    BY <1>1, DepthType, FrameType
  <2>3. d \in 1..Depth(q[n])
    BY <2>1, <2>2
  <2>4. PICK k \in DOMAIN q : \E i \in DOMAIN q[k].frames : d = q[k].base + i
    BY <1>1, <1>3, <2>3 DEF Counted
  <2>5. k # n
    BY <2>1, <2>2, <2>4
  <2>6. k \in DOMAIN r /\ r[k] = q[k]
    BY <1>1, <1>2, <1>3, <2>5
  <2> QED
    BY <2>4, <2>6
<1> QED
  BY <1>4, <1>5 DEF r

\* What moving on, calling, starting and completing do to what a scope is
\* asked to run.
LEMMA AdvancedAsked ==
  ASSUME NEW s \in Scope, s.frames = <<>> => s.goals # <<>>
  PROVE  Asked(Advanced(s)) \subseteq Asked(s)
<1>1. TargetsIn(Advanced(s), {"depends", "tasks"}) = TargetsIn(s, {"depends", "tasks"})
  <2>1. /\ Advanced(s) \in Scope /\ Len(Advanced(s).frames) = Len(s.frames)
        /\ \A i \in 1..Len(s.frames) : Advanced(s).frames[i].target = s.frames[i].target
    BY AdvancedType, AdvancedFrames
  <2> QED
    BY <2>1, SameTargets
<1> QED
  BY <1>1, AdvancedGoals DEF Asked

LEMMA CallAsked ==
  ASSUME NEW s \in Scope, NEW t, build.depends \in Graphs, Calls(build.depends, s, t),
         LoopsInStep(build.depends, s)
  PROVE  t \in Asked(s) \/ \E u \in Asked(s) : t \in Activates(u)
<1>1. CASE s.frames = <<>>
  <2>1. t = Head(s.goals) /\ s.goals # <<>> /\ s.goals \in Seq(Targets)
    BY <1>1, KnownFrames DEF Calls, InFrame
  <2>2. t \in Range(s.goals)
    BY <2>1 DEF Range
  <2> QED
    BY <2>2 DEF Asked
<1>2. CASE s.frames # <<>>
  <2>1. t \in DependsOf(build.depends, Here(s).target)
    BY <1>2, CallerInDepends
  <2>2. Here(s).target \in Asked(s)
    BY <1>2, HereType, KnownFrames DEF Asked
  <2> QED
    BY <2>1, <2>2 DEF Activates
<1> QED
  BY <1>1, <1>2

LEMMA EnteredAsked ==
  ASSUME NEW s \in Scope, NEW t \in Targets, s.frames = <<>> => s.goals # <<>>
  PROVE  Asked(Entered(s, t)) \subseteq Asked(s) \cup {t}
<1> DEFINE r == Entered(s, t)
           n == Len(s.frames)
<1>1. /\ r \in Scope /\ r.goals = Advanced(s).goals /\ Len(r.frames) = n + 1 /\ n \in Nat
      /\ \A i \in 1..n : r.frames[i].target = s.frames[i].target
      /\ r.frames[n + 1].target = t
  <2>1. \A i \in 1..n : r.frames[i].target = s.frames[i].target
    BY EnteredFrames
  <2>2. r.frames[n + 1].target = t
    BY EnteredFrames
  <2> QED
    BY <2>1, <2>2, EnteredType, FrameType
<1> HIDE DEF r
<1>2. TargetsIn(r, {"depends", "tasks"}) \subseteq TargetsIn(s, {"depends", "tasks"}) \cup {t}
  <2>1. /\ TargetsIn(r, {"depends", "tasks"}) = {r.frames[i].target : i \in 1..n + 1}
        /\ TargetsIn(s, {"depends", "tasks"}) = {s.frames[i].target : i \in 1..n}
    BY <1>1, KnownFrames
  <2> QED
    BY SMTT(30), <1>1, <2>1
<1> QED
  BY <1>1, <1>2, AdvancedGoals DEF Asked, r

LEMMA StartedAsked ==
  ASSUME NEW s \in Scope, s.frames # <<>>
  PROVE  Asked(Started(s)) = Asked(s)
<1>1. /\ Started(s) \in Scope /\ Started(s).goals = s.goals
      /\ Len(Started(s).frames) = Len(s.frames)
      /\ \A i \in 1..Len(s.frames) : Started(s).frames[i].target = s.frames[i].target
  BY StartedType, StartedFrames
<1>2. TargetsIn(Started(s), {"depends", "tasks"}) = TargetsIn(s, {"depends", "tasks"})
  BY <1>1, SameTargets
<1> QED
  BY <1>1, <1>2 DEF Asked

LEMMA CompletedAsked ==
  ASSUME NEW s \in Scope, s.frames # <<>>
  PROVE  Asked(Completed(s)) \subseteq Asked(s)
<1> DEFINE r == Completed(s)
           n == Len(s.frames)
<1>1. /\ r \in Scope /\ r.goals = s.goals /\ Len(r.frames) = n - 1 /\ n \in Nat \ {0}
      /\ \A i \in 1..n - 1 : r.frames[i] = s.frames[i]
  BY CompletedType, HereType
<1> HIDE DEF r
<1>2. TargetsIn(r, {"depends", "tasks"}) \subseteq TargetsIn(s, {"depends", "tasks"})
  <2>1. /\ TargetsIn(r, {"depends", "tasks"}) = {r.frames[i].target : i \in 1..n - 1}
        /\ TargetsIn(s, {"depends", "tasks"}) = {s.frames[i].target : i \in 1..n}
    BY <1>1, KnownFrames
  <2> QED
    BY <1>1, <2>1
<1> QED
  BY <1>1, <1>2 DEF Asked, r

\* The innermost scope moves from Top to s.
LEMMA StackContinue ==
  ASSUME IInv, StackInv, Running, NEW s \in Scope, Continue(s), s.base = Top.base,
         \A x \in Asked(s) : \/ x \in Asked(Top)
                             \/ \E u \in Asked(Top) : x \in Activates(u)
  PROVE  StackInv'
<1> DEFINE r == [scopes EXCEPT ![Len(scopes)] = s]
<1>1. /\ scopes \in Seq(Scope) /\ scopes # <<>> /\ Top = scopes[Len(scopes)]
      /\ scopes' = r /\ build' = build
  BY TopType DEF Continue
<1>2. /\ r \in Seq(Scope) /\ Len(r) = Len(scopes) /\ r[Len(scopes)] = s
      /\ \A k \in 1..Len(scopes) - 1 : r[k] = scopes[k]
  BY <1>1, ReplaceLast
<1> HIDE DEF r
<1>3. Opened(scopes) /\ Counted(scopes)
  BY StackIs
<1>4. Opened(r) /\ Counted(r)
  BY <1>1, <1>2, <1>3, StackMoves
<1> QED
  BY <1>1, <1>4, StackIsNext

LEMMA StackAntcall ==
  ASSUME IInv, StackInv, NEW t \in Targets, Antcall(t)
  PROVE  StackInv'
<1> DEFINE a == Advanced(Top)
           new == NewScope(<<t>>, Depth(Top))
           r == [scopes EXCEPT ![Len(scopes)] = a]
<1>1. /\ Running /\ InFrame(Top, "tasks") /\ scopes' = Append(r, new) /\ build' = build
      /\ Here(Top).next <= Len(build.tasks[Here(Top).target])
      /\ t = build.tasks[Here(Top).target][Here(Top).next]
  BY DEF Antcall, Task
<1>2. /\ scopes \in Seq(Scope) /\ scopes # <<>> /\ Top = scopes[Len(scopes)]
      /\ Top \in Scope /\ build \in Build /\ ScopeInv(build.depends, Top)
  BY <1>1, TopType
<1>3. Top.frames # <<>>
  BY <1>1 DEF InFrame
<1>4. t \in Called(Here(Top).target)
  <2>1. /\ Here(Top).target \in Targets /\ Here(Top).next \in Nat \ {0}
        /\ build.tasks \in [Targets -> Seq(Names \cup {Plain})]
    BY <1>2, <1>3, HereType DEF Build
  <2>2. Here(Top).next \in DOMAIN build.tasks[Here(Top).target]
    BY <1>1, <2>1
  <2> QED
    BY <1>1, <2>2 DEF Called, Range
<1>5. /\ a \in Scope /\ a.base = Top.base /\ Len(a.frames) = Len(Top.frames)
      /\ a.frames # <<>>
      /\ a.frames[Len(Top.frames)] = [Here(Top) EXCEPT !.next = @ + 1]
  BY <1>2, <1>3, AdvancedType
<1>6. Asked(a) \subseteq Asked(Top)
  BY <1>2, <1>3, AdvancedAsked
<1>7. /\ InFrame(a, "tasks") /\ Here(a).target = Here(Top).target /\ Depth(a) = Depth(Top)
  <2>1. Here(a) = [Here(Top) EXCEPT !.next = @ + 1]
    BY <1>5, HereType
  <2>2. Here(Top) \in Frame /\ Here(Top).phase = "tasks"
    BY <1>1, <1>2, <1>3, HereType DEF InFrame
  <2>3. Here(a).target = Here(Top).target /\ Here(a).phase = "tasks"
    BY <2>1, <2>2 DEF Frame
  <2> QED
    BY <1>5, <2>3 DEF InFrame, Depth
<1>8. new \in Scope /\ new.frames = <<>> /\ new.base = Depth(Top) /\ new.goals = <<t>>
  <2>1. Depth(Top) \in Nat
    BY <1>2, DepthType
  <2>2. <<t>> \in Seq(Targets)
    OBVIOUS
  <2> QED
    BY <2>1, <2>2, NewScopeInv DEF NewScope
<1> HIDE DEF a, new
<1>9. \A x \in Asked(new) : x = t
  <2>1. TargetsIn(new, {"depends", "tasks"}) = {}
    BY <1>8 DEF TargetsIn
  <2>2. Range(<<t>>) = {t}
    BY DEF Range
  <2> QED
    BY <1>8, <2>1, <2>2 DEF Asked
<1>10. /\ r \in Seq(Scope) /\ Len(r) = Len(scopes) /\ r[Len(scopes)] = a
       /\ Last(r) = a /\ r # <<>>
       /\ \A k \in 1..Len(scopes) - 1 : r[k] = scopes[k]
  BY <1>2, <1>5, ReplaceLast
<1> HIDE DEF r
<1>11. Opened(r) /\ Counted(r)
  <2>1. Opened(scopes) /\ Counted(scopes)
    BY StackIs
  <2> QED
    BY <1>2, <1>5, <1>6, <1>10, <2>1, StackMoves
<1>12. Opened(Append(r, new)) /\ Counted(Append(r, new))
  BY <1>4, <1>7, <1>8, <1>9, <1>10, <1>11, StackPush
<1> QED
  BY <1>1, <1>12, StackIsNext

\* Every step preserves the relation between the scopes.
LEMMA StackStep ==
  ASSUME IInv, StackInv, [Next]_vars
  PROVE  StackInv'
<1>1. ASSUME scopes' = scopes, build' = build
      PROVE  StackInv'
  BY <1>1, StackIs, StackIsNext
<1>2. ASSUME NEW why, Stop(why)
      PROVE  StackInv'
  BY <1>1, <1>2 DEF Stop
<1>3. CASE LookupTargets
  <2>1. CASE Range(Wanted) \subseteq Targets
    <3> DEFINE s == NewScope(Wanted, 0)
    <3>1. scopes' = <<s>> /\ build' = build
      BY <1>3, <2>1 DEF LookupTargets
    <3>2. s.base = 0 /\ s.frames = <<>>
      BY DEF NewScope
    <3> HIDE DEF s
    <3>3. Opened(scopes')
      BY <3>1 DEF Opened
    <3>4. Depth(Last(scopes')) = 0
      BY <3>1, <3>2 DEF Depth, Last
    <3>5. Counted(scopes')
      BY <3>4 DEF Counted
    <3> QED
      BY <3>1, <3>3, <3>5, StackIsNext
  <2>2. CASE ~(Range(Wanted) \subseteq Targets)
    BY <1>1, <1>3, <2>2 DEF LookupTargets
  <2> QED
    BY <2>1, <2>2
<1>4. ASSUME NEW t \in Targets, InvokeCompleted(t)
      PROVE  StackInv'
  <2>1. Running /\ Calls(build.depends, Top, t) /\ Continue(Advanced(Top))
    BY <1>4 DEF InvokeCompleted
  <2>2. Top \in Scope /\ (Top.frames = <<>> => Top.goals # <<>>)
    BY <2>1, TopType DEF Calls, InFrame
  <2>3. Advanced(Top) \in Scope /\ Advanced(Top).base = Top.base
    BY <2>2, AdvancedType
  <2>4. Asked(Advanced(Top)) \subseteq Asked(Top)
    BY <2>2, AdvancedAsked
  <2> QED
    BY <2>1, <2>3, <2>4, StackContinue
<1>5. ASSUME NEW t \in Targets, Enter(t)
      PROVE  StackInv'
  <2>1. Running /\ Calls(build.depends, Top, t)
    BY <1>5 DEF Enter
  <2>2. /\ Top \in Scope /\ (Top.frames = <<>> => Top.goals # <<>>)
        /\ build.depends \in Graphs /\ LoopsInStep(build.depends, Top)
    BY <2>1, TopType DEF Calls, InFrame, ScopeInv
  <2>3. CASE Continue(Entered(Top, t))
    <3>1. Entered(Top, t) \in Scope /\ Entered(Top, t).base = Top.base
      BY <2>2, EnteredType
    <3>2. Asked(Entered(Top, t)) \subseteq Asked(Top) \cup {t}
      BY <2>2, EnteredAsked
    <3>3. t \in Asked(Top) \/ \E u \in Asked(Top) : t \in Activates(u)
      BY <2>1, <2>2, CallAsked
    <3> QED
      BY <2>1, <2>3, <3>1, <3>2, <3>3, StackContinue
  <2>4. CASE Stop("stack overflow")
    BY <1>2, <2>4
  <2> QED
    BY <1>5, <2>3, <2>4 DEF Enter
<1>6. CASE StartTasks
  <2>1. Running /\ Top \in Scope /\ Top.frames # <<>> /\ Continue(Started(Top))
    BY <1>6, TopType DEF StartTasks, InFrame
  <2>2. /\ Started(Top) \in Scope /\ Started(Top).base = Top.base
        /\ Asked(Started(Top)) = Asked(Top)
    BY <2>1, StartedType, StartedAsked
  <2> QED
    BY <2>1, <2>2, StackContinue
<1>7. CASE RunPlain
  <2>1. /\ Running /\ Top \in Scope /\ Top.frames # <<>>
        /\ Continue(Advanced(Top)) \/ Stop("task failed")
    BY <1>7, TopType DEF RunPlain, Task, InFrame
  <2>2. /\ Advanced(Top) \in Scope /\ Advanced(Top).base = Top.base
        /\ Asked(Advanced(Top)) \subseteq Asked(Top)
    BY <2>1, AdvancedType, AdvancedAsked
  <2>3. CASE Continue(Advanced(Top))
    BY <2>1, <2>2, <2>3, StackContinue
  <2> QED
    BY <1>2, <2>1, <2>3
<1>8. CASE Complete
  <2>1. Running /\ Top \in Scope /\ Top.frames # <<>> /\ Continue(Completed(Top))
    BY <1>8, TopType DEF Complete, InFrame
  <2>2. /\ Completed(Top) \in Scope /\ Completed(Top).base = Top.base
        /\ Asked(Completed(Top)) \subseteq Asked(Top)
    BY <2>1, CompletedType, CompletedAsked
  <2> QED
    BY <2>1, <2>2, StackContinue
<1>9. CASE ReturnAntcall
  <2>1. Running /\ Len(scopes) > 1 /\ scopes' = Front(scopes) /\ build' = build
    BY <1>9 DEF ReturnAntcall, ScopeDone
  <2>2. scopes \in Seq(Scope) /\ Opened(scopes) /\ Counted(scopes)
    BY <2>1, TopType, StackIs
  <2> QED
    BY <2>1, <2>2, StackPop, StackIsNext
<1>10. CASE UNCHANGED vars
  BY <1>1, <1>10 DEF vars
<1> QED
  BY <1>2, <1>3, <1>4, <1>5, <1>6, <1>7, <1>8, <1>9, <1>10, StackAntcall
     DEF Next, Step, Exited, InvokeRecursive, AntcallMissing, Succeed

-----------------------------------------------------------------------------
(* Where the stack overflows                                               *)

\* A target that is, or is to be, activated above an activation of the same
\* target in another scope is on a cycle through the antcall between them.
LEMMA AcrossScopes ==
  ASSUME IInv, StackInv, NEW k \in DOMAIN scopes, NEW l \in DOMAIN scopes, k < l,
         NEW i \in DOMAIN scopes[k].frames, NEW y \in Asked(scopes[l]),
         Reaches(y, scopes[k].frames[i].target)
  PROVE  \E t \in Targets : \E u \in Called(t) : Reaches(u, t)
<1> DEFINE s == scopes[k]
           h == Here(s).target
<1>1. InFrame(s, "tasks") /\ \A z \in Asked(scopes[l]) : \E w \in Called(h) : Reaches(w, z)
  BY DEF StackInv
<1>2. s \in Scope /\ FramesArePath(build.depends, s)
  BY DEF IInv, TypeOK, ScopeInv
<1>3. /\ h \in Targets /\ Len(s.frames) \in DOMAIN s.frames /\ i <= Len(s.frames)
      /\ h = s.frames[Len(s.frames)].target
  <2>1. s.frames # <<>>
    BY <1>1 DEF InFrame
  <2> QED
    BY <1>2, <2>1, HereType, FrameType
<1>4. Reaches(s.frames[i].target, h)
  BY <1>2, <1>3, FramesReach
<1>5. PICK w \in Called(h) : Reaches(w, y)
  BY <1>1
<1>6. Reaches(w, h)
  BY <1>4, <1>5, ReachesTrans
<1> QED
  BY <1>3, <1>6

\* Target x is activated at depth d of the C stack.
ActivatedAt(d, x) ==
    \E k \in DOMAIN scopes : \E i \in DOMAIN scopes[k].frames :
        d = scopes[k].base + i /\ x = scopes[k].frames[i].target

AntcallCycle == \E t \in Targets : \E u \in Called(t) : Reaches(u, t)

LEMMA ScopesType ==
  ASSUME IInv, NEW k \in DOMAIN scopes
  PROVE  scopes[k] \in Scope /\ ScopeInv(build.depends, scopes[k])
  BY DEF IInv, TypeOK

LEMMA ActiveAsked ==
  ASSUME IInv, NEW k \in DOMAIN scopes, NEW i \in DOMAIN scopes[k].frames
  PROVE  scopes[k].frames[i].target \in Asked(scopes[k])
<1>1. scopes[k] \in Scope
  BY ScopesType
<1>2. i \in 1..Len(scopes[k].frames)
  BY <1>1, FrameType
<1> QED
  BY <1>1, <1>2, KnownFrames DEF Asked

\* The same target twice on the stack.
LEMMA TwiceActive ==
  ASSUME IInv, StackInv, NEW a, NEW b, a # b, NEW x, ActivatedAt(a, x), ActivatedAt(b, x)
  PROVE  AntcallCycle
<1>1. PICK k \in DOMAIN scopes : \E i \in DOMAIN scopes[k].frames :
           a = scopes[k].base + i /\ x = scopes[k].frames[i].target
  BY DEF ActivatedAt
<1>1a. PICK i \in DOMAIN scopes[k].frames :
           a = scopes[k].base + i /\ x = scopes[k].frames[i].target
  BY <1>1
<1>2. PICK l \in DOMAIN scopes : \E j \in DOMAIN scopes[l].frames :
           b = scopes[l].base + j /\ x = scopes[l].frames[j].target
  BY DEF ActivatedAt
<1>2a. PICK j \in DOMAIN scopes[l].frames :
           b = scopes[l].base + j /\ x = scopes[l].frames[j].target
  BY <1>2
<1>3. x \in Asked(scopes[k]) /\ x \in Asked(scopes[l])
  BY <1>1a, <1>2a, ActiveAsked
<1>4. CASE k = l
  <2>1. i = j
    BY <1>1a, <1>2a, <1>4, ScopesType DEF ScopeInv, ActiveOnce
  <2> QED
    BY <1>1a, <1>2a, <1>4, <2>1
<1>5. CASE k < l
  BY <1>1a, <1>3, <1>5, ReachesSelf, AcrossScopes DEF AntcallCycle
<1>6. CASE l < k
  BY <1>2a, <1>3, <1>6, ReachesSelf, AcrossScopes DEF AntcallCycle
<1>7. k = l \/ k < l \/ l < k
  <2>1. DOMAIN scopes = 1..Len(scopes) /\ Len(scopes) \in Nat
    BY DEF IInv, TypeOK
  <2> QED
    BY <2>1
<1> QED
  BY <1>4, <1>5, <1>6, <1>7

\* The target about to be activated is already on the stack.
LEMMA CalledActive ==
  ASSUME IInv, StackInv, Running, NEW t \in Targets, Calls(build.depends, Top, t),
         t \notin Top.context, NEW a, ActivatedAt(a, t)
  PROVE  AntcallCycle
<1>1. PICK k \in DOMAIN scopes : \E i \in DOMAIN scopes[k].frames :
           a = scopes[k].base + i /\ t = scopes[k].frames[i].target
  BY DEF ActivatedAt
<1>1a. PICK i \in DOMAIN scopes[k].frames :
           a = scopes[k].base + i /\ t = scopes[k].frames[i].target
  BY <1>1
<1> DEFINE n == Len(scopes)
<1>2. /\ n \in Nat \ {0} /\ DOMAIN scopes = 1..n /\ Top = scopes[n] /\ Top \in Scope
      /\ ScopeInv(build.depends, Top) /\ build.depends \in Graphs
  BY TopType
<1> HIDE DEF n
<1>3. k # n
  <2> SUFFICES ASSUME k = n
               PROVE  FALSE
    OBVIOUS
  <2>1. TargetsIn(Top, {"depends"}) = {Top.frames[j].target : j \in 1..Len(Top.frames)}
    BY <1>2, CallerInDepends DEF ScopeInv
  <2>2. i \in 1..Len(Top.frames) /\ t = Top.frames[i].target
    BY <1>1a, <1>2, FrameType
  <2> QED
    BY <1>2, <2>1, <2>2 DEF ScopeInv, PathInContext
<1>4. k < n /\ n \in DOMAIN scopes
  BY <1>2, <1>3
<1>5. t \in Asked(Top) \/ \E u \in Asked(Top) : t \in Activates(u)
  BY <1>2, CallAsked DEF ScopeInv
<1>6. PICK y \in Asked(Top) : Reaches(y, t)
  BY <1>5, ReachesSelf, ReachesStep
<1> QED
  BY <1>1a, <1>2, <1>4, <1>6, AcrossScopes DEF AntcallCycle

\* A stack with room for every target once is full only when a target is on
\* it twice.
LEMMA FullStack ==
  ASSUME IInv, StackInv, Running, NEW t \in Targets, Calls(build.depends, Top, t),
         t \notin Top.context, IsFiniteSet(Targets),
         Cardinality(Targets) <= StackLimit, ~(Depth(Top) < StackLimit)
  PROVE  AntcallCycle
<1> DEFINE n == Depth(Top)
<1>1. n \in Nat /\ Cardinality(Targets) \in Nat /\ StackLimit \in Nat
  BY TopType, DepthType, FS_CardinalityType, StackAssumption
<1>2. \A d \in 1..n : \E x \in Targets : ActivatedAt(d, x)
  <2> TAKE d \in 1..n
  <2>1. PICK k \in DOMAIN scopes : \E i \in DOMAIN scopes[k].frames : d = scopes[k].base + i
    BY TopType DEF StackInv
  <2>2. PICK i \in DOMAIN scopes[k].frames : d = scopes[k].base + i
    BY <2>1
  <2>3. scopes[k].frames[i].target \in Targets
    BY ScopesType, FrameType
  <2> QED
    BY <2>2, <2>3 DEF ActivatedAt
<1> DEFINE f == [d \in 1..n + 1 |-> IF d = n + 1 THEN t
                                    ELSE CHOOSE x \in Targets : ActivatedAt(d, x)]
<1> HIDE DEF n
<1>3. \A d \in 1..n : f[d] \in Targets /\ ActivatedAt(d, f[d])
  <2> TAKE d \in 1..n
  <2>1. d \in 1..n + 1 /\ d # n + 1
    BY <1>1
  <2>2. f[d] = CHOOSE x \in Targets : ActivatedAt(d, x)
    BY <2>1
  <2> QED
    BY <1>2, <2>2
<1>4. f[n + 1] = t
  BY <1>1
<1>5. f \in [1..n + 1 -> Targets]
  <2>1. \A d \in 1..n + 1 : f[d] \in Targets
    <3> HIDE DEF f
    <3> SUFFICES ASSUME NEW d \in 1..n + 1, d # n + 1
                 PROVE  f[d] \in Targets
      BY <1>4
    <3>1. d \in 1..n
      BY <1>1
    <3> QED
      BY <1>3, <3>1
  <2> QED
    BY <2>1
<1> HIDE DEF f
<1>6. IsFiniteSet(1..n + 1) /\ Cardinality(1..n + 1) = n + 1
  <2>1. 1 \in Int /\ n + 1 \in Int /\ ~(1 > n + 1) /\ (n + 1) - 1 + 1 = n + 1
    BY <1>1
  <2> DEFINE m == n + 1
  <2> HIDE DEF m
  <2>2. IsFiniteSet(1..m) /\ Cardinality(1..m) = m - 1 + 1
    BY <2>1, FS_Interval DEF m
  <2> QED
    BY <2>1, <2>2 DEF m
<1>7. Cardinality(Targets) < Cardinality(1..n + 1)
  BY <1>1, <1>6 DEF n
<1>8. PICK a \in 1..n + 1, b \in 1..n + 1 : a # b /\ f[a] = f[b]
  BY <1>5, <1>6, <1>7, FS_PigeonHole
<1>9. ASSUME NEW d \in 1..n + 1, d # n + 1
      PROVE  ActivatedAt(d, f[d])
  BY <1>1, <1>3, <1>9
<1>10. CASE a = n + 1
  BY <1>4, <1>8, <1>9, <1>10, CalledActive
<1>11. CASE b = n + 1
  BY <1>4, <1>8, <1>9, <1>11, CalledActive
<1> QED
  BY <1>8, <1>9, <1>10, <1>11, TwiceActive

LEMMA OverflowStep ==
  ASSUME IInv, StackInv, OverflowIsAntcallCycle, [Next]_vars,
         IsFiniteSet(Targets), Cardinality(Targets) <= StackLimit
  PROVE  OverflowIsAntcallCycle'
<1> SUFFICES ASSUME outcome' = "stack overflow"
             PROVE  AntcallCycle'
  BY DEF OverflowIsAntcallCycle, AntcallCycle
<1>1. ASSUME build' = build, AntcallCycle
      PROVE  AntcallCycle'
  <2>1. PICK t \in Targets : \E u \in Called(t) : Reaches(u, t)
    BY <1>1 DEF AntcallCycle
  <2>2. PICK u \in Called(t) : Reaches(u, t)
    BY <2>1
  <2>3. Called(t)' = Called(t)
    BY <1>1 DEF Called
  <2>4. Reaches(u, t)'
    BY <1>1, <2>2 DEF Reaches, Activates, Called, DependsOf
  <2> QED
    BY <2>2, <2>3, <2>4 DEF AntcallCycle
<1>2. ASSUME outcome' = outcome, build' = build
      PROVE  AntcallCycle'
  BY <1>1, <1>2 DEF OverflowIsAntcallCycle, AntcallCycle
<1>3. ASSUME NEW t \in Targets, Enter(t)
      PROVE  AntcallCycle'
  <2>1. /\ Running /\ Calls(build.depends, Top, t) /\ t \notin Top.context
        /\ build' = build /\ outcome = "running"
    BY <1>3 DEF Enter, Continue, Stop, Running
  <2>2. ~(Depth(Top) < StackLimit)
    BY <1>3, <2>1 DEF Enter, Continue
  <2>3. AntcallCycle
    BY <2>1, <2>2, FullStack
  <2> QED
    BY <1>1, <2>1, <2>3
<1>4. CASE LookupTargets
  BY <1>4 DEF LookupTargets
<1>5. CASE UNCHANGED vars
  BY <1>2, <1>5 DEF vars
<1>6. outcome' = "running" => FALSE
  OBVIOUS
<1> QED
  BY <1>2, <1>3, <1>4, <1>5
     DEF Next, Step, Exited, InvokeCompleted, InvokeRecursive, Antcall, StartTasks, RunPlain,
         AntcallMissing, Complete, ReturnAntcall, Succeed, Continue, Stop

\* When the stack has room for an activation of every target at once, it
\* overflows only where targets antcall themselves, directly or through
\* others (each antcall gives the callee tables of its own, in which a
\* recursion is not seen).  With less room a long enough chain of targets
\* overflows it too, so that the assumption on StackLimit is needed.
THEOREM OverflowNeedsAntcallCycle ==
  ASSUME IsFiniteSet(Targets), Cardinality(Targets) <= StackLimit
  PROVE  Spec => []OverflowIsAntcallCycle
<1>1. Init => StackInv /\ OverflowIsAntcallCycle
  BY DEF Init, StackInv, OverflowIsAntcallCycle
<1>2. IInv /\ StackInv /\ OverflowIsAntcallCycle /\ [Next]_vars
        => StackInv' /\ OverflowIsAntcallCycle'
  BY StackStep, OverflowStep
<1> QED
  BY <1>1, <1>2, Inductive, PTL DEF Spec

=============================================================================
