----------------------------- MODULE ParserProofs -----------------------------
(***************************************************************************)
(* Theorems about Parser, for every grammar and every size of a document.  *)
(***************************************************************************)
EXTENDS Parser, TLAPS

-----------------------------------------------------------------------------
(* Contexts and the ways they are changed                                  *)

Entry == [state : States, data : Elements \cup {None}]

\* What the invariants look at besides the state and its stack.
SameCounters(d, c) ==
    /\ d.skip_depth = c.skip_depth /\ d.node_depth = c.node_depth
    /\ d.fileset_depth = c.fileset_depth /\ d.path_depth = c.path_depth
    /\ d.task = c.task /\ d.selector = c.selector /\ d.selectors = c.selectors

\* An entry of the stack goes on top of it, and the state changes.
Pushed(r, c, s, d) ==
    /\ r \in Context
    /\ r.state = s
    /\ Len(r.stack) = Len(c.stack) + 1
    /\ \A i \in 1..Len(c.stack) : r.stack[i] = c.stack[i]
    /\ r.stack[Len(c.stack) + 1].state = c.state
    /\ r.stack[Len(c.stack) + 1].data = d

\* ... and comes off it.
Popped(r, c) ==
    /\ r \in Context
    /\ r.state = c.stack[Len(c.stack)].state
    /\ Len(r.stack) = Len(c.stack) - 1
    /\ \A i \in 1..Len(c.stack) - 1 : r.stack[i] = c.stack[i]

LEMMA ElementTypes == None \notin Elements /\ Elements \subseteq Nat /\ None \in Nat
  BY BoundsAssumption DEF None, Elements

\* The types of the fields.
LEMMA ContextFields ==
  ASSUME NEW c \in Context
  PROVE  /\ c.state \in States
         /\ c.stack \in Seq(Entry)
         /\ c.skip_depth \in Nat /\ c.node_depth \in Nat
         /\ c.fileset_depth \in Int /\ c.path_depth \in Nat
         /\ c.task \in Elements \cup {None} /\ c.selector \in Elements \cup {None}
         /\ c.selectors \in Seq(Elements)
         /\ c.children \in [Elements -> Seq(Elements)]
  BY DEF Context, Entry

LEMMA EmptySequence == \A S : <<>> \in Seq(S)
  OBVIOUS

\* Depth by the state.
LEMMA DepthByState ==
  ASSUME NEW c
  PROVE  /\ c.state = "SKIP" => Depth(c) = c.skip_depth
         /\ c.state = "PATH" => Depth(c) = c.path_depth
         /\ c.state = "FILESET" => Depth(c) = c.fileset_depth
         /\ c.state = "SELECTOR" => Depth(c) = Len(c.selectors) + 1
<1>1. c.state = "SKIP" => Depth(c) = c.skip_depth
  BY DEF Depth
<1>2. c.state = "PATH" => Depth(c) = c.path_depth
  BY DEF Depth
<1>3. c.state = "FILESET" => Depth(c) = c.fileset_depth
  BY DEF Depth
<1>4. c.state = "SELECTOR" => Depth(c) = Len(c.selectors) + 1
  BY DEF Depth
<1> QED
  BY <1>1, <1>2, <1>3, <1>4

LEMMA PushPushes ==
  ASSUME NEW c \in Context, NEW s \in States, NEW d \in Elements \cup {None}
  PROVE  Pushed(Push(c, s, d), c, s, d) /\ SameCounters(Push(c, s, d), c)
<1> DEFINE entry == [state |-> c.state, data |-> d]
<1>1. entry \in Entry /\ entry.state = c.state /\ entry.data = d
  BY DEF Context, Entry
<1>2. c.stack \in Seq(Entry)
  BY ContextFields
<1> DEFINE t == Append(c.stack, entry)
<1>3. /\ t \in Seq(Entry)
      /\ Len(t) = Len(c.stack) + 1
      /\ \A i \in 1..Len(c.stack) : t[i] = c.stack[i]
      /\ t[Len(c.stack) + 1] = entry
  <2> HIDE DEF entry
  <2> QED
    BY <1>1, <1>2
<1> DEFINE r == [c EXCEPT !.stack = t, !.state = s]
<1>4. Push(c, s, d) = r
  BY DEF Push, Context
<1>5. r \in Context /\ r.state = s /\ r.stack = t /\ SameCounters(r, c)
  <2> HIDE DEF t
  <2>1. r \in Context
    BY <1>3 DEF Context, Entry
  <2>2. r.state = s /\ r.stack = t
    BY DEF Context
  <2>3. SameCounters(r, c)
    BY DEF Context, SameCounters
  <2> QED
    BY <2>1, <2>2, <2>3
<1> HIDE DEF r, t, entry
<1> QED
  BY <1>1, <1>3, <1>4, <1>5 DEF Pushed

LEMMA PopPops ==
  ASSUME NEW c \in Context, c.stack # <<>>
  PROVE  Popped(Pop(c), c) /\ SameCounters(Pop(c), c)
<1>1. c.stack \in Seq(Entry)
  BY ContextFields
<1>2. Len(c.stack) \in Nat \ {0} /\ Last(c.stack) = c.stack[Len(c.stack)]
  BY <1>1 DEF Last
<1> DEFINE t == Front(c.stack)
<1>3. /\ t \in Seq(Entry)
      /\ Len(t) = Len(c.stack) - 1
      /\ \A i \in 1..Len(c.stack) - 1 : t[i] = c.stack[i]
  BY <1>1, <1>2 DEF Front
<1> DEFINE s == c.stack[Len(c.stack)].state
<1>4. s \in States
  <2>1. c.stack[Len(c.stack)] \in Entry
    BY <1>1, <1>2
  <2> QED
    BY <2>1 DEF Entry
<1> DEFINE r == [c EXCEPT !.state = s, !.stack = t]
<1>5. Pop(c) = r
  BY <1>2 DEF Pop, Context
<1>6. r \in Context /\ r.state = s /\ r.stack = t /\ SameCounters(r, c)
  <2> HIDE DEF t, s
  <2>1. r \in Context
    BY <1>3, <1>4 DEF Context, Entry
  <2>2. r.state = s /\ r.stack = t
    BY DEF Context
  <2>3. SameCounters(r, c)
    BY DEF Context, SameCounters
  <2> QED
    BY <2>1, <2>2, <2>3
<1> HIDE DEF r, t
<1> QED
  BY <1>2, <1>3, <1>5, <1>6 DEF Popped

LEMMA RecordKeeps ==
  ASSUME NEW c \in Context, NEW e \in Elements, NEW p
  PROVE  LET r == Record(c, e, p) IN
         r \in Context /\ r.state = c.state /\ r.stack = c.stack /\ SameCounters(r, c)
<1> DEFINE f == c.children
<1>1. f \in [Elements -> Seq(Elements)]
  BY ContextFields
<1> DEFINE t == [f EXCEPT ![p] = Append(@, e)]
<1>2. t \in [Elements -> Seq(Elements)]
  <2> HIDE DEF f
  <2>1. CASE p \in Elements
    <3>1. Append(f[p], e) \in Seq(Elements)
      BY <1>1, <2>1
    <3> QED
      BY <1>1, <3>1
  <2>2. CASE p \notin Elements
    <3>1. t = f
      BY <1>1, <2>2
    <3> QED
      BY <1>1, <3>1
  <2> QED
    BY <2>1, <2>2
<1>3. Record(c, e, p) = [c EXCEPT !.children = t]
  BY DEF Record
<1>4. LET r == [c EXCEPT !.children = t] IN
      r \in Context /\ r.state = c.state /\ r.stack = c.stack /\ SameCounters(r, c)
  <2> HIDE DEF t
  <2> DEFINE r == [c EXCEPT !.children = t]
  <2>1. r \in Context
    BY <1>2 DEF Context
  <2>2. r.state = c.state /\ r.stack = c.stack /\ SameCounters(r, c)
    BY DEF Context, SameCounters
  <2> QED
    BY <2>1, <2>2
<1> QED
  BY <1>3, <1>4
-----------------------------------------------------------------------------
(* What an opening tag does                                                *)

Objects == {"PATH", "FILESET", "SELECTOR", "SKIP"}

\* An object s is begun: the parser is one deep in it.
Begins(r, c, s, d) ==
    /\ s \in Objects
    /\ Pushed(r, c, s, d)
    /\ Depth(r) = 1
    /\ r.state = "SELECTOR" => r.selector # None
    /\ r.node_depth = c.node_depth /\ r.task = c.task

\* The parser stays in the object it is in, n deeper.
Moves(r, c, n) ==
    /\ r \in Context /\ r.state = c.state /\ r.stack = c.stack
    /\ Depth(r) = Depth(c) + n
    /\ r.state = "SELECTOR" => r.selector # None
    /\ r.node_depth = c.node_depth /\ r.task = c.task

LEMMA SkipBegins ==
  ASSUME NEW c \in Context
  PROVE  Begins(Skip(c), c, "SKIP", None)
<1> DEFINE x == [c EXCEPT !.skip_depth = 1]
<1>1. x \in Context
  BY DEF Context
<1>2. /\ x.state = c.state /\ x.stack = c.stack /\ x.skip_depth = 1
      /\ x.node_depth = c.node_depth /\ x.task = c.task
  BY DEF Context
<1>3. "SKIP" \in States
  BY DEF States
<1>4. Skip(c) = Push(x, "SKIP", None)
  BY DEF Skip
<1> HIDE DEF x
<1>5. Pushed(Skip(c), x, "SKIP", None) /\ SameCounters(Skip(c), x)
  BY <1>1, <1>3, <1>4, PushPushes
<1> DEFINE r == Skip(c)
<1> HIDE DEF r
<1>6. Pushed(r, x, "SKIP", None) /\ SameCounters(r, x)
  BY <1>5 DEF r
<1>7. Pushed(r, c, "SKIP", None)
  BY <1>2, <1>6 DEF Pushed, SameCounters
<1>8. Depth(r) = 1
  BY <1>2, <1>6, DepthByState DEF Pushed, SameCounters
<1>9. Begins(r, c, "SKIP", None)
  BY <1>2, <1>3, <1>6, <1>7, <1>8 DEF Begins, Pushed, SameCounters, Objects
<1> QED
  BY <1>9 DEF r

LEMMA PathBegins ==
  ASSUME NEW c \in Context, NEW d \in Elements \cup {None}
  PROVE  Begins(BeginPath(c, d), c, "PATH", d)
<1> DEFINE none == <<>>
<1> DEFINE x == [c EXCEPT !.list = none, !.lists = none, !.path_depth = 1]
<1>1. x \in Context
  <2>1. none \in Seq(Elements) /\ none \in Seq(Seq(Elements))
    BY EmptySequence
  <2> HIDE DEF none
  <2> QED
    BY <2>1 DEF Context
<1>2. /\ x.state = c.state /\ x.stack = c.stack /\ x.path_depth = 1
      /\ x.node_depth = c.node_depth /\ x.task = c.task
  BY DEF Context
<1>3. "PATH" \in States
  BY DEF States
<1>4. BeginPath(c, d) = Push(x, "PATH", d)
  BY DEF BeginPath
<1> HIDE DEF x
<1>5. Pushed(BeginPath(c, d), x, "PATH", d) /\ SameCounters(BeginPath(c, d), x)
  BY <1>1, <1>3, <1>4, PushPushes
<1> DEFINE r == BeginPath(c, d)
<1> HIDE DEF r
<1>6. Pushed(r, x, "PATH", d) /\ SameCounters(r, x)
  BY <1>5 DEF r
<1>7. Pushed(r, c, "PATH", d)
  BY <1>2, <1>6 DEF Pushed, SameCounters
<1>8. Depth(r) = 1
  BY <1>2, <1>6, DepthByState DEF Pushed, SameCounters
<1>9. Begins(r, c, "PATH", d)
  BY <1>2, <1>3, <1>6, <1>7, <1>8 DEF Begins, Pushed, SameCounters, Objects
<1> QED
  BY <1>9 DEF r

LEMMA FilesetBegins ==
  ASSUME NEW c \in Context, NEW e \in Elements, NEW d \in Elements \cup {None}
  PROVE  Begins(BeginFileset(c, e, d), c, "FILESET", d)
<1> DEFINE x == [c EXCEPT !.fileset = e, !.fileset_depth = 1]
<1>1. x \in Context
  <2>1. e \in Elements \cup {None} /\ 1 \in Int
    OBVIOUS
  <2> QED
    BY <2>1 DEF Context
<1>2. /\ x.state = c.state /\ x.stack = c.stack /\ x.fileset_depth = 1
      /\ x.node_depth = c.node_depth /\ x.task = c.task
  BY DEF Context
<1>3. "FILESET" \in States
  BY DEF States
<1>4. BeginFileset(c, e, d) = Push(x, "FILESET", d)
  BY DEF BeginFileset
<1> HIDE DEF x
<1>5. Pushed(BeginFileset(c, e, d), x, "FILESET", d) /\ SameCounters(BeginFileset(c, e, d), x)
  BY <1>1, <1>3, <1>4, PushPushes
<1> DEFINE r == BeginFileset(c, e, d)
<1> HIDE DEF r
<1>6. Pushed(r, x, "FILESET", d) /\ SameCounters(r, x)
  BY <1>5 DEF r
<1>7. Pushed(r, c, "FILESET", d)
  BY <1>2, <1>6 DEF Pushed, SameCounters
<1>8. Depth(r) = 1
  BY <1>2, <1>6, DepthByState DEF Pushed, SameCounters
<1>9. Begins(r, c, "FILESET", d)
  BY <1>2, <1>3, <1>6, <1>7, <1>8 DEF Begins, Pushed, SameCounters, Objects
<1> QED
  BY <1>9 DEF r

LEMMA SelectorBegins ==
  ASSUME NEW c \in Context, NEW e \in Elements, NEW d \in Elements \cup {None}
  PROVE  Begins(BeginSelector(c, e, d), c, "SELECTOR", d)
<1> DEFINE none == <<>>
<1> DEFINE x == [c EXCEPT !.selector = e, !.selectors = none]
<1>1. x \in Context
  <2>1. none \in Seq(Elements)
    BY EmptySequence
  <2> HIDE DEF none
  <2> QED
    BY <2>1 DEF Context
<1>2. /\ x.state = c.state /\ x.stack = c.stack /\ x.selector = e
      /\ x.selectors = <<>> /\ x.node_depth = c.node_depth /\ x.task = c.task
  BY DEF Context
<1>3. "SELECTOR" \in States /\ e # None
  BY ElementTypes DEF States
<1>4. BeginSelector(c, e, d) = Push(x, "SELECTOR", d)
  BY DEF BeginSelector
<1> HIDE DEF x
<1>5. Pushed(BeginSelector(c, e, d), x, "SELECTOR", d) /\ SameCounters(BeginSelector(c, e, d), x)
  BY <1>1, <1>3, <1>4, PushPushes
<1> DEFINE r == BeginSelector(c, e, d)
<1> HIDE DEF r
<1>6. Pushed(r, x, "SELECTOR", d) /\ SameCounters(r, x)
  BY <1>5 DEF r
<1>7. Pushed(r, c, "SELECTOR", d)
  BY <1>2, <1>6 DEF Pushed, SameCounters
<1>8. Depth(r) = 1
  BY <1>2, <1>6, DepthByState DEF Pushed, SameCounters
<1>9. Begins(r, c, "SELECTOR", d)
  BY <1>2, <1>3, <1>6, <1>7, <1>8 DEF Begins, Pushed, SameCounters, Objects
<1> QED
  BY <1>9 DEF r

\* Beginning after a change that the object does not look at.
LEMMA BeginsFrom ==
  ASSUME NEW r, NEW c, NEW x, NEW s, NEW d, Begins(r, x, s, d),
         x.state = c.state, x.stack = c.stack, x.node_depth = c.node_depth, x.task = c.task
  PROVE  Begins(r, c, s, d)
  BY DEF Begins, Pushed

\* A property or a target leaves the stack as it is.
LEMMA StartInProjectDoes ==
  ASSUME NEW c \in Context, NEW e \in Elements, NEW kind
  PROVE  LET r == StartInProject(c, e, kind) IN
         \/ kind = "target" /\ r \in Context /\ r.state = "TARGET" /\ r.stack = c.stack
         \/ kind = "property" /\ r \in Context /\ r.state = c.state /\ r.stack = c.stack
         \/ \E s \in Objects : Begins(r, c, s, None) /\ (s = "FILESET" => kind = "fileset")
<1> DEFINE r == StartInProject(c, e, kind)
<1>0. e \in Elements \cup {None} /\ None \in Elements \cup {None}
  OBVIOUS
<1>1. CASE kind = "target"
  <2> DEFINE y == Record(c, e, Project)
  <2>1. y \in Context /\ y.stack = c.stack
    BY RecordKeeps
  <2>2. r = [y EXCEPT !.target = e, !.state = "TARGET"]
    BY <1>1 DEF StartInProject
  <2> HIDE DEF y, r
  <2>3. r \in Context
    BY <1>0, <2>1, <2>2 DEF Context, States
  <2>4. r.state = "TARGET" /\ r.stack = c.stack
    BY <2>1, <2>2 DEF Context
  <2> QED
    BY <1>1, <2>3, <2>4 DEF r
<1>2. CASE kind = "property"
  <2>1. r = Record(c, e, Project)
    BY <1>2 DEF StartInProject
  <2> QED
    BY <1>2, <2>1, RecordKeeps
<1>3. CASE kind = "path"
  <2> DEFINE x == [c EXCEPT !.path_id = e, !.path = None]
  <2>1. x \in Context
    BY <1>0 DEF Context
  <2>2. x.state = c.state /\ x.stack = c.stack /\ SameCounters(x, c)
    BY DEF Context, SameCounters
  <2>3. r = BeginPath(x, None)
    BY <1>3 DEF StartInProject
  <2> HIDE DEF x
  <2>4. Begins(BeginPath(x, None), x, "PATH", None)
    BY <1>0, <2>1, PathBegins
  <2> HIDE DEF r
  <2>5. Begins(r, c, "PATH", None)
    BY <2>2, <2>3, <2>4, BeginsFrom DEF SameCounters
  <2> QED
    BY <2>5 DEF r, Objects
<1>4. CASE kind = "fileset"
  <2> DEFINE x == [c EXCEPT !.fileset_id = e]
  <2>1. x \in Context
    BY <1>0 DEF Context
  <2>2. x.state = c.state /\ x.stack = c.stack /\ SameCounters(x, c)
    BY DEF Context, SameCounters
  <2>3. r = BeginFileset(x, e, None)
    BY <1>4 DEF StartInProject
  <2> HIDE DEF x
  <2>4. Begins(BeginFileset(x, e, None), x, "FILESET", None)
    BY <1>0, <2>1, FilesetBegins
  <2> HIDE DEF r
  <2>5. Begins(r, c, "FILESET", None)
    BY <2>2, <2>3, <2>4, BeginsFrom DEF SameCounters
  <2> QED
    BY <1>4, <2>5 DEF r, Objects
<1>5. CASE kind = "selector"
  <2> DEFINE x == [c EXCEPT !.selector_id = e]
  <2>1. x \in Context
    BY <1>0 DEF Context
  <2>2. x.state = c.state /\ x.stack = c.stack /\ SameCounters(x, c)
    BY DEF Context, SameCounters
  <2>3. r = BeginSelector(x, e, None)
    BY <1>5 DEF StartInProject
  <2> HIDE DEF x
  <2>4. Begins(BeginSelector(x, e, None), x, "SELECTOR", None)
    BY <1>0, <2>1, SelectorBegins
  <2> HIDE DEF r
  <2>5. Begins(r, c, "SELECTOR", None)
    BY <2>2, <2>3, <2>4, BeginsFrom DEF SameCounters
  <2> QED
    BY <2>5 DEF r, Objects
<1>6. CASE kind \notin {"target", "property", "path", "fileset", "selector"}
  <2>1. r = Skip(c)
    BY <1>6 DEF StartInProject
  <2> QED
    BY <2>1, SkipBegins DEF Objects
<1> QED
  BY <1>1, <1>2, <1>3, <1>4, <1>5, <1>6

LEMMA StartInTargetDoes ==
  ASSUME NEW c \in Context, NEW e \in Elements, NEW kind
  PROVE  LET r == StartInTarget(c, e, kind) IN
         Pushed(r, c, "TASK", None) /\ r.task = e /\ r.node_depth = 1
<1> DEFINE xml == kind \in NeedsXmlNode
<1> DEFINE nodes == IF xml THEN <<e>> ELSE <<>>
<1> DEFINE none == <<>>
<1>1. nodes \in Seq(Elements) /\ none \in Seq(Elements)
  BY EmptySequence
<1> DEFINE direct == ~xml
<1>2. direct \in BOOLEAN
  OBVIOUS
<1> DEFINE x == [c EXCEPT !.task = e, !.filesets = none, !.node_depth = 1,
                          !.direct = direct, !.nodes = nodes]
<1>3. StartInTarget(c, e, kind) = Push(x, "TASK", None)
  BY DEF StartInTarget
<1> HIDE DEF nodes, none, direct
<1>4. x \in Context
  <2>1. e \in Elements \cup {None} /\ 1 \in Nat
    OBVIOUS
  <2> QED
    BY ZenonT(40), <1>1, <1>2, <2>1 DEF Context
<1>5. x.state = c.state /\ x.stack = c.stack /\ x.task = e /\ x.node_depth = 1
  BY DEF Context
<1>6. "TASK" \in States /\ None \in Elements \cup {None}
  BY DEF States
<1> HIDE DEF x
<1> DEFINE r == Push(x, "TASK", None)
<1>7. Pushed(r, x, "TASK", None) /\ SameCounters(r, x)
  BY <1>4, <1>6, PushPushes
<1> HIDE DEF r
<1>8. Pushed(r, c, "TASK", None) /\ r.task = e /\ r.node_depth = 1
  BY <1>5, <1>7 DEF Pushed, SameCounters
<1> QED
  BY <1>3, <1>8 DEF r

\* The parser stays in the task it is in, n deeper.
MovesInTask(r, c, n) ==
    /\ r \in Context /\ r.state = c.state /\ r.stack = c.stack
    /\ r.node_depth = c.node_depth + n /\ r.task = c.task

LEMMA DeeperMoves ==
  ASSUME NEW c \in Context, NEW y \in Context,
         y.state = c.state, y.stack = c.stack, y.node_depth = c.node_depth, y.task = c.task
  PROVE  MovesInTask(Deeper(y), c, 1)
<1> DEFINE n == y.node_depth + 1
<1>1. n \in Nat
  BY ContextFields
<1> DEFINE r == [y EXCEPT !.node_depth = n]
<1>2. Deeper(y) = r
  BY DEF Deeper
<1>3. n = c.node_depth + 1
  OBVIOUS
<1> HIDE DEF n
<1>4. r \in Context
  BY ZenonT(40), <1>1 DEF Context
<1>5. r.state = y.state /\ r.stack = y.stack /\ r.node_depth = n /\ r.task = y.task
  BY DEF Context
<1> HIDE DEF r
<1>6. MovesInTask(r, c, 1)
  BY <1>3, <1>4, <1>5 DEF MovesInTask
<1> QED
  BY <1>2, <1>6

LEMMA IncludeInTaskKeeps ==
  ASSUME NEW c \in Context, NEW e \in Elements, c.task # None
  PROVE  LET r == IncludeInTask(c, e) IN
         r \in Context /\ r.state = c.state /\ r.stack = c.stack /\ SameCounters(r, c)
<1> DEFINE implicit == c.fileset = None /\ c.filesets = <<>>
<1> DEFINE fileset  == IF c.fileset # None THEN c.fileset
                       ELSE IF implicit THEN c.task ELSE Head(c.filesets)
<1> DEFINE y == Record(c, e, fileset)
<1>1. y \in Context /\ y.state = c.state /\ y.stack = c.stack /\ SameCounters(y, c)
  <2> HIDE DEF fileset
  <2> QED
    BY RecordKeeps
<1> DEFINE u == IF implicit THEN c.task ELSE y.fileset
<1> DEFINE w == IF implicit THEN <<c.task>> ELSE y.filesets
<1> DEFINE r == [y EXCEPT !.fileset = u, !.filesets = w]
<1>2. IncludeInTask(c, e) = r
  BY DEF IncludeInTask
<1>3. u \in Elements \cup {None}
  <2>1. y.fileset \in Elements \cup {None} /\ c.task \in Elements \cup {None}
    BY <1>1 DEF Context
  <2> HIDE DEF y
  <2> QED
    BY <2>1
<1>4. w \in Seq(Elements)
  <2>1. c.task \in Elements
    BY ContextFields
  <2>2. y.filesets \in Seq(Elements)
    BY <1>1 DEF Context
  <2>3. <<c.task>> \in Seq(Elements)
    BY <2>1
  <2> HIDE DEF y
  <2> QED
    BY <2>2, <2>3
<1> HIDE DEF u, w, y
<1>5. r \in Context
  BY ZenonT(40), <1>1, <1>3, <1>4 DEF Context
<1>6. r.state = y.state /\ r.stack = y.stack /\ SameCounters(r, y)
  BY <1>1 DEF Context, SameCounters
<1> HIDE DEF r
<1>7. r \in Context /\ r.state = c.state /\ r.stack = c.stack /\ SameCounters(r, c)
  BY <1>1, <1>5, <1>6 DEF SameCounters
<1> QED
  BY <1>2, <1>7

LEMMA StartInTaskDoes ==
  ASSUME NEW c \in Context, NEW e \in Elements, NEW kind, c.task # None
  PROVE  LET r == StartInTask(c, e, kind) IN
         \/ MovesInTask(r, c, 1)
         \/ Begins(r, c, "PATH", e)
         \/ Begins(r, c, "FILESET", e) /\ kind = "fileset"
         \/ Begins(r, c, "SELECTOR", c.fileset)
<1> DEFINE r == StartInTask(c, e, kind)
<1>0. c.direct \in BOOLEAN /\ c.fileset \in Elements \cup {None} /\ e \in Elements \cup {None}
  BY DEF Context
<1>1. CASE ~c.direct
  <2> DEFINE y == Deeper(Record(c, e, Last(c.nodes)))
  <2>1. MovesInTask(y, c, 1)
    BY RecordKeeps, DeeperMoves DEF SameCounters
  <2> DEFINE nodes == Append(y.nodes, e)
  <2> DEFINE z == [y EXCEPT !.nodes = nodes]
  <2>2. r = z
    BY <1>1 DEF StartInTask
  <2> HIDE DEF y
  <2>3. y \in Context
    BY <2>1 DEF MovesInTask
  <2>4. nodes \in Seq(Elements)
    <3>1. y.nodes \in Seq(Elements)
      BY <2>3 DEF Context
    <3> QED
      BY <3>1
  <2> HIDE DEF nodes
  <2>5. z \in Context
    BY ZenonT(40), <2>3, <2>4 DEF Context
  <2>6. z.state = y.state /\ z.stack = y.stack /\ z.node_depth = y.node_depth /\ z.task = y.task
    BY <2>3 DEF Context
  <2> HIDE DEF z, r
  <2>7. MovesInTask(r, c, 1)
    BY <2>1, <2>2, <2>5, <2>6 DEF MovesInTask
  <2> QED
    BY <2>7 DEF r
<1>2. CASE c.direct /\ kind = "manifest"
  <2> DEFINE y == Deeper(c)
  <2>1. MovesInTask(y, c, 1)
    BY DeeperMoves
  <2> DEFINE z == [y EXCEPT !.in_manifest = TRUE]
  <2>2. r = z
    BY <1>2 DEF StartInTask
  <2> HIDE DEF y
  <2>3. y \in Context
    BY <2>1 DEF MovesInTask
  <2>4. z \in Context
    BY ZenonT(40), <2>3 DEF Context
  <2>5. z.state = y.state /\ z.stack = y.stack /\ z.node_depth = y.node_depth /\ z.task = y.task
    BY <2>3 DEF Context
  <2> HIDE DEF z, r
  <2>6. MovesInTask(r, c, 1)
    BY <2>1, <2>2, <2>4, <2>5 DEF MovesInTask
  <2> QED
    BY <2>6 DEF r
<1>3. CASE c.direct /\ kind = "attribute" /\ c.in_manifest
  <2>1. r = Deeper(Record(c, e, c.task))
    BY <1>3 DEF StartInTask
  <2> QED
    BY <2>1, RecordKeeps, DeeperMoves DEF SameCounters
<1>4. CASE c.direct /\ kind = "fileset" /\ ~c.in_manifest
  <2> DEFINE y == Record(c, e, c.task)
  <2>1. y \in Context /\ y.state = c.state /\ y.stack = c.stack /\ SameCounters(y, c)
    BY RecordKeeps
  <2> DEFINE filesets == Append(y.filesets, e)
  <2> DEFINE x == [y EXCEPT !.filesets = filesets]
  <2>2. r = BeginFileset(x, e, e)
    BY <1>4 DEF StartInTask
  <2> HIDE DEF y
  <2>3. filesets \in Seq(Elements)
    <3>1. y.filesets \in Seq(Elements)
      BY <2>1 DEF Context
    <3> QED
      BY <3>1
  <2> HIDE DEF filesets
  <2>4. x \in Context
    BY ZenonT(40), <2>1, <2>3 DEF Context
  <2>5. x.state = y.state /\ x.stack = y.stack /\ x.node_depth = y.node_depth /\ x.task = y.task
    BY <2>1 DEF Context
  <2> HIDE DEF x
  <2>6. Begins(BeginFileset(x, e, e), x, "FILESET", e)
    BY <1>0, <2>4, FilesetBegins
  <2> HIDE DEF r
  <2>7. Begins(r, c, "FILESET", e)
    BY <2>1, <2>2, <2>5, <2>6, BeginsFrom DEF SameCounters
  <2> QED
    BY <1>4, <2>7 DEF r
<1>5. CASE c.direct /\ kind = "path" /\ ~c.in_manifest
  <2>1. r = BeginPath(c, e)
    BY <1>5 DEF StartInTask
  <2> QED
    BY <1>0, <2>1, PathBegins
<1>6. CASE c.direct /\ kind \in {"refpath", "arg"} /\ ~c.in_manifest
  <2>1. r = Deeper(Record(c, e, c.task))
    BY <1>6 DEF StartInTask
  <2> QED
    BY <2>1, RecordKeeps, DeeperMoves DEF SameCounters
<1>7. CASE c.direct /\ kind = "include" /\ ~c.in_manifest
  <2>1. r = Deeper(IncludeInTask(c, e))
    BY <1>7 DEF StartInTask
  <2> QED
    BY <2>1, IncludeInTaskKeeps, DeeperMoves DEF SameCounters
<1>8. CASE c.direct /\ kind = "or" /\ ~c.in_manifest
  <2>1. r = BeginSelector(c, e, c.fileset)
    BY <1>8 DEF StartInTask
  <2> QED
    BY <1>0, <2>1, SelectorBegins
<1>9. CASE /\ c.direct /\ kind # "manifest" /\ ~(kind = "attribute" /\ c.in_manifest)
           /\ ~(/\ kind \in {"fileset", "path", "refpath", "arg", "include", "or"}
                /\ ~c.in_manifest)
  <2>1. r = Deeper(c)
    BY <1>9 DEF StartInTask
  <2> QED
    BY <2>1, DeeperMoves
<1> QED
  BY <1>0, <1>1, <1>2, <1>3, <1>4, <1>5, <1>6, <1>7, <1>8, <1>9

LEMMA StartInPathMoves ==
  ASSUME NEW c \in Context, NEW e \in Elements, NEW kind, c.state = "PATH"
  PROVE  Moves(StartInPath(c, e, kind), c, 1)
<1> DEFINE r == StartInPath(c, e, kind)
<1> DEFINE n == c.path_depth + 1
<1> DEFINE d == [c EXCEPT !.path_depth = n]
<1>1. n = c.path_depth + 1
  OBVIOUS
<1>0. n \in Nat
  BY ContextFields
<1>2. /\ kind = "include" /\ c.fileset # None => r = Record(d, e, c.fileset)
      /\ kind = "pathelement" => r = [d EXCEPT !.list = Append(@, e)]
      /\ kind = "fileset" => r = [d EXCEPT !.list = Append(@, e), !.fileset = e]
      /\ kind = "inline" => r = [d EXCEPT !.lists = Append(@, c.list), !.list = <<>>, !.path = e]
      /\ ~(\/ kind = "include" /\ c.fileset # None
           \/ kind \in {"pathelement", "fileset", "inline"}) => r = d
  BY DEF StartInPath
<1> HIDE DEF n, r
<1>3. d \in Context
  BY <1>0 DEF Context
<1>4. /\ d.state = c.state /\ d.stack = c.stack /\ d.path_depth = n
      /\ d.node_depth = c.node_depth /\ d.task = c.task
  BY DEF Context
<1> HIDE DEF d
<1>5. SUFFICES r \in Context /\ r.state = d.state /\ r.stack = d.stack /\ SameCounters(r, d)
  BY <1>1, <1>4, DepthByState DEF r, Moves, SameCounters
<1>6. d.list \in Seq(Elements) /\ d.lists \in Seq(Seq(Elements)) /\ c.list \in Seq(Elements)
  BY <1>3 DEF Context
<1> DEFINE t == Append(d.list, e)
<1> DEFINE ts == Append(d.lists, c.list)
<1> DEFINE none == <<>>
<1>7. t \in Seq(Elements) /\ ts \in Seq(Seq(Elements)) /\ none \in Seq(Elements)
  BY <1>6, EmptySequence
<1>8. e \in Elements \cup {None}
  OBVIOUS
<1>9. CASE kind = "include" /\ c.fileset # None
  BY <1>2, <1>3, <1>9, RecordKeeps
<1>10. CASE kind = "pathelement"
  <2>1. r = [d EXCEPT !.list = t]
    BY <1>2, <1>10
  <2> HIDE DEF t
  <2>2. r \in Context
    BY <1>3, <1>7, <2>1 DEF Context
  <2>3. r.state = d.state /\ r.stack = d.stack /\ SameCounters(r, d)
    BY <1>3, <2>1 DEF Context, SameCounters
  <2> QED
    BY <2>2, <2>3
<1>11. CASE kind = "fileset"
  <2>1. r = [d EXCEPT !.list = t, !.fileset = e]
    BY <1>2, <1>11
  <2> HIDE DEF t
  <2>2. r \in Context
    BY <1>3, <1>7, <1>8, <2>1 DEF Context
  <2>3. r.state = d.state /\ r.stack = d.stack /\ SameCounters(r, d)
    BY <1>3, <2>1 DEF Context, SameCounters
  <2> QED
    BY <2>2, <2>3
<1>12. CASE kind = "inline"
  <2>1. r = [d EXCEPT !.lists = ts, !.list = none, !.path = e]
    BY <1>2, <1>12
  <2> HIDE DEF ts, none
  <2>2. r \in Context
    BY <1>3, <1>7, <1>8, <2>1 DEF Context
  <2>3. r.state = d.state /\ r.stack = d.stack /\ SameCounters(r, d)
    BY <1>3, <2>1 DEF Context, SameCounters
  <2> QED
    BY <2>2, <2>3
<1>13. CASE ~(\/ kind = "include" /\ c.fileset # None
              \/ kind \in {"pathelement", "fileset", "inline"})
  BY <1>2, <1>3, <1>13 DEF SameCounters
<1> QED
  BY <1>9, <1>10, <1>11, <1>12, <1>13

LEMMA StartInFilesetDoes ==
  ASSUME NEW c \in Context, NEW e \in Elements, NEW kind, c.state = "FILESET"
  PROVE  LET r == StartInFileset(c, e, kind) IN
         Moves(r, c, 1) \/ (Begins(r, c, "SELECTOR", c.fileset) /\ kind = "or")
<1> DEFINE r == StartInFileset(c, e, kind)
<1> DEFINE n == c.fileset_depth + 1
<1> DEFINE d == [c EXCEPT !.fileset_depth = n]
<1>0. n \in Int
  BY ContextFields
<1>1. n = c.fileset_depth + 1 /\ c.fileset \in Elements \cup {None}
  BY DEF Context
<1>2. /\ kind = "include" /\ c.fileset # None => r = Record(d, e, c.fileset)
      /\ kind = "or" /\ c.fileset # None => r = BeginSelector(d, e, c.fileset)
      /\ ~(kind \in {"include", "or"} /\ c.fileset # None) => r = d
  BY DEF StartInFileset
<1> HIDE DEF n, r
<1>3. d \in Context
  BY <1>0 DEF Context
<1>4. /\ d.state = c.state /\ d.stack = c.stack /\ d.fileset_depth = n
      /\ d.node_depth = c.node_depth /\ d.task = c.task
  BY DEF Context
<1> HIDE DEF d
<1>5. CASE kind = "or" /\ c.fileset # None
  <2>1. Begins(BeginSelector(d, e, c.fileset), d, "SELECTOR", c.fileset)
    BY <1>1, <1>3, SelectorBegins
  <2>2. Begins(r, d, "SELECTOR", c.fileset)
    BY <1>2, <1>5, <2>1
  <2>3. Begins(r, c, "SELECTOR", c.fileset)
    BY <1>4, <2>2, BeginsFrom
  <2> QED
    BY <1>5, <2>3 DEF r
<1>6. CASE ~(kind = "or" /\ c.fileset # None)
  <2>1. r \in Context /\ r.state = d.state /\ r.stack = d.stack /\ SameCounters(r, d)
    <3>1. CASE kind = "include" /\ c.fileset # None
      BY <1>2, <1>3, <3>1, RecordKeeps
    <3>2. CASE ~(kind = "include" /\ c.fileset # None)
      BY <1>2, <1>3, <1>6, <3>2 DEF SameCounters
    <3> QED
      BY <3>1, <3>2
  <2>2. Moves(r, c, 1)
    BY <1>1, <1>4, <2>1, DepthByState DEF Moves, SameCounters
  <2> QED
    BY <2>2 DEF r
<1> QED
  BY <1>5, <1>6

LEMMA StartInSelectorMoves ==
  ASSUME NEW c \in Context, NEW e \in Elements, c.state = "SELECTOR", c.selector # None
  PROVE  Moves(StartInSelector(c, e), c, 1)
<1> DEFINE t == Append(c.selectors, c.selector)
<1> DEFINE r == [c EXCEPT !.selectors = t, !.selector = e]
<1>1. t \in Seq(Elements) /\ Len(t) = Len(c.selectors) + 1 /\ Len(c.selectors) \in Nat
  BY ContextFields
<1>2. StartInSelector(c, e) = r
  BY DEF StartInSelector
<1>3. e \in Elements \cup {None} /\ e # None
  BY ElementTypes
<1> HIDE DEF t
<1>4. r \in Context
  BY <1>1, <1>3 DEF Context
<1>5. /\ r.state = c.state /\ r.stack = c.stack /\ r.selectors = t /\ r.selector = e
      /\ r.node_depth = c.node_depth /\ r.task = c.task
  BY DEF Context
<1> HIDE DEF r
<1>6. Moves(r, c, 1)
  BY <1>1, <1>3, <1>4, <1>5, DepthByState DEF Moves
<1> QED
  BY <1>2, <1>6

LEMMA SkipMoves ==
  ASSUME NEW c \in Context, c.state = "SKIP"
  PROVE  Moves([c EXCEPT !.skip_depth = @ + 1], c, 1)
<1> DEFINE n == c.skip_depth + 1
<1> DEFINE r == [c EXCEPT !.skip_depth = n]
<1>1. n = c.skip_depth + 1
  OBVIOUS
<1>0. n \in Nat
  BY ContextFields
<1> HIDE DEF n
<1>2. r \in Context
  BY <1>0 DEF Context
<1>3. /\ r.state = c.state /\ r.stack = c.stack /\ r.skip_depth = n
      /\ r.node_depth = c.node_depth /\ r.task = c.task
  BY DEF Context
<1> HIDE DEF r
<1>4. Moves(r, c, 1)
  BY <1>1, <1>2, <1>3, DepthByState DEF Moves
<1> QED
  BY <1>4 DEF r, n

-----------------------------------------------------------------------------
(* What a closing tag does                                                 *)

\* The parser leaves the object it is in, or comes one out of its depth.
Leaves(r, c) ==
    IF Depth(c) = 1
    THEN Popped(r, c) /\ r.node_depth = c.node_depth /\ r.task = c.task
    ELSE Moves(r, c, -1)

\* Popping after a change that the stack does not depend on.
LEMMA PopLeaves ==
  ASSUME NEW c \in Context, NEW x \in Context, c.stack # <<>>, Depth(c) = 1,
         x.stack = c.stack, x.node_depth = c.node_depth, x.task = c.task
  PROVE  Leaves(Pop(x), c)
<1> DEFINE r == Pop(x)
<1>1. Popped(r, x) /\ SameCounters(r, x)
  BY PopPops
<1> HIDE DEF r
<1>2. Popped(r, c) /\ r.node_depth = c.node_depth /\ r.task = c.task
  BY <1>1 DEF Popped, SameCounters
<1> QED
  BY <1>2 DEF Leaves, r

LEMMA EndSkipLeaves ==
  ASSUME NEW c \in Context, c.state = "SKIP", c.stack # <<>>, c.skip_depth > 0
  PROVE  Leaves(EndSkip(c), c)
<1> DEFINE n == c.skip_depth - 1
<1> DEFINE d == [c EXCEPT !.skip_depth = n]
<1>0. n \in Nat
  BY ContextFields
<1>1. n = c.skip_depth - 1 /\ c.skip_depth \in Nat
  BY ContextFields
<1> HIDE DEF n
<1>2. d \in Context
  BY <1>0 DEF Context
<1>3. /\ d.state = c.state /\ d.stack = c.stack /\ d.skip_depth = n
      /\ d.node_depth = c.node_depth /\ d.task = c.task
  BY DEF Context
<1>4. EndSkip(c) = IF d.skip_depth = 0 THEN Pop(d) ELSE d
  BY DEF EndSkip, n
<1> HIDE DEF d
<1>5. Depth(c) = c.skip_depth /\ Depth(d) = n
  BY <1>3, DepthByState
<1>6. CASE n = 0
  <2>1. Depth(c) = 1
    BY <1>1, <1>5, <1>6
  <2> QED
    BY <1>2, <1>3, <1>4, <1>6, <2>1, PopLeaves
<1>7. CASE n # 0
  <2>1. Depth(c) # 1 /\ Depth(d) = Depth(c) + (-1)
    BY <1>0, <1>1, <1>5, <1>7
  <2>2. Moves(d, c, -1)
    BY <1>2, <1>3, <2>1 DEF Moves
  <2> QED
    BY <1>3, <1>4, <1>7, <2>1, <2>2 DEF Leaves
<1> QED
  BY <1>6, <1>7

LEMMA EndFilesetLeaves ==
  ASSUME NEW c \in Context, c.state = "FILESET", c.stack # <<>>
  PROVE  Leaves(EndFileset(c), c)
<1> DEFINE n == c.fileset_depth - 1
<1> DEFINE d == [c EXCEPT !.fileset_depth = n]
<1>0. n \in Int
  BY ContextFields
<1>1. n = c.fileset_depth - 1 /\ c.fileset_depth \in Int
  BY ContextFields
<1> HIDE DEF n
<1>2. d \in Context
  BY <1>0 DEF Context
<1>3. /\ d.state = c.state /\ d.stack = c.stack /\ d.fileset_depth = n
      /\ d.node_depth = c.node_depth /\ d.task = c.task
  BY DEF Context
<1> DEFINE y == IF d.fileset_id # None /\ d.fileset # None
                THEN Record(d, d.fileset, Project) ELSE d
<1> DEFINE x == [y EXCEPT !.fileset_id = None, !.fileset = None]
<1>4. EndFileset(c) = IF d.fileset_depth # 0 THEN d ELSE Pop(x)
  BY DEF EndFileset, n
<1> HIDE DEF d
<1>5. Depth(c) = c.fileset_depth /\ Depth(d) = n
  BY <1>3, DepthByState
<1>6. CASE n = 0
  <2>1. Depth(c) = 1
    BY <1>1, <1>5, <1>6
  <2>2. y \in Context /\ y.stack = d.stack /\ SameCounters(y, d)
    <3>1. CASE d.fileset_id # None /\ d.fileset # None
      <4>1. d.fileset \in Elements
        BY <1>2, <3>1 DEF Context
      <4> QED
        BY <1>2, <3>1, <4>1, RecordKeeps
    <3>2. CASE ~(d.fileset_id # None /\ d.fileset # None)
      BY <1>2, <3>2 DEF SameCounters
    <3> QED
      BY <3>1, <3>2
  <2> HIDE DEF y
  <2>3. None \in Elements \cup {None}
    OBVIOUS
  <2>4. x \in Context
    BY <2>2, <2>3 DEF Context
  <2>5. x.stack = y.stack /\ x.node_depth = y.node_depth /\ x.task = y.task
    BY <2>2 DEF Context
  <2> HIDE DEF x
  <2>6. x.stack = c.stack /\ x.node_depth = c.node_depth /\ x.task = c.task
    BY <1>3, <2>2, <2>5 DEF SameCounters
  <2> QED
    BY <1>3, <1>4, <1>6, <2>1, <2>4, <2>6, PopLeaves
<1>7. CASE n # 0
  <2>1. Depth(c) # 1 /\ Depth(d) = Depth(c) + (-1)
    BY <1>0, <1>1, <1>5, <1>7
  <2>2. Moves(d, c, -1)
    BY <1>2, <1>3, <2>1 DEF Moves
  <2> HIDE DEF x
  <2> QED
    BY <1>3, <1>4, <1>7, <2>1, <2>2 DEF Leaves
<1> QED
  BY <1>6, <1>7

LEMMA EndSelectorLeaves ==
  ASSUME NEW c \in Context, c.state = "SELECTOR", c.stack # <<>>, c.selector # None
  PROVE  Leaves(EndSelector(c), c)
<1>1. c.selector \in Elements /\ c.selectors \in Seq(Elements) /\ Len(c.selectors) \in Nat
  BY ContextFields
<1>2. Depth(c) = Len(c.selectors) + 1
  BY DepthByState
<1>3. CASE c.selectors # <<>>
  <2> DEFINE p == Last(c.selectors)
  <2> DEFINE t == Front(c.selectors)
  <2>1. p \in Elements /\ p # None
    BY <1>1, <1>3, ElementTypes DEF Last
  <2>2. t \in Seq(Elements) /\ Len(t) = Len(c.selectors) - 1 /\ Len(c.selectors) > 0
    BY <1>1, <1>3 DEF Front
  <2> DEFINE y == Record(c, c.selector, p)
  <2> DEFINE r == [y EXCEPT !.selector = p, !.selectors = t]
  <2>3. EndSelector(c) = [y EXCEPT !.selector = p, !.selectors = Front(@)]
    BY <1>3 DEF EndSelector
  <2> HIDE DEF p
  <2>4. /\ y \in Context /\ y.state = c.state /\ y.stack = c.stack
        /\ SameCounters(y, c)
    BY <1>1, RecordKeeps
  <2> HIDE DEF y
  <2>5. EndSelector(c) = r
    BY <2>3, <2>4 DEF SameCounters
  <2> HIDE DEF t
  <2>6. p \in Elements \cup {None}
    BY <2>1
  <2>7. r \in Context
    BY ZenonT(40), <2>2, <2>4, <2>6 DEF Context
  <2>8. /\ r.state = y.state /\ r.stack = y.stack /\ r.selector = p /\ r.selectors = t
        /\ r.node_depth = y.node_depth /\ r.task = y.task
    BY <2>4 DEF Context
  <2> HIDE DEF r
  <2>9. Depth(r) = Len(t) + 1
    BY <2>4, <2>8, DepthByState
  <2>10. Depth(c) # 1 /\ Depth(r) = Depth(c) + (-1)
    BY <1>1, <1>2, <2>2, <2>9
  <2>11. Moves(r, c, -1)
    BY <2>1, <2>4, <2>7, <2>8, <2>10 DEF Moves, SameCounters
  <2> QED
    BY <2>5, <2>10, <2>11 DEF Leaves
<1>4. CASE c.selectors = <<>>
  <2> DEFINE owner == IF c.selector_id # None THEN Project
                      ELSE IF Last(c.stack).data # None THEN Last(c.stack).data ELSE c.task
  <2> DEFINE y == IF owner # None /\ c.selector # None THEN Record(c, c.selector, owner) ELSE c
  <2> DEFINE x == [y EXCEPT !.selector_id = None, !.selector = None]
  <2>1. EndSelector(c) = Pop(x)
    BY <1>4 DEF EndSelector
  <2>2. y \in Context /\ y.stack = c.stack /\ SameCounters(y, c)
    <3> HIDE DEF owner
    <3>1. CASE owner # None
      BY <1>1, <3>1, RecordKeeps
    <3>2. CASE owner = None
      BY <3>2 DEF SameCounters
    <3> QED
      BY <3>1, <3>2
  <2> HIDE DEF y
  <2>3. None \in Elements \cup {None}
    OBVIOUS
  <2>4. x \in Context
    BY <2>2, <2>3 DEF Context
  <2>5. x.stack = y.stack /\ x.node_depth = y.node_depth /\ x.task = y.task
    BY <2>2 DEF Context
  <2> HIDE DEF x
  <2>6. x.stack = c.stack /\ x.node_depth = c.node_depth /\ x.task = c.task
    BY <2>2, <2>5 DEF SameCounters
  <2>7. Depth(c) = 1
    BY <1>2, <1>4
  <2> QED
    BY <2>1, <2>4, <2>6, <2>7, PopLeaves
<1> QED
  BY <1>3, <1>4

LEMMA PathRecordedKeeps ==
  ASSUME NEW c \in Context, c.stack # <<>>,
         Last(c.stack).state = "TASK" => Last(c.stack).data # None
  PROVE  LET r == PathRecorded(c) IN
         r \in Context /\ r.state = c.state /\ r.stack = c.stack /\ SameCounters(r, c)
<1> DEFINE data == Last(c.stack).data
<1> DEFINE ofTask == Last(c.stack).state = "TASK" /\ c.task # None
<1> DEFINE r == PathRecorded(c)
<1>1. c.list \in Seq(Elements) /\ c.path_id \in Elements \cup {None}
      /\ c.children \in [Elements -> Seq(Elements)]
  BY DEF Context
<1>2. data \in Elements \cup {None}
  <2>1. Last(c.stack) \in Entry
    BY ContextFields DEF Last
  <2> QED
    BY <2>1 DEF Entry
\* The path's list becomes its content, and the path somebody's child.
<1>3. ASSUME NEW e \in Elements, NEW p
      PROVE  LET y == Record([c EXCEPT !.children[e] = c.list], e, p) IN
             y \in Context /\ y.state = c.state /\ y.stack = c.stack /\ SameCounters(y, c)
  <2> DEFINE f == [c.children EXCEPT ![e] = c.list]
  <2>1. f \in [Elements -> Seq(Elements)]
    BY <1>1
  <2> DEFINE x == [c EXCEPT !.children = f]
  <2>2. [c EXCEPT !.children[e] = c.list] = x
    OBVIOUS
  <2> HIDE DEF f
  <2>3. x \in Context
    BY <2>1 DEF Context
  <2>4. x.state = c.state /\ x.stack = c.stack /\ SameCounters(x, c)
    BY DEF Context, SameCounters
  <2> HIDE DEF x
  <2> DEFINE y == Record(x, e, p)
  <2>5. y \in Context /\ y.state = x.state /\ y.stack = x.stack /\ SameCounters(y, x)
    BY <2>3, RecordKeeps
  <2> HIDE DEF y
  <2>6. y \in Context /\ y.state = c.state /\ y.stack = c.stack /\ SameCounters(y, c)
    BY <2>4, <2>5 DEF SameCounters
  <2> QED
    BY <2>2, <2>6 DEF y
<1>4. CASE c.list # <<>> /\ ofTask
  <2>1. data \in Elements
    BY <1>2, <1>4
  <2>2. r = Record([c EXCEPT !.children[data] = c.list], data, c.task)
    BY <1>4 DEF PathRecorded
  <2> HIDE DEF data
  <2> QED
    BY <1>3, <2>1, <2>2
<1>5. CASE c.list # <<>> /\ ~ofTask /\ c.path_id # None
  <2>1. c.path_id \in Elements
    BY <1>1, <1>5
  <2>2. r = Record([c EXCEPT !.children[c.path_id] = c.list], c.path_id, Project)
    BY <1>5 DEF PathRecorded
  <2> QED
    BY <1>3, <2>1, <2>2
<1>6. CASE c.list = <<>> \/ (~ofTask /\ c.path_id = None)
  <2>1. r = c
    BY <1>6 DEF PathRecorded
  <2> QED
    BY <2>1 DEF SameCounters
<1> QED
  BY <1>4, <1>5, <1>6

LEMMA EndInlinePathKeeps ==
  ASSUME NEW c \in Context
  PROVE  LET r == EndInlinePath(c) IN
         r \in Context /\ r.state = c.state /\ r.stack = c.stack /\ SameCounters(r, c)
<1> DEFINE r == EndInlinePath(c)
<1>1. CASE c.lists = <<>>
  <2>1. r = c
    BY <1>1 DEF EndInlinePath
  <2> QED
    BY <2>1 DEF SameCounters
<1>2. CASE c.lists # <<>>
  <2>1. c.lists \in Seq(Seq(Elements)) /\ c.list \in Seq(Elements)
    BY DEF Context
  <2> DEFINE front == Front(c.lists)
  <2> DEFINE inner == IF c.path # None THEN c.list ELSE <<>>
  <2> DEFINE list == Last(c.lists) \o inner
  <2>2. front \in Seq(Seq(Elements))
    BY <1>2, <2>1 DEF Front
  <2>3. inner \in Seq(Elements)
    BY <2>1, EmptySequence
  <2>4. Last(c.lists) \in Seq(Elements)
    BY <1>2, <2>1 DEF Last
  <2> HIDE DEF inner
  <2>5. list \in Seq(Elements)
    BY <2>3, <2>4
  <2> DEFINE x == [c EXCEPT !.list = list, !.lists = front, !.path = None, !.fileset = None]
  <2>6. r = x
    BY <1>2 DEF EndInlinePath, inner
  <2> HIDE DEF list, front, r
  <2>7. None \in Elements \cup {None}
    OBVIOUS
  <2>8. r \in Context
    BY <2>2, <2>5, <2>6, <2>7 DEF Context
  <2>9. r.state = c.state /\ r.stack = c.stack /\ SameCounters(r, c)
    BY <2>6 DEF Context, SameCounters
  <2> QED
    BY <2>8, <2>9 DEF r
<1> QED
  BY <1>1, <1>2

LEMMA EndPathLeaves ==
  ASSUME NEW c \in Context, c.state = "PATH", c.stack # <<>>, c.path_depth > 0,
         Last(c.stack).state = "TASK" => Last(c.stack).data # None
  PROVE  Leaves(EndPath(c), c)
<1> DEFINE n == c.path_depth - 1
<1> DEFINE d == [c EXCEPT !.path_depth = n]
<1>0. n \in Nat
  BY ContextFields
<1>1. n = c.path_depth - 1 /\ c.path_depth \in Nat
  BY ContextFields
<1> HIDE DEF n
<1>2. d \in Context
  BY <1>0 DEF Context
<1>3. /\ d.state = c.state /\ d.stack = c.stack /\ d.path_depth = n
      /\ d.node_depth = c.node_depth /\ d.task = c.task
  BY DEF Context
<1> DEFINE y == PathRecorded(d)
<1> DEFINE none == <<>>
<1> DEFINE x == [y EXCEPT !.path_id = None, !.list = none, !.path = None, !.fileset = None]
<1>4. EndPath(c) = IF d.path_depth = 0 THEN Pop(x) ELSE EndInlinePath(d)
  BY DEF EndPath, n
<1> HIDE DEF d
<1>5. Depth(c) = c.path_depth /\ Depth(d) = n
  BY <1>3, DepthByState
<1>6. CASE n = 0
  <2>1. Depth(c) = 1
    BY <1>1, <1>5, <1>6
  <2>2. y \in Context /\ y.stack = d.stack /\ SameCounters(y, d)
    BY <1>2, <1>3, PathRecordedKeeps
  <2> HIDE DEF y
  <2>3. None \in Elements \cup {None} /\ none \in Seq(Elements)
    BY EmptySequence
  <2> HIDE DEF none
  <2>4. x \in Context
    BY <2>2, <2>3 DEF Context
  <2>5. x.stack = y.stack /\ x.node_depth = y.node_depth /\ x.task = y.task
    BY <2>2 DEF Context
  <2> HIDE DEF x
  <2>6. x.stack = c.stack /\ x.node_depth = c.node_depth /\ x.task = c.task
    BY <1>3, <2>2, <2>5 DEF SameCounters
  <2> QED
    BY <1>3, <1>4, <1>6, <2>1, <2>4, <2>6, PopLeaves
<1>7. CASE n # 0
  <2> DEFINE r == EndInlinePath(d)
  <2>1. r \in Context /\ r.state = d.state /\ r.stack = d.stack /\ SameCounters(r, d)
    BY <1>2, EndInlinePathKeeps
  <2> HIDE DEF r, x
  <2>2. Depth(r) = n
    BY <1>3, <2>1, DepthByState DEF SameCounters
  <2>3. Depth(c) # 1 /\ Depth(r) = Depth(c) + (-1)
    BY <1>0, <1>1, <1>5, <1>7, <2>2
  <2>4. Moves(r, c, -1)
    BY <1>3, <2>1, <2>3 DEF Moves, SameCounters
  <2> QED
    BY <1>3, <1>4, <1>7, <2>3, <2>4 DEF Leaves, r
<1> QED
  BY <1>6, <1>7

\* The parser leaves the task it is in, or comes one out of its depth.
LEMMA EndTaskDoes ==
  ASSUME NEW c \in Context, NEW kind, c.state = "TASK", c.stack # <<>>,
         c.node_depth > 0, c.task # None
  PROVE  LET r == EndTask(c, kind) IN
         IF c.node_depth = 1 THEN Popped(r, c) ELSE MovesInTask(r, c, -1)
<1> DEFINE r == EndTask(c, kind)
<1> DEFINE n == c.node_depth - 1
<1> DEFINE d == [c EXCEPT !.node_depth = n]
<1>0. n \in Nat
  BY ContextFields
<1>1. n = c.node_depth - 1 /\ c.node_depth \in Nat
  BY ContextFields
<1> HIDE DEF n
<1>2. d \in Context
  BY <1>0 DEF Context
<1>3. d.state = c.state /\ d.stack = c.stack /\ d.node_depth = n /\ d.task = c.task
  BY DEF Context
<1> DEFINE none == <<>>
<1> DEFINE y == Record(d, d.task, d.target)
<1> DEFINE x == [y EXCEPT !.nodes = none, !.task = None, !.fileset = None, !.direct = FALSE]
<1> DEFINE manifest == d.in_manifest /\ kind # "manifest"
<1> DEFINE fileset == IF kind = "fileset" THEN None ELSE d.fileset
<1> DEFINE depth == IF kind = "fileset" THEN 0 ELSE d.fileset_depth
<1> DEFINE u == [d EXCEPT !.in_manifest = manifest, !.fileset = fileset,
                          !.fileset_depth = depth]
<1> DEFINE front == Front(d.nodes)
<1> DEFINE v == [d EXCEPT !.nodes = front]
<1>4. r = IF d.node_depth = 0 THEN Pop(x) ELSE IF d.direct THEN u ELSE v
  BY DEF EndTask, n
<1> HIDE DEF d
<1>5. CASE n = 0
  <2>1. y \in Context /\ y.stack = d.stack
    <3>1. d.task \in Elements
      BY <1>2, <1>3, ContextFields
    <3> QED
      BY <1>2, <3>1, RecordKeeps
  <2> HIDE DEF y
  <2>2. None \in Elements \cup {None} /\ none \in Seq(Elements) /\ FALSE \in BOOLEAN
    BY EmptySequence
  <2> HIDE DEF none
  <2>3. x \in Context
    BY ZenonT(40), <2>1, <2>2 DEF Context
  <2>4. x.stack = y.stack
    BY <2>1 DEF Context
  <2> HIDE DEF x
  <2>5. Popped(Pop(x), x)
    BY <1>3, <2>1, <2>3, <2>4, PopPops
  <2> HIDE DEF r
  <2>6. r = Pop(x)
    BY <1>3, <1>4, <1>5
  <2>7. Popped(r, c)
    BY <1>3, <2>1, <2>4, <2>5, <2>6 DEF Popped
  <2> QED
    BY <1>1, <1>5, <2>7 DEF r
<1>6. CASE n # 0 /\ d.direct
  <2>1. manifest \in BOOLEAN
    BY <1>2 DEF Context
  <2>2. fileset \in Elements \cup {None}
    <3>1. d.fileset \in Elements \cup {None}
      BY <1>2 DEF Context
    <3> QED
      BY <3>1
  <2>3. depth \in Int
    <3>1. d.fileset_depth \in Int
      BY <1>2 DEF Context
    <3> QED
      BY <3>1
  <2> HIDE DEF manifest, fileset, depth
  <2>4. u \in Context
    BY ZenonT(40), <1>2, <2>1, <2>2, <2>3 DEF Context
  <2>5. /\ u.state = d.state /\ u.stack = d.stack
        /\ u.node_depth = d.node_depth /\ u.task = d.task
    BY <1>2 DEF Context
  <2> HIDE DEF u, r, x, v
  <2>6. r = u
    BY <1>3, <1>4, <1>6
  <2>7. c.node_depth # 1 /\ n = c.node_depth + (-1)
    BY <1>1, <1>6
  <2>8. MovesInTask(r, c, -1)
    BY <1>3, <2>4, <2>5, <2>6, <2>7 DEF MovesInTask
  <2> QED
    BY <2>7, <2>8 DEF r
<1>7. CASE n # 0 /\ ~d.direct
  <2>1. front \in Seq(Elements)
    <3>1. d.nodes \in Seq(Elements)
      BY <1>2 DEF Context
    <3> QED
      BY <3>1 DEF Front
  <2> HIDE DEF front
  <2>2. v \in Context
    BY ZenonT(40), <1>2, <2>1 DEF Context
  <2>3. /\ v.state = d.state /\ v.stack = d.stack
        /\ v.node_depth = d.node_depth /\ v.task = d.task
    BY <1>2 DEF Context
  <2> HIDE DEF v, r, x, u
  <2>4. r = v
    BY <1>3, <1>4, <1>7
  <2>5. c.node_depth # 1 /\ n = c.node_depth + (-1)
    BY <1>1, <1>7
  <2>6. MovesInTask(r, c, -1)
    BY <1>3, <2>2, <2>3, <2>4, <2>5 DEF MovesInTask
  <2> QED
    BY <2>5, <2>6 DEF r
<1> QED
  BY <1>5, <1>6, <1>7

-----------------------------------------------------------------------------
(* The stack and the objects, from tag to tag                              *)

Sound(c) == c \in Context /\ StackShape(c) /\ ObjectsThere(c)

LEMMA BeginsSound ==
  ASSUME NEW c, Sound(c), NEW r, NEW s, NEW d, Begins(r, c, s, d),
         \/ c.state = "ROOT" /\ s = "SKIP"
         \/ c.state = "PROJECT"
         \/ c.state = "TASK" /\ s # "SKIP" /\ (s = "PATH" => d # None)
         \/ c.state = "FILESET" /\ s = "SELECTOR"
  PROVE  Sound(r)
<1>1. c \in Context /\ c.stack \in Seq(Entry) /\ r \in Context /\ r.stack \in Seq(Entry)
  BY ContextFields DEF Sound, Begins, Pushed
<1>2. Len(c.stack) \in Nat /\ Len(r.stack) = Len(c.stack) + 1
      /\ r.stack # <<>>
  BY <1>1 DEF Begins, Pushed
<1>3. r.state = s /\ s \in Objects
  BY DEF Begins, Pushed
<1>4. r.stack[Len(c.stack) + 1].state = c.state /\ r.stack[Len(c.stack) + 1].data = d
  BY DEF Begins, Pushed
<1>5. Last(r.stack).data = d
  BY <1>2, <1>4 DEF Last
<1>6. \A i \in 1..Len(c.stack) : r.stack[i] = c.stack[i]
  BY DEF Begins, Pushed
<1>7. s = "SKIP" => r.skip_depth = 1
  BY <1>3, DepthByState DEF Begins
<1>8. s = "PATH" => r.path_depth = 1
  BY <1>3, DepthByState DEF Begins
<1>9. /\ s = "SELECTOR" => r.selector # None
      /\ r.node_depth = c.node_depth /\ r.task = c.task
  BY <1>3 DEF Begins
<1>10. CASE c.state \in {"ROOT", "PROJECT"}
  <2>1. Len(c.stack) = 0
    BY <1>10 DEF Sound, StackShape
  <2>2. r.stack[1].state = c.state
    BY <1>4, <2>1
  <2>3. StackShape(r)
    BY <1>2, <1>3, <1>10, <2>1, <2>2 DEF StackShape, Objects
  <2>4. ~ReadingTask(r)
    BY <1>10, <2>2 DEF ReadingTask
  <2> QED
    BY <1>1, <1>3, <1>7, <1>8, <1>9, <2>3, <2>4 DEF Sound, ObjectsThere
<1>11. CASE c.state = "TASK"
  <2>1. Len(c.stack) = 1 /\ ReadingTask(c)
    BY <1>11 DEF Sound, StackShape
  <2>2. r.stack[2].state = "TASK" /\ r.stack[1] = c.stack[1]
    BY <1>4, <1>6, <1>11, <2>1
  <2>3. ReadingTask(r)
    BY <1>2, <2>1, <2>2 DEF ReadingTask
  <2>4. StackShape(r)
    BY <1>2, <1>3, <1>11, <2>1, <2>2, <2>3 DEF StackShape, Objects
  <2>5. c.task # None /\ c.node_depth > 0
    BY <2>1 DEF Sound, ObjectsThere
  <2> QED
    BY <1>1, <1>3, <1>5, <1>7, <1>8, <1>9, <1>11, <2>4, <2>5 DEF Sound, ObjectsThere
<1>12. CASE c.state = "FILESET"
  <2>1. s = "SELECTOR" /\ s # "SKIP" /\ s # "PATH"
    BY <1>12
  <2>2. \/ Len(c.stack) = 1 /\ c.stack[1].state = "PROJECT"
        \/ Len(c.stack) = 2 /\ ReadingTask(c) /\ c.stack[2].state = "TASK"
    BY <1>12 DEF Sound, StackShape
  <2>3. ReadingTask(r) <=> ReadingTask(c)
    <3>1. r.stack[1] = c.stack[1] /\ c.stack # <<>>
      BY <1>1, <1>6, <2>2
    <3> QED
      BY <1>2, <3>1 DEF ReadingTask
  <2>4. StackShape(r)
    <3>1. CASE Len(c.stack) = 1 /\ c.stack[1].state = "PROJECT"
      <4>1. r.stack[1].state = "PROJECT" /\ r.stack[2].state = "FILESET" /\ Len(r.stack) = 2
        BY <1>2, <1>4, <1>6, <1>12, <3>1
      <4> QED
        BY <1>3, <2>1, <4>1 DEF StackShape
    <3>2. CASE Len(c.stack) = 2 /\ ReadingTask(c) /\ c.stack[2].state = "TASK"
      <4>1. r.stack[2].state = "TASK" /\ r.stack[3].state = "FILESET" /\ Len(r.stack) = 3
        BY <1>2, <1>4, <1>6, <1>12, <3>2
      <4> QED
        BY <1>3, <2>1, <2>3, <3>2, <4>1 DEF StackShape
    <3> QED
      BY <2>2, <3>1, <3>2
  <2>5. ObjectsThere(r)
    <3>1. ReadingTask(c) => c.task # None /\ c.node_depth > 0
      BY DEF Sound, ObjectsThere
    <3> QED
      BY <1>3, <1>9, <2>1, <2>3, <3>1 DEF ObjectsThere
  <2> QED
    BY <1>1, <2>4, <2>5 DEF Sound
<1> QED
  BY <1>10, <1>11, <1>12

LEMMA MovesSound ==
  ASSUME NEW c, Sound(c), NEW r, NEW n, Moves(r, c, n), c.state \in Objects,
         c.state \in {"SKIP", "PATH"} => Depth(c) + n > 0
  PROVE  Sound(r)
<1>1. r \in Context /\ r.state = c.state /\ r.stack = c.stack
      /\ r.node_depth = c.node_depth /\ r.task = c.task /\ Depth(r) = Depth(c) + n
      /\ (r.state = "SELECTOR" => r.selector # None)
  BY DEF Moves
<1>2. /\ r.state = "SKIP" => r.skip_depth > 0
      /\ r.state = "PATH" => r.path_depth > 0
  BY <1>1, DepthByState
<1>3. ReadingTask(r) <=> ReadingTask(c)
  BY <1>1 DEF ReadingTask
<1>4. StackShape(r)
  BY <1>1, <1>3 DEF Sound, StackShape
<1>5. ObjectsThere(r)
  BY <1>1, <1>2, <1>3 DEF Sound, ObjectsThere
<1> QED
  BY <1>1, <1>4, <1>5 DEF Sound

LEMMA MovesInTaskSound ==
  ASSUME NEW c, Sound(c), NEW r, NEW n, MovesInTask(r, c, n), c.state = "TASK",
         c.node_depth + n > 0
  PROVE  Sound(r)
<1>1. r \in Context /\ r.state = "TASK" /\ r.stack = c.stack
      /\ r.node_depth > 0 /\ r.task = c.task
  BY DEF MovesInTask
<1>2. Len(c.stack) = 1 /\ ReadingTask(c)
  BY DEF Sound, StackShape
<1>3. ReadingTask(r)
  BY <1>1, <1>2 DEF ReadingTask
<1>4. StackShape(r)
  BY <1>1, <1>2, <1>3 DEF StackShape
<1>5. c.task # None
  BY <1>2 DEF Sound, ObjectsThere
<1>6. ObjectsThere(r)
  BY <1>1, <1>5 DEF ObjectsThere
<1> QED
  BY <1>1, <1>4, <1>6 DEF Sound

\* Leaving an object goes back to the project, the task or the fileset below.
LEMMA PoppedObjectSound ==
  ASSUME NEW c, Sound(c), NEW r, Popped(r, c), c.state \in Objects,
         r.node_depth = c.node_depth, r.task = c.task
  PROVE  Sound(r)
<1>1. c.stack \in Seq(Entry) /\ r \in Context /\ r.stack \in Seq(Entry)
  BY ContextFields DEF Sound, Popped
<1>2. /\ r.state = c.stack[Len(c.stack)].state
      /\ Len(r.stack) = Len(c.stack) - 1
      /\ \A i \in 1..Len(c.stack) - 1 : r.stack[i] = c.stack[i]
  BY DEF Popped
<1>3. ReadingTask(c) => c.task # None /\ c.node_depth > 0
  BY DEF Sound, ObjectsThere
<1>4. CASE Len(c.stack) = 1 /\ c.stack[1].state \in {"ROOT", "PROJECT"}
  <2>1. r.state \in {"ROOT", "PROJECT"} /\ Len(r.stack) = 0 /\ r.stack = <<>>
    BY <1>1, <1>2, <1>4
  <2> QED
    BY <1>1, <2>1 DEF Sound, StackShape, ObjectsThere, ReadingTask
<1>5. CASE Len(c.stack) = 2 /\ ReadingTask(c) /\ c.stack[2].state = "TASK"
  <2>1. r.state = "TASK" /\ Len(r.stack) = 1 /\ r.stack[1] = c.stack[1] /\ r.stack # <<>>
    BY <1>1, <1>2, <1>5
  <2>2. ReadingTask(r)
    BY <1>5, <2>1 DEF ReadingTask
  <2> QED
    BY <1>1, <1>3, <1>5, <2>1, <2>2 DEF Sound, StackShape, ObjectsThere
<1>6. CASE /\ Len(c.stack) = 2
           /\ c.stack[1].state = "PROJECT" /\ c.stack[2].state = "FILESET"
  <2>1. /\ r.state = "FILESET" /\ Len(r.stack) = 1 /\ r.stack[1] = c.stack[1]
        /\ r.stack[1].state = "PROJECT"
    BY <1>1, <1>2, <1>6
  <2>2. ~ReadingTask(r)
    BY <2>1 DEF ReadingTask
  <2> QED
    BY <1>1, <2>1, <2>2 DEF Sound, StackShape, ObjectsThere
<1>7. CASE /\ Len(c.stack) = 3 /\ ReadingTask(c)
           /\ c.stack[2].state = "TASK" /\ c.stack[3].state = "FILESET"
  <2>1. /\ r.state = "FILESET" /\ Len(r.stack) = 2 /\ r.stack[1] = c.stack[1]
        /\ r.stack[2].state = "TASK" /\ r.stack # <<>>
    BY <1>1, <1>2, <1>7
  <2>2. ReadingTask(r)
    BY <1>7, <2>1 DEF ReadingTask
  <2> QED
    BY <1>1, <1>3, <1>7, <2>1, <2>2 DEF Sound, StackShape, ObjectsThere
<1>8. \/ Len(c.stack) = 1 /\ c.stack[1].state \in {"ROOT", "PROJECT"}
      \/ Len(c.stack) = 2 /\ ReadingTask(c) /\ c.stack[2].state = "TASK"
      \/ /\ Len(c.stack) = 2
         /\ c.stack[1].state = "PROJECT" /\ c.stack[2].state = "FILESET"
      \/ /\ Len(c.stack) = 3 /\ ReadingTask(c)
         /\ c.stack[2].state = "TASK" /\ c.stack[3].state = "FILESET"
  BY DEF Sound, StackShape, Objects
<1> QED
  BY <1>4, <1>5, <1>6, <1>7, <1>8

\* What start_element does in each state.
LEMMA StartElementByState ==
  ASSUME NEW c, NEW e, NEW kind
  PROVE  /\ c.state = "ROOT" => StartElement(c, e, kind) =
                IF kind = "project" THEN [c EXCEPT !.state = "PROJECT"] ELSE Skip(c)
         /\ c.state = "PROJECT" => StartElement(c, e, kind) = StartInProject(c, e, kind)
         /\ c.state = "TARGET" => StartElement(c, e, kind) = StartInTarget(c, e, kind)
         /\ c.state = "TASK" => StartElement(c, e, kind) = StartInTask(c, e, kind)
         /\ c.state = "PATH" => StartElement(c, e, kind) = StartInPath(c, e, kind)
         /\ c.state = "FILESET" => StartElement(c, e, kind) = StartInFileset(c, e, kind)
         /\ c.state = "SELECTOR" => StartElement(c, e, kind) = StartInSelector(c, e)
         /\ c.state = "SKIP" => StartElement(c, e, kind) = [c EXCEPT !.skip_depth = @ + 1]
<1>1. c.state = "ROOT" => StartElement(c, e, kind) =
         IF kind = "project" THEN [c EXCEPT !.state = "PROJECT"] ELSE Skip(c)
  BY DEF StartElement
<1>2. c.state = "PROJECT" => StartElement(c, e, kind) = StartInProject(c, e, kind)
  BY DEF StartElement
<1>3. c.state = "TARGET" => StartElement(c, e, kind) = StartInTarget(c, e, kind)
  BY DEF StartElement
<1>4. c.state = "TASK" => StartElement(c, e, kind) = StartInTask(c, e, kind)
  BY DEF StartElement
<1>5. c.state = "PATH" => StartElement(c, e, kind) = StartInPath(c, e, kind)
  BY DEF StartElement
<1>6. c.state = "FILESET" => StartElement(c, e, kind) = StartInFileset(c, e, kind)
  BY DEF StartElement
<1>7. c.state = "SELECTOR" => StartElement(c, e, kind) = StartInSelector(c, e)
  BY DEF StartElement
<1>8. c.state = "SKIP" => StartElement(c, e, kind) = [c EXCEPT !.skip_depth = @ + 1]
  BY DEF StartElement
<1> QED
  BY <1>1, <1>2, <1>3, <1>4, <1>5, <1>6, <1>7, <1>8

\* What an opening tag does to where the parser is.
Opens(r, c, e, kind) ==
    \/ /\ c.state = "ROOT" /\ kind = "project"
       /\ r \in Context /\ r.state = "PROJECT" /\ r.stack = c.stack
    \/ c.state = "ROOT" /\ kind # "project" /\ Begins(r, c, "SKIP", None)
    \/ /\ c.state = "PROJECT" /\ kind = "target"
       /\ r \in Context /\ r.state = "TARGET" /\ r.stack = c.stack
    \/ /\ c.state = "PROJECT" /\ kind = "property"
       /\ r \in Context /\ r.state = "PROJECT" /\ r.stack = c.stack
    \/ /\ c.state = "PROJECT"
       /\ \E s \in Objects : Begins(r, c, s, None) /\ (s = "FILESET" => kind = "fileset")
    \/ c.state = "TARGET" /\ Pushed(r, c, "TASK", None) /\ r.task = e /\ r.node_depth = 1
    \/ c.state = "TASK" /\ MovesInTask(r, c, 1)
    \/ /\ c.state = "TASK"
       /\ \E s \in Objects \ {"SKIP"}, d \in Elements \cup {None} :
             /\ Begins(r, c, s, d) /\ (s = "PATH" => d # None)
             /\ s = "FILESET" => kind = "fileset"
    \/ c.state \in Objects /\ Moves(r, c, 1)
    \/ /\ c.state = "FILESET" /\ kind = "or"
       /\ \E d \in Elements \cup {None} : Begins(r, c, "SELECTOR", d)

LEMMA StartElementOpens ==
  ASSUME NEW c, Sound(c), NEW e \in Elements, NEW kind
  PROVE  Opens(StartElement(c, e, kind), c, e, kind)
<1> DEFINE r == StartElement(c, e, kind)
<1>1. c \in Context /\ c.state \in States /\ c.fileset \in Elements \cup {None}
      /\ e \in Elements \cup {None} /\ e # None
  BY ElementTypes DEF Sound, Context
<1>2. CASE c.state = "ROOT"
  <2>1. r = IF kind = "project" THEN [c EXCEPT !.state = "PROJECT"] ELSE Skip(c)
    BY <1>2, StartElementByState
  <2> DEFINE x == [c EXCEPT !.state = "PROJECT"]
  <2>2. x \in Context /\ x.state = "PROJECT" /\ x.stack = c.stack
    <3>1. "PROJECT" \in States
      BY DEF States
    <3>2. x \in Context
      BY <1>1, <3>1 DEF Context
    <3>3. x.state = "PROJECT" /\ x.stack = c.stack
      BY <1>1 DEF Context
    <3> QED
      BY <3>2, <3>3
  <2>3. CASE kind = "project"
    BY <1>2, <2>1, <2>2, <2>3 DEF Opens
  <2>4. CASE kind # "project"
    BY <1>1, <1>2, <2>1, <2>4, SkipBegins DEF Opens
  <2> QED
    BY <2>3, <2>4
<1>3. CASE c.state = "PROJECT"
  <2>1. r = StartInProject(c, e, kind)
    BY <1>3, StartElementByState
  <2> HIDE DEF r
  <2>2. \/ kind = "target" /\ r \in Context /\ r.state = "TARGET" /\ r.stack = c.stack
        \/ kind = "property" /\ r \in Context /\ r.state = "PROJECT" /\ r.stack = c.stack
        \/ \E s \in Objects : Begins(r, c, s, None) /\ (s = "FILESET" => kind = "fileset")
    BY <1>1, <1>3, <2>1, StartInProjectDoes
  <2>3. Opens(r, c, e, kind)
    BY <1>3, <2>2 DEF Opens
  <2> QED
    BY <2>3 DEF r
<1>4. CASE c.state = "TARGET"
  <2>1. r = StartInTarget(c, e, kind)
    BY <1>4, StartElementByState
  <2> QED
    BY <1>1, <1>4, <2>1, StartInTargetDoes DEF Opens
<1>5. CASE c.state = "TASK"
  <2>1. r = StartInTask(c, e, kind)
    BY <1>5, StartElementByState
  <2>2. c.task # None
    BY <1>5 DEF Sound, StackShape, ObjectsThere
  <2> HIDE DEF r
  <2>3. \/ MovesInTask(r, c, 1)
        \/ Begins(r, c, "PATH", e)
        \/ Begins(r, c, "FILESET", e) /\ kind = "fileset"
        \/ Begins(r, c, "SELECTOR", c.fileset)
    BY <1>1, <2>1, <2>2, StartInTaskDoes
  <2>4. CASE MovesInTask(r, c, 1)
    BY <1>5, <2>4 DEF Opens, r
  <2>5. ASSUME NEW s \in Objects \ {"SKIP"}, NEW d \in Elements \cup {None},
               Begins(r, c, s, d), s = "PATH" => d # None, s = "FILESET" => kind = "fileset"
        PROVE  Opens(r, c, e, kind)
    BY <1>5, <2>5 DEF Opens
  <2>6. CASE Begins(r, c, "PATH", e)
    BY <1>1, <2>5, <2>6 DEF Objects, r
  <2>7. CASE Begins(r, c, "FILESET", e) /\ kind = "fileset"
    BY <1>1, <2>5, <2>7 DEF Objects, r
  <2>8. CASE Begins(r, c, "SELECTOR", c.fileset)
    BY <1>1, <2>5, <2>8 DEF Objects, r
  <2> QED
    BY <2>3, <2>4, <2>6, <2>7, <2>8
<1>6. CASE c.state = "PATH"
  <2>1. r = StartInPath(c, e, kind)
    BY <1>6, StartElementByState
  <2> QED
    BY <1>1, <1>6, <2>1, StartInPathMoves DEF Opens, Objects
<1>7. CASE c.state = "FILESET"
  <2>1. r = StartInFileset(c, e, kind)
    BY <1>7, StartElementByState
  <2> HIDE DEF r
  <2>2. Moves(r, c, 1) \/ (Begins(r, c, "SELECTOR", c.fileset) /\ kind = "or")
    BY <1>1, <1>7, <2>1, StartInFilesetDoes
  <2>3. Opens(r, c, e, kind)
    BY <1>1, <1>7, <2>2 DEF Opens, Objects
  <2> QED
    BY <2>3 DEF r
<1>8. CASE c.state = "SELECTOR"
  <2>1. r = StartInSelector(c, e)
    BY <1>8, StartElementByState
  <2>2. c.selector # None
    BY <1>8 DEF Sound, ObjectsThere
  <2> QED
    BY <1>1, <1>8, <2>1, <2>2, StartInSelectorMoves DEF Opens, Objects
<1>9. CASE c.state = "SKIP"
  <2>1. r = [c EXCEPT !.skip_depth = @ + 1]
    BY <1>9, StartElementByState
  <2> QED
    BY <1>1, <1>9, <2>1, SkipMoves DEF Opens, Objects
<1> QED
  BY <1>1, <1>2, <1>3, <1>4, <1>5, <1>6, <1>7, <1>8, <1>9 DEF States

LEMMA OpensSound ==
  ASSUME NEW c, Sound(c), NEW e \in Elements, NEW kind, NEW r, Opens(r, c, e, kind)
  PROVE  Sound(r)
<1>1. c \in Context /\ c.stack \in Seq(Entry) /\ e # None
  BY ContextFields, ElementTypes DEF Sound
<1>2. CASE /\ c.state \in {"ROOT", "PROJECT"}
           /\ r \in Context /\ r.state \in {"PROJECT", "TARGET"} /\ r.stack = c.stack
  <2>1. Len(r.stack) = 0 /\ r.stack = <<>>
    BY <1>1, <1>2 DEF Sound, StackShape
  <2> QED
    BY <1>2, <2>1 DEF Sound, StackShape, ObjectsThere, ReadingTask
<1>3. CASE c.state = "ROOT" /\ Begins(r, c, "SKIP", None)
  BY <1>3, BeginsSound
<1>4. CASE c.state = "PROJECT" /\ \E s \in Objects : Begins(r, c, s, None)
  BY <1>4, BeginsSound
<1>5. CASE c.state = "TARGET" /\ Pushed(r, c, "TASK", None) /\ r.task = e /\ r.node_depth = 1
  <2>1. Len(c.stack) = 0
    BY <1>5 DEF Sound, StackShape
  <2>2. /\ r \in Context /\ r.state = "TASK" /\ Len(r.stack) = 1
        /\ r.stack[1].state = "TARGET"
    BY <1>5, <2>1 DEF Pushed
  <2>3. ReadingTask(r)
    BY <2>2 DEF ReadingTask
  <2> QED
    BY <1>1, <1>5, <2>2, <2>3 DEF Sound, StackShape, ObjectsThere
<1>6. CASE c.state = "TASK" /\ MovesInTask(r, c, 1)
  <2>1. c.node_depth \in Nat
    BY <1>1, ContextFields
  <2> QED
    BY <1>6, <2>1, MovesInTaskSound
<1>7. CASE /\ c.state = "TASK"
           /\ \E s \in Objects \ {"SKIP"}, d \in Elements \cup {None} :
                 Begins(r, c, s, d) /\ (s = "PATH" => d # None)
  BY <1>7, BeginsSound
<1>8. CASE c.state \in Objects /\ Moves(r, c, 1)
  <2>1. c.state \in {"SKIP", "PATH"} => Depth(c) + 1 > 0
    BY <1>1, ContextFields, DepthByState
  <2> QED
    BY <1>8, <2>1, MovesSound
<1>9. CASE c.state = "FILESET" /\ \E d : Begins(r, c, "SELECTOR", d)
  BY <1>9, BeginsSound
<1> QED
  BY <1>2, <1>3, <1>4, <1>5, <1>6, <1>7, <1>8, <1>9 DEF Opens

\* What end_element does in each state.
LEMMA EndElementByState ==
  ASSUME NEW c, NEW kind
  PROVE  /\ c.state = "ROOT" => EndElement(c, kind) = c
         /\ c.state = "PROJECT" => EndElement(c, kind) =
                IF kind = "project" THEN [c EXCEPT !.state = "ROOT"] ELSE c
         /\ c.state = "TARGET" => EndElement(c, kind) = [c EXCEPT !.target = None, !.state = "PROJECT"]
         /\ c.state = "TASK" => EndElement(c, kind) = EndTask(c, kind)
         /\ c.state = "PATH" => EndElement(c, kind) = EndPath(c)
         /\ c.state = "FILESET" => EndElement(c, kind) = EndFileset(c)
         /\ c.state = "SELECTOR" => EndElement(c, kind) = EndSelector(c)
         /\ c.state = "SKIP" => EndElement(c, kind) = EndSkip(c)
<1>1. c.state = "ROOT" => EndElement(c, kind) = c
  BY DEF EndElement
<1>2. c.state = "PROJECT" => EndElement(c, kind) =
         IF kind = "project" THEN [c EXCEPT !.state = "ROOT"] ELSE c
  BY DEF EndElement
<1>3. c.state = "TARGET" => EndElement(c, kind) = [c EXCEPT !.target = None, !.state = "PROJECT"]
  BY DEF EndElement
<1>4. c.state = "TASK" => EndElement(c, kind) = EndTask(c, kind)
  BY DEF EndElement
<1>5. c.state = "PATH" => EndElement(c, kind) = EndPath(c)
  BY DEF EndElement
<1>6. c.state = "FILESET" => EndElement(c, kind) = EndFileset(c)
  BY DEF EndElement
<1>7. c.state = "SELECTOR" => EndElement(c, kind) = EndSelector(c)
  BY DEF EndElement
<1>8. c.state = "SKIP" => EndElement(c, kind) = EndSkip(c)
  BY DEF EndElement
<1> QED
  BY <1>1, <1>2, <1>3, <1>4, <1>5, <1>6, <1>7, <1>8

\* What a closing tag does to where the parser is.
Closes(r, c, kind) ==
    \/ c.state = "ROOT" /\ r = c
    \/ /\ c.state = "PROJECT" /\ kind = "project"
       /\ r \in Context /\ r.state = "ROOT" /\ r.stack = c.stack
    \/ c.state = "PROJECT" /\ kind # "project" /\ r = c
    \/ /\ c.state = "TARGET"
       /\ r \in Context /\ r.state = "PROJECT" /\ r.stack = c.stack
    \/ c.state = "TASK" /\ c.node_depth = 1 /\ Popped(r, c)
    \/ c.state = "TASK" /\ c.node_depth # 1 /\ MovesInTask(r, c, -1)
    \/ c.state \in Objects /\ Leaves(r, c)

LEMMA EndElementCloses ==
  ASSUME NEW c, Sound(c), NEW kind
  PROVE  Closes(EndElement(c, kind), c, kind)
<1> DEFINE r == EndElement(c, kind)
<1>1. c \in Context /\ c.state \in States /\ c.stack \in Seq(Entry)
  BY ContextFields DEF Sound
<1>2. None \in Elements \cup {None} /\ "ROOT" \in States /\ "PROJECT" \in States
  BY DEF States
<1>3. CASE c.state = "ROOT"
  <2>1. r = c
    BY <1>3, EndElementByState
  <2> QED
    BY <1>3, <2>1 DEF Closes
<1>4. CASE c.state = "PROJECT"
  <2>1. r = IF kind = "project" THEN [c EXCEPT !.state = "ROOT"] ELSE c
    BY <1>4, EndElementByState
  <2> DEFINE x == [c EXCEPT !.state = "ROOT"]
  <2>2. x \in Context
    BY <1>1, <1>2 DEF Context
  <2>3. x.state = "ROOT" /\ x.stack = c.stack
    BY <1>1 DEF Context
  <2>4. CASE kind = "project"
    BY <1>4, <2>1, <2>2, <2>3, <2>4 DEF Closes
  <2>5. CASE kind # "project"
    BY <1>4, <2>1, <2>5 DEF Closes
  <2> QED
    BY <2>4, <2>5
<1>5. CASE c.state = "TARGET"
  <2> DEFINE x == [c EXCEPT !.target = None, !.state = "PROJECT"]
  <2>1. r = x
    BY <1>5, EndElementByState
  <2>2. x \in Context
    BY <1>1, <1>2 DEF Context
  <2>3. x.state = "PROJECT" /\ x.stack = c.stack
    BY <1>1 DEF Context
  <2> QED
    BY <1>5, <2>1, <2>2, <2>3 DEF Closes
<1>6. CASE c.state = "TASK"
  <2>1. r = EndTask(c, kind)
    BY <1>6, EndElementByState
  <2>2. ReadingTask(c) /\ c.stack # <<>>
    BY <1>6 DEF Sound, StackShape, ReadingTask
  <2>3. c.task # None /\ c.node_depth > 0
    BY <2>2 DEF Sound, ObjectsThere
  <2> HIDE DEF r
  <2>4. IF c.node_depth = 1 THEN Popped(r, c) ELSE MovesInTask(r, c, -1)
    BY <1>1, <1>6, <2>1, <2>2, <2>3, EndTaskDoes
  <2>5. Closes(r, c, kind)
    BY <1>6, <2>4 DEF Closes
  <2> QED
    BY <2>5 DEF r
<1>7. CASE c.state \in Objects
  <2>1. c.stack # <<>>
    BY <1>1, <1>7 DEF Sound, StackShape, Objects
  <2>2. CASE c.state = "SKIP"
    <3>1. c.skip_depth > 0
      BY <2>2 DEF Sound, ObjectsThere
    <3> QED
      BY <1>1, <2>1, <2>2, <3>1, EndSkipLeaves, EndElementByState DEF Closes, Objects
  <2>3. CASE c.state = "PATH"
    <3>1. c.path_depth > 0
      BY <2>3 DEF Sound, ObjectsThere
    <3>2. Last(c.stack).state = "TASK" => Last(c.stack).data # None
      <4>1. \/ Len(c.stack) = 1 /\ c.stack[1].state = "PROJECT"
            \/ Len(c.stack) = 2 /\ ReadingTask(c)
        BY <2>3 DEF Sound, StackShape
      <4>2. ReadingTask(c) => Last(c.stack).data # None
        BY <2>3 DEF Sound, ObjectsThere
      <4> QED
        BY <4>1, <4>2 DEF Last
    <3> QED
      BY <1>1, <2>1, <2>3, <3>1, <3>2, EndPathLeaves, EndElementByState DEF Closes, Objects
  <2>4. CASE c.state = "FILESET"
    BY <1>1, <2>1, <2>4, EndFilesetLeaves, EndElementByState DEF Closes, Objects
  <2>5. CASE c.state = "SELECTOR"
    <3>1. c.selector # None
      BY <2>5 DEF Sound, ObjectsThere
    <3> QED
      BY <1>1, <2>1, <2>5, <3>1, EndSelectorLeaves, EndElementByState DEF Closes, Objects
  <2> QED
    BY <1>7, <2>2, <2>3, <2>4, <2>5 DEF Objects
<1> QED
  BY <1>1, <1>3, <1>4, <1>5, <1>6, <1>7 DEF States, Objects

LEMMA ClosesSound ==
  ASSUME NEW c, Sound(c), NEW kind, NEW r, Closes(r, c, kind)
  PROVE  Sound(r)
<1>1. c \in Context /\ c.stack \in Seq(Entry)
  BY ContextFields DEF Sound
<1>2. CASE r = c
  BY <1>2
<1>3. CASE /\ c.state \in {"PROJECT", "TARGET"}
           /\ r \in Context /\ r.state \in {"ROOT", "PROJECT"} /\ r.stack = c.stack
  <2>1. Len(r.stack) = 0 /\ r.stack = <<>>
    BY <1>1, <1>3 DEF Sound, StackShape
  <2> QED
    BY <1>3, <2>1 DEF Sound, StackShape, ObjectsThere, ReadingTask
<1>4. CASE c.state = "TASK" /\ Popped(r, c)
  <2>1. Len(c.stack) = 1 /\ c.stack[1].state = "TARGET"
    BY <1>4 DEF Sound, StackShape, ReadingTask
  <2>2. r \in Context /\ r.state = "TARGET" /\ Len(r.stack) = 0
    BY <1>4, <2>1 DEF Popped
  <2>3. r.stack \in Seq(Entry) /\ r.stack = <<>>
    BY <2>2, ContextFields
  <2> QED
    BY <2>2, <2>3 DEF Sound, StackShape, ObjectsThere, ReadingTask
<1>5. CASE c.state = "TASK" /\ c.node_depth # 1 /\ MovesInTask(r, c, -1)
  <2>1. c.node_depth \in Nat
    BY <1>1, ContextFields
  <2>2. c.node_depth > 0
    BY <1>5 DEF Sound, StackShape, ObjectsThere
  <2> QED
    BY <1>5, <2>1, <2>2, MovesInTaskSound
<1>6. CASE c.state \in Objects /\ Leaves(r, c)
  <2>1. CASE Depth(c) = 1
    BY <1>6, <2>1, PoppedObjectSound DEF Leaves
  <2>2. CASE Depth(c) # 1
    <3>1. c.state \in {"SKIP", "PATH"} => Depth(c) \in Nat /\ Depth(c) > 0
      BY <1>1, ContextFields, DepthByState DEF Sound, ObjectsThere
    <3> QED
      BY <1>6, <2>2, <3>1, MovesSound DEF Leaves
  <2> QED
    BY <2>1, <2>2
<1> QED
  BY <1>2, <1>3, <1>4, <1>5, <1>6 DEF Closes

-----------------------------------------------------------------------------
(* The type invariant, for every grammar                                   *)

LEMMA InitIInv == Init => IInv
<1> SUFFICES ASSUME Init PROVE IInv
  OBVIOUS
<1> DEFINE none == <<>>
<1> DEFINE zeros == [e \in Elements |-> <<>>]
<1>1. /\ none \in Seq(Entry) /\ none \in Seq(Elements) /\ none \in Seq(Seq(Elements))
      /\ zeros \in [Elements -> Seq(Elements)]
  BY EmptySequence
<1>2. None \in Elements \cup {None} /\ "ROOT" \in States
  BY DEF States
<1> DEFINE c == [state |-> "ROOT", stack |-> none,
                 skip_depth |-> 0, node_depth |-> 0, fileset_depth |-> 0, path_depth |-> 0,
                 direct |-> FALSE, in_manifest |-> FALSE,
                 target |-> None, task |-> None,
                 fileset |-> None, filesets |-> none, fileset_id |-> None,
                 selector |-> None, selectors |-> none, selector_id |-> None,
                 path |-> None, path_id |-> None, list |-> none, lists |-> none,
                 nodes |-> none, children |-> zeros]
<1>3. ctx = c
  BY DEF Init
<1> HIDE DEF none, zeros
<1>4. c \in Context
  BY <1>1, <1>2 DEF Context, Entry
<1>5. c.state = "ROOT" /\ c.stack = <<>>
  BY DEF none
<1> HIDE DEF c
<1>6. ~ReadingTask(ctx)
  BY <1>3, <1>5 DEF ReadingTask
<1>7. StackShape(ctx) /\ ObjectsThere(ctx)
  BY <1>3, <1>5, <1>6 DEF StackShape, ObjectsThere
<1>8. TypeOK
  BY <1>3, <1>4, EmptySequence DEF Init, TypeOK
<1>9. OpenRead
  BY DEF Init, OpenRead
<1> QED
  BY <1>7, <1>8, <1>9 DEF IInv

DocEntry == [kind : Kinds, parent : Elements \cup {None}, state : States, level : Nat]

LEMMA IInvSound == IInv => Sound(ctx)
  BY DEF IInv, TypeOK, Sound

\* What is open and what it was read as, after an opening tag.
LEMMA OpenReads ==
  ASSUME IInv, NEW kind \in Kinds, Open(kind)
  PROVE  LET n == Len(doc) + 1 IN
         /\ doc' \in Seq(DocEntry) /\ Len(doc') = n /\ n \in Elements
         /\ doc'[n].kind = kind /\ doc'[n].state = ctx.state
         /\ doc'[n].level = Len(ctx.stack)
         /\ \A i \in DOMAIN doc : doc'[i] = doc[i]
         /\ open' \in Seq(Elements) /\ Len(open') = Len(open) + 1 /\ open'[Len(open) + 1] = n
         /\ \A i \in DOMAIN open : open'[i] = open[i]
<1> DEFINE n == Len(doc) + 1
<1> DEFINE d == [kind   |-> kind,
                 parent |-> IF open = <<>> THEN None ELSE Last(open),
                 state  |-> ctx.state, level |-> Len(ctx.stack)]
<1>1. doc \in Seq(DocEntry) /\ open \in Seq(Elements) /\ ctx \in Context
  BY DEF IInv, TypeOK, DocEntry
<1>2. d \in DocEntry
  <2>1. ctx.state \in States /\ Len(ctx.stack) \in Nat
    BY <1>1, ContextFields
  <2>2. (IF open = <<>> THEN None ELSE Last(open)) \in Elements \cup {None}
    BY <1>1 DEF Last
  <2> QED
    BY <2>1, <2>2 DEF DocEntry
<1>3. d.kind = kind /\ d.state = ctx.state /\ d.level = Len(ctx.stack)
  OBVIOUS
<1>4. doc' = Append(doc, d) /\ open' = Append(open, Len(doc')) /\ Len(doc) < MaxElements
  BY DEF Open
<1> HIDE DEF d
<1>5. /\ doc' \in Seq(DocEntry) /\ Len(doc') = n /\ doc'[n] = d
      /\ \A i \in DOMAIN doc : doc'[i] = doc[i]
  BY <1>1, <1>2, <1>4
<1>6. n \in Elements
  BY <1>1, <1>4, BoundsAssumption DEF Elements
<1>7. /\ open' \in Seq(Elements) /\ Len(open') = Len(open) + 1 /\ open'[Len(open) + 1] = n
      /\ \A i \in DOMAIN open : open'[i] = open[i]
  <2> HIDE DEF n
  <2> QED
    BY <1>1, <1>4, <1>5, <1>6
<1> QED
  BY <1>3, <1>5, <1>6, <1>7

LEMMA OpenOpens ==
  ASSUME IInv, NEW kind \in Kinds, Open(kind)
  PROVE  \E e \in Elements : Opens(ctx', ctx, e, kind)
<1>1. Len(doc') \in Elements
  BY OpenReads
<1>2. ctx' = StartElement(ctx, Len(doc'), kind)
  BY DEF Open
<1> QED
  BY <1>1, <1>2, IInvSound, StartElementOpens

LEMMA CloseCloses ==
  ASSUME IInv, Close
  PROVE  Closes(ctx', ctx, KindOf(Last(open)))
  BY IInvSound, EndElementCloses DEF Close

LEMMA NextIInv == IInv /\ [Next]_vars => IInv'
<1> SUFFICES ASSUME IInv, [Next]_vars PROVE IInv'
  OBVIOUS
<1>1. doc \in Seq(DocEntry) /\ open \in Seq(Elements) /\ ctx \in Context
  BY DEF IInv, TypeOK, DocEntry
<1>2. ASSUME Sound(ctx') PROVE ctx' \in Context /\ StackShape(ctx)' /\ ObjectsThere(ctx)'
  BY <1>2 DEF Sound
<1>3. CASE UNCHANGED vars
  <2>1. doc' = doc /\ open' = open /\ ctx' = ctx
    BY <1>3 DEF vars
  <2>2. TypeOK' /\ OpenRead'
    BY <2>1 DEF IInv, TypeOK, OpenRead
  <2>3. StackShape(ctx)' /\ ObjectsThere(ctx)'
    BY <1>2, <2>1, IInvSound
  <2> QED
    BY <2>2, <2>3 DEF IInv
<1>4. ASSUME NEW kind \in Kinds, Open(kind) PROVE IInv'
  <2>1. Sound(ctx')
    BY <1>4, OpenOpens, OpensSound, IInvSound
  <2>2. TypeOK'
    BY <1>2, <1>4, <2>1, OpenReads DEF TypeOK, DocEntry
  <2>3. OpenRead'
    <3>1. \A i \in DOMAIN open : open[i] \in DOMAIN doc
      BY DEF IInv, OpenRead
    <3>2. ASSUME NEW i \in DOMAIN open' PROVE open'[i] \in DOMAIN doc'
      <4>1. /\ DOMAIN open' = 1..Len(open) + 1 /\ DOMAIN open = 1..Len(open)
            /\ DOMAIN doc' = 1..Len(doc) + 1 /\ DOMAIN doc = 1..Len(doc)
            /\ Len(open) \in Nat /\ Len(doc) \in Nat
        BY <1>1, <1>4, OpenReads
      <4>2. CASE i \in DOMAIN open
        BY <1>4, <3>1, <4>1, <4>2, OpenReads
      <4>3. CASE i = Len(open) + 1
        BY <1>4, <4>1, <4>3, OpenReads
      <4> QED
        BY <4>1, <4>2, <4>3
    <3> QED
      BY <3>2 DEF OpenRead
  <2> QED
    BY <1>2, <2>1, <2>2, <2>3 DEF IInv
<1>5. CASE Close
  <2>1. Sound(ctx')
    BY <1>5, CloseCloses, ClosesSound, IInvSound
  <2>2. doc' = doc /\ open # <<>> /\ open' = Front(open)
    BY <1>5 DEF Close
  <2>3. open' \in Seq(Elements) /\ \A i \in DOMAIN open' : i \in DOMAIN open /\ open'[i] = open[i]
    BY <1>1, <2>2 DEF Front
  <2>4. TypeOK'
    BY <1>1, <1>2, <2>1, <2>2, <2>3 DEF TypeOK, DocEntry
  <2>5. OpenRead'
    BY <2>2, <2>3 DEF IInv, OpenRead
  <2> QED
    BY <1>2, <2>1, <2>4, <2>5 DEF IInv
<1>6. CASE Finished
  BY <1>3, <1>6 DEF Finished
<1> QED
  BY <1>3, <1>4, <1>5, <1>6 DEF Next

\* Every build file the grammar allows leaves the parser with states, counters,
\* stacks and objects it declares: no closing tag pops what is not there
\* (parser.c, start_element and end_element).
THEOREM Invariance == Spec => []IInv
<1>1. Init => IInv
  BY InitIInv
<1>2. IInv /\ [Next]_vars => IInv'
  BY NextIInv
<1> QED
  BY <1>1, <1>2, PTL DEF Spec

THEOREM TypeCorrect == Spec => []TypeOK
<1>1. IInv => TypeOK
  BY DEF IInv
<1> QED
  BY <1>1, Invariance, PTL

-----------------------------------------------------------------------------
(* Where the open elements put the parser                                  *)

\* t is s as far as n.
Agrees(t, s, n) == \A i \in 1..n : i \in DOMAIN t /\ t[i] = s[i]

LEMMA InProjectAgrees ==
  ASSUME NEW s, NEW t, NEW n \in Nat, InProject(s, n), Agrees(t, s, n), n > 0
  PROVE  InProject(t, n)
  BY DEF InProject, OpenedIn, Agrees

LEMMA InTaskAgrees ==
  ASSUME NEW s, NEW t, NEW n \in Nat, NEW c, NEW r, r.node_depth = c.node_depth,
         c.node_depth \in Nat, DOMAIN s \subseteq Nat \ {0},
         InTask(c, s, n), Agrees(t, s, n), n > 0
  PROVE  InTask(r, t, n)
<1>1. PICK k \in Int : k = n - c.node_depth
  OBVIOUS
<1>2. /\ c.node_depth > 0 /\ n \in DOMAIN s /\ InProject(s, k - 1)
      /\ OpenedIn(s, k, "PROJECT", 0) /\ OpenedIn(s, k + 1, "TARGET", 0)
      /\ \A i \in k + 2..n : OpenedIn(s, i, "TASK", 1)
  BY <1>1 DEF InTask
<1>3. k - 1 \in Nat /\ k - 1 > 0 /\ k + 1 <= n
  BY <1>1, <1>2 DEF InProject
<1>4. InProject(t, k - 1)
  <2>1. Agrees(t, s, k - 1)
    BY <1>3 DEF Agrees
  <2> QED
    BY <1>2, <1>3, <2>1, InProjectAgrees
<1>5. n \in DOMAIN t /\ OpenedIn(t, k, "PROJECT", 0) /\ OpenedIn(t, k + 1, "TARGET", 0)
  BY <1>2, <1>3 DEF Agrees, OpenedIn
<1>6. \A i \in k + 2..n : OpenedIn(t, i, "TASK", 1)
  BY <1>2, <1>3 DEF Agrees, OpenedIn
<1> QED
  BY <1>1, <1>2, <1>4, <1>5, <1>6 DEF InTask

LEMMA PushedStack ==
  ASSUME NEW c \in Context, NEW r, NEW s, NEW d, Pushed(r, c, s, d)
  PROVE  /\ r.stack \in Seq(Entry) /\ r.stack # <<>>
         /\ Len(c.stack) = 0 => Len(r.stack) = 1 /\ r.stack[1].state = c.state
         /\ Len(c.stack) = 1 => /\ Len(r.stack) = 2 /\ r.stack[2].state = c.state
                                /\ r.stack[1] = c.stack[1]
<1>1. r.stack \in Seq(Entry) /\ Len(r.stack) = Len(c.stack) + 1 /\ Len(c.stack) \in Nat
  BY ContextFields DEF Pushed
<1>2. /\ r.stack[Len(c.stack) + 1].state = c.state
      /\ \A i \in 1..Len(c.stack) : r.stack[i] = c.stack[i]
  BY DEF Pushed
<1>3. r.stack # <<>>
  BY <1>1
<1>4. CASE Len(c.stack) = 0
  <2>1. Len(c.stack) + 1 = 1
    BY <1>4
  <2>2. r.stack[1].state = c.state /\ Len(r.stack) = 1
    BY <1>1, <1>2, <2>1
  <2> QED
    BY <1>1, <1>3, <1>4, <2>2
<1>5. CASE Len(c.stack) = 1
  <2>1. Len(c.stack) + 1 = 2 /\ 1 \in 1..Len(c.stack)
    BY <1>5
  <2>2. r.stack[2].state = c.state /\ Len(r.stack) = 2 /\ r.stack[1] = c.stack[1]
    BY <1>1, <1>2, <2>1
  <2> QED
    BY <1>1, <1>3, <1>5, <2>2
<1> QED
  BY <1>1, <1>3, <1>4, <1>5

\* An opening tag, in a grammar where no selector container is opened in a
\* fileset.
LEMMA OpensNesting ==
  ASSUME NEW c, Sound(c), NEW s \in Seq(DocEntry), Nesting(c, s),
         NEW t \in Seq(DocEntry), Len(t) = Len(s) + 1, Agrees(t, s, Len(s)),
         NEW kind, NEW e, NEW r, Opens(r, c, e, kind),
         OpenedIn(t, Len(s) + 1, c.state, Len(c.stack)), t[Len(s) + 1].kind = kind,
         s = <<>> => kind = "project", c.state = "FILESET" => kind # "or"
  PROVE  Nesting(r, t)
<1>1. PICK n \in Nat : n = Len(s)
  OBVIOUS
<1>2. PICK h \in Nat : h = Len(c.stack)
  <2>1. Len(c.stack) \in Nat
    BY ContextFields DEF Sound
  <2> QED
    BY <2>1
<1>3. /\ DOMAIN s = 1..n /\ DOMAIN t = 1..n + 1 /\ Len(t) = n + 1
      /\ DOMAIN s \subseteq Nat \ {0}
      /\ OpenedIn(t, n + 1, c.state, h) /\ t[n + 1].kind = kind
      /\ \A i \in 1..n : t[i] = s[i]
  BY <1>1, <1>2 DEF Agrees
<1>4. c \in Context /\ c.node_depth \in Nat /\ c.stack \in Seq(Entry)
  BY ContextFields DEF Sound
<1>5. ASSUME NEW m \in Nat, m > 0, m <= n PROVE Agrees(t, s, m)
  BY <1>3, <1>5 DEF Agrees
<1>6. CASE c.state = "ROOT"
  <2>1. n = 0 /\ h = 0 /\ s = <<>>
    BY <1>1, <1>2, <1>6 DEF Nesting
  <2>2. kind = "project" /\ r.state = "PROJECT" /\ Len(r.stack) = 0
    BY <1>2, <1>6, <2>1 DEF Opens, Objects
  <2>3. InProject(t, 1)
    BY <1>3, <1>6, <2>1, <2>2 DEF InProject, OpenedIn
  <2> QED
    BY <1>3, <2>1, <2>2, <2>3 DEF Nesting
<1>7. CASE c.state = "PROJECT"
  <2>1. h = 0 /\ InProject(s, n) /\ n > 0
    BY <1>1, <1>2, <1>3, <1>7 DEF Nesting, InProject
  <2>2. InProject(t, n)
    BY <1>5, <2>1, InProjectAgrees
  <2>3. CASE kind = "target" /\ r.state = "TARGET" /\ r.stack = c.stack
    <3>0. Len(t) - 1 = n
      BY <1>3
    <3>1. Len(r.stack) = 0
      BY <1>2, <2>1, <2>3
    <3>2. OpenedIn(t, Len(t), "PROJECT", 0)
      BY <1>3, <1>7, <2>1
    <3> QED
      BY <2>2, <2>3, <3>0, <3>1, <3>2 DEF Nesting
  <2>4. CASE kind = "property" /\ r.state = "PROJECT" /\ r.stack = c.stack
    <3>1. InProject(t, n + 1)
      BY <1>3, <1>7, <2>1, <2>2, <2>4 DEF InProject, OpenedIn
    <3> QED
      BY <1>2, <1>3, <2>1, <2>4, <3>1 DEF Nesting
  <2>5. ASSUME NEW x \in Objects, Begins(r, c, x, None)
        PROVE  Nesting(r, t)
    <3>1. /\ r.state = x /\ Len(r.stack) = 1 /\ r.stack[1].state = "PROJECT"
          /\ Depth(r) = 1
      BY <1>2, <1>4, <1>7, <2>1, <2>5, PushedStack DEF Begins, Pushed
    <3>2. InObject(r, t)
      BY <1>3, <1>7, <2>1, <3>1 DEF InObject, Last, OpenedIn
    <3> QED
      BY <1>3, <2>2, <2>5, <3>1, <3>2 DEF Nesting, Objects
  <2> QED
    BY <1>7, <2>3, <2>4, <2>5 DEF Opens, Objects
<1>8. CASE c.state = "TARGET"
  <2>1. h = 0 /\ InProject(s, n - 1) /\ OpenedIn(s, n, "PROJECT", 0)
    BY <1>1, <1>2, <1>8 DEF Nesting
  <2>2. n - 1 \in Nat /\ n - 1 > 0
    BY <1>3, <2>1 DEF InProject
  <2>3. InProject(t, n - 1) /\ OpenedIn(t, n, "PROJECT", 0)
    BY <1>3, <1>5, <2>1, <2>2, InProjectAgrees DEF OpenedIn
  <2>4. Pushed(r, c, "TASK", None) /\ r.node_depth = 1
    BY <1>8 DEF Opens, Objects
  <2>5. r.state = "TASK" /\ Len(r.stack) = 1 /\ r.stack[1].state = "TARGET"
    BY ZenonT(40), <1>2, <1>4, <1>8, <2>1, <2>4, PushedStack DEF Pushed
  <2>6. InTask(r, t, n + 1)
    BY <1>3, <1>8, <2>1, <2>2, <2>3, <2>4 DEF InTask
  <2>7. ReadingTask(r)
    BY <2>5 DEF ReadingTask
  <2> QED
    BY <1>3, <2>5, <2>6, <2>7 DEF Nesting
<1>9. CASE c.state = "TASK"
  <2>1. h = 1 /\ ReadingTask(c) /\ InTask(c, s, n)
    BY <1>1, <1>2, <1>9 DEF Nesting
  <2>2. n > 0 /\ c.node_depth > 0
    BY <1>3, <2>1 DEF InTask
  <2>3. CASE MovesInTask(r, c, 1)
    <3>1. r.state = "TASK" /\ r.stack = c.stack /\ r.node_depth = c.node_depth + 1
      BY <1>9, <2>3 DEF MovesInTask
    <3>2. InTask(c, t, n)
      BY <1>3, <1>4, <1>5, <2>1, <2>2, InTaskAgrees
    <3>3. n + 1 - r.node_depth = n - c.node_depth
      BY <1>4, <3>1
    <3>4. \A i \in n - c.node_depth + 2..n + 1 : OpenedIn(t, i, "TASK", 1)
      BY <1>3, <1>4, <1>9, <2>1, <3>2 DEF InTask
    <3>5. InTask(r, t, n + 1)
      BY SMTT(30), <1>3, <1>4, <3>1, <3>2, <3>3, <3>4 DEF InTask
    <3>6. ReadingTask(r)
      BY <2>1, <3>1 DEF ReadingTask
    <3> QED
      BY <1>2, <1>3, <2>1, <3>1, <3>5, <3>6 DEF Nesting
  <2>4. ASSUME NEW x \in Objects \ {"SKIP"}, NEW d, Begins(r, c, x, d)
        PROVE  Nesting(r, t)
    <3>1. /\ r.state = x /\ Len(r.stack) = 2 /\ r.stack[2].state = "TASK"
          /\ r.stack[1] = c.stack[1] /\ r.stack # <<>>
          /\ Depth(r) = 1 /\ r.node_depth = c.node_depth
      BY ZenonT(40), <1>2, <1>4, <1>9, <2>1, <2>4, PushedStack DEF Begins, Pushed
    <3>2. InObject(r, t)
      BY <1>3, <1>9, <2>1, <3>1 DEF InObject, Last, OpenedIn
    <3>3. InTask(r, t, n)
      BY <1>3, <1>4, <1>5, <2>1, <2>2, <3>1, InTaskAgrees
    <3>4. ReadingTask(r)
      BY <2>1, <3>1 DEF ReadingTask
    <3> QED
      BY <1>3, <2>4, <3>1, <3>2, <3>3, <3>4 DEF Nesting, Objects
  <2> QED
    BY <1>9, <2>3, <2>4 DEF Opens, Objects
<1>10. CASE c.state \in Objects
  <2>1. Moves(r, c, 1)
    BY <1>10 DEF Opens, Objects
  <2>2. /\ r.state = c.state /\ r.stack = c.stack /\ r.node_depth = c.node_depth
        /\ Depth(r) = Depth(c) + 1
    BY <2>1 DEF Moves
  <2>3. PICK k \in Int : k = Depth(c)
    <3>1. Depth(c) \in Int
      BY <1>4, <1>10, ContextFields, DepthByState DEF Objects
    <3> QED
      BY <3>1
  <2>4. /\ InObject(c, s)
        /\ \/ h = 1 /\ c.stack[1].state = "PROJECT" /\ InProject(s, n - k)
           \/ /\ c.state # "SKIP" /\ h = 2 /\ ReadingTask(c) /\ c.stack[2].state = "TASK"
              /\ InTask(c, s, n - k)
    BY <1>1, <1>2, <1>10, <2>3 DEF Nesting, Objects
  <2>5. k > 0 /\ n - k \in Nat /\ n - k > 0 /\ n - k <= n
    BY <1>3, <2>3, <2>4 DEF InObject, InProject, InTask
  <2>6. InObject(r, t)
    <3>1. OpenedIn(s, n - k + 1, Last(c.stack).state, h - 1)
      BY <1>1, <1>2, <2>3, <2>4 DEF InObject
    <3>2. \A i \in n - k + 2..n : OpenedIn(s, i, c.state, h)
      BY <1>1, <1>2, <2>3, <2>4 DEF InObject
    <3>3. OpenedIn(t, n + 1 - (k + 1) + 1, Last(c.stack).state, h - 1)
      BY <1>3, <2>5, <3>1 DEF OpenedIn
    <3>4. \A i \in n + 1 - (k + 1) + 2..n + 1 : OpenedIn(t, i, c.state, h)
      <4>1. ASSUME NEW i \in n - k + 2..n PROVE OpenedIn(t, i, c.state, h)
        BY <1>3, <2>5, <3>2 DEF OpenedIn
      <4> QED
        BY <1>3, <2>5, <4>1
    <3> QED
      BY <1>2, <1>3, <2>2, <2>3, <2>5, <3>3, <3>4 DEF InObject
  <2>7. Len(t) - Depth(r) = n - k
    BY <1>3, <2>2, <2>3
  <2>8. InProject(s, n - k) => InProject(t, n - k)
    BY <1>5, <2>5, InProjectAgrees
  <2>9. InTask(c, s, n - k) => InTask(r, t, n - k)
    BY <1>3, <1>4, <1>5, <2>2, <2>5, InTaskAgrees
  <2>10. ReadingTask(c) => ReadingTask(r)
    BY <2>2 DEF ReadingTask
  <2> QED
    BY <1>2, <1>10, <2>2, <2>4, <2>6, <2>7, <2>8, <2>9, <2>10 DEF Nesting, Objects
<1> QED
  BY <1>6, <1>7, <1>8, <1>9, <1>10 DEF Nesting, Objects

LEMMA PoppedStack ==
  ASSUME NEW c \in Context, NEW r, Popped(r, c)
  PROVE  /\ r.stack \in Seq(Entry)
         /\ Len(c.stack) = 1 => Len(r.stack) = 0 /\ r.state = c.stack[1].state
         /\ Len(c.stack) = 2 => /\ Len(r.stack) = 1 /\ r.state = c.stack[2].state
                                /\ r.stack[1] = c.stack[1] /\ r.stack # <<>>
<1>1. r.stack \in Seq(Entry) /\ c.stack \in Seq(Entry)
  BY ContextFields DEF Popped
<1>2. Len(r.stack) = Len(c.stack) - 1 /\ r.state = c.stack[Len(c.stack)].state
  BY DEF Popped
<1>3. \A i \in 1..Len(c.stack) - 1 : r.stack[i] = c.stack[i]
  BY DEF Popped
<1>4. CASE Len(c.stack) = 1
  BY <1>1, <1>2, <1>4
<1>5. CASE Len(c.stack) = 2
  <2>1. 1 \in 1..Len(c.stack) - 1
    BY <1>5
  <2>2. r.stack[1] = c.stack[1] /\ Len(r.stack) = 1
    BY <1>2, <1>3, <1>5, <2>1
  <2> QED
    BY <1>1, <1>2, <1>5, <2>2
<1> QED
  BY <1>1, <1>4, <1>5

\* A closing tag takes the parser back to where the opening tag found it.
LEMMA ClosesNesting ==
  ASSUME NEW c, Sound(c), NEW s \in Seq(DocEntry), Nesting(c, s), s # <<>>,
         NEW t \in Seq(DocEntry), Len(t) = Len(s) - 1, Agrees(t, s, Len(s) - 1),
         NEW r, Closes(r, c, s[Len(s)].kind)
  PROVE  Nesting(r, t) /\ OpenedIn(s, Len(s), r.state, Len(r.stack))
<1>1. PICK n \in Nat : n = Len(s)
  OBVIOUS
<1>2. PICK h \in Nat : h = Len(c.stack)
  <2>1. Len(c.stack) \in Nat
    BY ContextFields DEF Sound
  <2> QED
    BY <2>1
<1>3. /\ n > 0 /\ DOMAIN s = 1..n /\ DOMAIN t = 1..n - 1 /\ Len(t) = n - 1
      /\ DOMAIN s \subseteq Nat \ {0}
      /\ \A i \in 1..n - 1 : t[i] = s[i]
  BY <1>1 DEF Agrees
<1>4. c \in Context /\ c.node_depth \in Nat /\ c.stack \in Seq(Entry)
  BY ContextFields DEF Sound
<1>5. ASSUME NEW m \in Nat, m > 0, m <= n - 1 PROVE Agrees(t, s, m)
  BY SMTT(30), <1>3, <1>5 DEF Agrees
<1>6. CASE c.state = "ROOT"
  BY <1>1, <1>3, <1>6 DEF Nesting
<1>7. CASE c.state = "PROJECT"
  <2>1. h = 0 /\ InProject(s, n)
    BY <1>1, <1>2, <1>7 DEF Nesting
  <2>2. CASE s[n].kind = "project"
    <3>1. n = 1
      <4>1. n # 1 => n \in 2..n
        BY <1>3
      <4>2. \A i \in 2..n : s[i].kind = "property"
        BY <2>1 DEF InProject
      <4> QED
        BY <2>2, <4>1, <4>2
    <3>2. r.state = "ROOT" /\ r.stack = c.stack
      BY <1>1, <1>7, <2>2 DEF Closes, Objects
    <3>3. Len(r.stack) = 0 /\ Len(t) = 0
      <4>1. Len(r.stack) = 0
        BY <1>2, <2>1, <3>2
      <4>2. Len(t) = n - 1
        BY <1>3
      <4> QED
        BY <3>1, <4>1, <4>2
    <3>4. OpenedIn(s, 1, "ROOT", 0)
      BY <2>1 DEF InProject
    <3> QED
      BY <1>1, <3>1, <3>2, <3>3, <3>4 DEF Nesting
  <2>3. CASE s[n].kind # "project"
    <3>1. n # 1
      BY <2>1, <2>3 DEF InProject
    <3>2. r = c
      BY <1>1, <1>7, <2>3 DEF Closes, Objects
    <3>3. n \in 2..n /\ n - 1 \in Nat /\ n - 1 > 0 /\ n - 1 \in DOMAIN s
      BY <1>3, <3>1
    <3>4. OpenedIn(s, n, "PROJECT", 0)
      BY <2>1, <3>3 DEF InProject
    <3>5. InProject(s, n - 1)
      BY <2>1, <3>3 DEF InProject
    <3>6. InProject(t, n - 1)
      BY <1>5, <3>3, <3>5, InProjectAgrees
    <3> QED
      BY <1>1, <1>2, <1>3, <1>7, <2>1, <3>2, <3>4, <3>6 DEF Nesting
  <2> QED
    BY <2>2, <2>3
<1>8. CASE c.state = "TARGET"
  <2>1. h = 0 /\ InProject(s, n - 1) /\ OpenedIn(s, n, "PROJECT", 0)
    BY <1>1, <1>2, <1>8 DEF Nesting
  <2>2. n - 1 \in Nat /\ n - 1 > 0
    BY <1>3, <2>1 DEF InProject
  <2>3. InProject(t, n - 1)
    BY <1>5, <2>1, <2>2, InProjectAgrees
  <2>4. r.state = "PROJECT" /\ r.stack = c.stack
    BY <1>8 DEF Closes, Objects
  <2> QED
    BY <1>1, <1>2, <1>3, <2>1, <2>3, <2>4 DEF Nesting
<1>9. CASE c.state = "TASK"
  <2>1. h = 1 /\ ReadingTask(c) /\ InTask(c, s, n)
    BY <1>1, <1>2, <1>9 DEF Nesting
  <2>2. PICK k \in Int : k = n - c.node_depth
    BY <1>4
  <2>3. /\ c.node_depth > 0 /\ InProject(s, k - 1) /\ OpenedIn(s, k, "PROJECT", 0)
        /\ OpenedIn(s, k + 1, "TARGET", 0)
        /\ \A i \in k + 2..n : OpenedIn(s, i, "TASK", 1)
    BY <2>1, <2>2 DEF InTask
  <2>4. k - 1 \in Nat /\ k - 1 > 0 /\ k < n
    BY SMTT(30), <1>3, <1>4, <2>2, <2>3 DEF InProject
  <2>5. CASE c.node_depth = 1
    <3>1. k = n - 1
      BY <2>2, <2>5
    <3>2. Popped(r, c)
      BY <1>9, <2>5 DEF Closes, Objects
    <3>3. c.stack[1].state = "TARGET"
      BY <2>1 DEF ReadingTask
    <3>4. r.state = "TARGET" /\ Len(r.stack) = 0
      BY <1>2, <1>4, <2>1, <3>2, <3>3, PoppedStack
    <3>5. InProject(t, n - 1 - 1)
      <4>1. InProject(t, k - 1)
        BY <1>5, <2>3, <2>4, InProjectAgrees
      <4> QED
        BY <3>1, <4>1
    <3>6. OpenedIn(t, n - 1, "PROJECT", 0)
      BY <1>3, <2>3, <2>4, <3>1 DEF OpenedIn
    <3>7. OpenedIn(s, n, "TARGET", 0)
      BY <2>3, <3>1
    <3> QED
      BY <1>1, <1>3, <3>4, <3>5, <3>6, <3>7 DEF Nesting
  <2>6. CASE c.node_depth # 1
    <3>1. MovesInTask(r, c, -1)
      BY <1>9, <2>6 DEF Closes, Objects
    <3>2. r.state = "TASK" /\ r.stack = c.stack /\ r.node_depth = c.node_depth - 1
      BY <1>4, <1>9, <3>1 DEF MovesInTask
    <3>3. k + 2 <= n /\ n - 1 - r.node_depth = k /\ r.node_depth > 0
      <4>1. PICK m \in Nat : m = c.node_depth
        BY <1>4
      <4>2. m > 1 /\ k = n - m /\ r.node_depth = m - 1
        BY <2>2, <2>3, <2>6, <3>2, <4>1
      <4> QED
        BY <4>2
    <3>4. OpenedIn(s, n, "TASK", 1)
      BY <2>3, <2>4, <3>3
    <3>5. InProject(t, k - 1)
      BY <1>5, <2>3, <2>4, InProjectAgrees
    <3>6. OpenedIn(t, k, "PROJECT", 0) /\ OpenedIn(t, k + 1, "TARGET", 0)
      BY <1>3, <2>3, <2>4, <3>3 DEF OpenedIn
    <3>7. \A i \in k + 2..n - 1 : OpenedIn(t, i, "TASK", 1)
      BY <1>3, <2>3, <2>4 DEF OpenedIn
    <3>8. n - 1 \in DOMAIN t
      BY <1>3, <2>4, <3>3
    <3>9. InTask(r, t, n - 1)
      BY <3>3, <3>5, <3>6, <3>7, <3>8 DEF InTask
    <3>10. ReadingTask(r)
      BY <2>1, <3>2 DEF ReadingTask
    <3> QED
      BY <1>1, <1>2, <1>3, <2>1, <3>2, <3>4, <3>9, <3>10 DEF Nesting
  <2> QED
    BY <2>5, <2>6
<1>10. CASE c.state \in Objects
  <2>1. Leaves(r, c)
    BY <1>10 DEF Closes, Objects
  <2>2. PICK k \in Int : k = Depth(c)
    <3>1. Depth(c) \in Int
      BY <1>4, <1>10, ContextFields, DepthByState DEF Objects
    <3> QED
      BY <3>1
  <2>3. /\ InObject(c, s)
        /\ \/ h = 1 /\ c.stack[1].state = "PROJECT" /\ InProject(s, n - k)
           \/ /\ c.state # "SKIP" /\ h = 2 /\ ReadingTask(c) /\ c.stack[2].state = "TASK"
              /\ InTask(c, s, n - k)
    BY <1>1, <1>2, <1>10, <2>2 DEF Nesting, Objects
  <2>4. /\ k > 0 /\ OpenedIn(s, n - k + 1, Last(c.stack).state, h - 1)
        /\ \A i \in n - k + 2..n : OpenedIn(s, i, c.state, h)
    BY <1>1, <1>2, <2>2, <2>3 DEF InObject
  <2>5. n - k \in Nat /\ n - k > 0 /\ n - k <= n - 1
    BY <1>3, <2>3, <2>4 DEF InProject, InTask
  <2>6. InProject(s, n - k) => InProject(t, n - k)
    BY <1>5, <2>5, InProjectAgrees
  <2>7. ASSUME r.node_depth = c.node_depth PROVE InTask(c, s, n - k) => InTask(r, t, n - k)
    BY <1>3, <1>4, <1>5, <2>5, <2>7, InTaskAgrees
  <2>8. CASE k = 1
    <3>1. Popped(r, c) /\ r.node_depth = c.node_depth
      BY <2>1, <2>2, <2>8 DEF Leaves
    <3>2. OpenedIn(s, n, c.stack[h].state, h - 1)
      BY <1>2, <2>4, <2>8 DEF Last
    <3>3. Len(t) = n - k
      BY <1>3, <2>8
    <3>4. CASE h = 1 /\ c.stack[1].state = "PROJECT" /\ InProject(s, n - k)
      <4>1. r.state = "PROJECT" /\ Len(r.stack) = 0
        BY <1>2, <1>4, <3>1, <3>4, PoppedStack
      <4> QED
        BY <1>1, <2>6, <3>2, <3>3, <3>4, <4>1 DEF Nesting
    <3>5. CASE /\ h = 2 /\ ReadingTask(c) /\ c.stack[2].state = "TASK"
               /\ InTask(c, s, n - k)
      <4>1. /\ r.state = "TASK" /\ Len(r.stack) = 1
            /\ r.stack[1] = c.stack[1] /\ r.stack # <<>>
        BY <1>2, <1>4, <3>1, <3>5, PoppedStack
      <4>2. ReadingTask(r)
        BY <3>5, <4>1 DEF ReadingTask
      <4> QED
        BY <1>1, <2>7, <3>1, <3>2, <3>3, <3>5, <4>1, <4>2 DEF Nesting
    <3> QED
      BY <2>3, <3>4, <3>5
  <2>9. CASE k # 1
    <3>1. Moves(r, c, -1)
      BY <2>1, <2>2, <2>9 DEF Leaves
    <3>2. /\ r.state = c.state /\ r.stack = c.stack /\ r.node_depth = c.node_depth
          /\ Depth(r) = k - 1
      BY <2>2, <3>1 DEF Moves
    <3>3. OpenedIn(s, n, c.state, h)
      BY <2>4, <2>5, <2>9
    <3>4. Len(t) - Depth(r) = n - k /\ Len(t) - Depth(r) + 1 = n - k + 1
          /\ Len(t) - Depth(r) + 2 = n - k + 2 /\ Depth(r) > 0
      <4>1. Len(t) = n - 1
        BY <1>3
      <4>2. k > 1 /\ Depth(r) = k - 1
        BY <2>4, <2>9, <3>2
      <4> QED
        BY <4>1, <4>2
    <3>5. InObject(r, t)
      <4>1. OpenedIn(t, n - k + 1, Last(c.stack).state, h - 1)
        BY <1>3, <2>4, <2>5, <2>9 DEF OpenedIn
      <4>2. \A i \in n - k + 2..n - 1 : OpenedIn(t, i, c.state, h)
        BY <1>3, <2>4, <2>5 DEF OpenedIn
      <4> QED
        BY <1>2, <1>3, <3>2, <3>4, <4>1, <4>2 DEF InObject
    <3>6. ReadingTask(c) => ReadingTask(r)
      BY <3>2 DEF ReadingTask
    <3>7. Nesting(r, t)
      BY <1>2, <1>10, <2>3, <2>6, <2>7, <3>2, <3>4, <3>5, <3>6 DEF Nesting, Objects
    <3> QED
      BY <1>1, <1>2, <3>2, <3>3, <3>7
  <2> QED
    BY <2>8, <2>9
<1> QED
  BY <1>6, <1>7, <1>8, <1>9, <1>10 DEF Nesting, Objects

\* What is opened in a fileset is of the kinds filesets hold.
LEMMA OpensFileset ==
  ASSUME NEW c, Sound(c), NEW s \in Seq(DocEntry), Nesting(c, s),
         NEW F, FilesetKinds(F), FilesetOf(c, s, F),
         NEW t \in Seq(DocEntry), Len(t) = Len(s) + 1, Agrees(t, s, Len(s)),
         NEW kind \in Kinds, NEW e, NEW r, Opens(r, c, e, kind), t[Len(s) + 1].kind = kind,
         s # <<>> => kind \in Content[s[Len(s)].kind]
  PROVE  FilesetOf(r, t, F) /\ (c.state = "FILESET" => kind # "or")
<1>1. PICK n \in Nat : n = Len(s)
  OBVIOUS
<1>2. \A i \in 1..n : t[i] = s[i] /\ s[i].kind \in Kinds
  <2>1. ASSUME NEW i \in 1..n PROVE s[i] \in DocEntry
    BY <1>1
  <2> QED
    BY <1>1, <2>1 DEF Agrees, DocEntry
<1>3. c \in Context
  BY DEF Sound
<1>4. ASSUME c.state = "FILESET" PROVE kind \in F
  <2>1. PICK k \in Int : k = Depth(c)
    BY <1>3, <1>4, ContextFields, DepthByState
  <2>2. InObject(c, s) /\ (InProject(s, n - k) \/ InTask(c, s, n - k))
    BY <1>1, <1>4, <2>1 DEF Nesting
  <2>3. k > 0 /\ n - k \in 1..n
    BY <1>1, <2>1, <2>2 DEF InObject, InProject, InTask
  <2>4. n \in n - k + 1..n /\ s # <<>> /\ n \in 1..n
    BY <1>1, <2>3
  <2>5. s[n].kind \in F \cap Kinds
    BY <1>1, <1>2, <1>4, <2>1, <2>4 DEF FilesetOf
  <2> QED
    BY <1>1, <2>4, <2>5 DEF FilesetKinds
<1>5. c.state = "FILESET" => kind # "or"
  BY <1>4 DEF FilesetKinds
<1>6. ASSUME r.state = "FILESET" PROVE \A i \in Len(t) - Depth(r) + 1..Len(t) : t[i].kind \in F
  <2>1. \/ Depth(r) = 1 /\ kind = "fileset"
        \/ c.state = "FILESET" /\ Depth(r) = Depth(c) + 1
    <3>1. CASE c.state \in {"ROOT", "PROJECT"}
      BY <1>6, <3>1 DEF Opens, Begins, Pushed, Objects
    <3>2. CASE c.state = "TARGET"
      BY <1>6, <3>2 DEF Opens, Pushed, Objects
    <3>3. CASE c.state = "TASK"
      BY <1>6, <3>3 DEF Opens, Begins, Pushed, MovesInTask, Objects
    <3>4. CASE c.state \in Objects
      BY <1>5, <1>6, <3>4 DEF Opens, Moves, Objects
    <3> QED
      BY <1>3, <3>1, <3>2, <3>3, <3>4, ContextFields DEF States, Objects
  <2>2. CASE Depth(r) = 1 /\ kind = "fileset"
    <3>1. Len(t) - Depth(r) + 1 = n + 1 /\ Len(t) = n + 1
      BY <1>1, <2>2
    <3>2. t[n + 1].kind \in F
      BY <1>1, <2>2 DEF FilesetKinds
    <3> QED
      BY <3>1, <3>2
  <2>3. CASE c.state = "FILESET" /\ Depth(r) = Depth(c) + 1
    <3>1. PICK k \in Int : k = Depth(c)
      BY <1>3, <2>3, ContextFields, DepthByState
    <3>2. Len(t) - Depth(r) + 1 = n - k + 1 /\ Len(t) = n + 1
      BY <1>1, <2>3, <3>1
    <3>3. InProject(s, n - k) \/ InTask(c, s, n - k)
      BY <1>1, <2>3, <3>1 DEF Nesting
    <3>4. n - k > 0
      BY <1>1, <3>3 DEF InProject, InTask
    <3>5. \A i \in n - k + 1..n : s[i].kind \in F
      BY <1>1, <2>3, <3>1 DEF FilesetOf
    <3>6. \A i \in n - k + 1..n : t[i].kind \in F
      BY <1>2, <3>4, <3>5
    <3>7. t[n + 1].kind \in F
      BY <1>1, <1>4, <2>3
    <3> QED
      BY <3>2, <3>6, <3>7
  <2> QED
    BY <2>1, <2>2, <2>3
<1> QED
  BY <1>5, <1>6 DEF FilesetOf

LEMMA ClosesFileset ==
  ASSUME NEW c, Sound(c), NEW s \in Seq(DocEntry), Nesting(c, s), s # <<>>,
         NEW F, FilesetOf(c, s, F),
         NEW t \in Seq(DocEntry), Len(t) = Len(s) - 1, Agrees(t, s, Len(s) - 1),
         NEW kind, NEW r, Closes(r, c, kind)
  PROVE  FilesetOf(r, t, F)
<1> SUFFICES ASSUME r.state = "FILESET"
             PROVE  \A i \in Len(t) - Depth(r) + 1..Len(t) : t[i].kind \in F
  BY DEF FilesetOf
<1>1. PICK n \in Nat : n = Len(s)
  OBVIOUS
<1>2. \A i \in 1..n - 1 : t[i] = s[i]
  BY <1>1 DEF Agrees
<1>3. c \in Context
  BY DEF Sound
<1>4. c.state = "FILESET" /\ Moves(r, c, -1)
  <2>1. CASE c.state \in {"ROOT", "PROJECT", "TARGET"}
    BY <2>1 DEF Closes, Objects
  <2>2. CASE c.state = "TASK"
    <3>1. Len(c.stack) = 1 /\ ReadingTask(c)
      BY <2>2 DEF Nesting
    <3> QED
      BY <1>3, <2>2, <3>1, PoppedStack DEF Closes, Objects, MovesInTask, ReadingTask
  <2>3. CASE c.state \in Objects
    <3>1. Leaves(r, c)
      BY <2>3 DEF Closes, Objects
    <3>2. ~Popped(r, c)
      <4>1. \/ Len(c.stack) = 1 /\ c.stack[1].state = "PROJECT"
            \/ Len(c.stack) = 2 /\ c.stack[2].state = "TASK"
        BY <2>3 DEF Nesting, Objects
      <4> QED
        BY <1>3, <4>1, PoppedStack
    <3> QED
      BY <3>1, <3>2 DEF Leaves, Moves
  <2> QED
    BY <1>3, <2>1, <2>2, <2>3, ContextFields DEF States, Objects
<1>5. PICK k \in Int : k = Depth(c)
  BY <1>3, <1>4, ContextFields, DepthByState
<1>6. Len(t) - Depth(r) + 1 = n - k + 1 /\ Len(t) = n - 1
  <2>1. Depth(r) = k - 1
    BY <1>4, <1>5 DEF Moves
  <2> QED
    BY <1>1, <2>1
<1>7. InProject(s, n - k) \/ InTask(c, s, n - k)
  BY <1>1, <1>4, <1>5 DEF Nesting
<1>8. n - k > 0
  BY <1>1, <1>7 DEF InProject, InTask
<1>9. \A i \in n - k + 1..n : s[i].kind \in F
  BY <1>1, <1>4, <1>5 DEF FilesetOf
<1> QED
  BY <1>2, <1>6, <1>8, <1>9

-----------------------------------------------------------------------------
(* What a closing tag restores                                             *)

LEMMA OpenedTyped ==
  IInv => /\ Opened \in Seq(DocEntry) /\ Len(Opened) = Len(open)
          /\ \A i \in 1..Len(open) : Opened[i] = doc[open[i]]
<1> SUFFICES ASSUME IInv
             PROVE  /\ Opened \in Seq(DocEntry) /\ Len(Opened) = Len(open)
                    /\ \A i \in 1..Len(open) : Opened[i] = doc[open[i]]
  OBVIOUS
<1>1. doc \in Seq(DocEntry) /\ open \in Seq(Elements)
  BY DEF IInv, TypeOK, DocEntry
<1>2. \A i \in DOMAIN open : doc[open[i]] \in DocEntry
  BY <1>1 DEF IInv, OpenRead
<1>3. DOMAIN open = 1..Len(open) /\ Len(open) \in Nat
  BY <1>1
<1> QED
  BY <1>2, <1>3 DEF Opened

LEMMA InitNesting ==
  ASSUME NEW F, Init
  PROVE  NestingInv(F)
<1>1. open = <<>> /\ ctx.state = "ROOT" /\ ctx.stack = <<>>
  BY DEF Init
<1>2. Len(Opened) = 0 /\ Len(ctx.stack) = 0
  BY <1>1, InitIInv, OpenedTyped
<1> QED
  BY <1>1, <1>2 DEF NestingInv, Nesting, FilesetOf

LEMMA OpenNesting ==
  ASSUME NEW F, FilesetKinds(F), IInv, IInv', NestingInv(F), NEW kind \in Kinds, Open(kind)
  PROVE  NestingInv(F)'
<1>1. PICK s \in Seq(DocEntry) : s = Opened
  BY OpenedTyped
<1>2. PICK n \in Nat : n = Len(open)
  BY DEF IInv, TypeOK
<1>3. (IInv => /\ Opened \in Seq(DocEntry) /\ Len(Opened) = Len(open)
               /\ \A i \in 1..Len(open) : Opened[i] = doc[open[i]])'
  BY OpenedTyped, PTL
<1>4. PICK t \in Seq(DocEntry) : t = Opened'
  BY <1>3
<1>5. Len(s) = n /\ \A i \in 1..n : s[i] = doc[open[i]]
  BY <1>1, <1>2, OpenedTyped
<1>6. Len(open') = n + 1
  BY <1>2, OpenReads
<1>7. Len(t) = n + 1 /\ \A i \in 1..n + 1 : t[i] = doc'[open'[i]]
  BY <1>3, <1>4, <1>6
<1>8. Agrees(t, s, n)
  <2>1. ASSUME NEW i \in 1..n PROVE t[i] = s[i]
    <3>1. i \in DOMAIN open
      BY <1>2 DEF IInv, TypeOK
    <3>2. open'[i] = open[i] /\ doc'[open[i]] = doc[open[i]]
      BY <3>1, OpenReads DEF IInv, OpenRead
    <3> QED
      BY <1>5, <1>7, <3>2
  <2> QED
    BY <1>7, <2>1 DEF Agrees
<1>9. OpenedIn(t, n + 1, ctx.state, Len(ctx.stack)) /\ t[n + 1].kind = kind
  <2>1. t[n + 1] = doc'[Len(doc) + 1]
    BY <1>2, <1>7, OpenReads
  <2> QED
    BY <2>1, OpenReads DEF OpenedIn
<1>10. /\ s = <<>> => kind = "project"
       /\ s # <<>> => kind \in Content[s[n].kind]
  <2>1. s = <<>> <=> open = <<>>
    BY <1>2, <1>5 DEF IInv, TypeOK
  <2>2. open # <<>> => n \in 1..n /\ Last(open) = open[n]
    BY <1>2 DEF Last, IInv, TypeOK
  <2> QED
    BY <1>5, <2>1, <2>2 DEF Open, KindOf
<1>11. PICK e \in Elements : Opens(ctx', ctx, e, kind)
  BY OpenOpens
<1>12. Nesting(ctx, s) /\ FilesetOf(ctx, s, F) /\ Sound(ctx)
  BY <1>1, IInvSound DEF NestingInv
<1>13. FilesetOf(ctx', t, F) /\ (ctx.state = "FILESET" => kind # "or")
  BY <1>5, <1>7, <1>8, <1>9, <1>10, <1>11, <1>12, OpensFileset
<1>14. Nesting(ctx', t)
  BY <1>5, <1>7, <1>8, <1>9, <1>10, <1>11, <1>12, <1>13, OpensNesting
<1> QED
  BY <1>4, <1>13, <1>14 DEF NestingInv

LEMMA CloseNesting ==
  ASSUME NEW F, FilesetKinds(F), IInv, IInv', NestingInv(F), Close
  PROVE  /\ NestingInv(F)'
         /\ ctx'.state = doc[Last(open)].state
         /\ Len(ctx'.stack) = doc[Last(open)].level
<1>1. PICK s \in Seq(DocEntry) : s = Opened
  BY OpenedTyped
<1>2. PICK n \in Nat : n = Len(open)
  BY DEF IInv, TypeOK
<1>3. (IInv => /\ Opened \in Seq(DocEntry) /\ Len(Opened) = Len(open)
               /\ \A i \in 1..Len(open) : Opened[i] = doc[open[i]])'
  BY OpenedTyped, PTL
<1>4. PICK t \in Seq(DocEntry) : t = Opened'
  BY <1>3
<1>5. Len(s) = n /\ \A i \in 1..n : s[i] = doc[open[i]]
  BY <1>1, <1>2, OpenedTyped
<1>6. /\ n > 0 /\ Last(open) = open[n]
      /\ Len(open') = n - 1 /\ \A i \in 1..n - 1 : open'[i] = open[i]
      /\ doc' = doc
  BY <1>2 DEF Close, Front, Last, IInv, TypeOK
<1>7. Len(t) = n - 1 /\ \A i \in 1..n - 1 : t[i] = doc'[open'[i]]
  BY <1>3, <1>4, <1>6
<1>8. Agrees(t, s, n - 1) /\ s # <<>>
  BY <1>5, <1>6, <1>7 DEF Agrees
<1>9. s[n] = doc[Last(open)]
  BY <1>5, <1>6
<1>10. Closes(ctx', ctx, s[n].kind)
  BY <1>9, CloseCloses DEF KindOf
<1>11. Nesting(ctx, s) /\ FilesetOf(ctx, s, F) /\ Sound(ctx)
  BY <1>1, IInvSound DEF NestingInv
<1>12. Nesting(ctx', t) /\ OpenedIn(s, n, ctx'.state, Len(ctx'.stack))
  BY <1>5, <1>7, <1>8, <1>10, <1>11, ClosesNesting
<1>13. FilesetOf(ctx', t, F)
  BY <1>5, <1>7, <1>8, <1>10, <1>11, ClosesFileset
<1> QED
  BY <1>4, <1>9, <1>12, <1>13 DEF NestingInv, OpenedIn

\* In every grammar that opens no selector container within a fileset, a
\* closing tag takes the parser back to the state and the stack before its
\* opening tag, however the elements are nested (parser.c, end_element).  What
\* a fileset with such a container in it does is a finding of its own.
THEOREM ClosingTagRestores ==
  ASSUME NEW F, FilesetKinds(F)
  PROVE  Spec => ClosingRestores
<1>1. Init => NestingInv(F)
  BY InitNesting
<1>2. IInv /\ IInv' /\ NestingInv(F) /\ [Next]_vars => NestingInv(F)'
  <2> SUFFICES ASSUME IInv, IInv', NestingInv(F), [Next]_vars PROVE NestingInv(F)'
    OBVIOUS
  <2>1. CASE UNCHANGED vars
    <3>1. doc' = doc /\ open' = open /\ ctx' = ctx
      BY <2>1 DEF vars
    <3> QED
      BY <3>1 DEF NestingInv, Opened
  <2>2. ASSUME NEW kind \in Kinds, Open(kind) PROVE NestingInv(F)'
    BY <2>2, OpenNesting
  <2>3. CASE Close
    BY <2>3, CloseNesting
  <2>4. CASE Finished
    BY <2>1, <2>4 DEF Finished
  <2> QED
    BY <2>1, <2>2, <2>3, <2>4 DEF Next
<1>3. IInv /\ IInv' /\ NestingInv(F) /\ [Next]_vars =>
        [open' = Front(open) /\ open # <<>> =>
           /\ ctx'.state = doc[Last(open)].state
           /\ Len(ctx'.stack) = doc[Last(open)].level]_vars
  <2> SUFFICES ASSUME IInv, IInv', NestingInv(F), [Next]_vars, ~ UNCHANGED vars,
                      open' = Front(open), open # <<>>
               PROVE  /\ ctx'.state = doc[Last(open)].state
                      /\ Len(ctx'.stack) = doc[Last(open)].level
    OBVIOUS
  <2>1. ASSUME NEW kind \in Kinds, Open(kind) PROVE FALSE
    <3>1. open \in Seq(Elements) /\ Len(open') = Len(open) + 1
      BY <2>1, OpenReads DEF IInv, TypeOK
    <3>2. Len(open') = Len(open) - 1
      BY <3>1 DEF Front
    <3> QED
      BY <3>1, <3>2
  <2>2. CASE Close
    BY <2>2, CloseNesting
  <2>3. CASE Finished
    BY <2>3 DEF Finished
  <2> QED
    BY <2>1, <2>2, <2>3 DEF Next
<1> QED
  BY <1>1, <1>2, <1>3, Invariance, PTL DEF Spec, ClosingRestores

-----------------------------------------------------------------------------
(* What the steps of the parser change, field by field                     *)

Fields ==
    {"state", "stack", "skip_depth", "node_depth", "fileset_depth", "path_depth", "direct",
     "in_manifest", "target", "task", "fileset", "filesets", "fileset_id", "selector",
     "selectors", "selector_id", "path", "path_id", "list", "lists", "nodes", "children"}

\* A context, whatever its fields hold.
IsContext(c) == c = [f \in Fields |-> c[f]]

\* r is c but for the fields in F.
Keeps(r, c, F) == IsContext(r) /\ \A f \in Fields \ F : r[f] = c[f]

\* e is added to the children of p.
Adds(r, c, p, e) == r.children = [c.children EXCEPT ![p] = Append(@, e)]

\* s and d go on the stack, or come off it.
Stacks(r, c, s, d) ==
    /\ r.state = s /\ Len(r.stack) = Len(c.stack) + 1
    /\ \A i \in 1..Len(c.stack) : r.stack[i] = c.stack[i]
    /\ r.stack[Len(c.stack) + 1].state = c.state /\ r.stack[Len(c.stack) + 1].data = d

Unstacks(r, c) ==
    /\ r.state = c.stack[Len(c.stack)].state /\ Len(r.stack) = Len(c.stack) - 1
    /\ \A i \in 1..Len(c.stack) - 1 : r.stack[i] = c.stack[i]

LEMMA ContextIs ==
  ASSUME NEW c \in Context
  PROVE  IsContext(c) /\ c.state \in States /\ c.stack \in Seq(Entry)
<1>1. IsContext(c)
  BY DEF IsContext, Fields, Context
<1> QED
  BY <1>1, ContextFields

LEMMA PushStacks ==
  ASSUME NEW c, IsContext(c), c.state \in States, c.stack \in Seq(Entry),
         NEW s, NEW d \in Elements \cup {None}
  PROVE  LET r == Push(c, s, d) IN Keeps(r, c, {"state", "stack"}) /\ Stacks(r, c, s, d)
<1> DEFINE entry == [state |-> c.state, data |-> d]
<1> DEFINE t == Append(c.stack, entry)
<1>1. entry \in Entry /\ entry.state = c.state /\ entry.data = d
  BY DEF Entry
<1>2. /\ Len(t) = Len(c.stack) + 1 /\ t[Len(c.stack) + 1] = entry
      /\ \A i \in 1..Len(c.stack) : t[i] = c.stack[i]
  <2> HIDE DEF entry
  <2> QED
    BY <1>1
<1> DEFINE r == [c EXCEPT !.stack = t, !.state = s]
<1>3. Push(c, s, d) = r
  BY DEF Push, IsContext, Fields
<1>4. Keeps(r, c, {"state", "stack"}) /\ r.state = s /\ r.stack = t
  <2> HIDE DEF t
  <2> QED
    BY DEF IsContext, Keeps, Fields
<1> HIDE DEF r, t, entry
<1> QED
  BY <1>1, <1>2, <1>3, <1>4 DEF Stacks

LEMMA PopUnstacks ==
  ASSUME NEW c, IsContext(c), c.stack \in Seq(Entry), c.stack # <<>>
  PROVE  LET r == Pop(c) IN Keeps(r, c, {"state", "stack"}) /\ Unstacks(r, c)
<1>1. Len(c.stack) \in Nat \ {0} /\ Last(c.stack) = c.stack[Len(c.stack)]
  BY DEF Last
<1> DEFINE t == Front(c.stack)
<1>2. /\ Len(t) = Len(c.stack) - 1
      /\ \A i \in 1..Len(c.stack) - 1 : t[i] = c.stack[i]
  BY <1>1 DEF Front
<1> DEFINE s == c.stack[Len(c.stack)].state
<1> DEFINE r == [c EXCEPT !.state = s, !.stack = t]
<1>3. Pop(c) = r
  BY <1>1 DEF Pop, IsContext, Fields
<1>4. Keeps(r, c, {"state", "stack"}) /\ r.state = s /\ r.stack = t
  <2> HIDE DEF t, s
  <2> QED
    BY DEF IsContext, Keeps, Fields
<1> HIDE DEF r, t
<1> QED
  BY <1>2, <1>3, <1>4 DEF Unstacks

LEMMA RecordAdds ==
  ASSUME NEW c, IsContext(c), NEW e, NEW p
  PROVE  LET r == Record(c, e, p) IN Keeps(r, c, {"children"}) /\ Adds(r, c, p, e)
<1> DEFINE t == [c.children EXCEPT ![p] = Append(@, e)]
<1> DEFINE r == [c EXCEPT !.children = t]
<1>1. Record(c, e, p) = r
  BY DEF Record, IsContext, Fields
<1>2. Keeps(r, c, {"children"}) /\ r.children = t
  <2> HIDE DEF t
  <2> QED
    BY DEF IsContext, Keeps, Fields
<1> HIDE DEF r
<1> QED
  BY <1>1, <1>2 DEF Adds

\* Two changes, one after the other.
LEMMA KeepsTwice ==
  ASSUME NEW r, NEW x, NEW c, NEW F, NEW G, Keeps(r, x, F), Keeps(x, c, G)
  PROVE  Keeps(r, c, F \cup G)
  BY DEF Keeps

\* What a push needs to know.
Proper(c) == IsContext(c) /\ c.state \in States /\ c.stack \in Seq(Entry)

LEMMA ProperKept ==
  ASSUME NEW x, NEW c, NEW F, Proper(c), Keeps(x, c, F), "state" \notin F, "stack" \notin F
  PROVE  Proper(x) /\ x.state = c.state /\ x.stack = c.stack
  BY DEF Proper, Keeps, Fields

\* A push after other changes.
LEMMA PushAfter ==
  ASSUME NEW c, Proper(c), NEW x, IsContext(x), x.state = c.state, x.stack = c.stack,
         NEW s, NEW d \in Elements \cup {None}
  PROVE  LET r == Push(x, s, d) IN
         /\ IsContext(r) /\ Stacks(r, c, s, d)
         /\ \A f \in Fields \ {"state", "stack"} : r[f] = x[f]
<1>1. Proper(x)
  BY DEF Proper
<1> DEFINE r == Push(x, s, d)
<1>2. Keeps(r, x, {"state", "stack"}) /\ Stacks(r, x, s, d)
  BY <1>1, PushStacks DEF Proper
<1> HIDE DEF r
<1>3. Stacks(r, c, s, d)
  BY <1>2 DEF Stacks
<1> QED
  BY <1>2, <1>3 DEF r, Keeps

LEMMA SkipEffect ==
  ASSUME NEW c, Proper(c)
  PROVE  LET r == Skip(c) IN
         /\ Keeps(r, c, {"skip_depth", "state", "stack"}) /\ Stacks(r, c, "SKIP", None)
         /\ r.skip_depth = 1
<1> DEFINE x == [c EXCEPT !.skip_depth = 1]
<1>1. Keeps(x, c, {"skip_depth"}) /\ x.skip_depth = 1
  BY DEF Proper, IsContext, Keeps, Fields
<1>2. Skip(c) = Push(x, "SKIP", None)
  BY DEF Skip
<1> HIDE DEF x
<1>3. IsContext(x) /\ x.state = c.state /\ x.stack = c.stack
  BY <1>1 DEF Keeps, Fields
<1>4. LET r == Push(x, "SKIP", None) IN
      /\ IsContext(r) /\ Stacks(r, c, "SKIP", None)
      /\ \A f \in Fields \ {"state", "stack"} : r[f] = x[f]
  BY <1>3, PushAfter
<1> QED
  BY <1>1, <1>2, <1>4 DEF Keeps, Fields

LEMMA BeginPathEffect ==
  ASSUME NEW c, Proper(c), NEW d \in Elements \cup {None}
  PROVE  LET r == BeginPath(c, d) IN
         /\ Keeps(r, c, {"list", "lists", "path_depth", "state", "stack"})
         /\ Stacks(r, c, "PATH", d)
         /\ r.list = <<>> /\ r.lists = <<>> /\ r.path_depth = 1
<1> DEFINE x == [c EXCEPT !.list = <<>>, !.lists = <<>>, !.path_depth = 1]
<1>1. /\ Keeps(x, c, {"list", "lists", "path_depth"})
      /\ x.list = <<>> /\ x.lists = <<>> /\ x.path_depth = 1
  BY DEF Proper, IsContext, Keeps, Fields
<1>2. BeginPath(c, d) = Push(x, "PATH", d)
  BY DEF BeginPath
<1> HIDE DEF x
<1>3. IsContext(x) /\ x.state = c.state /\ x.stack = c.stack
  BY <1>1 DEF Keeps, Fields
<1>4. LET r == Push(x, "PATH", d) IN
      /\ IsContext(r) /\ Stacks(r, c, "PATH", d)
      /\ \A f \in Fields \ {"state", "stack"} : r[f] = x[f]
  BY <1>3, PushAfter
<1> QED
  BY <1>1, <1>2, <1>4 DEF Keeps, Fields

LEMMA BeginFilesetEffect ==
  ASSUME NEW c, Proper(c), NEW e, NEW d \in Elements \cup {None}
  PROVE  LET r == BeginFileset(c, e, d) IN
         /\ Keeps(r, c, {"fileset", "fileset_depth", "state", "stack"})
         /\ Stacks(r, c, "FILESET", d)
         /\ r.fileset = e /\ r.fileset_depth = 1
<1> DEFINE x == [c EXCEPT !.fileset = e, !.fileset_depth = 1]
<1>1. /\ Keeps(x, c, {"fileset", "fileset_depth"})
      /\ x.fileset = e /\ x.fileset_depth = 1
  BY DEF Proper, IsContext, Keeps, Fields
<1>2. BeginFileset(c, e, d) = Push(x, "FILESET", d)
  BY DEF BeginFileset
<1> HIDE DEF x
<1>3. IsContext(x) /\ x.state = c.state /\ x.stack = c.stack
  BY <1>1 DEF Keeps, Fields
<1>4. LET r == Push(x, "FILESET", d) IN
      /\ IsContext(r) /\ Stacks(r, c, "FILESET", d)
      /\ \A f \in Fields \ {"state", "stack"} : r[f] = x[f]
  BY <1>3, PushAfter
<1> QED
  BY <1>1, <1>2, <1>4 DEF Keeps, Fields

LEMMA BeginSelectorEffect ==
  ASSUME NEW c, Proper(c), NEW e, NEW d \in Elements \cup {None}
  PROVE  LET r == BeginSelector(c, e, d) IN
         /\ Keeps(r, c, {"selector", "selectors", "state", "stack"})
         /\ Stacks(r, c, "SELECTOR", d)
         /\ r.selector = e /\ r.selectors = <<>>
<1> DEFINE x == [c EXCEPT !.selector = e, !.selectors = <<>>]
<1>1. /\ Keeps(x, c, {"selector", "selectors"})
      /\ x.selector = e /\ x.selectors = <<>>
  BY DEF Proper, IsContext, Keeps, Fields
<1>2. BeginSelector(c, e, d) = Push(x, "SELECTOR", d)
  BY DEF BeginSelector
<1> HIDE DEF x
<1>3. IsContext(x) /\ x.state = c.state /\ x.stack = c.stack
  BY <1>1 DEF Keeps, Fields
<1>4. LET r == Push(x, "SELECTOR", d) IN
      /\ IsContext(r) /\ Stacks(r, c, "SELECTOR", d)
      /\ \A f \in Fields \ {"state", "stack"} : r[f] = x[f]
  BY <1>3, PushAfter
<1> QED
  BY <1>1, <1>2, <1>4 DEF Keeps, Fields

\* The children of the project.
LEMMA ProjectChildEffects ==
  ASSUME NEW c, Proper(c), c.state = "PROJECT", NEW e \in Elements, NEW kind
  PROVE  LET r == StartElement(c, e, kind) IN
         /\ kind = "target" =>
              /\ Keeps(r, c, {"state", "target", "children"})
              /\ r.state = "TARGET" /\ r.target = e /\ Adds(r, c, Project, e)
         /\ kind = "property" => Keeps(r, c, {"children"}) /\ Adds(r, c, Project, e)
         /\ kind = "path" =>
              /\ Keeps(r, c, {"path_id", "path", "list", "lists", "path_depth", "state", "stack"})
              /\ Stacks(r, c, "PATH", None)
              /\ r.path_id = e /\ r.list = <<>> /\ r.lists = <<>> /\ r.path_depth = 1
         /\ kind = "fileset" =>
              /\ Keeps(r, c, {"fileset_id", "fileset", "fileset_depth", "state", "stack"})
              /\ Stacks(r, c, "FILESET", None)
              /\ r.fileset_id = e /\ r.fileset = e /\ r.fileset_depth = 1
         /\ kind = "selector" =>
              /\ Keeps(r, c, {"selector_id", "selector", "selectors", "state", "stack"})
              /\ Stacks(r, c, "SELECTOR", None)
              /\ r.selector_id = e /\ r.selector = e /\ r.selectors = <<>>
         /\ kind = "description" =>
              /\ Keeps(r, c, {"skip_depth", "state", "stack"}) /\ Stacks(r, c, "SKIP", None)
              /\ r.skip_depth = 1
<1> DEFINE r == StartElement(c, e, kind)
<1>0. r = StartInProject(c, e, kind)
  BY DEF StartElement
<1> HIDE DEF r
<1>1. ASSUME kind = "target"
      PROVE  /\ Keeps(r, c, {"state", "target", "children"})
             /\ r.state = "TARGET" /\ r.target = e /\ Adds(r, c, Project, e)
  <2> DEFINE x == Record(c, e, Project)
  <2>1. Keeps(x, c, {"children"}) /\ Adds(x, c, Project, e)
    BY RecordAdds DEF Proper
  <2>2. r = [x EXCEPT !.target = e, !.state = "TARGET"]
    BY <1>0, <1>1 DEF StartInProject
  <2> HIDE DEF x
  <2> QED
    BY <2>1, <2>2 DEF Keeps, IsContext, Fields, Adds
<1>2. ASSUME kind = "property"
      PROVE  Keeps(r, c, {"children"}) /\ Adds(r, c, Project, e)
  BY <1>0, <1>2, RecordAdds DEF StartInProject, Proper
<1>3. ASSUME kind = "path"
      PROVE  /\ Keeps(r, c, {"path_id", "path", "list", "lists", "path_depth", "state", "stack"})
             /\ Stacks(r, c, "PATH", None)
             /\ r.path_id = e /\ r.list = <<>> /\ r.lists = <<>> /\ r.path_depth = 1
  <2> DEFINE x == [c EXCEPT !.path_id = e, !.path = None]
  <2>1. Keeps(x, c, {"path_id", "path"}) /\ x.path_id = e
    BY DEF Proper, IsContext, Keeps, Fields
  <2>2. r = BeginPath(x, None)
    BY <1>0, <1>3 DEF StartInProject
  <2> HIDE DEF x
  <2>3. Proper(x) /\ x.state = c.state /\ x.stack = c.stack
    BY <2>1, ProperKept
  <2>4. /\ Keeps(r, x, {"list", "lists", "path_depth", "state", "stack"})
        /\ Stacks(r, x, "PATH", None)
        /\ r.list = <<>> /\ r.lists = <<>> /\ r.path_depth = 1
    BY <2>2, <2>3, BeginPathEffect
  <2> QED
    BY <2>1, <2>3, <2>4 DEF Keeps, Fields, Stacks
<1>4. ASSUME kind = "fileset"
      PROVE  /\ Keeps(r, c, {"fileset_id", "fileset", "fileset_depth", "state", "stack"})
             /\ Stacks(r, c, "FILESET", None)
             /\ r.fileset_id = e /\ r.fileset = e /\ r.fileset_depth = 1
  <2> DEFINE x == [c EXCEPT !.fileset_id = e]
  <2>1. Keeps(x, c, {"fileset_id"}) /\ x.fileset_id = e
    BY DEF Proper, IsContext, Keeps, Fields
  <2>2. r = BeginFileset(x, e, None)
    BY <1>0, <1>4 DEF StartInProject
  <2> HIDE DEF x
  <2>3. Proper(x) /\ x.state = c.state /\ x.stack = c.stack
    BY <2>1, ProperKept
  <2>4. /\ Keeps(r, x, {"fileset", "fileset_depth", "state", "stack"})
        /\ Stacks(r, x, "FILESET", None) /\ r.fileset = e /\ r.fileset_depth = 1
    BY <2>2, <2>3, BeginFilesetEffect
  <2> QED
    BY <2>1, <2>3, <2>4 DEF Keeps, Fields, Stacks
<1>5. ASSUME kind = "selector"
      PROVE  /\ Keeps(r, c, {"selector_id", "selector", "selectors", "state", "stack"})
             /\ Stacks(r, c, "SELECTOR", None)
             /\ r.selector_id = e /\ r.selector = e /\ r.selectors = <<>>
  <2> DEFINE x == [c EXCEPT !.selector_id = e]
  <2>1. Keeps(x, c, {"selector_id"}) /\ x.selector_id = e
    BY DEF Proper, IsContext, Keeps, Fields
  <2>2. r = BeginSelector(x, e, None)
    BY <1>0, <1>5 DEF StartInProject
  <2> HIDE DEF x
  <2>3. Proper(x) /\ x.state = c.state /\ x.stack = c.stack
    BY <2>1, ProperKept
  <2>4. /\ Keeps(r, x, {"selector", "selectors", "state", "stack"})
        /\ Stacks(r, x, "SELECTOR", None) /\ r.selector = e /\ r.selectors = <<>>
    BY <2>2, <2>3, BeginSelectorEffect
  <2> QED
    BY <2>1, <2>3, <2>4 DEF Keeps, Fields, Stacks
<1>6. ASSUME kind = "description"
      PROVE  /\ Keeps(r, c, {"skip_depth", "state", "stack"}) /\ Stacks(r, c, "SKIP", None)
             /\ r.skip_depth = 1
  <2>1. r = Skip(c)
    BY <1>0, <1>6 DEF StartInProject
  <2> QED
    BY <2>1, SkipEffect
<1> QED
  BY <1>1, <1>2, <1>3, <1>4, <1>5, <1>6 DEF r

LEMMA RootEffects ==
  ASSUME NEW c, Proper(c)
  PROVE  /\ c.state = "ROOT" =>
              \A e : LET r == StartElement(c, e, "project") IN
                     Keeps(r, c, {"state"}) /\ r.state = "PROJECT"
         /\ c.state = "SKIP" =>
              \A e, kind : LET r == StartElement(c, e, kind) IN
                     Keeps(r, c, {"skip_depth"}) /\ r.skip_depth = c.skip_depth + 1
<1>1. ASSUME c.state = "ROOT", NEW e
      PROVE  LET r == StartElement(c, e, "project") IN
             Keeps(r, c, {"state"}) /\ r.state = "PROJECT"
  <2>1. StartElement(c, e, "project") = [c EXCEPT !.state = "PROJECT"]
    BY <1>1 DEF StartElement
  <2> QED
    BY <2>1 DEF Proper, IsContext, Keeps, Fields
<1>2. ASSUME c.state = "SKIP", NEW e, NEW kind
      PROVE  LET r == StartElement(c, e, kind) IN
             Keeps(r, c, {"skip_depth"}) /\ r.skip_depth = c.skip_depth + 1
  <2>1. StartElement(c, e, kind) = [c EXCEPT !.skip_depth = @ + 1]
    BY <1>2 DEF StartElement
  <2> QED
    BY <2>1 DEF Proper, IsContext, Keeps, Fields
<1> QED
  BY <1>1, <1>2

LEMMA TaskEffect ==
  ASSUME NEW c, Proper(c), c.state = "TARGET", NEW e, NEW kind
  PROVE  LET r == StartElement(c, e, kind) IN
         /\ Keeps(r, c, {"task", "filesets", "node_depth", "direct", "nodes", "state", "stack"})
         /\ Stacks(r, c, "TASK", None)
         /\ r.task = e /\ r.filesets = <<>> /\ r.node_depth = 1
         /\ r.direct = (kind \notin NeedsXmlNode)
         /\ kind \in NeedsXmlNode => r.nodes = <<e>>
<1> DEFINE nodes == IF kind \in NeedsXmlNode THEN <<e>> ELSE <<>>
<1> DEFINE direct == ~(kind \in NeedsXmlNode)
<1> DEFINE x == [c EXCEPT !.task = e, !.filesets = <<>>, !.node_depth = 1,
                          !.direct = direct, !.nodes = nodes]
<1>1. StartElement(c, e, kind) = Push(x, "TASK", None)
  <2>1. StartElement(c, e, kind) = StartInTarget(c, e, kind)
    BY DEF StartElement
  <2> QED
    BY <2>1 DEF StartInTarget
<1>2. /\ Keeps(x, c, {"task", "filesets", "node_depth", "direct", "nodes"})
      /\ x.task = e /\ x.filesets = <<>> /\ x.node_depth = 1 /\ x.direct = direct
      /\ x.nodes = nodes
  <2> HIDE DEF nodes, direct
  <2> QED
    BY DEF Proper, IsContext, Keeps, Fields
<1> HIDE DEF x
<1>3. IsContext(x) /\ x.state = c.state /\ x.stack = c.stack
  BY <1>2 DEF Keeps, Fields
<1>4. LET r == Push(x, "TASK", None) IN
      /\ IsContext(r) /\ Stacks(r, c, "TASK", None)
      /\ \A f \in Fields \ {"state", "stack"} : r[f] = x[f]
  BY <1>3, PushAfter
<1>5. direct = (kind \notin NeedsXmlNode) /\ (kind \in NeedsXmlNode => nodes = <<e>>)
  OBVIOUS
<1> HIDE DEF nodes, direct
<1> QED
  BY <1>1, <1>2, <1>4, <1>5 DEF Keeps, Fields

LEMMA DeeperEffect ==
  ASSUME NEW c, IsContext(c)
  PROVE  Keeps(Deeper(c), c, {"node_depth"}) /\ Deeper(c).node_depth = c.node_depth + 1
  BY DEF Deeper, IsContext, Keeps, Fields

\* The children of a task that are read directly.
LEMMA DirectChildEffects ==
  ASSUME NEW c, Proper(c), c.state = "TASK", c.direct, NEW e \in Elements, NEW kind,
         c.fileset \in Elements \cup {None}
  PROVE  LET r == StartElement(c, e, kind) IN
         /\ kind = "manifest" =>
              /\ Keeps(r, c, {"node_depth", "in_manifest"})
              /\ r.node_depth = c.node_depth + 1 /\ r.in_manifest
         /\ kind = "attribute" /\ c.in_manifest =>
              /\ Keeps(r, c, {"children", "node_depth"})
              /\ r.node_depth = c.node_depth + 1 /\ Adds(r, c, c.task, e)
         /\ kind \in {"refpath", "arg"} /\ ~c.in_manifest =>
              /\ Keeps(r, c, {"children", "node_depth"})
              /\ r.node_depth = c.node_depth + 1 /\ Adds(r, c, c.task, e)
         /\ kind = "fileset" /\ ~c.in_manifest =>
              /\ Keeps(r, c, {"children", "filesets", "fileset", "fileset_depth", "state", "stack"})
              /\ Stacks(r, c, "FILESET", e) /\ Adds(r, c, c.task, e)
              /\ r.fileset = e /\ r.fileset_depth = 1
         /\ kind = "path" /\ ~c.in_manifest =>
              /\ Keeps(r, c, {"list", "lists", "path_depth", "state", "stack"})
              /\ Stacks(r, c, "PATH", e)
              /\ r.list = <<>> /\ r.lists = <<>> /\ r.path_depth = 1
         /\ kind = "or" /\ ~c.in_manifest =>
              /\ Keeps(r, c, {"selector", "selectors", "state", "stack"})
              /\ Stacks(r, c, "SELECTOR", c.fileset)
              /\ r.selector = e /\ r.selectors = <<>>
<1> DEFINE r == StartElement(c, e, kind)
<1>0. r = StartInTask(c, e, kind)
  BY DEF StartElement
<1> HIDE DEF r
<1>1. ASSUME kind = "manifest"
      PROVE  /\ Keeps(r, c, {"node_depth", "in_manifest"})
             /\ r.node_depth = c.node_depth + 1 /\ r.in_manifest
  <2>1. r = [Deeper(c) EXCEPT !.in_manifest = TRUE]
    BY <1>0, <1>1 DEF StartInTask
  <2> DEFINE x == Deeper(c)
  <2>2. Keeps(x, c, {"node_depth"}) /\ x.node_depth = c.node_depth + 1
    BY DeeperEffect DEF Proper
  <2> HIDE DEF x
  <2>3. r = [x EXCEPT !.in_manifest = TRUE]
    BY <2>1 DEF x
  <2> QED
    BY <2>2, <2>3 DEF Keeps, IsContext, Fields
<1>2. ASSUME r = Deeper(Record(c, e, c.task))
      PROVE  /\ Keeps(r, c, {"children", "node_depth"})
             /\ r.node_depth = c.node_depth + 1 /\ Adds(r, c, c.task, e)
  <2> DEFINE x == Record(c, e, c.task)
  <2>1. Keeps(x, c, {"children"}) /\ Adds(x, c, c.task, e)
    BY RecordAdds DEF Proper
  <2>2. r = Deeper(x)
    BY <1>2
  <2> HIDE DEF x
  <2>3. Keeps(r, x, {"node_depth"}) /\ r.node_depth = x.node_depth + 1
    BY <2>1, <2>2, DeeperEffect DEF Keeps
  <2> QED
    BY <2>1, <2>3 DEF Keeps, Fields, Adds
<1>3. kind = "attribute" /\ c.in_manifest => r = Deeper(Record(c, e, c.task))
  BY <1>0 DEF StartInTask
<1>4. kind \in {"refpath", "arg"} /\ ~c.in_manifest => r = Deeper(Record(c, e, c.task))
  BY <1>0 DEF StartInTask
<1>5. ASSUME kind = "fileset", ~c.in_manifest
      PROVE  /\ Keeps(r, c, {"children", "filesets", "fileset", "fileset_depth", "state", "stack"})
             /\ Stacks(r, c, "FILESET", e) /\ Adds(r, c, c.task, e)
             /\ r.fileset = e /\ r.fileset_depth = 1
  <2> DEFINE y == Record(c, e, c.task)
  <2>1. Keeps(y, c, {"children"}) /\ Adds(y, c, c.task, e)
    BY RecordAdds DEF Proper
  <2> HIDE DEF y
  <2> DEFINE filesets == Append(y.filesets, e)
  <2> DEFINE x == [y EXCEPT !.filesets = filesets]
  <2>2. r = BeginFileset(x, e, e)
    <3>1. r = BeginFileset([Record(c, e, c.task) EXCEPT !.filesets = Append(@, e)], e, e)
      BY <1>0, <1>5 DEF StartInTask
    <3> QED
      BY <2>1, <3>1 DEF y, Keeps, IsContext, Fields
  <2>3. Keeps(x, y, {"filesets"})
    <3> HIDE DEF filesets
    <3> QED
      BY <2>1 DEF Keeps, IsContext, Fields
  <2> HIDE DEF x
  <2>4. Proper(x) /\ x.state = c.state /\ x.stack = c.stack /\ x.children = y.children
    BY <2>1, <2>3 DEF Keeps, Fields, Proper
  <2>5. /\ Keeps(r, x, {"fileset", "fileset_depth", "state", "stack"})
        /\ Stacks(r, x, "FILESET", e) /\ r.fileset = e /\ r.fileset_depth = 1
    BY <2>2, <2>4, BeginFilesetEffect
  <2>6. Stacks(r, c, "FILESET", e)
    BY <2>4, <2>5 DEF Stacks
  <2>7. Adds(r, c, c.task, e)
    BY <2>1, <2>4, <2>5 DEF Adds, Keeps, Fields
  <2> QED
    BY <2>1, <2>3, <2>5, <2>6, <2>7 DEF Keeps, Fields
<1>6. kind = "path" /\ ~c.in_manifest => r = BeginPath(c, e)
  BY <1>0 DEF StartInTask
<1>7. kind = "or" /\ ~c.in_manifest => r = BeginSelector(c, e, c.fileset)
  BY <1>0 DEF StartInTask
<1>8. kind = "path" /\ ~c.in_manifest =>
        /\ Keeps(r, c, {"list", "lists", "path_depth", "state", "stack"})
        /\ Stacks(r, c, "PATH", e)
        /\ r.list = <<>> /\ r.lists = <<>> /\ r.path_depth = 1
  BY <1>6, BeginPathEffect
<1>9. kind = "or" /\ ~c.in_manifest =>
        /\ Keeps(r, c, {"selector", "selectors", "state", "stack"})
        /\ Stacks(r, c, "SELECTOR", c.fileset)
        /\ r.selector = e /\ r.selectors = <<>>
  BY <1>7, BeginSelectorEffect
<1> QED
  BY <1>1, <1>2, <1>3, <1>4, <1>5, <1>8, <1>9 DEF r

\* An include in a task whose filesets are none but the implicit one.
LEMMA IncludeEffect ==
  ASSUME NEW c, Proper(c), c.state = "TASK", c.direct, ~c.in_manifest, NEW e,
         c.fileset \in {None, c.task}, c.filesets \in {<<>>, <<c.task>>}
  PROVE  LET r == StartElement(c, e, "include") IN
         /\ Keeps(r, c, {"children", "node_depth", "fileset", "filesets"})
         /\ r.node_depth = c.node_depth + 1 /\ Adds(r, c, c.task, e)
         /\ r.fileset \in {None, c.task} /\ r.filesets \in {<<>>, <<c.task>>}
<1> DEFINE implicit == c.fileset = None /\ c.filesets = <<>>
<1> DEFINE fileset  == IF c.fileset # None THEN c.fileset
                       ELSE IF implicit THEN c.task ELSE Head(c.filesets)
<1>1. fileset = c.task
  BY DEF Head
<1> HIDE DEF fileset
<1> DEFINE y == Record(c, e, fileset)
<1>2. Keeps(y, c, {"children"}) /\ Adds(y, c, c.task, e)
  BY <1>1, RecordAdds DEF Proper
<1> DEFINE u == IF implicit THEN c.task ELSE y.fileset
<1> DEFINE w == IF implicit THEN <<c.task>> ELSE y.filesets
<1> DEFINE z == [y EXCEPT !.fileset = u, !.filesets = w]
<1>3. StartElement(c, e, "include") = Deeper(z)
  <2>1. StartElement(c, e, "include") = StartInTask(c, e, "include")
    BY DEF StartElement
  <2>2. StartInTask(c, e, "include") = Deeper(IncludeInTask(c, e))
    BY DEF StartInTask
  <2>3. IncludeInTask(c, e) = z
    BY DEF IncludeInTask, fileset
  <2> QED
    BY <2>1, <2>2, <2>3
<1> HIDE DEF y
<1>4. u \in {None, c.task} /\ w \in {<<>>, <<c.task>>}
  BY <1>2 DEF Keeps, Fields
<1> HIDE DEF u, w
<1>5. Keeps(z, y, {"fileset", "filesets"}) /\ z.fileset = u /\ z.filesets = w
  BY <1>2 DEF Keeps, IsContext, Fields
<1> HIDE DEF z
<1> DEFINE r == Deeper(z)
<1>6. Keeps(r, z, {"node_depth"}) /\ r.node_depth = z.node_depth + 1
  BY <1>5, DeeperEffect DEF Keeps
<1> HIDE DEF r
<1>7. /\ Keeps(r, c, {"children", "node_depth", "fileset", "filesets"})
      /\ r.node_depth = c.node_depth + 1 /\ Adds(r, c, c.task, e)
      /\ r.fileset = u /\ r.filesets = w
  BY <1>2, <1>5, <1>6 DEF Keeps, Fields, Adds
<1> QED
  BY <1>3, <1>4, <1>7 DEF r

LEMMA XmlChildEffect ==
  ASSUME NEW c, Proper(c), c.state = "TASK", ~c.direct, NEW e, NEW kind
  PROVE  LET r == StartElement(c, e, kind) IN
         /\ Keeps(r, c, {"children", "node_depth", "nodes"})
         /\ r.node_depth = c.node_depth + 1 /\ Adds(r, c, Last(c.nodes), e)
         /\ r.nodes = Append(c.nodes, e)
<1> DEFINE y == Record(c, e, Last(c.nodes))
<1>1. Keeps(y, c, {"children"}) /\ Adds(y, c, Last(c.nodes), e)
  BY RecordAdds DEF Proper
<1> DEFINE z == Deeper(y)
<1>2. StartElement(c, e, kind) = [z EXCEPT !.nodes = Append(@, e)]
  <2>1. StartElement(c, e, kind) = StartInTask(c, e, kind)
    BY DEF StartElement
  <2> QED
    BY <2>1 DEF StartInTask
<1> HIDE DEF y
<1>3. Keeps(z, y, {"node_depth"}) /\ z.node_depth = y.node_depth + 1
  BY <1>1, DeeperEffect DEF Keeps
<1> HIDE DEF z
<1> DEFINE t == Append(z.nodes, e)
<1> DEFINE r == [z EXCEPT !.nodes = t]
<1>4. Keeps(r, z, {"nodes"}) /\ r.nodes = t
  <2> HIDE DEF t
  <2> QED
    BY <1>3 DEF Keeps, IsContext, Fields
<1>5. t = Append(c.nodes, e)
  BY <1>1, <1>3 DEF Keeps, Fields
<1>6. StartElement(c, e, kind) = r
  BY <1>2
<1> HIDE DEF r, t
<1> QED
  BY <1>1, <1>3, <1>4, <1>5, <1>6 DEF Keeps, Fields, Adds

LEMMA PathChildEffects ==
  ASSUME NEW c, Proper(c), c.state = "PATH", NEW e, NEW kind
  PROVE  LET r == StartElement(c, e, kind) IN
         /\ kind = "include" /\ c.fileset # None =>
              /\ Keeps(r, c, {"path_depth", "children"})
              /\ r.path_depth = c.path_depth + 1 /\ Adds(r, c, c.fileset, e)
         /\ kind = "pathelement" =>
              /\ Keeps(r, c, {"path_depth", "list"})
              /\ r.path_depth = c.path_depth + 1 /\ r.list = Append(c.list, e)
         /\ kind = "fileset" =>
              /\ Keeps(r, c, {"path_depth", "list", "fileset"})
              /\ r.path_depth = c.path_depth + 1 /\ r.list = Append(c.list, e)
              /\ r.fileset = e
         /\ kind = "inline" =>
              /\ Keeps(r, c, {"path_depth", "list", "lists", "path"})
              /\ r.path_depth = c.path_depth + 1
              /\ r.lists = Append(c.lists, c.list) /\ r.list = <<>> /\ r.path = e
<1> DEFINE r == StartElement(c, e, kind)
<1> DEFINE d == [c EXCEPT !.path_depth = @ + 1]
<1>0. r = StartInPath(c, e, kind)
  BY DEF StartElement
<1> HIDE DEF r
<1>1. Keeps(d, c, {"path_depth"}) /\ d.path_depth = c.path_depth + 1
  BY DEF Proper, IsContext, Keeps, Fields
<1>2. ASSUME kind = "include", c.fileset # None
      PROVE  /\ Keeps(r, c, {"path_depth", "children"})
             /\ r.path_depth = c.path_depth + 1 /\ Adds(r, c, c.fileset, e)
  <2>1. r = Record(d, e, c.fileset)
    BY <1>0, <1>2 DEF StartInPath
  <2> HIDE DEF d
  <2>2. Keeps(r, d, {"children"}) /\ Adds(r, d, c.fileset, e)
    BY <1>1, <2>1, RecordAdds DEF Keeps
  <2> QED
    BY <1>1, <2>2 DEF Keeps, Fields, Adds
<1>3. ASSUME kind = "pathelement"
      PROVE  /\ Keeps(r, c, {"path_depth", "list"})
             /\ r.path_depth = c.path_depth + 1 /\ r.list = Append(c.list, e)
  <2> DEFINE t == Append(c.list, e)
  <2>1. r = [d EXCEPT !.list = Append(@, e)]
    BY <1>0, <1>3 DEF StartInPath
  <2> HIDE DEF d
  <2>2. r = [d EXCEPT !.list = t]
    BY <1>1, <2>1 DEF Keeps, IsContext, Fields
  <2> HIDE DEF t
  <2>3. Keeps(r, d, {"list"}) /\ r.list = t
    BY <1>1, <2>2 DEF Keeps, IsContext, Fields
  <2> QED
    BY <1>1, <2>3 DEF Keeps, Fields, t
<1>4. ASSUME kind = "fileset"
      PROVE  /\ Keeps(r, c, {"path_depth", "list", "fileset"})
             /\ r.path_depth = c.path_depth + 1 /\ r.list = Append(c.list, e)
             /\ r.fileset = e
  <2> DEFINE t == Append(c.list, e)
  <2>1. r = [d EXCEPT !.list = Append(@, e), !.fileset = e]
    BY <1>0, <1>4 DEF StartInPath
  <2> HIDE DEF d
  <2>2. r = [d EXCEPT !.list = t, !.fileset = e]
    BY <1>1, <2>1 DEF Keeps, IsContext, Fields
  <2> HIDE DEF t
  <2>3. Keeps(r, d, {"list", "fileset"}) /\ r.list = t /\ r.fileset = e
    BY <1>1, <2>2 DEF Keeps, IsContext, Fields
  <2> QED
    BY <1>1, <2>3 DEF Keeps, Fields, t
<1>5. ASSUME kind = "inline"
      PROVE  /\ Keeps(r, c, {"path_depth", "list", "lists", "path"})
             /\ r.path_depth = c.path_depth + 1
             /\ r.lists = Append(c.lists, c.list) /\ r.list = <<>> /\ r.path = e
  <2> DEFINE t == Append(c.lists, c.list)
  <2>1. r = [d EXCEPT !.lists = Append(@, c.list), !.list = <<>>, !.path = e]
    BY <1>0, <1>5 DEF StartInPath
  <2> HIDE DEF d
  <2>2. r = [d EXCEPT !.lists = t, !.list = <<>>, !.path = e]
    BY <1>1, <2>1 DEF Keeps, IsContext, Fields
  <2> HIDE DEF t
  <2>3. /\ Keeps(r, d, {"list", "lists", "path"})
        /\ r.lists = t /\ r.list = <<>> /\ r.path = e
    BY <1>1, <2>2 DEF Keeps, IsContext, Fields
  <2> QED
    BY <1>1, <2>3 DEF Keeps, Fields, t
<1> QED
  BY <1>2, <1>3, <1>4, <1>5 DEF r

LEMMA FilesetChildEffect ==
  ASSUME NEW c, Proper(c), c.state = "FILESET", c.fileset # None, NEW e
  PROVE  LET r == StartElement(c, e, "include") IN
         /\ Keeps(r, c, {"fileset_depth", "children"})
         /\ r.fileset_depth = c.fileset_depth + 1 /\ Adds(r, c, c.fileset, e)
<1> DEFINE d == [c EXCEPT !.fileset_depth = @ + 1]
<1>1. Keeps(d, c, {"fileset_depth"}) /\ d.fileset_depth = c.fileset_depth + 1
  BY DEF Proper, IsContext, Keeps, Fields
<1>2. StartElement(c, e, "include") = Record(d, e, c.fileset)
  <2>1. StartElement(c, e, "include") = StartInFileset(c, e, "include")
    BY DEF StartElement
  <2> QED
    BY <2>1 DEF StartInFileset
<1> HIDE DEF d
<1> DEFINE r == Record(d, e, c.fileset)
<1>3. Keeps(r, d, {"children"}) /\ Adds(r, d, c.fileset, e)
  BY <1>1, RecordAdds DEF Keeps
<1> HIDE DEF r
<1>4. /\ Keeps(r, c, {"fileset_depth", "children"})
      /\ r.fileset_depth = c.fileset_depth + 1 /\ Adds(r, c, c.fileset, e)
  BY <1>1, <1>3 DEF Keeps, Fields, Adds
<1> QED
  BY <1>2, <1>4 DEF r

LEMMA SelectorChildEffect ==
  ASSUME NEW c, Proper(c), c.state = "SELECTOR", c.selector # None, NEW e, NEW kind
  PROVE  LET r == StartElement(c, e, kind) IN
         /\ Keeps(r, c, {"selector", "selectors"})
         /\ r.selector = e /\ r.selectors = Append(c.selectors, c.selector)
<1> DEFINE t == Append(c.selectors, c.selector)
<1>1. StartElement(c, e, kind) = [c EXCEPT !.selectors = t, !.selector = e]
  <2>1. StartElement(c, e, kind) = StartInSelector(c, e)
    BY DEF StartElement
  <2> QED
    BY <2>1 DEF StartInSelector, Proper, IsContext, Fields
<1> HIDE DEF t
<1>2. LET r == [c EXCEPT !.selectors = t, !.selector = e] IN
      Keeps(r, c, {"selector", "selectors"}) /\ r.selector = e /\ r.selectors = t
  BY DEF Proper, IsContext, Keeps, Fields
<1> QED
  BY <1>1, <1>2 DEF t

\* A pop after other changes.
LEMMA PopAfter ==
  ASSUME NEW c, Proper(c), c.stack # <<>>, NEW x, IsContext(x), x.stack = c.stack
  PROVE  LET r == Pop(x) IN
         /\ IsContext(r) /\ Unstacks(r, c)
         /\ \A f \in Fields \ {"state", "stack"} : r[f] = x[f]
<1> DEFINE r == Pop(x)
<1>1. Keeps(r, x, {"state", "stack"}) /\ Unstacks(r, x)
  BY PopUnstacks DEF Proper
<1> HIDE DEF r
<1>2. Unstacks(r, c)
  BY <1>1 DEF Unstacks
<1> QED
  BY <1>1, <1>2 DEF r, Keeps

LEMMA ProjectEndEffects ==
  ASSUME NEW c, Proper(c)
  PROVE  /\ c.state = "PROJECT" =>
              /\ \A kind : kind # "project" => EndElement(c, kind) = c
              /\ LET r == EndElement(c, "project") IN Keeps(r, c, {"state"}) /\ r.state = "ROOT"
         /\ c.state = "TARGET" =>
              \A kind : LET r == EndElement(c, kind) IN
                        Keeps(r, c, {"state", "target"}) /\ r.state = "PROJECT"
<1>1. ASSUME c.state = "PROJECT"
      PROVE  LET r == EndElement(c, "project") IN Keeps(r, c, {"state"}) /\ r.state = "ROOT"
  <2>1. EndElement(c, "project") = [c EXCEPT !.state = "ROOT"]
    BY <1>1 DEF EndElement
  <2> QED
    BY <2>1 DEF Proper, IsContext, Keeps, Fields
<1>2. ASSUME c.state = "PROJECT", NEW kind, kind # "project"
      PROVE  EndElement(c, kind) = c
  BY <1>2 DEF EndElement
<1>3. ASSUME c.state = "TARGET", NEW kind
      PROVE  LET r == EndElement(c, kind) IN
             Keeps(r, c, {"state", "target"}) /\ r.state = "PROJECT"
  <2>1. EndElement(c, kind) = [c EXCEPT !.target = None, !.state = "PROJECT"]
    BY <1>3 DEF EndElement
  <2> QED
    BY <2>1 DEF Proper, IsContext, Keeps, Fields
<1> QED
  BY <1>1, <1>2, <1>3

LEMMA SkipEndEffects ==
  ASSUME NEW c, Proper(c), c.state = "SKIP", c.stack # <<>>, NEW kind
  PROVE  LET r == EndElement(c, kind) IN
         /\ c.skip_depth - 1 # 0 =>
              Keeps(r, c, {"skip_depth"}) /\ r.skip_depth = c.skip_depth - 1
         /\ c.skip_depth - 1 = 0 => Keeps(r, c, {"skip_depth", "state", "stack"}) /\ Unstacks(r, c)
<1> DEFINE d == [c EXCEPT !.skip_depth = @ - 1]
<1>1. Keeps(d, c, {"skip_depth"}) /\ d.skip_depth = c.skip_depth - 1
  BY DEF Proper, IsContext, Keeps, Fields
<1>2. EndElement(c, kind) = IF d.skip_depth = 0 THEN Pop(d) ELSE d
  BY DEF EndElement, EndSkip
<1> HIDE DEF d
<1>3. LET r == Pop(d) IN
      IsContext(r) /\ Unstacks(r, c) /\ \A f \in Fields \ {"state", "stack"} : r[f] = d[f]
  <2>1. IsContext(d) /\ d.stack = c.stack
    BY <1>1 DEF Keeps, Fields
  <2> QED
    BY <2>1, PopAfter
<1> QED
  BY <1>1, <1>2, <1>3 DEF Keeps, Fields

LEMMA TaskEndEffects ==
  ASSUME NEW c, Proper(c), c.state = "TASK", c.stack # <<>>, c.direct \in BOOLEAN, NEW kind
  PROVE  LET r == EndElement(c, kind) IN
         /\ c.node_depth - 1 = 0 =>
              /\ Keeps(r, c, {"children", "node_depth", "nodes", "task", "fileset", "direct",
                              "state", "stack"})
              /\ Unstacks(r, c) /\ Adds(r, c, c.target, c.task)
              /\ r.task = None /\ r.fileset = None
         /\ c.node_depth - 1 # 0 /\ c.direct /\ kind # "fileset" =>
              /\ Keeps(r, c, {"node_depth", "in_manifest"})
              /\ r.node_depth = c.node_depth - 1
              /\ r.in_manifest = (c.in_manifest /\ kind # "manifest")
         /\ c.node_depth - 1 # 0 /\ ~c.direct =>
              /\ Keeps(r, c, {"node_depth", "nodes"})
              /\ r.node_depth = c.node_depth - 1 /\ r.nodes = Front(c.nodes)
<1> DEFINE d == [c EXCEPT !.node_depth = @ - 1]
<1> DEFINE r == EndElement(c, kind)
<1>1. Keeps(d, c, {"node_depth"}) /\ d.node_depth = c.node_depth - 1
  BY DEF Proper, IsContext, Keeps, Fields
<1>2. r = EndTask(c, kind)
  BY DEF EndElement
<1> HIDE DEF r
<1>3. ASSUME c.node_depth - 1 = 0
      PROVE  /\ Keeps(r, c, {"children", "node_depth", "nodes", "task", "fileset", "direct",
                             "state", "stack"})
             /\ Unstacks(r, c) /\ Adds(r, c, c.target, c.task)
             /\ r.task = None /\ r.fileset = None
  <2> DEFINE y == Record(d, d.task, d.target)
  <2> DEFINE x == [y EXCEPT !.nodes = <<>>, !.task = None, !.fileset = None, !.direct = FALSE]
  <2>1. r = Pop(x)
    <3>1. d.node_depth = 0
      BY <1>1, <1>3
    <3> QED
      BY <1>2, <3>1 DEF EndTask
  <2> HIDE DEF d
  <2>2. d.task = c.task /\ d.target = c.target
    BY <1>1 DEF Keeps, Fields
  <2>3. Keeps(y, d, {"children"}) /\ Adds(y, d, c.target, c.task)
    BY <1>1, <2>2, RecordAdds DEF Keeps
  <2> HIDE DEF y
  <2>4. Keeps(x, y, {"nodes", "task", "fileset", "direct"}) /\ x.task = None /\ x.fileset = None
    BY <2>3 DEF Keeps, IsContext, Fields
  <2> HIDE DEF x
  <2>5. IsContext(x) /\ x.stack = c.stack
    BY <1>1, <2>3, <2>4 DEF Keeps, Fields
  <2>6. IsContext(r) /\ Unstacks(r, c) /\ \A f \in Fields \ {"state", "stack"} : r[f] = x[f]
    BY <2>1, <2>5, PopAfter
  <2>7. r.children = y.children /\ d.children = c.children
    BY <1>1, <2>4, <2>6 DEF Keeps, Fields
  <2> QED
    BY <1>1, <2>3, <2>4, <2>6, <2>7 DEF Keeps, Fields, Adds
<1>4. ASSUME c.node_depth - 1 # 0, c.direct, kind # "fileset"
      PROVE  /\ Keeps(r, c, {"node_depth", "in_manifest"})
             /\ r.node_depth = c.node_depth - 1
             /\ r.in_manifest = (c.in_manifest /\ kind # "manifest")
  <2> DEFINE m == c.in_manifest /\ kind # "manifest"
  <2>1. d.node_depth # 0 /\ d.direct /\ d.in_manifest = c.in_manifest
    BY <1>1, <1>4 DEF Keeps, Fields
  <2>2. r = [d EXCEPT !.in_manifest = m, !.fileset = d.fileset,
                      !.fileset_depth = d.fileset_depth]
    <3>1. r = [d EXCEPT !.in_manifest = @ /\ kind # "manifest",
                        !.fileset = IF kind = "fileset" THEN None ELSE @,
                        !.fileset_depth = IF kind = "fileset" THEN 0 ELSE @]
      BY <1>2, <2>1 DEF EndTask
    <3> HIDE DEF d
    <3> QED
      BY <1>1, <1>4, <2>1, <3>1 DEF Keeps, IsContext, Fields
  <2> HIDE DEF d, m
  <2>3. Keeps(r, d, {"in_manifest"}) /\ r.in_manifest = m
    BY <1>1, <2>2 DEF Keeps, IsContext, Fields
  <2> QED
    BY <1>1, <2>3 DEF Keeps, Fields, m
<1>5. ASSUME c.node_depth - 1 # 0, ~c.direct
      PROVE  /\ Keeps(r, c, {"node_depth", "nodes"})
             /\ r.node_depth = c.node_depth - 1 /\ r.nodes = Front(c.nodes)
  <2> DEFINE t == Front(c.nodes)
  <2>1. d.node_depth # 0 /\ ~d.direct /\ d.nodes = c.nodes
    BY <1>1, <1>5 DEF Keeps, Fields
  <2>2. r = [d EXCEPT !.nodes = t]
    <3>1. r = [d EXCEPT !.nodes = Front(@)]
      BY <1>2, <2>1 DEF EndTask
    <3> HIDE DEF d
    <3> QED
      BY <1>1, <2>1, <3>1 DEF Keeps, IsContext, Fields
  <2> HIDE DEF d, t
  <2>3. Keeps(r, d, {"nodes"}) /\ r.nodes = t
    BY <1>1, <2>2 DEF Keeps, IsContext, Fields
  <2> QED
    BY <1>1, <2>3 DEF Keeps, Fields, t
<1> QED
  BY <1>3, <1>4, <1>5 DEF r

\* The children, when the path x is recorded with its list and goes to o.
PathAdded(children, list, x, o) ==
    IF list = <<>> THEN children
    ELSE [[children EXCEPT ![x] = list] EXCEPT ![o] = Append(@, x)]

\* A path that ends is x, and goes to o.
LEMMA PathEndEffect ==
  ASSUME NEW c, Proper(c), c.state = "PATH", c.stack # <<>>, c.path_depth - 1 = 0,
         NEW kind, NEW x, NEW o,
         \/ Last(c.stack).state = "TASK" /\ c.task # None /\ x = Last(c.stack).data /\ o = c.task
         \/ Last(c.stack).state # "TASK" /\ c.path_id # None /\ x = c.path_id /\ o = Project
  PROVE  LET r == EndElement(c, kind) IN
         /\ Keeps(r, c, {"path_depth", "children", "path_id", "list", "path", "fileset",
                         "state", "stack"})
         /\ Unstacks(r, c) /\ r.path_id = None /\ r.fileset = None
         /\ r.children = PathAdded(c.children, c.list, x, o)
<1> DEFINE d == [c EXCEPT !.path_depth = @ - 1]
<1> DEFINE y == PathRecorded(d)
<1> DEFINE z == [y EXCEPT !.path_id = None, !.list = <<>>, !.path = None, !.fileset = None]
<1> DEFINE r == EndElement(c, kind)
<1>1. Keeps(d, c, {"path_depth"}) /\ d.path_depth = c.path_depth - 1
  BY DEF Proper, IsContext, Keeps, Fields
<1>2. r = Pop(z)
  <2>1. r = EndPath(c)
    BY DEF EndElement
  <2>2. d.path_depth = 0
    BY <1>1
  <2> QED
    BY <2>1, <2>2 DEF EndPath
<1> DEFINE t == [[c.children EXCEPT ![x] = c.list] EXCEPT ![o] = Append(@, x)]
<1> HIDE DEF d, r
<1>3. d.stack = c.stack /\ d.task = c.task /\ d.path_id = c.path_id
      /\ d.list = c.list /\ d.children = c.children
  BY <1>1 DEF Keeps, Fields
<1>4. /\ Keeps(y, d, {"children"})
      /\ y.children = IF c.list = <<>> THEN c.children ELSE t
  <2>1. CASE c.list = <<>>
    <3>1. y = d
      BY <1>3, <2>1 DEF PathRecorded
    <3> QED
      BY <1>1, <1>3, <2>1, <3>1 DEF Keeps
  <2>2. CASE c.list # <<>>
    <3> DEFINE u == [c.children EXCEPT ![x] = c.list]
    <3> DEFINE w == [d EXCEPT !.children = u]
    <3>1. [d EXCEPT !.children[x] = c.list] = w
      BY <1>1, <1>3 DEF Keeps, IsContext, Fields
    <3>2. y = Record(w, x, o)
      BY <1>3, <2>2, <3>1 DEF PathRecorded
    <3>3. Keeps(w, d, {"children"}) /\ w.children = u
      <4> HIDE DEF u
      <4> QED
        BY <1>1 DEF Keeps, IsContext, Fields
    <3> HIDE DEF y, w
    <3>4. Keeps(y, w, {"children"}) /\ Adds(y, w, o, x)
      BY <3>2, <3>3, RecordAdds DEF Keeps
    <3> QED
      BY <2>2, <3>3, <3>4 DEF Keeps, Adds
  <2> QED
    BY <2>1, <2>2
<1>10. y.children = PathAdded(c.children, c.list, x, o)
  BY <1>4 DEF PathAdded
<1> HIDE DEF y, t
<1>5. Keeps(z, y, {"path_id", "list", "path", "fileset"}) /\ z.path_id = None /\ z.fileset = None
  BY <1>4 DEF Keeps, IsContext, Fields
<1> HIDE DEF z
<1>6. IsContext(z) /\ z.stack = c.stack
  BY <1>3, <1>4, <1>5 DEF Keeps, Fields
<1>7. IsContext(r) /\ Unstacks(r, c) /\ \A f \in Fields \ {"state", "stack"} : r[f] = z[f]
  BY <1>2, <1>6, PopAfter
<1>8. r.children = y.children
  BY <1>5, <1>7 DEF Keeps, Fields
<1>9. /\ Keeps(r, c, {"path_depth", "children", "path_id", "list", "path", "fileset",
                      "state", "stack"})
      /\ r.path_id = None /\ r.fileset = None
  BY <1>1, <1>4, <1>5, <1>7 DEF Keeps, Fields
<1> QED
  BY <1>7, <1>8, <1>9, <1>10 DEF r

LEMMA PathChildEndEffects ==
  ASSUME NEW c, Proper(c), c.state = "PATH", c.path_depth - 1 # 0, NEW kind
  PROVE  LET r == EndElement(c, kind) IN
         /\ c.lists = <<>> => Keeps(r, c, {"path_depth"}) /\ r.path_depth = c.path_depth - 1
         /\ c.lists # <<>> /\ c.path # None =>
              /\ Keeps(r, c, {"path_depth", "list", "lists", "path", "fileset"})
              /\ r.path_depth = c.path_depth - 1
              /\ r.list = Last(c.lists) \o c.list /\ r.lists = Front(c.lists)
<1> DEFINE d == [c EXCEPT !.path_depth = @ - 1]
<1> DEFINE r == EndElement(c, kind)
<1>1. Keeps(d, c, {"path_depth"}) /\ d.path_depth = c.path_depth - 1
  BY DEF Proper, IsContext, Keeps, Fields
<1>2. r = EndInlinePath(d)
  <2>1. r = EndPath(c)
    BY DEF EndElement
  <2>2. d.path_depth # 0
    BY <1>1
  <2> QED
    BY <2>1, <2>2 DEF EndPath
<1> HIDE DEF d, r
<1>3. d.lists = c.lists /\ d.list = c.list /\ d.path = c.path
  BY <1>1 DEF Keeps, Fields
<1>4. c.lists = <<>> => r = d
  BY <1>2, <1>3 DEF EndInlinePath
<1>5. ASSUME c.lists # <<>>, c.path # None
      PROVE  /\ Keeps(r, c, {"path_depth", "list", "lists", "path", "fileset"})
             /\ r.path_depth = c.path_depth - 1
             /\ r.list = Last(c.lists) \o c.list /\ r.lists = Front(c.lists)
  <2> DEFINE u == Last(c.lists) \o c.list
  <2> DEFINE w == Front(c.lists)
  <2>1. r = [d EXCEPT !.list = u, !.lists = w, !.path = None, !.fileset = None]
    <3>1. r = [d EXCEPT !.list = u, !.lists = Front(@), !.path = None, !.fileset = None]
      BY <1>2, <1>3, <1>5 DEF EndInlinePath
    <3> HIDE DEF u
    <3> QED
      BY <1>1, <1>3, <3>1 DEF Keeps, IsContext, Fields
  <2> HIDE DEF u, w
  <2>2. Keeps(r, d, {"list", "lists", "path", "fileset"}) /\ r.list = u /\ r.lists = w
    BY <1>1, <2>1 DEF Keeps, IsContext, Fields
  <2> QED
    BY <1>1, <2>2 DEF Keeps, Fields, u, w
<1> QED
  BY <1>1, <1>4, <1>5 DEF r

LEMMA FilesetEndEffects ==
  ASSUME NEW c, Proper(c), c.state = "FILESET", c.stack # <<>>, c.fileset # None, NEW kind
  PROVE  LET r == EndElement(c, kind) IN
         /\ c.fileset_depth - 1 # 0 =>
              Keeps(r, c, {"fileset_depth"}) /\ r.fileset_depth = c.fileset_depth - 1
         /\ c.fileset_depth - 1 = 0 =>
              /\ Keeps(r, c, {"fileset_depth", "children", "fileset_id", "fileset",
                              "state", "stack"})
              /\ Unstacks(r, c) /\ r.fileset_id = None /\ r.fileset = None
              /\ IF c.fileset_id # None THEN Adds(r, c, Project, c.fileset)
                                        ELSE r.children = c.children
<1> DEFINE d == [c EXCEPT !.fileset_depth = @ - 1]
<1> DEFINE y == IF d.fileset_id # None /\ d.fileset # None
                THEN Record(d, d.fileset, Project) ELSE d
<1> DEFINE z == [y EXCEPT !.fileset_id = None, !.fileset = None]
<1> DEFINE r == EndElement(c, kind)
<1>1. Keeps(d, c, {"fileset_depth"}) /\ d.fileset_depth = c.fileset_depth - 1
  BY DEF Proper, IsContext, Keeps, Fields
<1>2. r = IF d.fileset_depth # 0 THEN d ELSE Pop(z)
  <2>1. r = EndFileset(c)
    BY DEF EndElement
  <2> QED
    BY <2>1 DEF EndFileset
<1> HIDE DEF d, r
<1>3. /\ d.stack = c.stack /\ d.fileset_id = c.fileset_id /\ d.fileset = c.fileset
      /\ d.children = c.children
  BY <1>1 DEF Keeps, Fields
<1>4. /\ Keeps(y, d, {"children"})
      /\ IF c.fileset_id # None THEN Adds(y, d, Project, c.fileset)
                                ELSE y.children = c.children
  <2>1. CASE c.fileset_id = None
    BY <1>1, <1>3, <2>1 DEF Keeps
  <2>2. CASE c.fileset_id # None
    <3>1. y = Record(d, c.fileset, Project)
      BY <1>3, <2>2
    <3> HIDE DEF y
    <3> QED
      BY <1>1, <2>2, <3>1, RecordAdds DEF Keeps
  <2> QED
    BY <2>1, <2>2
<1> HIDE DEF y
<1>5. Keeps(z, y, {"fileset_id", "fileset"}) /\ z.fileset_id = None /\ z.fileset = None
  BY <1>4 DEF Keeps, IsContext, Fields
<1> HIDE DEF z
<1>6. IsContext(z) /\ z.stack = c.stack
  BY <1>3, <1>4, <1>5 DEF Keeps, Fields
<1> DEFINE p == Pop(z)
<1>7. IsContext(p) /\ Unstacks(p, c) /\ \A f \in Fields \ {"state", "stack"} : p[f] = z[f]
  BY <1>6, PopAfter
<1> HIDE DEF p
<1>8. p.children = y.children
  BY <1>5, <1>7 DEF Keeps, Fields
<1>9. /\ Keeps(p, c, {"fileset_depth", "children", "fileset_id", "fileset", "state", "stack"})
      /\ p.fileset_id = None /\ p.fileset = None
      /\ IF c.fileset_id # None THEN Adds(p, c, Project, c.fileset)
                                ELSE p.children = c.children
  BY <1>1, <1>3, <1>4, <1>5, <1>7, <1>8 DEF Keeps, Fields, Adds
<1>10. r = IF c.fileset_depth - 1 # 0 THEN d ELSE p
  BY <1>1, <1>2 DEF p
<1> QED
  BY <1>1, <1>7, <1>9, <1>10 DEF r

LEMMA SelectorEndEffects ==
  ASSUME NEW c, Proper(c), c.state = "SELECTOR", c.stack # <<>>, c.selector # None,
         NEW kind, NEW o, o # None,
         o = IF c.selector_id # None THEN Project
             ELSE IF Last(c.stack).data # None THEN Last(c.stack).data ELSE c.task
  PROVE  LET r == EndElement(c, kind) IN
         /\ c.selectors # <<>> =>
              /\ Keeps(r, c, {"children", "selector", "selectors"})
              /\ Adds(r, c, Last(c.selectors), c.selector)
              /\ r.selector = Last(c.selectors) /\ r.selectors = Front(c.selectors)
         /\ c.selectors = <<>> =>
              /\ Keeps(r, c, {"children", "selector_id", "selector", "state", "stack"})
              /\ Unstacks(r, c) /\ Adds(r, c, o, c.selector)
              /\ r.selector_id = None
<1> DEFINE r == EndElement(c, kind)
<1>0. r = EndSelector(c)
  BY DEF EndElement
<1> HIDE DEF r
<1>1. ASSUME c.selectors # <<>>
      PROVE  /\ Keeps(r, c, {"children", "selector", "selectors"})
             /\ Adds(r, c, Last(c.selectors), c.selector)
             /\ r.selector = Last(c.selectors) /\ r.selectors = Front(c.selectors)
  <2> DEFINE l == Last(c.selectors)
  <2> DEFINE w == Front(c.selectors)
  <2> DEFINE y == Record(c, c.selector, l)
  <2>1. r = [y EXCEPT !.selector = l, !.selectors = Front(@)]
    BY <1>0, <1>1 DEF EndSelector
  <2>2. Keeps(y, c, {"children"}) /\ Adds(y, c, l, c.selector)
    <3> HIDE DEF l
    <3> QED
      BY RecordAdds DEF Proper
  <2> HIDE DEF y
  <2>3. r = [y EXCEPT !.selector = l, !.selectors = w]
    <3> HIDE DEF l
    <3> QED
      BY <2>1, <2>2 DEF Keeps, IsContext, Fields
  <2> HIDE DEF l, w
  <2>4. Keeps(r, y, {"selector", "selectors"}) /\ r.selector = l /\ r.selectors = w
    BY <2>2, <2>3 DEF Keeps, IsContext, Fields
  <2>5. Keeps(r, c, {"children", "selector", "selectors"}) /\ Adds(r, c, l, c.selector)
    BY <2>2, <2>4 DEF Keeps, Fields, Adds
  <2> QED
    BY <2>4, <2>5 DEF l, w
<1>2. ASSUME c.selectors = <<>>
      PROVE  /\ Keeps(r, c, {"children", "selector_id", "selector", "state", "stack"})
             /\ Unstacks(r, c) /\ Adds(r, c, o, c.selector)
             /\ r.selector_id = None
  <2> DEFINE y == Record(c, c.selector, o)
  <2> DEFINE z == [y EXCEPT !.selector_id = None, !.selector = None]
  <2>1. r = Pop(z)
    BY <1>0, <1>2 DEF EndSelector
  <2>2. Keeps(y, c, {"children"}) /\ Adds(y, c, o, c.selector)
    BY RecordAdds DEF Proper
  <2> HIDE DEF y
  <2>3. Keeps(z, y, {"selector_id", "selector"}) /\ z.selector_id = None
    BY <2>2 DEF Keeps, IsContext, Fields
  <2> HIDE DEF z
  <2>4. IsContext(z) /\ z.stack = c.stack
    BY <2>2, <2>3 DEF Keeps, Fields
  <2>5. IsContext(r) /\ Unstacks(r, c) /\ \A f \in Fields \ {"state", "stack"} : r[f] = z[f]
    BY <2>1, <2>4, PopAfter
  <2>6. r.children = y.children
    BY <2>3, <2>5 DEF Keeps, Fields
  <2>7. /\ Keeps(r, c, {"children", "selector_id", "selector", "state", "stack"})
        /\ r.selector_id = None
    BY <2>2, <2>3, <2>5 DEF Keeps, Fields
  <2> QED
    BY <2>2, <2>5, <2>6, <2>7 DEF Adds
<1> QED
  BY <1>1, <1>2 DEF r

-----------------------------------------------------------------------------
(* The document and whom its elements belong to                            *)

LEMMA AppendAscending ==
  ASSUME NEW s \in Seq(Elements), NEW x \in Elements, Ascending(s),
         \A y \in ToSet(s) : y < x
  PROVE  Ascending(Append(s, x)) /\ ToSet(Append(s, x)) = ToSet(s) \cup {x}
<1> DEFINE t == Append(s, x)
<1>1. /\ Len(s) \in Nat /\ DOMAIN s = 1..Len(s) /\ DOMAIN t = 1..Len(s) + 1
      /\ t[Len(s) + 1] = x /\ \A i \in 1..Len(s) : t[i] = s[i]
  OBVIOUS
<1> HIDE DEF t
<1>2. \A i \in 1..Len(s) : s[i] < x
  BY <1>1 DEF ToSet
<1>3. Ascending(t)
  <2> SUFFICES ASSUME NEW i \in DOMAIN t, NEW j \in DOMAIN t, i < j PROVE t[i] < t[j]
    BY DEF Ascending
  <2>1. i \in 1..Len(s)
    BY <1>1
  <2>2. CASE j \in 1..Len(s)
    BY <1>1, <2>1, <2>2 DEF Ascending
  <2>3. CASE j = Len(s) + 1
    BY <1>1, <1>2, <2>1, <2>3
  <2> QED
    BY <1>1, <2>2, <2>3
<1>4. ToSet(t) = ToSet(s) \cup {x}
  <2>1. ASSUME NEW y \in ToSet(t) PROVE y \in ToSet(s) \cup {x}
    <3>1. PICK i \in DOMAIN t : y = t[i]
      BY DEF ToSet
    <3>2. CASE i \in 1..Len(s)
      BY <1>1, <3>1, <3>2 DEF ToSet
    <3>3. CASE i = Len(s) + 1
      BY <1>1, <3>1, <3>3
    <3> QED
      BY <1>1, <3>2, <3>3
  <2>2. ASSUME NEW y \in ToSet(s) \cup {x} PROVE y \in ToSet(t)
    <3>1. \E i \in DOMAIN t : y = t[i]
      BY <1>1 DEF ToSet
    <3> QED
      BY <3>1 DEF ToSet
  <2> QED
    BY <2>1, <2>2
<1> QED
  BY <1>3, <1>4 DEF t

\* The elements and their numbers.
LEMMA DocDomain ==
  IInv => /\ Len(doc) \in Nat /\ DOMAIN doc = 1..Len(doc)
          /\ Len(open) \in Nat /\ DOMAIN open = 1..Len(open)
          /\ \A i \in 1..Len(open) : open[i] \in DOMAIN doc /\ open[i] \in Elements
          /\ \A x \in DOMAIN doc : KindOf(x) \in Kinds /\ doc[x].parent \in Elements \cup {None}
<1> SUFFICES ASSUME IInv
             PROVE  /\ Len(doc) \in Nat /\ DOMAIN doc = 1..Len(doc)
                    /\ Len(open) \in Nat /\ DOMAIN open = 1..Len(open)
                    /\ \A i \in 1..Len(open) : open[i] \in DOMAIN doc /\ open[i] \in Elements
                    /\ \A x \in DOMAIN doc : /\ KindOf(x) \in Kinds
                                             /\ doc[x].parent \in Elements \cup {None}
  OBVIOUS
<1>1. doc \in Seq(DocEntry) /\ open \in Seq(Elements)
  BY DEF IInv, TypeOK, DocEntry
<1>2. \A x \in DOMAIN doc : doc[x] \in DocEntry
  BY <1>1
<1>3. \A x \in DOMAIN doc : KindOf(x) \in Kinds /\ doc[x].parent \in Elements \cup {None}
  BY <1>2 DEF DocEntry, KindOf
<1>4. \A i \in 1..Len(open) : open[i] \in DOMAIN doc /\ open[i] \in Elements
  BY <1>1 DEF IInv, OpenRead
<1> QED
  BY <1>1, <1>3, <1>4

\* Whose contents an inline path or a manifest may be.
LEMMA NestsFlattened ==
  ASSUME NEW k, "inline" \in Nests(k) \/ "manifest" \in Nests(k)
  PROVE  k \notin {"inline", "manifest"}
  BY DEF Nests, Tasks, Known, NeedsXmlNode

\* The owner of an element is the one around it, or the one around that.
LEMMA OwnerIs ==
  ASSUME Tracked(Content), IInv, InDocument, NEW x \in DOMAIN doc, x # Project
  PROVE  LET p == doc[x].parent IN
         /\ p \in 1..x - 1 /\ p \in DOMAIN doc
         /\ Owner(x) = OwnerIn(p)
         /\ KindOf(p) \in {"inline", "manifest"} =>
              /\ p # Project /\ doc[p].parent \in 1..p - 1 /\ Owner(x) = doc[p].parent
         /\ KindOf(p) \notin {"inline", "manifest"} => Owner(x) = p
         /\ Owner(x) \in DOMAIN doc /\ Owner(x) < x
         /\ KindOf(Owner(x)) \notin {"inline", "manifest"}
<1> DEFINE p == doc[x].parent
<1>1. x \in 1..Len(doc) /\ Len(doc) \in Nat /\ DOMAIN doc = 1..Len(doc)
  BY DocDomain
<1>2. p \in 1..x - 1 /\ p \in DOMAIN doc
  BY <1>1 DEF InDocument
<1> HIDE DEF p
<1>3. CASE KindOf(p) \notin {"inline", "manifest"}
  <2>1. OwnerIn(p) = p
    BY <1>3 DEF OwnerIn
  <2>2. Owner(x) = p
    BY <2>1 DEF Owner, p
  <2> QED
    BY <1>1, <1>2, <1>3, <2>1, <2>2 DEF p
<1>4. CASE KindOf(p) \in {"inline", "manifest"}
  <2> DEFINE q == doc[p].parent
  <2>1. p # Project
    BY <1>2, <1>4 DEF InDocument
  <2>2. q \in 1..p - 1 /\ KindOf(p) \in Content[KindOf(q)]
    BY <1>2, <2>1 DEF InDocument
  <2>3. q \in DOMAIN doc /\ q < x
    BY <1>1, <1>2, <2>2
  <2>4. KindOf(q) \notin {"inline", "manifest"}
    <3>1. KindOf(q) \in Kinds
      BY <2>3, DocDomain
    <3>2. KindOf(p) \in Nests(KindOf(q))
      BY <2>2, <3>1 DEF Tracked
    <3> QED
      BY <1>4, <3>2, NestsFlattened
  <2> HIDE DEF q
  <2>5. OwnerIn(p) = q /\ OwnerIn(q) = q
    BY <1>4, <2>4 DEF OwnerIn, q
  <2>6. Owner(x) = q
    BY <2>5 DEF Owner, p
  <2> QED
    BY <1>2, <1>4, <2>1, <2>2, <2>3, <2>4, <2>5, <2>6 DEF p, q
<1> QED
  BY <1>3, <1>4

\* What comes after an open element that counts does not belong before it.
LEMMA OwnersAfter ==
  ASSUME Tracked(Content), IInv, InDocument, NEW i \in DOMAIN open, NEW y \in DOMAIN doc,
         y > open[i], KindOf(open[i]) \notin {"inline", "manifest"}
  PROVE  Owner(y) >= open[i]
<1> DEFINE x == open[i]
<1> DEFINE p == doc[y].parent
<1>1. x \in DOMAIN doc /\ DOMAIN doc = 1..Len(doc) /\ Len(doc) \in Nat
  BY DocDomain
<1>2. p >= x
  BY DEF InDocument
<1>3. y # Project
  BY <1>1 DEF Project
<1>4. /\ p \in DOMAIN doc
      /\ KindOf(p) \in {"inline", "manifest"} => Owner(y) = doc[p].parent
      /\ KindOf(p) \notin {"inline", "manifest"} => Owner(y) = p
  BY <1>3, OwnerIs
<1>5. CASE KindOf(p) \notin {"inline", "manifest"}
  BY <1>2, <1>4, <1>5
<1>6. CASE KindOf(p) \in {"inline", "manifest"}
  <2>1. p # x
    BY <1>6
  <2>2. p > x
    BY <1>1, <1>2, <1>4, <2>1
  <2>3. doc[p].parent >= x
    BY <1>4, <2>2 DEF InDocument
  <2> QED
    BY <1>4, <1>6, <2>3
<1> QED
  BY <1>5, <1>6

\* What an opening tag does to the document.
LEMMA OpenFacts ==
  ASSUME IInv, NEW kind \in Kinds, Open(kind),
         NEW e, e = Len(doc) + 1, NEW n, n = Len(open)
  PROVE  /\ Len(doc') = e /\ DOMAIN doc' = 1..e /\ e \in Elements
         /\ doc'[e].kind = kind
         /\ doc'[e].parent = IF open = <<>> THEN None ELSE open[n]
         /\ \A x \in 1..e - 1 : doc'[x] = doc[x]
         /\ Len(open') = n + 1 /\ DOMAIN open' = 1..n + 1 /\ open'[n + 1] = e
         /\ \A i \in 1..n : open'[i] = open[i] /\ KindAt(i)' = KindAt(i)
         /\ KindAt(n + 1)' = kind
         /\ ctx' = StartElement(ctx, e, kind)
         /\ open = <<>> => doc = <<>> /\ kind = "project"
         /\ open # <<>> => kind \in Content[KindAt(n)]
<1>1. doc \in Seq(DocEntry) /\ open \in Seq(Elements) /\ e \in Nat /\ n \in Nat
  BY DEF IInv, TypeOK, DocEntry
<1>2. Last(open) = open[n]
  BY DEF Last
<1>3. /\ Len(doc') = e /\ e \in Elements /\ doc'[e].kind = kind
      /\ \A x \in DOMAIN doc : doc'[x] = doc[x]
      /\ Len(open') = n + 1 /\ open'[n + 1] = e
      /\ \A i \in DOMAIN open : open'[i] = open[i]
  BY OpenReads
<1>4. doc' \in Seq(DocEntry) /\ open' \in Seq(Elements)
  BY OpenReads
<1>5. DOMAIN doc' = 1..e /\ DOMAIN open' = 1..n + 1 /\ DOMAIN doc = 1..e - 1 /\ DOMAIN open = 1..n
  BY <1>1, <1>3, <1>4
<1>6. doc'[e].parent = IF open = <<>> THEN None ELSE open[n]
  <2> DEFINE d == [kind   |-> kind,
                   parent |-> IF open = <<>> THEN None ELSE Last(open),
                   state  |-> ctx.state, level |-> Len(ctx.stack)]
  <2>1. doc' = Append(doc, d)
    BY DEF Open
  <2>2. d.parent = IF open = <<>> THEN None ELSE Last(open)
    OBVIOUS
  <2> HIDE DEF d
  <2>3. doc'[e] = d
    BY <1>1, <2>1
  <2> QED
    BY <1>2, <2>2, <2>3
<1>7. \A i \in 1..n : open'[i] = open[i] /\ doc'[open'[i]] = doc[open[i]]
  BY <1>3, <1>5 DEF IInv, OpenRead
<1>8. ASSUME NEW i \in 1..n PROVE KindAt(i)' = KindAt(i)
  BY <1>7 DEF KindAt, KindOf
<1>11. KindAt(n + 1)' = kind
  BY <1>3 DEF KindAt, KindOf
<1>9. ctx' = StartElement(ctx, e, kind)
  BY <1>3 DEF Open
<1>10. /\ open = <<>> => doc = <<>> /\ kind = "project"
       /\ open # <<>> => kind \in Content[KindAt(n)]
  BY <1>2 DEF Open, KindAt
<1> QED
  BY <1>3, <1>5, <1>6, <1>7, <1>8, <1>9, <1>10, <1>11

\* What a closing tag does to it.
LEMMA CloseFacts ==
  ASSUME IInv, Close, NEW n, n = Len(open)
  PROVE  /\ doc' = doc /\ n \in Nat /\ n > 0
         /\ Len(open') = n - 1 /\ DOMAIN open' = 1..n - 1
         /\ \A i \in 1..n - 1 : open'[i] = open[i] /\ KindAt(i)' = KindAt(i)
         /\ ctx' = EndElement(ctx, KindAt(n))
<1>1. open \in Seq(Elements) /\ n \in Nat /\ n > 0
  BY DEF IInv, TypeOK, Close
<1>2. Last(open) = open[n]
  BY DEF Last
<1>3. doc' = doc /\ open' = Front(open) /\ ctx' = EndElement(ctx, KindAt(n))
  BY <1>2 DEF Close, KindAt
<1>4. Len(open') = n - 1 /\ DOMAIN open' = 1..n - 1 /\ \A i \in 1..n - 1 : open'[i] = open[i]
  <2>1. Front(open) = SubSeq(open, 1, n - 1)
    BY DEF Front
  <2> DEFINE t == SubSeq(open, 1, n - 1)
  <2>2. Len(t) = n - 1 /\ \A i \in 1..n - 1 : t[i] = open[i]
    BY <1>1
  <2>3. DOMAIN t = 1..n - 1
    BY <1>1
  <2> HIDE DEF t
  <2> QED
    BY <1>3, <2>1, <2>2, <2>3 DEF t
<1>5. \A i \in 1..n - 1 : KindAt(i)' = KindAt(i)
  BY <1>3, <1>4 DEF KindAt, KindOf
<1> QED
  BY <1>1, <1>3, <1>4, <1>5

LEMMA OpenInDocument ==
  ASSUME IInv, InDocument, NEW kind \in Kinds, Open(kind)
  PROVE  InDocument'
<1>0. PICK n, e : n = Len(open) /\ e = Len(doc) + 1
  OBVIOUS
<1>1. /\ e \in Nat /\ DOMAIN doc = 1..e - 1 /\ n \in Nat /\ DOMAIN open = 1..n
      /\ \A i \in 1..n : open[i] \in 1..e - 1
  BY <1>0, DocDomain
<1>2. /\ DOMAIN doc' = 1..e /\ doc'[e].kind = kind
      /\ doc'[e].parent = IF open = <<>> THEN None ELSE open[n]
      /\ \A x \in 1..e - 1 : doc'[x] = doc[x]
      /\ Len(open') = n + 1 /\ DOMAIN open' = 1..n + 1 /\ open'[n + 1] = e
      /\ \A i \in 1..n : open'[i] = open[i]
      /\ open = <<>> => doc = <<>> /\ kind = "project"
      /\ open # <<>> => kind \in Content[KindAt(n)]
  BY <1>0, OpenFacts
<1>3. open = <<>> <=> n = 0
  BY <1>0 DEF IInv, TypeOK
<1>4. ASSUME NEW x \in DOMAIN doc'
      PROVE  (IF x = Project THEN KindOf(x) = "project" /\ doc[x].parent = None
              ELSE doc[x].parent \in 1..x - 1 /\ KindOf(x) \in Content[KindOf(doc[x].parent)])'
  <2>1. CASE x \in 1..e - 1
    <3>1. CASE x = Project
      BY <1>1, <1>2, <2>1, <3>1 DEF InDocument, KindOf
    <3>2. CASE x # Project
      <4>1. doc[x].parent \in 1..x - 1 /\ doc[x].kind \in Content[doc[doc[x].parent].kind]
        BY <1>1, <2>1, <3>2 DEF InDocument, KindOf
      <4>2. doc'[x] = doc[x] /\ doc'[doc[x].parent] = doc[doc[x].parent]
        BY <1>1, <1>2, <2>1, <4>1
      <4> QED
        BY <3>2, <4>1, <4>2 DEF KindOf
    <3> QED
      BY <3>1, <3>2
  <2>2. CASE x = e /\ n = 0
    <3>1. doc = <<>>
      BY <1>2, <1>3, <2>2
    <3>2. x = Project
      BY <1>0, <2>2, <3>1 DEF Project
    <3> QED
      BY <1>2, <1>3, <2>2, <3>2 DEF KindOf
  <2>3. CASE x = e /\ n # 0
    <3>1. open[n] \in 1..e - 1
      BY <1>1, <2>3
    <3>2. doc'[x].parent = open[n] /\ doc'[open[n]] = doc[open[n]]
      BY <1>2, <1>3, <2>3, <3>1
    <3>3. x # Project
      BY <1>1, <2>3, <3>1 DEF Project
    <3>4. doc'[x].kind \in Content[doc[open[n]].kind]
      BY <1>2, <1>3, <2>3 DEF KindAt, KindOf
    <3> QED
      BY <1>1, <2>3, <3>1, <3>2, <3>3, <3>4 DEF KindOf
  <2> QED
    BY <1>1, <1>2, <2>1, <2>2, <2>3
<1>5. open'[1] = Project
  <2>1. CASE n = 0
    <3>1. Len(doc) = 0
      BY <1>0, <1>2, <1>3, <2>1
    <3> QED
      BY <1>0, <1>2, <2>1, <3>1 DEF Project
  <2>2. CASE n # 0
    BY <1>1, <1>2, <1>3, <2>2 DEF InDocument
  <2> QED
    BY <2>1, <2>2
<1>6. ASSUME NEW i \in 2..n + 1 PROVE doc'[open'[i]].parent = open'[i - 1]
  <2>1. CASE i \in 2..n
    <3>1. i \in 1..n /\ i - 1 \in 1..n /\ doc[open[i]].parent = open[i - 1]
      BY <1>0, <1>1, <2>1 DEF InDocument
    <3> QED
      BY <1>1, <1>2, <3>1
  <2>2. CASE i = n + 1
    <3>1. i - 1 = n /\ n \in 1..n /\ n # 0
      BY <1>1, <2>2
    <3> QED
      BY <1>2, <1>3, <2>2, <3>1
  <2> QED
    BY <1>1, <2>1, <2>2
<1>7. ASSUME NEW i \in 1..n + 1, NEW j \in 1..n + 1, i < j PROVE open'[i] < open'[j]
  <2>1. i \in 1..n
    BY <1>1, <1>7
  <2>2. CASE j \in 1..n
    BY <1>1, <1>2, <1>7, <2>1, <2>2 DEF InDocument
  <2>3. CASE j = n + 1
    BY <1>1, <1>2, <2>1, <2>3
  <2> QED
    BY <1>1, <2>2, <2>3
<1>8. ASSUME NEW i \in 1..n + 1, NEW x \in 1..e, x > open'[i] PROVE doc'[x].parent >= open'[i]
  <2>1. i \in 1..n /\ open'[i] = open[i] /\ open[i] \in 1..e - 1
    <3>1. i # n + 1
      BY <1>1, <1>2, <1>8
    <3>2. i \in 1..n
      BY <1>1, <3>1
    <3> QED
      BY <1>1, <1>2, <3>2
  <2>2. CASE x \in 1..e - 1
    BY <1>1, <1>2, <1>8, <2>1, <2>2 DEF InDocument
  <2>3. CASE x = e
    <3>1. doc'[x].parent = open[n] /\ n \in 1..n /\ open[n] \in 1..e - 1
      BY <1>1, <1>2, <1>3, <2>1, <2>3
    <3>2. i = n \/ i < n
      BY <1>1, <2>1
    <3>3. i = n \/ open[i] < open[n]
      BY <1>1, <2>1, <3>1, <3>2 DEF InDocument
    <3> QED
      BY <2>1, <3>1, <3>3
  <2> QED
    BY <1>1, <2>2, <2>3
<1> QED
  BY <1>2, <1>4, <1>5, <1>6, <1>7, <1>8 DEF InDocument

LEMMA CloseInDocument ==
  ASSUME IInv, InDocument, Close
  PROVE  InDocument'
<1>0. PICK n : n = Len(open)
  OBVIOUS
<1>1. n \in Nat /\ DOMAIN open = 1..n
  BY <1>0, DocDomain
<1>2. /\ doc' = doc /\ n > 0 /\ Len(open') = n - 1 /\ DOMAIN open' = 1..n - 1
      /\ \A i \in 1..n - 1 : open'[i] = open[i]
  BY <1>0, CloseFacts
<1>3. open # <<>>
  BY DEF Close
<1>4. open' # <<>> => open'[1] = Project
  <2>1. ASSUME open' # <<>> PROVE 1 \in 1..n - 1
    <3>1. open' \in Seq(Elements)
      BY <1>2 DEF Close, Front, IInv, TypeOK
    <3> QED
      BY <1>1, <1>2, <2>1, <3>1
  <2> QED
    BY <1>2, <1>3, <2>1 DEF InDocument
<1>5. \A i \in 2..Len(open') : doc'[open'[i]].parent = open'[i - 1]
  BY <1>1, <1>2 DEF InDocument
<1>6. \A x \in DOMAIN doc' :
          (IF x = Project THEN KindOf(x) = "project" /\ doc[x].parent = None
           ELSE doc[x].parent \in 1..x - 1 /\ KindOf(x) \in Content[KindOf(doc[x].parent)])'
  BY <1>2 DEF InDocument, KindOf
<1>7. \A i, j \in DOMAIN open' : i < j => open'[i] < open'[j]
  BY <1>1, <1>2 DEF InDocument
<1>8. \A i \in DOMAIN open', x \in DOMAIN doc' : x > open'[i] => doc'[x].parent >= open'[i]
  BY <1>1, <1>2 DEF InDocument
<1> QED
  BY <1>4, <1>5, <1>6, <1>7, <1>8 DEF InDocument

LEMMA OwnersAre ==
  Tracked(Content) /\ IInv /\ InDocument =>
      \A x \in DOMAIN doc : x # Project =>
          LET p == doc[x].parent IN
          /\ p \in DOMAIN doc /\ KindOf(p) \in {"inline", "manifest"} => Owner(x) = doc[p].parent
          /\ KindOf(p) \notin {"inline", "manifest"} => Owner(x) = p
  BY OwnerIs

\* The elements read before an opening tag belong to what they belonged to.
LEMMA OpenOwners ==
  ASSUME Tracked(Content), IInv, IInv', InDocument, NEW kind \in Kinds, Open(kind),
         NEW e, e = Len(doc) + 1, NEW n, n = Len(open), n # 0
  PROVE  /\ \A x \in DOMAIN doc : KindOf(x)' = KindOf(x) /\ (x # Project => Owner(x)' = Owner(x))
         /\ KindOf(e)' = kind /\ e # Project
         /\ KindAt(n) \notin {"inline", "manifest"} => Owner(e)' = open[n]
         /\ KindAt(n) \in {"inline", "manifest"} => n > 1 /\ Owner(e)' = open[n - 1]
         /\ Owner(e)' \in DOMAIN doc /\ Owner(e)' \in Elements
<1>1. /\ Len(doc) \in Nat /\ DOMAIN doc = 1..e - 1 /\ n \in Nat /\ DOMAIN open = 1..n
      /\ \A i \in 1..n : open[i] \in 1..e - 1
  BY DocDomain
<1>2. /\ DOMAIN doc' = 1..e /\ doc'[e].kind = kind
      /\ doc'[e].parent = IF open = <<>> THEN None ELSE open[n]
      /\ \A x \in 1..e - 1 : doc'[x] = doc[x]
  BY OpenFacts
<1>3. open # <<>>
  BY DEF IInv, TypeOK
<1>4. InDocument'
  BY OpenInDocument
<1>5. (Tracked(Content) /\ IInv /\ InDocument =>
          \A x \in DOMAIN doc : x # Project =>
              LET p == doc[x].parent IN
              /\ p \in DOMAIN doc /\ KindOf(p) \in {"inline", "manifest"} =>
                    Owner(x) = doc[p].parent
              /\ KindOf(p) \notin {"inline", "manifest"} => Owner(x) = p)'
  BY OwnersAre, PTL
<1>6. \A x \in DOMAIN doc' : x # Project =>
          LET p == doc'[x].parent IN
          /\ p \in DOMAIN doc' /\ doc'[p].kind \in {"inline", "manifest"} =>
                Owner(x)' = doc'[p].parent
          /\ doc'[p].kind \notin {"inline", "manifest"} => Owner(x)' = p
  BY <1>4, <1>5 DEF KindOf
<1>7. ASSUME NEW x \in DOMAIN doc
      PROVE  KindOf(x)' = KindOf(x) /\ (x # Project => Owner(x)' = Owner(x))
  <2>1. KindOf(x)' = KindOf(x)
    BY <1>1, <1>2 DEF KindOf
  <2>2. ASSUME x # Project PROVE Owner(x)' = Owner(x)
    <3> DEFINE p == doc[x].parent
    <3>1. /\ p \in DOMAIN doc
          /\ doc[p].kind \in {"inline", "manifest"} => Owner(x) = doc[p].parent
          /\ doc[p].kind \notin {"inline", "manifest"} => Owner(x) = p
      BY <2>2, OwnerIs DEF KindOf
    <3>2. doc'[x].parent = p /\ doc'[p] = doc[p] /\ p \in DOMAIN doc' /\ x \in DOMAIN doc'
      BY <1>1, <1>2, <3>1
    <3> HIDE DEF p
    <3>3. /\ doc'[p].kind \in {"inline", "manifest"} => Owner(x)' = doc'[p].parent
          /\ doc'[p].kind \notin {"inline", "manifest"} => Owner(x)' = p
      BY <1>6, <2>2, <3>2
    <3> QED
      BY <3>1, <3>2, <3>3
  <2> QED
    BY <2>1, <2>2
<1>8. KindOf(e)' = kind /\ e # Project
  <2>1. e > 1
    BY <1>1
  <2> QED
    BY <1>2, <2>1 DEF KindOf, Project
<1>9. /\ n \in 1..n /\ open[n] \in 1..e - 1 /\ e \in DOMAIN doc'
      /\ doc'[e].parent = open[n] /\ doc'[open[n]] = doc[open[n]] /\ open[n] \in DOMAIN doc'
  BY <1>1, <1>2, <1>3
<1>10. /\ KindAt(n) \in {"inline", "manifest"} => Owner(e)' = doc[open[n]].parent
       /\ KindAt(n) \notin {"inline", "manifest"} => Owner(e)' = open[n]
  BY <1>6, <1>8, <1>9 DEF KindAt, KindOf
<1>11. ASSUME KindAt(n) \in {"inline", "manifest"} PROVE n > 1 /\ Owner(e)' = open[n - 1]
  <2>1. n # 1
    <3>1. open[1] = Project /\ Project \in DOMAIN doc
      BY <1>1, <1>3 DEF InDocument, Project
    <3>2. KindOf(Project) = "project"
      BY <3>1 DEF InDocument
    <3> QED
      BY <1>11, <3>1, <3>2 DEF KindAt
  <2>2. n \in 2..n
    BY <1>1, <2>1
  <2>3. doc[open[n]].parent = open[n - 1]
    BY <2>2 DEF InDocument
  <2> QED
    BY <1>10, <1>11, <2>2, <2>3
<1>12. Owner(e)' \in DOMAIN doc
  <2>1. CASE KindAt(n) \notin {"inline", "manifest"}
    BY <1>1, <1>9, <1>10, <2>1
  <2>2. CASE KindAt(n) \in {"inline", "manifest"}
    <3>1. n - 1 \in 1..n /\ Owner(e)' = open[n - 1]
      BY <1>1, <1>11, <2>2
    <3> QED
      BY <1>1, <3>1
  <2> QED
    BY <2>1, <2>2
<1>13. DOMAIN doc \subseteq Elements
  <2>1. e \in Elements
    BY OpenFacts
  <2> QED
    BY <1>1, <2>1, BoundsAssumption DEF Elements
<1> QED
  BY <1>7, <1>8, <1>10, <1>11, <1>12, <1>13

\* ... and so do those they define, but for the path that gets an element.
LEMMA OpenDefines ==
  ASSUME Tracked(Content), IInv, IInv', InDocument, NEW kind \in Kinds, Open(kind),
         NEW e, e = Len(doc) + 1, NEW n, n = Len(open), n # 0
  PROVE  /\ \A x \in DOMAIN doc : Defines(x) => Defines(x)'
         /\ \A x \in DOMAIN doc : Defines(x)' =>
                Defines(x) \/ (KindOf(x) = "path" /\ Owner(e)' = x)
         /\ Defines(e)' <=> /\ kind \notin {"description", "inline", "manifest", "path"}
                            /\ KindAt(n) # "description"
<1>1. /\ Len(doc) \in Nat /\ DOMAIN doc = 1..e - 1 /\ n \in Nat /\ DOMAIN open = 1..n
      /\ \A i \in 1..n : open[i] \in 1..e - 1
  BY DocDomain
<1>2. /\ DOMAIN doc' = 1..e /\ doc'[e].kind = kind
      /\ doc'[e].parent = IF open = <<>> THEN None ELSE open[n]
      /\ \A x \in 1..e - 1 : doc'[x] = doc[x]
  BY OpenFacts
<1>3. open # <<>>
  BY DEF IInv, TypeOK
<1>4. /\ \A x \in DOMAIN doc : KindOf(x)' = KindOf(x) /\ (x # Project => Owner(x)' = Owner(x))
      /\ KindOf(e)' = kind /\ e # Project
  BY OpenOwners
<1>5. ASSUME NEW x \in DOMAIN doc, x # Project
      PROVE  Skipped(x)' <=> Skipped(x)
  <2>1. doc'[x].parent = doc[x].parent /\ doc[x].parent \in DOMAIN doc
    BY <1>1, <1>2, <1>5, OwnerIs
  <2> QED
    BY <1>4, <1>5, <2>1 DEF Skipped
<1>6. ASSUME NEW x \in DOMAIN doc, Defines(x)
      PROVE  Defines(x)'
  <2>1. x # Project /\ ~Skipped(x) /\ KindOf(x) \notin {"inline", "manifest"}
    BY <1>6 DEF Defines
  <2>2. ASSUME KindOf(x) = "path"
        PROVE  \E f \in DOMAIN doc' : /\ f > x /\ Owner(f)' = x
                                      /\ KindOf(f)' \notin {"inline", "manifest"}
    <3>1. PICK f \in DOMAIN doc : f > x /\ Owner(f) = x /\ KindOf(f) \notin {"inline", "manifest"}
      BY <1>6, <2>2 DEF Defines
    <3>2. f \in DOMAIN doc' /\ f # Project
      BY <1>1, <1>2, <3>1 DEF Project
    <3> QED
      BY <1>4, <3>1, <3>2
  <2>3. ~Skipped(x)' /\ KindOf(x)' = KindOf(x)
    BY <1>4, <1>5, <2>1
  <2> QED
    BY <2>1, <2>2, <2>3 DEF Defines
<1>7. ASSUME NEW x \in DOMAIN doc, Defines(x)', ~(KindOf(x) = "path" /\ Owner(e)' = x)
      PROVE  Defines(x)
  <2>1. /\ x # Project /\ ~Skipped(x)' /\ KindOf(x)' \notin {"inline", "manifest"}
        /\ KindOf(x)' = "path" =>
              \E f \in DOMAIN doc' : /\ f > x /\ Owner(f)' = x
                                     /\ KindOf(f)' \notin {"inline", "manifest"}
    BY <1>7 DEF Defines
  <2>2. ASSUME KindOf(x) = "path"
        PROVE  \E f \in DOMAIN doc : f > x /\ Owner(f) = x /\ KindOf(f) \notin {"inline", "manifest"}
    <3>1. PICK f \in DOMAIN doc' : /\ f > x /\ Owner(f)' = x
                                   /\ KindOf(f)' \notin {"inline", "manifest"}
      BY <1>4, <2>1, <2>2
    <3>2. f # e
      BY <1>7, <2>2, <3>1
    <3>3. f \in DOMAIN doc /\ f # Project
      BY <1>1, <1>2, <3>1, <3>2 DEF Project
    <3> QED
      BY <1>4, <3>1, <3>3
  <2>3. ~Skipped(x) /\ KindOf(x)' = KindOf(x)
    BY <1>4, <1>5, <2>1
  <2> QED
    BY <2>1, <2>2, <2>3 DEF Defines
<1>8. Defines(e)' <=> /\ kind \notin {"description", "inline", "manifest", "path"}
                      /\ KindAt(n) # "description"
  <2>1. PICK x : x = open[n]
    OBVIOUS
  <2>2. x \in DOMAIN doc /\ x # None /\ doc'[e].parent = x /\ KindOf(x) = KindAt(n)
    BY <1>1, <1>2, <1>3, <2>1 DEF None, KindAt
  <2>3. Skipped(e)' <=> kind = "description" \/ KindAt(n) = "description"
    <3>1. KindOf(x)' = KindAt(n)
      BY <1>4, <2>2
    <3>2. Skipped(e)' <=> kind = "description" \/ KindOf(x)' = "description"
      BY <1>4, <2>2 DEF Skipped
    <3> QED
      BY <3>1, <3>2
  <2>4. ~ \E f \in DOMAIN doc' : f > e
    BY <1>1, <1>2
  <2> QED
    BY <1>4, <2>3, <2>4 DEF Defines
<1> QED
  BY <1>6, <1>7, <1>8

LEMMA NestsOf ==
  /\ Nests("project") = {"target", "property", "description", "path", "fileset", "selector"}
  /\ Nests("target") = Tasks
  /\ Nests("description") = {"include"}
  /\ Nests("path") = {"pathelement", "fileset", "inline"}
  /\ Nests("inline") = {"pathelement"}
  /\ Nests("fileset") = {"include"}
  /\ Nests("selector") = {"include", "or"} /\ Nests("or") = {"include", "or"}
  /\ Nests("manifest") = {"attribute"}
  /\ \A k \in {"property", "refpath", "arg", "include", "attribute", "pathelement"} :
        Nests(k) = {}
  /\ \A k \in Tasks \ NeedsXmlNode :
        Nests(k) = {"fileset", "path", "refpath", "arg", "include", "or", "manifest"}
  /\ \A k \in Tasks \cap NeedsXmlNode : Nests(k) = Tasks
<1>0. \A k \in Known : k \notin NeedsXmlNode /\ k \notin Tasks
  BY DEF Known, Tasks, NeedsXmlNode
<1>11. Nests("project") = {"target", "property", "description", "path", "fileset", "selector"}
  BY <1>0 DEF Nests, Known
<1>12. Nests("target") = Tasks
  BY <1>0 DEF Nests, Known
<1>13. Nests("description") = {"include"}
  BY <1>0 DEF Nests, Known
<1>14. Nests("path") = {"pathelement", "fileset", "inline"}
  BY <1>0 DEF Nests, Known
<1>15. Nests("inline") = {"pathelement"}
  BY <1>0 DEF Nests, Known
<1>16. Nests("fileset") = {"include"}
  BY <1>0 DEF Nests, Known
<1>17. Nests("selector") = {"include", "or"}
  BY <1>0 DEF Nests, Known
<1>18. Nests("or") = {"include", "or"}
  BY <1>0 DEF Nests, Known
<1>19. Nests("manifest") = {"attribute"}
  BY <1>0 DEF Nests, Known
<1>3. ASSUME NEW k \in {"property", "refpath", "arg", "include", "attribute", "pathelement"}
      PROVE  Nests(k) = {}
  BY <1>3 DEF Nests, Tasks, Known, NeedsXmlNode
<1>4. ASSUME NEW k \in Tasks \ NeedsXmlNode
      PROVE  Nests(k) = {"fileset", "path", "refpath", "arg", "include", "or", "manifest"}
  <2>1. k \notin Known
    BY DEF Tasks
  <2>2. /\ k # "project" /\ k # "target" /\ k # "description" /\ k # "path" /\ k # "inline"
        /\ k # "fileset" /\ k \notin {"selector", "or"} /\ k # "manifest"
    BY <2>1 DEF Known
  <2> QED
    BY <1>4, <2>2 DEF Nests
<1>5. ASSUME NEW k \in Tasks \cap NeedsXmlNode PROVE Nests(k) = Tasks
  BY <1>5 DEF Nests, NeedsXmlNode
<1> QED
  BY <1>11, <1>12, <1>13, <1>14, <1>15, <1>16, <1>17, <1>18, <1>19,
     <1>3, <1>4, <1>5

LEMMA NestedIn ==
  ASSUME Tracked(Content), IInv, InDocument, NEW x \in DOMAIN doc, x # Project
  PROVE  KindOf(x) \in Nests(KindOf(doc[x].parent)) /\ KindOf(x) \in Kinds
<1>1. doc[x].parent \in DOMAIN doc
  BY OwnerIs
<1>2. KindOf(x) \in Content[KindOf(doc[x].parent)] /\ KindOf(doc[x].parent) \in Kinds
  BY <1>1, DocDomain DEF InDocument
<1> QED
  BY <1>2, DocDomain DEF Tracked

\* A path is one that counts when something belongs to it.
LEMMA PathDefines ==
  ASSUME Tracked(Content), IInv, InDocument, NEW x \in DOMAIN doc, KindOf(x) = "path"
  PROVE  Defines(x) <=> Members(x) # {}
<1>1. x # Project /\ DOMAIN doc \subseteq Nat /\ Project \in Nat /\ x \in Nat \ {0}
  BY DocDomain DEF InDocument, Project
<1>2. ~Skipped(x)
  <2>1. KindOf(doc[x].parent) # "description"
    BY <1>1, NestedIn, NestsOf
  <2> QED
    BY <2>1 DEF Skipped
<1>3. ASSUME NEW f \in Members(x) PROVE Defines(x)
  <2>1. f \in DOMAIN doc /\ Defines(f) /\ Owner(f) = x
    BY DEF Members
  <2>2. f # Project /\ KindOf(f) \notin {"inline", "manifest"}
    BY <2>1 DEF Defines
  <2>3. f > x
    BY <1>1, <2>1, <2>2, OwnerIs
  <2> QED
    BY <1>1, <1>2, <2>1, <2>2, <2>3 DEF Defines
<1>4. ASSUME Defines(x) PROVE Members(x) # {}
  <2>1. PICK f \in DOMAIN doc : f > x /\ Owner(f) = x /\ KindOf(f) \notin {"inline", "manifest"}
    BY <1>4 DEF Defines
  <2>2. f # Project
    BY <1>1, <2>1 DEF Project
  <2>3. KindOf(doc[f].parent) \in {"path", "inline", "manifest"}
    BY <2>1, <2>2, OwnerIs
  <2>4. KindOf(f) \in {"pathelement", "fileset", "attribute", "inline"}
    BY <2>2, <2>3, NestedIn, NestsOf
  <2>5. Defines(f)
    BY <2>1, <2>2, <2>3, <2>4 DEF Defines, Skipped
  <2> QED
    BY <2>1, <2>5 DEF Members
<1> QED
  BY <1>3, <1>4

LEMMA MembersRead == \A p : Members(p) \subseteq DOMAIN doc
  BY DEF Members

LEMMA ChildrenTyped ==
  IInv => /\ ctx.children \in [Elements -> Seq(Elements)]
          /\ \A p \in Elements : ctx.children[p] \in Seq(Elements)
<1>1. IInv => ctx \in Context
  BY DEF IInv, TypeOK
<1> QED
  BY <1>1, ContextFields

\* An opening tag: the new element is recorded with what it belongs to, or is
\* pending.
LEMMA OpenBooks ==
  ASSUME Tracked(Content), IInv, IInv', InDocument, Books, NEW kind \in Kinds, Open(kind),
         NEW e, e = Len(doc) + 1, NEW n, n = Len(open), n # 0, NEW q, q = Owner(e)',
         \A x \in DOMAIN doc : x \in Pending' <=> x \in Pending,
         KindOf(q) = "path" => q \in Pending,
         \/ ctx'.children = ctx.children /\ (Defines(e)' => e \in Pending')
         \/ Adds(ctx', ctx, q, e) /\ Defines(e)' /\ e \notin Pending'
  PROVE  Books'
<1>1. /\ Len(doc) \in Nat /\ DOMAIN doc = 1..e - 1 /\ e \in Nat
      /\ q \in DOMAIN doc /\ q \in Elements
  BY DocDomain, OpenOwners
<1>2. DOMAIN doc' = 1..e /\ e \in Elements /\ e # Project
  BY OpenFacts, OpenOwners
<1>3. /\ \A x \in DOMAIN doc : x # Project => Owner(x)' = Owner(x)
      /\ \A x \in DOMAIN doc : Defines(x) => Defines(x)'
      /\ \A x \in DOMAIN doc : Defines(x)' => Defines(x) \/ (KindOf(x) = "path" /\ q = x)
  BY OpenOwners, OpenDefines
<1>4. \A x : Defines(x)' => x # Project
  BY DEF Defines
<1>5. ASSUME NEW p \in Elements
      PROVE  \A x \in DOMAIN doc : x \in (Members(p) \ Pending)' <=> x \in Members(p) \ Pending
  <2> SUFFICES ASSUME NEW x \in DOMAIN doc
               PROVE  x \in (Members(p) \ Pending)' <=> x \in Members(p) \ Pending
    OBVIOUS
  <2>1. x \in Members(p) <=> Defines(x) /\ Owner(x) = p
    BY DEF Members
  <2>2. x \in Members(p)' <=> Defines(x)' /\ Owner(x)' = p
    BY <1>1, <1>2 DEF Members
  <2>3. Defines(x) => x # Project
    BY DEF Defines
  <2> QED
    BY <1>3, <1>4, <2>1, <2>2, <2>3
<1>6. ASSUME NEW p \in Elements
      PROVE  /\ e \in (Members(p) \ Pending)' <=> Defines(e)' /\ p = q /\ e \notin Pending'
             /\ (Members(p) \ Pending)' \subseteq DOMAIN doc \cup {e}
  <2>1. e \in Members(p)' <=> Defines(e)' /\ Owner(e)' = p
    BY <1>1, <1>2 DEF Members
  <2>2. Members(p)' \subseteq DOMAIN doc \cup {e}
    BY <1>1, <1>2 DEF Members
  <2> QED
    BY <2>1, <2>2
<1>7. \A p \in Elements : /\ ctx.children[p] \in Seq(Elements) /\ Ascending(ctx.children[p])
                          /\ ToSet(ctx.children[p]) = Members(p) \ Pending
                          /\ Members(p) \ Pending \subseteq DOMAIN doc
  BY ChildrenTyped, MembersRead DEF Books
<1>8. CASE ctx'.children = ctx.children /\ (Defines(e)' => e \in Pending')
  <2>1. ASSUME NEW p \in Elements PROVE (Members(p) \ Pending)' = Members(p) \ Pending
    BY <1>5, <1>6, <1>7, <1>8
  <2> QED
    BY <1>7, <1>8, <2>1 DEF Books
<1>9. CASE Adds(ctx', ctx, q, e) /\ Defines(e)' /\ e \notin Pending'
  <2>1. ASSUME NEW p \in Elements, p # q
        PROVE  Ascending(ctx'.children[p]) /\ ToSet(ctx'.children[p]) = (Members(p) \ Pending)'
    <3>1. (Members(p) \ Pending)' = Members(p) \ Pending
      BY <1>5, <1>6, <1>7, <2>1
    <3>2. ctx'.children[p] = ctx.children[p]
      BY <1>9, <2>1, ChildrenTyped DEF Adds
    <3> QED
      BY <1>7, <3>1, <3>2
  <2>2. Ascending(ctx'.children[q]) /\ ToSet(ctx'.children[q]) = (Members(q) \ Pending)'
    <3>1. (Members(q) \ Pending)' = (Members(q) \ Pending) \cup {e}
      <4>1. PICK s : s = (Members(q) \ Pending)'
        OBVIOUS
      <4>2. e \in s /\ s \subseteq DOMAIN doc \cup {e}
        BY <1>1, <1>6, <1>9, <4>1
      <4>3. \A x \in DOMAIN doc : x \in s <=> x \in Members(q) \ Pending
        BY <1>1, <1>5, <4>1
      <4>4. s = (Members(q) \ Pending) \cup {e}
        BY <1>1, <1>7, <4>2, <4>3
      <4> QED
        BY <4>1, <4>4
    <3>2. ctx'.children[q] = Append(ctx.children[q], e)
      BY <1>1, <1>9, ChildrenTyped DEF Adds
    <3>3. \A y \in ToSet(ctx.children[q]) : y < e
      <4>1. \A y \in DOMAIN doc : y < e
        BY <1>1
      <4> QED
        BY <1>1, <1>7, <4>1
    <3>4. /\ Ascending(Append(ctx.children[q], e))
          /\ ToSet(Append(ctx.children[q], e)) = ToSet(ctx.children[q]) \cup {e}
      BY <1>1, <1>2, <1>7, <3>3, AppendAscending
    <3> QED
      BY <1>1, <1>7, <3>1, <3>2, <3>4
  <2> QED
    BY <2>1, <2>2 DEF Books
<1> QED
  BY <1>8, <1>9

\* A closing tag changes nothing in the document.
LEMMA SameDocument ==
  ASSUME doc' = doc
  PROVE  /\ \A p : Members(p)' = Members(p)
         /\ \A x : /\ KindOf(x)' = KindOf(x) /\ Owner(x)' = Owner(x)
                   /\ Defines(x)' <=> Defines(x)
<1>1. \A x : KindOf(x)' = KindOf(x)
  BY DEF KindOf
<1>2. \A x : OwnerIn(x)' = OwnerIn(x)
  BY DEF OwnerIn, KindOf
<1>3. \A x : Owner(x)' = Owner(x)
  BY DEF Owner, OwnerIn, KindOf
<1>4. \A x : Defines(x)' <=> Defines(x)
  BY DEF Defines, Skipped, Owner, OwnerIn, KindOf
<1>5. \A p : Members(p)' = Members(p)
  BY DEF Members, Defines, Skipped, Owner, OwnerIn, KindOf
<1> QED
  BY <1>1, <1>3, <1>4, <1>5

LEMMA CloseKeepsBooks ==
  ASSUME Books, doc' = doc, ctx'.children = ctx.children,
         \A x \in DOMAIN doc : Defines(x) => (x \in Pending' <=> x \in Pending)
  PROVE  Books'
<1>1. ASSUME NEW p \in Elements PROVE (Members(p) \ Pending)' = Members(p) \ Pending
  <2>1. \A x \in Members(p) : x \in DOMAIN doc /\ Defines(x)
    BY DEF Members
  <2>2. Members(p)' = Members(p)
    BY SameDocument
  <2> QED
    BY <2>1, <2>2
<1> QED
  BY <1>1 DEF Books

\* Nothing that belongs to what x does and is recorded comes after x.
LEMMA RecordedBefore ==
  ASSUME Tracked(Content), IInv, InDocument, Books, NEW i \in DOMAIN open, NEW x, x = open[i],
         Defines(x), x \in Pending
  PROVE  /\ Owner(x) \in Elements /\ x \in Elements /\ x \in DOMAIN doc
         /\ \A y \in ToSet(ctx.children[Owner(x)]) : y < x
<1>1. x \in DOMAIN doc /\ x \in Elements /\ DOMAIN doc = 1..Len(doc) /\ Len(doc) \in Nat
  BY DocDomain
<1>2. x # Project /\ KindOf(x) \notin {"inline", "manifest"}
  BY DEF Defines
<1>3. Owner(x) \in DOMAIN doc /\ Owner(x) < x
  BY <1>1, <1>2, OwnerIs
<1>4. Owner(x) \in Elements
  BY <1>1, <1>3, BoundsAssumption DEF Elements
<1>5. ASSUME NEW y \in Members(Owner(x)) \ Pending PROVE y < x
  <2>1. y \in DOMAIN doc /\ Owner(y) = Owner(x) /\ y # x
    BY <1>5 DEF Members
  <2>2. ~ (y > x)
    <3>1. SUFFICES ASSUME y > x PROVE FALSE
      OBVIOUS
    <3>2. Owner(y) >= x
      BY <1>2, <2>1, <3>1, OwnersAfter
    <3> QED
      BY <1>1, <1>3, <2>1, <3>2
  <2> QED
    BY <1>1, <2>1, <2>2
<1> QED
  BY <1>1, <1>4, <1>5 DEF Books

\* What was pending is recorded with what it belongs to.
LEMMA CloseAddsBooks ==
  ASSUME Tracked(Content), IInv, InDocument, Books, doc' = doc,
         NEW i \in DOMAIN open, NEW x, x = open[i], Defines(x), x \in Pending,
         Adds(ctx', ctx, Owner(x), x),
         \A y \in DOMAIN doc : Defines(y) => (y \in Pending' <=> y \in Pending /\ y # x)
  PROVE  Books'
<1>1. PICK o : o = Owner(x)
  OBVIOUS
<1>2. o \in Elements /\ x \in Elements /\ x \in DOMAIN doc /\ \A y \in ToSet(ctx.children[o]) : y < x
  BY <1>1, RecordedBefore
<1>3. ASSUME NEW p \in Elements
      PROVE  (Members(p) \ Pending)' = (Members(p) \ Pending) \cup (IF p = o THEN {x} ELSE {})
  <2>1. \A y \in Members(p) : y \in DOMAIN doc /\ Defines(y)
    BY DEF Members
  <2>2. Members(p)' = Members(p)
    BY SameDocument
  <2>3. x \in Members(p) <=> p = o
    BY <1>1, <1>2 DEF Members
  <2> QED
    BY <2>1, <2>2, <2>3
<1>4. \A p \in Elements : /\ ctx.children[p] \in Seq(Elements) /\ Ascending(ctx.children[p])
                          /\ ToSet(ctx.children[p]) = Members(p) \ Pending
  BY ChildrenTyped DEF Books
<1>5. ASSUME NEW p \in Elements, p # o
      PROVE  Ascending(ctx'.children[p]) /\ ToSet(ctx'.children[p]) = (Members(p) \ Pending)'
  <2>1. ctx'.children[p] = ctx.children[p]
    BY <1>1, <1>5, ChildrenTyped DEF Adds
  <2> QED
    BY <1>3, <1>4, <1>5, <2>1
<1>6. Ascending(ctx'.children[o]) /\ ToSet(ctx'.children[o]) = (Members(o) \ Pending)'
  <2>1. ctx'.children[o] = Append(ctx.children[o], x)
    BY <1>1, <1>2, ChildrenTyped DEF Adds
  <2>2. /\ Ascending(Append(ctx.children[o], x))
        /\ ToSet(Append(ctx.children[o], x)) = ToSet(ctx.children[o]) \cup {x}
    BY <1>2, <1>4, AppendAscending
  <2> QED
    BY <1>2, <1>3, <1>4, <2>1, <2>2
<1> QED
  BY <1>5, <1>6 DEF Books

\* A path that ends gets its list, and what it belongs to gets the path.
LEMMA PathBooks ==
  ASSUME Tracked(Content), IInv, InDocument, Books, doc' = doc,
         NEW i \in DOMAIN open, NEW x, x = open[i], KindOf(x) = "path",
         {x} \cup Members(x) \subseteq Pending,
         \A y \in DOMAIN doc :
             Defines(y) => (y \in Pending' <=> y \in Pending /\ y # x /\ y \notin Members(x)),
         NEW list \in Seq(Elements), Ascending(list), ToSet(list) = Members(x),
         ctx'.children = PathAdded(ctx.children, list, x, Owner(x))
  PROVE  Books'
<1>1. PICK o : o = Owner(x)
  OBVIOUS
<1>0. ctx'.children = IF list = <<>> THEN ctx.children
                      ELSE [[ctx.children EXCEPT ![x] = list] EXCEPT ![o] = Append(@, x)]
  BY <1>1 DEF PathAdded
<1>2. x \in DOMAIN doc /\ x \in Elements /\ DOMAIN doc = 1..Len(doc)
  BY DocDomain
<1>3. Defines(x) <=> list # <<>>
  <2>1. Members(x) = {} <=> list = <<>>
    <3>1. list = <<>> => ToSet(list) = {}
      BY DEF ToSet
    <3>2. ASSUME list # <<>> PROVE ToSet(list) # {}
      <4>1. 1 \in DOMAIN list
        BY <3>2
      <4> QED
        BY <4>1 DEF ToSet
    <3> QED
      BY <3>1, <3>2
  <2> QED
    BY <1>2, <2>1, PathDefines
<1>4. ASSUME NEW p \in Elements
      PROVE  /\ \A y \in Members(p) : y \in DOMAIN doc /\ Defines(y) /\ Owner(y) = p
             /\ Members(p)' = Members(p)
             /\ x \in Members(p) <=> p = o /\ Defines(x)
  <2>1. \A y \in Members(p) : y \in DOMAIN doc /\ Defines(y) /\ Owner(y) = p
    BY DEF Members
  <2>2. Members(p)' = Members(p)
    BY SameDocument
  <2>3. x \in Members(p) <=> p = o /\ Defines(x)
    BY <1>1, <1>2 DEF Members
  <2> QED
    BY <2>1, <2>2, <2>3
<1>5. ASSUME NEW p \in Elements, p # x
      PROVE  (Members(p) \ Pending)' = (Members(p) \ Pending) \cup
                                          (IF p = o /\ Defines(x) THEN {x} ELSE {})
  <2>1. \A y \in Members(p) : y \notin Members(x)
    BY <1>2, <1>4, <1>5
  <2> QED
    BY <1>4, <2>1
<1>6. (Members(x) \ Pending)' = Members(x)
  <2>1. \A y \in Members(x) : y \in DOMAIN doc /\ Defines(y) /\ y \in Pending
    BY <1>2, <1>4
  <2>2. \A y \in Members(x) : y \notin Pending'
    BY <2>1
  <2>3. Members(x)' = Members(x)
    BY <1>2, <1>4
  <2> QED
    BY <2>2, <2>3
<1>7. /\ x \notin Members(x) /\ o # x
      /\ Defines(x) => o \in Elements /\ \A y \in ToSet(ctx.children[o]) : y < x
  <2>1. x # Project
    <3>1. KindOf(x) # "project"
      OBVIOUS
    <3>2. x = Project => KindOf(x) = "project"
      BY <1>2 DEF InDocument
    <3> QED
      BY <3>1, <3>2
  <2>2. Owner(x) < x /\ Owner(x) \in DOMAIN doc
    BY <1>2, <2>1, OwnerIs
  <2>3. Owner(x) # x
    BY <1>2, <2>2, DocDomain
  <2> QED
    BY <1>1, <1>4, <1>2, <2>3, RecordedBefore
<1>8. \A p \in Elements : /\ ctx.children[p] \in Seq(Elements) /\ Ascending(ctx.children[p])
                          /\ ToSet(ctx.children[p]) = Members(p) \ Pending
  BY ChildrenTyped DEF Books
<1>9. CASE list = <<>>
  <2>1. ASSUME NEW p \in Elements PROVE (Members(p) \ Pending)' = Members(p) \ Pending
    BY <1>2, <1>3, <1>5, <1>6, <1>7, <1>9 DEF ToSet
  <2> QED
    BY <1>0, <1>8, <1>9, <2>1 DEF Books
<1>10. CASE list # <<>>
  <2>1. ASSUME NEW p \in Elements, p # o, p # x
        PROVE  Ascending(ctx'.children[p]) /\ ToSet(ctx'.children[p]) = (Members(p) \ Pending)'
    <3>1. ctx'.children[p] = ctx.children[p]
      BY <1>0, <1>10, <2>1, ChildrenTyped
    <3> QED
      BY <1>5, <1>8, <2>1, <3>1
  <2>2. Ascending(ctx'.children[x]) /\ ToSet(ctx'.children[x]) = (Members(x) \ Pending)'
    <3>1. ctx'.children[x] = list
      BY <1>0, <1>2, <1>7, <1>10, ChildrenTyped
    <3> QED
      BY <1>6, <1>7, <3>1
  <2>3. Ascending(ctx'.children[o]) /\ ToSet(ctx'.children[o]) = (Members(o) \ Pending)'
    <3>1. Defines(x)
      BY <1>3, <1>10
    <3>2. ctx'.children[o] = Append(ctx.children[o], x)
      BY <1>0, <1>2, <1>7, <1>10, <3>1, ChildrenTyped
    <3>3. /\ Ascending(Append(ctx.children[o], x))
          /\ ToSet(Append(ctx.children[o], x)) = ToSet(ctx.children[o]) \cup {x}
      BY <1>2, <1>7, <1>8, <3>1, AppendAscending
    <3>4. (Members(o) \ Pending)' = (Members(o) \ Pending) \cup {x}
      BY <1>5, <1>7, <3>1
    <3> QED
      BY <1>7, <1>8, <3>1, <3>2, <3>3, <3>4
  <2> QED
    BY <2>1, <2>2, <2>3 DEF Books
<1> QED
  BY <1>9, <1>10

-----------------------------------------------------------------------------
(* Every step keeps ChildInv                                               *)

\* An opening tag reads element e, the open elements being n so far.
OpenStep(kind, e, n) ==
    /\ Tracked(Content) /\ IInv /\ IInv' /\ ChildInv
    /\ kind \in Kinds /\ Open(kind) /\ e = Len(doc) + 1 /\ n = Len(open)

\* A closing tag, the open elements being n so far.
CloseStep(n) == Tracked(Content) /\ IInv /\ IInv' /\ ChildInv /\ Close /\ n = Len(open)

\* What is pending, by the state.
LEMMA PendingIs ==
  \A x, b, q :
      /\ ctx.state \notin {"PATH", "FILESET", "SELECTOR"} => (x \in Pending <=> x = ctx.task)
      /\ b = (IF ctx.task = None THEN 2 ELSE 4) /\ q = open[b] =>
            /\ ctx.state = "PATH" =>
                  (x \in Pending <=> x = ctx.task \/ x = q \/ x \in Members(q))
            /\ ctx.state = "FILESET" => (x \in Pending <=> x = ctx.task \/ x = ctx.fileset_id)
            /\ ctx.state = "SELECTOR" =>
                  (x \in Pending <=> x = ctx.task \/ \E i \in b..Len(open) : x = open[i])
<1> SUFFICES ASSUME NEW x, NEW b, NEW q
             PROVE  /\ ctx.state \notin {"PATH", "FILESET", "SELECTOR"} =>
                          (x \in Pending <=> x = ctx.task)
                    /\ b = (IF ctx.task = None THEN 2 ELSE 4) /\ q = open[b] =>
                          /\ ctx.state = "PATH" =>
                                (x \in Pending <=> x = ctx.task \/ x = q \/ x \in Members(q))
                          /\ ctx.state = "FILESET" =>
                                (x \in Pending <=> x = ctx.task \/ x = ctx.fileset_id)
                          /\ ctx.state = "SELECTOR" =>
                                (x \in Pending <=>
                                    x = ctx.task \/ \E i \in b..Len(open) : x = open[i])
  OBVIOUS
<1>1. ctx.state \notin {"PATH", "FILESET", "SELECTOR"} => (x \in Pending <=> x = ctx.task)
  BY DEF Pending
<1>2. ASSUME b = (IF ctx.task = None THEN 2 ELSE 4), q = open[b], ctx.state = "PATH"
      PROVE  x \in Pending <=> x = ctx.task \/ x = q \/ x \in Members(q)
  BY <1>2 DEF Pending
<1>3. ASSUME b = (IF ctx.task = None THEN 2 ELSE 4), q = open[b], ctx.state = "FILESET"
      PROVE  x \in Pending <=> x = ctx.task \/ x = ctx.fileset_id
  BY <1>3 DEF Pending
<1>4. ASSUME b = (IF ctx.task = None THEN 2 ELSE 4), q = open[b], ctx.state = "SELECTOR"
      PROVE  x \in Pending <=> x = ctx.task \/ \E i \in b..Len(open) : x = open[i]
  BY <1>4 DEF Pending
<1> QED
  BY <1>1, <1>2, <1>3, <1>4

LEMMA PendingThen ==
  (\A x, b, q :
      /\ ctx.state \notin {"PATH", "FILESET", "SELECTOR"} => (x \in Pending <=> x = ctx.task)
      /\ b = (IF ctx.task = None THEN 2 ELSE 4) /\ q = open[b] =>
            /\ ctx.state = "PATH" =>
                  (x \in Pending <=> x = ctx.task \/ x = q \/ x \in Members(q))
            /\ ctx.state = "FILESET" => (x \in Pending <=> x = ctx.task \/ x = ctx.fileset_id)
            /\ ctx.state = "SELECTOR" =>
                  (x \in Pending <=> x = ctx.task \/ \E i \in b..Len(open) : x = open[i]))'
  BY PendingIs, PTL

\* The elements that are open and the context, before any step.
LEMMA StepTypes ==
  ASSUME IInv, InDocument, NEW n, n = Len(open)
  PROVE  /\ Proper(ctx) /\ ctx.direct \in BOOLEAN /\ ctx.fileset \in Elements \cup {None}
         /\ ctx.list \in Seq(Elements) /\ ctx.lists \in Seq(Seq(Elements))
         /\ ctx.selectors \in Seq(Elements)
         /\ Len(ctx.stack) \in Nat /\ (Len(ctx.stack) = 0 <=> ctx.stack = <<>>)
         /\ n \in Nat /\ DOMAIN open = 1..n /\ (n = 0 <=> open = <<>>)
         /\ DOMAIN doc = 1..Len(doc) /\ Len(doc) \in Nat
         /\ \A i \in 1..n : open[i] \in DOMAIN doc /\ open[i] # None
         /\ \A i, j \in 1..n : i < j => open[i] < open[j]
         /\ \A i \in 2..n : open[i] # Project
         /\ n # 0 => open[1] = Project
<1>1. ctx \in Context
  BY DEF IInv, TypeOK
<1>2. /\ ctx.direct \in BOOLEAN /\ ctx.fileset \in Elements \cup {None}
      /\ ctx.list \in Seq(Elements) /\ ctx.lists \in Seq(Seq(Elements))
      /\ ctx.selectors \in Seq(Elements)
  BY <1>1 DEF Context
<1>3. Proper(ctx)
  BY <1>1, ContextIs DEF Proper
<1>4. Len(ctx.stack) \in Nat /\ (Len(ctx.stack) = 0 <=> ctx.stack = <<>>)
  BY <1>3 DEF Proper
<1>5. open \in Seq(Elements)
  BY DEF IInv, TypeOK
<1>6. /\ n \in Nat /\ DOMAIN open = 1..n /\ (n = 0 <=> open = <<>>)
      /\ DOMAIN doc = 1..Len(doc) /\ Len(doc) \in Nat
      /\ \A i \in 1..n : open[i] \in DOMAIN doc /\ open[i] # None
  BY <1>5, DocDomain, ElementTypes
<1>7. \A i, j \in 1..n : i < j => open[i] < open[j]
  BY <1>6 DEF InDocument
<1>8. n # 0 => open[1] = Project
  BY <1>6 DEF InDocument
<1>9. ASSUME NEW i \in 2..n PROVE open[i] # Project
  <2>1. 1 \in 1..n /\ i \in 1..n /\ 1 < i
    BY <1>6
  <2>2. open[1] < open[i] /\ open[1] = Project
    BY <1>6, <1>7, <1>8, <2>1
  <2> QED
    BY <2>2 DEF Project
<1> QED
  BY <1>2, <1>3, <1>4, <1>6, <1>7, <1>8, <1>9

\* What the open elements are, and what they belong to.
LEMMA OpenKinds ==
  ASSUME Tracked(Content), IInv, InDocument, NEW n, n = Len(open)
  PROVE  /\ n > 0 => KindAt(1) = "project"
         /\ \A i \in 2..n : /\ KindAt(i) \in Nests(KindAt(i - 1)) /\ KindAt(i) \in Kinds
                            /\ KindAt(i) \in Content[KindAt(i - 1)]
                            /\ KindAt(i - 1) \notin {"inline", "manifest"} =>
                                  Owner(open[i]) = open[i - 1]
                            /\ /\ KindAt(i) \notin {"description", "inline", "manifest", "path"}
                               /\ KindAt(i - 1) # "description"
                               => Defines(open[i])
<1>1. /\ n \in Nat /\ (n = 0 <=> open = <<>>)
      /\ \A i \in 1..n : open[i] \in DOMAIN doc /\ open[i] # None
      /\ \A i \in 2..n : open[i] # Project
  BY StepTypes
<1>2. n > 0 => KindAt(1) = "project"
  <2>1. n > 0 => open[1] = Project /\ open[1] \in DOMAIN doc
    BY <1>1 DEF InDocument
  <2> QED
    BY <2>1 DEF InDocument, KindAt
<1>3. ASSUME NEW i \in 2..n
      PROVE  /\ KindAt(i) \in Nests(KindAt(i - 1)) /\ KindAt(i) \in Kinds
             /\ KindAt(i) \in Content[KindAt(i - 1)]
             /\ KindAt(i - 1) \notin {"inline", "manifest"} => Owner(open[i]) = open[i - 1]
             /\ /\ KindAt(i) \notin {"description", "inline", "manifest", "path"}
                /\ KindAt(i - 1) # "description"
                => Defines(open[i])
  <2>1. open[i] \in DOMAIN doc /\ open[i] # Project /\ doc[open[i]].parent = open[i - 1]
    BY <1>1 DEF InDocument
  <2>2. KindAt(i) \in Nests(KindAt(i - 1)) /\ KindAt(i) \in Kinds
    BY <2>1, NestedIn DEF KindAt
  <2>3. KindAt(i) \in Content[KindAt(i - 1)]
    BY <2>1 DEF InDocument, KindAt
  <2>4. KindAt(i - 1) \notin {"inline", "manifest"} => Owner(open[i]) = open[i - 1]
    BY <2>1, OwnerIs DEF KindAt
  <2>5. /\ KindAt(i) \notin {"description", "inline", "manifest", "path"}
        /\ KindAt(i - 1) # "description"
        => Defines(open[i])
    BY <2>1 DEF Defines, Skipped, KindAt
  <2> QED
    BY <2>2, <2>3, <2>4, <2>5
<1> QED
  BY <1>2, <1>3

LEMMA OpenStepFacts ==
  ASSUME NEW kind, NEW e, NEW n, OpenStep(kind, e, n)
  PROVE  /\ Tracked(Content) /\ IInv /\ IInv' /\ InDocument /\ InDocument' /\ Books /\ Where(ctx)
         /\ kind \in Kinds /\ Open(kind) /\ e = Len(doc) + 1 /\ n = Len(open)
         /\ e \in Elements /\ e \notin DOMAIN doc /\ e # None
         /\ Len(open') = n + 1 /\ open'[n + 1] = e
         /\ \A i \in 1..n : open'[i] = open[i] /\ KindAt(i)' = KindAt(i)
         /\ KindAt(n + 1)' = kind /\ ctx' = StartElement(ctx, e, kind)
         /\ n = 0 => doc = <<>> /\ kind = "project"
         /\ n # 0 => /\ kind \in Content[KindAt(n)] /\ kind \in Nests(KindAt(n))
                     /\ KindAt(n) \in Kinds
                     /\ KindAt(n) \notin {"inline", "manifest"} => Owner(e)' = open[n]
                     /\ KindAt(n) \in {"inline", "manifest"} =>
                           n > 1 /\ Owner(e)' = open[n - 1]
                     /\ Defines(e)' <=>
                           /\ kind \notin {"description", "inline", "manifest", "path"}
                           /\ KindAt(n) # "description"
<1>1. /\ Tracked(Content) /\ IInv /\ IInv' /\ InDocument /\ Books /\ Where(ctx)
      /\ kind \in Kinds /\ Open(kind) /\ e = Len(doc) + 1 /\ n = Len(open)
  BY DEF OpenStep, ChildInv
<1>2. InDocument'
  BY <1>1, OpenInDocument
<1>3. /\ e \in Elements /\ Len(open') = n + 1 /\ open'[n + 1] = e
      /\ \A i \in 1..n : open'[i] = open[i] /\ KindAt(i)' = KindAt(i)
      /\ KindAt(n + 1)' = kind /\ ctx' = StartElement(ctx, e, kind)
      /\ open = <<>> => doc = <<>> /\ kind = "project"
      /\ open # <<>> => kind \in Content[KindAt(n)]
  BY <1>1, OpenFacts
<1>4. /\ n \in Nat /\ (n = 0 <=> open = <<>>) /\ DOMAIN doc = 1..Len(doc) /\ Len(doc) \in Nat
      /\ \A i \in 1..n : open[i] \in DOMAIN doc
  BY <1>1, StepTypes
<1>5. e \notin DOMAIN doc /\ e # None
  BY <1>1, <1>3, <1>4, ElementTypes
<1>6. ASSUME n # 0
      PROVE  /\ kind \in Nests(KindAt(n)) /\ KindAt(n) \in Kinds
             /\ KindAt(n) \notin {"inline", "manifest"} => Owner(e)' = open[n]
             /\ KindAt(n) \in {"inline", "manifest"} => n > 1 /\ Owner(e)' = open[n - 1]
             /\ Defines(e)' <=> /\ kind \notin {"description", "inline", "manifest", "path"}
                                /\ KindAt(n) # "description"
  <2>1. KindAt(n) \in Kinds
    BY <1>1, <1>4, <1>6, DocDomain DEF KindAt
  <2>2. kind \in Nests(KindAt(n))
    BY <1>1, <1>3, <1>4, <1>6, <2>1 DEF Tracked
  <2>3. /\ KindAt(n) \notin {"inline", "manifest"} => Owner(e)' = open[n]
        /\ KindAt(n) \in {"inline", "manifest"} => n > 1 /\ Owner(e)' = open[n - 1]
    BY <1>1, <1>6, OpenOwners
  <2>4. Defines(e)' <=> /\ kind \notin {"description", "inline", "manifest", "path"}
                        /\ KindAt(n) # "description"
    BY <1>1, <1>6, OpenDefines
  <2> QED
    BY <2>1, <2>2, <2>3, <2>4
<1> QED
  BY <1>1, <1>2, <1>3, <1>4, <1>5, <1>6

LEMMA OpenStepBooks ==
  ASSUME NEW kind, NEW e, NEW n, OpenStep(kind, e, n), n # 0, NEW q, q = Owner(e)',
         \A x \in DOMAIN doc : x \in Pending' <=> x \in Pending,
         KindOf(q) = "path" => q \in Pending,
         \/ ctx'.children = ctx.children /\ (Defines(e)' => e \in Pending')
         \/ Adds(ctx', ctx, q, e) /\ Defines(e)' /\ e \notin Pending'
  PROVE  Books'
<1>1. /\ Tracked(Content) /\ IInv /\ IInv' /\ InDocument /\ Books
      /\ kind \in Kinds /\ Open(kind) /\ e = Len(doc) + 1 /\ n = Len(open)
  BY OpenStepFacts
<1> QED
  BY <1>1, OpenBooks

\* The places the parser can be in, by its state.
LEMMA WhereIs ==
  ASSUME Where(ctx)
  PROVE  /\ ctx.state = "ROOT" => InRoot(ctx)
         /\ ctx.state = "PROJECT" => BetweenTargets(ctx)
         /\ ctx.state = "TARGET" => InTarget(ctx)
         /\ ctx.state = "SKIP" => InSkipped(ctx)
         /\ ctx.state = "TASK" => InDirect(ctx) \/ InXml(ctx)
         /\ ctx.state = "PATH" => \E b \in {2, 4} : InPath(ctx, b)
         /\ ctx.state = "FILESET" => \E b \in {2, 4} : InFileset(ctx, b)
         /\ ctx.state = "SELECTOR" => \E b \in {2, 4} : InSelector(ctx, b)
         /\ ctx.state \in {"ROOT", "PROJECT", "TARGET", "SKIP", "TASK", "PATH", "FILESET",
                           "SELECTOR"}
<1>1. InRoot(ctx) => ctx.state = "ROOT"
  BY DEF InRoot
<1>2. BetweenTargets(ctx) => ctx.state = "PROJECT"
  BY DEF BetweenTargets
<1>3. InTarget(ctx) => ctx.state = "TARGET"
  BY DEF InTarget
<1>4. InSkipped(ctx) => ctx.state = "SKIP"
  BY DEF InSkipped
<1>5. InDirect(ctx) \/ InXml(ctx) => ctx.state = "TASK"
  BY DEF InDirect, InXml
<1>6. \A b : InPath(ctx, b) => ctx.state = "PATH"
  BY DEF InPath
<1>7. \A b : InFileset(ctx, b) => ctx.state = "FILESET"
  BY DEF InFileset
<1>8. \A b : InSelector(ctx, b) => ctx.state = "SELECTOR"
  BY DEF InSelector
<1> QED
  BY <1>1, <1>2, <1>3, <1>4, <1>5, <1>6, <1>7, <1>8 DEF Where

\* The project is opened.
LEMMA OpenInRoot ==
  ASSUME NEW kind, NEW e, NEW n, OpenStep(kind, e, n), InRoot(ctx)
  PROVE  ChildInv'
<1>1. /\ IInv /\ InDocument /\ InDocument' /\ Books /\ n = Len(open)
      /\ Len(open') = n + 1 /\ ctx' = StartElement(ctx, e, kind)
      /\ n = 0 => doc = <<>> /\ kind = "project"
  BY OpenStepFacts
<1>2. open = <<>> /\ ctx.state = "ROOT" /\ ctx.stack = <<>> /\ NoTask(ctx)
  BY DEF InRoot
<1>3. Proper(ctx) /\ n = 0
  BY <1>1, <1>2, StepTypes
<1>4. Keeps(ctx', ctx, {"state"}) /\ ctx'.state = "PROJECT"
  BY <1>1, <1>2, <1>3, RootEffects
<1>5. /\ ctx'.stack = ctx.stack /\ ctx'.path_id = ctx.path_id /\ ctx'.fileset_id = ctx.fileset_id
      /\ ctx'.selector_id = ctx.selector_id /\ ctx'.task = ctx.task /\ ctx'.fileset = ctx.fileset
      /\ ctx'.in_manifest = ctx.in_manifest /\ ctx'.children = ctx.children
  BY <1>4 DEF Keeps, Fields
<1>6. BetweenTargets(ctx)'
  BY <1>1, <1>2, <1>3, <1>4, <1>5 DEF BetweenTargets, NoTask, NoIds, Ids
<1>7. Where(ctx)'
  BY <1>6 DEF Where
<1>8. Books'
  <2>1. DOMAIN doc = {}
    BY <1>1, <1>3
  <2>2. DOMAIN doc' = {Project}
    <3>1. DOMAIN doc' = 1..e /\ e = 1
      BY <1>1, <1>3, OpenFacts, OpenStepFacts
    <3> QED
      BY <3>1 DEF Project
  <2>3. \A p : Members(p) = {} /\ Members(p)' = {}
    BY <2>1, <2>2 DEF Members, Defines
  <2> QED
    BY <1>1, <1>5, <2>3 DEF Books
<1> QED
  BY <1>1, <1>7, <1>8 DEF ChildInv

LEMMA OwnersBefore ==
  Tracked(Content) /\ IInv /\ InDocument => \A x \in DOMAIN doc : x # Project => Owner(x) < x
  BY OwnerIs

\* Nothing belongs to an element that has just been opened.
LEMMA OpenNoMembers ==
  ASSUME IInv, IInv', InDocument', NEW kind \in Kinds, Open(kind), NEW e, e = Len(doc) + 1,
         Tracked(Content)
  PROVE  Members(e)' = {}
<1>1. (Tracked(Content) /\ IInv /\ InDocument =>
          \A x \in DOMAIN doc : x # Project => Owner(x) < x)'
  BY OwnersBefore, PTL
<1>2. DOMAIN doc' = 1..e /\ e \in Nat
  BY OpenFacts, DocDomain
<1>3. ASSUME NEW x \in Members(e)' PROVE FALSE
  <2>1. x \in DOMAIN doc' /\ x # Project /\ Owner(x)' = e
    BY <1>3 DEF Members, Defines
  <2>2. e < x
    BY <1>1, <2>1
  <2> QED
    BY <1>2, <2>1, <2>2
<1> QED
  BY <1>3

\* What is opened between targets stands in the project.
LEMMA OpenBetweenFacts ==
  ASSUME NEW kind, NEW e, NEW n, OpenStep(kind, e, n), BetweenTargets(ctx)
  PROVE  /\ n = 1 /\ kind \in {"target", "property", "description", "path", "fileset", "selector"}
         /\ KindAt(1) = "project" /\ KindOf(Project) = "project" /\ Owner(e)' = Project
         /\ open'[1] = Project /\ open'[2] = e /\ KindAt(2)' = kind /\ Len(open') = 2
         /\ ctx.state = "PROJECT" /\ ctx.stack = <<>> /\ NoTask(ctx)
         /\ \A x \in DOMAIN doc : x \notin Pending
<1>1. /\ Tracked(Content) /\ IInv /\ InDocument /\ n = Len(open)
      /\ Len(open') = n + 1 /\ open'[n + 1] = e
      /\ (\A i \in 1..n : open'[i] = open[i]) /\ KindAt(n + 1)' = kind
      /\ n # 0 => kind \in Nests(KindAt(n))
      /\ n # 0 /\ KindAt(n) \notin {"inline", "manifest"} => Owner(e)' = open[n]
  BY OpenStepFacts
<1>2. /\ ctx.state = "PROJECT" /\ ctx.stack = <<>> /\ NoTask(ctx)
      /\ n \in {1, 2} /\ (n = 2 => KindAt(2) = "property")
  BY <1>1 DEF BetweenTargets
<1>3. KindAt(1) = "project" /\ open[1] = Project /\ open[1] \in DOMAIN doc
  BY <1>1, <1>2, OpenKinds, StepTypes
<1>4. n = 1
  <2>1. Nests("property") = {}
    BY NestsOf
  <2>2. n # 0 => kind \in Nests(KindAt(n))
    BY <1>1
  <2>3. n = 2 => KindAt(n) = "property"
    BY <1>2
  <2> QED
    BY <1>2, <2>1, <2>2, <2>3
<1>5. kind \in {"target", "property", "description", "path", "fileset", "selector"}
  BY <1>1, <1>3, <1>4, NestsOf
<1>6. \A x \in DOMAIN doc : x \notin Pending
  <2>1. ctx.task = None /\ None \notin DOMAIN doc
    BY <1>1, <1>2, StepTypes DEF NoTask, None
  <2> QED
    BY <1>2, <2>1, PendingIs
<1> QED
  BY <1>1, <1>2, <1>3, <1>4, <1>5, <1>6 DEF KindAt

\* A target or a property is recorded at once.
LEMMA OpenTargetOrProperty ==
  ASSUME NEW kind, NEW e, NEW n, OpenStep(kind, e, n), BetweenTargets(ctx),
         kind \in {"target", "property"}
  PROVE  ChildInv'
<1>1. /\ IInv /\ InDocument /\ InDocument' /\ n = Len(open) /\ e \in Elements
      /\ e \notin DOMAIN doc /\ e # None
      /\ ctx' = StartElement(ctx, e, kind)
      /\ n # 0 => (Defines(e)' <=> /\ kind \notin {"description", "inline", "manifest", "path"}
                                   /\ KindAt(n) # "description")
  BY OpenStepFacts
<1>2. /\ n = 1 /\ KindAt(1) = "project" /\ KindOf(Project) = "project" /\ Owner(e)' = Project
      /\ open'[1] = Project /\ open'[2] = e /\ KindAt(2)' = kind /\ Len(open') = 2
      /\ ctx.state = "PROJECT" /\ ctx.stack = <<>> /\ NoTask(ctx)
      /\ \A x \in DOMAIN doc : x \notin Pending
  BY OpenBetweenFacts
<1>3. Proper(ctx) /\ None \notin DOMAIN doc
  BY <1>1, StepTypes DEF None
<1>4. /\ kind = "target" => /\ Keeps(ctx', ctx, {"state", "target", "children"})
                            /\ ctx'.state = "TARGET" /\ ctx'.target = e
      /\ kind = "property" => Keeps(ctx', ctx, {"children"})
      /\ Adds(ctx', ctx, Project, e)
  BY <1>1, <1>2, <1>3, ProjectChildEffects
<1>5. /\ ctx'.stack = <<>> /\ ctx'.path_id = None /\ ctx'.fileset_id = None
      /\ ctx'.selector_id = None /\ ctx'.task = None /\ ctx'.fileset = None
      /\ ~ctx'.in_manifest
      /\ kind = "property" => ctx'.state = "PROJECT"
  BY <1>2, <1>4 DEF Keeps, Fields, NoTask, NoIds, Ids
<1>6. NoTask(ctx)'
  BY <1>5 DEF NoTask, NoIds, Ids
<1>7. BetweenTargets(ctx)' \/ InTarget(ctx)'
  BY <1>2, <1>4, <1>5, <1>6 DEF BetweenTargets, InTarget
<1>8. Where(ctx)'
  BY <1>7 DEF Where
<1>9. \A x : x \in Pending' <=> x = None
  BY <1>4, <1>5, PendingThen
<1>10. Books'
  <2>1. Defines(e)' /\ e \notin Pending'
    BY <1>1, <1>2, <1>9
  <2> QED
    BY <1>2, <1>3, <1>4, <1>9, <2>1, OpenStepBooks
<1> QED
  BY <1>1, <1>8, <1>10 DEF ChildInv

\* All others are recorded when they end, and are not read before.
LEMMA OpenProjectPath ==
  ASSUME NEW kind, NEW e, NEW n, OpenStep(kind, e, n), BetweenTargets(ctx), kind = "path"
  PROVE  ChildInv'
<1>1. /\ IInv /\ IInv' /\ InDocument /\ InDocument' /\ n = Len(open) /\ e \in Elements
      /\ e = Len(doc) + 1 /\ e \notin DOMAIN doc /\ e # None
      /\ ctx' = StartElement(ctx, e, kind)
  BY OpenStepFacts
<1>2. /\ n = 1 /\ KindAt(1) = "project" /\ KindOf(Project) = "project" /\ Owner(e)' = Project
      /\ open'[1] = Project /\ open'[2] = e /\ KindAt(2)' = kind /\ Len(open') = 2
      /\ ctx.state = "PROJECT" /\ ctx.stack = <<>> /\ NoTask(ctx)
      /\ \A x \in DOMAIN doc : x \notin Pending
  BY OpenBetweenFacts
<1>3. Proper(ctx) /\ None \notin DOMAIN doc
  BY <1>1, StepTypes DEF None
<1>4. /\ Keeps(ctx', ctx, {"path_id", "path", "list", "lists", "path_depth", "state", "stack"})
      /\ Stacks(ctx', ctx, "PATH", None)
      /\ ctx'.path_id = e /\ ctx'.list = <<>> /\ ctx'.lists = <<>> /\ ctx'.path_depth = 1
  BY <1>1, <1>2, <1>3, ProjectChildEffects
<1>5. /\ ctx'.fileset_id = None /\ ctx'.selector_id = None /\ ctx'.task = None
      /\ ctx'.fileset = None /\ ~ctx'.in_manifest /\ ctx'.children = ctx.children
  BY <1>2, <1>4 DEF Keeps, Fields, NoTask, NoIds, Ids
<1>6. /\ ctx'.state = "PATH" /\ Len(ctx'.stack) = 1 /\ ctx'.stack[1].state = "PROJECT"
      /\ ctx'.stack[1].data = None
  BY <1>2, <1>4 DEF Stacks
<1>7. Members(e)' = {}
  BY <1>1, OpenNoMembers, OpenStepFacts
<1>8. InPath(ctx, 2)'
  <2>1. Flat(ctx)' = <<>>
    BY <1>4 DEF Flat
  <2>2. Ascending(Flat(ctx)') /\ ToSet(Flat(ctx)') = Members(e)'
    BY <1>7, <2>1 DEF Ascending, ToSet
  <2> QED
    BY <1>2, <1>4, <1>5, <1>6, <2>2 DEF InPath, ObjectAt, Ids, IdAt
<1>9. Where(ctx)'
  BY <1>8 DEF Where
<1>10. \A x : x \in Pending' <=> x = None \/ x = e
  BY <1>2, <1>5, <1>6, <1>7, PendingThen
<1>11. Books'
  BY <1>1, <1>2, <1>3, <1>5, <1>10, OpenStepBooks
<1> QED
  BY <1>1, <1>9, <1>11 DEF ChildInv

LEMMA OpenProjectFileset ==
  ASSUME NEW kind, NEW e, NEW n, OpenStep(kind, e, n), BetweenTargets(ctx), kind = "fileset"
  PROVE  ChildInv'
<1>1. /\ IInv /\ IInv' /\ InDocument /\ InDocument' /\ n = Len(open) /\ e \in Elements
      /\ e = Len(doc) + 1 /\ e \notin DOMAIN doc /\ e # None
      /\ ctx' = StartElement(ctx, e, kind)
  BY OpenStepFacts
<1>2. /\ n = 1 /\ KindAt(1) = "project" /\ KindOf(Project) = "project" /\ Owner(e)' = Project
      /\ open'[1] = Project /\ open'[2] = e /\ KindAt(2)' = kind /\ Len(open') = 2
      /\ ctx.state = "PROJECT" /\ ctx.stack = <<>> /\ NoTask(ctx)
      /\ \A x \in DOMAIN doc : x \notin Pending
  BY OpenBetweenFacts
<1>3. Proper(ctx) /\ None \notin DOMAIN doc
  BY <1>1, StepTypes DEF None
<1>4. /\ Keeps(ctx', ctx, {"fileset_id", "fileset", "fileset_depth", "state", "stack"})
      /\ Stacks(ctx', ctx, "FILESET", None)
      /\ ctx'.fileset_id = e /\ ctx'.fileset = e /\ ctx'.fileset_depth = 1
  BY <1>1, <1>2, <1>3, ProjectChildEffects
<1>5. /\ ctx'.path_id = None /\ ctx'.selector_id = None /\ ctx'.task = None
      /\ ~ctx'.in_manifest /\ ctx'.children = ctx.children
  BY <1>2, <1>4 DEF Keeps, Fields, NoTask, NoIds, Ids
<1>6. /\ ctx'.state = "FILESET" /\ Len(ctx'.stack) = 1 /\ ctx'.stack[1].state = "PROJECT"
      /\ ctx'.stack[1].data = None
  BY <1>2, <1>4 DEF Stacks
<1>8. InFileset(ctx, 2)'
  BY <1>2, <1>4, <1>5, <1>6 DEF InFileset, ObjectAt, Ids, IdAt
<1>9. Where(ctx)'
  BY <1>8 DEF Where
<1>10. \A x : x \in Pending' <=> x = None \/ x = e
  BY <1>4, <1>5, <1>6, PendingThen
<1>11. Books'
  BY <1>1, <1>2, <1>3, <1>5, <1>10, OpenStepBooks
<1> QED
  BY <1>1, <1>9, <1>11 DEF ChildInv

LEMMA OpenProjectSelector ==
  ASSUME NEW kind, NEW e, NEW n, OpenStep(kind, e, n), BetweenTargets(ctx), kind = "selector"
  PROVE  ChildInv'
<1>1. /\ IInv /\ IInv' /\ InDocument /\ InDocument' /\ n = Len(open) /\ e \in Elements
      /\ e = Len(doc) + 1 /\ e \notin DOMAIN doc /\ e # None
      /\ ctx' = StartElement(ctx, e, kind)
  BY OpenStepFacts
<1>2. /\ n = 1 /\ KindAt(1) = "project" /\ KindOf(Project) = "project" /\ Owner(e)' = Project
      /\ open'[1] = Project /\ open'[2] = e /\ KindAt(2)' = kind /\ Len(open') = 2
      /\ ctx.state = "PROJECT" /\ ctx.stack = <<>> /\ NoTask(ctx)
      /\ \A x \in DOMAIN doc : x \notin Pending
  BY OpenBetweenFacts
<1>3. Proper(ctx) /\ None \notin DOMAIN doc
  BY <1>1, StepTypes DEF None
<1>4. /\ Keeps(ctx', ctx, {"selector_id", "selector", "selectors", "state", "stack"})
      /\ Stacks(ctx', ctx, "SELECTOR", None)
      /\ ctx'.selector_id = e /\ ctx'.selector = e /\ ctx'.selectors = <<>>
  BY <1>1, <1>2, <1>3, ProjectChildEffects
<1>5. /\ ctx'.path_id = None /\ ctx'.fileset_id = None /\ ctx'.task = None
      /\ ctx'.fileset = None /\ ~ctx'.in_manifest /\ ctx'.children = ctx.children
  BY <1>2, <1>4 DEF Keeps, Fields, NoTask, NoIds, Ids
<1>6. /\ ctx'.state = "SELECTOR" /\ Len(ctx'.stack) = 1 /\ ctx'.stack[1].state = "PROJECT"
      /\ ctx'.stack[1].data = None
  BY <1>2, <1>4 DEF Stacks
<1>8. InSelector(ctx, 2)'
  <2>1. \A i \in 2..Len(open') : i = 2
    BY <1>2
  <2>2. (\A i \in 2..Len(open) : KindAt(i) \in {"selector", "or", "include"})'
    BY <1>2, <2>1
  <2> QED
    BY <1>2, <1>4, <1>5, <1>6, <2>2 DEF InSelector, ObjectAt, Ids, IdAt
<1>9. Where(ctx)'
  BY <1>8 DEF Where
<1>10. \A x : x \in Pending' <=> x = None \/ x = e
  BY <1>2, <1>5, <1>6, PendingThen
<1>11. Books'
  BY <1>1, <1>2, <1>3, <1>5, <1>10, OpenStepBooks
<1> QED
  BY <1>1, <1>9, <1>11 DEF ChildInv

LEMMA OpenDescription ==
  ASSUME NEW kind, NEW e, NEW n, OpenStep(kind, e, n), BetweenTargets(ctx), kind = "description"
  PROVE  ChildInv'
<1>1. /\ IInv /\ IInv' /\ InDocument /\ InDocument' /\ n = Len(open) /\ e \in Elements
      /\ e = Len(doc) + 1 /\ e \notin DOMAIN doc /\ e # None
      /\ ctx' = StartElement(ctx, e, kind)
      /\ n # 0 => (Defines(e)' <=> /\ kind \notin {"description", "inline", "manifest", "path"}
                                   /\ KindAt(n) # "description")
  BY OpenStepFacts
<1>2. /\ n = 1 /\ KindAt(1) = "project" /\ KindOf(Project) = "project" /\ Owner(e)' = Project
      /\ open'[1] = Project /\ open'[2] = e /\ KindAt(2)' = kind /\ Len(open') = 2
      /\ ctx.state = "PROJECT" /\ ctx.stack = <<>> /\ NoTask(ctx)
      /\ \A x \in DOMAIN doc : x \notin Pending
  BY OpenBetweenFacts
<1>3. Proper(ctx) /\ None \notin DOMAIN doc
  BY <1>1, StepTypes DEF None
<1>4. /\ Keeps(ctx', ctx, {"skip_depth", "state", "stack"})
      /\ Stacks(ctx', ctx, "SKIP", None) /\ ctx'.skip_depth = 1
  BY <1>1, <1>2, <1>3, ProjectChildEffects
<1>5. /\ ctx'.path_id = None /\ ctx'.fileset_id = None /\ ctx'.selector_id = None
      /\ ctx'.task = None
      /\ ctx'.fileset = None /\ ~ctx'.in_manifest /\ ctx'.children = ctx.children
  BY <1>2, <1>4 DEF Keeps, Fields, NoTask, NoIds, Ids
<1>6. /\ ctx'.state = "SKIP" /\ Len(ctx'.stack) = 1 /\ ctx'.stack[1].state = "PROJECT"
      /\ ctx'.stack[1].data = None
  BY <1>2, <1>4 DEF Stacks
<1>8. InSkipped(ctx)'
  BY <1>2, <1>4, <1>5, <1>6 DEF InSkipped, ObjectAt, NoTask, NoIds, Ids
<1>9. Where(ctx)'
  BY <1>8 DEF Where
<1>10. \A x : x \in Pending' <=> x = None
  BY <1>5, <1>6, PendingThen
<1>11. Books'
  BY <1>1, <1>2, <1>3, <1>5, <1>10, OpenStepBooks
<1> QED
  BY <1>1, <1>9, <1>11 DEF ChildInv

LEMMA OpenInProject ==
  ASSUME NEW kind, NEW e, NEW n, OpenStep(kind, e, n), BetweenTargets(ctx)
  PROVE  ChildInv'
<1>1. kind \in {"target", "property", "description", "path", "fileset", "selector"}
  BY OpenBetweenFacts
<1> QED
  BY <1>1, OpenTargetOrProperty, OpenProjectPath, OpenProjectFileset, OpenProjectSelector,
     OpenDescription

\* A task is opened.
LEMMA OpenTask ==
  ASSUME NEW kind, NEW e, NEW n, OpenStep(kind, e, n), InTarget(ctx)
  PROVE  ChildInv'
<1>1. /\ Tracked(Content) /\ IInv /\ IInv' /\ InDocument /\ InDocument' /\ n = Len(open)
      /\ e \in Elements /\ e \notin DOMAIN doc /\ e # None
      /\ Len(open') = n + 1 /\ open'[n + 1] = e
      /\ \A i \in 1..n : open'[i] = open[i] /\ KindAt(i)' = KindAt(i)
      /\ KindAt(n + 1)' = kind /\ ctx' = StartElement(ctx, e, kind)
  BY OpenStepFacts
<1>2. /\ ctx.state = "TARGET" /\ ctx.stack = <<>> /\ NoTask(ctx)
      /\ n = 2 /\ KindAt(2) = "target" /\ ctx.target = open[2]
  BY <1>1 DEF InTarget
<1>3. kind \in Tasks /\ Owner(e)' = open[2]
  <2>1. n # 0 => /\ kind \in Nests(KindAt(n))
                 /\ KindAt(n) \notin {"inline", "manifest"} => Owner(e)' = open[n]
    BY OpenStepFacts
  <2>2. n # 0 /\ KindAt(n) = "target" /\ Nests("target") = Tasks
    BY <1>2, NestsOf
  <2> QED
    BY <1>2, <2>1, <2>2
<1>4. /\ Proper(ctx) /\ None \notin DOMAIN doc /\ open[2] \in DOMAIN doc
      /\ KindOf(open[2]) = "target"
  BY <1>1, <1>2, StepTypes DEF None, KindAt
<1>5. /\ Len(open') = 3 /\ open'[3] = e /\ open'[2] = open[2] /\ KindAt(2)' = "target"
      /\ KindAt(3)' = kind
  BY <1>1, <1>2
<1>6. /\ Keeps(ctx', ctx, {"task", "filesets", "node_depth", "direct", "nodes", "state", "stack"})
      /\ Stacks(ctx', ctx, "TASK", None)
      /\ ctx'.task = e /\ ctx'.filesets = <<>> /\ ctx'.node_depth = 1
      /\ ctx'.direct = (kind \notin NeedsXmlNode)
      /\ kind \in NeedsXmlNode => ctx'.nodes = <<e>>
  BY <1>1, <1>2, <1>4, TaskEffect
<1>7. /\ ctx'.path_id = None /\ ctx'.fileset_id = None /\ ctx'.selector_id = None
      /\ ctx'.target = ctx.target
      /\ ctx'.fileset = None /\ ~ctx'.in_manifest /\ ctx'.children = ctx.children
  BY <1>2, <1>6 DEF Keeps, Fields, NoTask, NoIds, Ids
<1>8. ctx'.state = "TASK" /\ Len(ctx'.stack) = 1 /\ ctx'.stack[1].state = "TARGET"
  BY <1>2, <1>6 DEF Stacks
<1>9. NoIds(ctx)'
  BY <1>7 DEF NoIds, Ids
<1>10. TaskRead(ctx)'
  BY <1>2, <1>5, <1>6, <1>7, <1>8 DEF TaskRead
<1>11. ASSUME kind \notin NeedsXmlNode PROVE Where(ctx)'
  <2>1. InDirect(ctx)'
    <3>1. 1 = Len(open') - 2 /\ ~(Len(open') > 3)
      BY <1>5
    <3>2. (Len(open) > 3 => KindAt(4) \in {"refpath", "arg", "include", "manifest"})'
      BY <3>1
    <3>3. ctx'.in_manifest = (Len(open') > 3 /\ KindAt(4)' = "manifest")
      <4>1. ctx'.in_manifest \in BOOLEAN
        BY <1>1 DEF IInv, TypeOK, Context
      <4> QED
        BY <1>7, <3>1, <4>1
    <3> QED
      BY <1>6, <1>7, <1>8, <1>9, <1>10, <1>11, <3>1, <3>2, <3>3 DEF InDirect
  <2> QED
    BY <2>1 DEF Where
<1>12. ASSUME kind \in NeedsXmlNode PROVE Where(ctx)'
  <2>1. InXml(ctx)'
    <3>1. 1 = Len(open') - 2 /\ \A i \in 3..Len(open') : i = 3
      BY <1>5
    <3>2. XmlKind(KindAt(3)')
      BY <1>5, <1>12 DEF XmlKind
    <3>3. \A i \in 3..Len(open') : XmlKind(KindAt(i)')
      BY <3>1, <3>2
    <3>4. ctx'.nodes = [i \in 1..Len(open') - 2 |-> open'[i + 2]]
      <4>1. ctx'.nodes = <<e>>
        BY <1>6, <1>12
      <4>2. Len(open') - 2 = 1 /\ \A i \in 1..1 : open'[i + 2] = e
        BY <1>5
      <4>3. <<e>> = [i \in 1..1 |-> open'[i + 2]]
        BY <4>2
      <4> QED
        BY <4>1, <4>2, <4>3
    <3> QED
      BY <1>6, <1>7, <1>8, <1>9, <1>10, <1>12, <3>1, <3>3, <3>4 DEF InXml
  <2> QED
    BY <2>1 DEF Where
<1>13. \A x : x \in Pending' <=> x = e
  BY <1>6, <1>8, PendingThen
<1>14. \A x \in DOMAIN doc : x \notin Pending
  BY <1>2, <1>4, PendingIs DEF NoTask
<1>15. Books'
  <2>1. PICK q : q = Owner(e)'
    OBVIOUS
  <2>2. n # 0 /\ KindOf(q) # "path"
    BY <1>2, <1>3, <1>4, <2>1
  <2> QED
    BY <1>1, <1>7, <1>13, <1>14, <2>1, <2>2, OpenStepBooks
<1> QED
  BY <1>1, <1>11, <1>12, <1>15 DEF ChildInv

\* What may be open in a task that is read directly.
LEMMA DirectFacts ==
  ASSUME Tracked(Content), IInv, InDocument, NEW n, n = Len(open), InDirect(ctx)
  PROVE  /\ KindAt(3) \in Tasks \ NeedsXmlNode /\ KindAt(3) \in Kinds
         /\ KindAt(3) \notin {"inline", "manifest", "description", "path"}
         /\ n \in {3, 4, 5}
         /\ n = 4 => KindAt(4) \in {"refpath", "arg", "include", "manifest"}
         /\ n = 5 => KindAt(4) = "manifest" /\ KindAt(5) = "attribute"
<1>1. /\ n \in Nat /\ n > 2 /\ KindAt(2) = "target" /\ KindAt(3) \notin NeedsXmlNode
      /\ n > 3 => KindAt(4) \in {"refpath", "arg", "include", "manifest"}
  BY StepTypes DEF InDirect, TaskRead
<1>2. \A i \in 2..n : KindAt(i) \in Nests(KindAt(i - 1)) /\ KindAt(i) \in Kinds
  BY OpenKinds
<1>3. KindAt(3) \in Tasks
  <2>1. 3 \in 2..n /\ 3 - 1 = 2
    BY <1>1
  <2>2. KindAt(3) \in Nests(KindAt(2))
    BY <1>2, <2>1
  <2> QED
    BY <1>1, <2>2, NestsOf
<1>4. ASSUME n > 4 PROVE KindAt(4) = "manifest" /\ KindAt(5) = "attribute"
  <2>1. 5 \in 2..n /\ 5 - 1 = 4
    BY <1>1, <1>4
  <2>2. KindAt(5) \in Nests(KindAt(4))
    BY <1>2, <2>1
  <2>3. \A k \in {"refpath", "arg", "include"} : Nests(k) = {}
    BY NestsOf
  <2>4. Nests("manifest") = {"attribute"}
    BY NestsOf
  <2> QED
    BY <1>1, <1>4, <2>2, <2>3, <2>4
<1>5. ~(n > 5)
  <2> SUFFICES ASSUME n > 5 PROVE FALSE
    OBVIOUS
  <2>1. 6 \in 2..n /\ 6 - 1 = 5 /\ n > 4
    BY <1>1
  <2>2. KindAt(6) \in Nests(KindAt(5))
    BY <1>2, <2>1
  <2>3. Nests("attribute") = {}
    BY NestsOf
  <2> QED
    BY <1>4, <2>1, <2>2, <2>3
<1>6. KindAt(3) \in Kinds /\ KindAt(3) \notin {"inline", "manifest", "description", "path"}
  BY <1>3 DEF Tasks, Known
<1>7. n \in {3, 4, 5}
  BY <1>1, <1>5
<1> QED
  BY <1>1, <1>3, <1>4, <1>6, <1>7

LEMMA OpenDirectFacts ==
  ASSUME NEW kind, NEW e, NEW n, OpenStep(kind, e, n), InDirect(ctx)
  PROVE  /\ Proper(ctx) /\ ctx.state = "TASK" /\ ctx.direct /\ Len(ctx.stack) = 1
         /\ ctx.task = open[3] /\ ctx.task \in DOMAIN doc /\ KindOf(ctx.task) # "path"
         /\ ctx.task # None
         /\ ctx.fileset \in {None, ctx.task} /\ ctx.fileset \in Elements \cup {None}
         /\ ctx.in_manifest = (n = 4 /\ kind = "attribute")
         /\ \/ n = 3 /\ kind \in {"refpath", "arg", "include", "manifest", "fileset", "path", "or"}
            \/ n = 4 /\ KindAt(4) = "manifest" /\ kind = "attribute"
         /\ Owner(e)' = ctx.task
         /\ Defines(e)' <=> kind \notin {"manifest", "path"}
         /\ kind \in {"include", "fileset"} => kind \in Content[KindAt(3)]
         /\ \A x \in DOMAIN doc : x \in Pending <=> x = ctx.task
         /\ e # ctx.task
<1>1. /\ Tracked(Content) /\ IInv /\ InDocument /\ n = Len(open) /\ e \notin DOMAIN doc
  BY OpenStepFacts
<1>2. n # 0 => /\ kind \in Content[KindAt(n)] /\ kind \in Nests(KindAt(n))
               /\ KindAt(n) \notin {"inline", "manifest"} => Owner(e)' = open[n]
               /\ KindAt(n) \in {"inline", "manifest"} => Owner(e)' = open[n - 1]
               /\ Defines(e)' <=> /\ kind \notin {"description", "inline", "manifest", "path"}
                                  /\ KindAt(n) # "description"
  BY OpenStepFacts
<1>3. /\ KindAt(3) \in Tasks \ NeedsXmlNode /\ KindAt(3) \in Kinds
      /\ KindAt(3) \notin {"inline", "manifest", "description", "path"}
      /\ n \in {3, 4, 5}
      /\ n = 4 => KindAt(4) \in {"refpath", "arg", "include", "manifest"}
      /\ n = 5 => KindAt(4) = "manifest" /\ KindAt(5) = "attribute"
  BY <1>1, DirectFacts
<1>4. /\ ctx.state = "TASK" /\ ctx.direct /\ Len(ctx.stack) = 1 /\ ctx.task = open[3]
      /\ ctx.fileset \in {None, ctx.task}
      /\ ctx.in_manifest = (n > 3 /\ KindAt(4) = "manifest")
  BY <1>1 DEF InDirect, TaskRead
<1>5. n # 5
  <2>1. Nests("attribute") = {}
    BY NestsOf
  <2>2. n = 5 => KindAt(n) = "attribute"
    BY <1>3
  <2>3. n # 0 => kind \in Nests(KindAt(n))
    BY <1>2
  <2> QED
    BY <2>1, <2>2, <2>3
<1>6. ASSUME n = 4 PROVE KindAt(4) = "manifest" /\ kind = "attribute"
  <2>1. \A k \in {"refpath", "arg", "include"} : Nests(k) = {}
    BY NestsOf
  <2>2. Nests("manifest") = {"attribute"}
    BY NestsOf
  <2>3. kind \in Nests(KindAt(4))
    BY <1>2, <1>6
  <2> QED
    BY <1>3, <1>6, <2>1, <2>2, <2>3
<1>7. ASSUME n = 3
      PROVE  kind \in {"refpath", "arg", "include", "manifest", "fileset", "path", "or"}
  <2>1. kind \in Nests(KindAt(3))
    BY <1>2, <1>7
  <2>2. Nests(KindAt(3)) = {"fileset", "path", "refpath", "arg", "include", "or", "manifest"}
    BY <1>3, NestsOf
  <2> QED
    BY <2>1, <2>2
<1>8. Owner(e)' = ctx.task
  <2>1. n = 3 => Owner(e)' = open[3]
    BY <1>2, <1>3
  <2>2. n = 4 => Owner(e)' = open[4 - 1]
    BY <1>2, <1>6
  <2> QED
    BY <1>3, <1>4, <1>5, <2>1, <2>2
<1>9. Defines(e)' <=> kind \notin {"manifest", "path"}
  <2>1. n = 3 => (Defines(e)' <=> kind \notin {"manifest", "path"})
    BY <1>2, <1>3, <1>7
  <2>2. n = 4 => (Defines(e)' <=> kind \notin {"manifest", "path"})
    BY <1>2, <1>6
  <2> QED
    BY <1>3, <1>5, <2>1, <2>2
<1>10. kind \in {"include", "fileset"} => kind \in Content[KindAt(3)]
  BY <1>2, <1>3, <1>5, <1>6
<1>11. /\ Proper(ctx) /\ ctx.fileset \in Elements \cup {None}
       /\ ctx.task \in DOMAIN doc /\ ctx.task # None
  BY <1>1, <1>3, <1>4, StepTypes
<1>12. KindOf(ctx.task) # "path"
  BY <1>3, <1>4 DEF KindAt
<1>13. \A x \in DOMAIN doc : x \in Pending <=> x = ctx.task
  BY <1>4, PendingIs
<1>14. ctx.in_manifest = (n = 4 /\ kind = "attribute")
  BY <1>3, <1>4, <1>5, <1>6, <1>7
<1> QED
  BY <1>1, <1>3, <1>4, <1>5, <1>6, <1>7, <1>8, <1>9, <1>10, <1>11, <1>12, <1>13, <1>14

LEMMA InManifestTyped == IInv => ctx.in_manifest \in BOOLEAN /\ ctx.direct \in BOOLEAN
  BY DEF IInv, TypeOK, Context

LEMMA InManifestThen == (IInv => ctx.in_manifest \in BOOLEAN /\ ctx.direct \in BOOLEAN)'
  BY InManifestTyped, PTL

\* The task being read stays what it is.
LEMMA TaskReadKept ==
  ASSUME TaskRead(ctx), IInv, NEW n, n = Len(open), Len(open') \in Nat, Len(open') > 2,
         open'[2] = open[2], open'[3] = open[3], KindAt(2)' = KindAt(2), KindAt(3)' = KindAt(3),
         ctx'.stack[1].state = ctx.stack[1].state, ctx'.target = ctx.target,
         ctx'.task = ctx.task, ctx'.direct = ctx.direct,
         "include" \in Content[KindAt(3)] => ctx'.filesets \in {<<>>, <<ctx.task>>}
  PROVE  TaskRead(ctx)'
  BY DEF TaskRead

\* What is read of a task without leaving it.
LEMMA OpenShallow ==
  ASSUME NEW kind, NEW e, NEW n, OpenStep(kind, e, n), InDirect(ctx),
         kind \in {"refpath", "arg", "include", "manifest", "attribute"}
  PROVE  ChildInv'
<1>1. /\ Tracked(Content) /\ IInv /\ InDocument /\ InDocument' /\ n = Len(open)
      /\ e \in Elements /\ e \notin DOMAIN doc
      /\ Len(open') = n + 1 /\ open'[n + 1] = e
      /\ \A i \in 1..n : open'[i] = open[i] /\ KindAt(i)' = KindAt(i)
      /\ KindAt(n + 1)' = kind /\ ctx' = StartElement(ctx, e, kind)
  BY OpenStepFacts
<1>2. /\ Proper(ctx) /\ ctx.state = "TASK" /\ ctx.direct /\ Len(ctx.stack) = 1
      /\ ctx.task = open[3] /\ ctx.task \in DOMAIN doc /\ KindOf(ctx.task) # "path"
      /\ ctx.fileset \in {None, ctx.task} /\ ctx.fileset \in Elements \cup {None}
      /\ ctx.in_manifest = (n = 4 /\ kind = "attribute")
      /\ \/ n = 3 /\ kind \in {"refpath", "arg", "include", "manifest", "fileset", "path", "or"}
         \/ n = 4 /\ KindAt(4) = "manifest" /\ kind = "attribute"
      /\ Owner(e)' = ctx.task
      /\ Defines(e)' <=> kind \notin {"manifest", "path"}
      /\ kind \in {"include", "fileset"} => kind \in Content[KindAt(3)]
      /\ \A x \in DOMAIN doc : x \in Pending <=> x = ctx.task
      /\ e # ctx.task
  BY OpenDirectFacts
<1>3. /\ TaskRead(ctx) /\ NoIds(ctx) /\ ctx.node_depth = n - 2
      /\ "include" \in Content[KindAt(3)] => ctx.filesets \in {<<>>, <<ctx.task>>}
      /\ ctx.in_manifest \in BOOLEAN
  BY <1>1 DEF InDirect, TaskRead
<1> DEFINE F == {"children", "node_depth", "fileset", "filesets", "in_manifest"}
<1> DEFINE Result ==
        /\ Keeps(ctx', ctx, F) /\ ctx'.node_depth = ctx.node_depth + 1
        /\ ctx'.fileset \in {None, ctx.task}
        /\ "include" \in Content[KindAt(3)] => ctx'.filesets \in {<<>>, <<ctx.task>>}
        /\ ctx'.in_manifest = (kind \in {"manifest", "attribute"})
        /\ IF kind = "manifest" THEN ctx'.children = ctx.children ELSE Adds(ctx', ctx, ctx.task, e)
<1>4. ASSUME kind = "manifest" PROVE Result
  <2>1. /\ Keeps(ctx', ctx, {"node_depth", "in_manifest"})
        /\ ctx'.node_depth = ctx.node_depth + 1 /\ ctx'.in_manifest
    BY <1>1, <1>2, <1>4, DirectChildEffects
  <2>2. /\ ctx'.fileset = ctx.fileset /\ ctx'.filesets = ctx.filesets
        /\ ctx'.children = ctx.children /\ Keeps(ctx', ctx, F)
    BY <2>1 DEF Keeps, Fields
  <2>3. ctx'.in_manifest \in BOOLEAN
    BY InManifestThen, OpenStepFacts
  <2> QED
    BY <1>2, <1>3, <1>4, <2>1, <2>2, <2>3
<1>5. ASSUME kind \in {"refpath", "arg", "attribute"} PROVE Result
  <2>0. ctx.in_manifest = (kind = "attribute")
    BY <1>2, <1>5
  <2>1. /\ Keeps(ctx', ctx, {"children", "node_depth"})
        /\ ctx'.node_depth = ctx.node_depth + 1 /\ Adds(ctx', ctx, ctx.task, e)
    <3>1. /\ Proper(ctx) /\ ctx.state = "TASK" /\ ctx.direct /\ e \in Elements
          /\ ctx.fileset \in Elements \cup {None} /\ ctx' = StartElement(ctx, e, kind)
      BY <1>1, <1>2
    <3>2. /\ kind = "attribute" => ctx.in_manifest
          /\ kind \in {"refpath", "arg"} => ~ctx.in_manifest
      BY <2>0
    <3> QED
      BY <1>5, <3>1, <3>2, DirectChildEffects
  <2>2. /\ ctx'.fileset = ctx.fileset /\ ctx'.filesets = ctx.filesets
        /\ ctx'.in_manifest = ctx.in_manifest /\ Keeps(ctx', ctx, F)
    BY <2>1 DEF Keeps, Fields
  <2>3. ctx'.in_manifest = (kind \in {"manifest", "attribute"})
    BY <1>5, <2>0, <2>2
  <2> QED
    BY <1>2, <1>3, <1>5, <2>1, <2>2, <2>3
<1>6. ASSUME kind = "include" PROVE Result
  <2>0. ~ctx.in_manifest /\ ctx.filesets \in {<<>>, <<ctx.task>>}
    BY <1>2, <1>3, <1>6
  <2>1. /\ Keeps(ctx', ctx, {"children", "node_depth", "fileset", "filesets"})
        /\ ctx'.node_depth = ctx.node_depth + 1 /\ Adds(ctx', ctx, ctx.task, e)
        /\ ctx'.fileset \in {None, ctx.task} /\ ctx'.filesets \in {<<>>, <<ctx.task>>}
    BY <1>1, <1>2, <1>6, <2>0, IncludeEffect
  <2>2. ctx'.in_manifest = ctx.in_manifest /\ Keeps(ctx', ctx, F)
    BY <2>1 DEF Keeps, Fields
  <2> QED
    BY <1>2, <1>3, <1>6, <2>1, <2>2
<1>7. Result
  BY <1>4, <1>5, <1>6
<1>8. /\ ctx'.state = "TASK" /\ ctx'.stack = ctx.stack /\ ctx'.task = ctx.task
      /\ ctx'.target = ctx.target /\ ctx'.direct = ctx.direct
      /\ ctx'.path_id = ctx.path_id /\ ctx'.fileset_id = ctx.fileset_id
      /\ ctx'.selector_id = ctx.selector_id
  BY <1>2, <1>7 DEF Keeps, Fields
<1>9. NoIds(ctx)'
  BY <1>3, <1>8 DEF NoIds, Ids
<1>10. /\ Len(open') \in {4, 5} /\ open'[2] = open[2] /\ open'[3] = open[3]
       /\ KindAt(2)' = KindAt(2) /\ KindAt(3)' = KindAt(3)
       /\ KindAt(4)' = IF n = 3 THEN kind ELSE "manifest"
  BY <1>1, <1>2
<1>11. TaskRead(ctx)'
  BY <1>1, <1>3, <1>7, <1>8, <1>10, TaskReadKept
<1>12. InDirect(ctx)'
  <2>1. ctx'.in_manifest = (Len(open') > 3 /\ KindAt(4)' = "manifest")
    <3>0. ctx'.in_manifest = (kind \in {"manifest", "attribute"})
      BY <1>7, Zenon
    <3>1. Len(open') > 3
      <4>1. Len(open') \in {4, 5}
        BY <1>10, Zenon
      <4>2. ASSUME NEW m \in {4, 5} PROVE m > 3
        OBVIOUS
      <4> QED
        BY <4>1, <4>2
    <3>2. (kind \in {"manifest", "attribute"}) = (KindAt(4)' = "manifest")
      <4>1. /\ n = 3 => KindAt(4)' = kind /\ kind # "attribute"
            /\ n # 3 => KindAt(4)' = "manifest" /\ kind = "attribute"
        BY <1>2, <1>10
      <4> QED
        BY <4>1
    <3> QED
      BY <3>0, <3>1, <3>2, Zenon
  <2>2. KindAt(4)' \in {"refpath", "arg", "include", "manifest"}
    BY <1>2, <1>10
  <2>3. ctx'.node_depth = Len(open') - 2
    BY <1>1, <1>2, <1>3, <1>7
  <2> QED
    BY <1>2, <1>7, <1>8, <1>9, <1>11, <2>1, <2>2, <2>3 DEF InDirect
<1>13. Where(ctx)'
  BY <1>12 DEF Where
<1>14. \A x : x \in Pending' <=> x = ctx.task
  BY <1>8, PendingThen
<1>15. Books'
  <2>1. n # 0
    BY <1>2
  <2> QED
    BY <1>2, <1>7, <1>14, <2>1, OpenStepBooks
<1> QED
  BY <1>1, <1>13, <1>15 DEF ChildInv

\* An object is opened in a task.
LEMMA OpenDirectObject ==
  ASSUME NEW kind, NEW e, NEW n, OpenStep(kind, e, n), InDirect(ctx),
         kind \in {"fileset", "path", "or"}, NEW s, NEW d, NEW F,
         Keeps(ctx', ctx, F), Stacks(ctx', ctx, s, d),
         F \subseteq {"children", "filesets", "fileset", "fileset_depth", "list", "lists",
                      "path_depth", "selector", "selectors", "state", "stack"},
         kind # "fileset" => "filesets" \notin F
  PROVE  /\ ObjectAt(ctx, 4)' /\ NoIds(ctx)' /\ n = 3
         /\ Len(open') = 4 /\ open'[4] = e /\ KindAt(4)' = kind
         /\ ctx'.stack[2].data = d /\ ctx'.task = ctx.task /\ ctx'.state = s
<1>1. /\ Tracked(Content) /\ IInv /\ InDocument /\ n = Len(open)
      /\ Len(open') = n + 1 /\ open'[n + 1] = e
      /\ \A i \in 1..n : open'[i] = open[i] /\ KindAt(i)' = KindAt(i)
      /\ KindAt(n + 1)' = kind
  BY OpenStepFacts
<1>2. /\ Len(ctx.stack) = 1 /\ n = 3 /\ ctx.state = "TASK" /\ ctx.in_manifest = FALSE
      /\ kind = "fileset" => kind \in Content[KindAt(3)]
  <2>1. /\ Len(ctx.stack) = 1 /\ ctx.state = "TASK"
        /\ ctx.in_manifest = (n = 4 /\ kind = "attribute")
        /\ kind = "fileset" => kind \in Content[KindAt(3)]
        /\ n = 3 \/ kind = "attribute"
    BY OpenDirectFacts
  <2> QED
    BY <2>1
<1>3. /\ TaskRead(ctx) /\ NoIds(ctx) /\ ctx.node_depth = 1 /\ ctx.direct
      /\ ctx.stack[1].state = "TARGET"
      /\ "include" \in Content[KindAt(3)] => ctx.filesets \in {<<>>, <<ctx.task>>}
  <2>1. TaskRead(ctx) /\ NoIds(ctx) /\ ctx.node_depth = Len(open) - 2 /\ ctx.direct
    BY DEF InDirect
  <2>2. Len(open) = 3
    BY <1>1, <1>2
  <2>3. ctx.node_depth = 1
    BY <2>1, <2>2
  <2>4. /\ ctx.stack[1].state = "TARGET"
        /\ "include" \in Content[KindAt(3)] => ctx.filesets \in {<<>>, <<ctx.task>>}
    BY <2>1 DEF TaskRead
  <2> QED
    BY <2>1, <2>3, <2>4
<1>4. /\ ctx'.task = ctx.task /\ ctx'.target = ctx.target /\ ctx'.direct = ctx.direct
      /\ ctx'.path_id = ctx.path_id /\ ctx'.fileset_id = ctx.fileset_id
      /\ ctx'.selector_id = ctx.selector_id /\ ctx'.in_manifest = ctx.in_manifest
      /\ ctx'.node_depth = ctx.node_depth
      /\ kind # "fileset" => ctx'.filesets = ctx.filesets
  BY DEF Keeps, Fields
<1>5. /\ ctx'.state = s /\ Len(ctx'.stack) = 2 /\ ctx'.stack[1] = ctx.stack[1]
      /\ ctx'.stack[2].state = "TASK" /\ ctx'.stack[2].data = d
  BY <1>2 DEF Stacks
<1>6. NoIds(ctx)'
  BY <1>3, <1>4 DEF NoIds, Ids
<1>7. /\ Len(open') = 4 /\ open'[2] = open[2] /\ open'[3] = open[3] /\ open'[4] = e
      /\ KindAt(2)' = KindAt(2) /\ KindAt(3)' = KindAt(3) /\ KindAt(4)' = kind
  BY <1>1, <1>2
<1>8. "include" \in Content[KindAt(3)] => ctx'.filesets \in {<<>>, <<ctx.task>>}
  <2>1. kind = "fileset" => "include" \notin Content[KindAt(3)]
    <3>1. KindAt(3) \in Tasks
      BY <1>1, DirectFacts
    <3> QED
      BY <1>1, <1>2, <3>1 DEF Tracked
  <2> QED
    BY <1>3, <1>4, <2>1
<1>9. TaskRead(ctx)'
  <2>1. Len(open') \in Nat /\ Len(open') > 2 /\ ctx'.stack[1].state = ctx.stack[1].state
    BY <1>5, <1>7
  <2>2. IInv /\ n = Len(open) /\ TaskRead(ctx)
    BY <1>1, <1>3
  <2> QED
    BY <1>4, <1>7, <1>8, <2>1, <2>2, TaskReadKept
<1>10. ObjectAt(ctx, 4)'
  BY <1>2, <1>3, <1>4, <1>5, <1>7, <1>9 DEF ObjectAt
<1> QED
  BY <1>2, <1>4, <1>5, <1>6, <1>7, <1>10

LEMMA OpenDirectPath ==
  ASSUME NEW kind, NEW e, NEW n, OpenStep(kind, e, n), InDirect(ctx), kind = "path"
  PROVE  ChildInv'
<1>1. /\ Tracked(Content) /\ IInv /\ IInv' /\ InDocument /\ InDocument' /\ n = Len(open)
      /\ kind \in Kinds /\ Open(kind) /\ e = Len(doc) + 1
      /\ e \in Elements /\ e \notin DOMAIN doc /\ ctx' = StartElement(ctx, e, kind)
  BY OpenStepFacts
<1>2. /\ Proper(ctx) /\ ctx.state = "TASK" /\ ctx.direct
      /\ ctx.task \in DOMAIN doc /\ KindOf(ctx.task) # "path" /\ ctx.task # None
      /\ ctx.fileset \in Elements \cup {None}
      /\ ctx.in_manifest = (n = 4 /\ kind = "attribute")
      /\ Owner(e)' = ctx.task
      /\ Defines(e)' <=> kind \notin {"manifest", "path"}
      /\ \A x \in DOMAIN doc : x \in Pending <=> x = ctx.task
  BY OpenDirectFacts
<1>3. ~ctx.in_manifest
  BY <1>2
<1>4. /\ Keeps(ctx', ctx, {"list", "lists", "path_depth", "state", "stack"})
      /\ Stacks(ctx', ctx, "PATH", e)
      /\ ctx'.list = <<>> /\ ctx'.lists = <<>> /\ ctx'.path_depth = 1
  BY <1>1, <1>2, <1>3, DirectChildEffects
<1>5. ctx'.children = ctx.children
  BY <1>4 DEF Keeps, Fields
<1>6. /\ ObjectAt(ctx, 4)' /\ NoIds(ctx)' /\ n = 3
      /\ Len(open') = 4 /\ open'[4] = e /\ KindAt(4)' = kind
      /\ ctx'.stack[2].data = e /\ ctx'.task = ctx.task /\ ctx'.state = "PATH"
  BY <1>4, OpenDirectObject
<1>7. Members(e)' = {}
  BY <1>1, OpenNoMembers
<1>8. InPath(ctx, 4)'
  <2>1. Flat(ctx)' = <<>>
    BY <1>4 DEF Flat
  <2>2. Ascending(Flat(ctx)') /\ ToSet(Flat(ctx)') = Members(e)'
    BY <1>7, <2>1 DEF Ascending, ToSet
  <2> QED
    BY <1>4, <1>6, <2>2 DEF InPath, NoIds, Ids, IdAt
<1>9. Where(ctx)'
  BY <1>8 DEF Where
<1>10. \A x : x \in Pending' <=> x = ctx.task \/ x = e
  BY <1>2, <1>6, <1>7, PendingThen
<1>11. Books'
  <2>1. n # 0 /\ ~Defines(e)'
    BY <1>2, <1>6
  <2> QED
    BY <1>1, <1>2, <1>5, <1>10, <2>1, OpenStepBooks
<1> QED
  BY <1>1, <1>9, <1>11 DEF ChildInv

LEMMA OpenDirectFileset ==
  ASSUME NEW kind, NEW e, NEW n, OpenStep(kind, e, n), InDirect(ctx), kind = "fileset"
  PROVE  ChildInv'
<1>1. /\ Tracked(Content) /\ IInv /\ IInv' /\ InDocument /\ InDocument' /\ n = Len(open)
      /\ kind \in Kinds /\ Open(kind) /\ e = Len(doc) + 1
      /\ e \in Elements /\ e # None /\ e \notin DOMAIN doc /\ ctx' = StartElement(ctx, e, kind)
  BY OpenStepFacts
<1>2. /\ Proper(ctx) /\ ctx.state = "TASK" /\ ctx.direct
      /\ ctx.task \in DOMAIN doc /\ KindOf(ctx.task) # "path" /\ ctx.task # None
      /\ ctx.fileset \in Elements \cup {None}
      /\ ctx.in_manifest = (n = 4 /\ kind = "attribute")
      /\ Owner(e)' = ctx.task
      /\ Defines(e)' <=> kind \notin {"manifest", "path"}
      /\ \A x \in DOMAIN doc : x \in Pending <=> x = ctx.task
  BY OpenDirectFacts
<1>3. ~ctx.in_manifest
  BY <1>2
<1>4. /\ Keeps(ctx', ctx, {"children", "filesets", "fileset", "fileset_depth", "state", "stack"})
      /\ Stacks(ctx', ctx, "FILESET", e) /\ Adds(ctx', ctx, ctx.task, e)
      /\ ctx'.fileset = e /\ ctx'.fileset_depth = 1
  BY <1>1, <1>2, <1>3, DirectChildEffects
<1>6. /\ ObjectAt(ctx, 4)' /\ NoIds(ctx)' /\ n = 3
      /\ Len(open') = 4 /\ open'[4] = e /\ KindAt(4)' = kind
      /\ ctx'.task = ctx.task /\ ctx'.state = "FILESET"
  BY <1>4, OpenDirectObject
<1>8. InFileset(ctx, 4)'
  BY <1>4, <1>6 DEF InFileset, NoIds, Ids, IdAt
<1>9. Where(ctx)'
  BY <1>8 DEF Where
<1>10. \A x : x \in Pending' <=> x = ctx.task \/ x = None
  <2>1. ctx'.fileset_id = None
    BY <1>6 DEF NoIds, Ids
  <2> QED
    BY <1>2, <1>6, <2>1, PendingThen
<1>11. Books'
  <2>1. n # 0 /\ Defines(e)' /\ e \notin Pending'
    BY <1>1, <1>2, <1>6, <1>10
  <2>2. None \notin DOMAIN doc
    BY <1>1, StepTypes DEF None
  <2> QED
    BY <1>1, <1>2, <1>4, <1>10, <2>1, <2>2, OpenStepBooks
<1> QED
  BY <1>1, <1>9, <1>11 DEF ChildInv

LEMMA OpenDirectOr ==
  ASSUME NEW kind, NEW e, NEW n, OpenStep(kind, e, n), InDirect(ctx), kind = "or"
  PROVE  ChildInv'
<1>1. /\ Tracked(Content) /\ IInv /\ IInv' /\ InDocument /\ InDocument' /\ n = Len(open)
      /\ kind \in Kinds /\ Open(kind) /\ e = Len(doc) + 1
      /\ e \in Elements /\ e \notin DOMAIN doc /\ ctx' = StartElement(ctx, e, kind)
  BY OpenStepFacts
<1>2. /\ Proper(ctx) /\ ctx.state = "TASK" /\ ctx.direct
      /\ ctx.task \in DOMAIN doc /\ KindOf(ctx.task) # "path" /\ ctx.task # None
      /\ ctx.fileset \in Elements \cup {None} /\ ctx.fileset \in {None, ctx.task}
      /\ ctx.in_manifest = (n = 4 /\ kind = "attribute")
      /\ Owner(e)' = ctx.task
      /\ Defines(e)' <=> kind \notin {"manifest", "path"}
      /\ \A x \in DOMAIN doc : x \in Pending <=> x = ctx.task
  BY OpenDirectFacts
<1>3. ~ctx.in_manifest
  BY <1>2
<1>4. /\ Keeps(ctx', ctx, {"selector", "selectors", "state", "stack"})
      /\ Stacks(ctx', ctx, "SELECTOR", ctx.fileset)
      /\ ctx'.selector = e /\ ctx'.selectors = <<>>
  BY <1>1, <1>2, <1>3, DirectChildEffects
<1>5. ctx'.children = ctx.children /\ ctx'.fileset = ctx.fileset
  BY <1>4 DEF Keeps, Fields
<1>6. /\ ObjectAt(ctx, 4)' /\ NoIds(ctx)' /\ n = 3
      /\ Len(open') = 4 /\ open'[4] = e /\ KindAt(4)' = kind
      /\ ctx'.stack[2].data = ctx.fileset /\ ctx'.task = ctx.task /\ ctx'.state = "SELECTOR"
  BY <1>4, OpenDirectObject
<1>7. \A i \in 4..Len(open') : i = 4
  BY <1>6
<1>8. InSelector(ctx, 4)'
  <2>1. (\A i \in 4..Len(open) : KindAt(i) \in {"selector", "or", "include"})'
    BY <1>6, <1>7
  <2>2. /\ ctx'.fileset \in {None, ctx'.task} /\ ctx'.stack[2].data \in {None, ctx'.task}
        /\ Len(ctx'.selectors) = Len(open') - 4
        /\ \A i \in DOMAIN ctx'.selectors : ctx'.selectors[i] = open'[4 + i - 1]
        /\ ctx'.selector = open'[Len(open')]
    BY <1>2, <1>4, <1>5, <1>6
  <2> QED
    BY <1>6, <2>1, <2>2 DEF InSelector, NoIds, Ids, IdAt
<1>9. Where(ctx)'
  BY <1>8 DEF Where
<1>10. \A x : x \in Pending' <=> x = ctx.task \/ x = e
  BY <1>2, <1>6, <1>7, PendingThen
<1>11. Books'
  <2>1. n # 0
    BY <1>6
  <2> QED
    BY <1>1, <1>2, <1>5, <1>10, <2>1, OpenStepBooks
<1> QED
  BY <1>1, <1>9, <1>11 DEF ChildInv

LEMMA OpenInDirect ==
  ASSUME NEW kind, NEW e, NEW n, OpenStep(kind, e, n), InDirect(ctx)
  PROVE  ChildInv'
<1>1. kind \in {"refpath", "arg", "include", "manifest", "attribute", "fileset", "path", "or"}
  <2>1. \/ n = 3 /\ kind \in {"refpath", "arg", "include", "manifest", "fileset", "path", "or"}
        \/ n = 4 /\ KindAt(4) = "manifest" /\ kind = "attribute"
    BY OpenDirectFacts
  <2> QED
    BY <2>1
<1> QED
  BY <1>1, OpenShallow, OpenDirectPath, OpenDirectFileset, OpenDirectOr

\* Which of the open elements is the object being read, by the task.
LEMMA ObjectTask ==
  ASSUME IInv, InDocument, NEW n, n = Len(open), NEW b, ObjectAt(ctx, b)
  PROVE  /\ b = (IF ctx.task = None THEN 2 ELSE 4) /\ b \in {2, 4} /\ n >= b
         /\ ~ctx.in_manifest
         /\ b \in 1..n /\ b - 1 \in 1..n
         /\ b = 2 => /\ ctx.stack # <<>> /\ Len(ctx.stack) = 1 /\ ctx.task = None
                     /\ ctx.stack[1].state = "PROJECT" /\ ctx.stack[1].data = None
                     /\ open[b - 1] = Project /\ IdAt(b) = open[b]
         /\ b = 4 => /\ ctx.stack # <<>> /\ Len(ctx.stack) = 2 /\ ctx.task = open[3]
                     /\ ctx.task # None
                     /\ ctx.stack[2].state = "TASK" /\ ctx.stack[1].state = "TARGET"
                     /\ TaskRead(ctx) /\ ctx.direct /\ ctx.node_depth = 1
                     /\ open[b - 1] = ctx.task /\ IdAt(b) = None
<1>1. /\ n \in Nat /\ \A i \in 1..n : open[i] # None
      /\ n # 0 => open[1] = Project
      /\ Len(ctx.stack) = 0 <=> ctx.stack = <<>>
  BY StepTypes
<1>2. /\ n >= b /\ ~ctx.in_manifest
      /\ \/ b = 2 /\ Len(ctx.stack) = 1 /\ ctx.task = None
            /\ ctx.stack[1].state = "PROJECT" /\ ctx.stack[1].data = None
         \/ b = 4 /\ Len(ctx.stack) = 2 /\ ctx.stack[2].state = "TASK"
            /\ TaskRead(ctx) /\ ctx.direct /\ ctx.node_depth = 1
  BY DEF ObjectAt
<1>3. CASE b = 2
  BY <1>1, <1>2, <1>3 DEF IdAt
<1>4. CASE b = 4
  <2>1. ctx.task = open[3] /\ ctx.stack[1].state = "TARGET"
    BY <1>2, <1>4 DEF TaskRead
  <2>2. 3 \in 1..n /\ 4 \in 1..n
    BY <1>1, <1>2, <1>4
  <2>3. ctx.task # None
    BY <1>1, <2>1, <2>2
  <2> QED
    BY <1>1, <1>2, <1>4, <2>1, <2>2, <2>3 DEF IdAt
<1> QED
  BY <1>2, <1>3, <1>4

\* The object being read stays what it is.
LEMMA ObjectKept ==
  ASSUME IInv, InDocument, NEW n, n = Len(open), NEW b, ObjectAt(ctx, b),
         Len(open') \in Nat, Len(open') >= b,
         \A i \in 1..b : open'[i] = open[i] /\ KindAt(i)' = KindAt(i),
         NEW F, Keeps(ctx', ctx, F),
         F \cap {"stack", "task", "target", "direct", "filesets", "node_depth", "in_manifest",
                 "path_id", "fileset_id", "selector_id"} = {}
  PROVE  /\ ObjectAt(ctx, b)' /\ IdAt(b)' = IdAt(b) /\ ctx'.task = ctx.task
         /\ ctx'.stack = ctx.stack /\ ctx'.path_id = ctx.path_id
         /\ ctx'.fileset_id = ctx.fileset_id /\ ctx'.selector_id = ctx.selector_id
<1>1. /\ ctx'.stack = ctx.stack /\ ctx'.task = ctx.task /\ ctx'.target = ctx.target
      /\ ctx'.direct = ctx.direct /\ ctx'.filesets = ctx.filesets
      /\ ctx'.node_depth = ctx.node_depth /\ ctx'.in_manifest = ctx.in_manifest
      /\ ctx'.path_id = ctx.path_id /\ ctx'.fileset_id = ctx.fileset_id
      /\ ctx'.selector_id = ctx.selector_id
  BY DEF Keeps, Fields
<1>2. /\ b \in {2, 4} /\ ~ctx.in_manifest /\ b \in 1..n
      /\ b = 2 => /\ Len(ctx.stack) = 1 /\ ctx.task = None
                  /\ ctx.stack[1].state = "PROJECT" /\ ctx.stack[1].data = None
      /\ b = 4 => /\ Len(ctx.stack) = 2 /\ ctx.stack[2].state = "TASK"
                  /\ TaskRead(ctx) /\ ctx.direct /\ ctx.node_depth = 1
  BY ObjectTask
<1>3. b \in 1..b /\ open'[b] = open[b]
  BY <1>2
<1>4. IdAt(b)' = IdAt(b)
  BY <1>3 DEF IdAt
<1>5. ASSUME b = 4 PROVE TaskRead(ctx)'
  <2>1. 2 \in 1..b /\ 3 \in 1..b
    BY <1>5
  <2>2. /\ open'[2] = open[2] /\ open'[3] = open[3] /\ KindAt(2)' = KindAt(2)
        /\ KindAt(3)' = KindAt(3)
    BY <2>1
  <2>3. Len(open') > 2
    BY <1>5
  <2>4. TaskRead(ctx)
    BY <1>2, <1>5
  <2>5. "include" \in Content[KindAt(3)] => ctx'.filesets \in {<<>>, <<ctx.task>>}
    BY <1>1, <2>4 DEF TaskRead
  <2> QED
    BY <1>1, <2>2, <2>3, <2>4, <2>5, TaskReadKept
<1>6. ObjectAt(ctx, b)'
  <2>1. CASE b = 2
    BY <1>1, <1>2, <2>1 DEF ObjectAt
  <2>2. CASE b = 4
    BY <1>1, <1>2, <1>5, <2>2 DEF ObjectAt
  <2> QED
    BY <1>2, <2>1, <2>2
<1> QED
  BY <1>1, <1>4, <1>6

\* What a description holds is skipped.
LEMMA OpenInSkipped ==
  ASSUME NEW kind, NEW e, NEW n, OpenStep(kind, e, n), InSkipped(ctx)
  PROVE  ChildInv'
<1>1. /\ Tracked(Content) /\ IInv /\ IInv' /\ InDocument /\ InDocument' /\ n = Len(open)
      /\ e \notin DOMAIN doc /\ ctx' = StartElement(ctx, e, kind)
      /\ Len(open') = n + 1
      /\ \A i \in 1..n : open'[i] = open[i] /\ KindAt(i)' = KindAt(i)
  BY OpenStepFacts
<1>2. n # 0 => /\ kind \in Nests(KindAt(n))
               /\ KindAt(n) \notin {"inline", "manifest"} => Owner(e)' = open[n]
               /\ Defines(e)' <=> /\ kind \notin {"description", "inline", "manifest", "path"}
                                  /\ KindAt(n) # "description"
  BY OpenStepFacts
<1>3. /\ ctx.state = "SKIP" /\ NoTask(ctx) /\ ObjectAt(ctx, 2)
      /\ KindAt(2) = "description" /\ ctx.skip_depth = n - 1
  BY <1>1 DEF InSkipped
<1>4. /\ n \in Nat /\ n >= 2 /\ ctx.task = None
  BY <1>1, <1>3, StepTypes, ObjectTask
<1>5. n = 2
  <2>1. ASSUME n > 2 PROVE FALSE
    <3>1. 3 \in 2..n /\ 3 - 1 = 2
      BY <1>4, <2>1
    <3>2. KindAt(3) \in Nests(KindAt(2))
      BY <1>1, <3>1, OpenKinds
    <3>3. Nests("description") = {"include"} /\ Nests("include") = {}
      BY NestsOf
    <3>4. KindAt(3) = "include"
      BY <1>3, <3>2, <3>3
    <3>5. n # 3
      <4>1. n = 3 => kind \in Nests(KindAt(3))
        BY <1>2
      <4> QED
        BY <3>3, <3>4, <4>1
    <3>6. 4 \in 2..n /\ 4 - 1 = 3
      BY <1>4, <2>1, <3>5
    <3>7. KindAt(4) \in Nests(KindAt(3))
      BY <1>1, <3>6, OpenKinds
    <3> QED
      BY <3>3, <3>4, <3>7
  <2> QED
    BY <1>4, <2>1
<1>6. Proper(ctx)
  BY <1>1, StepTypes
<1>7. Keeps(ctx', ctx, {"skip_depth"}) /\ ctx'.skip_depth = ctx.skip_depth + 1
  BY <1>1, <1>3, <1>6, RootEffects
<1>8. /\ ctx'.state = "SKIP" /\ ctx'.task = None /\ ctx'.children = ctx.children
      /\ ctx'.fileset = None /\ ctx'.in_manifest = ctx.in_manifest
      /\ ctx'.path_id = None /\ ctx'.fileset_id = None /\ ctx'.selector_id = None
  BY <1>3, <1>7 DEF Keeps, Fields, NoTask, NoIds, Ids
<1>9. /\ Len(open') = 3 /\ KindAt(2)' = "description"
      /\ Len(open') \in Nat /\ Len(open') >= 2
      /\ \A i \in 1..2 : open'[i] = open[i] /\ KindAt(i)' = KindAt(i)
  BY <1>1, <1>3, <1>5
<1>10. ObjectAt(ctx, 2)'
  BY <1>1, <1>3, <1>7, <1>9, ObjectKept
<1>11. NoTask(ctx)'
  BY <1>3, <1>8 DEF NoTask, NoIds, Ids
<1>12. InSkipped(ctx)'
  BY <1>3, <1>5, <1>7, <1>8, <1>9, <1>10, <1>11 DEF InSkipped
<1>13. Where(ctx)'
  BY <1>12 DEF Where
<1>14. \A x : (x \in Pending' <=> x = None) /\ (x \in Pending <=> x = None)
  BY <1>3, <1>4, <1>8, PendingIs, PendingThen
<1>15. Books'
  <2>1. PICK q : q = Owner(e)'
    OBVIOUS
  <2>2. q = open[2] /\ KindOf(q) = "description" /\ n # 0 /\ ~Defines(e)'
    BY <1>2, <1>3, <1>5, <2>1 DEF KindAt
  <2> QED
    BY <1>8, <1>14, <2>1, <2>2, OpenStepBooks
<1> QED
  BY <1>1, <1>13, <1>15 DEF ChildInv

\* An include in a fileset.
LEMMA OpenInFileset ==
  ASSUME NEW kind, NEW e, NEW n, OpenStep(kind, e, n), NEW b, InFileset(ctx, b)
  PROVE  ChildInv'
<1>1. /\ Tracked(Content) /\ IInv /\ IInv' /\ InDocument /\ InDocument' /\ n = Len(open)
      /\ e \notin DOMAIN doc /\ e # None /\ ctx' = StartElement(ctx, e, kind)
      /\ Len(open') = n + 1
      /\ \A i \in 1..n : open'[i] = open[i] /\ KindAt(i)' = KindAt(i)
  BY OpenStepFacts
<1>2. n # 0 => /\ kind \in Nests(KindAt(n))
               /\ KindAt(n) \notin {"inline", "manifest"} => Owner(e)' = open[n]
               /\ Defines(e)' <=> /\ kind \notin {"description", "inline", "manifest", "path"}
                                  /\ KindAt(n) # "description"
  BY OpenStepFacts
<1>3. /\ ctx.state = "FILESET" /\ ObjectAt(ctx, b) /\ Ids(ctx, None, IdAt(b), None)
      /\ KindAt(b) = "fileset" /\ ctx.fileset_depth = n - b + 1 /\ ctx.fileset = open[b]
  BY <1>1 DEF InFileset
<1>4. /\ b \in {2, 4} /\ n >= b /\ b \in 1..n
      /\ b = 2 => ctx.task = None /\ IdAt(b) = open[b]
      /\ b = 4 => ctx.task = open[3] /\ IdAt(b) = None /\ ctx.task # None
      /\ b = (IF ctx.task = None THEN 2 ELSE 4)
  BY <1>1, <1>3, ObjectTask
<1>5. /\ n \in Nat /\ Proper(ctx) /\ \A i \in 1..n : open[i] \in DOMAIN doc /\ open[i] # None
  BY <1>1, StepTypes
<1>6. Nests("fileset") = {"include"} /\ Nests("include") = {}
  BY NestsOf
<1>7. n = b
  <2>1. ASSUME n > b PROVE FALSE
    <3>1. PICK j, k : j = b + 1 /\ k = b + 2
      OBVIOUS
    <3>2. j \in 2..n /\ j - 1 = b
      BY <1>4, <1>5, <2>1, <3>1
    <3>3. KindAt(j) \in Nests(KindAt(j - 1))
      BY <1>1, <3>2, OpenKinds
    <3>4. KindAt(j) = "include"
      BY <1>3, <1>6, <3>2, <3>3
    <3>5. n # j
      <4>1. n = j => n # 0 /\ kind \in Nests(KindAt(j))
        BY <1>2, <1>4, <1>5, <2>1
      <4> QED
        BY <1>6, <3>4, <4>1
    <3>6. k \in 2..n /\ k - 1 = j
      BY <1>4, <1>5, <2>1, <3>1, <3>5
    <3>7. KindAt(k) \in Nests(KindAt(k - 1))
      BY <1>1, <3>6, OpenKinds
    <3> QED
      BY <1>6, <3>4, <3>6, <3>7
  <2> QED
    BY <1>4, <1>5, <2>1
<1>8. n # 0 /\ KindAt(n) = "fileset" /\ kind = "include" /\ Owner(e)' = open[b] /\ Defines(e)'
  <2>1. n # 0 /\ KindAt(n) = "fileset"
    BY <1>3, <1>4, <1>7
  <2>2. kind = "include"
    BY <1>2, <1>6, <2>1
  <2> QED
    BY <1>2, <1>7, <2>1, <2>2
<1>9. open[b] \in DOMAIN doc /\ open[b] # None /\ KindOf(open[b]) = "fileset"
  BY <1>3, <1>4, <1>5 DEF KindAt
<1>10. /\ Keeps(ctx', ctx, {"fileset_depth", "children"})
       /\ ctx'.fileset_depth = ctx.fileset_depth + 1 /\ Adds(ctx', ctx, open[b], e)
  <2>1. ctx.state = "FILESET" /\ ctx.fileset # None /\ ctx' = StartElement(ctx, e, "include")
    BY <1>1, <1>3, <1>8, <1>9
  <2>2. /\ Keeps(ctx', ctx, {"fileset_depth", "children"})
        /\ ctx'.fileset_depth = ctx.fileset_depth + 1 /\ Adds(ctx', ctx, ctx.fileset, e)
    BY <1>5, <2>1, FilesetChildEffect
  <2> QED
    BY <1>3, <2>2
<1>11. /\ Len(open') = b + 1 /\ Len(open') \in Nat /\ Len(open') >= b
       /\ \A i \in 1..b : open'[i] = open[i] /\ KindAt(i)' = KindAt(i)
  BY <1>1, <1>4, <1>7
<1>12. /\ ObjectAt(ctx, b)' /\ IdAt(b)' = IdAt(b) /\ ctx'.task = ctx.task
       /\ ctx'.path_id = ctx.path_id
       /\ ctx'.fileset_id = ctx.fileset_id /\ ctx'.selector_id = ctx.selector_id
  BY <1>1, <1>3, <1>10, <1>11, ObjectKept
<1>13. ctx'.state = ctx.state /\ ctx'.fileset = ctx.fileset
  BY <1>10 DEF Keeps, Fields
<1>14. InFileset(ctx, b)'
  <2>1. Ids(ctx, None, IdAt(b), None)'
    BY <1>3, <1>12 DEF Ids
  <2>2. KindAt(b)' = "fileset" /\ open'[b] = open[b]
    BY <1>3, <1>4, <1>11
  <2>3. ctx'.fileset_depth = Len(open') - b + 1
    BY <1>3, <1>4, <1>7, <1>10, <1>11
  <2> QED
    BY <1>3, <1>12, <1>13, <2>1, <2>2, <2>3 DEF InFileset
<1>15. Where(ctx)'
  BY <1>4, <1>14 DEF Where
<1>16. /\ \A x : x \in Pending' <=> x = ctx.task \/ x = ctx.fileset_id
       /\ \A x : x \in Pending <=> x = ctx.task \/ x = ctx.fileset_id
  BY <1>3, <1>12, <1>13, PendingIs, PendingThen
<1>17. Books'
  <2>1. e \notin Pending'
    <3>1. ctx.fileset_id \in {None, open[b]} /\ ctx.task \in {None, open[3]}
      BY <1>3, <1>4 DEF Ids
    <3>2. e # open[b] /\ (ctx.task # None => e # open[3])
      BY <1>1, <1>4, <1>5, <1>9
    <3> QED
      BY <1>1, <1>16, <3>1, <3>2
  <2>2. PICK q : q = open[b]
    OBVIOUS
  <2>3. q = Owner(e)' /\ KindOf(q) # "path"
    BY <1>8, <1>9, <2>2
  <2>4. \A x \in DOMAIN doc : x \in Pending' <=> x \in Pending
    BY <1>16
  <2>5. Adds(ctx', ctx, q, e)
    BY <1>10, <2>2
  <2> QED
    BY <1>8, <2>1, <2>3, <2>4, <2>5, OpenStepBooks
<1> QED
  BY <1>1, <1>15, <1>17 DEF ChildInv

\* A selector in a selector.
LEMMA OpenInSelector ==
  ASSUME NEW kind, NEW e, NEW n, OpenStep(kind, e, n), NEW b, InSelector(ctx, b)
  PROVE  ChildInv'
<1>1. /\ Tracked(Content) /\ IInv /\ IInv' /\ InDocument /\ InDocument' /\ n = Len(open)
      /\ e \notin DOMAIN doc /\ e # None /\ e \in Elements /\ ctx' = StartElement(ctx, e, kind)
      /\ Len(open') = n + 1 /\ open'[n + 1] = e /\ KindAt(n + 1)' = kind
      /\ \A i \in 1..n : open'[i] = open[i] /\ KindAt(i)' = KindAt(i)
  BY OpenStepFacts
<1>2. n # 0 => /\ kind \in Nests(KindAt(n))
               /\ KindAt(n) \notin {"inline", "manifest"} => Owner(e)' = open[n]
               /\ Defines(e)' <=> /\ kind \notin {"description", "inline", "manifest", "path"}
                                  /\ KindAt(n) # "description"
  BY OpenStepFacts
<1>3. /\ ctx.state = "SELECTOR" /\ ObjectAt(ctx, b) /\ Ids(ctx, None, None, IdAt(b))
      /\ \A i \in b..n : KindAt(i) \in {"selector", "or", "include"}
      /\ ctx.fileset \in {None, ctx.task}
      /\ b = 4 => ctx.stack[2].data \in {None, ctx.task}
      /\ Len(ctx.selectors) = n - b
      /\ \A i \in DOMAIN ctx.selectors : ctx.selectors[i] = open[b + i - 1]
      /\ ctx.selector = open[n]
  BY <1>1 DEF InSelector
<1>4. /\ b \in {2, 4} /\ n >= b /\ b \in 1..n /\ b = (IF ctx.task = None THEN 2 ELSE 4)
  BY <1>1, <1>3, ObjectTask
<1>5. /\ n \in Nat /\ Proper(ctx) /\ ctx.selectors \in Seq(Elements)
      /\ \A i \in 1..n : open[i] \in DOMAIN doc /\ open[i] # None
  BY <1>1, StepTypes
<1>6. /\ n # 0 /\ n \in b..n /\ n \in 1..n
      /\ KindAt(n) \in {"selector", "or", "include"} /\ open[n] # None /\ open[n] \in DOMAIN doc
  BY <1>3, <1>4, <1>5
<1>7. kind \in {"include", "or"} /\ Owner(e)' = open[n] /\ KindOf(open[n]) # "path"
  <2>1. /\ Nests("selector") = {"include", "or"} /\ Nests("or") = {"include", "or"}
        /\ Nests("include") = {}
    BY NestsOf
  <2>2. kind \in Nests(KindAt(n)) /\ (KindAt(n) \notin {"inline", "manifest"} => Owner(e)' = open[n])
    BY <1>2, <1>6
  <2> QED
    BY <1>6, <2>1, <2>2 DEF KindAt
<1>8. /\ Keeps(ctx', ctx, {"selector", "selectors"})
      /\ ctx'.selector = e /\ ctx'.selectors = Append(ctx.selectors, open[n])
  <2>1. ctx.state = "SELECTOR" /\ ctx.selector # None /\ ctx' = StartElement(ctx, e, kind)
    BY <1>1, <1>3, <1>6
  <2>2. /\ Keeps(ctx', ctx, {"selector", "selectors"})
        /\ ctx'.selector = e /\ ctx'.selectors = Append(ctx.selectors, ctx.selector)
    BY <1>5, <2>1, SelectorChildEffect
  <2> QED
    BY <1>3, <2>2
<1>9. /\ Len(open') \in Nat /\ Len(open') >= b
      /\ \A i \in 1..b : open'[i] = open[i] /\ KindAt(i)' = KindAt(i)
  <2>1. \A i \in 1..b : i \in 1..n
    BY <1>4, <1>5
  <2> QED
    BY <1>1, <1>4, <1>5, <2>1
<1>10. /\ ObjectAt(ctx, b)' /\ IdAt(b)' = IdAt(b) /\ ctx'.task = ctx.task
       /\ ctx'.stack = ctx.stack /\ ctx'.path_id = ctx.path_id
       /\ ctx'.fileset_id = ctx.fileset_id /\ ctx'.selector_id = ctx.selector_id
  BY <1>1, <1>3, <1>8, <1>9, ObjectKept
<1>11. ctx'.state = ctx.state /\ ctx'.fileset = ctx.fileset /\ ctx'.children = ctx.children
  BY <1>8 DEF Keeps, Fields
<1>12. \A i \in b..n + 1 : i \in b..n \/ i = n + 1
  BY <1>4, <1>5
<1>13. InSelector(ctx, b)'
  <2>1. Ids(ctx, None, None, IdAt(b))'
    BY <1>3, <1>10 DEF Ids
  <2>2. (\A i \in b..Len(open) : KindAt(i) \in {"selector", "or", "include"})'
    <3>1. ASSUME NEW i \in b..n PROVE KindAt(i)' \in {"selector", "or", "include"}
      <4>1. i \in 1..n
        BY <1>4, <1>5
      <4> QED
        BY <1>1, <1>3, <4>1
    <3>2. KindAt(n + 1)' \in {"selector", "or", "include"}
      BY <1>1, <1>7
    <3> QED
      BY <1>1, <1>12, <3>1, <3>2
  <2>3. Len(ctx'.selectors) = Len(open') - b
    <3>1. Len(ctx'.selectors) = Len(ctx.selectors) + 1
      BY <1>5, <1>8
    <3> QED
      BY <1>1, <1>3, <1>4, <1>5, <3>1
  <2>4. \A i \in DOMAIN ctx'.selectors : ctx'.selectors[i] = open'[b + i - 1]
    <3> SUFFICES ASSUME NEW i \in DOMAIN ctx'.selectors
                 PROVE  ctx'.selectors[i] = open'[b + i - 1]
      OBVIOUS
    <3>1. DOMAIN ctx.selectors = 1..n - b /\ i \in 1..n - b + 1
      BY <1>3, <1>5, <1>8
    <3>2. CASE i \in 1..n - b
      <4>1. ctx'.selectors[i] = ctx.selectors[i]
        BY <1>3, <1>5, <1>8, <3>2
      <4>2. b + i - 1 \in 1..n
        BY <1>4, <1>5, <3>2
      <4>3. open'[b + i - 1] = open[b + i - 1]
        BY <1>1, <4>2
      <4> QED
        BY <1>3, <3>1, <3>2, <4>1, <4>3
    <3>3. CASE i = n - b + 1
      <4>1. ctx'.selectors[i] = open[n]
        BY <1>3, <1>5, <1>8, <3>3
      <4>2. b + i - 1 = n
        BY <1>4, <1>5, <3>3
      <4> QED
        BY <1>1, <1>6, <4>1, <4>2
    <3> QED
      BY <1>4, <1>5, <3>1, <3>2, <3>3
  <2>5. ctx'.selector = open'[Len(open')]
    BY <1>1, <1>8
  <2>6. /\ ctx'.fileset \in {None, ctx'.task}
        /\ b = 4 => ctx'.stack[2].data \in {None, ctx'.task}
    BY <1>3, <1>10, <1>11
  <2> QED
    BY <1>3, <1>10, <1>11, <2>1, <2>2, <2>3, <2>4, <2>5, <2>6 DEF InSelector
<1>14. Where(ctx)'
  BY <1>4, <1>13 DEF Where
<1>15. /\ \A x : x \in Pending' <=> x = ctx.task \/ \E i \in b..n + 1 : x = open'[i]
       /\ \A x : x \in Pending <=> x = ctx.task \/ \E i \in b..n : x = open[i]
  BY <1>1, <1>3, <1>4, <1>10, <1>11, PendingIs, PendingThen
<1>16. Books'
  <2>1. e \in Pending'
    <3>1. n + 1 \in b..n + 1 /\ open'[n + 1] = e
      BY <1>1, <1>4, <1>5
    <3> QED
      BY <1>15, <3>1
  <2>2. ASSUME NEW x \in DOMAIN doc PROVE x \in Pending' <=> x \in Pending
    <3>1. \A i \in b..n : i \in 1..n /\ open'[i] = open[i] /\ i \in b..n + 1
      BY <1>1, <1>4, <1>5
    <3>2. x # open'[n + 1]
      BY <1>1
    <3>3. (\E i \in b..n + 1 : x = open'[i]) <=> (\E i \in b..n : x = open[i])
      BY <1>12, <3>1, <3>2
    <3> QED
      BY <1>15, <3>3
  <2>3. PICK q : q = Owner(e)'
    OBVIOUS
  <2>4. KindOf(q) # "path"
    BY <1>7, <2>3
  <2> QED
    BY <1>6, <1>11, <2>1, <2>2, <2>3, <2>4, OpenStepBooks
<1> QED
  BY <1>1, <1>14, <1>16 DEF ChildInv

\* What is open in a task that is kept as an XML tree.
LEMMA XmlFacts ==
  ASSUME IInv, InDocument, NEW n, n = Len(open), InXml(ctx)
  PROVE  /\ n \in Nat /\ n > 2 /\ ctx.task = open[3] /\ ctx.task # None
         /\ ctx.nodes = [i \in 1..n - 2 |-> open[i + 2]]
         /\ ctx.nodes \in Seq(Elements) /\ Len(ctx.nodes) = n - 2
         /\ Last(ctx.nodes) = open[n] /\ open[n] \in DOMAIN doc
         /\ ctx.node_depth = n - 2 /\ ctx.state = "TASK" /\ ~ctx.direct
         /\ \A i \in 3..n : XmlKind(KindAt(i))
         /\ \A x : x \in Pending <=> x = ctx.task
<1>1. /\ TaskRead(ctx) /\ ctx.nodes = [i \in 1..n - 2 |-> open[i + 2]]
      /\ ctx.node_depth = n - 2 /\ ctx.state = "TASK" /\ ~ctx.direct
      /\ \A i \in 3..n : XmlKind(KindAt(i))
  BY DEF InXml
<1>2. n > 2 /\ ctx.task = open[3]
  BY <1>1 DEF TaskRead
<1>3. n \in Nat /\ \A i \in 1..n : open[i] \in DOMAIN doc /\ open[i] # None /\ open[i] \in Elements
  BY StepTypes, DocDomain
<1>4. 3 \in 1..n /\ n \in 1..n /\ n - 2 \in Nat
  BY <1>2, <1>3
<1>5. \A i \in 1..n - 2 : i + 2 \in 1..n
  BY <1>3
<1>6. ctx.nodes \in Seq(Elements) /\ Len(ctx.nodes) = n - 2
  <2>1. ctx.nodes \in [1..n - 2 -> Elements]
    BY <1>1, <1>3, <1>5
  <2> QED
    BY <1>4, <2>1
<1>7. Last(ctx.nodes) = open[n]
  <2>1. n - 2 \in 1..n - 2 /\ n - 2 + 2 = n
    BY <1>2, <1>3
  <2>2. ctx.nodes[n - 2] = open[n]
    BY <1>1, <2>1
  <2> QED
    BY <1>6, <2>2 DEF Last
<1>8. \A x : x \in Pending <=> x = ctx.task
  BY <1>1, PendingIs
<1> QED
  BY <1>1, <1>2, <1>3, <1>4, <1>6, <1>7, <1>8

\* What an XML tree may hold.
LEMMA XmlNests ==
  ASSUME Tracked(Content), NEW outer \in Kinds, NEW kind \in Kinds, XmlKind(outer),
         kind \in Content[outer]
  PROVE  XmlKind(kind) /\ kind \notin {"description", "inline", "manifest", "path"}
<1>1. kind \in Nests(outer)
  BY DEF Tracked
<1>2. \A k \in {"description", "inline", "manifest", "path", "fileset", "refpath", "arg",
                "include", "or"} : k \notin Tasks
  BY DEF Tasks, Known
<1>3. CASE outer \in NeedsXmlNode
  <2>1. outer \in Tasks \cap NeedsXmlNode
    BY <1>3 DEF Tasks, Known, NeedsXmlNode
  <2>2. Nests(outer) = Tasks
    BY <2>1, NestsOf
  <2>3. kind \in Tasks
    BY <1>1, <2>2
  <2>4. Content[kind] \cap {"path", "manifest"} = {}
    BY <1>3 DEF Tracked
  <2>5. XmlKind(kind)
    BY <2>3, <2>4 DEF XmlKind
  <2> QED
    BY <1>2, <2>3, <2>5
<1>4. CASE outer \in {"fileset", "refpath", "arg", "include", "or"}
  <2>1. /\ Nests("fileset") = {"include"} /\ Nests("or") = {"include", "or"}
        /\ Nests("refpath") = {} /\ Nests("arg") = {} /\ Nests("include") = {}
    BY NestsOf
  <2>2. kind \in {"include", "or"}
    BY <1>1, <1>4, <2>1
  <2> QED
    BY <2>2 DEF XmlKind
<1>5. CASE outer \in Tasks \ NeedsXmlNode /\ Content[outer] \cap {"path", "manifest"} = {}
  <2>1. Nests(outer) = {"fileset", "path", "refpath", "arg", "include", "or", "manifest"}
    BY <1>5, NestsOf
  <2>2. kind \in {"fileset", "refpath", "arg", "include", "or"}
    BY <1>1, <1>5, <2>1
  <2> QED
    BY <2>2 DEF XmlKind
<1>6. \/ outer \in NeedsXmlNode
      \/ outer \in {"fileset", "refpath", "arg", "include", "or"}
      \/ outer \in Tasks \ NeedsXmlNode /\ Content[outer] \cap {"path", "manifest"} = {}
  BY DEF XmlKind
<1> QED
  BY <1>3, <1>4, <1>5, <1>6

LEMMA XmlKindIs ==
  ASSUME NEW kind, XmlKind(kind)
  PROVE  kind \notin {"description", "inline", "manifest", "path"}
<1>1. \A k \in {"description", "inline", "manifest", "path"} : k \notin Tasks
  BY DEF Tasks, Known
<1> QED
  BY <1>1 DEF XmlKind, NeedsXmlNode

\* Whatever a task that is kept as an XML tree holds is recorded at once.
LEMMA OpenInXml ==
  ASSUME NEW kind, NEW e, NEW n, OpenStep(kind, e, n), InXml(ctx)
  PROVE  ChildInv'
<1>1. /\ Tracked(Content) /\ IInv /\ IInv' /\ InDocument /\ InDocument' /\ n = Len(open)
      /\ e \notin DOMAIN doc /\ e # None /\ e \in Elements /\ ctx' = StartElement(ctx, e, kind)
      /\ Len(open') = n + 1 /\ open'[n + 1] = e /\ KindAt(n + 1)' = kind /\ kind \in Kinds
      /\ \A i \in 1..n : open'[i] = open[i] /\ KindAt(i)' = KindAt(i)
  BY OpenStepFacts
<1>2. n # 0 => /\ kind \in Content[KindAt(n)] /\ KindAt(n) \in Kinds
               /\ KindAt(n) \notin {"inline", "manifest"} => Owner(e)' = open[n]
               /\ Defines(e)' <=> /\ kind \notin {"description", "inline", "manifest", "path"}
                                  /\ KindAt(n) # "description"
  BY OpenStepFacts
<1>3. /\ n \in Nat /\ n > 2 /\ ctx.task = open[3] /\ ctx.task # None
      /\ ctx.nodes = [i \in 1..n - 2 |-> open[i + 2]]
      /\ ctx.nodes \in Seq(Elements) /\ Len(ctx.nodes) = n - 2
      /\ Last(ctx.nodes) = open[n] /\ open[n] \in DOMAIN doc
      /\ ctx.node_depth = n - 2 /\ ctx.state = "TASK" /\ ~ctx.direct
      /\ \A i \in 3..n : XmlKind(KindAt(i))
      /\ \A x : x \in Pending <=> x = ctx.task
  BY <1>1, XmlFacts
<1>4. XmlKind(KindAt(n)) /\ n # 0
  BY <1>3
<1>5. XmlKind(kind) /\ kind \notin {"description", "inline", "manifest", "path"}
  BY <1>1, <1>2, <1>4, XmlNests
<1>6. KindAt(n) \notin {"description", "inline", "manifest", "path"}
  BY <1>4, XmlKindIs
<1>7. Owner(e)' = open[n] /\ Defines(e)' /\ KindOf(open[n]) # "path"
  BY <1>2, <1>4, <1>5, <1>6 DEF KindAt
<1>8. Proper(ctx) /\ 3 \in 1..n /\ \A i \in 1..n : open[i] \in DOMAIN doc
  BY <1>1, <1>3, StepTypes
<1>9. /\ Keeps(ctx', ctx, {"children", "node_depth", "nodes"})
      /\ ctx'.node_depth = ctx.node_depth + 1 /\ Adds(ctx', ctx, open[n], e)
      /\ ctx'.nodes = Append(ctx.nodes, e)
  <2>1. ctx.state = "TASK" /\ ~ctx.direct /\ Last(ctx.nodes) = open[n]
    BY <1>3
  <2> QED
    BY <1>1, <1>8, <2>1, XmlChildEffect
<1>10. /\ ctx'.state = ctx.state /\ ctx'.stack = ctx.stack /\ ctx'.task = ctx.task
       /\ ctx'.target = ctx.target /\ ctx'.direct = ctx.direct
       /\ ctx'.filesets = ctx.filesets /\ ctx'.in_manifest = ctx.in_manifest
       /\ ctx'.path_id = ctx.path_id /\ ctx'.fileset_id = ctx.fileset_id
       /\ ctx'.selector_id = ctx.selector_id
  BY <1>9 DEF Keeps, Fields
<1>11. Len(ctx.stack) = 1 /\ TaskRead(ctx) /\ NoIds(ctx) /\ ~ctx.in_manifest
  BY DEF InXml
<1>12. TaskRead(ctx)'
  <2>1. 2 \in 1..n /\ 3 \in 1..n /\ Len(open') \in Nat /\ Len(open') > 2
    BY <1>1, <1>3
  <2>2. /\ open'[2] = open[2] /\ open'[3] = open[3] /\ KindAt(2)' = KindAt(2)
        /\ KindAt(3)' = KindAt(3)
    BY <1>1, <2>1
  <2>3. "include" \in Content[KindAt(3)] => ctx'.filesets \in {<<>>, <<ctx.task>>}
    BY <1>10, <1>11 DEF TaskRead
  <2> QED
    BY <1>1, <1>10, <1>11, <2>1, <2>2, <2>3, TaskReadKept
<1>13. InXml(ctx)'
  <2>1. ctx'.nodes = [i \in 1..Len(open') - 2 |-> open'[i + 2]]
    <3>1. Len(ctx'.nodes) = n - 1 /\ ctx'.nodes \in Seq(Elements)
      BY <1>1, <1>3, <1>9
    <3>2. ASSUME NEW i \in 1..n - 1 PROVE ctx'.nodes[i] = open'[i + 2]
      <4>1. CASE i \in 1..n - 2
        <5>1. ctx'.nodes[i] = ctx.nodes[i] /\ i + 2 \in 1..n
          BY <1>3, <1>9, <4>1
        <5> QED
          BY <1>1, <1>3, <4>1, <5>1
      <4>2. CASE i = n - 1
        <5>1. ctx'.nodes[i] = e /\ i + 2 = n + 1
          BY <1>3, <1>9, <4>2
        <5> QED
          BY <1>1, <5>1
      <4> QED
        BY <1>3, <4>1, <4>2
    <3>3. Len(open') - 2 = n - 1 /\ n - 1 \in Nat
      BY <1>1, <1>3
    <3>4. ctx'.nodes \in [1..n - 1 -> Elements]
      BY <3>1
    <3>5. ctx'.nodes = [i \in 1..n - 1 |-> open'[i + 2]]
      BY <3>2, <3>4
    <3> QED
      BY <3>3, <3>5
  <2>2. (\A i \in 3..Len(open) : XmlKind(KindAt(i)))'
    <3>1. ASSUME NEW i \in 3..n PROVE XmlKind(KindAt(i)')
      <4>1. i \in 1..n
        BY <1>3
      <4>2. KindAt(i)' = KindAt(i) /\ XmlKind(KindAt(i))
        BY <1>1, <1>3, <4>1
      <4> QED
        BY <4>2
    <3>2. XmlKind(KindAt(n + 1)')
      BY <1>1, <1>5
    <3>3. \A i \in 3..n + 1 : i \in 3..n \/ i = n + 1
      BY <1>3
    <3>4. \A i \in 3..Len(open') : XmlKind(KindAt(i)')
      BY <1>1, <3>1, <3>2, <3>3
    <3> QED
      BY <3>4
  <2>3. ctx'.node_depth = Len(open') - 2
    BY <1>1, <1>3, <1>9
  <2>4. NoIds(ctx)'
    BY <1>10, <1>11 DEF NoIds, Ids
  <2> QED
    BY <1>3, <1>10, <1>11, <1>12, <2>1, <2>2, <2>3, <2>4 DEF InXml
<1>14. Where(ctx)'
  BY <1>13 DEF Where
<1>15. \A x : x \in Pending' <=> x = ctx.task
  BY <1>3, <1>10, PendingThen
<1>16. Books'
  <2>1. PICK q : q = open[n]
    OBVIOUS
  <2>2. q = Owner(e)' /\ KindOf(q) # "path" /\ Adds(ctx', ctx, q, e) /\ Defines(e)'
    BY <1>7, <1>9, <2>1
  <2>3. e \notin Pending'
    BY <1>1, <1>3, <1>8, <1>15
  <2>4. \A x \in DOMAIN doc : x \in Pending' <=> x \in Pending
    BY <1>3, <1>15
  <2> QED
    BY <1>4, <2>2, <2>3, <2>4, OpenStepBooks
<1> QED
  BY <1>1, <1>14, <1>16 DEF ChildInv

LEMMA ConcatAppend ==
  ASSUME NEW s \in Seq(Elements), NEW t \in Seq(Elements), NEW e \in Elements
  PROVE  s \o Append(t, e) = Append(s \o t, e)
<1>1. /\ s \o Append(t, e) \in Seq(Elements) /\ Append(s \o t, e) \in Seq(Elements)
      /\ Len(s \o Append(t, e)) = Len(s) + Len(t) + 1
      /\ Len(Append(s \o t, e)) = Len(s) + Len(t) + 1
      /\ Len(s) \in Nat /\ Len(t) \in Nat
  OBVIOUS
<1>2. ASSUME NEW i \in 1..Len(s) + Len(t) + 1
      PROVE  (s \o Append(t, e))[i] = Append(s \o t, e)[i]
  <2>1. CASE i \in 1..Len(s)
    BY <1>1, <2>1
  <2>2. CASE i \in Len(s) + 1..Len(s) + Len(t)
    BY <1>1, <2>2
  <2>3. CASE i = Len(s) + Len(t) + 1
    BY <1>1, <2>3
  <2> QED
    BY <1>1, <2>1, <2>2, <2>3
<1> DEFINE u == s \o Append(t, e)
<1> DEFINE w == Append(s \o t, e)
<1> DEFINE m == Len(s) + Len(t) + 1
<1>3. /\ u \in Seq(Elements) /\ w \in Seq(Elements) /\ Len(u) = m /\ Len(w) = m
      /\ \A i \in 1..m : u[i] = w[i]
  BY <1>1, <1>2
<1> HIDE DEF u, w, m
<1>4. u = w
  <2>1. u = [i \in 1..m |-> u[i]] /\ w = [i \in 1..m |-> w[i]]
    BY <1>3
  <2>2. [i \in 1..m |-> u[i]] = [i \in 1..m |-> w[i]]
    BY <1>3
  <2> QED
    BY <2>1, <2>2
<1> QED
  BY <1>4 DEF u, w

\* What belongs to x after an opening tag.
LEMMA OpenMembers ==
  ASSUME NEW kind, NEW e, NEW n, OpenStep(kind, e, n), n # 0, NEW x \in DOMAIN doc,
         NEW q, q = Owner(e)', KindOf(q) # "path" \/ q = x
  PROVE  /\ Members(x) \subseteq DOMAIN doc
         /\ Members(x)' = Members(x) \cup (IF q = x /\ Defines(e)' THEN {e} ELSE {})
<1>1. /\ Tracked(Content) /\ IInv /\ IInv' /\ InDocument /\ kind \in Kinds /\ Open(kind)
      /\ e = Len(doc) + 1 /\ n = Len(open)
  BY OpenStepFacts
<1>2. /\ Len(doc) \in Nat /\ DOMAIN doc = 1..e - 1 /\ e \in Nat /\ DOMAIN doc' = 1..e
      /\ e # Project
  BY <1>1, DocDomain, OpenFacts, OpenOwners
<1>3. /\ \A y \in DOMAIN doc : y # Project => Owner(y)' = Owner(y)
      /\ \A y \in DOMAIN doc : Defines(y) => Defines(y)'
      /\ \A y \in DOMAIN doc : Defines(y)' => Defines(y) \/ (KindOf(y) = "path" /\ q = y)
  BY <1>1, OpenOwners, OpenDefines
<1>4. \A y : (Defines(y)' => y # Project) /\ (Defines(y) => y # Project)
  BY DEF Defines
<1>5. x # Project => Owner(x) # x
  BY <1>1, <1>2, OwnersBefore
<1>6. \A y \in DOMAIN doc : y \in Members(x)' <=> y \in Members(x)
  <2> SUFFICES ASSUME NEW y \in DOMAIN doc PROVE y \in Members(x)' <=> y \in Members(x)
    OBVIOUS
  <2>1. y \in Members(x) <=> Defines(y) /\ Owner(y) = x
    BY DEF Members
  <2>2. y \in Members(x)' <=> Defines(y)' /\ Owner(y)' = x
    BY <1>2 DEF Members
  <2> QED
    BY <1>3, <1>4, <1>5, <2>1, <2>2
<1>7. e \in Members(x)' <=> Defines(e)' /\ q = x
  BY <1>2 DEF Members
<1>8. Members(x)' \subseteq DOMAIN doc \cup {e}
  BY <1>2 DEF Members
<1>9. Members(x) \subseteq DOMAIN doc
  BY DEF Members
<1>10. PICK s, t : s = Members(x)' /\ t = Members(x)
  OBVIOUS
<1>11. s = t \cup (IF q = x /\ Defines(e)' THEN {e} ELSE {})
  <2>1. \A y \in s : y \in DOMAIN doc \/ y = e
    BY <1>8, <1>10
  <2>2. e \notin DOMAIN doc
    BY <1>2
  <2> QED
    BY <1>6, <1>7, <1>9, <1>10, <2>1, <2>2
<1> QED
  BY <1>9, <1>10, <1>11

\* What may be open in a path.
LEMMA PathNests ==
  ASSUME Tracked(Content), IInv, InDocument, NEW n, n = Len(open), NEW b, InPath(ctx, b)
  PROVE  /\ n \in {b, b + 1, b + 2} /\ b \in {2, 4} /\ KindAt(b) = "path"
         /\ n # b => KindAt(b + 1) \in {"pathelement", "fileset", "inline"}
         /\ n = b + 2 => \/ KindAt(b + 1) = "fileset" /\ KindAt(n) = "include"
                         \/ KindAt(b + 1) = "inline" /\ KindAt(n) = "pathelement"
<1>1. ObjectAt(ctx, b) /\ KindAt(b) = "path"
  BY DEF InPath
<1>2. b \in {2, 4} /\ n >= b /\ n \in Nat
  BY <1>1, ObjectTask, StepTypes
<1>3. /\ Nests("path") = {"pathelement", "fileset", "inline"}
      /\ Nests("inline") = {"pathelement"} /\ Nests("fileset") = {"include"}
      /\ Nests("pathelement") = {} /\ Nests("include") = {}
  BY NestsOf
<1>4. \A j \in 2..n : KindAt(j) \in Nests(KindAt(j - 1))
  BY OpenKinds
<1>5. n # b => KindAt(b + 1) \in {"pathelement", "fileset", "inline"}
  <2>1. n # b => b + 1 \in 2..n /\ b + 1 - 1 = b
    BY <1>2
  <2>2. n # b => KindAt(b + 1) \in Nests(KindAt(b))
    <3>1. ASSUME NEW j, j = b + 1, n # b PROVE KindAt(j) \in Nests(KindAt(b))
      <4>1. j \in 2..n /\ j - 1 = b
        BY <1>2, <3>1
      <4> QED
        BY <1>4, <4>1
    <3> QED
      BY <3>1
  <2> QED
    BY <1>1, <1>3, <2>2
<1>6. ASSUME NEW j, j = b + 2, n >= j
      PROVE  \/ KindAt(b + 1) = "fileset" /\ KindAt(j) = "include"
             \/ KindAt(b + 1) = "inline" /\ KindAt(j) = "pathelement"
  <2>1. j \in 2..n /\ j - 1 = b + 1 /\ n # b
    BY <1>2, <1>6
  <2>2. KindAt(j) \in Nests(KindAt(b + 1))
    BY <1>4, <2>1
  <2> QED
    BY <1>3, <1>5, <2>1, <2>2
<1>7. ~(n >= b + 3)
  <2> SUFFICES ASSUME NEW j, j = b + 3, n >= j PROVE FALSE
    OBVIOUS
  <2>1. j \in 2..n /\ j - 1 = b + 2 /\ n >= b + 2
    BY <1>2
  <2>2. KindAt(j) \in Nests(KindAt(b + 2))
    BY <1>4, <2>1
  <2>3. KindAt(b + 2) \in {"include", "pathelement"}
    <3>1. ASSUME NEW k, k = b + 2 PROVE KindAt(k) \in {"include", "pathelement"}
      <4>1. KindAt(k) = "include" \/ KindAt(k) = "pathelement"
        BY <1>6, <2>1, <3>1
      <4> QED
        BY <4>1
    <3> QED
      BY <3>1
  <2> QED
    BY <1>3, <2>2, <2>3
<1>8. n \in {b, b + 1, b + 2}
  BY <1>2, <1>7
<1> QED
  BY <1>1, <1>2, <1>5, <1>6, <1>8

LEMMA FlatThen ==
  ASSUME IInv, NEW e \in Elements, ctx.lists # <<>> => Len(ctx.lists) = 1
  PROVE  /\ Flat(ctx) \in Seq(Elements) /\ ctx.list \in Seq(Elements)
         /\ ctx'.lists = ctx.lists /\ ctx'.list = ctx.list => Flat(ctx)' = Flat(ctx)
         /\ ctx'.lists = ctx.lists /\ ctx'.list = Append(ctx.list, e) =>
               Flat(ctx)' = Append(Flat(ctx), e)
         /\ ctx.lists = <<>> /\ ctx'.lists = Append(ctx.lists, ctx.list) /\ ctx'.list = <<>> =>
               Flat(ctx)' = Flat(ctx) /\ ctx'.lists # <<>> /\ Len(ctx'.lists) = 1
         /\ ctx.lists # <<>> /\ ctx'.lists = Front(ctx.lists)
               /\ ctx'.list = Last(ctx.lists) \o ctx.list =>
               Flat(ctx)' = Flat(ctx) /\ ctx'.lists = <<>>
<1>1. ctx.list \in Seq(Elements) /\ ctx.lists \in Seq(Seq(Elements))
  <2>1. ctx \in Context
    BY DEF IInv, TypeOK
  <2> QED
    BY <2>1 DEF Context
<1>2. ctx.lists # <<>> => ctx.lists[1] \in Seq(Elements)
  BY <1>1
<1>3. Flat(ctx) \in Seq(Elements)
  BY <1>1, <1>2 DEF Flat
<1>4. ctx'.lists = ctx.lists /\ ctx'.list = ctx.list => Flat(ctx)' = Flat(ctx)
  BY DEF Flat
<1>5. ASSUME ctx'.lists = ctx.lists, ctx'.list = Append(ctx.list, e)
      PROVE  Flat(ctx)' = Append(Flat(ctx), e)
  <2>1. CASE ctx.lists = <<>>
    BY <1>5, <2>1 DEF Flat
  <2>2. CASE ctx.lists # <<>>
    <3>1. ctx.lists[1] \o Append(ctx.list, e) = Append(ctx.lists[1] \o ctx.list, e)
      BY <1>1, <1>2, <2>2, ConcatAppend
    <3> QED
      BY <1>5, <2>2, <3>1 DEF Flat
  <2> QED
    BY <2>1, <2>2
<1>6. ASSUME ctx.lists = <<>>, ctx'.lists = Append(ctx.lists, ctx.list), ctx'.list = <<>>
      PROVE  Flat(ctx)' = Flat(ctx) /\ ctx'.lists # <<>> /\ Len(ctx'.lists) = 1
  <2>1. ctx'.lists = <<ctx.list>>
    BY <1>6
  <2>2. ctx.list \o <<>> = ctx.list
    BY <1>1
  <2>3. /\ ctx'.lists # <<>> /\ Len(ctx'.lists) = 1 /\ ctx'.lists[1] = ctx.list
    BY <2>1
  <2> QED
    BY <1>6, <2>2, <2>3 DEF Flat
<1>7. ASSUME ctx.lists # <<>>, ctx'.lists = Front(ctx.lists),
             ctx'.list = Last(ctx.lists) \o ctx.list
      PROVE  Flat(ctx)' = Flat(ctx) /\ ctx'.lists = <<>>
  <2>1. Len(ctx.lists) = 1 /\ Last(ctx.lists) = ctx.lists[1]
    BY <1>7 DEF Last
  <2>2. Front(ctx.lists) = <<>>
    BY <1>1, <2>1 DEF Front
  <2> QED
    BY <1>7, <2>1, <2>2 DEF Flat
<1> QED
  BY <1>1, <1>3, <1>4, <1>5, <1>6, <1>7

\* What is known when an element is opened in a path x.
LEMMA OpenPathFacts ==
  ASSUME NEW kind, NEW e, NEW n, OpenStep(kind, e, n), NEW b, NEW x, InPath(ctx, b), x = open[b]
  PROVE  /\ Proper(ctx) /\ ctx.state = "PATH" /\ ObjectAt(ctx, b)
         /\ Ids(ctx, IdAt(b), None, None) /\ ctx.path_depth = n - b + 1
         /\ b \in {2, 4} /\ b = (IF ctx.task = None THEN 2 ELSE 4) /\ b \in 1..n /\ n \in Nat
         /\ x \in DOMAIN doc /\ x # None /\ KindOf(x) = "path" /\ KindAt(b) = "path"
         /\ Ascending(Flat(ctx)) /\ ToSet(Flat(ctx)) = Members(x)
         /\ Members(x) \subseteq DOMAIN doc
         /\ \/ /\ n = b /\ kind \in {"pathelement", "fileset", "inline"}
               /\ Owner(e)' = x /\ ctx.lists = <<>>
               /\ Defines(e)' <=> kind # "inline"
            \/ /\ n = b + 1 /\ KindAt(n) = "inline" /\ kind = "pathelement"
               /\ Owner(e)' = x /\ Defines(e)'
            \/ /\ n = b + 1 /\ KindAt(n) = "fileset" /\ kind = "include" /\ ctx.lists = <<>>
               /\ Owner(e)' = open[n] /\ Defines(e)' /\ ctx.fileset = open[n]
               /\ open[n] \in DOMAIN doc /\ open[n] # None /\ KindOf(open[n]) = "fileset"
         /\ ctx.lists # <<>> => Len(ctx.lists) = 1 /\ ctx.path # None
         /\ \A y : y \in Pending <=> y = ctx.task \/ y = x \/ y \in Members(x)
         /\ b = 4 => ctx.stack[2].data = x
<1>1. /\ Tracked(Content) /\ IInv /\ InDocument /\ n = Len(open)
  BY OpenStepFacts
<1>2. n # 0 => /\ kind \in Nests(KindAt(n))
               /\ KindAt(n) \notin {"inline", "manifest"} => Owner(e)' = open[n]
               /\ KindAt(n) \in {"inline", "manifest"} => n > 1 /\ Owner(e)' = open[n - 1]
               /\ Defines(e)' <=> /\ kind \notin {"description", "inline", "manifest", "path"}
                                  /\ KindAt(n) # "description"
  BY OpenStepFacts
<1>3. /\ ctx.state = "PATH" /\ ObjectAt(ctx, b) /\ Ids(ctx, IdAt(b), None, None)
      /\ KindAt(b) = "path" /\ ctx.path_depth = n - b + 1
      /\ ctx.lists # <<>> => /\ Len(ctx.lists) = 1 /\ ctx.path # None
                             /\ n > b /\ KindAt(b + 1) = "inline"
      /\ n > b /\ KindAt(b + 1) = "fileset" => ctx.fileset = open[b + 1]
      /\ Ascending(Flat(ctx)) /\ ToSet(Flat(ctx)) = Members(x)
      /\ b = 4 => ctx.stack[2].data = x
  BY <1>1 DEF InPath
<1>4. /\ b \in {2, 4} /\ b = (IF ctx.task = None THEN 2 ELSE 4) /\ b \in 1..n
  BY <1>1, <1>3, ObjectTask
<1>5. /\ Proper(ctx) /\ n \in Nat /\ \A i \in 1..n : open[i] \in DOMAIN doc /\ open[i] # None
  BY <1>1, StepTypes
<1>6. /\ x \in DOMAIN doc /\ x # None /\ KindOf(x) = "path" /\ Members(x) \subseteq DOMAIN doc
  BY <1>3, <1>4, <1>5 DEF KindAt, Members
<1>7. \A y : y \in Pending <=> y = ctx.task \/ y = x \/ y \in Members(x)
  BY <1>3, <1>4, PendingIs
<1>8. /\ n \in {b, b + 1, b + 2} 
      /\ n # b => KindAt(b + 1) \in {"pathelement", "fileset", "inline"}
      /\ n = b + 2 => \/ KindAt(b + 1) = "fileset" /\ KindAt(n) = "include"
                      \/ KindAt(b + 1) = "inline" /\ KindAt(n) = "pathelement"
  BY <1>1, PathNests
<1>9. /\ Nests("path") = {"pathelement", "fileset", "inline"}
      /\ Nests("inline") = {"pathelement"} /\ Nests("fileset") = {"include"}
      /\ Nests("pathelement") = {} /\ Nests("include") = {}
  BY NestsOf
<1>10. n # b + 2
  <2>1. n = b + 2 => n # 0 /\ KindAt(n) \in {"include", "pathelement"}
    BY <1>4, <1>5, <1>8
  <2> QED
    BY <1>2, <1>9, <2>1
<1>11. ASSUME n = b
       PROVE  /\ kind \in {"pathelement", "fileset", "inline"}
              /\ Owner(e)' = x /\ ctx.lists = <<>>
              /\ Defines(e)' <=> kind # "inline"
  <2>1. n # 0 /\ KindAt(n) = "path" /\ open[n] = x /\ ~(n > b)
    BY <1>3, <1>4, <1>5, <1>11
  <2>2. kind \in {"pathelement", "fileset", "inline"}
    BY <1>2, <1>9, <2>1
  <2> QED
    BY <1>2, <1>3, <2>1, <2>2
<1>12. ASSUME n = b + 1, KindAt(n) = "inline"
       PROVE  kind = "pathelement" /\ Owner(e)' = x /\ Defines(e)'
  <2>1. n # 0 /\ n - 1 = b
    BY <1>4, <1>5, <1>12
  <2>2. kind = "pathelement"
    BY <1>2, <1>9, <1>12, <2>1
  <2> QED
    BY <1>2, <1>12, <2>1, <2>2
<1>13. ASSUME n = b + 1, KindAt(n) = "fileset"
       PROVE  /\ kind = "include" /\ ctx.lists = <<>>
              /\ Owner(e)' = open[n] /\ Defines(e)' /\ ctx.fileset = open[n]
              /\ open[n] \in DOMAIN doc /\ open[n] # None /\ KindOf(open[n]) = "fileset"
  <2>1. n # 0 /\ n > b /\ n \in 1..n
    BY <1>4, <1>5, <1>13
  <2>2. kind = "include"
    BY <1>2, <1>9, <1>13, <2>1
  <2>3. ctx.lists = <<>> /\ ctx.fileset = open[n]
    BY <1>3, <1>13, <2>1
  <2> QED
    BY <1>2, <1>5, <1>13, <2>1, <2>2, <2>3 DEF KindAt
<1>14. n = b + 1 => KindAt(n) \in {"inline", "fileset"}
  <2>1. n = b + 1 => n # 0 /\ n # b /\ KindAt(n) \in {"pathelement", "fileset", "inline"}
    BY <1>4, <1>5, <1>8
  <2> QED
    BY <1>2, <1>9, <2>1
<1>15. n = b \/ (n = b + 1 /\ KindAt(n) = "inline") \/ (n = b + 1 /\ KindAt(n) = "fileset")
  BY <1>8, <1>10, <1>14
<1>16. \/ /\ n = b /\ kind \in {"pathelement", "fileset", "inline"}
          /\ Owner(e)' = x /\ ctx.lists = <<>>
          /\ Defines(e)' <=> kind # "inline"
       \/ /\ n = b + 1 /\ KindAt(n) = "inline" /\ kind = "pathelement"
          /\ Owner(e)' = x /\ Defines(e)'
       \/ /\ n = b + 1 /\ KindAt(n) = "fileset" /\ kind = "include" /\ ctx.lists = <<>>
          /\ Owner(e)' = open[n] /\ Defines(e)' /\ ctx.fileset = open[n]
          /\ open[n] \in DOMAIN doc /\ open[n] # None /\ KindOf(open[n]) = "fileset"
  BY <1>11, <1>12, <1>13, <1>15
<1>17. ctx.lists # <<>> => Len(ctx.lists) = 1 /\ ctx.path # None
  BY <1>3
<1> QED
  BY <1>3, <1>4, <1>5, <1>6, <1>7, <1>16, <1>17

\* The path x is read on.
LEMMA OpenPathRest ==
  ASSUME NEW kind, NEW e, NEW n, OpenStep(kind, e, n), NEW b, NEW x, InPath(ctx, b), x = open[b],
         Keeps(ctx', ctx, {"path_depth", "list", "lists", "path", "fileset", "children"}),
         ctx'.path_depth = ctx.path_depth + 1,
         Ascending(Flat(ctx)'), ToSet(Flat(ctx)') = Members(x)',
         ctx'.lists # <<>> => Len(ctx'.lists) = 1 /\ ctx'.path # None /\ KindAt(b + 1)' = "inline",
         KindAt(b + 1)' = "fileset" => ctx'.fileset = open'[b + 1]
  PROVE  /\ Where(ctx)'
         /\ \A y : y \in Pending' <=> y = ctx.task \/ y = x \/ y \in Members(x)'
<1>1. /\ Tracked(Content) /\ IInv /\ InDocument /\ n = Len(open)
      /\ Len(open') = n + 1
      /\ \A i \in 1..n : open'[i] = open[i] /\ KindAt(i)' = KindAt(i)
  BY OpenStepFacts
<1>2. /\ ctx.state = "PATH" /\ ObjectAt(ctx, b)
      /\ Ids(ctx, IdAt(b), None, None) /\ ctx.path_depth = n - b + 1
      /\ b \in {2, 4} /\ b = (IF ctx.task = None THEN 2 ELSE 4) /\ b \in 1..n /\ n \in Nat
      /\ KindAt(b) = "path"
      /\ b = 4 => ctx.stack[2].data = x
  BY OpenPathFacts
<1>3. /\ Len(open') \in Nat /\ Len(open') > b /\ Len(open') >= b
      /\ \A i \in 1..b : open'[i] = open[i] /\ KindAt(i)' = KindAt(i)
      /\ open'[b] = x /\ KindAt(b)' = "path"
  BY <1>1, <1>2
<1>4. /\ ObjectAt(ctx, b)' /\ IdAt(b)' = IdAt(b) /\ ctx'.task = ctx.task
      /\ ctx'.stack = ctx.stack /\ ctx'.path_id = ctx.path_id
      /\ ctx'.fileset_id = ctx.fileset_id /\ ctx'.selector_id = ctx.selector_id
  <2>1. {"path_depth", "list", "lists", "path", "fileset", "children"}
           \cap {"stack", "task", "target", "direct", "filesets", "node_depth", "in_manifest",
                 "path_id", "fileset_id", "selector_id"} = {}
    OBVIOUS
  <2> QED
    BY <1>1, <1>2, <1>3, <2>1, ObjectKept
<1>5. ctx'.state = "PATH"
  BY <1>2 DEF Keeps, Fields
<1>6. Ids(ctx, IdAt(b), None, None)'
  BY <1>2, <1>4 DEF Ids
<1>7. ctx'.path_depth = Len(open') - b + 1
  BY <1>1, <1>2
<1>8. InPath(ctx, b)'
  <2>1. b = 4 => ctx'.stack[2].data = open'[b]
    BY <1>2, <1>3, <1>4
  <2>2. /\ ctx'.lists # <<>> => /\ Len(ctx'.lists) = 1 /\ ctx'.path # None
                                /\ Len(open') > b /\ KindAt(b + 1)' = "inline"
        /\ Len(open') > b /\ KindAt(b + 1)' = "fileset" => ctx'.fileset = open'[b + 1]
    BY <1>3
  <2>3. Ascending(Flat(ctx)') /\ ToSet(Flat(ctx)') = Members(open[b])'
    <3>1. Members(open[b])' = Members(x)'
      <4>1. open'[b] = x
        BY <1>3
      <4> QED
        BY <4>1
    <3> QED
      BY <3>1
  <2> QED
    BY <1>3, <1>4, <1>5, <1>6, <1>7, <2>1, <2>2, <2>3 DEF InPath
<1>9. Where(ctx)'
  BY <1>2, <1>8 DEF Where
<1>10. \A y : y \in Pending' <=> y = ctx.task \/ y = x \/ y \in Members(x)'
  BY <1>2, <1>3, <1>4, <1>5, PendingThen
<1> QED
  BY <1>9, <1>10

\* An element of the path x is pending when it is read, like x itself.
LEMMA OpenInPath ==
  ASSUME NEW kind, NEW e, NEW n, OpenStep(kind, e, n), NEW b, InPath(ctx, b)
  PROVE  ChildInv'
<1>0. PICK x : x = open[b]
  OBVIOUS
<1>1. /\ IInv /\ InDocument /\ InDocument' /\ n = Len(open)
      /\ e \in Elements /\ e # None /\ e \notin DOMAIN doc /\ ctx' = StartElement(ctx, e, kind)
      /\ Len(open') = n + 1 /\ open'[n + 1] = e /\ KindAt(n + 1)' = kind
      /\ \A i \in 1..n : open'[i] = open[i] /\ KindAt(i)' = KindAt(i)
  <2>1. /\ IInv /\ InDocument /\ InDocument' /\ n = Len(open)
        /\ e \in Elements /\ e # None /\ e \notin DOMAIN doc
        /\ ctx' = StartElement(ctx, e, kind)
    BY OpenStepFacts
  <2>2. Len(open') = n + 1 /\ open'[n + 1] = e /\ KindAt(n + 1)' = kind
    BY OpenStepFacts
  <2>3. \A i \in 1..n : open'[i] = open[i] /\ KindAt(i)' = KindAt(i)
    BY OpenStepFacts
  <2> QED
    BY <2>1, <2>2, <2>3
<1>2. /\ Proper(ctx) /\ ctx.state = "PATH"
      /\ b \in {2, 4} /\ b = (IF ctx.task = None THEN 2 ELSE 4) /\ b \in 1..n /\ n \in Nat
      /\ x \in DOMAIN doc /\ x # None /\ KindOf(x) = "path"
      /\ Ascending(Flat(ctx)) /\ ToSet(Flat(ctx)) = Members(x)
      /\ Members(x) \subseteq DOMAIN doc
      /\ ctx.lists # <<>> => Len(ctx.lists) = 1 /\ ctx.path # None
      /\ \A y : y \in Pending <=> y = ctx.task \/ y = x \/ y \in Members(x)
  BY <1>0, OpenPathFacts
<1>3. \/ /\ n = b /\ kind \in {"pathelement", "fileset", "inline"}
         /\ Owner(e)' = x /\ ctx.lists = <<>>
         /\ Defines(e)' <=> kind # "inline"
      \/ /\ n = b + 1 /\ KindAt(n) = "inline" /\ kind = "pathelement"
         /\ Owner(e)' = x /\ Defines(e)'
      \/ /\ n = b + 1 /\ KindAt(n) = "fileset" /\ kind = "include" /\ ctx.lists = <<>>
         /\ Owner(e)' = open[n] /\ Defines(e)' /\ ctx.fileset = open[n]
         /\ open[n] \in DOMAIN doc /\ open[n] # None /\ KindOf(open[n]) = "fileset"
  BY <1>0, OpenPathFacts
<1>4. n # 0 /\ ~(n < b)
  BY <1>2
<1>5. Flat(ctx) \in Seq(Elements)
  BY <1>1, <1>2, FlatThen
<1>6. ASSUME Flat(ctx)' = Append(Flat(ctx), e), Members(x)' = Members(x) \cup {e}
      PROVE  Ascending(Flat(ctx)') /\ ToSet(Flat(ctx)') = Members(x)'
  <2>1. \A y \in ToSet(Flat(ctx)) : y < e
    <3>1. \A y \in DOMAIN doc : y < e
      <4>1. e = Len(doc) + 1
        BY OpenStepFacts
      <4>2. DOMAIN doc = 1..Len(doc) /\ Len(doc) \in Nat
        BY <1>1, DocDomain
      <4> QED
        BY <4>1, <4>2
    <3> QED
      BY <1>2, <3>1
  <2> QED
    BY <1>1, <1>2, <1>5, <1>6, <2>1, AppendAscending
<1> DEFINE F == {"path_depth", "list", "lists", "path", "fileset", "children"}
<1> DEFINE Result ==
       /\ Keeps(ctx', ctx, F) /\ ctx'.path_depth = ctx.path_depth + 1
       /\ Ascending(Flat(ctx)') /\ ToSet(Flat(ctx)') = Members(x)'
       /\ ctx'.lists # <<>> => Len(ctx'.lists) = 1 /\ ctx'.path # None /\ KindAt(b + 1)' = "inline"
       /\ KindAt(b + 1)' = "fileset" => ctx'.fileset = open'[b + 1]
       /\ \A y \in DOMAIN doc : y \in Members(x)' <=> y \in Members(x)
<1> DEFINE Recorded == ctx'.children = ctx.children /\ (Defines(e)' => e \in Members(x)')
<1> DEFINE Outcome ==
       /\ Result
       /\ \/ Recorded /\ Owner(e)' = x
          \/ /\ Adds(ctx', ctx, open[n], e) /\ Defines(e)' /\ Members(x)' = Members(x)
             /\ Owner(e)' = open[n] /\ KindOf(open[n]) = "fileset"
<1>7. ASSUME n = b, kind \in {"pathelement", "fileset"} PROVE Outcome
  <2>1. Owner(e)' = x /\ ctx.lists = <<>> /\ Defines(e)'
    BY <1>2, <1>3, <1>7
  <2>2. Members(x)' = Members(x) \cup {e}
    BY <1>2, <1>4, <2>1, OpenMembers
  <2>3. /\ Keeps(ctx', ctx, {"path_depth", "list", "fileset"})
        /\ ctx'.path_depth = ctx.path_depth + 1 /\ ctx'.list = Append(ctx.list, e)
        /\ kind = "fileset" => ctx'.fileset = e
    <3>1. CASE kind = "pathelement"
      <4>1. /\ Keeps(ctx', ctx, {"path_depth", "list"})
            /\ ctx'.path_depth = ctx.path_depth + 1 /\ ctx'.list = Append(ctx.list, e)
        BY <1>1, <1>2, <3>1, PathChildEffects
      <4> QED
        BY <3>1, <4>1 DEF Keeps
    <3>2. CASE kind = "fileset"
      BY <1>1, <1>2, <3>2, PathChildEffects
    <3> QED
      BY <1>7, <3>1, <3>2
  <2>4. ctx'.lists = <<>> /\ ctx'.children = ctx.children /\ Keeps(ctx', ctx, F)
    BY <2>1, <2>3 DEF Keeps, Fields
  <2>5. Flat(ctx)' = Append(Flat(ctx), e)
    BY <1>1, <1>2, <2>1, <2>3, <2>4, FlatThen
  <2>6. KindAt(b + 1)' = kind /\ open'[b + 1] = e
    BY <1>1, <1>7
  <2>7. \A y \in DOMAIN doc : y \in Members(x)' <=> y \in Members(x)
    BY <1>1, <2>2
  <2>8. Result
    BY <1>6, <2>2, <2>3, <2>4, <2>5, <2>6, <2>7
  <2> QED
    BY <2>1, <2>2, <2>4, <2>8
<1>8. ASSUME n = b, kind = "inline" PROVE Outcome
  <2>1. Owner(e)' = x /\ ctx.lists = <<>> /\ ~Defines(e)'
    BY <1>2, <1>3, <1>8
  <2>2. Members(x)' = Members(x)
    <3>1. Members(x)' = Members(x) \cup (IF x = x /\ Defines(e)' THEN {e} ELSE {})
      BY <1>2, <1>4, <2>1, OpenMembers
    <3> QED
      BY <2>1, <3>1
  <2>3. /\ Keeps(ctx', ctx, {"path_depth", "list", "lists", "path"})
        /\ ctx'.path_depth = ctx.path_depth + 1
        /\ ctx'.lists = Append(ctx.lists, ctx.list) /\ ctx'.list = <<>> /\ ctx'.path = e
    BY <1>1, <1>2, <1>8, PathChildEffects
  <2>4. ctx'.children = ctx.children /\ Keeps(ctx', ctx, F)
    BY <2>3 DEF Keeps, Fields
  <2>5. Flat(ctx)' = Flat(ctx) /\ Len(ctx'.lists) = 1
    BY <1>1, <1>2, <2>1, <2>3, FlatThen
  <2>6. KindAt(b + 1)' = "inline"
    BY <1>1, <1>8
  <2>8. Result
    BY <1>1, <1>2, <2>2, <2>3, <2>4, <2>5, <2>6
  <2> QED
    BY <2>1, <2>4, <2>8
<1>9. ASSUME n = b + 1, KindAt(n) = "inline" PROVE Outcome
  <2>1. Owner(e)' = x /\ Defines(e)' /\ kind = "pathelement"
    BY <1>2, <1>3, <1>9
  <2>2. Members(x)' = Members(x) \cup {e}
    BY <1>2, <1>4, <2>1, OpenMembers
  <2>3. /\ Keeps(ctx', ctx, {"path_depth", "list"})
        /\ ctx'.path_depth = ctx.path_depth + 1 /\ ctx'.list = Append(ctx.list, e)
    BY <1>1, <1>2, <2>1, PathChildEffects
  <2>4. /\ ctx'.lists = ctx.lists /\ ctx'.path = ctx.path /\ ctx'.children = ctx.children
        /\ Keeps(ctx', ctx, F)
    BY <2>3 DEF Keeps, Fields
  <2>5. Flat(ctx)' = Append(Flat(ctx), e)
    BY <1>1, <1>2, <2>3, <2>4, FlatThen
  <2>6. KindAt(b + 1)' = "inline"
    <3>1. n \in 1..n
      BY <1>2, <1>4
    <3>2. KindAt(n)' = "inline"
      BY <1>1, <1>9, <3>1
    <3> QED
      BY <1>9, <3>2
  <2>7. \A y \in DOMAIN doc : y \in Members(x)' <=> y \in Members(x)
    BY <1>1, <2>2
  <2>8. Result
    BY <1>2, <1>6, <2>2, <2>3, <2>4, <2>5, <2>6, <2>7
  <2> QED
    BY <2>1, <2>2, <2>4, <2>8
<1>10. ASSUME n = b + 1, KindAt(n) = "fileset" PROVE Outcome
  <2>1. /\ kind = "include" /\ ctx.lists = <<>>
        /\ Owner(e)' = open[n] /\ Defines(e)' /\ ctx.fileset = open[n]
        /\ open[n] \in DOMAIN doc /\ open[n] # None /\ KindOf(open[n]) = "fileset"
    BY <1>2, <1>3, <1>10
  <2>2. Members(x)' = Members(x)
    <3>1. PICK q : q = Owner(e)'
      OBVIOUS
    <3>2. KindOf(q) # "path" /\ q # x
      BY <1>2, <2>1, <3>1
    <3> QED
      BY <1>2, <1>4, <3>1, <3>2, OpenMembers
  <2>3. /\ Keeps(ctx', ctx, {"path_depth", "children"})
        /\ ctx'.path_depth = ctx.path_depth + 1 /\ Adds(ctx', ctx, open[n], e)
    BY <1>1, <1>2, <2>1, PathChildEffects
  <2>4. /\ ctx'.lists = ctx.lists /\ ctx'.list = ctx.list /\ ctx'.fileset = ctx.fileset
        /\ Keeps(ctx', ctx, F)
    BY <2>3 DEF Keeps, Fields
  <2>5. Flat(ctx)' = Flat(ctx)
    BY <1>1, <1>2, <2>4, FlatThen
  <2>6. open'[b + 1] = open[n]
    <3>1. n \in 1..n
      BY <1>2, <1>4
    <3>2. open'[n] = open[n]
      BY <1>1, <3>1
    <3> QED
      BY <1>10, <3>2
  <2>8. Result
    BY <1>2, <2>1, <2>2, <2>3, <2>4, <2>5, <2>6
  <2>9. PICK q : q = Owner(e)'
    OBVIOUS
  <2> QED
    BY <2>1, <2>2, <2>3, <2>8
<1>11. Outcome
  <2>1. \/ n = b /\ kind \in {"pathelement", "fileset"}
        \/ n = b /\ kind = "inline"
        \/ n = b + 1 /\ KindAt(n) = "inline"
        \/ n = b + 1 /\ KindAt(n) = "fileset"
    BY <1>3
  <2> HIDE DEF Outcome
  <2> QED
    BY <1>7, <1>8, <1>9, <1>10, <2>1
<1>12. /\ Where(ctx)'
       /\ \A y : y \in Pending' <=> y = ctx.task \/ y = x \/ y \in Members(x)'
  BY <1>0, <1>11, OpenPathRest
<1>13. \A y \in DOMAIN doc : y \in Pending' <=> y \in Pending
  BY <1>2, <1>11, <1>12
<1>14. Books'
  <2>1. CASE Recorded /\ Owner(e)' = x
    <3>1. Defines(e)' => e \in Pending'
      BY <1>12, <2>1
    <3>2. x \in Pending
      BY <1>2
    <3> QED
      BY <1>4, <1>13, <2>1, <3>1, <3>2, OpenStepBooks
  <2>2. CASE /\ Adds(ctx', ctx, open[n], e) /\ Defines(e)' /\ Members(x)' = Members(x)
             /\ Owner(e)' = open[n] /\ KindOf(open[n]) = "fileset"
    <3>1. PICK q : q = open[n]
      OBVIOUS
    <3>2. /\ q = Owner(e)' /\ KindOf(q) # "path" /\ Adds(ctx', ctx, q, e) /\ Defines(e)'
      BY <2>2, <3>1
    <3>3. e \notin Pending'
      <4>1. e # x /\ e \notin Members(x)'
        BY <1>1, <1>2, <2>2
      <4>2. e # ctx.task
        <5>1. ctx.task = None \/ ctx.task \in DOMAIN doc
          <6>1. ObjectAt(ctx, b)
            BY DEF InPath
          <6>2. /\ b = 2 => ctx.task = None
                /\ b = 4 => ctx.task = open[b - 1] /\ b - 1 \in 1..n
            BY <1>1, <6>1, ObjectTask
          <6>3. \A i \in 1..n : open[i] \in DOMAIN doc
            BY <1>1, StepTypes
          <6> QED
            BY <1>2, <6>2, <6>3
        <5> QED
          BY <1>1, <5>1
      <4> QED
        BY <1>12, <4>1, <4>2
    <3> QED
      BY <1>4, <1>13, <3>2, <3>3, OpenStepBooks
  <2> QED
    BY <1>11, <2>1, <2>2
<1> QED
  BY <1>1, <1>12, <1>14 DEF ChildInv

LEMMA CloseStepFacts ==
  ASSUME NEW n, CloseStep(n)
  PROVE  /\ Tracked(Content) /\ IInv /\ IInv' /\ InDocument /\ InDocument' /\ Books /\ Where(ctx)
         /\ doc' = doc /\ n = Len(open) /\ n \in Nat /\ n > 0 /\ n \in DOMAIN open
         /\ Len(open') = n - 1 /\ Len(open') \in Nat /\ (n = 1 => open' = <<>>)
         /\ \A i \in 1..n - 1 : open'[i] = open[i] /\ KindAt(i)' = KindAt(i)
         /\ ctx' = EndElement(ctx, KindAt(n)) /\ Proper(ctx)
<1>1. /\ Tracked(Content) /\ IInv /\ IInv' /\ InDocument /\ Books /\ Where(ctx)
      /\ Close /\ n = Len(open)
  BY DEF CloseStep, ChildInv
<1>2. InDocument'
  BY <1>1, CloseInDocument
<1>3. /\ doc' = doc /\ n \in Nat /\ n > 0 /\ Len(open') = n - 1
      /\ \A i \in 1..n - 1 : open'[i] = open[i] /\ KindAt(i)' = KindAt(i)
      /\ ctx' = EndElement(ctx, KindAt(n))
  BY <1>1, CloseFacts
<1>4. Proper(ctx) /\ DOMAIN open = 1..n
  BY <1>1, StepTypes
<1>5. n = 1 => open' = <<>>
  <2>1. open' \in Seq(Elements)
    BY <1>1 DEF IInv, TypeOK
  <2> QED
    BY <1>3, <2>1
<1> QED
  BY <1>1, <1>2, <1>3, <1>4, <1>5

\* A stack of which the last is taken.
LEMMA StackThen ==
  ASSUME IInv, IInv', ctx.stack # <<>>, Unstacks(ctx', ctx)
  PROVE  /\ Len(ctx.stack) \in Nat
         /\ Len(ctx.stack) = 1 => ctx'.stack = <<>> /\ ctx'.state = ctx.stack[1].state
         /\ Len(ctx.stack) = 2 => /\ Len(ctx'.stack) = 1 /\ ctx'.stack[1] = ctx.stack[1]
                                  /\ ctx'.state = ctx.stack[2].state
<1>1. /\ ctx.stack \in Seq([state : States, data : Elements \cup {None}])
      /\ ctx'.stack \in Seq([state : States, data : Elements \cup {None}])
  <2>1. ctx \in Context /\ ctx' \in Context
    BY DEF IInv, TypeOK, Context
  <2> QED
    BY <2>1 DEF Context
<1> QED
  BY <1>1 DEF Unstacks

\* An object of the project ends.
LEMMA EndProjectObject ==
  ASSUME NEW n, CloseStep(n), n = 2, ObjectAt(ctx, 2), NEW F, Keeps(ctx', ctx, F),
         F \cap {"task", "in_manifest"} = {}, Unstacks(ctx', ctx),
         ctx'.path_id = None, ctx'.fileset_id = None, ctx'.selector_id = None,
         ctx'.fileset = None
  PROVE  /\ Where(ctx)' /\ ctx'.task = None /\ ctx'.state = "PROJECT"
         /\ open[1] = Project /\ ctx.task = None
<1>1. /\ IInv /\ IInv' /\ InDocument /\ n = Len(open) /\ Len(open') = n - 1
  BY CloseStepFacts
<1>2. /\ ctx.stack # <<>> /\ Len(ctx.stack) = 1 /\ ctx.task = None /\ ~ctx.in_manifest
      /\ ctx.stack[1].state = "PROJECT" /\ open[1] = Project
  <2>1. ctx.stack # <<>> /\ Len(ctx.stack) = 1 /\ ctx.task = None /\ ~ctx.in_manifest
        /\ ctx.stack[1].state = "PROJECT" /\ open[2 - 1] = Project
    BY <1>1, ObjectTask
  <2> QED
    BY <2>1
<1>3. ctx'.stack = <<>> /\ ctx'.state = "PROJECT"
  BY <1>1, <1>2, StackThen
<1>4. ctx'.task = None /\ ~ctx'.in_manifest
  BY <1>2 DEF Keeps, Fields
<1>5. Len(open') = 1
  BY <1>1
<1>6. BetweenTargets(ctx)'
  BY <1>3, <1>4, <1>5 DEF BetweenTargets, NoTask, NoIds, Ids
<1> QED
  BY <1>2, <1>3, <1>4, <1>6 DEF Where

\* An object of a task ends.
LEMMA EndTaskObject ==
  ASSUME NEW n, CloseStep(n), n = 4, ObjectAt(ctx, 4), NEW F, Keeps(ctx', ctx, F),
         F \subseteq {"path_depth", "fileset_depth", "children", "path_id", "fileset_id",
                      "selector_id", "list", "path", "fileset", "selector", "state", "stack"},
         Unstacks(ctx', ctx),
         ctx'.path_id = None, ctx'.fileset_id = None, ctx'.selector_id = None,
         ctx'.fileset \in {None, ctx.task}
  PROVE  /\ Where(ctx)' /\ ctx'.task = ctx.task /\ ctx'.state = "TASK"
         /\ open[3] = ctx.task /\ ctx.task # None
<1>1. /\ IInv /\ IInv' /\ InDocument /\ n = Len(open) /\ Len(open') = n - 1
      /\ \A i \in 1..n - 1 : open'[i] = open[i] /\ KindAt(i)' = KindAt(i)
  BY CloseStepFacts
<1>2. /\ ctx.stack # <<>> /\ Len(ctx.stack) = 2 /\ ctx.task = open[3] /\ ~ctx.in_manifest
      /\ ctx.stack[2].state = "TASK" /\ TaskRead(ctx) /\ ctx.direct /\ ctx.node_depth = 1
      /\ ctx.task # None
  BY <1>1, ObjectTask
<1>3. Len(ctx'.stack) = 1 /\ ctx'.stack[1] = ctx.stack[1] /\ ctx'.state = "TASK"
  BY <1>1, <1>2, StackThen
<1>4. /\ ctx'.task = ctx.task /\ ctx'.in_manifest = ctx.in_manifest /\ ctx'.direct = ctx.direct
      /\ ctx'.node_depth = ctx.node_depth /\ ctx'.target = ctx.target
      /\ ctx'.filesets = ctx.filesets
  BY DEF Keeps, Fields
<1>5. /\ Len(open') = 3 /\ open'[2] = open[2] /\ open'[3] = open[3]
      /\ KindAt(2)' = KindAt(2) /\ KindAt(3)' = KindAt(3)
  BY <1>1
<1>6. TaskRead(ctx)'
  <2>1. /\ Len(open') \in Nat /\ Len(open') > 2 /\ ctx'.stack[1].state = ctx.stack[1].state
    BY <1>3, <1>5
  <2>2. "include" \in Content[KindAt(3)] => ctx'.filesets \in {<<>>, <<ctx.task>>}
    BY <1>2, <1>4 DEF TaskRead
  <2> QED
    BY <1>1, <1>2, <1>4, <1>5, <2>1, <2>2, TaskReadKept
<1>7. InDirect(ctx)'
  <2>1. ctx'.in_manifest = FALSE
    BY <1>1, <1>2, <1>4, InManifestTyped
  <2>2. ctx'.in_manifest = (Len(open') > 3 /\ KindAt(4)' = "manifest")
    <3>1. ~(Len(open') > 3)
      BY <1>5
    <3>2. (Len(open') > 3 /\ KindAt(4)' = "manifest") = FALSE
      BY <3>1
    <3> QED
      BY <2>1, <3>2
  <2>3. ctx'.node_depth = Len(open') - 2 /\ ~(Len(open') > 3)
    BY <1>2, <1>4, <1>5
  <2> QED
    BY <1>2, <1>3, <1>4, <1>6, <2>2, <2>3 DEF InDirect, NoIds, Ids
<1> QED
  BY <1>2, <1>3, <1>4, <1>7 DEF Where

\* The end of the project or of a property.
LEMMA CloseBetween ==
  ASSUME NEW n, CloseStep(n), BetweenTargets(ctx)
  PROVE  ChildInv'
<1>1. /\ IInv /\ IInv' /\ InDocument /\ InDocument' /\ Books /\ doc' = doc /\ n = Len(open)
      /\ Tracked(Content) /\ n \in Nat
      /\ Len(open') = n - 1 /\ (n = 1 => open' = <<>>)
      /\ ctx' = EndElement(ctx, KindAt(n)) /\ Proper(ctx)
  BY CloseStepFacts
<1>2. /\ ctx.state = "PROJECT" /\ ctx.stack = <<>> /\ NoTask(ctx)
      /\ n \in {1, 2} /\ (n = 2 => KindAt(2) = "property")
  BY <1>1 DEF BetweenTargets
<1>3. CASE n = 1
  <2>1. KindAt(n) = "project"
    BY <1>1, <1>3, OpenKinds
  <2>2. Keeps(ctx', ctx, {"state"}) /\ ctx'.state = "ROOT"
    BY <1>1, <1>2, <2>1, ProjectEndEffects
  <2>3. /\ ctx'.stack = ctx.stack /\ ctx'.path_id = ctx.path_id
        /\ ctx'.fileset_id = ctx.fileset_id /\ ctx'.selector_id = ctx.selector_id
        /\ ctx'.task = ctx.task /\ ctx'.fileset = ctx.fileset
        /\ ctx'.in_manifest = ctx.in_manifest /\ ctx'.children = ctx.children
    BY <2>2 DEF Keeps, Fields
  <2>4. InRoot(ctx)'
    BY <1>1, <1>2, <1>3, <2>2, <2>3 DEF InRoot, NoTask, NoIds, Ids
  <2>5. Where(ctx)'
    BY <2>4 DEF Where
  <2>6. \A x : x \in Pending' <=> x \in Pending
    BY <1>2, <2>2, <2>3, PendingIs, PendingThen
  <2>7. Books'
    BY <1>1, <2>3, <2>6, CloseKeepsBooks
  <2> QED
    BY <1>1, <2>5, <2>7 DEF ChildInv
<1>4. CASE n = 2
  <2>1. ctx' = ctx
    <3>1. KindAt(n) # "project"
      BY <1>2, <1>4
    <3> QED
      BY <1>1, <1>2, <3>1, ProjectEndEffects
  <2>2. Len(open') = 1
    BY <1>1, <1>4
  <2>3. BetweenTargets(ctx)'
    BY <1>2, <2>1, <2>2 DEF BetweenTargets, NoTask, NoIds, Ids
  <2>4. Where(ctx)'
    BY <2>3 DEF Where
  <2>5. \A x : x \in Pending' <=> x \in Pending
    BY <1>2, <2>1, PendingIs, PendingThen
  <2>6. ctx'.children = ctx.children
    BY <2>1
  <2>7. Books'
    BY <1>1, <2>5, <2>6, CloseKeepsBooks
  <2> QED
    BY <1>1, <2>4, <2>7 DEF ChildInv
<1> QED
  BY <1>2, <1>3, <1>4

\* The end of a target.
LEMMA CloseTarget ==
  ASSUME NEW n, CloseStep(n), InTarget(ctx)
  PROVE  ChildInv'
<1>1. /\ IInv /\ IInv' /\ InDocument /\ InDocument' /\ Books /\ doc' = doc /\ n = Len(open)
      /\ Len(open') = n - 1 /\ ctx' = EndElement(ctx, KindAt(n)) /\ Proper(ctx)
  BY CloseStepFacts
<1>2. /\ ctx.state = "TARGET" /\ ctx.stack = <<>> /\ NoTask(ctx) /\ n = 2
  BY <1>1 DEF InTarget
<1>3. Keeps(ctx', ctx, {"state", "target"}) /\ ctx'.state = "PROJECT"
  BY <1>1, <1>2, ProjectEndEffects
<1>4. /\ ctx'.stack = ctx.stack /\ ctx'.path_id = ctx.path_id
      /\ ctx'.fileset_id = ctx.fileset_id /\ ctx'.selector_id = ctx.selector_id
      /\ ctx'.task = ctx.task /\ ctx'.fileset = ctx.fileset
      /\ ctx'.in_manifest = ctx.in_manifest /\ ctx'.children = ctx.children
  BY <1>3 DEF Keeps, Fields
<1>5. Len(open') = 1
  BY <1>1, <1>2
<1>6. BetweenTargets(ctx)'
  BY <1>2, <1>3, <1>4, <1>5 DEF BetweenTargets, NoTask, NoIds, Ids
<1>7. Where(ctx)'
  BY <1>6 DEF Where
<1>8. \A x : x \in Pending' <=> x \in Pending
  BY <1>2, <1>3, <1>4, PendingIs, PendingThen
<1>9. Books'
  BY <1>1, <1>4, <1>8, CloseKeepsBooks
<1> QED
  BY <1>1, <1>7, <1>9 DEF ChildInv

\* The end of a description or of what it holds.
LEMMA CloseSkipped ==
  ASSUME NEW n, CloseStep(n), InSkipped(ctx)
  PROVE  ChildInv'
<1>1. /\ IInv /\ IInv' /\ InDocument /\ InDocument' /\ Books /\ doc' = doc /\ n = Len(open)
      /\ n \in Nat /\ Len(open') = n - 1 /\ Len(open') \in Nat
      /\ \A i \in 1..n - 1 : open'[i] = open[i] /\ KindAt(i)' = KindAt(i)
      /\ ctx' = EndElement(ctx, KindAt(n)) /\ Proper(ctx)
  BY CloseStepFacts
<1>2. /\ ctx.state = "SKIP" /\ NoTask(ctx) /\ ObjectAt(ctx, 2)
      /\ KindAt(2) = "description" /\ ctx.skip_depth = n - 1
  BY <1>1 DEF InSkipped
<1>3. n >= 2 /\ ctx.stack # <<>> /\ ctx.task = None
  BY <1>1, <1>2, ObjectTask
<1>4. \A x : x \in Pending <=> x = None
  BY <1>2, <1>3, PendingIs
<1>5. CASE n = 2
  <2>1. Keeps(ctx', ctx, {"skip_depth", "state", "stack"}) /\ Unstacks(ctx', ctx)
    BY <1>1, <1>2, <1>3, <1>5, SkipEndEffects
  <2>2. /\ ctx'.path_id = None /\ ctx'.fileset_id = None /\ ctx'.selector_id = None
        /\ ctx'.fileset = None /\ ctx'.children = ctx.children
    BY <1>2, <2>1 DEF Keeps, Fields, NoTask, NoIds, Ids
  <2>3. Where(ctx)' /\ ctx'.task = None /\ ctx'.state = "PROJECT"
    BY <1>2, <1>5, <2>1, <2>2, EndProjectObject
  <2>4. \A x : x \in Pending' <=> x = None
    BY <2>3, PendingThen
  <2>5. Books'
    BY <1>1, <1>4, <2>2, <2>4, CloseKeepsBooks
  <2> QED
    BY <1>1, <2>3, <2>5 DEF ChildInv
<1>6. CASE n > 2
  <2>1. ctx.skip_depth - 1 # 0
    BY <1>1, <1>2, <1>6
  <2>2. Keeps(ctx', ctx, {"skip_depth"}) /\ ctx'.skip_depth = ctx.skip_depth - 1
    BY <1>1, <1>2, <1>3, <2>1, SkipEndEffects
  <2>3. /\ ctx'.state = "SKIP" /\ ctx'.children = ctx.children
        /\ ctx'.fileset = None /\ ctx'.in_manifest = ctx.in_manifest /\ ctx'.task = None
        /\ ctx'.path_id = None /\ ctx'.fileset_id = None /\ ctx'.selector_id = None
    BY <1>2, <2>2 DEF Keeps, Fields, NoTask, NoIds, Ids
  <2>4. /\ Len(open') >= 2
        /\ \A i \in 1..2 : open'[i] = open[i] /\ KindAt(i)' = KindAt(i)
        /\ KindAt(2)' = "description"
    BY <1>1, <1>2, <1>6
  <2>5. ObjectAt(ctx, 2)'
    BY <1>1, <1>2, <2>2, <2>4, ObjectKept
  <2>6. NoTask(ctx)'
    BY <1>2, <2>3 DEF NoTask, NoIds, Ids
  <2>7. ctx'.skip_depth = Len(open') - 1
    BY <1>1, <1>2, <2>2
  <2>8. InSkipped(ctx)'
    BY <2>3, <2>4, <2>5, <2>6, <2>7 DEF InSkipped
  <2>9. Where(ctx)'
    BY <2>8 DEF Where
  <2>10. \A x : x \in Pending' <=> x = None
    BY <2>3, PendingThen
  <2>11. Books'
    BY <1>1, <1>4, <2>3, <2>10, CloseKeepsBooks
  <2> QED
    BY <1>1, <2>9, <2>11 DEF ChildInv
<1> QED
  BY <1>1, <1>3, <1>5, <1>6

\* The end of a fileset or of what it holds.
LEMMA CloseFileset ==
  ASSUME NEW n, CloseStep(n), NEW b, InFileset(ctx, b)
  PROVE  ChildInv'
<1>1. /\ Tracked(Content) /\ IInv /\ IInv' /\ InDocument /\ InDocument' /\ Books /\ doc' = doc
      /\ n = Len(open) /\ n \in Nat /\ n \in DOMAIN open
      /\ Len(open') = n - 1 /\ Len(open') \in Nat
      /\ \A i \in 1..n - 1 : open'[i] = open[i] /\ KindAt(i)' = KindAt(i)
      /\ ctx' = EndElement(ctx, KindAt(n)) /\ Proper(ctx)
  BY CloseStepFacts
<1>2. /\ ctx.state = "FILESET" /\ ObjectAt(ctx, b) /\ Ids(ctx, None, IdAt(b), None)
      /\ KindAt(b) = "fileset" /\ ctx.fileset_depth = n - b + 1 /\ ctx.fileset = open[b]
  BY <1>1 DEF InFileset
<1>3. /\ b \in {2, 4} /\ n >= b /\ b \in 1..n /\ b = (IF ctx.task = None THEN 2 ELSE 4)
      /\ ctx.stack # <<>>
      /\ b = 2 => IdAt(b) = open[b] /\ ctx.task = None
      /\ b = 4 => IdAt(b) = None /\ ctx.task # None
  BY <1>1, <1>2, ObjectTask
<1>4. /\ ctx.path_id = None /\ ctx.fileset_id = IdAt(b) /\ ctx.selector_id = None
      /\ open[b] \in DOMAIN doc /\ open[b] # None /\ None \notin DOMAIN doc
  BY <1>1, <1>2, <1>3, StepTypes DEF Ids, None
<1>5. \A x : x \in Pending <=> x = ctx.task \/ x = ctx.fileset_id
  BY <1>2, <1>3, PendingIs
<1>6. ASSUME n = b
      PROVE  /\ Keeps(ctx', ctx, {"fileset_depth", "children", "fileset_id", "fileset",
                                  "state", "stack"})
             /\ Unstacks(ctx', ctx) /\ ctx'.fileset_id = None /\ ctx'.fileset = None
             /\ ctx'.path_id = None /\ ctx'.selector_id = None
             /\ IF ctx.fileset_id # None THEN Adds(ctx', ctx, Project, ctx.fileset)
                                         ELSE ctx'.children = ctx.children
  <2>1. ctx.fileset_depth - 1 = 0 /\ ctx.fileset # None
    BY <1>1, <1>2, <1>4, <1>6
  <2>2. /\ Keeps(ctx', ctx, {"fileset_depth", "children", "fileset_id", "fileset",
                             "state", "stack"})
        /\ Unstacks(ctx', ctx) /\ ctx'.fileset_id = None /\ ctx'.fileset = None
        /\ IF ctx.fileset_id # None THEN Adds(ctx', ctx, Project, ctx.fileset)
                                    ELSE ctx'.children = ctx.children
    BY <1>1, <1>2, <1>3, <2>1, FilesetEndEffects
  <2>3. ctx'.path_id = None /\ ctx'.selector_id = None
    BY <1>4, <2>2 DEF Keeps, Fields
  <2> QED
    BY <2>2, <2>3
<1>7. CASE n = b /\ b = 2
  <2>1. Where(ctx)' /\ ctx'.task = None /\ ctx'.state = "PROJECT" /\ open[1] = Project
    BY <1>2, <1>6, <1>7, EndProjectObject
  <2>2. PICK x : x = open[2]
    OBVIOUS
  <2>3. /\ Adds(ctx', ctx, Project, x) /\ 2 \in DOMAIN open
        /\ ctx.fileset_id = x /\ ctx.task = None
    BY <1>1, <1>2, <1>3, <1>4, <1>6, <1>7, <2>2
  <2>4. Owner(x) = Project /\ Defines(x)
    <3>1. 2 \in 2..n /\ n > 0 /\ 2 - 1 = 1
      BY <1>1, <1>7
    <3>2. KindAt(1) = "project" /\ KindAt(2) = "fileset"
      BY <1>1, <1>2, <1>7, <3>1, OpenKinds
    <3>3. /\ KindAt(1) \notin {"inline", "manifest"} => Owner(open[2]) = open[1]
          /\ /\ KindAt(2) \notin {"description", "inline", "manifest", "path"}
             /\ KindAt(1) # "description"
             => Defines(open[2])
      <4>1. \A i \in 2..n : /\ KindAt(i - 1) \notin {"inline", "manifest"} =>
                                  Owner(open[i]) = open[i - 1]
                            /\ /\ KindAt(i) \notin {"description", "inline", "manifest", "path"}
                               /\ KindAt(i - 1) # "description"
                               => Defines(open[i])
        BY <1>1, OpenKinds
      <4> QED
        BY <3>1, <4>1
    <3> QED
      BY <2>1, <2>2, <3>2, <3>3
  <2>5. x \in Pending /\ x # None
    BY <1>4, <1>5, <1>7, <2>2, <2>3
  <2>6. \A y : y \in Pending' <=> y = None
    BY <2>1, PendingThen
  <2>7. \A y \in DOMAIN doc : Defines(y) => (y \in Pending' <=> y \in Pending /\ y # x)
    BY <1>4, <1>5, <2>3, <2>6
  <2>8. Books'
    BY <1>1, <2>2, <2>3, <2>4, <2>5, <2>7, CloseAddsBooks
  <2> QED
    BY <1>1, <2>1, <2>8 DEF ChildInv
<1>8. CASE n = b /\ b = 4
  <2>1. Where(ctx)' /\ ctx'.task = ctx.task /\ ctx'.state = "TASK"
    BY <1>2, <1>6, <1>8, EndTaskObject
  <2>2. ctx.fileset_id = None /\ ctx'.children = ctx.children
    BY <1>3, <1>4, <1>6, <1>8
  <2>3. \A y : y \in Pending' <=> y = ctx.task
    BY <2>1, PendingThen
  <2>4. \A y \in DOMAIN doc : Defines(y) => (y \in Pending' <=> y \in Pending)
    BY <1>4, <1>5, <2>2, <2>3
  <2>5. Books'
    BY <1>1, <2>2, <2>4, CloseKeepsBooks
  <2> QED
    BY <1>1, <2>1, <2>5 DEF ChildInv
<1>9. CASE n > b
  <2>1. ctx.fileset_depth - 1 # 0 /\ ctx.fileset # None
    BY <1>1, <1>2, <1>3, <1>4, <1>9
  <2>2. Keeps(ctx', ctx, {"fileset_depth"}) /\ ctx'.fileset_depth = ctx.fileset_depth - 1
    BY <1>1, <1>2, <1>3, <2>1, FilesetEndEffects
  <2>3. ctx'.state = ctx.state /\ ctx'.fileset = ctx.fileset /\ ctx'.children = ctx.children
    BY <2>2 DEF Keeps, Fields
  <2>4. /\ Len(open') >= b
        /\ \A i \in 1..b : open'[i] = open[i] /\ KindAt(i)' = KindAt(i)
    BY <1>1, <1>3, <1>9
  <2>5. /\ ObjectAt(ctx, b)' /\ IdAt(b)' = IdAt(b) /\ ctx'.task = ctx.task
        /\ ctx'.path_id = ctx.path_id
        /\ ctx'.fileset_id = ctx.fileset_id /\ ctx'.selector_id = ctx.selector_id
    BY <1>1, <1>2, <2>2, <2>4, ObjectKept
  <2>6. InFileset(ctx, b)'
    <3>1. Ids(ctx, None, IdAt(b), None)'
      BY <1>2, <2>5 DEF Ids
    <3>2. KindAt(b)' = "fileset" /\ open'[b] = open[b]
      BY <1>2, <1>3, <2>4
    <3>3. ctx'.fileset_depth = Len(open') - b + 1
      BY <1>1, <1>2, <1>3, <2>2
    <3> QED
      BY <1>2, <2>3, <2>5, <3>1, <3>2, <3>3 DEF InFileset
  <2>7. Where(ctx)'
    BY <1>3, <2>6 DEF Where
  <2>8. \A y : y \in Pending' <=> y \in Pending
    BY <1>2, <1>5, <2>3, <2>5, PendingThen
  <2>9. Books'
    BY <1>1, <2>3, <2>8, CloseKeepsBooks
  <2> QED
    BY <1>1, <2>7, <2>9 DEF ChildInv
<1> QED
  BY <1>1, <1>3, <1>7, <1>8, <1>9

\* The end of a selector in a selector, or of an outermost one.
LEMMA CloseSelectorFacts ==
  ASSUME NEW n, CloseStep(n), NEW b, InSelector(ctx, b), NEW x, x = open[n]
  PROVE  /\ b \in {2, 4} /\ n >= b /\ b \in 1..n /\ b - 1 \in 1..n /\ n \in 2..n /\ n - 1 \in 1..n
         /\ b = (IF ctx.task = None THEN 2 ELSE 4)
         /\ x \in DOMAIN doc /\ x # None /\ Defines(x) /\ Owner(x) = open[n - 1] /\ x # ctx.task
         /\ \A i \in b..n - 1 : open[i] # x
         /\ \A y : y \in Pending <=> y = ctx.task \/ \E i \in b..n : y = open[i]
         /\ n > b =>
              /\ Keeps(ctx', ctx, {"children", "selector", "selectors"})
              /\ Adds(ctx', ctx, open[n - 1], x)
              /\ ctx'.selector = open[n - 1] /\ ctx'.selectors = Front(ctx.selectors)
         /\ n = b =>
              /\ Keeps(ctx', ctx, {"children", "selector_id", "selector", "state", "stack"})
              /\ Unstacks(ctx', ctx) /\ Adds(ctx', ctx, open[n - 1], x)
              /\ ctx'.selector_id = None
<1>1. /\ Tracked(Content) /\ IInv /\ InDocument /\ n = Len(open) /\ n \in Nat
      /\ ctx' = EndElement(ctx, KindAt(n)) /\ Proper(ctx)
  BY CloseStepFacts
<1>2. /\ ctx.state = "SELECTOR" /\ ObjectAt(ctx, b) /\ Ids(ctx, None, None, IdAt(b))
      /\ \A i \in b..n : KindAt(i) \in {"selector", "or", "include"}
      /\ b = 4 => ctx.stack[2].data \in {None, ctx.task}
      /\ Len(ctx.selectors) = n - b
      /\ \A i \in DOMAIN ctx.selectors : ctx.selectors[i] = open[b + i - 1]
      /\ ctx.selector = x
  BY <1>1 DEF InSelector
<1>3. /\ b \in {2, 4} /\ n >= b /\ b \in 1..n /\ b - 1 \in 1..n
      /\ b = (IF ctx.task = None THEN 2 ELSE 4)
      /\ ctx.stack # <<>>
      /\ b = 2 => /\ IdAt(b) = open[b] /\ ctx.task = None /\ open[b - 1] = Project
                  /\ Len(ctx.stack) = 1
      /\ b = 4 => /\ IdAt(b) = None /\ ctx.task # None /\ open[b - 1] = ctx.task
                  /\ ctx.task = open[3] /\ Len(ctx.stack) = 2
  BY <1>1, <1>2, ObjectTask
<1>4. /\ ctx.selectors \in Seq(Elements) /\ \A i \in 1..n : open[i] \in DOMAIN doc /\ open[i] # None
      /\ \A i, j \in 1..n : i < j => open[i] < open[j]
      /\ DOMAIN doc = 1..Len(doc) /\ Len(doc) \in Nat
  BY <1>1, StepTypes
<1>5. n \in 1..n /\ n \in 2..n /\ n \in b..n /\ n - 1 \in 1..n
  BY <1>1, <1>3
<1>6. x \in DOMAIN doc /\ x # None
  BY <1>4, <1>5
<1>7. ASSUME NEW i \in 1..n - 1 PROVE open[i] # x
  <2>1. i \in 1..n /\ i < n
    BY <1>1
  <2>2. open[i] < x
    BY <1>4, <1>5, <2>1
  <2>3. open[i] \in Nat /\ x \in Nat
    BY <1>4, <1>5, <2>1
  <2> QED
    BY <2>2, <2>3
<1>8. x # ctx.task
  <2>1. CASE b = 2
    BY <1>3, <1>6, <2>1
  <2>2. CASE b = 4
    <3>1. 3 \in 1..n - 1
      BY <1>1, <1>3, <2>2
    <3> QED
      BY <1>3, <1>7, <2>2, <3>1
  <2> QED
    BY <1>3, <2>1, <2>2
<1>9. \A i \in b..n - 1 : open[i] # x
  <2>1. \A i \in b..n - 1 : i \in 1..n - 1
    BY <1>1, <1>3
  <2> QED
    BY <1>7, <2>1
<1>10. KindAt(n - 1) \notin {"inline", "manifest", "description"}
  <2>1. CASE n = b
    <3>1. b = 2 => KindAt(1) = "project"
      BY <1>1, <1>3, OpenKinds
    <3>2. b = 4 => KindAt(3) \in Tasks
      <4>1. ASSUME b = 4 PROVE KindAt(2) = "target" /\ 3 \in 2..n /\ 3 - 1 = 2
        <5>1. TaskRead(ctx)
          BY <1>2, <4>1 DEF ObjectAt
        <5> QED
          BY <1>1, <1>3, <4>1, <5>1 DEF TaskRead
      <4>2. ASSUME b = 4 PROVE KindAt(3) \in Nests(KindAt(2))
        BY <1>1, <4>1, <4>2, OpenKinds
      <4> QED
        BY <4>1, <4>2, NestsOf
    <3>3. \A k \in {"inline", "manifest", "description"} : k \notin Tasks
      BY DEF Tasks, Known
    <3>4. b = 2 => n - 1 = 1
      BY <2>1
    <3>5. b = 4 => n - 1 = 3
      BY <2>1
    <3> QED
      BY <1>3, <3>1, <3>2, <3>3, <3>4, <3>5
  <2>2. CASE n > b
    <3>1. n - 1 \in b..n
      BY <1>1, <1>3, <2>2
    <3> QED
      BY <1>2, <3>1
  <2> QED
    BY <1>1, <1>3, <2>1, <2>2
<1>11. Defines(x) /\ Owner(x) = open[n - 1]
  <2>1. KindAt(n) \in {"selector", "or", "include"}
    BY <1>2, <1>5
  <2>2. /\ KindAt(n - 1) \notin {"inline", "manifest"} => Owner(open[n]) = open[n - 1]
        /\ /\ KindAt(n) \notin {"description", "inline", "manifest", "path"}
           /\ KindAt(n - 1) # "description"
           => Defines(open[n])
    BY <1>1, <1>5, OpenKinds
  <2> QED
    BY <1>10, <2>1, <2>2
<1>12. \A y : y \in Pending <=> y = ctx.task \/ \E i \in b..n : y = open[i]
  BY <1>1, <1>2, <1>3, PendingIs
<1>13. PICK o : o = IF ctx.selector_id # None THEN Project
                    ELSE IF Last(ctx.stack).data # None THEN Last(ctx.stack).data ELSE ctx.task
  OBVIOUS
<1>14. o = open[b - 1] /\ o # None
  <2>1. CASE b = 2
    <3>1. ctx.selector_id # None
      BY <1>2, <1>3, <1>4, <2>1 DEF Ids
    <3> QED
      BY <1>3, <1>4, <1>13, <2>1, <3>1
  <2>2. CASE b = 4
    <3>1. ctx.selector_id = None /\ Last(ctx.stack) = ctx.stack[2]
      BY <1>2, <1>3, <2>2 DEF Ids, Last
    <3> QED
      BY <1>2, <1>3, <1>4, <1>13, <2>2, <3>1
  <2> QED
    BY <1>3, <2>1, <2>2
<1>15. ASSUME n > b
       PROVE  /\ Keeps(ctx', ctx, {"children", "selector", "selectors"})
              /\ Adds(ctx', ctx, open[n - 1], x)
              /\ ctx'.selector = open[n - 1] /\ ctx'.selectors = Front(ctx.selectors)
  <2>0. /\ DOMAIN ctx.selectors = 1..n - b /\ n - b \in Nat /\ n - b > 0 /\ n \in Nat /\ b \in Nat
        /\ (ctx.selectors = <<>> => Len(ctx.selectors) = 0) /\ Len(ctx.selectors) = n - b
    <3>1. DOMAIN ctx.selectors = 1..n - b
      BY <1>2, <1>4
    <3>2. n \in Nat /\ b \in Nat /\ n - b \in Nat /\ n - b > 0
      BY <1>1, <1>3, <1>15
    <3> QED
      BY <1>2, <3>1, <3>2
  <2>1. ctx.selectors # <<>>
    BY <2>0
  <2>2. Last(ctx.selectors) = open[n - 1]
    <3>1. Last(ctx.selectors) = ctx.selectors[n - b]
      BY <1>2 DEF Last
    <3>2. n - b \in DOMAIN ctx.selectors /\ b + (n - b) - 1 = n - 1
      BY <2>0
    <3> QED
      BY <1>2, <3>1, <3>2
  <2>3. /\ Keeps(ctx', ctx, {"children", "selector", "selectors"})
        /\ Adds(ctx', ctx, Last(ctx.selectors), ctx.selector)
        /\ ctx'.selector = Last(ctx.selectors) /\ ctx'.selectors = Front(ctx.selectors)
    BY <1>1, <1>2, <1>3, <1>6, <1>13, <1>14, <2>1, SelectorEndEffects
  <2> QED
    BY <1>2, <2>2, <2>3
<1>16. ASSUME n = b
       PROVE  /\ Keeps(ctx', ctx, {"children", "selector_id", "selector", "state", "stack"})
              /\ Unstacks(ctx', ctx) /\ Adds(ctx', ctx, open[n - 1], x)
              /\ ctx'.selector_id = None
  <2>1. ctx.selectors = <<>>
    BY <1>1, <1>2, <1>3, <1>4, <1>16
  <2>2. /\ Keeps(ctx', ctx, {"children", "selector_id", "selector", "state", "stack"})
        /\ Unstacks(ctx', ctx) /\ Adds(ctx', ctx, o, ctx.selector)
        /\ ctx'.selector_id = None
    BY <1>1, <1>2, <1>3, <1>6, <1>13, <1>14, <2>1, SelectorEndEffects
  <2> QED
    BY <1>2, <1>14, <1>16, <2>2
<1> QED
  BY <1>3, <1>5, <1>6, <1>8, <1>9, <1>11, <1>12, <1>15, <1>16

\* The outermost selector ends.
LEMMA CloseOuterSelector ==
  ASSUME NEW n, CloseStep(n), NEW b, InSelector(ctx, b), n = b
  PROVE  ChildInv'
<1>1. /\ Tracked(Content) /\ IInv /\ IInv' /\ InDocument /\ InDocument' /\ Books /\ doc' = doc
      /\ n = Len(open) /\ n \in Nat /\ n \in DOMAIN open
  BY CloseStepFacts
<1>2. PICK x, o : x = open[n] /\ o = open[n - 1]
  OBVIOUS
<1>3. /\ b \in {2, 4} /\ b = (IF ctx.task = None THEN 2 ELSE 4)
      /\ x \in DOMAIN doc /\ x # None /\ Defines(x) /\ Owner(x) = o /\ x # ctx.task
      /\ \A y : y \in Pending <=> y = ctx.task \/ \E i \in b..n : y = open[i]
      /\ Keeps(ctx', ctx, {"children", "selector_id", "selector", "state", "stack"})
      /\ Unstacks(ctx', ctx) /\ Adds(ctx', ctx, o, x)
      /\ ctx'.selector_id = None
  BY <1>2, CloseSelectorFacts
<1>4. /\ ObjectAt(ctx, b) /\ Ids(ctx, None, None, IdAt(b)) /\ ctx.fileset \in {None, ctx.task}
  BY DEF InSelector
<1>5. /\ ctx'.path_id = None /\ ctx'.fileset_id = None /\ ctx'.fileset = ctx.fileset
  BY <1>3, <1>4 DEF Keeps, Fields, Ids
<1>6. \A y : y \in Pending <=> y = ctx.task \/ y = x
  <2>1. \A i \in b..n : i = n
    BY <1>1, <1>3
  <2>2. n \in b..n
    BY <1>1, <1>3
  <2> QED
    BY <1>2, <1>3, <2>1, <2>2
<1>7. /\ Where(ctx)' /\ ctx'.task = ctx.task /\ ctx'.state \in {"PROJECT", "TASK"}
  <2>1. CASE b = 2
    <3>1. ctx.task = None /\ ctx'.fileset = None
      BY <1>3, <1>4, <1>5, <2>1
    <3> QED
      BY <1>3, <1>4, <1>5, <2>1, <3>1, EndProjectObject
  <2>2. CASE b = 4
    BY <1>3, <1>4, <1>5, <2>2, EndTaskObject
  <2> QED
    BY <1>3, <2>1, <2>2
<1>8. \A y : y \in Pending' <=> y = ctx.task
  BY <1>7, PendingThen
<1>9. \A y \in DOMAIN doc : Defines(y) => (y \in Pending' <=> y \in Pending /\ y # x)
  BY <1>3, <1>6, <1>8
<1>10. x \in Pending /\ Adds(ctx', ctx, Owner(x), x)
  BY <1>3, <1>6
<1>11. Books'
  BY <1>1, <1>2, <1>3, <1>9, <1>10, CloseAddsBooks
<1> QED
  BY <1>1, <1>7, <1>11 DEF ChildInv

\* A selector in a selector ends.
LEMMA CloseInnerSelector ==
  ASSUME NEW n, CloseStep(n), NEW b, InSelector(ctx, b), n > b
  PROVE  ChildInv'
<1>1. /\ Tracked(Content) /\ IInv /\ IInv' /\ InDocument /\ InDocument' /\ Books /\ doc' = doc
      /\ n = Len(open) /\ n \in Nat /\ n \in DOMAIN open
      /\ Len(open') = n - 1 /\ Len(open') \in Nat
      /\ \A i \in 1..n - 1 : open'[i] = open[i] /\ KindAt(i)' = KindAt(i)
  BY CloseStepFacts
<1>2. PICK x, o : x = open[n] /\ o = open[n - 1]
  OBVIOUS
<1>3. /\ b \in {2, 4} /\ b = (IF ctx.task = None THEN 2 ELSE 4)
      /\ x \in DOMAIN doc /\ x # None /\ Defines(x) /\ Owner(x) = o /\ x # ctx.task
      /\ \A i \in b..n - 1 : open[i] # x
      /\ \A y : y \in Pending <=> y = ctx.task \/ \E i \in b..n : y = open[i]
      /\ Keeps(ctx', ctx, {"children", "selector", "selectors"})
      /\ Adds(ctx', ctx, o, x)
      /\ ctx'.selector = o /\ ctx'.selectors = Front(ctx.selectors)
  BY <1>2, CloseSelectorFacts
<1>4. /\ ctx.state = "SELECTOR" /\ ObjectAt(ctx, b) /\ Ids(ctx, None, None, IdAt(b))
      /\ \A i \in b..n : KindAt(i) \in {"selector", "or", "include"}
      /\ ctx.fileset \in {None, ctx.task}
      /\ b = 4 => ctx.stack[2].data \in {None, ctx.task}
      /\ Len(ctx.selectors) = n - b
      /\ \A i \in DOMAIN ctx.selectors : ctx.selectors[i] = open[b + i - 1]
  BY <1>1 DEF InSelector
<1>5. ctx.selectors \in Seq(Elements)
  BY <1>1, StepTypes
<1>6. /\ Len(open') >= b /\ n - 1 \in 1..n - 1
      /\ \A i \in b..n - 1 : i \in 1..n - 1 /\ i \in b..n
      /\ \A i \in 1..b : i \in 1..n - 1
  BY <1>1, <1>3
<1>7. ctx'.state = ctx.state /\ ctx'.fileset = ctx.fileset
  BY <1>3 DEF Keeps, Fields
<1>8. /\ ObjectAt(ctx, b)' /\ IdAt(b)' = IdAt(b) /\ ctx'.task = ctx.task
      /\ ctx'.stack = ctx.stack /\ ctx'.path_id = ctx.path_id
      /\ ctx'.fileset_id = ctx.fileset_id /\ ctx'.selector_id = ctx.selector_id
  <2>1. \A i \in 1..b : open'[i] = open[i] /\ KindAt(i)' = KindAt(i)
    BY <1>1, <1>6
  <2> QED
    BY <1>1, <1>3, <1>4, <1>6, <2>1, ObjectKept
<1>9. InSelector(ctx, b)'
  <2>1. Ids(ctx, None, None, IdAt(b))'
    BY <1>4, <1>8 DEF Ids
  <2>2. (\A i \in b..Len(open) : KindAt(i) \in {"selector", "or", "include"})'
    <3>1. ASSUME NEW i \in b..n - 1 PROVE KindAt(i)' \in {"selector", "or", "include"}
      BY <1>1, <1>4, <1>6
    <3> QED
      BY <1>1, <3>1
  <2>3. /\ Len(ctx'.selectors) = n - b - 1
        /\ \A i \in 1..n - b - 1 : ctx'.selectors[i] = ctx.selectors[i]
        /\ DOMAIN ctx'.selectors = 1..n - b - 1
    <3>1. Front(ctx.selectors) = SubSeq(ctx.selectors, 1, n - b - 1)
      BY <1>4 DEF Front
    <3>2. /\ n - b - 1 \in Nat /\ n - b - 1 <= Len(ctx.selectors)
      BY <1>1, <1>3, <1>4
    <3> DEFINE s == ctx.selectors
    <3> DEFINE m == n - b - 1
    <3>3. s \in Seq(Elements) /\ m \in Nat /\ m <= Len(s) /\ ctx'.selectors = SubSeq(s, 1, m)
      BY <1>3, <1>5, <3>1, <3>2
    <3> HIDE DEF s, m
    <3>4. /\ Len(SubSeq(s, 1, m)) = m /\ DOMAIN SubSeq(s, 1, m) = 1..m
          /\ \A i \in 1..m : SubSeq(s, 1, m)[i] = s[i]
      BY <3>3
    <3> QED
      BY <3>3, <3>4 DEF s, m
  <2>4. \A i \in DOMAIN ctx'.selectors : ctx'.selectors[i] = open'[b + i - 1]
    <3> SUFFICES ASSUME NEW i \in 1..n - b - 1 PROVE ctx'.selectors[i] = open'[b + i - 1]
      BY <2>3
    <3>1. i \in DOMAIN ctx.selectors /\ b + i - 1 \in 1..n - 1
      <4>1. DOMAIN ctx.selectors = 1..n - b
        BY <1>4, <1>5
      <4>2. n \in Nat /\ b \in {2, 4} /\ n > b
        BY <1>1, <1>3
      <4>3. i \in 1..n - b /\ b + i - 1 \in 1..n - 1
        BY <4>2
      <4> QED
        BY <4>1, <4>3
    <3> QED
      BY <1>1, <1>4, <2>3, <3>1
  <2>5. ctx'.selector = open'[Len(open')]
    BY <1>1, <1>2, <1>3, <1>6
  <2>6. /\ ctx'.fileset \in {None, ctx'.task}
        /\ b = 4 => ctx'.stack[2].data \in {None, ctx'.task}
    BY <1>4, <1>7, <1>8
  <2>7. Len(ctx'.selectors) = Len(open') - b
    BY <1>1, <1>3, <2>3
  <2> QED
    BY <1>4, <1>7, <1>8, <2>1, <2>2, <2>4, <2>5, <2>6, <2>7 DEF InSelector
<1>10. Where(ctx)'
  BY <1>3, <1>9 DEF Where
<1>11. \A y : y \in Pending' <=> y = ctx.task \/ \E i \in b..n - 1 : y = open'[i]
  BY <1>1, <1>3, <1>4, <1>7, <1>8, PendingThen
<1>12. \A y \in DOMAIN doc : Defines(y) => (y \in Pending' <=> y \in Pending /\ y # x)
  <2>1. n \in b..n /\ \A i \in b..n : i \in b..n - 1 \/ i = n
    BY <1>1, <1>3
  <2>2. \A i \in b..n - 1 : open'[i] = open[i]
    BY <1>1, <1>6
  <2> QED
    BY <1>2, <1>3, <1>6, <1>11, <2>1, <2>2
<1>13. x \in Pending /\ Adds(ctx', ctx, Owner(x), x)
  <2>1. n \in b..n
    BY <1>1, <1>3
  <2> QED
    BY <1>2, <1>3, <2>1
<1>14. Books'
  BY <1>1, <1>2, <1>3, <1>12, <1>13, CloseAddsBooks
<1> QED
  BY <1>1, <1>10, <1>14 DEF ChildInv

LEMMA CloseSelector ==
  ASSUME NEW n, CloseStep(n), NEW b, InSelector(ctx, b)
  PROVE  ChildInv'
<1>1. n >= b /\ b \in {2, 4} /\ n \in Nat
  BY CloseSelectorFacts, CloseStepFacts
<1> QED
  BY <1>1, CloseOuterSelector, CloseInnerSelector

\* The end of a task.
LEMMA CloseTask ==
  ASSUME NEW n, CloseStep(n), n = 3, InDirect(ctx) \/ InXml(ctx)
  PROVE  ChildInv'
<1>1. /\ Tracked(Content) /\ IInv /\ IInv' /\ InDocument /\ InDocument' /\ Books /\ doc' = doc
      /\ n = Len(open) /\ 3 \in DOMAIN open
      /\ Len(open') = 2 /\ open'[2] = open[2] /\ KindAt(2)' = KindAt(2)
      /\ ctx' = EndElement(ctx, KindAt(n)) /\ Proper(ctx)
  <2>1. /\ Tracked(Content) /\ IInv /\ IInv' /\ InDocument /\ InDocument' /\ Books /\ doc' = doc
        /\ n = Len(open) /\ n \in DOMAIN open /\ Len(open') = n - 1
        /\ \A i \in 1..n - 1 : open'[i] = open[i] /\ KindAt(i)' = KindAt(i)
        /\ ctx' = EndElement(ctx, KindAt(n)) /\ Proper(ctx)
    BY CloseStepFacts
  <2>2. 2 \in 1..n - 1 /\ n - 1 = 2 /\ n = 3
    OBVIOUS
  <2>3. Len(open') = 2 /\ open'[2] = open[2] /\ KindAt(2)' = KindAt(2) /\ 3 \in DOMAIN open
    BY <2>1, <2>2
  <2> QED
    BY <2>1, <2>3
<1>2. /\ ctx.state = "TASK" /\ Len(ctx.stack) = 1 /\ TaskRead(ctx) /\ NoIds(ctx)
      /\ ctx.node_depth = 1 /\ ~ctx.in_manifest
  <2>1. CASE InDirect(ctx)
    <3>1. /\ ctx.state = "TASK" /\ Len(ctx.stack) = 1 /\ TaskRead(ctx) /\ NoIds(ctx)
          /\ ctx.node_depth = n - 2 /\ ctx.in_manifest = (n > 3 /\ KindAt(4) = "manifest")
      BY <1>1, <2>1 DEF InDirect
    <3>2. ctx.node_depth = 1 /\ ~(n > 3)
      BY <3>1
    <3> QED
      BY <3>1, <3>2
  <2>2. CASE InXml(ctx)
    <3>1. /\ ctx.state = "TASK" /\ Len(ctx.stack) = 1 /\ TaskRead(ctx) /\ NoIds(ctx)
          /\ ctx.node_depth = n - 2 /\ ~ctx.in_manifest
      BY <1>1, <2>2 DEF InXml
    <3>2. ctx.node_depth = 1
      BY <3>1
    <3> QED
      BY <3>1, <3>2
  <2> QED
    BY <2>1, <2>2
<1>3. PICK x, o : x = open[3] /\ o = open[2]
  OBVIOUS
<1>4. /\ KindAt(2) = "target" /\ ctx.stack[1].state = "TARGET" /\ ctx.target = o /\ ctx.task = x
  BY <1>2, <1>3 DEF TaskRead
<1>5. /\ ctx.stack # <<>> /\ ctx.direct \in BOOLEAN /\ x \in DOMAIN doc /\ x # None
      /\ None \notin DOMAIN doc
  <2>1. 3 \in 1..n
    OBVIOUS
  <2>2. IInv /\ InDocument /\ n = Len(open)
    BY <1>1
  <2>3. /\ ctx.direct \in BOOLEAN /\ (Len(ctx.stack) = 0 <=> ctx.stack = <<>>)
        /\ DOMAIN doc = 1..Len(doc)
        /\ \A i \in 1..n : open[i] \in DOMAIN doc /\ open[i] # None
    BY <2>2, StepTypes
  <2>4. ctx.stack # <<>>
    BY <1>2, <2>3
  <2>5. None \notin DOMAIN doc
    BY <2>3 DEF None
  <2> QED
    BY <1>3, <2>1, <2>3, <2>4, <2>5
<1>6. Owner(x) = o /\ Defines(x)
  <2>1. 3 \in 2..n /\ 3 - 1 = 2
    BY <1>1
  <2>2. /\ KindAt(3) \in Nests(KindAt(2))
        /\ KindAt(2) \notin {"inline", "manifest"} => Owner(open[3]) = open[2]
        /\ /\ KindAt(3) \notin {"description", "inline", "manifest", "path"}
           /\ KindAt(2) # "description"
           => Defines(open[3])
    <3>1. \A i \in 2..n : /\ KindAt(i) \in Nests(KindAt(i - 1))
                          /\ KindAt(i - 1) \notin {"inline", "manifest"} =>
                                  Owner(open[i]) = open[i - 1]
                          /\ /\ KindAt(i) \notin {"description", "inline", "manifest", "path"}
                             /\ KindAt(i - 1) # "description"
                             => Defines(open[i])
      BY <1>1, OpenKinds
    <3> QED
      BY <2>1, <3>1
  <2>3. KindAt(3) \in Tasks
    BY <1>4, <2>2, NestsOf
  <2>4. KindAt(3) \notin {"description", "inline", "manifest", "path"}
    BY <2>3 DEF Tasks, Known
  <2> QED
    BY <1>3, <1>4, <2>2, <2>4
<1>7. /\ Keeps(ctx', ctx, {"children", "node_depth", "nodes", "task", "fileset", "direct",
                           "state", "stack"})
      /\ Unstacks(ctx', ctx) /\ Adds(ctx', ctx, o, x)
      /\ ctx'.task = None /\ ctx'.fileset = None
  <2>1. /\ Keeps(ctx', ctx, {"children", "node_depth", "nodes", "task", "fileset", "direct",
                             "state", "stack"})
        /\ Unstacks(ctx', ctx) /\ Adds(ctx', ctx, ctx.target, ctx.task)
        /\ ctx'.task = None /\ ctx'.fileset = None
    BY <1>1, <1>2, <1>5, TaskEndEffects
  <2> QED
    BY <1>4, <2>1
<1>8. ctx'.stack = <<>> /\ ctx'.state = "TARGET"
  BY <1>1, <1>2, <1>4, <1>5, <1>7, StackThen
<1>9. /\ ctx'.path_id = None /\ ctx'.fileset_id = None /\ ctx'.selector_id = None
      /\ ctx'.target = o /\ ~ctx'.in_manifest
  BY <1>2, <1>4, <1>7 DEF Keeps, Fields, NoIds, Ids
<1>10. InTarget(ctx)'
  BY <1>1, <1>3, <1>4, <1>7, <1>8, <1>9 DEF InTarget, NoTask, NoIds, Ids
<1>11. Where(ctx)'
  BY <1>10 DEF Where
<1>12. /\ \A y : y \in Pending <=> y = x
       /\ \A y : y \in Pending' <=> y = None
  BY <1>2, <1>4, <1>7, <1>8, PendingIs, PendingThen
<1>13. Books'
  <2>1. \A y \in DOMAIN doc : Defines(y) => (y \in Pending' <=> y \in Pending /\ y # x)
    BY <1>5, <1>12
  <2>2. x \in Pending /\ Adds(ctx', ctx, Owner(x), x)
    BY <1>6, <1>7, <1>12
  <2> QED
    BY <1>1, <1>3, <1>6, <2>1, <2>2, CloseAddsBooks
<1> QED
  BY <1>1, <1>11, <1>13 DEF ChildInv

\* The end of what a task that is read directly holds.
LEMMA CloseDirectChild ==
  ASSUME NEW n, CloseStep(n), n # 3, InDirect(ctx)
  PROVE  ChildInv'
<1>1. /\ Tracked(Content) /\ IInv /\ IInv' /\ InDocument /\ InDocument' /\ Books /\ doc' = doc
      /\ n = Len(open) /\ Len(open') = n - 1 /\ Len(open') \in Nat
      /\ \A i \in 1..n - 1 : open'[i] = open[i] /\ KindAt(i)' = KindAt(i)
      /\ ctx' = EndElement(ctx, KindAt(n)) /\ Proper(ctx)
  BY CloseStepFacts
<1>2. /\ n \in {4, 5}
      /\ n = 4 => KindAt(4) \in {"refpath", "arg", "include", "manifest"}
      /\ n = 5 => KindAt(4) = "manifest" /\ KindAt(5) = "attribute"
  <2>1. /\ n \in {3, 4, 5}
        /\ n = 4 => KindAt(4) \in {"refpath", "arg", "include", "manifest"}
        /\ n = 5 => KindAt(4) = "manifest" /\ KindAt(5) = "attribute"
    BY <1>1, DirectFacts
  <2> QED
    BY <2>1
<1>3. /\ ctx.state = "TASK" /\ Len(ctx.stack) = 1 /\ TaskRead(ctx) /\ ctx.direct /\ NoIds(ctx)
      /\ ctx.node_depth = n - 2 /\ ctx.fileset \in {None, ctx.task}
      /\ ctx.in_manifest = (n > 3 /\ KindAt(4) = "manifest")
  BY <1>1 DEF InDirect
<1>4. /\ Keeps(ctx', ctx, {"node_depth", "in_manifest"})
      /\ ctx'.node_depth = ctx.node_depth - 1
      /\ ctx'.in_manifest = (ctx.in_manifest /\ KindAt(n) # "manifest")
  <2>1. KindAt(n) # "fileset"
    <3>1. n = 4 => KindAt(n) # "fileset"
      BY <1>2
    <3>2. n = 5 => KindAt(n) # "fileset"
      BY <1>2
    <3> QED
      BY <1>2, <3>1, <3>2
  <2>2. ctx.node_depth - 1 # 0 /\ ctx.direct \in BOOLEAN /\ ctx.stack # <<>>
    <3>1. ctx.node_depth - 1 # 0
      BY <1>2, <1>3
    <3>2. ctx.direct \in BOOLEAN /\ ctx.stack # <<>>
      BY <1>1, <1>3, StepTypes
    <3> QED
      BY <3>1, <3>2
  <2>3. PICK kind : kind = KindAt(n)
    OBVIOUS
  <2>4. Proper(ctx) /\ ctx.state = "TASK" /\ ctx.direct /\ kind # "fileset"
    BY <1>1, <1>3, <2>1, <2>3
  <2>5. LET r == EndElement(ctx, kind) IN
        /\ Keeps(r, ctx, {"node_depth", "in_manifest"})
        /\ r.node_depth = ctx.node_depth - 1
        /\ r.in_manifest = (ctx.in_manifest /\ kind # "manifest")
    BY <2>2, <2>4, TaskEndEffects
  <2>6. ctx' = EndElement(ctx, kind)
    BY <1>1, <2>3
  <2> QED
    BY <2>3, <2>5, <2>6
<1>5. /\ ctx'.state = "TASK" /\ ctx'.stack = ctx.stack /\ ctx'.task = ctx.task
      /\ ctx'.direct = ctx.direct /\ ctx'.target = ctx.target /\ ctx'.filesets = ctx.filesets
      /\ ctx'.fileset = ctx.fileset /\ ctx'.children = ctx.children
      /\ ctx'.path_id = ctx.path_id /\ ctx'.fileset_id = ctx.fileset_id
      /\ ctx'.selector_id = ctx.selector_id
  BY <1>3, <1>4 DEF Keeps, Fields
<1>6. /\ Len(open') > 2 /\ open'[2] = open[2] /\ open'[3] = open[3]
      /\ KindAt(2)' = KindAt(2) /\ KindAt(3)' = KindAt(3)
      /\ ctx'.node_depth = Len(open') - 2
      /\ n = 5 => KindAt(4)' = KindAt(4) /\ Len(open') = 4
      /\ n = 4 => Len(open') = 3
  <2>1. n - 1 \in {3, 4} /\ n \in Nat
    BY <1>2
  <2>2. 2 \in 1..n - 1 /\ 3 \in 1..n - 1
    BY <2>1
  <2>3. n = 5 => 4 \in 1..n - 1
    OBVIOUS
  <2>4. ctx'.node_depth = Len(open') - 2
    <3>1. Len(open') = n - 1 /\ ctx'.node_depth = (n - 2) - 1
      BY <1>1, <1>3, <1>4
    <3> QED
      BY <2>1, <3>1
  <2> QED
    BY <1>1, <2>1, <2>2, <2>3, <2>4
<1>7. TaskRead(ctx)'
  <2>1. "include" \in Content[KindAt(3)] => ctx'.filesets \in {<<>>, <<ctx.task>>}
    BY <1>3, <1>5 DEF TaskRead
  <2> QED
    BY <1>1, <1>3, <1>5, <1>6, <2>1, TaskReadKept
<1>8. (/\ Len(open) > 3 => KindAt(4) \in {"refpath", "arg", "include", "manifest"}
       /\ ctx.in_manifest = (Len(open) > 3 /\ KindAt(4) = "manifest"))'
  <2>1. CASE n = 4
    <3>1. ~(Len(open') > 3)
      BY <1>6, <2>1
    <3>2. ~(ctx.in_manifest /\ KindAt(4) # "manifest")
      BY <1>3
    <3>3. ctx'.in_manifest = FALSE
      BY <1>4, <2>1, <3>2
    <3>4. (Len(open') > 3 /\ KindAt(4)' = "manifest") = FALSE
      BY <3>1
    <3> QED
      BY <3>1, <3>3, <3>4
  <2>2. CASE n = 5
    <3>1. Len(open') > 3 /\ KindAt(4)' = "manifest"
      <4>1. Len(open') = 4 /\ KindAt(4)' = KindAt(4) /\ KindAt(4) = "manifest"
        BY <1>2, <1>6, <2>2
      <4>2. Len(open') > 3
        BY <4>1
      <4> QED
        BY <4>1, <4>2
    <3>2. n > 3 /\ KindAt(4) = "manifest" /\ KindAt(n) # "manifest"
      BY <1>2, <2>2
    <3>3. ctx.in_manifest
      BY <1>3, <3>2
    <3>4. ctx'.in_manifest = TRUE
      <4>1. ctx'.in_manifest = (ctx.in_manifest /\ KindAt(n) # "manifest")
        BY <1>4
      <4>2. (ctx.in_manifest /\ KindAt(n) # "manifest") = TRUE
        BY <3>2, <3>3
      <4> QED
        BY <4>1, <4>2
    <3>5. (Len(open') > 3 /\ KindAt(4)' = "manifest") = TRUE
      BY <3>1
    <3> QED
      BY <3>1, <3>4, <3>5
  <2> QED
    BY <1>2, <2>1, <2>2
<1>9. InDirect(ctx)'
  BY <1>3, <1>5, <1>6, <1>7, <1>8 DEF InDirect, NoIds, Ids
<1>10. Where(ctx)'
  BY <1>9 DEF Where
<1>11. \A y : y \in Pending' <=> y \in Pending
  BY <1>3, <1>5, PendingIs, PendingThen
<1>12. Books'
  BY <1>1, <1>5, <1>11, CloseKeepsBooks
<1> QED
  BY <1>1, <1>10, <1>12 DEF ChildInv

\* The end of what a task that is kept as an XML tree holds.
LEMMA CloseXmlChild ==
  ASSUME NEW n, CloseStep(n), n # 3, InXml(ctx)
  PROVE  ChildInv'
<1>1. /\ Tracked(Content) /\ IInv /\ IInv' /\ InDocument /\ InDocument' /\ Books /\ doc' = doc
      /\ n = Len(open) /\ Len(open') = n - 1 /\ Len(open') \in Nat
      /\ \A i \in 1..n - 1 : open'[i] = open[i] /\ KindAt(i)' = KindAt(i)
      /\ ctx' = EndElement(ctx, KindAt(n)) /\ Proper(ctx)
  BY CloseStepFacts
<1>2. /\ n \in Nat /\ n > 2
      /\ ctx.nodes = [i \in 1..n - 2 |-> open[i + 2]]
      /\ ctx.nodes \in Seq(Elements) /\ Len(ctx.nodes) = n - 2
      /\ ctx.node_depth = n - 2 /\ ctx.state = "TASK" /\ ~ctx.direct
      /\ \A i \in 3..n : XmlKind(KindAt(i))
  BY <1>1, XmlFacts
<1>3. n > 3 /\ ctx.node_depth - 1 # 0
  BY <1>2
<1>4. /\ Len(ctx.stack) = 1 /\ TaskRead(ctx) /\ NoIds(ctx) /\ ~ctx.in_manifest
  BY DEF InXml
<1>5. /\ Keeps(ctx', ctx, {"node_depth", "nodes"})
      /\ ctx'.node_depth = ctx.node_depth - 1 /\ ctx'.nodes = Front(ctx.nodes)
  <2>1. ctx.direct \in BOOLEAN /\ ctx.stack # <<>>
    BY <1>1, <1>4, StepTypes
  <2> QED
    BY <1>1, <1>2, <1>3, <2>1, TaskEndEffects
<1>6. /\ ctx'.state = "TASK" /\ ctx'.stack = ctx.stack /\ ctx'.task = ctx.task
      /\ ctx'.direct = ctx.direct /\ ctx'.target = ctx.target /\ ctx'.filesets = ctx.filesets
      /\ ctx'.children = ctx.children /\ ctx'.in_manifest = ctx.in_manifest
      /\ ctx'.path_id = ctx.path_id /\ ctx'.fileset_id = ctx.fileset_id
      /\ ctx'.selector_id = ctx.selector_id
  BY <1>2, <1>5 DEF Keeps, Fields
<1>7. /\ Len(open') > 2 /\ open'[2] = open[2] /\ open'[3] = open[3]
      /\ KindAt(2)' = KindAt(2) /\ KindAt(3)' = KindAt(3)
      /\ ctx'.node_depth = Len(open') - 2
  <2>1. 2 \in 1..n - 1 /\ 3 \in 1..n - 1
    BY <1>2, <1>3
  <2> QED
    BY <1>1, <1>2, <1>3, <1>5, <2>1
<1>8. TaskRead(ctx)'
  <2>1. "include" \in Content[KindAt(3)] => ctx'.filesets \in {<<>>, <<ctx.task>>}
    BY <1>4, <1>6 DEF TaskRead
  <2> QED
    BY <1>1, <1>4, <1>6, <1>7, <2>1, TaskReadKept
<1>9. ctx'.nodes = [i \in 1..Len(open') - 2 |-> open'[i + 2]]
  <2> DEFINE s == ctx.nodes
  <2> DEFINE m == n - 3
  <2>1. s \in Seq(Elements) /\ m \in Nat /\ m <= Len(s) /\ Len(s) - 1 = m
    BY <1>2, <1>3
  <2>2. ctx'.nodes = SubSeq(s, 1, m)
    BY <1>5, <2>1 DEF Front
  <2>3. \A i \in 1..m : s[i] = open[i + 2]
    BY <1>2
  <2> HIDE DEF s
  <2>4. ctx'.nodes = [i \in 1..m |-> s[i]]
    <3> HIDE DEF m
    <3> QED
      BY <2>1, <2>2
  <2>5. Len(open') - 2 = m /\ \A i \in 1..m : open'[i + 2] = open[i + 2]
    <3>1. \A i \in 1..m : i + 2 \in 1..n - 1
      BY <1>2
    <3> QED
      BY <1>1, <1>2, <3>1
  <2> QED
    BY <2>3, <2>4, <2>5
<1>10. \A i \in 3..Len(open') : XmlKind(KindAt(i)')
  <2>1. \A i \in 3..n - 1 : i \in 1..n - 1 /\ i \in 3..n
    BY <1>2
  <2> QED
    BY <1>1, <1>2, <2>1
<1>11. (\A i \in 3..Len(open) : XmlKind(KindAt(i)))'
  BY <1>10 DEF XmlKind
<1>12. InXml(ctx)'
  BY <1>2, <1>4, <1>6, <1>7, <1>8, <1>9, <1>11 DEF InXml, NoIds, Ids
<1>13. Where(ctx)'
  BY <1>12 DEF Where
<1>14. \A y : y \in Pending' <=> y \in Pending
  BY <1>2, <1>6, PendingIs, PendingThen
<1>15. Books'
  BY <1>1, <1>6, <1>14, CloseKeepsBooks
<1> QED
  BY <1>1, <1>13, <1>15 DEF ChildInv

\* What is known when an element is closed in a path x.
LEMMA ClosePathFacts ==
  ASSUME NEW n, CloseStep(n), NEW b, InPath(ctx, b), NEW x, x = open[b]
  PROVE  /\ ctx.state = "PATH" /\ ObjectAt(ctx, b) /\ Ids(ctx, IdAt(b), None, None)
         /\ ctx.path_depth = n - b + 1 /\ n >= b
         /\ b \in {2, 4} /\ b = (IF ctx.task = None THEN 2 ELSE 4) /\ b \in 1..n /\ b \in DOMAIN open
         /\ x \in DOMAIN doc /\ x # None /\ x \in Elements /\ KindOf(x) = "path"
         /\ KindAt(b) = "path" /\ Owner(x) = open[b - 1]
         /\ ctx.task # x /\ ctx.task \notin Members(x)
         /\ Ascending(Flat(ctx)) /\ ToSet(Flat(ctx)) = Members(x)
         /\ ctx.list \in Seq(Elements)
         /\ ctx.lists # <<>> => /\ Len(ctx.lists) = 1 /\ ctx.path # None
                                /\ n > b /\ KindAt(b + 1) = "inline"
         /\ n > b /\ KindAt(b + 1) = "fileset" => ctx.fileset = open[b + 1]
         /\ \A y : y \in Pending <=> y = ctx.task \/ y = x \/ y \in Members(x)
         /\ b = 4 => ctx.stack[2].data = x
<1>1. /\ Tracked(Content) /\ IInv /\ InDocument /\ n = Len(open) /\ n \in Nat
  BY CloseStepFacts
<1>2. /\ ctx.state = "PATH" /\ ObjectAt(ctx, b) /\ Ids(ctx, IdAt(b), None, None)
      /\ KindAt(b) = "path" /\ ctx.path_depth = n - b + 1
      /\ ctx.lists # <<>> => /\ Len(ctx.lists) = 1 /\ ctx.path # None
                             /\ n > b /\ KindAt(b + 1) = "inline"
      /\ n > b /\ KindAt(b + 1) = "fileset" => ctx.fileset = open[b + 1]
      /\ Ascending(Flat(ctx)) /\ ToSet(Flat(ctx)) = Members(x)
      /\ b = 4 => ctx.stack[2].data = x
  BY <1>1 DEF InPath
<1>3. /\ b \in {2, 4} /\ b = (IF ctx.task = None THEN 2 ELSE 4) /\ b \in 1..n /\ n >= b
      /\ b = 4 => ctx.task = open[3] /\ TaskRead(ctx)
      /\ b = 2 => ctx.task = None
  BY <1>1, <1>2, ObjectTask
<1>4. /\ \A i \in 1..n : open[i] \in DOMAIN doc /\ open[i] # None
      /\ \A i, j \in 1..n : i < j => open[i] < open[j]
      /\ \A i \in 2..n : open[i] # Project
      /\ DOMAIN doc = 1..Len(doc) /\ Len(doc) \in Nat /\ DOMAIN open = 1..n
      /\ ctx.list \in Seq(Elements)
  BY <1>1, StepTypes
<1>5. x \in DOMAIN doc /\ x # None /\ x \in Elements /\ KindOf(x) = "path" /\ b \in DOMAIN open
  <2>1. x \in Elements
    BY <1>1, <1>3, DocDomain
  <2> QED
    BY <1>2, <1>3, <1>4, <2>1 DEF KindAt
<1>6. Owner(x) = open[b - 1]
  <2>1. b \in 2..n
    BY <1>1, <1>3
  <2>2. KindAt(b) \in Nests(KindAt(b - 1))
    BY <1>1, <2>1, OpenKinds
  <2>3. KindAt(b - 1) \notin {"inline", "manifest"}
    BY <1>2, <2>2, NestsOf
  <2>4. KindAt(b - 1) \notin {"inline", "manifest"} => Owner(open[b]) = open[b - 1]
    BY <1>1, <2>1, OpenKinds
  <2> QED
    BY <2>3, <2>4
<1>7. ctx.task # x /\ ctx.task \notin Members(x)
  <2>1. CASE b = 2
    <3>1. None \notin DOMAIN doc
      BY <1>4 DEF None
    <3>2. ctx.task = None
      BY <1>3, <2>1
    <3> QED
      BY <1>5, <3>1, <3>2 DEF Members
  <2>2. CASE b = 4
    <3>1. 3 \in 1..n /\ 4 \in 1..n /\ 3 \in 2..n
      BY <1>1, <1>3, <2>2
    <3>2. PICK t : t = open[3]
      OBVIOUS
    <3>3. t < x /\ t \in DOMAIN doc /\ t # Project /\ ctx.task = t
      BY <1>3, <1>4, <2>2, <3>1, <3>2
    <3>4. Owner(t) < t /\ Owner(t) \in DOMAIN doc
      BY <1>1, <3>3, OwnerIs
    <3>5. Owner(t) # x /\ t # x
      BY <1>4, <1>5, <3>3, <3>4
    <3> QED
      BY <3>3, <3>5 DEF Members
  <2> QED
    BY <1>3, <2>1, <2>2
<1>8. \A y : y \in Pending <=> y = ctx.task \/ y = x \/ y \in Members(x)
  BY <1>2, <1>3, PendingIs
<1> QED
  BY <1>2, <1>3, <1>4, <1>5, <1>6, <1>7, <1>8

\* The path itself ends.
LEMMA CloseOuterPath ==
  ASSUME NEW n, CloseStep(n), NEW b, InPath(ctx, b), n = b
  PROVE  ChildInv'
<1>1. /\ Tracked(Content) /\ IInv /\ IInv' /\ InDocument /\ InDocument' /\ Books /\ doc' = doc
      /\ n = Len(open) /\ n \in Nat
      /\ ctx' = EndElement(ctx, KindAt(n)) /\ Proper(ctx)
  BY CloseStepFacts
<1>2. PICK x, o, k : x = open[b] /\ o = open[b - 1] /\ k = KindAt(n)
  OBVIOUS
<1>3. /\ ctx.state = "PATH" /\ ObjectAt(ctx, b) /\ Ids(ctx, IdAt(b), None, None)
      /\ ctx.path_depth = n - b + 1
      /\ b \in {2, 4} /\ b \in DOMAIN open
      /\ x \in DOMAIN doc /\ x # None /\ KindOf(x) = "path" /\ Owner(x) = o
      /\ ctx.task # x /\ ctx.task \notin Members(x)
      /\ Ascending(Flat(ctx)) /\ ToSet(Flat(ctx)) = Members(x)
      /\ ctx.list \in Seq(Elements)
      /\ ctx.lists # <<>> => n > b
      /\ \A y : y \in Pending <=> y = ctx.task \/ y = x \/ y \in Members(x)
      /\ b = 4 => ctx.stack[2].data = x
  BY <1>2, ClosePathFacts
<1>4. /\ ctx.stack # <<>>
      /\ b = 2 => /\ Len(ctx.stack) = 1 /\ ctx.task = None /\ ctx.stack[1].state = "PROJECT"
                  /\ o = Project /\ IdAt(b) = x
      /\ b = 4 => /\ Len(ctx.stack) = 2 /\ ctx.task # None /\ ctx.stack[2].state = "TASK"
                  /\ o = ctx.task
  BY <1>1, <1>2, <1>3, ObjectTask
<1>5. ctx.list = Flat(ctx)
  <2>1. ctx.lists = <<>>
    BY <1>1, <1>3
  <2> QED
    BY <2>1 DEF Flat
<1>6. /\ Keeps(ctx', ctx, {"path_depth", "children", "path_id", "list", "path", "fileset",
                           "state", "stack"})
      /\ Unstacks(ctx', ctx) /\ ctx'.path_id = None /\ ctx'.fileset = None
      /\ ctx'.children = PathAdded(ctx.children, ctx.list, x, o)
  <2>1. ctx.path_depth - 1 = 0
    <3>1. ctx.path_depth = n - b + 1 /\ n \in Nat
      BY <1>1, <1>3
    <3> QED
      BY <3>1
  <2>2. \/ /\ Last(ctx.stack).state = "TASK" /\ ctx.task # None
           /\ x = Last(ctx.stack).data /\ o = ctx.task
        \/ /\ Last(ctx.stack).state # "TASK" /\ ctx.path_id # None
           /\ x = ctx.path_id /\ o = Project
    <3>1. CASE b = 2
      <4>1. Last(ctx.stack) = ctx.stack[1] /\ ctx.path_id = x
        BY <1>3, <1>4, <3>1 DEF Last, Ids
      <4> QED
        BY <1>3, <1>4, <3>1, <4>1
    <3>2. CASE b = 4
      <4>1. Last(ctx.stack) = ctx.stack[2]
        BY <1>4, <3>2 DEF Last
      <4> QED
        BY <1>3, <1>4, <3>2, <4>1
    <3> QED
      BY <1>3, <3>1, <3>2
  <2>3. LET r == EndElement(ctx, k) IN
        /\ Keeps(r, ctx, {"path_depth", "children", "path_id", "list", "path", "fileset",
                          "state", "stack"})
        /\ Unstacks(r, ctx) /\ r.path_id = None /\ r.fileset = None
        /\ r.children = PathAdded(ctx.children, ctx.list, x, o)
    <3>1. Proper(ctx) /\ ctx.state = "PATH" /\ ctx.stack # <<>>
      BY <1>1, <1>3, <1>4
    <3> QED
      BY <2>1, <2>2, <3>1, PathEndEffect
  <2>4. ctx' = EndElement(ctx, k)
    BY <1>1, <1>2
  <2> QED
    BY <2>3, <2>4
<1>7. ctx'.fileset_id = None /\ ctx'.selector_id = None
  BY <1>3, <1>6 DEF Keeps, Fields, Ids
<1>8. Where(ctx)' /\ ctx'.task = ctx.task /\ ctx'.state \in {"PROJECT", "TASK"}
  <2>1. CASE b = 2
    BY <1>3, <1>4, <1>6, <1>7, <2>1, EndProjectObject
  <2>2. CASE b = 4
    BY <1>3, <1>4, <1>6, <1>7, <2>2, EndTaskObject
  <2> QED
    BY <1>3, <2>1, <2>2
<1>9. \A y : y \in Pending' <=> y = ctx.task
  BY <1>8, PendingThen
<1>10. \A y \in DOMAIN doc :
           Defines(y) => (y \in Pending' <=> y \in Pending /\ y # x /\ y \notin Members(x))
  BY <1>3, <1>9
<1>11. {x} \cup Members(x) \subseteq Pending
  BY <1>3
<1>12. PICK list : list = ctx.list
  OBVIOUS
<1>13. /\ list \in Seq(Elements) /\ Ascending(list) /\ ToSet(list) = Members(x)
       /\ ctx'.children = PathAdded(ctx.children, list, x, Owner(x))
  <2>1. Owner(x) = o
    BY <1>3
  <2> QED
    BY <1>3, <1>5, <1>6, <1>12, <2>1
<1>14. Books'
  <2>1. Tracked(Content) /\ IInv /\ InDocument /\ Books /\ doc' = doc
    BY <1>1
  <2>2. b \in DOMAIN open /\ KindOf(x) = "path"
    BY <1>3
  <2> QED
    BY <1>2, <1>10, <1>11, <1>13, <2>1, <2>2, PathBooks
<1> QED
  BY <1>1, <1>8, <1>14 DEF ChildInv

\* What the path holds ends, an inline path among it.
LEMMA CloseInnerPath ==
  ASSUME NEW n, CloseStep(n), NEW b, InPath(ctx, b), n > b
  PROVE  ChildInv'
<1>1. /\ Tracked(Content) /\ IInv /\ IInv' /\ InDocument /\ InDocument' /\ Books /\ doc' = doc
      /\ n = Len(open) /\ n \in Nat /\ Len(open') = n - 1 /\ Len(open') \in Nat
      /\ \A i \in 1..n - 1 : open'[i] = open[i] /\ KindAt(i)' = KindAt(i)
      /\ ctx' = EndElement(ctx, KindAt(n)) /\ Proper(ctx)
  BY CloseStepFacts
<1>2. PICK x, j : x = open[b] /\ j = b + 1
  OBVIOUS
<1>3. /\ ctx.state = "PATH" /\ ObjectAt(ctx, b) /\ Ids(ctx, IdAt(b), None, None)
      /\ ctx.path_depth = n - b + 1
      /\ b \in {2, 4} /\ b = (IF ctx.task = None THEN 2 ELSE 4)
      /\ x \in Elements /\ KindAt(b) = "path"
      /\ Ascending(Flat(ctx)) /\ ToSet(Flat(ctx)) = Members(x)
      /\ ctx.lists # <<>> => Len(ctx.lists) = 1 /\ ctx.path # None /\ KindAt(j) = "inline"
      /\ KindAt(j) = "fileset" => ctx.fileset = open[j]
      /\ \A y : y \in Pending <=> y = ctx.task \/ y = x \/ y \in Members(x)
      /\ b = 4 => ctx.stack[2].data = x
  BY <1>2, ClosePathFacts
<1>4. /\ Keeps(ctx', ctx, {"path_depth", "list", "lists", "path", "fileset"})
      /\ ctx'.path_depth = ctx.path_depth - 1
      /\ ctx'.lists = <<>> /\ Flat(ctx)' = Flat(ctx)
      /\ ctx.lists = <<>> => ctx'.fileset = ctx.fileset
  <2>1. ctx.path_depth - 1 # 0
    BY <1>1, <1>3
  <2>2. PICK k : k = KindAt(n)
    OBVIOUS
  <2>3. Proper(ctx) /\ ctx.state = "PATH" /\ ctx' = EndElement(ctx, k)
    BY <1>1, <1>3, <2>2
  <2>4. /\ ctx.lists = <<>> => Keeps(ctx', ctx, {"path_depth"})
                               /\ ctx'.path_depth = ctx.path_depth - 1
        /\ ctx.lists # <<>> /\ ctx.path # None =>
             /\ Keeps(ctx', ctx, {"path_depth", "list", "lists", "path", "fileset"})
             /\ ctx'.path_depth = ctx.path_depth - 1
             /\ ctx'.list = Last(ctx.lists) \o ctx.list /\ ctx'.lists = Front(ctx.lists)
    BY <2>1, <2>3, PathChildEndEffects
  <2>5. /\ ctx'.lists = ctx.lists /\ ctx'.list = ctx.list => Flat(ctx)' = Flat(ctx)
        /\ ctx.lists # <<>> /\ ctx'.lists = Front(ctx.lists)
              /\ ctx'.list = Last(ctx.lists) \o ctx.list =>
              Flat(ctx)' = Flat(ctx) /\ ctx'.lists = <<>>
    BY <1>1, <1>3, FlatThen
  <2>6. CASE ctx.lists = <<>>
    <3>1. Keeps(ctx', ctx, {"path_depth"}) /\ ctx'.path_depth = ctx.path_depth - 1
      BY <2>4, <2>6
    <3>2. ctx'.lists = ctx.lists /\ ctx'.list = ctx.list /\ ctx'.fileset = ctx.fileset
      BY <3>1 DEF Keeps, Fields
    <3>3. Keeps(ctx', ctx, {"path_depth", "list", "lists", "path", "fileset"})
      BY <3>1 DEF Keeps
    <3> QED
      BY <2>5, <2>6, <3>1, <3>2, <3>3
  <2>7. CASE ctx.lists # <<>>
    BY <1>3, <2>4, <2>5, <2>7
  <2> QED
    BY <2>6, <2>7
<1>5. /\ Len(open') >= b
      /\ \A i \in 1..b : open'[i] = open[i] /\ KindAt(i)' = KindAt(i)
      /\ open'[b] = x /\ KindAt(b)' = "path"
      /\ Len(open') > b => open'[j] = open[j] /\ KindAt(j)' = KindAt(j)
      /\ ctx'.path_depth = Len(open') - b + 1
  <2>1. /\ b \in 1..n - 1 /\ Len(open') >= b /\ (Len(open') > b => j \in 1..n - 1)
        /\ \A i \in 1..b : i \in 1..n - 1
    BY <1>1, <1>2, <1>3
  <2>2. ctx'.path_depth = Len(open') - b + 1
    BY <1>1, <1>3, <1>4
  <2> QED
    BY <1>1, <1>2, <1>3, <2>1, <2>2
<1>6. /\ ObjectAt(ctx, b)' /\ IdAt(b)' = IdAt(b) /\ ctx'.task = ctx.task
      /\ ctx'.stack = ctx.stack /\ ctx'.path_id = ctx.path_id
      /\ ctx'.fileset_id = ctx.fileset_id /\ ctx'.selector_id = ctx.selector_id
  <2>1. {"path_depth", "list", "lists", "path", "fileset"}
           \cap {"stack", "task", "target", "direct", "filesets", "node_depth", "in_manifest",
                 "path_id", "fileset_id", "selector_id"} = {}
    OBVIOUS
  <2> QED
    BY <1>1, <1>3, <1>4, <1>5, <2>1, ObjectKept
<1>7. ctx'.state = "PATH" /\ ctx'.children = ctx.children
  BY <1>3, <1>4 DEF Keeps, Fields
<1>8. Members(x)' = Members(x)
  BY <1>1, SameDocument
<1>9. InPath(ctx, b)'
  <2>1. Ids(ctx, IdAt(b), None, None)'
    BY <1>3, <1>6 DEF Ids
  <2>2. b = 4 => ctx'.stack[2].data = open'[b]
    BY <1>3, <1>5, <1>6
  <2>3. Len(open') > b /\ KindAt(b + 1)' = "fileset" => ctx'.fileset = open'[b + 1]
    <3> SUFFICES ASSUME Len(open') > b, KindAt(j)' = "fileset" PROVE ctx'.fileset = open'[j]
      BY <1>2
    <3>1. KindAt(j) = "fileset" /\ open'[j] = open[j]
      BY <1>5
    <3>2. ctx.lists = <<>>
      BY <1>3, <3>1
    <3> QED
      BY <1>3, <1>4, <3>1, <3>2
  <2>4. Members(open[b])' = Members(x)
    <3>1. Members(open[b])' = Members(x)'
      <4>1. open'[b] = x
        BY <1>5
      <4> QED
        BY <4>1
    <3> QED
      BY <1>8, <3>1
  <2>5. Ascending(Flat(ctx)') /\ ToSet(Flat(ctx)') = Members(open[b])'
    BY <1>3, <1>4, <2>4
  <2> QED
    BY <1>4, <1>5, <1>6, <1>7, <2>1, <2>2, <2>3, <2>5 DEF InPath
<1>10. Where(ctx)'
  BY <1>3, <1>9 DEF Where
<1>11. \A y : y \in Pending' <=> y \in Pending
  <2>1. \A y : y \in Pending' <=> y = ctx.task \/ y = x \/ y \in Members(x)'
    BY <1>3, <1>5, <1>6, <1>7, PendingThen
  <2> QED
    BY <1>3, <1>8, <2>1
<1>12. Books'
  BY <1>1, <1>7, <1>11, CloseKeepsBooks
<1> QED
  BY <1>1, <1>10, <1>12 DEF ChildInv

LEMMA ClosePath ==
  ASSUME NEW n, CloseStep(n), NEW b, InPath(ctx, b)
  PROVE  ChildInv'
<1>1. n >= b /\ b \in {2, 4} /\ n \in Nat
  BY ClosePathFacts, CloseStepFacts
<1> QED
  BY <1>1, CloseOuterPath, CloseInnerPath

-----------------------------------------------------------------------------
(* ChildInv holds of every document                                        *)

LEMMA InitChildInv == Init => ChildInv
<1> SUFFICES ASSUME Init PROVE ChildInv
  OBVIOUS
<1>1. /\ doc = <<>> /\ open = <<>> /\ DOMAIN doc = {} /\ DOMAIN open = {} /\ Len(open) = 0
      /\ ctx.state = "ROOT" /\ ctx.stack = <<>> /\ NoTask(ctx) /\ ctx.task = None
      /\ ctx.children = [e \in Elements |-> <<>>]
  BY DEF Init, NoTask, NoIds, Ids
<1>2. InDocument
  BY <1>1 DEF InDocument
<1>3. Where(ctx)
  BY <1>1 DEF Where, InRoot
<1>4. Books
  <2> SUFFICES ASSUME NEW p \in Elements
               PROVE  /\ Ascending(ctx.children[p])
                      /\ ToSet(ctx.children[p]) = Members(p) \ Pending
    BY DEF Books
  <2>1. ctx.children[p] = <<>> /\ Members(p) = {}
    BY <1>1 DEF Members
  <2>2. Ascending(<<>>) /\ ToSet(<<>>) = {}
    BY DEF Ascending, ToSet
  <2> QED
    BY <2>1, <2>2
<1> QED
  BY <1>2, <1>3, <1>4 DEF ChildInv

\* Nothing changes with the last state.
LEMMA SameChildInv ==
  ASSUME ChildInv, UNCHANGED vars
  PROVE  ChildInv'
<1>1. doc' = doc /\ open' = open /\ ctx' = ctx
  BY DEF vars
<1>2. \A x : KindOf(x)' = KindOf(x) /\ Members(x)' = Members(x)
  BY <1>1, SameDocument
<1>3. \A i : KindAt(i)' = KindAt(i)
  BY <1>1, <1>2 DEF KindAt
<1>4. InDocument'
  BY <1>1, <1>2 DEF ChildInv, InDocument
<1>5. TaskRead(ctx)' = TaskRead(ctx)
  BY <1>1, <1>3 DEF TaskRead
<1>6. \A b : ObjectAt(ctx, b)' = ObjectAt(ctx, b) /\ IdAt(b)' = IdAt(b)
  BY <1>1, <1>5 DEF ObjectAt, IdAt
<1>7. Where(ctx)'
  <2>1. InRoot(ctx) => InRoot(ctx)'
    BY <1>1 DEF InRoot
  <2>2. BetweenTargets(ctx) => BetweenTargets(ctx)'
    BY <1>1, <1>3 DEF BetweenTargets
  <2>3. InTarget(ctx) => InTarget(ctx)'
    BY <1>1, <1>3 DEF InTarget
  <2>4. InSkipped(ctx) => InSkipped(ctx)'
    BY <1>1, <1>3, <1>6 DEF InSkipped
  <2>5. InDirect(ctx) => InDirect(ctx)'
    BY <1>1, <1>3, <1>5 DEF InDirect
  <2>6. InXml(ctx) => InXml(ctx)'
    BY <1>1, <1>3, <1>5 DEF InXml
  <2>7. ASSUME NEW b, InPath(ctx, b) PROVE InPath(ctx, b)'
    BY <1>1, <1>2, <1>3, <1>6, <2>7 DEF InPath
  <2>8. ASSUME NEW b, InFileset(ctx, b) PROVE InFileset(ctx, b)'
    BY <1>1, <1>3, <1>6, <2>8 DEF InFileset
  <2>9. ASSUME NEW b, InSelector(ctx, b) PROVE InSelector(ctx, b)'
    BY <1>1, <1>3, <1>6, <2>9 DEF InSelector
  <2> QED
    BY <2>1, <2>2, <2>3, <2>4, <2>5, <2>6, <2>7, <2>8, <2>9 DEF ChildInv, Where
<1>8. Pending' = Pending
  BY <1>1, <1>2 DEF Pending
<1>9. Books'
  BY <1>1, <1>2, <1>8 DEF ChildInv, Books
<1> QED
  BY <1>4, <1>7, <1>9 DEF ChildInv

\* An opening tag keeps ChildInv, wherever the parser is.
LEMMA OpenKeepsChildInv ==
  ASSUME NEW kind, NEW e, NEW n, OpenStep(kind, e, n)
  PROVE  ChildInv'
<1>1. Where(ctx)
  BY OpenStepFacts
<1>2. CASE \E b \in {2, 4} : InPath(ctx, b) \/ InFileset(ctx, b) \/ InSelector(ctx, b)
  <2>1. PICK b \in {2, 4} : InPath(ctx, b) \/ InFileset(ctx, b) \/ InSelector(ctx, b)
    BY <1>2
  <2> QED
    BY <2>1, OpenInPath, OpenInFileset, OpenInSelector
<1>3. CASE \/ InRoot(ctx) \/ BetweenTargets(ctx) \/ InTarget(ctx) \/ InSkipped(ctx)
           \/ InDirect(ctx) \/ InXml(ctx)
  BY <1>3, OpenInRoot, OpenInProject, OpenTask, OpenInSkipped, OpenInDirect, OpenInXml
<1> QED
  BY <1>1, <1>2, <1>3 DEF Where

\* ... and so does a closing tag.
LEMMA CloseKeepsChildInv ==
  ASSUME NEW n, CloseStep(n)
  PROVE  ChildInv'
<1>1. Where(ctx) /\ open # <<>>
  BY DEF CloseStep, ChildInv, Close
<1>2. CASE \E b \in {2, 4} : InPath(ctx, b) \/ InFileset(ctx, b) \/ InSelector(ctx, b)
  <2>1. PICK b \in {2, 4} : InPath(ctx, b) \/ InFileset(ctx, b) \/ InSelector(ctx, b)
    BY <1>2
  <2> QED
    BY <2>1, ClosePath, CloseFileset, CloseSelector
<1>3. CASE BetweenTargets(ctx) \/ InTarget(ctx) \/ InSkipped(ctx)
  BY <1>3, CloseBetween, CloseTarget, CloseSkipped
<1>4. CASE InDirect(ctx) \/ InXml(ctx)
  BY <1>4, CloseTask, CloseDirectChild, CloseXmlChild
<1>5. ~ InRoot(ctx)
  BY <1>1 DEF InRoot
<1> QED
  BY <1>1, <1>2, <1>3, <1>4, <1>5 DEF Where

LEMMA NextChildInv ==
  ASSUME Tracked(Content), IInv, IInv', ChildInv, [Next]_vars
  PROVE  ChildInv'
<1>1. ASSUME NEW kind \in Kinds, Open(kind) PROVE ChildInv'
  <2>1. PICK e, n : e = Len(doc) + 1 /\ n = Len(open)
    OBVIOUS
  <2>2. OpenStep(kind, e, n)
    BY <1>1, <2>1 DEF OpenStep
  <2> QED
    BY <2>2, OpenKeepsChildInv
<1>2. CASE Close
  <2>1. PICK n : n = Len(open)
    OBVIOUS
  <2>2. CloseStep(n)
    BY <1>2, <2>1 DEF CloseStep
  <2> QED
    BY <2>2, CloseKeepsChildInv
<1>3. CASE UNCHANGED vars
  BY <1>3, SameChildInv
<1>4. CASE Finished
  BY <1>3, <1>4 DEF Finished
<1> QED
  BY <1>1, <1>2, <1>3, <1>4 DEF Next

\* When the document has been read, nothing is pending.
LEMMA ParsedInRoot == IInv /\ ChildInv /\ Parsed => InRoot(ctx) \/ BetweenTargets(ctx)
<1> SUFFICES ASSUME IInv, ChildInv, Parsed PROVE InRoot(ctx) \/ BetweenTargets(ctx)
  OBVIOUS
<1>1. Len(open) = 0 /\ Where(ctx)
  BY DEF Parsed, ChildInv
<1>2. ASSUME NEW b \in {2, 4}, InPath(ctx, b) \/ InFileset(ctx, b) \/ InSelector(ctx, b)
      PROVE  FALSE
  <2>1. Len(open) >= b
    BY <1>2 DEF InPath, InFileset, InSelector, ObjectAt
  <2> QED
    BY <1>1, <2>1
<1>3. ~ InTarget(ctx) /\ ~ InSkipped(ctx)
  BY <1>1 DEF InTarget, InSkipped, ObjectAt
<1>4. ~ InDirect(ctx) /\ ~ InXml(ctx)
  BY <1>1 DEF InDirect, InXml, TaskRead
<1> QED
  BY <1>1, <1>2, <1>3, <1>4 DEF Where

\* Every element that is read is one of Elements.
DocFits == Len(doc) <= MaxElements

LEMMA InitDocFits == Init => DocFits
  BY BoundsAssumption DEF Init, DocFits

LEMMA NextDocFits == IInv /\ DocFits /\ [Next]_vars => DocFits'
<1> SUFFICES ASSUME IInv, DocFits, [Next]_vars PROVE DocFits'
  OBVIOUS
<1>1. ASSUME NEW kind \in Kinds, Open(kind) PROVE DocFits'
  <2>1. Len(doc') = Len(doc) + 1 /\ Len(doc) < MaxElements /\ Len(doc) \in Nat
    BY <1>1, DocDomain DEF IInv, TypeOK, Open
  <2> QED
    BY <2>1, BoundsAssumption DEF DocFits
<1>2. ASSUME UNCHANGED doc PROVE DocFits'
  BY <1>2 DEF DocFits
<1> QED
  BY <1>1, <1>2 DEF Next, Close, Finished, vars

\* In every grammar that is tracked, of every document of every size and
\* depth, the parser keeps each target, task, fileset, selector, path element
\* and argument once, in document order, with the object whose element it
\* stands in (parser.c, start_element and end_element).
THEOREM ChildrenAreRecorded ==
  ASSUME Tracked(Content)
  PROVE  Spec => []ChildrenRecorded
<1>1. Init => ChildInv
  BY InitChildInv
<1>2. IInv /\ IInv' /\ ChildInv /\ [Next]_vars => ChildInv'
  BY NextChildInv
<1>3. IInv /\ ChildInv /\ DocFits => ChildrenRecorded
  <2> SUFFICES ASSUME IInv, ChildInv, DocFits, Parsed, NEW p \in DOMAIN doc
               PROVE  /\ Ascending(ctx.children[p])
                      /\ ToSet(ctx.children[p]) = Members(p)
    BY DEF ChildrenRecorded
  <2>1. ctx.state \notin {"PATH", "FILESET", "SELECTOR"} /\ ctx.task = None
    BY ParsedInRoot DEF InRoot, BetweenTargets, NoTask
  <2>2. \A x : x \in Pending <=> x = None
    BY <2>1, PendingIs
  <2>3. p \in Elements /\ None \notin DOMAIN doc
    <3>1. Len(doc) \in Nat /\ Len(doc) <= MaxElements /\ DOMAIN doc = 1..Len(doc)
      BY DocDomain DEF DocFits
    <3> QED
      BY <3>1, BoundsAssumption DEF Elements, None
  <2>4. Members(p) \subseteq DOMAIN doc
    BY DEF Members
  <2>5. Members(p) \ Pending = Members(p)
    BY <2>2, <2>3, <2>4
  <2> QED
    BY <2>3, <2>5 DEF ChildInv, Books
<1> QED
  BY <1>1, <1>2, <1>3, InitDocFits, NextDocFits, Invariance, PTL DEF Spec

=============================================================================
