----------------------------- MODULE FilesProofs -----------------------------
(***************************************************************************)
(* What a task that reports success has done, for every set of files,      *)
(* build and fault.                                                        *)
(***************************************************************************)
EXTENDS Files, TLAPS, SequenceTheorems, WellFoundedInduction

-----------------------------------------------------------------------------
(* How far the running task is                                             *)

JobOK ==
    /\ Range(job.list) \subseteq Range(Task.files)
    /\ job.phase = "open" =>
          /\ Task.task \in {"concat", "javac", "jar"} /\ job.n = 1 /\ job.read = 0
          /\ Task.fileset => \A i \in DOMAIN job.list : Exists(job.list[i])
    /\ job.phase = "files" =>
          Task.task \notin {"javac", "jar"} /\ job.read = 0 /\ (Task.task # "concat" => More)
    /\ job.phase = "stream" => Task.task \in Streams \cup {"concat", "javac"}
    /\ Streaming => More /\ Exists(File) /\ Exists(Dest) /\ disk[Dest].type = "file"
    /\ Task.task = "concat" /\ job.phase \in {"files", "stream"} =>
          Exists(Task.dest) /\ disk[Task.dest].type = "file"
    /\ Compiling =>
          /\ \A i \in DOMAIN job.list : Exists(job.list[i])
          /\ More => job.read <= Len(Types[File])

JobInv == IF build = "none" THEN job = Rest /\ at = 1 ELSE job.phase # "rest" => JobOK

TypeInv == TypeOK /\ JobInv

-----------------------------------------------------------------------------
(* What times tell                                                         *)

Told(pair) ==
    {pair[1], pair[2], Judge[pair]} \subseteq DOMAIN disk /\ ~Newer(pair[1], Judge[pair])
    => Contents(pair[2]) = Contents(pair[1])

KeptBy(pair) == \E t \in AllTasks : Keeps(t) /\ \E f \in Range(t.files) : pair = <<f, t.to[f]>>

\* Where nothing is being made, a file no older than its source is made of it,
\* and one that is kept whatever its time is whole.
Tells(pair) == Told(pair) /\ (KeptBy(pair) /\ Exists(pair[2]) => Whole(pair[2]))
TimesTell == \A pair \in Derived \ suspect : ~BeingMade(pair) => Tells(pair)

\* What is being made is so far what its source is, or the source has changed.
MakingTells ==
    /\ \A pair \in Derived : BeingMade(pair) /\ pair \in suspect => pair[1] \in changed
    /\ Running("stream") /\ Task.task \in Streams /\ <<File, Dest>> \notin suspect =>
          /\ job.read <= Len(Contents(File))
          /\ Contents(Dest) = SubSeq(Contents(File), 1, job.read)
    /\ Compiling /\ More =>
          \A j \in 1..job.read :
              <<File, Types[File][j]>> \notin suspect => Held(Types[File][j], File)

-----------------------------------------------------------------------------
(* What the running task has done                                          *)

Past == {job.list[i] : i \in 1..(job.n - 1)}
Passed == IF job.phase = "reported" THEN Range(job.list) ELSE Past
InHand == IF Running("stream") THEN {File} ELSE {}

\* A file that was not there when the filesets were resolved is new.
LeftOut ==
    Task.task # "javac" \/ job.phase = "open" =>
        \A f \in Range(Task.files) \ Range(job.list) : Task.fileset /\ (Exists(f) => f \in changed)

StreamDone(f) ==
    Readable(f) =>
        /\ Exists(Task.to[f])
        /\ ~Untold(<<f, Task.to[f]>>) =>
              Held(Task.to[f], f) \/ (Keeps(Task) /\ Whole(Task.to[f]))

StreamsInStep ==
    Task.task \in Streams =>
        /\ job.errors = 0 => \A f \in Passed \ InHand : StreamDone(f)
        /\ \A f \in Range(Task.files) : f \in Passed \cup InHand \/ Task.to[f] \notin changed

\* What FlattenSeq makes of the first m sequences.
Joined(F, m) ==
    IF m = 0 THEN <<>>
    ELSE LET flatten[i \in 1..m] == IF i = 1 THEN F[i] ELSE flatten[i - 1] \o F[i]
         IN  flatten[m]

Heading == IF Task.header THEN <<Header>> ELSE <<>>
Plain ==
    /\ \A f \in Range(Task.files) : Readable(f) /\ f # Task.dest
    /\ Task.eol \in {"", "lf", "crlf", "cr"} /\ ~Task.append

ConcatInStep ==
    Task.task = "concat" /\ job.errors = 0 =>
        /\ Task.failonerror => \A f \in Passed : Exists(f)
        /\ Plain =>
              /\ job.phase = "files" => Contents(Task.dest) = Heading \o Joined(Inputs, job.n - 1)
              /\ job.phase = "stream" =>
                    /\ job.read <= Len(Contents(File))
                    /\ Contents(Task.dest) = Heading \o Joined(Inputs, job.n - 1)
                                             \o SubSeq(Contents(File), 1, job.read)
              /\ job.phase = "reported" =>
                    Exists(Task.dest) /\ Contents(Task.dest) = Heading \o Joined(Inputs, Len(job.list))

ApplyInStep ==
    Task.task = "apply" /\ job.errors = 0 /\ Task.failonerror =>
        \A f \in Passed : Readable(f) => Held(Task.to[f], f)

DeleteInStep ==
    Task.task = "delete" /\ job.errors = 0 /\ Task.failonerror =>
        \A f \in Passed : Exists(f) => f \in changed

\* A source that is not compiled was not older, or its class has gone or come.
Fresh(s) ==
    s \notin changed /\ Exists(s) =>
        \A c \in Range(Types[s]) :
            <<s, c>> \in suspect \/ ~Exists(ClassOf[s]) \/ ~Newer(s, ClassOf[s])

CompiledInStep ==
    Task.task = "javac" =>
        /\ \A s \in DOMAIN Types :
              job.phase = "open" \/ s \notin Range(job.list) => Range(Types[s]) \cap changed = {}
        /\ job.phase # "open" =>
              /\ job.errors = 0 => \A s \in Passed : \A c \in Range(Types[s]) : Readable(s) => Held(c, s)
              /\ \A s \in Range(Task.files) \ Range(job.list) : Fresh(s)

TaskInv ==
    /\ job.phase = "rest" => changed = {}
    /\ job.phase # "rest" =>
          LeftOut /\ StreamsInStep /\ ConcatInStep /\ ApplyInStep /\ DeleteInStep /\ CompiledInStep

IInv == TypeInv /\ TimesTell /\ MakingTells /\ TaskInv

-----------------------------------------------------------------------------
(* Recursion over a sequence                                               *)

\* Induction over data, as a fact about sets: what holds at 0 and goes from
\* each number to the next holds up to any number.
LEMMA UpTo ==
  ASSUME NEW L \in Nat, NEW S, 0 \in S, \A n \in 0..L : n + 1 \in 0..L /\ n \in S => n + 1 \in S
  PROVE  0..L \subseteq S
<1> DEFINE Out == {n \in 0..L : n \notin S}
<1>1. SUFFICES ASSUME Out # {}
               PROVE  FALSE
  OBVIOUS
<1>2. PICK R : IsWellFoundedOn(R, Nat) /\ \A x, y \in Nat : y < x => <<y, x>> \in R
  BY NatLessThanWellFounded DEF OpToRel
<1>3. PICK m \in Out : \A y \in Out : ~(<<y, m>> \in R)
  <2>1. Out \subseteq Nat
    OBVIOUS
  <2> HIDE DEF Out
  <2> QED
    BY <1>1, <1>2, <2>1, WFMin
<1>4. m \in Nat /\ m # 0
  OBVIOUS
<1>5. m - 1 \in Nat /\ m - 1 < m /\ m - 1 \in 0..L /\ (m - 1) + 1 = m
  BY <1>4
<1>6. m - 1 \notin Out
  BY <1>2, <1>3, <1>4, <1>5
<1>7. m - 1 \in S
  BY <1>5, <1>6
<1>8. (m - 1) + 1 \in S
  <2>1. (m - 1) + 1 \in 0..L
    BY <1>5
  <2> QED
    BY <1>5, <1>7, <2>1
<1> QED
  BY <1>5, <1>8

\* There is a function for every first value and every way to go on from one
\* argument to the next.
Iterated(g, a, L, step) == g[0] = a /\ \A n \in 1..L : g[n] = step[<<n, g[n - 1]>>]

LEMMA IterateExists ==
  ASSUME NEW D, NEW a \in D, NEW L \in Nat, NEW step \in [(1..L) \X D -> D]
  PROVE  \E g \in [0..L -> D] : Iterated(g, a, L, step)
<1> DEFINE Iterates(g, l) == g[0] = a /\ \A n \in 1..l : g[n] = step[<<n, g[n - 1]>>]
           S == {l \in 0..L : \E g \in [0..l -> D] : Iterates(g, l)}
<1>1. 0 \in S
  <2> DEFINE g == [n \in 0..0 |-> a]
  <2>1. g \in [0..0 -> D] /\ g[0] = a /\ 1..0 = {} /\ 0 \in 0..L
    OBVIOUS
  <2> QED
    BY <2>1
<1>2. ASSUME NEW l \in 0..L, l + 1 \in 0..L, l \in S
      PROVE  l + 1 \in S
  <2>1. PICK g \in [0..l -> D] : Iterates(g, l)
    BY <1>2
  <2> DEFINE next == step[<<l + 1, g[l]>>]
             h == [n \in 0..l + 1 |-> IF n <= l THEN g[n] ELSE next]
  <2>2. next \in D
    <3>1. l + 1 \in 1..L /\ l \in 0..l /\ g[l] \in D
      BY <1>2
    <3> QED
      BY <3>1
  <2>3. /\ \A n \in 0..l + 1 : n <= l => n \in 0..l
        /\ \A n \in 0..l : n <= l /\ n \in 0..l + 1
        /\ \A n \in 1..l : n \in 0..l /\ n - 1 \in 0..l
        /\ \A n \in 1..l + 1 : n \in 1..l \/ n = l + 1
        /\ l + 1 \in 0..l + 1 /\ ~(l + 1 <= l) /\ (l + 1) - 1 = l /\ l \in 0..l /\ 0 \in 0..l
    BY <1>2
  <2>4. h \in [0..l + 1 -> D] /\ h[l + 1] = next /\ \A n \in 0..l : h[n] = g[n]
    BY <2>2, <2>3
  <2>5. Iterates(h, l + 1)
    <3> HIDE DEF h
    <3>1. h[0] = a
      BY <2>1, <2>3, <2>4
    <3>2. \A n \in 1..l : h[n] = step[<<n, h[n - 1]>>]
      BY <2>1, <2>3, <2>4
    <3>3. h[l + 1] = step[<<l + 1, h[(l + 1) - 1]>>]
      BY <2>3, <2>4
    <3> QED
      BY <2>3, <3>1, <3>2, <3>3
  <2> HIDE DEF h, Iterates
  <2> QED
    BY <1>2, <2>4, <2>5
<1>3. 0..L \subseteq S
  <2> HIDE DEF S
  <2> QED
    BY <1>1, <1>2, UpTo
<1> QED
  BY <1>3 DEF Iterated

\* What Selected leaves is what is wanted of the files.
LEMMA SelectedIs ==
  ASSUME NEW S, NEW s \in Seq(S), NEW W
  PROVE  Selected(s, W) \in Seq(S) /\ Range(Selected(s, W)) = Range(s) \cap W
<1> DEFINE L == Len(s)
           Follows(x, n) == IF s[n] \in W THEN Append(x, s[n]) ELSE x
           Is(f) == f = [n \in 0..L |-> IF n = 0 THEN <<>>
                                        ELSE IF s[n] \in W THEN Append(f[n - 1], s[n]) ELSE f[n - 1]]
           step == [q \in (1..L) \X Seq(S) |-> Follows(q[2], q[1])]
           first == CHOOSE f : Is(f)
<1>1. L \in Nat /\ DOMAIN s = 1..L /\ \A n \in 1..L : s[n] \in S
  OBVIOUS
<1>2. \A x \in Seq(S), n \in 1..L : Follows(x, n) \in Seq(S)
  BY <1>1
<1>3. step \in [(1..L) \X Seq(S) -> Seq(S)]
  BY <1>2
<1>4. PICK g \in [0..L -> Seq(S)] : g[0] = <<>> /\ \A n \in 1..L : g[n] = step[<<n, g[n - 1]>>]
  <2> DEFINE D == Seq(S)
             empty == <<>>
  <2>1. empty \in D /\ L \in Nat /\ step \in [(1..L) \X D -> D]
    BY <1>1, <1>3
  <2>2. \E g \in [0..L -> D] : Iterated(g, empty, L, step)
    <3> HIDE DEF step, L, D, empty
    <3> QED
      BY <2>1, IterateExists, Zenon
  <2> QED
    BY <2>2 DEF Iterated
<1>5. \A n \in 0..L : n # 0 => n \in 1..L /\ n - 1 \in 0..L
  BY <1>1
<1>6. Is(g)
  <2>1. \A n \in 1..L : g[n] = Follows(g[n - 1], n)
    <3> SUFFICES ASSUME NEW n \in 1..L PROVE g[n] = Follows(g[n - 1], n)
      OBVIOUS
    <3>1. g[n - 1] \in Seq(S)
      BY <1>1, <1>4
    <3>2. step[<<n, g[n - 1]>>] = Follows(g[n - 1], n)
      <4>1. <<n, g[n - 1]>> \in (1..L) \X Seq(S)
        BY <3>1
      <4>2. step[<<n, g[n - 1]>>] = Follows(<<n, g[n - 1]>>[2], <<n, g[n - 1]>>[1])
        <5> HIDE DEF Follows
        <5> QED
          BY <4>1, Zenon
      <4> QED
        BY <4>2
    <3> HIDE DEF step, Follows
    <3> QED
      BY <1>4, <3>2
  <2> HIDE DEF L, step
  <2> QED
    BY <1>4, <1>5, <2>1
<1>7. Is(first)
  BY <1>6
<1>8. /\ first[0] = <<>>
      /\ \A n \in 1..L : first[n] = Follows(first[n - 1], n)
  <2>1. 0 \in 0..L /\ \A n \in 1..L : n \in 0..L /\ n # 0
    BY <1>1
  <2> HIDE DEF first, L
  <2> QED
    BY <1>7, <2>1
<1>9. Selected(s, W) = first[L]
  BY DEF Selected
<1> HIDE DEF first
<1> DEFINE Good == {n \in 0..L : /\ first[n] \in Seq(S)
                                /\ Range(first[n]) = {s[i] : i \in 1..n} \cap W}
<1>10. 0 \in Good
  <2>1. Range(<<>>) = {} /\ 1..0 = {} /\ <<>> \in Seq(S) /\ 0 \in 0..L
    BY <1>1 DEF Range
  <2> QED
    BY <1>8, <2>1
<1>11. ASSUME NEW n \in 0..L, n + 1 \in 0..L, n \in Good
       PROVE  n + 1 \in Good
  <2>1. n + 1 \in 1..L /\ (n + 1) - 1 = n /\ 1..(n + 1) = (1..n) \cup {n + 1} /\ s[n + 1] \in S
    BY <1>1, <1>11
  <2>2. first[n + 1] = Follows(first[n], n + 1)
    BY <1>8, <2>1
  <2>3. \A x \in Seq(S), e \in S : Append(x, e) \in Seq(S) /\ Range(Append(x, e)) = Range(x) \cup {e}
    <3> TAKE x \in Seq(S), e \in S
    <3>1. /\ Append(x, e) \in Seq(S) /\ Len(Append(x, e)) = Len(x) + 1
          /\ \A i \in 1..Len(x) : Append(x, e)[i] = x[i]
          /\ Append(x, e)[Len(x) + 1] = e
      BY AppendProperties
    <3>2. 1..Len(x) + 1 = 1..Len(x) \cup {Len(x) + 1}
      OBVIOUS
    <3>3. DOMAIN Append(x, e) = 1..Len(x) + 1 /\ DOMAIN x = 1..Len(x)
      BY <3>1
    <3> DEFINE y == Append(x, e)
    <3>4. Range(y) = {y[i] : i \in 1..Len(x)} \cup {e}
      <4>1. Range(y) = {y[i] : i \in 1..Len(x) + 1}
        BY <3>3 DEF Range
      <4> HIDE DEF y
      <4> QED
        BY <3>1, <3>2, <4>1 DEF y
    <3>5. Range(x) = {x[i] : i \in 1..Len(x)}
      BY <3>3 DEF Range
    <3> QED
      BY <3>1, <3>4, <3>5
  <2>4. {s[i] : i \in 1..(n + 1)} = {s[i] : i \in 1..n} \cup {s[n + 1]}
    BY <2>1
  <2>5. CASE s[n + 1] \in W
    <3>1. first[n + 1] = Append(first[n], s[n + 1])
      BY <2>2, <2>5
    <3>2. Range(first[n + 1]) = Range(first[n]) \cup {s[n + 1]} /\ first[n + 1] \in Seq(S)
      BY <1>11, <2>1, <2>3, <3>1
    <3> QED
      BY <1>11, <2>4, <2>5, <3>2
  <2>6. CASE s[n + 1] \notin W
    <3>1. first[n + 1] = first[n]
      BY <2>2, <2>6
    <3> QED
      BY <1>11, <2>4, <2>6, <3>1
  <2> QED
    BY <2>5, <2>6
<1>12. 0..L \subseteq Good
  <2> HIDE DEF Good, L
  <2> QED
    BY <1>1, <1>10, <1>11, UpTo
<1>13. L \in 0..L /\ Range(s) = {s[i] : i \in 1..L}
  BY <1>1 DEF Range
<1> HIDE DEF L
<1> QED
  BY <1>9, <1>12, <1>13

\* What is joined of sequences goes on with the next of them.
JoinsUp(F, L, S) ==
    /\ Joined(F, 0) = <<>>
    /\ \A m \in 0..L : Joined(F, m) \in Seq(S)
    /\ \A m \in 0..L : m + 1 \in 0..L => Joined(F, m + 1) = Joined(F, m) \o F[m + 1]

LEMMA JoinedNext ==
  ASSUME NEW S, NEW L \in Nat, NEW F \in [1..L -> Seq(S)]
  PROVE  JoinsUp(F, L, S)
<1> DEFINE Follows(x, n) == IF n = 1 THEN F[n] ELSE x \o F[n]
           D == Seq(S)
           step == [q \in (1..L) \X D |-> Follows(q[2], q[1])]
           empty == <<>>
           Is(f, m) == f = [i \in 1..m |-> IF i = 1 THEN F[i] ELSE f[i - 1] \o F[i]]
           flat(m) == CHOOSE f : Is(f, m)
<1>1. \A x \in D, n \in 1..L : Follows(x, n) \in D
  OBVIOUS
<1>2. step \in [(1..L) \X D -> D]
  <2> HIDE DEF Follows, D
  <2> QED
    BY <1>1
<1>3. empty \in D
  OBVIOUS
<1>4. PICK g \in [0..L -> D] : Iterated(g, empty, L, step)
  <2> HIDE DEF step, D, empty
  <2> QED
    BY <1>2, <1>3, IterateExists, Zenon
<1>5. g[0] = <<>> /\ \A n \in 1..L : g[n - 1] \in D /\ g[n] = Follows(g[n - 1], n)
  <2>1. g[0] = <<>>
    BY <1>4 DEF Iterated
  <2> SUFFICES ASSUME NEW n \in 1..L PROVE g[n - 1] \in D /\ g[n] = Follows(g[n - 1], n)
    BY <2>1
  <2>2. n - 1 \in 0..L
    OBVIOUS
  <2>3. <<n, g[n - 1]>> \in (1..L) \X D
    <3> HIDE DEF D
    <3> QED
      BY <2>2
  <2>4. step[<<n, g[n - 1]>>] = Follows(<<n, g[n - 1]>>[2], <<n, g[n - 1]>>[1])
    <3> HIDE DEF Follows, D
    <3> QED
      BY <2>3, Zenon
  <2>5. step[<<n, g[n - 1]>>] = Follows(g[n - 1], n)
    BY <2>4
  <2>6. g[n] = step[<<n, g[n - 1]>>]
    <3> HIDE DEF step
    <3> QED
      BY <1>4 DEF Iterated
  <2>7. g[n - 1] \in D
    <3> HIDE DEF D
    <3> QED
      BY <2>2
  <2> HIDE DEF step, Follows, D
  <2> QED
    BY <2>5, <2>6, <2>7
<1> HIDE DEF step
<1>6. ASSUME NEW m \in 1..L
      PROVE  Joined(F, m) = g[m]
  <2>1. Is([i \in 1..m |-> g[i]], m)
    <3> DEFINE h == [i \in 1..m |-> g[i]]
    <3> SUFFICES \A i \in 1..m : h[i] = IF i = 1 THEN F[i] ELSE h[i - 1] \o F[i]
      OBVIOUS
    <3> TAKE i \in 1..m
    <3>1. i \in 1..L /\ h[i] = g[i] /\ (i # 1 => i - 1 \in 1..m /\ h[i - 1] = g[i - 1])
      OBVIOUS
    <3>2. g[i] = IF i = 1 THEN F[i] ELSE g[i - 1] \o F[i]
      BY <1>5, <3>1
    <3> HIDE DEF h
    <3> QED
      BY <3>1, <3>2
  <2>2. Is(flat(m), m)
    BY <2>1
  <2> DEFINE f == flat(m)
             Good == {n \in 0..m : n # 0 => f[n] = g[n]}
  <2>3. \A n \in 1..m : f[n] = IF n = 1 THEN F[n] ELSE f[n - 1] \o F[n]
    <3> HIDE DEF f
    <3> QED
      BY <2>2 DEF f
  <2> HIDE DEF f
  <2>4. 0 \in Good
    OBVIOUS
  <2>5. ASSUME NEW n \in 0..m, n + 1 \in 0..m, n \in Good
        PROVE  n + 1 \in Good
    <3>1. n + 1 \in 1..m /\ n + 1 \in 1..L /\ (n + 1) - 1 = n /\ (n # 0 => n + 1 # 1)
      BY <2>5
    <3>2. f[n + 1] = IF n + 1 = 1 THEN F[n + 1] ELSE f[n] \o F[n + 1]
      BY <2>3, <3>1
    <3>3. g[n + 1] = IF n + 1 = 1 THEN F[n + 1] ELSE g[n] \o F[n + 1]
      BY <1>5, <3>1
    <3>4. f[n + 1] = g[n + 1]
      BY <2>5, <3>1, <3>2, <3>3
    <3> QED
      BY <2>5, <3>4
  <2>6. 0..m \subseteq Good
    <3>1. m \in Nat
      OBVIOUS
    <3> HIDE DEF Good
    <3> QED
      BY <2>4, <2>5, <3>1, UpTo
  <2>7. f[m] = g[m]
    <3>1. m \in 0..m /\ m # 0
      OBVIOUS
    <3> QED
      BY <2>6, <3>1
  <2>8. Joined(F, m) = f[m]
    BY DEF Joined, f
  <2> QED
    BY <2>7, <2>8
<1>7. Joined(F, 0) = g[0]
  BY <1>5 DEF Joined
<1>8. \A m \in 0..L : Joined(F, m) = g[m]
  <2>1. \A m \in 0..L : m = 0 \/ m \in 1..L
    OBVIOUS
  <2> QED
    BY <1>6, <1>7, <2>1
<1>9. \A m \in 0..L : g[m] \in Seq(S)
  OBVIOUS
<1>10. ASSUME NEW m \in 0..L, m + 1 \in 0..L
       PROVE  Joined(F, m + 1) = Joined(F, m) \o F[m + 1]
  <2>1. m + 1 \in 1..L /\ (m + 1) - 1 = m /\ (m = 0 \/ m + 1 # 1)
    BY <1>10
  <2>2. g[m + 1] = IF m + 1 = 1 THEN F[m + 1] ELSE g[m] \o F[m + 1]
    BY <1>5, <2>1
  <2>3. F[m + 1] \in Seq(S)
    BY <2>1
  <2>4. g[m + 1] = g[m] \o F[m + 1]
    <3>1. CASE m = 0
      <4>1. g[m] = <<>> /\ g[m + 1] = F[m + 1]
        BY <1>5, <2>2, <3>1
      <4>2. <<>> \o F[m + 1] = F[m + 1]
        BY <2>3, ConcatEmptySeq
      <4> QED
        BY <4>1, <4>2
    <3> QED
      BY <2>1, <2>2, <3>1
  <2> QED
    BY <1>8, <1>10, <2>4
<1> QED
  BY <1>7, <1>8, <1>9, <1>10, <1>5 DEF JoinsUp

\* FlattenSeq joins all of them.
LEMMA FlattenIsJoined ==
  ASSUME NEW S, NEW F \in Seq(S)
  PROVE  FlattenSeq(F) = Joined(F, Len(F))
<1>1. Len(F) = 0 => F = <<>>
  OBVIOUS
<1> QED
  BY <1>1 DEF FlattenSeq, Joined

-----------------------------------------------------------------------------
(* Paths and the disk                                                      *)

LEMMA RangeIs ==
  ASSUME NEW S, NEW s \in Seq(S)
  PROVE  Range(s) \subseteq S /\ \A i \in 1..Len(s) : s[i] \in Range(s) /\ s[i] \in S
BY DEF Range

LEMMA PathFacts ==
  ASSUME NEW p \in Paths
  PROVE  Front(p) \in Paths \cup {<<>>} /\ Above(p) \subseteq Paths
BY PathsAssumption DEF Above

LEMMA MissingFacts ==
  ASSUME NEW p \in Paths \cup {<<>>}
  PROVE  Missing(p) \subseteq Paths /\ Missing(p) \cap DOMAIN disk = {}
<1>1. Missing(p) \cap DOMAIN disk = {}
  BY DEF Missing, Exists
<1>2. CASE p \in Paths
  BY <1>1, <1>2, PathFacts DEF Missing
<1>3. CASE p = <<>>
  <2>1. 1..(Len(<<>>) - 1) = {}
    OBVIOUS
  <2>2. Above(<<>>) = {}
    BY <2>1 DEF Above
  <2> QED
    BY <1>1, <1>3, <2>2 DEF Missing
<1> QED
  BY <1>2, <1>3

\* A tree that keeps what is on the disk, and has some files or directories more.
Keeping(tree, more) ==
    /\ Disk(tree)
    /\ DOMAIN tree \subseteq DOMAIN disk \cup more
    /\ \A q \in DOMAIN disk : q \in DOMAIN tree /\ tree[q] = disk[q]

LEMMA EntryFacts ==
  /\ Directory \in Entry /\ Directory.type = "directory" /\ Directory.content = <<>>
  /\ \A time \in 0..MaxTime : EmptyFile(time) \in Entry
  /\ \A e \in Entry : e.content \in Seq(Chunk) /\ e.mtime \in 0..MaxTime /\ e.type \in {"file", "directory"}
<1>1. 0 \in 0..MaxTime
  BY FilesAssumption
<1> QED
  BY <1>1 DEF Directory, EmptyFile, Entry

\* What Over makes of a tree.
OverIs(new, tree, result) ==
    /\ Disk(result)
    /\ DOMAIN result = DOMAIN new \cup DOMAIN tree
    /\ \A p \in DOMAIN result : result[p] = IF p \in DOMAIN new THEN new[p] ELSE tree[p]

LEMMA OverDisk ==
  ASSUME NEW tree, Disk(tree), NEW new, Disk(new)
  PROVE  OverIs(new, tree, Over(new, tree))
<1>0. DOMAIN new \subseteq Paths
      /\ \A p \in DOMAIN new : new[p] \in Entry /\ (new[p].type = "directory" => new[p].content = <<>>)
  BY DEF Disk
<1>1. /\ Over(new, tree) = [p \in DOMAIN new \cup DOMAIN tree |-> IF p \in DOMAIN new THEN new[p] ELSE tree[p]]
      /\ DOMAIN Over(new, tree) = DOMAIN new \cup DOMAIN tree
  BY DEF Over
<1>2. \A p \in DOMAIN new \cup DOMAIN tree :
          Over(new, tree)[p] = IF p \in DOMAIN new THEN new[p] ELSE tree[p]
  BY <1>1
<1>3. Over(new, tree) = [p \in DOMAIN Over(new, tree) |-> Over(new, tree)[p]]
  BY <1>1
<1>4. DOMAIN tree \subseteq Paths
      /\ \A p \in DOMAIN tree : tree[p] \in Entry /\ (tree[p].type = "directory" => tree[p].content = <<>>)
  BY DEF Disk
<1>5. \A p \in DOMAIN Over(new, tree) :
          /\ Over(new, tree)[p] \in Entry
          /\ Over(new, tree)[p].type = "directory" => Over(new, tree)[p].content = <<>>
  BY <1>0, <1>1, <1>2, <1>4
<1>6. DOMAIN Over(new, tree) \subseteq Paths
  BY <1>0, <1>1, <1>4
<1>7. Disk(Over(new, tree))
  BY <1>3, <1>5, <1>6, Zenon DEF Disk
<1> QED
  BY <1>1, <1>2, <1>7 DEF OverIs

\* What Put makes of a tree.
PutIs(p, entry, tree, new) ==
    /\ Disk(new)
    /\ DOMAIN new = {p} \cup DOMAIN tree
    /\ new[p] = entry
    /\ \A q \in DOMAIN tree : q # p => new[q] = tree[q]

LEMMA PutDisk ==
  ASSUME NEW tree, Disk(tree), NEW p \in Paths, NEW entry \in Entry, entry.type = "directory" => entry.content = <<>>
  PROVE  PutIs(p, entry, tree, Put(p, entry, tree))
<1> DEFINE new == [q \in {p} |-> entry]
<1>1. Disk(new) /\ DOMAIN new = {p} /\ new[p] = entry
  BY DEF Disk
<1>2. Put(p, entry, tree) = Over(new, tree)
  BY DEF Put
<1> HIDE DEF new
<1>3. OverIs(new, tree, Over(new, tree))
  BY <1>1, OverDisk, Zenon
<1> QED
  BY <1>1, <1>2, <1>3 DEF PutIs, OverIs

LEMMA MkdirpDisk ==
  ASSUME Disk(disk), NEW p \in Paths \cup {<<>>}
  PROVE  Keeping(mkdirp(p), Missing(p))
<1> DEFINE new == [q \in Missing(p) |-> Directory]
<1>1. Disk(new) /\ DOMAIN new = Missing(p)
  BY EntryFacts, MissingFacts DEF Disk
<1>2. mkdirp(p) = IF CanMake(p) THEN Over(new, disk) ELSE disk
  BY DEF mkdirp
<1> HIDE DEF new
<1>3. OverIs(new, disk, Over(new, disk))
  BY <1>1, OverDisk, Zenon
<1> QED
  BY <1>1, <1>2, <1>3, MissingFacts DEF Keeping, OverIs

-----------------------------------------------------------------------------
(* Types, and how far the running task is                                  *)

JobSet == [phase : Phases, list : Seq(Paths), n : Nat, read : Nat, stat : 0..MaxTime, errors : Nat]

Known(t) == t \in AllTasks /\ t.files \in Seq(Paths) /\ Range(t.files) \subseteq Paths

LEMMA TaskFacts ==
  ASSUME TypeOK, build # "none"
  PROVE  Known(Task)
<1>1. build \in DOMAIN Builds /\ at \in DOMAIN Builds[build]
  BY FilesAssumption DEF TypeOK
<1>2. Task \in Range(Builds[build])
  BY <1>1 DEF Task, Range
<1>3. Task \in AllTasks
  BY <1>1, <1>2 DEF AllTasks
<1>4. Task.files \in Seq(Paths)
  BY <1>3, TasksAssumption
<1> QED
  BY <1>3, <1>4, RangeIs DEF Known

\* The file in hand, and where it goes.
LEMMA FileFacts ==
  ASSUME TypeOK, build # "none", More
  PROVE  File \in Range(job.list) /\ File \in Paths
<1>1. job.list \in Seq(Paths) /\ job.n \in 1..Len(job.list)
  BY DEF TypeOK, More
<1> QED
  BY <1>1, RangeIs DEF File

LEMMA DestFacts ==
  ASSUME TypeOK, build # "none", Range(job.list) \subseteq Range(Task.files), More,
         Task.task \in {"copy", "get", "native2ascii", "move", "concat", "apply"}
  PROVE  Dest \in Paths
<1>1. Task \in AllTasks /\ File \in Range(Task.files)
  BY TaskFacts, FileFacts DEF Known
<1> QED
  BY <1>1, TasksAssumption DEF Dest

DiskStep == Disk(disk') /\ suspect' \subseteq Derived /\ changed' \subseteq Paths

LEMMA BecomesType ==
  ASSUME TypeOK, NEW new, Disk(new), NEW again, Becomes(new, again)
  PROVE  DiskStep
<1>1. disk' = new
  BY DEF Becomes
<1>2. ChangedFiles \subseteq Paths
  BY <1>1 DEF ChangedFiles, Disk
<1>3. PICK files \in {ChangedFiles} :
          /\ suspect' = (suspect \cup Unseen(files)) \ again
          /\ changed' = IF job.phase = "rest" THEN {} ELSE changed \cup files
  BY DEF Becomes
<1>4. Unseen(files) \subseteq Derived
  BY DEF Unseen
<1>5. suspect \subseteq Derived /\ changed \subseteq Paths
  BY DEF TypeOK
<1> QED
  BY <1>1, <1>2, <1>3, <1>4, <1>5 DEF DiskStep

LEMMA SameType ==
  ASSUME TypeOK, Same
  PROVE  DiskStep
BY DEF TypeOK, Same, DiskStep

LEMMA FrameType ==
  ASSUME TypeOK, Frame, DiskStep, job' \in JobSet, job'.n \in 1..(Len(job'.list) + 1)
  PROVE  TypeOK'
BY DEF TypeOK, Frame, DiskStep, JobSet

\* The job of a task that has no file open: it goes on to a file, or reports.
MovedTo(j) ==
    /\ j \in JobSet /\ j.list = job.list /\ j.n \in 1..(Len(job.list) + 1)
    /\ j.phase \in {"reported", "files"}
    /\ j.phase = "files" =>
          Task.task \notin {"javac", "jar"} /\ j.read = 0 /\ (Task.task # "concat" => j.n <= Len(job.list))

LEMMA FailingMoves ==
  ASSUME NEW j, MovedTo(j)
  PROVE  MovedTo(Failing(j)) /\ \A ok : MovedTo(If(ok, j))
<1>1. MovedTo(Failing(j))
  BY DEF MovedTo, Failing, JobSet
<1> QED
  BY <1>1 DEF If

LEMMA ReportingMoves ==
  ASSUME TypeOK
  PROVE  MovedTo(Reporting)
<1>1. job \in JobSet /\ job.n \in 1..(Len(job.list) + 1)
  BY DEF TypeOK, JobSet
<1>2. 0 \in 0..MaxTime /\ "reported" \in Phases
  BY FilesAssumption DEF Phases
<1>3. /\ Reporting \in JobSet /\ Reporting.list = job.list /\ Reporting.n = job.n
      /\ Reporting.phase = "reported"
  BY <1>1, <1>2 DEF Reporting, JobSet
<1> QED
  BY <1>1, <1>3 DEF MovedTo

LEMMA NextFileMoves ==
  ASSUME TypeOK, More, Task.task \notin {"javac", "jar"}
  PROVE  MovedTo(Next_file)
<1>1. job \in JobSet /\ job.n \in 1..Len(job.list) /\ Len(job.list) \in Nat
  BY DEF TypeOK, JobSet, More
<1> DEFINE next == [job EXCEPT !.phase = "files", !.n = @ + 1, !.read = 0, !.stat = 0]
<1>2. /\ next \in JobSet /\ next.list = job.list /\ next.phase = "files" /\ next.n = job.n + 1
      /\ next.read = 0 /\ next.n \in 1..(Len(job.list) + 1)
  <2>1. 0 \in 0..MaxTime /\ "files" \in Phases /\ 0 \in Nat /\ job.n + 1 \in Nat
        /\ job.n + 1 \in 1..(Len(job.list) + 1)
    BY <1>1, FilesAssumption DEF Phases
  <2> QED
    BY <1>1, <2>1 DEF JobSet
<1>3. job.n # Len(job.list) => next.n <= Len(job.list)
  BY <1>1, <1>2
<1>4. Next_file = IF job.n = Len(job.list) /\ Task.task # "concat" THEN Reporting ELSE next
  BY DEF Next_file
<1> HIDE DEF next
<1> QED
  BY <1>2, <1>3, <1>4, ReportingMoves DEF MovedTo

\* The output of concat is a file in a tree.
OutIn(tree) == Task.task = "concat" => Task.dest \in DOMAIN tree /\ tree[Task.dest].type = "file"

LEMMA Moves ==
  ASSUME TypeInv, build # "none", Frame, DiskStep, Range(job.list) \subseteq Range(Task.files),
         MovedTo(job'), OutIn(disk') \/ job'.phase = "reported"
  PROVE  TypeInv'
<1>1. TypeOK'
  BY FrameType DEF TypeInv, MovedTo
<1>2. Task' = Task /\ build' = build
  BY DEF Frame, Task
<1>3. JobOK'
  BY <1>2 DEF MovedTo, OutIn, JobOK, Streaming, Compiling, Running, Exists, More
<1> QED
  BY <1>1, <1>2, <1>3 DEF TypeInv, JobInv

\* What is there stays there, and a file stays a file.
Stays(tree) == \A p \in DOMAIN disk : p \in DOMAIN tree /\ (disk[p].type = "file" => tree[p].type = "file")

LEMMA JobStays ==
  ASSUME JobInv, Stays(disk'), UNCHANGED <<build, at, job>>
  PROVE  JobInv'
<1>1. /\ build' = build /\ at' = at /\ job' = job /\ Task' = Task
      /\ More' = More /\ File' = File /\ Dest' = Dest
      /\ Streaming' = Streaming /\ Compiling' = Compiling
  BY DEF Task, More, File, Dest, Streaming, Compiling, Running
<1>2. \A p : Exists(p) => Exists(p)'
  BY DEF Stays, Exists
<1>3. JobOK => JobOK'
  BY <1>1, <1>2 DEF JobOK, Stays, Exists
<1> QED
  BY <1>1, <1>3 DEF JobInv

LEMMA Working ==
  ASSUME TypeInv, build # "none", job.phase # "rest"
  PROVE  TypeOK /\ Known(Task) /\ JobOK /\ Range(job.list) \subseteq Range(Task.files)
BY TaskFacts DEF TypeInv, JobInv, JobOK

LEMMA BeginType ==
  ASSUME TypeInv, Begin
  PROVE  TypeInv'
<1>1. /\ build # "none" /\ job.phase = "rest" /\ Frame /\ Same /\ TypeOK /\ Known(Task)
      /\ build' = build /\ Task' = Task /\ disk' = disk
  BY TaskFacts DEF Begin, Running, Frame, Same, TypeInv, Task
<1> DEFINE list == IF Task.fileset THEN Selected(Task.files, DOMAIN disk) ELSE Task.files
           begun == [Rest EXCEPT !.list = list]
           opened == [begun EXCEPT !.phase = "open"]
           filing == [begun EXCEPT !.phase = "files"]
           told == [begun EXCEPT !.phase = "reported"]
<1>2. /\ list \in Seq(Paths) /\ Range(list) \subseteq Range(Task.files)
      /\ Task.fileset => Range(list) \subseteq DOMAIN disk
  BY <1>1, SelectedIs DEF Known
<1>3. job' = IF Task.task \in {"concat", "javac", "jar"} THEN opened
             ELSE IF list # <<>> THEN filing
             ELSE If(Task.task \in {"native2ascii", "apply"}, told)
  BY DEF Begin
<1> HIDE DEF list
<1>4. 0 \in 0..MaxTime /\ {"open", "files", "reported"} \subseteq Phases /\ 1 \in 1..(Len(list) + 1)
      /\ (list # <<>> => 1 <= Len(list))
  BY <1>2, FilesAssumption DEF Phases
<1>5. /\ \A j \in {opened, filing, told, Failing(told)} : j \in JobSet /\ j.list = list /\ j.n = 1 /\ j.read = 0
      /\ opened.phase = "open" /\ filing.phase = "files" /\ told.phase = "reported"
      /\ Failing(told).phase = "reported"
  <2>1. begun \in JobSet /\ begun.list = list /\ begun.n = 1 /\ begun.read = 0 /\ begun.errors = 0
    <3>1. Rest \in JobSet /\ Rest.n = 1 /\ Rest.read = 0 /\ Rest.errors = 0
      BY <1>4, FilesAssumption DEF Rest, JobSet, Phases
    <3> QED
      BY <1>2, <3>1 DEF JobSet
  <2> HIDE DEF begun
  <2>2. \A p \in {"open", "files", "reported"} :
            /\ [begun EXCEPT !.phase = p] \in JobSet /\ [begun EXCEPT !.phase = p].list = list
            /\ [begun EXCEPT !.phase = p].n = 1 /\ [begun EXCEPT !.phase = p].read = 0
            /\ [begun EXCEPT !.phase = p].phase = p
    BY <1>4, <2>1 DEF JobSet
  <2>3. \A j \in {opened, filing, told} : j \in JobSet /\ j.list = list /\ j.n = 1 /\ j.read = 0
    BY <2>2
  <2>4. opened.phase = "open" /\ filing.phase = "files" /\ told.phase = "reported"
    BY <2>2
  <2> HIDE DEF opened, filing, told
  <2>5. /\ Failing(told) \in JobSet /\ Failing(told).list = list /\ Failing(told).n = 1
        /\ Failing(told).read = 0 /\ Failing(told).phase = "reported"
    BY <2>3, <2>4 DEF Failing, JobSet
  <2> QED
    BY <2>3, <2>4, <2>5
<1>6. job' \in {opened, filing, told, Failing(told)}
  BY <1>3 DEF If
<1>7. \/ job' = opened /\ Task.task \in {"concat", "javac", "jar"}
      \/ job' = filing /\ Task.task \notin {"concat", "javac", "jar"} /\ list # <<>>
      \/ job' \in {told, Failing(told)}
  BY <1>3 DEF If
<1> HIDE DEF opened, filing, told
<1>8. /\ job'.list = list /\ job'.n = 1 /\ job'.read = 0 /\ job' \in JobSet
      /\ \/ job'.phase = "open" /\ Task.task \in {"concat", "javac", "jar"}
         \/ job'.phase = "files" /\ Task.task \notin {"concat", "javac", "jar"} /\ list # <<>>
         \/ job'.phase = "reported"
  BY <1>5, <1>6, <1>7
<1>9. TypeOK'
  BY <1>1, <1>4, <1>8, SameType, FrameType
<1>10. \A i \in 1..Len(list) : list[i] \in Range(list)
  BY <1>2, RangeIs
<1>11. DOMAIN list = 1..Len(list)
  BY <1>2
<1>12. JobOK'
  BY <1>1, <1>2, <1>4, <1>8, <1>10, <1>11 DEF JobOK, Streaming, Compiling, Running, More, Exists
<1> QED
  BY <1>1, <1>9, <1>12 DEF TypeInv, JobInv

LEMMA EndTaskType ==
  ASSUME TypeInv, EndTask
  PROVE  TypeInv'
<1>1. build # "none" /\ TypeOK /\ job' = Rest /\ disk' = disk
  BY DEF EndTask, Running, TypeInv
<1>2. at \in DOMAIN Builds[build] /\ Builds[build] \in Seq(AllTasks) /\ build \in project
  <2>1. build \in DOMAIN Builds
    BY <1>1, FilesAssumption DEF TypeOK
  <2> QED
    BY <1>1, <2>1, TasksAssumption DEF TypeOK
<1>3. at < Len(Builds[build]) => at + 1 \in DOMAIN Builds[build]
  BY <1>2
<1>4. /\ Rest \in JobSet /\ Rest.n \in 1..(Len(Rest.list) + 1) /\ Rest.phase = "rest"
  BY FilesAssumption DEF Rest, JobSet, Phases
<1>5. \/ build' = build /\ at' = at + 1 /\ at < Len(Builds[build])
      \/ build' = "none" /\ at' = 1
  BY DEF EndTask
<1>6. UNCHANGED <<disk, suspect, clock, version, builds, project>> /\ changed' = {}
  BY DEF EndTask
<1>7. TypeOK'
  BY <1>1, <1>2, <1>3, <1>4, <1>5, <1>6 DEF TypeOK, JobSet
<1> QED
  BY <1>1, <1>4, <1>5, <1>7 DEF TypeInv, JobInv

LEMMA NextMoves ==
  ASSUME TypeOK, More, Task.task \notin {"javac", "jar"}
  PROVE  MovedTo(Next_file) /\ MovedTo(Failing(Next_file)) /\ \A ok : MovedTo(If(ok, Next_file))
BY NextFileMoves, FailingMoves

LEMMA ReportMoves ==
  ASSUME TypeOK
  PROVE  MovedTo(Reporting) /\ MovedTo(Failing(Reporting)) /\ \A ok : MovedTo(If(ok, Reporting))
BY ReportingMoves, FailingMoves

\* A task that is not concat, and makes a tree of the disk or leaves it.
LEMMA MovesToTree ==
  ASSUME TypeInv, build # "none", job.phase # "rest", Frame, MovedTo(job'),
         Task.task # "concat" \/ job'.phase = "reported",
         NEW new, Disk(new), NEW again, Becomes(new, again)
  PROVE  TypeInv'
<1>1. OutIn(new) \/ job'.phase = "reported"
  BY DEF OutIn
<1>2. TypeOK /\ Range(job.list) \subseteq Range(Task.files)
  BY Working
<1>3. DiskStep /\ disk' = new
  BY <1>2, BecomesType DEF Becomes
<1> QED
  BY <1>1, <1>2, <1>3, Moves

LEMMA MovesSame ==
  ASSUME TypeInv, build # "none", job.phase # "rest", Frame, MovedTo(job'),
         OutIn(disk) \/ job'.phase = "reported", Same
  PROVE  TypeInv'
<1>1. TypeOK /\ Range(job.list) \subseteq Range(Task.files)
  BY Working
<1>2. DiskStep /\ disk' = disk
  BY <1>1, SameType DEF Same
<1> QED
  BY <1>1, <1>2, Moves

LEMMA MkdirType ==
  ASSUME TypeInv, mkdir_main
  PROVE  TypeInv'
<1>1. build # "none" /\ job.phase = "files" /\ Frame /\ More /\ Task.task = "mkdir" /\ TypeOK
  BY DEF mkdir_main, OneFile, Running, TypeInv
<1>2. Disk(mkdirp(File))
  BY <1>1, FileFacts, MkdirpDisk DEF Keeping, TypeOK
<1>3. MovedTo(job')
  BY <1>1, NextMoves DEF mkdir_main
<1>4. Becomes(mkdirp(File), {})
  BY DEF mkdir_main
<1> QED
  BY <1>1, <1>2, <1>3, <1>4, MovesToTree

\* What Rename makes of a tree: what is not under the name stays.
LEMMA RenameDisk ==
  ASSUME NEW tree, Disk(tree), NEW from, NEW to,
         \A q \in In(tree, from) : to \o SubSeq(q, Len(from) + 1, Len(q)) \in Paths
  PROVE  Disk(Rename(tree, from, to))
<1> DEFINE moved == [q \in In(tree, from) |-> to \o SubSeq(q, Len(from) + 1, Len(q))]
           new == [p \in (DOMAIN tree \ In(tree, from)) \cup Range(moved) |->
                      IF p \in Range(moved) THEN tree[CHOOSE q \in DOMAIN moved : moved[q] = p] ELSE tree[p]]
<1>1. DOMAIN moved = In(tree, from) /\ In(tree, from) \subseteq DOMAIN tree
  BY DEF In
<1>2. \A p \in Range(moved) : p \in Paths /\ \E q \in DOMAIN moved : moved[q] = p
  BY DEF Range
<1>3. Rename(tree, from, to) = new
  BY DEF Rename
<1> HIDE DEF moved
<1>4. DOMAIN tree \subseteq Paths
      /\ \A p \in DOMAIN tree : tree[p] \in Entry /\ (tree[p].type = "directory" => tree[p].content = <<>>)
  BY DEF Disk
<1>5. \A p \in Range(moved) : (CHOOSE q \in DOMAIN moved : moved[q] = p) \in DOMAIN tree
  BY <1>1, <1>2
<1>6. \A p \in DOMAIN new : \E q \in DOMAIN tree : new[p] = tree[q]
  BY <1>1, <1>5
<1>7. DOMAIN new \subseteq Paths
  BY <1>2, <1>4
<1>8. new = [p \in DOMAIN new |-> new[p]]
  OBVIOUS
<1> HIDE DEF new
<1>9. \A p \in DOMAIN new : new[p] \in Entry /\ (new[p].type = "directory" => new[p].content = <<>>)
  BY <1>4, <1>6
<1>10. Disk(new)
  BY <1>7, <1>8, <1>9, Zenon DEF Disk
<1> QED
  BY <1>3, <1>10

LEMMA MoveType ==
  ASSUME TypeInv, do_move_file
  PROVE  TypeInv'
<1>1. /\ build # "none" /\ job.phase = "files" /\ Frame /\ More /\ Task.task = "move"
      /\ TypeOK /\ Known(Task) /\ Range(job.list) \subseteq Range(Task.files)
  BY Working DEF do_move_file, OneFile, Running
<1> DEFINE tree == mkdirp(Front(Dest))
<1>2. MovedTo(job')
  BY <1>1, NextMoves DEF do_move_file
<1>3. Dest \in Paths /\ File \in Range(Task.files)
  BY <1>1, DestFacts, FileFacts
<1>4. Disk(tree)
  BY <1>1, <1>3, PathFacts, MkdirpDisk DEF Keeping, TypeOK
<1>5. \A q \in In(tree, File) : Dest \o SubSeq(q, Len(File) + 1, Len(q)) \in Paths
  <2> SUFFICES ASSUME NEW q \in In(tree, File)
               PROVE  Dest \o SubSeq(q, Len(File) + 1, Len(q)) \in Paths
    OBVIOUS
  <2>1. q \in Paths /\ IsPrefix(File, q)
    BY <1>4 DEF In, Disk
  <2>2. Task \in AllTasks
    BY <1>1 DEF Known
  <2> QED
    BY <1>1, <1>3, <2>1, <2>2, TasksAssumption DEF Dest
<1> HIDE DEF tree
<1>6. Disk(Rename(tree, File, Dest))
  BY <1>4, <1>5, RenameDisk
<1>7. CASE Same
  BY <1>1, <1>2, <1>7, MovesSame DEF OutIn
<1>8. CASE Becomes(tree, {})
  BY <1>1, <1>2, <1>4, <1>8, MovesToTree
<1>9. CASE Becomes(Rename(tree, File, Dest), {})
  BY <1>1, <1>2, <1>6, <1>9, MovesToTree
<1> QED
  BY <1>7, <1>8, <1>9 DEF do_move_file, tree

LEMMA TouchType ==
  ASSUME TypeInv, do_touch_file
  PROVE  TypeInv'
<1>1. /\ build # "none" /\ job.phase = "files" /\ Frame /\ More /\ Task.task = "touch"
      /\ TypeOK /\ Known(Task)
  BY Working DEF do_touch_file, OneFile, Running
<1> DEFINE tree == IF Task.mkdirs THEN mkdirp(Front(File)) ELSE disk
           old == IF Exists(File) THEN disk[File] ELSE EmptyFile(0)
           entry == [old EXCEPT !.mtime = TouchTime]
<1>2. MovedTo(job')
  BY <1>1, NextMoves DEF do_touch_file
<1>3. File \in Paths
  BY <1>1, FileFacts
<1>4. Disk(tree)
  BY <1>1, <1>3, PathFacts, MkdirpDisk DEF Keeping, TypeOK
<1>5. TouchTime \in 0..MaxTime
  BY <1>1, TasksAssumption, FilesAssumption DEF TouchTime, TypeOK, Known
<1>6. old \in Entry /\ (old.type = "directory" => old.content = <<>>)
  <2>1. EmptyFile(0) \in Entry /\ EmptyFile(0).content = <<>>
    BY EntryFacts, FilesAssumption DEF EmptyFile
  <2> QED
    BY <1>1, <2>1 DEF TypeOK, Disk, Exists
<1> HIDE DEF old, tree
<1>7. entry \in Entry /\ (entry.type = "directory" => entry.content = <<>>)
  BY <1>5, <1>6 DEF Entry
<1> HIDE DEF entry
<1>8. Disk(Put(File, entry, tree))
  BY <1>3, <1>4, <1>7, PutDisk DEF PutIs
<1>9. Becomes(Put(File, entry, tree), {}) \/ Becomes(tree, {})
  BY DEF do_touch_file, entry, tree, old
<1> QED
  BY <1>1, <1>2, <1>4, <1>8, <1>9, MovesToTree

LEMMA DeleteType ==
  ASSUME TypeInv, do_delete_file
  PROVE  TypeInv'
<1>1. /\ build # "none" /\ job.phase = "files" /\ Frame /\ More /\ Task.task = "delete" /\ TypeOK
  BY Working DEF do_delete_file, OneFile, Running
<1>2. MovedTo(job')
  BY <1>1, NextMoves DEF do_delete_file
<1>3. PICK gone : Becomes(Without(gone), {})
  BY DEF do_delete_file
<1>4. Disk(Without(gone))
  BY <1>1 DEF TypeOK, Disk, Without
<1> QED
  BY <1>1, <1>2, <1>3, <1>4, MovesToTree

LEMMA StreamFacts ==
  ASSUME TypeInv, OneStream
  PROVE  /\ build # "none" /\ job.phase = "files" /\ More /\ Task.task \in Streams
         /\ TypeOK /\ Known(Task) /\ Range(job.list) \subseteq Range(Task.files)
         /\ File \in Range(Task.files) /\ File \in Paths /\ Dest \in Paths
         /\ Keeping(mkdirp(Front(Dest)), Missing(Front(Dest)))
<1>1. /\ build # "none" /\ job.phase = "files" /\ More /\ Task.task \in Streams
      /\ TypeOK /\ Known(Task) /\ Range(job.list) \subseteq Range(Task.files)
  BY Working DEF OneStream, Running
<1>2. File \in Range(Task.files) /\ File \in Paths /\ Dest \in Paths
  BY <1>1, DestFacts, FileFacts DEF Streams
<1>3. Keeping(mkdirp(Front(Dest)), Missing(Front(Dest)))
  BY <1>1, <1>2, PathFacts, MkdirpDisk DEF TypeOK
<1> QED
  BY <1>1, <1>2, <1>3

LEMMA SkipFileType ==
  ASSUME TypeInv, SkipFile
  PROVE  TypeInv'
<1>1. OneStream /\ Same /\ Frame /\ job' = Next_file
  BY DEF SkipFile
<1>2. build # "none" /\ job.phase = "files" /\ More /\ Task.task \in Streams /\ TypeOK
  BY <1>1, StreamFacts
<1>3. MovedTo(job') /\ OutIn(disk)
  BY <1>1, <1>2, NextMoves DEF OutIn, Streams
<1> QED
  BY <1>1, <1>2, <1>3, MovesSame

\* What a refused file leaves: directories, and perhaps an output that is empty.
LEMMA RefusedDisk ==
  ASSUME TypeInv, OneStream, NEW new \in Refused
  PROVE  /\ Disk(new) /\ DOMAIN disk \subseteq DOMAIN new
         /\ DOMAIN new \subseteq DOMAIN disk \cup Missing(Front(Dest)) \cup {Dest}
         /\ \A q \in DOMAIN disk : q # Dest => new[q] = disk[q]
<1>1. PICK tree : /\ tree \in {mkdirp(Front(Dest)), disk}
                  /\ \/ new = tree
                     \/ new = Put(Dest, EmptyFile(clock), tree) /\ CanOpen(tree, Dest)
  BY DEF Refused
<1>2. TypeOK /\ Dest \in Paths /\ Keeping(mkdirp(Front(Dest)), Missing(Front(Dest)))
  BY StreamFacts
<1>3. Keeping(tree, Missing(Front(Dest)))
  BY <1>1, <1>2 DEF Keeping, TypeOK
<1>4. CASE new = tree
  BY <1>3, <1>4 DEF Keeping
<1>5. CASE new = Put(Dest, EmptyFile(clock), tree)
  <2>1. EmptyFile(clock) \in Entry /\ EmptyFile(clock).type = "file"
    BY <1>2, EntryFacts DEF EmptyFile, TypeOK
  <2>2. PutIs(Dest, EmptyFile(clock), tree, new)
    BY <1>2, <1>3, <1>5, <2>1, PutDisk DEF Keeping
  <2> QED
    BY <1>3, <2>2 DEF PutIs, Keeping
<1> QED
  BY <1>1, <1>4, <1>5

LEMMA RefuseFileType ==
  ASSUME TypeInv, RefuseFile
  PROVE  TypeInv'
<1>1. PICK new \in Refused : Becomes(new, {})
  BY DEF RefuseFile
<1>0. OneStream /\ Frame /\ job' = Failing(Next_file)
  BY DEF RefuseFile
<1>2. /\ build # "none" /\ job.phase = "files" /\ More /\ Task.task \in Streams /\ TypeOK
      /\ Dest \in Paths
  BY <1>0, StreamFacts
<1>3. MovedTo(job') /\ Task.task # "concat"
  BY <1>0, <1>2, NextMoves DEF Streams
<1>4. Disk(new)
  BY <1>0, RefusedDisk
<1> QED
  BY <1>0, <1>1, <1>2, <1>3, <1>4, MovesToTree

LEMMA OpenFileType ==
  ASSUME TypeInv, OpenFile
  PROVE  TypeInv'
<1> DEFINE tree == mkdirp(Front(Dest))
           new == Put(Dest, EmptyFile(clock), tree)
<1>1. /\ OneStream /\ Becomes(new, {<<File, Dest>>}) /\ Frame /\ Exists(File)
      /\ job' = [job EXCEPT !.phase = "stream", !.stat = disk[File].mtime]
  BY DEF OpenFile, CanMakeDest
<1>2. /\ build # "none" /\ job.phase = "files" /\ More /\ Task.task \in Streams /\ TypeOK
      /\ Keeping(tree, Missing(Front(Dest))) /\ Dest \in Paths /\ Range(job.list) \subseteq Range(Task.files)
  BY <1>1, StreamFacts
<1> HIDE DEF tree
<1>3. EmptyFile(clock) \in Entry /\ EmptyFile(clock).type = "file"
  BY <1>2, EntryFacts DEF EmptyFile, TypeOK
<1>4. PutIs(Dest, EmptyFile(clock), tree, new)
  BY <1>2, <1>3, PutDisk DEF Keeping
<1> HIDE DEF new
<1>5. DiskStep /\ disk' = new
  BY <1>1, <1>2, <1>4, BecomesType DEF PutIs, Becomes
<1>6. disk[File].mtime \in 0..MaxTime
  BY <1>1, <1>2, EntryFacts DEF TypeOK, Disk, Exists
<1>7. /\ job' \in JobSet /\ job'.list = job.list /\ job'.n = job.n /\ job'.phase = "stream"
  <2>1. job \in JobSet /\ "stream" \in Phases
    BY <1>2 DEF TypeOK, JobSet, Phases
  <2> QED
    BY <1>1, <1>6, <2>1 DEF JobSet
<1>8. TypeOK'
  BY <1>1, <1>2, <1>5, <1>7, FrameType DEF TypeOK
<1>9. Task' = Task /\ build' = build /\ File' = File /\ Dest' = Dest /\ More'
  BY <1>1, <1>2, <1>7 DEF Frame, Task, File, Dest, More
<1>10. Exists(File)' /\ Exists(Dest)' /\ disk'[Dest].type = "file"
  BY <1>1, <1>3, <1>4, <1>5, <1>9, <1>2 DEF PutIs, Keeping, Exists
<1>11. JobOK'
  BY <1>2, <1>7, <1>9, <1>10 DEF JobOK, Compiling, Running, Streams
<1> QED
  BY <1>2, <1>8, <1>9, <1>11 DEF TypeInv, JobInv

LEMMA ConcatFacts ==
  ASSUME TypeInv, build # "none", job.phase # "rest", Task.task = "concat"
  PROVE  /\ TypeOK /\ Known(Task) /\ JobOK /\ Range(job.list) \subseteq Range(Task.files)
         /\ Task.dest \in Paths /\ (More => Dest = Task.dest)
         /\ Keeping(mkdirp(Front(Task.dest)), Missing(Front(Task.dest)))
<1>1. TypeOK /\ Known(Task) /\ JobOK /\ Range(job.list) \subseteq Range(Task.files)
  BY Working
<1>2. Task.dest \in Paths /\ \A f \in Range(Task.files) : Task.to[f] = Task.dest
  BY <1>1, TasksAssumption DEF Known
<1>3. More => Dest = Task.dest
  BY <1>1, <1>2, FileFacts DEF Dest
<1>4. Keeping(mkdirp(Front(Task.dest)), Missing(Front(Task.dest)))
  BY <1>1, <1>2, PathFacts, MkdirpDisk DEF TypeOK
<1> QED
  BY <1>1, <1>2, <1>3, <1>4

LEMMA AppendType ==
  ASSUME NEW e \in Entry, NEW c \in Chunk, NEW time \in 0..MaxTime
  PROVE  [e EXCEPT !.content = Append(@, c), !.mtime = time] \in Entry
<1>1. Append(e.content, c) \in Seq(Chunk)
  BY EntryFacts
<1> QED
  BY <1>1 DEF Entry

LEMMA OpenOutputType ==
  ASSUME TypeInv, OpenOutput
  PROVE  TypeInv'
<1> DEFINE tree == mkdirp(Front(Task.dest))
           out == IF Task.append /\ Exists(Task.dest) THEN disk[Task.dest] ELSE EmptyFile(clock)
           start == IF Task.header THEN [out EXCEPT !.content = Append(@, Header), !.mtime = clock] ELSE out
           new == Put(Task.dest, start, tree)
<1>1. build # "none" /\ job.phase = "open" /\ Task.task = "concat" /\ Frame
  BY DEF OpenOutput, Running
<1>2. \/ CanOpen(tree, Task.dest) /\ job' = [job EXCEPT !.phase = "files"] /\ Becomes(new, {})
      \/ job' = Failing(Reporting) /\ Becomes(tree, {})
  BY DEF OpenOutput
<1>3. TypeOK /\ Task.dest \in Paths /\ Keeping(tree, Missing(Front(Task.dest)))
  BY <1>1, ConcatFacts
<1> HIDE DEF tree
<1>4. CanOpen(tree, Task.dest) => out.type = "file"
  BY <1>3 DEF CanOpen, Keeping, Exists, EmptyFile
<1>5. out \in Entry
  BY <1>3, EntryFacts DEF TypeOK, Disk, Exists
<1> HIDE DEF out
<1>6. start \in Entry /\ start.type = out.type
  <2>1. Header \in Chunk /\ clock \in 0..MaxTime
    BY <1>3 DEF Chunk, TypeOK
  <2>2. [out EXCEPT !.content = Append(@, Header), !.mtime = clock] \in Entry
    BY <1>5, <2>1, AppendType
  <2>3. [out EXCEPT !.content = Append(@, Header), !.mtime = clock].type = out.type
    BY <1>5 DEF Entry
  <2> QED
    BY <1>5, <2>2, <2>3
<1> HIDE DEF start
<1>7. CASE CanOpen(tree, Task.dest) /\ job' = [job EXCEPT !.phase = "files"] /\ Becomes(new, {})
  <2>1. PutIs(Task.dest, start, tree, new)
    BY <1>3, <1>4, <1>6, <1>7, PutDisk DEF Keeping
  <2> HIDE DEF new
  <2>2. DiskStep /\ disk' = new
    BY <1>3, <1>7, <2>1, BecomesType DEF PutIs, Becomes
  <2>3. OutIn(disk')
    BY <1>4, <1>6, <1>7, <2>1, <2>2 DEF PutIs, OutIn
  <2>4. MovedTo(job')
    <3>1. job \in JobSet /\ "files" \in Phases /\ job.n \in 1..(Len(job.list) + 1)
      BY <1>3 DEF TypeOK, JobSet, Phases
    <3>2. job' \in JobSet /\ job'.list = job.list /\ job'.n = job.n /\ job'.phase = "files"
          /\ job'.read = job.read
      BY <1>7, <3>1 DEF JobSet
    <3>3. job.read = 0
      BY <1>1, ConcatFacts DEF JobOK
    <3> QED
      BY <1>1, <3>1, <3>2, <3>3 DEF MovedTo
  <2> QED
    BY <1>1, <2>2, <2>3, <2>4, Moves, ConcatFacts
<1>8. CASE job' = Failing(Reporting) /\ Becomes(tree, {})
  <2>1. Disk(tree) /\ MovedTo(job') /\ job'.phase = "reported"
    BY <1>3, <1>8, ReportMoves DEF Keeping, Failing, Reporting, TypeOK
  <2> QED
    BY <1>1, <1>8, <2>1, MovesToTree
<1> QED
  BY <1>2, <1>7, <1>8

LEMMA OpenInputType ==
  ASSUME TypeInv, OpenInput
  PROVE  TypeInv'
<1>1. build # "none" /\ job.phase = "files" /\ More /\ Task.task = "concat" /\ Frame /\ Same
  BY DEF OpenInput, Running
<1>2. TypeOK /\ JobOK /\ Dest = Task.dest /\ Range(job.list) \subseteq Range(Task.files)
  BY <1>1, ConcatFacts
<1>3. OutIn(disk)
  BY <1>1, <1>2 DEF JobOK, OutIn, Exists
<1>4. CASE Exists(File)
  <2>1. job' = [job EXCEPT !.phase = "stream"]
    BY <1>4 DEF OpenInput
  <2>2. job' \in JobSet /\ job'.list = job.list /\ job'.n = job.n /\ job'.phase = "stream"
    <3>1. job \in JobSet /\ "stream" \in Phases
      BY <1>2 DEF TypeOK, JobSet, Phases
    <3> QED
      BY <2>1, <3>1 DEF JobSet
  <2>3. TypeOK'
    BY <1>1, <1>2, <2>2, SameType, FrameType DEF TypeOK
  <2>4. Task' = Task /\ build' = build /\ File' = File /\ Dest' = Dest /\ More' /\ disk' = disk
    BY <1>1, <2>2 DEF Frame, Task, File, Dest, More, Same
  <2>5. JobOK'
    BY <1>1, <1>2, <1>3, <1>4, <2>2, <2>4 DEF JobOK, Compiling, Running, OutIn, Exists
  <2> QED
    BY <1>1, <2>3, <2>4, <2>5 DEF TypeInv, JobInv
<1>5. CASE ~Exists(File)
  <2>1. MovedTo(job')
    BY <1>1, <1>2, <1>5, NextMoves DEF OpenInput
  <2> QED
    BY <1>1, <1>3, <2>1, MovesSame
<1> QED
  BY <1>4, <1>5

LEMMA StreamingFacts ==
  ASSUME TypeInv, Streaming
  PROVE  /\ build # "none" /\ job.phase = "stream" /\ More /\ Task.task \in Streams \cup {"concat"}
         /\ TypeOK /\ JobOK /\ Known(Task) /\ Range(job.list) \subseteq Range(Task.files)
         /\ File \in Range(Task.files) /\ File \in DOMAIN disk /\ Dest \in DOMAIN disk /\ disk[Dest].type = "file"
         /\ Task.task = "concat" => Dest = Task.dest
         /\ OutIn(disk)
<1>1. build # "none" /\ job.phase = "stream" /\ Task.task # "javac"
  BY DEF Streaming, Running
<1>2. TypeOK /\ JobOK /\ Known(Task) /\ Range(job.list) \subseteq Range(Task.files)
  BY <1>1, Working
<1>3. /\ More /\ Task.task \in Streams \cup {"concat"}
      /\ File \in DOMAIN disk /\ Dest \in DOMAIN disk /\ disk[Dest].type = "file"
  BY <1>1, <1>2 DEF JobOK, Exists
<1>4. Task.task = "concat" => Dest = Task.dest
  BY <1>1, <1>3, ConcatFacts
<1>5. OutIn(disk)
  BY <1>3, <1>4 DEF OutIn
<1> QED
  BY <1>1, <1>2, <1>3, <1>4, <1>5, FileFacts

\* A file that is written to, on a disk that is otherwise as it was.
LEMMA WriteDisk ==
  ASSUME Disk(disk), NEW p \in DOMAIN disk, NEW entry \in Entry, entry.type = disk[p].type, entry.type = "file"
  PROVE  PutIs(p, entry, disk, [disk EXCEPT ![p] = entry])
<1> DEFINE new == [disk EXCEPT ![p] = entry]
<1>1. DOMAIN new = DOMAIN disk /\ new[p] = entry /\ \A q \in DOMAIN disk : q # p => new[q] = disk[q]
  OBVIOUS
<1>2. new = [q \in DOMAIN new |-> new[q]]
  OBVIOUS
<1> HIDE DEF new
<1>3. Disk(new)
  BY <1>1, <1>2 DEF Disk
<1> QED
  BY <1>1, <1>3 DEF PutIs, new

LEMMA WriteFailsType ==
  ASSUME TypeInv, WriteFails
  PROVE  TypeInv'
<1>1. Streaming /\ job' = Failing(Next_file) /\ Frame /\ suspect' = suspect \cup HalfMade
      /\ UNCHANGED <<disk, changed>>
  BY DEF WriteFails
<1>2. /\ build # "none" /\ job.phase = "stream" /\ More /\ Task.task \in Streams \cup {"concat"} /\ TypeOK
      /\ Range(job.list) \subseteq Range(Task.files) /\ OutIn(disk)
  BY <1>1, StreamingFacts
<1>3. MovedTo(job')
  BY <1>1, <1>2, NextMoves DEF Streams
<1>4. DiskStep
  BY <1>1, <1>2 DEF DiskStep, TypeOK, HalfMade
<1>5. OutIn(disk')
  BY <1>1, <1>2
<1> QED
  BY <1>1, <1>2, <1>3, <1>4, <1>5, Moves

LEMMA CopyChunkType ==
  ASSUME TypeInv, CopyChunk
  PROVE  TypeInv'
<1> DEFINE chunk == Contents(File)[job.read + 1]
           entry == [disk[Dest] EXCEPT !.content = Append(@, chunk), !.mtime = clock]
           new == [disk EXCEPT ![Dest] = entry]
<1>1. Streaming /\ Left /\ job' = [job EXCEPT !.read = @ + 1] /\ Frame
  BY DEF CopyChunk
<1>2. /\ build # "none" /\ job.phase = "stream" /\ More /\ TypeOK /\ JobOK
      /\ Task.task \in Streams \cup {"concat"} /\ Range(job.list) \subseteq Range(Task.files)
      /\ File \in DOMAIN disk /\ Dest \in DOMAIN disk /\ disk[Dest].type = "file" /\ OutIn(disk)
  BY <1>1, StreamingFacts
<1>3. Disk(disk) /\ clock \in 0..MaxTime /\ job \in JobSet
  BY <1>2 DEF TypeOK, JobSet
<1>4. Contents(File) \in Seq(Chunk) /\ disk[Dest] \in Entry
  BY <1>2, <1>3, EntryFacts DEF Disk, Contents
<1>5. chunk \in Chunk
  <2>1. job.read + 1 \in 1..Len(Contents(File))
    BY <1>1, <1>3, <1>4 DEF Left, JobSet
  <2> QED
    BY <1>4, <2>1, RangeIs
<1> HIDE DEF chunk
<1>6. entry \in Entry /\ entry.type = "file"
  <2>1. entry \in Entry
    BY <1>3, <1>4, <1>5, AppendType
  <2>2. entry.type = disk[Dest].type
    BY <1>4 DEF Entry
  <2> QED
    BY <1>2, <2>1, <2>2
<1>7. Becomes(new, {})
  BY DEF CopyChunk, chunk
<1> HIDE DEF entry
<1>8. PutIs(Dest, entry, disk, new)
  BY <1>2, <1>3, <1>6, WriteDisk
<1> HIDE DEF new
<1>9. DiskStep /\ disk' = new
  BY <1>2, <1>7, <1>8, BecomesType DEF PutIs, Becomes
<1>10. /\ job' \in JobSet /\ job'.list = job.list /\ job'.n = job.n /\ job'.phase = "stream"
  BY <1>1, <1>2, <1>3 DEF JobSet
<1>11. TypeOK'
  BY <1>1, <1>2, <1>9, <1>10, FrameType DEF TypeOK
<1>12. Task' = Task /\ build' = build /\ File' = File /\ Dest' = Dest /\ More'
  BY <1>1, <1>2, <1>10 DEF Frame, Task, File, Dest, More
<1>13. /\ DOMAIN disk' = DOMAIN disk /\ disk'[Dest].type = "file"
       /\ OutIn(disk')
  BY <1>2, <1>6, <1>8, <1>9 DEF PutIs, OutIn
<1>14. JobOK'
  BY <1>2, <1>10, <1>12, <1>13 DEF JobOK, Compiling, Running, OutIn, Exists, Streams
<1> QED
  BY <1>2, <1>11, <1>12, <1>14 DEF TypeInv, JobInv

LEMMA CloseFileType ==
  ASSUME TypeInv, CloseFile
  PROVE  TypeInv'
<1> DEFINE entry == [disk[Dest] EXCEPT !.mtime = job.stat]
           kept == [disk EXCEPT ![Dest] = entry]
<1>1. Streaming /\ job' = Next_file /\ Frame
  BY DEF CloseFile
<1>2. /\ build # "none" /\ job.phase = "stream" /\ More /\ TypeOK
      /\ Task.task \in Streams \cup {"concat"} /\ Range(job.list) \subseteq Range(Task.files)
      /\ Dest \in DOMAIN disk /\ disk[Dest].type = "file" /\ OutIn(disk)
  BY <1>1, StreamingFacts
<1>3. Disk(disk) /\ job.stat \in 0..MaxTime /\ disk[Dest] \in Entry
  BY <1>2 DEF TypeOK, Disk
<1>4. entry \in Entry /\ entry.type = "file"
  BY <1>2, <1>3 DEF Entry
<1>5. Becomes(kept, {}) \/ Becomes(disk, {})
  BY DEF CloseFile
<1> HIDE DEF entry
<1>6. PutIs(Dest, entry, disk, kept)
  BY <1>2, <1>3, <1>4, WriteDisk
<1> HIDE DEF kept
<1>7. Disk(kept) /\ OutIn(kept)
  BY <1>2, <1>4, <1>6 DEF PutIs, OutIn
<1>8. MovedTo(job')
  BY <1>1, <1>2, NextMoves DEF Streams
<1>9. DiskStep /\ OutIn(disk')
  BY <1>2, <1>3, <1>5, <1>7, BecomesType DEF Becomes
<1> QED
  BY <1>1, <1>2, <1>8, <1>9, Moves

LEMMA CloseOutputType ==
  ASSUME TypeInv, CloseOutput
  PROVE  TypeInv'
<1> DEFINE timed == [disk[Task.dest] EXCEPT !.mtime = clock]
<1>1. build # "none" /\ job.phase = "files" /\ Task.task = "concat" /\ Frame /\ job' = Reporting
  BY DEF CloseOutput, Running
<1>2. TypeOK /\ JobOK /\ Task.dest \in DOMAIN disk /\ disk[Task.dest].type = "file"
  BY <1>1, ConcatFacts DEF JobOK, Exists
<1>3. Disk(disk) /\ clock \in 0..MaxTime /\ disk[Task.dest] \in Entry
  BY <1>2 DEF TypeOK, Disk
<1>4. timed \in Entry /\ timed.type = "file"
  BY <1>2, <1>3 DEF Entry
<1>5. EmptyFile(clock) \in Entry /\ EmptyFile(clock).type = "file"
  BY <1>3, EntryFacts DEF EmptyFile
<1>6. PICK new \in {disk, [disk EXCEPT ![Task.dest] = timed], [disk EXCEPT ![Task.dest] = EmptyFile(clock)]} :
          Becomes(new, {})
  BY DEF CloseOutput
<1> HIDE DEF timed
<1>7. Disk(new)
  BY <1>2, <1>3, <1>4, <1>5, WriteDisk DEF PutIs
<1>8. MovedTo(job') /\ job'.phase = "reported"
  BY <1>1, <1>2, ReportMoves DEF Reporting, TypeOK
<1> QED
  BY <1>1, <1>6, <1>7, <1>8, MovesToTree

LEMMA FindStaleType ==
  ASSUME TypeInv, FindStale
  PROVE  TypeInv'
<1> DEFINE W == {s \in Range(job.list) : needs_compilation(s)}
           stale == Selected(job.list, W)
<1>1. /\ build # "none" /\ job.phase = "open" /\ Task.task = "javac" /\ Frame
      /\ job' = [job EXCEPT !.phase = IF stale = <<>> THEN "reported" ELSE "stream", !.list = stale]
      /\ \E again : Becomes(disk, again)
  BY DEF FindStale, Running
<1>2. TypeOK /\ Known(Task) /\ JobOK /\ Range(job.list) \subseteq Range(Task.files)
  BY <1>1, Working
<1>3. job.list \in Seq(Paths) /\ job \in JobSet /\ job.n = 1 /\ job.read = 0 /\ Disk(disk)
  BY <1>1, <1>2 DEF TypeOK, JobSet, JobOK
<1>4. stale \in Seq(Paths) /\ Range(stale) \subseteq Range(job.list)
  BY <1>3, SelectedIs
<1>5. \A f \in Range(job.list) : f \in DOMAIN disk
  BY <1>1, <1>2, TasksAssumption DEF JobOK, Known, Range, Exists
<1> HIDE DEF stale
<1>6. /\ job' \in JobSet /\ job'.list = stale /\ job'.n = 1 /\ job'.read = 0
      /\ job'.phase = IF stale = <<>> THEN "reported" ELSE "stream"
  <2>1. {"reported", "stream"} \subseteq Phases
    BY DEF Phases
  <2> QED
    BY <1>1, <1>3, <1>4, <2>1 DEF JobSet
<1>7. DiskStep /\ disk' = disk
  BY <1>1, <1>2, <1>3, BecomesType DEF Becomes
<1>8. 1 \in 1..(Len(stale) + 1) /\ DOMAIN stale = 1..Len(stale) /\ (stale = <<>> => ~(1 <= Len(stale)))
  BY <1>4
<1>9. TypeOK'
  BY <1>1, <1>2, <1>6, <1>7, <1>8, FrameType
<1>10. Task' = Task /\ build' = build
  BY <1>1 DEF Frame, Task
<1>11. \A i \in DOMAIN job'.list : job'.list[i] \in DOMAIN disk'
  <2> SUFFICES ASSUME NEW i \in DOMAIN stale PROVE stale[i] \in DOMAIN disk
    BY <1>6, <1>7
  <2>1. stale[i] \in Range(stale)
    BY DEF Range
  <2> QED
    BY <1>4, <1>5, <2>1
<1>12. More' => File' \in DOMAIN Types
  <2>1. More' => File' \in Range(stale)
    BY <1>6, <1>8 DEF More, File, Range
  <2> QED
    BY <1>1, <1>2, <1>4, <2>1, TasksAssumption DEF Known
<1>13. More' => 0 <= Len(Types[File'])
  BY <1>12, FilesAssumption
<1>14. Range(job'.list) \subseteq Range(Task.files)
  BY <1>2, <1>4, <1>6
<1>15. JobOK'
  <2>1. /\ job'.phase # "open" /\ job'.phase # "files" /\ Task'.task = "javac"
        /\ Range(job'.list) \subseteq Range(Task'.files)
    BY <1>1, <1>6, <1>10, <1>14
  <2>2. More' => job'.read <= Len(Types[File'])
    BY <1>6, <1>13
  <2> QED
    BY <1>11, <2>1, <2>2 DEF JobOK, Streaming, Exists
<1> QED
  BY <1>1, <1>9, <1>10, <1>15 DEF TypeInv, JobInv

LEMMA CompilingFacts ==
  ASSUME TypeInv, Compiling
  PROVE  /\ build # "none" /\ job.phase = "stream" /\ Task.task = "javac"
         /\ TypeOK /\ JobOK /\ Known(Task) /\ Range(job.list) \subseteq Range(Task.files)
         /\ \A i \in DOMAIN job.list : job.list[i] \in DOMAIN disk /\ job.list[i] \in DOMAIN Types
         /\ More => /\ File \in Range(Task.files) /\ File \in DOMAIN Types /\ File \in DOMAIN disk
                    /\ Types[File] \in Seq(Paths) /\ job.read \in 0..Len(Types[File])
<1>1. build # "none" /\ job.phase = "stream" /\ Task.task = "javac"
  BY DEF Compiling, Running
<1>2. TypeOK /\ Known(Task) /\ JobOK /\ Range(job.list) \subseteq Range(Task.files)
  BY <1>1, Working
<1>3. \A i \in DOMAIN job.list : job.list[i] \in DOMAIN disk /\ job.list[i] \in Range(Task.files)
  BY <1>2 DEF JobOK, Range, Exists
<1>4. Range(Task.files) \subseteq DOMAIN Types
  BY <1>1, <1>2, TasksAssumption DEF Known
<1>5. ASSUME More
      PROVE  /\ File \in Range(Task.files) /\ File \in DOMAIN Types /\ File \in DOMAIN disk
             /\ Types[File] \in Seq(Paths) /\ job.read \in 0..Len(Types[File])
  <2>1. job.n \in DOMAIN job.list /\ job.read \in Nat
    BY <1>2, <1>5 DEF TypeOK, More
  <2>2. File \in Range(Task.files) /\ File \in DOMAIN Types /\ File \in DOMAIN disk
    BY <1>3, <1>4, <2>1 DEF File
  <2>3. Types[File] \in Seq(Paths)
    BY <2>2, FilesAssumption
  <2>4. job.read <= Len(Types[File])
    BY <1>2, <1>5 DEF JobOK
  <2> QED
    BY <2>1, <2>2, <2>3, <2>4
<1> QED
  BY <1>1, <1>2, <1>3, <1>4, <1>5

LEMMA CompileClassType ==
  ASSUME TypeInv, CompileClass
  PROVE  TypeInv'
<1> DEFINE class == Types[File][job.read + 1]
           tree == mkdirp(Front(class))
           entry == [EmptyFile(clock) EXCEPT !.content = Contents(File)]
           new == Put(class, entry, tree)
<1>1. /\ Compiling /\ More /\ job.read < Len(Types[File]) /\ Frame
      /\ job' = [job EXCEPT !.read = @ + 1] /\ Becomes(new, {})
  BY DEF CompileClass
<1>2. /\ build # "none" /\ job.phase = "stream" /\ Task.task = "javac" /\ TypeOK /\ JobOK
      /\ Range(job.list) \subseteq Range(Task.files)
      /\ \A i \in DOMAIN job.list : job.list[i] \in DOMAIN disk
      /\ File \in DOMAIN disk /\ Types[File] \in Seq(Paths) /\ job.read \in 0..Len(Types[File])
  BY <1>1, CompilingFacts
<1>3. job.read + 1 \in 1..Len(Types[File])
  BY <1>1, <1>2
<1>4. class \in Paths
  BY <1>2, <1>3, RangeIs
<1> HIDE DEF class
<1>5. Keeping(tree, Missing(Front(class)))
  BY <1>2, <1>4, PathFacts, MkdirpDisk DEF TypeOK
<1> HIDE DEF tree
<1>6. entry \in Entry /\ entry.type = "file"
  <2>1. Contents(File) \in Seq(Chunk)
    BY <1>2, EntryFacts DEF TypeOK, Disk, Contents
  <2>2. EmptyFile(clock) \in Entry /\ EmptyFile(clock).type = "file"
    BY <1>2, EntryFacts DEF EmptyFile, TypeOK
  <2> QED
    BY <2>1, <2>2 DEF Entry
<1> HIDE DEF entry
<1>7. PutIs(class, entry, tree, new)
  BY <1>4, <1>5, <1>6, PutDisk DEF Keeping
<1> HIDE DEF new
<1>8. DiskStep /\ disk' = new
  BY <1>1, <1>2, <1>7, BecomesType DEF PutIs, Becomes
<1>9. /\ job' \in JobSet /\ job'.list = job.list /\ job'.n = job.n /\ job'.phase = "stream"
      /\ job'.read = job.read + 1
  <2>1. job \in JobSet
    BY <1>2 DEF JobSet, TypeOK
  <2>2. job' = [job EXCEPT !.read = job.read + 1] /\ job.read \in Nat
    BY <1>1, <2>1 DEF JobSet
  <2> QED
    BY <1>2, <2>1, <2>2 DEF JobSet
<1>10. TypeOK'
  BY <1>1, <1>2, <1>8, <1>9, FrameType DEF TypeOK
<1>11. Task' = Task /\ build' = build /\ File' = File /\ More'
  BY <1>1, <1>2, <1>9 DEF Frame, Task, File, More
<1>12. \A i \in DOMAIN job.list : job.list[i] \in DOMAIN disk'
  BY <1>2, <1>5, <1>7, <1>8 DEF PutIs, Keeping
<1>13. job'.read <= Len(Types[File])
  BY <1>3, <1>9
<1>14. JobOK'
  BY <1>2, <1>9, <1>11, <1>12, <1>13 DEF JobOK, Streaming, Running, Exists
<1> QED
  BY <1>2, <1>10, <1>11, <1>14 DEF TypeInv, JobInv

LEMMA CompileNextType ==
  ASSUME TypeInv, CompileNext
  PROVE  TypeInv'
<1>1. Compiling /\ Frame /\ Same
  BY DEF CompileNext
<1>2. /\ build # "none" /\ job.phase = "stream" /\ Task.task = "javac" /\ TypeOK /\ JobOK
      /\ Range(job.list) \subseteq Range(Task.files)
      /\ \A i \in DOMAIN job.list : job.list[i] \in DOMAIN disk /\ job.list[i] \in DOMAIN Types
  BY <1>1, CompilingFacts
<1>3. CASE ~More
  <2>1. MovedTo(job') /\ job'.phase = "reported"
    BY <1>2, <1>3, ReportMoves DEF CompileNext, Reporting, TypeOK
  <2> QED
    BY <1>1, <1>2, <2>1, MovesSame
<1>4. CASE More
  <2>1. job' = [job EXCEPT !.n = @ + 1, !.read = 0]
    BY <1>4 DEF CompileNext
  <2>2. /\ job' \in JobSet /\ job'.list = job.list /\ job'.n = job.n + 1 /\ job'.phase = "stream"
        /\ job'.read = 0
    <3>1. job \in JobSet
      BY <1>2 DEF JobSet, TypeOK
    <3>2. 0 \in Nat /\ job.n + 1 \in Nat
      BY <3>1 DEF JobSet
    <3> QED
      BY <1>2, <2>1, <3>1, <3>2 DEF JobSet
  <2>3. job.n + 1 \in 1..(Len(job.list) + 1)
    BY <1>2, <1>4 DEF TypeOK, More
  <2>4. TypeOK' /\ disk' = disk
    BY <1>1, <1>2, <2>2, <2>3, SameType, FrameType DEF Same
  <2>5. Task' = Task /\ build' = build
    BY <1>1 DEF Frame, Task
  <2>6. More' => File' \in DOMAIN Types
    <3>1. More' => job.n + 1 \in DOMAIN job.list
      BY <1>2, <2>2, <2>3 DEF More, TypeOK
    <3> QED
      BY <1>2, <2>2, <3>1 DEF File
  <2>7. More' => 0 <= Len(Types[File'])
    BY <2>6, FilesAssumption
  <2>8. JobOK'
    BY <1>2, <2>2, <2>4, <2>5, <2>7 DEF JobOK, Streaming, Running, Exists
  <2> QED
    BY <1>2, <2>4, <2>5, <2>8 DEF TypeInv, JobInv
<1> QED
  BY <1>3, <1>4

LEMMA CompilerFailsType ==
  ASSUME TypeInv, CompilerFails
  PROVE  TypeInv'
<1>1. Compiling /\ job' = Failing(Reporting) /\ Frame /\ suspect' = suspect \cup HalfMade
      /\ UNCHANGED <<disk, changed>>
  BY DEF CompilerFails
<1>2. build # "none" /\ TypeOK /\ Range(job.list) \subseteq Range(Task.files)
  BY <1>1, CompilingFacts
<1>3. MovedTo(job') /\ job'.phase = "reported"
  BY <1>1, <1>2, ReportMoves DEF Failing, Reporting, TypeOK
<1>4. DiskStep
  BY <1>1, <1>2 DEF DiskStep, TypeOK, HalfMade
<1> QED
  BY <1>1, <1>2, <1>3, <1>4, Moves

\* What is read of files that are there.
LEMMA InputsFacts ==
  ASSUME TypeOK, \A i \in DOMAIN job.list : Exists(job.list[i])
  PROVE  /\ Inputs \in [1..Len(job.list) -> Seq(Chunk)] /\ Inputs \in Seq(Seq(Chunk))
         /\ Len(Inputs) = Len(job.list) /\ JoinsUp(Inputs, Len(job.list), Chunk)
         /\ FlattenSeq(Inputs) = Joined(Inputs, Len(job.list)) /\ FlattenSeq(Inputs) \in Seq(Chunk)
<1>1. job.list \in Seq(Paths) /\ DOMAIN job.list = 1..Len(job.list) /\ Len(job.list) \in Nat /\ Disk(disk)
  BY DEF TypeOK
<1>2. \A i \in 1..Len(job.list) : Contents(job.list[i]) \in Seq(Chunk)
  BY <1>1, EntryFacts DEF Exists, Contents, Disk
<1>3. Inputs = [i \in 1..Len(job.list) |-> Contents(job.list[i])]
  BY <1>1 DEF Inputs
<1>4. Inputs \in [1..Len(job.list) -> Seq(Chunk)]
  BY <1>2, <1>3
<1>5. Inputs \in Seq(Seq(Chunk)) /\ Len(Inputs) = Len(job.list)
  BY <1>1, <1>4
<1>6. JoinsUp(Inputs, Len(job.list), Chunk)
  BY <1>1, <1>4, JoinedNext
<1>7. FlattenSeq(Inputs) = Joined(Inputs, Len(job.list))
  BY <1>5, FlattenIsJoined
<1>8. Len(job.list) \in 0..Len(job.list)
  BY <1>1
<1> QED
  BY <1>4, <1>5, <1>6, <1>7, <1>8 DEF JoinsUp

LEMMA JarType ==
  ASSUME TypeInv, jar_invoke
  PROVE  TypeInv'
<1> DEFINE entry == [EmptyFile(clock) EXCEPT !.content = FlattenSeq(Inputs)]
           tree == Put(Task.dest, entry, disk)
<1>1. build # "none" /\ job.phase = "open" /\ Task.task = "jar" /\ Frame
  BY DEF jar_invoke, Running
<1>2. Same \/ Becomes(tree, {})
  BY DEF jar_invoke
<1>3. TypeOK /\ Known(Task) /\ JobOK /\ Range(job.list) \subseteq Range(Task.files)
  BY <1>1, Working
<1>4. MovedTo(job') /\ job'.phase = "reported"
  <2>1. Reporting.phase = "reported" /\ Failing(Reporting).phase = "reported"
    BY <1>3 DEF Failing, Reporting, TypeOK
  <2> QED
    BY <1>3, <2>1, ReportMoves DEF jar_invoke, If
<1>5. Task.dest \in Paths /\ \A i \in DOMAIN job.list : Exists(job.list[i])
  BY <1>1, <1>3, TasksAssumption DEF JobOK, Known
<1>6. entry \in Entry /\ entry.type = "file"
  <2>1. EmptyFile(clock) \in Entry /\ EmptyFile(clock).type = "file"
    BY <1>3, EntryFacts DEF EmptyFile, TypeOK
  <2>2. FlattenSeq(Inputs) \in Seq(Chunk)
    BY <1>3, <1>5, InputsFacts
  <2> QED
    BY <2>1, <2>2 DEF Entry
<1> HIDE DEF entry
<1>7. Disk(tree)
  BY <1>3, <1>5, <1>6, PutDisk DEF PutIs, TypeOK
<1> HIDE DEF tree
<1>8. CASE Same
  BY <1>1, <1>4, <1>8, MovesSame
<1>9. CASE Becomes(tree, {})
  BY <1>1, <1>4, <1>7, <1>9, MovesToTree
<1> QED
  BY <1>2, <1>8, <1>9

\* The files of one run of the command.
BatchFiles == {job.list[i] : i \in {i \in DOMAIN job.list : job.n <= i /\ i < job.n + Batch}}
MadeOf(files) ==
    [d \in {Task.to[f] : f \in files} |->
        [EmptyFile(clock) EXCEPT !.content = Contents(CHOOSE f \in files : Task.to[f] = d)]]
AfterBatch == IF job.n + Batch > Len(job.list) THEN Reporting ELSE [job EXCEPT !.n = job.n + Batch]

LEMMA ApplyFacts ==
  ASSUME TypeInv, apply_invoke
  PROVE  /\ build # "none" /\ job.phase = "files" /\ Task.task = "apply" /\ Frame /\ More
         /\ TypeOK /\ Known(Task) /\ JobOK /\ Range(job.list) \subseteq Range(Task.files)
         /\ Batch \in Nat /\ BatchFiles \subseteq Range(job.list)
         /\ \/ /\ BatchFiles \subseteq DOMAIN disk
               /\ job' = AfterBatch
               /\ Becomes(Over(MadeOf(BatchFiles), disk), {})
            \/ /\ job' = IF Task.failonerror THEN Failing(Reporting) ELSE AfterBatch
               /\ Same
<1>1. build # "none" /\ job.phase = "files" /\ Task.task = "apply" /\ Frame /\ More
  BY DEF apply_invoke, OneFile, Running
<1>2. TypeOK /\ Known(Task) /\ JobOK /\ Range(job.list) \subseteq Range(Task.files)
  BY <1>1, Working
<1>3. Batch \in Nat
  BY <1>1, <1>2, TasksAssumption DEF Batch, Known, TypeOK
<1>4. BatchFiles \subseteq Range(job.list)
  BY DEF BatchFiles, Range
<1>5. \/ /\ BatchFiles \subseteq DOMAIN disk
         /\ job' = AfterBatch
         /\ Becomes(Over(MadeOf(BatchFiles), disk), {})
      \/ /\ job' = IF Task.failonerror THEN Failing(Reporting) ELSE AfterBatch
         /\ Same
  BY Zenon DEF apply_invoke, BatchFiles, MadeOf, AfterBatch
<1> QED
  BY <1>1, <1>2, <1>3, <1>4, <1>5

LEMMA MadeOfDisk ==
  ASSUME TypeOK, Known(Task), Task.task = "apply", NEW files,
         files \subseteq Range(Task.files), files \subseteq DOMAIN disk
  PROVE  Disk(MadeOf(files))
<1> DEFINE new == MadeOf(files)
           entry(c) == [EmptyFile(clock) EXCEPT !.content = c]
<1>1. \A c \in Seq(Chunk) : entry(c) \in Entry /\ entry(c).type = "file"
  <2>1. EmptyFile(clock) \in Entry /\ EmptyFile(clock).type = "file"
    BY EntryFacts DEF EmptyFile, TypeOK
  <2> QED
    BY <2>1 DEF Entry
<1>2. \A f \in files : Contents(f) \in Seq(Chunk)
  BY EntryFacts DEF TypeOK, Disk, Contents
<1>3. /\ new = [d \in {Task.to[f] : f \in files} |-> entry(Contents(CHOOSE f \in files : Task.to[f] = d))]
      /\ DOMAIN new = {Task.to[f] : f \in files}
  BY DEF MadeOf
<1>4. \A d \in DOMAIN new : (CHOOSE f \in files : Task.to[f] = d) \in files
  BY <1>3
<1>5. \A d \in DOMAIN new : \E c \in Seq(Chunk) : new[d] = entry(c)
  <2> HIDE DEF new, entry
  <2> SUFFICES ASSUME NEW d \in DOMAIN new PROVE \E c \in Seq(Chunk) : new[d] = entry(c)
    OBVIOUS
  <2>1. new[d] = entry(Contents(CHOOSE f \in files : Task.to[f] = d))
    BY <1>3
  <2> QED
    BY <1>2, <1>4, <2>1
<1>6. DOMAIN new \subseteq Paths
  BY <1>3, TasksAssumption DEF Known
<1>7. new = [d \in DOMAIN new |-> new[d]]
  BY <1>3
<1> HIDE DEF new, entry
<1>8. \A d \in DOMAIN new : new[d] \in Entry /\ new[d].type = "file"
  BY <1>1, <1>5
<1>9. Disk(new)
  BY <1>6, <1>7, <1>8 DEF Disk
<1> QED
  BY <1>9 DEF new

LEMMA ApplyType ==
  ASSUME TypeInv, apply_invoke
  PROVE  TypeInv'
<1>1. /\ build # "none" /\ job.phase = "files" /\ Task.task = "apply" /\ Frame /\ More
      /\ TypeOK /\ Known(Task) /\ JobOK /\ Range(job.list) \subseteq Range(Task.files)
      /\ Batch \in Nat /\ BatchFiles \subseteq Range(job.list)
  BY ApplyFacts
<1>2. MovedTo(AfterBatch)
  <2>1. job \in JobSet /\ job.n + Batch \in Nat /\ job.n >= 1 /\ job.list \in Seq(Paths)
    BY <1>1 DEF TypeOK, JobSet
  <2>2. CASE job.n + Batch > Len(job.list)
    BY <1>1, <2>2, ReportMoves DEF AfterBatch
  <2>3. CASE ~(job.n + Batch > Len(job.list))
    <3> DEFINE j == [job EXCEPT !.n = job.n + Batch]
    <3>1. j \in JobSet /\ j.list = job.list /\ j.phase = "files" /\ j.n = job.n + Batch /\ j.read = job.read
      BY <1>1, <2>1 DEF JobSet
    <3>2. job.n + Batch \in 1..(Len(job.list) + 1) /\ job.n + Batch <= Len(job.list)
      <4>1. job.n \in Nat /\ Len(job.list) \in Nat
        BY <2>1 DEF JobSet
      <4> QED
        BY <1>1, <2>1, <2>3, <4>1
    <3> HIDE DEF j
    <3>3. MovedTo(j)
      BY <1>1, <3>1, <3>2 DEF MovedTo, JobOK
    <3> QED
      BY <2>3, <3>3 DEF AfterBatch, j
  <2> QED
    BY <2>2, <2>3
<1>3. CASE BatchFiles \subseteq DOMAIN disk /\ job' = AfterBatch /\ Becomes(Over(MadeOf(BatchFiles), disk), {})
  <2>1. Disk(MadeOf(BatchFiles))
    BY <1>1, <1>3, MadeOfDisk
  <2>2. Disk(Over(MadeOf(BatchFiles), disk))
    BY <1>1, <2>1, OverDisk DEF OverIs, TypeOK
  <2> QED
    BY <1>1, <1>2, <1>3, <2>2, MovesToTree
<1>4. CASE job' = (IF Task.failonerror THEN Failing(Reporting) ELSE AfterBatch) /\ Same
  <2>1. MovedTo(job')
    BY <1>1, <1>2, <1>4, ReportMoves
  <2> QED
    BY <1>1, <1>4, <2>1, MovesSame DEF OutIn
<1> QED
  BY <1>3, <1>4, ApplyFacts

LEMMA TickType ==
  ASSUME TypeInv, Tick
  PROVE  TypeInv'
<1>1. clock' = clock + 1 /\ clock < MaxTime /\ Same /\ UNCHANGED <<version, builds, project, build, at, job>>
  BY DEF Tick
<1>2. TypeOK'
  BY <1>1, FilesAssumption DEF TypeInv, TypeOK, Same
<1>3. JobInv'
  BY <1>1, JobStays DEF TypeInv, Stays, Same
<1> QED
  BY <1>2, <1>3 DEF TypeInv

\* What an edit makes of the disk.
Edited(s) == [EmptyFile(clock) EXCEPT !.content = [i \in 1..Size |-> <<s, version + 1>>]]

LEMMA EditFacts ==
  ASSUME TypeOK, NEW s \in Sources, Edit(s)
  PROVE  /\ PutIs(s, Edited(s), disk, Put(s, Edited(s), disk)) /\ Becomes(Put(s, Edited(s), disk), {})
         /\ s \in Paths /\ version' = version + 1 /\ version < MaxEdits
         /\ UNCHANGED <<clock, builds, project, build, at, job>>
         /\ Edited(s) \in Entry /\ Edited(s).type = "file" /\ Edited(s).mtime = clock
<1> DEFINE text == [i \in 1..Size |-> <<s, version + 1>>]
<1>1. version \in 0..MaxEdits /\ clock \in 0..MaxTime /\ version < MaxEdits
  BY DEF TypeOK, Edit
<1>2. <<s, version + 1>> \in Chunk
  <2>1. version + 1 \in 0..MaxEdits
    BY <1>1, FilesAssumption
  <2> QED
    BY <2>1 DEF Chunk
<1>3. text \in Seq(Chunk)
  BY <1>2 DEF Size
<1> HIDE DEF text
<1>4. Edited(s) \in Entry /\ Edited(s).type = "file" /\ Edited(s).mtime = clock
  <2>1. EmptyFile(clock) \in Entry /\ EmptyFile(clock).type = "file" /\ EmptyFile(clock).mtime = clock
    BY <1>1, EntryFacts DEF EmptyFile
  <2>2. Edited(s) = [EmptyFile(clock) EXCEPT !.content = text]
    BY DEF Edited, text
  <2> QED
    BY <1>3, <2>1, <2>2 DEF Entry
<1>5. s \in Paths
  BY FilesAssumption
<1>6. PutIs(s, Edited(s), disk, Put(s, Edited(s), disk))
  BY <1>4, <1>5, PutDisk DEF TypeOK
<1>7. Becomes(Put(s, Edited(s), disk), {})
  BY DEF Edit, Edited
<1>8. version' = version + 1 /\ UNCHANGED <<clock, builds, project, build, at, job>>
  BY DEF Edit
<1> QED
  BY <1>1, <1>4, <1>5, <1>6, <1>7, <1>8

LEMMA EditType ==
  ASSUME TypeInv, NEW s \in Sources, Edit(s)
  PROVE  TypeInv'
<1>1. TypeOK
  BY DEF TypeInv
<1> DEFINE new == Put(s, Edited(s), disk)
<1>2. /\ PutIs(s, Edited(s), disk, new) /\ Becomes(new, {})
      /\ version' = version + 1 /\ version < MaxEdits /\ Edited(s).type = "file"
      /\ UNCHANGED <<clock, builds, project, build, at, job>>
  BY <1>1, EditFacts
<1> HIDE DEF new
<1>3. DiskStep /\ disk' = new
  BY <1>1, <1>2, BecomesType DEF PutIs, Becomes
<1>4. TypeOK'
  BY <1>1, <1>2, <1>3, FilesAssumption DEF TypeOK, DiskStep
<1>5. Stays(disk')
  BY <1>2, <1>3 DEF PutIs, Stays
<1>6. JobInv'
  BY <1>2, <1>5, JobStays DEF TypeInv
<1> QED
  BY <1>4, <1>6 DEF TypeInv

LEMMA StartType ==
  ASSUME TypeInv, NEW b \in project, Start(b)
  PROVE  TypeInv'
<1>1. /\ build = "none" /\ build' = b /\ builds' = builds + 1 /\ builds < MaxBuilds
      /\ UNCHANGED <<at, job, clock, version, project>> /\ Same /\ TypeOK /\ job = Rest /\ at = 1
  BY DEF Start, TypeInv, JobInv
<1>2. b \in DOMAIN Builds /\ b # "none"
  BY <1>1, FilesAssumption DEF TypeOK
<1>3. 1 \in DOMAIN Builds[b]
  BY <1>2, TasksAssumption
<1>4. TypeOK'
  BY <1>1, <1>3, FilesAssumption DEF TypeOK, Same
<1>5. JobInv'
  BY <1>1, <1>2 DEF JobInv, Rest
<1> QED
  BY <1>4, <1>5 DEF TypeInv

LEMMA KillType ==
  ASSUME TypeInv, Kill
  PROVE  TypeInv'
<1>1. /\ build' = "none" /\ job' = Rest /\ at' = 1 /\ suspect' = suspect \cup HalfMade /\ changed' = {}
      /\ UNCHANGED <<disk, clock, version, builds, project>> /\ TypeOK
  BY DEF Kill, TypeInv
<1>2. /\ Rest \in JobSet /\ Rest.n \in 1..(Len(Rest.list) + 1)
  BY FilesAssumption DEF Rest, JobSet, Phases
<1>3. TypeOK'
  BY <1>1, <1>2 DEF TypeOK, HalfMade, JobSet
<1> QED
  BY <1>1, <1>3 DEF TypeInv, JobInv

LEMMA TypeInit ==
  ASSUME Init
  PROVE  TypeInv
<1>1. TypeOK
  <2>1. /\ Rest \in JobSet /\ Rest.n \in 1..(Len(Rest.list) + 1)
    BY FilesAssumption DEF Rest, JobSet, Phases
  <2>2. suspect \subseteq Derived /\ changed = {}
    BY DEF Init
  <2>3. /\ disk = Initially /\ clock = 1 /\ version = 0 /\ builds = 0
        /\ project \in Projects /\ build = "none" /\ at = 1 /\ job = Rest
    BY DEF Init
  <2> QED
    BY <2>1, <2>2, <2>3, FilesAssumption DEF TypeOK, JobSet
<1>2. JobInv
  BY DEF Init, JobInv
<1> QED
  BY <1>1, <1>2 DEF TypeInv

LEMMA TypeStep ==
  ASSUME TypeInv, [Next]_vars
  PROVE  TypeInv'
<1>1. CASE UNCHANGED vars
  <2>1. TypeOK'
    BY <1>1 DEF vars, TypeInv, TypeOK
  <2>2. JobInv'
    BY <1>1, JobStays DEF vars, TypeInv, Stays
  <2> QED
    BY <2>1, <2>2 DEF TypeInv
<1>2. CASE TaskStep
  BY <1>2, BeginType, EndTaskType, MkdirType, MoveType, TouchType, DeleteType, SkipFileType,
     RefuseFileType, OpenFileType, OpenOutputType, OpenInputType, CopyChunkType, CloseFileType,
     CloseOutputType, FindStaleType, CompileClassType, CompileNextType, JarType, ApplyType
     DEF TaskStep
<1>3. CASE WriteFails \/ CompilerFails \/ Tick \/ Kill
  BY <1>3, WriteFailsType, CompilerFailsType, TickType, KillType
<1>4. CASE \E s \in Sources : Edit(s)
  BY <1>4, EditType
<1>5. CASE \E b \in project : Start(b)
  BY <1>5, StartType
<1> QED
  BY <1>1, <1>2, <1>3, <1>4, <1>5 DEF Next

\* In every state the disk holds files and directories of the model, and the
\* running build is one of the project, with its task at a step that task
\* has: what every task of fileops.c, javac.c and jar.c goes by.
THEOREM TypeCorrect == Spec => []TypeOK
<1>1. Init => TypeInv
  BY TypeInit
<1>2. TypeInv /\ [Next]_vars => TypeInv'
  BY TypeStep
<1>3. TypeInv => TypeOK
  BY DEF TypeInv
<1> QED
  BY <1>1, <1>2, <1>3, PTL DEF Spec

-----------------------------------------------------------------------------
(* What times tell goes on being told                                      *)

LEMMA BecomesIs ==
  ASSUME NEW new, NEW again, Becomes(new, again)
  PROVE  /\ disk' = new
         /\ suspect' = (suspect \cup Unseen(ChangedFiles)) \ again
         /\ changed' = IF job.phase = "rest" THEN {} ELSE changed \cup ChangedFiles
BY DEF Becomes

\* A pair that is in no task's hands is told of after a step, if it was before.
LEMMA TellsStill ==
  ASSUME TypeOK', NEW pair \in Derived, pair \notin suspect', ~BeingMade(pair),
         pair \notin suspect => Tells(pair),
         NEW new, NEW again, pair \notin again, Becomes(new, again)
  PROVE  Tells(pair)'
<1> DEFINE s == pair[1]
           d == pair[2]
           j == Judge[pair]
<1>1. suspect' = (suspect \cup Unseen(ChangedFiles)) \ again
  BY BecomesIs
<1>2. pair \notin suspect /\ pair \notin Unseen(ChangedFiles)
  BY <1>1
<1>3. /\ d \notin ChangedFiles /\ j \notin ChangedFiles
      /\ s \in ChangedFiles => ~(j \in DOMAIN disk' /\ disk'[s].mtime <= disk'[j].mtime)
  BY <1>2 DEF Unseen
<1> HIDE DEF s, d, j
<1>4. \A p \in DOMAIN disk' : p \notin ChangedFiles => p \in DOMAIN disk /\ disk'[p] = disk[p]
  BY DEF ChangedFiles, Exists
<1>5. \A p \in DOMAIN disk' : disk'[p].mtime \in Int
  BY EntryFacts DEF TypeOK, Disk
<1>6. Told(pair)'
  <2> SUFFICES ASSUME s \in DOMAIN disk', d \in DOMAIN disk', j \in DOMAIN disk',
                      ~(disk'[s].mtime > disk'[j].mtime)
               PROVE  disk'[d].content = disk'[s].content
    BY DEF Told, Newer, Contents, s, d, j
  <2>1. disk'[s].mtime <= disk'[j].mtime
    BY <1>5
  <2>2. s \notin ChangedFiles
    BY <1>3, <2>1
  <2>3. /\ s \in DOMAIN disk /\ d \in DOMAIN disk /\ j \in DOMAIN disk
        /\ disk'[s] = disk[s] /\ disk'[d] = disk[d] /\ disk'[j] = disk[j]
    BY <1>3, <1>4, <2>2
  <2>4. ~(disk[s].mtime > disk[j].mtime)
    BY <2>3
  <2>5. Told(pair)
    BY <1>2 DEF Tells
  <2>6. disk[d].content = disk[s].content
    BY <2>3, <2>4, <2>5 DEF Told, Newer, Contents, s, d, j
  <2> QED
    BY <2>3, <2>6
<1>7. KeptBy(pair) /\ d \in DOMAIN disk' => Whole(pair[2])'
  <2> SUFFICES ASSUME KeptBy(pair), d \in DOMAIN disk'
               PROVE  Whole(pair[2])'
    OBVIOUS
  <2>1. d \in DOMAIN disk /\ disk'[d] = disk[d]
    BY <1>3, <1>4
  <2>2. Whole(d)
    BY <1>2, <2>1 DEF Tells, Exists, d
  <2> QED
    BY <2>1, <2>2 DEF Whole, Exists, Contents, d
<1>8. KeptBy(pair)' <=> KeptBy(pair)
  BY DEF KeptBy, Keeps
<1>9. Exists(pair[2])' <=> d \in DOMAIN disk'
  BY DEF Exists, d
<1> QED
  BY <1>6, <1>7, <1>8, <1>9 DEF Tells

LEMMA TellsSame ==
  ASSUME disk' = disk, NEW pair \in Derived, Tells(pair)
  PROVE  Tells(pair)'
BY DEF Tells, Told, KeptBy, Keeps, Whole, Newer, Contents, Exists

\* A step that leaves the disk, or makes another of it; what it makes from now
\* on is in hand.
Harmless ==
    \/ disk' = disk /\ suspect \subseteq suspect'
    \/ \E new, again : Becomes(new, again) /\ \A pair \in again : BeingMade(pair)'
Finished(pair) == BeingMade(pair) /\ ~BeingMade(pair)'

LEMMA TimesTellStep ==
  ASSUME TypeOK', TimesTell, Harmless,
         \A pair \in Derived : Finished(pair) => pair \in suspect' \/ Tells(pair)'
  PROVE  TimesTell'
<1> SUFFICES ASSUME NEW pair \in Derived, pair \notin suspect', ~BeingMade(pair)'
             PROVE  Tells(pair)'
  BY DEF TimesTell
<1>1. CASE BeingMade(pair)
  BY <1>1 DEF Finished
<1>2. CASE ~BeingMade(pair)
  <2>1. pair \notin suspect => Tells(pair)
    BY <1>2 DEF TimesTell
  <2>2. CASE disk' = disk /\ suspect \subseteq suspect'
    BY <2>1, <2>2, TellsSame
  <2>3. CASE \E new, again : Becomes(new, again) /\ \A q \in again : BeingMade(q)'
    <3>1. PICK new, again : Becomes(new, again) /\ \A q \in again : BeingMade(q)'
      BY <2>3
    <3>2. pair \notin again
      BY <3>1
    <3> QED
      BY <1>2, <2>1, <3>1, <3>2, TellsStill
  <2> QED
    BY <2>2, <2>3 DEF Harmless
<1> QED
  BY <1>1, <1>2

\* What is in hand is as long as the job is where it is.
LEMMA MakingSame ==
  ASSUME UNCHANGED <<build, at>>, job'.phase = job.phase, job'.list = job.list, job'.n = job.n, NEW pair
  PROVE  BeingMade(pair)' <=> BeingMade(pair)
<1>1. /\ Task' = Task /\ build' = build /\ File' = File /\ Dest' = Dest
      /\ (Running("stream"))' = Running("stream")
  BY DEF Task, File, Dest, Running
<1>2. Compiled(pair)' <=> Compiled(pair)
  BY DEF Compiled
<1> QED
  BY <1>1, <1>2 DEF BeingMade

LEMMA NothingInHand ==
  ASSUME build = "none" \/ job.phase # "stream" \/ Task.task \notin Streams \cup {"javac"}, NEW pair
  PROVE  ~BeingMade(pair)
BY DEF BeingMade, Running

LEMMA NothingMade ==
  ASSUME build' = "none" \/ job'.phase # "stream" \/ Task'.task \notin Streams \cup {"javac"}
  PROVE  MakingTells'
<1>1. \A pair : ~BeingMade(pair)'
  BY DEF BeingMade, Running
<1>2. ~(Running("stream") /\ Task.task \in Streams)' /\ ~Compiling'
  BY DEF Running, Compiling
<1> QED
  BY <1>1, <1>2 DEF MakingTells

\* Outside the streams and the compiler nothing is in hand, before or after.
Quiet ==
    /\ Harmless
    /\ build = "none" \/ job.phase # "stream" \/ Task.task \notin Streams \cup {"javac"}
    /\ build' = "none" \/ job'.phase # "stream" \/ Task'.task \notin Streams \cup {"javac"}

LEMMA QuietTells ==
  ASSUME TypeOK', TimesTell, Quiet
  PROVE  TimesTell' /\ MakingTells'
<1>1. \A pair \in Derived : ~Finished(pair)
  BY NothingInHand DEF Quiet, Finished
<1> QED
  BY <1>1, TimesTellStep, NothingMade DEF Quiet

LEMMA QuietMoves ==
  ASSUME TypeInv, build # "none", job.phase # "stream" \/ Task.task = "concat", Frame, MovedTo(job'),
         Same \/ \E new : Becomes(new, {})
  PROVE  Quiet
<1>1. job'.phase # "stream"
  BY DEF MovedTo
<1>2. Harmless
  BY DEF Same, Harmless
<1> QED
  BY <1>1, <1>2 DEF Quiet, Streams

LEMMA OneFileQuiet ==
  ASSUME TypeInv, mkdir_main \/ do_move_file \/ do_touch_file \/ do_delete_file
  PROVE  Quiet
<1>1. /\ build # "none" /\ job.phase = "files" /\ Frame /\ More /\ TypeOK
      /\ Task.task \in {"mkdir", "move", "touch", "delete"}
  BY DEF mkdir_main, do_move_file, do_touch_file, do_delete_file, OneFile, Running, TypeInv
<1>2. MovedTo(job')
  BY <1>1, NextMoves DEF mkdir_main, do_move_file, do_touch_file, do_delete_file
<1>3. Same \/ \E new : Becomes(new, {})
  BY DEF mkdir_main, do_move_file, do_touch_file, do_delete_file
<1> QED
  BY <1>1, <1>2, <1>3, QuietMoves

LEMMA StreamQuiet ==
  ASSUME TypeInv, SkipFile \/ RefuseFile
  PROVE  Quiet
<1>1. OneStream /\ Frame /\ (job' = Next_file \/ job' = Failing(Next_file))
  BY DEF SkipFile, RefuseFile
<1>2. build # "none" /\ job.phase = "files" /\ More /\ TypeOK /\ Task.task \in Streams
  BY <1>1, StreamFacts
<1>3. MovedTo(job')
  BY <1>1, <1>2, NextMoves DEF Streams
<1>4. Same \/ \E new : Becomes(new, {})
  BY DEF SkipFile, RefuseFile
<1> QED
  BY <1>1, <1>2, <1>3, <1>4, QuietMoves

LEMMA ConcatQuiet ==
  ASSUME TypeInv, Task.task = "concat",
         OpenOutput \/ OpenInput \/ CopyChunk \/ CloseFile \/ CloseOutput
  PROVE  Quiet
<1>1. Frame /\ (Same \/ \E new : Becomes(new, {}))
  BY DEF OpenOutput, OpenInput, CopyChunk, CloseFile, CloseOutput
<1>2. Harmless
  BY <1>1 DEF Same, Harmless
<1>3. Task' = Task
  BY <1>1 DEF Frame, Task
<1> QED
  BY <1>2, <1>3 DEF Quiet, Streams

LEMMA JarApplyQuiet ==
  ASSUME TypeInv, jar_invoke \/ apply_invoke
  PROVE  Quiet
<1>1. CASE jar_invoke
  <2>1. build # "none" /\ job.phase = "open" /\ Frame /\ TypeOK
    BY <1>1 DEF jar_invoke, Running, TypeInv
  <2>2. MovedTo(job')
    BY <1>1, <2>1, ReportMoves DEF jar_invoke
  <2>3. Same \/ \E new : Becomes(new, {})
    BY <1>1 DEF jar_invoke
  <2> QED
    BY <2>1, <2>2, <2>3, QuietMoves
<1>2. CASE apply_invoke
  <2>1. build # "none" /\ job.phase = "files" /\ Task.task = "apply" /\ Frame /\ TypeOK
        /\ (Same \/ \E new : Becomes(new, {}))
    BY <1>2, ApplyFacts
  <2>2. Task' = Task /\ Harmless
    BY <2>1 DEF Frame, Task, Same, Harmless
  <2> QED
    BY <2>1, <2>2 DEF Quiet, Streams
<1> QED
  BY <1>1, <1>2

LEMMA BeginQuiet ==
  ASSUME TypeInv, Begin \/ EndTask \/ \E b \in project : Start(b)
  PROVE  Quiet
<1>1. disk' = disk /\ suspect' = suspect
  BY DEF Begin, EndTask, Start, Same
<1>2. CASE Begin
  <2>1. job'.phase # "stream"
    <3> DEFINE list == IF Task.fileset THEN Selected(Task.files, DOMAIN disk) ELSE Task.files
               begun == [Rest EXCEPT !.list = list]
    <3>1. begun.phase = "rest" /\ [begun EXCEPT !.phase = "open"].phase = "open"
          /\ [begun EXCEPT !.phase = "files"].phase = "files"
          /\ [begun EXCEPT !.phase = "reported"].phase = "reported"
          /\ Failing([begun EXCEPT !.phase = "reported"]).phase = "reported"
      BY DEF Rest, Failing
    <3>2. job' \in {[begun EXCEPT !.phase = "open"], [begun EXCEPT !.phase = "files"],
                    [begun EXCEPT !.phase = "reported"], Failing([begun EXCEPT !.phase = "reported"])}
      <4> HIDE DEF begun
      <4> QED
        BY <1>2 DEF Begin, If, begun
    <3> HIDE DEF begun
    <3> QED
      BY <3>1, <3>2
  <2>2. job.phase = "rest"
    BY <1>2 DEF Begin, Running
  <2> QED
    BY <1>1, <2>1, <2>2 DEF Quiet, Harmless
<1>3. CASE EndTask
  BY <1>1, <1>3 DEF EndTask, Running, Quiet, Harmless, Rest
<1>4. CASE \E b \in project : Start(b)
  BY <1>1, <1>4 DEF Start, TypeInv, JobInv, Quiet, Harmless, Rest
<1> QED
  BY <1>2, <1>3, <1>4

\* A task that is stopped leaves what it had in hand suspect.
LEMMA StoppedTells ==
  ASSUME TypeOK', TimesTell, disk' = disk, suspect' = suspect \cup HalfMade,
         build' = "none" \/ job'.phase # "stream"
  PROVE  TimesTell' /\ MakingTells'
<1>1. Harmless
  BY DEF Harmless
<1>2. \A pair \in Derived : Finished(pair) => pair \in suspect'
  BY DEF Finished, HalfMade
<1> QED
  BY <1>1, <1>2, TimesTellStep, NothingMade

LEMMA FaultTells ==
  ASSUME TypeInv, TypeOK', TimesTell, WriteFails \/ CompilerFails \/ Kill
  PROVE  TimesTell' /\ MakingTells'
<1>1. disk' = disk /\ suspect' = suspect \cup HalfMade
  BY DEF WriteFails, CompilerFails, Kill
<1>2. CASE WriteFails
  <2>1. Streaming /\ job' = Failing(Next_file)
    BY <1>2 DEF WriteFails
  <2>2. TypeOK /\ More /\ Task.task \notin {"javac", "jar"}
    BY <2>1, StreamingFacts DEF Streams
  <2>3. job'.phase # "stream"
    BY <2>1, <2>2, NextMoves DEF MovedTo
  <2> QED
    BY <1>1, <2>3, StoppedTells
<1>3. CASE CompilerFails
  <2>1. job' = Failing(Reporting)
    BY <1>3 DEF CompilerFails
  <2>2. job'.phase # "stream"
    BY <2>1, ReportMoves DEF MovedTo, TypeInv
  <2> QED
    BY <1>1, <2>2, StoppedTells
<1>4. CASE Kill
  BY <1>1, <1>4, StoppedTells DEF Kill
<1> QED
  BY <1>2, <1>3, <1>4

\* What is in hand and suspect has a source that has changed.
SuspectsChanged == \A pair \in Derived : BeingMade(pair) /\ pair \in suspect => pair[1] \in changed

LEMMA SuspectsStep ==
  ASSUME SuspectsChanged, job.phase # "rest", NEW new, NEW again, Becomes(new, again),
         \A pair \in Derived : BeingMade(pair)' => BeingMade(pair) \/ pair \in again
  PROVE  SuspectsChanged'
<1> SUFFICES ASSUME NEW pair \in Derived, BeingMade(pair)', pair \in suspect'
             PROVE  pair[1] \in changed'
  BY DEF SuspectsChanged
<1>1. suspect' = (suspect \cup Unseen(ChangedFiles)) \ again /\ changed' = changed \cup ChangedFiles
  BY BecomesIs
<1>2. BeingMade(pair) /\ (pair \in suspect \/ pair \in Unseen(ChangedFiles))
  BY <1>1
<1> QED
  BY <1>1, <1>2 DEF SuspectsChanged, Unseen

\* Of what is in hand and not suspect the source is as it was.
LEMMA SourceSteady ==
  ASSUME NEW new, Becomes(new, {}), NEW pair \in Derived, BeingMade(pair), pair \notin suspect'
  PROVE  pair \notin suspect /\ pair[1] \notin ChangedFiles
BY BecomesIs DEF Unseen

LEMMA SteadyFile ==
  ASSUME NEW f \in DOMAIN disk', f \notin ChangedFiles
  PROVE  f \in DOMAIN disk /\ disk'[f] = disk[f]
BY DEF ChangedFiles, Exists

\* The pair a stream has in hand.
LEMMA InHandPair ==
  ASSUME TypeInv, build # "none", Task.task \in Streams, More, Range(job.list) \subseteq Range(Task.files)
  PROVE  /\ <<File, Dest>> \in Derived
         /\ Running("stream") => BeingMade(<<File, Dest>>)
         /\ \A pair : BeingMade(pair) => pair = <<File, Dest>>
<1>1. Known(Task) /\ File \in Range(Task.files)
  BY TaskFacts, FileFacts DEF TypeInv
<1>2. <<File, Dest>> \in Derived
  <2>1. <<File, Dest>> \in {<<f, Task.to[f]>> : f \in Range(Task.files)}
    BY <1>1 DEF Dest
  <2>2. Task \in {t \in AllTasks : t.task \in Streams}
    BY <1>1 DEF Known
  <2>3. <<File, Dest>> \in UNION {{<<f, t.to[f]>> : f \in Range(t.files)} : t \in {t \in AllTasks : t.task \in Streams}}
    BY <2>1, <2>2
  <2> QED
    BY <2>3 DEF Derived
<1> QED
  BY <1>2 DEF BeingMade, Streams

LEMMA OpenFileTells ==
  ASSUME TypeInv, TypeInv', TimesTell, OpenFile
  PROVE  TimesTell' /\ MakingTells'
<1> DEFINE tree == mkdirp(Front(Dest))
           new == Put(Dest, EmptyFile(clock), tree)
           pair == <<File, Dest>>
<1>1. /\ OneStream /\ Becomes(new, {pair}) /\ Frame /\ Exists(File)
      /\ job' = [job EXCEPT !.phase = "stream", !.stat = disk[File].mtime]
  BY DEF OpenFile, CanMakeDest
<1>2. /\ build # "none" /\ job.phase = "files" /\ More /\ Task.task \in Streams /\ TypeOK
      /\ Keeping(tree, Missing(Front(Dest))) /\ Dest \in Paths /\ Range(job.list) \subseteq Range(Task.files)
      /\ job.read = 0 /\ job \in JobSet
  BY <1>1, StreamFacts, Working DEF JobOK, JobSet, TypeOK
<1> HIDE DEF tree
<1>3. EmptyFile(clock) \in Entry /\ EmptyFile(clock).type = "file" /\ EmptyFile(clock).content = <<>>
  BY <1>2, EntryFacts DEF EmptyFile, TypeOK
<1>4. PutIs(Dest, EmptyFile(clock), tree, new)
  BY <1>2, <1>3, PutDisk DEF Keeping
<1> HIDE DEF new
<1>5. disk' = new
  BY <1>1 DEF Becomes
<1>6. /\ job'.phase = "stream" /\ job'.read = 0 /\ job'.list = job.list /\ job'.n = job.n
      /\ Task' = Task /\ build' = build
  BY <1>1, <1>2 DEF JobSet, Frame, Task
<1>7. File' = File /\ Dest' = Dest /\ More' /\ Running("stream")'
  BY <1>2, <1>6 DEF File, Dest, More, Running
<1>8. /\ pair \in Derived /\ BeingMade(pair)' /\ \A q : BeingMade(q)' => q = pair
  <2>1. pair \in Derived
    BY <1>2, InHandPair
  <2> QED
    BY <1>2, <1>6, <1>7, <2>1 DEF BeingMade, Streams
<1>9. Harmless
  BY <1>1, <1>8 DEF Harmless
<1>10. \A q \in Derived : ~Finished(q)
  BY <1>2, NothingInHand DEF Finished
<1>11. TimesTell'
  BY <1>9, <1>10, TimesTellStep DEF TypeInv
<1>12. SuspectsChanged'
  <2>1. pair \notin suspect'
    BY <1>1, BecomesIs
  <2> QED
    BY <1>8, <2>1 DEF SuspectsChanged
<1>13. File \in DOMAIN disk' /\ disk'[File].content \in Seq(Chunk) /\ disk'[Dest].content = <<>>
  <2>1. File \in DOMAIN disk' /\ disk'[Dest].content = <<>>
    BY <1>1, <1>2, <1>3, <1>4, <1>5 DEF PutIs, Keeping, Exists
  <2> QED
    BY <2>1, EntryFacts DEF TypeInv, TypeOK, Disk
<1>14. 0 <= Len(disk'[File].content) /\ SubSeq(disk'[File].content, 1, 0) = <<>>
  BY <1>13
<1>15. (job.read <= Len(Contents(File)) /\ Contents(Dest) = SubSeq(Contents(File), 1, job.read))'
  BY <1>6, <1>7, <1>13, <1>14 DEF Contents
<1>16. ~Compiling'
  BY <1>2, <1>6 DEF Compiling, Streams
<1>17. MakingTells'
  BY <1>12, <1>15, <1>16 DEF MakingTells, SuspectsChanged
<1> QED
  BY <1>11, <1>17

LEMMA NextOfSeq ==
  ASSUME NEW c \in Seq(Chunk), NEW n \in Nat, n < Len(c)
  PROVE  Append(SubSeq(c, 1, n), c[n + 1]) = SubSeq(c, 1, n + 1) /\ n + 1 <= Len(c)
<1>1. n + 1 \in 1..Len(c) /\ c[n + 1] \in Chunk
  OBVIOUS
<1>2. SubSeq(c, 1, n + 1) = SubSeq(c, 1, (n + 1) - 1) \o <<c[n + 1]>>
  <2>1. 1 \in 1..Len(c) /\ n + 1 \in 1..Len(c)
    BY <1>1
  <2> QED
    BY <2>1, SubSeqRecursiveSecond
<1>3. (n + 1) - 1 = n
  OBVIOUS
<1>4. SubSeq(c, 1, n) \in Seq(Chunk)
  <2>1. \A i \in 1..n : c[i] \in Chunk
    OBVIOUS
  <2> QED
    BY <2>1, SubSeqProperties
<1>5. Append(SubSeq(c, 1, n), c[n + 1]) = SubSeq(c, 1, n) \o <<c[n + 1]>>
  BY <1>1, <1>4, AppendIsConcat
<1> QED
  BY <1>1, <1>2, <1>3, <1>5

\* What a chunk does to the two files of a stream.
LEMMA CopyChunkFacts ==
  ASSUME TypeInv, CopyChunk
  PROVE  /\ Streaming /\ Left /\ Frame /\ Task' = Task /\ build' = build /\ File' = File /\ Dest' = Dest /\ More'
         /\ job'.phase = "stream" /\ job'.list = job.list /\ job'.n = job.n /\ job'.read = job.read + 1
         /\ job'.errors = job.errors /\ job.read \in Nat /\ job.read < Len(Contents(File))
         /\ Contents(File) \in Seq(Chunk)
         /\ \E new : Becomes(new, {})
         /\ DOMAIN disk' = DOMAIN disk
         /\ \A q \in DOMAIN disk : q # Dest => disk'[q] = disk[q]
         /\ disk'[Dest].content = Append(disk[Dest].content, Contents(File)[job.read + 1])
<1> DEFINE chunk == Contents(File)[job.read + 1]
           entry == [disk[Dest] EXCEPT !.content = Append(@, chunk), !.mtime = clock]
           new == [disk EXCEPT ![Dest] = entry]
<1>1. Streaming /\ Left /\ job' = [job EXCEPT !.read = @ + 1] /\ Frame /\ Becomes(new, {})
  BY DEF CopyChunk
<1>2. /\ build # "none" /\ job.phase = "stream" /\ More /\ TypeOK
      /\ File \in DOMAIN disk /\ Dest \in DOMAIN disk
  BY <1>1, StreamingFacts
<1>3. Disk(disk) /\ job \in JobSet /\ disk[Dest] \in Entry
  BY <1>2 DEF TypeOK, JobSet, Disk
<1>4. Contents(File) \in Seq(Chunk)
  BY <1>2, <1>3, EntryFacts DEF Disk, Contents
<1>5. /\ job'.phase = "stream" /\ job'.list = job.list /\ job'.n = job.n /\ job'.read = job.read + 1
      /\ job'.errors = job.errors /\ job.read \in Nat
  BY <1>1, <1>2, <1>3 DEF JobSet
<1>6. job.read < Len(Contents(File))
  BY <1>1 DEF Left
<1>7. Task' = Task /\ build' = build /\ File' = File /\ Dest' = Dest /\ More'
  BY <1>1, <1>2, <1>5 DEF Frame, Task, File, Dest, More
<1> HIDE DEF chunk
<1>8. entry.content = Append(disk[Dest].content, chunk)
  BY <1>3 DEF Entry
<1> HIDE DEF entry
<1>9. DOMAIN new = DOMAIN disk /\ new[Dest] = entry /\ \A q \in DOMAIN disk : q # Dest => new[q] = disk[q]
  BY <1>2
<1> HIDE DEF new
<1>10. disk' = new
  BY <1>1 DEF Becomes
<1> QED
  BY <1>1, <1>4, <1>5, <1>6, <1>7, <1>8, <1>9, <1>10 DEF chunk

LEMMA CopyChunkTells ==
  ASSUME TypeInv, TypeInv', TimesTell, MakingTells, CopyChunk
  PROVE  TimesTell' /\ MakingTells'
<1>1. CASE Task.task = "concat"
  BY <1>1, ConcatQuiet, QuietTells DEF TypeInv
<1>2. CASE Task.task # "concat"
  <2>1. /\ build # "none" /\ job.phase = "stream" /\ Task.task \in Streams /\ More
        /\ Range(job.list) \subseteq Range(Task.files) /\ TypeOK
        /\ File \in DOMAIN disk /\ Dest \in DOMAIN disk
    BY <1>2, CopyChunkFacts, StreamingFacts
  <2> DEFINE pair == <<File, Dest>>
             c == Contents(File)
  <2>2. /\ pair \in Derived /\ BeingMade(pair) /\ Running("stream")
    BY <2>1, InHandPair DEF Running
  <2>3. PICK new : Becomes(new, {})
    BY CopyChunkFacts
  <2>4. \A q : BeingMade(q)' <=> BeingMade(q)
    <3>1. UNCHANGED <<build, at>> /\ job'.phase = job.phase /\ job'.list = job.list /\ job'.n = job.n
      BY <2>1, CopyChunkFacts DEF Frame
    <3> QED
      BY <3>1, MakingSame
  <2>5. TimesTell'
    <3>1. Harmless
      BY <2>3 DEF Harmless
    <3>2. \A q \in Derived : ~Finished(q)
      BY <2>4 DEF Finished
    <3> QED
      BY <3>1, <3>2, TimesTellStep DEF TypeInv
  <2>6. SuspectsChanged'
    <3>1. SuspectsChanged
      BY DEF MakingTells, SuspectsChanged
    <3> QED
      BY <2>1, <2>3, <2>4, <3>1, SuspectsStep
  <2>7. ASSUME pair \notin suspect'
        PROVE  (job.read <= Len(Contents(File)) /\ Contents(Dest) = SubSeq(Contents(File), 1, job.read))'
    <3>1. pair \notin suspect
      BY <2>2, <2>3, <2>7, SourceSteady
    <3>2. Contents(Dest) = SubSeq(c, 1, job.read)
      BY <2>1, <2>2, <3>1 DEF MakingTells
    <3>3. c \in Seq(Chunk) /\ job.read \in Nat /\ job.read < Len(c)
      BY CopyChunkFacts
    <3>4. File # Dest
      <4> SUFFICES ASSUME File = Dest PROVE FALSE
        OBVIOUS
      <4>1. c = SubSeq(c, 1, job.read)
        BY <3>2
      <4>2. Len(SubSeq(c, 1, job.read)) = job.read
        BY <3>3
      <4> QED
        BY <3>3, <4>1, <4>2
    <3>5. disk'[File] = disk[File]
      BY <2>1, <3>4, CopyChunkFacts
    <3>6. disk'[Dest].content = Append(SubSeq(c, 1, job.read), c[job.read + 1])
      BY <3>2, CopyChunkFacts DEF Contents
    <3>7. Append(SubSeq(c, 1, job.read), c[job.read + 1]) = SubSeq(c, 1, job.read + 1) /\ job.read + 1 <= Len(c)
      BY <3>3, NextOfSeq
    <3>8. job'.read = job.read + 1 /\ File' = File /\ Dest' = Dest /\ disk'[File].content = c
      BY <3>5, CopyChunkFacts DEF Contents
    <3> HIDE DEF c
    <3> QED
      BY <3>6, <3>7, <3>8 DEF Contents
  <2>8. ~Compiling'
    BY <2>1, CopyChunkFacts DEF Compiling, Streams
  <2>9. pair = <<File, Dest>>'
    BY CopyChunkFacts
  <2>10. MakingTells'
    BY <2>6, <2>7, <2>8, <2>9 DEF MakingTells, SuspectsChanged
  <2> QED
    BY <2>5, <2>10
<1> QED
  BY <1>1, <1>2

\* What is kept whatever its time is whole, when it is what its source is.
LEMMA KeptWhole ==
  ASSUME KeptSourcesWhole, NEW pair, KeptBy(pair), Exists(pair[1]), Exists(pair[2]),
         Contents(pair[2]) = Contents(pair[1])
  PROVE  Whole(pair[2])
<1>1. PICK t \in AllTasks : Keeps(t) /\ \E f \in Range(t.files) : pair = <<f, t.to[f]>>
  BY DEF KeptBy
<1>2. pair[1] \in Range(t.files)
  BY <1>1
<1>3. Whole(pair[1])
  BY <1>1, <1>2 DEF KeptSourcesWhole
<1> QED
  BY <1>3 DEF Whole

\* A pair that is made, and keeps its contents in a step, is told of.
LEMMA MadeTells ==
  ASSUME KeptSourcesWhole, NEW q \in Derived, q[1] \in DOMAIN disk, q[2] \in DOMAIN disk,
         disk[q[2]].content = disk[q[1]].content,
         DOMAIN disk' = DOMAIN disk, \A p \in DOMAIN disk : disk'[p].content = disk[p].content
  PROVE  Tells(q)'
<1>1. disk'[q[2]].content = disk'[q[1]].content
  OBVIOUS
<1>2. Told(q)'
  BY <1>1 DEF Told, Contents
<1>3. KeptBy(q)' <=> KeptBy(q)
  BY DEF KeptBy, Keeps
<1>4. KeptBy(q) => Whole(q[2])
  BY KeptWhole DEF Exists, Contents
<1>5. Whole(q[2]) => Whole(q[2])'
  BY DEF Whole, Exists, Contents
<1> QED
  BY <1>2, <1>3, <1>4, <1>5 DEF Tells

\* What closing a file leaves of it.
LEMMA CloseFileFacts ==
  ASSUME TypeInv, CloseFile
  PROVE  /\ Streaming /\ ~Left /\ Frame /\ Task' = Task /\ build' = build /\ job' = Next_file
         /\ \E new : Becomes(new, {})
         /\ DOMAIN disk' = DOMAIN disk
         /\ \A q \in DOMAIN disk : q # Dest => disk'[q] = disk[q]
         /\ \A q \in DOMAIN disk : disk'[q].content = disk[q].content
         /\ Task.task = "concat" => disk' = disk
<1> DEFINE entry == [disk[Dest] EXCEPT !.mtime = job.stat]
           kept == [disk EXCEPT ![Dest] = entry]
<1>1. /\ Streaming /\ ~Left /\ job' = Next_file /\ Frame /\ Task' = Task /\ build' = build
      /\ \/ Becomes(kept, {}) /\ Task.task = "copy"
         \/ Becomes(disk, {})
  BY DEF CloseFile, Frame, Task
<1>2. TypeOK /\ Dest \in DOMAIN disk
  BY <1>1, StreamingFacts
<1>3. disk[Dest] \in Entry
  BY <1>2 DEF TypeOK, Disk
<1>4. entry.content = disk[Dest].content
  BY <1>3 DEF Entry
<1> HIDE DEF entry
<1>5. /\ DOMAIN kept = DOMAIN disk /\ kept[Dest] = entry
      /\ \A q \in DOMAIN disk : q # Dest => kept[q] = disk[q]
  BY <1>2
<1> HIDE DEF kept
<1>6. disk' = disk \/ (disk' = kept /\ Task.task = "copy")
  BY <1>1 DEF Becomes
<1> QED
  BY <1>1, <1>4, <1>5, <1>6

\* At its end a stream has made of its source what it is.
LEMMA StreamEnds ==
  ASSUME TypeInv, MakingTells, CloseFile, Task.task \in Streams, <<File, Dest>> \notin suspect
  PROVE  Contents(Dest) = Contents(File)
<1>1. Streaming /\ ~Left
  BY CloseFileFacts
<1>2. TypeOK /\ File \in DOMAIN disk /\ Running("stream")
  BY <1>1, StreamingFacts DEF Streaming
<1>3. Contents(File) \in Seq(Chunk) /\ job.read \in Nat
  BY <1>2, EntryFacts DEF TypeOK, Disk, Contents
<1>4. job.read <= Len(Contents(File)) /\ Contents(Dest) = SubSeq(Contents(File), 1, job.read)
  BY <1>2 DEF MakingTells
<1>5. job.read = Len(Contents(File))
  BY <1>1, <1>3, <1>4 DEF Left
<1> QED
  BY <1>3, <1>4, <1>5, SubSeqFull

LEMMA CloseFileTells ==
  ASSUME TypeInv, TypeInv', TimesTell, MakingTells, KeptSourcesWhole, CloseFile
  PROVE  TimesTell' /\ MakingTells'
<1>1. CASE Task.task = "concat"
  BY <1>1, ConcatQuiet, QuietTells DEF TypeInv
<1>2. CASE Task.task # "concat"
  <2> DEFINE pair == <<File, Dest>>
  <2>1. /\ build # "none" /\ job.phase = "stream" /\ Task.task \in Streams /\ More
        /\ Range(job.list) \subseteq Range(Task.files) /\ TypeOK
        /\ File \in DOMAIN disk /\ Dest \in DOMAIN disk
    BY <1>2, CloseFileFacts, StreamingFacts
  <2>2. /\ pair \in Derived /\ BeingMade(pair) /\ \A q : BeingMade(q) => q = pair
    BY <2>1, InHandPair DEF Running
  <2>3. PICK new : Becomes(new, {})
    BY CloseFileFacts
  <2>4. job'.phase # "stream"
    BY <2>1, CloseFileFacts, NextMoves DEF MovedTo, Streams
  <2>5. ASSUME NEW q \in Derived, Finished(q), q \notin suspect'
        PROVE  Tells(q)'
    <3>1. q = pair
      BY <2>2, <2>5 DEF Finished
    <3>2. pair \notin suspect
      BY <2>2, <2>3, <2>5, <3>1, SourceSteady
    <3>3. Contents(Dest) = Contents(File)
      BY <2>1, <3>2, StreamEnds
    <3>4. q[1] \in DOMAIN disk /\ q[2] \in DOMAIN disk /\ disk[q[2]].content = disk[q[1]].content
      BY <2>1, <3>1, <3>3 DEF Contents
    <3> QED
      BY <3>4, CloseFileFacts, MadeTells
  <2>6. Harmless
    BY <2>3 DEF Harmless
  <2>7. TimesTell'
    BY <2>5, <2>6, TimesTellStep DEF TypeInv
  <2> QED
    BY <2>4, <2>7, NothingMade
<1> QED
  BY <1>1, <1>2

\* What the search for stale sources leaves to be compiled.
Stale == Selected(job.list, {s \in Range(job.list) : needs_compilation(s)})
StalePairs == {pair \in Derived : Compiled(pair) /\ pair[1] \in Range(Stale)}

LEMMA FindStaleFacts ==
  ASSUME TypeInv, FindStale
  PROVE  /\ build # "none" /\ job.phase = "open" /\ Task.task = "javac" /\ Frame /\ TypeOK /\ Known(Task) /\ JobOK
         /\ Task' = Task /\ build' = build
         /\ Stale \in Seq(Paths) /\ Range(Stale) = {s \in Range(job.list) : needs_compilation(s)}
         /\ Becomes(disk, StalePairs)
         /\ job'.list = Stale /\ job'.n = 1 /\ job'.read = 0 /\ job'.errors = job.errors
         /\ job'.phase = IF Stale = <<>> THEN "reported" ELSE "stream"
<1>1. /\ build # "none" /\ job.phase = "open" /\ Task.task = "javac" /\ Frame
      /\ job' = [job EXCEPT !.phase = IF Stale = <<>> THEN "reported" ELSE "stream", !.list = Stale]
      /\ Becomes(disk, StalePairs)
  BY DEF FindStale, Running, Stale, StalePairs
<1>2. TypeOK /\ Known(Task) /\ JobOK
  BY <1>1, Working
<1>3. job.list \in Seq(Paths) /\ job \in JobSet /\ job.n = 1 /\ job.read = 0
  BY <1>1, <1>2 DEF TypeOK, JobSet, JobOK
<1>4. Stale \in Seq(Paths) /\ Range(Stale) = Range(job.list) \cap {s \in Range(job.list) : needs_compilation(s)}
  BY <1>3, SelectedIs DEF Stale
<1>5. Range(Stale) = {s \in Range(job.list) : needs_compilation(s)}
  BY <1>4
<1>6. Task' = Task /\ build' = build
  BY <1>1 DEF Frame, Task
<1>7. /\ job'.list = Stale /\ job'.n = 1 /\ job'.read = 0 /\ job'.errors = job.errors
      /\ job'.phase = IF Stale = <<>> THEN "reported" ELSE "stream"
  BY <1>1, <1>3 DEF JobSet
<1> QED
  BY <1>1, <1>2, <1>4, <1>5, <1>6, <1>7

LEMMA FindStaleTells ==
  ASSUME TypeInv, TypeInv', TimesTell, FindStale
  PROVE  TimesTell' /\ MakingTells'
<1>1. /\ build # "none" /\ job.phase = "open" /\ Task.task = "javac"
      /\ Task' = Task /\ build' = build
      /\ Stale \in Seq(Paths) /\ Becomes(disk, StalePairs)
      /\ job'.list = Stale /\ job'.n = 1 /\ job'.read = 0
      /\ job'.phase = IF Stale = <<>> THEN "reported" ELSE "stream"
  BY FindStaleFacts
<1>2. DOMAIN Stale = 1..Len(Stale)
  BY <1>1
<1>3. ASSUME NEW pair \in StalePairs
      PROVE  BeingMade(pair)'
  <2>1. PICK i \in 1..Len(Stale) : Stale[i] = pair[1]
    BY <1>2 DEF StalePairs, Range
  <2>2. Stale # <<>>
    BY <1>1, <1>2, <2>1
  <2>3. Compiled(pair)'
    BY <1>3 DEF StalePairs, Compiled
  <2> QED
    BY <1>1, <2>1, <2>2, <2>3 DEF BeingMade, Running, Streams
<1>4. Harmless
  BY <1>1, <1>3 DEF Harmless
<1>5. \A q \in Derived : ~Finished(q)
  BY <1>1, NothingInHand DEF Finished
<1>6. TimesTell'
  BY <1>4, <1>5, TimesTellStep DEF TypeInv
<1>7. SuspectsChanged'
  <2> SUFFICES ASSUME NEW pair \in Derived, BeingMade(pair)'
               PROVE  pair \notin suspect'
    BY DEF SuspectsChanged
  <2>1. Compiled(pair)' /\ \E i \in 1..Len(Stale) : Stale[i] = pair[1]
    BY <1>1 DEF BeingMade, Streams
  <2>2. pair \in StalePairs
    BY <1>2, <2>1 DEF StalePairs, Range, Compiled
  <2> QED
    BY <1>1, <2>2, BecomesIs
<1>8. 1..job'.read = {} /\ ~(Task'.task \in Streams)
  BY <1>1 DEF Streams
<1>9. MakingTells'
  BY <1>7, <1>8 DEF MakingTells, SuspectsChanged
<1> QED
  BY <1>6, <1>9

\* What writing a class does to the disk.
Class == Types[File][job.read + 1]

LEMMA CompileClassFacts ==
  ASSUME TypeInv, CompileClass
  PROVE  /\ Compiling /\ More /\ job.read < Len(Types[File]) /\ Frame /\ Task' = Task /\ build' = build
         /\ job'.phase = "stream" /\ job'.list = job.list /\ job'.n = job.n /\ job'.read = job.read + 1
         /\ job'.errors = job.errors /\ File' = File /\ More'
         /\ job.read \in Nat /\ Class \in Range(Types[File]) /\ Class \in Paths
         /\ \E new : Becomes(new, {})
         /\ DOMAIN disk \subseteq DOMAIN disk' /\ Class \in DOMAIN disk'
         /\ DOMAIN disk' \subseteq DOMAIN disk \cup Missing(Front(Class)) \cup {Class}
         /\ \A q \in DOMAIN disk : q # Class => disk'[q] = disk[q]
         /\ disk'[Class].content = Contents(File)
<1> DEFINE tree == mkdirp(Front(Class))
           entry == [EmptyFile(clock) EXCEPT !.content = Contents(File)]
           new == Put(Class, entry, tree)
<1>1. /\ Compiling /\ More /\ job.read < Len(Types[File]) /\ Frame
      /\ job' = [job EXCEPT !.read = @ + 1] /\ Becomes(new, {})
  BY DEF CompileClass, Class
<1>2. /\ build # "none" /\ job.phase = "stream" /\ TypeOK /\ File \in DOMAIN disk
      /\ Types[File] \in Seq(Paths) /\ job.read \in 0..Len(Types[File]) /\ job \in JobSet
  BY <1>1, CompilingFacts DEF TypeOK, JobSet
<1>3. job.read + 1 \in 1..Len(Types[File])
  BY <1>1, <1>2
<1>4. Class \in Paths /\ Class \in Range(Types[File])
  BY <1>2, <1>3, RangeIs DEF Class
<1>5. Keeping(tree, Missing(Front(Class)))
  BY <1>2, <1>4, PathFacts, MkdirpDisk DEF TypeOK
<1> HIDE DEF tree
<1>6. entry \in Entry /\ entry.type = "file" /\ entry.content = Contents(File)
  <2>1. Contents(File) \in Seq(Chunk)
    BY <1>2, EntryFacts DEF TypeOK, Disk, Contents
  <2>2. EmptyFile(clock) \in Entry /\ EmptyFile(clock).type = "file"
    BY <1>2, EntryFacts DEF EmptyFile, TypeOK
  <2> QED
    BY <2>1, <2>2 DEF Entry
<1> HIDE DEF entry
<1>7. PutIs(Class, entry, tree, new)
  BY <1>4, <1>5, <1>6, PutDisk DEF Keeping
<1> HIDE DEF new
<1>8. disk' = new
  BY <1>1 DEF Becomes
<1>9. /\ job'.list = job.list /\ job'.n = job.n /\ job'.phase = "stream"
      /\ job'.read = job.read + 1 /\ job'.errors = job.errors
  BY <1>1, <1>2 DEF JobSet
<1>10. Task' = Task /\ build' = build /\ File' = File /\ More'
  BY <1>1, <1>2, <1>9 DEF Frame, Task, File, More
<1>11. /\ DOMAIN disk \subseteq DOMAIN disk' /\ Class \in DOMAIN disk'
       /\ DOMAIN disk' \subseteq DOMAIN disk \cup Missing(Front(Class)) \cup {Class}
       /\ \A q \in DOMAIN disk : q # Class => disk'[q] = disk[q]
       /\ disk'[Class].content = Contents(File)
  BY <1>5, <1>6, <1>7, <1>8 DEF PutIs, Keeping
<1>12. job.read \in Nat
  BY <1>2
<1> QED
  BY <1>1, <1>4, <1>9, <1>10, <1>11, <1>12

\* The pairs of the source that is compiled are in hand.
LEMMA ClassPair ==
  ASSUME TypeInv, Compiling, More, NEW c \in Range(Types[File])
  PROVE  <<File, c>> \in Derived /\ BeingMade(<<File, c>>) /\ Compiled(<<File, c>>)
<1>1. /\ build # "none" /\ job.phase = "stream" /\ Task.task = "javac" /\ TypeOK /\ File \in DOMAIN Types
  BY CompilingFacts
<1>2. job.n \in job.n..Len(job.list) /\ job.list[job.n] = File
  BY <1>1 DEF TypeOK, More, File
<1>3. Compiled(<<File, c>>)
  BY <1>1 DEF Compiled
<1>4. <<File, c>> \in Derived
  <2>1. <<File, c>> \in {<<File, e>> : e \in Range(Types[File])}
    OBVIOUS
  <2>2. <<File, c>> \in UNION {{<<s, e>> : e \in Range(Types[s])} : s \in DOMAIN Types}
    BY <1>1, <2>1
  <2> QED
    BY <2>2 DEF Derived
<1> QED
  BY <1>1, <1>2, <1>3, <1>4 DEF BeingMade, Running

LEMMA CompileClassTells ==
  ASSUME TypeInv, TypeInv', TimesTell, MakingTells, CompileClass
  PROVE  TimesTell' /\ MakingTells'
<1>1. /\ Compiling /\ More /\ Task' = Task /\ File' = File /\ job'.read = job.read + 1 /\ job.read \in Nat
      /\ DOMAIN disk \subseteq DOMAIN disk' /\ Class \in DOMAIN disk' /\ disk'[Class].content = Contents(File)
      /\ \A q \in DOMAIN disk : q # Class => disk'[q] = disk[q]
  BY CompileClassFacts
<1>2. /\ job.phase = "stream" /\ Task.task = "javac" /\ File \in DOMAIN disk
      /\ Types[File] \in Seq(Paths) /\ job.read < Len(Types[File])
  BY <1>1, CompilingFacts, CompileClassFacts
<1>3. PICK new : Becomes(new, {})
  BY CompileClassFacts
<1>4. \A q : BeingMade(q)' <=> BeingMade(q)
  <2>1. UNCHANGED <<build, at>> /\ job'.phase = job.phase /\ job'.list = job.list /\ job'.n = job.n
    BY <1>2, CompileClassFacts DEF Frame
  <2> QED
    BY <2>1, MakingSame
<1>5. TimesTell'
  <2>1. Harmless
    BY <1>3 DEF Harmless
  <2>2. \A q \in Derived : ~Finished(q)
    BY <1>4 DEF Finished
  <2> QED
    BY <2>1, <2>2, TimesTellStep DEF TypeInv
<1>6. SuspectsChanged'
  <2>1. SuspectsChanged
    BY DEF MakingTells, SuspectsChanged
  <2> QED
    BY <1>2, <1>3, <1>4, <2>1, SuspectsStep
<1>7. disk'[File].content = disk[File].content
  BY <1>1, <1>2 DEF Contents
<1>8. ASSUME NEW i \in 1..(job.read + 1), <<File, Types[File][i]>> \notin suspect'
      PROVE  Types[File][i] \in DOMAIN disk' /\ disk'[Types[File][i]].content = disk'[File].content
  <2> DEFINE c == Types[File][i]
  <2>1. i \in 1..Len(Types[File])
    BY <1>1, <1>2
  <2>2. c \in Range(Types[File])
    BY <1>2, <2>1, RangeIs
  <2>3. <<File, c>> \notin suspect
    BY <1>1, <1>3, <1>8, <2>2, ClassPair, SourceSteady
  <2>4. CASE c = Class
    BY <1>1, <1>7, <2>4 DEF Contents
  <2>5. CASE c # Class
    <3>1. i \in 1..job.read
      BY <1>1, <2>5 DEF Class
    <3>2. Held(c, File)
      BY <1>1, <2>3, <3>1 DEF MakingTells
    <3> HIDE DEF c
    <3> QED
      BY <1>1, <1>7, <2>5, <3>2 DEF Held, Exists, Contents, c
  <2> QED
    BY <2>4, <2>5
<1>9. ~(Task'.task \in Streams)
  BY <1>1, <1>2 DEF Streams
<1>10. MakingTells'
  BY <1>1, <1>6, <1>8, <1>9 DEF MakingTells, SuspectsChanged, Held, Exists, Contents
<1> QED
  BY <1>5, <1>10

LEMMA CompileNextFacts ==
  ASSUME TypeInv, CompileNext
  PROVE  /\ Compiling /\ Frame /\ Same /\ Task' = Task /\ build' = build /\ job \in JobSet
         /\ ~More => job' = Reporting
         /\ More => /\ job'.list = job.list /\ job'.n = job.n + 1 /\ job'.read = 0 /\ job'.phase = "stream"
                    /\ job'.errors = job.errors /\ job.read = Len(Types[File])
<1>1. Compiling /\ Frame /\ Same /\ Task' = Task /\ build' = build
  BY DEF CompileNext, Frame, Task
<1>2. job \in JobSet /\ job.phase = "stream"
  BY <1>1, CompilingFacts DEF TypeOK, JobSet
<1>3. ASSUME More
      PROVE  /\ job'.list = job.list /\ job'.n = job.n + 1 /\ job'.read = 0 /\ job'.phase = "stream"
             /\ job'.errors = job.errors /\ job.read = Len(Types[File])
  <2>1. job.read = Len(Types[File]) /\ job' = [job EXCEPT !.n = @ + 1, !.read = 0]
    BY <1>3 DEF CompileNext
  <2> QED
    BY <1>2, <2>1 DEF JobSet
<1> QED
  BY <1>1, <1>2, <1>3 DEF CompileNext

\* A class of the source that was compiled is told of.
LEMMA CompiledTells ==
  ASSUME TypeInv, MakingTells, KeptSourcesWhole, Compiling, More, job.read = Len(Types[File]), disk' = disk,
         NEW pair \in Derived, Compiled(pair), pair[1] = File, pair \notin suspect
  PROVE  Tells(pair)'
<1>1. File \in DOMAIN disk /\ Types[File] \in Seq(Paths)
  BY CompilingFacts
<1>2. pair[2] \in Range(Types[File])
  BY DEF Compiled
<1>3. PICK i \in 1..job.read : Types[File][i] = pair[2]
  BY <1>1, <1>2 DEF Range
<1>4. pair = <<File, Types[File][i]>>
  BY <1>3 DEF Derived
<1>5. Held(Types[File][i], File)
  BY <1>4 DEF MakingTells
<1>6. pair[1] \in DOMAIN disk /\ pair[2] \in DOMAIN disk /\ disk[pair[2]].content = disk[pair[1]].content
  BY <1>1, <1>3, <1>5 DEF Held, Exists, Contents
<1> QED
  BY <1>6, MadeTells

LEMMA CompileNextTells ==
  ASSUME TypeInv, TypeInv', TimesTell, MakingTells, KeptSourcesWhole, CompileNext
  PROVE  TimesTell' /\ MakingTells'
<1>1. /\ Compiling /\ Frame /\ Task' = Task /\ build' = build /\ disk' = disk /\ suspect' = suspect
      /\ changed' = changed
  BY CompileNextFacts DEF Same
<1>2. Harmless
  BY <1>1 DEF Harmless
<1>3. /\ build # "none" /\ job.phase = "stream" /\ Task.task = "javac" /\ TypeOK
  BY <1>1, CompilingFacts
<1>4. CASE ~More
  <2>1. job.n \notin Int \/ job.n..Len(job.list) = {}
    BY <1>3, <1>4 DEF TypeOK, More
  <2>2. job.n \in Int
    BY <1>3 DEF TypeOK
  <2>3. \A pair : ~BeingMade(pair)
    BY <1>3, <2>1, <2>2 DEF BeingMade, Streams
  <2>4. job'.phase # "stream"
    BY <1>3, <1>4, CompileNextFacts, ReportMoves DEF MovedTo
  <2> QED
    BY <1>2, <2>3, <2>4, TimesTellStep, NothingMade DEF Finished, TypeInv
<1>5. CASE More
  <2>1. /\ job'.list = job.list /\ job'.n = job.n + 1 /\ job'.read = 0 /\ job'.phase = "stream"
        /\ job.read = Len(Types[File])
    BY <1>5, CompileNextFacts
  <2>2. \A i \in job.n..Len(job.list) : i = job.n \/ i \in (job.n + 1)..Len(job.list)
    BY <1>3 DEF TypeOK
  <2>3. \A i \in (job.n + 1)..Len(job.list) : i \in job.n..Len(job.list)
    BY <1>3 DEF TypeOK
  <2>4. \A pair : BeingMade(pair) <=> Compiled(pair) /\ \E i \in job.n..Len(job.list) : job.list[i] = pair[1]
    BY <1>3 DEF BeingMade, Running, Streams
  <2>5. \A pair : BeingMade(pair)' <=>
            Compiled(pair) /\ \E i \in (job.n + 1)..Len(job.list) : job.list[i] = pair[1]
    BY <1>1, <1>3, <2>1 DEF BeingMade, Running, Streams, Compiled
  <2>6. ASSUME NEW pair \in Derived, Finished(pair), pair \notin suspect'
        PROVE  Tells(pair)'
    <3>1. Compiled(pair) /\ pair[1] = File
      BY <2>2, <2>4, <2>5, <2>6 DEF Finished, File
    <3> QED
      BY <1>1, <1>5, <2>1, <2>6, <3>1, CompiledTells
  <2>7. TimesTell'
    BY <1>2, <2>6, TimesTellStep DEF TypeInv
  <2>8. SuspectsChanged'
    <3>1. \A pair : BeingMade(pair)' => BeingMade(pair)
      BY <2>3, <2>4, <2>5
    <3> QED
      BY <1>1, <3>1 DEF MakingTells, SuspectsChanged
  <2>9. 1..job'.read = {} /\ ~(Task'.task \in Streams)
    BY <1>1, <1>3, <2>1 DEF Streams
  <2>10. MakingTells'
    BY <2>8, <2>9 DEF MakingTells, SuspectsChanged
  <2> QED
    BY <2>7, <2>10
<1> QED
  BY <1>4, <1>5

\* An edit leaves every other file as it was.
LEMMA EditLeaves ==
  ASSUME TypeOK, NEW s \in Sources, Edit(s)
  PROVE  /\ UNCHANGED <<build, at, job>> /\ Task' = Task /\ \E new : Becomes(new, {})
         /\ DOMAIN disk' = {s} \cup DOMAIN disk
         /\ \A q \in DOMAIN disk : q # s => disk'[q] = disk[q]
<1>1. disk' = Put(s, Edited(s), disk) /\ UNCHANGED <<build, at, job>> /\ Becomes(Put(s, Edited(s), disk), {})
  BY EditFacts, BecomesIs
<1>2. PutIs(s, Edited(s), disk, disk')
  BY <1>1, EditFacts
<1> QED
  BY <1>1, <1>2 DEF PutIs, Task

\* What a step that leaves the job alone, and files it makes, leaves in hand.
LEMMA MakingKept ==
  ASSUME TypeInv, TypeInv', MakingTells, UNCHANGED <<build, at, job>>, build # "none", job.phase # "rest",
         NEW new, Becomes(new, {}), DOMAIN disk \subseteq DOMAIN disk',
         Task.task \in Streams /\ Streaming => Dest \in DOMAIN disk' /\ disk'[Dest] = disk[Dest],
         Compiling /\ More => \A c \in Range(Types[File]) :
             c \in DOMAIN disk => c \in DOMAIN disk' /\ disk'[c] = disk[c]
  PROVE  MakingTells'
<1>1. Task' = Task /\ File' = File /\ Dest' = Dest /\ More' = More
      /\ Running("stream")' = Running("stream") /\ Compiling' = Compiling /\ job' = job
  BY DEF Task, File, Dest, More, Running, Compiling
<1>2. \A q : BeingMade(q)' <=> BeingMade(q)
  BY MakingSame
<1>3. SuspectsChanged'
  BY <1>2, SuspectsStep DEF MakingTells, SuspectsChanged
<1>4. ASSUME Running("stream"), Task.task \in Streams, <<File, Dest>> \notin suspect'
      PROVE  /\ job.read <= Len(disk'[File].content)
             /\ disk'[Dest].content = SubSeq(disk'[File].content, 1, job.read)
  <2>1. Streaming
    BY <1>4 DEF Streaming, Streams
  <2>2. /\ More /\ Range(job.list) \subseteq Range(Task.files) /\ File \in DOMAIN disk
    BY <2>1, StreamingFacts
  <2>3. File \in DOMAIN disk' /\ disk'[Dest] = disk[Dest]
    BY <1>4, <2>1, <2>2
  <2>4. <<File, Dest>> \notin suspect /\ File \notin ChangedFiles
    BY <1>4, <2>2, InHandPair, SourceSteady
  <2>5. disk'[File] = disk[File]
    BY <2>3, <2>4, SteadyFile
  <2> QED
    BY <1>4, <2>3, <2>4, <2>5 DEF MakingTells, Contents
<1>5. ASSUME Compiling, More, NEW i \in 1..job.read, <<File, Types[File][i]>> \notin suspect'
      PROVE  Types[File][i] \in DOMAIN disk' /\ disk'[Types[File][i]].content = disk'[File].content
  <2> DEFINE c == Types[File][i]
  <2>1. /\ Types[File] \in Seq(Paths) /\ job.read \in 0..Len(Types[File]) /\ File \in DOMAIN disk
    BY <1>5, CompilingFacts
  <2>2. c \in Range(Types[File])
    <3>1. i \in 1..Len(Types[File])
      BY <2>1
    <3> QED
      BY <2>1, <3>1, RangeIs
  <2>3. <<File, c>> \notin suspect /\ File \notin ChangedFiles
    BY <1>5, <2>2, ClassPair, SourceSteady
  <2>4. Held(c, File)
    BY <1>5, <2>3 DEF MakingTells
  <2> HIDE DEF c
  <2>5. c \in DOMAIN disk' /\ disk'[c] = disk[c]
    BY <1>5, <2>2, <2>4 DEF Held, Exists
  <2>6. disk'[File] = disk[File]
    BY <2>1, <2>3, SteadyFile
  <2>7. disk[c].content = disk[File].content
    BY <2>4 DEF Held, Contents
  <2>8. c \in DOMAIN disk' /\ disk'[c].content = disk'[File].content
    BY <2>5, <2>6, <2>7
  <2> QED
    BY <2>8 DEF c
<1> QED
  BY <1>1, <1>3, <1>4, <1>5 DEF MakingTells, SuspectsChanged, Held, Exists, Contents

LEMMA EditTells ==
  ASSUME TypeInv, TypeInv', TimesTell, MakingTells, Apart, NEW s \in Sources, Edit(s)
  PROVE  TimesTell' /\ MakingTells'
<1>1. /\ UNCHANGED <<build, at, job>> /\ Task' = Task /\ DOMAIN disk \subseteq DOMAIN disk'
      /\ \A q \in DOMAIN disk : q # s => disk'[q] = disk[q]
  BY EditLeaves DEF TypeInv
<1>2. PICK new : Becomes(new, {})
  BY EditLeaves DEF TypeInv
<1>3. TimesTell'
  <2>1. Harmless
    BY <1>2 DEF Harmless
  <2>2. \A q \in Derived : ~Finished(q)
    BY <1>1, MakingSame DEF Finished
  <2> QED
    BY <2>1, <2>2, TimesTellStep DEF TypeInv
<1>4. CASE build = "none" \/ job.phase = "rest"
  BY <1>1, <1>3, <1>4, NothingMade
<1>5. CASE build # "none" /\ job.phase # "rest"
  <2>1. Task.task \in Streams /\ Streaming => Dest \in DOMAIN disk' /\ disk'[Dest] = disk[Dest]
    <3> SUFFICES ASSUME Task.task \in Streams, Streaming
                 PROVE  Dest \in DOMAIN disk' /\ disk'[Dest] = disk[Dest]
      OBVIOUS
    <3>1. Task \in AllTasks /\ File \in Range(Task.files) /\ Dest \in DOMAIN disk
      BY StreamingFacts DEF Known
    <3>2. Dest # s
      BY <3>1 DEF Apart, Makers, Dest
    <3> QED
      BY <1>1, <3>1, <3>2
  <2>2. Compiling /\ More => \A c \in Range(Types[File]) :
            c \in DOMAIN disk => c \in DOMAIN disk' /\ disk'[c] = disk[c]
    <3> SUFFICES ASSUME Compiling, More, NEW c \in Range(Types[File]), c \in DOMAIN disk
                 PROVE  c \in DOMAIN disk' /\ disk'[c] = disk[c]
      OBVIOUS
    <3>1. c # s
      BY CompilingFacts DEF Apart
    <3> QED
      BY <1>1, <3>1
  <2>3. MakingTells'
    BY <1>1, <1>2, <1>5, <2>1, <2>2, MakingKept
  <2> QED
    BY <1>3, <2>3
<1> QED
  BY <1>4, <1>5

LEMMA TickTells ==
  ASSUME TypeOK', TimesTell, MakingTells, UNCHANGED <<disk, suspect, changed, build, at, job>>
  PROVE  TimesTell' /\ MakingTells'
<1>1. /\ Task' = Task /\ File' = File /\ Dest' = Dest /\ More' = More
      /\ Running("stream")' = Running("stream") /\ Compiling' = Compiling
  BY DEF Task, File, Dest, More, Running, Compiling
<1>2. \A q : BeingMade(q)' <=> BeingMade(q)
  BY MakingSame
<1>3. TimesTell'
  BY <1>2, TimesTellStep DEF Harmless, Finished
<1>4. \A pair \in Derived : BeingMade(pair)' /\ pair \in suspect' => pair[1] \in changed'
  BY <1>2 DEF MakingTells
<1>5. MakingTells'
  BY <1>1, <1>4 DEF MakingTells, Held, Exists, Contents
<1> QED
  BY <1>3, <1>5

LEMMA TellsStep ==
  ASSUME TypeInv, TypeInv', TimesTell, MakingTells, KeptSourcesWhole, Apart, [Next]_vars
  PROVE  TimesTell' /\ MakingTells'
<1>1. CASE UNCHANGED vars \/ Tick
  BY <1>1, TickTells DEF vars, Tick, Same, TypeInv
<1>2. CASE TaskStep
  <2>1. CASE SkipFile \/ RefuseFile \/ mkdir_main \/ do_move_file \/ do_touch_file \/ do_delete_file
    BY <2>1, OneFileQuiet, StreamQuiet, QuietTells DEF TypeInv
  <2>2. CASE Begin \/ EndTask \/ jar_invoke \/ apply_invoke
    BY <2>2, BeginQuiet, JarApplyQuiet, QuietTells DEF TypeInv
  <2>3. CASE OpenOutput \/ OpenInput \/ CloseOutput
    <3>1. Task.task = "concat"
      BY <2>3 DEF OpenOutput, OpenInput, CloseOutput
    <3> QED
      BY <2>3, <3>1, ConcatQuiet, QuietTells DEF TypeInv
  <2>4. CASE OpenFile \/ CopyChunk \/ CloseFile
    BY <2>4, OpenFileTells, CopyChunkTells, CloseFileTells
  <2>5. CASE FindStale \/ CompileClass \/ CompileNext
    BY <2>5, FindStaleTells, CompileClassTells, CompileNextTells
  <2> QED
    BY <1>2, <2>1, <2>2, <2>3, <2>4, <2>5 DEF TaskStep
<1>3. CASE WriteFails \/ CompilerFails \/ Kill
  BY <1>3, FaultTells DEF TypeInv
<1>4. CASE \E s \in Sources : Edit(s)
  BY <1>4, EditTells
<1>5. CASE \E b \in project : Start(b)
  BY <1>5, BeginQuiet, QuietTells DEF TypeInv
<1> QED
  BY <1>1, <1>2, <1>3, <1>4, <1>5 DEF Next

LEMMA TellsInit ==
  ASSUME Init
  PROVE  TimesTell /\ MakingTells
<1>1. suspect = {pair \in Derived : {pair[2], Judge[pair]} \cap DOMAIN disk # {}} /\ build = "none"
  BY DEF Init
<1>2. ASSUME NEW pair \in Derived \ suspect
      PROVE  Tells(pair)
  BY <1>1, <1>2 DEF Tells, Told, Exists
<1>3. TimesTell
  BY <1>2 DEF TimesTell
<1>4. MakingTells
  BY <1>1 DEF MakingTells, BeingMade, Running, Compiling
<1> QED
  BY <1>3, <1>4

-----------------------------------------------------------------------------
(* What the task has done stays done                                       *)

\* Whatever is not known to have changed is as it was.
Steady ==
    /\ changed \subseteq changed'
    /\ \A f \in DOMAIN disk' : f \notin changed' => f \in DOMAIN disk /\ disk'[f] = disk[f]

\* A step of a task, and of the world while the task runs.
Within ==
    /\ TypeInv /\ build # "none" /\ job.phase # "rest" /\ job'.phase # "rest"
    /\ Task' = Task /\ build' = build
    /\ Steady

\* Either there is no such file before and after, or it is the same.
Still(p) == (p \in DOMAIN disk' <=> p \in DOMAIN disk) /\ (p \in DOMAIN disk => disk'[p] = disk[p])

LEMMA BecomesSteady ==
  ASSUME job.phase # "rest", NEW new, NEW again, Becomes(new, again)
  PROVE  /\ Steady /\ changed' = changed \cup ChangedFiles
         /\ suspect \ again \subseteq suspect'
<1>1. changed' = changed \cup ChangedFiles /\ suspect' = (suspect \cup Unseen(ChangedFiles)) \ again
  BY BecomesIs
<1>2. \A f \in DOMAIN disk' : f \notin ChangedFiles => f \in DOMAIN disk /\ disk'[f] = disk[f]
  BY SteadyFile
<1> QED
  BY <1>1, <1>2 DEF Steady

LEMMA UnchangedSteady ==
  ASSUME UNCHANGED <<disk, changed>>
  PROVE  Steady /\ \A p : Still(p)
BY DEF Steady, Still

\* The steps of the world and of the task itself.
LEMMA BecomesWithin ==
  ASSUME TypeInv, build # "none", job.phase # "rest", job'.phase # "rest", UNCHANGED <<build, at>>,
         UNCHANGED <<disk, changed>> \/ \E new, again : Becomes(new, again)
  PROVE  Within
<1>1. Steady
  BY BecomesSteady, UnchangedSteady
<1>2. Task' = Task
  BY DEF Task
<1> QED
  BY <1>1, <1>2 DEF Within

LEMMA StillUnchanged ==
  ASSUME job.phase # "rest", NEW new, NEW again, Becomes(new, again), NEW p, Still(p), p \notin changed
  PROVE  p \notin changed'
<1>1. p \notin ChangedFiles
  BY DEF Still, ChangedFiles, Exists
<1> QED
  BY <1>1, BecomesSteady

LEMMA ReadableSteady ==
  ASSUME Steady, NEW f, Readable(f)'
  PROVE  f \in DOMAIN disk /\ f \in DOMAIN disk' /\ disk'[f] = disk[f] /\ f \notin changed /\ Readable(f)
<1>1. f \in DOMAIN disk' /\ f \notin changed' /\ f # <<>> /\ disk'[f].type # "directory"
  BY DEF Readable, Exists, IsDirectory
<1>2. f \in DOMAIN disk /\ disk'[f] = disk[f] /\ f \notin changed
  BY <1>1 DEF Steady
<1> QED
  BY <1>1, <1>2 DEF Readable, Exists, IsDirectory

LEMMA LeftOutStays ==
  ASSUME Within, LeftOut, job'.list = job.list, job'.phase = "open" => job.phase = "open"
  PROVE  LeftOut'
<1> SUFFICES ASSUME Task.task # "javac" \/ job'.phase = "open", NEW f \in Range(Task.files) \ Range(job.list)
             PROVE  Task.fileset /\ (f \in DOMAIN disk' => f \in changed')
  BY DEF LeftOut, Within, Exists
<1>1. Task.fileset /\ (f \in DOMAIN disk => f \in changed)
  BY DEF LeftOut, Exists
<1> QED
  BY <1>1 DEF Within, Steady

\* What is left to show of a step within a task: its own part.
LEMMA Kinds ==
  ASSUME Within, LeftOut',
         Task.task \in Streams => StreamsInStep',
         Task.task = "concat" => ConcatInStep',
         Task.task = "apply" => ApplyInStep',
         Task.task = "delete" => DeleteInStep',
         Task.task = "javac" => CompiledInStep'
  PROVE  TaskInv'
<1>1. Task' = Task /\ job'.phase # "rest"
  BY DEF Within
<1>2. StreamsInStep' /\ ConcatInStep' /\ ApplyInStep' /\ DeleteInStep' /\ CompiledInStep'
  BY <1>1 DEF StreamsInStep, ConcatInStep, ApplyInStep, DeleteInStep, CompiledInStep
<1> QED
  BY <1>1, <1>2 DEF TaskInv

\* The task is done with the file in hand.
Advances ==
    /\ job'.list = job.list /\ Passed' = Past \cup {File} /\ InHand' = {}
    /\ job'.phase \in {"files", "reported"}
    /\ job'.errors = 0 => job.errors = 0

LEMMA NextAdvances ==
  ASSUME TypeOK, More, build # "none", UNCHANGED <<build, at>>, NEW ok, job' = If(ok, Next_file)
  PROVE  Advances /\ (job'.errors = 0 => ok /\ job' = Next_file)
<1> DEFINE next == [job EXCEPT !.phase = "files", !.n = @ + 1, !.read = 0, !.stat = 0]
<1>1. job \in JobSet /\ job.n \in 1..Len(job.list) /\ job.list \in Seq(Paths) /\ Len(job.list) \in Nat
  BY DEF TypeOK, JobSet, More
<1>2. /\ next.list = job.list /\ next.phase = "files" /\ next.n = job.n + 1 /\ next.errors = job.errors
      /\ next.errors \in Nat /\ Failing(next).list = next.list /\ Failing(next).phase = next.phase
      /\ Failing(next).n = next.n /\ Failing(next).errors = job.errors + 1
  <2>1. next \in JobSet /\ next.list = job.list /\ next.phase = "files" /\ next.n = job.n + 1
        /\ next.errors = job.errors
    <3>1. 0 \in 0..MaxTime /\ "files" \in Phases /\ job.n + 1 \in Nat
      BY <1>1, FilesAssumption DEF Phases
    <3> QED
      BY <1>1, <3>1 DEF JobSet
  <2> HIDE DEF next
  <2> QED
    BY <2>1 DEF Failing, JobSet
<1>3. /\ Reporting.list = job.list /\ Reporting.phase = "reported" /\ Reporting.n = job.n
      /\ Reporting.errors = job.errors /\ Reporting.errors \in Nat
      /\ Failing(Reporting).list = job.list /\ Failing(Reporting).phase = "reported"
      /\ Failing(Reporting).n = job.n /\ Failing(Reporting).errors = job.errors + 1
  <2>1. Reporting \in JobSet /\ Reporting.list = job.list /\ Reporting.phase = "reported"
        /\ Reporting.n = job.n /\ Reporting.errors = job.errors
    BY <1>1, ReportingMoves DEF MovedTo, JobSet, Reporting
  <2> QED
    BY <2>1 DEF Failing, JobSet
<1>4. Next_file = IF job.n = Len(job.list) /\ Task.task # "concat" THEN Reporting ELSE next
  BY DEF Next_file
<1> HIDE DEF next
<1>5. \/ /\ job'.phase = "files" /\ job'.n = job.n + 1
      \/ /\ job'.phase = "reported" /\ job.n = Len(job.list)
  BY <1>2, <1>3, <1>4 DEF If
<1>6. job'.list = job.list
  BY <1>2, <1>3, <1>4 DEF If
<1>7. job'.errors = 0 => ok /\ job' = Next_file /\ job.errors = 0
  <2>1. job.errors \in Nat /\ job.errors + 1 # 0
    BY <1>1 DEF JobSet
  <2> QED
    BY <1>2, <1>3, <1>4, <2>1 DEF If
<1>8. {job.list[i] : i \in 1..((job.n + 1) - 1)} = Past \cup {File}
  <2>1. 1..((job.n + 1) - 1) = 1..(job.n - 1) \cup {job.n}
    BY <1>1
  <2> QED
    BY <2>1 DEF Past, File
<1>9. job.n = Len(job.list) => Range(job.list) = Past \cup {File}
  <2> SUFFICES ASSUME job.n = Len(job.list)
               PROVE  Range(job.list) = Past \cup {File}
    OBVIOUS
  <2>1. DOMAIN job.list = 1..(job.n - 1) \cup {job.n}
    BY <1>1
  <2> QED
    BY <2>1 DEF Past, File, Range
<1>10. Passed' = Past \cup {File}
  <2>1. CASE job'.phase = "files" /\ job'.n = job.n + 1
    <3>1. Passed' = {job.list[i] : i \in 1..((job.n + 1) - 1)}
      BY <1>6, <2>1 DEF Passed, Past
    <3> QED
      BY <1>8, <3>1
  <2>2. CASE job'.phase = "reported" /\ job.n = Len(job.list)
    BY <1>6, <1>9, <2>2 DEF Passed
  <2> QED
    BY <1>5, <2>1, <2>2
<1>11. InHand' = {}
  BY <1>5 DEF InHand, Running
<1> QED
  BY <1>5, <1>6, <1>7, <1>10, <1>11 DEF Advances

\* The directories a file needs are above it.
LEMMA MissingIsAbove ==
  ASSUME NEW p \in Paths, NEW q \in Missing(Front(p))
  PROVE  IsPrefix(q, p)
<1> DEFINE S == {p[i] : i \in DOMAIN p}
           front == Front(p)
<1>1. p \in Seq(S) /\ p # <<>>
  BY PathsAssumption
<1> HIDE DEF S
<1>2. front = SubSeq(p, 1, Len(p) - 1) /\ Len(p) \in Nat \ {0}
  BY <1>1 DEF Front
<1>3. front \in Seq(S) /\ Len(front) = Len(p) - 1
  <2>1. \A i \in 1..(Len(p) - 1) : p[i] \in S
    BY <1>1, <1>2
  <2>2. 1 \in Int /\ Len(p) - 1 \in Int
    BY <1>2
  <2>3. SubSeq(p, 1, Len(p) - 1) \in Seq(S)
        /\ Len(SubSeq(p, 1, Len(p) - 1)) = IF 1 <= Len(p) - 1 THEN (Len(p) - 1) - 1 + 1 ELSE 0
    BY <2>1, <2>2, SubSeqProperties
  <2> DEFINE l == Len(p) - 1
             before == SubSeq(p, 1, l)
  <2>4. l \in Nat /\ (l - 1) + 1 = l /\ (~(1 <= l) => l = 0)
    <3>1. \A k \in Nat \ {0} : k - 1 \in Nat /\ ((k - 1) - 1) + 1 = k - 1 /\ (~(1 <= k - 1) => k - 1 = 0)
      OBVIOUS
    <3> QED
      BY <1>2, <3>1
  <2> HIDE DEF l, before
  <2>5. before \in Seq(S) /\ Len(before) = IF 1 <= l THEN (l - 1) + 1 ELSE 0
    BY <2>3 DEF l, before
  <2>6. Len(before) = l
    BY <2>4, <2>5
  <2> QED
    BY <1>2, <2>5, <2>6 DEF l, before
<1>4. PICK n \in 1..Len(front) : q = SubSeq(front, 1, n)
  <2>1. q # <<>> /\ (q \in Above(front) \/ q = front)
    BY DEF Missing
  <2>2. CASE q = front
    <3>1. Len(front) \in 1..Len(front) /\ q = SubSeq(front, 1, Len(front))
      BY <1>3, <2>1, <2>2, SubSeqFull
    <3> QED
      BY <3>1
  <2>3. CASE q \in Above(front)
    <3>1. 1..(Len(front) - 1) \subseteq 1..Len(front)
      BY <1>3
    <3> QED
      BY <2>3, <3>1 DEF Above
  <2> QED
    BY <2>1, <2>2, <2>3
<1>5. q = SubSeq(p, 1, n)
  <2>1. 1 \in 1..Len(p) /\ Len(p) - 1 \in 1..Len(p) /\ 1 \in 1..((Len(p) - 1) - 1 + 1) /\ n \in 1..((Len(p) - 1) - 1 + 1)
    BY <1>2, <1>3
  <2>2. SubSeq(SubSeq(p, 1, Len(p) - 1), 1, n) = SubSeq(p, 1 + 1 - 1, 1 + n - 1)
    BY <1>1, <2>1, SubSeqOfSubSeq
  <2>3. 1 + 1 - 1 = 1 /\ 1 + n - 1 = n
    OBVIOUS
  <2> QED
    BY <1>2, <1>4, <2>2, <2>3
<1>6. q \in Seq(S) /\ Len(q) = n /\ n <= Len(p)
  <2>1. \A i \in 1..n : p[i] \in S
    BY <1>1, <1>2, <1>3
  <2> QED
    BY <1>2, <1>3, <1>5, <2>1
<1> HIDE DEF front
<1>7. SubSeq(q, 1, Len(q)) = SubSeq(p, 1, Len(q))
  BY <1>5, <1>6, SubSeqFull
<1> QED
  BY <1>6, <1>7 DEF IsPrefix

\* What a stream makes other than the file in hand is not touched.
LEMMA OthersStill ==
  ASSUME TypeInv, Apart, build # "none", job.phase # "rest", Task.task \in Streams, More,
         DOMAIN disk \subseteq DOMAIN disk', DOMAIN disk' \subseteq DOMAIN disk \cup Missing(Front(Dest)) \cup {Dest},
         \A q \in DOMAIN disk : q # Dest => disk'[q] = disk[q],
         NEW f \in Range(Task.files), f # File
  PROVE  Still(Task.to[f])
<1>1. TypeOK /\ Known(Task) /\ Range(job.list) \subseteq Range(Task.files)
  BY Working
<1>2. File \in Range(Task.files) /\ Dest \in Paths /\ Task \in AllTasks
  BY <1>1, FileFacts, DestFacts DEF Known, Streams
<1>3. ~(Task.to[f] = Dest \/ IsPrefix(Task.to[f], Dest))
  BY <1>2 DEF Apart, Makers, Dest
<1>4. Task.to[f] \notin Missing(Front(Dest))
  BY <1>2, <1>3, MissingIsAbove
<1> QED
  BY <1>3, <1>4 DEF Still

\* What keeps StreamDone of a file.
Kept(f) ==
    /\ Still(Task.to[f])
    /\ Task.to[f] \in changed' => Task.to[f] \in changed
    /\ <<f, Task.to[f]>> \in suspect => <<f, Task.to[f]>> \in suspect'

LEMMA KeptByBecomes ==
  ASSUME job.phase # "rest", NEW new, NEW again, Becomes(new, again), NEW f, Still(Task.to[f]),
         <<f, Task.to[f]>> \notin again
  PROVE  Kept(f)
BY StillUnchanged, BecomesSteady DEF Kept

LEMMA KeptUnchanged ==
  ASSUME UNCHANGED <<disk, changed>>, suspect \subseteq suspect', NEW f
  PROVE  Kept(f)
BY UnchangedSteady DEF Kept

LEMMA StreamDoneKept ==
  ASSUME Within, NEW f, Kept(f), StreamDone(f)
  PROVE  StreamDone(f)'
<1> SUFFICES ASSUME Readable(f)'
             PROVE  /\ Exists(Task.to[f])'
                    /\ ~Untold(<<f, Task.to[f]>>)' =>
                          Held(Task.to[f], f)' \/ (Keeps(Task) /\ Whole(Task.to[f])')
  BY DEF StreamDone, Within, Keeps
<1> DEFINE d == Task.to[f]
<1>1. f \in DOMAIN disk /\ f \in DOMAIN disk' /\ disk'[f] = disk[f] /\ Readable(f)
  BY ReadableSteady DEF Within
<1>2. d \in DOMAIN disk
  BY <1>1 DEF StreamDone, Exists
<1>3. d \in DOMAIN disk' /\ disk'[d] = disk[d]
  BY <1>2 DEF Kept, Still
<1>4. Task'.to[f] = d
  BY DEF Within
<1>5. ASSUME ~Untold(<<f, Task.to[f]>>)'
      PROVE  Held(Task.to[f], f)' \/ (Keeps(Task) /\ Whole(Task.to[f])')
  <2>1. ~Untold(<<f, d>>)
    BY <1>4, <1>5 DEF Untold, Kept
  <2>2. Held(d, f) \/ (Keeps(Task) /\ Whole(d))
    BY <1>1, <2>1 DEF StreamDone
  <2>3. CASE Held(d, f)
    <3>1. Held(Task.to[f], f)'
      BY <1>1, <1>2, <1>3, <1>4, <2>3 DEF Held, Exists, Contents
    <3> QED
      BY <3>1
  <2>4. CASE Keeps(Task) /\ Whole(d)
    <3>1. Whole(Task.to[f])'
      BY <1>2, <1>3, <1>4, <2>4 DEF Whole, Exists, Contents
    <3> QED
      BY <2>4, <3>1
  <2> QED
    BY <2>2, <2>3, <2>4
<1> QED
  BY <1>3, <1>4, <1>5 DEF Exists

LEMMA PassedIn ==
  ASSUME TypeInv, build # "none", job.phase # "rest"
  PROVE  Past \subseteq Range(job.list) /\ Passed \subseteq Range(Task.files) /\ Range(job.list) \subseteq Range(Task.files)
<1>1. Range(job.list) \subseteq Range(Task.files) /\ TypeOK
  BY Working
<1>2. job.list \in Seq(Paths) /\ job.n \in 1..(Len(job.list) + 1)
  BY <1>1 DEF TypeOK
<1>3. Past \subseteq Range(job.list)
  BY <1>2, RangeIs DEF Past
<1> QED
  BY <1>1, <1>3 DEF Passed

LEMMA StreamsAdvance ==
  ASSUME Within, StreamsInStep, Task.task \in Streams, job.phase \in {"files", "stream"}, Advances,
         \A f \in Range(Task.files) : f # File => Kept(f),
         job'.errors = 0 => \A f \in {File} : StreamDone(f)'
  PROVE  StreamsInStep'
<1>1. Passed = Past /\ InHand \subseteq {File} /\ Past \subseteq Range(Task.files)
  BY PassedIn DEF Passed, InHand, Within
<1>2. ASSUME job'.errors = 0, NEW f \in Past \cup {File}
      PROVE  StreamDone(f)'
  <2>1. CASE f = File
    BY <1>2, <2>1
  <2>2. CASE f # File
    <3>1. StreamDone(f)
      BY <1>1, <1>2, <2>2 DEF StreamsInStep, Advances
    <3> QED
      BY <1>1, <1>2, <2>2, <3>1, StreamDoneKept
  <2> QED
    BY <2>1, <2>2
<1>3. ASSUME NEW f \in Range(Task.files)
      PROVE  f \in Past \cup {File} \/ Task.to[f] \notin changed'
  BY <1>1 DEF StreamsInStep, Kept
<1>4. Passed' = Past \cup {File} /\ InHand' = {} /\ Task' = Task
  BY DEF Advances, Within
<1> QED
  BY <1>2, <1>3, <1>4 DEF StreamsInStep

LEMMA StreamsHold ==
  ASSUME Within, StreamsInStep, Task.task \in Streams, job.phase \in {"files", "stream"}, job'.phase = "stream",
         job'.list = job.list, job'.n = job.n, job'.errors = job.errors,
         \A f \in Range(Task.files) : f # File => Kept(f)
  PROVE  StreamsInStep'
<1>1. Passed = Past /\ InHand \subseteq {File} /\ Past \subseteq Range(Task.files)
  BY PassedIn DEF Passed, InHand, Within
<1>2. Passed' = Past /\ InHand' = {File} /\ Task' = Task
  BY DEF Passed, Past, InHand, File, Within, Running
<1>3. ASSUME job'.errors = 0, NEW f \in Past \ {File}
      PROVE  StreamDone(f)'
  <2>1. StreamDone(f)
    BY <1>1, <1>3 DEF StreamsInStep
  <2> QED
    BY <1>1, <1>3, <2>1, StreamDoneKept
<1>4. ASSUME NEW f \in Range(Task.files)
      PROVE  f \in Past \cup {File} \/ Task.to[f] \notin changed'
  BY <1>1 DEF StreamsInStep, Kept
<1> QED
  BY <1>2, <1>3, <1>4 DEF StreamsInStep

LEMMA StreamsStay ==
  ASSUME Within, StreamsInStep, Task.task \in Streams, job' = job, \A f \in Range(Task.files) : Kept(f)
  PROVE  StreamsInStep'
<1>1. Passed \subseteq Range(Task.files)
  BY PassedIn DEF Within
<1>2. Passed' = Passed /\ InHand' = InHand /\ Task' = Task
  BY DEF Passed, Past, InHand, File, Within, Running
<1>3. ASSUME job.errors = 0, NEW f \in Passed \ InHand
      PROVE  StreamDone(f)'
  <2>1. StreamDone(f)
    BY <1>3 DEF StreamsInStep
  <2> QED
    BY <1>1, <1>3, <2>1, StreamDoneKept
<1>4. ASSUME NEW f \in Range(Task.files)
      PROVE  f \in Passed \cup InHand \/ Task.to[f] \notin changed'
  BY DEF StreamsInStep, Kept
<1> QED
  BY <1>2, <1>3, <1>4 DEF StreamsInStep

\* A file that is there, and need not be made, is what it should be.
LEMMA SkippedDone ==
  ASSUME TypeInv, TimesTell, Apart, StreamsInStep, OneStream, Skips \/ NotModified, job.errors = 0
  PROVE  StreamDone(File)
<1> DEFINE pair == <<File, Dest>>
<1>1. /\ build # "none" /\ job.phase = "files" /\ More /\ Task.task \in Streams /\ TypeOK /\ Known(Task)
      /\ Range(job.list) \subseteq Range(Task.files) /\ File \in Range(Task.files)
  BY StreamFacts
<1>2. pair \in Derived /\ ~BeingMade(pair)
  BY <1>1, InHandPair, NothingInHand
<1> SUFFICES ASSUME Readable(File)
             PROVE  /\ Exists(Dest)
                    /\ ~Untold(pair) => Held(Dest, File) \/ (Keeps(Task) /\ Whole(Dest))
  BY DEF StreamDone, Dest
<1>3. Exists(File)
  BY DEF Readable
<1>4. Exists(Dest) /\ (~Newer(File, Dest) \/ Keeps(Task))
  BY <1>1, <1>3 DEF Skips, NotModified, needs_copy, Keeps, Streams
<1>5. ASSUME pair \notin suspect
      PROVE  Held(Dest, File) \/ (Keeps(Task) /\ Whole(Dest))
  <2>1. Tells(pair)
    BY <1>2, <1>5 DEF TimesTell
  <2>2. CASE ~Newer(File, Dest)
    <3>1. ~Compiled(pair)
      BY <1>1 DEF Apart, Known, Dest
    <3>2. Judge[pair] = Dest
      BY <1>2, <3>1 DEF Judge
    <3>3. Contents(Dest) = Contents(File)
      BY <1>3, <1>4, <2>1, <2>2, <3>2 DEF Tells, Told, Exists
    <3> QED
      BY <1>4, <3>3 DEF Held
  <2>3. CASE Keeps(Task)
    <3>1. KeptBy(pair)
      BY <1>1, <2>3 DEF KeptBy, Known, Dest
    <3>2. Whole(Dest)
      BY <1>4, <2>1, <3>1 DEF Tells
    <3> QED
      BY <2>3, <3>2
  <2> QED
    BY <1>4, <2>2, <2>3
<1>6. ASSUME Dest \in changed, ~Untold(pair)
      PROVE  Held(Dest, File) \/ (Keeps(Task) /\ Whole(Dest))
  <2>1. File \in Passed \cup InHand
    BY <1>1, <1>6 DEF StreamsInStep, Dest
  <2>2. InHand = {} /\ File \in Passed
    BY <1>1, <2>1 DEF InHand, Running
  <2>3. StreamDone(File)
    BY <1>1, <2>2 DEF StreamsInStep
  <2> QED
    BY <1>6, <2>3 DEF StreamDone, Dest
<1> QED
  BY <1>4, <1>5, <1>6 DEF Untold

LEMMA SkipFileDone ==
  ASSUME Within, TaskInv, TimesTell, Apart, SkipFile
  PROVE  TaskInv'
<1>1. OneStream /\ (Skips \/ NotModified) /\ job' = Next_file /\ Same /\ Frame
  BY DEF SkipFile
<1>2. /\ build # "none" /\ job.phase = "files" /\ More /\ Task.task \in Streams /\ TypeOK
      /\ File \in Range(Task.files)
  BY <1>1, StreamFacts DEF Within
<1>3. Advances
  <2>1. job' = If(TRUE, Next_file) /\ UNCHANGED <<build, at>>
    BY <1>1 DEF If, Frame
  <2> QED
    BY <1>2, <2>1, NextAdvances
<1>4. LeftOut /\ StreamsInStep
  BY <1>2 DEF TaskInv
<1>5. \A f : Kept(f)
  BY <1>1, KeptUnchanged DEF Same
<1>6. ASSUME job'.errors = 0, NEW f \in {File}
      PROVE  StreamDone(f)'
  <2>1. StreamDone(f)
    BY <1>1, <1>3, <1>4, <1>6, SkippedDone DEF Advances, Within
  <2> QED
    BY <1>5, <2>1, StreamDoneKept
<1>7. StreamsInStep'
  BY <1>2, <1>3, <1>4, <1>5, <1>6, StreamsAdvance
<1>8. LeftOut'
  BY <1>3, <1>4, LeftOutStays DEF Advances
<1> QED
  BY <1>2, <1>7, <1>8, Kinds DEF Streams

\* A stream that writes to its own file, and makes the directories it needs.
Writes(again) ==
    /\ \E new : Becomes(new, again)
    /\ DOMAIN disk \subseteq DOMAIN disk' /\ DOMAIN disk' \subseteq DOMAIN disk \cup Missing(Front(Dest)) \cup {Dest}
    /\ \A q \in DOMAIN disk : q # Dest => disk'[q] = disk[q]

LEMMA OthersKept ==
  ASSUME TypeInv, Apart, build # "none", job.phase # "rest", Task.task \in Streams, More,
         NEW again, again \subseteq {<<File, Dest>>}, Writes(again),
         NEW f \in Range(Task.files), f # File
  PROVE  Kept(f)
<1>1. PICK new : Becomes(new, again)
  BY DEF Writes
<1>2. Still(Task.to[f])
  BY OthersStill DEF Writes
<1>3. <<f, Task.to[f]>> \notin again
  OBVIOUS
<1> QED
  BY <1>1, <1>2, <1>3, KeptByBecomes

LEMMA RefuseFileDone ==
  ASSUME TypeInv, TaskInv, Apart, RefuseFile
  PROVE  TaskInv'
<1>0. PICK new \in Refused : Becomes(new, {})
  BY DEF RefuseFile
<1>1. OneStream /\ Becomes(new, {}) /\ Frame /\ job' = Failing(Next_file)
  BY <1>0 DEF RefuseFile
<1>2. /\ build # "none" /\ job.phase = "files" /\ More /\ Task.task \in Streams /\ TypeOK
      /\ Keeping(mkdirp(Front(Dest)), Missing(Front(Dest)))
  BY <1>1, StreamFacts
<1>3. Writes({})
  <2>1. disk' = new
    BY <1>1 DEF Becomes
  <2> QED
    BY <1>1, <2>1, RefusedDisk DEF Writes
<1>4. Advances /\ job'.errors # 0
  <2>1. job' = If(FALSE, Next_file) /\ UNCHANGED <<build, at>>
    BY <1>1 DEF If, Frame
  <2> QED
    BY <1>2, <2>1, NextAdvances
<1>5. Within
  BY <1>1, <1>2, <1>4, BecomesWithin DEF Advances, Frame
<1>6. StreamsInStep'
  <2>1. \A f \in Range(Task.files) : f # File => Kept(f)
    BY <1>2, <1>3, OthersKept
  <2> QED
    BY <1>2, <1>4, <1>5, <2>1, StreamsAdvance DEF TaskInv
<1>7. LeftOut'
  BY <1>2, <1>4, <1>5, LeftOutStays DEF Advances, TaskInv
<1> QED
  BY <1>2, <1>5, <1>6, <1>7, Kinds DEF Streams

LEMMA OpenFileDone ==
  ASSUME TypeInv, TaskInv, Apart, OpenFile
  PROVE  TaskInv'
<1> DEFINE tree == mkdirp(Front(Dest))
           new == Put(Dest, EmptyFile(clock), tree)
           pair == <<File, Dest>>
<1>1. /\ OneStream /\ Becomes(new, {pair}) /\ Frame
      /\ job' = [job EXCEPT !.phase = "stream", !.stat = disk[File].mtime]
  BY DEF OpenFile
<1>2. /\ build # "none" /\ job.phase = "files" /\ More /\ Task.task \in Streams /\ TypeOK
      /\ Keeping(tree, Missing(Front(Dest))) /\ Dest \in Paths /\ job \in JobSet
  BY <1>1, StreamFacts DEF JobSet, TypeOK
<1> HIDE DEF tree
<1>3. EmptyFile(clock) \in Entry /\ EmptyFile(clock).type = "file"
  BY <1>2, EntryFacts DEF EmptyFile, TypeOK
<1>4. PutIs(Dest, EmptyFile(clock), tree, new)
  BY <1>2, <1>3, PutDisk DEF Keeping
<1> HIDE DEF new
<1>5. disk' = new
  BY <1>1 DEF Becomes
<1>6. Writes({pair})
  BY <1>1, <1>2, <1>4, <1>5 DEF Writes, Keeping, PutIs
<1>7. /\ job'.phase = "stream" /\ job'.list = job.list /\ job'.n = job.n /\ job'.errors = job.errors
  BY <1>1, <1>2 DEF JobSet
<1>8. Within
  BY <1>1, <1>2, <1>7, BecomesWithin DEF Frame
<1>9. StreamsInStep'
  <2>1. \A f \in Range(Task.files) : f # File => Kept(f)
    BY <1>2, <1>6, OthersKept
  <2> QED
    BY <1>2, <1>7, <1>8, <2>1, StreamsHold DEF TaskInv
<1>10. LeftOut'
  BY <1>2, <1>7, <1>8, LeftOutStays DEF TaskInv
<1> QED
  BY <1>2, <1>8, <1>9, <1>10, Kinds DEF Streams

LEMMA CopyChunkWithin ==
  ASSUME TypeInv, CopyChunk
  PROVE  Within
<1>1. PICK new : Becomes(new, {})
  BY CopyChunkFacts
<1>2. build # "none" /\ job.phase = "stream" /\ job'.phase = "stream" /\ UNCHANGED <<build, at>>
  BY CopyChunkFacts, StreamingFacts DEF Frame
<1> QED
  BY <1>1, <1>2, BecomesWithin

LEMMA CopyStreamDone ==
  ASSUME TypeInv, TaskInv, Apart, CopyChunk, Task.task \in Streams
  PROVE  TaskInv'
<1>1. /\ build # "none" /\ job.phase = "stream" /\ More /\ TypeOK /\ Dest \in DOMAIN disk
      /\ job'.phase = "stream" /\ job'.list = job.list /\ job'.n = job.n /\ job'.errors = job.errors
      /\ DOMAIN disk' = DOMAIN disk /\ \A q \in DOMAIN disk : q # Dest => disk'[q] = disk[q]
  BY CopyChunkFacts, StreamingFacts
<1>2. Writes({})
  BY <1>1, CopyChunkFacts DEF Writes
<1>3. StreamsInStep'
  <2>1. \A f \in Range(Task.files) : f # File => Kept(f)
    BY <1>1, <1>2, OthersKept
  <2> QED
    BY <1>1, <2>1, StreamsHold, CopyChunkWithin DEF TaskInv
<1>4. LeftOut'
  BY <1>1, LeftOutStays, CopyChunkWithin DEF TaskInv
<1> QED
  BY <1>3, <1>4, Kinds, CopyChunkWithin DEF Streams

LEMMA CloseFileWithin ==
  ASSUME TypeInv, CloseFile
  PROVE  Within /\ Advances /\ (job'.errors = 0 => job' = Next_file)
<1>1. PICK new : Becomes(new, {})
  BY CloseFileFacts
<1>2. build # "none" /\ job.phase = "stream" /\ UNCHANGED <<build, at>> /\ More /\ TypeOK
  BY CloseFileFacts, StreamingFacts DEF Frame
<1>3. Advances /\ (job'.errors = 0 => job' = Next_file)
  <2>1. job' = If(TRUE, Next_file)
    BY CloseFileFacts DEF If
  <2> QED
    BY <1>2, <2>1, NextAdvances
<1> QED
  BY <1>1, <1>2, <1>3, BecomesWithin DEF Advances

LEMMA CloseStreamDone ==
  ASSUME TypeInv, TaskInv, MakingTells, Apart, CloseFile, Task.task \in Streams
  PROVE  TaskInv'
<1> DEFINE pair == <<File, Dest>>
<1>1. /\ build # "none" /\ job.phase = "stream" /\ More /\ TypeOK /\ Dest \in DOMAIN disk /\ File \in DOMAIN disk
      /\ Range(job.list) \subseteq Range(Task.files)
      /\ DOMAIN disk' = DOMAIN disk /\ \A q \in DOMAIN disk : q # Dest => disk'[q] = disk[q]
      /\ \A q \in DOMAIN disk : disk'[q].content = disk[q].content
  BY CloseFileFacts, StreamingFacts
<1>2. PICK new : Becomes(new, {})
  BY CloseFileFacts
<1>3. Writes({})
  BY <1>1, <1>2 DEF Writes
<1>4. Within /\ Advances
  BY CloseFileWithin
<1>5. pair \in Derived /\ BeingMade(pair)
  BY <1>1, InHandPair DEF Running
<1>6. ASSUME NEW f \in {File}
      PROVE  StreamDone(f)'
  <2> SUFFICES ASSUME Readable(f)'
               PROVE  Exists(Task.to[f])' /\ (~Untold(<<f, Task.to[f]>>)' => Held(Task.to[f], f)')
    BY DEF StreamDone
  <2>1. f \notin changed' /\ Task'.to[f] = Dest
    BY <1>4 DEF Readable, Within, Dest
  <2>2. ASSUME pair \notin suspect'
        PROVE  disk'[Dest].content = disk'[File].content
    <3>1. pair \notin suspect
      BY <1>2, <1>5, <2>2, SourceSteady
    <3>2. Contents(Dest) = Contents(File)
      BY <3>1, StreamEnds
    <3> QED
      BY <1>1, <3>2 DEF Contents
  <2>3. pair \notin suspect'
    <3>1. suspect' = (suspect \cup Unseen(ChangedFiles)) \ {} /\ changed' = changed \cup ChangedFiles
      BY <1>1, <1>2, BecomesIs
    <3>2. pair[1] = File /\ File \notin changed /\ File \notin ChangedFiles
      BY <2>1, <3>1
    <3>3. pair \notin suspect
      BY <1>5, <3>2 DEF MakingTells
    <3>4. pair \notin Unseen(ChangedFiles)
      BY <1>5, <3>2 DEF Unseen
    <3> QED
      BY <3>1, <3>3, <3>4
  <2> QED
    BY <1>1, <2>1, <2>2, <2>3 DEF Held, Exists, Contents
<1>7. StreamsInStep'
  <2>1. \A f \in Range(Task.files) : f # File => Kept(f)
    BY <1>1, <1>3, OthersKept
  <2> QED
    BY <1>1, <1>4, <1>6, <2>1, StreamsAdvance DEF TaskInv
<1>8. LeftOut'
  BY <1>1, <1>4, LeftOutStays DEF Advances, TaskInv
<1> QED
  BY <1>4, <1>7, <1>8, Kinds DEF Streams

LEMMA WriteFailsDone ==
  ASSUME TypeInv, TaskInv, WriteFails
  PROVE  TaskInv'
<1>1. /\ Streaming /\ job' = Failing(Next_file) /\ suspect' = suspect \cup HalfMade
      /\ UNCHANGED <<disk, changed>> /\ Frame
  BY DEF WriteFails
<1>2. /\ build # "none" /\ job.phase = "stream" /\ More /\ TypeOK /\ Task.task \in Streams \cup {"concat"}
      /\ UNCHANGED <<build, at>>
  BY <1>1, StreamingFacts DEF Frame
<1>3. Advances /\ job'.errors # 0
  <2>1. job' = If(FALSE, Next_file)
    BY <1>1 DEF If
  <2> QED
    BY <1>2, <2>1, NextAdvances
<1>4. Within
  BY <1>1, <1>2, <1>3, BecomesWithin DEF Advances
<1>5. Task.task \in Streams => StreamsInStep'
  <2>1. \A f : Kept(f)
    BY <1>1, KeptUnchanged
  <2> QED
    BY <1>2, <1>3, <1>4, <2>1, StreamsAdvance DEF TaskInv
<1>6. ConcatInStep'
  BY <1>3 DEF ConcatInStep
<1>7. LeftOut'
  BY <1>2, <1>3, <1>4, LeftOutStays DEF Advances, TaskInv
<1> QED
  BY <1>2, <1>4, <1>5, <1>6, <1>7, Kinds DEF Streams

LEMMA CompilerFailsDone ==
  ASSUME TypeInv, TaskInv, CompilerFails
  PROVE  TaskInv'
<1>1. /\ Compiling /\ job' = Failing(Reporting) /\ suspect' = suspect \cup HalfMade
      /\ UNCHANGED <<disk, changed>> /\ Frame
  BY DEF CompilerFails
<1>2. /\ build # "none" /\ job.phase = "stream" /\ TypeOK /\ Task.task = "javac" /\ job \in JobSet
      /\ UNCHANGED <<build, at>>
  BY <1>1, CompilingFacts DEF Frame, TypeOK, JobSet
<1>3. job'.phase = "reported" /\ job'.list = job.list /\ job'.errors # 0
  <2>1. Reporting \in JobSet /\ Reporting.phase = "reported" /\ Reporting.list = job.list
    BY <1>2, ReportingMoves DEF MovedTo, Reporting, JobSet
  <2> QED
    BY <1>1, <2>1 DEF Failing, JobSet
<1>4. Within
  BY <1>1, <1>2, <1>3, BecomesWithin
<1>5. \A s : Fresh(s) => Fresh(s)'
  BY <1>1 DEF Fresh, Exists, Newer
<1>6. CompiledInStep'
  <2>1. CompiledInStep /\ Task' = Task
    BY <1>2, <1>4 DEF TaskInv, Within
  <2> QED
    BY <1>1, <1>2, <1>3, <1>5, <2>1 DEF CompiledInStep
<1>7. LeftOut'
  BY <1>2, <1>3, <1>4, LeftOutStays DEF TaskInv
<1> QED
  BY <1>2, <1>4, <1>6, <1>7, Kinds DEF Streams

LEMMA TickDone ==
  ASSUME TaskInv, UNCHANGED <<disk, suspect, changed, build, at, job>>
  PROVE  TaskInv'
<1>1. Task' = Task /\ File' = File /\ Dest' = Dest /\ Passed' = Passed /\ InHand' = InHand /\ Inputs' = Inputs
  BY DEF Task, File, Dest, Passed, Past, InHand, Running, Inputs, Contents
<1>2. \A f : /\ Exists(f)' <=> Exists(f)
             /\ Readable(f)' <=> Readable(f)
             /\ StreamDone(f)' <=> StreamDone(f)
             /\ Fresh(f)' <=> Fresh(f)
             /\ \A g : Held(f, g)' <=> Held(f, g)
  BY <1>1 DEF Readable, Exists, IsDirectory, StreamDone, Untold, Held, Keeps, Whole, Contents, Fresh, Newer
<1>3. LeftOut => LeftOut'
  BY <1>1, <1>2 DEF LeftOut
<1>4. StreamsInStep => StreamsInStep'
  BY <1>1, <1>2 DEF StreamsInStep
<1>5. ConcatInStep => ConcatInStep'
  BY <1>1, <1>2 DEF ConcatInStep, Plain, Heading, Contents
<1>6. ApplyInStep /\ DeleteInStep => ApplyInStep' /\ DeleteInStep'
  BY <1>1, <1>2 DEF ApplyInStep, DeleteInStep
<1>7. CompiledInStep => CompiledInStep'
  BY <1>1, <1>2 DEF CompiledInStep
<1> QED
  BY <1>3, <1>4, <1>5, <1>6, <1>7 DEF TaskInv

\* The inputs of concat are what they were, if nobody has changed them.
LEMMA PlainSteady ==
  ASSUME Within, Plain', job'.list = job.list
  PROVE  /\ Plain /\ Inputs' = Inputs /\ Heading' = Heading
         /\ \A f \in Range(Task.files) : f \in DOMAIN disk /\ disk'[f] = disk[f] /\ f # Task.dest
<1>1. Task' = Task /\ Range(job.list) \subseteq Range(Task.files) /\ Steady
  BY Working DEF Within
<1>2. \A f \in Range(Task.files) : Readable(f)' /\ f # Task.dest
  BY <1>1 DEF Plain
<1>3. \A f \in Range(Task.files) : f \in DOMAIN disk /\ disk'[f] = disk[f] /\ f # Task.dest /\ Readable(f)
  BY <1>1, <1>2, ReadableSteady
<1>4. Plain
  BY <1>1, <1>3 DEF Plain
<1>5. \A i \in DOMAIN job.list : job.list[i] \in Range(Task.files)
  BY <1>1 DEF Range
<1>6. Inputs' = [i \in DOMAIN job.list |-> disk'[job.list[i]].content]
  BY DEF Inputs, Contents
<1>7. Inputs' = Inputs
  BY <1>3, <1>5, <1>6 DEF Inputs, Contents
<1> QED
  BY <1>1, <1>3, <1>4, <1>7 DEF Heading

LEMMA DeleteStays ==
  ASSUME Within, DeleteInStep, Task.task = "delete", job' = job
  PROVE  DeleteInStep'
<1>1. Passed' = Passed /\ Task' = Task
  BY DEF Passed, Past, Within
<1>2. ASSUME NEW f \in Passed, Exists(f) => f \in changed, f \in DOMAIN disk'
      PROVE  f \in changed'
  BY <1>2 DEF Within, Steady, Exists
<1> QED
  BY <1>1, <1>2 DEF DeleteInStep, Exists

\* A source that is not compiled stays so, or times tell nothing of it.
LEMMA FreshStays ==
  ASSUME Within, NEW s \in DOMAIN Types, Fresh(s), NEW new, Becomes(new, {}),
         \A c \in Range(Types[s]) : ~BeingMade(<<s, c>>)
  PROVE  Fresh(s)'
<1> SUFFICES ASSUME s \notin changed', s \in DOMAIN disk', NEW c \in Range(Types[s]), <<s, c>> \notin suspect',
                    ClassOf[s] \in DOMAIN disk'
             PROVE  ~(disk'[s].mtime > disk'[ClassOf[s]].mtime)
  BY DEF Fresh, Exists, Newer
<1>1. suspect' = (suspect \cup Unseen(ChangedFiles)) \ {} /\ job.phase # "rest"
  BY BecomesIs DEF Within
<1>2. <<s, c>> \in Derived /\ Compiled(<<s, c>>)
  <2>1. <<s, c>> \in UNION {{<<r, e>> : e \in Range(Types[r])} : r \in DOMAIN Types}
    <3>1. <<s, c>> \in {<<s, e>> : e \in Range(Types[s])}
      OBVIOUS
    <3> QED
      BY <3>1
  <2> QED
    BY <2>1 DEF Derived, Compiled
<1>3. Judge[<<s, c>>] = ClassOf[s]
  BY <1>2 DEF Judge
<1>4. <<s, c>> \notin suspect /\ ClassOf[s] \notin ChangedFiles
  BY <1>1, <1>2, <1>3 DEF Unseen
<1>5. ClassOf[s] \in DOMAIN disk /\ disk'[ClassOf[s]] = disk[ClassOf[s]]
  BY <1>4, SteadyFile
<1>6. s \in DOMAIN disk /\ disk'[s] = disk[s] /\ s \notin changed
  BY DEF Within, Steady
<1>7. ~Newer(s, ClassOf[s])
  BY <1>4, <1>5, <1>6 DEF Fresh, Exists
<1> QED
  BY <1>5, <1>6, <1>7 DEF Newer

\* What is not in the list is not in the compiler's hands.
LEMMA NotCompiled ==
  ASSUME TypeOK, build # "none", Task.task = "javac", NEW s, s \notin Range(job.list), NEW c
  PROVE  ~BeingMade(<<s, c>>)
<1>1. job.list \in Seq(Paths) /\ job.n \in 1..(Len(job.list) + 1)
  BY DEF TypeOK
<1>2. \A i \in job.n..Len(job.list) : job.list[i] \in Range(job.list)
  BY <1>1, RangeIs
<1> QED
  BY <1>2 DEF BeingMade, Streams

LEMMA EditDone ==
  ASSUME TypeInv, TaskInv, Apart, NEW s \in Sources, Edit(s)
  PROVE  TaskInv'
<1>1. /\ UNCHANGED <<build, at, job>> /\ Task' = Task /\ DOMAIN disk' = {s} \cup DOMAIN disk
      /\ \A q \in DOMAIN disk : q # s => disk'[q] = disk[q]
  BY EditLeaves DEF TypeInv
<1>2. PICK new : Becomes(new, {})
  BY EditLeaves DEF TypeInv
<1>3. CASE job.phase = "rest"
  BY <1>1, <1>2, <1>3, BecomesIs DEF TaskInv
<1>4. CASE job.phase # "rest"
  <2>1. build # "none"
    BY <1>4 DEF TypeInv, JobInv, Rest
  <2>2. Within
    BY <1>1, <1>2, <1>4, <2>1, BecomesWithin
  <2>3. LeftOut'
    BY <1>1, <1>4, <2>2, LeftOutStays DEF TaskInv
  <2>4. \A p : p \notin Sources => Still(p)
    BY <1>1 DEF Still
  <2>5. TypeOK /\ Known(Task) /\ JobOK /\ Range(job.list) \subseteq Range(Task.files)
    BY <1>4, <2>1, Working
  <2>6. Passed' = Passed /\ Passed \subseteq Range(Task.files) /\ job' = job /\ File' = File
    BY <1>1, <1>4, <2>1, PassedIn DEF Passed, Past, File
  <2>7. Task.task \in Makers => \A f \in Range(Task.files) : Task.to[f] \notin Sources
    BY <2>5 DEF Apart, Known
  <2>8. Task.task \in Streams => StreamsInStep'
    <3> SUFFICES ASSUME Task.task \in Streams
                 PROVE  StreamsInStep'
      OBVIOUS
    <3>1. \A f \in Range(Task.files) : Kept(f)
      <4> SUFFICES ASSUME NEW f \in Range(Task.files)
                   PROVE  Kept(f)
        OBVIOUS
      <4>1. Still(Task.to[f])
        BY <2>4, <2>7 DEF Makers
      <4>2. <<f, Task.to[f]>> \notin {}
        OBVIOUS
      <4> QED
        BY <1>2, <1>4, <4>1, <4>2, KeptByBecomes
    <3> QED
      BY <1>4, <2>2, <2>6, <3>1, StreamsStay DEF TaskInv
  <2>9. Task.task = "concat" => ConcatInStep'
    <3> SUFFICES ASSUME Task.task = "concat", job.errors = 0
                 PROVE  ConcatInStep'
      BY <2>6 DEF ConcatInStep
    <3>1. ConcatInStep /\ Task.dest \notin Sources
      BY <1>4, <2>5 DEF TaskInv, Apart, Known
    <3>2. Task.failonerror => \A f \in Passed : f \in DOMAIN disk'
      BY <1>1, <3>1 DEF ConcatInStep, Exists
    <3>3. ASSUME Plain', Task.dest \in DOMAIN disk
          PROVE  /\ Plain /\ Inputs' = Inputs /\ Heading' = Heading /\ disk'[Task.dest] = disk[Task.dest]
                 /\ Task.dest \in DOMAIN disk'
      BY <2>2, <2>4, <2>6, <3>1, <3>3, PlainSteady DEF Still
    <3>4. ASSUME Plain', job.phase = "files"
          PROVE  disk'[Task.dest].content = Heading' \o Joined(Inputs', job.n - 1)
      <4>1. Task.dest \in DOMAIN disk
        BY <2>5, <3>4 DEF JobOK, Exists
      <4> QED
        BY <3>1, <3>3, <3>4, <4>1 DEF ConcatInStep, Contents
    <3>5. ASSUME Plain', job.phase = "stream"
          PROVE  /\ job.read <= Len(disk'[File].content)
                 /\ disk'[Task.dest].content = Heading' \o Joined(Inputs', job.n - 1) \o SubSeq(disk'[File].content, 1, job.read)
      <4>1. Task.dest \in DOMAIN disk /\ Running("stream") /\ More
        BY <2>1, <2>5, <3>5 DEF JobOK, Exists, Running, Streaming
      <4>2. File \in Range(Task.files)
        BY <2>1, <2>5, <4>1, FileFacts
      <4>3. disk'[File] = disk[File]
        BY <2>2, <2>6, <3>5, <4>2, PlainSteady
      <4> QED
        BY <3>1, <3>3, <3>5, <4>1, <4>3 DEF ConcatInStep, Contents
    <3>6. ASSUME Plain', job.phase = "reported"
          PROVE  Task.dest \in DOMAIN disk' /\ disk'[Task.dest].content = Heading' \o Joined(Inputs', Len(job.list))
      <4>1. Plain
        BY <2>2, <2>6, <3>6, PlainSteady
      <4>2. Task.dest \in DOMAIN disk /\ disk[Task.dest].content = Heading \o Joined(Inputs, Len(job.list))
        BY <3>1, <3>6, <4>1 DEF ConcatInStep, Contents, Exists
      <4> QED
        BY <3>3, <3>6, <4>2
    <3> QED
      BY <1>1, <2>6, <3>2, <3>4, <3>5, <3>6 DEF ConcatInStep, Contents, Exists
  <2>10. Task.task = "apply" => ApplyInStep'
    <3> SUFFICES ASSUME Task.task = "apply", job.errors = 0, Task.failonerror,
                        NEW f \in Passed, Readable(f)'
                 PROVE  Task.to[f] \in DOMAIN disk' /\ disk'[Task.to[f]].content = disk'[f].content
      BY <1>1, <2>6 DEF ApplyInStep, Held, Exists, Contents
    <3>1. Readable(f) /\ disk'[f] = disk[f]
      BY <2>2, ReadableSteady DEF Within
    <3>2. Task.to[f] \in DOMAIN disk /\ disk[Task.to[f]].content = disk[f].content
      BY <1>4, <3>1 DEF TaskInv, ApplyInStep, Held, Exists, Contents
    <3>3. Still(Task.to[f])
      BY <2>4, <2>6, <2>7 DEF Makers
    <3> QED
      BY <3>1, <3>2, <3>3 DEF Still
  <2>11. Task.task = "delete" => DeleteInStep'
    BY <1>4, <2>2, <2>6, DeleteStays DEF TaskInv
  <2>12. Task.task = "javac" => CompiledInStep'
    <3> SUFFICES ASSUME Task.task = "javac"
                 PROVE  CompiledInStep'
      OBVIOUS
    <3>1. CompiledInStep
      BY <1>4 DEF TaskInv
    <3>2. \A r \in DOMAIN Types : \A c \in Range(Types[r]) : Still(c) /\ (c \in changed' => c \in changed)
      <4> SUFFICES ASSUME NEW r \in DOMAIN Types, NEW c \in Range(Types[r])
                   PROVE  Still(c) /\ (c \in changed' => c \in changed)
        OBVIOUS
      <4>1. Still(c)
        BY <2>4 DEF Apart
      <4> QED
        BY <1>2, <1>4, <4>1, StillUnchanged
    <3>3. Range(Task.files) \subseteq DOMAIN Types
      BY <2>5, TasksAssumption DEF Known
    <3>4. ASSUME NEW r \in DOMAIN Types, job.phase = "open" \/ r \notin Range(job.list)
          PROVE  Range(Types[r]) \cap changed' = {}
      BY <3>1, <3>2, <3>4 DEF CompiledInStep
    <3>5. ASSUME job.phase # "open", job.errors = 0, NEW r \in Passed, NEW c \in Range(Types[r]), Readable(r)'
          PROVE  c \in DOMAIN disk' /\ disk'[c].content = disk'[r].content
      <4>1. Readable(r) /\ disk'[r] = disk[r]
        BY <2>2, <3>5, ReadableSteady DEF Within
      <4>2. c \in DOMAIN disk /\ disk[c].content = disk[r].content
        BY <3>1, <3>5, <4>1 DEF CompiledInStep, Held, Exists, Contents
      <4>3. Still(c)
        BY <2>6, <3>2, <3>3
      <4> QED
        BY <4>1, <4>2, <4>3 DEF Still
    <3>6. ASSUME job.phase # "open", NEW r \in Range(Task.files) \ Range(job.list)
          PROVE  Fresh(r)'
      <4>1. Fresh(r) /\ r \in DOMAIN Types
        BY <3>1, <3>3, <3>6 DEF CompiledInStep
      <4>2. \A c \in Range(Types[r]) : ~BeingMade(<<r, c>>)
        BY <2>1, <2>5, <3>6, NotCompiled
      <4> QED
        BY <1>2, <2>2, <4>1, <4>2, FreshStays
    <3> QED
      BY <1>1, <2>6, <3>4, <3>5, <3>6 DEF CompiledInStep, Held, Exists, Contents
  <2> QED
    BY <2>2, <2>3, <2>8, <2>9, <2>10, <2>11, <2>12, Kinds
<1> QED
  BY <1>3, <1>4

LEMMA HeadingFacts ==
  /\ Heading \in Seq(Chunk) /\ Heading \o <<>> = Heading /\ \A F : Joined(F, 0) = <<>>
  /\ Append(<<>>, Header) = <<Header>>
<1>1. Header \in Chunk
  BY FilesAssumption DEF Chunk
<1>2. Heading \in Seq(Chunk)
  BY <1>1 DEF Heading
<1> HIDE DEF Header
<1>3. Append(<<>>, Header) = <<>> \o <<Header>>
  <2>1. <<>> \in Seq(Chunk)
    OBVIOUS
  <2> QED
    BY <1>1, <2>1, AppendIsConcat
<1>4. <<>> \o <<Header>> = <<Header>>
  <2>1. <<Header>> \in Seq(Chunk)
    BY <1>1
  <2> QED
    BY <2>1, ConcatEmptySeq
<1> QED
  BY <1>2, <1>3, <1>4, ConcatEmptySeq DEF Joined

LEMMA FailedConcat ==
  ASSUME Within, TaskInv, Task.task = "concat", job'.list = job.list, job'.phase = "open" => job.phase = "open",
         job'.errors # 0
  PROVE  TaskInv'
<1>1. LeftOut'
  BY LeftOutStays DEF TaskInv, Within
<1>2. ConcatInStep'
  BY DEF ConcatInStep
<1> QED
  BY <1>1, <1>2, Kinds DEF Streams

LEMMA OpenOutputDone ==
  ASSUME TypeInv, TaskInv, OpenOutput
  PROVE  TaskInv'
<1> DEFINE tree == mkdirp(Front(Task.dest))
           out == IF Task.append /\ Exists(Task.dest) THEN disk[Task.dest] ELSE EmptyFile(clock)
           start == IF Task.header THEN [out EXCEPT !.content = Append(@, Header), !.mtime = clock] ELSE out
           new == Put(Task.dest, start, tree)
<1>1. build # "none" /\ job.phase = "open" /\ Task.task = "concat" /\ Frame
  BY DEF OpenOutput, Running
<1>2. \/ CanOpen(tree, Task.dest) /\ job' = [job EXCEPT !.phase = "files"] /\ Becomes(new, {})
      \/ job' = Failing(Reporting) /\ Becomes(tree, {})
  BY DEF OpenOutput
<1>3. /\ TypeOK /\ Task.dest \in Paths /\ Keeping(tree, Missing(Front(Task.dest))) /\ JobOK
      /\ job \in JobSet /\ job.n = 1
  BY <1>1, ConcatFacts DEF TypeOK, JobSet, JobOK
<1> HIDE DEF tree
<1>4. CASE job' = Failing(Reporting) /\ Becomes(tree, {})
  <2>1. job'.phase = "reported" /\ job'.list = job.list /\ job'.errors # 0
    <3>1. Reporting \in JobSet /\ Reporting.phase = "reported" /\ Reporting.list = job.list
      BY <1>3, ReportingMoves DEF MovedTo, Reporting, JobSet
    <3> QED
      BY <1>4, <3>1 DEF Failing, JobSet
  <2>2. Within
    BY <1>1, <1>4, <2>1, BecomesWithin DEF Frame
  <2> QED
    BY <1>1, <2>1, <2>2, FailedConcat
<1>5. CASE CanOpen(tree, Task.dest) /\ job' = [job EXCEPT !.phase = "files"] /\ Becomes(new, {})
  <2>1. job'.phase = "files" /\ job'.list = job.list /\ job'.errors = job.errors /\ job'.n = 1
    BY <1>3, <1>5 DEF JobSet
  <2>2. Within
    BY <1>1, <1>5, <2>1, BecomesWithin DEF Frame
  <2>3. out \in Entry /\ out.type = "file" /\ (~Task.append => out.content = <<>>)
    <3>1. EmptyFile(clock) \in Entry /\ EmptyFile(clock).type = "file" /\ EmptyFile(clock).content = <<>>
      BY <1>3, EntryFacts DEF EmptyFile, TypeOK
    <3>2. Exists(Task.dest) => disk[Task.dest] \in Entry /\ disk[Task.dest].type = "file"
      BY <1>3, <1>5 DEF TypeOK, Disk, Exists, CanOpen, Keeping
    <3> QED
      BY <3>1, <3>2
  <2> HIDE DEF out
  <2>4. /\ start \in Entry /\ start.type = "file"
        /\ start.content = IF Task.header THEN Append(out.content, Header) ELSE out.content
    <3>1. Header \in Chunk /\ clock \in 0..MaxTime
      BY <1>3, FilesAssumption DEF Chunk, TypeOK
    <3>2. [out EXCEPT !.content = Append(@, Header), !.mtime = clock] \in Entry
      BY <2>3, <3>1, AppendType
    <3>3. /\ [out EXCEPT !.content = Append(@, Header), !.mtime = clock].type = out.type
          /\ [out EXCEPT !.content = Append(@, Header), !.mtime = clock].content = Append(out.content, Header)
      BY <2>3 DEF Entry
    <3> QED
      BY <2>3, <3>2, <3>3
  <2> HIDE DEF start
  <2>5. PutIs(Task.dest, start, tree, new)
    BY <1>3, <2>4, PutDisk DEF Keeping
  <2> HIDE DEF new
  <2>6. Task.dest \in DOMAIN disk' /\ disk'[Task.dest] = start
    BY <1>5, <2>5 DEF Becomes, PutIs
  <2>7. Passed' = {}
    <3>1. 1..(1 - 1) = {}
      OBVIOUS
    <3> QED
      BY <2>1, <3>1 DEF Passed, Past
  <2>8. ASSUME Plain'
        PROVE  disk'[Task.dest].content = Heading' \o Joined(Inputs', 0)
    <3>1. Task' = Task /\ ~Task.append
      BY <2>2, <2>8 DEF Plain, Within
    <3>2. disk'[Task.dest].content = Heading'
      BY <2>3, <2>4, <2>6, <3>1, HeadingFacts DEF Heading
    <3>3. Heading' = Heading
      BY <3>1 DEF Heading
    <3> QED
      BY <3>2, <3>3, HeadingFacts
  <2>9. ConcatInStep'
    <3>1. 1 - 1 = 0
      OBVIOUS
    <3> QED
      BY <2>1, <2>2, <2>7, <2>8, <3>1 DEF ConcatInStep, Contents, Within
  <2>10. LeftOut'
    BY <1>1, <2>1, <2>2, LeftOutStays DEF TaskInv
  <2> QED
    BY <1>1, <2>2, <2>9, <2>10, Kinds DEF Streams
<1> QED
  BY <1>2, <1>4, <1>5

LEMMA OpenInputDone ==
  ASSUME TypeInv, TaskInv, OpenInput
  PROVE  TaskInv'
<1>1. build # "none" /\ job.phase = "files" /\ More /\ Task.task = "concat" /\ Frame /\ Same
  BY DEF OpenInput, Running
<1>2. TypeOK /\ JobOK /\ Range(job.list) \subseteq Range(Task.files) /\ job \in JobSet /\ File \in Range(Task.files)
  BY <1>1, ConcatFacts, FileFacts DEF TypeOK, JobSet
<1>3. UNCHANGED <<disk, changed, build, at>> /\ ConcatInStep
  BY <1>1 DEF Frame, Same, TaskInv
<1>4. CASE Exists(File)
  <2>1. job'.phase = "stream" /\ job'.list = job.list /\ job'.n = job.n /\ job'.read = 0 /\ job'.errors = job.errors
    <3>1. job' = [job EXCEPT !.phase = "stream"] /\ job.read = 0
      BY <1>1, <1>2, <1>4 DEF OpenInput, JobOK
    <3> QED
      BY <1>2, <3>1 DEF JobSet
  <2>2. Within
    BY <1>1, <1>3, <2>1, BecomesWithin
  <2>3. Passed' = Passed /\ File' = File /\ Task' = Task /\ Inputs' = Inputs /\ Heading' = Heading /\ Plain' = Plain
    BY <1>1, <1>3, <2>1, <2>2 DEF Passed, Past, File, Within, Inputs, Heading, Plain, Readable, Exists, IsDirectory, Contents
  <2>4. disk[File].content \in Seq(Chunk) /\ disk[Task.dest].content \in Seq(Chunk)
    BY <1>1, <1>2, <1>4, EntryFacts DEF JobOK, TypeOK, Disk, Exists
  <2>5. 0 <= Len(disk[File].content) /\ SubSeq(disk[File].content, 1, 0) = <<>>
    BY <2>4
  <2>6. disk[Task.dest].content \o <<>> = disk[Task.dest].content
    BY <2>4, ConcatEmptySeq
  <2>7. ConcatInStep'
    BY <1>1, <1>3, <2>1, <2>3, <2>5, <2>6 DEF ConcatInStep, Contents, Exists
  <2>8. LeftOut'
    BY <1>1, <2>1, <2>2, LeftOutStays DEF TaskInv
  <2> QED
    BY <1>1, <2>2, <2>7, <2>8, Kinds DEF Streams
<1>5. CASE ~Exists(File)
  <2>1. Advances /\ (job'.errors = 0 => ~Task.failonerror)
    <3>1. job' = If(~Task.failonerror, Next_file)
      BY <1>5 DEF OpenInput
    <3> QED
      BY <1>1, <1>2, <1>3, <3>1, NextAdvances
  <2>2. Within
    BY <1>1, <1>3, <2>1, BecomesWithin DEF Advances
  <2>3. Task' = Task /\ ~Plain'
    <3>1. Task' = Task
      BY <2>2 DEF Within
    <3> QED
      BY <1>2, <1>3, <1>5, <3>1 DEF Plain, Readable, Exists
  <2>4. ConcatInStep'
    BY <2>1, <2>3 DEF ConcatInStep
  <2>5. LeftOut'
    BY <1>1, <2>1, <2>2, LeftOutStays DEF TaskInv, Advances
  <2> QED
    BY <1>1, <2>2, <2>4, <2>5, Kinds DEF Streams
<1> QED
  BY <1>4, <1>5

LEMMA AppendToJoined ==
  ASSUME NEW A \in Seq(Chunk), NEW c \in Seq(Chunk), NEW n \in Nat, n < Len(c)
  PROVE  Append(A \o SubSeq(c, 1, n), c[n + 1]) = A \o SubSeq(c, 1, n + 1)
<1>1. n + 1 \in 1..Len(c) /\ c[n + 1] \in Chunk
  OBVIOUS
<1> DEFINE S == SubSeq(c, 1, n)
           x == c[n + 1]
<1>2. S \in Seq(Chunk)
  <2>1. \A i \in 1..n : c[i] \in Chunk
    OBVIOUS
  <2> QED
    BY <2>1, SubSeqProperties
<1>3. Append(S, x) = SubSeq(c, 1, n + 1)
  BY NextOfSeq
<1> HIDE DEF S, x
<1>4. x \in Chunk /\ <<x>> \in Seq(Chunk) /\ A \o S \in Seq(Chunk)
  BY <1>1, <1>2, ConcatProperties DEF x
<1>5. Append(A \o S, x) = (A \o S) \o <<x>> /\ Append(S, x) = S \o <<x>>
  BY <1>2, <1>4, AppendIsConcat
<1>6. (A \o S) \o <<x>> = A \o (S \o <<x>>)
  BY <1>2, <1>4, ConcatAssociative
<1> QED
  BY <1>3, <1>5, <1>6 DEF S, x

\* What is joined of the inputs of concat, where they all are.
LEMMA JoinedFacts ==
  ASSUME TypeOK, Range(job.list) \subseteq DOMAIN disk, More
  PROVE  /\ Joined(Inputs, job.n - 1) \in Seq(Chunk) /\ Inputs[job.n] = Contents(File)
         /\ Joined(Inputs, job.n) = Joined(Inputs, job.n - 1) \o Contents(File)
         /\ Contents(File) \in Seq(Chunk)
         /\ Heading \o Joined(Inputs, job.n - 1) \in Seq(Chunk)
<1>1. job.list \in Seq(Paths) /\ job.n \in 1..Len(job.list) /\ DOMAIN job.list = 1..Len(job.list)
  BY DEF TypeOK, More
<1>2. \A i \in DOMAIN job.list : Exists(job.list[i])
  BY DEF Range, Exists
<1>3. JoinsUp(Inputs, Len(job.list), Chunk) /\ Inputs \in [1..Len(job.list) -> Seq(Chunk)]
  BY <1>2, InputsFacts
<1>4. job.n - 1 \in 0..Len(job.list) /\ (job.n - 1) + 1 = job.n /\ job.n \in 0..Len(job.list)
  BY <1>1
<1>5. Inputs[job.n] = Contents(File)
  BY <1>1 DEF Inputs, File
<1>6. Joined(Inputs, job.n - 1) \in Seq(Chunk)
  BY <1>3, <1>4 DEF JoinsUp
<1>7. Joined(Inputs, (job.n - 1) + 1) = Joined(Inputs, job.n - 1) \o Inputs[(job.n - 1) + 1]
  BY <1>3, <1>4 DEF JoinsUp
<1>8. Joined(Inputs, job.n) = Joined(Inputs, job.n - 1) \o Contents(File)
  BY <1>4, <1>5, <1>7
<1>9. Contents(File) \in Seq(Chunk)
  BY <1>1, <1>3, <1>5
<1>10. Heading \o Joined(Inputs, job.n - 1) \in Seq(Chunk)
  BY <1>6, HeadingFacts, ConcatProperties
<1> QED
  BY <1>5, <1>6, <1>8, <1>9, <1>10

LEMMA CopyConcatDone ==
  ASSUME TypeInv, TaskInv, CopyChunk, Task.task = "concat"
  PROVE  TaskInv'
<1>1. /\ build # "none" /\ job.phase = "stream" /\ More /\ TypeOK /\ Dest = Task.dest /\ Task.dest \in DOMAIN disk
      /\ job'.phase = "stream" /\ job'.list = job.list /\ job'.n = job.n /\ job'.errors = job.errors
      /\ job'.read = job.read + 1 /\ job.read \in Nat /\ job.read < Len(Contents(File)) /\ File' = File
      /\ DOMAIN disk' = DOMAIN disk /\ Range(job.list) \subseteq Range(Task.files) /\ File \in Range(Task.files)
      /\ disk'[Task.dest].content = Append(disk[Task.dest].content, Contents(File)[job.read + 1])
  BY CopyChunkFacts, StreamingFacts
<1>2. Within /\ ConcatInStep /\ Task' = Task
  BY <1>1, CopyChunkWithin DEF TaskInv, Within
<1>3. Passed' = Passed
  BY <1>1 DEF Passed, Past
<1>4. ASSUME Plain', job.errors = 0
      PROVE  /\ job.read + 1 <= Len(disk'[File].content)
             /\ disk'[Task.dest].content = Heading' \o Joined(Inputs', job.n - 1) \o SubSeq(disk'[File].content, 1, job.read + 1)
  <2>1. /\ Plain /\ Inputs' = Inputs /\ Heading' = Heading /\ disk'[File] = disk[File]
        /\ Range(job.list) \subseteq DOMAIN disk
    BY <1>1, <1>2, <1>4, PlainSteady
  <2> DEFINE A == Heading \o Joined(Inputs, job.n - 1)
             c == Contents(File)
  <2>2. A \in Seq(Chunk) /\ c \in Seq(Chunk)
    BY <1>1, <2>1, JoinedFacts
  <2>3. disk[Task.dest].content = A \o SubSeq(c, 1, job.read)
    BY <1>1, <1>2, <1>4, <2>1 DEF ConcatInStep, Contents
  <2>4. disk'[File].content = c
    BY <2>1 DEF Contents
  <2>5. job.read + 1 <= Len(c)
    BY <1>1, <2>2
  <2> HIDE DEF A, c
  <2>6. Append(A \o SubSeq(c, 1, job.read), c[job.read + 1]) = A \o SubSeq(c, 1, job.read + 1)
    BY <1>1, <2>2, AppendToJoined DEF c
  <2>7. disk'[Task.dest].content = A \o SubSeq(c, 1, job.read + 1)
    BY <1>1, <2>3, <2>6 DEF c
  <2> QED
    BY <2>1, <2>4, <2>5, <2>7 DEF A
<1>5. ConcatInStep'
  BY <1>1, <1>2, <1>3, <1>4 DEF ConcatInStep, Contents, Exists
<1>6. LeftOut'
  BY <1>1, <1>2, LeftOutStays DEF TaskInv
<1> QED
  BY <1>2, <1>5, <1>6, Kinds DEF Streams

LEMMA CloseConcatDone ==
  ASSUME TypeInv, TaskInv, CloseFile, Task.task = "concat"
  PROVE  TaskInv'
<1>1. /\ build # "none" /\ job.phase = "stream" /\ More /\ TypeOK /\ disk' = disk
      /\ File \in DOMAIN disk /\ Range(job.list) \subseteq Range(Task.files) /\ job \in JobSet
  BY CloseFileFacts, StreamingFacts DEF TypeOK, JobSet
<1>2. /\ Within /\ Advances /\ ConcatInStep /\ Task' = Task
      /\ job'.errors = 0 => job' = Next_file
  BY <1>1, CloseFileWithin DEF TaskInv, Within
<1>3. Passed = Past
  BY <1>1 DEF Passed
<1>4. ASSUME job'.errors = 0
      PROVE  job'.phase = "files" /\ job'.n = job.n + 1
  <2>1. job' = [job EXCEPT !.phase = "files", !.n = @ + 1, !.read = 0, !.stat = 0]
    BY <1>2, <1>4 DEF Next_file
  <2> QED
    BY <1>1, <2>1 DEF JobSet
<1>5. ASSUME Plain', job'.errors = 0
      PROVE  disk'[Task.dest].content = Heading' \o Joined(Inputs', job.n)
  <2>1. Plain /\ Inputs' = Inputs /\ Heading' = Heading /\ Range(job.list) \subseteq DOMAIN disk
    BY <1>1, <1>2, <1>5, PlainSteady DEF Advances
  <2> DEFINE J == Joined(Inputs, job.n - 1)
             c == Contents(File)
  <2>2. J \in Seq(Chunk) /\ c \in Seq(Chunk) /\ Joined(Inputs, job.n) = J \o c
    BY <1>1, <2>1, JoinedFacts
  <2>3. /\ job.read <= Len(c)
        /\ disk[Task.dest].content = (Heading \o J) \o SubSeq(c, 1, job.read)
    BY <1>1, <1>2, <1>5, <2>1 DEF ConcatInStep, Contents, Advances
  <2>4. job.read = Len(c)
    <3>1. ~(job.read < Len(c)) /\ job.read \in Nat
      BY <1>1, CloseFileFacts DEF Left, JobSet
    <3> QED
      BY <2>2, <2>3, <3>1
  <2> HIDE DEF J, c
  <2>5. SubSeq(c, 1, job.read) = c
    BY <2>2, <2>4, SubSeqFull
  <2>6. (Heading \o J) \o c = Heading \o (J \o c)
    BY <2>2, HeadingFacts, ConcatAssociative
  <2> QED
    BY <1>1, <2>1, <2>2, <2>3, <2>5, <2>6
<1>6. ASSUME job'.errors = 0, Task.failonerror, NEW f \in Past \cup {File}
      PROVE  f \in DOMAIN disk'
  BY <1>1, <1>2, <1>3, <1>6 DEF ConcatInStep, Exists, Advances
<1>7. ConcatInStep'
  <2>1. job'.errors = 0 => job'.n - 1 = job.n
    BY <1>1, <1>4 DEF JobSet
  <2>2. Passed' = Past \cup {File}
    BY <1>2 DEF Advances
  <2> HIDE DEF Next_file
  <2> QED
    BY <1>2, <1>4, <1>5, <1>6, <2>1, <2>2 DEF ConcatInStep, Contents, Exists
<1>8. LeftOut'
  BY <1>1, <1>2, LeftOutStays DEF TaskInv, Advances
<1> QED
  BY <1>2, <1>7, <1>8, Kinds DEF Streams

LEMMA CloseOutputDone ==
  ASSUME TypeInv, TaskInv, CloseOutput
  PROVE  TaskInv'
<1> DEFINE timed == [disk[Task.dest] EXCEPT !.mtime = clock]
           new == CASE Task.eol = "" -> disk
                    [] Task.eol \in {"lf", "crlf", "cr"} -> [disk EXCEPT ![Task.dest] = timed]
                    [] OTHER -> [disk EXCEPT ![Task.dest] = EmptyFile(clock)]
<1>1. build # "none" /\ job.phase = "files" /\ ~More /\ Task.task = "concat" /\ Frame /\ job' = Reporting
      /\ Becomes(new, {})
  BY DEF CloseOutput, Running
<1>2. /\ TypeOK /\ JobOK /\ Task.dest \in DOMAIN disk /\ job \in JobSet /\ job.n = Len(job.list) + 1
      /\ Range(job.list) \subseteq Range(Task.files) /\ job.list \in Seq(Paths)
  <2>1. TypeOK /\ JobOK /\ Task.dest \in DOMAIN disk /\ Range(job.list) \subseteq Range(Task.files)
    BY <1>1, ConcatFacts DEF JobOK, Exists
  <2>2. job.n \in 1..(Len(job.list) + 1) /\ ~(job.n <= Len(job.list)) /\ job.list \in Seq(Paths)
    BY <1>1, <2>1 DEF TypeOK, More
  <2> QED
    BY <2>1, <2>2 DEF TypeOK, JobSet
<1>3. job'.phase = "reported" /\ job'.list = job.list /\ job'.errors = job.errors
  BY <1>1, <1>2 DEF Reporting, JobSet
<1>4. Within
  BY <1>1, <1>3, BecomesWithin DEF Frame
<1>5. DOMAIN new = DOMAIN disk
  OBVIOUS
<1>6. Task.eol \in {"", "lf", "crlf", "cr"} => new[Task.dest].content = disk[Task.dest].content
  <2>1. timed.content = disk[Task.dest].content
    BY <1>2 DEF TypeOK, Disk, Entry
  <2> HIDE DEF timed
  <2> QED
    BY <1>2, <2>1
<1>7. disk' = new
  BY <1>1 DEF Becomes
<1> HIDE DEF new
<1>8. Passed' = Passed
  <2>1. Len(job.list) + 1 - 1 = Len(job.list) /\ DOMAIN job.list = 1..Len(job.list)
    BY <1>2
  <2> QED
    BY <1>1, <1>2, <1>3, <2>1 DEF Passed, Past, Range
<1>9. ConcatInStep /\ Task' = Task
  BY <1>1, <1>4 DEF TaskInv, Within
<1>10. ASSUME Plain', job.errors = 0
       PROVE  disk'[Task.dest].content = Heading' \o Joined(Inputs', Len(job.list))
  <2>1. Plain /\ Inputs' = Inputs /\ Heading' = Heading
    BY <1>3, <1>4, <1>10, PlainSteady
  <2>2. disk[Task.dest].content = Heading \o Joined(Inputs, job.n - 1)
    BY <1>1, <1>9, <1>10, <2>1 DEF ConcatInStep, Contents
  <2>3. job.n - 1 = Len(job.list)
    BY <1>2
  <2>4. disk'[Task.dest].content = disk[Task.dest].content
    BY <1>6, <1>7, <2>1 DEF Plain
  <2> QED
    BY <2>1, <2>2, <2>3, <2>4
<1>11. ConcatInStep'
  BY <1>2, <1>3, <1>5, <1>7, <1>8, <1>9, <1>10 DEF ConcatInStep, Contents, Exists
<1>12. LeftOut'
  BY <1>1, <1>3, <1>4, LeftOutStays DEF TaskInv
<1> QED
  BY <1>1, <1>4, <1>11, <1>12, Kinds DEF Streams

\* Of mkdir, move, touch and jar nothing more is said.
LEMMA OtherDone ==
  ASSUME TypeInv, TaskInv, mkdir_main \/ do_move_file \/ do_touch_file \/ jar_invoke
  PROVE  TaskInv'
<1>1. /\ build # "none" /\ job.phase \in {"files", "open"} /\ Frame /\ TypeOK
      /\ Task.task \in {"mkdir", "move", "touch", "jar"}
      /\ Same \/ \E new : Becomes(new, {})
  BY DEF mkdir_main, do_move_file, do_touch_file, jar_invoke, OneFile, Running, TypeInv
<1>2. MovedTo(job')
  <2>1. CASE mkdir_main \/ do_move_file \/ do_touch_file
    <3>1. More /\ Task.task \notin {"javac", "jar"}
      BY <2>1 DEF mkdir_main, do_move_file, do_touch_file, OneFile
    <3> QED
      BY <1>1, <2>1, <3>1, NextMoves DEF mkdir_main, do_move_file, do_touch_file
  <2>2. CASE jar_invoke
    BY <1>1, <2>2, ReportMoves DEF jar_invoke
  <2> QED
    BY <2>1, <2>2
<1>3. Within
  BY <1>1, <1>2, BecomesWithin DEF MovedTo, Frame, Same
<1>4. LeftOut'
  BY <1>1, <1>2, <1>3, LeftOutStays DEF TaskInv, MovedTo
<1> QED
  BY <1>1, <1>3, <1>4, Kinds DEF Streams

LEMMA DeleteDone ==
  ASSUME TypeInv, TaskInv, do_delete_file
  PROVE  TaskInv'
<1> DEFINE gone == IF ~IsDirectory(disk, File) /\ Task.dir THEN {} ELSE Removable(File)
           ok == ~Exists(File) \/ File \in gone \/ (~Task.failonerror /\ ~IsDirectory(disk, File) /\ ~Task.dir)
<1>1. /\ build # "none" /\ job.phase = "files" /\ Frame /\ TypeOK /\ More /\ Task.task = "delete"
      /\ Becomes(Without(gone), {}) /\ job' = If(ok, Next_file)
  BY DEF do_delete_file, OneFile, Running, TypeInv
<1>2. Advances /\ (job'.errors = 0 => ok)
  BY <1>1, NextAdvances DEF Frame
<1>3. Within
  BY <1>1, <1>2, BecomesWithin DEF Advances, Frame
<1>4. LeftOut'
  BY <1>1, <1>2, <1>3, LeftOutStays DEF TaskInv, Advances
<1>5. DOMAIN disk' = DOMAIN disk \ gone
  BY <1>1 DEF Becomes, Without
<1>6. Passed = Past /\ DeleteInStep
  BY <1>1 DEF Passed, TaskInv
<1>7. ASSUME job'.errors = 0, Task.failonerror, NEW f \in Past \cup {File}, f \in DOMAIN disk'
      PROVE  f \in changed'
  <2>1. f # File
    BY <1>2, <1>5, <1>7 DEF Exists
  <2>2. f \in DOMAIN disk => f \in changed
    BY <1>1, <1>2, <1>6, <1>7, <2>1 DEF DeleteInStep, Advances, Exists
  <2> QED
    BY <1>3, <1>7, <2>2 DEF Within, Steady
<1>8. DeleteInStep'
  BY <1>2, <1>3, <1>7 DEF DeleteInStep, Within, Advances, Exists
<1> QED
  BY <1>1, <1>3, <1>4, <1>8, Kinds DEF Streams

LEMMA AfterBatchIs ==
  ASSUME TypeOK, job.phase = "files", More, Batch \in Nat, UNCHANGED <<build, at>>, job' = AfterBatch
  PROVE  /\ job'.list = job.list /\ job'.errors = job.errors /\ job'.phase \in {"files", "reported"}
         /\ Passed' \subseteq Past \cup BatchFiles
<1>1. job \in JobSet /\ job.n \in 1..Len(job.list) /\ job.list \in Seq(Paths) /\ DOMAIN job.list = 1..Len(job.list)
  BY DEF TypeOK, JobSet, More
<1>2. ASSUME NEW i \in DOMAIN job.list, i < job.n + Batch
      PROVE  job.list[i] \in Past \cup BatchFiles
  <2>1. CASE i < job.n
    BY <1>1, <2>1 DEF Past
  <2>2. CASE job.n <= i
    BY <1>2, <2>2 DEF BatchFiles
  <2> QED
    BY <1>1, <2>1, <2>2
<1>3. CASE job.n + Batch > Len(job.list)
  <2>1. job' = Reporting
    BY <1>3 DEF AfterBatch
  <2>2. job'.list = job.list /\ job'.errors = job.errors /\ job'.phase = "reported"
    BY <1>1, <2>1 DEF Reporting, JobSet
  <2>3. \A i \in DOMAIN job.list : i < job.n + Batch
    BY <1>1, <1>3
  <2> QED
    BY <1>2, <2>2, <2>3 DEF Passed, Range
<1>4. CASE ~(job.n + Batch > Len(job.list))
  <2>1. job' = [job EXCEPT !.n = job.n + Batch]
    BY <1>4 DEF AfterBatch
  <2>2. job'.list = job.list /\ job'.errors = job.errors /\ job'.phase = "files" /\ job'.n = job.n + Batch
    BY <1>1, <2>1 DEF JobSet
  <2>3. \A i \in 1..(job.n + Batch - 1) : i \in DOMAIN job.list /\ i < job.n + Batch
    BY <1>1, <1>4
  <2>4. Passed' = {job'.list[i] : i \in 1..(job'.n - 1)}
    BY <2>2 DEF Passed, Past
  <2>5. job'.n - 1 = job.n + Batch - 1
    <3>1. job.n \in Nat
      BY <1>1
    <3> QED
      BY <2>2, <3>1
  <2>6. Passed' = {job.list[i] : i \in 1..(job.n + Batch - 1)}
    BY <2>2, <2>4, <2>5
  <2> QED
    BY <1>2, <2>2, <2>3, <2>6
<1> QED
  BY <1>3, <1>4

LEMMA ApplyDone ==
  ASSUME TypeInv, TaskInv, Apart, apply_invoke
  PROVE  TaskInv'
<1>1. /\ build # "none" /\ job.phase = "files" /\ Task.task = "apply" /\ More /\ UNCHANGED <<build, at>>
      /\ TypeOK /\ Known(Task) /\ JobOK /\ Range(job.list) \subseteq Range(Task.files)
      /\ Batch \in Nat /\ BatchFiles \subseteq Range(job.list)
  BY ApplyFacts DEF Frame
<1>2. Passed = Past /\ ApplyInStep /\ Past \subseteq Range(Task.files)
  BY <1>1, PassedIn DEF Passed, TaskInv
<1>3. CASE job' = Failing(Reporting) /\ Same
  <2>1. job'.phase = "reported" /\ job'.list = job.list /\ job'.errors # 0
    <3>1. Reporting \in JobSet /\ Reporting.phase = "reported" /\ Reporting.list = job.list
      BY <1>1, ReportingMoves DEF MovedTo, Reporting, JobSet, TypeOK
    <3> QED
      BY <1>3, <3>1 DEF Failing, JobSet
  <2>2. Within
    BY <1>1, <1>3, <2>1, BecomesWithin DEF Same
  <2>3. LeftOut'
    BY <1>1, <2>1, <2>2, LeftOutStays DEF TaskInv
  <2>4. ApplyInStep'
    BY <2>1 DEF ApplyInStep
  <2> QED
    BY <1>1, <2>2, <2>3, <2>4, Kinds DEF Streams
<1>4. CASE job' = AfterBatch /\ (Same \/ \E new : Becomes(new, {}))
  <2>1. /\ job'.list = job.list /\ job'.errors = job.errors /\ job'.phase \in {"files", "reported"}
        /\ Passed' \subseteq Past \cup BatchFiles
    BY <1>1, <1>4, AfterBatchIs
  <2>2. Within
    BY <1>1, <1>4, <2>1, BecomesWithin DEF Same
  <2>3. LeftOut'
    BY <1>1, <2>1, <2>2, LeftOutStays DEF TaskInv
  <2>4. ApplyInStep'
    <3> SUFFICES ASSUME job.errors = 0, Task.failonerror, NEW f \in Past \cup BatchFiles, Readable(f)'
                 PROVE  Task.to[f] \in DOMAIN disk' /\ disk'[Task.to[f]].content = disk'[f].content
      BY <2>1, <2>2 DEF ApplyInStep, Within, Held, Exists, Contents
    <3>1. BatchFiles \subseteq DOMAIN disk /\ Becomes(Over(MadeOf(BatchFiles), disk), {})
      <4>1. job'.errors = 0
        BY <2>1
      <4>2. job' # Failing(Reporting)
        <5>1. Reporting \in JobSet
          BY <1>1, ReportingMoves DEF MovedTo
        <5>2. Failing(Reporting).errors # 0
          BY <5>1 DEF Failing, JobSet
        <5> QED
          BY <4>1, <5>2
      <4> QED
        BY <4>2, ApplyFacts
    <3> DEFINE made == MadeOf(BatchFiles)
               tree == Over(made, disk)
    <3>2. OverIs(made, disk, tree)
      <4>1. Disk(made)
        BY <1>1, <3>1, MadeOfDisk
      <4> HIDE DEF made
      <4> QED
        BY <1>1, <4>1, OverDisk DEF TypeOK
    <3>3. DOMAIN made = {Task.to[g] : g \in BatchFiles}
      BY DEF MadeOf
    <3>4. \A g \in BatchFiles : made[Task.to[g]].content = Contents(g)
      <4> SUFFICES ASSUME NEW g \in BatchFiles
                   PROVE  made[Task.to[g]].content = Contents(g)
        OBVIOUS
      <4> DEFINE chosen == CHOOSE h \in BatchFiles : Task.to[h] = Task.to[g]
      <4>1. chosen \in BatchFiles /\ Task.to[chosen] = Task.to[g]
        OBVIOUS
      <4>2. chosen = g
        BY <1>1, <4>1 DEF Apart, Makers, Known
      <4>3. made[Task.to[g]] = [EmptyFile(clock) EXCEPT !.content = Contents(chosen)]
        BY DEF MadeOf
      <4> HIDE DEF chosen, made
      <4> QED
        BY <4>2, <4>3 DEF EmptyFile
    <3> HIDE DEF made, tree
    <3>5. disk' = tree
      BY <3>1 DEF Becomes, made, tree
    <3>6. disk'[f] = disk[f] /\ Readable(f)
      BY <2>2, ReadableSteady DEF Within
    <3>7. CASE f \in BatchFiles
      BY <3>2, <3>3, <3>4, <3>5, <3>6, <3>7 DEF OverIs, Contents
    <3>8. CASE f \notin BatchFiles
      <4>1. Task.to[f] \in DOMAIN disk /\ disk[Task.to[f]].content = disk[f].content
        BY <1>1, <1>2, <3>6, <3>8 DEF ApplyInStep, Held, Exists, Contents
      <4>2. Task.to[f] \notin DOMAIN made
        BY <1>1, <1>2, <3>3, <3>8 DEF Apart, Makers, Known
      <4> QED
        BY <3>2, <3>5, <3>6, <4>1, <4>2 DEF OverIs
    <3> QED
      BY <3>7, <3>8
  <2> QED
    BY <1>1, <2>2, <2>3, <2>4, Kinds DEF Streams
<1> QED
  BY <1>3, <1>4, ApplyFacts

LEMMA PrefixOfItself ==
  ASSUME NEW p \in Paths
  PROVE  IsPrefix(p, p)
<1>1. p \in Seq({p[i] : i \in DOMAIN p})
  BY PathsAssumption
<1> QED
  BY <1>1, SubSeqFull DEF IsPrefix

\* What javac does.
LEMMA FindStaleDone ==
  ASSUME TypeInv, TaskInv, FindStale
  PROVE  TaskInv'
<1>1. /\ build # "none" /\ job.phase = "open" /\ Task.task = "javac" /\ TypeOK /\ Task' = Task
      /\ UNCHANGED <<build, at>>
      /\ Stale \in Seq(Paths) /\ Range(Stale) = {s \in Range(job.list) : needs_compilation(s)}
      /\ Becomes(disk, StalePairs) /\ job'.list = Stale /\ job'.n = 1
      /\ job'.phase = IF Stale = <<>> THEN "reported" ELSE "stream"
  BY FindStaleFacts DEF Frame
<1>2. Within
  BY <1>1, BecomesWithin
<1>3. disk' = disk /\ changed' = changed
  <2>1. disk' = disk /\ changed' = changed \cup ChangedFiles
    BY <1>1, BecomesIs
  <2>2. ChangedFiles = {}
    BY <2>1 DEF ChangedFiles, Exists
  <2> QED
    BY <2>1, <2>2
<1>4. LeftOut /\ CompiledInStep
  BY <1>1 DEF TaskInv
<1>5. job'.phase # "open"
  BY <1>1
<1>6. LeftOut'
  BY <1>1, <1>5 DEF LeftOut
<1>7. ASSUME NEW s \in DOMAIN Types
      PROVE  Range(Types[s]) \cap changed' = {}
  BY <1>1, <1>3, <1>4 DEF CompiledInStep
<1>8. Passed' = {}
  <2>1. CASE Stale = <<>>
    BY <1>1, <2>1 DEF Passed, Range
  <2>2. CASE Stale # <<>>
    <3>1. 1..(job'.n - 1) = {}
      BY <1>1
    <3> QED
      BY <1>1, <2>2, <3>1 DEF Passed, Past
  <2> QED
    BY <2>1, <2>2
<1>9. ASSUME NEW s \in Range(Task.files) \ Range(Stale)
      PROVE  Fresh(s)'
  <2> SUFFICES ASSUME s \notin changed, s \in DOMAIN disk, ClassOf[s] \in DOMAIN disk
               PROVE  ~(disk[s].mtime > disk[ClassOf[s]].mtime)
    BY <1>3 DEF Fresh, Exists, Newer
  <2>1. s \in Range(job.list)
    BY <1>1, <1>4 DEF LeftOut, Exists
  <2>2. ~needs_compilation(s)
    BY <1>1, <2>1
  <2> QED
    BY <2>2 DEF needs_compilation, Exists, Newer
<1>10. CompiledInStep'
  BY <1>1, <1>7, <1>8, <1>9 DEF CompiledInStep
<1> QED
  BY <1>1, <1>2, <1>6, <1>10, Kinds DEF Streams

\* A class that is written is not in the way of another.
LEMMA CompileClassDone ==
  ASSUME TypeInv, TaskInv, Apart, CompileClass
  PROVE  TaskInv'
<1>1. /\ Compiling /\ More /\ Frame /\ Task' = Task /\ job'.phase = "stream" /\ job'.list = job.list
      /\ job'.n = job.n /\ job'.errors = job.errors /\ Class \in Range(Types[File]) /\ Class \in Paths
      /\ DOMAIN disk \subseteq DOMAIN disk' /\ Class \in DOMAIN disk'
      /\ DOMAIN disk' \subseteq DOMAIN disk \cup Missing(Front(Class)) \cup {Class}
      /\ \A q \in DOMAIN disk : q # Class => disk'[q] = disk[q]
      /\ disk'[Class].content = Contents(File)
  BY CompileClassFacts
<1>2. /\ build # "none" /\ job.phase = "stream" /\ Task.task = "javac" /\ TypeOK
      /\ File \in Range(Task.files) /\ File \in DOMAIN Types /\ Range(job.list) \subseteq Range(Task.files)
      /\ Range(Task.files) \subseteq DOMAIN Types /\ Task \in AllTasks
  BY <1>1, CompilingFacts, TasksAssumption DEF Known
<1>3. PICK new : Becomes(new, {})
  BY CompileClassFacts
<1>4. Within
  BY <1>1, <1>2, <1>3, BecomesWithin DEF Frame
<1>5. LeftOut /\ CompiledInStep /\ LeftOut'
  BY <1>1, <1>2, <1>4, LeftOutStays DEF TaskInv
<1>6. File \in Range(job.list) /\ Passed = Past /\ Passed' = Past /\ Past \subseteq Range(job.list)
  BY <1>1, <1>2, FileFacts, PassedIn DEF Passed, Past
<1>7. ASSUME NEW s \in DOMAIN Types, s # File, NEW c \in Range(Types[s])
      PROVE  c # Class /\ c \notin Missing(Front(Class))
  <2>1. ~IsPrefix(c, Class)
    BY <1>1, <1>2, <1>7 DEF Apart
  <2>2. IsPrefix(Class, Class)
    BY <1>1, PrefixOfItself
  <2> QED
    BY <1>1, <2>1, <2>2, MissingIsAbove
<1>8. ASSUME NEW s \in DOMAIN Types, s # File, NEW c \in Range(Types[s])
      PROVE  Still(c) /\ (c \in changed' => c \in changed)
  <2>1. Still(c)
    BY <1>1, <1>7, <1>8 DEF Still
  <2> QED
    BY <1>2, <1>3, <2>1, StillUnchanged
<1>9. ASSUME NEW s \in DOMAIN Types, s \notin Range(job.list)
      PROVE  Range(Types[s]) \cap changed' = {}
  <2>1. Range(Types[s]) \cap changed = {} /\ s # File
    BY <1>5, <1>6, <1>9, <1>2 DEF CompiledInStep
  <2> QED
    BY <1>8, <2>1
<1>10. ASSUME job.errors = 0, NEW s \in Past, NEW c \in Range(Types[s]), Readable(s)'
       PROVE  c \in DOMAIN disk' /\ disk'[c].content = disk'[s].content
  <2>1. Readable(s) /\ disk'[s] = disk[s] /\ s \in DOMAIN Types
    BY <1>2, <1>4, <1>6, <1>10, ReadableSteady DEF Within
  <2>2. c \in DOMAIN disk /\ disk[c].content = disk[s].content
    BY <1>2, <1>5, <1>6, <1>10, <2>1 DEF CompiledInStep, Held, Exists, Contents
  <2>3. CASE s = File
    BY <1>1, <2>1, <2>2, <2>3 DEF Contents
  <2>4. CASE s # File
    BY <1>8, <2>1, <2>2, <2>4 DEF Still
  <2> QED
    BY <2>3, <2>4
<1>11. ASSUME NEW s \in Range(Task.files) \ Range(job.list)
       PROVE  Fresh(s)'
  <2>1. Fresh(s) /\ s \in DOMAIN Types
    BY <1>2, <1>5, <1>11 DEF CompiledInStep
  <2>2. \A c \in Range(Types[s]) : ~BeingMade(<<s, c>>)
    BY <1>2, <1>11, NotCompiled
  <2> QED
    BY <1>3, <1>4, <2>1, <2>2, FreshStays
<1>12. CompiledInStep'
  BY <1>1, <1>6, <1>9, <1>10, <1>11 DEF CompiledInStep, Held, Exists, Contents
<1> QED
  BY <1>2, <1>4, <1>5, <1>12, Kinds DEF Streams

\* What the compiler is done with is held by its classes.
LEMMA CompileNextDone ==
  ASSUME TypeInv, TaskInv, MakingTells, CompileNext
  PROVE  TaskInv'
<1>1. /\ Compiling /\ UNCHANGED <<build, at, disk, suspect, changed>> /\ Task' = Task /\ job \in JobSet
      /\ ~More => job' = Reporting
      /\ More => /\ job'.list = job.list /\ job'.n = job.n + 1 /\ job'.phase = "stream"
                 /\ job'.errors = job.errors /\ job.read = Len(Types[File])
  BY CompileNextFacts DEF Frame, Same
<1>2. /\ build # "none" /\ job.phase = "stream" /\ Task.task = "javac" /\ TypeOK
      /\ Range(job.list) \subseteq Range(Task.files)
      /\ More => File \in Range(Task.files) /\ Types[File] \in Seq(Paths)
  BY <1>1, CompilingFacts
<1>3. job.list \in Seq(Paths) /\ DOMAIN job.list = 1..Len(job.list) /\ job.n \in 1..(Len(job.list) + 1)
      /\ Len(job.list) \in Nat
  BY <1>2 DEF TypeOK
<1>4. CompiledInStep /\ Passed = Past
  BY <1>2 DEF TaskInv, Passed
<1>5. /\ job'.list = job.list /\ job'.errors = job.errors /\ job'.phase \in {"stream", "reported"}
      /\ Passed' \subseteq Past \cup (IF More THEN {File} ELSE {})
  <2>1. CASE More
    <3>1. Passed' = {job.list[i] : i \in 1..(job'.n - 1)}
      BY <1>1, <2>1 DEF Passed, Past
    <3>2. job'.n - 1 = job.n
      BY <1>1, <1>3, <2>1
    <3>3. \A i \in 1..job.n : i \in 1..(job.n - 1) \/ i = job.n
      BY <1>3
    <3> QED
      BY <1>1, <2>1, <3>1, <3>2, <3>3 DEF Past, File
  <2>2. CASE ~More
    <3>1. job'.list = job.list /\ job'.errors = job.errors /\ job'.phase = "reported"
      BY <1>1, <2>2 DEF Reporting, JobSet
    <3>2. \A i \in 1..Len(job.list) : i \in 1..(job.n - 1)
      BY <1>3, <2>2 DEF More
    <3> QED
      BY <1>3, <2>2, <3>1, <3>2 DEF Passed, Past, Range
  <2> QED
    BY <2>1, <2>2
<1>6. Within
  BY <1>1, <1>2, <1>5, BecomesWithin
<1>7. LeftOut'
  BY <1>2, <1>5, <1>6, LeftOutStays DEF TaskInv
<1>8. ASSUME More, NEW c \in Range(Types[File]), Readable(File)
      PROVE  Held(c, File)
  <2>1. <<File, c>> \in Derived /\ BeingMade(<<File, c>>)
    BY <1>1, <1>8, ClassPair
  <2>2. File \notin changed
    BY <1>8 DEF Readable
  <2>3. <<File, c>> \notin suspect
    BY <2>1, <2>2 DEF MakingTells
  <2>4. PICK j \in 1..job.read : Types[File][j] = c
    BY <1>1, <1>2, <1>8 DEF Range
  <2> QED
    BY <1>1, <1>8, <2>3, <2>4 DEF MakingTells
<1>9. ASSUME job.errors = 0, NEW s \in Past \cup (IF More THEN {File} ELSE {}), NEW c \in Range(Types[s]), Readable(s)
      PROVE  Held(c, s)
  <2>1. CASE s \in Past
    BY <1>2, <1>4, <1>9, <2>1 DEF CompiledInStep
  <2>2. CASE s \notin Past
    BY <1>8, <1>9, <2>2
  <2> QED
    BY <2>1, <2>2
<1>10. \A s, c : (Held(c, s)' <=> Held(c, s)) /\ (Readable(s)' <=> Readable(s)) /\ (Fresh(s)' <=> Fresh(s))
  BY <1>1 DEF Held, Exists, Contents, Readable, IsDirectory, Fresh, Newer
<1>11. CompiledInStep'
  <2>1. job.errors = 0 => \A s \in Passed' : \A c \in Range(Types[s]) : Readable(s)' => Held(c, s)'
    BY <1>5, <1>9, <1>10
  <2> QED
    BY <1>1, <1>2, <1>4, <1>5, <1>10, <2>1 DEF CompiledInStep
<1> QED
  BY <1>2, <1>6, <1>7, <1>11, Kinds DEF Streams

\* A task begins with nothing changed, and nothing done.
LEMMA BeginFacts ==
  ASSUME TypeInv, Begin
  PROVE  /\ build # "none" /\ job.phase = "rest" /\ Frame /\ Same /\ TypeOK /\ Known(Task) /\ Task' = Task
         /\ job'.n = 1 /\ job'.phase \in {"open", "files", "reported"}
         /\ job'.phase = "reported" => job'.list = <<>>
         /\ Task.task \in {"concat", "javac", "jar"} <=> job'.phase = "open"
         /\ job'.list = IF Task.fileset THEN Selected(Task.files, DOMAIN disk) ELSE Task.files
<1>1. /\ build # "none" /\ job.phase = "rest" /\ Frame /\ Same /\ TypeOK /\ Known(Task) /\ Task' = Task
  BY TaskFacts DEF Begin, Running, Frame, Same, TypeInv, Task
<1> DEFINE list == IF Task.fileset THEN Selected(Task.files, DOMAIN disk) ELSE Task.files
           begun == [Rest EXCEPT !.list = list]
           opened == [begun EXCEPT !.phase = "open"]
           filing == [begun EXCEPT !.phase = "files"]
           told == [begun EXCEPT !.phase = "reported"]
<1>2. job' = IF Task.task \in {"concat", "javac", "jar"} THEN opened
             ELSE IF list # <<>> THEN filing
             ELSE If(Task.task \in {"native2ascii", "apply"}, told)
  BY DEF Begin
<1> HIDE DEF list
<1>3. \A j \in {opened, filing, told, Failing(told)} : j.n = 1 /\ j.list = list
  BY DEF Failing, Rest
<1>4. opened.phase = "open" /\ filing.phase = "files" /\ told.phase = "reported" /\ Failing(told).phase = "reported"
  BY DEF Failing, Rest
<1> HIDE DEF opened, filing, told, begun
<1>5. CASE Task.task \in {"concat", "javac", "jar"}
  BY <1>1, <1>2, <1>3, <1>4, <1>5 DEF list
<1>6. CASE Task.task \notin {"concat", "javac", "jar"} /\ list # <<>>
  BY <1>1, <1>2, <1>3, <1>4, <1>6 DEF list
<1>7. CASE Task.task \notin {"concat", "javac", "jar"} /\ list = <<>>
  <2>1. job' \in {told, Failing(told)}
    BY <1>2, <1>7 DEF If
  <2> QED
    BY <1>1, <1>3, <1>4, <1>7, <2>1 DEF list
<1> QED
  BY <1>5, <1>6, <1>7

LEMMA BeginDone ==
  ASSUME TypeInv, TaskInv, Begin
  PROVE  TaskInv'
<1>1. /\ job.phase = "rest" /\ disk' = disk /\ changed' = changed /\ Known(Task) /\ Task' = Task
      /\ job'.n = 1 /\ job'.phase \in {"open", "files", "reported"}
      /\ job'.phase = "reported" => job'.list = <<>>
      /\ Task.task \in {"concat", "javac", "jar"} <=> job'.phase = "open"
      /\ job'.list = IF Task.fileset THEN Selected(Task.files, DOMAIN disk) ELSE Task.files
  BY BeginFacts DEF Same
<1>2. changed' = {}
  BY <1>1 DEF TaskInv
<1>3. Passed' = {}
  <2>1. CASE job'.phase = "reported"
    BY <1>1, <2>1 DEF Passed, Range
  <2>2. CASE job'.phase # "reported"
    <3>1. 1..(job'.n - 1) = {}
      BY <1>1
    <3> QED
      BY <2>2, <3>1 DEF Passed, Past
  <2> QED
    BY <2>1, <2>2
<1>4. LeftOut'
  <2> SUFFICES ASSUME NEW f \in Range(Task.files) \ Range(job'.list)
               PROVE  Task.fileset /\ f \notin DOMAIN disk
    BY <1>1 DEF LeftOut, Exists
  <2>1. Task.fileset
    BY <1>1
  <2>2. Range(job'.list) = Range(Task.files) \cap DOMAIN disk
    BY <1>1, <2>1, SelectedIs DEF Known
  <2> QED
    BY <2>1, <2>2
<1>5. StreamsInStep'
  BY <1>2, <1>3 DEF StreamsInStep
<1>6. ConcatInStep' /\ ApplyInStep' /\ DeleteInStep'
  BY <1>1, <1>3 DEF ConcatInStep, ApplyInStep, DeleteInStep
<1>7. CompiledInStep'
  BY <1>1, <1>2 DEF CompiledInStep
<1> QED
  BY <1>1, <1>4, <1>5, <1>6, <1>7 DEF TaskInv

LEMMA AtRestDone ==
  ASSUME TypeInv, TaskInv, EndTask \/ Kill \/ \E b \in project : Start(b)
  PROVE  TaskInv'
<1>1. job'.phase = "rest"
  BY DEF EndTask, Kill, Start, TypeInv, JobInv, Rest
<1>2. changed' = {}
  BY <1>1 DEF EndTask, Kill, Start, Same, TaskInv
<1> QED
  BY <1>1, <1>2 DEF TaskInv

LEMMA TaskInit ==
  ASSUME Init
  PROVE  TaskInv
BY DEF Init, TaskInv, Rest

\* One step.
LEMMA DoneStep ==
  ASSUME TypeInv, TaskInv, TimesTell, MakingTells, Apart, [Next]_vars
  PROVE  TaskInv'
<1>1. CASE UNCHANGED vars \/ Tick
  BY <1>1, TickDone DEF vars, Tick, Same
<1>2. CASE TaskStep
  <2>1. CASE Begin \/ EndTask
    BY <2>1, BeginDone, AtRestDone
  <2>2. CASE mkdir_main \/ do_move_file \/ do_touch_file \/ jar_invoke
    BY <2>2, OtherDone
  <2>3. CASE do_delete_file \/ apply_invoke
    BY <2>3, DeleteDone, ApplyDone
  <2>4. CASE SkipFile
    <3>1. OneStream /\ Same /\ Frame /\ job' = Next_file
      BY <2>4 DEF SkipFile
    <3>2. build # "none" /\ job.phase = "files" /\ More /\ TypeOK
      BY <3>1, StreamFacts
    <3>3. job'.phase # "rest"
      BY <3>1, <3>2, NextAdvances DEF Frame, If, Advances
    <3>4. Within
      BY <3>1, <3>2, <3>3, BecomesWithin DEF Same, Frame
    <3> QED
      BY <2>4, <3>4, SkipFileDone
  <2>5. CASE RefuseFile \/ OpenFile
    BY <2>5, RefuseFileDone, OpenFileDone
  <2>6. CASE OpenOutput \/ OpenInput \/ CloseOutput
    BY <2>6, OpenOutputDone, OpenInputDone, CloseOutputDone
  <2>7. CASE CopyChunk
    <3>1. Task.task \in Streams \cup {"concat"}
      BY <2>7, StreamingFacts DEF CopyChunk
    <3> QED
      BY <2>7, <3>1, CopyStreamDone, CopyConcatDone
  <2>8. CASE CloseFile
    <3>1. Task.task \in Streams \cup {"concat"}
      BY <2>8, StreamingFacts DEF CloseFile
    <3> QED
      BY <2>8, <3>1, CloseStreamDone, CloseConcatDone
  <2>9. CASE FindStale \/ CompileClass \/ CompileNext
    BY <2>9, FindStaleDone, CompileClassDone, CompileNextDone
  <2> QED
    BY <1>2, <2>1, <2>2, <2>3, <2>4, <2>5, <2>6, <2>7, <2>8, <2>9 DEF TaskStep
<1>3. CASE WriteFails \/ CompilerFails \/ Kill
  BY <1>3, WriteFailsDone, CompilerFailsDone, AtRestDone
<1>4. CASE \E s \in Sources : Edit(s)
  BY <1>4, EditDone
<1>5. CASE \E b \in project : Start(b)
  BY <1>5, AtRestDone
<1> QED
  BY <1>1, <1>2, <1>3, <1>4, <1>5 DEF Next

-----------------------------------------------------------------------------
(* What a task that reports success has done                               *)

LEMMA ReportedStreams ==
  ASSUME IInv, Running("reported"), Succeeded, Task.task \in Streams
  PROVE  Done(Task)
<1>1. TypeOK /\ Passed = Range(job.list) /\ InHand = {} /\ LeftOut /\ StreamsInStep
  BY DEF IInv, TypeInv, Running, Passed, InHand, TaskInv
<1>2. ASSUME NEW f \in Range(Task.files), Readable(f), ~Untold(<<f, Task.to[f]>>), job.errors = 0
      PROVE  Held(Task.to[f], f) \/ (Keeps(Task) /\ Whole(Task.to[f]))
  <2>1. f \in Range(job.list)
    BY <1>1, <1>2 DEF LeftOut, Readable, Streams
  <2>2. StreamDone(f)
    BY <1>1, <1>2, <2>1 DEF StreamsInStep
  <2> QED
    BY <1>2, <2>2 DEF StreamDone
<1>3. job.errors # 0 => Task.tolerant /\ job.errors > 0
  BY <1>1 DEF Succeeded, TypeOK
<1>4. \A f \in Range(Task.files) :
          Readable(f) /\ ~Untold(<<f, Task.to[f]>>) =>
              \/ Held(Task.to[f], f)
              \/ Task.tolerant /\ job.errors > 0
              \/ Keeps(Task) /\ Whole(Task.to[f])
  BY <1>2, <1>3
<1> QED
  BY <1>4 DEF Done, Streams

LEMMA ReportedConcat ==
  ASSUME IInv, Running("reported"), Succeeded, Task.task = "concat"
  PROVE  Done(Task)
<1>1. TypeOK /\ Passed = Range(job.list) /\ ConcatInStep /\ Known(Task) /\ Range(job.list) \subseteq Range(Task.files)
      /\ job.phase = "reported"
  <2>1. TypeInv /\ build # "none" /\ job.phase = "reported"
    BY DEF IInv, Running
  <2> QED
    BY <2>1, Working DEF IInv, Passed, TaskInv
<1>2. job.errors = 0
  BY <1>1, TasksAssumption DEF Succeeded, Known
<1>3. Task.failonerror => \A f \in Range(job.list) : Exists(f)
  BY <1>1, <1>2 DEF ConcatInStep
<1>4. ASSUME Plain
      PROVE  Contents(Task.dest) = Heading \o FlattenSeq(Inputs)
  <2>1. \A i \in DOMAIN job.list : Exists(job.list[i])
    BY <1>1, <1>4 DEF Plain, Readable, Range
  <2>2. FlattenSeq(Inputs) = Joined(Inputs, Len(job.list))
    BY <1>1, <2>1, InputsFacts
  <2> QED
    BY <1>1, <1>2, <1>4, <2>2 DEF ConcatInStep
<1>5. Done(Task) <=>
        /\ Task.failonerror => \A f \in Range(job.list) : Exists(f)
        /\ Plain => Contents(Task.dest) = Heading \o FlattenSeq(Inputs)
  BY DEF Done, Plain, Heading, Streams
<1> QED
  BY <1>3, <1>4, <1>5

LEMMA ReportedJavac ==
  ASSUME IInv, Running("reported"), Task.task = "javac"
  PROVE  Done(Task)
<1>1. /\ TypeOK /\ Passed = Range(job.list) /\ CompiledInStep /\ TimesTell /\ Known(Task)
      /\ job.phase = "reported"
  <2>1. TypeInv /\ build # "none" /\ job.phase = "reported"
    BY DEF IInv, Running
  <2> QED
    BY <2>1, Working DEF IInv, Passed, TaskInv
<1>2. Range(Task.files) \subseteq DOMAIN Types
  BY <1>1, TasksAssumption DEF Known
<1>3. ASSUME NEW s \in Range(Task.files), Readable(s), job.errors = 0,
             Types[s] # <<>> => Exists(ClassOf[s]),
             NEW c \in Range(Types[s]), ~Untold(<<s, c>>), Exists(c)
      PROVE  Held(c, s)
  <2> DEFINE pair == <<s, c>>
  <2>1. CASE s \in Range(job.list)
    BY <1>1, <1>3, <2>1 DEF CompiledInStep
  <2>2. CASE s \notin Range(job.list)
    <3>1. c \notin changed /\ Fresh(s) /\ s \in DOMAIN Types
      BY <1>1, <1>2, <1>3, <2>2 DEF CompiledInStep
    <3>2. pair \notin suspect
      BY <1>3, <3>1 DEF Untold
    <3>3. Types[s] # <<>>
      BY <1>3 DEF Range
    <3>4. Exists(s) /\ Exists(ClassOf[s]) /\ ~Newer(s, ClassOf[s])
      BY <1>3, <3>1, <3>2, <3>3 DEF Fresh, Readable
    <3>5. pair \in Derived /\ Compiled(pair)
      <4>1. pair \in {<<s, e>> : e \in Range(Types[s])}
        OBVIOUS
      <4>2. pair \in UNION {{<<r, e>> : e \in Range(Types[r])} : r \in DOMAIN Types}
        BY <3>1, <4>1
      <4> QED
        BY <3>1, <4>2 DEF Derived, Compiled
    <3>6. Judge[pair] = ClassOf[s]
      BY <3>5 DEF Judge
    <3>7. Told(pair)
      BY <1>1, <3>2, <3>5 DEF TimesTell, BeingMade, Running, Tells
    <3> QED
      BY <1>3, <3>4, <3>6, <3>7 DEF Told, Held, Exists
  <2> QED
    BY <2>1, <2>2
<1> QED
  BY <1>3 DEF Done, Streams

LEMMA ReportedOthers ==
  ASSUME IInv, Running("reported"), Succeeded, Task.task \notin Streams \cup {"concat", "javac"}
  PROVE  Done(Task)
<1>1. /\ TypeOK /\ Passed = Range(job.list) /\ LeftOut /\ ApplyInStep /\ DeleteInStep /\ Known(Task)
      /\ job.phase = "reported"
  <2>1. TypeInv /\ build # "none" /\ job.phase = "reported"
    BY DEF IInv, Running
  <2> QED
    BY <2>1, Working DEF IInv, Passed, TaskInv
<1>2. CASE Task.task = "apply"
  <2>1. job.errors = 0
    BY <1>1, <1>2, TasksAssumption DEF Succeeded, Known
  <2> QED
    BY <1>1, <1>2, <2>1 DEF Done, ApplyInStep, Streams
<1>3. CASE Task.task = "delete"
  <2>1. job.errors = 0
    BY <1>1, <1>3, TasksAssumption DEF Succeeded, Known
  <2>2. ASSUME Task.failonerror, NEW f \in Range(Task.files), Exists(f)
        PROVE  f \in changed
    BY <1>1, <1>3, <2>1, <2>2 DEF DeleteInStep, LeftOut
  <2> QED
    BY <1>3, <2>2 DEF Done, Streams
<1>4. CASE Task.task \notin {"apply", "delete"}
  BY <1>4 DEF Done
<1> QED
  BY <1>2, <1>3, <1>4

LEMMA ReportedDone ==
  ASSUME IInv
  PROVE  SuccessMeansDone
BY ReportedStreams, ReportedConcat, ReportedJavac, ReportedOthers DEF SuccessMeansDone

\* A task that reports success has made every file it was to make, whole and
\* of its sources as they are, whatever was edited, killed or failed before:
\* what needs_copy, get_invoke and needs_compilation leave alone is no older
\* than its source, and what was made after its source was made of it to the
\* end.  Asked of the project: nothing a task makes is in the way of another
\* (Apart); and of its users: what is copied whatever its time is copied from
\* files that are whole (KeptSourcesWhole).
THEOREM SuccessIsDone ==
  ASSUME Apart
  PROVE  Spec /\ []KeptSourcesWhole => []SuccessMeansDone
<1>1. Init => IInv
  BY TypeInit, TellsInit, TaskInit DEF IInv
<1>2. IInv /\ KeptSourcesWhole /\ [Next]_vars => IInv'
  <2> SUFFICES ASSUME IInv, KeptSourcesWhole, [Next]_vars
               PROVE  IInv'
    OBVIOUS
  <2>1. TypeInv'
    BY TypeStep DEF IInv
  <2>2. TimesTell' /\ MakingTells'
    BY <2>1, TellsStep DEF IInv
  <2>3. TaskInv'
    BY DoneStep DEF IInv
  <2> QED
    BY <2>1, <2>2, <2>3 DEF IInv
<1>3. IInv => SuccessMeansDone
  BY ReportedDone
<1> QED
  BY <1>1, <1>2, <1>3, PTL DEF Spec

\* Where no task is told to keep what is there, nothing is asked of the users.
COROLLARY SuccessIsDoneAnew ==
  ASSUME Apart, \A t \in AllTasks : ~Keeps(t)
  PROVE  Spec => []SuccessMeansDone
<1>1. KeptSourcesWhole
  BY DEF KeptSourcesWhole
<1> QED
  BY <1>1, SuccessIsDone, PTL

=============================================================================
