--------------------------- MODULE IvyCacheProofs ---------------------------
(***************************************************************************)
(* Theorems about IvyCache, for every chain of resolvers, every set of     *)
(* tasks that may meet, every size of a file and every number of faults.   *)
(***************************************************************************)
EXTENDS IvyCache, TLAPS

-----------------------------------------------------------------------------
(* How far a task is                                                       *)

Fields == {"pc", "item", "member", "pos", "md", "hit", "failed", "skipped",
           "artifact", "delivered"}

PCs == {"look", "open", "copying", "parse", "deliver", "done", "killed"}

\* A change of some fields that keeps their types.
Changed(c) ==
    /\ DOMAIN c \subseteq Fields
    /\ "pc" \in DOMAIN c => c["pc"] \in PCs
    /\ "item" \in DOMAIN c => c["item"] \in Kinds \cup {"copy"}
    /\ "member" \in DOMAIN c => c["member"] \in 1..Len(Chain)
    /\ "pos" \in DOMAIN c => c["pos"] \in 0..Pieces
    /\ "md" \in DOMAIN c => c["md"] \in Tasks \cup {"none"}
    /\ \A x \in {"hit", "failed", "skipped", "artifact", "delivered"} \cap DOMAIN c :
          c[x] \in BOOLEAN

LEMMA WithType ==
  ASSUME NEW r \in Progress, NEW c, Changed(c)
  PROVE  /\ With(r, c) \in Progress
         /\ \A x \in Fields : With(r, c)[x] = IF x \in DOMAIN c THEN c[x] ELSE r[x]
  BY DEF With, Changed, Progress, Fields, PCs

LEMMA GoesType ==
  ASSUME TypeOK, NEW t \in Tasks, NEW c, Changed(c), Goes(t, c)
  PROVE  /\ run[t] \in Progress
         /\ run' \in [Tasks -> Progress]
         /\ \A u \in Tasks \ {t} : run'[u] = run[u]
         /\ \A x \in Fields : run'[t][x] = IF x \in DOMAIN c THEN c[x] ELSE run[t][x]
<1>1. run \in [Tasks -> Progress] /\ run[t] \in Progress
  BY DEF TypeOK
<1>2. /\ With(run[t], c) \in Progress
      /\ \A x \in Fields : With(run[t], c)[x] = IF x \in DOMAIN c THEN c[x] ELSE run[t][x]
  BY <1>1, WithType
<1>3. run' = [run EXCEPT ![t] = With(run[t], c)]
  BY DEF Goes
<1> QED
  BY <1>1, <1>2, <1>3

LEMMA TaskType ==
  ASSUME TypeOK, NEW t \in Tasks
  PROVE  /\ run[t] \in Progress
         /\ run[t].pc \in PCs /\ run[t].item \in Kinds \cup {"copy"}
         /\ run[t].member \in 1..Len(Chain) /\ run[t].pos \in 0..Pieces
         /\ run[t].md \in Tasks \cup {"none"}
         /\ run[t].artifact \in BOOLEAN /\ run[t].delivered \in BOOLEAN
         /\ run[t].failed \in BOOLEAN /\ run[t].skipped \in BOOLEAN /\ run[t].hit \in BOOLEAN
         /\ t \in Names /\ job \in Jobs
  BY DEF TypeOK, Progress, PCs, Tasks, Names

\* What follows a part of a task that went well, or did not.
LEMMA AfterEffect ==
  ASSUME TypeOK, NEW t \in Tasks, InStep(t), NEW ok \in BOOLEAN, Goes(t, After(t, ok))
  PROVE  /\ run' \in [Tasks -> Progress]
         /\ \A u \in Tasks \ {t} : run'[u] = run[u]
         /\ Publishes(t) =>
              /\ run'[t].pc \in {"look", "done"} /\ run'[t].item \in Kinds
              /\ run'[t].artifact = run[t].artifact /\ run'[t].delivered = run[t].delivered
         /\ ~Publishes(t) => run'[t].item = run[t].item
         /\ ~Publishes(t) /\ run[t].item = "ivy" =>
              /\ run'[t].pc \in {"parse", "look", "done"}
              /\ run'[t].artifact = run[t].artifact /\ run'[t].delivered = run[t].delivered
         /\ ~Publishes(t) /\ run[t].item = "jar" =>
              /\ run'[t].pc = (IF ok THEN "deliver" ELSE "done") /\ run'[t].artifact = ok
              /\ run'[t].delivered = run[t].delivered
         /\ ~Publishes(t) /\ run[t].item = "copy" =>
              /\ run'[t].pc = "done" /\ run'[t].delivered = ok
              /\ run'[t].artifact = run[t].artifact
<1> USE TaskType
<1>1. CASE Publishes(t)
  <2> DEFINE c == With(NextUpload(t), [failed |-> run[t].failed \/ ~ok])
  <2>1. After(t, ok) = c
    BY <1>1 DEF After
  <2>2. run[t].item \in Kinds /\ (run[t].failed \/ ~ok) \in BOOLEAN
    BY <1>1 DEF InStep
  <2>3. CASE run[t].item = "jar"
    <3> DEFINE next == [pc |-> "look", item |-> "ivy"]
    <3>0. NextUpload(t) = next
      BY <2>3 DEF NextUpload
    <3>1. /\ DOMAIN c = {"pc", "item", "failed"} /\ c["pc"] = "look" /\ c["item"] = "ivy"
          /\ c["failed"] = (run[t].failed \/ ~ok)
      BY <3>0 DEF With
    <3> HIDE DEF c
    <3>2. Changed(c)
      BY <2>2, <3>1 DEF Changed, Fields, Kinds, PCs
    <3> QED
      BY <1>1, <2>1, <3>1, <3>2, GoesType DEF Fields, Kinds
  <2>4. CASE run[t].item # "jar"
    <3> DEFINE next == [pc |-> "done"]
    <3>0. NextUpload(t) = next
      BY <2>4 DEF NextUpload
    <3>1. /\ DOMAIN c = {"pc", "failed"} /\ c["pc"] = "done"
          /\ c["failed"] = (run[t].failed \/ ~ok)
      BY <3>0 DEF With
    <3> HIDE DEF c
    <3>2. Changed(c)
      BY <2>2, <3>1 DEF Changed, Fields, Kinds, PCs
    <3> QED
      BY <1>1, <2>1, <2>2, <3>1, <3>2, GoesType DEF Fields, Kinds
  <2> QED
    BY <2>3, <2>4
<1>2. CASE ~Publishes(t) /\ run[t].item = "ivy"
  <2>1. After(t, ok) = IF ok THEN [pc |-> "parse"] ELSE NextMember(t)
    BY <1>2 DEF After
  <2>2. /\ Changed(After(t, ok)) /\ DOMAIN After(t, ok) \subseteq {"pc", "member"}
        /\ "pc" \in DOMAIN After(t, ok) /\ After(t, ok)["pc"] \in {"parse", "look", "done"}
    <3>1. CASE ok
      BY <2>1, <3>1 DEF Changed, Fields, PCs
    <3>2. CASE ~ok /\ run[t].member < Len(Chain)
      <4>1. run[t].member + 1 \in 1..Len(Chain)
        BY <3>2, IvyCacheAssumption
      <4>2. After(t, ok) = [pc |-> "look", member |-> run[t].member + 1]
        BY <2>1, <3>2 DEF NextMember
      <4> QED
        BY <4>1, <4>2 DEF Changed, Fields, PCs
    <3>3. CASE ~ok /\ ~(run[t].member < Len(Chain))
      BY <2>1, <3>3 DEF NextMember, Changed, Fields, PCs
    <3> QED
      BY <3>1, <3>2, <3>3
  <2> QED
    BY <1>2, <2>2, GoesType DEF Fields
<1>3. CASE ~Publishes(t) /\ run[t].item = "jar"
  <2>1. After(t, ok) = [pc |-> IF ok THEN "deliver" ELSE "done", artifact |-> ok]
    BY <1>3 DEF After
  <2>2. Changed(After(t, ok))
    BY <2>1 DEF Changed, Fields, PCs
  <2> QED
    BY <1>3, <2>1, <2>2, GoesType DEF Fields
<1>4. CASE ~Publishes(t) /\ run[t].item = "copy"
  <2>1. After(t, ok) = [pc |-> "done", delivered |-> ok]
    BY <1>4 DEF After
  <2>2. Changed(After(t, ok))
    BY <2>1 DEF Changed, Fields, PCs
  <2> QED
    BY <1>4, <2>1, <2>2, GoesType DEF Fields
<1> QED
  BY <1>1, <1>2, <1>3, <1>4 DEF Kinds

-----------------------------------------------------------------------------
(* Where a task copies from and to                                         *)

LEMMA JobType ==
  ASSUME TypeOK, NEW t \in Tasks
  PROVE  /\ job[t].rev \in Revisions /\ job[t].rev # AnyRevision
         /\ job[t].task \in Publishing \cup Consuming
         /\ Publishes(t) => job[t].repo \in Range(Chain)
         /\ ~Publishes(t) => job[t].qualified \in BOOLEAN /\ job[t].wget \in BOOLEAN
         /\ resolver(t) \in Range(Chain)
<1>1. job \in Jobs /\ t \in DOMAIN job
  BY DEF TypeOK, Tasks
<1>2. /\ job[t].rev \in Revisions /\ job[t].task \in Publishing \cup Consuming
      /\ Publishes(t) => job[t].repo \in Range(Chain)
      /\ ~Publishes(t) => job[t].qualified \in BOOLEAN /\ job[t].wget \in BOOLEAN
  BY <1>1, JobsAssumption DEF Publishes
<1>3. Chain[run[t].member] \in Range(Chain)
  BY TaskType, IvyCacheAssumption DEF Range
<1> QED
  BY <1>2, <1>3, IvyCacheAssumption DEF resolver, AnyRevision

LEMMA Triple ==
  ASSUME NEW a, NEW b, NEW c
  PROVE  <<a, b, c>>[1] = a /\ <<a, b, c>>[2] = b /\ <<a, b, c>>[3] = c
  OBVIOUS

LEMMA PlacesHas ==
  ASSUME NEW a \in Range(Chain) \cup Names \cup {"cache", "lib"}, NEW k \in Kinds,
         NEW r \in Revisions \cup {AnyRevision}
  PROVE  <<a, k, r>> \in Places
  BY DEF Places

LEMMA EndsType ==
  ASSUME TypeOK, NEW t \in Tasks, InStep(t)
  PROVE  /\ To(t) \in Places /\ From(t) \in Places /\ To(t) # From(t)
         /\ Publishes(t) => To(t)[1] \in Range(Chain) /\ From(t)[1] = t
         /\ ~Publishes(t) => To(t)[1] \in {"cache", "lib"}
         /\ ~Publishes(t) /\ run[t].item \in Kinds =>
              /\ To(t) = build_cache_path(t, run[t].item)
              /\ From(t) = <<resolver(t), run[t].item, job[t].rev>>
         /\ ~Publishes(t) /\ run[t].item = "copy" =>
              From(t) = build_cache_path(t, "jar") /\ To(t) = Retrieved(t)
         /\ From(t)[3] = job[t].rev
         /\ To(t)[3] = job[t].rev \/ (To(t)[3] = AnyRevision /\ run[t].item = "copy")
<1>1. /\ t \in Names /\ job[t].rev \in Revisions /\ resolver(t) \in Range(Chain)
      /\ run[t].item \in Kinds \cup {"copy"} /\ job[t].rev # AnyRevision
      /\ t \notin Range(Chain) /\ {"cache", "lib"} \cap Range(Chain) = {}
  BY TaskType, JobType, PlacesAssumption
<1>2. CASE Publishes(t)
  <2>1. run[t].item \in Kinds
    BY <1>2 DEF InStep
  <2>2. /\ To(t) = <<resolver(t), run[t].item, job[t].rev>>
        /\ From(t) = <<t, run[t].item, job[t].rev>>
    BY <1>2, <2>1 DEF To, From, Held, Local, Kinds
  <2>3. To(t) \in Places /\ From(t) \in Places
    BY <1>1, <2>1, <2>2, PlacesHas
  <2>4. /\ To(t)[1] = resolver(t) /\ From(t)[1] = t
        /\ To(t)[3] = job[t].rev /\ From(t)[3] = job[t].rev
    BY <2>2, Triple
  <2>5. To(t) # From(t)
    BY <1>1, <2>4
  <2> QED
    BY <1>1, <1>2, <2>3, <2>4, <2>5
<1>3. CASE ~Publishes(t) /\ run[t].item \in Kinds
  <2>1. /\ To(t) = build_cache_path(t, run[t].item)
        /\ From(t) = <<resolver(t), run[t].item, job[t].rev>>
        /\ build_cache_path(t, run[t].item) = <<"cache", run[t].item, job[t].rev>>
    BY <1>3 DEF To, From, Held, build_cache_path, Kinds
  <2>2. To(t) \in Places /\ From(t) \in Places
    BY <1>1, <1>3, <2>1 DEF Places
  <2>3. /\ To(t)[1] = "cache" /\ From(t)[1] = resolver(t)
        /\ To(t)[3] = job[t].rev /\ From(t)[3] = job[t].rev
    BY <2>1, Triple
  <2>4. To(t) # From(t)
    BY <1>1, <2>3
  <2>5. run[t].item # "copy"
    BY <1>3 DEF Kinds
  <2> QED
    BY <1>3, <2>1, <2>2, <2>3, <2>4, <2>5
<1>4. CASE ~Publishes(t) /\ run[t].item = "copy"
  <2>1. /\ From(t) = build_cache_path(t, "jar") /\ To(t) = Retrieved(t)
        /\ build_cache_path(t, "jar") = <<"cache", "jar", job[t].rev>>
    BY <1>4 DEF To, From, build_cache_path
  <2>2. \/ Retrieved(t) = <<"lib", "jar", job[t].rev>>
        \/ Retrieved(t) = <<"lib", "jar", AnyRevision>>
    BY DEF Retrieved
  <2>3. To(t) \in Places /\ From(t) \in Places
    BY <1>1, <2>1, <2>2 DEF Places, Kinds
  <2>4. /\ To(t)[1] = "lib" /\ From(t)[1] = "cache"
        /\ To(t)[3] \in {job[t].rev, AnyRevision} /\ From(t)[3] = job[t].rev
    BY <2>1, <2>2, Triple
  <2>5. To(t) # From(t)
    BY <2>4
  <2>6. run[t].item \notin Kinds
    BY <1>4 DEF Kinds
  <2> QED
    BY <1>4, <2>1, <2>3, <2>4, <2>5, <2>6
<1>5. \/ Publishes(t)
      \/ ~Publishes(t) /\ run[t].item \in Kinds
      \/ ~Publishes(t) /\ run[t].item = "copy"
  BY <1>1
<1> QED
  BY <1>2, <1>3, <1>4, <1>5

LEMMA PathsType ==
  ASSUME TypeOK, NEW t \in Tasks
  PROVE  /\ \A k \in Kinds : build_cache_path(t, k) \in Places
         /\ Retrieved(t) \in Places
  BY TaskType, JobType DEF build_cache_path, Retrieved, Places, Kinds

-----------------------------------------------------------------------------
(* Whose turn it is changes nothing about the others                       *)

Turn(t) ==
    /\ job' = job
    /\ run' \in [Tasks -> Progress]
    /\ \A u \in Tasks \ {t} : run'[u] = run[u]
    /\ run[t].artifact => run'[t].artifact

LEMMA SamePlaces ==
  ASSUME job' = job, NEW u,
         run'[u].item = run[u].item, run'[u].member = run[u].member
  PROVE  To(u)' = To(u) /\ From(u)' = From(u)
  BY DEF To, From, Held, Local, Retrieved, build_cache_path, resolver, Publishes

LEMMA Others ==
  ASSUME NEW t \in Tasks, Turn(t), NEW u \in Tasks \ {t}
  PROVE  /\ To(u)' = To(u) /\ From(u)' = From(u)
         /\ Copying(u)' <=> Copying(u)
         /\ run'[u] = run[u] /\ u \in Tasks'
<1>1. run'[u] = run[u] /\ job' = job /\ Tasks' = Tasks
  BY DEF Turn, Tasks
<1> QED
  BY <1>1, SamePlaces DEF Copying, At

LEMMA BelongsKept ==
  ASSUME TypeOK, NEW t \in Tasks, Turn(t), NEW v, NEW f, Belongs(v, f)
  PROVE  Belongs(v, f)'
<1>1. job' = job /\ Tasks' = Tasks
  BY DEF Turn, Tasks
<1>2. \A u \in Tasks : run[u].artifact => run'[u].artifact
  BY DEF Turn
<1> QED
  BY <1>1, <1>2 DEF Belongs

\* Who writes a file, when t begins to copy, stops, goes on, or does
\* something else.
LEMMA WritersBegin ==
  ASSUME NEW t \in Tasks, Turn(t), ~Copying(t), Copying(t)', To(t)' = To(t), NEW f
  PROVE  Writers(f)' = IF f = To(t) THEN Writers(f) \cup {t} ELSE Writers(f)
<1>1. Tasks' = Tasks
  BY DEF Turn, Tasks
<1> QED
  BY <1>1, Others DEF Writers

LEMMA WritersEnd ==
  ASSUME NEW t \in Tasks, Turn(t), ~Copying(t)', NEW f
  PROVE  Writers(f)' = Writers(f) \ {t}
<1>1. Tasks' = Tasks
  BY DEF Turn, Tasks
<1> QED
  BY <1>1, Others DEF Writers

LEMMA WritersSame ==
  ASSUME NEW t \in Tasks, Turn(t), Copying(t), Copying(t)', To(t)' = To(t), NEW f
  PROVE  Writers(f)' = Writers(f)
<1>1. Tasks' = Tasks
  BY DEF Turn, Tasks
<1> QED
  BY <1>1, Others DEF Writers

\* CopyInStep and Damaged of the next state, for the places copied to and
\* from.
LEMMA CopyInStepNext ==
  ASSUME NEW u \in Tasks, job' = job, NEW f, NEW g, f = To(u)', g = From(u)',
         Writers(f)' = {u}, Writers(g)' = {},
         NEW v \in Tasks, Belongs(v, f)', disk'[g] = Copy(v),
         disk'[f] = [i \in 1..run'[u].pos |-> v]
  PROVE  CopyInStep(u)'
<1>1. Tasks' = Tasks
  BY DEF Tasks
<1>2. Writers(To(u))' = {u} /\ Writers(From(u))' = {}
  BY DEF Writers
<1>3. Belongs(v, To(u))'
  BY DEF Belongs
<1> QED
  BY <1>1, <1>2, <1>3 DEF CopyInStep, Copy

LEMMA DamagedNext ==
  ASSUME NEW u, NEW f, f = To(u)', Damaged(f)'
  PROVE  Damaged(To(u))'
  BY DEF Damaged

LEMMA CopyType ==
  ASSUME NEW v
  PROVE  /\ Len(Copy(v)) = Pieces /\ Copy(v) \in [1..Pieces -> {v}] /\ Pieces \in Nat \ {0}
         /\ Copy(v)[1] = v
<1>1. Pieces \in Nat \ {0}
  BY IvyCacheAssumption
<1>2. Copy(v) = [i \in 1..Pieces |-> v]
  BY DEF Copy
<1>3. Copy(v) \in Seq({v}) /\ DOMAIN Copy(v) = 1..Pieces
  BY <1>1, <1>2
<1> QED
  BY <1>1, <1>2, <1>3

\* A step that opens no file and copies nothing; it may end a copy, when
\* there is no more to copy or with the target marked as cut short.
Quiet(t) ==
    /\ Turn(t)
    /\ disk' = disk
    /\ ~Copying(t)'
    /\ \A f \in Places : blame[f] \subseteq blame'[f]
    /\ Copying(t) => "cut" \in blame'[To(t)] \/ run[t].pos >= Len(disk[From(t)])

LEMMA QuietFacts ==
  ASSUME NEW t \in Tasks, Quiet(t)
  PROVE  /\ \A f : Writers(f)' = Writers(f) \ {t}
         /\ \A f \in Places : Damaged(f) => Damaged(f)'
         /\ \A f : Exists(f)' <=> Exists(f)
<1>1. \A f : Writers(f)' = Writers(f) \ {t}
  BY WritersEnd DEF Quiet
<1>2. \A f \in Places : Damaged(f) => Damaged(f)'
  BY DEF Quiet, Damaged
<1> QED
  BY <1>1, <1>2 DEF Quiet, Exists

LEMMA QuietKeeps ==
  ASSUME IInv, NEW t \in Tasks, Quiet(t)
  PROVE  FilesWhole' /\ CopiesInStep'
<1>1. disk' = disk /\ Tasks' = Tasks /\ Turn(t)
  BY DEF Quiet, Turn, Tasks
<1>2. FilesWhole'
  <2> SUFFICES ASSUME NEW f \in DOMAIN disk, ~Damaged(f)', Writers(f)' = {}
               PROVE  \E v \in Tasks : Belongs(v, f)' /\ disk'[f] = Copy(v)
    BY <1>1 DEF FilesWhole, Copy
  <2>1. f \in Places
    BY DEF IInv, TypeOK
  <2>2. ~Damaged(f) /\ Writers(f) \subseteq {t}
    BY <2>1, QuietFacts
  <2>3. CASE Writers(f) = {}
    BY <1>1, <2>2, <2>3, BelongsKept DEF IInv, FilesWhole
  <2>4. CASE Writers(f) = {t}
    <3>1. Copying(t) /\ f = To(t)
      BY <2>4 DEF Writers
    <3>2. CopyInStep(t)
      BY <2>2, <3>1 DEF IInv, CopiesInStep
    <3>3. PICK v \in Tasks : /\ Belongs(v, f) /\ disk[From(t)] = Copy(v)
                             /\ disk[f] = [i \in 1..run[t].pos |-> v]
      BY <3>1, <3>2 DEF CopyInStep
    <3>4. run[t].pos >= Len(disk[From(t)])
      BY <3>1 DEF Quiet, Damaged
    <3>5. run[t].pos = Pieces
      BY <3>3, <3>4, CopyType, TaskType DEF IInv
    <3> QED
      BY <1>1, <3>3, <3>5, BelongsKept DEF IInv, Copy
  <2> QED
    BY <2>2, <2>3, <2>4
<1>3. CopiesInStep'
  <2> SUFFICES ASSUME NEW u \in Tasks, Copying(u)'
               PROVE  Damaged(To(u))' \/ CopyInStep(u)'
    BY <1>1 DEF CopiesInStep
  <2>1. u # t
    BY DEF Quiet
  <2>2. To(u)' = To(u) /\ From(u)' = From(u) /\ Copying(u) /\ run'[u] = run[u]
    BY <1>1, <2>1, Others
  <2>3. To(u) \in Places
    BY EndsType DEF IInv
  <2>4. CASE Damaged(To(u))
    <3>1. PICK f \in Places : f = To(u)
      BY <2>3
    <3>2. Damaged(f)'
      BY <2>4, <3>1, QuietFacts
    <3> QED
      BY <2>2, <3>1, <3>2, DamagedNext
  <2>5. CASE CopyInStep(u)
    <3>1. Writers(To(u)) = {u} /\ Writers(From(u)) = {}
      BY <2>5 DEF CopyInStep
    <3>2. PICK v \in Tasks : /\ Belongs(v, To(u)) /\ disk[From(u)] = Copy(v)
                             /\ disk[To(u)] = [i \in 1..run[u].pos |-> v]
      BY <2>5 DEF CopyInStep
    <3>3. PICK f, g : f = To(u) /\ g = From(u)
      OBVIOUS
    <3>4. Belongs(v, f)' /\ Writers(f)' = {u} /\ Writers(g)' = {}
      <4>1. Writers(f)' = Writers(f) \ {t} /\ Writers(g)' = Writers(g) \ {t}
        BY QuietFacts
      <4>2. Belongs(v, f)'
        BY <1>1, <3>2, <3>3, BelongsKept DEF IInv
      <4> QED
        BY <2>1, <3>1, <3>3, <4>1, <4>2
    <3>5. disk'[g] = Copy(v) /\ disk'[f] = [i \in 1..run'[u].pos |-> v]
      BY <1>1, <2>2, <3>2, <3>3
    <3>6. f = To(u)' /\ g = From(u)' /\ job' = job
      BY <1>1, <2>2, <3>3 DEF Turn
    <3> QED
      BY <3>4, <3>5, <3>6, CopyInStepNext
  <2> QED
    BY <2>2, <2>4, <2>5 DEF IInv, CopiesInStep
<1> QED
  BY <1>2, <1>3

LEMMA Bounded ==
  ASSUME NEW S, NEW n \in Nat, NEW q
  PROVE  /\ q \in BoundedSeq(S, n) <=> \E m \in 0..n : q \in [1..m -> S]
         /\ q \in BoundedSeq(S, n) =>
              q \in Seq(S) /\ Len(q) \in 0..n /\ DOMAIN q = 1..Len(q) /\ q \in [1..Len(q) -> S]
<1>1. q \in BoundedSeq(S, n) <=> \E m \in 0..n : q \in [1..m -> S]
  BY DEF BoundedSeq, SeqOf
<1>2. ASSUME NEW m \in 0..n, q \in [1..m -> S]
      PROVE  q \in Seq(S) /\ Len(q) \in 0..n /\ DOMAIN q = 1..Len(q) /\ q \in [1..Len(q) -> S]
  <2>1. m \in Nat
    OBVIOUS
  <2>2. q \in Seq(S) /\ Len(q) = m /\ DOMAIN q = 1..m
    BY <1>2, <2>1
  <2> QED
    BY <1>2, <2>2
<1> QED
  BY <1>1, <1>2

\* Writing a piece no further than the end of a whole file.
LEMMA PutType ==
  ASSUME NEW S, NEW n \in Nat, NEW q \in BoundedSeq(S, n), NEW i \in 1..n, NEW x \in S,
         "hole" \in S
  PROVE  Put(q, i, x) \in BoundedSeq(S, n)
<1>1. Len(q) \in 0..n /\ q \in [1..Len(q) -> S]
  BY Bounded
<1> DEFINE m == IF i > Len(q) THEN i ELSE Len(q)
<1>2. m \in 0..n
  BY <1>1
<1>3. Put(q, i, x) \in [1..m -> S]
  BY <1>1 DEF Put
<1> QED
  BY <1>2, <1>3, Bounded

LEMMA PutNext ==
  ASSUME NEW n \in Nat, NEW v
  PROVE  Put([j \in 1..n |-> v], n + 1, v) = [j \in 1..n + 1 |-> v]
<1> DEFINE q == [j \in 1..n |-> v]
<1>1. q \in Seq({v}) /\ DOMAIN q = 1..n
  OBVIOUS
<1>2. Len(q) = n
  BY <1>1
<1> QED
  BY <1>2 DEF Put

-----------------------------------------------------------------------------
(* Copying                                                                 *)

LEMMA DiskType ==
  ASSUME TypeOK, NEW f \in DOMAIN disk
  PROVE  /\ f \in Places /\ disk[f] \in BoundedSeq(Tasks \cup {"hole"}, Pieces)
         /\ disk[f] \in Seq(Tasks \cup {"hole"}) /\ Len(disk[f]) \in 0..Pieces
         /\ Pieces \in Nat \ {0}
<1>1. Pieces \in Nat \ {0}
  BY IvyCacheAssumption
<1> QED
  BY <1>1, Bounded DEF TypeOK

\* What the steps below need to know of the task that copies.
LEMMA CopyingType ==
  ASSUME IInv, NEW t \in Tasks, Copying(t)
  PROVE  /\ To(t) \in DOMAIN disk /\ From(t) \in DOMAIN disk /\ To(t) # From(t)
         /\ To(t) \in Places /\ From(t) \in Places
  BY EndsType DEF IInv, TypeOK, Exists

\* A piece more.
LEMMA PieceEffect ==
  ASSUME IInv, NEW t \in Tasks, CopyPiece(t)
  PROVE  /\ Turn(t) /\ Copying(t) /\ Copying(t)' /\ blame' = blame /\ faults' = faults
         /\ run'[t].pos = run[t].pos + 1 /\ run[t].pos + 1 \in 1..Len(disk[From(t)])
         /\ \A x \in Fields \ {"pos"} : run'[t][x] = run[t][x]
         /\ To(t)' = To(t) /\ From(t)' = From(t)
         /\ disk' = [disk EXCEPT ![To(t)] =
                        Put(@, run[t].pos + 1, disk[From(t)][run[t].pos + 1])]
<1>1. /\ Copying(t) /\ run[t].pos < Len(disk[From(t)]) /\ Goes(t, [pos |-> run[t].pos + 1])
      /\ job' = job /\ blame' = blame /\ faults' = faults
  BY DEF CopyPiece
<1>2. run[t].pos \in Nat /\ Len(disk[From(t)]) \in 0..Pieces /\ Pieces \in Nat
  BY <1>1, CopyingType, TaskType, DiskType DEF IInv
<1>3. Changed([pos |-> run[t].pos + 1])
  BY <1>1, <1>2 DEF Changed, Fields
<1>4. /\ run' \in [Tasks -> Progress]
      /\ \A u \in Tasks \ {t} : run'[u] = run[u]
      /\ \A x \in Fields : run'[t][x] = IF x = "pos" THEN run[t].pos + 1 ELSE run[t][x]
  BY <1>1, <1>3, GoesType DEF IInv
<1>5. /\ run'[t].pc = run[t].pc /\ run'[t].item = run[t].item /\ run'[t].member = run[t].member
      /\ run'[t].artifact = run[t].artifact /\ run'[t].pos = run[t].pos + 1
  BY <1>4 DEF Fields
<1>6. To(t)' = To(t) /\ From(t)' = From(t)
  BY <1>1, <1>5, SamePlaces
<1>7. Turn(t)
  BY <1>1, <1>4, <1>5 DEF Turn
<1>8. Copying(t)'
  BY <1>1, <1>5 DEF Copying, At, Tasks
<1> QED
  BY <1>1, <1>2, <1>4, <1>5, <1>6, <1>7, <1>8 DEF CopyPiece

LEMMA PieceKeeps ==
  ASSUME IInv, NEW t \in Tasks, CopyPiece(t)
  PROVE  FilesWhole' /\ CopiesInStep'
<1> DEFINE i == run[t].pos + 1
<1>1. /\ Turn(t) /\ Copying(t) /\ Copying(t)' /\ blame' = blame /\ job' = job
      /\ To(t)' = To(t) /\ From(t)' = From(t)
      /\ run'[t].pos = i /\ i \in 1..Len(disk[From(t)])
      /\ disk' = [disk EXCEPT ![To(t)] = Put(@, i, disk[From(t)][i])]
  BY PieceEffect DEF Turn
<1>2. PICK T, F : T = To(t) /\ F = From(t) /\ T \in DOMAIN disk /\ F \in DOMAIN disk /\ T # F
  BY <1>1, CopyingType
<1>3. /\ DOMAIN disk' = DOMAIN disk /\ \A f \in DOMAIN disk \ {T} : disk'[f] = disk[f]
      /\ disk'[T] = Put(disk[T], i, disk[F][i])
  BY <1>1, <1>2
<1>4. /\ \A f : Writers(f)' = Writers(f)
      /\ \A f : Damaged(f)' <=> Damaged(f)
      /\ Tasks' = Tasks
  BY <1>1, WritersSame DEF Damaged, Tasks
<1>5. t \in Writers(T)
  BY <1>1, <1>2 DEF Writers
<1>6. FilesWhole'
  <2> SUFFICES ASSUME NEW f \in DOMAIN disk, ~Damaged(f), Writers(f) = {}
               PROVE  \E v \in Tasks : Belongs(v, f)' /\ disk'[f] = Copy(v)
    BY <1>3, <1>4 DEF FilesWhole, Copy
  <2>1. PICK v \in Tasks : Belongs(v, f) /\ disk[f] = Copy(v)
    BY DEF IInv, FilesWhole
  <2> QED
    BY <1>1, <1>3, <1>5, <2>1, BelongsKept DEF IInv
<1>7. ASSUME NEW u \in Tasks, Copying(u)'
      PROVE  Damaged(To(u))' \/ CopyInStep(u)'
  <2>1. Copying(u) /\ To(u)' = To(u) /\ From(u)' = From(u)
    BY <1>1, <1>7, Others
  <2>2. PICK f, g : f = To(u) /\ g = From(u) /\ f \in DOMAIN disk /\ g \in DOMAIN disk
    BY <2>1, CopyingType
  <2>3. CASE Damaged(To(u))
    <3>1. Damaged(f)'
      BY <1>4, <2>2, <2>3
    <3> QED
      BY <2>1, <2>2, <3>1, DamagedNext
  <2>4. CASE CopyInStep(u)
    <3>1. Writers(f) = {u} /\ Writers(g) = {}
      BY <2>2, <2>4 DEF CopyInStep
    <3>2. PICK v \in Tasks : /\ Belongs(v, f) /\ disk[g] = Copy(v)
                             /\ disk[f] = [j \in 1..run[u].pos |-> v]
      BY <2>2, <2>4 DEF CopyInStep
    <3>3. Belongs(v, f)'
      BY <1>1, <3>2, BelongsKept DEF IInv
    <3>4. g # T
      BY <1>5, <3>1
    <3>5. disk'[g] = Copy(v)
      BY <1>3, <2>2, <3>2, <3>4
    <3>6. disk'[f] = [j \in 1..run'[u].pos |-> v]
      <4>1. CASE u = t
        <5>1. f = T /\ g = F /\ run[t].pos \in Nat
          BY <1>2, <2>2, <4>1, TaskType DEF IInv
        <5>2. disk[F][i] = v
          <6>1. disk[F] = Copy(v) /\ i \in 1..Len(disk[F])
            BY <1>1, <1>2, <3>2, <5>1
          <6>2. Copy(v) = [j \in 1..Pieces |-> v] /\ Len(Copy(v)) = Pieces
            BY CopyType DEF Copy
          <6> QED
            BY <6>1, <6>2
        <5>3. Put(disk[T], i, v) = [j \in 1..i |-> v]
          <6>1. disk[T] = [j \in 1..run[t].pos |-> v]
            BY <3>2, <4>1, <5>1
          <6>2. Put([j \in 1..run[t].pos |-> v], run[t].pos + 1, v)
                  = [j \in 1..run[t].pos + 1 |-> v]
            BY <5>1, PutNext
          <6> QED
            BY <6>1, <6>2
        <5> QED
          BY <1>1, <1>3, <4>1, <5>1, <5>2, <5>3
      <4>2. CASE u # t
        <5>1. f # T
          BY <1>5, <3>1, <4>2
        <5>2. run'[u] = run[u]
          BY <1>1, <4>2, Others
        <5> QED
          BY <1>3, <2>2, <3>2, <5>1, <5>2
      <4> QED
        BY <4>1, <4>2
    <3>7. Writers(f)' = {u} /\ Writers(g)' = {} /\ f = To(u)' /\ g = From(u)'
      BY <1>4, <2>1, <2>2, <3>1
    <3> QED
      BY <1>1, <3>3, <3>5, <3>6, <3>7, CopyInStepNext
  <2> QED
    BY <2>1, <2>3, <2>4 DEF IInv, CopiesInStep
<1> QED
  BY <1>4, <1>6, <1>7 DEF CopiesInStep

\* Both files are opened, the target emptied.
LEMMA OpenEffect ==
  ASSUME IInv, NEW t \in Tasks, At(t, "open"), NEW causes, Open(t, causes), job' = job
  PROVE  /\ Turn(t) /\ ~Copying(t) /\ Copying(t)'
         /\ run'[t].pos = 0
         /\ \A x \in Fields \ {"pc", "pos"} : run'[t][x] = run[t][x]
         /\ To(t)' = To(t) /\ From(t)' = From(t)
         /\ DOMAIN disk' = DOMAIN disk \cup {To(t)} /\ disk'[To(t)] = <<>>
         /\ \A f \in DOMAIN disk \ {To(t)} : disk'[f] = disk[f]
<1> DEFINE c == [pc |-> "copying", pos |-> 0]
<1>1. Goes(t, c) /\ Emptied(To(t)) /\ run[t].pc = "open"
  BY DEF Open, At
<1>2. Changed(c)
  BY IvyCacheAssumption DEF Changed, Fields, PCs
<1>3. /\ run' \in [Tasks -> Progress]
      /\ \A u \in Tasks \ {t} : run'[u] = run[u]
      /\ \A x \in Fields : run'[t][x] = IF x \in {"pc", "pos"} THEN c[x] ELSE run[t][x]
  BY <1>1, <1>2, GoesType DEF IInv
<1>4. /\ run'[t].pc = "copying" /\ run'[t].pos = 0 /\ run'[t].item = run[t].item
      /\ run'[t].member = run[t].member /\ run'[t].artifact = run[t].artifact
  BY <1>3 DEF Fields
<1>5. To(t)' = To(t) /\ From(t)' = From(t)
  BY <1>4, SamePlaces
<1>6. Turn(t) /\ ~Copying(t) /\ Copying(t)'
  BY <1>1, <1>3, <1>4 DEF Turn, Copying, At, Tasks
<1>7. /\ DOMAIN disk' = DOMAIN disk \cup {To(t)} /\ disk'[To(t)] = <<>>
      /\ \A f \in DOMAIN disk \ {To(t)} : disk'[f] = disk[f]
  BY <1>1 DEF Emptied, With
<1> QED
  BY <1>3, <1>4, <1>5, <1>6, <1>7

LEMMA OpenBlame ==
  ASSUME NEW t \in Tasks, NEW causes, Open(t, causes), To(t) \in Places
  PROVE  /\ blame'[To(t)] = causes \cup blame[From(t)]
                   \cup (IF Writers(From(t)) \cup Writers(To(t)) \cup Readers(To(t)) # {}
                         THEN {"overlap"} ELSE {})
         /\ \A f \in Places \ {To(t)} : blame[f] \subseteq blame'[f]
         /\ \A u \in Readers(To(t)) :
               To(u) \in Places \ {To(t)} => "overlap" \in blame'[To(u)]
  BY DEF Open

LEMMA OpenKeeps ==
  ASSUME IInv, NEW t \in Tasks, At(t, "open"), Exists(From(t)),
         NEW causes, Open(t, causes), job' = job
  PROVE  FilesWhole' /\ CopiesInStep'
<1>1. /\ Turn(t) /\ ~Copying(t) /\ Copying(t)' /\ To(t)' = To(t) /\ From(t)' = From(t)
      /\ run'[t].pos = 0 /\ run'[t].artifact = run[t].artifact /\ Tasks' = Tasks
      /\ DOMAIN disk' = DOMAIN disk \cup {To(t)} /\ disk'[To(t)] = <<>>
      /\ \A f \in DOMAIN disk \ {To(t)} : disk'[f] = disk[f]
  BY OpenEffect DEF Fields, Tasks
<1>2. /\ To(t) \in Places /\ From(t) \in Places /\ To(t) # From(t)
      /\ From(t)[3] = job[t].rev /\ job[t].rev # AnyRevision
      /\ To(t)[3] = job[t].rev \/ (To(t)[3] = AnyRevision /\ run[t].item = "copy")
  BY EndsType, JobType DEF IInv
<1>3. PICK T, F : T = To(t) /\ F = From(t)
  OBVIOUS
<1>4. \A f : Writers(f)' = IF f = T THEN Writers(f) \cup {t} ELSE Writers(f)
  BY <1>1, <1>3, WritersBegin
<1>5. /\ blame'[T] = causes \cup blame[F]
                 \cup (IF Writers(F) \cup Writers(T) \cup Readers(T) # {} THEN {"overlap"} ELSE {})
      /\ \A f \in Places \ {T} : blame[f] \subseteq blame'[f]
      /\ \A u \in Readers(T) : To(u) \in Places \ {T} => "overlap" \in blame'[To(u)]
  BY <1>2, <1>3, OpenBlame
<1>6. \A f \in Places \ {T} : Damaged(f) => Damaged(f)'
  BY <1>5 DEF Damaged
<1>7. FilesWhole'
  <2> SUFFICES ASSUME NEW f \in DOMAIN disk, f # T, ~Damaged(f)', Writers(f)' = {}
               PROVE  \E v \in Tasks : Belongs(v, f)' /\ disk'[f] = Copy(v)
    BY <1>1, <1>3, <1>4 DEF FilesWhole, Copy
  <2>1. ~Damaged(f) /\ Writers(f) = {}
    BY <1>4, <1>6, DiskType DEF IInv
  <2>2. PICK v \in Tasks : Belongs(v, f) /\ disk[f] = Copy(v)
    BY <2>1 DEF IInv, FilesWhole
  <2> QED
    BY <1>1, <1>3, <2>2, BelongsKept DEF IInv
<1>8. Damaged(To(t))' \/ CopyInStep(t)'
  <2> SUFFICES ASSUME ~Damaged(T)'
               PROVE  CopyInStep(t)'
    BY <1>1, <1>3, DamagedNext
  <2>1. ~Damaged(F) /\ Writers(F) = {} /\ Writers(T) = {}
    BY <1>5 DEF Damaged
  <2>2. PICK v \in Tasks : Belongs(v, F) /\ disk[F] = Copy(v)
    BY <1>3, <2>1 DEF IInv, FilesWhole, Exists
  <2>3. job[v].rev = job[t].rev
    BY <1>2, <1>3, <2>2 DEF Belongs
  <2>4. Belongs(v, T)'
    <3>1. Belongs(v, T)
      BY <1>2, <1>3, <2>3 DEF Belongs, IInv, InStep
    <3> QED
      BY <1>1, <3>1, BelongsKept DEF IInv
  <2>5. Writers(T)' = {t} /\ Writers(F)' = {}
    BY <1>2, <1>3, <1>4, <2>1
  <2>6. disk'[F] = Copy(v)
    BY <1>1, <1>2, <1>3, <2>2 DEF Exists
  <2>7. disk'[T] = [i \in 1..run'[t].pos |-> v]
    <3>1. <<>> = [i \in 1..0 |-> v]
      OBVIOUS
    <3> QED
      BY <1>1, <1>3, <3>1
  <2>8. T = To(t)' /\ F = From(t)' /\ job' = job
    BY <1>1, <1>3
  <2> QED
    BY <2>4, <2>5, <2>6, <2>7, <2>8, CopyInStepNext
<1>9. ASSUME NEW u \in Tasks \ {t}, Copying(u)'
      PROVE  Damaged(To(u))' \/ CopyInStep(u)'
  <2>1. Copying(u) /\ To(u)' = To(u) /\ From(u)' = From(u) /\ run'[u] = run[u]
    BY <1>1, <1>9, Others
  <2>2. PICK f, g : /\ f = To(u) /\ g = From(u) /\ f \in DOMAIN disk /\ g \in DOMAIN disk
                    /\ f \in Places /\ g \in Places
    BY <2>1, CopyingType
  <2> SUFFICES ASSUME ~Damaged(f)'
               PROVE  CopyInStep(u)'
    BY <2>1, <2>2, DamagedNext
  <2>3. f # T
    <3> SUFFICES ASSUME f = T
                 PROVE  Damaged(f)'
      OBVIOUS
    <3>1. u \in Writers(T)
      BY <2>1, <2>2 DEF Writers
    <3> QED
      BY <1>5, <3>1 DEF Damaged
  <2>4. g # T
    <3> SUFFICES ASSUME g = T
                 PROVE  Damaged(f)'
      OBVIOUS
    <3>1. u \in Readers(T)
      BY <2>1, <2>2 DEF Readers
    <3>2. "overlap" \in blame'[f]
      BY <1>5, <2>2, <2>3, <3>1
    <3> QED
      BY <3>2 DEF Damaged
  <2>5. CopyInStep(u)
    BY <1>6, <2>1, <2>2, <2>3 DEF IInv, CopiesInStep
  <2>6. PICK v \in Tasks : /\ Belongs(v, f) /\ disk[g] = Copy(v)
                           /\ disk[f] = [j \in 1..run[u].pos |-> v]
    BY <2>2, <2>5 DEF CopyInStep
  <2>7. Writers(f)' = {u} /\ Writers(g)' = {}
    BY <1>4, <2>2, <2>3, <2>4, <2>5 DEF CopyInStep
  <2>8. Belongs(v, f)'
    BY <1>1, <2>6, BelongsKept DEF IInv
  <2>9. disk'[g] = Copy(v) /\ disk'[f] = [j \in 1..run'[u].pos |-> v]
    BY <1>1, <1>3, <2>1, <2>2, <2>3, <2>4, <2>6
  <2> QED
    BY <2>1, <2>2, <2>7, <2>8, <2>9, CopyInStepNext
<1> QED
  BY <1>1, <1>7, <1>8, <1>9 DEF CopiesInStep

-----------------------------------------------------------------------------
(* How far the others are, and the task whose turn it is                   *)

\* No file of the cache or of the directory retrieved to goes away, and one
\* that nobody was writing is marked if it is written now.
Gentle(t) ==
    /\ Turn(t)
    /\ DOMAIN disk \subseteq DOMAIN disk'
    /\ \A f \in DOMAIN disk : f[1] \in {"cache", "lib"} /\ Settled(f) => Settled(f)'

LEMMA SettledKept ==
  ASSUME NEW t \in Tasks, Turn(t), DOMAIN disk \subseteq DOMAIN disk',
         \A f \in DOMAIN disk : f[1] \in {"cache", "lib"} /\ Damaged(f) => Damaged(f)',
         \A f \in DOMAIN disk : /\ f[1] \in {"cache", "lib"}
                                /\ Writers(f)' # {}
                                => Writers(f) # {} \/ Damaged(f)'
  PROVE  Gentle(t)
<1> SUFFICES ASSUME NEW f \in DOMAIN disk, f[1] \in {"cache", "lib"}, Settled(f)
             PROVE  Settled(f)'
  BY DEF Gentle
<1>1. Exists(f)'
  BY DEF Exists
<1>2. Writers(f)' # {} => Damaged(f)'
  BY DEF Settled
<1> QED
  BY <1>1, <1>2 DEF Settled

LEMMA PathsPart ==
  ASSUME NEW t
  PROVE  /\ build_cache_path(t, "jar")[1] = "cache" /\ Retrieved(t)[1] = "lib"
         /\ \A k : build_cache_path(t, k) = <<"cache", k, job[t].rev>>
<1>1. build_cache_path(t, "jar") = <<"cache", "jar", job[t].rev>>
  BY DEF build_cache_path
<1>2. PICK r : Retrieved(t) = <<"lib", "jar", r>>
  BY DEF Retrieved
<1> QED
  BY <1>1, <1>2, Triple DEF build_cache_path

LEMMA InStepNext ==
  ASSUME NEW t, job' = job, NEW r, r = run'[t],
         NEW jar, jar = build_cache_path(t, "jar"), NEW lib, lib = Retrieved(t),
         Publishes(t) =>
            /\ r.item \in Kinds /\ r.pc \notin {"parse", "deliver"} /\ ~r.delivered
            /\ r.pc = "open" => Exists(From(t))',
         r.item \in Kinds /\ r.pc \notin {"deliver", "done", "killed"} => ~r.artifact,
         r.pc = "parse" => r.item = "ivy",
         r.pc = "deliver" => r.item = "jar",
         r.item = "copy" => job[t].task = "retrieve" /\ r.pc \notin {"look", "parse", "deliver"},
         r.pc = "deliver" \/ r.item = "copy" => r.artifact /\ Settled(jar)',
         r.delivered /\ job[t].task = "retrieve" => Settled(lib)',
         r.delivered /\ job[t].task # "retrieve" => Settled(jar)'
  PROVE  InStep(t)'
<1>1. jar = build_cache_path(t, "jar")' /\ lib = Retrieved(t)' /\ (Publishes(t)' <=> Publishes(t))
  BY DEF build_cache_path, Retrieved, Publishes
<1>2. Settled(jar)' => Settled(build_cache_path(t, "jar"))'
  BY <1>1 DEF Settled, Exists, Writers, Damaged
<1>3. Settled(lib)' => Settled(Retrieved(t))'
  BY <1>1 DEF Settled, Exists, Writers, Damaged
<1>4. run'[t].delivered =>
        Settled(IF job[t].task = "retrieve" THEN Retrieved(t) ELSE build_cache_path(t, "jar"))'
  <2>1. CASE job[t].task = "retrieve"
    BY <1>3, <2>1
  <2>2. CASE job[t].task # "retrieve"
    BY <1>2, <2>2
  <2> QED
    BY <2>1, <2>2
<1> QED
  BY <1>1, <1>2, <1>4 DEF InStep

\* What a task has delivered, or is about to, stays settled.
LEMMA SettledStays ==
  ASSUME IInv, NEW t \in Tasks, Gentle(t), NEW u \in Tasks,
         NEW jar, jar = build_cache_path(u, "jar"), NEW lib, lib = Retrieved(u)
  PROVE  /\ run[u].pc = "deliver" \/ run[u].item = "copy" => run[u].artifact /\ Settled(jar)'
         /\ run[u].delivered /\ job[u].task = "retrieve" => Settled(lib)'
         /\ run[u].delivered /\ job[u].task # "retrieve" => Settled(jar)'
<1>1. jar[1] = "cache" /\ lib[1] = "lib"
  BY PathsPart
<1>2. (Settled(jar) => Settled(jar)') /\ (Settled(lib) => Settled(lib)')
  BY <1>1 DEF Gentle, Settled, Exists
<1>3. InStep(u)
  BY DEF IInv
<1> QED
  BY <1>2, <1>3 DEF InStep

\* The others are where they were.
LEMMA OthersInStep ==
  ASSUME IInv, NEW t \in Tasks, Gentle(t), NEW u \in Tasks \ {t}
  PROVE  InStep(u)'
<1>1. job' = job /\ run'[u] = run[u] /\ DOMAIN disk \subseteq DOMAIN disk' /\ From(u)' = From(u)
  BY Others DEF Gentle, Turn
<1>2. InStep(u)
  BY DEF IInv
<1>3. PICK jar, lib : jar = build_cache_path(u, "jar") /\ lib = Retrieved(u)
  OBVIOUS
<1>4. /\ run[u].pc = "deliver" \/ run[u].item = "copy" => run[u].artifact /\ Settled(jar)'
      /\ run[u].delivered /\ job[u].task = "retrieve" => Settled(lib)'
      /\ run[u].delivered /\ job[u].task # "retrieve" => Settled(jar)'
  BY <1>3, SettledStays
<1>5. Exists(From(u)) => Exists(From(u))'
  BY <1>1 DEF Exists
<1>6. /\ Publishes(u) =>
            /\ run[u].item \in Kinds /\ run[u].pc \notin {"parse", "deliver"} /\ ~run[u].delivered
            /\ run[u].pc = "open" => Exists(From(u))'
      /\ run[u].item \in Kinds /\ run[u].pc \notin {"deliver", "done", "killed"} => ~run[u].artifact
      /\ run[u].pc = "parse" => run[u].item = "ivy"
      /\ run[u].pc = "deliver" => run[u].item = "jar"
      /\ run[u].item = "copy" => job[u].task = "retrieve" /\ run[u].pc \notin {"look", "parse", "deliver"}
  BY <1>2, <1>5 DEF InStep
<1> QED
  BY <1>1, <1>3, <1>4, <1>6, InStepNext

LEMMA TypeNext ==
  ASSUME TypeOK, NEW t \in Tasks, Turn(t), DOMAIN disk' \subseteq Places,
         \A f \in DOMAIN disk' : disk'[f] \in BoundedSeq(Tasks \cup {"hole"}, Pieces),
         blame' \in [Places -> SUBSET Causes], faults' \in 0..MaxFaults,
         DOMAIN disk \subseteq DOMAIN disk',
         Copying(t)' => From(t)' \in DOMAIN disk' /\ To(t)' \in DOMAIN disk'
  PROVE  TypeOK'
<1>1. job' = job /\ Tasks' = Tasks /\ Progress' = Progress /\ Places' = Places
  BY DEF Turn, Tasks, Progress, Places
<1>2. job' \in Jobs /\ run' \in [Tasks' -> Progress']
  BY <1>1 DEF TypeOK, Turn
<1>3. ASSUME NEW u \in Tasks, Copying(u)'
      PROVE  From(u)' \in DOMAIN disk' /\ To(u)' \in DOMAIN disk'
  <2>1. CASE u = t
    BY <1>3, <2>1
  <2>2. CASE u # t
    <3>1. From(u)' = From(u) /\ To(u)' = To(u) /\ Copying(u)
      BY <1>3, <2>2, Others
    <3> QED
      BY <3>1 DEF TypeOK, Exists
  <2> QED
    BY <2>1, <2>2
<1>4. \A u \in Tasks' : Copying(u)' => Exists(From(u))' /\ Exists(To(u))'
  BY <1>1, <1>3 DEF Exists
<1>5. \A f \in DOMAIN disk' : disk'[f] \in BoundedSeq(Tasks' \cup {"hole"}, Pieces)
  BY <1>1
<1> QED
  BY <1>1, <1>2, <1>4, <1>5 DEF TypeOK

\* All of the invariant, after a quiet step.
LEMMA QuietGentle ==
  ASSUME IInv, NEW t \in Tasks, Quiet(t)
  PROVE  Gentle(t)
<1>1. /\ \A f : Writers(f)' = Writers(f) \ {t}
      /\ \A f \in DOMAIN disk : Damaged(f) => Damaged(f)'
  BY QuietFacts, DiskType DEF IInv
<1>2. Turn(t) /\ disk' = disk
  BY DEF Quiet
<1> QED
  BY <1>1, <1>2, SettledKept

LEMMA QuietStep ==
  ASSUME IInv, NEW t \in Tasks, Quiet(t), InStep(t)',
         blame' \in [Places -> SUBSET Causes], faults' \in 0..MaxFaults
  PROVE  IInv'
<1>1. Turn(t) /\ disk' = disk /\ ~Copying(t)' /\ Tasks' = Tasks
  BY DEF Quiet, Turn, Tasks
<1>2. TypeOK'
  BY <1>1, TypeNext DEF IInv, TypeOK
<1>3. \A u \in Tasks' : InStep(u)'
  BY <1>1, QuietGentle, OthersInStep
<1> QED
  BY <1>2, <1>3, QuietKeeps DEF IInv

\* Marking a file.
LEMMA BlameMore ==
  ASSUME TypeOK, NEW f \in Places, NEW c \in Causes,
         blame' = blame \/ blame' = [blame EXCEPT ![f] = @ \cup {c}]
  PROVE  /\ blame' \in [Places -> SUBSET Causes]
         /\ \A g \in Places : blame[g] \subseteq blame'[g]
         /\ blame' = [blame EXCEPT ![f] = @ \cup {c}] => c \in blame'[f]
  BY DEF TypeOK

LEMMA Marked ==
  ASSUME NEW f, NEW c \in {"cut", "overlap", "empty"}, c \in blame'[f]
  PROVE  Damaged(f)'
  BY DEF Damaged

-----------------------------------------------------------------------------
(* The steps that open no file                                             *)

\* A step that neither copies nor ends a copy, and marks files at most.
LEMMA QuietGoes ==
  ASSUME IInv, NEW t \in Tasks, ~Copying(t), job' = job, disk' = disk,
         run' \in [Tasks -> Progress], \A u \in Tasks \ {t} : run'[u] = run[u],
         run[t].artifact => run'[t].artifact, run'[t].pc # "copying",
         \A f \in Places : blame[f] \subseteq blame'[f]
  PROVE  Quiet(t)
<1>1. Turn(t)
  BY DEF Turn
<1>2. ~Copying(t)'
  BY DEF Copying, At
<1> QED
  BY <1>1, <1>2 DEF Quiet

LEMMA SameBlame ==
  ASSUME IInv, blame' = blame
  PROVE  /\ blame' \in [Places -> SUBSET Causes]
         /\ \A f \in Places : blame[f] \subseteq blame'[f]
  BY DEF IInv, TypeOK

LEMMA UploadEffect ==
  ASSUME TypeOK, NEW t \in Tasks, run[t].item \in Kinds,
         NEW d, Changed(d), DOMAIN d \subseteq {"failed", "skipped"},
         Goes(t, With(NextUpload(t), d))
  PROVE  /\ run' \in [Tasks -> Progress]
         /\ \A u \in Tasks \ {t} : run'[u] = run[u]
         /\ run'[t].pc \in {"look", "done"} /\ run'[t].item \in Kinds
         /\ run'[t].artifact = run[t].artifact /\ run'[t].delivered = run[t].delivered
<1> DEFINE next == NextUpload(t)
<1>1. /\ DOMAIN next \subseteq {"pc", "item"} /\ "pc" \in DOMAIN next
      /\ next["pc"] \in {"look", "done"}
      /\ "item" \in DOMAIN next => next["item"] \in Kinds
  BY DEF NextUpload, Kinds
<1> HIDE DEF next
<1>2. /\ DOMAIN With(next, d) = DOMAIN next \cup DOMAIN d
      /\ \A x \in DOMAIN next \cup DOMAIN d :
            With(next, d)[x] = IF x \in DOMAIN d THEN d[x] ELSE next[x]
  BY DEF With
<1>3. Changed(With(next, d))
  BY <1>1, <1>2 DEF Changed, Fields, PCs, Kinds
<1>4. Goes(t, With(next, d))
  BY DEF next
<1>5. /\ run' \in [Tasks -> Progress]
      /\ \A u \in Tasks \ {t} : run'[u] = run[u]
      /\ \A x \in Fields : run'[t][x] =
            IF x \in DOMAIN With(next, d) THEN With(next, d)[x] ELSE run[t][x]
  BY <1>3, <1>4, GoesType
<1>6. /\ run'[t]["pc"] = next["pc"]
      /\ run'[t]["item"] = IF "item" \in DOMAIN next THEN next["item"] ELSE run[t]["item"]
      /\ run'[t]["artifact"] = run[t]["artifact"] /\ run'[t]["delivered"] = run[t]["delivered"]
  BY <1>1, <1>2, <1>5 DEF Fields
<1> QED
  BY <1>1, <1>5, <1>6

LEMMA OneFlag ==
  ASSUME NEW d, NEW x \in {"hit", "failed", "skipped"}, DOMAIN d = {x}, d[x] = TRUE
  PROVE  Changed(d)
  BY DEF Changed, Fields

LEMMA publish_one_Keeps ==
  ASSUME IInv, NEW t \in Tasks, publish_one(t)
  PROVE  IInv'
<1>1. /\ run[t].pc = "look" /\ Publishes(t) /\ job' = job /\ disk' = disk /\ faults' = faults
      /\ blame' = blame
  BY DEF publish_one, At
<1>2. TypeOK /\ InStep(t) /\ run[t].item \in Kinds /\ ~run[t].delivered /\ ~run[t].artifact
      /\ faults' \in 0..MaxFaults
  BY <1>1 DEF IInv, InStep, TypeOK
<1>3. /\ run' \in [Tasks -> Progress]
      /\ \A u \in Tasks \ {t} : run'[u] = run[u]
      /\ run'[t].pc \in {"look", "done", "open"} /\ run'[t].item \in Kinds
      /\ run'[t].artifact = run[t].artifact /\ run'[t].delivered = run[t].delivered
      /\ run'[t].pc = "open" => Exists(From(t))'
  <2>1. CASE Goes(t, With(NextUpload(t), [failed |-> TRUE]))
    <3>0. DOMAIN [failed |-> TRUE] = {"failed"} /\ [failed |-> TRUE]["failed"] = TRUE
      OBVIOUS
    <3>1. Changed([failed |-> TRUE])
      BY <3>0, OneFlag
    <3> QED
      BY <1>2, <2>1, <3>0, <3>1, UploadEffect
  <2>2. CASE Goes(t, With(NextUpload(t), [skipped |-> TRUE]))
    <3>0. DOMAIN [skipped |-> TRUE] = {"skipped"} /\ [skipped |-> TRUE]["skipped"] = TRUE
      OBVIOUS
    <3>1. Changed([skipped |-> TRUE])
      BY <3>0, OneFlag
    <3> QED
      BY <1>2, <2>2, <3>0, <3>1, UploadEffect
  <2>3. CASE Goes(t, [pc |-> "open"]) /\ Exists(Local(t, run[t].item))
    <3>1. Changed([pc |-> "open"])
      BY DEF Changed, Fields, PCs
    <3>2. /\ run' \in [Tasks -> Progress]
          /\ \A u \in Tasks \ {t} : run'[u] = run[u]
          /\ \A x \in Fields : run'[t][x] = IF x = "pc" THEN "open" ELSE run[t][x]
      BY <1>2, <2>3, <3>1, GoesType
    <3>3. /\ run'[t].pc = "open" /\ run'[t].item = run[t].item /\ run'[t].member = run[t].member
          /\ run'[t].artifact = run[t].artifact /\ run'[t].delivered = run[t].delivered
      BY <3>2 DEF Fields
    <3>4. From(t)' = From(t) /\ From(t) = Local(t, run[t].item)
      BY <1>1, <1>2, <3>3, SamePlaces DEF From, Kinds
    <3>5. Exists(From(t))'
      BY <1>1, <2>3, <3>4 DEF Exists
    <3> QED
      BY <1>2, <3>2, <3>3, <3>5
  <2> QED
    BY <2>1, <2>2, <2>3 DEF publish_one
<1>4. Quiet(t)
  BY <1>1, <1>2, <1>3, QuietGoes, SameBlame DEF Copying, At
<1>5. InStep(t)'
  BY <1>1, <1>2, <1>3, InStepNext DEF Kinds
<1> QED
  BY <1>1, <1>2, <1>4, <1>5, QuietStep, SameBlame

LEMMA LookInCache_Keeps ==
  ASSUME IInv, NEW t \in Tasks, LookInCache(t)
  PROVE  IInv'
<1>1. /\ run[t].pc = "look" /\ ~Publishes(t) /\ job' = job /\ disk' = disk /\ faults' = faults
      /\ Goes(t, IF Exists(To(t)) THEN Hit(t) ELSE [pc |-> "open"])
      /\ blame' = IF Writers(To(t)) # {} THEN [blame EXCEPT ![To(t)] = @ \cup {"overlap"}] ELSE blame
  BY DEF LookInCache, At
<1>2. /\ TypeOK /\ InStep(t) /\ run[t].item \in Kinds /\ ~run[t].artifact
      /\ faults' \in 0..MaxFaults
  BY <1>1, TaskType DEF IInv, InStep, TypeOK
<1>3. PICK f \in Places : f = To(t) /\ f = build_cache_path(t, run[t].item)
  BY <1>1, <1>2, EndsType
<1>4. /\ blame' \in [Places -> SUBSET Causes]
      /\ \A g \in Places : blame[g] \subseteq blame'[g]
      /\ Writers(f) # {} => "overlap" \in blame'[f]
  BY <1>1, <1>2, <1>3, BlameMore DEF Causes
<1>5. /\ run' \in [Tasks -> Progress]
      /\ \A u \in Tasks \ {t} : run'[u] = run[u]
      /\ run'[t].item = run[t].item /\ run'[t].pc \in {"parse", "deliver", "open"}
      /\ run'[t].pc = "parse" => run[t].item = "ivy"
      /\ run'[t].pc = "deliver" => run[t].item = "jar" /\ Exists(f) /\ run'[t].artifact
      /\ run'[t].pc # "deliver" => ~run'[t].artifact
      /\ run'[t].delivered = run[t].delivered
  <2>1. CASE ~Exists(To(t))
    <3>1. Changed([pc |-> "open"]) /\ Goes(t, [pc |-> "open"])
      BY <1>1, <2>1 DEF Changed, Fields, PCs
    <3>2. /\ run' \in [Tasks -> Progress]
          /\ \A u \in Tasks \ {t} : run'[u] = run[u]
          /\ \A x \in Fields : run'[t][x] = IF x = "pc" THEN "open" ELSE run[t][x]
      BY <1>2, <3>1, GoesType
    <3> QED
      BY <1>2, <3>2 DEF Fields
  <2>2. CASE Exists(To(t)) /\ run[t].item = "ivy"
    <3> DEFINE c == [pc |-> "parse", hit |-> TRUE]
    <3>1. Goes(t, c)
      BY <1>1, <2>2 DEF Hit
    <3>2. DOMAIN c = {"pc", "hit"} /\ c["pc"] = "parse" /\ c["hit"] = TRUE
      OBVIOUS
    <3> HIDE DEF c
    <3>3. Changed(c)
      BY <3>2 DEF Changed, Fields, PCs
    <3>4. /\ run' \in [Tasks -> Progress]
          /\ \A u \in Tasks \ {t} : run'[u] = run[u]
          /\ \A x \in Fields : run'[t][x] = IF x \in DOMAIN c THEN c[x] ELSE run[t][x]
      BY <1>2, <3>1, <3>3, GoesType
    <3> QED
      BY <1>2, <2>2, <3>2, <3>4 DEF Fields
  <2>3. CASE Exists(To(t)) /\ run[t].item = "jar"
    <3>1. Goes(t, After(t, TRUE))
      BY <1>1, <2>3 DEF Hit
    <3> QED
      BY <1>1, <1>2, <1>3, <2>3, <3>1, AfterEffect
  <2> QED
    BY <1>2, <2>1, <2>2, <2>3 DEF Kinds
<1>6. Quiet(t)
  BY <1>1, <1>2, <1>4, <1>5, QuietGoes DEF Copying, At
<1>7. PICK jar, lib : jar = build_cache_path(t, "jar") /\ lib = Retrieved(t)
  OBVIOUS
<1>8. run'[t].pc = "deliver" => Settled(jar)'
  <2> SUFFICES ASSUME run'[t].pc = "deliver"
               PROVE  Settled(jar)'
    OBVIOUS
  <2>1. jar = f /\ Exists(f)
    BY <1>3, <1>5, <1>7
  <2>2. Writers(f)' # {} => Damaged(f)'
    BY <1>4, <1>6, QuietFacts DEF Damaged
  <2> QED
    BY <1>1, <2>1, <2>2 DEF Settled, Exists
<1>9. /\ run'[t].delivered /\ job[t].task = "retrieve" => Settled(lib)'
      /\ run'[t].delivered /\ job[t].task # "retrieve" => Settled(jar)'
  BY <1>5, <1>6, <1>7, QuietGentle, SettledStays
<1>10. InStep(t)'
  BY <1>1, <1>2, <1>5, <1>7, <1>8, <1>9, InStepNext DEF Kinds
<1> QED
  BY <1>2, <1>4, <1>6, <1>10, QuietStep

\* Part of a task is over, and what it leaves behind, if it went well, is
\* there, and nobody's to write or marked.
LEMMA AfterKeeps ==
  ASSUME IInv, NEW t \in Tasks, run[t].pc \in {"open", "copying"},
         NEW ok \in BOOLEAN, Goes(t, After(t, ok)), job' = job, disk' = disk,
         blame' \in [Places -> SUBSET Causes], faults' \in 0..MaxFaults,
         \A f \in Places : blame[f] \subseteq blame'[f],
         Copying(t) => "cut" \in blame'[To(t)] \/ run[t].pos >= Len(disk[From(t)]),
         NEW f, f = To(t),
         ~Publishes(t) /\ ok => Exists(f) /\ (Writers(f) \ {t} # {} => Damaged(f)')
  PROVE  IInv'
<1>1. TypeOK /\ InStep(t)
  BY DEF IInv
<1>2. /\ run' \in [Tasks -> Progress]
      /\ \A u \in Tasks \ {t} : run'[u] = run[u]
      /\ Publishes(t) =>
           /\ run'[t].pc \in {"look", "done"} /\ run'[t].item \in Kinds
           /\ run'[t].artifact = run[t].artifact /\ run'[t].delivered = run[t].delivered
      /\ ~Publishes(t) => run'[t].item = run[t].item
      /\ ~Publishes(t) /\ run[t].item = "ivy" =>
           /\ run'[t].pc \in {"parse", "look", "done"}
           /\ run'[t].artifact = run[t].artifact /\ run'[t].delivered = run[t].delivered
      /\ ~Publishes(t) /\ run[t].item = "jar" =>
           /\ run'[t].pc = (IF ok THEN "deliver" ELSE "done") /\ run'[t].artifact = ok
           /\ run'[t].delivered = run[t].delivered
      /\ ~Publishes(t) /\ run[t].item = "copy" =>
           /\ run'[t].pc = "done" /\ run'[t].delivered = ok
           /\ run'[t].artifact = run[t].artifact
  BY <1>1, AfterEffect
<1>3. run[t].item \in {"ivy", "jar", "copy"}
  BY <1>1, TaskType DEF Kinds
<1>4. run[t].item \in Kinds => ~run[t].artifact
  BY <1>1 DEF InStep
<1>5. Turn(t)
  BY <1>1, <1>2, <1>3, <1>4 DEF Turn, Kinds, InStep
<1>6. ~Copying(t)'
  BY <1>2, <1>3 DEF Copying, At
<1>7. Quiet(t)
  BY <1>5, <1>6 DEF Quiet
<1>8. PICK jar, lib : jar = build_cache_path(t, "jar") /\ lib = Retrieved(t)
  OBVIOUS
<1>9. ~Publishes(t) /\ ok => Settled(f)'
  BY <1>7, QuietFacts DEF Settled
<1>10. ~Publishes(t) => f = IF run[t].item = "copy" THEN lib ELSE build_cache_path(t, run[t].item)
  BY <1>1, <1>3, <1>8, EndsType DEF Kinds
<1>11. run'[t].pc = "deliver" => Settled(jar)' /\ run'[t].artifact /\ run'[t].item = "jar"
  <2> SUFFICES ASSUME run'[t].pc = "deliver"
               PROVE  Settled(jar)' /\ run'[t].artifact /\ run'[t].item = "jar"
    OBVIOUS
  <2>1. ~Publishes(t) /\ run[t].item = "jar" /\ ok
    BY <1>2, <1>3
  <2> QED
    BY <1>2, <1>8, <1>9, <1>10, <2>1
<1>12. /\ run[t].item = "copy" => run[t].artifact /\ Settled(jar)'
       /\ run[t].delivered /\ job[t].task = "retrieve" => Settled(lib)'
       /\ run[t].delivered /\ job[t].task # "retrieve" => Settled(jar)'
  BY <1>7, <1>8, QuietGentle, SettledStays
<1>13. run[t].item = "copy" => job[t].task = "retrieve" /\ ~Publishes(t)
  BY <1>1 DEF InStep, Publishes, Publishing
<1>14. /\ run'[t].delivered /\ job[t].task = "retrieve" => Settled(lib)'
       /\ run'[t].delivered /\ job[t].task # "retrieve" => Settled(jar)'
  BY <1>2, <1>3, <1>9, <1>10, <1>12, <1>13
<1>15. /\ Publishes(t) =>
            /\ run'[t].item \in Kinds /\ run'[t].pc \notin {"parse", "deliver"} /\ ~run'[t].delivered
            /\ run'[t].pc # "open"
       /\ run'[t].item \in Kinds /\ run'[t].pc \notin {"deliver", "done", "killed"} => ~run'[t].artifact
       /\ run'[t].pc = "parse" => run'[t].item = "ivy"
  BY <1>1, <1>2, <1>3, <1>4 DEF InStep, Kinds
<1>16. /\ run'[t].item = "copy" => job[t].task = "retrieve" /\ run'[t].pc \notin {"look", "parse", "deliver"}
       /\ run'[t].item = "copy" => run'[t].artifact /\ Settled(jar)'
  BY <1>2, <1>3, <1>12, <1>13 DEF Kinds
<1>17. InStep(t)'
  BY <1>8, <1>11, <1>14, <1>15, <1>16, InStepNext
<1> QED
  BY <1>7, <1>17, QuietStep

LEMMA FetchSkips_Keeps ==
  ASSUME IInv, NEW t \in Tasks, FetchSkips(t)
  PROVE  IInv'
<1>1. /\ run[t].pc = "open" /\ ~Publishes(t) /\ run[t].item # "copy" /\ Exists(To(t))
      /\ Goes(t, After(t, TRUE)) /\ job' = job /\ disk' = disk /\ faults' = faults
      /\ blame' = [blame EXCEPT ![To(t)] = @ \cup {"overlap"}]
  BY DEF FetchSkips, Fetching, GetSkips, At
<1>2. PICK f \in Places : f = To(t)
  BY EndsType DEF IInv
<1>3. /\ blame' \in [Places -> SUBSET Causes]
      /\ \A g \in Places : blame[g] \subseteq blame'[g]
      /\ Damaged(f)' /\ faults' \in 0..MaxFaults
  BY <1>1, <1>2, BlameMore, Marked DEF IInv, TypeOK, Causes
<1> QED
  BY <1>1, <1>2, <1>3, AfterKeeps DEF Copying, At

LEMMA FetchMissing_Keeps ==
  ASSUME IInv, NEW t \in Tasks, FetchMissing(t), disk' = disk, blame' = blame
  PROVE  IInv'
<1>1. /\ run[t].pc = "open" /\ Goes(t, After(t, FALSE)) /\ job' = job /\ faults' = faults
  BY DEF FetchMissing, Fetching, At
<1>2. faults' \in 0..MaxFaults
  BY <1>1 DEF IInv, TypeOK
<1> QED
  BY <1>1, <1>2, SameBlame, AfterKeeps DEF Copying, At

LEMMA EndCopy_Keeps ==
  ASSUME IInv, NEW t \in Tasks, EndCopy(t)
  PROVE  IInv'
<1>1. /\ Copying(t) /\ run[t].pos >= Len(disk[From(t)]) /\ Goes(t, After(t, TRUE))
      /\ job' = job /\ disk' = disk /\ blame' = blame /\ faults' = faults
  BY DEF EndCopy
<1>2. run[t].pc = "copying" /\ faults' \in 0..MaxFaults
  BY <1>1 DEF Copying, At, IInv, TypeOK
<1>3. PICK f \in Places : f = To(t) /\ f \in DOMAIN disk
  BY <1>1, CopyingType
<1>4. Exists(f) /\ (Writers(f) \ {t} # {} => Damaged(f)')
  <2>1. Damaged(f) \/ Writers(f) = {t}
    BY <1>1, <1>3 DEF IInv, CopiesInStep, CopyInStep
  <2> QED
    BY <1>1, <1>3, <2>1 DEF Exists, Damaged
<1> QED
  BY <1>1, <1>2, <1>3, <1>4, SameBlame, AfterKeeps

LEMMA CopyFails_Keeps ==
  ASSUME IInv, NEW t \in Tasks, CopyFails(t)
  PROVE  IInv'
<1>1. /\ Copying(t) /\ faults < MaxFaults /\ faults' = faults + 1
      /\ blame' = [blame EXCEPT ![To(t)] = @ \cup {"cut"}] /\ job' = job /\ disk' = disk
  BY DEF CopyFails
<1>2. PICK noticed \in BOOLEAN : Goes(t, After(t, ~noticed))
  BY DEF CopyFails
<1>3. run[t].pc = "copying" /\ faults' \in 0..MaxFaults
  BY <1>1, IvyCacheAssumption DEF Copying, At, IInv, TypeOK
<1>4. PICK f \in Places : f = To(t) /\ f \in DOMAIN disk
  BY <1>1, CopyingType
<1>5. /\ blame' \in [Places -> SUBSET Causes]
      /\ \A g \in Places : blame[g] \subseteq blame'[g]
      /\ "cut" \in blame'[f] /\ Damaged(f)'
  <2>1. TypeOK /\ "cut" \in Causes /\ blame' = [blame EXCEPT ![f] = @ \cup {"cut"}]
    BY <1>1, <1>4 DEF IInv, Causes
  <2>2. /\ blame' \in [Places -> SUBSET Causes]
        /\ \A g \in Places : blame[g] \subseteq blame'[g]
        /\ "cut" \in blame'[f]
    BY <2>1, BlameMore
  <2> QED
    BY <2>2, Marked
<1>6. (~noticed) \in BOOLEAN
  OBVIOUS
<1>7. Exists(f)
  BY <1>4 DEF Exists
<1> QED
  BY <1>1, <1>2, <1>3, <1>4, <1>5, <1>6, <1>7, AfterKeeps

LEMMA Kill_Keeps ==
  ASSUME IInv, NEW t \in Tasks, Kill(t)
  PROVE  IInv'
<1>1. /\ run[t].pc \notin {"done", "killed"} /\ faults < MaxFaults /\ faults' = faults + 1
      /\ Goes(t, [pc |-> "killed"]) /\ job' = job /\ disk' = disk
      /\ blame' = IF Copying(t) THEN [blame EXCEPT ![To(t)] = @ \cup {"cut"}] ELSE blame
  BY DEF Kill
<1>2. TypeOK /\ InStep(t) /\ faults' \in 0..MaxFaults
  <2>1. faults' \in 0..MaxFaults
    BY <1>1, IvyCacheAssumption DEF IInv, TypeOK
  <2> QED
    BY <2>1 DEF IInv
<1>3. PICK f \in Places : f = To(t)
  BY <1>2, EndsType
<1>4. /\ blame' \in [Places -> SUBSET Causes]
      /\ \A g \in Places : blame[g] \subseteq blame'[g]
      /\ Copying(t) => "cut" \in blame'[f]
  <2>1. "cut" \in Causes
    BY DEF Causes
  <2>2. CASE Copying(t)
    BY <1>1, <1>2, <1>3, <2>1, <2>2, BlameMore
  <2>3. CASE ~Copying(t)
    BY <1>1, <1>2, <1>3, <2>1, <2>3, BlameMore
  <2> QED
    BY <2>2, <2>3
<1>5. Changed([pc |-> "killed"])
  BY DEF Changed, Fields, PCs
<1>6. /\ run' \in [Tasks -> Progress]
      /\ \A u \in Tasks \ {t} : run'[u] = run[u]
      /\ \A x \in Fields : run'[t][x] = IF x = "pc" THEN "killed" ELSE run[t][x]
  BY <1>1, <1>2, <1>5, GoesType
<1>7. /\ run'[t].pc = "killed" /\ run'[t].item = run[t].item
      /\ run'[t].artifact = run[t].artifact /\ run'[t].delivered = run[t].delivered
  BY <1>6 DEF Fields
<1>8. Turn(t) /\ ~Copying(t)'
  BY <1>1, <1>6, <1>7 DEF Turn, Copying, At
<1>9. Quiet(t)
  BY <1>1, <1>3, <1>4, <1>8 DEF Quiet
<1>10. PICK jar, lib : jar = build_cache_path(t, "jar") /\ lib = Retrieved(t)
  OBVIOUS
<1>11. /\ run[t].item = "copy" => run[t].artifact /\ Settled(jar)'
       /\ run[t].delivered /\ job[t].task = "retrieve" => Settled(lib)'
       /\ run[t].delivered /\ job[t].task # "retrieve" => Settled(jar)'
  BY <1>9, <1>10, QuietGentle, SettledStays
<1>12. InStep(t)'
  BY <1>1, <1>2, <1>7, <1>10, <1>11, InStepNext DEF InStep
<1> QED
  BY <1>2, <1>4, <1>9, <1>12, QuietStep

LEMMA NextMemberType ==
  ASSUME TypeOK, NEW t \in Tasks
  PROVE  /\ Changed(NextMember(t)) /\ DOMAIN NextMember(t) \subseteq {"pc", "member"}
         /\ "pc" \in DOMAIN NextMember(t) /\ NextMember(t)["pc"] \in {"look", "done"}
<1>1. CASE run[t].member < Len(Chain)
  <2> DEFINE c == [pc |-> "look", member |-> run[t].member + 1]
  <2>1. NextMember(t) = c
    BY <1>1 DEF NextMember
  <2>2. DOMAIN c = {"pc", "member"} /\ c["pc"] = "look" /\ c["member"] = run[t].member + 1
    OBVIOUS
  <2>3. run[t].member + 1 \in 1..Len(Chain)
    BY <1>1, TaskType, IvyCacheAssumption
  <2> HIDE DEF c
  <2> QED
    BY <2>1, <2>2, <2>3 DEF Changed, Fields, PCs
<1>2. CASE ~(run[t].member < Len(Chain))
  BY <1>2 DEF NextMember, Changed, Fields, PCs
<1> QED
  BY <1>1, <1>2

LEMMA resolver_find_module_Keeps ==
  ASSUME IInv, NEW t \in Tasks, resolver_find_module(t)
  PROVE  IInv'
<1>1. run[t].pc = "parse" /\ job' = job /\ disk' = disk /\ blame' = blame /\ faults' = faults
  BY DEF resolver_find_module, At
<1>2. /\ TypeOK /\ InStep(t) /\ faults' \in 0..MaxFaults
      /\ run[t].item = "ivy" /\ ~Publishes(t) /\ ~run[t].artifact
  BY <1>1 DEF IInv, TypeOK, InStep, Kinds
<1>3. /\ run' \in [Tasks -> Progress]
      /\ \A u \in Tasks \ {t} : run'[u] = run[u]
      /\ run'[t].pc \in {"look", "done"} /\ run'[t].item \in Kinds
      /\ run'[t].artifact = run[t].artifact /\ run'[t].delivered = run[t].delivered
  <2>1. PICK f : /\ f = build_cache_path(t, "ivy")
                 /\ Goes(t, IF Whole(f) THEN [pc |-> "look", item |-> "jar", md |-> disk[f][1]]
                            ELSE NextMember(t))
    BY DEF resolver_find_module
  <2>2. CASE Whole(f)
    <3> DEFINE c == [pc |-> "look", item |-> "jar", md |-> disk[f][1]]
    <3>1. Goes(t, c)
      BY <2>1, <2>2
    <3>2. disk[f][1] \in Tasks
      BY <2>2, CopyType DEF Whole
    <3>3. DOMAIN c = {"pc", "item", "md"} /\ c["pc"] = "look" /\ c["item"] = "jar" /\ c["md"] \in Tasks
      BY <3>2
    <3> HIDE DEF c
    <3>4. Changed(c)
      BY <3>3 DEF Changed, Fields, PCs, Kinds
    <3>5. /\ run' \in [Tasks -> Progress]
          /\ \A u \in Tasks \ {t} : run'[u] = run[u]
          /\ \A x \in Fields : run'[t][x] = IF x \in DOMAIN c THEN c[x] ELSE run[t][x]
      BY <1>2, <3>1, <3>4, GoesType
    <3> QED
      BY <3>3, <3>5 DEF Fields, Kinds
  <2>3. CASE ~Whole(f)
    <3>1. /\ run' \in [Tasks -> Progress]
          /\ \A u \in Tasks \ {t} : run'[u] = run[u]
          /\ \A x \in Fields :
                run'[t][x] = IF x \in DOMAIN NextMember(t) THEN NextMember(t)[x] ELSE run[t][x]
      BY <1>2, <2>1, <2>3, NextMemberType, GoesType
    <3> QED
      BY <1>2, <3>1, NextMemberType DEF Fields, Kinds
  <2> QED
    BY <2>2, <2>3
<1>4. Quiet(t)
  <2>1. ~Copying(t) /\ run'[t].pc # "copying" /\ (run[t].artifact => run'[t].artifact)
    BY <1>1, <1>2, <1>3 DEF Copying, At
  <2> QED
    BY <1>1, <1>3, <2>1, SameBlame, QuietGoes
<1>5. PICK jar, lib : jar = build_cache_path(t, "jar") /\ lib = Retrieved(t)
  OBVIOUS
<1>6. /\ run[t].delivered /\ job[t].task = "retrieve" => Settled(lib)'
      /\ run[t].delivered /\ job[t].task # "retrieve" => Settled(jar)'
  BY <1>4, <1>5, QuietGentle, SettledStays
<1>7. /\ run'[t].delivered /\ job[t].task = "retrieve" => Settled(lib)'
      /\ run'[t].delivered /\ job[t].task # "retrieve" => Settled(jar)'
      /\ run'[t].item # "copy" /\ ~run'[t].artifact
      /\ run'[t].pc # "parse" /\ run'[t].pc # "deliver" /\ ~Publishes(t) /\ job' = job
  BY <1>1, <1>2, <1>3, <1>6 DEF Kinds
<1>8. InStep(t)'
  BY <1>5, <1>7, InStepNext
<1> QED
  BY <1>1, <1>2, <1>4, <1>8, SameBlame, QuietStep

\* A step that hands the jar on, or leaves it at that.
LEMMA EndsKeeps ==
  ASSUME IInv, NEW t \in Tasks, run[t].pc = "deliver", NEW delivered \in BOOLEAN,
         delivered => job[t].task # "retrieve", Ends(t, delivered)
  PROVE  IInv'
<1>1. /\ Goes(t, [pc |-> "done", delivered |-> delivered])
      /\ job' = job /\ disk' = disk /\ blame' = blame /\ faults' = faults
  BY DEF Ends
<1>2. TypeOK /\ InStep(t)
  BY DEF IInv
<1>3. faults' \in 0..MaxFaults /\ run[t].item = "jar" /\ ~Publishes(t)
  BY <1>1, <1>2 DEF TypeOK, InStep
<1>4. /\ run' \in [Tasks -> Progress]
      /\ \A u \in Tasks \ {t} : run'[u] = run[u]
      /\ run'[t].pc = "done" /\ run'[t].item = "jar"
      /\ run'[t].artifact = run[t].artifact /\ run'[t].delivered = delivered
  <2> DEFINE c == [pc |-> "done", delivered |-> delivered]
  <2>1. Goes(t, c)
    BY <1>1
  <2>2. DOMAIN c = {"pc", "delivered"} /\ c["pc"] = "done" /\ c["delivered"] = delivered
    OBVIOUS
  <2> HIDE DEF c
  <2>3. Changed(c)
    BY <2>2 DEF Changed, Fields, PCs
  <2>4. /\ run' \in [Tasks -> Progress]
        /\ \A u \in Tasks \ {t} : run'[u] = run[u]
        /\ \A x \in Fields : run'[t][x] = IF x \in DOMAIN c THEN c[x] ELSE run[t][x]
    BY <1>2, <2>1, <2>3, GoesType
  <2> QED
    BY <1>3, <2>2, <2>4 DEF Fields
<1>5. Quiet(t)
  <2>1. ~Copying(t) /\ run'[t].pc # "copying" /\ (run[t].artifact => run'[t].artifact)
    BY <1>4 DEF Copying, At
  <2> QED
    BY <1>1, <1>4, <2>1, SameBlame, QuietGoes
<1>6. PICK jar, lib : jar = build_cache_path(t, "jar") /\ lib = Retrieved(t)
  OBVIOUS
<1>7. run[t].artifact /\ Settled(jar)'
  BY <1>5, <1>6, QuietGentle, SettledStays
<1>8. run'[t].delivered => job[t].task # "retrieve"
  BY <1>4
<1>9. InStep(t)'
  BY <1>1, <1>3, <1>4, <1>6, <1>7, <1>8, InStepNext
<1> QED
  BY <1>1, <1>3, <1>5, <1>9, SameBlame, QuietStep

\* What is there already counts as retrieved, the rest is about to be copied.
LEMMA retrieve_module_cb_Keeps ==
  ASSUME IInv, NEW t \in Tasks, retrieve_module_cb(t)
  PROVE  IInv'
<1>1. /\ run[t].pc = "deliver" /\ job[t].task = "retrieve"
      /\ job' = job /\ disk' = disk /\ faults' = faults
  BY DEF retrieve_module_cb, At
<1>2. TypeOK /\ InStep(t)
  BY DEF IInv
<1>3. faults' \in 0..MaxFaults /\ run[t].item = "jar" /\ ~Publishes(t)
  BY <1>1, <1>2 DEF TypeOK, InStep
<1>4. PICK jar, lib : jar = build_cache_path(t, "jar") /\ lib = Retrieved(t) /\ lib \in Places
  BY <1>2, PathsType
<1>5. /\ blame' \in [Places -> SUBSET Causes]
      /\ \A g \in Places : blame[g] \subseteq blame'[g]
  <2>1. blame' = blame \/ blame' = [blame EXCEPT ![lib] = @ \cup {"overlap"}]
    BY <1>4 DEF retrieve_module_cb
  <2> QED
    BY <1>2, <1>4, <2>1, BlameMore DEF Causes
<1>6. \/ /\ Exists(lib) /\ Goes(t, [pc |-> "done", delivered |-> TRUE])
         /\ Writers(lib) # {} => "overlap" \in blame'[lib]
      \/ Goes(t, [pc |-> "open", item |-> "copy"])
  <2>1. CASE Exists(lib)
    <3>1. /\ Goes(t, [pc |-> "done", delivered |-> TRUE])
          /\ Writers(lib) # {} => blame' = [blame EXCEPT ![lib] = @ \cup {"overlap"}]
      BY <1>4, <2>1 DEF retrieve_module_cb
    <3>2. Writers(lib) # {} => "overlap" \in blame'[lib]
      BY <1>2, <1>4, <3>1 DEF TypeOK
    <3> QED
      BY <2>1, <3>1, <3>2
  <2>2. CASE ~Exists(lib)
    BY <1>4, <2>2 DEF retrieve_module_cb
  <2> QED
    BY <2>1, <2>2
<1>7. /\ run' \in [Tasks -> Progress]
      /\ \A u \in Tasks \ {t} : run'[u] = run[u]
      /\ run'[t].artifact = run[t].artifact
      /\ \/ /\ run'[t].pc = "done" /\ run'[t].item = "jar"
            /\ Exists(lib) /\ (Writers(lib) # {} => "overlap" \in blame'[lib])
         \/ /\ run'[t].pc = "open" /\ run'[t].item = "copy"
            /\ run'[t].delivered = run[t].delivered
  <2>1. CASE Goes(t, [pc |-> "done", delivered |-> TRUE]) /\ Exists(lib)
             /\ (Writers(lib) # {} => "overlap" \in blame'[lib])
    <3> DEFINE c == [pc |-> "done", delivered |-> TRUE]
    <3>1. Goes(t, c)
      BY <2>1
    <3>2. DOMAIN c = {"pc", "delivered"} /\ c["pc"] = "done" /\ c["delivered"] = TRUE
      OBVIOUS
    <3> HIDE DEF c
    <3>3. Changed(c)
      BY <3>2 DEF Changed, Fields, PCs
    <3>4. /\ run' \in [Tasks -> Progress]
          /\ \A u \in Tasks \ {t} : run'[u] = run[u]
          /\ \A x \in Fields : run'[t][x] = IF x \in DOMAIN c THEN c[x] ELSE run[t][x]
      BY <1>2, <3>1, <3>3, GoesType
    <3> QED
      BY <1>3, <2>1, <3>2, <3>4 DEF Fields
  <2>2. CASE Goes(t, [pc |-> "open", item |-> "copy"])
    <3> DEFINE c == [pc |-> "open", item |-> "copy"]
    <3>1. Goes(t, c)
      BY <2>2
    <3>2. DOMAIN c = {"pc", "item"} /\ c["pc"] = "open" /\ c["item"] = "copy"
      OBVIOUS
    <3> HIDE DEF c
    <3>3. Changed(c)
      BY <3>2 DEF Changed, Fields, PCs, Kinds
    <3>4. /\ run' \in [Tasks -> Progress]
          /\ \A u \in Tasks \ {t} : run'[u] = run[u]
          /\ \A x \in Fields : run'[t][x] = IF x \in DOMAIN c THEN c[x] ELSE run[t][x]
      BY <1>2, <3>1, <3>3, GoesType
    <3> QED
      BY <3>2, <3>4 DEF Fields
  <2> QED
    BY <1>6, <2>1, <2>2
<1>8. Quiet(t)
  <2>1. ~Copying(t) /\ run'[t].pc # "copying" /\ (run[t].artifact => run'[t].artifact)
    BY <1>1, <1>7 DEF Copying, At
  <2> QED
    BY <1>1, <1>5, <1>7, <2>1, QuietGoes
<1>9. /\ run[t].artifact /\ Settled(jar)'
      /\ run[t].delivered => Settled(lib)'
  BY <1>1, <1>4, <1>8, QuietGentle, SettledStays
<1>10. run'[t].delivered => Settled(lib)'
  <2>1. CASE run'[t].pc = "done"
    <3>1. Writers(lib)' # {} => Damaged(lib)'
      BY <1>7, <1>8, <2>1, QuietFacts, Marked
    <3> QED
      BY <1>1, <1>7, <2>1, <3>1 DEF Settled, Exists
  <2>2. CASE run'[t].pc # "done"
    BY <1>7, <1>9, <2>2
  <2> QED
    BY <2>1, <2>2
<1>11. /\ run'[t].artifact /\ (run'[t].item \in Kinds => run'[t].pc = "done")
       /\ run'[t].pc \notin {"parse", "deliver", "look"}
  BY <1>7, <1>9 DEF Kinds
<1>12. InStep(t)'
  BY <1>1, <1>3, <1>4, <1>9, <1>10, <1>11, InStepNext
<1> QED
  BY <1>3, <1>5, <1>8, <1>12, QuietStep

-----------------------------------------------------------------------------
(* The steps that change files                                             *)

LEMMA StepKeeps ==
  ASSUME IInv, NEW t \in Tasks, Gentle(t), TypeOK', FilesWhole', CopiesInStep', InStep(t)'
  PROVE  IInv'
<1>1. Tasks' = Tasks
  BY DEF Gentle, Turn, Tasks
<1>2. \A u \in Tasks : InStep(u)'
  BY OthersInStep
<1> QED
  BY <1>1, <1>2 DEF IInv

LEMMA EmptyBounded ==
  ASSUME NEW S, NEW n \in Nat
  PROVE  <<>> \in BoundedSeq(S, n)
<1>1. <<>> \in [1..0 -> S] /\ 0 \in 0..n
  OBVIOUS
<1> QED
  BY <1>1, Bounded

\* wget leaves an empty file behind where there was none.
LEMMA FetchMissing_Leaves ==
  ASSUME IInv, NEW t \in Tasks, FetchMissing(t), job[t].wget /\ resolver(t) \in Remote
  PROVE  IInv'
<1>1. /\ run[t].pc = "open" /\ ~Publishes(t) /\ run[t].item # "copy" /\ ~Exists(To(t))
      /\ Goes(t, After(t, FALSE)) /\ job' = job /\ faults' = faults /\ Emptied(To(t))
      /\ blame' = [blame EXCEPT ![To(t)] = {"empty"}]
  BY DEF FetchMissing, Fetching, GetSkips, At
<1>2. /\ TypeOK /\ InStep(t) /\ run[t].item \in Kinds /\ ~run[t].artifact
      /\ Tasks' = Tasks
  BY <1>1, TaskType DEF IInv, InStep, Tasks
<1>3. /\ run' \in [Tasks -> Progress]
      /\ \A u \in Tasks \ {t} : run'[u] = run[u]
      /\ run'[t].item = run[t].item /\ run'[t].pc \in {"parse", "look", "done"}
      /\ run[t].item = "jar" => run'[t].pc = "done"
      /\ ~run'[t].artifact /\ run'[t].delivered = run[t].delivered
  BY <1>1, <1>2, AfterEffect DEF Kinds
<1>4. Turn(t) /\ ~Copying(t) /\ ~Copying(t)'
  BY <1>1, <1>2, <1>3 DEF Turn, Copying, At
<1>5. PICK T \in Places : T = To(t) /\ T \notin DOMAIN disk
  BY <1>1, <1>2, EndsType DEF Exists
<1>6. /\ DOMAIN disk' = DOMAIN disk \cup {T} /\ disk'[T] = <<>>
      /\ \A f \in DOMAIN disk : disk'[f] = disk[f]
  BY <1>1, <1>5 DEF Emptied, With
<1>7. /\ blame' \in [Places -> SUBSET Causes] /\ "empty" \in blame'[T]
      /\ \A f \in Places \ {T} : blame'[f] = blame[f]
  BY <1>1, <1>2, <1>5 DEF TypeOK, Causes
<1>8. \A f : Writers(f)' = Writers(f) \ {t}
  BY <1>4, WritersEnd
<1>9. \A f \in DOMAIN disk : f \in Places /\ f # T /\ (Damaged(f)' <=> Damaged(f))
  BY <1>2, <1>5, <1>7, DiskType DEF Damaged
<1>10. Gentle(t)
  BY <1>4, <1>6, <1>8, <1>9, SettledKept
<1>11. TypeOK'
  <2>1. \A f \in DOMAIN disk' : disk'[f] \in BoundedSeq(Tasks \cup {"hole"}, Pieces)
    <3>1. <<>> \in BoundedSeq(Tasks \cup {"hole"}, Pieces)
      BY EmptyBounded, IvyCacheAssumption
    <3>2. \A f \in DOMAIN disk : disk[f] \in BoundedSeq(Tasks \cup {"hole"}, Pieces)
      BY <1>2, DiskType
    <3> QED
      BY <1>6, <3>1, <3>2
  <2>2. DOMAIN disk' \subseteq Places /\ DOMAIN disk \subseteq DOMAIN disk'
    BY <1>5, <1>6, <1>9
  <2>3. faults' \in 0..MaxFaults
    BY <1>1, <1>2 DEF TypeOK
  <2> QED
    BY <1>2, <1>4, <1>7, <2>1, <2>2, <2>3, TypeNext
<1>12. FilesWhole'
  <2> SUFFICES ASSUME NEW f \in DOMAIN disk, ~Damaged(f), Writers(f)' = {}
               PROVE  \E v \in Tasks : Belongs(v, f)' /\ disk'[f] = Copy(v)
    BY <1>2, <1>6, <1>7, <1>9, Marked DEF FilesWhole, Copy
  <2>1. t \notin Writers(f)
    BY <1>4 DEF Writers
  <2>2. PICK v \in Tasks : Belongs(v, f) /\ disk[f] = Copy(v)
    BY <1>8, <2>1 DEF IInv, FilesWhole
  <2> QED
    BY <1>2, <1>4, <1>6, <2>2, BelongsKept
<1>13. CopiesInStep'
  <2> SUFFICES ASSUME NEW u \in Tasks, Copying(u)'
               PROVE  Damaged(To(u))' \/ CopyInStep(u)'
    BY <1>2 DEF CopiesInStep
  <2>1. /\ u # t /\ Copying(u) /\ To(u)' = To(u) /\ From(u)' = From(u)
        /\ run'[u] = run[u]
    BY <1>4, Others
  <2>2. PICK f, g : f = To(u) /\ g = From(u) /\ f \in DOMAIN disk /\ g \in DOMAIN disk
    BY <2>1, CopyingType
  <2>3. CASE Damaged(To(u))
    <3>1. Damaged(f)'
      BY <1>9, <2>2, <2>3
    <3> QED
      BY <2>1, <2>2, <3>1, DamagedNext
  <2>4. CASE CopyInStep(u)
    <3>1. Writers(f) = {u} /\ Writers(g) = {}
      BY <2>2, <2>4 DEF CopyInStep
    <3>2. PICK v \in Tasks : /\ Belongs(v, f) /\ disk[g] = Copy(v)
                             /\ disk[f] = [j \in 1..run[u].pos |-> v]
      BY <2>2, <2>4 DEF CopyInStep
    <3>3. Belongs(v, f)'
      BY <1>2, <1>4, <3>2, BelongsKept
    <3>4. disk'[g] = Copy(v) /\ disk'[f] = [j \in 1..run'[u].pos |-> v]
      BY <1>6, <2>1, <2>2, <3>2
    <3>5. Writers(f)' = {u} /\ Writers(g)' = {} /\ f = To(u)' /\ g = From(u)'
      BY <1>8, <2>1, <2>2, <3>1
    <3> QED
      BY <1>1, <3>3, <3>4, <3>5, CopyInStepNext
  <2> QED
    BY <2>1, <2>3, <2>4 DEF IInv, CopiesInStep
<1>14. PICK jar, lib : jar = build_cache_path(t, "jar") /\ lib = Retrieved(t)
  OBVIOUS
<1>15. /\ run'[t].delivered /\ job[t].task = "retrieve" => Settled(lib)'
       /\ run'[t].delivered /\ job[t].task # "retrieve" => Settled(jar)'
  BY <1>3, <1>10, <1>14, SettledStays
<1>16. /\ run'[t].item # "copy" /\ run'[t].pc # "deliver"
       /\ run'[t].pc = "parse" => run'[t].item = "ivy"
  BY <1>2, <1>3 DEF Kinds
<1>17. InStep(t)'
  BY <1>1, <1>3, <1>14, <1>15, <1>16, InStepNext
<1> QED
  BY <1>10, <1>11, <1>12, <1>13, <1>17, StepKeeps

\* Opening a file that is there already, in the cache or where artifacts are
\* retrieved to, marks it.
LEMMA OpenStep ==
  ASSUME IInv, NEW t \in Tasks, At(t, "open"), Exists(From(t)),
         NEW causes \in SUBSET Causes, Open(t, causes), job' = job, faults' = faults,
         To(t)[1] \in {"cache", "lib"} /\ Exists(To(t)) => "overlap" \in causes
  PROVE  IInv'
<1>1. /\ Turn(t) /\ ~Copying(t) /\ Copying(t)' /\ To(t)' = To(t) /\ From(t)' = From(t)
      /\ run'[t].pc = "copying" /\ run[t].pc = "open"
      /\ \A x \in Fields \ {"pc", "pos"} : run'[t][x] = run[t][x]
      /\ DOMAIN disk' = DOMAIN disk \cup {To(t)} /\ disk'[To(t)] = <<>>
      /\ \A f \in DOMAIN disk \ {To(t)} : disk'[f] = disk[f]
  BY OpenEffect DEF Copying, At
<1>2. TypeOK /\ InStep(t) /\ Tasks' = Tasks
  BY <1>1 DEF IInv, Turn, Tasks
<1>3. PICK T, F : T = To(t) /\ F = From(t) /\ T \in Places /\ F \in Places
  BY <1>2, EndsType
<1>4. \A f : Writers(f)' = IF f = T THEN Writers(f) \cup {t} ELSE Writers(f)
  BY <1>1, <1>3, WritersBegin
<1>5. /\ causes \subseteq blame'[T]
      /\ \A f \in Places \ {T} : blame[f] \subseteq blame'[f]
  BY <1>3, OpenBlame
<1>6. blame' \in [Places -> SUBSET Causes]
  <2>1. blame[F] \in SUBSET Causes /\ {"overlap"} \in SUBSET Causes
    BY <1>2, <1>3 DEF TypeOK, Causes
  <2>2. \A f \in Places : blame[f] \in SUBSET Causes
    BY <1>2 DEF TypeOK
  <2> QED
    BY <1>3, <2>1, <2>2 DEF Open
<1>7. \A f \in DOMAIN disk : f \in Places /\ disk[f] \in BoundedSeq(Tasks \cup {"hole"}, Pieces)
  BY <1>2, DiskType
<1>8. Gentle(t)
  <2>1. \A f \in DOMAIN disk : f # T => (Damaged(f) => Damaged(f)')
    BY <1>5, <1>7 DEF Damaged
  <2>2. T \in DOMAIN disk /\ T[1] \in {"cache", "lib"} => Damaged(T)'
    BY <1>3, <1>5, Marked DEF Exists
  <2> QED
    BY <1>1, <1>4, <2>1, <2>2, SettledKept
<1>9. TypeOK'
  <2>1. \A f \in DOMAIN disk' : disk'[f] \in BoundedSeq(Tasks \cup {"hole"}, Pieces)
    <3>1. <<>> \in BoundedSeq(Tasks \cup {"hole"}, Pieces)
      BY EmptyBounded, IvyCacheAssumption
    <3> QED
      BY <1>1, <1>7, <3>1
  <2>2. DOMAIN disk' \subseteq Places /\ DOMAIN disk \subseteq DOMAIN disk'
    BY <1>1, <1>3, <1>7
  <2>3. faults' \in 0..MaxFaults
    BY <1>2 DEF TypeOK
  <2>4. From(t)' \in DOMAIN disk' /\ To(t)' \in DOMAIN disk'
    BY <1>1 DEF Exists
  <2> QED
    BY <1>1, <1>2, <1>6, <2>1, <2>2, <2>3, <2>4, TypeNext
<1>10. PICK jar, lib : jar = build_cache_path(t, "jar") /\ lib = Retrieved(t)
  OBVIOUS
<1>11. /\ run'[t].item = run[t].item /\ run'[t].artifact = run[t].artifact
       /\ run'[t].delivered = run[t].delivered
  BY <1>1 DEF Fields
<1>12. /\ run[t].item = "copy" => run[t].artifact /\ Settled(jar)'
       /\ run[t].delivered /\ job[t].task = "retrieve" => Settled(lib)'
       /\ run[t].delivered /\ job[t].task # "retrieve" => Settled(jar)'
  BY <1>8, <1>10, SettledStays
<1>13. /\ Publishes(t) => run'[t].item \in Kinds /\ ~run'[t].delivered
       /\ run'[t].item \in Kinds => ~run'[t].artifact
       /\ run'[t].item = "copy" => job[t].task = "retrieve"
       /\ run'[t].item = "copy" => run'[t].artifact /\ Settled(jar)'
       /\ run'[t].delivered /\ job[t].task = "retrieve" => Settled(lib)'
       /\ run'[t].delivered /\ job[t].task # "retrieve" => Settled(jar)'
  BY <1>1, <1>2, <1>11, <1>12 DEF InStep
<1>14. InStep(t)'
  BY <1>1, <1>10, <1>13, InStepNext
<1> QED
  BY <1>8, <1>9, <1>14, OpenKeeps, StepKeeps

LEMMA publish_upload_Keeps ==
  ASSUME IInv, NEW t \in Tasks, publish_upload(t)
  PROVE  IInv'
<1>1. At(t, "open") /\ Publishes(t) /\ job' = job /\ faults' = faults /\ run[t].pc = "open"
  BY DEF publish_upload, At
<1>2. PICK causes \in SUBSET Causes : Open(t, causes)
  BY DEF publish_upload, Causes
<1>3. Exists(From(t))
  BY <1>1 DEF IInv, InStep
<1>4. ~(To(t)[1] \in {"cache", "lib"})
  BY <1>1, EndsType, PlacesAssumption DEF IInv
<1> QED
  BY <1>1, <1>2, <1>3, <1>4, OpenStep

LEMMA Fetch_Keeps ==
  ASSUME IInv, NEW t \in Tasks, Fetch(t)
  PROVE  IInv'
<1>1. At(t, "open") /\ Exists(From(t)) /\ job' = job /\ faults' = faults
  BY DEF Fetch, Fetching
<1>2. PICK causes \in SUBSET Causes :
        Open(t, causes) /\ (Exists(To(t)) => "overlap" \in causes)
  BY DEF Fetch, Causes
<1> QED
  BY <1>1, <1>2, OpenStep

LEMMA copy_file_to_Keeps ==
  ASSUME IInv, NEW t \in Tasks, copy_file_to(t)
  PROVE  IInv'
<1>1. At(t, "open") /\ run[t].item = "copy" /\ job' = job /\ faults' = faults
  BY DEF copy_file_to
<1>2. PICK causes \in SUBSET Causes :
        Open(t, causes) /\ (Exists(To(t)) => "overlap" \in causes)
  BY DEF copy_file_to, Causes
<1>3. Exists(From(t))
  BY <1>1, EndsType DEF IInv, InStep, Settled, Publishes, Publishing
<1> QED
  BY <1>1, <1>2, <1>3, OpenStep

LEMMA CopyPiece_Keeps ==
  ASSUME IInv, NEW t \in Tasks, CopyPiece(t)
  PROVE  IInv'
<1> DEFINE i == run[t].pos + 1
<1>1. /\ Turn(t) /\ Copying(t) /\ Copying(t)' /\ blame' = blame /\ faults' = faults
      /\ i \in 1..Len(disk[From(t)])
      /\ \A x \in Fields \ {"pos"} : run'[t][x] = run[t][x]
      /\ To(t)' = To(t) /\ From(t)' = From(t)
      /\ disk' = [disk EXCEPT ![To(t)] = Put(@, i, disk[From(t)][i])]
  BY PieceEffect
<1>2. TypeOK /\ InStep(t) /\ Tasks' = Tasks
  BY <1>1 DEF IInv, Turn, Tasks
<1>3. PICK T, F : /\ T = To(t) /\ F = From(t) /\ T \in DOMAIN disk /\ F \in DOMAIN disk
  BY <1>1, CopyingType
<1>4. /\ \A f : Writers(f)' = Writers(f)
      /\ \A f : Damaged(f)' <=> Damaged(f)
  BY <1>1, WritersSame DEF Damaged
<1>5. DOMAIN disk' = DOMAIN disk
  BY <1>1
<1>6. Gentle(t)
  BY <1>1, <1>4, <1>5, SettledKept
<1>7. TypeOK'
  <2>1. Put(disk[T], i, disk[F][i]) \in BoundedSeq(Tasks \cup {"hole"}, Pieces)
    <3>1. /\ disk[T] \in BoundedSeq(Tasks \cup {"hole"}, Pieces) /\ Pieces \in Nat
          /\ disk[F] \in Seq(Tasks \cup {"hole"}) /\ Len(disk[F]) \in 0..Pieces
      BY <1>2, <1>3, DiskType
    <3>2. i \in 1..Len(disk[F])
      BY <1>1, <1>3
    <3>3. i \in 1..Pieces /\ disk[F][i] \in Tasks \cup {"hole"}
      BY <3>1, <3>2
    <3> QED
      BY <3>1, <3>3, PutType
  <2>2. \A f \in DOMAIN disk' : disk'[f] \in BoundedSeq(Tasks \cup {"hole"}, Pieces)
    <3>1. \A f \in DOMAIN disk : disk[f] \in BoundedSeq(Tasks \cup {"hole"}, Pieces)
      BY <1>2, DiskType
    <3> QED
      BY <1>1, <1>3, <1>5, <2>1, <3>1
  <2>3. /\ faults' \in 0..MaxFaults /\ blame' \in [Places -> SUBSET Causes]
        /\ DOMAIN disk' \subseteq Places
    BY <1>1, <1>2, <1>5 DEF TypeOK
  <2>4. From(t)' \in DOMAIN disk' /\ To(t)' \in DOMAIN disk'
    BY <1>1, <1>3, <1>5
  <2> QED
    BY <1>1, <1>2, <1>5, <2>2, <2>3, <2>4, TypeNext
<1>8. PICK jar, lib : jar = build_cache_path(t, "jar") /\ lib = Retrieved(t)
  OBVIOUS
<1>9. /\ run'[t].pc = run[t].pc /\ run'[t].item = run[t].item
      /\ run'[t].artifact = run[t].artifact /\ run'[t].delivered = run[t].delivered
      /\ run[t].pc = "copying" /\ job' = job
  BY <1>1 DEF Fields, Copying, At, Turn
<1>10. /\ run[t].item = "copy" => run[t].artifact /\ Settled(jar)'
       /\ run[t].delivered /\ job[t].task = "retrieve" => Settled(lib)'
       /\ run[t].delivered /\ job[t].task # "retrieve" => Settled(jar)'
  BY <1>6, <1>8, SettledStays
<1>11. /\ Publishes(t) => run'[t].item \in Kinds /\ ~run'[t].delivered
       /\ run'[t].item \in Kinds => ~run'[t].artifact
       /\ run'[t].item = "copy" => job[t].task = "retrieve"
       /\ run'[t].item = "copy" => run'[t].artifact /\ Settled(jar)'
       /\ run'[t].delivered /\ job[t].task = "retrieve" => Settled(lib)'
       /\ run'[t].delivered /\ job[t].task # "retrieve" => Settled(jar)'
  BY <1>2, <1>9, <1>10 DEF InStep
<1>12. InStep(t)'
  BY <1>8, <1>9, <1>11, InStepNext
<1> QED
  BY <1>6, <1>7, <1>12, PieceKeeps, StepKeeps

-----------------------------------------------------------------------------
(* The theorems                                                            *)

\* What is there before the tasks meet: a publisher's own files, and what
\* some have published before.
LEMMA InitDisk ==
  ASSUME Init, NEW f \in DOMAIN disk
  PROVE  /\ f \in Places
         /\ \E v \in Tasks : f[3] = job[v].rev /\ disk[f] = Copy(v)
<1>1. job \in Jobs /\ Tasks = DOMAIN job /\ Tasks \subseteq Names
  BY DEF Init, Tasks, Names
<1> DEFINE built == {b \in Tasks \X Kinds : Publishes(b[1]) /\ (b[2] = "jar" => job[b[1]].built)}
           before == {b \in built : job[b[1]].task = "published"}
           own == [g \in {Local(b[1], b[2]) : b \in built} |-> Copy(g[1])]
           Owner(g) == CHOOSE t \in Tasks : /\ job[t].task = "published" /\ job[t].repo = g[1]
                                            /\ job[t].rev = g[3]
           done == [g \in {<<job[b[1]].repo, b[2], job[b[1]].rev>> : b \in before} |-> Copy(Owner(g))]
<1>2. disk = With(own, done)
  BY DEF Init
<1>3. DOMAIN disk = DOMAIN own \cup DOMAIN done
  BY <1>2 DEF With
<1>4. disk[f] = IF f \in DOMAIN done THEN done[f] ELSE own[f]
  BY <1>2, <1>3 DEF With
<1>5. \A t \in Tasks : job[t].rev \in Revisions /\ (Publishes(t) => job[t].repo \in Range(Chain))
  BY <1>1, JobsAssumption DEF Publishes
<1>6. CASE f \in DOMAIN done
  <2>1. PICK b \in before : f = <<job[b[1]].repo, b[2], job[b[1]].rev>>
    BY <1>6
  <2>2. b[1] \in Tasks /\ b[2] \in Kinds /\ Publishes(b[1]) /\ job[b[1]].task = "published"
    OBVIOUS
  <2>3. f[1] = job[b[1]].repo /\ f[3] = job[b[1]].rev
    BY <2>1, Triple
  <2>4. /\ Owner(f) \in Tasks /\ job[Owner(f)].rev = f[3]
    BY <2>2, <2>3
  <2>5. disk[f] = Copy(Owner(f))
    BY <1>4, <1>6
  <2>6. f \in Places
    BY <1>5, <2>1, <2>2, PlacesHas
  <2> QED
    BY <2>4, <2>5, <2>6
<1>7. CASE f \notin DOMAIN done
  <2>1. PICK b \in built : f = Local(b[1], b[2])
    BY <1>3, <1>7
  <2>2. b[1] \in Tasks /\ b[2] \in Kinds
    OBVIOUS
  <2>3. f = <<b[1], b[2], job[b[1]].rev>>
    BY <2>1 DEF Local
  <2>4. f[1] = b[1] /\ f[3] = job[b[1]].rev
    BY <2>3, Triple
  <2>5. disk[f] = Copy(b[1])
    BY <1>3, <1>4, <1>7, <2>4
  <2>6. f \in Places
    BY <1>1, <1>5, <2>2, <2>3, PlacesHas
  <2> QED
    BY <2>2, <2>4, <2>5, <2>6
<1> QED
  BY <1>6, <1>7

LEMMA InitOK ==
  ASSUME Init
  PROVE  IInv
<1>1. /\ job \in Jobs /\ run = [t \in Tasks |-> Fresh(t)] /\ blame \in [Places -> SUBSET Causes]
      /\ faults = 0
  BY DEF Init, Causes
<1>2. ASSUME NEW t \in Tasks
      PROVE  /\ run[t] = Fresh(t) /\ run[t].pc \in {"done", "look"} /\ run[t].item \in Kinds
             /\ Publishes(t) \/ run[t].item = "ivy"
             /\ ~run[t].artifact /\ ~run[t].delivered
  BY <1>1 DEF Fresh, Kinds
<1>3. \A t \in Tasks : ~Copying(t)
  BY <1>2 DEF Copying, At
<1>4. TypeOK
  <2>1. \A f \in DOMAIN disk : disk[f] \in BoundedSeq(Tasks \cup {"hole"}, Pieces)
    <3> SUFFICES ASSUME NEW f \in DOMAIN disk
                 PROVE  disk[f] \in BoundedSeq(Tasks \cup {"hole"}, Pieces)
      OBVIOUS
    <3>1. PICK v \in Tasks : disk[f] = Copy(v)
      BY InitDisk
    <3>2. Copy(v) \in [1..Pieces -> Tasks \cup {"hole"}] /\ Pieces \in 0..Pieces /\ Pieces \in Nat
      BY IvyCacheAssumption DEF Copy
    <3> QED
      BY <3>1, <3>2, Bounded
  <2>2. run \in [Tasks -> Progress]
    <3>1. 1 \in 1..Len(Chain) /\ 0 \in 0..Pieces
      BY IvyCacheAssumption
    <3>2. \A t \in Tasks : Fresh(t) \in Progress
      BY <3>1 DEF Fresh, Progress, Kinds
    <3> QED
      BY <1>1, <3>2
  <2>3. blame \in [Places -> SUBSET Causes] /\ faults \in 0..MaxFaults
    BY <1>1, IvyCacheAssumption
  <2> QED
    BY <1>1, <1>3, <2>1, <2>2, <2>3, InitDisk DEF TypeOK
<1>5. FilesWhole
  BY InitDisk DEF FilesWhole, Belongs
<1>6. CopiesInStep
  BY <1>3 DEF CopiesInStep
<1>7. \A t \in Tasks : InStep(t)
  BY <1>2 DEF InStep, Kinds
<1> QED
  BY <1>4, <1>5, <1>6, <1>7 DEF IInv

LEMMA NextKeeps ==
  ASSUME IInv, [Next]_vars
  PROVE  IInv'
<1>1. CASE UNCHANGED vars
  <2>1. job' = job /\ disk' = disk /\ run' = run /\ blame' = blame /\ faults' = faults
    BY <1>1 DEF vars
  <2>2. \A u : /\ To(u)' = To(u) /\ From(u)' = From(u) /\ (Copying(u)' <=> Copying(u))
               /\ Retrieved(u)' = Retrieved(u) /\ (Publishes(u)' <=> Publishes(u))
               /\ build_cache_path(u, "jar")' = build_cache_path(u, "jar")
    BY <2>1, SamePlaces DEF Copying, At, Tasks, Retrieved, Publishes, build_cache_path
  <2>3. /\ Tasks' = Tasks /\ Progress' = Progress
        /\ \A f : (Exists(f)' <=> Exists(f)) /\ (Damaged(f)' <=> Damaged(f))
        /\ \A v, f : Belongs(v, f)' <=> Belongs(v, f)
    BY <2>1 DEF Tasks, Progress, Exists, Damaged, Belongs
  <2>4. \A f : Writers(f)' = Writers(f)
    BY <2>2, <2>3 DEF Writers
  <2>5. TypeOK'
    BY <2>1, <2>2, <2>3 DEF IInv, TypeOK, Exists
  <2>6. FilesWhole'
    BY <2>1, <2>3, <2>4 DEF IInv, FilesWhole, Copy
  <2>7. CopiesInStep'
    <3> SUFFICES ASSUME NEW u \in Tasks, Copying(u)'
                 PROVE  Damaged(To(u))' \/ CopyInStep(u)'
      BY <2>3 DEF CopiesInStep
    <3>1. PICK f, g : f = To(u) /\ g = From(u) /\ f = To(u)' /\ g = From(u)'
      BY <2>2
    <3>2. CASE Damaged(f)
      BY <2>3, <3>1, <3>2, DamagedNext
    <3>3. CASE ~Damaged(f)
      <4>1. CopyInStep(u)
        BY <2>2, <3>1, <3>3 DEF IInv, CopiesInStep
      <4>2. PICK v \in Tasks : /\ Belongs(v, f) /\ disk[g] = Copy(v)
                               /\ disk[f] = [j \in 1..run[u].pos |-> v]
        BY <3>1, <4>1 DEF CopyInStep
      <4>3. Writers(f)' = {u} /\ Writers(g)' = {}
        BY <2>4, <3>1, <4>1 DEF CopyInStep
      <4> QED
        BY <2>1, <2>3, <3>1, <4>2, <4>3, CopyInStepNext
    <3> QED
      BY <3>2, <3>3
  <2>8. \A u \in Tasks : InStep(u)'
    <3> SUFFICES ASSUME NEW u \in Tasks
                 PROVE  InStep(u)'
      OBVIOUS
    <3>1. PICK jar, lib : jar = build_cache_path(u, "jar") /\ lib = Retrieved(u)
      OBVIOUS
    <3>2. (Settled(jar)' <=> Settled(jar)) /\ (Settled(lib)' <=> Settled(lib))
      BY <2>3, <2>4 DEF Settled
    <3>3. Exists(From(u))' <=> Exists(From(u))
      BY <2>1, <2>2 DEF Exists
    <3>4. InStep(u)
      BY DEF IInv
    <3>5. /\ Publishes(u) =>
               /\ run[u].item \in Kinds /\ run[u].pc \notin {"parse", "deliver"} /\ ~run[u].delivered
               /\ run[u].pc = "open" => Exists(From(u))'
          /\ run[u].item \in Kinds /\ run[u].pc \notin {"deliver", "done", "killed"} => ~run[u].artifact
          /\ run[u].pc = "parse" => run[u].item = "ivy"
          /\ run[u].pc = "deliver" => run[u].item = "jar"
          /\ run[u].item = "copy" => job[u].task = "retrieve" /\ run[u].pc \notin {"look", "parse", "deliver"}
          /\ run[u].pc = "deliver" \/ run[u].item = "copy" => run[u].artifact /\ Settled(jar)'
          /\ run[u].delivered /\ job[u].task = "retrieve" => Settled(lib)'
          /\ run[u].delivered /\ job[u].task # "retrieve" => Settled(jar)'
      BY <3>1, <3>2, <3>3, <3>4 DEF InStep
    <3>6. job' = job /\ run'[u] = run[u]
      BY <2>1
    <3> QED
      BY <3>1, <3>5, <3>6, InStepNext
  <2> QED
    BY <2>3, <2>5, <2>6, <2>7, <2>8 DEF IInv
<1>2. CASE Next
  <2>1. PICK t \in Names :
           \/ publish_one(t) \/ publish_upload(t)
           \/ LookInCache(t) \/ Fetch(t) \/ FetchSkips(t) \/ FetchMissing(t)
           \/ resolver_find_module(t) \/ ivy_resolve_invoke(t)
           \/ ivy_cachepath_invoke(t) \/ ivy_cachefileset_invoke(t)
           \/ retrieve_module_cb(t) \/ copy_file_to(t)
           \/ CopyPiece(t) \/ EndCopy(t) \/ CopyFails(t) \/ Kill(t)
    BY <1>2 DEF Next
  <2>2. t \in Tasks
    BY <2>1 DEF publish_one, publish_upload, LookInCache, Fetch, FetchSkips, FetchMissing, Fetching,
                resolver_find_module, ivy_resolve_invoke, ivy_cachepath_invoke,
                ivy_cachefileset_invoke, retrieve_module_cb, copy_file_to, CopyPiece, EndCopy,
                CopyFails, Kill, Copying, At
  <2>3. CASE publish_one(t)
    BY <2>2, <2>3, publish_one_Keeps
  <2>4. CASE publish_upload(t)
    BY <2>2, <2>4, publish_upload_Keeps
  <2>5. CASE LookInCache(t)
    BY <2>2, <2>5, LookInCache_Keeps
  <2>6. CASE Fetch(t)
    BY <2>2, <2>6, Fetch_Keeps
  <2>7. CASE FetchSkips(t)
    BY <2>2, <2>7, FetchSkips_Keeps
  <2>8. CASE FetchMissing(t)
    <3>1. CASE job[t].wget /\ resolver(t) \in Remote
      BY <2>2, <2>8, <3>1, FetchMissing_Leaves
    <3>2. CASE ~(job[t].wget /\ resolver(t) \in Remote)
      <4>1. disk' = disk /\ blame' = blame
        BY <2>8, <3>2 DEF FetchMissing
      <4> QED
        BY <2>2, <2>8, <4>1, FetchMissing_Keeps
    <3> QED
      BY <3>1, <3>2
  <2>9. CASE resolver_find_module(t)
    BY <2>2, <2>9, resolver_find_module_Keeps
  <2>10. CASE ivy_resolve_invoke(t)
    BY <2>2, <2>10, EndsKeeps DEF ivy_resolve_invoke, At
  <2>11. CASE ivy_cachepath_invoke(t)
    BY <2>2, <2>11, EndsKeeps DEF ivy_cachepath_invoke, At
  <2>12. CASE ivy_cachefileset_invoke(t)
    BY <2>2, <2>12, EndsKeeps DEF ivy_cachefileset_invoke, At
  <2>13. CASE retrieve_module_cb(t)
    BY <2>2, <2>13, retrieve_module_cb_Keeps
  <2>14. CASE copy_file_to(t)
    BY <2>2, <2>14, copy_file_to_Keeps
  <2>15. CASE CopyPiece(t)
    BY <2>2, <2>15, CopyPiece_Keeps
  <2>16. CASE EndCopy(t)
    BY <2>2, <2>16, EndCopy_Keeps
  <2>17. CASE CopyFails(t)
    BY <2>2, <2>17, CopyFails_Keeps
  <2>18. CASE Kill(t)
    BY <2>2, <2>18, Kill_Keeps
  <2> QED
    BY <2>1, <2>3, <2>4, <2>5, <2>6, <2>7, <2>8, <2>9, <2>10, <2>11, <2>12, <2>13, <2>14,
       <2>15, <2>16, <2>17, <2>18
<1> QED
  BY <1>1, <1>2

\* Every file that nobody writes is whole or known to be damaged, every copy
\* under way is the beginning of a whole file or known to be damaged, and no
\* task counts on a jar that is neither (ivy_fetch_to_cache, resolver_fetch,
\* copy_file_to, publish_upload).
THEOREM Invariance == Spec => []IInv
<1>1. Init => IInv
  BY InitOK
<1>2. IInv /\ [Next]_vars => IInv'
  BY NextKeeps
<1> QED
  BY <1>1, <1>2, PTL DEF Spec

\* Tasks and files stay what they are, no file outgrows a whole one, and what
\* a task is copying exists at both ends: no step of the chain of resolvers
\* runs off its end.
THEOREM TypeCorrect == Spec => []TypeOK
<1>1. IInv => TypeOK
  BY DEF IInv
<1> QED
  BY <1>1, Invariance, PTL

LEMMA DeliveredFromIInv ==
  ASSUME IInv
  PROVE  DeliveredIsWhole
<1> SUFFICES ASSUME NEW t \in Tasks, run[t].delivered,
                    NEW f, f = IF job[t].task = "retrieve" THEN Retrieved(t)
                               ELSE build_cache_path(t, "jar"),
                    ~Damaged(f)
             PROVE  \/ Whole(f) /\ job[disk[f][1]].rev = job[t].rev
                    \/ /\ job[t].task = "retrieve" /\ ~job[t].qualified
                       /\ \E u \in Tasks \ {t} : run[u].artifact /\ job[u].rev # job[t].rev
  BY DEF DeliveredIsWhole, Damaged
<1>1. TypeOK /\ InStep(t)
  BY DEF IInv
<1>2. Settled(f)
  BY <1>1 DEF InStep
<1>3. PICK v \in Tasks : Belongs(v, f) /\ disk[f] = Copy(v)
  BY <1>2 DEF IInv, FilesWhole, Settled, Exists
<1>4. Whole(f) /\ disk[f][1] = v
  BY <1>2, <1>3, CopyType DEF Whole, Settled
<1>5. \/ f[3] = job[t].rev
      \/ job[t].task = "retrieve" /\ ~job[t].qualified /\ f[3] = AnyRevision
  BY Triple DEF Retrieved, build_cache_path
<1>6. job[t].rev # AnyRevision /\ job[v].rev # AnyRevision
  BY <1>1, JobType
<1> QED
  BY <1>3, <1>4, <1>5, <1>6 DEF Belongs

\* The jar that ivy:retrieve, cachepath or cachefileset hands on is a whole
\* one of the revision asked for, then and ever after, unless one of the
\* named accidents befell a file on its way (retrieve_module_cb,
\* ivy_cachepath_invoke, ivy_cachefileset_invoke).
THEOREM DeliveredWhole == Spec => []DeliveredIsWhole
<1>1. IInv => DeliveredIsWhole
  BY DeliveredFromIInv
<1> QED
  BY <1>1, Invariance, PTL

-----------------------------------------------------------------------------
(* What no step does to a file that is there                               *)

\* Blame stays; a file is opened at the price of being blamed, and else
\* changed by the task that writes it only.
World(t) ==
    /\ Turn(t)
    /\ DOMAIN disk \subseteq DOMAIN disk'
    /\ \A f \in Places : blame[f] # {} => blame'[f] # {}
    /\ \A f \in DOMAIN disk : f[1] = "cache" /\ "overlap" \in blame[f] => "overlap" \in blame'[f]
    /\ \A f \in DOMAIN disk :
          \/ blame'[f] # {} /\ (f[1] = "cache" => "overlap" \in blame'[f])
          \/ Writers(f)' \subseteq Writers(f) /\ (disk'[f] = disk[f] \/ t \in Writers(f))
    /\ \A f \in DOMAIN disk : f[1] = "cache" /\ Settled(f) => Settled(f)'
    /\ \A u \in Tasks \ {t} :
          /\ Copying(u) /\ run[u].item \in Kinds
          /\ blame[From(u)] = {} /\ blame'[To(u)] = {}
          => blame'[From(u)] = {}

LEMMA HoldsKept ==
  ASSUME TypeOK, NEW t \in Tasks, World(t), NEW f, NEW v, Holds(f, v)
  PROVE  Holds(f, v)'
<1>1. f \in DOMAIN disk /\ f \in Places /\ f \in DOMAIN disk'
  BY DiskType DEF Holds, Exists, World
<1>2. CASE blame[f] # {} \/ blame'[f] # {}
  BY <1>1, <1>2 DEF Holds, Exists, World
<1>3. CASE blame[f] = {} /\ blame'[f] = {}
  <2>1. disk[f] = Copy(v) /\ Writers(f) = {}
    BY <1>3 DEF Holds
  <2>2. disk'[f] = Copy(v) /\ Writers(f)' = {}
    BY <1>1, <1>3, <2>1 DEF World
  <2> QED
    BY <1>1, <2>2 DEF Holds, Exists, Copy
<1> QED
  BY <1>2, <1>3

LEMMA ComesKept ==
  ASSUME job' = job, NEW v, NEW f
  PROVE  Comes(v, f)' <=> Comes(v, f)
  BY DEF Comes, Tasks, Publishes

LEMMA PartnerKept ==
  ASSUME job' = job, NEW v, NEW f
  PROVE  Partner(v, f)' = Partner(v, f)
  BY DEF Partner

LEMMA UploadsKept ==
  ASSUME TypeOK, NEW t \in Tasks, World(t), NEW u \in Tasks, Uploads(u), run'[u] = run[u]
  PROVE  Uploads(u)'
<1>1. job' = job /\ DOMAIN disk \subseteq DOMAIN disk'
  BY DEF World, Turn
<1>2. PICK ivy, jar : ivy = <<job[u].repo, "ivy", job[u].rev>> /\ jar = <<job[u].repo, "jar", job[u].rev>>
  OBVIOUS
<1>3. job[u].task = "published" => run[u].pc = "done" /\ Exists(ivy)'
  BY <1>1, <1>2 DEF Uploads, Exists
<1>4. run[u].item = "ivy" /\ ~run[u].failed /\ ~run[u].skipped => Holds(jar, u)'
  BY <1>2, HoldsKept DEF Uploads
<1> QED
  BY <1>1, <1>2, <1>3, <1>4 DEF Uploads

LEMMA CleanKept ==
  ASSUME TypeOK, NEW t \in Tasks, World(t), NEW u \in Tasks \ {t}, InStep(u), CleanCopy(u)
  PROVE  CleanCopy(u)'
<1>1. /\ To(u)' = To(u) /\ From(u)' = From(u) /\ (Copying(u)' <=> Copying(u))
      /\ run'[u] = run[u] /\ job' = job
  BY Others DEF World, Turn
<1>2. PICK f, g : f = To(u) /\ g = From(u) /\ f \in Places /\ g \in Places /\ f = To(u)' /\ g = From(u)'
  BY <1>1, EndsType
<1>3. (OtherResolver(u)' <=> OtherResolver(u)) /\ (Publishes(u)' <=> Publishes(u))
  BY <1>1 DEF OtherResolver, Publishes, resolver
<1>4. ASSUME Copying(u), run[u].item \in Kinds, blame'[f] = {}
      PROVE  /\ blame'[g] = {}
             /\ Publishes(u) => ~run[u].failed /\ ~run[u].skipped
             /\ ~Publishes(u) /\ run[u].item = "jar" => ~OtherResolver(u)
  <2>1. blame[f] = {}
    BY <1>2, <1>4 DEF World
  <2>2. /\ blame[g] = {}
        /\ Publishes(u) => ~run[u].failed /\ ~run[u].skipped
        /\ ~Publishes(u) /\ run[u].item = "jar" => ~OtherResolver(u)
    BY <1>2, <1>4, <2>1 DEF CleanCopy
  <2>3. blame'[g] = {}
    BY <1>2, <1>4, <2>2 DEF World
  <2> QED
    BY <2>2, <2>3
<1> QED
  BY <1>1, <1>2, <1>3, <1>4 DEF CleanCopy
-----------------------------------------------------------------------------
(* What a task that downloads has read                                     *)

\* Downloads of the next state, for the places of the task.
LEMMA DownloadsNext ==
  ASSUME NEW t \in Tasks, job' = job, ~Publishes(t), NEW r, r = run'[t],
         NEW ivy, ivy = build_cache_path(t, "ivy"), NEW jar, jar = build_cache_path(t, "jar"),
         r.md = "none" <=> r.item = "ivy",
         r.pc = "parse" => Settled(ivy)',
         r.artifact => Settled(jar)',
         r.md # "none" => Comes(r.md, ivy) /\ Holds(ivy, r.md)',
         r.md # "none" /\ job[r.md].repo # Chain[r.member] => r.hit \/ "overlap" \in blame'[ivy],
         r.item = "ivy" /\ r.pc \in {"copying", "parse"} =>
            \/ r.hit \/ "overlap" \in blame'[ivy]
            \/ /\ Writers(ivy)' \subseteq {t}
               /\ \A i \in DOMAIN disk'[ivy] :
                     disk'[ivy][i] = "hole" \/ job[disk'[ivy][i]].repo = Chain[r.member],
         r.pc = "done" /\ r.md # "none" /\ ~r.artifact =>
            job[r.md].repo # Chain[r.member] \/ blame'[ivy] \cup blame'[jar] # {},
         r.md = "none" =>
            \A u \in Tasks :
                job[u].task = "published" /\ job[u].rev = job[t].rev =>
                    \/ blame'[ivy] \cup blame'[<<job[u].repo, "ivy", job[u].rev>>] # {}
                    \/ r.pc # "done" /\ \E i \in r.member..Len(Chain) : Chain[i] = job[u].repo
  PROVE  Downloads(t)'
<1>1. /\ resolver(t)' = Chain[r.member] /\ Tasks' = Tasks
      /\ build_cache_path(t, "ivy")' = ivy /\ build_cache_path(t, "jar")' = jar
  BY DEF resolver, Tasks, build_cache_path, Publishes
<1>2. OtherResolver(t)' <=> r.md # "none" /\ job[r.md].repo # Chain[r.member]
  BY <1>1 DEF OtherResolver
<1>3. Comes(r.md, ivy)' <=> Comes(r.md, ivy)
  BY ComesKept
<1>4. /\ (run[t].md = "none" <=> run[t].item = "ivy")'
      /\ (run[t].pc = "parse" => Settled(ivy))'
      /\ (run[t].artifact => Settled(jar))'
  OBVIOUS
<1>5. (run[t].md # "none" => Comes(r.md, ivy) /\ Holds(ivy, r.md))'
  BY <1>3
<1>6. (run[t].md # "none" => Comes(run[t].md, ivy) /\ Holds(ivy, run[t].md))'
  BY <1>5
<1>7. (OtherResolver(t) => run[t].hit \/ "overlap" \in blame[ivy])'
  BY <1>2
<1> QED
  BY <1>1, <1>2, <1>4, <1>6, <1>7 DEF Downloads

\* The parts of Downloads a task takes along while it stays with the same
\* resolver and the same descriptor.
LEMMA DownloadsStay ==
  ASSUME TypeOK, NEW t \in Tasks, World(t), NEW u \in Tasks, ~Publishes(u), Downloads(u),
         NEW r, r = run[u], NEW q, q = run'[u],
         NEW ivy, ivy = build_cache_path(u, "ivy"), NEW jar, jar = build_cache_path(u, "jar"),
         q.md = r.md, q.member = r.member, r.hit => q.hit, q.item = "ivy" <=> r.item = "ivy",
         q.pc = "done" => r.pc = "done" \/ r.item # "ivy",
         q.pc = "parse" => Settled(ivy)',
         q.artifact => Settled(jar)',
         q.item = "ivy" /\ q.pc \in {"copying", "parse"} =>
            \/ q.hit \/ "overlap" \in blame'[ivy]
            \/ /\ Writers(ivy)' \subseteq {u}
               /\ \A i \in DOMAIN disk'[ivy] :
                     disk'[ivy][i] = "hole" \/ job[disk'[ivy][i]].repo = Chain[r.member],
         q.pc = "done" /\ q.md # "none" /\ ~q.artifact =>
            job[q.md].repo # Chain[q.member] \/ blame'[ivy] \cup blame'[jar] # {}
  PROVE  Downloads(u)'
<1>1. job' = job
  BY DEF World, Turn
<1>2. /\ OtherResolver(u) <=> r.md # "none" /\ job[r.md].repo # Chain[r.member]
      /\ resolver(u) = Chain[r.member]
  BY DEF OtherResolver, resolver
<1>3. q.md = "none" <=> q.item = "ivy"
  BY DEF Downloads
<1>4. ivy[1] = "cache"
  BY PathsPart, Triple
<1>5. q.md # "none" => Comes(q.md, ivy) /\ Holds(ivy, q.md)'
  <2>1. q.md # "none" => Comes(q.md, ivy) /\ Holds(ivy, q.md)
    BY DEF Downloads
  <2> QED
    BY <2>1, HoldsKept
<1>6. q.md # "none" /\ job[q.md].repo # Chain[q.member] => q.hit \/ "overlap" \in blame'[ivy]
  <2> SUFFICES ASSUME q.md # "none", job[q.md].repo # Chain[q.member], ~q.hit
               PROVE  "overlap" \in blame'[ivy]
    OBVIOUS
  <2>1. "overlap" \in blame[ivy]
    BY <1>2 DEF Downloads
  <2>2. ivy \in DOMAIN disk
    BY DEF Downloads, Holds, Exists
  <2> QED
    BY <1>4, <2>1, <2>2 DEF World
<1>7. ASSUME q.md = "none", NEW w \in Tasks, job[w].task = "published", job[w].rev = job[u].rev
      PROVE  \/ blame'[ivy] \cup blame'[<<job[w].repo, "ivy", job[w].rev>>] # {}
             \/ q.pc # "done" /\ \E i \in q.member..Len(Chain) : Chain[i] = job[w].repo
  <2>1. PICK rep : rep = <<job[w].repo, "ivy", job[w].rev>>
    OBVIOUS
  <2>2. \/ blame[ivy] \cup blame[rep] # {}
        \/ r.pc # "done" /\ \E i \in r.member..Len(Chain) : Chain[i] = job[w].repo
    BY <1>7, <2>1 DEF Downloads
  <2>3. rep \in Places /\ ivy \in Places
    <3>1. Publishes(w)
      BY <1>7 DEF Publishes, Publishing
    <3>2. job[w].repo \in Range(Chain) /\ job[w].rev \in Revisions
      BY <3>1, JobType
    <3> QED
      BY <2>1, <3>2, PlacesHas, PathsType DEF Kinds
  <2>4. r.item = "ivy"
    BY <1>3, <1>7
  <2>5. q.pc = "done" => r.pc = "done"
    BY <2>4
  <2> QED
    BY <2>1, <2>2, <2>3, <2>5 DEF World
<1> QED
  BY SMTT(30), <1>1, <1>3, <1>5, <1>6, <1>7, DownloadsNext

\* The others take everything along.
LEMMA DownloadsKept ==
  ASSUME TypeOK, NEW t \in Tasks, World(t), NEW u \in Tasks \ {t}, InStep(u),
         ~Publishes(u), Downloads(u)
  PROVE  Downloads(u)'
<1>1. run'[u] = run[u] /\ (Copying(u)' <=> Copying(u))
  BY Others DEF World
<1>2. PICK ivy, jar : ivy = build_cache_path(u, "ivy") /\ jar = build_cache_path(u, "jar")
  OBVIOUS
<1>3. /\ ivy[1] = "cache" /\ jar[1] = "cache" /\ ivy \in Places /\ jar \in Places
      /\ resolver(u) = Chain[run[u].member]
  BY <1>2, PathsPart, PathsType, Triple DEF Kinds, resolver
<1>4. run[u].pc = "parse" => Settled(ivy)'
  BY <1>2, <1>3 DEF Downloads, World, Settled, Exists
<1>5. run[u].artifact => Settled(jar)'
  BY <1>2, <1>3 DEF Downloads, World, Settled, Exists
<1>6. ASSUME run[u].item = "ivy", run[u].pc \in {"copying", "parse"}
      PROVE  \/ run[u].hit \/ "overlap" \in blame'[ivy]
             \/ /\ Writers(ivy)' \subseteq {u}
                /\ \A i \in DOMAIN disk'[ivy] :
                      disk'[ivy][i] = "hole" \/ job[disk'[ivy][i]].repo = Chain[run[u].member]
  <2>1. ivy \in DOMAIN disk
    <3>1. CASE run[u].pc = "parse"
      BY <1>2, <3>1 DEF Downloads, Settled, Exists
    <3>2. CASE run[u].pc = "copying"
      <4>1. Copying(u)
        BY <3>2 DEF Copying, At
      <4>2. To(u) = ivy
        BY <1>2, <1>6, EndsType DEF Kinds
      <4> QED
        BY <4>1, <4>2 DEF TypeOK, Exists
    <3> QED
      BY <1>6, <3>1, <3>2
  <2>2. \/ run[u].hit \/ "overlap" \in blame[ivy]
        \/ /\ Writers(ivy) \subseteq {u}
           /\ \A i \in DOMAIN disk[ivy] :
                 disk[ivy][i] = "hole" \/ job[disk[ivy][i]].repo = Chain[run[u].member]
    BY <1>2, <1>3, <1>6 DEF Downloads
  <2> QED
    BY <1>3, <2>1, <2>2 DEF World
<1>7. run[u].pc = "done" /\ run[u].md # "none" /\ ~run[u].artifact =>
         job[run[u].md].repo # Chain[run[u].member] \/ blame'[ivy] \cup blame'[jar] # {}
  <2>1. run[u].pc = "done" /\ run[u].md # "none" /\ ~run[u].artifact =>
           job[run[u].md].repo # Chain[run[u].member] \/ blame[ivy] \cup blame[jar] # {}
    BY <1>2, <1>3 DEF Downloads, OtherResolver
  <2> QED
    BY <1>3, <2>1 DEF World
<1>8. PICK r : r = run[u]
  OBVIOUS
<1> QED
  BY <1>1, <1>2, <1>4, <1>5, <1>6, <1>7, <1>8, DownloadsStay

-----------------------------------------------------------------------------
(* Every kind of step is one of these                                      *)

\* What a clean copy reads is nobody's to write.
LEMMA CleanSource ==
  ASSUME IInv, NEW u \in Tasks, Copying(u), run[u].item \in Kinds, blame[To(u)] = {}
  PROVE  /\ Writers(From(u)) = {} /\ Writers(To(u)) = {u}
         /\ From(u)[1] \notin {"cache", "lib"}
<1>1. ~Damaged(To(u))
  BY DEF Damaged
<1>2. TypeOK /\ InStep(u) /\ CopyInStep(u)
  BY <1>1 DEF IInv, CopiesInStep
<1>3. u \in Names /\ resolver(u) \in Range(Chain)
  BY <1>2, TaskType, JobType
<1>4. From(u)[1] \in Names \cup Range(Chain)
  <2>1. CASE Publishes(u)
    BY <1>2, <1>3, <2>1, EndsType
  <2>2. CASE ~Publishes(u)
    BY <1>2, <1>3, <2>2, EndsType, Triple
  <2> QED
    BY <2>1, <2>2
<1> QED
  BY <1>2, <1>4, PlacesAssumption DEF CopyInStep

\* A step that marks files marks those that are there.
Marks(t) ==
    \A f \in Places :
        /\ blame[f] \subseteq blame'[f]
        /\ blame'[f] # blame[f] =>
             Exists(f) /\ (f[1] \in {"cache", "lib"} \/ (Copying(t) /\ f = To(t)))

LEMMA QuietWorld ==
  ASSUME IInv, NEW t \in Tasks, Quiet(t), Marks(t)
  PROVE  World(t)
<1>1. Turn(t) /\ disk' = disk /\ Gentle(t) /\ \A f : Writers(f)' \subseteq Writers(f)
  BY QuietFacts, QuietGentle DEF Quiet
<1>2. TypeOK
  BY DEF IInv
<1>3. \A f \in DOMAIN disk : f \in Places
  BY <1>2, DiskType
<1>4. \A f \in Places : blame[f] # {} => blame'[f] # {}
  BY DEF Marks
<1>5. \A f \in DOMAIN disk : f[1] = "cache" /\ "overlap" \in blame[f] => "overlap" \in blame'[f]
  BY <1>3 DEF Marks
<1>6. \A f \in DOMAIN disk : f[1] = "cache" /\ Settled(f) => Settled(f)'
  BY <1>1 DEF Gentle
<1>7. ASSUME NEW u \in Tasks \ {t}, Copying(u), run[u].item \in Kinds,
             blame[From(u)] = {}, blame'[To(u)] = {}
      PROVE  blame'[From(u)] = {}
  <2>1. PICK f, g : f = To(u) /\ g = From(u) /\ f \in Places /\ g \in Places
    BY <1>7, CopyingType
  <2>2. blame[f] = {}
    BY <1>4, <1>7, <2>1
  <2>3. Writers(g) = {} /\ g[1] \notin {"cache", "lib"}
    BY <1>7, <2>1, <2>2, CleanSource
  <2>4. ~(Copying(t) /\ g = To(t))
    BY <2>3 DEF Writers
  <2> QED
    BY <1>7, <2>1, <2>3, <2>4 DEF Marks
<1> QED
  BY <1>1, <1>4, <1>5, <1>6, <1>7 DEF World

LEMMA OpenWorld ==
  ASSUME IInv, OnlyFilesBlamed, NEW t \in Tasks, At(t, "open"), Exists(From(t)),
         NEW causes, Open(t, causes), job' = job,
         Exists(To(t)) => causes # {} /\ (To(t)[1] \in {"cache", "lib"} => "overlap" \in causes)
  PROVE  World(t)
<1>1. /\ Turn(t) /\ ~Copying(t) /\ Copying(t)' /\ To(t)' = To(t)
      /\ DOMAIN disk' = DOMAIN disk \cup {To(t)} /\ disk'[To(t)] = <<>>
      /\ \A f \in DOMAIN disk \ {To(t)} : disk'[f] = disk[f]
  BY OpenEffect
<1>2. TypeOK /\ InStep(t)
  BY DEF IInv
<1>3. PICK T \in Places : T = To(t)
  BY <1>2, EndsType
<1>4. \A f : Writers(f)' = IF f = T THEN Writers(f) \cup {t} ELSE Writers(f)
  BY <1>1, <1>3, WritersBegin
<1>5. /\ causes \subseteq blame'[T]
      /\ \A f \in Places \ {T} : blame[f] \subseteq blame'[f]
      /\ \A u \in Readers(T) : To(u) \in Places \ {T} => "overlap" \in blame'[To(u)]
  BY <1>3, OpenBlame
<1>6. T \in DOMAIN disk => causes # {} /\ (T[1] \in {"cache", "lib"} => "overlap" \in causes)
  BY <1>3 DEF Exists
<1>7. \A f \in DOMAIN disk : f \in Places
  BY <1>2, DiskType
<1>8. \A f \in Places : blame[f] # {} => blame'[f] # {}
  BY <1>5, <1>6 DEF OnlyFilesBlamed, Exists
<1>9. \A f \in DOMAIN disk : f[1] = "cache" /\ "overlap" \in blame[f] => "overlap" \in blame'[f]
  BY <1>5, <1>6, <1>7
<1>10. \A f \in DOMAIN disk :
          \/ blame'[f] # {} /\ (f[1] = "cache" => "overlap" \in blame'[f])
          \/ Writers(f)' \subseteq Writers(f) /\ (disk'[f] = disk[f] \/ t \in Writers(f))
  BY <1>1, <1>3, <1>4, <1>5, <1>6
<1>11. Gentle(t)
  <2>1. \A f \in DOMAIN disk : f # T => (Damaged(f) => Damaged(f)')
    BY <1>5, <1>7 DEF Damaged
  <2>2. T \in DOMAIN disk /\ T[1] \in {"cache", "lib"} => Damaged(T)'
    BY <1>5, <1>6, Marked
  <2> QED
    BY <1>1, <1>4, <2>1, <2>2, SettledKept
<1>12. \A f \in DOMAIN disk : f[1] = "cache" /\ Settled(f) => Settled(f)'
  BY <1>11 DEF Gentle
<1>13. ASSUME NEW u \in Tasks \ {t}, Copying(u), run[u].item \in Kinds,
              blame[From(u)] = {}, blame'[To(u)] = {}
       PROVE  blame'[From(u)] = {}
  <2>1. PICK f, g : /\ f = To(u) /\ g = From(u) /\ f \in Places /\ g \in Places /\ f # g
    BY <1>13, CopyingType
  <2>2. blame[f] = {}
    BY <1>8, <1>13, <2>1
  <2>3. Writers(g) = {}
    BY <1>13, <2>1, <2>2, CleanSource
  <2>4. g # T
    BY <1>5, <1>13, <2>1 DEF Readers
  <2>5. ~\E w \in Readers(T) : g = To(w)
    BY <2>3 DEF Readers, Writers
  <2> QED
    BY <1>3, <1>13, <2>1, <2>4, <2>5 DEF Open
<1> QED
  BY <1>1, <1>8, <1>9, <1>10, <1>12, <1>13 DEF World

LEMMA PieceWorld ==
  ASSUME IInv, NEW t \in Tasks, CopyPiece(t)
  PROVE  World(t)
<1>1. /\ Turn(t) /\ Copying(t) /\ Copying(t)' /\ blame' = blame /\ To(t)' = To(t)
      /\ disk' = [disk EXCEPT ![To(t)] = Put(@, run[t].pos + 1, disk[From(t)][run[t].pos + 1])]
  BY PieceEffect
<1>2. \A f : Writers(f)' = Writers(f)
  BY <1>1, WritersSame
<1>3. /\ DOMAIN disk' = DOMAIN disk /\ t \in Writers(To(t))
      /\ \A f \in DOMAIN disk : f # To(t) => disk'[f] = disk[f]
  BY <1>1 DEF Writers
<1>4. \A f : Damaged(f)' <=> Damaged(f)
  BY <1>1 DEF Damaged
<1>5. Gentle(t)
  BY <1>1, <1>2, <1>3, <1>4, SettledKept
<1>6. \A f \in DOMAIN disk : f[1] = "cache" /\ Settled(f) => Settled(f)'
  BY <1>5 DEF Gentle
<1> QED
  BY <1>1, <1>2, <1>3, <1>6 DEF World

\* wget leaves a file where there was none.
LEMMA LeaveEffect ==
  ASSUME IInv, NEW t \in Tasks, FetchMissing(t), job[t].wget /\ resolver(t) \in Remote
  PROVE  /\ Turn(t) /\ ~Copying(t) /\ ~Copying(t)'
         /\ To(t) \in Places \ DOMAIN disk
         /\ DOMAIN disk' = DOMAIN disk \cup {To(t)} /\ disk'[To(t)] = <<>>
         /\ \A f \in DOMAIN disk : disk'[f] = disk[f]
         /\ blame'[To(t)] = {"empty"} /\ \A f \in Places \ {To(t)} : blame'[f] = blame[f]
<1>1. /\ run[t].pc = "open" /\ ~Publishes(t) /\ run[t].item # "copy" /\ ~Exists(To(t))
      /\ Goes(t, After(t, FALSE)) /\ job' = job /\ Emptied(To(t))
      /\ blame' = [blame EXCEPT ![To(t)] = {"empty"}]
  BY DEF FetchMissing, Fetching, GetSkips, At
<1>2. /\ TypeOK /\ InStep(t) /\ run[t].item \in Kinds /\ ~run[t].artifact
  BY <1>1, TaskType DEF IInv, InStep
<1>3. /\ run' \in [Tasks -> Progress]
      /\ \A u \in Tasks \ {t} : run'[u] = run[u]
      /\ run'[t].pc \in {"parse", "look", "done"}
  BY <1>1, <1>2, AfterEffect DEF Kinds
<1>4. Turn(t) /\ ~Copying(t) /\ ~Copying(t)'
  BY <1>1, <1>2, <1>3 DEF Turn, Copying, At
<1>5. To(t) \in Places \ DOMAIN disk
  BY <1>1, <1>2, EndsType DEF Exists
<1> QED
  BY <1>1, <1>2, <1>4, <1>5 DEF Emptied, With, TypeOK

LEMMA LeaveWorld ==
  ASSUME IInv, NEW t \in Tasks, FetchMissing(t), job[t].wget /\ resolver(t) \in Remote
  PROVE  World(t)
<1>1. PICK T : /\ T = To(t) /\ Turn(t) /\ ~Copying(t)'
               /\ T \in Places \ DOMAIN disk
               /\ DOMAIN disk' = DOMAIN disk \cup {T}
               /\ \A f \in DOMAIN disk : disk'[f] = disk[f]
               /\ blame'[T] = {"empty"} /\ \A f \in Places \ {T} : blame'[f] = blame[f]
  BY LeaveEffect
<1>2. \A f : Writers(f)' = Writers(f) \ {t}
  BY <1>1, WritersEnd
<1>3. \A f \in DOMAIN disk : f \in Places \ {T} /\ blame'[f] = blame[f]
  BY <1>1, DiskType DEF IInv
<1>4. Gentle(t)
  BY <1>1, <1>2, <1>3, SettledKept DEF Damaged
<1>5. \A f \in DOMAIN disk : f[1] = "cache" /\ Settled(f) => Settled(f)'
  BY <1>4 DEF Gentle
<1>6. \A u \in Tasks : Copying(u) => From(u) \in DOMAIN disk
  BY DEF IInv, TypeOK, Exists
<1> QED
  BY <1>1, <1>2, <1>3, <1>5, <1>6 DEF World

-----------------------------------------------------------------------------
(* Pieces and their partners                                               *)

\* Files whose pieces depend on a file elsewhere.
Dependent(f) == f[1] = "cache" \/ (f[1] \in Range(Chain) /\ f[2] = "ivy")

\* A step that puts a piece down where it belongs, next to its partner.
LEMMA FilesKept ==
  ASSUME PairInv, NEW t \in Tasks, World(t), DOMAIN disk' \subseteq Places,
         \A f \in DOMAIN disk' : \A i \in DOMAIN disk'[f] :
            \/ disk'[f][i] = "hole"
            \/ f \in DOMAIN disk /\ i \in DOMAIN disk[f] /\ disk'[f][i] = disk[f][i]
            \/ /\ Comes(disk'[f][i], f)
               /\ blame[f] = {} /\ Dependent(f) => Holds(Partner(disk'[f][i], f), disk'[f][i]),
         \A f \in Places : blame'[f] # {} => f \in DOMAIN disk'
  PROVE  PiecesBelong' /\ OnlyFilesBlamed' /\ Paired'
<1>1. /\ TypeOK /\ PiecesBelong /\ OnlyFilesBlamed /\ Paired /\ job' = job
      /\ \A f \in Places : blame[f] # {} => blame'[f] # {}
  BY DEF PairInv, IInv, World, Turn
<1>2. \A f \in DOMAIN disk' : \A i \in DOMAIN disk'[f] : disk'[f][i] = "hole" \/ Comes(disk'[f][i], f)
  BY <1>1 DEF PiecesBelong
<1>3. PiecesBelong'
  <2> SUFFICES ASSUME NEW f \in DOMAIN disk', NEW i \in DOMAIN disk'[f], disk'[f][i] # "hole",
                      NEW x, x = disk'[f][i]
               PROVE  Comes(x, f)'
    BY DEF PiecesBelong
  <2> QED
    BY <1>1, <1>2, ComesKept
<1>4. OnlyFilesBlamed'
  BY DEF OnlyFilesBlamed, Exists, Places
<1>5. Paired'
  <2> SUFFICES ASSUME NEW f \in DOMAIN disk', blame'[f] = {}, Dependent(f),
                      NEW i \in DOMAIN disk'[f], disk'[f][i] # "hole", NEW x, x = disk'[f][i]
               PROVE  Holds(Partner(x, f), x)'
    BY DEF Paired, Dependent
  <2>1. blame[f] = {}
    BY <1>1
  <2>2. PICK p : p = Partner(x, f)
    OBVIOUS
  <2>3. Holds(p, x)
    BY <1>1, <2>1, <2>2 DEF Paired, Dependent
  <2>4. Holds(p, x)'
    BY <1>1, <2>3, HoldsKept
  <2>5. Partner(x, f)' = p
    BY <1>1, <2>2, PartnerKept
  <2> QED
    BY <2>4, <2>5
<1> QED
  BY <1>3, <1>4, <1>5

LEMMA QuietFiles ==
  ASSUME PairInv, NEW t \in Tasks, Quiet(t), Marks(t), World(t)
  PROVE  PiecesBelong' /\ OnlyFilesBlamed' /\ Paired'
<1>1. TypeOK /\ OnlyFilesBlamed /\ disk' = disk
  BY DEF PairInv, IInv, Quiet
<1>2. DOMAIN disk' \subseteq Places
  BY <1>1 DEF TypeOK
<1>3. \A f \in Places : blame'[f] # {} => f \in DOMAIN disk'
  BY <1>1 DEF OnlyFilesBlamed, Marks, Exists
<1> QED
  BY <1>1, <1>2, <1>3, FilesKept

LEMMA EmptyFiles ==
  ASSUME PairInv, NEW t \in Tasks, World(t), NEW T \in Places,
         DOMAIN disk' = DOMAIN disk \cup {T}, disk'[T] = <<>>,
         \A f \in DOMAIN disk \ {T} : disk'[f] = disk[f],
         \A f \in Places : blame'[f] # {} => f \in DOMAIN disk'
  PROVE  PiecesBelong' /\ OnlyFilesBlamed' /\ Paired'
<1>1. DOMAIN disk' \subseteq Places
  BY DEF PairInv, IInv, TypeOK
<1>2. DOMAIN disk'[T] = {}
  OBVIOUS
<1>3. \A f \in DOMAIN disk' : \A i \in DOMAIN disk'[f] :
         f \in DOMAIN disk /\ i \in DOMAIN disk[f] /\ disk'[f][i] = disk[f][i]
  BY <1>2
<1> QED
  BY <1>1, <1>3, FilesKept

LEMMA OpenFiles ==
  ASSUME PairInv, NEW t \in Tasks, At(t, "open"), NEW causes, Open(t, causes), job' = job, World(t)
  PROVE  PiecesBelong' /\ OnlyFilesBlamed' /\ Paired'
<1>1. IInv /\ TypeOK /\ InStep(t) /\ OnlyFilesBlamed
  BY DEF PairInv, IInv
<1>2. PICK T \in Places : T = To(t)
  BY <1>1, EndsType
<1>3. /\ DOMAIN disk' = DOMAIN disk \cup {T} /\ disk'[T] = <<>>
      /\ \A f \in DOMAIN disk \ {T} : disk'[f] = disk[f]
  BY <1>1, <1>2, OpenEffect
<1>4. \A f \in Places : blame'[f] # {} => f \in DOMAIN disk'
  <2> SUFFICES ASSUME NEW f \in Places, f # T, blame'[f] # {}, f \notin DOMAIN disk
               PROVE  FALSE
    BY <1>3
  <2>1. blame[f] = {}
    BY <1>1 DEF OnlyFilesBlamed, Exists
  <2>2. ~\E u \in Readers(T) : f = To(u)
    BY <1>1 DEF Readers, TypeOK, Exists
  <2> QED
    BY <1>2, <2>1, <2>2 DEF Open
<1> QED
  BY <1>2, <1>3, <1>4, EmptyFiles

LEMMA LeaveFiles ==
  ASSUME PairInv, NEW t \in Tasks, FetchMissing(t), job[t].wget /\ resolver(t) \in Remote, World(t)
  PROVE  PiecesBelong' /\ OnlyFilesBlamed' /\ Paired'
<1>1. IInv /\ OnlyFilesBlamed
  BY DEF PairInv
<1>2. PICK T : /\ T \in Places \ DOMAIN disk
               /\ DOMAIN disk' = DOMAIN disk \cup {T} /\ disk'[T] = <<>>
               /\ \A f \in DOMAIN disk : disk'[f] = disk[f]
               /\ \A f \in Places \ {T} : blame'[f] = blame[f]
  BY <1>1, LeaveEffect
<1>3. \A f \in Places : blame'[f] # {} => f \in DOMAIN disk'
  BY <1>1, <1>2 DEF OnlyFilesBlamed, Exists
<1> QED
  BY <1>2, <1>3, EmptyFiles

\* The piece a task puts down next.
LEMMA PieceComes ==
  ASSUME PairInv, NEW t \in Tasks, Copying(t), NEW T, T = To(t), NEW F, F = From(t),
         NEW x, Comes(x, F)
  PROVE  Comes(x, T)
<1>1. /\ TypeOK /\ InStep(t) /\ t \in Names /\ run[t].item \in Kinds \cup {"copy"}
      /\ resolver(t) \in Range(Chain)
  BY TaskType, JobType DEF PairInv, IInv
<1>2. CASE Publishes(t)
  <2>1. F[1] = t /\ run[t].item \in Kinds /\ run[t].item # "copy"
    BY <1>1, <1>2, EndsType DEF InStep, Kinds
  <2>2. T[1] = job[t].repo /\ T[3] = job[t].rev
    BY <1>1, <1>2, <2>1, Triple DEF To, Held, resolver
  <2>3. x = t
    BY <1>1, <2>1 DEF Comes
  <2>4. T[1] \notin Names
    BY <1>1, <1>2, <2>2, JobType, PlacesAssumption
  <2> QED
    BY <1>2, <2>2, <2>3, <2>4 DEF Comes
<1>3. CASE ~Publishes(t) /\ run[t].item \in Kinds
  <2>1. F = <<resolver(t), run[t].item, job[t].rev>> /\ T = <<"cache", run[t].item, job[t].rev>>
    BY <1>1, <1>3, EndsType, PathsPart
  <2>2. F[1] = resolver(t) /\ F[3] = job[t].rev /\ T[1] = "cache" /\ T[3] = job[t].rev
    BY <2>1, Triple
  <2> QED
    BY <1>1, <2>2, PlacesAssumption DEF Comes
<1>4. CASE ~Publishes(t) /\ run[t].item = "copy"
  <2>1. T[1] = "lib"
    BY <1>1, <1>4, EndsType, PathsPart
  <2> QED
    BY <1>1, <2>1, PlacesAssumption DEF Comes
<1> QED
  BY <1>1, <1>2, <1>3, <1>4

LEMMA PiecePartner ==
  ASSUME PairInv, NEW t \in Tasks, Copying(t), NEW T, T = To(t), NEW F, F = From(t),
         blame[T] = {}, Dependent(T),
         NEW j \in DOMAIN disk[F], NEW x, x = disk[F][j], x # "hole"
  PROVE  Holds(Partner(x, T), x)
<1>1. /\ IInv /\ TypeOK /\ InStep(t) /\ t \in Names /\ run[t].item \in Kinds \cup {"copy"}
      /\ resolver(t) \in Range(Chain) /\ CleanCopy(t) /\ PiecesBelong /\ Paired
      /\ F \in DOMAIN disk
  BY TaskType, JobType, CopyingType DEF PairInv, IInv
<1>2. Comes(x, F)
  BY <1>1 DEF PiecesBelong
<1>3. CASE Publishes(t)
  <2>1. F[1] = t /\ run[t].item \in Kinds /\ run[t].item # "copy"
    BY <1>1, <1>3, EndsType DEF InStep, Kinds
  <2>2. T = <<job[t].repo, run[t].item, job[t].rev>>
    BY <1>3, <2>1 DEF To, Held, resolver
  <2>3. T[1] = job[t].repo /\ T[2] = run[t].item /\ T[3] = job[t].rev
    BY <2>2, Triple
  <2>4. T[2] = "ivy"
    BY <1>1, <1>3, <2>3, JobType, PlacesAssumption DEF Dependent
  <2>5. x = t
    BY <1>1, <1>2, <2>1 DEF Comes
  <2>6. ~run[t].failed /\ ~run[t].skipped
    BY <1>1, <1>3, <2>1 DEF CleanCopy
  <2>7. Uploads(t)
    BY <1>3 DEF PairInv
  <2>8. Holds(<<job[t].repo, "jar", job[t].rev>>, t)
    BY <2>3, <2>4, <2>6, <2>7 DEF Uploads
  <2>9. Partner(x, T) = <<job[t].repo, "jar", job[t].rev>>
    BY <2>3, <2>4, <2>5 DEF Partner
  <2> QED
    BY <2>5, <2>8, <2>9
<1>4. CASE ~Publishes(t) /\ run[t].item \in Kinds
  <2>1. F = <<resolver(t), run[t].item, job[t].rev>> /\ T = <<"cache", run[t].item, job[t].rev>>
    BY <1>1, <1>4, EndsType, PathsPart
  <2>2. /\ F[1] = resolver(t) /\ F[2] = run[t].item /\ F[3] = job[t].rev
        /\ T[1] = "cache" /\ T[2] = run[t].item /\ T[3] = job[t].rev
    BY <2>1, Triple
  <2>3. blame[F] = {} /\ (run[t].item = "jar" => ~OtherResolver(t))
    BY <1>1, <1>4 DEF CleanCopy
  <2>4. CASE run[t].item = "ivy"
    <3>1. Holds(Partner(x, F), x)
      BY <1>1, <2>2, <2>3, <2>4 DEF Paired
    <3>2. Partner(x, F) = Partner(x, T)
      BY <2>2 DEF Partner
    <3> QED
      BY <3>1, <3>2
  <2>5. CASE run[t].item = "jar"
    <3>1. PICK ivy : ivy = build_cache_path(t, "ivy") /\ ivy = <<"cache", "ivy", job[t].rev>>
      BY PathsPart
    <3>2. PICK v : v = run[t].md
      OBVIOUS
    <3>3. v # "none" /\ Comes(v, ivy) /\ Holds(ivy, v)
      BY <1>4, <2>5, <3>1, <3>2 DEF PairInv, Downloads
    <3>4. job[v].repo = resolver(t)
      BY <2>3, <2>5, <3>2, <3>3 DEF OtherResolver
    <3>5. ivy[1] = "cache" /\ ivy[2] = "ivy" /\ ivy[3] = job[t].rev
      BY <3>1, Triple
    <3>6. Partner(x, T) = ivy /\ Partner(v, ivy) = F
      BY <2>1, <2>2, <2>5, <3>1, <3>4, <3>5 DEF Partner
    <3>7. CASE blame[ivy] # {}
      BY <3>3, <3>6, <3>7 DEF Holds
    <3>8. CASE blame[ivy] = {}
      <4>1. disk[ivy] = Copy(v) /\ ivy \in DOMAIN disk
        BY <3>3, <3>8 DEF Holds, Exists
      <4>2. disk[ivy][1] = v /\ 1 \in DOMAIN disk[ivy] /\ v # "hole"
        <5>1. v \in Names
          BY <3>3 DEF Comes, Tasks, Names, PairInv, IInv, TypeOK
        <5>2. disk[ivy] \in [1..Pieces -> {v}] /\ Pieces \in Nat \ {0} /\ disk[ivy][1] = v
          BY <4>1, CopyType
        <5>3. 1 \in 1..Pieces
          BY <5>2
        <5> QED
          BY <5>1, <5>2, <5>3, PlacesAssumption
      <4>3. Holds(F, v)
        BY <1>1, <3>5, <3>6, <3>8, <4>1, <4>2 DEF Paired
      <4>4. disk[F] = Copy(v)
        BY <2>3, <4>3 DEF Holds
      <4>5. x = v
        BY <4>4, CopyType
      <4> QED
        BY <3>3, <3>6, <4>5
    <3> QED
      BY <3>7, <3>8
  <2> QED
    BY <1>4, <2>4, <2>5 DEF Kinds
<1>5. CASE ~Publishes(t) /\ run[t].item = "copy"
  <2>1. T[1] = "lib"
    BY <1>1, <1>5, EndsType, PathsPart
  <2> QED
    BY <1>1, <2>1, PlacesAssumption DEF Dependent
<1> QED
  BY <1>1, <1>3, <1>4, <1>5

LEMMA PieceFiles ==
  ASSUME PairInv, NEW t \in Tasks, CopyPiece(t), World(t)
  PROVE  PiecesBelong' /\ OnlyFilesBlamed' /\ Paired'
<1>1. IInv /\ TypeOK /\ OnlyFilesBlamed /\ PiecesBelong
  BY DEF PairInv, IInv
<1>2. PICK i : i = run[t].pos + 1
  OBVIOUS
<1>3. /\ Copying(t) /\ blame' = blame /\ i \in 1..Len(disk[From(t)])
      /\ disk' = [disk EXCEPT ![To(t)] = Put(@, i, disk[From(t)][i])]
  BY <1>1, <1>2, PieceEffect
<1>4. PICK T, F : T = To(t) /\ F = From(t) /\ T \in DOMAIN disk /\ F \in DOMAIN disk
  BY <1>1, <1>3, CopyingType
<1>5. PICK x : x = disk[F][i] /\ i \in DOMAIN disk[F]
  BY <1>1, <1>3, <1>4, DiskType
<1>6. DOMAIN disk' = DOMAIN disk /\ disk'[T] = Put(disk[T], i, x)
      /\ \A f \in DOMAIN disk : f # T => disk'[f] = disk[f]
  BY <1>3, <1>4, <1>5
<1>7. x # "hole" => Comes(x, T) /\ (blame[T] = {} /\ Dependent(T) => Holds(Partner(x, T), x))
  <2> SUFFICES ASSUME x # "hole"
               PROVE  Comes(x, T) /\ (blame[T] = {} /\ Dependent(T) => Holds(Partner(x, T), x))
    OBVIOUS
  <2>1. Comes(x, F)
    BY <1>1, <1>4, <1>5 DEF PiecesBelong
  <2>2. Comes(x, T)
    BY <1>3, <1>4, <2>1, PieceComes
  <2>3. blame[T] = {} /\ Dependent(T) => Holds(Partner(x, T), x)
    BY <1>3, <1>4, <1>5, PiecePartner
  <2> QED
    BY <2>2, <2>3
<1>8. \A j \in DOMAIN disk'[T] :
         \/ disk'[T][j] = "hole"
         \/ j \in DOMAIN disk[T] /\ disk'[T][j] = disk[T][j]
         \/ disk'[T][j] = x
  <2>1. Len(disk[T]) \in Nat /\ DOMAIN disk[T] = 1..Len(disk[T])
    BY <1>1, <1>4, DiskType
  <2>2. i \in Nat
    BY <1>1, <1>3, <1>4, DiskType
  <2> QED
    BY <1>6, <2>1, <2>2 DEF Put
<1>9. \A f \in DOMAIN disk' : \A j \in DOMAIN disk'[f] :
         \/ disk'[f][j] = "hole"
         \/ f \in DOMAIN disk /\ j \in DOMAIN disk[f] /\ disk'[f][j] = disk[f][j]
         \/ /\ Comes(disk'[f][j], f)
            /\ blame[f] = {} /\ Dependent(f) => Holds(Partner(disk'[f][j], f), disk'[f][j])
  <2> SUFFICES ASSUME NEW f \in DOMAIN disk', NEW j \in DOMAIN disk'[f], NEW y, y = disk'[f][j]
               PROVE  \/ y = "hole"
                      \/ f \in DOMAIN disk /\ j \in DOMAIN disk[f] /\ y = disk[f][j]
                      \/ /\ Comes(y, f)
                         /\ blame[f] = {} /\ Dependent(f) => Holds(Partner(y, f), y)
    OBVIOUS
  <2>1. CASE f = T
    BY <1>4, <1>7, <1>8, <2>1
  <2>2. CASE f # T
    BY <1>6, <2>2
  <2> QED
    BY <2>1, <2>2
<1>10. DOMAIN disk' \subseteq Places /\ \A f \in Places : blame'[f] # {} => f \in DOMAIN disk'
  BY <1>1, <1>3, <1>6 DEF TypeOK, OnlyFilesBlamed, Exists
<1> QED
  BY <1>9, <1>10, FilesKept

-----------------------------------------------------------------------------
(* Steps of tasks that publish                                             *)

LEMMA PairStep ==
  ASSUME PairInv, IInv', NEW t \in Tasks, World(t),
         PiecesBelong' /\ OnlyFilesBlamed' /\ Paired', CleanCopy(t)',
         Publishes(t) => Uploads(t)', ~Publishes(t) => Downloads(t)'
  PROVE  PairInv'
<1>1. /\ TypeOK /\ Tasks' = Tasks /\ \A u : Publishes(u)' <=> Publishes(u)
      /\ \A u \in Tasks : InStep(u)
      /\ \A u \in Tasks \ {t} : run'[u] = run[u]
  BY DEF PairInv, IInv, World, Turn, Tasks, Publishes
<1>2. ASSUME NEW u \in Tasks \ {t}
      PROVE  /\ CleanCopy(u)' /\ (Publishes(u) => Uploads(u)')
             /\ ~Publishes(u) => Downloads(u)'
  <2>1. CleanCopy(u) /\ (Publishes(u) => Uploads(u)) /\ (~Publishes(u) => Downloads(u))
    BY DEF PairInv
  <2> QED
    BY <1>1, <1>2, <2>1, CleanKept, UploadsKept, DownloadsKept
<1>3. \A u \in Tasks : /\ CleanCopy(u)' /\ (Publishes(u) => Uploads(u)')
                       /\ ~Publishes(u) => Downloads(u)'
  BY <1>2
<1> QED
  BY <1>1, <1>3 DEF PairInv

LEMMA QuietPair ==
  ASSUME PairInv, IInv', NEW t \in Tasks, Quiet(t), Marks(t),
         Publishes(t) => Uploads(t)', ~Publishes(t) => Downloads(t)'
  PROVE  PairInv'
<1>1. IInv
  BY DEF PairInv
<1>2. World(t)
  BY <1>1, QuietWorld
<1>3. CleanCopy(t)'
  BY DEF CleanCopy, Quiet
<1> QED
  BY <1>2, <1>3, QuietFiles, PairStep

LEMMA OneMarked ==
  ASSUME TypeOK, NEW t \in Tasks, NEW f \in Places, NEW c,
         \/ blame' = blame
         \/ /\ blame' = [blame EXCEPT ![f] = @ \cup {c}]
            /\ Exists(f) /\ (f[1] \in {"cache", "lib"} \/ (Copying(t) /\ f = To(t)))
  PROVE  Marks(t)
  BY DEF Marks, TypeOK

\* A part of a task is over.
LEMMA AfterQuiet ==
  ASSUME IInv, NEW t \in Tasks, run[t].pc \in {"open", "copying"},
         NEW ok \in BOOLEAN, Goes(t, After(t, ok)), job' = job, disk' = disk, Marks(t),
         Copying(t) => "cut" \in blame'[To(t)] \/ run[t].pos >= Len(disk[From(t)])
  PROVE  Quiet(t)
<1>1. TypeOK /\ InStep(t) /\ run[t].item \in {"ivy", "jar", "copy"}
  BY TaskType DEF IInv, Kinds
<1>2. /\ run' \in [Tasks -> Progress]
      /\ \A u \in Tasks \ {t} : run'[u] = run[u]
      /\ Publishes(t) => run'[t].pc \in {"look", "done"} /\ run'[t].artifact = run[t].artifact
      /\ ~Publishes(t) /\ run[t].item = "ivy" =>
           run'[t].pc \in {"parse", "look", "done"} /\ run'[t].artifact = run[t].artifact
      /\ ~Publishes(t) /\ run[t].item = "jar" => run'[t].pc = (IF ok THEN "deliver" ELSE "done")
      /\ ~Publishes(t) /\ run[t].item = "copy" =>
           run'[t].pc = "done" /\ run'[t].artifact = run[t].artifact
  BY <1>1, AfterEffect
<1>3. run[t].item \in Kinds => ~run[t].artifact
  BY <1>1 DEF InStep
<1>4. run[t].artifact => run'[t].artifact
  BY <1>1, <1>2, <1>3 DEF Kinds
<1>5. ~Copying(t)'
  BY <1>1, <1>2 DEF Copying, At
<1> QED
  BY <1>2, <1>4, <1>5 DEF Quiet, Turn, Marks

LEMMA UploadsNext ==
  ASSUME TypeOK, NEW t \in Tasks, World(t), Uploads(t), run[t].pc # "done",
         NEW q, q = run'[t], NEW jar, jar = <<job[t].repo, "jar", job[t].rev>>,
         q.item = "ivy" /\ ~q.failed /\ ~q.skipped =>
            (run[t].item = "ivy" /\ ~run[t].failed /\ ~run[t].skipped) \/ Holds(jar, t)'
  PROVE  Uploads(t)'
<1>1. job' = job /\ job[t].task # "published"
  BY DEF World, Turn, Uploads
<1>2. q.item = "ivy" /\ ~q.failed /\ ~q.skipped => Holds(jar, t)'
  BY HoldsKept DEF Uploads
<1> QED
  BY <1>1, <1>2 DEF Uploads

LEMMA UploadFields ==
  ASSUME TypeOK, NEW t \in Tasks, run[t].item \in Kinds,
         NEW d, Changed(d), DOMAIN d \subseteq {"failed", "skipped"},
         Goes(t, With(NextUpload(t), d))
  PROVE  /\ run'[t].item = "ivy"
         /\ run'[t].failed = IF "failed" \in DOMAIN d THEN d["failed"] ELSE run[t].failed
         /\ run'[t].skipped = IF "skipped" \in DOMAIN d THEN d["skipped"] ELSE run[t].skipped
<1> DEFINE next == NextUpload(t)
<1>1. /\ DOMAIN next \subseteq {"pc", "item"} /\ "pc" \in DOMAIN next
      /\ next["pc"] \in {"look", "done"}
      /\ "item" \in DOMAIN next => next["item"] = "ivy"
      /\ "item" \notin DOMAIN next => run[t].item = "ivy"
  BY DEF NextUpload, Kinds
<1> HIDE DEF next
<1>2. /\ DOMAIN With(next, d) = DOMAIN next \cup DOMAIN d
      /\ \A x \in DOMAIN next \cup DOMAIN d :
            With(next, d)[x] = IF x \in DOMAIN d THEN d[x] ELSE next[x]
  BY DEF With
<1>3. Changed(With(next, d))
  BY <1>1, <1>2 DEF Changed, Fields, PCs, Kinds
<1>4. Goes(t, With(next, d))
  BY DEF next
<1>5. \A x \in Fields : run'[t][x] =
            IF x \in DOMAIN With(next, d) THEN With(next, d)[x] ELSE run[t][x]
  BY <1>3, <1>4, GoesType
<1>6. /\ run'[t]["item"] = "ivy"
      /\ run'[t]["failed"] = IF "failed" \in DOMAIN d THEN d["failed"] ELSE run[t]["failed"]
      /\ run'[t]["skipped"] = IF "skipped" \in DOMAIN d THEN d["skipped"] ELSE run[t]["skipped"]
  BY <1>1, <1>2, <1>5 DEF Fields
<1> QED
  BY <1>6

LEMMA AfterUpload ==
  ASSUME TypeOK, NEW t \in Tasks, InStep(t), Publishes(t), NEW ok \in BOOLEAN, Goes(t, After(t, ok))
  PROVE  /\ run'[t].item = "ivy"
         /\ run'[t].failed = (run[t].failed \/ ~ok) /\ run'[t].skipped = run[t].skipped
<1> DEFINE d == [failed |-> run[t].failed \/ ~ok]
<1>1. DOMAIN d = {"failed"} /\ d["failed"] = (run[t].failed \/ ~ok)
  OBVIOUS
<1>2. Goes(t, With(NextUpload(t), d)) /\ run[t].item \in Kinds
  BY DEF After, InStep
<1> HIDE DEF d
<1>3. (run[t].failed \/ ~ok) \in BOOLEAN
  BY TaskType
<1>4. Changed(d)
  BY <1>1, <1>3 DEF Changed, Fields
<1>5. DOMAIN d \subseteq {"failed", "skipped"}
  BY <1>1
<1> QED
  BY <1>1, <1>2, <1>4, <1>5, UploadFields

LEMMA publish_one_Pairs ==
  ASSUME PairInv, IInv', NEW t \in Tasks, publish_one(t)
  PROVE  PairInv'
<1>1. /\ run[t].pc = "look" /\ Publishes(t) /\ job' = job /\ disk' = disk /\ blame' = blame
  BY DEF publish_one, At
<1>2. IInv /\ TypeOK /\ InStep(t) /\ run[t].item \in Kinds /\ Uploads(t)
  BY <1>1 DEF PairInv, IInv, InStep
<1>3. /\ run' \in [Tasks -> Progress]
      /\ \A u \in Tasks \ {t} : run'[u] = run[u]
      /\ run'[t].pc \in {"look", "done", "open"} /\ run'[t].artifact = run[t].artifact
      /\ run'[t].item = "ivy" /\ ~run'[t].failed /\ ~run'[t].skipped =>
           run[t].item = "ivy" /\ ~run[t].failed /\ ~run[t].skipped
  <2>1. CASE Goes(t, With(NextUpload(t), [failed |-> TRUE]))
    <3>0. DOMAIN [failed |-> TRUE] = {"failed"} /\ [failed |-> TRUE]["failed"] = TRUE
      OBVIOUS
    <3>1. Changed([failed |-> TRUE])
      BY <3>0, OneFlag
    <3> QED
      BY <1>2, <2>1, <3>0, <3>1, UploadEffect, UploadFields
  <2>2. CASE Goes(t, With(NextUpload(t), [skipped |-> TRUE]))
    <3>0. DOMAIN [skipped |-> TRUE] = {"skipped"} /\ [skipped |-> TRUE]["skipped"] = TRUE
      OBVIOUS
    <3>1. Changed([skipped |-> TRUE])
      BY <3>0, OneFlag
    <3> QED
      BY <1>2, <2>2, <3>0, <3>1, UploadEffect, UploadFields
  <2>3. CASE Goes(t, [pc |-> "open"])
    <3>1. Changed([pc |-> "open"])
      BY DEF Changed, Fields, PCs
    <3>2. /\ run' \in [Tasks -> Progress]
          /\ \A u \in Tasks \ {t} : run'[u] = run[u]
          /\ \A x \in Fields : run'[t][x] = IF x = "pc" THEN "open" ELSE run[t][x]
      BY <1>2, <2>3, <3>1, GoesType
    <3> QED
      BY <3>2 DEF Fields
  <2> QED
    BY <2>1, <2>2, <2>3 DEF publish_one
<1>4. Quiet(t)
  BY <1>1, <1>2, <1>3, QuietGoes, SameBlame DEF Copying, At
<1>5. Marks(t)
  BY <1>1 DEF Marks
<1>6. World(t)
  BY <1>2, <1>4, <1>5, QuietWorld
<1>7. Uploads(t)'
  BY <1>1, <1>2, <1>3, <1>6, UploadsNext
<1> QED
  BY <1>1, <1>4, <1>5, <1>7, QuietPair

\* A task opens a file that nobody blames for being opened.
LEMMA OpenPair ==
  ASSUME PairInv, IInv', NEW t \in Tasks, At(t, "open"), Exists(From(t)),
         NEW causes, Open(t, causes), job' = job,
         Exists(To(t)) => causes # {} /\ (To(t)[1] \in {"cache", "lib"} => "overlap" \in causes),
         Publishes(t) /\ causes = {} => ~run[t].failed /\ ~run[t].skipped,
         ~Publishes(t) /\ run[t].item = "jar" /\ causes = {} => ~OtherResolver(t),
         ~Publishes(t) => Downloads(t)'
  PROVE  World(t) /\ PairInv'
<1>1. IInv /\ TypeOK /\ InStep(t) /\ OnlyFilesBlamed
  BY DEF PairInv, IInv
<1>2. /\ Turn(t) /\ run'[t].pc = "copying" /\ To(t)' = To(t) /\ From(t)' = From(t)
      /\ \A x \in Fields \ {"pc", "pos"} : run'[t][x] = run[t][x]
  BY <1>1, OpenEffect DEF Copying, At
<1>3. PICK T, F : T = To(t) /\ F = From(t) /\ T \in Places /\ F \in Places /\ T # F
  BY <1>1, EndsType
<1>4. World(t)
  BY <1>1, OpenWorld
<1>5. /\ run'[t].item = run[t].item /\ run'[t].failed = run[t].failed
      /\ run'[t].skipped = run[t].skipped /\ run'[t].md = run[t].md
      /\ run'[t].member = run[t].member /\ job' = job
  BY <1>2 DEF Fields, Turn
<1>6. (OtherResolver(t)' <=> OtherResolver(t)) /\ (Publishes(t)' <=> Publishes(t))
  BY <1>5 DEF OtherResolver, resolver, Publishes
<1>7. ASSUME run[t].item \in Kinds, blame'[T] = {}
      PROVE  /\ blame'[F] = {}
             /\ Publishes(t) => ~run[t].failed /\ ~run[t].skipped
             /\ ~Publishes(t) /\ run[t].item = "jar" => ~OtherResolver(t)
  <2>1. /\ causes = {} /\ blame[F] = {} /\ Writers(F) = {}
    BY <1>3, <1>7, OpenBlame
  <2>2. ~\E u \in Readers(T) : F = To(u)
    BY <2>1 DEF Readers, Writers
  <2>3. blame'[F] = {}
    BY <1>3, <2>1, <2>2 DEF Open
  <2> QED
    BY <2>1, <2>3
<1>8. CleanCopy(t)'
  BY <1>2, <1>3, <1>5, <1>6, <1>7 DEF CleanCopy
<1>9. Publishes(t) => Uploads(t)'
  <2> SUFFICES ASSUME Publishes(t)
               PROVE  Uploads(t)'
    OBVIOUS
  <2>1. Uploads(t) /\ run[t].pc # "done"
    BY DEF PairInv, At
  <2> QED
    BY <1>1, <1>4, <1>5, <2>1, UploadsNext
<1> QED
  BY <1>1, <1>4, <1>8, <1>9, OpenFiles, PairStep

LEMMA publish_upload_Pairs ==
  ASSUME PairInv, IInv', NEW t \in Tasks, publish_upload(t)
  PROVE  PairInv'
<1>1. At(t, "open") /\ Publishes(t) /\ job' = job
  BY DEF publish_upload
<1>2. IInv /\ TypeOK /\ InStep(t) /\ run[t].failed \in BOOLEAN /\ run[t].skipped \in BOOLEAN
  BY TaskType DEF PairInv, IInv
<1>3. Exists(From(t))
  BY <1>1, <1>2 DEF InStep, At
<1>4. To(t)[1] \notin {"cache", "lib"}
  BY <1>1, <1>2, EndsType, PlacesAssumption
<1>5. PICK causes : /\ causes = (IF run[t].failed THEN {"bare"} ELSE {})
                                \cup (IF run[t].skipped THEN {"skipped"} ELSE {})
                                \cup (IF Exists(To(t)) THEN {"republished"} ELSE {})
                    /\ Open(t, causes)
  BY DEF publish_upload
<1> QED
  BY <1>1, <1>2, <1>3, <1>4, <1>5, OpenPair

\* What is uploaded in peace is the publisher's own.
LEMMA Uploaded ==
  ASSUME PairInv, NEW t \in Tasks, EndCopy(t), Publishes(t), run[t].item = "jar",
         \A f : Writers(f)' = Writers(f) \ {t},
         NEW jar, jar = <<job[t].repo, "jar", job[t].rev>>
  PROVE  Holds(jar, t)'
<1>1. /\ Copying(t) /\ run[t].pos >= Len(disk[From(t)]) /\ disk' = disk /\ blame' = blame
  BY DEF EndCopy
<1>2. IInv /\ TypeOK /\ InStep(t) /\ t \in Names /\ PiecesBelong
  BY TaskType DEF PairInv, IInv
<1>3. jar = To(t)
  BY DEF To, Held, resolver
<1>4. PICK F : F = From(t) /\ F \in DOMAIN disk /\ F[1] = t /\ jar \in DOMAIN disk
  BY <1>1, <1>2, <1>3, CopyingType, EndsType
<1>5. CASE blame[jar] # {}
  BY <1>1, <1>4, <1>5 DEF Holds, Exists
<1>6. CASE blame[jar] = {}
  <2>1. CopyInStep(t)
    BY <1>1, <1>2, <1>3, <1>6 DEF IInv, CopiesInStep, Damaged
  <2>2. PICK v \in Tasks : disk[F] = Copy(v) /\ disk[jar] = [i \in 1..run[t].pos |-> v]
    BY <1>3, <1>4, <2>1 DEF CopyInStep
  <2>3. Writers(jar)' = {}
    BY <1>3, <2>1 DEF CopyInStep
  <2>4. /\ disk[F] \in [1..Pieces -> {v}] /\ Len(disk[F]) = Pieces /\ Pieces \in Nat \ {0}
        /\ disk[F][1] = v
    BY <2>2, CopyType
  <2>5. 1 \in DOMAIN disk[F] /\ v \in Names
    BY <1>2, <2>4, TaskType
  <2>6. v = t
    BY <1>2, <1>4, <2>4, <2>5, PlacesAssumption DEF PiecesBelong, Comes
  <2>7. run[t].pos = Pieces
    BY <1>1, <1>2, <1>4, <2>4, TaskType
  <2>8. disk[jar] = Copy(t)
    BY <2>2, <2>6, <2>7 DEF Copy
  <2> QED
    BY <1>1, <1>4, <2>3, <2>8 DEF Holds, Exists, Copy
<1> QED
  BY <1>5, <1>6

-----------------------------------------------------------------------------
(* Steps of tasks that download                                            *)

\* The next resolver of the chain, or the end of it.
MovesOn(t) ==
    \/ /\ run[t].member < Len(Chain)
       /\ run'[t].pc = "look" /\ run'[t].member = run[t].member + 1
    \/ /\ run[t].member = Len(Chain)
       /\ run'[t].pc = "done" /\ run'[t].member = run[t].member

LEMMA MovesOnFields ==
  ASSUME TypeOK, NEW t \in Tasks, Goes(t, NextMember(t))
  PROVE  /\ MovesOn(t)
         /\ run' \in [Tasks -> Progress] /\ \A u \in Tasks \ {t} : run'[u] = run[u]
         /\ run'[t].md = run[t].md /\ run'[t].hit = run[t].hit
         /\ run'[t].item = run[t].item /\ run'[t].artifact = run[t].artifact
<1>1. /\ run' \in [Tasks -> Progress] /\ \A u \in Tasks \ {t} : run'[u] = run[u]
      /\ \A x \in Fields :
            run'[t][x] = IF x \in DOMAIN NextMember(t) THEN NextMember(t)[x] ELSE run[t][x]
  BY NextMemberType, GoesType
<1>2. run[t].member \in 1..Len(Chain) /\ Len(Chain) \in Nat
  BY TaskType, IvyCacheAssumption
<1>3. CASE run[t].member < Len(Chain)
  <2> DEFINE c == [pc |-> "look", member |-> run[t].member + 1]
  <2>1. NextMember(t) = c
    BY <1>3 DEF NextMember
  <2>2. DOMAIN c = {"pc", "member"} /\ c["pc"] = "look" /\ c["member"] = run[t].member + 1
    OBVIOUS
  <2> HIDE DEF c
  <2>3. /\ run'[t]["pc"] = "look" /\ run'[t]["member"] = run[t]["member"] + 1
        /\ run'[t]["md"] = run[t]["md"] /\ run'[t]["hit"] = run[t]["hit"]
        /\ run'[t]["item"] = run[t]["item"] /\ run'[t]["artifact"] = run[t]["artifact"]
    BY <1>1, <2>1, <2>2 DEF Fields
  <2> QED
    BY <1>1, <1>3, <2>3 DEF MovesOn
<1>4. CASE ~(run[t].member < Len(Chain))
  <2> DEFINE c == [pc |-> "done"]
  <2>1. NextMember(t) = c
    BY <1>4 DEF NextMember
  <2>2. DOMAIN c = {"pc"} /\ c["pc"] = "done"
    OBVIOUS
  <2> HIDE DEF c
  <2>3. /\ run'[t]["pc"] = "done" /\ run'[t]["member"] = run[t]["member"]
        /\ run'[t]["md"] = run[t]["md"] /\ run'[t]["hit"] = run[t]["hit"]
        /\ run'[t]["item"] = run[t]["item"] /\ run'[t]["artifact"] = run[t]["artifact"]
    BY <1>1, <2>1, <2>2 DEF Fields
  <2>4. run[t].member = Len(Chain)
    BY <1>2, <1>4
  <2> QED
    BY <1>1, <2>3, <2>4 DEF MovesOn
<1> QED
  BY <1>3, <1>4

LEMMA AfterDownload ==
  ASSUME TypeOK, NEW t \in Tasks, InStep(t), ~Publishes(t), NEW ok \in BOOLEAN, Goes(t, After(t, ok))
  PROVE  /\ run'[t].md = run[t].md /\ run'[t].hit = run[t].hit /\ run'[t].item = run[t].item
         /\ run[t].item = "ivy" /\ ~ok => MovesOn(t) /\ run'[t].artifact = run[t].artifact
         /\ run[t].item # "ivy" \/ ok => run'[t].member = run[t].member
         /\ run[t].item = "ivy" /\ ok =>
              run'[t].pc = "parse" /\ run'[t].artifact = run[t].artifact
         /\ run[t].item = "jar" =>
              run'[t].pc = (IF ok THEN "deliver" ELSE "done") /\ run'[t].artifact = ok
         /\ run[t].item = "copy" => run'[t].pc = "done" /\ run'[t].artifact = run[t].artifact
<1>1. run[t].item \in {"ivy", "jar", "copy"}
  BY TaskType DEF Kinds
<1>2. CASE run[t].item = "ivy" /\ ~ok
  <2>1. Goes(t, NextMember(t))
    BY <1>2 DEF After
  <2> QED
    BY <1>2, <2>1, MovesOnFields
<1>3. CASE run[t].item = "ivy" /\ ok
  <2> DEFINE c == [pc |-> "parse"]
  <2>1. Goes(t, c)
    BY <1>3 DEF After
  <2>2. DOMAIN c = {"pc"} /\ c["pc"] = "parse"
    OBVIOUS
  <2> HIDE DEF c
  <2>3. Changed(c)
    BY <2>2 DEF Changed, Fields, PCs
  <2>4. /\ run'[t]["pc"] = "parse" /\ run'[t]["member"] = run[t]["member"]
        /\ run'[t]["md"] = run[t]["md"] /\ run'[t]["hit"] = run[t]["hit"]
        /\ run'[t]["item"] = run[t]["item"] /\ run'[t]["artifact"] = run[t]["artifact"]
    BY <2>1, <2>2, <2>3, GoesType DEF Fields
  <2> QED
    BY <1>3, <2>4
<1>4. CASE run[t].item = "jar"
  <2> DEFINE c == [pc |-> IF ok THEN "deliver" ELSE "done", artifact |-> ok]
  <2>1. Goes(t, c)
    BY <1>4 DEF After
  <2>2. /\ DOMAIN c = {"pc", "artifact"} /\ c["pc"] = (IF ok THEN "deliver" ELSE "done")
        /\ c["artifact"] = ok
    OBVIOUS
  <2> HIDE DEF c
  <2>3. Changed(c)
    BY <2>2 DEF Changed, Fields, PCs
  <2>4. /\ run'[t]["pc"] = (IF ok THEN "deliver" ELSE "done") /\ run'[t]["member"] = run[t]["member"]
        /\ run'[t]["md"] = run[t]["md"] /\ run'[t]["hit"] = run[t]["hit"]
        /\ run'[t]["item"] = run[t]["item"] /\ run'[t]["artifact"] = ok
    BY <2>1, <2>2, <2>3, GoesType DEF Fields
  <2> QED
    BY <1>4, <2>4
<1>5. CASE run[t].item = "copy"
  <2> DEFINE c == [pc |-> "done", delivered |-> ok]
  <2>1. Goes(t, c)
    BY <1>5 DEF After
  <2>2. DOMAIN c = {"pc", "delivered"} /\ c["pc"] = "done" /\ c["delivered"] = ok
    OBVIOUS
  <2> HIDE DEF c
  <2>3. Changed(c)
    BY <2>2 DEF Changed, Fields, PCs
  <2>4. /\ run'[t]["pc"] = "done" /\ run'[t]["member"] = run[t]["member"]
        /\ run'[t]["md"] = run[t]["md"] /\ run'[t]["hit"] = run[t]["hit"]
        /\ run'[t]["item"] = run[t]["item"] /\ run'[t]["artifact"] = run[t]["artifact"]
    BY <2>1, <2>2, <2>3, GoesType DEF Fields
  <2> QED
    BY <1>5, <2>4
<1> QED
  BY <1>1, <1>2, <1>3, <1>4, <1>5

\* The next resolver is asked when the descriptor that is there is damaged,
\* or this one had none.
LEMMA DownloadsMove ==
  ASSUME TypeOK, NEW t \in Tasks, World(t), ~Publishes(t), Downloads(t), run[t].item = "ivy",
         InStep(t), run[t].pc \notin {"done", "killed"},
         MovesOn(t), run'[t].md = run[t].md, run'[t].item = run[t].item,
         run'[t].artifact = run[t].artifact,
         NEW ivy, ivy = build_cache_path(t, "ivy"),
         blame'[ivy] # {} \/ ~Exists(<<Chain[run[t].member], "ivy", job[t].rev>>),
         \A w \in Tasks : job[w].task = "published" => Uploads(w)
  PROVE  Downloads(t)'
<1>1. /\ run'[t].md = "none" /\ run'[t].item = "ivy" /\ run'[t].pc \in {"look", "done"}
      /\ ~run'[t].artifact /\ job' = job
  BY DEF Downloads, InStep, Kinds, MovesOn, World, Turn
<1>2. PICK jar : jar = build_cache_path(t, "jar")
  OBVIOUS
<1>3. ASSUME NEW u \in Tasks, job[u].task = "published", job[u].rev = job[t].rev
      PROVE  \/ blame'[ivy] \cup blame'[<<job[u].repo, "ivy", job[u].rev>>] # {}
             \/ run'[t].pc # "done" /\ \E i \in run'[t].member..Len(Chain) : Chain[i] = job[u].repo
  <2>1. PICK rep : rep = <<job[u].repo, "ivy", job[u].rev>>
    OBVIOUS
  <2> SUFFICES ASSUME blame'[ivy] = {}, blame'[rep] = {}
               PROVE  /\ run'[t].pc # "done"
                      /\ \E i \in run'[t].member..Len(Chain) : Chain[i] = job[u].repo
    BY <2>1
  <2>2. rep \in Places /\ ivy \in Places
    <3>1. Publishes(u)
      BY <1>3 DEF Publishes, Publishing
    <3>2. job[u].repo \in Range(Chain) /\ job[u].rev \in Revisions
      BY <3>1, JobType
    <3> QED
      BY <2>1, <3>2, PlacesHas, PathsType DEF Kinds
  <2>3. blame[ivy] = {} /\ blame[rep] = {}
    BY <2>2 DEF World
  <2>4. PICK i \in run[t].member..Len(Chain) : Chain[i] = job[u].repo
    BY <1>1, <1>3, <2>1, <2>3 DEF Downloads
  <2>5. Exists(rep)
    BY <1>3, <2>1 DEF Uploads
  <2>6. i # run[t].member
    BY <1>3, <2>1, <2>4, <2>5
  <2>7. run[t].member \in Nat /\ Len(Chain) \in Nat
    BY TaskType, IvyCacheAssumption
  <2>8. run[t].member < Len(Chain)
    BY <2>4, <2>6, <2>7
  <2>9. run'[t].pc # "done" /\ run'[t].member = run[t].member + 1
    BY <2>8, <2>7 DEF MovesOn
  <2>10. i \in (run[t].member + 1)..Len(Chain)
    BY <2>4, <2>6, <2>7
  <2> QED
    BY <2>4, <2>9, <2>10
<1>4. PICK q : q = run'[t]
  OBVIOUS
<1> QED
  BY <1>1, <1>2, <1>3, <1>4, DownloadsNext

LEMMA OwnStays ==
  ASSUME PairInv, IInv', NEW t \in Tasks, World(t), ~Publishes(t), NEW q, q = run'[t],
         NEW ivy, ivy = build_cache_path(t, "ivy"), NEW jar, jar = build_cache_path(t, "jar"),
         q.md = run[t].md, q.member = run[t].member, run[t].hit => q.hit,
         q.item = "ivy" <=> run[t].item = "ivy",
         q.pc = "done" => run[t].item # "ivy",
         q.pc = "parse" => Settled(ivy)',
         q.artifact => run[t].artifact \/ q.pc = "deliver",
         q.item = "ivy" /\ q.pc \in {"copying", "parse"} =>
            \/ q.hit \/ "overlap" \in blame'[ivy]
            \/ /\ Writers(ivy)' \subseteq {t}
               /\ \A i \in DOMAIN disk'[ivy] :
                     disk'[ivy][i] = "hole" \/ job[disk'[ivy][i]].repo = Chain[run[t].member],
         q.pc = "done" /\ q.md # "none" /\ ~q.artifact =>
            job[q.md].repo # Chain[q.member] \/ blame'[ivy] \cup blame'[jar] # {}
  PROVE  Downloads(t)'
<1>1. TypeOK /\ Downloads(t) /\ job' = job /\ Tasks' = Tasks
  BY DEF PairInv, IInv, World, Turn, Tasks
<1>2. jar[1] = "cache" /\ jar = build_cache_path(t, "jar")'
  BY <1>1, PathsPart, Triple DEF build_cache_path
<1>3. q.artifact => Settled(jar)'
  <2>1. run[t].artifact => Settled(jar)'
    <3>1. run[t].artifact => Settled(jar) /\ jar \in DOMAIN disk
      BY <1>1 DEF Downloads, Settled, Exists
    <3> QED
      BY <1>2, <3>1 DEF World
  <2>2. q.pc = "deliver" => Settled(jar)'
    <3>1. InStep(t)'
      BY <1>1 DEF IInv
    <3> QED
      BY <1>2, <3>1 DEF InStep
  <2> QED
    BY <2>1, <2>2
<1>4. PICK r : r = run[t]
  OBVIOUS
<1> QED
  BY <1>1, <1>3, <1>4, DownloadsStay

\* What a task that downloads has to do with.
LEMMA Downloader ==
  ASSUME PairInv, NEW t \in Tasks, ~Publishes(t)
  PROVE  /\ IInv /\ TypeOK /\ InStep(t) /\ Downloads(t) /\ CleanCopy(t)
         /\ run[t].item \in {"ivy", "jar", "copy"} /\ resolver(t) = Chain[run[t].member]
         /\ resolver(t) \in Range(Chain) /\ resolver(t) \notin {"cache", "lib"}
         /\ \A k \in Kinds : build_cache_path(t, k) \in Places /\ build_cache_path(t, k)[1] = "cache"
         /\ Retrieved(t) \in Places /\ Retrieved(t)[1] = "lib"
         /\ \A w \in Tasks : job[w].task = "published" => Uploads(w)
<1>1. /\ IInv /\ TypeOK /\ InStep(t) /\ Downloads(t) /\ CleanCopy(t)
  BY DEF PairInv, IInv
<1>2. /\ run[t].item \in {"ivy", "jar", "copy"} /\ resolver(t) = Chain[run[t].member]
      /\ resolver(t) \in Range(Chain) /\ resolver(t) \notin {"cache", "lib"}
  BY <1>1, TaskType, JobType, PlacesAssumption DEF Kinds, resolver
<1>3. \A k \in Kinds : build_cache_path(t, k) \in Places /\ build_cache_path(t, k)[1] = "cache"
  BY <1>1, PathsType, PathsPart, Triple
<1>4. Retrieved(t) \in Places /\ Retrieved(t)[1] = "lib"
  BY <1>1, PathsType, PathsPart
<1>5. \A w \in Tasks : job[w].task = "published" => Uploads(w)
  BY DEF PairInv, Publishes, Publishing
<1> QED
  BY <1>1, <1>2, <1>3, <1>4, <1>5

LEMMA LookInCache_Pairs ==
  ASSUME PairInv, IInv', NEW t \in Tasks, LookInCache(t)
  PROVE  PairInv'
<1>1. /\ run[t].pc = "look" /\ ~Publishes(t) /\ job' = job /\ disk' = disk
      /\ Goes(t, IF Exists(To(t)) THEN Hit(t) ELSE [pc |-> "open"])
      /\ blame' = IF Writers(To(t)) # {} THEN [blame EXCEPT ![To(t)] = @ \cup {"overlap"}] ELSE blame
  BY DEF LookInCache, At
<1>2. /\ IInv /\ TypeOK /\ InStep(t) /\ Downloads(t) /\ run[t].item \in Kinds /\ ~run[t].artifact
  BY <1>1, Downloader DEF InStep, Kinds
<1>3. PICK f \in Places : f = To(t) /\ f = build_cache_path(t, run[t].item) /\ f[1] = "cache"
  BY <1>1, <1>2, EndsType, Downloader
<1>4. Marks(t) /\ (Writers(f) # {} => "overlap" \in blame'[f])
  <2>1. Writers(f) # {} => Exists(f)
    BY <1>2 DEF Writers, TypeOK
  <2> QED
    BY <1>1, <1>2, <1>3, <2>1, OneMarked DEF TypeOK
<1>5. /\ run' \in [Tasks -> Progress] /\ \A u \in Tasks \ {t} : run'[u] = run[u]
      /\ run'[t].md = run[t].md /\ run'[t].member = run[t].member /\ run'[t].item = run[t].item
      /\ run[t].hit => run'[t].hit
      /\ run'[t].pc \in {"parse", "deliver", "open"}
      /\ run'[t].pc = "parse" => run[t].item = "ivy" /\ run'[t].hit /\ Exists(f)
      /\ run'[t].artifact => run[t].artifact \/ run'[t].pc = "deliver"
  <2>1. CASE ~Exists(To(t))
    <3>1. Changed([pc |-> "open"]) /\ Goes(t, [pc |-> "open"])
      BY <1>1, <2>1 DEF Changed, Fields, PCs
    <3>2. /\ run' \in [Tasks -> Progress]
          /\ \A u \in Tasks \ {t} : run'[u] = run[u]
          /\ \A x \in Fields : run'[t][x] = IF x = "pc" THEN "open" ELSE run[t][x]
      BY <1>2, <3>1, GoesType
    <3> QED
      BY <1>2, <3>2 DEF Fields
  <2>2. CASE Exists(To(t)) /\ run[t].item = "ivy"
    <3> DEFINE c == [pc |-> "parse", hit |-> TRUE]
    <3>1. Goes(t, c)
      BY <1>1, <2>2 DEF Hit
    <3>2. DOMAIN c = {"pc", "hit"} /\ c["pc"] = "parse" /\ c["hit"] = TRUE
      OBVIOUS
    <3> HIDE DEF c
    <3>3. Changed(c)
      BY <3>2 DEF Changed, Fields, PCs
    <3>4. /\ run' \in [Tasks -> Progress]
          /\ \A u \in Tasks \ {t} : run'[u] = run[u]
          /\ \A x \in Fields : run'[t][x] = IF x \in DOMAIN c THEN c[x] ELSE run[t][x]
      BY <1>2, <3>1, <3>3, GoesType
    <3>5. /\ run'[t]["md"] = run[t]["md"] /\ run'[t]["member"] = run[t]["member"]
          /\ run'[t]["item"] = run[t]["item"] /\ run'[t]["hit"] = TRUE
          /\ run'[t]["pc"] = "parse" /\ run'[t]["artifact"] = run[t]["artifact"]
      BY <3>2, <3>4 DEF Fields
    <3> QED
      BY <1>3, <2>2, <3>4, <3>5
  <2>3. CASE Exists(To(t)) /\ run[t].item = "jar"
    <3>1. Goes(t, After(t, TRUE))
      BY <1>1, <2>3 DEF Hit
    <3> QED
      BY <1>1, <1>2, <2>3, <3>1, AfterEffect, AfterDownload
  <2> QED
    BY <1>2, <2>1, <2>2, <2>3 DEF Kinds
<1>6. Quiet(t)
  BY <1>1, <1>2, <1>4, <1>5, QuietGoes DEF Copying, At, Marks
<1>7. World(t)
  BY <1>2, <1>4, <1>6, QuietWorld
<1>8. PICK ivy, jar, q : /\ ivy = build_cache_path(t, "ivy") /\ jar = build_cache_path(t, "jar")
                         /\ q = run'[t]
  OBVIOUS
<1>9. q.pc = "parse" => Settled(ivy)'
  <2> SUFFICES ASSUME q.pc = "parse"
               PROVE  Settled(ivy)'
    OBVIOUS
  <2>1. ivy = f /\ Exists(f)
    BY <1>3, <1>5, <1>8
  <2>2. Writers(f)' # {} => "overlap" \in blame'[f]
    BY <1>4, <1>6, QuietFacts
  <2>3. Writers(f)' # {} => Damaged(f)'
    BY <2>2, Marked
  <2> QED
    BY <1>1, <2>1, <2>3 DEF Settled, Exists
<1>10. Downloads(t)'
  BY <1>1, <1>5, <1>7, <1>8, <1>9, OwnStays
<1> QED
  BY <1>1, <1>4, <1>6, <1>10, QuietPair

\* A task that downloads opens a file.
LEMMA OpenDownloads ==
  ASSUME PairInv, IInv', NEW t \in Tasks, At(t, "open"), ~Publishes(t), Exists(From(t)),
         NEW causes, Open(t, causes), job' = job, Exists(To(t)) => "overlap" \in causes,
         run[t].item = "jar" /\ causes = {} => ~OtherResolver(t)
  PROVE  PairInv'
<1>1. /\ IInv /\ TypeOK /\ InStep(t) /\ OnlyFilesBlamed /\ Downloads(t)
      /\ run[t].item \in {"ivy", "jar", "copy"}
  BY Downloader DEF PairInv
<1>2. /\ Turn(t) /\ ~Copying(t) /\ Copying(t)' /\ To(t)' = To(t)
      /\ disk'[To(t)] = <<>>
      /\ \A x \in Fields \ {"pc", "pos"} : run'[t][x] = run[t][x]
  BY <1>1, OpenEffect
<1>3. PICK T \in Places : T = To(t)
  BY <1>1, EndsType
<1>4. World(t)
  BY <1>1, OpenWorld
<1>5. PICK ivy, jar, q : /\ ivy = build_cache_path(t, "ivy") /\ jar = build_cache_path(t, "jar")
                         /\ q = run'[t]
  OBVIOUS
<1>6. /\ q.md = run[t].md /\ q.member = run[t].member /\ q.item = run[t].item
      /\ q.hit = run[t].hit /\ q.artifact = run[t].artifact /\ q.pc = "copying"
  BY <1>2, <1>5 DEF Fields, Copying, At
<1>7. q.item = "ivy" =>
            \/ "overlap" \in blame'[ivy]
            \/ Writers(ivy)' \subseteq {t} /\ DOMAIN disk'[ivy] = {}
  <2> SUFFICES ASSUME q.item = "ivy", "overlap" \notin blame'[ivy]
               PROVE  Writers(ivy)' \subseteq {t} /\ DOMAIN disk'[ivy] = {}
    OBVIOUS
  <2>1. ivy = T
    BY <1>1, <1>3, <1>5, <1>6, EndsType DEF Kinds
  <2>2. ~Exists(T)
    BY <1>3, <2>1, OpenBlame
  <2>3. Writers(T) = {}
    BY <1>1, <2>2 DEF Writers, TypeOK
  <2>4. Writers(T)' = {t}
    BY <1>2, <1>3, <2>3, WritersBegin
  <2> QED
    BY <1>2, <1>3, <2>1, <2>4
<1>8. Downloads(t)'
  BY <1>4, <1>5, <1>6, <1>7, OwnStays
<1> QED
  BY <1>8, OpenPair

LEMMA Fetch_Pairs ==
  ASSUME PairInv, IInv', NEW t \in Tasks, Fetch(t)
  PROVE  PairInv'
<1>1. At(t, "open") /\ ~Publishes(t) /\ Exists(From(t)) /\ job' = job
  BY DEF Fetch, Fetching
<1>2. PICK causes : /\ causes = (IF Exists(To(t)) THEN {"overlap"} ELSE {})
                                \cup (IF run[t].item = "jar" /\ OtherResolver(t) THEN {"guessed"} ELSE {})
                    /\ Open(t, causes)
  BY DEF Fetch
<1> QED
  BY <1>1, <1>2, OpenDownloads

LEMMA copy_file_to_Pairs ==
  ASSUME PairInv, IInv', NEW t \in Tasks, copy_file_to(t)
  PROVE  PairInv'
<1>1. At(t, "open") /\ run[t].item = "copy" /\ job' = job
  BY DEF copy_file_to
<1>2. IInv /\ TypeOK /\ InStep(t)
  BY DEF PairInv, IInv
<1>3. ~Publishes(t)
  BY <1>1, <1>2 DEF InStep, Kinds
<1>4. Exists(From(t))
  BY <1>1, <1>2, <1>3, EndsType DEF InStep, Settled
<1>5. PICK causes : causes = (IF Exists(To(t)) THEN {"overlap"} ELSE {}) /\ Open(t, causes)
  BY DEF copy_file_to
<1> QED
  BY <1>1, <1>3, <1>4, <1>5, OpenDownloads

LEMMA FetchSkips_Pairs ==
  ASSUME PairInv, IInv', NEW t \in Tasks, FetchSkips(t)
  PROVE  PairInv'
<1>1. /\ run[t].pc = "open" /\ ~Publishes(t) /\ run[t].item # "copy" /\ Exists(To(t))
      /\ Goes(t, After(t, TRUE)) /\ job' = job /\ disk' = disk
      /\ blame' = [blame EXCEPT ![To(t)] = @ \cup {"overlap"}]
  BY DEF FetchSkips, Fetching, GetSkips, At
<1>2. /\ IInv /\ TypeOK /\ InStep(t) /\ run[t].item \in {"ivy", "jar"}
  BY <1>1, Downloader
<1>3. PICK f \in Places : f = To(t) /\ f = build_cache_path(t, run[t].item) /\ f[1] = "cache"
  BY <1>1, <1>2, EndsType, Downloader DEF Kinds
<1>4. Marks(t) /\ "overlap" \in blame'[f]
  BY <1>1, <1>2, <1>3, OneMarked DEF TypeOK
<1>5. Quiet(t)
  BY <1>1, <1>2, <1>4, AfterQuiet DEF Copying, At
<1>6. World(t)
  BY <1>2, <1>4, <1>5, QuietWorld
<1>7. PICK ivy, jar, q : /\ ivy = build_cache_path(t, "ivy") /\ jar = build_cache_path(t, "jar")
                         /\ q = run'[t]
  OBVIOUS
<1>8. /\ q.md = run[t].md /\ q.hit = run[t].hit /\ q.item = run[t].item /\ q.member = run[t].member
      /\ q.pc = "parse" => run[t].item = "ivy"
      /\ q.pc \in {"parse", "deliver"}
      /\ q.artifact => run[t].artifact \/ q.pc = "deliver"
  BY <1>1, <1>2, <1>7, AfterDownload
<1>9. q.item = "ivy" => ivy = f
  BY <1>3, <1>7, <1>8
<1>10. Exists(f)' /\ Damaged(f)'
  BY <1>1, <1>3, <1>4, Marked DEF Exists
<1>11. q.pc = "parse" => Settled(ivy)'
  BY <1>8, <1>9, <1>10 DEF Settled
<1>12. Downloads(t)'
  BY <1>1, <1>4, <1>6, <1>7, <1>8, <1>9, <1>11, OwnStays
<1> QED
  BY <1>1, <1>4, <1>5, <1>12, QuietPair

\* The resolver a descriptor came from has the jar, or the descriptor is
\* known to be no good.
LEMMA JarThere ==
  ASSUME PairInv, NEW t \in Tasks, ~Publishes(t), run[t].item = "jar",
         NEW ivy, ivy = build_cache_path(t, "ivy"), blame[ivy] = {}, ~OtherResolver(t)
  PROVE  Exists(From(t))
<1>1. IInv /\ TypeOK /\ InStep(t) /\ Downloads(t) /\ Paired
  BY Downloader DEF PairInv
<1>2. PICK v : v = run[t].md
  OBVIOUS
<1>3. v # "none" /\ Comes(v, ivy) /\ Holds(ivy, v) /\ job[v].repo = resolver(t)
  BY <1>1, <1>2 DEF Downloads, OtherResolver
<1>4. ivy[1] = "cache" /\ ivy[2] = "ivy" /\ ivy[3] = job[t].rev
  BY PathsPart, Triple
<1>5. disk[ivy] = Copy(v) /\ ivy \in DOMAIN disk
  BY <1>3 DEF Holds, Exists
<1>6. disk[ivy][1] = v /\ 1 \in DOMAIN disk[ivy] /\ v # "hole"
  <2>1. v \in Names
    BY <1>1, <1>3, TaskType DEF Comes
  <2>2. disk[ivy] \in [1..Pieces -> {v}] /\ Pieces \in Nat \ {0} /\ disk[ivy][1] = v
    BY <1>5, CopyType
  <2>3. 1 \in 1..Pieces
    BY <2>2
  <2> QED
    BY <2>1, <2>2, <2>3, PlacesAssumption
<1>7. Holds(Partner(v, ivy), v)
  BY <1>1, <1>4, <1>5, <1>6 DEF Paired
<1>8. Partner(v, ivy) = From(t)
  BY <1>1, <1>3, <1>4, EndsType DEF Partner, Kinds
<1> QED
  BY <1>7, <1>8 DEF Holds

LEMMA FetchMissing_Pairs ==
  ASSUME PairInv, IInv', NEW t \in Tasks, FetchMissing(t)
  PROVE  PairInv'
<1>1. /\ run[t].pc = "open" /\ ~Publishes(t) /\ run[t].item # "copy" /\ ~Exists(From(t))
      /\ Goes(t, After(t, FALSE)) /\ job' = job
  BY DEF FetchMissing, Fetching, At
<1>2. /\ IInv /\ TypeOK /\ InStep(t) /\ Downloads(t) /\ run[t].item \in {"ivy", "jar"}
      /\ resolver(t) = Chain[run[t].member]
      /\ \A w \in Tasks : job[w].task = "published" => Uploads(w)
  BY <1>1, Downloader
<1>3. ~Copying(t)
  BY <1>1 DEF Copying, At
<1>4. PICK ivy, jar, q : /\ ivy = build_cache_path(t, "ivy") /\ jar = build_cache_path(t, "jar")
                         /\ q = run'[t]
  OBVIOUS
<1>5. ASSUME World(t)
      PROVE  Downloads(t)'
  <2>1. CASE run[t].item = "ivy"
    <3>1. /\ MovesOn(t) /\ run'[t].md = run[t].md /\ run'[t].item = run[t].item
          /\ run'[t].artifact = run[t].artifact
      BY <1>1, <1>2, <2>1, AfterDownload
    <3>2. From(t) = <<Chain[run[t].member], "ivy", job[t].rev>>
      BY <1>1, <1>2, <2>1, EndsType DEF Kinds
    <3>3. ~Exists(<<Chain[run[t].member], "ivy", job[t].rev>>)
      BY <1>1, <3>2
    <3> QED
      BY <1>1, <1>2, <1>4, <1>5, <2>1, <3>1, <3>3, DownloadsMove
  <2>2. CASE run[t].item = "jar"
    <3>1. /\ q.md = run[t].md /\ q.hit = run[t].hit /\ q.item = run[t].item
          /\ q.member = run[t].member /\ q.pc = "done" /\ q.artifact = FALSE
      BY <1>1, <1>2, <1>4, <2>2, AfterDownload
    <3>2. OtherResolver(t) \/ blame[ivy] # {}
      BY <1>1, <1>4, <2>2, JarThere
    <3>3. ivy \in Places
      BY <1>1, <1>4, Downloader DEF Kinds
    <3>4. job[q.md].repo # Chain[q.member] \/ blame'[ivy] # {}
      BY <1>2, <1>5, <3>1, <3>2, <3>3 DEF World, OtherResolver
    <3> QED
      BY <1>1, <1>4, <1>5, <2>2, <3>1, <3>4, OwnStays
  <2> QED
    BY <1>2, <2>1, <2>2
<1>6. CASE job[t].wget /\ resolver(t) \in Remote
  <2>1. World(t)
    BY <1>2, <1>6, LeaveWorld
  <2>2. ~Copying(t)'
    BY <1>2, <1>6, LeaveEffect
  <2>3. CleanCopy(t)'
    BY <2>2 DEF CleanCopy
  <2>4. PiecesBelong' /\ OnlyFilesBlamed' /\ Paired'
    BY <1>6, <2>1, LeaveFiles
  <2> QED
    BY <1>1, <1>5, <2>1, <2>3, <2>4, PairStep
<1>7. CASE ~(job[t].wget /\ resolver(t) \in Remote)
  <2>1. disk' = disk /\ blame' = blame
    BY <1>7 DEF FetchMissing
  <2>2. Marks(t)
    BY <2>1 DEF Marks
  <2>3. Quiet(t)
    BY <1>1, <1>2, <1>3, <2>1, <2>2, AfterQuiet
  <2>4. World(t)
    BY <1>2, <2>2, <2>3, QuietWorld
  <2> QED
    BY <1>1, <1>5, <2>2, <2>3, <2>4, QuietPair
<1> QED
  BY <1>6, <1>7

\* A step of a task that has come to its jar, or further, and stays with what
\* it has read.
LEMMA LateStays ==
  ASSUME PairInv, IInv', NEW t \in Tasks, Quiet(t), Marks(t), ~Publishes(t), run[t].item # "ivy",
         NEW q, q = run'[t], q.md = run[t].md, q.hit = run[t].hit, q.member = run[t].member,
         q.item # "ivy", q.pc # "parse", run[t].artifact, q.artifact = run[t].artifact
  PROVE  PairInv'
<1>1. World(t)
  BY QuietWorld DEF PairInv
<1>2. PICK ivy, jar : ivy = build_cache_path(t, "ivy") /\ jar = build_cache_path(t, "jar")
  OBVIOUS
<1>3. Downloads(t)'
  BY <1>1, <1>2, OwnStays
<1> QED
  BY <1>3, QuietPair

LEMMA Ends_Pairs ==
  ASSUME PairInv, IInv', NEW t \in Tasks, run[t].pc = "deliver", NEW delivered \in BOOLEAN,
         Ends(t, delivered)
  PROVE  PairInv'
<1>1. /\ job' = job /\ disk' = disk /\ blame' = blame
      /\ Goes(t, [pc |-> "done", delivered |-> delivered])
  BY DEF Ends
<1>2. IInv /\ TypeOK /\ InStep(t) /\ run[t].item = "jar" /\ run[t].artifact /\ ~Publishes(t)
  BY DEF PairInv, IInv, InStep
<1> DEFINE c == [pc |-> "done", delivered |-> delivered]
<1>3. DOMAIN c = {"pc", "delivered"} /\ c["pc"] = "done" /\ c["delivered"] = delivered
  OBVIOUS
<1>4. Goes(t, c)
  BY <1>1
<1> HIDE DEF c
<1>5. Changed(c)
  BY <1>3 DEF Changed, Fields, PCs
<1>6. /\ run' \in [Tasks -> Progress] /\ \A u \in Tasks \ {t} : run'[u] = run[u]
      /\ \A x \in Fields : run'[t][x] = IF x \in DOMAIN c THEN c[x] ELSE run[t][x]
  BY <1>2, <1>4, <1>5, GoesType
<1>7. /\ run'[t]["pc"] = "done" /\ run'[t]["member"] = run[t]["member"]
      /\ run'[t]["md"] = run[t]["md"] /\ run'[t]["hit"] = run[t]["hit"]
      /\ run'[t]["item"] = run[t]["item"] /\ run'[t]["artifact"] = run[t]["artifact"]
  BY <1>3, <1>6 DEF Fields
<1>8. Marks(t)
  BY <1>1 DEF Marks
<1>9. Quiet(t)
  BY <1>1, <1>2, <1>6, <1>7, <1>8, QuietGoes DEF Copying, At, Marks
<1> QED
  BY <1>2, <1>7, <1>8, <1>9, LateStays

LEMMA retrieve_module_cb_Pairs ==
  ASSUME PairInv, IInv', NEW t \in Tasks, retrieve_module_cb(t)
  PROVE  PairInv'
<1>1. run[t].pc = "deliver" /\ job' = job /\ disk' = disk
  BY DEF retrieve_module_cb, At
<1>2. IInv /\ TypeOK /\ InStep(t) /\ run[t].item = "jar" /\ run[t].artifact /\ ~Publishes(t)
  BY <1>1 DEF PairInv, IInv, InStep
<1>3. PICK lib \in Places : lib = Retrieved(t) /\ lib[1] = "lib"
  BY <1>2, Downloader
<1>4. /\ run' \in [Tasks -> Progress] /\ \A u \in Tasks \ {t} : run'[u] = run[u]
      /\ run'[t].pc \in {"done", "open"} /\ run'[t].member = run[t].member
      /\ run'[t].md = run[t].md /\ run'[t].hit = run[t].hit
      /\ run'[t].item \in {"jar", "copy"} /\ run'[t].artifact = run[t].artifact
  <2>1. CASE Exists(Retrieved(t))
    <3> DEFINE c == [pc |-> "done", delivered |-> TRUE]
    <3>1. Goes(t, c)
      BY <2>1 DEF retrieve_module_cb
    <3>2. DOMAIN c = {"pc", "delivered"} /\ c["pc"] = "done" /\ c["delivered"] = TRUE
      OBVIOUS
    <3> HIDE DEF c
    <3>3. Changed(c)
      BY <3>2 DEF Changed, Fields, PCs
    <3>4. /\ run' \in [Tasks -> Progress] /\ \A u \in Tasks \ {t} : run'[u] = run[u]
          /\ \A x \in Fields : run'[t][x] = IF x \in DOMAIN c THEN c[x] ELSE run[t][x]
      BY <1>2, <3>1, <3>3, GoesType
    <3>5. /\ run'[t]["pc"] = "done" /\ run'[t]["member"] = run[t]["member"]
          /\ run'[t]["md"] = run[t]["md"] /\ run'[t]["hit"] = run[t]["hit"]
          /\ run'[t]["item"] = run[t]["item"] /\ run'[t]["artifact"] = run[t]["artifact"]
      BY <3>2, <3>4 DEF Fields
    <3> QED
      BY <1>2, <3>4, <3>5
  <2>2. CASE ~Exists(Retrieved(t))
    <3> DEFINE c == [pc |-> "open", item |-> "copy"]
    <3>1. Goes(t, c)
      BY <2>2 DEF retrieve_module_cb
    <3>2. DOMAIN c = {"pc", "item"} /\ c["pc"] = "open" /\ c["item"] = "copy"
      OBVIOUS
    <3> HIDE DEF c
    <3>3. Changed(c)
      BY <3>2 DEF Changed, Fields, PCs
    <3>4. /\ run' \in [Tasks -> Progress] /\ \A u \in Tasks \ {t} : run'[u] = run[u]
          /\ \A x \in Fields : run'[t][x] = IF x \in DOMAIN c THEN c[x] ELSE run[t][x]
      BY <1>2, <3>1, <3>3, GoesType
    <3>5. /\ run'[t]["pc"] = "open" /\ run'[t]["member"] = run[t]["member"]
          /\ run'[t]["md"] = run[t]["md"] /\ run'[t]["hit"] = run[t]["hit"]
          /\ run'[t]["item"] = "copy" /\ run'[t]["artifact"] = run[t]["artifact"]
      BY <3>2, <3>4 DEF Fields
    <3> QED
      BY <3>4, <3>5
  <2> QED
    BY <2>1, <2>2
<1>5. Marks(t)
  <2>1. Writers(lib) # {} => Exists(lib)
    BY <1>2 DEF Writers, TypeOK
  <2>2. \/ blame' = blame
        \/ Writers(lib) # {} /\ blame' = [blame EXCEPT ![lib] = @ \cup {"overlap"}]
    BY <1>3 DEF retrieve_module_cb
  <2> QED
    BY <1>2, <1>3, <2>1, <2>2, OneMarked
<1>6. Quiet(t)
  BY <1>1, <1>2, <1>4, <1>5, QuietGoes DEF Copying, At, Marks
<1> QED
  BY <1>2, <1>4, <1>5, <1>6, LateStays

LEMMA resolver_find_module_Pairs ==
  ASSUME PairInv, IInv', NEW t \in Tasks, resolver_find_module(t)
  PROVE  PairInv'
<1>1. run[t].pc = "parse" /\ job' = job /\ disk' = disk /\ blame' = blame
  BY DEF resolver_find_module, At
<1>2. /\ IInv /\ TypeOK /\ InStep(t) /\ run[t].item = "ivy" /\ ~Publishes(t) /\ ~run[t].artifact
      /\ PiecesBelong /\ FilesWhole /\ CopiesInStep
  BY <1>1 DEF PairInv, IInv, InStep, Kinds
<1>3. /\ Downloads(t) /\ resolver(t) = Chain[run[t].member]
      /\ \A w \in Tasks : job[w].task = "published" => Uploads(w)
  BY <1>2, Downloader
<1>4. PICK ivy, jar : /\ ivy = build_cache_path(t, "ivy") /\ jar = build_cache_path(t, "jar")
                      /\ Goes(t, IF Whole(ivy) THEN [pc |-> "look", item |-> "jar", md |-> disk[ivy][1]]
                                 ELSE NextMember(t))
  BY DEF resolver_find_module
<1>5. Settled(ivy) /\ ivy \in DOMAIN disk /\ ivy[1] = "cache"
  <2>1. Settled(ivy)
    BY <1>1, <1>3, <1>4 DEF Downloads
  <2> QED
    BY <1>2, <1>4, <2>1, Downloader DEF Settled, Exists, Kinds
<1>6. Marks(t)
  BY <1>1 DEF Marks
<1>7. CASE Whole(ivy)
  <2> DEFINE c == [pc |-> "look", item |-> "jar", md |-> disk[ivy][1]]
  <2>1. Goes(t, c)
    BY <1>4, <1>7
  <2>2. PICK v \in Tasks : disk[ivy] = Copy(v) /\ disk[ivy][1] = v
    BY <1>7, CopyType DEF Whole
  <2>3. DOMAIN c = {"pc", "item", "md"} /\ c["pc"] = "look" /\ c["item"] = "jar" /\ c["md"] = v
    BY <2>2
  <2> HIDE DEF c
  <2>4. Changed(c)
    BY <2>3 DEF Changed, Fields, PCs, Kinds
  <2>5. /\ run' \in [Tasks -> Progress] /\ \A u \in Tasks \ {t} : run'[u] = run[u]
        /\ \A x \in Fields : run'[t][x] = IF x \in DOMAIN c THEN c[x] ELSE run[t][x]
    BY <1>2, <2>1, <2>4, GoesType
  <2>6. PICK q : /\ q = run'[t] /\ q.pc = "look" /\ q.member = run[t].member /\ q.md = v
                 /\ q.hit = run[t].hit /\ q.item = "jar" /\ q.artifact = run[t].artifact
    <3>1. /\ run'[t]["pc"] = "look" /\ run'[t]["member"] = run[t]["member"]
          /\ run'[t]["md"] = v /\ run'[t]["hit"] = run[t]["hit"]
          /\ run'[t]["item"] = "jar" /\ run'[t]["artifact"] = run[t]["artifact"]
      BY <2>3, <2>5 DEF Fields
    <3> QED
      BY <3>1
  <2>7. Quiet(t)
    BY <1>1, <1>2, <1>6, <2>5, <2>6, QuietGoes DEF Copying, At, Marks
  <2>8. World(t)
    BY <1>2, <1>6, <2>7, QuietWorld
  <2>9. v # "none" /\ v # "hole" /\ 1 \in DOMAIN disk[ivy]
    <3>1. v \in Names
      BY <1>2, TaskType
    <3>2. disk[ivy] \in [1..Pieces -> {v}] /\ Pieces \in Nat \ {0}
      BY <2>2, CopyType
    <3>3. 1 \in 1..Pieces
      BY <3>2
    <3> QED
      BY <3>1, <3>2, <3>3, PlacesAssumption
  <2>10. Comes(v, ivy)
    BY <1>2, <1>5, <2>2, <2>9 DEF PiecesBelong
  <2>11. Holds(ivy, v)
    BY <1>5, <2>2 DEF Holds, Settled, Damaged
  <2>12. Holds(ivy, v)'
    BY <1>2, <2>8, <2>11, HoldsKept
  <2>13. job[v].repo # Chain[run[t].member] => run[t].hit \/ "overlap" \in blame[ivy]
    BY <1>1, <1>2, <1>3, <1>4, <2>2, <2>9 DEF Downloads
  <2>14. Downloads(t)'
    BY <1>1, <1>2, <1>4, <2>6, <2>9, <2>10, <2>12, <2>13, DownloadsNext
  <2> QED
    BY <1>2, <1>6, <2>7, <2>14, QuietPair
<1>8. CASE ~Whole(ivy)
  <2>1. Goes(t, NextMember(t))
    BY <1>4, <1>8
  <2>2. /\ MovesOn(t)
        /\ run' \in [Tasks -> Progress] /\ \A u \in Tasks \ {t} : run'[u] = run[u]
        /\ run'[t].md = run[t].md /\ run'[t].item = run[t].item
        /\ run'[t].artifact = run[t].artifact
    BY <1>2, <2>1, MovesOnFields
  <2>3. run'[t].pc # "copying"
    BY <2>2 DEF MovesOn
  <2>4. Quiet(t)
    BY <1>1, <1>2, <1>6, <2>2, <2>3, QuietGoes DEF Copying, At, Marks
  <2>5. World(t)
    BY <1>2, <1>6, <2>4, QuietWorld
  <2>6. blame[ivy] # {}
    <3>1. CASE Damaged(ivy)
      BY <3>1 DEF Damaged
    <3>2. CASE ~Damaged(ivy)
      BY <1>2, <1>5, <1>8, <3>2 DEF FilesWhole, Settled, Whole, Exists
    <3> QED
      BY <3>1, <3>2
  <2>7. Downloads(t)'
    BY <1>1, <1>2, <1>3, <1>4, <2>2, <2>5, <2>6, DownloadsMove
  <2> QED
    BY <1>2, <1>6, <2>4, <2>7, QuietPair
<1> QED
  BY <1>7, <1>8

LEMMA CopyPiece_Pairs ==
  ASSUME PairInv, IInv', NEW t \in Tasks, CopyPiece(t)
  PROVE  PairInv'
<1>1. IInv /\ TypeOK /\ InStep(t) /\ CleanCopy(t) /\ PiecesBelong
  BY DEF PairInv, IInv
<1>2. PICK i : i = run[t].pos + 1
  OBVIOUS
<1>3. /\ Turn(t) /\ Copying(t) /\ Copying(t)' /\ blame' = blame /\ i \in 1..Len(disk[From(t)])
      /\ To(t)' = To(t) /\ From(t)' = From(t)
      /\ \A x \in Fields \ {"pos"} : run'[t][x] = run[t][x]
      /\ disk' = [disk EXCEPT ![To(t)] = Put(@, i, disk[From(t)][i])]
  BY <1>1, <1>2, PieceEffect
<1>4. World(t)
  BY <1>1, PieceWorld
<1>5. /\ run'[t].pc = run[t].pc /\ run'[t].item = run[t].item /\ run'[t].md = run[t].md
      /\ run'[t].member = run[t].member /\ run'[t].hit = run[t].hit
      /\ run'[t].failed = run[t].failed /\ run'[t].skipped = run[t].skipped
      /\ run'[t].artifact = run[t].artifact /\ run[t].pc = "copying" /\ job' = job
  BY <1>3 DEF Fields, Copying, At, Turn
<1>6. PICK T, F : T = To(t) /\ F = From(t) /\ T \in DOMAIN disk /\ F \in DOMAIN disk
  BY <1>1, <1>3, CopyingType
<1>7. CleanCopy(t)'
  <2>1. (OtherResolver(t)' <=> OtherResolver(t)) /\ (Publishes(t)' <=> Publishes(t))
    BY <1>5 DEF OtherResolver, resolver, Publishes
  <2>2. run[t].item \in Kinds /\ blame[T] = {} =>
           /\ blame[F] = {}
           /\ Publishes(t) => ~run[t].failed /\ ~run[t].skipped
           /\ ~Publishes(t) /\ run[t].item = "jar" => ~OtherResolver(t)
    BY <1>1, <1>3, <1>6 DEF CleanCopy
  <2>3. T = To(t)' /\ F = From(t)'
    BY <1>3, <1>6
  <2> QED
    BY <1>3, <1>5, <2>1, <2>2, <2>3 DEF CleanCopy
<1>8. Publishes(t) => Uploads(t)'
  <2> SUFFICES ASSUME Publishes(t)
               PROVE  Uploads(t)'
    OBVIOUS
  <2>1. Uploads(t)
    BY DEF PairInv
  <2> QED
    BY <1>1, <1>4, <1>5, <2>1, UploadsNext
<1>9. ~Publishes(t) => Downloads(t)'
  <2> SUFFICES ASSUME ~Publishes(t)
               PROVE  Downloads(t)'
    OBVIOUS
  <2>1. Downloads(t) /\ resolver(t) = Chain[run[t].member] /\ resolver(t) \in Range(Chain)
    BY Downloader
  <2>2. PICK ivy, jar, q : /\ ivy = build_cache_path(t, "ivy") /\ jar = build_cache_path(t, "jar")
                           /\ q = run'[t]
    OBVIOUS
  <2>3. ASSUME q.item = "ivy", ~q.hit, "overlap" \notin blame'[ivy]
        PROVE  /\ Writers(ivy)' \subseteq {t}
               /\ \A j \in DOMAIN disk'[ivy] :
                     disk'[ivy][j] = "hole" \/ job[disk'[ivy][j]].repo = Chain[run[t].member]
    <3>1. ivy = T /\ F[1] = Chain[run[t].member]
      <4>1. run[t].item = "ivy" /\ run[t].item \in Kinds
        BY <1>5, <2>2, <2>3 DEF Kinds
      <4>2. To(t) = ivy /\ From(t) = <<resolver(t), "ivy", job[t].rev>>
        BY <1>1, <2>2, <4>1, EndsType
      <4> QED
        BY <1>6, <2>1, <4>2, Triple
    <3>2. /\ Writers(ivy) \subseteq {t}
          /\ \A j \in DOMAIN disk[ivy] :
                disk[ivy][j] = "hole" \/ job[disk[ivy][j]].repo = Chain[run[t].member]
      BY <1>3, <1>5, <2>1, <2>2, <2>3 DEF Downloads
    <3>3. Writers(ivy)' = Writers(ivy)
      BY <1>3, WritersSame
    <3>4. PICK x : x = disk[F][i] /\ i \in DOMAIN disk[F]
      BY <1>1, <1>3, <1>6, DiskType
    <3>5. x = "hole" \/ job[x].repo = Chain[run[t].member]
      BY <1>1, <1>6, <2>1, <3>1, <3>4 DEF PiecesBelong, Comes
    <3>6. disk'[ivy] = Put(disk[ivy], i, x)
      BY <1>3, <1>6, <3>1, <3>4
    <3>7. Len(disk[ivy]) \in Nat /\ DOMAIN disk[ivy] = 1..Len(disk[ivy])
      BY <1>1, <1>6, <3>1, DiskType
    <3>8. i \in Nat
      BY <1>1, <1>3, <1>6, DiskType
    <3>9. \A j \in DOMAIN disk'[ivy] :
             \/ disk'[ivy][j] = "hole"
             \/ j \in DOMAIN disk[ivy] /\ disk'[ivy][j] = disk[ivy][j]
             \/ disk'[ivy][j] = x
      BY <3>6, <3>7, <3>8 DEF Put
    <3> QED
      BY <3>2, <3>3, <3>5, <3>9
  <2> QED
    BY <1>4, <1>5, <2>2, <2>3, OwnStays
<1> QED
  BY <1>4, <1>7, <1>8, <1>9, PieceFiles, PairStep

LEMMA EndCopy_Pairs ==
  ASSUME PairInv, IInv', NEW t \in Tasks, EndCopy(t)
  PROVE  PairInv'
<1>1. /\ Copying(t) /\ run[t].pos >= Len(disk[From(t)]) /\ Goes(t, After(t, TRUE))
      /\ job' = job /\ disk' = disk /\ blame' = blame
  BY DEF EndCopy
<1>2. IInv /\ TypeOK /\ InStep(t) /\ run[t].pc = "copying" /\ CopiesInStep
  BY <1>1 DEF PairInv, IInv, Copying, At
<1>3. Marks(t)
  BY <1>1 DEF Marks
<1>4. Quiet(t)
  BY <1>1, <1>2, <1>3, AfterQuiet
<1>5. World(t) /\ \A f : Writers(f)' = Writers(f) \ {t}
  BY <1>2, <1>3, <1>4, QuietWorld, QuietFacts
<1>6. Publishes(t) => Uploads(t)'
  <2> SUFFICES ASSUME Publishes(t)
               PROVE  Uploads(t)'
    OBVIOUS
  <2>1. Uploads(t) /\ run[t].item \in Kinds
    BY <1>2 DEF PairInv, InStep
  <2>2. PICK q, jar : q = run'[t] /\ jar = <<job[t].repo, "jar", job[t].rev>>
    OBVIOUS
  <2>3. q.failed = run[t].failed /\ q.skipped = run[t].skipped
    BY <1>1, <1>2, <2>2, AfterUpload, TaskType
  <2>4. run[t].item = "jar" => Holds(jar, t)'
    BY <1>5, <2>2, Uploaded
  <2> QED
    BY <1>2, <1>5, <2>1, <2>2, <2>3, <2>4, UploadsNext DEF Kinds
<1>7. ~Publishes(t) => Downloads(t)'
  <2> SUFFICES ASSUME ~Publishes(t)
               PROVE  Downloads(t)'
    OBVIOUS
  <2>1. /\ Downloads(t) /\ resolver(t) = Chain[run[t].member]
        /\ run[t].item \in {"ivy", "jar", "copy"}
    BY Downloader
  <2>2. PICK ivy, jar, q : /\ ivy = build_cache_path(t, "ivy") /\ jar = build_cache_path(t, "jar")
                           /\ q = run'[t]
    OBVIOUS
  <2>3. /\ q.md = run[t].md /\ q.hit = run[t].hit /\ q.item = run[t].item /\ q.member = run[t].member
        /\ q.pc = "parse" => run[t].item = "ivy"
        /\ q.pc = "done" => run[t].item = "copy"
        /\ q.pc # "copying"
        /\ run[t].item # "jar" => q.artifact = run[t].artifact
        /\ run[t].item = "jar" => q.pc = "deliver"
    BY <1>1, <1>2, <2>1, <2>2, AfterDownload
  <2>4. run[t].item = "copy" => run[t].artifact
    BY <1>2 DEF InStep
  <2>5. ASSUME run[t].item = "ivy"
        PROVE  /\ Settled(ivy)'
               /\ \/ q.hit \/ "overlap" \in blame'[ivy]
                  \/ /\ Writers(ivy)' \subseteq {t}
                     /\ \A i \in DOMAIN disk'[ivy] :
                           disk'[ivy][i] = "hole" \/ job[disk'[ivy][i]].repo = Chain[run[t].member]
    <3>1. ivy = To(t)
      BY <1>2, <2>2, <2>5, EndsType DEF Kinds
    <3>2. Exists(ivy)
      BY <1>1, <1>2, <3>1 DEF TypeOK
    <3>3. Damaged(ivy) \/ Writers(ivy) = {t}
      BY <1>1, <1>2, <3>1 DEF CopiesInStep, CopyInStep
    <3>4. Settled(ivy)'
      BY <1>1, <1>5, <3>2, <3>3 DEF Settled, Exists, Damaged
    <3>5. \/ run[t].hit \/ "overlap" \in blame[ivy]
          \/ /\ Writers(ivy) \subseteq {t}
             /\ \A i \in DOMAIN disk[ivy] :
                   disk[ivy][i] = "hole" \/ job[disk[ivy][i]].repo = Chain[run[t].member]
      BY <1>2, <2>1, <2>2, <2>5 DEF Downloads
    <3> QED
      BY <1>1, <1>5, <2>3, <3>4, <3>5
  <2> QED
    BY <1>5, <2>2, <2>3, <2>4, <2>5, OwnStays
<1> QED
  BY <1>3, <1>4, <1>6, <1>7, QuietPair

LEMMA CopyFails_Pairs ==
  ASSUME PairInv, IInv', NEW t \in Tasks, CopyFails(t)
  PROVE  PairInv'
<1>1. /\ Copying(t) /\ job' = job /\ disk' = disk
      /\ blame' = [blame EXCEPT ![To(t)] = @ \cup {"cut"}]
  BY DEF CopyFails
<1>2. PICK ok \in BOOLEAN : /\ Goes(t, After(t, ok))
                            /\ ok => run[t].item = "copy"
  BY DEF CopyFails
<1>3. IInv /\ TypeOK /\ InStep(t) /\ run[t].pc = "copying"
  BY <1>1 DEF PairInv, IInv, Copying, At
<1>4. PICK T \in Places : T = To(t) /\ T \in DOMAIN disk
  BY <1>1, <1>3, CopyingType
<1>5. Marks(t) /\ "cut" \in blame'[T]
  <2>1. blame'[T] = blame[T] \cup {"cut"}
    BY <1>1, <1>3, <1>4 DEF TypeOK
  <2>2. Marks(t)
    BY <1>1, <1>3, <1>4, OneMarked DEF Exists
  <2> QED
    BY <2>1, <2>2
<1>6. Quiet(t)
  BY <1>1, <1>2, <1>3, <1>4, <1>5, AfterQuiet
<1>7. World(t)
  BY <1>3, <1>5, <1>6, QuietWorld
<1>8. Publishes(t) => Uploads(t)'
  <2> SUFFICES ASSUME Publishes(t)
               PROVE  Uploads(t)'
    OBVIOUS
  <2>1. Uploads(t) /\ run[t].item \in Kinds
    BY <1>3 DEF PairInv, InStep
  <2>2. PICK q : q = run'[t]
    OBVIOUS
  <2>3. ~ok
    BY <1>2, <2>1 DEF Kinds
  <2>4. q.failed
    BY <1>2, <1>3, <2>2, <2>3, AfterUpload
  <2> QED
    BY <1>3, <1>7, <2>1, <2>2, <2>4, UploadsNext
<1>9. ~Publishes(t) => Downloads(t)'
  <2> SUFFICES ASSUME ~Publishes(t)
               PROVE  Downloads(t)'
    OBVIOUS
  <2>1. /\ Downloads(t) /\ resolver(t) = Chain[run[t].member]
        /\ run[t].item \in {"ivy", "jar", "copy"}
        /\ \A w \in Tasks : job[w].task = "published" => Uploads(w)
    BY Downloader
  <2>2. PICK ivy, jar, q : /\ ivy = build_cache_path(t, "ivy") /\ jar = build_cache_path(t, "jar")
                           /\ q = run'[t]
    OBVIOUS
  <2>3. CASE run[t].item = "ivy"
    <3>1. /\ MovesOn(t) /\ run'[t].md = run[t].md /\ run'[t].item = run[t].item
          /\ run'[t].artifact = run[t].artifact
      BY <1>2, <1>3, <2>3, AfterDownload
    <3>2. T = ivy
      BY <1>3, <1>4, <2>2, <2>3, EndsType DEF Kinds
    <3> QED
      BY <1>3, <1>5, <1>7, <2>1, <2>2, <2>3, <3>1, <3>2, DownloadsMove
  <2>4. CASE run[t].item = "jar"
    <3>1. /\ q.md = run[t].md /\ q.hit = run[t].hit /\ q.item = run[t].item
          /\ q.member = run[t].member /\ q.pc = "done" /\ q.artifact = FALSE
      BY <1>2, <1>3, <2>2, <2>4, AfterDownload
    <3>2. T = jar
      BY <1>3, <1>4, <2>2, <2>4, EndsType DEF Kinds
    <3> QED
      BY <1>5, <1>7, <2>2, <2>4, <3>1, <3>2, OwnStays
  <2>5. CASE run[t].item = "copy"
    <3>1. /\ q.md = run[t].md /\ q.hit = run[t].hit /\ q.item = run[t].item
          /\ q.member = run[t].member /\ q.pc = "done" /\ q.artifact = run[t].artifact
      BY <1>2, <1>3, <2>2, <2>5, AfterDownload
    <3>2. run[t].artifact
      BY <1>3, <2>5 DEF InStep
    <3> QED
      BY <1>7, <2>2, <2>5, <3>1, <3>2, OwnStays
  <2> QED
    BY <2>1, <2>3, <2>4, <2>5
<1> QED
  BY <1>5, <1>6, <1>8, <1>9, QuietPair

LEMMA Kill_Pairs ==
  ASSUME PairInv, IInv', NEW t \in Tasks, Kill(t)
  PROVE  PairInv'
<1>1. /\ run[t].pc # "done" /\ Goes(t, [pc |-> "killed"]) /\ job' = job /\ disk' = disk
      /\ blame' = IF Copying(t) THEN [blame EXCEPT ![To(t)] = @ \cup {"cut"}] ELSE blame
  BY DEF Kill
<1>2. IInv /\ TypeOK /\ InStep(t)
  BY DEF PairInv, IInv
<1>3. PICK T \in Places : T = To(t)
  BY <1>2, EndsType
<1>4. Marks(t) /\ (Copying(t) => "cut" \in blame'[T])
  <2>1. Copying(t) => Exists(T)
    BY <1>2, <1>3 DEF TypeOK
  <2>2. CASE Copying(t)
    BY <1>1, <1>2, <1>3, <2>1, <2>2, OneMarked DEF TypeOK
  <2>3. CASE ~Copying(t)
    BY <1>1, <1>2, <1>3, <2>3, OneMarked
  <2> QED
    BY <2>2, <2>3
<1>5. Changed([pc |-> "killed"])
  BY DEF Changed, Fields, PCs
<1>6. /\ run' \in [Tasks -> Progress] /\ \A u \in Tasks \ {t} : run'[u] = run[u]
      /\ \A x \in Fields : run'[t][x] = IF x = "pc" THEN "killed" ELSE run[t][x]
  BY <1>1, <1>2, <1>5, GoesType
<1>7. PICK q : /\ q = run'[t] /\ q.pc = "killed" /\ q.member = run[t].member /\ q.md = run[t].md
               /\ q.hit = run[t].hit /\ q.item = run[t].item /\ q.artifact = run[t].artifact
               /\ q.failed = run[t].failed /\ q.skipped = run[t].skipped
  BY <1>6 DEF Fields
<1>8. Turn(t) /\ ~Copying(t)'
  BY <1>1, <1>6, <1>7 DEF Turn, Copying, At
<1>9. Quiet(t)
  BY <1>1, <1>3, <1>4, <1>8 DEF Quiet, Marks
<1>10. World(t)
  BY <1>2, <1>4, <1>9, QuietWorld
<1>11. Publishes(t) => Uploads(t)'
  <2>1. Publishes(t) => Uploads(t)
    BY DEF PairInv
  <2> QED
    BY <1>1, <1>2, <1>7, <1>10, <2>1, UploadsNext
<1>12. ~Publishes(t) => Downloads(t)'
  <2>1. PICK ivy, jar : ivy = build_cache_path(t, "ivy") /\ jar = build_cache_path(t, "jar")
    OBVIOUS
  <2> QED
    BY <1>7, <1>10, <2>1, OwnStays
<1> QED
  BY <1>4, <1>9, <1>11, <1>12, QuietPair
-----------------------------------------------------------------------------
(* The pairs from the start to the end                                     *)

\* The publication whose files a repository begins with.
Owner(a, r) == CHOOSE t \in Tasks : job[t].task = "published" /\ job[t].repo = a /\ job[t].rev = r

LEMMA OwnerType ==
  ASSUME NEW t \in Tasks, job[t].task = "published"
  PROVE  LET o == Owner(job[t].repo, job[t].rev)
         IN /\ o \in Tasks /\ job[o].task = "published"
            /\ job[o].repo = job[t].repo /\ job[o].rev = job[t].rev
  BY DEF Owner

LEMMA InitFiles ==
  ASSUME Init
  PROVE  /\ \A f \in DOMAIN disk :
               /\ f[1] \in Names \cup Range(Chain)
               /\ f[1] \in Names => f[1] \in Tasks /\ Publishes(f[1]) /\ job[f[1]].rev = f[3] /\ disk[f] = Copy(f[1])
               /\ f[1] \in Range(Chain) =>
                    /\ disk[f] = Copy(Owner(f[1], f[3]))
                    /\ \E t \in Tasks : job[t].task = "published" /\ job[t].repo = f[1] /\ job[t].rev = f[3]
         /\ \A t \in Tasks : job[t].task = "published" => Exists(<<job[t].repo, "ivy", job[t].rev>>)
<1>1. job \in Jobs /\ Tasks = DOMAIN job /\ Tasks \subseteq Names
  BY DEF Init, Tasks, Names
<1> DEFINE built == {b \in Tasks \X Kinds : Publishes(b[1]) /\ (b[2] = "jar" => job[b[1]].built)}
           before == {b \in built : job[b[1]].task = "published"}
           own == [g \in {Local(b[1], b[2]) : b \in built} |-> Copy(g[1])]
           done == [g \in {<<job[b[1]].repo, b[2], job[b[1]].rev>> : b \in before} |->
                      Copy(CHOOSE t \in Tasks : /\ job[t].task = "published" /\ job[t].repo = g[1]
                                                /\ job[t].rev = g[3])]
<1>2. disk = With(own, done)
  BY DEF Init
<1>3. DOMAIN disk = DOMAIN own \cup DOMAIN done
  BY <1>2 DEF With
<1>4. \A f \in DOMAIN disk : disk[f] = IF f \in DOMAIN done THEN done[f] ELSE own[f]
  BY <1>2, <1>3 DEF With
<1>5. \A t \in Tasks : Publishes(t) => job[t].repo \in Range(Chain)
  BY <1>1, JobsAssumption DEF Publishes
<1>6. \A f \in DOMAIN done : done[f] = Copy(Owner(f[1], f[3]))
  BY DEF Owner
<1>7. ASSUME NEW f \in DOMAIN done
      PROVE  \E t \in Tasks : /\ job[t].task = "published" /\ Publishes(t)
                              /\ job[t].repo = f[1] /\ job[t].rev = f[3]
  <2>1. PICK b \in before : f = <<job[b[1]].repo, b[2], job[b[1]].rev>>
    BY <1>7
  <2>2. b[1] \in Tasks /\ Publishes(b[1]) /\ job[b[1]].task = "published"
    OBVIOUS
  <2>3. f[1] = job[b[1]].repo /\ f[3] = job[b[1]].rev
    BY <2>1, Triple
  <2> QED
    BY <2>2, <2>3
<1>8. ASSUME NEW f \in DOMAIN own
      PROVE  f[1] \in Tasks /\ Publishes(f[1]) /\ job[f[1]].rev = f[3] /\ own[f] = Copy(f[1])
  <2>1. PICK b \in built : f = Local(b[1], b[2])
    BY <1>8
  <2>2. b[1] \in Tasks /\ Publishes(b[1])
    OBVIOUS
  <2>3. f[1] = b[1] /\ f[3] = job[b[1]].rev
    BY <2>1, Triple DEF Local
  <2> QED
    BY <2>2, <2>3
<1>9. ASSUME NEW f \in DOMAIN disk
      PROVE  /\ f[1] \in Names \cup Range(Chain)
             /\ f[1] \in Names => f[1] \in Tasks /\ Publishes(f[1]) /\ job[f[1]].rev = f[3] /\ disk[f] = Copy(f[1])
             /\ f[1] \in Range(Chain) =>
                  /\ disk[f] = Copy(Owner(f[1], f[3]))
                  /\ \E t \in Tasks : job[t].task = "published" /\ job[t].repo = f[1] /\ job[t].rev = f[3]
  <2>1. CASE f \in DOMAIN done
    BY ZenonT(40), <1>4, <1>5, <1>6, <1>7, <2>1, PlacesAssumption
  <2>2. CASE f \notin DOMAIN done
    BY <1>1, <1>3, <1>4, <1>8, <2>2, PlacesAssumption
  <2> QED
    BY <2>1, <2>2
<1>10. ASSUME NEW t \in Tasks, job[t].task = "published"
       PROVE  Exists(<<job[t].repo, "ivy", job[t].rev>>)
  <2>1. Publishes(t)
    BY <1>10 DEF Publishes, Publishing
  <2> DEFINE b == <<t, "ivy">>
  <2>2. b[1] = t /\ b[2] = "ivy" /\ b \in Tasks \X Kinds
    BY DEF Kinds
  <2>3. b \in before
    BY <1>10, <2>1, <2>2
  <2>4. <<job[t].repo, "ivy", job[t].rev>> \in DOMAIN done
    BY <2>2, <2>3
  <2> QED
    BY <1>3, <2>4 DEF Exists
<1> QED
  BY <1>9, <1>10

LEMMA InitPairs ==
  ASSUME Init
  PROVE  PairInv
<1>1. /\ IInv /\ TypeOK /\ run = [t \in Tasks |-> Fresh(t)]
      /\ blame = [f \in Places |->
           IF /\ f[1] \in Range(Chain) /\ f[2] = "ivy" /\ Exists(f)
              /\ ~Exists(<<f[1], "jar", f[3]>>)
             THEN {"bare"} ELSE {}]
  BY InitOK DEF Init, IInv
<1>2. ASSUME NEW t \in Tasks
      PROVE  /\ run[t].pc = (IF job[t].task = "published" THEN "done" ELSE "look")
             /\ run[t].item = (IF Publishes(t) THEN "jar" ELSE "ivy")
             /\ run[t].member = 1 /\ run[t].md = "none" /\ ~run[t].artifact
  BY <1>1 DEF Fresh
<1>3. (\A t \in Tasks : ~Copying(t)) /\ \A f : Writers(f) = {}
  BY <1>2 DEF Copying, At, Writers
<1>4. ASSUME NEW f \in DOMAIN disk, f[1] \in Range(Chain)
      PROVE  \E v \in Tasks : /\ v = Owner(f[1], f[3]) /\ Publishes(v)
                              /\ job[v].repo = f[1] /\ job[v].rev = f[3] /\ disk[f] = Copy(v)
  <2>1. PICK t \in Tasks : job[t].task = "published" /\ job[t].repo = f[1] /\ job[t].rev = f[3]
    BY <1>4, InitFiles
  <2> QED
    BY <1>4, <2>1, InitFiles, OwnerType DEF Publishes, Publishing
<1>5. ASSUME NEW f \in DOMAIN disk
      PROVE  f \in Places /\ \E v \in Tasks : Comes(v, f) /\ disk[f] = Copy(v)
  <2>1. f \in Places /\ f[1] \in Names \cup Range(Chain)
    BY <1>5, InitDisk, InitFiles
  <2>2. CASE f[1] \in Names
    BY <2>1, <2>2, InitFiles, PlacesAssumption DEF Comes
  <2>3. CASE f[1] \in Range(Chain)
    <3>1. PICK v \in Tasks : /\ Publishes(v) /\ job[v].repo = f[1] /\ job[v].rev = f[3]
                             /\ disk[f] = Copy(v)
      BY <1>4, <2>3
    <3> QED
      BY <2>1, <2>3, <3>1, PlacesAssumption DEF Comes
  <2> QED
    BY <2>1, <2>2, <2>3
<1>6. PiecesBelong
  <2> SUFFICES ASSUME NEW f \in DOMAIN disk, NEW i \in DOMAIN disk[f]
               PROVE  Comes(disk[f][i], f)
    BY DEF PiecesBelong
  <2>1. PICK v \in Tasks : Comes(v, f) /\ disk[f] = Copy(v)
    BY <1>5
  <2>2. disk[f][i] = v
    BY <2>1 DEF Copy
  <2> QED
    BY <2>1, <2>2
<1>7. OnlyFilesBlamed
  BY <1>1 DEF OnlyFilesBlamed
<1>8. Paired
  <2> SUFFICES ASSUME NEW f \in DOMAIN disk, blame[f] = {}, Dependent(f), NEW i \in DOMAIN disk[f]
               PROVE  Holds(Partner(disk[f][i], f), disk[f][i])
    BY DEF Paired, Dependent
  <2>1. f \in Places /\ f[1] \in Names \cup Range(Chain) /\ f[1] # "cache"
    BY <1>5, InitFiles, PlacesAssumption
  <2>2. f[1] \in Range(Chain) /\ f[2] = "ivy"
    BY <2>1 DEF Dependent
  <2>3. PICK v \in Tasks : /\ v = Owner(f[1], f[3]) /\ Publishes(v)
                           /\ job[v].repo = f[1] /\ job[v].rev = f[3] /\ disk[f] = Copy(v)
    BY <1>4, <2>2
  <2>4. disk[f][i] = v
    BY <2>3 DEF Copy
  <2>5. PICK g : g = <<f[1], "jar", f[3]>>
    OBVIOUS
  <2>6. g[1] = f[1] /\ g[2] = "jar" /\ g[3] = f[3]
    BY <2>5, Triple
  <2>7. Exists(g)
    BY <1>1, <2>1, <2>2, <2>5 DEF Exists
  <2>8. g \in DOMAIN disk /\ g \in Places
    BY <1>5, <2>7 DEF Exists
  <2>9. blame[g] = {} /\ disk[g] = Copy(v)
    BY <1>1, <1>4, <2>2, <2>3, <2>6, <2>8
  <2>10. Holds(g, v)
    BY <1>3, <2>7, <2>9 DEF Holds
  <2>11. Partner(v, f) = g
    BY <2>2, <2>3, <2>5 DEF Partner
  <2> QED
    BY <2>4, <2>10, <2>11
<1>9. ASSUME NEW t \in Tasks
      PROVE  CleanCopy(t)
  BY <1>3 DEF CleanCopy
<1>10. ASSUME NEW t \in Tasks, Publishes(t)
       PROVE  Uploads(t)
  BY <1>2, <1>10, InitFiles DEF Uploads
<1>11. ASSUME NEW t \in Tasks, ~Publishes(t)
       PROVE  Downloads(t)
  <2>1. /\ run[t].pc = "look" /\ run[t].item = "ivy" /\ run[t].member = 1 /\ run[t].md = "none"
        /\ ~run[t].artifact
    BY <1>2, <1>11 DEF Publishes, Publishing
  <2>2. ~OtherResolver(t)
    BY <2>1 DEF OtherResolver
  <2>3. ASSUME NEW u \in Tasks, job[u].task = "published"
        PROVE  \E i \in run[t].member..Len(Chain) : Chain[i] = job[u].repo
    <3>1. job[u].repo \in Range(Chain)
      BY <1>1, <2>3, JobsAssumption DEF TypeOK, Tasks, Publishing
    <3> QED
      BY <2>1, <3>1, IvyCacheAssumption DEF Range
  <2> QED
    BY <2>1, <2>2, <2>3 DEF Downloads
<1> QED
  BY <1>1, <1>6, <1>7, <1>8, <1>9, <1>10, <1>11 DEF PairInv

LEMMA StutterPairs ==
  ASSUME PairInv, IInv', UNCHANGED vars
  PROVE  PairInv'
<1>1. job' = job /\ disk' = disk /\ run' = run /\ blame' = blame
  BY DEF vars
<1>2. \A u : /\ To(u)' = To(u) /\ From(u)' = From(u) /\ (Copying(u)' <=> Copying(u))
             /\ (Publishes(u)' <=> Publishes(u)) /\ resolver(u)' = resolver(u)
             /\ (OtherResolver(u)' <=> OtherResolver(u))
             /\ build_cache_path(u, "ivy")' = build_cache_path(u, "ivy")
             /\ build_cache_path(u, "jar")' = build_cache_path(u, "jar")
  BY <1>1, SamePlaces DEF Copying, At, Tasks, Publishes, build_cache_path, OtherResolver, resolver
<1>3. Tasks' = Tasks /\ Places' = Places /\ \A f : (Exists(f)' <=> Exists(f)) /\ (Damaged(f)' <=> Damaged(f))
  BY <1>1 DEF Tasks, Places, Exists, Damaged
<1>4. \A f : Writers(f)' = Writers(f)
  BY <1>2, <1>3 DEF Writers
<1>5. /\ \A f : Settled(f)' <=> Settled(f)
      /\ \A f, v : Holds(f, v)' <=> Holds(f, v)
      /\ \A f, v : Comes(v, f)' <=> Comes(v, f)
      /\ \A f, v : Partner(v, f)' = Partner(v, f)
  BY <1>1, <1>3, <1>4, ComesKept, PartnerKept DEF Settled, Holds, Copy
<1>6. PiecesBelong'
  BY <1>1, <1>5 DEF PairInv, PiecesBelong
<1>7. OnlyFilesBlamed'
  BY <1>1, <1>3 DEF PairInv, OnlyFilesBlamed
<1>8. Paired'
  <2> SUFFICES ASSUME NEW f \in DOMAIN disk, blame[f] = {}, Dependent(f),
                      NEW i \in DOMAIN disk[f], disk[f][i] # "hole", NEW x, x = disk[f][i]
               PROVE  Holds(Partner(x, f), x)'
    BY <1>1 DEF Paired, Dependent
  <2>1. PICK p : p = Partner(x, f)
    OBVIOUS
  <2>2. Holds(p, x)
    BY <2>1 DEF PairInv, Paired, Dependent
  <2>3. Holds(p, x)' /\ Partner(x, f)' = p
    BY <1>5, <2>1, <2>2
  <2> QED
    BY <2>3
<1>9. ASSUME NEW t \in Tasks
      PROVE  CleanCopy(t)'
  BY <1>1, <1>2 DEF PairInv, CleanCopy
<1>10. ASSUME NEW t \in Tasks, Publishes(t)
       PROVE  Uploads(t)'
  <2>1. Uploads(t)
    BY <1>10 DEF PairInv
  <2>2. PICK ivy, jar : ivy = <<job[t].repo, "ivy", job[t].rev>> /\ jar = <<job[t].repo, "jar", job[t].rev>>
    OBVIOUS
  <2>3. /\ job[t].task = "published" => run[t].pc = "done" /\ Exists(ivy)'
        /\ run[t].item = "ivy" /\ ~run[t].failed /\ ~run[t].skipped => Holds(jar, t)'
    BY <1>3, <1>5, <2>1, <2>2 DEF Uploads
  <2> QED
    BY <1>1, <2>2, <2>3 DEF Uploads
<1>11. ASSUME NEW t \in Tasks, ~Publishes(t)
       PROVE  Downloads(t)'
  <2>1. Downloads(t)
    BY <1>11 DEF PairInv
  <2>2. PICK ivy, jar, r : ivy = build_cache_path(t, "ivy") /\ jar = build_cache_path(t, "jar") /\ r = run[t]
    OBVIOUS
  <2>3. resolver(t) = Chain[r.member] /\ (OtherResolver(t) <=> r.md # "none" /\ job[r.md].repo # Chain[r.member])
    BY <1>11, <2>2 DEF resolver, OtherResolver
  <2>4. /\ r.md = "none" <=> r.item = "ivy"
        /\ r.pc = "parse" => Settled(ivy)
        /\ r.artifact => Settled(jar)
        /\ r.md # "none" => Comes(r.md, ivy) /\ Holds(ivy, r.md)
        /\ r.md # "none" /\ job[r.md].repo # Chain[r.member] => r.hit \/ "overlap" \in blame[ivy]
        /\ r.item = "ivy" /\ r.pc \in {"copying", "parse"} =>
             \/ r.hit \/ "overlap" \in blame[ivy]
             \/ /\ Writers(ivy) \subseteq {t}
                /\ \A i \in DOMAIN disk[ivy] : disk[ivy][i] = "hole" \/ job[disk[ivy][i]].repo = Chain[r.member]
        /\ r.pc = "done" /\ r.md # "none" /\ ~r.artifact =>
             job[r.md].repo # Chain[r.member] \/ blame[ivy] \cup blame[jar] # {}
        /\ r.md = "none" =>
             \A u \in Tasks :
                job[u].task = "published" /\ job[u].rev = job[t].rev =>
                    \/ blame[ivy] \cup blame[<<job[u].repo, "ivy", job[u].rev>>] # {}
                    \/ r.pc # "done" /\ \E i \in r.member..Len(Chain) : Chain[i] = job[u].repo
    BY <2>1, <2>2, <2>3 DEF Downloads
  <2>5. /\ r.pc = "parse" => Settled(ivy)'
        /\ r.artifact => Settled(jar)'
        /\ r.md # "none" => Comes(r.md, ivy) /\ Holds(ivy, r.md)'
        /\ Writers(ivy)' = Writers(ivy) /\ r = run'[t]
    BY <1>1, <1>4, <1>5, <2>2, <2>4
  <2>6. r.md # "none" /\ job[r.md].repo # Chain[r.member] => r.hit \/ "overlap" \in blame'[ivy]
    BY <1>1, <2>4
  <2>7. r.item = "ivy" /\ r.pc \in {"copying", "parse"} =>
           \/ r.hit \/ "overlap" \in blame'[ivy]
           \/ /\ Writers(ivy)' \subseteq {t}
              /\ \A i \in DOMAIN disk'[ivy] : disk'[ivy][i] = "hole" \/ job[disk'[ivy][i]].repo = Chain[r.member]
    BY <1>1, <2>4, <2>5
  <2>8. r.pc = "done" /\ r.md # "none" /\ ~r.artifact =>
           job[r.md].repo # Chain[r.member] \/ blame'[ivy] \cup blame'[jar] # {}
    BY <1>1, <2>4
  <2>9. r.md = "none" =>
           \A u \in Tasks :
              job[u].task = "published" /\ job[u].rev = job[t].rev =>
                  \/ blame'[ivy] \cup blame'[<<job[u].repo, "ivy", job[u].rev>>] # {}
                  \/ r.pc # "done" /\ \E i \in r.member..Len(Chain) : Chain[i] = job[u].repo
    BY <1>1, <2>4
  <2>10. job' = job /\ r = run'[t] /\ (r.md = "none" <=> r.item = "ivy")
    BY <1>1, <2>4, <2>5
  <2> QED
    BY <1>11, <2>2, <2>5, <2>6, <2>7, <2>8, <2>9, <2>10, DownloadsNext
<1> QED
  BY <1>2, <1>3, <1>6, <1>7, <1>8, <1>9, <1>10, <1>11 DEF PairInv

LEMMA NextPairs ==
  ASSUME PairInv, IInv', [Next]_vars
  PROVE  PairInv'
<1>1. CASE UNCHANGED vars
  BY <1>1, StutterPairs
<1>2. CASE Next
  <2>1. PICK t \in Names :
           \/ publish_one(t) \/ publish_upload(t)
           \/ LookInCache(t) \/ Fetch(t) \/ FetchSkips(t) \/ FetchMissing(t)
           \/ resolver_find_module(t) \/ ivy_resolve_invoke(t)
           \/ ivy_cachepath_invoke(t) \/ ivy_cachefileset_invoke(t)
           \/ retrieve_module_cb(t) \/ copy_file_to(t)
           \/ CopyPiece(t) \/ EndCopy(t) \/ CopyFails(t) \/ Kill(t)
    BY <1>2 DEF Next
  <2>2. t \in Tasks
    BY <2>1 DEF publish_one, publish_upload, LookInCache, Fetch, FetchSkips, FetchMissing, Fetching,
                resolver_find_module, ivy_resolve_invoke, ivy_cachepath_invoke,
                ivy_cachefileset_invoke, retrieve_module_cb, copy_file_to, CopyPiece, EndCopy,
                CopyFails, Kill, Copying, At
  <2>3. CASE publish_one(t)
    BY <2>2, <2>3, publish_one_Pairs
  <2>4. CASE publish_upload(t)
    BY <2>2, <2>4, publish_upload_Pairs
  <2>5. CASE LookInCache(t)
    BY <2>2, <2>5, LookInCache_Pairs
  <2>6. CASE Fetch(t)
    BY <2>2, <2>6, Fetch_Pairs
  <2>7. CASE FetchSkips(t)
    BY <2>2, <2>7, FetchSkips_Pairs
  <2>8. CASE FetchMissing(t)
    BY <2>2, <2>8, FetchMissing_Pairs
  <2>9. CASE resolver_find_module(t)
    BY <2>2, <2>9, resolver_find_module_Pairs
  <2>10. CASE ivy_resolve_invoke(t)
    BY <2>2, <2>10, Ends_Pairs DEF ivy_resolve_invoke, At
  <2>11. CASE ivy_cachepath_invoke(t)
    BY <2>2, <2>11, Ends_Pairs DEF ivy_cachepath_invoke, At
  <2>12. CASE ivy_cachefileset_invoke(t)
    BY <2>2, <2>12, Ends_Pairs DEF ivy_cachefileset_invoke, At
  <2>13. CASE retrieve_module_cb(t)
    BY <2>2, <2>13, retrieve_module_cb_Pairs
  <2>14. CASE copy_file_to(t)
    BY <2>2, <2>14, copy_file_to_Pairs
  <2>15. CASE CopyPiece(t)
    BY <2>2, <2>15, CopyPiece_Pairs
  <2>16. CASE EndCopy(t)
    BY <2>2, <2>16, EndCopy_Pairs
  <2>17. CASE CopyFails(t)
    BY <2>2, <2>17, CopyFails_Pairs
  <2>18. CASE Kill(t)
    BY <2>2, <2>18, Kill_Pairs
  <2> QED
    BY <2>1, <2>3, <2>4, <2>5, <2>6, <2>7, <2>8, <2>9, <2>10, <2>11, <2>12, <2>13, <2>14,
       <2>15, <2>16, <2>17, <2>18
<1> QED
  BY <1>1, <1>2

\* What a file is counted with stays beside it: a descriptor in a repository
\* beside the jar uploaded before it, a cached jar beside the descriptor that
\* led to it, unless something is known against one of them (publish_one,
\* ivy_fetch_to_cache, resolver_find_module).
THEOREM Pairing == Spec => []PairInv
<1>1. Init => PairInv
  BY InitPairs
<1>2. PairInv /\ IInv' /\ [Next]_vars => PairInv'
  BY NextPairs
<1> QED
  BY <1>1, <1>2, Invariance, PTL DEF Spec

LEMMA FoundFromPairInv ==
  ASSUME PairInv
  PROVE  FoundWithItsJar
<1> SUFFICES ASSUME NEW t \in Tasks, At(t, "done"), ~Publishes(t),
                    NEW ivy, ivy = build_cache_path(t, "ivy"), NEW jar, jar = build_cache_path(t, "jar")
             PROVE  IF run[t].md = "none"
                    THEN \/ blame[ivy] # {}
                         \/ ~\E u \in Tasks : /\ job[u].task = "published" /\ job[u].rev = job[t].rev
                                              /\ blame[<<job[u].repo, "ivy", job[u].rev>>] = {}
                    ELSE /\ OtherResolver(t) => run[t].hit \/ "overlap" \in blame[ivy]
                         /\ \/ Exists(jar) /\ disk[jar] = Copy(run[t].md)
                            \/ OtherResolver(t)
                            \/ blame[jar] \cup blame[ivy] # {}
  BY DEF FoundWithItsJar
<1>1. IInv /\ TypeOK /\ Paired /\ PiecesBelong /\ Downloads(t) /\ run[t].pc = "done"
  BY DEF PairInv, IInv, At
<1>2. CASE run[t].md = "none"
  <2>1. \A u \in Tasks : job[u].task = "published" /\ job[u].rev = job[t].rev =>
           blame[ivy] \cup blame[<<job[u].repo, "ivy", job[u].rev>>] # {}
    BY <1>1, <1>2 DEF Downloads
  <2> QED
    BY <1>2, <2>1
<1>3. CASE run[t].md # "none"
  <2>1. OtherResolver(t) => run[t].hit \/ "overlap" \in blame[ivy]
    BY <1>1 DEF Downloads
  <2>2. ASSUME ~OtherResolver(t), blame[jar] \cup blame[ivy] = {}
        PROVE  Exists(jar) /\ disk[jar] = Copy(run[t].md)
    <3>1. run[t].artifact /\ Settled(jar) /\ Holds(ivy, run[t].md)
      BY <1>1, <1>3, <2>2 DEF Downloads
    <3>2. blame[jar] = {} /\ blame[ivy] = {} /\ ~Damaged(jar)
      BY <2>2 DEF Damaged
    <3>3. jar \in DOMAIN disk /\ Writers(jar) = {} /\ disk[ivy] = Copy(run[t].md)
      BY <3>1, <3>2 DEF Settled, Exists, Holds
    <3>4. PICK v \in Tasks : disk[jar] = Copy(v)
      BY <1>1, <3>2, <3>3 DEF IInv, FilesWhole
    <3>5. 1 \in DOMAIN disk[jar] /\ disk[jar][1] = v /\ v # "hole"
      <4>1. 1 \in 1..Pieces
        BY IvyCacheAssumption
      <4>2. v # "hole"
        BY <1>1, TaskType, PlacesAssumption
      <4> QED
        BY <3>4, <4>1, <4>2 DEF Copy
    <3>6. jar[1] = "cache" /\ jar[2] = "jar" /\ Partner(v, jar) = ivy
      BY Triple DEF build_cache_path, Partner
    <3>7. Holds(ivy, v)
      BY <1>1, <3>2, <3>3, <3>5, <3>6 DEF Paired
    <3>8. Copy(v) = Copy(run[t].md)
      BY <3>2, <3>3, <3>7 DEF Holds
    <3> QED
      BY <3>1, <3>4, <3>8 DEF Settled
  <2> QED
    BY <1>3, <2>1, <2>2
<1> QED
  BY <1>2, <1>3

\* What a repository of the chain holds all along is found, and what is found
\* has the jar of the same publication, unless the resolver was a guess or
\* something is known against one of the two files: publish_one puts the jar
\* up before the descriptor, and resolver_find_module leaves the resolver
\* that had the descriptor to fetch the jar from.
THEOREM DescriptorWithJar == Spec => []FoundWithItsJar
<1>1. PairInv => FoundWithItsJar
  BY FoundFromPairInv
<1> QED
  BY <1>1, Pairing, PTL


=============================================================================
