------------------------------ MODULE IvyCache ------------------------------
(***************************************************************************)
(* The files behind ivy:resolve, retrieve, cachepath, cachefileset and     *)
(* ivy:publish: repositories that builds publish to and fetch from, the    *)
(* cache all builds share, and the directory artifacts are retrieved to.   *)
(* Nothing is locked, nothing is written under another name first, and a   *)
(* file that exists is taken for the whole of it.                          *)
(*                                                                         *)
(* One module is modelled, in one or more revisions, with a descriptor and *)
(* one jar; which modules are looked for is IvyResolve's matter.  A file   *)
(* is a sequence of pieces, each the publication it comes from.            *)
(***************************************************************************)
EXTENDS Integers, SequencesExt

CONSTANTS
    Chain,        \* the members of the default chain, in order; any other
                  \* resolver counts as a chain of one
    Remote,       \* those of them that are URLs
    Revisions,
    Jobs,         \* the sets of tasks that may meet: name -> task
    Pieces,       \* pieces of a whole file
    MaxFaults     \* failures and kills of the model

Names == UNION {DOMAIN j : j \in Jobs}
Publishing == {"publish", "published"}
Consuming == {"resolve", "retrieve", "cachepath", "cachefileset"}

ASSUME IvyCacheAssumption ==
    /\ Len(Chain) \in Nat \ {0} /\ DOMAIN Chain = 1..Len(Chain)
    /\ Remote \subseteq Range(Chain)
    /\ {Pieces, MaxFaults} \subseteq Nat
    /\ Pieces > 0
    /\ Revisions \subseteq Nat \ {0}

\* A published task has published before the others begin.
ASSUME JobsAssumption ==
    \A j \in Jobs : \A t \in DOMAIN j :
        /\ j[t].task \in Publishing \cup Consuming
        /\ j[t].rev \in Revisions
        /\ j[t].task \in Publishing => j[t].repo \in Range(Chain) /\ {j[t].overwrite, j[t].built} \subseteq BOOLEAN
        /\ j[t].task \in Consuming => {j[t].qualified, j[t].wget} \subseteq BOOLEAN

\* What a build publishes from, the repositories, the cache and the
\* directory retrieved to are different places.
ASSUME PlacesAssumption ==
    /\ Names \cap Range(Chain) = {}
    /\ {"cache", "lib", "none", "hole"} \cap (Names \cup Range(Chain)) = {}

Kinds == {"ivy", "jar"}
AnyRevision == 0         \* in the name of a file that tells none
Places == (Range(Chain) \cup Names \cup {"cache", "lib"}) \X Kinds \X (Revisions \cup {AnyRevision})
Causes == {"cut", "overlap", "empty", "bare", "skipped", "republished", "guessed"}

VARIABLES
    job,          \* the tasks that meet
    disk,         \* file -> its pieces
    run,          \* task -> how far it is
    blame,        \* history: what may be wrong with a file, and why
    faults        \* failures and kills so far

vars == <<job, disk, run, blame, faults>>

Tasks == DOMAIN job
Publishes(t) == job[t].task \in Publishing
Exists(f) == f \in DOMAIN disk
Copy(v) == [i \in 1..Pieces |-> v]
Whole(f) == Exists(f) /\ \E v \in Tasks : disk[f] = Copy(v)
At(t, pc) == t \in Tasks /\ run[t].pc = pc
With(f, changes) ==
    [x \in DOMAIN f \cup DOMAIN changes |-> IF x \in DOMAIN changes THEN changes[x] ELSE f[x]]
Goes(t, changes) == run' = [run EXCEPT ![t] = With(@, changes)]
Emptied(f) == disk' = With(disk, [x \in {f} |-> <<>>])

----------------------------------------------------------------------------
(* Where files are.                                                        *)

resolver(t) == IF Publishes(t) THEN job[t].repo ELSE Chain[run[t].member]

\* Mutant: the name of the cached file has no revision.
WithoutRevision(t, kind) == <<"cache", kind, AnyRevision>>

\* All resolvers share the cache's two places for a revision.
build_cache_path(t, kind) == <<"cache", kind, job[t].rev>>
Retrieved(t) == <<"lib", "jar", IF job[t].qualified THEN job[t].rev ELSE AnyRevision>>
Local(t, kind) == <<t, kind, job[t].rev>>
Held(t) == <<resolver(t), run[t].item, job[t].rev>>

\* Mutant: the jar is fetched from the first of the chain.
FromFirst(t) ==
    IF Publishes(t) THEN Local(t, run[t].item)
    ELSE IF run[t].item = "copy" THEN build_cache_path(t, "jar")
    ELSE <<IF run[t].item = "jar" THEN Chain[1] ELSE resolver(t), run[t].item, job[t].rev>>

From(t) ==
    CASE Publishes(t)         -> Local(t, run[t].item)
      [] run[t].item = "copy" -> build_cache_path(t, "jar")
      [] OTHER                -> Held(t)
To(t) ==
    CASE Publishes(t)         -> Held(t)
      [] run[t].item = "copy" -> Retrieved(t)
      [] OTHER                -> build_cache_path(t, run[t].item)

Copying(t) == At(t, "copying")
Writers(f) == {t \in Tasks : Copying(t) /\ To(t) = f}
Readers(f) == {t \in Tasks : Copying(t) /\ From(t) = f}

\* The descriptor was read, but the resolver taken down for it is another
\* than the one it was once fetched from.
OtherResolver(t) == run[t].md # "none" /\ job[run[t].md].repo # resolver(t)

----------------------------------------------------------------------------
(* What follows each part of a task.                                       *)

\* publish: the artifacts, then the descriptor, whatever became of those.
NextUpload(t) == IF run[t].item = "jar" THEN [pc |-> "look", item |-> "ivy"] ELSE [pc |-> "done"]

\* Mutant: the chain has no end.
Onwards(t) == [pc |-> "look", member |-> run[t].member + 1]

\* resolver_find_module: the next member of the chain.
NextMember(t) ==
    IF run[t].member < Len(Chain) THEN [pc |-> "look", member |-> run[t].member + 1] ELSE [pc |-> "done"]

\* A jar that cannot be had is warned about, and left out of the report.
After(t, ok) ==
    IF Publishes(t) THEN With(NextUpload(t), [failed |-> run[t].failed \/ ~ok])
    ELSE CASE run[t].item = "ivy"  -> IF ok THEN [pc |-> "parse"] ELSE NextMember(t)
           [] run[t].item = "jar"  -> [pc |-> IF ok THEN "deliver" ELSE "done", artifact |-> ok]
           [] run[t].item = "copy" -> [pc |-> "done", delivered |-> ok]

----------------------------------------------------------------------------
(* Copying, by cp, by a client of HTTP or by copy_file_to: the target is   *)
(* emptied, then filled piece by piece from what the source holds by then. *)

Open(t, causes) ==
    /\ Emptied(To(t))
    /\ Goes(t, [pc |-> "copying", pos |-> 0])
    /\ blame' = [f \in Places |->
           IF f = To(t)
             THEN causes \cup blame[From(t)]
                  \cup (IF Writers(From(t)) \cup Writers(f) \cup Readers(f) # {} THEN {"overlap"} ELSE {})
             ELSE IF \E u \in Readers(To(t)) : f = To(u) THEN blame[f] \cup {"overlap"} ELSE blame[f]]

Put(s, i, piece) ==
    [j \in 1..(IF i > Len(s) THEN i ELSE Len(s)) |->
        IF j = i THEN piece ELSE IF j <= Len(s) THEN s[j] ELSE "hole"]

CopyPiece(t) ==
    /\ Copying(t)
    /\ run[t].pos < Len(disk[From(t)])
    /\ disk' = [disk EXCEPT ![To(t)] = Put(@, run[t].pos + 1, disk[From(t)][run[t].pos + 1])]
    /\ Goes(t, [pos |-> run[t].pos + 1])
    /\ UNCHANGED <<job, blame, faults>>

EndCopy(t) ==
    /\ Copying(t)
    /\ run[t].pos >= Len(disk[From(t)])
    /\ Goes(t, After(t, TRUE))
    /\ UNCHANGED <<job, disk, blame, faults>>

\* copy_file_to does not ask fclose whether the last of it was written.
CopyFails(t) ==
    /\ Copying(t)
    /\ faults < MaxFaults
    /\ faults' = faults + 1
    /\ \E noticed \in IF run[t].item = "copy" THEN BOOLEAN ELSE {TRUE} : Goes(t, After(t, ~noticed))
    /\ blame' = [blame EXCEPT ![To(t)] = @ \cup {"cut"}]
    /\ UNCHANGED <<job, disk>>

\* Nothing is tidied up.
Kill(t) ==
    /\ t \in Tasks
    /\ run[t].pc \notin {"done", "killed"}
    /\ faults < MaxFaults
    /\ faults' = faults + 1
    /\ Goes(t, [pc |-> "killed"])
    /\ blame' = IF Copying(t) THEN [blame EXCEPT ![To(t)] = @ \cup {"cut"}] ELSE blame
    /\ UNCHANGED <<job, disk>>

----------------------------------------------------------------------------
(* ivy:publish.                                                            *)

\* What cannot be published, and what is not published over something else,
\* leaves the rest to be published without it.
publish_one(t) ==
    /\ At(t, "look") /\ Publishes(t)
    /\ LET missing == ~Exists(Local(t, run[t].item))
           there == ~job[t].overwrite /\ resolver(t) \notin Remote /\ Exists(To(t))
       IN Goes(t, IF missing THEN With(NextUpload(t), [failed |-> TRUE])
                  ELSE IF there THEN With(NextUpload(t), [skipped |-> TRUE])
                  ELSE [pc |-> "open"])
    /\ UNCHANGED <<job, disk, blame, faults>>

publish_upload(t) ==
    /\ At(t, "open") /\ Publishes(t)
    /\ Open(t, (IF run[t].failed THEN {"bare"} ELSE {})
               \cup (IF run[t].skipped THEN {"skipped"} ELSE {})
               \cup (IF Exists(To(t)) THEN {"republished"} ELSE {}))
    /\ UNCHANGED <<job, faults>>

----------------------------------------------------------------------------
(* ivy_fetch_to_cache, for the descriptor and for the jar.                 *)

Hit(t) == IF run[t].item = "ivy" THEN [pc |-> "parse", hit |-> TRUE] ELSE After(t, TRUE)

LookInCache(t) ==
    /\ At(t, "look") /\ ~Publishes(t)
    /\ Goes(t, IF Exists(To(t)) THEN Hit(t) ELSE [pc |-> "open"])
    /\ blame' = IF Writers(To(t)) # {} THEN [blame EXCEPT ![To(t)] = @ \cup {"overlap"}] ELSE blame
    /\ UNCHANGED <<job, disk, faults>>

Fetching(t) == At(t, "open") /\ ~Publishes(t) /\ run[t].item # "copy"

\* get, with skipexisting, asks again.
GetSkips(t) == resolver(t) \in Remote /\ Exists(To(t))

Fetch(t) ==
    /\ Fetching(t) /\ ~GetSkips(t) /\ Exists(From(t))
    /\ Open(t, (IF Exists(To(t)) THEN {"overlap"} ELSE {})
               \cup (IF run[t].item = "jar" /\ OtherResolver(t) THEN {"guessed"} ELSE {}))
    /\ UNCHANGED <<job, faults>>

FetchSkips(t) ==
    /\ Fetching(t) /\ GetSkips(t)
    /\ Goes(t, After(t, TRUE))
    /\ blame' = [blame EXCEPT ![To(t)] = @ \cup {"overlap"}]
    /\ UNCHANGED <<job, disk, faults>>

\* wget, used where there is no curl, has opened its output by the time it
\* learns there is nothing.
FetchMissing(t) ==
    /\ Fetching(t) /\ ~GetSkips(t) /\ ~Exists(From(t))
    /\ Goes(t, After(t, FALSE))
    /\ IF job[t].wget /\ resolver(t) \in Remote
         THEN /\ Emptied(To(t))
              /\ blame' = [blame EXCEPT ![To(t)] = {"empty"}]
         ELSE UNCHANGED <<disk, blame>>
    /\ UNCHANGED <<job, faults>>

----------------------------------------------------------------------------
(* ivy_resolve_run, and what is done with the jar.                         *)

\* Only a whole descriptor can be parsed.  The resolver whose turn it is
\* becomes the one the jar is fetched from.
resolver_find_module(t) ==
    /\ At(t, "parse")
    /\ LET f == build_cache_path(t, "ivy")
       IN Goes(t, IF Whole(f) THEN [pc |-> "look", item |-> "jar", md |-> disk[f][1]] ELSE NextMember(t))
    /\ UNCHANGED <<job, disk, blame, faults>>

Ends(t, delivered) ==
    /\ Goes(t, [pc |-> "done", delivered |-> delivered])
    /\ UNCHANGED <<job, disk, blame, faults>>

ivy_resolve_invoke(t) == At(t, "deliver") /\ job[t].task = "resolve" /\ Ends(t, FALSE)

\* The cached file itself goes into a path, or a fileset over the cache.
ivy_cachepath_invoke(t) == At(t, "deliver") /\ job[t].task = "cachepath" /\ Ends(t, TRUE)
ivy_cachefileset_invoke(t) == At(t, "deliver") /\ job[t].task = "cachefileset" /\ Ends(t, TRUE)

\* retrieve: what is there already counts as retrieved.
retrieve_module_cb(t) ==
    /\ At(t, "deliver") /\ job[t].task = "retrieve"
    /\ IF Exists(Retrieved(t))
         THEN /\ Goes(t, [pc |-> "done", delivered |-> TRUE])
              /\ blame' = IF Writers(Retrieved(t)) # {}
                            THEN [blame EXCEPT ![Retrieved(t)] = @ \cup {"overlap"}] ELSE blame
         ELSE Goes(t, [pc |-> "open", item |-> "copy"]) /\ UNCHANGED blame
    /\ UNCHANGED <<job, disk, faults>>

copy_file_to(t) ==
    /\ At(t, "open") /\ run[t].item = "copy"
    /\ Open(t, IF Exists(To(t)) THEN {"overlap"} ELSE {})
    /\ UNCHANGED <<job, faults>>

----------------------------------------------------------------------------
Fresh(t) ==
    [pc |-> IF job[t].task = "published" THEN "done" ELSE "look",
     item |-> IF Publishes(t) THEN "jar" ELSE "ivy", member |-> 1, pos |-> 0, md |-> "none", hit |-> FALSE,
     failed |-> FALSE, skipped |-> FALSE, artifact |-> FALSE, delivered |-> FALSE]

\* A publisher has its descriptor, and its jar if that was built; some have
\* published before, which leaves a descriptor bare where there was no jar.
Init ==
    /\ job \in Jobs
    /\ disk = LET built == {b \in Tasks \X Kinds : Publishes(b[1]) /\ (b[2] = "jar" => job[b[1]].built)}
                  before == {b \in built : job[b[1]].task = "published"}
              IN With([f \in {Local(b[1], b[2]) : b \in built} |-> Copy(f[1])],
                      [f \in {<<job[b[1]].repo, b[2], job[b[1]].rev>> : b \in before} |->
                        Copy(CHOOSE t \in Tasks : job[t].task = "published" /\ job[t].repo = f[1] /\ job[t].rev = f[3])])
    /\ run = [t \in Tasks |-> Fresh(t)]
    /\ blame = [f \in Places |->
           IF /\ f[1] \in Range(Chain) /\ f[2] = "ivy" /\ Exists(f)
              /\ ~Exists(<<f[1], "jar", f[3]>>)
             THEN {"bare"} ELSE {}]
    /\ faults = 0

Next ==
    \E t \in Names :
        \/ publish_one(t) \/ publish_upload(t)
        \/ LookInCache(t) \/ Fetch(t) \/ FetchSkips(t) \/ FetchMissing(t)
        \/ resolver_find_module(t) \/ ivy_resolve_invoke(t)
        \/ ivy_cachepath_invoke(t) \/ ivy_cachefileset_invoke(t) \/ retrieve_module_cb(t) \/ copy_file_to(t)
        \/ CopyPiece(t) \/ EndCopy(t) \/ CopyFails(t) \/ Kill(t)

Spec == Init /\ [][Next]_vars

----------------------------------------------------------------------------
(* Properties.                                                             *)

Progress ==
    [pc : {"look", "open", "copying", "parse", "deliver", "done", "killed"},
     item : Kinds \cup {"copy"}, member : 1..Len(Chain), pos : 0..Pieces,
     md : Tasks \cup {"none"}, hit : BOOLEAN, failed : BOOLEAN, skipped : BOOLEAN,
     artifact : BOOLEAN, delivered : BOOLEAN]

\* Tasks and files stay what they are, no file outgrows a whole one, and what
\* a task is copying exists at both ends.
TypeOK ==
    /\ job \in Jobs
    /\ DOMAIN disk \subseteq Places
    /\ \A f \in DOMAIN disk : disk[f] \in BoundedSeq(Tasks \cup {"hole"}, Pieces)
    /\ run \in [Tasks -> Progress]
    /\ blame \in [Places -> SUBSET Causes]
    /\ faults \in 0..MaxFaults
    /\ \A t \in Tasks : Copying(t) => Exists(From(t)) /\ Exists(To(t))

\* ivy:retrieve, cachepath and cachefileset hand on a file because it exists.
\* It is a whole jar of the revision asked for, then and as long as builds go
\* on, unless a copy was cut short on its way, two tasks had one of the files
\* on its way in use at once, wget left an empty file, or the retrieve
\* pattern does not tell the revisions apart.
DeliveredIsWhole ==
    \A t \in {t \in Tasks : run[t].delivered} :
        LET f == IF job[t].task = "retrieve" THEN Retrieved(t) ELSE build_cache_path(t, "jar") IN
        \/ Whole(f) /\ job[disk[f][1]].rev = job[t].rev
        \/ blame[f] \cap {"cut", "overlap", "empty"} # {}
        \/ /\ job[t].task = "retrieve" /\ ~job[t].qualified
           /\ \E u \in Tasks \ {t} : run[u].artifact /\ job[u].rev # job[t].rev

\* What a repository of the chain holds all along is found, unless another
\* copy of its descriptor is in the cache and damaged.  What is found has the
\* jar of the same publication: artifacts are published before the
\* descriptor, and fetched from the resolver that had it.  This fails only
\* when the resolver is a guess - the descriptor was in the cache already,
\* and the first of the chain answers for all - or when a publication went
\* wrong, met another, or one of the two files is damaged.
FoundWithItsJar ==
    \A t \in {t \in Tasks : At(t, "done") /\ ~Publishes(t)} :
        LET jar == build_cache_path(t, "jar")
            ivy == build_cache_path(t, "ivy")
        IN IF run[t].md = "none"
             THEN \/ blame[ivy] # {}
                  \/ ~\E u \in Tasks : /\ job[u].task = "published" /\ job[u].rev = job[t].rev
                                       /\ blame[<<job[u].repo, "ivy", job[u].rev>>] = {}
             ELSE /\ OtherResolver(t) => run[t].hit \/ "overlap" \in blame[ivy]
                  /\ \/ Exists(jar) /\ disk[jar] = Copy(run[t].md)
                     \/ OtherResolver(t)
                     \/ blame[jar] \cup blame[ivy] # {}

----------------------------------------------------------------------------
(* What makes the invariants inductive.                                    *)

Damaged(f) == blame[f] \cap {"cut", "overlap", "empty"} # {}

\* v is a publication that may be found at f.
Belongs(v, f) ==
    \/ f[3] = job[v].rev
    \/ f[3] = AnyRevision /\ \E u \in Tasks : run[u].artifact /\ job[u].rev = job[v].rev

\* What nobody writes is whole.
FilesWhole ==
    \A f \in DOMAIN disk :
        \/ Damaged(f)
        \/ Writers(f) # {}
        \/ \E v \in Tasks : Belongs(v, f) /\ disk[f] = Copy(v)

\* What one task writes is the beginning of a whole file nobody writes.
CopyInStep(t) ==
    /\ Writers(To(t)) = {t}
    /\ Writers(From(t)) = {}
    /\ \E v \in Tasks : /\ Belongs(v, To(t))
                        /\ disk[From(t)] = Copy(v)
                        /\ disk[To(t)] = [i \in 1..run[t].pos |-> v]

CopiesInStep == \A t \in Tasks : Copying(t) => Damaged(To(t)) \/ CopyInStep(t)

\* A file that is there and not about to change, or known to be damaged.
Settled(f) == Exists(f) /\ (Writers(f) # {} => Damaged(f))

InStep(t) ==
    /\ Publishes(t) =>
         /\ run[t].item \in Kinds /\ run[t].pc \notin {"parse", "deliver"} /\ ~run[t].delivered
         /\ run[t].pc = "open" => Exists(From(t))
    /\ run[t].item \in Kinds /\ run[t].pc \notin {"deliver", "done", "killed"} => ~run[t].artifact
    /\ run[t].pc = "parse" => run[t].item = "ivy"
    /\ run[t].pc = "deliver" => run[t].item = "jar"
    /\ run[t].item = "copy" => job[t].task = "retrieve" /\ run[t].pc \notin {"look", "parse", "deliver"}
    /\ run[t].pc = "deliver" \/ run[t].item = "copy" =>
         run[t].artifact /\ Settled(build_cache_path(t, "jar"))
    /\ run[t].delivered =>
         Settled(IF job[t].task = "retrieve" THEN Retrieved(t) ELSE build_cache_path(t, "jar"))

IInv ==
    /\ TypeOK
    /\ FilesWhole
    /\ CopiesInStep
    /\ \A t \in Tasks : InStep(t)

\* From here on: what makes FoundWithItsJar inductive, in addition.

\* v is a publication whose pieces may be at f.
Comes(v, f) ==
    /\ v \in Tasks /\ Publishes(v)
    /\ f[1] \in Names => v = f[1]
    /\ f[1] \in Range(Chain) => job[v].repo = f[1]
    /\ f[1] # "lib" => job[v].rev = f[3]

PiecesBelong ==
    \A f \in DOMAIN disk : \A i \in DOMAIN disk[f] : disk[f][i] = "hole" \/ Comes(disk[f][i], f)

OnlyFilesBlamed == \A f \in Places : blame[f] # {} => Exists(f)

\* f is the file of v for good, or something is known against it.
Holds(f, v) ==
    /\ Exists(f)
    /\ blame[f] # {} \/ (disk[f] = Copy(v) /\ Writers(f) = {})

\* What v's piece at f depends on: a descriptor on the jar uploaded before
\* it, a cached jar on the descriptor that led to it.
Partner(v, f) ==
    IF f[2] = "ivy" THEN <<job[v].repo, "jar", f[3]>> ELSE <<"cache", "ivy", f[3]>>

Paired ==
    \A f \in DOMAIN disk :
        /\ blame[f] = {}
        /\ f[1] = "cache" \/ (f[1] \in Range(Chain) /\ f[2] = "ivy")
        => \A i \in DOMAIN disk[f] : disk[f][i] = "hole" \/ Holds(Partner(disk[f][i], f), disk[f][i])

\* A copy to or from a repository that nothing is known against.
CleanCopy(t) ==
    Copying(t) /\ run[t].item \in Kinds /\ blame[To(t)] = {} =>
        /\ blame[From(t)] = {}
        /\ Publishes(t) => ~run[t].failed /\ ~run[t].skipped
        /\ ~Publishes(t) /\ run[t].item = "jar" => ~OtherResolver(t)

\* What was published before is there; a descriptor goes up after its jar.
Uploads(t) ==
    /\ job[t].task = "published" => run[t].pc = "done" /\ Exists(<<job[t].repo, "ivy", job[t].rev>>)
    /\ run[t].item = "ivy" /\ ~run[t].failed /\ ~run[t].skipped =>
         Holds(<<job[t].repo, "jar", job[t].rev>>, t)

\* What a task has read stays so or is blamed; where it has looked in vain
\* there was nothing.
Downloads(t) ==
    LET ivy == build_cache_path(t, "ivy")
        jar == build_cache_path(t, "jar")
    IN /\ run[t].md = "none" <=> run[t].item = "ivy"
       /\ run[t].pc = "parse" => Settled(ivy)
       /\ run[t].artifact => Settled(jar)
       /\ run[t].md # "none" => Comes(run[t].md, ivy) /\ Holds(ivy, run[t].md)
       /\ OtherResolver(t) => run[t].hit \/ "overlap" \in blame[ivy]
       /\ run[t].item = "ivy" /\ run[t].pc \in {"copying", "parse"} =>
            \/ run[t].hit \/ "overlap" \in blame[ivy]
            \/ /\ Writers(ivy) \subseteq {t}
               /\ \A i \in DOMAIN disk[ivy] : disk[ivy][i] = "hole" \/ job[disk[ivy][i]].repo = resolver(t)
       /\ run[t].pc = "done" /\ run[t].md # "none" /\ ~run[t].artifact =>
            OtherResolver(t) \/ blame[ivy] \cup blame[jar] # {}
       /\ run[t].md = "none" =>
            \A u \in Tasks :
                job[u].task = "published" /\ job[u].rev = job[t].rev =>
                    \/ blame[ivy] \cup blame[<<job[u].repo, "ivy", job[u].rev>>] # {}
                    \/ run[t].pc # "done" /\ \E i \in run[t].member..Len(Chain) : Chain[i] = job[u].repo

PairInv ==
    /\ IInv
    /\ PiecesBelong /\ OnlyFilesBlamed /\ Paired
    /\ \A t \in Tasks : CleanCopy(t) /\ IF Publishes(t) THEN Uploads(t) ELSE Downloads(t)

=============================================================================
