------------------------------- MODULE Files -------------------------------
(***************************************************************************)
(* The tasks that make files of files (fileops.c, get_invoke, javac.c,     *)
(* jar.c, native2ascii.c), run again and again over a disk its users go    *)
(* on changing.  A build may be killed between any two steps, a write may  *)
(* fail, and what is out of date is told by times of whole seconds.        *)
(*                                                                         *)
(* Contents are sequences of chunks, one for each buffer read; a chunk is  *)
(* a file and the version of it the chunk was read from, and compiling,    *)
(* escaping and ends of lines keep the chunks they are applied to.  A      *)
(* removal of several files, and a run of the archiver, are one step.      *)
(***************************************************************************)
EXTENDS Integers, SequencesExt

CONSTANTS
    Paths,        \* sequences of names: the files and directories there may be
    Locked,       \* the directories nothing can be put in or taken out of
    Sources,      \* the files users edit, and those servers hold
    Initially,    \* the disk at first
    Builds,       \* a name -> the tasks of a build, in order
    Projects,     \* the names of the builds a project has, for each
    ClassOf,      \* a Java source -> the class file looked for
    Types,        \* a Java source -> the class files compiling it writes, in order
    MaxTime,      \* the last second of the model
    MaxEdits,     \* edits of the model
    MaxBuilds,    \* builds of the model
    MaxLength     \* chunks a file may grow to

Header == <<<<"header">>, 0>>
Chunk == (Sources \X (0..MaxEdits)) \cup {Header}
Size == 2                               \* chunks of a source
EmptyFile(time) == [type |-> "file", content |-> <<>>, mtime |-> time]
Directory == [type |-> "directory", content |-> <<>>, mtime |-> 0]

Phases == {"rest", "open", "files", "stream", "reported"}
AllTasks == UNION {Range(Builds[b]) : b \in DOMAIN Builds}
Entry == [type : {"file", "directory"}, content : Seq(Chunk), mtime : 0..MaxTime]
Disk(tree) ==
    /\ tree = [p \in DOMAIN tree |-> tree[p]]
    /\ DOMAIN tree \subseteq Paths
    /\ \A p \in DOMAIN tree : tree[p] \in Entry /\ (tree[p].type = "directory" => tree[p].content = <<>>)

ASSUME FilesAssumption ==
    /\ {MaxTime, MaxEdits, MaxBuilds, MaxLength} \subseteq Nat /\ MaxTime > 0
    /\ Sources \subseteq Paths
    /\ Disk(Initially)
    /\ DOMAIN ClassOf = DOMAIN Types
    /\ DOMAIN Types \subseteq Paths
    /\ \A s \in DOMAIN Types : ClassOf[s] \in Paths /\ Types[s] \in Seq(Paths)
    /\ Projects \subseteq SUBSET DOMAIN Builds
    /\ "none" \notin DOMAIN Builds

\* What is above a path is a path.
ASSUME PathsAssumption ==
    \A p \in Paths :
        /\ p \in Seq({p[i] : i \in DOMAIN p}) /\ p # <<>>
        /\ Front(p) \in Paths \cup {<<>>}
        /\ \A n \in 1..(Len(p) - 1) : SubSeq(p, 1, n) \in Paths

\* Tasks as task_invoke hands them on.  An error is let pass in the attributes
\* of get, native2ascii, javac and jar; javac and jar look for files
\* themselves, and only for those there are.
ASSUME TasksAssumption ==
    /\ \A b \in DOMAIN Builds : Builds[b] \in Seq(AllTasks) /\ Builds[b] # <<>>
    /\ \A t \in AllTasks :
          /\ t.files \in Seq(Paths)
          /\ t.task \in {"copy", "get", "native2ascii", "move", "concat", "apply"} =>
                \A f \in Range(t.files) : t.to[f] \in Paths
          /\ t.task = "move" =>
                \A f \in Range(t.files), p \in Paths :
                    IsPrefix(f, p) => t.to[f] \o SubSeq(p, Len(f) + 1, Len(p)) \in Paths
          /\ t.task = "concat" => t.dest \in Paths /\ \A f \in Range(t.files) : t.to[f] = t.dest
          /\ t.task = "jar" => t.dest \in Paths /\ t.fileset
          /\ t.task = "javac" => t.fileset /\ Range(t.files) \subseteq DOMAIN Types
          /\ t.task = "touch" => t.time \in 0..MaxTime
          /\ t.task = "apply" /\ t.parallel => t.maxparallel \in Nat
          /\ t.tolerant => t.task \in {"copy", "get", "native2ascii", "javac", "jar"}

VARIABLES
    disk,         \* path -> what is there
    clock,        \* the second it is
    version,      \* edits so far
    builds,       \* builds so far
    project,      \* the builds that can be started
    build,        \* the name of the running build, or "none"
    at,           \* the index of its task
    job,          \* how far that task is
    suspect,      \* sources and files made of them, where times tell nothing
    changed       \* the files changed since the task began

vars == <<disk, clock, version, builds, project, build, at, job, suspect, changed>>

Rest == [phase |-> "rest", list |-> <<>>, n |-> 1, read |-> 0, stat |-> 0, errors |-> 0]

Selected(files, wanted) ==
    LET first[n \in 0..Len(files)] ==
            IF n = 0 THEN <<>>
            ELSE IF files[n] \in wanted THEN Append(first[n - 1], files[n]) ELSE first[n - 1]
    IN  first[Len(files)]

Task == Builds[build][at]
File == job.list[job.n]
Dest == Task.to[File]
Streams == {"copy", "get", "native2ascii"}
More == job.n <= Len(job.list)
Running(phase) == build # "none" /\ job.phase = phase

----------------------------------------------------------------------------
(* The disk.                                                               *)

Above(p) == {SubSeq(p, 1, n) : n \in 1..(Len(p) - 1)}
In(tree, p) == {q \in DOMAIN tree : IsPrefix(p, q)}
Exists(p) == p \in DOMAIN disk
IsDirectory(tree, p) == p = <<>> \/ (p \in DOMAIN tree /\ tree[p].type = "directory")
Permits(tree, p) == Front(p) \notin Locked /\ IsDirectory(tree, Front(p))

\* What is put on the disk takes the place of what was there.
Over(new, tree) ==
    [p \in DOMAIN new \cup DOMAIN tree |-> IF p \in DOMAIN new THEN new[p] ELSE tree[p]]
Put(p, entry, tree) == Over([q \in {p} |-> entry], tree)

\* mkdirp: nothing is made unless the first directory that is missing can be;
\* a file in the place of the last one goes unnoticed.
Missing(p) == {q \in (Above(p) \cup {p}) \ {<<>>} : ~Exists(q)}
CanMake(p) == \A q \in Missing(p) : Front(q) \notin Locked /\ (Front(q) \in Missing(p) \/ IsDirectory(disk, Front(q)))
mkdirp(p) == IF CanMake(p) THEN Over([q \in Missing(p) |-> Directory], disk) ELSE disk

CanOpen(tree, p) == IF p \in DOMAIN tree THEN tree[p].type = "file" ELSE Permits(tree, p)

\* A directory is opened like a file, and nothing is read from it.
Contents(p) == disk[p].content

Inputs == [i \in DOMAIN job.list |-> Contents(job.list[i])]

\* rmdir_recursive removes what it can, from the bottom up.
Removable(p) == {q \in In(disk, p) : \A r \in In(disk, q) : Front(r) \notin Locked}
Without(gone) == [p \in DOMAIN disk \ gone |-> disk[p]]

----------------------------------------------------------------------------
(* What times cannot tell.  A pair <<source, file>> is suspect from the    *)
(* moment the file is left half made, or changed by anything but the task  *)
(* that makes it of the source, or the source changes while the file is    *)
(* made or gets a time that is not later, until the file is made again.    *)

Derived ==
    (UNION {{<<f, t.to[f]>> : f \in Range(t.files)} : t \in {t \in AllTasks : t.task \in Streams}})
    \cup (UNION {{<<s, c>> : c \in Range(Types[s])} : s \in DOMAIN Types})

\* The file whose time stands for the one made.
Compiled(pair) == pair[1] \in DOMAIN Types /\ pair[2] \in Range(Types[pair[1]])
Judge == [pair \in Derived |-> IF Compiled(pair) THEN ClassOf[pair[1]] ELSE pair[2]]

BeingMade(pair) ==
    /\ Running("stream")
    /\ \/ Task.task \in Streams /\ pair = <<File, Dest>>
       \/ Task.task = "javac" /\ Compiled(pair) /\ \E i \in job.n..Len(job.list) : job.list[i] = pair[1]

\* The files a step changes, and the pairs of which times do not tell it.
ChangedFiles == {p \in DOMAIN disk' : ~Exists(p) \/ disk'[p] # disk[p]}
Unseen(files) ==
    {pair \in Derived :
        \/ ~BeingMade(pair) /\ {pair[2], Judge[pair]} \cap files # {}
        \/ /\ pair[1] \in files
           /\ \/ BeingMade(pair)
              \/ Judge[pair] \in DOMAIN disk' /\ disk'[pair[1]].mtime <= disk'[Judge[pair]].mtime}

\* The disk becomes new; the pairs of again are made from now on.
Becomes(new, again) ==
    /\ disk' = new
    /\ \E files \in {ChangedFiles} :
          /\ suspect' = (suspect \cup Unseen(files)) \ again
          /\ changed' = IF job.phase = "rest" THEN {} ELSE changed \cup files

Same == UNCHANGED <<disk, suspect, changed>>
Frame == UNCHANGED <<clock, version, builds, project, build, at>>

----------------------------------------------------------------------------
(* The world: time, editors and servers, and whoever starts and kills      *)
(* builds.                                                                 *)

Tick ==
    /\ clock < MaxTime
    /\ clock' = clock + 1
    /\ Same /\ UNCHANGED <<version, builds, project, build, at, job>>

Edit(s) ==
    /\ version < MaxEdits
    /\ Exists(s) => ~IsDirectory(disk, s)
    /\ IsDirectory(disk, Front(s))
    /\ version' = version + 1
    /\ LET text == [i \in 1..Size |-> <<s, version + 1>>]
       IN Becomes(Put(s, [EmptyFile(clock) EXCEPT !.content = text], disk), {})
    /\ UNCHANGED <<clock, builds, project, build, at, job>>

Start(b) ==
    /\ build = "none"
    /\ builds < MaxBuilds
    /\ builds' = builds + 1
    /\ build' = b
    /\ UNCHANGED <<at, job, clock, version, project>> /\ Same

\* What a task that is stopped leaves half made.
HalfMade == {pair \in Derived : BeingMade(pair)}

Kill ==
    /\ build # "none"
    /\ build' = "none"
    /\ job' = Rest
    /\ at' = 1
    /\ suspect' = suspect \cup HalfMade
    /\ changed' = {}
    /\ UNCHANGED <<disk, clock, version, builds, project>>

----------------------------------------------------------------------------
(* Beginning a task, and going on to the next file.                        *)

\* Mutant: an error is reported, and not counted.
ErrorsForgotten(j) == j

Failing(j) == [j EXCEPT !.errors = @ + 1]
If(ok, j) == IF ok THEN j ELSE Failing(j)
Reporting == [job EXCEPT !.phase = "reported", !.stat = 0]
Next_file ==
    IF job.n = Len(job.list) /\ Task.task # "concat" THEN Reporting
    ELSE [job EXCEPT !.phase = "files", !.n = @ + 1, !.read = 0, !.stat = 0]

\* Filesets are resolved before the task is started, explicit names are not
\* looked at.  Without any file the file operations say what they miss, and
\* fail.
Begin ==
    /\ Running("rest")
    /\ LET list == IF Task.fileset THEN Selected(Task.files, DOMAIN disk) ELSE Task.files
           begun == [Rest EXCEPT !.list = list]
       IN job' = IF Task.task \in {"concat", "javac", "jar"} THEN [begun EXCEPT !.phase = "open"]
                 ELSE IF list # <<>> THEN [begun EXCEPT !.phase = "files"]
                 ELSE If(Task.task \in {"native2ascii", "apply"}, [begun EXCEPT !.phase = "reported"])
    /\ Same /\ Frame

Succeeded == job.errors = 0 \/ Task.tolerant

EndTask ==
    /\ Running("reported")
    /\ job' = Rest
    /\ IF Succeeded /\ at < Len(Builds[build])
       THEN at' = at + 1 /\ UNCHANGED build
       ELSE build' = "none" /\ at' = 1
    /\ changed' = {}
    /\ UNCHANGED <<disk, suspect, clock, version, builds, project>>

----------------------------------------------------------------------------
(* mkdir, move, touch and delete: one file, one step.                      *)

OneFile(task) == Running("files") /\ More /\ Task.task = task

mkdir_main ==
    /\ OneFile("mkdir")
    /\ Becomes(mkdirp(File), {})
    /\ job' = If(CanMake(File), Next_file)
    /\ Frame

CanRename(tree, from, to) ==
    \/ from = to
    \/ /\ Front(from) \notin Locked
       /\ Permits(tree, to)
       /\ ~IsPrefix(from, to)
       /\ to \in DOMAIN tree => tree[to].type = tree[from].type /\ In(tree, to) = {to}

Rename(tree, from, to) ==
    LET moved == [q \in In(tree, from) |-> to \o SubSeq(q, Len(from) + 1, Len(q))]
    IN [p \in (DOMAIN tree \ In(tree, from)) \cup Range(moved) |->
           IF p \in Range(moved) THEN tree[CHOOSE q \in DOMAIN moved : moved[q] = p] ELSE tree[p]]

\* overwrite is true whatever the attribute says.
do_move_file ==
    /\ OneFile("move")
    /\ LET tree == mkdirp(Front(Dest))
       IN \/ /\ ~Exists(File)
             /\ job' = If(~Task.failonerror, Next_file)
             /\ Same
          \/ /\ Exists(File) /\ ~CanRename(tree, File, Dest)
             /\ job' = Failing(Next_file)
             /\ Becomes(tree, {})
          \/ /\ Exists(File) /\ CanRename(tree, File, Dest)
             /\ job' = Next_file
             /\ Becomes(Rename(tree, File, Dest), {})
    /\ Frame

\* Mutant: milliseconds are taken for seconds.
TouchMillis == IF Task.time = 0 THEN clock ELSE Task.time * 1000

TouchTime == IF Task.time = 0 THEN clock ELSE Task.time

do_touch_file ==
    /\ OneFile("touch")
    /\ LET tree == IF Task.mkdirs THEN mkdirp(Front(File)) ELSE disk
           old == IF Exists(File) THEN disk[File] ELSE EmptyFile(0)
       IN \/ /\ Exists(File) \/ Permits(tree, File)
             /\ job' = Next_file
             /\ Becomes(Put(File, [old EXCEPT !.mtime = TouchTime], tree), {})
          \/ /\ ~Exists(File) /\ ~Permits(tree, File)
             /\ job' = If(~Task.failonerror, Next_file)
             /\ Becomes(tree, {})
    /\ Frame

\* What cannot be removed is an error for a directory even without failonerror.
do_delete_file ==
    /\ OneFile("delete")
    /\ LET gone == IF ~IsDirectory(disk, File) /\ Task.dir THEN {} ELSE Removable(File)
           excused == ~Task.failonerror /\ ~IsDirectory(disk, File) /\ ~Task.dir
       IN /\ Becomes(Without(gone), {})
          /\ job' = If(~Exists(File) \/ File \in gone \/ excused, Next_file)
    /\ Frame

----------------------------------------------------------------------------
(* copy, get, native2ascii and concat: chunk by chunk.                     *)

Newer(source, file) == disk[source].mtime > disk[file].mtime

\* A source that is missing does not need to be copied.
needs_copy == Exists(File) /\ (Exists(Dest) => Task.overwrite /\ Newer(File, Dest))

Skips ==
    CASE Task.task = "copy" -> ~needs_copy
      [] Task.task = "get" -> Exists(Dest) /\ Task.skipexisting
      [] OTHER -> FALSE

\* With usetimestamp curl leaves a file alone that is as new as the source;
\* wget, told the name of its output, does not compare times.
NotModified ==
    /\ Task.task = "get" /\ Task.usetimestamp
    /\ Exists(Dest) /\ Exists(File) /\ ~Newer(File, Dest)

OneStream == Running("files") /\ More /\ Task.task \in Streams

SkipFile ==
    /\ OneStream /\ (Skips \/ NotModified)
    /\ job' = Next_file
    /\ Same /\ Frame

CanMakeDest == Exists(File) /\ CanMake(Front(Dest)) /\ CanOpen(mkdirp(Front(Dest)), Dest)

\* get makes the directory before it asks for the source, and wget empties its
\* output before it knows whether there is anything to fetch.
Refused ==
    LET tree == IF Task.task = "get" \/ Exists(File) THEN mkdirp(Front(Dest)) ELSE disk
    IN {tree} \cup {new \in {Put(Dest, EmptyFile(clock), tree)} :
                       Task.task = "get" /\ CanOpen(tree, Dest)}

\* A file that cannot be read or made; and a fetch may fail for reasons of its
\* own, there being neither curl nor wget for one.
RefuseFile ==
    /\ OneStream /\ ~Skips
    /\ Task.task = "get" \/ ~CanMakeDest
    /\ job' = Failing(Next_file)
    /\ \E new \in Refused : Becomes(new, {})
    /\ Frame

OpenFile ==
    /\ OneStream /\ ~Skips /\ CanMakeDest
    /\ job' = [job EXCEPT !.phase = "stream", !.stat = disk[File].mtime]
    /\ Becomes(Put(Dest, EmptyFile(clock), mkdirp(Front(Dest))), {<<File, Dest>>})
    /\ Frame

\* concat empties its output before it reads anything, or adds to its end.
OpenOutput ==
    /\ Running("open") /\ Task.task = "concat"
    /\ LET tree == mkdirp(Front(Task.dest))
           out == IF Task.append /\ Exists(Task.dest) THEN disk[Task.dest] ELSE EmptyFile(clock)
           start == IF Task.header THEN [out EXCEPT !.content = Append(@, Header), !.mtime = clock] ELSE out
       IN \/ /\ CanOpen(tree, Task.dest)
             /\ job' = [job EXCEPT !.phase = "files"]
             /\ Becomes(Put(Task.dest, start, tree), {})
          \/ /\ ~CanOpen(tree, Task.dest)
             /\ job' = Failing(Reporting)
             /\ Becomes(tree, {})
    /\ Frame

\* Mutant: a missing input that is let pass is not passed over.
MissingInputStays ==
    /\ Running("files") /\ More /\ Task.task = "concat"
    /\ job' = IF Exists(File) THEN [job EXCEPT !.phase = "stream"] ELSE If(~Task.failonerror, job)
    /\ Same /\ Frame

OpenInput ==
    /\ Running("files") /\ More /\ Task.task = "concat"
    /\ job' = IF Exists(File) THEN [job EXCEPT !.phase = "stream"] ELSE If(~Task.failonerror, Next_file)
    /\ Same /\ Frame

Streaming == Running("stream") /\ Task.task # "javac"
Left == job.read < Len(Contents(File))

CopyChunk ==
    /\ Streaming /\ Left
    /\ Len(Contents(Dest)) < MaxLength
    /\ job' = [job EXCEPT !.read = @ + 1]
    /\ Becomes([disk EXCEPT ![Dest].content = Append(@, Contents(File)[job.read + 1]), ![Dest].mtime = clock], {})
    /\ Frame

\* A full disk, or a server that stops: what was written stays.
WriteFails ==
    /\ Streaming /\ Left
    /\ job' = Failing(Next_file)
    /\ suspect' = suspect \cup HalfMade
    /\ UNCHANGED <<disk, changed>> /\ Frame

CloseFile ==
    /\ Streaming /\ ~Left
    /\ job' = Next_file
    /\ Becomes(IF Task.task = "copy" /\ Task.preserve THEN [disk EXCEPT ![Dest].mtime = job.stat] ELSE disk, {})
    /\ Frame

\* convert_eol empties the file and writes it again, for the three names it
\* knows.
CloseOutput ==
    /\ Running("files") /\ ~More /\ Task.task = "concat"
    /\ job' = Reporting
    /\ Becomes(CASE Task.eol = "" -> disk
                 [] Task.eol \in {"lf", "crlf", "cr"} -> [disk EXCEPT ![Task.dest].mtime = clock]
                 [] OTHER -> [disk EXCEPT ![Task.dest] = EmptyFile(clock)], {})
    /\ Frame

----------------------------------------------------------------------------
(* javac and jar: what they hand to the compiler and the archiver.         *)

ClassesIn(directory) ==
    {c \in DOMAIN disk \cap UNION {Range(Types[s]) : s \in DOMAIN Types} : Front(c) = directory}
has_newer_class_in_dir(directory, source) ==
    \E c \in ClassesIn(directory) : disk[c].mtime >= disk[source].mtime

\* A source that has no class of its name is told up to date by any other
\* class of its package, package-info.java by those of the packages below too.
needs_compilation(source) ==
    LET package == Front(ClassOf[source])
        below == {p \in DOMAIN disk : IsDirectory(disk, p) /\ Front(p) = package}
    IN IF Exists(ClassOf[source])
       THEN Newer(source, ClassOf[source])
       ELSE \A d \in {package} \cup (IF Types[source] = <<>> THEN below ELSE {}) :
               ~has_newer_class_in_dir(d, source)

FindStale ==
    /\ Running("open") /\ Task.task = "javac"
    /\ LET stale == Selected(job.list, {s \in Range(job.list) : needs_compilation(s)})
       IN /\ job' = [job EXCEPT !.phase = IF stale = <<>> THEN "reported" ELSE "stream", !.list = stale]
          /\ Becomes(disk, {pair \in Derived : Compiled(pair) /\ pair[1] \in Range(stale)})
    /\ Frame

Compiling == Running("stream") /\ Task.task = "javac"

CompileClass ==
    /\ Compiling /\ More /\ job.read < Len(Types[File])
    /\ LET class == Types[File][job.read + 1]
       IN Becomes(Put(class, [EmptyFile(clock) EXCEPT !.content = Contents(File)], mkdirp(Front(class))), {})
    /\ job' = [job EXCEPT !.read = @ + 1]
    /\ Frame

CompileNext ==
    /\ Compiling
    /\ IF More THEN job.read = Len(Types[File]) /\ job' = [job EXCEPT !.n = @ + 1, !.read = 0]
               ELSE job' = Reporting
    /\ Same /\ Frame

CompilerFails ==
    /\ Compiling /\ More
    /\ job' = Failing(Reporting)
    /\ suspect' = suspect \cup HalfMade
    /\ UNCHANGED <<disk, changed>> /\ Frame

jar_invoke ==
    /\ Running("open") /\ Task.task = "jar"
    /\ LET nothing == job.list = <<>> /\ (Task.whenmanifestonly \in {"skip", "fail"}
                                          \/ (Task.whenmanifestonly = "" /\ ~Task.manifest))
           tree == Put(Task.dest, [EmptyFile(clock) EXCEPT !.content = FlattenSeq(Inputs)], disk)
       IN \/ /\ nothing
             /\ job' = If(Task.whenmanifestonly # "fail", Reporting)
             /\ Same
          \/ /\ ~nothing /\ CanOpen(disk, Task.dest)
             /\ job' = Reporting
             /\ Becomes(tree, {})
          \/ /\ ~nothing
             /\ job' = Failing(Reporting)
             /\ Same
    /\ Frame

----------------------------------------------------------------------------
(* apply: one command for a batch of files, here one that makes a file of  *)
(* each, all of them or, failing, none.                                    *)

Batch == IF ~Task.parallel THEN 1 ELSE IF Task.maxparallel > 0 THEN Task.maxparallel ELSE Len(job.list)

apply_invoke ==
    /\ OneFile("apply")
    /\ LET rest == job.n + Batch
           files == {job.list[i] : i \in {i \in DOMAIN job.list : job.n <= i /\ i < rest}}
           made == [d \in {Task.to[f] : f \in files} |->
                       [EmptyFile(clock) EXCEPT !.content = Contents(CHOOSE f \in files : Task.to[f] = d)]]
           next == IF rest > Len(job.list) THEN Reporting ELSE [job EXCEPT !.n = rest]
       IN \/ /\ files \subseteq DOMAIN disk
             /\ job' = next
             /\ Becomes(Over(made, disk), {})
          \/ /\ job' = IF Task.failonerror THEN Failing(Reporting) ELSE next
             /\ Same
    /\ Frame

----------------------------------------------------------------------------
Init ==
    /\ disk = Initially
    /\ clock = 1 /\ version = 0 /\ builds = 0
    /\ project \in Projects
    /\ build = "none" /\ at = 1
    /\ job = Rest
    /\ suspect = {pair \in Derived : {pair[2], Judge[pair]} \cap DOMAIN Initially # {}}
    /\ changed = {}

TaskStep ==
    \/ Begin \/ EndTask
    \/ mkdir_main \/ do_move_file \/ do_touch_file \/ do_delete_file
    \/ SkipFile \/ RefuseFile \/ OpenFile \/ OpenOutput \/ OpenInput
    \/ CopyChunk \/ CloseFile \/ CloseOutput
    \/ FindStale \/ CompileClass \/ CompileNext \/ jar_invoke \/ apply_invoke

Next ==
    \/ TaskStep \/ WriteFails \/ CompilerFails
    \/ Tick \/ Kill
    \/ \E s \in Sources : Edit(s)
    \/ \E b \in project : Start(b)

\* The kernel runs the process of a task; nothing makes anyone edit or start.
Progress == UNCHANGED <<clock, version, builds, project>> /\ TaskStep
Spec == Init /\ [][Next]_vars /\ WF_vars(Progress)

----------------------------------------------------------------------------
TypeOK ==
    /\ Disk(disk)
    /\ clock \in 1..MaxTime /\ version \in 0..MaxEdits /\ builds \in 0..MaxBuilds
    /\ project \in Projects /\ build \in project \cup {"none"}
    /\ build # "none" => at \in DOMAIN Builds[build]
    /\ job \in [phase : Phases, list : Seq(Paths), n : Nat, read : Nat, stat : 0..MaxTime, errors : Nat]
    /\ job.n \in 1..(Len(job.list) + 1)
    /\ suspect \subseteq Derived
    /\ changed \subseteq Paths

Held(file, source) == Exists(file) /\ Contents(file) = Contents(source)
Readable(f) == Exists(f) /\ ~IsDirectory(disk, f) /\ f \notin changed
Whole(file) == Exists(file) /\ Len(Contents(file)) = Size /\ \A c \in Range(Contents(file)) : c = Contents(file)[1]

\* The file was not made in this task, and its time tells nothing.
Untold(pair) == pair \in suspect /\ pair[2] \notin changed

\* Told to keep a file that is there, whatever its time.
Keeps(t) == (t.task = "copy" /\ ~t.overwrite) \/ (t.task = "get" /\ t.skipexisting)

\* What a task that reports success has done, for each kind of task.
Done(t) ==
    CASE t.task \in Streams ->
            \A f \in Range(t.files) :
                Readable(f) /\ ~Untold(<<f, t.to[f]>>) =>
                    \/ Held(t.to[f], f)
                    \/ t.tolerant /\ job.errors > 0
                    \/ Keeps(t) /\ Whole(t.to[f])
      [] t.task = "concat" ->
            /\ t.failonerror => \A f \in Range(job.list) : Exists(f)
            /\ (\A f \in Range(t.files) : Readable(f) /\ f # t.dest)
               /\ t.eol \in {"", "lf", "crlf", "cr"} /\ ~t.append
               => Contents(t.dest) = (IF t.header THEN <<Header>> ELSE <<>>)
                                     \o FlattenSeq(Inputs)
      [] t.task = "javac" ->
            \A s \in Range(t.files) :
                Readable(s) /\ job.errors = 0 /\ (Types[s] # <<>> => Exists(ClassOf[s])) =>
                    \A c \in Range(Types[s]) : ~Untold(<<s, c>>) /\ Exists(c) => Held(c, s)
      [] t.task = "apply" ->
            t.failonerror => \A f \in Range(job.list) : Readable(f) => Held(t.to[f], f)
      [] t.task = "delete" ->
            t.failonerror => \A f \in Range(t.files) : Exists(f) => f \in changed
      [] OTHER -> TRUE

\* When a task reports success, every file it makes is whole and made of the
\* sources as they are (needs_copy and copy_file, get_invoke, concat_main,
\* needs_compilation), but for sources changed meanwhile and the pairs times
\* tell nothing of: a file left half made is newer than its source and stays.
SuccessMeansDone == Running("reported") /\ Succeeded => Done(Task)

\* A build ends, whatever its tasks find on the disk, unless concat adds to a
\* file that was fed to itself: concat_main opens its output before it reads,
\* and an input that is the output grows as fast as it is read.
FedToItself(file) ==
    /\ Len(Contents(file)) = MaxLength
    /\ \E t \in AllTasks : t.task = "concat" /\ t.dest = file /\ file \in Range(t.files)
EndsUnlessFed == build # "none" ~> build = "none" \/ (Streaming /\ FedToItself(Dest))

----------------------------------------------------------------------------
(* What the proofs ask of a project and of its users.                      *)

\* Nothing a task makes is in the way of another thing it makes, and users do
\* not edit what tasks make.
Makers == Streams \cup {"apply"}
Apart ==
    /\ \A t \in AllTasks : t.task \in Makers =>
          \A f, g \in Range(t.files) :
              t.to[f] = t.to[g] \/ (t.task \in Streams /\ IsPrefix(t.to[f], t.to[g])) => f = g
    /\ \A s, r \in DOMAIN Types : \A c \in Range(Types[s]), d \in Range(Types[r]) :
          IsPrefix(c, d) => c = d /\ s = r
    /\ \A t \in AllTasks :
          /\ t.task \in Makers => \A f \in Range(t.files) : t.to[f] \notin Sources
          /\ t.task = "concat" => t.dest \notin Sources
    /\ \A s \in DOMAIN Types : Range(Types[s]) \cap Sources = {}
    /\ \A t \in AllTasks : t.task \in Streams =>
          \A f \in Range(t.files) : ~Compiled(<<f, t.to[f]>>)

\* What is kept whatever its time is copied from files that are whole.
KeptSourcesWhole ==
    \A t \in AllTasks : Keeps(t) => \A f \in Range(t.files) : Exists(f) => Whole(f)

=============================================================================
