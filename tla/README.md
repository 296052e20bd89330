# Gantt in TLA+

Gantt is a build tool in C that reads Ant's `build.xml` files. This directory
holds TLA+ modules of its core, the TLC configurations that check them on small
instances, and proofs for the TLA+ proof system. `PROJECT.json` lists the
components, the runs, which source lines each definition stands for, the
hazards found in the code and the theorems. C files named below are those in the
repository's `src/` directory, other paths are relative to the repository.

## 1. The system

| part | state it keeps | operations | what is hard |
|---|---|---|---|
| main (`gantt.c`) | project, requested targets | look the targets up, invoke them, report | several targets, one of which fails or is unknown |
| targets (`target.c`) | per build: hashtables `context` and `completed` | `target_invoke`, recursive | diamonds, cycles, what is recorded when |
| antcall (`property.c`) | tables of its own | a nested `target_invoke` | cycles the tables cannot see |
| sequential, parallel (`property.c`) | child pids, local verdict | call or fork nested tasks, wait | interleaving, fork failure, signals, stdio, copied memory |
| exec, spawning (`exec.c`, `util.c`, `java_task.c`) | pipes, captured output, result properties | fork, write stdin, read stdout then stderr, wait | both sides waiting for each other, SIGPIPE, background processes |
| parser (`parser.c`) | a stack of states, depth counters, objects under construction | `start_element`, `end_element` | every nesting must leave the stacks as it found them |
| properties (`property.c`, `project.c`, `tstamp.c`) | `property_dict` | set, overwrite, expand `${...}` | who asks before writing, self reference |
| filesets, paths, matching (`fileset.c`, `path.c`, `selector.c`, `match.c`) | lists of selectors and path elements | read, resolve, match | `**` at the ends, order of attributes, cyclic references and links |
| file tasks (`fileops.c`, `get` and `apply` in `property.c`, `javac.c`, `jar.c`, `native2ascii.c`) | the disk, in particular times of files | make files of files | staleness, half-made files, errors that are not counted |
| Ivy resolution (`ivy_resolve.c`, `ivy_parse.c`) | ancestor path, descriptor memo, module and revision reports | walk the dependency graph, choose revisions | cycles, conflicts, excludes by path |
| Ivy cache (`ivy_resolve.c`, `ivy_publish.c`, `ivy_cache_tasks.c`) | repositories, a cache shared by all builds, the retrieve directory | publish, fetch, retrieve, cachepath | no locks, no temporary names, an existing file is a good file |
| DOM parser (`xml.c`, `project.c`, `task.c`) | a tree | build the same project another way | where the two parsers differ |

How they interact. `main` parses the build file into a project (targets with
resolved dependencies, tasks with attributes and nested objects), then calls
`target_invoke` for each requested target with one pair of tables.
`target_invoke` calls itself for the dependencies and `task_invoke` for the
tasks; `task_invoke` dispatches to a built-in task or spawns a program. The
tasks share the project: its property table, paths and filesets. `antcall`
re-enters `target_invoke`, `parallel` forks whole processes that each run
`task_invoke` on a copy of everything, `exec` and its kin join the process with
a command through pipes. File operations are programs of their own that get the
files of a resolved fileset in their environment. The Ivy tasks each run a whole
resolution and keep nothing in memory between them, only the cache directory;
they fetch through `get_invoke` or `cp`.

What makes each part correct:

* targets: dependencies before bodies, each body once per pair of tables,
  cycles reported exactly when there are some, success only when everything
  wanted is done;
* parallel: the verdict is that of the children, no child is left behind, no
  message is lost, no process waits for ever;
* exec: what the command wrote is what is captured, and the two processes never
  wait for each other;
* parser: the objects recorded are the elements nested, whatever the nesting;
* properties: what is set is not changed; expansion ends;
* filesets and paths: they select what Ant would, and resolving ends;
* file tasks: a task that succeeds has made its files of the sources as they are;
* Ivy: the report is what the descriptors declare, the latest revision of every
  module wins, a file handed on is whole, and a descriptor comes with its jar.

## 2. Modules

| module | models | by |
|---|---|---|
| `BuildOrder` | what target execution promises | the abstract specification: bodies one at a time, in dependency order, each once, only those needed |
| `TargetExec` | `main`'s loop, `target_invoke`, `antcall_invoke` | one action per way `target_invoke` goes on |
| `TargetExecProofs` | - | theorems about `TargetExec` |
| `Parallel` | `parallel_invoke`, `sequential_invoke`, the leaf tasks as one step | one action per step of a task in its process |
| `ParallelProofs` | - | theorems about `Parallel` |
| `Exec` | `exec_invoke`, `spawn_sync`, `spawn_sync_with_input`, `spawn_async`, the command | actions of gantt and of the command |
| `ExecProofs` | - | theorems about `Exec` |
| `Parser` | `start_element`, `end_element` and what they call | one operator per state of the parser, over an arbitrary well-formed document |
| `ParserProofs` | - | theorems about `Parser` |
| `PropertyValues` | values and their expansion, conditions, lookups of files and classes | operators |
| `Properties` | the property table from the command line to the last task | one operator per task |
| `PropertiesProofs` | - | theorems about `Properties` |
| `Matching` | `match`, `match_path`, and Ant's patterns to compare with | operators |
| `Filesets` | filesets and paths as both parsers read them and tasks resolve them | calls of `resolve_path` and `add_files` on a stack |
| `Files` | the tasks that make files of files | one action per step of a task, and the world around it |
| `FilesProofs` | - | theorems about `Files` |
| `IvyRevisions` | `ivy_compare_revisions` | operators |
| `IvyResolve` | `ivy_resolve_run`, `walk_module`, `finalize_revision` | one action per outcome of a dependency |
| `IvyResolveProofs` | - | theorems about `IvyResolve` |
| `IvyCache` | publish, fetch, retrieve, cachepath, cachefileset of one module | one action per step of a task |
| `IvyCacheProofs` | - | theorems about `IvyCache` |
| `MC*` | - | values for the constants |

### TargetExec

The recursion is explicit. `scopes` is a stack: each member is one pair of
tables (`context`, `completed`) with the activations that use it (`frames`).
`main` makes the first, every antcall pushes another. A frame is an activation
of `target_invoke` and the position of its loop, over `depends_list` (phase
`"depends"`) or `task_list` (phase `"tasks"`). `InvokeCompleted`,
`InvokeRecursive` and `Enter` are the three ways a call of `target_invoke`
begins, in the order of the code's checks; `StartTasks` is the removal from
`context` between the loops, `Complete` the insertion into `completed`. A false
result makes every caller return false, so one action, `Stop`, ends the
process. A task other than antcall is one step that succeeds or fails. The C
stack holds `StackLimit` activations.

Left out: two targets with one name (the dictionary keeps the last, the list
both), and the text on the console. `if` and `unless` are stored by the parser
and read by nothing; `disabled` names the targets they rule out, for the
property that says so.

### Parallel

A process is named by the task it was forked for. A child gets a copy of its
parent's memory: the plain tasks whose properties the table holds (`memory`)
and the messages still in the stdio buffer (`out.stdio`). It leaves by `_exit`,
which drops the buffer; main leaves by `exit`, which writes it. With `tty` every
message is written at once. `Kill` is a signal from outside, at most
`MaxKills` times. `ForkFailed` may happen at any fork.

### Exec

Data is counted in units, a pipe holds `Capacity`. The command is a sequence of
operations (read, write to either stream, start a background process). gantt
goes through `write`, `stdout`, `stderr`, `wait` in that order because the code
does: it writes the whole input, reads stdout to its end, then stderr, then
waits. A pipe is at its end when it is empty, the command has exited and no
background process holds it. What each step waits for is a definition of its own
(`CanWrite`, `AtEnd`, `CanReadInput` ...), the only condition on the state in its
action, so that `GanttCanStep` and `CommandCanStep` say when a process can go on.
The command line, the environment and the argument expansion are not modelled.

### Parser

`ctx` is `parse_context_t`, `doc` the elements so far. The environment opens any
child the grammar `Content` allows, or closes the innermost element. Elements
of tasks that keep an XML tree (`parallel` and the like) are recorded in
`nodes`. Attributes, text and the early search for `basedir` are not modelled.
The grammar of the passing run leaves out the nestings the parser is known
to lose track of: a selector container in a fileset, which has a run of its own;
anything but path elements in an inline path; and a task with filesets as well as
an `include` of its own, which goes to the first of the filesets (`parser.c:597` on).

### PropertyValues, Properties

A value is a sequence of texts and references. `resolve_variables` replaces
references from the innermost out, as often as there are any with a value: it is
bounded by `MaxCalls` in the model and by nothing in the code, and `Endless`
says that the bound was reached. A build goes through phases: -D options,
built-in properties (entered over the options), top-level `property` elements,
tasks. Each task is one operator, named for the C function. What enters several
properties, such as a file, the environment or exec, leaves them in `pending`;
`Enter` takes them one by one, each with the `mode` the code enters it in:
without asking, unless it is set, or unless its expanded name is set.
`xmlproperty` keeps the parser's state in `xml` and has one step per event of
the XML parser. `writer` and `unexpanded` are history. With `legacy` the DOM
parser reads the build file.

A task expands its attributes where the code does, one after the other and only those it
comes to (`Hangs`, `Expands`), since a value without end counts only there.
`Required` has the attributes without which a task fails before that. `Joined` and
`Converted` are the two ways lists become values, with a separator between any two
members or only behind something that is not empty.

`echo`, `fail` and `local` are there for what they read and return. Options are
well formed, a file has a handful of entries, and the console gives each line of
`Input`.

### Matching, Filesets

`match_path` is translated with its anchors, its search for the middle part and
its early returns, over sequences of names; `AntMatches` says what Ant's manual
says of the same patterns. `FilesetOf` is what the chosen parser makes of a
declaration (`fileset_create` with `javac` and `jar`'s implicit filesets, or
`fileset_init`), with the order of attributes kept, since it matters. The calls
of `resolve_path` and `add_files` under way are `stack`; `readdir` gives entries
in any order, `stat` follows `MaxLinks` links, `opendir` fails on `Closed`
directories, the C stack holds `MaxStack` calls of `resolve_path`. Patterns with
a property in them are expanded before and do not differ.

Paths are read tag by tag by the direct parser. `Reading` is what it keeps on the
way: the list it fills, the stack of lists around it, and whether an inline path
(`current_path`) or a fileset (`current_fileset`) is at hand. `BeginElement` and
`EndElement` are the two handlers, `ReadElements` calls them over a declaration. Any
closing tag within an inline path pops the stack, and there is one `current_path` for
all of them, so that nested inline paths come out otherwise than they stand.
`path_list_init` is the DOM parser's reading, which recurses.

The differences from Ant that the code has are spelled out in `ReadOtherwise` and
`MatchedOtherwise`, and the properties hold everywhere else; section 3 lists
them.

### Files

The disk maps paths to files and directories with a time in whole seconds. A
build is a sequence of tasks, each a record of attributes; `job` is how far the
running one is: at its list of files, in the middle of a stream, or reporting
with a count of errors. `copy`, `get`, `native2ascii` and `concat` move one chunk
at a time; a fetch that fails leaves the directories `get` has made first and,
where wget fetches, an empty file (`Refused`), and curl alone compares times
(`NotModified`), so either may happen; `javac` writes the classes of its stale sources one by one; moving,
touching, deleting, an archiver's run and one command of `apply` are one step.
Around it the world goes on: seconds pass, sources are edited, builds are killed
(`Kill`), a write fails (`WriteFails`), the compiler fails. `suspect` is the
history of what times cannot tell: a pair of a source and a file made of it from
the moment the file is left half made, is changed by anything but the task that makes
it, or its source changes while the file is made or without a later time. `changed`
is what changed while the task ran. `Done` is what each task's success means. The trees of recursive copies
are the lists of their files.

### IvyResolve

A frame is an activation of `walk_module` in its loop, the bottom one the loop
over the root's dependencies. `Skip`, `Cyclic`, `NotFound` and `Describe` are
what can become of the next dependency; the lookup of a descriptor
(`resolver_find_module`, with the cache and the network behind it) may fail or
succeed each time. The configuration mapping is reduced to whether it matches a
requested configuration, an exclude to the set of modules it matches, and
`callers`, a list with repetitions in the code, to a set of edges.

`IvyRevisions` has the comparison as `ivy_compare_revisions` makes it
(`CompareRevisions`, with `strtol`, which stops at `LongMax`) and, apart from it,
the order its comment describes (`Outranks`, `LaterBy`). `ReadOtherwise` names the
places where the two part; the verdicts are judged by the second.

### IvyCache

What `IvyResolve` abstracts to a lookup that fails or succeeds. One module, in
one or more revisions, with a descriptor and a jar. Repositories, the cache and
the retrieve directory are one map from places to sequences of pieces; a piece
names the publication it comes from, so mixed files show. Copying is opening the
target, which empties it, one step per piece, and closing. Tasks are processes
of independent builds and interleave at every step. `blame` is the history of
what may be wrong with a file: cut short, used by two at once (`overlap`), left
empty by wget, published without its jar (`bare`), not published over an
existing one (`skipped`), published again, or fetched from a guessed resolver.
Each cause is needed: without any of them in the properties TLC finds a state
that violates them.

## 3. Runs

| run | instance | shows |
|---|---|---|
| `targets` | every dependency graph over three targets with lists of up to two, and every small antcall pattern over two; stack of 4 | the safety properties of `TargetExec`, its inductive invariant, termination, and that it implements `BuildOrder` |
| `conditional` | two targets, one ruled out by `if`/`unless` | violated: its tasks run |
| `parallel` | eight trees of six tasks: nested parallel and sequential, both values of `failonany`, one kill, buffer of 2 | verdicts, orphans only where explained, everything ends |
| `parallel_output` | the same | violated: what a child logged is lost |
| `exec` | every sequence of up to five reads and writes against 0, 1, 2 or 4 units of input, pipes of 2; background processes; all options | capture is complete, the possible deadlocks are exactly three named ones, what fits returns or, if it leaves input unread, ends gantt by SIGPIPE |
| `parser` | every document of up to seven elements, six deep, in the grammar | every element recorded once by its owner, every closing tag restores |
| `parser_selectors` | the grammar with selectors in filesets | violated: `fileset_depth` stays too high |
| `ivy` | 864 graphs over seven revisions of three modules | the report is what is declared, the latest by the documented order wins but for two named departures, the walk ends |
| `properties` | every build of up to three out of 53 tasks and two -D options, both parsers | only those that do not ask overwrite; when expansion does not end and how that comes about; where xmlproperty takes its elements to be |
| `filesets` | every pattern of up to three names, pairs of `**`, every combination of attributes and children for fileset, javac and jar; paths and filesets with nested, missing and cyclic references; inline paths in inline paths; links in a circle; closed directories | selection as in Ant but for the named differences, paths flattened in order but for what the direct parser loses of nested inline paths, an end unless a reference is cyclic |
| `files` | two builds of a project, three projects of up to nine builds, one edit, two seconds, files of two chunks | success means made, but for the pairs times cannot tell; builds end unless concat feeds on itself |
| `ivycache` | seven line-ups of up to four tasks, a chain of two resolvers (a URL and a directory), files of two pieces, one fault | files handed on are whole, and descriptors come with their jar, but for the named causes |

Why the bounds are enough. Three targets make every shape of two edges meeting:
chains, diamonds, repeated entries, self loops and cycles of two and three; the
loop over a list is exercised by lists of two; a stack of four lets any
dependency path through three targets fit, so that only antcalls overflow it.
Six tasks give a parallel inside a parallel, a sibling on either side and a
task behind. Pipes of 2 with up to five operations can be under-full, full and
over-full on both streams. Seven elements, six of them open at a time, reach
every state of the parser (a path element in an inline path in a path in a task
is the deepest) with room for a sibling behind the nested element. Three Ivy
modules with up to three revisions give conflicts, cycles through one and two
modules, and an exclude above and beside what it excludes. Among the revisions
are two that are spelled differently and compare equal, one that goes on with a word
where another ends, and, with a `LongMax` of 2, two whose numbers are read alike. A descriptor declares at most two dependencies, the root three.

Three properties make a cycle of three, and three tasks set them, read them and
overwrite one; `MaxCalls` of eight is more than any ending expansion over three
properties takes. Patterns of three names hold `**` first, last and between
names; two of them take four names, in lists of their own. A path
refers two deep, so one reference is inside another; an inline path in an inline path
has up to three elements, and up to two before and behind it; the C stack is deeper
than any acyclic path of the run. Two builds are one that makes a file, well or
badly, and one that has to notice; one edit between or during them and two
seconds give every order of two times, equal ones included. Two pieces are a part
and a whole, and two writers of them give every mixture; four tasks are two
that publish and two that meet over what was published.

`Exec`, `Properties`, `Filesets`, `Files` and `IvyCache` run with
`CHECK_DEADLOCK FALSE`. In `Exec` gantt and a command really can block each
other, and `StuckExplained` says exactly when; the others stop when the build or the
last task has ended. All other systems end in an explicit stuttering action.

Fairness. `TargetExec`, `IvyResolve` and `Filesets` have one thread, so weak
fairness of the one step relation says no more than that the process is scheduled
and that a task or a fetch returns. `Files` has it for the steps of a task alone:
nobody need edit, start or kill, no time need pass, and nothing need fail.
`Parallel` has weak fairness for each task's step: every process is scheduled, and
`waitpid` returns when the child has ended. A kill is never forced. `Exec` has
weak fairness for gantt and for the command separately; a background process need
not ever end. `Properties` and `IvyCache` are checked for safety only.

Each property of a passing run has a mutant: an operator, defined just before
the one it replaces, with a plausible mistake (a table not updated, a loop that
stops early, a check left out, an order swapped) under which TLC finds the
property violated. They show that the properties depend on the code.

### Disagreements between the code and its documents

Three have a run that shows them:

1. `README.md:41` promises conditional execution by `if`/`unless`;
   `target_invoke` never looks at them (`DisabledNeverRun`).
2. `echo.c:26` says that echo logs to the console; inside parallel, with output
   to a file or a pipe, it does not (`MessagesReachConsole`).
3. `parser.c:76` calls `fileset_depth` the depth within the fileset; a selector
   container raises it for good (`FilesetDepthIsNesting`).

Others were met while modelling. The models have what the code does.

* `property.c:2023` says that parallel waits for all children; after a failed
  fork it waits for none (`OrphansExplained` names that case).
* `exec.c:33` documents `output`; without `spawn` it is opened and not used.
* `ivy.h:213` says that a report has an error only if the revision could never be
  found, and `ivy.h:200` describes it as a winner, a loser or an error; one found at
  the second attempt has an error too (`ReportIsDeclared` exempts such reports by
  name), and a revision reached only through a cycle is none of the three.
* `ivy_parse.c:180` says that a number outranks a word at the same position,
  which matches "1.0 > 1.0-beta". Those two differ at no common position, and the
  longer one is then later (162-168): 1.0-beta beats 1.0. Numbers from
  `LONG_MAX` on, such as a timestamp glued to a build number, are all equal (126).
  `LatestIsGreatest` judges by the documented order and exempts both by name
  (`ReadOtherwise`).
* `property.c:379` says that Ant properties are immutable; eleven tasks
  overwrite (`Overwriting`). `parser.c` says that command-line
  properties take precedence; `basedir` and `user.*` are entered over them.
* The documented `available_class` of condition is never checked; `available`
  looks for its file relative to the working directory, not the base directory.
* `project_init` sets `base_dir` to the raw attribute again; the DOM parser frees
  a -D value it goes on using; a top-level property element differs from one in
  a target in what it accepts.
* `xmlproperty` with `keeproot="false"` drops the names of elements; a dot in an
  element's name corrupts the path for the rest of the file.
* Filesets: `**` never stands for nothing in front of a name; several `**` match
  less or, around a star, more than in Ant; a fileset that does not say so is
  case-insensitive; the direct parser takes a comma list for one pattern, forgets
  excludes before `includes` and has no default include; javac and jar with
  nested patterns keep the default and ignore attributes; conditions and pattern
  files on include and exclude, `defaultexcludes` and `followsymlinks` are
  ignored. One unreadable directory fails the whole fileset, and a path then goes
  on without a word.
* `javac.c:78` says a source is compiled when its class does not exist; any other
  class of its package that is newer stands in for it (222-231).
* Paths: the direct parser keeps one `current_path` for all open inline paths, and any
  closing tag within one ends it (`parser.c:776`-`784`, `1074`-`1093`). An inline path
  that begins with an inline path loses contents, an element behind the first lands
  beside the path it stands in, and a fileset in an inline path keeps only its
  first include. The DOM parser has none of this. `PathIsFlattened` exempts what
  stands in an inline path that begins with one, and still says that nothing else is
  lost, doubled or out of order; `SelectsAsAnt` exempts filesets read with fewer
  children than they have.
* Files: `overwrite="false"` of move is never honoured; copying a missing source
  succeeds; a read error ends a copy or concat as if at its end; deleting a
  directory ignores `failonerror`; mkdir succeeds over a file; an unknown `eol`
  empties the file; native2ascii does not count what it cannot open; jar without
  files keeps the old archive; `get` with `skipexisting` keeps part of a download;
  `apply` succeeds when its fileset cannot be resolved.
* `ivy_resolve.c:936` says that retrieved names tell revisions apart by
  construction; a pattern without `[revision]` does not. A descriptor found in
  the cache makes the first member of the chain the resolver of the jar.

## 4. Proofs

Eight modules of theorems, one per component, each of which EXTENDS the
component's module. In each of them an inductive invariant comes first (`IInv`
of the component), then what follows from it; TLC finds no violation of any of
them on the instance of the component's run. Nothing is assumed but the
assumptions on constants named here, which TLC evaluates on every run, and the
hypotheses a theorem states.

| theorems of | for every | state |
|---|---|---|
| `TargetExecProofs` | set of targets, build files, stack limit | `TypeCorrect`, `Inductive`, `DependenciesRunFirst`, `EachTargetOnce`, `ContextExact`, `RecursionReportsCorrect`, `CyclicTargetsIncomplete`, `SuccessComplete`, `UnknownNamesRunNothing`, the action property `CompletedIsMonotone`, the refinement `RefinesBuildOrder`, and `OverflowNeedsAntcallCycle` |
| `ParallelProofs` | task tree, buffer, number of kills | `TypeCorrect`, `NoUnexplainedOrphans`, `VerdictIsChildren` |
| `ExecProofs` | command, options, pipe capacity | `TypeCorrect`, `CapturesAll`, `StuckOnlyAsNamed` |
| `ParserProofs` | grammar, size and depth of a document | `TypeCorrect`; `ClosingTagRestores`, an action property, and `ChildrenAreRecorded`, for the grammars they name |
| `PropertiesProofs` | set of tasks, files, options, bounds | `TypeCorrect`, the action property `OnlyOverwritersOverwrite`, `EveryCycleExplained`, `PathsFollowElements` |
| `FilesProofs` | set of paths, build files, number of edits, kills and faults | `TypeCorrect`, `SuccessIsDone`, `SuccessIsDoneAnew` |
| `IvyResolveProofs` | finite set of revisions, graph over them | `Invariance`, `LatestWins`, `ReportComplete` |
| `IvyCacheProofs` | chain of resolvers, line-up of tasks, size of files, number of faults | `Invariance`, `TypeCorrect`, `DeliveredWhole`, `Pairing`, `DescriptorWithJar` |

### TargetExec

Assumptions: `NamesAssumption` (the name `Missing` is no target, `Plain` no
name), `BuildsAssumption` (build files have the type the parser leaves, in
particular every dependency is a target: the parser refuses a file with an
unknown one, `parser.c:1419` on) and `StackAssumption`.

`DependenciesFirst` and `AtMostOnce` are not inductive: that a
dependency the loop has passed is completed depends on what the frame above was
called for, and that no target is activated twice depends on `context` being
the targets of the frames in their dependency loop. `ScopeInv` adds
`LoopsInStep` (a task loop is innermost; what a dependency loop has passed is
completed, or is the frame above), `PathInContext` and `FramesArePath` (the
frames are a path of the dependency graph), from which a recursive call closes a
real cycle. `NoGoalLost` carries the wanted targets to `SuccessMeansAll`.
Everything but `NoGoalLost` and the verdicts is a statement about one scope, so
the proof has lemmas about what each change of one scope preserves
(`SkipInv`, `TaskInv`, `NewScopeInv`, `EnteredInv`, `StartedInv`,
`CompletedInv`) and lifts them to the stack with `ContinueStep`, `StopStep`,
`AntcallStep` and `ReturnStep`. `Below`, the transitive closure of the
dependencies, is defined by closed sets, so that `BelowTrans` needs no
induction.

The refinement needs `OnlyNeeded` besides: main's tables only ever hold targets
the wanted ones need. A step in main's own frames is then a step of `BuildOrder`,
and one in an antcall's, which has tables of its own, a stutter.

The C stack overflows only where a target can come to ask for itself through
antcalls, whose fresh tables do not see the recursion, provided it has room for
as many activations as there are targets: `Cardinality(Targets) <= StackLimit`
is a hypothesis of the theorem, since with less room a long chain of
dependencies overflows it too. `StackInv` says that every scope below the innermost
is inside the antcall that opened the one above, and that the scopes' frames
account for all activations on the C stack. More activations than targets then
means two of one target, by cardinality; within one scope `AtMostOnce` excludes
that, so they are in different ones, and the chain of antcalls between is the
cycle.

### Parallel

Assumptions: `TasksAssumption`, `BufferAssumption` and `TreesAssumption` (every
task is nested in at most one place, `Root` in none, a plain task holds none: they
are elements of an XML document).

`IInv` is `InStep` for every task: a sequential loop has run what it has passed, in
its own process; a parallel one has forked what its first pass went by, waited
for what its second did, and `success` is what those left of it. Each step
changes the status of one task and the position of one loop, so the lemmas
(`AdvanceKeeps`, `ForkKeeps`, `WaitKeeps`, `EndKeeps`, `KillKeeps` ...) say what
that does to the loop itself and to the loop above it; `NestedOnce` says there is
only one such loop. `OrphansExplained` is then about the way up the tree:
`InsideUp` takes one step of it, and where no fork failed and nothing was killed an
ended loop has nothing running below it.

### Exec

Assumptions: `CapacityAssumption`, `UnsetAssumption`, `CallsAssumption`.

`CaptureComplete` counts what is written, in the pipes and read. That nothing gets
lost on the way it says itself; that a call which returns has read everything needs
that gantt goes past a stream only at its end, when the command has exited and the
pipe is empty (`StreamsEnd`), and that the states of the two processes fit
(`InStep`). `CountStep` and `ExitedIsDone` do the counting, by cardinality. A
background process that keeps a pipe open delays its end and changes none of this.

`StuckOnlyAsNamed` has both directions. `CommandWaits` reduces a command that
cannot go on to its next operation: input gantt has yet to write, or output into a
full pipe. `NoStepIsBlock` then goes through gantt's places: while it writes, the
pipe is full, so the command waits for an output; while it reads stdout, the pipe
is empty, so the command waits to write stderr or is gone and the end is held off
by a background process; while it reads stderr the command is gone (`StreamsEnd`).
`BlockIsNoStep` shows that none of the three waits ends by itself. `ENABLED` is out
of the prover's reach, so the statement uses the named conditions of the steps.

### Parser

Assumptions: `GrammarAssumption` (what may be nested in what is a function on the
kinds of elements) and `BoundsAssumption`.

`TypeCorrect` says that no closing tag pops an empty stack or counts below
nothing, which needs `StackShape` (for each state, the stacks that can be under it)
and `ObjectsThere`. It holds for every grammar, the one of the run
`parser_selectors` included. `ClosingRestores` compares the parser with how it was at
the opening tag, which it does not remember; `Nesting` reads it off the open elements
instead: which of them are the project, the target, the task and what the counters
count, and where each was opened. This is where the finding about
`fileset_depth` bites, so the theorem has a hypothesis: `FilesetKinds(F)`, there is
a set of kinds with `fileset` in it, without the selector containers, and closed
under the grammar's nesting, that is, no selector container is opened within a
fileset. The grammar of the passing run satisfies it.

`ChildrenRecorded` speaks of documents that have been read. `ChildInv` says what
holds of it in the middle of one, and is what every tag keeps:

* `InDocument`: the open elements are nested in each other, and all that was read
  since one of them was opened stands in it;
* `Where`: the nine places the parser can be in, each with the objects its context
  then holds, as positions among the open elements: `InDirect` and `InXml` for the
  two ways to read a task, `InPath`, `InFileset` and `InSelector` for an object of
  the project (the second open element) or of a task (the fourth). `InPath`
  carries the list that is being collected, with inline paths flattened into it;
* `Books`: every object has recorded its members in document order but for those
  in `Pending`, which a later closing tag records: the task, a path and its
  elements, the object with an id, the open selectors.

`OpenKeepsChildInv` and `CloseKeepsChildInv` go through the places, one lemma for
each tag in each (`OpenInPath`, `CloseTask` ...), over lemmas about the effect of
`StartElement` and `EndElement` field by field. At the end nothing is pending.

The hypothesis of `ChildrenAreRecorded` is `Tracked(Content)`. `Nests` bounds what
each kind may hold by what the parser has a branch for, which leaves out the first
two of the nestings it loses track of (section 2). The third is left out by name: no
task may have both filesets and an `include` of its own (`IncludeInTask`). A task kept
as an XML tree holds no task with a path or a manifest: the tree keeps these as they
are nested, while `Members` flattens them. `MCParser` assumes `Tracked` of the
grammar of the passing run, and TLC evaluates it. `ChildInv` was checked by TLC on
the instance of that run before it was proved.

### Properties

Assumptions: `BuiltinsAssumption`, `EnvironmentAssumption` and
`DiskAssumption` (what is entered in order is a sequence),
`MaxCallsAssumption`, `TasksAssumption` (a prefix is a string) and
`XmlAssumption` (what `XML_Parse` reports is nested: one root, no end without a
start; expat stops at the first tag that breaks this, `property.c:2226`).

`OverwritersOnly` is about one step, but the write made by `Enter`
was prepared by an earlier one; `IInv` adds `AllAsk`: what is pending without
asking comes from a writer in `Overwriting`. `TableStep` says what a step may do
to the table, one write that is `Permitted`, and each task is shown to be such a
step by the few forms tasks are built from (`Sets`, `Enters`, `Returns`,
`XmlEvent`). `CyclesExplained` is inductive over such steps: a write that closes a
cycle is that of a property of the cycle, which refers to itself or to another
one that was in the table already, and is then in `unexpanded`.

`PathIsPosition` compares the path the handlers of xmlproperty keep, one string they
add to and cut, with the path of the open elements, which is defined by recursion. The
proof does without induction: `XmlInv` carries the recursive function along
(`OnlyPosition`: it solves the equations, and nothing else does), `ElementOpens`
extends it by one element and `ElementCloses` restricts it. The cut at the last dot
takes off exactly the last name where no open name has a dot (`CutAtLastDot`). That
the root's name gets the prefix and no other element's does needs a count of the
events read so far (`ReadTo`): the path is empty before the first start tag, and after
the root has ended there is no other.

### Files

Assumptions: `FilesAssumption` (the disk at first is one), `PathsAssumption` (what is
above a path is a path) and `TasksAssumption` (the attributes of tasks as
`task_invoke` hands them on: only `copy`, `get`, `native2ascii`, `javac` and `jar`
have an attribute that lets an error pass, `javac` and `jar` look for files
themselves).

`SuccessIsDone` states `SuccessMeansDone` under two hypotheses. `Apart` is about the
project: no task makes two things in one place, or one in the place of a directory
another needs, and users do not edit what tasks make; it is false of builds that
destroy their own output, and `MCFiles` assumes it of the builds that are checked.
`KeptSourcesWhole` is about the users: a file that `copy` (without `overwrite`) or `get`
(with `skipexisting`) leaves alone whatever its time tells can be no better than
what it was once copied from. It is an assumption on behaviours, `[]KeptSourcesWhole`;
TLC finds that it holds in every state of the run `files`, and where no task keeps
what is there it holds trivially (`SuccessIsDoneAnew`).

A file that is refused leaves no more than directories and an empty output behind
(`RefusedDisk`). The inductive invariant `IInv` has four parts:

* `TypeInv`: types, and `JobOK`, how far the running task is: a list of files of
  those it was given, a stream whose two ends exist;
* `TimesTell`: of a pair that is not suspect and not being made, a file that is no older than
  its source holds what the source holds (`Told`), and one that is kept whatever
  its time is whole. That is what makes the task of the next build right to leave a
  file alone, and it must survive every step of the world. `TellsStill` says that it
  survives a step for the pairs in nobody's hands, `Quiet` and `Harmless` which steps have no
  pair in hand;
* `MakingTells`: what is being made holds what has been read of its source so far, unless the
  source has changed;
* `TaskInv`: what the running task has done, for each kind: of every file passed
  (`Passed`) the file made of it holds what it holds, if nobody has changed the source
  since; the output of `concat` is the heading and what was read so far of its inputs
  (`Joined`); a source `javac` has left out has classes that are no older, and nobody has
  written to them (`Fresh`).

A task writes only what it has in hand and the directories above it
(`MissingIsAbove`), so `Apart` gives that the rest stays (`OthersStill`); `Steady` says
that a step changes nothing that is not in `changed` afterwards. `Selected` and
`FlattenSeq` are recursive: that the first keeps exactly the files wanted, and that the second
goes on by one sequence at a time, is shown without an induction theorem, by the
least number at which it fails (`UpTo`, from `NatLessThanWellFounded`).

### IvyResolve

Assumptions: `IdsAssumption` (the revisions are finitely many; a repository holds
finitely many files), `GraphsAssumption` and `LongMaxAssumption`.

`LatestWins` rests on `ivy_compare_revisions` being a total preorder
(`CompareTotal`, `CompareTransitive`). The comparison looks for the first token that
differs; instead of induction over the tokens the proof uses that every set of
numbers has a least member (`Least`, from the library's `NatLessThanWellFounded`).
`IInv` holds by that comparison (`LatestIsFirst`); that nothing found is later by the
documented order either follows where the two agree (`NoneLater`), and
`ReadOtherwise` is exactly what is left.
`IInv` says that the stack is the way the walk has come by, whose edges are in the report
(`StackIsWay`), that every edge of the report ends a declared way, and that of
every declared way the walk has left behind the edge is in the report and its end
was found or not (`BehindReported`). When the walk is over, every way is
behind it (`OverIsBehind`), which makes the report complete, for cyclic graphs too;
the ways of a graph have a closed form (`WaysAre`) so that this needs no
induction either.

### IvyCache

Assumptions: `IvyCacheAssumption` (the chain of resolvers is not empty, files have
pieces), `JobsAssumption` (the attributes of tasks) and `PlacesAssumption`
(builds, repositories, the cache and the retrieve directory are different
places).

`DeliveredWhole` needs that a file nobody writes is whole or damaged
(`FilesWhole`), that a copy whose target is not marked as damaged has in hand a
prefix of one whole file nobody else touches (`CopiesInStep`), and that a task which
counts on a jar counts on one that is there and not about to change (`InStep`,
`Settled`). A step is either `Quiet` (no file changes), opens a file, or puts one
piece; `QuietKeeps`, `OpenKeeps` and `PieceKeeps` say what each does to all files and all
other tasks, and each action adds what it does to its own.

`DescriptorWithJar` relates files of different places that were written at
different times, by different tasks, so it needs an invariant of its own, `PairInv`:

* `PiecesBelong`: whatever is in a file was published where the file says;
* `Paired`: a descriptor in a repository that nothing is known against has its
  publication's jar beside it, and a cached jar has beside it the descriptor that
  led to it;
* `CleanCopy`: a copy nothing is known against reads from a file nothing is
  known against;
* `Uploads`: a publisher at its descriptor has its jar uploaded, unless it failed or
  skipped it;
* `Downloads`: the descriptor a task has read is still in the cache, the
  resolver it came from is the one in whose turn it was fetched, and where the
  task has looked in vain there was nothing to be found.

That files keep what they hold is `World`: a step takes no blame back, and
changes a file only by its writer or at the price of blame. `HoldsKept`,
`UploadsKept`, `CleanKept` and `DownloadsKept` follow for all other tasks, and one
lemma per action (`Fetch_Pairs`, `CopyPiece_Pairs` ...) does the rest.

### Only model-checked

* Liveness, which rests on fairness: `Terminates` of `TargetExec` and `IvyResolve`,
  `EventuallyQuiet`, `FittingReturns`, `EndsUnlessFed`, `EndsIffAcyclic`.
* `ExpansionEndsIffAcyclic`, `SelectsAsAnt`, `MatchesOnlyAsAnt` and
  `PathIsFlattened`: what the recursive functions and folds of expansion and
  matching compute needs induction over data.
* The type invariant of `Filesets`: it is the type of what matching and flattening
  compute, and says no more than the run shows.

## 5. Not modelled

* `ivy_parse.c` but for the order of revisions, and `ivy_report.c`: reading or
  rendering one file at a time, with no state that outlives it.
* `javadoc.c`, and the command lines of javac, jar and java: assembled from
  attributes, with no state.
* `chmod` in `fileops.c`: it changes no content and no time.
* `selector_matches` with nested `and`, `or` and `not`: only javac calls it
  (`javac.c:555`), and no other selector than include and exclude is implemented
  for filesets.
* Poms, Maven resolvers, several artifacts per module and interpolated patterns
  in the Ivy cache.
* The text of messages, formats of dates, the listing of targets, options other
  than -D.
* The containers of `util.c`, which are used through their contracts, the shell
  scripts under `bin/`, tests and benchmarks.

## 6. Plan

What is left: properties that one target sets and another, through antcall or
parallel, does not see, that is, `TargetExec`, `Parallel` and `Properties` composed.
