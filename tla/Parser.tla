------------------------------- MODULE Parser -------------------------------
(***************************************************************************)
(* The SAX parser of build files (parser.c): start_element and             *)
(* end_element drive a state machine that keeps a stack of states, depth   *)
(* counters and the objects being built, and records which object belongs  *)
(* to which.  The document is whatever a well-formed build file may hold:  *)
(* at each step it opens an element the grammar allows, or closes the      *)
(* innermost one.                                                          *)
(*                                                                         *)
(* An element is named by its number in document order.  Attributes,       *)
(* text and the tasks' own reading of nested XML trees are left out.       *)
(***************************************************************************)
EXTENDS SequencesExt, FiniteSetsExt

CONSTANTS
    Kinds,        \* kinds of elements, named as in the build file
    Content,      \* the grammar: kind |-> kinds of its children
    MaxElements,  \* elements of a document
    MaxDepth      \* elements open at the same time

\* Tasks whose children are kept as an XML tree (task_needs_xml_node).
NeedsXmlNode == {"parallel"}

ASSUME GrammarAssumption == Content \in [Kinds -> SUBSET Kinds] /\ "project" \in Kinds
ASSUME BoundsAssumption == MaxElements \in Nat /\ MaxDepth \in Nat

VARIABLES
    doc,    \* the elements so far: [kind, parent, state, level], the last two
            \* being the parser's state and stack height before the element
    open,   \* the open elements, the innermost last
    ctx     \* parse_context_t

vars == <<doc, open, ctx>>

None == 0

Project == 1

Elements == 1..MaxElements

States == {"ROOT", "PROJECT", "TARGET", "TASK", "PATH", "FILESET", "SELECTOR", "SKIP"}

\* children holds what has been recorded: targets and named paths, filesets
\* and selectors of the project, tasks of a target, and so on.  filesets is
\* the current task's fileset_list, where an implicit fileset goes by the
\* name of the task.  A path's inline paths are flattened into its list:
\* list is what follows in the innermost, and an entry of lists what stands
\* before an inline path of the list around it.
Context ==
    [state : States, stack : Seq([state : States, data : Elements \cup {None}]),
     skip_depth : Nat, node_depth : Nat, fileset_depth : Int, path_depth : Nat,
     direct : BOOLEAN, in_manifest : BOOLEAN,
     target : Elements \cup {None}, task : Elements \cup {None},
     fileset : Elements \cup {None}, filesets : Seq(Elements),
     fileset_id : Elements \cup {None},
     selector : Elements \cup {None}, selectors : Seq(Elements),
     selector_id : Elements \cup {None},
     path : Elements \cup {None}, path_id : Elements \cup {None},
     list : Seq(Elements), lists : Seq(Seq(Elements)),
     nodes : Seq(Elements),
     children : [Elements -> Seq(Elements)]]

TypeOK ==
    /\ doc \in Seq([kind : Kinds, parent : Elements \cup {None}, state : States, level : Nat])
    /\ open \in Seq(Elements)
    /\ ctx \in Context

Init ==
    /\ doc = <<>>
    /\ open = <<>>
    /\ ctx = [state |-> "ROOT", stack |-> <<>>,
              skip_depth |-> 0, node_depth |-> 0, fileset_depth |-> 0, path_depth |-> 0,
              direct |-> FALSE, in_manifest |-> FALSE,
              target |-> None, task |-> None,
              fileset |-> None, filesets |-> <<>>, fileset_id |-> None,
              selector |-> None, selectors |-> <<>>, selector_id |-> None,
              path |-> None, path_id |-> None, list |-> <<>>, lists |-> <<>>,
              nodes |-> <<>>, children |-> [e \in Elements |-> <<>>]]

-----------------------------------------------------------------------------

Push(c, state, data) ==
    [c EXCEPT !.stack = Append(@, [state |-> c.state, data |-> data]), !.state = state]

Pop(c) ==
    IF c.stack = <<>> THEN c
    ELSE [c EXCEPT !.state = Last(c.stack).state, !.stack = Front(@)]

Record(c, e, parent) == [c EXCEPT !.children[parent] = Append(@, e)]

Skip(c) == Push([c EXCEPT !.skip_depth = 1], "SKIP", None)

-----------------------------------------------------------------------------
(* start_element, by the state it finds.                                   *)

\* Mutant: the depth does not count the path itself.
BeginPathZero(c, data) ==
    Push([c EXCEPT !.list = <<>>, !.lists = <<>>, !.path_depth = 0], "PATH", data)

BeginPath(c, data) ==
    Push([c EXCEPT !.list = <<>>, !.lists = <<>>, !.path_depth = 1], "PATH", data)

BeginFileset(c, e, data) ==
    Push([c EXCEPT !.fileset = e, !.fileset_depth = 1], "FILESET", data)

BeginSelector(c, e, data) ==
    Push([c EXCEPT !.selector = e, !.selectors = <<>>], "SELECTOR", data)

StartInProject(c, e, kind) ==
    CASE kind = "target"   -> [Record(c, e, Project) EXCEPT !.target = e, !.state = "TARGET"]
      [] kind = "property" -> Record(c, e, Project)
      [] kind = "path"     -> BeginPath([c EXCEPT !.path_id = e, !.path = None], None)
      [] kind = "fileset"  -> BeginFileset([c EXCEPT !.fileset_id = e], e, None)
      [] kind = "selector" -> BeginSelector([c EXCEPT !.selector_id = e], e, None)
      [] OTHER             -> Skip(c)

StartInTarget(c, e, kind) ==
    LET xml == kind \in NeedsXmlNode IN
    Push([c EXCEPT !.task = e, !.filesets = <<>>, !.node_depth = 1, !.direct = ~xml,
                   !.nodes = IF xml THEN <<e>> ELSE <<>>],
         "TASK", None)

\* An <include> directly in a task goes to the fileset being built, to the
\* first fileset of the task, or to an implicit one.
IncludeInTask(c, e) ==
    LET implicit == c.fileset = None /\ c.filesets = <<>>
        fileset  == IF c.fileset # None THEN c.fileset
                    ELSE IF implicit THEN c.task ELSE Head(c.filesets)
    IN  [Record(c, e, fileset) EXCEPT
            !.fileset  = IF implicit THEN c.task ELSE @,
            !.filesets = IF implicit THEN <<c.task>> ELSE @]

Deeper(c) == [c EXCEPT !.node_depth = @ + 1]

StartInTask(c, e, kind) ==
    CASE ~c.direct -> [Deeper(Record(c, e, Last(c.nodes))) EXCEPT !.nodes = Append(@, e)]
      [] c.direct /\ kind = "manifest" -> [Deeper(c) EXCEPT !.in_manifest = TRUE]
      [] c.direct /\ kind = "attribute" /\ c.in_manifest -> Deeper(Record(c, e, c.task))
      [] c.direct /\ kind = "fileset" /\ ~c.in_manifest ->
            BeginFileset([Record(c, e, c.task) EXCEPT !.filesets = Append(@, e)], e, e)
      [] c.direct /\ kind = "path" /\ ~c.in_manifest -> BeginPath(c, e)
      [] c.direct /\ kind \in {"refpath", "arg"} /\ ~c.in_manifest ->
            Deeper(Record(c, e, c.task))
      [] c.direct /\ kind = "include" /\ ~c.in_manifest -> Deeper(IncludeInTask(c, e))
      [] c.direct /\ kind = "or" /\ ~c.in_manifest -> BeginSelector(c, e, c.fileset)
      [] OTHER -> Deeper(c)

StartInPath(c, e, kind) ==
    LET d == [c EXCEPT !.path_depth = @ + 1] IN
    CASE kind = "include" /\ c.fileset # None -> Record(d, e, c.fileset)
      [] kind = "pathelement" -> [d EXCEPT !.list = Append(@, e)]
      [] kind = "fileset"     -> [d EXCEPT !.list = Append(@, e), !.fileset = e]
      [] kind = "inline"      -> [d EXCEPT !.lists = Append(@, c.list), !.list = <<>>, !.path = e]
      [] OTHER                -> d

StartInFileset(c, e, kind) ==
    LET d == [c EXCEPT !.fileset_depth = @ + 1] IN
    CASE kind = "include" /\ c.fileset # None -> Record(d, e, c.fileset)
      [] kind = "or" /\ c.fileset # None      -> BeginSelector(d, e, c.fileset)
      [] OTHER                                -> d

StartInSelector(c, e) ==
    IF c.selector = None THEN c
    ELSE [c EXCEPT !.selectors = Append(@, c.selector), !.selector = e]

StartElement(c, e, kind) ==
    CASE c.state = "ROOT"     -> IF kind = "project" THEN [c EXCEPT !.state = "PROJECT"]
                                                     ELSE Skip(c)
      [] c.state = "PROJECT"  -> StartInProject(c, e, kind)
      [] c.state = "TARGET"   -> StartInTarget(c, e, kind)
      [] c.state = "TASK"     -> StartInTask(c, e, kind)
      [] c.state = "PATH"     -> StartInPath(c, e, kind)
      [] c.state = "FILESET"  -> StartInFileset(c, e, kind)
      [] c.state = "SELECTOR" -> StartInSelector(c, e)
      [] c.state = "SKIP"     -> [c EXCEPT !.skip_depth = @ + 1]

-----------------------------------------------------------------------------
(* end_element, by the state it finds.                                     *)

EndSkip(c) ==
    LET d == [c EXCEPT !.skip_depth = @ - 1] IN
    IF d.skip_depth = 0 THEN Pop(d) ELSE d

\* Mutant: the closing tag of a child that is read directly ends the task.
EndTaskEarly(c, kind) ==
    Pop([Record(c, c.task, c.target) EXCEPT
            !.node_depth = @ - 1, !.nodes = <<>>, !.task = None, !.fileset = None,
            !.direct = FALSE])

EndTask(c, kind) ==
    LET d == [c EXCEPT !.node_depth = @ - 1] IN
    IF d.node_depth = 0
    THEN Pop([Record(d, d.task, d.target) EXCEPT
                 !.nodes = <<>>, !.task = None, !.fileset = None, !.direct = FALSE])
    ELSE IF d.direct
         THEN [d EXCEPT !.in_manifest = @ /\ kind # "manifest",
                        !.fileset = IF kind = "fileset" THEN None ELSE @,
                        !.fileset_depth = IF kind = "fileset" THEN 0 ELSE @]
         ELSE [d EXCEPT !.nodes = Front(@)]

\* Where a finished path goes: to the task around it, or by its id into the
\* project; an empty one nowhere.
PathRecorded(c) ==
    IF c.list = <<>> THEN c
    ELSE IF Last(c.stack).state = "TASK" /\ c.task # None
         THEN Record([c EXCEPT !.children[Last(c.stack).data] = c.list],
                     Last(c.stack).data, c.task)
         ELSE IF c.path_id # None
              THEN Record([c EXCEPT !.children[c.path_id] = c.list], c.path_id, Project)
              ELSE c

\* Mutant: a child that is not the inline path itself leaves the list around
\* it as it was.
EndInlinePathLost(c) ==
    IF c.lists = <<>> THEN c
    ELSE [c EXCEPT !.list = Last(c.lists), !.lists = Front(@), !.path = None, !.fileset = None]

\* Any child that closes inside an inline path ends it: the list built so far
\* becomes its content if it is still the current path, and is lost if not.
EndInlinePath(c) ==
    IF c.lists = <<>> THEN c
    ELSE [c EXCEPT !.list = Last(c.lists) \o (IF c.path # None THEN c.list ELSE <<>>),
                   !.lists = Front(@), !.path = None, !.fileset = None]

EndPath(c) ==
    LET d == [c EXCEPT !.path_depth = @ - 1] IN
    IF d.path_depth = 0
    THEN Pop([PathRecorded(d) EXCEPT
                 !.path_id = None, !.list = <<>>, !.path = None, !.fileset = None])
    ELSE EndInlinePath(d)

EndFileset(c) ==
    LET d == [c EXCEPT !.fileset_depth = @ - 1] IN
    IF d.fileset_depth # 0 THEN d
    ELSE Pop([(IF d.fileset_id # None /\ d.fileset # None
               THEN Record(d, d.fileset, Project) ELSE d)
                 EXCEPT !.fileset_id = None, !.fileset = None])

\* A selector nested in another becomes its child; an outermost one goes by
\* its id into the project, into the fileset around it, or to the task.
EndSelector(c) ==
    IF c.selectors # <<>>
    THEN [Record(c, c.selector, Last(c.selectors)) EXCEPT
             !.selector = Last(c.selectors), !.selectors = Front(@)]
    ELSE LET owner == IF c.selector_id # None THEN Project
                      ELSE IF Last(c.stack).data # None THEN Last(c.stack).data ELSE c.task
         IN  Pop([(IF owner # None /\ c.selector # None
                   THEN Record(c, c.selector, owner) ELSE c)
                     EXCEPT !.selector_id = None, !.selector = None])

EndElement(c, kind) ==
    CASE c.state = "SKIP"     -> EndSkip(c)
      [] c.state = "PROJECT"  -> IF kind = "project" THEN [c EXCEPT !.state = "ROOT"] ELSE c
      [] c.state = "TARGET"   -> [c EXCEPT !.target = None, !.state = "PROJECT"]
      [] c.state = "TASK"     -> EndTask(c, kind)
      [] c.state = "PATH"     -> EndPath(c)
      [] c.state = "FILESET"  -> EndFileset(c)
      [] c.state = "SELECTOR" -> EndSelector(c)
      [] c.state = "ROOT"     -> c

-----------------------------------------------------------------------------
(* The document                                                            *)

KindOf(e) == doc[e].kind

Open(kind) ==
    /\ Len(doc) < MaxElements /\ Len(open) < MaxDepth
    /\ IF open = <<>> THEN doc = <<>> /\ kind = "project"
                      ELSE kind \in Content[KindOf(Last(open))]
    /\ doc' = Append(doc, [kind   |-> kind,
                           parent |-> IF open = <<>> THEN None ELSE Last(open),
                           state  |-> ctx.state, level |-> Len(ctx.stack)])
    /\ open' = Append(open, Len(doc'))
    /\ ctx' = StartElement(ctx, Len(doc'), kind)

Close ==
    /\ open # <<>>
    /\ open' = Front(open)
    /\ ctx' = EndElement(ctx, KindOf(Last(open)))
    /\ UNCHANGED doc

Parsed == doc # <<>> /\ open = <<>>

\* The whole document has been read.
Finished == Parsed /\ UNCHANGED vars

Next == (\E kind \in Kinds : Open(kind)) \/ Close \/ Finished

Spec == Init /\ [][Next]_vars

-----------------------------------------------------------------------------

\* e is a <description> or stands in one.
Skipped(e) ==
    \/ KindOf(e) = "description"
    \/ doc[e].parent # None /\ KindOf(doc[e].parent) = "description"

\* The object an element belongs to: what stands in an inline path or in a
\* manifest belongs to what that stands in.
OwnerIn(p) == IF KindOf(p) \in {"inline", "manifest"} THEN doc[p].parent ELSE p
Owner(e) == OwnerIn(OwnerIn(OwnerIn(doc[e].parent)))

\* Elements that define something; an empty path does not.
Defines(e) ==
    /\ e # Project /\ ~Skipped(e)
    /\ KindOf(e) \notin {"inline", "manifest"}
    /\ KindOf(e) = "path" =>
           \E f \in DOMAIN doc : f > e /\ Owner(f) = e /\ KindOf(f) \notin {"inline", "manifest"}

Members(p) == {e \in DOMAIN doc : Defines(e) /\ Owner(e) = p}

\* s is in document order and holds nothing twice.
Ascending(s) == \A i, j \in DOMAIN s : i < j => s[i] < s[j]

\* What the document nests is what the parser has recorded, in document
\* order: every target, task, fileset, selector, path element and argument is
\* kept, once, by the object whose element it stands in.
ChildrenRecorded ==
    Parsed => \A p \in DOMAIN doc :
                  Ascending(ctx.children[p]) /\ ToSet(ctx.children[p]) = Members(p)

\* A closing tag takes the parser back to the state and the stack it had
\* before the opening tag: no element changes how its siblings are read.
ClosingRestores ==
    [][open' = Front(open) /\ open # <<>> =>
          /\ ctx'.state = doc[Last(open)].state
          /\ Len(ctx'.stack) = doc[Last(open)].level]_vars

\* The elements open from the innermost fileset on.
OpenFromFileset ==
    LET filesets == {i \in DOMAIN open : KindOf(open[i]) = "fileset"} IN
    IF filesets = {} THEN 0 ELSE Len(open) - Max(filesets) + 1

\* "Depth within fileset for nested children" (parser.c): while a fileset is
\* being read, fileset_depth is how deep in it the parser is.
FilesetDepthIsNesting ==
    ctx.state = "FILESET" => ctx.fileset_depth = OpenFromFileset

-----------------------------------------------------------------------------
(* What makes the invariants inductive                                     *)

\* A task is being read, or something in it.
ReadingTask(c) == c.stack # <<>> /\ c.stack[1].state = "TARGET"

\* The stacks the parser can have, by its state.  A selector container in a
\* fileset is the one thing that stands on two others.
StackShape(c) ==
    LET height == Len(c.stack) IN
    \/ c.state \in {"ROOT", "PROJECT", "TARGET"} /\ height = 0
    \/ c.state = "TASK" /\ height = 1 /\ ReadingTask(c)
    \/ c.state = "SKIP" /\ height = 1 /\ c.stack[1].state = "ROOT"
    \/ /\ c.state \in {"PATH", "FILESET", "SELECTOR", "SKIP"} /\ height = 1
       /\ c.stack[1].state = "PROJECT"
    \/ /\ c.state \in {"PATH", "FILESET", "SELECTOR"} /\ height = 2
       /\ ReadingTask(c) /\ c.stack[2].state = "TASK"
    \/ /\ c.state = "SELECTOR" /\ height = 2
       /\ c.stack[1].state = "PROJECT" /\ c.stack[2].state = "FILESET"
    \/ /\ c.state = "SELECTOR" /\ height = 3
       /\ ReadingTask(c) /\ c.stack[2].state = "TASK" /\ c.stack[3].state = "FILESET"

\* The objects and counters a closing tag works on are there.
ObjectsThere(c) ==
    /\ ReadingTask(c) => c.task # None /\ c.node_depth > 0
    /\ c.state = "SKIP" => c.skip_depth > 0
    /\ c.state = "PATH" => c.path_depth > 0
    /\ c.state = "PATH" /\ ReadingTask(c) => Last(c.stack).data # None
    /\ c.state = "SELECTOR" => c.selector # None

OpenRead == \A i \in DOMAIN open : open[i] \in DOMAIN doc

\* The type invariant with the facts it rests on, for every grammar.
IInv == TypeOK /\ OpenRead /\ StackShape(ctx) /\ ObjectsThere(ctx)

\* The open elements, as they were read.
Opened == [i \in DOMAIN open |-> doc[open[i]]]

OpenedIn(s, i, state, level) == s[i].state = state /\ s[i].level = level

\* The first n open elements are the project and properties in it.
InProject(s, n) ==
    /\ n \in DOMAIN s
    /\ OpenedIn(s, 1, "ROOT", 0) /\ s[1].kind = "project"
    /\ \A i \in 2..n : OpenedIn(s, i, "PROJECT", 0) /\ s[i].kind = "property"

\* ... and then a target, a task and node_depth - 1 elements in it.
InTask(c, s, n) ==
    LET target == n - c.node_depth IN
    /\ c.node_depth > 0 /\ n \in DOMAIN s
    /\ InProject(s, target - 1) /\ OpenedIn(s, target, "PROJECT", 0)
    /\ OpenedIn(s, target + 1, "TARGET", 0)
    /\ \A i \in target + 2..n : OpenedIn(s, i, "TASK", 1)

\* How many elements are open in the object being read, by its own counter.
Depth(c) == CASE c.state = "SKIP"     -> c.skip_depth
              [] c.state = "PATH"     -> c.path_depth
              [] c.state = "FILESET"  -> c.fileset_depth
              [] c.state = "SELECTOR" -> Len(c.selectors) + 1
              [] OTHER                -> 0

\* The last of the open elements are those of the object being read: the
\* first of them was opened in the state and at the height below it.
InObject(c, s) ==
    LET n == Len(s)
        height == Len(c.stack)
    IN  /\ Depth(c) > 0
        /\ OpenedIn(s, n - Depth(c) + 1, Last(c.stack).state, height - 1)
        /\ \A i \in n - Depth(c) + 2..n : OpenedIn(s, i, c.state, height)

\* Where the parser is, by its state, its stack and its counters, is where the
\* open elements put it.
Nesting(c, s) ==
    LET n == Len(s)
        height == Len(c.stack)
    IN  \/ c.state = "ROOT" /\ height = 0 /\ n = 0
        \/ c.state = "PROJECT" /\ height = 0 /\ InProject(s, n)
        \/ c.state = "TARGET" /\ height = 0 /\ InProject(s, n - 1) /\ OpenedIn(s, n, "PROJECT", 0)
        \/ c.state = "TASK" /\ height = 1 /\ ReadingTask(c) /\ InTask(c, s, n)
        \/ /\ c.state \in {"PATH", "FILESET", "SELECTOR", "SKIP"} /\ InObject(c, s)
           /\ \/ /\ height = 1 /\ c.stack[1].state = "PROJECT"
                 /\ InProject(s, n - Depth(c))
              \/ /\ c.state # "SKIP" /\ height = 2 /\ ReadingTask(c)
                 /\ c.stack[2].state = "TASK" /\ InTask(c, s, n - Depth(c))

\* Kinds that hold filesets' content but no selector containers.
FilesetKinds(F) ==
    "fileset" \in F /\ "or" \notin F /\ \A k \in F \cap Kinds : Content[k] \subseteq F

\* What is open in the fileset being read is of these kinds.
FilesetOf(c, s, F) ==
    c.state = "FILESET" => \A i \in Len(s) - Depth(c) + 1..Len(s) : s[i].kind \in F

\* Where the parser is, for the grammars without those containers.
NestingInv(F) == Nesting(ctx, Opened) /\ FilesetOf(ctx, Opened, F)

-----------------------------------------------------------------------------
(* What makes ChildrenRecorded inductive                                   *)

\* The kinds of elements the parser itself looks for; all others are tasks.
Known ==
    {"project", "target", "property", "description", "path", "fileset", "selector",
     "refpath", "arg", "include", "or", "manifest", "attribute", "pathelement", "inline"}

Tasks == Kinds \ Known

\* What may be nested in what, in the build files that the parser keeps track of.
Nests(kind) ==
    CASE kind = "project"        ->
            {"target", "property", "description", "path", "fileset", "selector"}
      [] kind = "target"         -> Tasks
      [] kind = "description"    -> {"include"}
      [] kind = "path"           -> {"pathelement", "fileset", "inline"}
      [] kind = "inline"         -> {"pathelement"}
      [] kind = "fileset"        -> {"include"}
      [] kind \in {"selector", "or"} -> {"include", "or"}
      [] kind = "manifest"       -> {"attribute"}
      [] kind \in NeedsXmlNode   -> Tasks
      [] kind \in Tasks \ NeedsXmlNode ->
            {"fileset", "path", "refpath", "arg", "include", "or", "manifest"}
      [] OTHER                   -> {}

\* No task has both filesets and an implicit one; what a task in parallel
\* holds is not flattened.
Tracked(content) ==
    /\ \A kind \in Kinds : content[kind] \subseteq Nests(kind)
    /\ \A task \in Tasks : "fileset" \in content[task] => "include" \notin content[task]
    /\ \A xml \in Kinds \cap NeedsXmlNode : \A task \in content[xml] :
          content[task] \cap {"path", "manifest"} = {}

\* The open elements are nested in each other, and all that has been read
\* since an element was opened stands in it.
InDocument ==
    /\ \A e \in DOMAIN doc :
          IF e = Project THEN KindOf(e) = "project" /\ doc[e].parent = None
          ELSE doc[e].parent \in 1..e - 1 /\ KindOf(e) \in Content[KindOf(doc[e].parent)]
    /\ open # <<>> => open[1] = Project
    /\ \A i \in 2..Len(open) : doc[open[i]].parent = open[i - 1]
    /\ \A i, j \in DOMAIN open : i < j => open[i] < open[j]
    /\ \A i \in DOMAIN open, e \in DOMAIN doc : e > open[i] => doc[e].parent >= open[i]

KindAt(i) == KindOf(open[i])

\* The objects named by an id are those being read for the project.
Ids(c, path, fileset, selector) ==
    c.path_id = path /\ c.fileset_id = fileset /\ c.selector_id = selector

NoIds(c) == Ids(c, None, None, None)

\* No task is being read.
NoTask(c) == NoIds(c) /\ c.task = None /\ c.fileset = None /\ ~c.in_manifest

InRoot(c) == c.state = "ROOT" /\ c.stack = <<>> /\ NoTask(c) /\ open = <<>>

BetweenTargets(c) ==
    /\ c.state = "PROJECT" /\ c.stack = <<>> /\ NoTask(c)
    /\ Len(open) \in {1, 2} /\ (Len(open) = 2 => KindAt(2) = "property")

InTarget(c) ==
    /\ c.state = "TARGET" /\ c.stack = <<>> /\ NoTask(c)
    /\ Len(open) = 2 /\ KindAt(2) = "target" /\ c.target = open[2]

\* The task being read, the third of the open elements.
TaskRead(c) ==
    /\ Len(open) > 2 /\ KindAt(2) = "target"
    /\ c.stack[1].state = "TARGET" /\ c.target = open[2] /\ c.task = open[3]
    /\ c.direct = (KindAt(3) \notin NeedsXmlNode)
    /\ "include" \in Content[KindAt(3)] => c.filesets \in {<<>>, <<c.task>>}

\* A task whose children are read directly, and what is open in it.
InDirect(c) ==
    /\ c.state = "TASK" /\ Len(c.stack) = 1 /\ TaskRead(c) /\ c.direct /\ NoIds(c)
    /\ c.node_depth = Len(open) - 2
    /\ c.fileset \in {None, c.task}
    /\ Len(open) > 3 => KindAt(4) \in {"refpath", "arg", "include", "manifest"}
    /\ c.in_manifest = (Len(open) > 3 /\ KindAt(4) = "manifest")

\* The kinds in an XML tree.
XmlKind(kind) ==
    \/ kind \in NeedsXmlNode \cup {"fileset", "refpath", "arg", "include", "or"}
    \/ kind \in Tasks /\ Content[kind] \cap {"path", "manifest"} = {}

\* A task that is kept as an XML tree.
InXml(c) ==
    /\ c.state = "TASK" /\ Len(c.stack) = 1 /\ TaskRead(c) /\ ~c.direct /\ NoIds(c)
    /\ ~c.in_manifest
    /\ c.node_depth = Len(open) - 2
    /\ c.nodes = [i \in 1..Len(open) - 2 |-> open[i + 2]]
    /\ \A i \in 3..Len(open) : XmlKind(KindAt(i))

\* An object of the project is the second of the open elements, one of a task
\* the fourth.
ObjectAt(c, b) ==
    /\ Len(open) >= b /\ ~c.in_manifest
    /\ \/ b = 2 /\ Len(c.stack) = 1 /\ c.task = None
          /\ c.stack[1].state = "PROJECT" /\ c.stack[1].data = None
       \/ b = 4 /\ Len(c.stack) = 2 /\ c.stack[2].state = "TASK"
          /\ TaskRead(c) /\ c.direct /\ c.node_depth = 1

IdAt(b) == IF b = 2 THEN open[b] ELSE None

\* The path that is being read, with inline paths flattened.
Flat(c) == IF c.lists = <<>> THEN c.list ELSE c.lists[1] \o c.list

InSkipped(c) ==
    /\ c.state = "SKIP" /\ NoTask(c) /\ ObjectAt(c, 2)
    /\ KindAt(2) = "description" /\ c.skip_depth = Len(open) - 1

InPath(c, b) ==
    /\ c.state = "PATH" /\ ObjectAt(c, b) /\ Ids(c, IdAt(b), None, None)
    /\ KindAt(b) = "path" /\ c.path_depth = Len(open) - b + 1
    /\ b = 4 => c.stack[2].data = open[b]
    /\ c.lists # <<>> => /\ Len(c.lists) = 1 /\ c.path # None
                         /\ Len(open) > b /\ KindAt(b + 1) = "inline"
    /\ Len(open) > b /\ KindAt(b + 1) = "fileset" => c.fileset = open[b + 1]
    /\ Ascending(Flat(c)) /\ ToSet(Flat(c)) = Members(open[b])

InFileset(c, b) ==
    /\ c.state = "FILESET" /\ ObjectAt(c, b) /\ Ids(c, None, IdAt(b), None)
    /\ KindAt(b) = "fileset" /\ c.fileset_depth = Len(open) - b + 1
    /\ c.fileset = open[b]

InSelector(c, b) ==
    /\ c.state = "SELECTOR" /\ ObjectAt(c, b) /\ Ids(c, None, None, IdAt(b))
    /\ \A i \in b..Len(open) : KindAt(i) \in {"selector", "or", "include"}
    /\ c.fileset \in {None, c.task}
    /\ b = 4 => c.stack[2].data \in {None, c.task}
    /\ Len(c.selectors) = Len(open) - b
    /\ \A i \in DOMAIN c.selectors : c.selectors[i] = open[b + i - 1]
    /\ c.selector = open[Len(open)]

\* Where the parser is.
Where(c) ==
    \/ InRoot(c) \/ BetweenTargets(c) \/ InTarget(c) \/ InSkipped(c)
    \/ InDirect(c) \/ InXml(c)
    \/ \E b \in {2, 4} : InPath(c, b) \/ InFileset(c, b) \/ InSelector(c, b)

\* What is read but recorded when it ends, or when what it belongs to does.
Pending ==
    LET b == IF ctx.task = None THEN 2 ELSE 4 IN
    {ctx.task} \cup
    CASE ctx.state = "PATH"     -> {open[b]} \cup Members(open[b])
      [] ctx.state = "FILESET"  -> {ctx.fileset_id}
      [] ctx.state = "SELECTOR" -> {open[i] : i \in b..Len(open)}
      [] OTHER                  -> {}

Books ==
    \A p \in Elements : /\ Ascending(ctx.children[p])
                        /\ ToSet(ctx.children[p]) = Members(p) \ Pending

ChildInv == InDocument /\ Where(ctx) /\ Books

=============================================================================
