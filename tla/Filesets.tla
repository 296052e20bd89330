------------------------------ MODULE Filesets ------------------------------
(***************************************************************************)
(* Filesets and path-like structures: how the two parsers read them and    *)
(* how a task resolves them to a list of names (fileset.c, path.c,         *)
(* selector.c, parser.c).                                                  *)
(*                                                                         *)
(* A directory is read entry by entry in whatever order readdir has, and   *)
(* through symbolic links; a path refers to other paths, a fileset to      *)
(* another fileset.                                                        *)
(***************************************************************************)
EXTENDS Matching, SequencesExt

CONSTANTS
    Disk,      \* directory |-> its entries, name |-> what it is
    Closed,    \* directories that cannot be opened
    Links,     \* entries that are symbolic links, <<directory, name>>
    MaxLinks,  \* links the system follows on the way to a file (ELOOP)
    Filesets,  \* id |-> declaration of a fileset
    Paths,     \* id |-> declarations of the elements of a path
    Wants,     \* what the task asks for: a path or a fileset
    MaxStack   \* calls of resolve_path the C stack has room for

ASSUME DiskAssumption == Closed \subseteq DOMAIN Disk
ASSUME BoundsAssumption == MaxLinks \in Nat /\ MaxStack \in Nat

VARIABLES
    legacy,    \* the DOM parser instead of the direct one
    want,
    phase,     \* "resolving", "done", "failed" or, out of stack, "overflow"
    stack,     \* the calls of resolve_path and add_files under way
    fileset,   \* the fileset being resolved, NoFileset if none is
    sub,       \* its files so far
    acc,       \* the resolved list
    resolved   \* history: the filesets resolved, with what came of each

vars == <<legacy, want, phase, stack, fileset, sub, acc, resolved>>

-----------------------------------------------------------------------------
(* Filesets as they are declared and as they are read                      *)

NoFileset == [element |-> ""]

Selector(type, name) == [type |-> type, name |-> name, ruled_out |-> FALSE]

\* A value with commas in it, taken for one pattern.
Whole(value) ==
    LET join(p, q) == SubSeq(p, 1, Len(p) - 1) \o <<p[Len(p)] \o <<",">> \o q[1]>> \o Tail(q)
    IN  FoldLeft(join, value[1], Tail(value))

\* The attribute of the name, split at the commas.
Split(d, attribute, type) ==
    FlattenSeq([i \in DOMAIN d.attributes |->
        IF d.attributes[i].name # attribute THEN <<>>
        ELSE [k \in DOMAIN d.attributes[i].value |-> Selector(type, d.attributes[i].value[k])]])

Declares(d, attribute) == \E i \in DOMAIN d.attributes : d.attributes[i].name = attribute

Default(d) ==
    Selector("include", IF d.element = "javac" THEN <<Anything, <<"*", ".java">>>> ELSE <<Anything>>)

\* An element as it is read, with its selectors in the order they are asked.
Read(d, selectors) ==
    [element |-> d.element, refid |-> d.refid, dir |-> d.dir, selectors |-> selectors,
     case_sensitive |-> d.casesensitive = "yes", nested |-> d.children, declared |-> d]

\* The attribute includes starts the list anew.
fileset_create(d) ==
    LET take(list, a) ==
            IF a.name = "includes" THEN <<Selector("include", Whole(a.value))>>
                                   ELSE Append(list, Selector("exclude", Whole(a.value)))
    IN  FoldLeft(take, <<>>, d.attributes) \o d.children

\* javac and jar without a fileset of their own: a nested include or exclude
\* makes one at once, of srcdir alone; otherwise the end of the task does.
ImplicitSelectors(d) ==
    IF d.children # <<>> THEN <<Default(d)>> \o d.children
    ELSE (IF Declares(d, "includes") THEN Split(d, "includes", "include") ELSE <<Default(d)>>)
         \o Split(d, "excludes", "exclude")

Implicit(d) ==
    LET unseen == d.children # <<>> /\ d.element = "jar" IN
    [Read(d, ImplicitSelectors(d)) EXCEPT !.case_sensitive = FALSE,
                                          !.dir = IF unseen THEN "" ELSE @]

\* Mutant: the default is there even beside an include.
DomAlwaysDefault(d) ==
    <<Default(d)>> \o Split(d, "includes", "include") \o Split(d, "excludes", "exclude")
                   \o d.children

\* The DOM parser; javac and jar are read like a fileset.
fileset_init(d) ==
    LET list == Split(d, "includes", "include") \o Split(d, "excludes", "exclude") \o d.children
    IN  IF \E i \in DOMAIN list : list[i].type = "include" THEN list
        ELSE <<Default(d)>> \o list

FilesetOf(d) ==
    IF legacy THEN Read(d, fileset_init(d))
    ELSE IF d.element = "fileset" THEN Read(d, fileset_create(d))
    ELSE Implicit(d)

-----------------------------------------------------------------------------
(* Paths as they are declared and as they are read                         *)

Is(tag, element) == tag \in DOMAIN element

ValuesOf(element, names) == SelectSeq(element.attributes, LAMBDA a : a.name \in names)

Refused(e) == Is("pathelement", e) /\ ValuesOf(e, {"path", "location"}) = <<>>

\* The direct parser takes the first attribute that says something.
path_create(e) ==
    LET said == ValuesOf(e, IF Is("pathelement", e) THEN {"path", "location"} ELSE {"refid", "path"})
    IN  IF said = <<>> THEN <<>>
        ELSE IF said[1].name = "refid" THEN <<[reference |-> said[1].value]>>
        ELSE <<[element |-> said[1].value]>>

\* A path as far as the direct parser has read it: the list that is filled,
\* the lists around it, and whether an inline path or a fileset is at hand
\* (current_path_list, path_stack, current_path, current_fileset).
Reading == [list |-> <<>>, lists |-> <<>>, path |-> FALSE, fileset |-> FALSE]

\* An opening tag: the contents of a path with an attribute go to the list it
\* stands in itself, an include without a fileset nowhere.
BeginElement(r, e) ==
    IF Is("type", e)
    THEN IF r.fileset THEN [r EXCEPT !.list[Len(r.list)].nested = Append(@, e)] ELSE r
    ELSE IF Is("fileset", e)
    THEN [r EXCEPT !.list = Append(@, [fileset |-> e.fileset, nested |-> <<>>]), !.fileset = TRUE]
    ELSE IF Is("path", e) /\ path_create(e) = <<>>
    THEN [r EXCEPT !.list = <<>>, !.lists = <<Append(r.list, [inline |-> <<>>])>> \o @, !.path = TRUE]
    ELSE [r EXCEPT !.list = @ \o path_create(e)]

\* A closing tag, of whatever element: there is one inline path at hand, so
\* that of two that are open the outer one gets nothing.
EndElement(r) ==
    IF r.lists = <<>> THEN r
    ELSE LET outer == Head(r.lists) IN
         [list |-> IF r.path THEN [outer EXCEPT ![Len(outer)] = [inline |-> r.list]] ELSE outer,
          lists |-> Tail(r.lists), path |-> FALSE, fileset |-> FALSE]

Contents(e) ==
    IF Is("path", e) THEN e.path ELSE IF Is("fileset", e) THEN e.fileset.children ELSE <<>>

RECURSIVE ReadElements(_, _)
ReadElements(r, es) ==
    LET read(s, e) == EndElement(ReadElements(BeginElement(s, e), Contents(e)))
    IN  FoldLeft(read, r, es)

\* The DOM parser reads an element with all that is in it, and gives up the
\* whole list for an element it refuses.
RECURSIVE path_list_init(_)
path_init(e) ==
    LET path     == ValuesOf(e, {"path"})
        location == ValuesOf(e, {"location"})
        refid    == ValuesOf(e, {"refid"})
    IN  IF Is("fileset", e) THEN [fileset |-> e.fileset, nested |-> e.fileset.children]
        ELSE IF Is("pathelement", e) THEN [element |-> (path \o location)[1].value]
        ELSE IF refid # <<>> THEN [reference |-> refid[1].value]
        ELSE [inline |-> [i \in DOMAIN path |-> [element |-> path[i].value]] \o path_list_init(e.path)]

path_list_init(es) ==
    IF \E i \in DOMAIN es : Refused(es[i]) THEN <<>> ELSE [i \in DOMAIN es |-> path_init(es[i])]

\* The path declared by the elements es.
PathOf(es) == IF legacy THEN path_list_init(es) ELSE ReadElements(Reading, es).list

\* A fileset in a path.
FilesetIn(e) ==
    IF legacy THEN FilesetOf(e.fileset)
    ELSE [Read(e.fileset, fileset_create([e.fileset EXCEPT !.children = e.nested]))
             EXCEPT !.nested = e.nested]

-----------------------------------------------------------------------------
(* Selecting files                                                         *)

selector_match_file(file, selector, fs) ==
    selector.type \in {"include", "exclude"}
        /\ match_path(selector.name, file, fs.case_sensitive)

Selected(file, fs) ==
    LET hit(type) == \E i \in DOMAIN fs.selectors :
                         /\ fs.selectors[i].type = type
                         /\ selector_match_file(file, fs.selectors[i], fs)
    IN  hit("include") /\ ~hit("exclude")

-----------------------------------------------------------------------------
(* Resolving: a call of resolve_path has a list left, one of add_files a    *)
(* directory with the entries left, the names that led to it from the      *)
(* directory of the fileset and the links among them.                      *)

Top == stack[Len(stack)]
Call(elements) == [left |-> elements]
Visit(node, at, links) ==
    [node |-> node, at |-> at, links |-> links, left |-> DOMAIN Disk[node]]

Room == Len(stack) < MaxStack

Init ==
    /\ legacy \in BOOLEAN /\ want \in Wants /\ phase = "resolving"
    /\ stack = IF Is("fileset", want) THEN <<>> ELSE <<Call(PathOf(want.path))>>
    /\ fileset = IF Is("fileset", want) THEN FilesetOf(want.fileset) ELSE NoFileset
    /\ sub = <<>> /\ acc = <<>> /\ resolved = <<>>

Overflow == phase' = "overflow" /\ UNCHANGED <<stack, fileset, sub, acc, resolved>>

\* The path an element stands for.
Inner(e) ==
    IF Is("inline", e) THEN e.inline
    ELSE IF Is("reference", e) /\ e.reference \in DOMAIN Paths THEN PathOf(Paths[e.reference])
    ELSE <<>>

NextElement == stack' = [stack EXCEPT ![Len(stack)].left = Tail(@)]

\* Mutant: a path without elements stays the next element.
ElementStays(e) ==
    \/ /\ Is("element", e)
       /\ acc' = Append(acc, e.element)
       /\ NextElement /\ UNCHANGED <<phase, fileset, sub, resolved>>
    \/ /\ ~Is("element", e) /\ Inner(e) = <<>>
       /\ UNCHANGED <<phase, stack, fileset, sub, acc, resolved>>

\* The next element of the innermost path.
Element(e) ==
    \/ /\ Is("element", e)
       /\ acc' = Append(acc, e.element)
       /\ NextElement /\ UNCHANGED <<phase, fileset, sub, resolved>>
    \/ /\ Is("fileset", e)
       /\ fileset' = FilesetIn(e)
       /\ NextElement /\ UNCHANGED <<phase, sub, acc, resolved>>
    \/ /\ Is("reference", e) \/ Is("inline", e)
       /\ Inner(e) = <<>>
       /\ NextElement /\ UNCHANGED <<phase, fileset, sub, acc, resolved>>
    \/ /\ Is("reference", e) \/ Is("inline", e)
       /\ Inner(e) # <<>>
       /\ IF ~Room THEN Overflow
          ELSE /\ stack' = Append([stack EXCEPT ![Len(stack)].left = Tail(@)], Call(Inner(e)))
               /\ UNCHANGED <<phase, fileset, sub, acc, resolved>>

\* The innermost path is at its end.
PathEnds ==
    /\ stack' = Front(stack)
    /\ phase' = IF Len(stack) = 1 THEN "done" ELSE phase
    /\ UNCHANGED <<fileset, sub, acc, resolved>>

resolve_path ==
    /\ phase = "resolving" /\ fileset = NoFileset
    /\ IF Top.left = <<>> THEN PathEnds ELSE Element(Head(Top.left))
    /\ UNCHANGED <<legacy, want>>

\* The calls under way when the fileset came up, add_files' left out.
Callers == SelectSeq(stack, LAMBDA c : ~Is("node", c))

\* Mutant: what was found before the failure is kept.
ReturnWhatWasFound(ok) ==
    /\ resolved' = Append(resolved, [fileset |-> fileset, files |-> sub, ok |-> ok])
    /\ acc' = acc \o sub
    /\ stack' = Callers
    /\ phase' = IF Callers # <<>> THEN phase ELSE IF ok THEN "done" ELSE "failed"
    /\ fileset' = NoFileset /\ sub' = <<>>

\* Mutant: the files stay in the list.
ReturnListKept(ok) ==
    /\ resolved' = Append(resolved, [fileset |-> fileset, files |-> sub, ok |-> ok])
    /\ acc' = IF ok THEN acc \o sub ELSE acc
    /\ stack' = Callers
    /\ phase' = IF Callers # <<>> THEN phase ELSE IF ok THEN "done" ELSE "failed"
    /\ fileset' = NoFileset /\ sub' = sub

\* resolve_fileset returns.  A path goes on without a fileset that failed, a
\* task fails with it.
Return(ok) ==
    /\ resolved' = Append(resolved, [fileset |-> fileset, files |-> sub, ok |-> ok])
    /\ acc' = IF ok THEN acc \o sub ELSE acc
    /\ stack' = Callers
    /\ phase' = IF Callers # <<>> THEN phase ELSE IF ok THEN "done" ELSE "failed"
    /\ fileset' = NoFileset /\ sub' = <<>>

opendir(node, at, links) ==
    IF node \in Closed THEN Return(FALSE)
    ELSE /\ stack' = Append(stack, Visit(node, at, links))
         /\ UNCHANGED <<phase, fileset, sub, acc, resolved>>

\* Before the directory is opened.
resolve_fileset ==
    /\ phase = "resolving" /\ fileset # NoFileset /\ Len(stack) = Len(Callers)
    /\ IF fileset.refid # ""
       THEN IF fileset.refid \notin DOMAIN Filesets THEN Return(FALSE)
            ELSE /\ fileset' = FilesetOf(Filesets[fileset.refid])
                 /\ UNCHANGED <<phase, stack, sub, acc, resolved>>
       ELSE IF fileset.dir = "" THEN Return(TRUE)
       ELSE IF fileset.dir \notin DOMAIN Disk THEN Return(FALSE)
       ELSE opendir(fileset.dir, <<>>, 0)
    /\ UNCHANGED <<legacy, want>>

\* Past the links the system follows stat fails, and the entry is taken for a
\* file, as is a link that leads nowhere.
file_is_directory(node, links) == node \in DOMAIN Disk /\ links <= MaxLinks

add_files ==
    /\ phase = "resolving" /\ stack # <<>> /\ Is("node", Top)
    /\ \/ /\ Top.left = {}
          /\ IF Len(stack) = Len(Callers) + 1 THEN Return(TRUE)
             ELSE stack' = Front(stack) /\ UNCHANGED <<phase, fileset, sub, acc, resolved>>
       \/ \E name \in Top.left :
             LET at    == Append(Top.at, name)
                 links == Top.links + (IF <<Top.node, name>> \in Links THEN 1 ELSE 0)
                 node  == Disk[Top.node][name]
                 read  == [stack EXCEPT ![Len(stack)].left = @ \ {name}]
             IN  IF ~file_is_directory(node, links)
                 THEN /\ stack' = read
                      /\ sub' = IF Selected(at, fileset) THEN Append(sub, at) ELSE sub
                      /\ UNCHANGED <<phase, fileset, acc, resolved>>
                 ELSE IF node \in Closed THEN Return(FALSE)
                 ELSE /\ stack' = Append(read, Visit(node, at, links))
                      /\ UNCHANGED <<phase, fileset, sub, acc, resolved>>
    /\ UNCHANGED <<legacy, want>>

Next == resolve_path \/ resolve_fileset \/ add_files

\* Nothing but the task itself is at work, and the system lets it run.
Spec == Init /\ [][Next]_vars /\ WF_vars(Next)
-----------------------------------------------------------------------------
(* What a fileset and a path promise                                       *)

\* The directories add_files comes to from dir, by their distance to it, and
\* the files in them.
Visits(dir) ==
    LET entered(v) ==
            {Visit(Disk[v.node][name], Append(v.at, name), v.links + 1) : name \in
                {n \in v.left : <<v.node, n>> \in Links /\ file_is_directory(Disk[v.node][n], v.links + 1)}}
            \cup
            {Visit(Disk[v.node][name], Append(v.at, name), v.links) : name \in
                {n \in v.left : <<v.node, n>> \notin Links /\ file_is_directory(Disk[v.node][n], v.links)}}
        longest == Cardinality(DOMAIN Disk) * (MaxLinks + 1)
        level[k \in 0..longest] ==
            IF k = 0 THEN {Visit(dir, <<>>, 0)}
            ELSE UNION {entered(v) : v \in {w \in level[k - 1] : w.node \notin Closed}}
    IN  UNION {level[k] : k \in 0..longest}

FilesUnder(dir) ==
    LET visits == Visits(dir)
        at == {v.at : v \in visits}
    IN  UNION {{Append(v.at, name) : name \in v.left} : v \in visits} \ at

\* The fileset can be resolved: its reference leads somewhere, and every
\* directory below its own can be opened.
Resolvable(fs) ==
    /\ fs.refid = ""
    /\ \/ fs.dir = ""
       \/ fs.dir \in DOMAIN Disk /\ \A v \in Visits(fs.dir) : v.node \notin Closed

\* The patterns of a fileset as Ant reads them.
Patterns(d, type) ==
    LET attribute == IF type = "include" THEN "includes" ELSE "excludes"
        named == UNION {ToSet(d.attributes[i].value) :
                            i \in {j \in DOMAIN d.attributes : d.attributes[j].name = attribute}}
        nested == {d.children[i].name : i \in {j \in DOMAIN d.children : d.children[j].type = type}}
    IN  named \cup nested

Includes(d) == IF Patterns(d, "include") = {} THEN {Default(d).name} ELSE Patterns(d, "include")

AntSelects(file, d) ==
    /\ \E p \in Includes(d) : AntMatches(p, file, d.casesensitive # "no")
    /\ ~\E p \in Patterns(d, "exclude") : AntMatches(p, file, d.casesensitive # "no")

\* Where gantt reads something else: conditions on an include or exclude and
\* files of patterns are never looked at; of a fileset the direct parser
\* takes a list of patterns for one, forgets excludes before includes and
\* has no default; with an include or exclude nested in it javac or jar has
\* the default too, and no attribute.
ReadOtherwise(d) ==
    \/ \E i \in DOMAIN d.children : d.children[i].ruled_out
                                   \/ d.children[i].type \notin {"include", "exclude"}
    \/ /\ ~legacy /\ d.element = "fileset"
       /\ \/ Patterns(d, "include") = {}
          \/ \E i \in DOMAIN d.attributes :
                 \/ Len(d.attributes[i].value) > 1
                 \/ i > 1 /\ d.attributes[i].name = "includes"
    \/ /\ ~legacy /\ d.element # "fileset" /\ d.children # <<>>
       /\ \/ d.element = "jar" \/ d.attributes # <<>>
          \/ Patterns(d, "include") # {}

\* Where gantt matches otherwise: ** does not stand for nothing in front of a
\* name, nor do several ** stand for what they do in Ant; and what does not
\* say whether it is case-sensitive is not.
MatchedOtherwise(file, d) ==
    \E p \in Includes(d) \cup Patterns(d, "exclude") :
        \/ ~Simple(p) /\ (Cardinality(Deep(p)) > 1 \/ Len(file) < Len(WithoutSlash(p)))
        \/ d.casesensitive = "" /\ AntMatches(p, file, TRUE) # AntMatches(p, file, FALSE)

\* A fileset that is resolved has exactly the files Ant would select, each
\* once, whatever the order the directories are read in: but for the
\* differences named above, and for a fileset in an inline path, of which the
\* direct parser sees one include (add_files, fileset_create, fileset_init,
\* start_element, end_element).
SelectsAsAnt ==
    phase # "resolving" => \A i \in DOMAIN resolved :
        LET fs == resolved[i].fileset
            d == fs.declared
            files == ToSet(resolved[i].files)
            comparable == {f \in FilesUnder(d.dir) : ~MatchedOtherwise(f, d)}
        IN  resolved[i].ok /\ d.dir # "" =>
                /\ IsInjective(resolved[i].files)
                /\ files \subseteq FilesUnder(d.dir)
                /\ ReadOtherwise(d) \/ fs.nested # d.children \/ files \cap comparable = {f \in comparable : AntSelects(f, d)}

\* No pattern matches a file it would not match in Ant, unless a star between
\* two ** takes in whole directories (match_path).
MatchesOnlyAsAnt ==
    stack = Callers /\ fileset # NoFileset /\ fileset.refid = "" /\ fileset.dir \in DOMAIN Disk =>
        \A i \in DOMAIN fileset.selectors :
            LET p == fileset.selectors[i].name
                case_sensitive == fileset.case_sensitive
            IN  \A file \in FilesUnder(fileset.dir) :
                    match_path(p, file, case_sensitive) =>
                        AntMatches(p, file, case_sensitive) \/ Crossing(p)

RECURSIVE BeginsInline(_)
BeginsInline(e) ==
    /\ Is("path", e) /\ e.path # <<>> /\ Is("path", e.path[1])
    /\ e.path[1].attributes = <<>> \/ BeginsInline(e.path[1])

\* The direct parser loses some of what stands in an inline path that begins
\* with an inline path.
Unsure(e) ==
    \/ Is("unsure", e)
    \/ ~legacy /\ Is("path", e) /\ e.attributes = <<>> /\ BeginsInline(e)

\* What an element of a path stands for: itself, or a path.
Meaning(e) ==
    LET meant ==
            IF Is("pathelement", e)
            THEN IF Refused(e) THEN <<>> ELSE <<[element |-> e.attributes[1].value]>>
            ELSE IF ~Is("path", e) THEN <<e>>
            ELSE IF e.attributes = <<>> THEN e.path
            ELSE IF e.attributes[1].name = "path" THEN <<[element |-> e.attributes[1].value]>> \o e.path
            ELSE IF e.attributes[1].value \in DOMAIN Paths THEN Paths[e.attributes[1].value]
            ELSE <<>>
    IN  IF Unsure(e) THEN [i \in DOMAIN meant |-> meant[i] @@ [unsure |-> TRUE]] ELSE meant

\* A path without its references: names and filesets.
Flat(es) ==
    LET step(list, k) == FlattenSeq([i \in DOMAIN list |-> Meaning(list[i])])
    IN  FoldLeft(step, es, [k \in 1..2 * MaxStack |-> k])

Referred(d) ==
    LET step(e, k) == IF e.refid \in DOMAIN Filesets THEN Filesets[e.refid] ELSE e
    IN  FoldLeft(step, d, [k \in 1..MaxStack |-> k])

\* No element is refused, which costs the DOM parser a whole path.
WellFormed ==
    \A es \in {Paths[id] : id \in DOMAIN Paths} \cup {want.path} : \A i \in DOMAIN es : ~Refused(es[i])

\* What has been listed is what the elements of flat at the places in kept
\* name, a fileset by the files found in it.
Lists(flat, kept) ==
    LET nth(k) == Cardinality({i \in kept : i <= k /\ Is("fileset", flat[i])})
        part(k) == IF k \notin kept THEN <<>>
                   ELSE IF ~Is("fileset", flat[k]) THEN <<flat[k].element>>
                   ELSE IF Resolvable(resolved[nth(k)].fileset) THEN resolved[nth(k)].files
                   ELSE <<>>
    IN  /\ Len(resolved) = nth(Len(flat))
        /\ \A k \in kept : Is("fileset", flat[k]) =>
                resolved[nth(k)].fileset.declared = Referred(flat[k].fileset)
        /\ acc = FlattenSeq([k \in DOMAIN flat |-> part(k)])

\* A path that has been resolved lists what it and the paths it refers to
\* name, in that order, a fileset by the files found in it; one that cannot
\* be resolved leaves no trace.  Of an inline path that begins with another
\* the direct parser loses something, but it mixes up and invents nothing, and
\* loses nothing around them (start_element, end_element, resolve_path).
PathIsFlattened ==
    phase = "done" /\ Is("path", want) /\ (legacy => WellFormed) =>
        LET flat == Flat(want.path)
            sure == {k \in DOMAIN flat : ~Unsure(flat[k])}
        IN  \E lost \in SUBSET (DOMAIN flat \ sure) : Lists(flat, DOMAIN flat \ lost)

RECURSIVE ReferredIn(_)
ReferredIn(es) ==
    {<<"path", e.reference>> : e \in {f \in ToSet(es) : Is("reference", f)}}
    \cup {<<"fileset", e.fileset.refid>> : e \in {f \in ToSet(es) : Is("fileset", f)}}
    \cup UNION {ReferredIn(e.inline) : e \in {f \in ToSet(es) : Is("inline", f)}}

\* What a path or a fileset refers to, as it is read.
Refers(id) ==
    IF id[1] = "fileset"
    THEN {<<"fileset", r>> : r \in DOMAIN Filesets \cap {Filesets[id[2]].refid}}
    ELSE ReferredIn(PathOf(IF id[2] = "" THEN want.path ELSE Paths[id[2]]))

Known(id) == IF id[1] = "fileset" THEN id[2] \in DOMAIN Filesets ELSE id[2] \in DOMAIN Paths

\* Some reference leads back to where it stands.
Cyclic ==
    LET start == IF Is("path", want) THEN {<<"path", "">>}
                 ELSE {id \in {<<"fileset", want.fileset.refid>>} : Known(id)}
        step(ids, k) == UNION {{to \in Refers(id) : Known(to)} : id \in ids}
        many == Cardinality(DOMAIN Filesets) + Cardinality(DOMAIN Paths) + 1
    IN  FoldLeft(step, start, [k \in 1..many |-> k]) # {}

\* Resolving comes to its end on whatever disk there is, links that lead
\* around in a circle included, if and only if no reference does
\* (resolve_fileset, resolve_path, add_files).
EndsIffAcyclic ==
    /\ ~Cyclic => <>(phase \in {"done", "failed"})
    /\ Cyclic => [](phase \notin {"done", "failed"})

TypeOK ==
    /\ legacy \in BOOLEAN
    /\ phase \in {"resolving", "done", "failed", "overflow"}
    /\ Len(Callers) <= MaxStack
    /\ fileset = NoFileset \/ fileset.selectors \in Seq([type : {"include", "exclude", "includesfile", "excludesfile"},
                                                       name : Seq(Seq(STRING)), ruled_out : BOOLEAN])
    /\ sub # <<>> => fileset # NoFileset
    /\ \A i \in DOMAIN resolved : resolved[i].ok \in BOOLEAN
=============================================================================
