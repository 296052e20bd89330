----------------------------- MODULE Properties -----------------------------
(***************************************************************************)
(* The property table of a project: the properties of the command line,    *)
(* the built-in ones, the property elements of the build file and the      *)
(* tasks that read and write properties (gantt.c, parser.c, property.c,    *)
(* tstamp.c, exec.c).                                                      *)
(*                                                                         *)
(* A build is any sequence of up to MaxTasks tasks.  Whoever sets several  *)
(* properties (a property file, the environment, tstamp, exec) leaves them *)
(* in pending, and they are entered one by one.                            *)
(***************************************************************************)
EXTENDS PropertyValues

CONSTANTS
    Tasks,       \* the tasks a build is made of
    MaxTasks,
    Defines,     \* what a -D option may say: records of a name and a value
    MaxDefines,
    Builtins,    \* basedir, user.home, user.dir, user.name: such records
    BaseDir,     \* the base directory, resolved
    RawBaseDir,  \* the basedir attribute as it is written, <<>> if it is absent
    Environment, \* the variables of the environment, such records
    Input,       \* the lines a user may type
    Outputs      \* what a command may write, <<>> for nothing

ASSUME BuiltinsAssumption == IsSequence(Builtins)
ASSUME EnvironmentAssumption == IsSequence(Environment)
ASSUME TasksAssumption == \A t \in Tasks : Has(t, "prefix") => IsSequence(t.prefix)

VARIABLES
    phase,          \* "command line", "project", "targets"; or how it ended
    legacy,         \* the DOM parser instead of the direct one
    base_dir,
    property_dict,
    pending,        \* properties still to be entered
    xml,            \* xmlproperty's parser, NoXml when it is not at work
    ok,             \* what the task under way will return
    steps,          \* options, then tasks so far
    writer,         \* history: the kind of task that last wrote a property
    unexpanded      \* history: written with a reference that could be resolved

vars == <<phase, legacy, base_dir, property_dict, pending, xml, ok, steps,
          writer, unexpanded>>
idle == <<pending, xml, ok>>

NoXml == [left |-> <<>>]

\* A property on its way into the table: entered whatever is there, or only
\* when it is not set, and then as it stands or expanded, or not at all.
Modes == {"overwrite", "once", "expanded once", "passed over"}
Write(n, v, mode, by) == [name |-> n, value |-> v, mode |-> mode, by |-> by]

Init ==
    /\ phase = "command line" /\ legacy \in BOOLEAN /\ base_dir = BaseDir
    /\ property_dict = [n \in {} |-> <<>>]
    /\ pending = <<>> /\ xml = NoXml /\ ok = TRUE
    /\ steps = 0 /\ writer = [n \in {} |-> ""] /\ unexpanded = {}

-----------------------------------------------------------------------------
(* Entering one property                                                   *)

Store(n, v, by) ==
    /\ property_dict' = Insert(property_dict, n, v)
    /\ writer' = Insert(writer, n, by)
    /\ unexpanded' = IF Resolvable(v, property_dict) = {}
                     THEN unexpanded \ {n} ELSE unexpanded \cup {n}

StoreNothing == UNCHANGED <<property_dict, writer, unexpanded>>

\* set_property_if_unset, and hashtable_insert where nothing is asked.
Enter ==
    /\ pending # <<>> /\ phase \in {"command line", "project", "targets"}
    /\ LET w == Head(pending) IN
       \/ /\ w.mode = "passed over" \/ (w.mode # "overwrite" /\ w.name \in DOMAIN property_dict)
          /\ pending' = Tail(pending) /\ StoreNothing /\ UNCHANGED phase
       \/ /\ w.mode = "overwrite" \/ (w.mode # "passed over" /\ w.name \notin DOMAIN property_dict)
          /\ w.mode = "expanded once" => ~Endless(w.value, property_dict)
          /\ Store(w.name,
                   IF w.mode = "expanded once"
                   THEN resolve_variables(w.value, property_dict) ELSE w.value, w.by)
          /\ pending' = Tail(pending) /\ UNCHANGED phase
       \/ /\ w.mode = "expanded once" /\ w.name \notin DOMAIN property_dict
          /\ Endless(w.value, property_dict)
          /\ phase' = "endless" /\ StoreNothing /\ UNCHANGED pending
    /\ UNCHANGED <<legacy, base_dir, xml, ok, steps>>

-----------------------------------------------------------------------------
(* The command line and the built-in properties                            *)

Ready == pending = <<>> /\ xml = NoXml

\* -D name=value, in the order given.  The legacy branch enters the value and
\* frees it: what is found there later is anything.
Freed == <<Text("freed memory")>>
Define(w) ==
    /\ phase = "command line" /\ Ready /\ steps < MaxDefines /\ steps' = steps + 1
    /\ \E v \in IF legacy /\ w.value # <<>> THEN {w.value, Freed} ELSE {w.value} :
          Store(w.name, v, "command line")
    /\ UNCHANGED <<phase, legacy, base_dir, idle>>

\* project_init puts the attribute, as it is, in place of the directory the
\* legacy branch of main has resolved.
StartProject ==
    /\ phase = "command line" /\ Ready
    /\ phase' = "project" /\ steps' = 0
    /\ pending' = [i \in DOMAIN Builtins |->
                      Write(Builtins[i].name, Builtins[i].value, "overwrite", "built in")]
    /\ base_dir' = IF legacy /\ RawBaseDir # <<>> THEN RawBaseDir ELSE BaseDir
    /\ UNCHANGED <<legacy, xml, ok>> /\ StoreNothing

StartTargets ==
    /\ phase = "project" /\ Ready /\ phase' = "targets" /\ ok' = TRUE
    /\ UNCHANGED <<legacy, base_dir, pending, xml, steps>> /\ StoreNothing

-----------------------------------------------------------------------------
(* How a task ends                                                         *)

\* No write, several writes, one write; then the result.
Returns(result) ==
    /\ ok' = result /\ pending' = <<>> /\ xml' = NoXml /\ StoreNothing /\ UNCHANGED phase
Enters(writes, result) ==
    /\ ok' = result /\ pending' = writes /\ xml' = NoXml /\ StoreNothing /\ UNCHANGED phase
Sets(n, v, by) ==
    /\ ok' = TRUE /\ pending' = <<>> /\ xml' = NoXml /\ Store(n, v, by) /\ UNCHANGED phase

\* The values are expanded first; one that cannot be keeps the task, and the
\* build, there for ever.
Expands(values) == \A v \in values : ~Endless(v, property_dict)
Hangs(values) ==
    /\ ~Expands(values)
    /\ phase' = "endless" /\ UNCHANGED idle /\ StoreNothing

Expanded(v) == resolve_variables(v, property_dict)
Located(v)  == expand_location(Expanded(v), base_dir)
IsSet(n)    == n \in DOMAIN property_dict
Given(t, attributes) == {t[a] : a \in attributes \cap DOMAIN t}

-----------------------------------------------------------------------------
(* Property elements                                                       *)

\* The entries of a properties file, without comments; sep is what stands
\* between key and value, "" when there is none.
Entries(file, by, mode, prefix, seps) ==
    LET entries == Stat(file).entries IN
    [i \in DOMAIN entries |->
        Write(prefix \o entries[i].key, entries[i].value,
              IF entries[i].sep \in seps THEN mode ELSE "passed over", by)]

Variables(prefix) ==
    [i \in DOMAIN Environment |->
        Write(prefix \o Environment[i].name, Environment[i].value, "once", "environment")]

Prefix(t) == IF Has(t, "prefix") THEN t.prefix ELSE <<>>
DottedPrefix(t) == IF Has(t, "prefix") THEN maybe_append_dot(t.prefix) ELSE <<>>

\* handle_property_element: at the top level of the build file, direct parser.
\* Nothing it does can fail the build.
TopLevelProperty(t) ==
    \/ /\ Has(t, "name") /\ (Has(t, "value") \/ Has(t, "location"))
       /\ LET v == IF Has(t, "value") THEN t.value ELSE t.location IN
          \/ Hangs({v})
          \/ Expands({v}) /\ IsSet(t.name) /\ Returns(TRUE)
          \/ /\ Expands({v}) /\ ~IsSet(t.name)
             /\ Sets(t.name, IF Has(t, "value") THEN Expanded(v) ELSE Located(v), "property")
    \/ /\ ~(Has(t, "name") /\ (Has(t, "value") \/ Has(t, "location"))) /\ Has(t, "file")
       /\ \/ Hangs({t.file})
          \/ Expands({t.file}) /\ ~IsFile(Located(t.file)) /\ Returns(TRUE)
          \/ /\ Expands({t.file}) /\ IsFile(Located(t.file))
             /\ Enters(Entries(Located(t.file), "properties", "expanded once", Prefix(t), {"="}), TRUE)
    \/ /\ ~(Has(t, "name") /\ (Has(t, "value") \/ Has(t, "location"))) /\ ~Has(t, "file")
       /\ IF Has(t, "environment") THEN Enters(Variables(t.environment), TRUE) ELSE Returns(TRUE)

\* Where the first class path entry that holds the resource has it.
ResourceFile(t) ==
    LET resource == Expanded(t.resource)
        holders  == SelectSeq(Pieces(ClassPath(t, property_dict), Colon), LAMBDA e :
                        Holds(e, resource) /\ (IsDir(e) => IsFile(e \o <<Slash>> \o resource)))
        first    == Head(holders)
    IN  IF holders = <<>> THEN <<>>
        ELSE IF IsDir(first) THEN first \o <<Slash>> \o resource
        ELSE Stat(first).members[resource]

\* What a class path makes the task expand.
ClassPathValues(t) ==
    IF Has(t, "classpathref")
    THEN IF t.classpathref \in DOMAIN Paths
         THEN {Paths[t.classpathref][i] : i \in DOMAIN Paths[t.classpathref]} ELSE {}
    ELSE Given(t, {"classpath"})

\* property_invoke, with a name.
NamedProperty(t) ==
    \/ IsSet(t.name) /\ Returns(TRUE)
    \/ /\ ~IsSet(t.name) /\ (Has(t, "value") \/ Has(t, "location"))
       /\ LET v == IF Has(t, "value") THEN t.value ELSE t.location IN
          \/ Hangs({v})
          \/ /\ Expands({v})
             /\ Sets(t.name, IF Has(t, "value") THEN Expanded(v) ELSE Located(v), "property")
    \/ /\ ~IsSet(t.name) /\ ~(Has(t, "value") \/ Has(t, "location"))
       /\ IF Has(t, "refid") /\ t.refid \in DOMAIN Paths /\ Paths[t.refid] # <<>>
          THEN LET elements == {Paths[t.refid][i] : i \in DOMAIN Paths[t.refid]} IN
               \/ Hangs(elements)
               \/ Expands(elements) /\ Sets(t.name, FromPath(t.refid, property_dict), "property")
          ELSE Returns(FALSE)

\* property_invoke, without.  Fetching a URL may fail.  A file is opened as it is named, relative to the
\* current directory; the values of its entries are not expanded.
LoadFrom(t, needed, file) ==
    \/ Hangs(needed)
    \/ /\ Expands(needed)
       /\ IF IsFile(file)
          THEN Enters(Entries(file, "properties", "once", DottedPrefix(t), {"=", ":", ""}), TRUE)
          ELSE Returns(FALSE)

LoadedProperty(t) ==
    \/ Has(t, "file") /\ LoadFrom(t, {t.file}, Expanded(t.file))
    \/ /\ ~Has(t, "file") /\ Has(t, "url")
       /\ \/ Returns(FALSE)
          \/ /\ IsFile(t.url)
             /\ Enters(Entries(t.url, "properties", "once", DottedPrefix(t), {"=", ":", ""}), TRUE)
    \/ /\ ~Has(t, "file") /\ ~Has(t, "url") /\ Has(t, "resource")
       /\ LoadFrom(t, {t.resource} \cup ClassPathValues(t), ResourceFile(t))
    \/ /\ ~Has(t, "file") /\ ~Has(t, "url") /\ ~Has(t, "resource")
       /\ IF Has(t, "environment") THEN Enters(Variables(maybe_append_dot(t.environment)), TRUE)
          ELSE Returns(FALSE)

property_invoke(t) == IF Has(t, "name") THEN NamedProperty(t) ELSE LoadedProperty(t)

-----------------------------------------------------------------------------
(* Tasks that set one property                                             *)

ValueOf(t) == IF Has(t, "value") THEN t.value ELSE True

\* What available expands on its way: the file and its directories first, the
\* classname and the class path when there is no such file, the resource when
\* there is no such class either, and the value when something was found.
FileValues(t) == IF Has(t, "file") THEN Given(t, {"file", "filepath"}) ELSE {}

ClassValues(t) ==
    IF Has(t, "classname") /\ ~FileAvailable(t, property_dict)
    THEN {t.classname} \cup ClassPathValues(t) ELSE {}

ResourceValues(t) ==
    IF /\ Has(t, "resource")
       /\ ~FileAvailable(t, property_dict) /\ ~ClassAvailable(t, property_dict)
    THEN {t.resource} \cup ClassPathValues(t) ELSE {}

Available(t) ==
    \/ FileAvailable(t, property_dict)
    \/ ClassAvailable(t, property_dict) \/ ResourceAvailable(t, property_dict)

available_invoke(t) ==
    \/ Hangs(FileValues(t))
    \/ Expands(FileValues(t)) /\ Hangs(ClassValues(t))
    \/ /\ Expands(FileValues(t)) /\ Expands(ClassValues(t))
       /\ \/ Hangs(ResourceValues(t))
          \/ /\ Expands(ResourceValues(t))
             /\ IF Available(t)
                THEN \/ Hangs({ValueOf(t)})
                     \/ /\ Expands({ValueOf(t)})
                        /\ Sets(t.property, Expanded(ValueOf(t)), "available")
                ELSE Returns(TRUE)

basename_invoke(t) ==
    \/ Hangs({t.file})
    \/ /\ Expands({t.file})
       /\ Sets(t.property,
               BaseName(Expanded(t.file), IF Has(t, "suffix") THEN t.suffix ELSE <<>>), "basename")

dirname_invoke(t) ==
    \/ Hangs({t.file})
    \/ Expands({t.file}) /\ Sets(t.property, DirName(Expanded(t.file)), "dirname")

loadfile_invoke(t) ==
    \/ Hangs({t.srcFile})
    \/ /\ Expands({t.srcFile})
       /\ IF IsFile(Located(t.srcFile))
          THEN Sets(t.property, Stat(Located(t.srcFile)).text, "loadfile")
          ELSE Returns(t.failonerror = FALSE)

\* The six letters mkstemps chooses are unknown; the file is there afterwards
\* only with createfile.
tempfile_invoke(t) ==
    LET destdir == IF Has(t, "destdir") THEN {t.destdir} ELSE {} IN
    \/ Hangs(destdir)
    \/ /\ Expands(destdir)
       /\ LET dir == IF Has(t, "destdir") THEN Expanded(t.destdir) ELSE <<Slash, Text("tmp")>> IN
          IF t.createfile /\ ~IsDir(dir) THEN Returns(FALSE)
          ELSE Sets(t.property, dir \o <<Slash, Text("XXXXXX")>>, "tempfile")

\* A file that is not there is as long as an empty one.
length_invoke(t) ==
    LET values == IF Has(t, "file") THEN {t.file} ELSE Given(t, {"string"}) IN
    \/ Hangs(values)
    \/ /\ Expands(values)
       /\ \/ /\ Has(t, "file")
             /\ Sets(t.property,
                     <<Number(IF Exists(Located(t.file)) THEN Stat(Located(t.file)).size ELSE 0)>>,
                     "length")
          \/ /\ ~Has(t, "file") /\ Has(t, "string")
             /\ Sets(t.property, <<Number(Len(Expanded(t.string)))>>, "length")
          \/ ~Has(t, "file") /\ ~Has(t, "string") /\ Returns(FALSE)

\* Times are whole seconds; a target whose source is gone is up to date.
UpToDate(source, target) ==
    /\ Exists(target)
    /\ Exists(source) => Stat(target).mtime >= Stat(source).mtime

\* Without both files there is nothing to compare, and the property stays as
\* it is; the value is expanded only when it is entered.
uptodate_invoke(t) ==
    LET files == Given(t, {"srcfile", "targetfile"})
        compared == Has(t, "srcfile") /\ Has(t, "targetfile")
        uptodate == compared /\ UpToDate(Located(t.srcfile), Located(t.targetfile))
        values == (IF compared THEN files ELSE {})
                  \cup (IF uptodate THEN {ValueOf(t)} ELSE {})
    IN  \/ Hangs(values)
        \/ /\ Expands(values)
           /\ IF uptodate THEN Sets(t.property, Expanded(ValueOf(t)), "uptodate")
              ELSE Returns(TRUE)

\* The attributes are looked at in this order, and the last one that is there
\* decides.
AttributeConditions ==
    <<"isset", "equals", "os_family", "os_name", "available_file", "istrue", "isfalse">>

AttributeHolds(c) ==
    CASE c.type = "os_family" -> os_family_matches(c.family)
      [] c.type = "os_name" -> os_matches(c.name)
      [] c.type = "available_file" -> Exists(Located(c.file))
      [] OTHER -> Simple(c, property_dict)

AttributesHold(t) ==
    LET given == SelectSeq(AttributeConditions, LAMBDA a : Has(t.tests, a)) IN
    given # <<>> /\ AttributeHolds(t.tests[given[Len(given)]])

AttributeValues(t) ==
    UNION {IF a = "available_file" THEN {t.tests[a].file} ELSE Arguments(t.tests[a]) :
               a \in DOMAIN t.tests}

\* Of the nested conditions the first is evaluated, unless an attribute holds.
\* value or else is entered whether the property is set or not.
condition_invoke(t) ==
    LET nested == IF AttributesHold(t) THEN "true"
                  ELSE IF t.nodes = <<>> THEN "false"
                  ELSE evaluate_xml_condition(t.nodes, property_dict)
        outcome == IF nested = "true" THEN {ValueOf(t)}
                   ELSE IF nested = "false" THEN Given(t, {"else"}) ELSE {}
    IN  \/ Hangs(AttributeValues(t))
        \/ /\ Expands(AttributeValues(t)) /\ nested = "endless"
           /\ phase' = "endless" /\ UNCHANGED idle /\ StoreNothing
        \/ /\ Expands(AttributeValues(t)) /\ nested # "endless"
           /\ \/ Hangs(outcome)
              \/ outcome = {} /\ Returns(TRUE)
              \/ /\ Expands(outcome)
                 /\ \E v \in outcome : Sets(t.property, Expanded(v), "condition")

\* The prompt is expanded first.  An empty line takes the default.  What is not
\* among the valid answers fails the task, an empty answer is always valid.
input_invoke(t) ==
    \/ IsSet(t.addproperty) /\ Returns(TRUE)
    \/ ~IsSet(t.addproperty) /\ Hangs(Given(t, {"message"}))
    \/ /\ ~IsSet(t.addproperty) /\ Expands(Given(t, {"message"}))
       /\ \E line \in Input :
             LET default == IF line = <<>> THEN Given(t, {"defaultvalue"}) ELSE {} IN
             \/ Hangs(default)
             \/ /\ Expands(default)
                /\ LET answer == IF default = {} THEN line ELSE Expanded(t.defaultvalue) IN
                   IF Has(t, "validargs") /\ answer # <<>> /\ answer \notin t.validargs
                   THEN Returns(FALSE)
                   ELSE Sets(t.addproperty, answer, "input")

\* A refid that names no path is no error.  Without a path there is an empty
\* value, unless setonempty is false.
pathconvert_invoke(t) ==
    LET found == Has(t, "refid") /\ t.refid \in DOMAIN Paths
        elements == IF found THEN {Paths[t.refid][i] : i \in DOMAIN Paths[t.refid]} ELSE {} IN
    \/ Hangs(elements)
    \/ /\ Expands(elements)
       /\ LET result == IF found THEN Converted(Elements(t.refid, property_dict)) ELSE <<>> IN
          IF result # <<>> \/ t.setonempty THEN Sets(t.property, result, "pathconvert")
          ELSE Returns(TRUE)

-----------------------------------------------------------------------------
(* Tasks that set several properties, or none                              *)

tstamp_invoke(t) ==
    LET stamp(word) == Write(Prefix(t) \o <<word>>, <<Text("now")>>, "overwrite", "tstamp") IN
    Enters(<<stamp("DSTAMP"), stamp("TSTAMP"), stamp("TODAY")>>, TRUE)

\* exec_invoke and java_invoke: the exit status, and what was written if any.
\* Nothing is known of a command that could not be spawned.
ResultWrites(t, status, output, error) ==
    (IF Has(t, "resultproperty")
     THEN <<Write(t.resultproperty, <<Number(status)>>, "overwrite", "exec")>> ELSE <<>>)
    \o (IF Has(t, "outputproperty") /\ output # <<>>
        THEN <<Write(t.outputproperty, output, "overwrite", "exec")>> ELSE <<>>)
    \o (IF Has(t, "errorproperty") /\ error # <<>>
        THEN <<Write(t.errorproperty, error, "overwrite", "exec")>> ELSE <<>>)

exec_invoke(t) ==
    \/ Hangs({t.executable})
    \/ /\ Expands({t.executable})
       /\ \/ Returns(~t.failonerror)
          \/ \E status \in {0, 1, 127}, output, error \in Outputs :
                Enters(ResultWrites(t, status, output, error), status = 0 \/ ~t.failonerror)

\* What has no value counts as false, and so does any value but a truth.
Truth(n) == IsSet(n) /\ parse_boolean(property_dict[n], FALSE)

\* With a status the program ends there and then.
fail_invoke(t) ==
    LET passed == \/ Has(t, "if") /\ ~Truth(t["if"])
                  \/ Has(t, "unless") /\ Truth(t["unless"])
    IN  \/ passed /\ Returns(TRUE)
        \/ ~passed /\ ~Has(t, "status") /\ Returns(FALSE)
        \/ /\ ~passed /\ Has(t, "status")
           /\ phase' = "exited" /\ UNCHANGED idle /\ StoreNothing

echo_invoke(t) == Hangs({t.message}) \/ (Expands({t.message}) /\ Returns(TRUE))

\* local does nothing, and says so.
local_invoke(t) == Returns(TRUE)

-----------------------------------------------------------------------------
(* xmlproperty: callbacks of the XML parser, one event at a time           *)

\* The parser reports the events of the file; the last may be that the file
\* is malformed.  elements and dotted are history: the elements that are open,
\* and whether one of those so far had a dot in its name.
xmlproperty_invoke(t) ==
    \/ Hangs({t.file})
    \/ /\ Expands({t.file}) /\ ~IsFile(Located(t.file)) /\ Returns(FALSE)
    \/ /\ Expands({t.file}) /\ IsFile(Located(t.file))
       /\ xml' = [left |-> Stat(Located(t.file)).events, path |-> <<>>, element |-> <<>>,
                  prefix |-> Prefix(t), keeproot |-> t.keeproot, collapse |-> t.collapse,
                  elements |-> <<>>, dotted |-> FALSE]
       /\ ok' = TRUE /\ pending' = <<>> /\ StoreNothing /\ UNCHANGED phase

\* The element's name is added to the path; at an empty path it is taken for
\* the root, which keeproot = false leaves out.
xmlprop_start(x, name) ==
    [x EXCEPT !.path = IF x.path = <<>>
                       THEN IF x.keeproot THEN x.prefix \o name ELSE <<>>
                       ELSE x.path \o <<".">> \o name,
              !.element = name,
              !.elements = Append(x.elements, name),
              !.dotted = x.dotted \/ "." \in {name[i] : i \in DOMAIN name}]

\* Mutant: the path is cut at its first dot.
xmlprop_endFirst(x) ==
    LET dots == {i \in DOMAIN x.path : x.path[i] = "."}
        first == CHOOSE i \in dots : \A j \in dots : i <= j
    IN  [x EXCEPT !.path = IF dots = {} THEN <<>> ELSE SubSeq(x.path, 1, first - 1),
                  !.elements = SubSeq(x.elements, 1, Len(x.elements) - 1)]

\* The path is cut at its last dot.
xmlprop_end(x) ==
    LET dots == {i \in DOMAIN x.path : x.path[i] = "."}
        last == CHOOSE i \in dots : \A j \in dots : j <= i
    IN  [x EXCEPT !.path = IF dots = {} THEN <<>> ELSE SubSeq(x.path, 1, last - 1),
                  !.elements = SubSeq(x.elements, 1, Len(x.elements) - 1)]

AttributeName(x, a) ==
    IF x.collapse
    THEN IF x.path # <<>> THEN x.path \o <<".">> \o a ELSE x.prefix \o a
    ELSE (IF x.path # <<>> THEN x.path ELSE x.element) \o <<"(">> \o a \o <<")">>

\* Mutant: nobody asks.
XmlSetsAlways(n, v) == Store(n, v, "xmlproperty")

\* An attribute, or a piece of text with an element around it, is entered when
\* nothing is set under its name.
XmlSets(n, v) == IF IsSet(n) THEN StoreNothing ELSE Store(n, v, "xmlproperty")

XmlEvent ==
    /\ xml # NoXml /\ phase \in {"project", "targets"}
    /\ LET x == [xml EXCEPT !.left = Tail(xml.left)]
           e == Head(xml.left)
       IN  \/ /\ xml.left = <<>> /\ xml' = NoXml /\ StoreNothing /\ UNCHANGED ok
           \/ /\ xml.left # <<>> /\ e.event = "malformed"
              /\ xml' = NoXml /\ ok' = FALSE /\ StoreNothing
           \/ /\ xml.left # <<>> /\ e.event = "start"
              /\ xml' = xmlprop_start(x, e.name) /\ StoreNothing /\ UNCHANGED ok
           \/ /\ xml.left # <<>> /\ e.event = "end"
              /\ xml' = xmlprop_end(x) /\ StoreNothing /\ UNCHANGED ok
           \/ /\ xml.left # <<>> /\ e.event = "attribute"
              /\ xml' = x /\ XmlSets(AttributeName(x, e.name), e.value) /\ UNCHANGED ok
           \/ /\ xml.left # <<>> /\ e.event = "text"
              /\ xml' = x /\ UNCHANGED ok
              /\ IF x.path = <<>> THEN StoreNothing ELSE XmlSets(x.path, e.value)
    /\ UNCHANGED <<phase, legacy, base_dir, pending, steps>>

-----------------------------------------------------------------------------
(* The build                                                               *)

\* The attributes a task does nothing without.
Required(kind) ==
    CASE kind \in {"available", "tempfile", "length", "uptodate", "condition", "pathconvert"} ->
            {"property"}
      [] kind \in {"basename", "dirname"} -> {"property", "file"}
      [] kind = "loadfile" -> {"property", "srcFile"}
      [] kind = "input" -> {"addproperty"}
      [] kind = "exec" -> {"executable"}
      [] kind = "xmlproperty" -> {"file"}
      [] kind = "local" -> {"name"}
      [] OTHER -> {}

Invoke(t) ==
    \/ ~(Required(t.kind) \subseteq DOMAIN t) /\ Returns(FALSE)
    \/ /\ Required(t.kind) \subseteq DOMAIN t
       /\ \/ t.kind = "property"    /\ property_invoke(t)
          \/ t.kind = "available"   /\ available_invoke(t)
          \/ t.kind = "basename"    /\ basename_invoke(t)
          \/ t.kind = "dirname"     /\ dirname_invoke(t)
          \/ t.kind = "loadfile"    /\ loadfile_invoke(t)
          \/ t.kind = "tempfile"    /\ tempfile_invoke(t)
          \/ t.kind = "length"      /\ length_invoke(t)
          \/ t.kind = "uptodate"    /\ uptodate_invoke(t)
          \/ t.kind = "condition"   /\ condition_invoke(t)
          \/ t.kind = "input"       /\ input_invoke(t)
          \/ t.kind = "pathconvert" /\ pathconvert_invoke(t)
          \/ t.kind = "tstamp"      /\ tstamp_invoke(t)
          \/ t.kind = "exec"        /\ exec_invoke(t)
          \/ t.kind = "fail"        /\ fail_invoke(t)
          \/ t.kind = "echo"        /\ echo_invoke(t)
          \/ t.kind = "local"       /\ local_invoke(t)
          \/ t.kind = "xmlproperty" /\ xmlproperty_invoke(t)

\* Of the elements outside targets only property does something by itself; the
\* legacy parser gives it to property_invoke and ignores the result.
ProjectElement(t) ==
    /\ phase = "project" /\ Ready /\ steps < MaxTasks /\ steps' = steps + 1
    /\ t.kind = "property"
    /\ IF legacy THEN property_invoke(t) ELSE TopLevelProperty(t)
    /\ UNCHANGED <<legacy, base_dir>>

RunTask(t) ==
    /\ phase = "targets" /\ Ready /\ ok /\ steps < MaxTasks /\ steps' = steps + 1
    /\ Invoke(t)
    /\ UNCHANGED <<legacy, base_dir>>

\* A task that returned false fails the build.
Fails ==
    /\ phase = "targets" /\ Ready /\ ~ok /\ phase' = "failed"
    /\ UNCHANGED <<legacy, base_dir, idle, steps>> /\ StoreNothing

Next ==
    \/ \E w \in Defines : Define(w)
    \/ StartProject \/ StartTargets
    \/ \E t \in Tasks : ProjectElement(t) \/ RunTask(t)
    \/ Enter \/ XmlEvent \/ Fails

Spec == Init /\ [][Next]_vars

-----------------------------------------------------------------------------
(* Properties                                                              *)

Phases == {"command line", "project", "targets", "failed", "exited", "endless"}

\* The types, and what belongs together: each property has one value and one
\* last writer, and the parser of an XML file is at work on its own.
TypeOK ==
    /\ phase \in Phases /\ legacy \in BOOLEAN /\ ok \in BOOLEAN /\ steps \in Nat
    /\ property_dict = [n \in DOMAIN property_dict |-> property_dict[n]]
    /\ writer = [n \in DOMAIN property_dict |-> writer[n]]
    /\ unexpanded \subseteq DOMAIN property_dict
    /\ IsSequence(pending)
    /\ \A i \in DOMAIN pending : pending[i].mode \in Modes
    /\ pending # <<>> => xml = NoXml

\* Whose writes do not ask whether the property is set.
Overwriting ==
    {"command line", "built in", "available", "basename", "dirname", "loadfile", "tempfile",
     "length", "uptodate", "condition", "pathconvert", "tstamp", "exec"}

\* "Ant properties are immutable" (property.c) holds of the property element in
\* each of its forms, of input and of xmlproperty, also while several entries
\* of one file are entered one by one: what changes the value of a property
\* that is set is one of the tasks that do not ask, or basedir and user.* over
\* a -D option.
OverwritersOnly ==
    [][\A n \in DOMAIN property_dict :
          property_dict'[n] # property_dict[n] => writer'[n] \in Overwriting]_vars

Refers(n, m) == \E i \in DOMAIN property_dict[n] : property_dict[n][i] = Reference(m)
Referring == {n \in DOMAIN property_dict :
                 \E i \in DOMAIN property_dict[n] : property_dict[n][i][1] = "reference"}
Cyclic(C) == C # {} /\ \A n \in C : \E m \in C : Refers(n, m)

\* Values are expanded when they are entered, so that references go back in
\* time: a cycle of references takes a property that refers to itself, or one
\* entered with a reference that had a value already.
CyclesExplained ==
    \A C \in SUBSET Referring :
        Cyclic(C) => \E n \in C : Refers(n, n) \/ n \in unexpanded

Reached(v) ==
    LET direct(w) == {w[i][2] : i \in Resolvable(w, property_dict)}
        after[k \in 0..Cardinality(Referring)] ==
            IF k = 0 THEN direct(v)
            ELSE after[k - 1] \cup UNION {direct(property_dict[n]) : n \in after[k - 1]}
    IN  after[Cardinality(Referring)]

\* resolve_variables ends on a value exactly when its references lead into no
\* cycle of the table; it has no other limit, and it is every task's first step.
ExpansionEndsIffAcyclic ==
    \A n \in DOMAIN property_dict :
        Endless(property_dict[n], property_dict)
        <=> \E C \in SUBSET (Reached(property_dict[n]) \cap Referring) : Cyclic(C)

\* The names of xmlproperty: after any number of elements opened and closed the
\* path is that of the elements now open, as long as no name has a dot in it;
\* without the root there is no path at all, whatever is open.
PathIsPosition ==
    xml # NoXml =>
        /\ ~xml.keeproot => xml.path = <<>>
        /\ xml.keeproot /\ ~xml.dotted /\ xml.elements # <<>> =>
              xml.path = LET position[k \in DOMAIN xml.elements] ==
                                IF k = 1 THEN xml.prefix \o xml.elements[1]
                                ELSE position[k - 1] \o <<".">> \o xml.elements[k]
                         IN  position[Len(xml.elements)]
=============================================================================
