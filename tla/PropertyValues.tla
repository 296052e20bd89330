--------------------------- MODULE PropertyValues ---------------------------
(***************************************************************************)
(* Property names, property values and what the property tasks compute     *)
(* from them (property.c, project.c, util.c).                              *)
(*                                                                         *)
(* A name is a sequence of words, "." among them.  A value is a sequence   *)
(* of parts: words, references ${name}, numbers, version numbers.  A       *)
(* property table is a function from names to values; what is not in its   *)
(* domain is not set.  Attributes of a task or condition that are absent   *)
(* are no fields of its record.                                            *)
(***************************************************************************)
EXTENDS Integers, Sequences, FiniteSets
LOCAL INSTANCE SequencesExt
LOCAL INSTANCE FiniteSetsExt

CONSTANTS
    MaxCalls,    \* calls of resolve_variables an expansion may take
    Disk,        \* absolute path -> what the file system holds there
    Cwd,         \* the current directory, a path that ends with a slash
    Paths,       \* id of a path structure -> its elements, values
    JavaVersion, \* what java -version prints: three numbers
    OsName, OsFamily

IsSequence(s) == s \in Seq({s[i] : i \in DOMAIN s})

ASSUME MaxCallsAssumption == MaxCalls \in Nat
ASSUME DiskAssumption == \A p \in DOMAIN Disk : IsSequence(Disk[p].entries)

\* What the XML parser reports of a file, to its end or to where it is
\* malformed, are elements nested in a single root, each with a name.
Reported(events, k, event) == Cardinality({i \in 1..k : events[i].event = event})
OpenAfter(events, k) == Reported(events, k, "start") - Reported(events, k, "end")
Nested(events) ==
    /\ IsSequence(events)
    /\ \A k \in 1..Len(events) :
          /\ events[k].event = "start" =>
                /\ IsSequence(events[k].name) /\ events[k].name # <<>>
                /\ Reported(events, k - 1, "start") = 0 \/ OpenAfter(events, k - 1) > 0
          /\ events[k].event = "end" => OpenAfter(events, k - 1) > 0

ASSUME XmlAssumption == \A p \in DOMAIN Disk : Nested(Disk[p].events)

Text(w)      == <<"text", w>>
Reference(n) == <<"reference", n>>
Number(k)    == <<"number", k>>
Slash        == Text("/")
Backslash    == Text("\\")
Colon        == Text(":")
True         == <<Text("true")>>
PartKinds    == {"text", "reference", "number", "version"}

Has(t, attribute) == attribute \in DOMAIN t

\* Mutant: an empty value takes the key away.
InsertNonempty(d, n, v) ==
    LET names == IF v \in {<<>>, ""} THEN DOMAIN d \ {n} ELSE DOMAIN d \cup {n} IN
    [m \in names |-> IF m = n THEN v ELSE d[m]]
\* Mutant: the first value of a key stays.
InsertFirst(d, n, v) == [m \in DOMAIN d \cup {n} |-> IF m \in DOMAIN d THEN d[m] ELSE v]

\* hashtable_insert: the value of an existing key is replaced.
Insert(d, n, v) == [m \in DOMAIN d \cup {n} |-> IF m = n THEN v ELSE d[m]]

-----------------------------------------------------------------------------
(* Expansion                                                               *)

\* The references of v that the table has a value for.
Resolvable(v, d) ==
    {i \in DOMAIN v : v[i][1] = "reference" /\ v[i][2] \in DOMAIN d}

\* Mutant: the reference stays behind its value.
FirstInserted(v, d) ==
    LET i == Min(Resolvable(v, d)) IN
    SubSeq(v, 1, i - 1) \o d[v[i][2]] \o SubSeq(v, i, Len(v))

\* One call: the first such reference is replaced, the rest kept as it is.
FirstReplaced(v, d) ==
    LET i == Min(Resolvable(v, d)) IN
    SubSeq(v, 1, i - 1) \o d[v[i][2]] \o SubSeq(v, i + 1, Len(v))

\* resolve_variables calls itself on the result until nothing is replaced.
resolve_variables(v, d) ==
    LET call[k \in 0..MaxCalls] ==
            IF k = 0 THEN v
            ELSE LET w == call[k - 1] IN
                 IF Resolvable(w, d) = {} THEN w ELSE FirstReplaced(w, d)
    IN  call[MaxCalls]

Endless(v, d) == Resolvable(resolve_variables(v, d), d) # {}

-----------------------------------------------------------------------------
(* Paths and names                                                         *)

\* A slash of either kind, relative to the base directory unless it begins
\* with one; an empty location stays empty.
expand_location(location, base) ==
    LET l == [i \in DOMAIN location |->
                 IF location[i] = Backslash THEN Slash ELSE location[i]]
        b == IF base # <<>> /\ base[Len(base)] # Slash
             THEN Append(base, Slash) ELSE base
    IN  IF l # <<>> /\ l[1] # Slash THEN b \o l ELSE l

\* What the system calls see: a relative path starts at the current directory.
Opened(path) == IF path # <<>> /\ path[1] = Slash THEN path ELSE Cwd \o path
Exists(path) == path # <<>> /\ Opened(path) \in DOMAIN Disk
Stat(path)   == Disk[Opened(path)]
IsDir(path)  == Exists(path) /\ Stat(path).type = "dir"
IsFile(path) == Exists(path) /\ Stat(path).type # "dir"

HasSuffix(v, s) == Len(v) >= Len(s) /\ SubSeq(v, Len(v) - Len(s) + 1, Len(v)) = s

\* str_split: the pieces between the separators.
Pieces(v, separator) ==
    LET cuts == SetToSortSeq({0, Len(v) + 1} \cup {i \in DOMAIN v : v[i] = separator}, <)
    IN  [i \in 1..Len(cuts) - 1 |-> SubSeq(v, cuts[i] + 1, cuts[i + 1] - 1)]

\* list_to_string: a separator between any two values, empty or not.
Joined(values) ==
    IF values = <<>> THEN <<>>
    ELSE FoldLeft(LAMBDA acc, v : acc \o <<Colon>> \o v, Head(values), Tail(values))

\* pathconvert has none before the first value that is not empty.
Converted(values) ==
    FoldLeft(LAMBDA acc, v : IF acc = <<>> THEN v ELSE acc \o <<Colon>> \o v, <<>>, values)

maybe_append_dot(prefix) ==
    IF prefix = <<>> \/ prefix[Len(prefix)] # "." THEN Append(prefix, ".") ELSE prefix

LastSlash(v) == Max({0} \cup {i \in DOMAIN v : v[i] = Slash})

\* The suffix goes first, then everything up to the last slash.
BaseName(file, suffix) ==
    LET f == IF suffix # <<>> /\ HasSuffix(file, suffix)
             THEN SubSeq(file, 1, Len(file) - Len(suffix)) ELSE file
    IN  SubSeq(f, LastSlash(f) + 1, Len(f))

\* A slash at the very beginning, or none, leaves the file as it is.
DirName(file) ==
    IF LastSlash(file) > 1 THEN SubSeq(file, 1, LastSlash(file) - 1) ELSE file

-----------------------------------------------------------------------------
(* What available and the resource form of property look up                *)

\* An entry of a class path that holds the resource: a directory, or an
\* archive by its name.  Empty entries are passed over.
Holds(entry, resource) ==
    /\ entry # <<>>
    /\ \/ IsDir(entry) /\ Exists(entry \o <<Slash>> \o resource)
       \/ /\ ~IsDir(entry) /\ IsFile(entry)
          /\ HasSuffix(entry, <<Text(".jar")>>) \/ HasSuffix(entry, <<Text(".zip")>>)
          /\ resource \in DOMAIN Stat(entry).members

\* resolve_path
Elements(id, d) == [i \in DOMAIN Paths[id] |-> resolve_variables(Paths[id][i], d)]

FromPath(id, d) == Joined(Elements(id, d))

\* classpathref goes before classpath, even when it names nothing.
ClassPath(t, d) ==
    IF Has(t, "classpathref")
    THEN IF t.classpathref \in DOMAIN Paths THEN FromPath(t.classpathref, d) ELSE <<>>
    ELSE IF Has(t, "classpath") THEN resolve_variables(t.classpath, d) ELSE <<>>

\* The type attribute; a type that is neither rules everything out.
OfType(t, path) ==
    /\ Exists(path)
    /\ Has(t, "type") => \/ t.type = "dir"  /\ IsDir(path)
                         \/ t.type = "file" /\ IsFile(path)

FileAvailable(t, d) ==
    /\ Has(t, "file")
    /\ LET f == resolve_variables(t.file, d) IN
       IF Has(t, "filepath")
       THEN LET dirs == Pieces(resolve_variables(t.filepath, d), Colon) IN
            \E i \in DOMAIN dirs : OfType(t, dirs[i] \o <<Slash>> \o f)
       ELSE OfType(t, f)

\* com.foo.Bar is looked for as com/foo/Bar.class.
ClassFile(class) ==
    Append([i \in DOMAIN class |-> IF class[i] = Text(".") THEN Slash ELSE class[i]],
           Text(".class"))

OnClassPath(t, resource, d) ==
    LET entries == Pieces(ClassPath(t, d), Colon) IN
    \E i \in DOMAIN entries : Holds(entries[i], resource)

ClassAvailable(t, d) ==
    Has(t, "classname") /\ OnClassPath(t, ClassFile(resolve_variables(t.classname, d)), d)

ResourceAvailable(t, d) ==
    Has(t, "resource") /\ OnClassPath(t, resolve_variables(t.resource, d), d)

-----------------------------------------------------------------------------
(* Conditions                                                              *)

Truths == {"true", "yes", "on", "1"}
Falsehoods == {"false", "no", "off", "0"}

parse_boolean(v, default) ==
    IF v \in {<<Text(w)>> : w \in Truths} THEN TRUE
    ELSE IF v \in {<<Text(w)>> : w \in Falsehoods} THEN FALSE ELSE default

\* What sscanf makes of a value: text that is no version counts as 0.0.0.
Version(v) == IF v # <<>> /\ v[1][1] = "version" THEN v[1][2] ELSE <<0, 0, 0>>

compare_versions(v, w) ==
    LET differ == {i \in 1..3 : v[i] # w[i]} IN
    IF differ = {} THEN 0 ELSE IF v[Min(differ)] < w[Min(differ)] THEN -1 ELSE 1

evaluate_javaversion(c, d) ==
    IF Has(c, "atleast")
    THEN compare_versions(JavaVersion, Version(resolve_variables(c.atleast, d))) >= 0
    ELSE /\ Has(c, "exactly")
         /\ compare_versions(JavaVersion, Version(resolve_variables(c.exactly, d))) = 0

os_matches(names) == names = {} \/ OsName \in names

os_family_matches(family) ==
    family = "" \/ family = OsFamily \/ (family = "unix" /\ OsFamily = "mac")

\* Conditions without children.
Simple(c, d) ==
    CASE c.type = "javaversion" -> evaluate_javaversion(c, d)
      [] c.type = "equals" -> /\ Has(c, "arg1") /\ Has(c, "arg2")
                              /\ resolve_variables(c.arg1, d) = resolve_variables(c.arg2, d)
      [] c.type = "isset" -> Has(c, "property") /\ c.property \in DOMAIN d
      [] c.type = "istrue" -> Has(c, "value") /\ parse_boolean(resolve_variables(c.value, d), FALSE)
      [] c.type = "isfalse" -> Has(c, "value") /\ ~parse_boolean(resolve_variables(c.value, d), TRUE)
      [] c.type = "os" -> /\ Has(c, "family") => os_family_matches(c.family)
                          /\ Has(c, "name") => os_matches(c.name)
      [] OTHER -> FALSE

\* What a condition resolves.
Arguments(c) ==
    CASE c.type = "javaversion" ->
            IF Has(c, "atleast") THEN {c.atleast}
            ELSE IF Has(c, "exactly") THEN {c.exactly} ELSE {}
      [] c.type = "equals" ->
            IF Has(c, "arg1") /\ Has(c, "arg2") THEN {c.arg1, c.arg2} ELSE {}
      [] c.type \in {"istrue", "isfalse"} -> IF Has(c, "value") THEN {c.value} ELSE {}
      [] OTHER -> {}

\* A tree of conditions is a sequence of nodes, each before its children.
\* Children are evaluated in order and no further than the result needs;
\* "endless" is a condition that never has a result.
evaluate_xml_condition(nodes, d) ==
    LET from[i \in DOMAIN nodes] ==
            LET c == nodes[i]
                Decider(v) == SelectSeq(c.children, LAMBDA j : from[j] # v)
                FirstOther(v) == IF Decider(v) = <<>> THEN v ELSE from[Head(Decider(v))]
            IN  CASE c.type = "and" -> FirstOther("true")
                  [] c.type = "or" -> FirstOther("false")
                  [] c.type = "not" ->
                        IF c.children = <<>> THEN "true"
                        ELSE CASE from[Head(c.children)] = "true" -> "false"
                               [] from[Head(c.children)] = "false" -> "true"
                               [] OTHER -> "endless"
                  [] OTHER -> IF \E v \in Arguments(c) : Endless(v, d) THEN "endless"
                              ELSE IF Simple(c, d) THEN "true" ELSE "false"
    IN  from[1]
=============================================================================
