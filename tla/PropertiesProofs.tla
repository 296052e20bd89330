-------------------------- MODULE PropertiesProofs --------------------------
(***************************************************************************)
(* Who changes a property that is set, and how references come to form a   *)
(* cycle, for every build, file and command line.                          *)
(***************************************************************************)
EXTENDS Properties, TLAPS, SequenceTheorems, FiniteSetTheorems

\* What is entered without asking comes from one of the tasks that do so.
Asks(w) == w.mode \in Modes /\ (w.mode = "overwrite" => w.by \in Overwriting)
AllAsk(writes) == \E S : writes \in Seq(S) /\ \A w \in S : Asks(w)

IInv == TypeOK /\ AllAsk(pending)

\* A write that may be made as the table stands.
Permitted(n, by) == by \in Overwriting \/ n \notin DOMAIN property_dict

-----------------------------------------------------------------------------
(* Sequences                                                               *)

LEMMA FunctionIsSequence ==
    ASSUME NEW n \in Nat, NEW S, NEW f \in [1..n -> S]
    PROVE  f \in Seq(S)
  OBVIOUS

LEMMA SequenceOverItself ==
    ASSUME NEW S, NEW s \in Seq(S)
    PROVE  IsSequence(s)
<1>1. Len(s) \in Nat /\ s \in [1..Len(s) -> S] /\ DOMAIN s = 1..Len(s)
  BY LenProperties
<1>2. s \in [1..Len(s) -> {s[i] : i \in DOMAIN s}]
  BY <1>1
<1> QED
  BY <1>1, <1>2, FunctionIsSequence DEF IsSequence

\* One write for each entry of a file or variable of the environment.
LEMMA OnePerEntry ==
    ASSUME NEW s, IsSequence(s), NEW f, f = [i \in DOMAIN s |-> f[i]],
           \A i \in DOMAIN s : Asks(f[i])
    PROVE  AllAsk(f)
<1>1. PICK n \in Nat : DOMAIN s = 1..n
  BY LenProperties DEF IsSequence
<1> DEFINE S == {f[i] : i \in DOMAIN s}
<1>2. f \in [1..n -> S]
  BY <1>1
<1>3. f \in Seq(S)
  BY <1>2, FunctionIsSequence
<1>4. \A w \in S : Asks(w)
  OBVIOUS
<1> QED
  BY <1>3, <1>4 DEF AllAsk

LEMMA AskedFor ==
    ASSUME NEW S, NEW s \in Seq(S), \A w \in S : Asks(w)
    PROVE  AllAsk(s)
  BY Zenon DEF AllAsk

LEMMA NoWrites == AllAsk(<<>>)
<1> DEFINE s == <<>>
<1>1. s \in Seq({})
  OBVIOUS
<1>2. AllAsk(s)
  <2> HIDE DEF s
  <2> QED
    BY <1>1, AskedFor
<1> QED
  BY <1>2

LEMMA OneWrite ==
    ASSUME NEW w, Asks(w)
    PROVE  AllAsk(<<w>>)
<1> DEFINE s == <<w>>
<1>1. s \in Seq({w})
  OBVIOUS
<1>2. AllAsk(s)
  <2> HIDE DEF s
  <2> QED
    BY <1>1, AskedFor
<1> QED
  BY <1>2

LEMMA MoreWrites ==
    ASSUME NEW v, AllAsk(v), NEW w, AllAsk(w)
    PROVE  AllAsk(v \o w)
<1>1. PICK S : v \in Seq(S) /\ \A x \in S : Asks(x)
  BY DEF AllAsk
<1>2. PICK T : w \in Seq(T) /\ \A x \in T : Asks(x)
  BY DEF AllAsk
<1>3. v \in Seq(S \cup T) /\ w \in Seq(S \cup T)
  BY <1>1, <1>2, SeqMonotonic
<1>4. v \o w \in Seq(S \cup T)
  BY <1>3, ConcatProperties
<1> QED
  BY <1>1, <1>2, <1>4 DEF AllAsk

LEMMA FirstWrite ==
    ASSUME NEW writes, AllAsk(writes), writes # <<>>
    PROVE  Asks(Head(writes)) /\ AllAsk(Tail(writes))
<1>1. PICK S : writes \in Seq(S) /\ \A x \in S : Asks(x)
  BY DEF AllAsk
<1>2. Head(writes) \in S /\ Tail(writes) \in Seq(S)
  BY <1>1, HeadTailProperties
<1> QED
  BY <1>1, <1>2 DEF AllAsk

-----------------------------------------------------------------------------
(* What a task does to the table                                           *)

\* xmlproperty's parser starts on a file.
XmlBegins(t) ==
    \E p \in DOMAIN Disk :
        xml' = [left |-> Disk[p].events, path |-> <<>>, element |-> <<>>,
                prefix |-> Prefix(t), keeproot |-> t.keeproot, collapse |-> t.collapse,
                elements |-> <<>>, dotted |-> FALSE]

Waits == phase' \in {"endless", "exited"} /\ UNCHANGED idle /\ StoreNothing
Returning == \E r \in BOOLEAN : Returns(r)
Entering == \E w, r : AllAsk(w) /\ r \in BOOLEAN /\ Enters(w, r)
Setting == \E n, v, by : Permitted(n, by) /\ Sets(n, v, by)
Parsing ==
    /\ pending' = <<>> /\ ok' = TRUE /\ phase' = phase /\ StoreNothing
    /\ \E t \in Tasks : XmlBegins(t)
Outcome == Waits \/ Returning \/ Entering \/ Setting \/ Parsing

LEMMA HangsWaits ==
    ASSUME NEW values, Hangs(values)
    PROVE  Waits
  BY DEF Hangs, Waits

\* A file is read only when it is there.
LEMMA EntriesAsk ==
    ASSUME NEW file, NEW mode, NEW prefix, NEW seps, IsFile(file),
           mode \in {"once", "expanded once"}
    PROVE  AllAsk(Entries(file, "properties", mode, prefix, seps))
<1>1. IsSequence(Stat(file).entries)
  BY DiskAssumption DEF IsFile, Exists, Stat
<1> DEFINE e == Stat(file).entries
           f == Entries(file, "properties", mode, prefix, seps)
<1>2. f = [i \in DOMAIN e |-> Write(prefix \o e[i].key, e[i].value,
                                    IF e[i].sep \in seps THEN mode ELSE "passed over", "properties")]
  BY DEF Entries
<1>3. \A i \in DOMAIN e : Asks(f[i])
  <2> HIDE DEF f, e
  <2> SUFFICES ASSUME NEW i \in DOMAIN e PROVE Asks(f[i])
    OBVIOUS
  <2>1. f[i].mode \in {mode, "passed over"} /\ f[i].by = "properties"
    BY <1>2 DEF Write
  <2> QED
    BY <2>1 DEF Asks, Modes
<1>4. f = [i \in DOMAIN e |-> f[i]]
  BY <1>2
<1>5. AllAsk(f)
  <2> HIDE DEF f, e
  <2> QED
    BY <1>1, <1>3, <1>4, OnePerEntry DEF e
<1> QED
  BY <1>5

LEMMA VariablesAsk ==
    ASSUME NEW prefix
    PROVE  AllAsk(Variables(prefix))
<1> DEFINE f == Variables(prefix)
<1>1. f = [i \in DOMAIN Environment |-> Write(prefix \o Environment[i].name,
                                              Environment[i].value, "once", "environment")]
  BY DEF Variables
<1>2. \A i \in DOMAIN Environment : Asks(f[i])
  <2> HIDE DEF f
  <2> SUFFICES ASSUME NEW i \in DOMAIN Environment PROVE Asks(f[i])
    OBVIOUS
  <2>1. f[i].mode = "once" /\ f[i].by = "environment"
    BY <1>1 DEF Write
  <2> QED
    BY <2>1 DEF Asks, Modes
<1>3. f = [i \in DOMAIN Environment |-> f[i]]
  BY <1>1
<1>4. AllAsk(f)
  <2> HIDE DEF f
  <2> QED
    BY <1>2, <1>3, EnvironmentAssumption, OnePerEntry
<1> QED
  BY <1>4

LEMMA SetsSetting ==
    ASSUME NEW n, NEW v, NEW by, Sets(n, v, by), Permitted(n, by)
    PROVE  Outcome
  BY Zenon DEF Outcome, Setting

LEMMA EntersEntering ==
    ASSUME NEW w, NEW r, Enters(w, r), AllAsk(w), r \in BOOLEAN
    PROVE  Outcome
  BY Zenon DEF Outcome, Entering

LEMMA ReturnsReturning ==
    ASSUME NEW r, Returns(r), r \in BOOLEAN
    PROVE  Outcome
  BY Zenon DEF Outcome, Returning

LEMMA HangsOutcome ==
    ASSUME NEW values, Hangs(values)
    PROVE  Outcome
  BY HangsWaits DEF Outcome

LEMMA OverwritingPermitted ==
    ASSUME NEW n, NEW by \in Overwriting
    PROVE  Permitted(n, by)
  BY DEF Permitted

LEMMA UnsetPermitted ==
    ASSUME NEW n, NEW by, ~IsSet(n)
    PROVE  Permitted(n, by)
  BY DEF Permitted, IsSet

LEMMA TopLevelPropertyOutcome ==
    ASSUME NEW t, TopLevelProperty(t)
    PROVE  Outcome
<1> DEFINE Named == Has(t, "name") /\ (Has(t, "value") \/ Has(t, "location"))
           v == IF Has(t, "value") THEN t.value ELSE t.location
<1>1. CASE Named
  <2>1. \/ Hangs({v}) \/ Returns(TRUE)
        \/ ~IsSet(t.name) /\ Sets(t.name, IF Has(t, "value") THEN Expanded(v) ELSE Located(v), "property")
    BY <1>1 DEF TopLevelProperty
  <2> QED
    BY <2>1, HangsOutcome, ReturnsReturning, SetsSetting, UnsetPermitted
<1>2. CASE ~Named /\ Has(t, "file")
  <2>1. \/ Hangs({t.file}) \/ Returns(TRUE)
        \/ /\ IsFile(Located(t.file))
           /\ Enters(Entries(Located(t.file), "properties", "expanded once", Prefix(t), {"="}), TRUE)
    BY <1>2 DEF TopLevelProperty
  <2> QED
    BY <2>1, HangsOutcome, ReturnsReturning, EntersEntering, EntriesAsk
<1>3. CASE ~Named /\ ~Has(t, "file")
  <2>1. Enters(Variables(t.environment), TRUE) \/ Returns(TRUE)
    BY <1>3 DEF TopLevelProperty
  <2> QED
    BY <2>1, ReturnsReturning, EntersEntering, VariablesAsk
<1> QED
  BY <1>1, <1>2, <1>3

LEMMA NamedPropertyOutcome ==
    ASSUME NEW t, NamedProperty(t)
    PROVE  Outcome
<1> DEFINE v == IF Has(t, "value") THEN t.value ELSE t.location
           elements == {Paths[t.refid][i] : i \in DOMAIN Paths[t.refid]}
<1>1. CASE IsSet(t.name)
  BY <1>1, ReturnsReturning DEF NamedProperty
<1>2. CASE ~IsSet(t.name) /\ (Has(t, "value") \/ Has(t, "location"))
  <2>1. \/ Hangs({v})
        \/ Sets(t.name, IF Has(t, "value") THEN Expanded(v) ELSE Located(v), "property")
    BY <1>2 DEF NamedProperty
  <2> QED
    BY <2>1, <1>2, HangsOutcome, SetsSetting, UnsetPermitted
<1>3. CASE ~IsSet(t.name) /\ ~(Has(t, "value") \/ Has(t, "location"))
  <2>1. \/ Hangs(elements) \/ Returns(FALSE)
        \/ Sets(t.name, FromPath(t.refid, property_dict), "property")
    BY <1>3 DEF NamedProperty
  <2> QED
    BY <2>1, <1>3, HangsOutcome, ReturnsReturning, SetsSetting, UnsetPermitted
<1> QED
  BY <1>1, <1>2, <1>3

LEMMA LoadFromOutcome ==
    ASSUME NEW t, NEW needed, NEW file, LoadFrom(t, needed, file)
    PROVE  Outcome
  BY HangsOutcome, ReturnsReturning, EntersEntering, EntriesAsk DEF LoadFrom

LEMMA LoadedPropertyOutcome ==
    ASSUME NEW t, LoadedProperty(t)
    PROVE  Outcome
<1>1. CASE Has(t, "file")
  BY <1>1, LoadFromOutcome DEF LoadedProperty
<1>2. CASE ~Has(t, "file") /\ Has(t, "url")
  <2>1. \/ Returns(FALSE)
        \/ /\ IsFile(t.url)
           /\ Enters(Entries(t.url, "properties", "once", DottedPrefix(t), {"=", ":", ""}), TRUE)
    BY <1>2 DEF LoadedProperty
  <2> QED
    BY <2>1, ReturnsReturning, EntersEntering, EntriesAsk
<1>3. CASE ~Has(t, "file") /\ ~Has(t, "url") /\ Has(t, "resource")
  BY <1>3, LoadFromOutcome DEF LoadedProperty
<1>4. CASE ~Has(t, "file") /\ ~Has(t, "url") /\ ~Has(t, "resource")
  <2>1. Enters(Variables(maybe_append_dot(t.environment)), TRUE) \/ Returns(FALSE)
    BY <1>4 DEF LoadedProperty
  <2> QED
    BY <2>1, ReturnsReturning, EntersEntering, VariablesAsk
<1> QED
  BY <1>1, <1>2, <1>3, <1>4

LEMMA PropertyOutcome ==
    ASSUME NEW t, property_invoke(t)
    PROVE  Outcome
  BY NamedPropertyOutcome, LoadedPropertyOutcome DEF property_invoke

LEMMA available_Outcome ==
    ASSUME NEW t, available_invoke(t)
    PROVE  Outcome
  BY HangsOutcome, ReturnsReturning, SetsSetting, OverwritingPermitted
     DEF available_invoke, Overwriting

LEMMA basename_Outcome ==
    ASSUME NEW t, basename_invoke(t)
    PROVE  Outcome
  BY HangsOutcome, ReturnsReturning, SetsSetting, OverwritingPermitted
     DEF basename_invoke, Overwriting

LEMMA dirname_Outcome ==
    ASSUME NEW t, dirname_invoke(t)
    PROVE  Outcome
  BY HangsOutcome, ReturnsReturning, SetsSetting, OverwritingPermitted
     DEF dirname_invoke, Overwriting

LEMMA loadfile_Outcome ==
    ASSUME NEW t, loadfile_invoke(t)
    PROVE  Outcome
  BY HangsOutcome, ReturnsReturning, SetsSetting, OverwritingPermitted
     DEF loadfile_invoke, Overwriting

LEMMA tempfile_Outcome ==
    ASSUME NEW t, tempfile_invoke(t)
    PROVE  Outcome
  BY HangsOutcome, ReturnsReturning, SetsSetting, OverwritingPermitted
     DEF tempfile_invoke, Overwriting

LEMMA length_Outcome ==
    ASSUME NEW t, length_invoke(t)
    PROVE  Outcome
  BY HangsOutcome, ReturnsReturning, SetsSetting, OverwritingPermitted
     DEF length_invoke, Overwriting

LEMMA uptodate_Outcome ==
    ASSUME NEW t, uptodate_invoke(t)
    PROVE  Outcome
  BY HangsOutcome, ReturnsReturning, SetsSetting, OverwritingPermitted
     DEF uptodate_invoke, Overwriting

LEMMA pathconvert_Outcome ==
    ASSUME NEW t, pathconvert_invoke(t)
    PROVE  Outcome
  BY HangsOutcome, ReturnsReturning, SetsSetting, OverwritingPermitted
     DEF pathconvert_invoke, Overwriting

LEMMA condition_Outcome ==
    ASSUME NEW t, condition_invoke(t)
    PROVE  Outcome
<1>1. \/ \E values : Hangs(values)
      \/ phase' = "endless" /\ UNCHANGED idle /\ StoreNothing
      \/ Returns(TRUE)
      \/ \E v : Sets(t.property, Expanded(v), "condition")
  BY Zenon DEF condition_invoke
<1>2. CASE phase' = "endless" /\ UNCHANGED idle /\ StoreNothing
  BY <1>2 DEF Outcome, Waits
<1> QED
  BY <1>1, <1>2, HangsOutcome, ReturnsReturning, SetsSetting, OverwritingPermitted DEF Overwriting

LEMMA input_Outcome ==
    ASSUME NEW t, input_invoke(t)
    PROVE  Outcome
<1>1. \/ \E r \in BOOLEAN : Returns(r)
      \/ \E values : Hangs(values)
      \/ ~IsSet(t.addproperty) /\ \E v : Sets(t.addproperty, v, "input")
  BY DEF input_invoke
<1> QED
  BY <1>1, HangsOutcome, ReturnsReturning, SetsSetting, UnsetPermitted

LEMMA tstamp_Outcome ==
    ASSUME NEW t, tstamp_invoke(t)
    PROVE  Outcome
<1> DEFINE stamp(word) == Write(Prefix(t) \o <<word>>, <<Text("now")>>, "overwrite", "tstamp")
<1>1. \A word : Asks(stamp(word))
  BY DEF Asks, Write, Modes, Overwriting
<1>2. Enters(<<stamp("DSTAMP"), stamp("TSTAMP"), stamp("TODAY")>>, TRUE)
  BY DEF tstamp_invoke
<1> HIDE DEF stamp
<1> DEFINE w == <<stamp("DSTAMP"), stamp("TSTAMP"), stamp("TODAY")>>
           S == {stamp("DSTAMP"), stamp("TSTAMP"), stamp("TODAY")}
<1>3. w \in Seq(S) /\ \A x \in S : Asks(x)
  BY <1>1
<1> HIDE DEF w, S
<1>4. AllAsk(w)
  BY <1>3, AskedFor
<1> QED
  BY <1>2, <1>4, EntersEntering DEF w

LEMMA exec_Outcome ==
    ASSUME NEW t, exec_invoke(t)
    PROVE  Outcome
<1>1. \/ Hangs({t.executable}) \/ Returns(~t.failonerror)
      \/ \E status, output, error :
            Enters(ResultWrites(t, status, output, error), status = 0 \/ ~t.failonerror)
  BY DEF exec_invoke
<1>2. ASSUME NEW status, NEW output, NEW error,
             Enters(ResultWrites(t, status, output, error), status = 0 \/ ~t.failonerror)
      PROVE  Outcome
  <2> DEFINE W(n, v) == Write(n, v, "overwrite", "exec")
             one == IF Has(t, "resultproperty")
                    THEN <<W(t.resultproperty, <<Number(status)>>)>> ELSE <<>>
             two == IF Has(t, "outputproperty") /\ output # <<>>
                    THEN <<W(t.outputproperty, output)>> ELSE <<>>
             three == IF Has(t, "errorproperty") /\ error # <<>>
                      THEN <<W(t.errorproperty, error)>> ELSE <<>>
  <2>1. \A n, v : Asks(W(n, v))
    BY DEF Asks, Write, Modes, Overwriting
  <2>2. ResultWrites(t, status, output, error) = one \o two \o three
    BY DEF ResultWrites
  <2> HIDE DEF W
  <2>3. AllAsk(one)
    <3>1. CASE Has(t, "resultproperty")
      BY <2>1, <3>1, OneWrite
    <3>2. CASE ~Has(t, "resultproperty")
      BY <3>2, NoWrites
    <3> QED BY <3>1, <3>2
  <2>4. AllAsk(two)
    <3>1. CASE Has(t, "outputproperty") /\ output # <<>>
      BY <2>1, <3>1, OneWrite
    <3>2. CASE ~(Has(t, "outputproperty") /\ output # <<>>)
      BY <3>2, NoWrites
    <3> QED BY <3>1, <3>2
  <2>5. AllAsk(three)
    <3>1. CASE Has(t, "errorproperty") /\ error # <<>>
      BY <2>1, <3>1, OneWrite
    <3>2. CASE ~(Has(t, "errorproperty") /\ error # <<>>)
      BY <3>2, NoWrites
    <3> QED BY <3>1, <3>2
  <2> HIDE DEF one, two, three
  <2>6. AllAsk(one \o two \o three)
    BY <2>3, <2>4, <2>5, MoreWrites
  <2> QED
    BY <1>2, <2>2, <2>6, EntersEntering
<1>3. CASE Returns(~t.failonerror)
  BY <1>3, ReturnsReturning
<1> QED
  BY <1>1, <1>2, <1>3, HangsOutcome

LEMMA fail_Outcome ==
    ASSUME NEW t, fail_invoke(t)
    PROVE  Outcome
<1>1. \/ Returns(TRUE) \/ Returns(FALSE)
      \/ phase' = "exited" /\ UNCHANGED idle /\ StoreNothing
  BY DEF fail_invoke
<1> QED
  BY <1>1, ReturnsReturning DEF Outcome, Waits

LEMMA xmlproperty_Outcome ==
    ASSUME NEW t \in Tasks, xmlproperty_invoke(t)
    PROVE  Outcome
<1>1. Hangs({t.file}) \/ Returns(FALSE) \/ Parsing
  BY DEF xmlproperty_invoke, Parsing, XmlBegins, IsFile, Exists, Stat
<1> QED
  BY <1>1, HangsOutcome, ReturnsReturning DEF Outcome

LEMMA InvokeOutcome ==
    ASSUME NEW t \in Tasks, Invoke(t)
    PROVE  Outcome
<1>1. CASE echo_invoke(t)
  BY <1>1, HangsOutcome, ReturnsReturning DEF echo_invoke
<1>2. CASE local_invoke(t) \/ Returns(FALSE)
  BY <1>2, ReturnsReturning DEF local_invoke
<1> QED
  BY <1>1, <1>2, PropertyOutcome, available_Outcome, basename_Outcome, dirname_Outcome,
     loadfile_Outcome, tempfile_Outcome, length_Outcome, uptodate_Outcome, condition_Outcome,
     input_Outcome, pathconvert_Outcome, tstamp_Outcome, exec_Outcome, fail_Outcome,
     xmlproperty_Outcome
     DEF Invoke

-----------------------------------------------------------------------------
(* What a step does to the table                                           *)

Stores == \E n, v, by : Permitted(n, by) /\ Store(n, v, by)
TableStep == StoreNothing \/ Stores

TableOK ==
    /\ property_dict = [n \in DOMAIN property_dict |-> property_dict[n]]
    /\ writer = [n \in DOMAIN property_dict |-> writer[n]]
    /\ unexpanded \subseteq DOMAIN property_dict

LEMMA TableStepOK ==
    ASSUME TableOK, TableStep
    PROVE  TableOK'
<1>1. CASE StoreNothing
  BY <1>1 DEF StoreNothing, TableOK
<1>2. ASSUME NEW n, NEW v, NEW by, Store(n, v, by)
      PROVE  TableOK'
  BY <1>2 DEF Store, Insert, TableOK
<1> QED
  BY <1>1, <1>2 DEF TableStep, Stores

\* The parts of the invariant besides the table.
RestOK ==
    /\ phase \in Phases /\ legacy \in BOOLEAN /\ ok \in BOOLEAN /\ steps \in Nat
    /\ AllAsk(pending)
    /\ pending # <<>> => xml = NoXml

LEMMA AllAskTypes ==
    ASSUME NEW w, AllAsk(w)
    PROVE  IsSequence(w) /\ \A i \in DOMAIN w : w[i].mode \in Modes
<1>1. PICK S : w \in Seq(S) /\ \A x \in S : Asks(x)
  BY DEF AllAsk
<1>2. DOMAIN w = 1..Len(w) /\ w \in [1..Len(w) -> S]
  BY <1>1, LenProperties
<1>3. \A i \in DOMAIN w : w[i] \in S
  BY <1>2
<1> QED
  BY <1>1, <1>3, SequenceOverItself DEF Asks

LEMMA IInvParts == IInv <=> TableOK /\ RestOK
  BY AllAskTypes DEF IInv, TypeOK, TableOK, RestOK

\* The table and the rest after a task.
LEMMA OutcomeStep ==
    ASSUME IInv, Outcome, Ready, UNCHANGED legacy, steps' = steps + 1
    PROVE  TableStep /\ RestOK'
<1>0. RestOK
  BY IInvParts
<1>1. CASE Waits
  <2>1. TableStep
    BY <1>1 DEF Waits, TableStep
  <2>2. pending' = pending /\ xml' = xml /\ ok' = ok /\ phase' \in Phases
    BY <1>1 DEF Waits, idle, Phases
  <2>3. RestOK'
    BY <1>0, <2>2 DEF RestOK, NoXml
  <2> QED BY <2>1, <2>3
<1>2. ASSUME NEW r \in BOOLEAN, Returns(r)
      PROVE  TableStep /\ RestOK'
  <2>1. TableStep
    BY <1>2 DEF Returns, TableStep
  <2>2. pending' = <<>> /\ ok' \in BOOLEAN /\ phase' = phase
    BY <1>2 DEF Returns
  <2>3. RestOK'
    BY <1>0, <2>2, NoWrites DEF RestOK
  <2> QED BY <2>1, <2>3
<1>3. ASSUME NEW w, NEW r \in BOOLEAN, Enters(w, r), AllAsk(w)
      PROVE  TableStep /\ RestOK'
  <2>1. TableStep
    BY <1>3 DEF Enters, TableStep
  <2>2. pending' = w /\ ok' \in BOOLEAN /\ phase' = phase /\ xml' = NoXml
    BY <1>3 DEF Enters
  <2>3. RestOK'
    BY <1>0, <1>3, <2>2 DEF RestOK, NoXml
  <2> QED BY <2>1, <2>3
<1>4. ASSUME NEW n, NEW v, NEW by, Sets(n, v, by), Permitted(n, by)
      PROVE  TableStep /\ RestOK'
  <2>1. TableStep
    BY <1>4 DEF Sets, TableStep, Stores
  <2>2. pending' = <<>> /\ ok' \in BOOLEAN /\ phase' = phase
    BY <1>4 DEF Sets
  <2>3. RestOK'
    BY <1>0, <2>2, NoWrites DEF RestOK
  <2> QED BY <2>1, <2>3
<1>5. CASE Parsing
  <2>1. TableStep
    BY <1>5 DEF Parsing, TableStep
  <2>2. pending' = <<>> /\ ok' \in BOOLEAN /\ phase' = phase
    BY <1>5 DEF Parsing
  <2>3. RestOK'
    BY <1>0, <2>2, NoWrites DEF RestOK
  <2> QED BY <2>1, <2>3
<1> QED
  BY <1>1, <1>2, <1>3, <1>4, <1>5 DEF Outcome, Returning, Entering, Setting

LEMMA EnterStep ==
    ASSUME IInv, Enter
    PROVE  TableStep /\ RestOK'
<1> DEFINE w == Head(pending)
<1>0. RestOK
  BY IInvParts
<1>1. Asks(w) /\ AllAsk(Tail(pending)) /\ pending # <<>> /\ xml = NoXml
  BY <1>0, FirstWrite DEF RestOK, Enter
<1> HIDE DEF w
<1>2. \/ StoreNothing
      \/ \E v : Store(w.name, v, w.by) /\ (w.mode = "overwrite" \/ w.name \notin DOMAIN property_dict)
  BY Zenon DEF Enter, w
<1>3. w.mode = "overwrite" \/ w.name \notin DOMAIN property_dict => Permitted(w.name, w.by)
  BY <1>1 DEF Asks, Permitted
<1>4. TableStep
  BY <1>2, <1>3, Zenon DEF TableStep, Stores
<1>5. /\ pending' \in {pending, Tail(pending)} /\ phase' \in {phase, "endless"}
      /\ legacy' = legacy /\ ok' = ok /\ steps' = steps /\ xml' = xml
  BY DEF Enter, w
<1>6. RestOK'
  BY <1>0, <1>1, <1>5 DEF RestOK, Phases, NoXml
<1> QED
  BY <1>4, <1>6

LEMMA XmlEventStep ==
    ASSUME IInv, XmlEvent
    PROVE  TableStep /\ RestOK'
<1>0. RestOK
  BY IInvParts
<1>1. /\ UNCHANGED <<phase, legacy, pending, steps>> /\ ok' \in {ok, FALSE} /\ xml # NoXml
      /\ StoreNothing \/ \E n, v : XmlSets(n, v)
  BY Zenon DEF XmlEvent
<1>2. TableStep
  <2>1. ASSUME NEW n, NEW v, XmlSets(n, v)
        PROVE  TableStep
    BY <2>1 DEF XmlSets, IsSet, TableStep, Stores, Permitted
  <2> QED
    BY <1>1, <2>1 DEF TableStep
<1>3. RestOK'
  BY <1>0, <1>1 DEF RestOK
<1> QED
  BY <1>2, <1>3

LEMMA DefineStep ==
    ASSUME IInv, NEW w, Define(w)
    PROVE  TableStep /\ RestOK'
<1>0. RestOK
  BY IInvParts
<1>1. \E v : Store(w.name, v, "command line")
  BY DEF Define
<1>2. TableStep
  BY <1>1, OverwritingPermitted DEF TableStep, Stores, Overwriting
<1>3. /\ pending' = pending /\ xml' = xml /\ ok' = ok /\ phase' = phase /\ legacy' = legacy
      /\ steps' = steps + 1
  BY DEF Define, idle
<1>4. RestOK'
  BY <1>0, <1>3 DEF RestOK, NoXml
<1> QED
  BY <1>2, <1>4

LEMMA StartProjectStep ==
    ASSUME IInv, StartProject
    PROVE  TableStep /\ RestOK'
<1> DEFINE f == [i \in DOMAIN Builtins |->
                     Write(Builtins[i].name, Builtins[i].value, "overwrite", "built in")]
<1>0. RestOK
  BY IInvParts
<1>1. \A i \in DOMAIN Builtins : Asks(f[i])
  BY DEF Asks, Write, Modes, Overwriting
<1>2. f = [i \in DOMAIN Builtins |-> f[i]]
  OBVIOUS
<1>3. pending' = f
  BY DEF StartProject
<1> HIDE DEF f
<1>4. AllAsk(f)
  BY <1>1, <1>2, BuiltinsAssumption, OnePerEntry
<1>5. xml' = NoXml /\ legacy' = legacy /\ ok' = ok /\ steps' = 0 /\ phase' = "project" /\ StoreNothing
  BY DEF StartProject, Ready
<1>6. RestOK'
  BY <1>0, <1>3, <1>4, <1>5 DEF RestOK, Phases, NoXml
<1> QED
  BY <1>5, <1>6 DEF TableStep

LEMMA NextStep ==
    ASSUME IInv, [Next]_vars
    PROVE  TableStep /\ RestOK'
<1>0. RestOK
  BY IInvParts
<1>1. ASSUME NEW t \in Tasks, RunTask(t) \/ ProjectElement(t)
      PROVE  TableStep /\ RestOK'
  <2>1. Ready /\ UNCHANGED legacy /\ steps' = steps + 1
    BY <1>1 DEF RunTask, ProjectElement
  <2>2. Outcome
    BY <1>1, InvokeOutcome, PropertyOutcome, TopLevelPropertyOutcome DEF RunTask, ProjectElement
  <2> QED
    BY <2>1, <2>2, OutcomeStep
<1>2. CASE StartTargets \/ Fails
  BY <1>0, <1>2 DEF StartTargets, Fails, TableStep, RestOK, Phases, idle
<1>3. CASE UNCHANGED vars
  BY <1>0, <1>3 DEF vars, TableStep, StoreNothing, RestOK, NoXml
<1> QED
  BY <1>1, <1>2, <1>3, DefineStep, StartProjectStep, EnterStep, XmlEventStep DEF Next

-----------------------------------------------------------------------------
(* The theorems                                                            *)

LEMMA Invariance == Spec => []IInv
<1>1. Init => IInv
  <2> SUFFICES ASSUME Init PROVE IInv
    OBVIOUS
  <2>1. TableOK
    BY DEF Init, TableOK
  <2>2. RestOK
    BY NoWrites DEF Init, RestOK, Phases
  <2> QED
    BY <2>1, <2>2, IInvParts
<1>2. IInv /\ [Next]_vars => IInv'
  <2> SUFFICES ASSUME IInv, [Next]_vars PROVE IInv'
    OBVIOUS
  <2>1. TableStep /\ RestOK'
    BY NextStep
  <2>2. TableOK'
    BY <2>1, IInvParts, TableStepOK
  <2>3. (IInv <=> TableOK /\ RestOK)'
    BY IInvParts, PTL
  <2> QED
    BY <2>1, <2>2, <2>3
<1> QED
  BY <1>1, <1>2, PTL DEF Spec

\* The property table, its history and what waits to be entered have their
\* types in every build.
THEOREM TypeCorrect == Spec => []TypeOK
<1>1. IInv => TypeOK
  BY DEF IInv
<1> QED
  BY <1>1, Invariance, PTL

\* In every build, whatever its tasks and files, a property that is set is
\* given another value only by one of the tasks that do not ask, never by a
\* property element, by an entry of a file, by input or by xmlproperty.
THEOREM OnlyOverwritersOverwrite == Spec => OverwritersOnly
<1> DEFINE A == \A n \in DOMAIN property_dict :
                   property_dict'[n] # property_dict[n] => writer'[n] \in Overwriting
<1>1. IInv /\ [Next]_vars => [A]_vars
  <2> SUFFICES ASSUME IInv, [Next]_vars PROVE A
    OBVIOUS
  <2>1. CASE StoreNothing
    BY <2>1 DEF StoreNothing
  <2>2. ASSUME NEW n, NEW v, NEW by, Permitted(n, by), Store(n, v, by)
        PROVE  A
    <3>1. \A m \in DOMAIN property_dict : m # n => property_dict'[m] = property_dict[m]
      BY <2>2 DEF Store, Insert
    <3>2. writer'[n] = by
      BY <2>2 DEF Store, Insert
    <3> QED
      BY <2>2, <3>1, <3>2 DEF Permitted
  <2> QED
    BY <2>1, <2>2, NextStep DEF TableStep, Stores
<1> QED
  BY <1>1, Invariance, PTL DEF Spec, OverwritersOnly

LEMMA CyclesStep ==
    ASSUME CyclesExplained, TableStep
    PROVE  CyclesExplained'
<1>1. CASE StoreNothing
  <2>1. property_dict' = property_dict /\ unexpanded' = unexpanded
    BY <1>1 DEF StoreNothing
  <2>2. Referring' = Referring /\ \A n, m : Refers(n, m)' <=> Refers(n, m)
    BY <2>1 DEF Referring, Refers
  <2>3. \A C : Cyclic(C)' <=> Cyclic(C)
    BY <2>2 DEF Cyclic
  <2> SUFFICES ASSUME NEW C, C \subseteq Referring', Cyclic(C)'
               PROVE  \E n \in C : Refers(n, n)' \/ n \in unexpanded'
    BY DEF CyclesExplained
  <2>4. PICK n \in C : Refers(n, n) \/ n \in unexpanded
    BY <2>2, <2>3 DEF CyclesExplained
  <2> QED
    BY <2>1, <2>2, <2>4
<1>2. ASSUME NEW n, NEW v, NEW by, Store(n, v, by)
      PROVE  CyclesExplained'
  <2>1. /\ DOMAIN property_dict' = DOMAIN property_dict \cup {n}
        /\ property_dict'[n] = v
        /\ \A m \in DOMAIN property_dict : m # n => property_dict'[m] = property_dict[m]
    BY <1>2 DEF Store, Insert
  <2>2. \A m : m # n => (m \in unexpanded <=> m \in unexpanded')
    BY <1>2 DEF Store
  <2> SUFFICES ASSUME NEW C, C \subseteq Referring', Cyclic(C)'
               PROVE  \E m \in C : Refers(m, m)' \/ m \in unexpanded'
    BY DEF CyclesExplained
  <2>3. C \subseteq DOMAIN property_dict'
    BY DEF Referring
  <2>4. CASE n \notin C
    <3>1. \A m \in C : m \in DOMAIN property_dict /\ property_dict'[m] = property_dict[m]
      BY <2>1, <2>3, <2>4
    <3>2. \A m \in C : \A k : Refers(m, k)' <=> Refers(m, k)
      BY <3>1 DEF Refers
    <3>3. C \subseteq Referring
      BY <3>1 DEF Referring
    <3>4. Cyclic(C)
      BY <3>2 DEF Cyclic
    <3>5. PICK m \in C : Refers(m, m) \/ m \in unexpanded
      BY <3>3, <3>4 DEF CyclesExplained
    <3> QED
      BY <2>2, <2>4, <3>2, <3>5
  <2>5. CASE n \in C
    <3>1. PICK m \in C : Refers(n, m)'
      BY <2>5 DEF Cyclic
    <3>2. CASE m = n
      BY <3>1, <3>2
    <3>3. CASE m # n
      <4>1. m \in DOMAIN property_dict
        BY <2>1, <2>3, <3>3
      <4>2. PICK i \in DOMAIN v : v[i] = Reference(m)
        BY <2>1, <3>1 DEF Refers
      <4>3. i \in Resolvable(v, property_dict)
        BY <4>1, <4>2 DEF Resolvable, Reference
      <4>4. n \in unexpanded'
        BY <1>2, <4>3 DEF Store
      <4> QED
        BY <2>5, <4>4
    <3> QED
      BY <3>2, <3>3
  <2> QED
    BY <2>4, <2>5
<1> QED
  BY <1>1, <1>2 DEF TableStep, Stores

\* However the properties of a build were entered, a cycle of references, on
\* which an expansion would not end, holds a property that refers to itself or
\* one that was entered with a reference that had a value.
THEOREM EveryCycleExplained == Spec => []CyclesExplained
<1>1. Init => CyclesExplained
  BY DEF Init, CyclesExplained, Cyclic, Referring
<1>2. IInv /\ CyclesExplained /\ [Next]_vars => CyclesExplained'
  BY NextStep, CyclesStep
<1> QED
  BY <1>1, <1>2, Invariance, PTL DEF Spec

-----------------------------------------------------------------------------
(* The paths of xmlproperty                                                *)

NoDot(name) == \A i \in DOMAIN name : name[i] # "."

\* What PathIsPosition defines by recursion: the path of each open element.
RootPath(prefix, name) == prefix \o name
Below(path, name) == path \o <<".">> \o name

IsPosition(f, prefix, elements) ==
    f = [k \in DOMAIN elements |->
            IF k = 1 THEN RootPath(prefix, elements[1]) ELSE Below(f[k - 1], elements[k])]

OnlyPosition(f, prefix, elements) ==
    /\ IsPosition(f, prefix, elements)
    /\ \A g : IsPosition(g, prefix, elements) => g = f
    /\ \A k \in DOMAIN elements : IsSequence(f[k])

Names(elements) ==
    IsSequence(elements) /\ \A k \in DOMAIN elements : IsSequence(elements[k]) /\ elements[k] # <<>>

LEMMA InSeq ==
    ASSUME NEW s, IsSequence(s)
    PROVE  /\ \E S : s \in Seq(S)
           /\ Len(s) \in Nat /\ DOMAIN s = 1..Len(s)
           /\ s = <<>> <=> Len(s) = 0
<1>1. PICK S : s \in Seq(S)
  BY DEF IsSequence
<1> QED
  BY <1>1, LenProperties, EmptySeq

Joins(r, s, t) ==
    /\ IsSequence(r) /\ Len(r) = Len(s) + Len(t)
    /\ \A i \in 1..Len(s) : r[i] = s[i]
    /\ \A i \in 1..Len(t) : r[Len(s) + i] = t[i]

LEMMA Concatenated ==
    ASSUME NEW s, IsSequence(s), NEW t, IsSequence(t), NEW r, r = s \o t
    PROVE  Joins(r, s, t)
<1>1. PICK S : s \in Seq(S)
  BY InSeq
<1>2. PICK T : t \in Seq(T)
  BY InSeq
<1>3. s \in Seq(S \cup T) /\ t \in Seq(S \cup T)
  BY <1>1, <1>2, SeqMonotonic
<1>4. r \in Seq(S \cup T) /\ Len(r) = Len(s) + Len(t)
  BY <1>3, ConcatProperties
<1>5. \A i \in 1..Len(s) + Len(t) :
         r[i] = IF i <= Len(s) THEN s[i] ELSE t[i - Len(s)]
  BY <1>3, ConcatProperties
<1>6. Len(s) \in Nat /\ Len(t) \in Nat
  BY <1>3, LenProperties
<1>7. IsSequence(r)
  BY <1>4, SequenceOverItself
<1>8. \A i \in 1..Len(t) :
         Len(s) + i \in 1..Len(s) + Len(t) /\ ~(Len(s) + i <= Len(s)) /\ Len(s) + i - Len(s) = i
  BY <1>6
<1>9. \A i \in 1..Len(t) : r[Len(s) + i] = t[i]
  BY <1>5, <1>8
<1>10. \A i \in 1..Len(s) : r[i] = s[i]
  BY <1>5, <1>6
<1> QED
  BY <1>4, <1>7, <1>9, <1>10 DEF Joins

Dots(path) == {i \in DOMAIN path : path[i] = "."}
LastDot(path) == CHOOSE i \in Dots(path) : \A j \in Dots(path) : j <= i

\* The name after the last dot is taken off again.
LEMMA CutAtLastDot ==
    ASSUME NEW path, IsSequence(path), NEW name, IsSequence(name), NoDot(name)
    PROVE  /\ Dots(Below(path, name)) # {}
           /\ SubSeq(Below(path, name), 1, LastDot(Below(path, name)) - 1) = path
<1> DEFINE dot == <<".">>
           stem == path \o dot
           new == stem \o name
           dots == {i \in DOMAIN new : new[i] = "."}
           last == CHOOSE i \in dots : \A j \in dots : j <= i
           n == Len(path)
<1>1. IsSequence(dot) /\ Len(dot) = 1 /\ dot[1] = "."
  <2>1. dot \in Seq({"."}) /\ Len(dot) = 1 /\ dot[1] = "."
    OBVIOUS
  <2> HIDE DEF dot
  <2> QED
    BY <2>1, SequenceOverItself
<1> HIDE DEF dot
<1>2. /\ IsSequence(stem) /\ Len(stem) = n + 1 /\ stem[n + 1] = "."
      /\ \A i \in 1..n : stem[i] = path[i]
  <2>1. stem = path \o dot
    OBVIOUS
  <2>2. 1 \in 1..Len(dot)
    BY <1>1
  <2> HIDE DEF stem
  <2>3. Joins(stem, path, dot)
    BY <1>1, <2>1, Concatenated
  <2> QED
    BY <1>1, <2>2, <2>3 DEF Joins
<1> HIDE DEF stem
<1>3. /\ IsSequence(new) /\ Len(new) = n + 1 + Len(name)
      /\ \A i \in 1..n + 1 : new[i] = stem[i]
      /\ \A i \in 1..Len(name) : new[n + 1 + i] = name[i]
  <2>1. Joins(new, stem, name)
    <3>1. new = stem \o name
      OBVIOUS
    <3> HIDE DEF new
    <3> QED
      BY <1>2, <3>1, Concatenated
  <2> HIDE DEF new
  <2> QED
    BY <1>2, <2>1 DEF Joins
<1>4. n \in Nat /\ Len(name) \in Nat /\ DOMAIN name = 1..Len(name) /\ DOMAIN path = 1..n
  BY InSeq
<1> HIDE DEF new, n
<1>5. DOMAIN new = 1..n + 1 + Len(name)
  BY <1>3, InSeq
<1>6. n + 1 \in dots
  BY <1>2, <1>3, <1>4, <1>5
<1>7. \A i \in dots : i <= n + 1
  <2> SUFFICES ASSUME NEW i \in DOMAIN new, i > n + 1
               PROVE  new[i] # "."
    BY <1>4, <1>5
  <2>1. i - (n + 1) \in 1..Len(name) /\ n + 1 + (i - (n + 1)) = i
    BY <1>4, <1>5
  <2>2. new[i] = name[i - (n + 1)]
    BY <1>3, <2>1
  <2> QED
    BY <1>4, <2>1, <2>2 DEF NoDot
<1>8. last = n + 1
  <2>1. \E i \in dots : \A j \in dots : j <= i
    BY <1>6, <1>7
  <2>2. last \in dots /\ \A j \in dots : j <= last
    BY <2>1
  <2>3. last \in Nat
    BY <1>5, <2>2
  <2> HIDE DEF last
  <2> QED
    BY <1>4, <1>6, <1>7, <2>2, <2>3
<1>9. SubSeq(new, 1, n) = path
  <2>1. PICK S : path \in Seq(S)
    BY InSeq
  <2>2. PICK T : new \in Seq(T)
    BY <1>3, InSeq
  <2>3. /\ SubSeq(new, 1, n) \in Seq(T) /\ Len(SubSeq(new, 1, n)) = n
        /\ \A i \in 1..n : SubSeq(new, 1, n)[i] = new[i]
    <3>1. DOMAIN new = 1..Len(new) /\ \A i \in 1..Len(new) : new[i] \in T
      BY <1>3, <2>2, LenProperties, ElementOfSeq
    <3>2. \A i \in 1..n : new[i] \in T
      BY <1>3, <1>4, <3>1
    <3>3. /\ SubSeq(new, 1, n) \in Seq(T) /\ Len(SubSeq(new, 1, n)) = IF 1 <= n THEN n - 1 + 1 ELSE 0
          /\ \A i \in 1..n - 1 + 1 : SubSeq(new, 1, n)[i] = new[1 + i - 1]
      BY <1>4, <3>2, SubSeqProperties
    <3>4. n - 1 + 1 = n /\ \A i \in 1..n : 1 + i - 1 = i
      BY <1>4
    <3>5. (IF 1 <= n THEN n - 1 + 1 ELSE 0) = n
      BY <1>4
    <3> QED
      BY <3>3, <3>4, <3>5
  <2>4. \A i \in 1..n : SubSeq(new, 1, n)[i] = path[i]
    BY <1>2, <1>3, <1>4, <2>3
  <2>5. SubSeq(new, 1, n) \in Seq(S \cup T) /\ path \in Seq(S \cup T)
    BY <2>1, <2>3, SeqMonotonic
  <2> DEFINE cut == SubSeq(new, 1, n)
  <2>6. cut \in Seq(S \cup T) /\ Len(cut) = Len(path) /\ \A i \in 1..Len(cut) : cut[i] = path[i]
    BY <2>3, <2>4, <2>5 DEF n
  <2> HIDE DEF cut
  <2>7. cut = path
    BY <2>5, <2>6, SeqEqual
  <2> QED
    BY <2>7 DEF cut
<1>10. last - 1 = n
  <2> HIDE DEF last
  <2> QED
    BY <1>4, <1>8
<1>11. Below(path, name) = new
  BY Zenon DEF Below, new, stem, dot
<1>12. dots = Dots(new) /\ last = LastDot(new)
  BY Zenon DEF Dots, LastDot
<1> HIDE DEF dots, last
<1> QED
  BY <1>6, <1>9, <1>10, <1>11, <1>12

LEMMA PathsOfElements ==
    ASSUME NEW path, IsSequence(path), NEW name, IsSequence(name)
    PROVE  /\ IsSequence(RootPath(path, name)) /\ IsSequence(Below(path, name))
           /\ Below(path, name) # <<>>
           /\ name # <<>> => RootPath(path, name) # <<>>
<1> DEFINE dot == <<".">>
           root == path \o name
           stem == path \o dot
           new == stem \o name
<1>1. IsSequence(dot) /\ Len(dot) = 1
  <2>1. dot \in Seq({"."}) /\ Len(dot) = 1
    OBVIOUS
  <2> HIDE DEF dot
  <2> QED
    BY <2>1, SequenceOverItself
<1> HIDE DEF dot
<1>2. Joins(root, path, name)
  BY Concatenated
<1>3. Joins(stem, path, dot)
  BY <1>1, Concatenated
<1> HIDE DEF root, stem
<1>4. Joins(new, stem, name)
  <2>1. IsSequence(stem)
    BY <1>3 DEF Joins
  <2> QED
    BY <2>1, Concatenated
<1> HIDE DEF new
<1>5. Len(path) \in Nat /\ Len(name) \in Nat /\ (name = <<>> <=> Len(name) = 0)
  BY InSeq
<1>6. IsSequence(root) /\ IsSequence(new) /\ Len(new) = Len(path) + 1 + Len(name)
      /\ Len(root) = Len(path) + Len(name)
  BY <1>1, <1>2, <1>3, <1>4 DEF Joins
<1>7. (new = <<>> <=> Len(new) = 0) /\ (root = <<>> <=> Len(root) = 0)
  BY <1>6, InSeq
<1>8. new # <<>> /\ (name # <<>> => root # <<>>)
  BY <1>5, <1>6, <1>7
<1> QED
  <2>1. RootPath(path, name) = root /\ Below(path, name) = new
    BY Zenon DEF RootPath, Below, root, new, stem, dot
  <2> QED
    BY <1>6, <1>8, <2>1

\* One element more has a path of its own, whatever its name.
LEMMA ElementOpens ==
    ASSUME NEW prefix, IsSequence(prefix), NEW elements, Names(elements),
           NEW name, IsSequence(name), NEW f, OnlyPosition(f, prefix, elements),
           NEW more, IsSequence(more), Len(more) = Len(elements) + 1,
           \A k \in 1..Len(elements) : more[k] = elements[k], more[Len(elements) + 1] = name
    PROVE  \E h : /\ OnlyPosition(h, prefix, more)
                  /\ h[Len(elements) + 1] = IF elements = <<>> THEN RootPath(prefix, name)
                                            ELSE Below(f[Len(elements)], name)
<1> DEFINE n == Len(elements)
           last == IF n = 0 THEN RootPath(prefix, name) ELSE Below(f[n], name)
           h == [k \in 1..n + 1 |-> IF k <= n THEN f[k] ELSE last]
<1>1. /\ n \in Nat /\ DOMAIN elements = 1..n /\ DOMAIN more = 1..n + 1
      /\ elements = <<>> <=> n = 0
  BY InSeq DEF Names
<1> HIDE DEF n
<1>2. /\ f = [k \in 1..n |-> IF k = 1 THEN RootPath(prefix, elements[1])
                             ELSE Below(f[k - 1], elements[k])]
      /\ \A k \in 1..n : IsSequence(f[k])
  BY <1>1 DEF OnlyPosition, IsPosition
<1>3. IsSequence(last)
  <2>1. CASE n = 0
    BY <2>1, PathsOfElements
  <2>2. CASE n # 0
    <3>1. n \in 1..n
      BY <1>1, <2>2
    <3> QED
      BY <1>2, <2>2, <3>1, PathsOfElements
  <2> QED
    BY <2>1, <2>2
<1>4. /\ \A k \in 1..n : more[k] = elements[k]
      /\ more[n + 1] = name
  BY DEF n
<1>5. ASSUME NEW g, g = [k \in 1..n + 1 |-> IF k = 1 THEN RootPath(prefix, more[1])
                                            ELSE Below(g[k - 1], more[k])]
      PROVE  g = h
  <2> DEFINE first == [k \in 1..n |-> g[k]]
  <2>1. first = [k \in 1..n |-> IF k = 1 THEN RootPath(prefix, elements[1])
                                ELSE Below(first[k - 1], elements[k])]
    <3>1. \A k \in 1..n : first[k] = IF k = 1 THEN RootPath(prefix, elements[1])
                                     ELSE Below(first[k - 1], elements[k])
      <4> SUFFICES ASSUME NEW k \in 1..n
                   PROVE  g[k] = IF k = 1 THEN RootPath(prefix, elements[1])
                                 ELSE Below(first[k - 1], elements[k])
        OBVIOUS
      <4>1. k \in 1..n + 1 /\ (k # 1 => k - 1 \in 1..n)
        BY <1>1
      <4>2. more[k] = elements[k] /\ (k = 1 => more[1] = elements[1])
        BY <1>4
      <4>3. k # 1 => first[k - 1] = g[k - 1]
        BY <4>1
      <4> HIDE DEF first
      <4> QED
        BY <1>5, <4>1, <4>2, <4>3
    <3> QED
      BY <3>1
  <2>2. first = f
    <3> HIDE DEF first
    <3> QED
      BY <1>1, <2>1 DEF OnlyPosition, IsPosition
  <2>3. \A k \in 1..n : g[k] = f[k]
    BY <2>2
  <2>4. g[n + 1] = last
    <3>1. n + 1 \in 1..n + 1 /\ n + 1 - 1 = n /\ (n # 0 => n \in 1..n) /\ (n + 1 = 1 <=> n = 0)
      BY <1>1
    <3>2. g[n + 1] = IF n + 1 = 1 THEN RootPath(prefix, more[1]) ELSE Below(g[n], more[n + 1])
      BY <1>5, <3>1
    <3>3. n = 0 => more[1] = name
      BY <1>1, <1>4, <3>1
    <3> QED
      BY <1>4, <2>3, <3>1, <3>2, <3>3
  <2>5. g = [k \in 1..n + 1 |-> g[k]]
    BY <1>5
  <2>6. \A k \in 1..n + 1 : g[k] = IF k <= n THEN f[k] ELSE last
    <3>1. \A k \in 1..n + 1 : (k <= n => k \in 1..n) /\ (~(k <= n) => k = n + 1)
      BY <1>1
    <3> QED
      BY <2>3, <2>4, <3>1
  <2> QED
    BY <2>5, <2>6
<1>6. h = [k \in 1..n + 1 |-> IF k = 1 THEN RootPath(prefix, more[1]) ELSE Below(h[k - 1], more[k])]
  <2> SUFFICES ASSUME NEW k \in 1..n + 1
               PROVE  h[k] = IF k = 1 THEN RootPath(prefix, more[1]) ELSE Below(h[k - 1], more[k])
    OBVIOUS
  <2>1. CASE k <= n
    <3>1. k \in 1..n /\ (k # 1 => k - 1 \in 1..n + 1 /\ k - 1 <= n)
      BY <1>1, <2>1
    <3>2. h[k] = f[k] /\ (k # 1 => h[k - 1] = f[k - 1])
      BY <2>1, <3>1
    <3>3. more[k] = elements[k] /\ (k = 1 => more[1] = elements[1])
      BY <1>4, <3>1
    <3> HIDE DEF h
    <3> QED
      BY <1>2, <3>1, <3>2, <3>3
  <2>2. CASE ~(k <= n)
    <3>1. k = n + 1 /\ (k = 1 <=> n = 0) /\ (k # 1 => k - 1 = n /\ n \in 1..n + 1)
      BY <1>1, <2>2
    <3>2. h[k] = last
      BY <2>2
    <3>3. k # 1 => h[k - 1] = f[n]
      BY <1>1, <3>1
    <3>4. k = 1 => more[1] = name
      BY <1>4, <3>1
    <3> HIDE DEF h
    <3> QED
      BY <1>4, <3>1, <3>2, <3>3, <3>4
  <2> QED
    BY <2>1, <2>2
<1>7. \A k \in 1..n + 1 : IsSequence(h[k])
  <2>1. \A k \in 1..n + 1 : k <= n => k \in 1..n
    BY <1>1
  <2> QED
    BY <1>2, <1>3, <2>1
<1>8. h[n + 1] = last
  BY <1>1
<1> HIDE DEF h
<1>9. OnlyPosition(h, prefix, more)
  BY <1>1, <1>5, <1>6, <1>7 DEF OnlyPosition, IsPosition
<1>10. last = IF elements = <<>> THEN RootPath(prefix, name) ELSE Below(f[n], name)
  BY <1>1
<1> QED
  BY <1>8, <1>9, <1>10 DEF n

\* One element less: the paths of the others are the same.
LEMMA ElementCloses ==
    ASSUME NEW prefix, NEW elements, Names(elements), elements # <<>>,
           NEW f, OnlyPosition(f, prefix, elements),
           NEW rest, IsSequence(rest), Len(rest) = Len(elements) - 1,
           \A k \in 1..Len(rest) : rest[k] = elements[k]
    PROVE  \E h : /\ OnlyPosition(h, prefix, rest)
                  /\ rest # <<>> =>
                        /\ IsSequence(h[Len(rest)])
                        /\ f[Len(elements)] = Below(h[Len(rest)], elements[Len(elements)])
<1> DEFINE n == Len(elements)
           h == [k \in 1..n - 1 |-> f[k]]
<1>1. /\ n \in Nat /\ n > 0 /\ DOMAIN elements = 1..n /\ DOMAIN rest = 1..n - 1
      /\ rest = <<>> <=> n - 1 = 0
  BY InSeq DEF Names
<1>2. Len(rest) = n - 1 /\ \A k \in 1..n - 1 : rest[k] = elements[k]
  OBVIOUS
<1> HIDE DEF n
<1>3. /\ f = [k \in 1..n |-> IF k = 1 THEN RootPath(prefix, elements[1])
                             ELSE Below(f[k - 1], elements[k])]
      /\ \A k \in 1..n : IsSequence(f[k])
      /\ \A g : IsPosition(g, prefix, elements) => g = f
  BY <1>1 DEF OnlyPosition, IsPosition
<1>4. ASSUME NEW k \in 1..n - 1
      PROVE  k \in 1..n /\ (k # 1 => k - 1 \in 1..n - 1) /\ (k = 1 => 1 \in 1..n - 1)
  BY <1>1
<1>5. h = [k \in 1..n - 1 |-> IF k = 1 THEN RootPath(prefix, rest[1]) ELSE Below(h[k - 1], rest[k])]
  <2> SUFFICES ASSUME NEW k \in 1..n - 1
               PROVE  f[k] = IF k = 1 THEN RootPath(prefix, rest[1]) ELSE Below(h[k - 1], rest[k])
    OBVIOUS
  <2>1. k # 1 => h[k - 1] = f[k - 1]
    BY <1>4
  <2>2. rest[k] = elements[k] /\ (k = 1 => rest[1] = elements[1])
    BY <1>2
  <2> HIDE DEF h
  <2> QED
    BY <1>3, <1>4, <2>1, <2>2
<1>6. ASSUME NEW g, g = [k \in 1..n - 1 |-> IF k = 1 THEN RootPath(prefix, rest[1])
                                            ELSE Below(g[k - 1], rest[k])]
      PROVE  g = h
  <2> DEFINE last == IF n = 1 THEN RootPath(prefix, elements[1]) ELSE Below(g[n - 1], elements[n])
             all == [k \in 1..n |-> IF k < n THEN g[k] ELSE last]
  <2>1. all = [k \in 1..n |-> IF k = 1 THEN RootPath(prefix, elements[1])
                              ELSE Below(all[k - 1], elements[k])]
    <3> SUFFICES ASSUME NEW k \in 1..n
                 PROVE  all[k] = IF k = 1 THEN RootPath(prefix, elements[1])
                                 ELSE Below(all[k - 1], elements[k])
      OBVIOUS
    <3>1. k # 1 => k - 1 \in 1..n /\ k - 1 < n
      BY <1>1
    <3>2. k # 1 => all[k - 1] = g[k - 1]
      BY <3>1
    <3>3. CASE k < n
      <4>1. k \in 1..n - 1 /\ all[k] = g[k]
        BY <1>1, <3>3
      <4>2. rest[k] = elements[k] /\ (k = 1 => rest[1] = elements[1])
        BY <1>2, <4>1
      <4> HIDE DEF all
      <4> QED
        BY <1>6, <3>2, <4>1, <4>2
    <3>4. CASE ~(k < n)
      <4>1. k = n /\ all[k] = last
        BY <1>1, <3>4
      <4> HIDE DEF all
      <4> QED
        BY <3>2, <4>1
    <3> QED
      BY <3>3, <3>4
  <2>2. all = f
    <3> HIDE DEF all
    <3> QED
      BY <1>1, <1>3, <2>1 DEF IsPosition
  <2>3. \A k \in 1..n - 1 : g[k] = f[k]
    <3>1. \A k \in 1..n - 1 : k \in 1..n /\ k < n
      BY <1>1
    <3>2. \A k \in 1..n - 1 : all[k] = g[k]
      BY <3>1
    <3> QED
      BY <2>2, <3>2
  <2>4. g = [k \in 1..n - 1 |-> g[k]]
    BY <1>6
  <2> QED
    BY <2>3, <2>4
<1>7. \A k \in 1..n - 1 : IsSequence(h[k])
  BY <1>3, <1>4
<1>8. n - 1 # 0 => h[n - 1] = f[n - 1] /\ f[n] = Below(f[n - 1], elements[n])
  <2>1. n - 1 # 0 => n - 1 \in 1..n - 1 /\ n \in 1..n /\ n # 1
    BY <1>1
  <2>2. n - 1 # 0 => h[n - 1] = f[n - 1]
    BY <2>1
  <2> HIDE DEF h
  <2> QED
    BY <1>3, <2>1, <2>2
<1> HIDE DEF h
<1>9. OnlyPosition(h, prefix, rest)
  BY <1>1, <1>5, <1>6, <1>7 DEF OnlyPosition, IsPosition
<1>10. n - 1 # 0 => IsSequence(h[n - 1])
  <2>1. n - 1 # 0 => n - 1 \in 1..n - 1
    BY <1>1
  <2> QED
    BY <1>7, <2>1
<1> QED
  BY <1>1, <1>2, <1>8, <1>9, <1>10 DEF n

\* How many events of a kind there are, one event further on.
LEMMA ReportedNext ==
    ASSUME NEW events, NEW k \in Nat, NEW event
    PROVE  /\ Reported(events, k, event) \in Nat
           /\ Reported(events, 0, event) = 0
           /\ Reported(events, k + 1, event) =
                 Reported(events, k, event) + IF events[k + 1].event = event THEN 1 ELSE 0
<1> DEFINE hits(n) == {i \in 1..n : events[i].event = event}
<1>1. \A n \in Nat : IsFiniteSet(hits(n))
  <2> SUFFICES ASSUME NEW n \in Nat
               PROVE  IsFiniteSet(hits(n))
    OBVIOUS
  <2>1. IsFiniteSet(1..n) /\ hits(n) \subseteq 1..n
    BY FS_Interval
  <2> QED
    BY <2>1, FS_Subset
<1>2. Cardinality(hits(k)) \in Nat
  BY <1>1, FS_CardinalityType
<1>3. hits(0) = {}
  OBVIOUS
<1>4. Cardinality(hits(0)) = 0
  BY <1>3, FS_EmptySet
<1>5. CASE events[k + 1].event = event
  <2>1. hits(k + 1) = hits(k) \cup {k + 1} /\ k + 1 \notin hits(k)
    BY <1>5
  <2>2. Cardinality(hits(k) \cup {k + 1}) = Cardinality(hits(k)) + 1
    BY <1>1, <2>1, FS_AddElement
  <2> QED
    BY <1>2, <1>4, <1>5, <2>1, <2>2 DEF Reported
<1>6. CASE events[k + 1].event # event
  <2>1. hits(k + 1) = hits(k)
    BY <1>6
  <2> HIDE DEF hits
  <2>2. Cardinality(hits(k + 1)) = Cardinality(hits(k)) + 0
    BY <1>2, <2>1
  <2> QED
    BY <1>2, <1>4, <1>6, <2>2 DEF Reported, hits
<1> QED
  BY <1>5, <1>6

\* The parser has reported the first k events, and the elements that are open
\* are those opened by them and not closed.
ReadTo(x, events, k) ==
    /\ Nested(events) /\ k \in 0..Len(events)
    /\ x.left = SubSeq(events, k + 1, Len(events))
    /\ Len(x.elements) = OpenAfter(events, k)
    /\ Reported(events, k, "start") = 0 => x.path = <<>>

\* The path is that of the open elements, where no name has a dot.
PathOfOpen(x) ==
    /\ ~x.keeproot => x.path = <<>>
    /\ x.keeproot /\ ~x.dotted =>
          /\ \A k \in DOMAIN x.elements : NoDot(x.elements[k])
          /\ \E f : /\ OnlyPosition(f, x.prefix, x.elements)
                    /\ x.elements # <<>> => x.path = f[Len(x.elements)]

XmlRecord(x) ==
    /\ x = [left |-> x.left, path |-> x.path, element |-> x.element, prefix |-> x.prefix,
            keeproot |-> x.keeproot, collapse |-> x.collapse, elements |-> x.elements,
            dotted |-> x.dotted]
    /\ IsSequence(x.prefix) /\ Names(x.elements)

XmlOK(x) == XmlRecord(x) /\ (\E events, k : ReadTo(x, events, k)) /\ PathOfOpen(x)

XmlInv == xml # NoXml => XmlOK(xml)

\* Nothing but the events of its file changes what the parser has read.
LEMMA ParserAlone ==
    ASSUME [Next]_vars, ~XmlEvent
    PROVE  xml' \in {xml, NoXml} \/ \E t \in Tasks : XmlBegins(t)
<1>1. ASSUME NEW t \in Tasks, RunTask(t) \/ ProjectElement(t)
      PROVE  xml' \in {xml, NoXml} \/ \E u \in Tasks : XmlBegins(u)
  <2>1. Outcome
    BY <1>1, InvokeOutcome, PropertyOutcome, TopLevelPropertyOutcome DEF RunTask, ProjectElement
  <2>2. CASE Waits
    BY <2>2 DEF Waits, idle
  <2>3. CASE Returning
    BY <2>3 DEF Returning, Returns
  <2>4. CASE Entering
    BY <2>4 DEF Entering, Enters
  <2>5. CASE Setting
    BY <2>5 DEF Setting, Sets
  <2>6. CASE Parsing
    BY <2>6 DEF Parsing
  <2> QED
    BY <2>1, <2>2, <2>3, <2>4, <2>5, <2>6 DEF Outcome
<1>2. CASE StartTargets \/ Fails \/ StartProject \/ Enter \/ UNCHANGED vars
  <2>1. xml' = xml
    BY <1>2 DEF StartTargets, Fails, StartProject, Enter, vars, idle
  <2> QED
    BY <2>1
<1>3. ASSUME NEW w, Define(w)
      PROVE  xml' = xml
  BY <1>3 DEF Define, idle
<1> QED
  BY <1>1, <1>2, <1>3 DEF Next

LEMMA ParserBegins ==
    ASSUME NEW t \in Tasks, XmlBegins(t)
    PROVE  XmlOK(xml')
<1> DEFINE x == xml'
<1>1. PICK p \in DOMAIN Disk :
         xml' = [left |-> Disk[p].events, path |-> <<>>, element |-> <<>>,
                 prefix |-> Prefix(t), keeproot |-> t.keeproot, collapse |-> t.collapse,
                 elements |-> <<>>, dotted |-> FALSE]
  BY DEF XmlBegins
<1> DEFINE events == Disk[p].events
<1>2. /\ x = [left |-> x.left, path |-> x.path, element |-> x.element, prefix |-> x.prefix,
              keeproot |-> x.keeproot, collapse |-> x.collapse, elements |-> x.elements,
              dotted |-> x.dotted]
      /\ x.left = events /\ x.path = <<>> /\ x.elements = <<>> /\ x.prefix = Prefix(t)
  BY <1>1
<1> HIDE DEF x
<1>3. IsSequence(<<>>) /\ Names(<<>>) /\ Len(<<>>) = 0 /\ DOMAIN <<>> = {}
  <2> DEFINE e == <<>>
  <2>1. e \in Seq({}) /\ Len(e) = 0 /\ DOMAIN e = {}
    OBVIOUS
  <2> HIDE DEF e
  <2>2. IsSequence(e) /\ Names(e)
    BY <2>1, SequenceOverItself DEF Names
  <2> QED
    BY <2>1, <2>2 DEF e
<1>4. IsSequence(Prefix(t))
  BY <1>3, TasksAssumption DEF Prefix
<1>5. ReadTo(x, events, 0)
  <2>1. Nested(events)
    BY XmlAssumption
  <2>2. PICK S : events \in Seq(S)
    BY <2>1, InSeq DEF Nested
  <2>3. SubSeq(events, 0 + 1, Len(events)) = events
    BY <2>2, SubSeqFull
  <2>4. OpenAfter(events, 0) = 0
    <3>1. Reported(events, 0, "start") = 0 /\ Reported(events, 0, "end") = 0
      BY ReportedNext
    <3> QED
      BY <3>1 DEF OpenAfter
  <2>5. Len(events) \in Nat
    BY <2>2, LenProperties
  <2> HIDE DEF events
  <2> QED
    BY <1>2, <1>3, <2>1, <2>3, <2>4, <2>5 DEF ReadTo
<1>6. PathOfOpen(x)
  <2> DEFINE f == [k \in {} |-> <<>>]
  <2>1. OnlyPosition(f, x.prefix, <<>>)
    BY <1>3 DEF OnlyPosition, IsPosition
  <2> QED
    BY <1>2, <1>3, <2>1 DEF PathOfOpen
<1> QED
  BY <1>2, <1>3, <1>4, <1>5, <1>6 DEF XmlOK, XmlRecord, x

LEMMA NextEvent ==
    ASSUME NEW x, NEW events, NEW k, ReadTo(x, events, k), x.left # <<>>
    PROVE  /\ k \in Nat /\ k + 1 \in 1..Len(events) /\ k + 1 \in 0..Len(events)
           /\ Head(x.left) = events[k + 1]
           /\ Tail(x.left) = SubSeq(events, (k + 1) + 1, Len(events))
<1>1. PICK S : events \in Seq(S)
  BY InSeq DEF ReadTo, Nested
<1> DEFINE n == Len(events)
<1>2. n \in Nat /\ k \in 0..n /\ x.left = SubSeq(events, k + 1, n)
  BY <1>1, LenProperties DEF ReadTo
<1>3. k < n
  <2> SUFFICES ASSUME ~(k < n) PROVE FALSE
    OBVIOUS
  <2>1. n < k + 1
    BY <1>2
  <2>2. SubSeq(events, k + 1, n) = <<>>
    BY <1>2, <2>1, SubSeqEmpty
  <2> QED
    BY <1>2, <2>2
<1>4. \A i \in k + 1..n : events[i] \in S
  BY <1>1, <1>2, ElementOfSeq
<1>5. /\ Head(SubSeq(events, k + 1, n)) = events[k + 1]
      /\ Tail(SubSeq(events, k + 1, n)) = SubSeq(events, k + 1 + 1, n)
  <2>1. k + 1 \in 1..Len(events) /\ n \in k + 1..Len(events)
    BY <1>2, <1>3
  <2> HIDE DEF n
  <2> QED
    BY <1>1, <2>1, HeadTailOfSubSeq
<1>6. k \in Nat /\ k + 1 \in 1..n /\ k + 1 \in 0..n
  <2> HIDE DEF n
  <2> QED
    BY <1>2, <1>3
<1>7. /\ Head(x.left) = events[k + 1]
      /\ Tail(x.left) = SubSeq(events, (k + 1) + 1, n)
  <2>1. x.left = SubSeq(events, k + 1, n)
    BY <1>2
  <2> HIDE DEF n
  <2> QED
    BY <1>5, <2>1, Zenon
<1> QED
  BY <1>6, <1>7, Zenon

NestedAt(events, i, k) ==
    /\ events[i].event = "start" =>
          /\ IsSequence(events[i].name) /\ events[i].name # <<>>
          /\ Reported(events, k, "start") = 0 \/ OpenAfter(events, k) > 0
    /\ events[i].event = "end" => OpenAfter(events, k) > 0

LEMMA EventNested ==
    ASSUME NEW events, Nested(events), NEW i \in 1..Len(events), NEW k, i - 1 = k
    PROVE  NestedAt(events, i, k)
  BY DEF Nested, NestedAt

ReadFurther(x, a, left) ==
    /\ x = [left |-> x.left, path |-> x.path, element |-> x.element, prefix |-> x.prefix,
            keeproot |-> x.keeproot, collapse |-> x.collapse, elements |-> x.elements,
            dotted |-> x.dotted]
    /\ x.left = left /\ x.path = a.path /\ x.element = a.element
    /\ x.prefix = a.prefix /\ x.keeproot = a.keeproot /\ x.collapse = a.collapse
    /\ x.elements = a.elements /\ x.dotted = a.dotted

LEMMA EventTaken ==
    ASSUME NEW a, XmlRecord(a), NEW left, NEW x, x = [a EXCEPT !.left = left]
    PROVE  ReadFurther(x, a, left)
  BY DEF XmlRecord, ReadFurther

\* An attribute or a text leaves the path as it is.
LEMMA OtherEvent ==
    ASSUME XmlOK(xml), xml.left # <<>>, Head(xml.left).event \notin {"start", "end"},
           NEW y, y = [xml EXCEPT !.left = Tail(xml.left)]
    PROVE  XmlOK(y)
<1>1. PICK events, k : ReadTo(xml, events, k)
  BY DEF XmlOK
<1>2. /\ k \in Nat /\ k + 1 \in 0..Len(events) /\ events[k + 1].event \notin {"start", "end"}
      /\ Tail(xml.left) = SubSeq(events, (k + 1) + 1, Len(events))
  BY <1>1, NextEvent
<1>3. XmlRecord(xml)
  BY DEF XmlOK
<1>4. /\ y.left = Tail(xml.left) /\ y.path = xml.path /\ y.element = xml.element
      /\ y.prefix = xml.prefix /\ y.keeproot = xml.keeproot /\ y.collapse = xml.collapse
      /\ y.elements = xml.elements /\ y.dotted = xml.dotted
      /\ y = [left |-> y.left, path |-> y.path, element |-> y.element, prefix |-> y.prefix,
              keeproot |-> y.keeproot, collapse |-> y.collapse, elements |-> y.elements,
              dotted |-> y.dotted]
  <2>1. ReadFurther(y, xml, Tail(xml.left))
    BY <1>3, EventTaken, Zenon
  <2> QED
    BY <2>1 DEF ReadFurther
<1>5. \A e \in {"start", "end"} : /\ Reported(events, k + 1, e) = Reported(events, k, e)
                                  /\ Reported(events, k, e) \in Nat
  <2> SUFFICES ASSUME NEW e \in {"start", "end"}
               PROVE  /\ Reported(events, k + 1, e) = Reported(events, k, e)
                      /\ Reported(events, k, e) \in Nat
    OBVIOUS
  <2>1. events[k + 1].event # e
    BY <1>2
  <2> QED
    BY <1>2, <2>1, ReportedNext
<1>6. ReadTo(y, events, k + 1)
  BY <1>1, <1>2, <1>4, <1>5 DEF ReadTo, OpenAfter
<1>7. PathOfOpen(y)
  BY <1>4 DEF XmlOK, PathOfOpen
<1> QED
  BY <1>3, <1>4, <1>6, <1>7 DEF XmlOK, XmlRecord

\* The path of an open element is not empty.
LEMMA OpenHasPath ==
    ASSUME NEW prefix, IsSequence(prefix), NEW elements, Names(elements), elements # <<>>,
           NEW f, OnlyPosition(f, prefix, elements)
    PROVE  f[Len(elements)] # <<>> /\ IsSequence(f[Len(elements)])
<1> DEFINE n == Len(elements)
<1>1. n \in Nat /\ n > 0 /\ DOMAIN elements = 1..n
  BY InSeq DEF Names
<1>2. n \in 1..n /\ 1 \in 1..n /\ (n # 1 => n - 1 \in 1..n)
  BY <1>1
<1>3. /\ f[n] = IF n = 1 THEN RootPath(prefix, elements[1]) ELSE Below(f[n - 1], elements[n])
      /\ \A k \in 1..n : IsSequence(f[k]) /\ IsSequence(elements[k]) /\ elements[k] # <<>>
  BY <1>1, <1>2 DEF OnlyPosition, IsPosition, Names
<1> HIDE DEF n
<1>4. f[n] # <<>>
  <2>1. CASE n = 1
    BY <1>2, <1>3, <2>1, PathsOfElements
  <2>2. CASE n # 1
    BY <1>2, <1>3, <2>2, PathsOfElements
  <2> QED
    BY <2>1, <2>2
<1> QED
  BY <1>2, <1>3, <1>4 DEF n

LEMMA StartEvent ==
    ASSUME XmlOK(xml), xml.left # <<>>, Head(xml.left).event = "start",
           NEW y, y = xmlprop_start([xml EXCEPT !.left = Tail(xml.left)], Head(xml.left).name)
    PROVE  XmlOK(y)
<1> DEFINE name == Head(xml.left).name
           n == Len(xml.elements)
<1>1. PICK events, k : ReadTo(xml, events, k)
  BY DEF XmlOK
<1>2. /\ k \in Nat /\ k + 1 \in 0..Len(events) /\ k + 1 \in 1..Len(events)
      /\ Head(xml.left) = events[k + 1]
      /\ Tail(xml.left) = SubSeq(events, (k + 1) + 1, Len(events))
  BY <1>1, NextEvent
<1>3. events[k + 1].event = "start" /\ name = events[k + 1].name
  BY <1>2
<1>4. XmlRecord(xml) /\ PathOfOpen(xml)
  BY DEF XmlOK
<1> HIDE DEF name
<1>5. /\ y.left = Tail(xml.left) /\ y.element = name
      /\ y.path = IF xml.path = <<>> THEN IF xml.keeproot THEN RootPath(xml.prefix, name) ELSE <<>>
                  ELSE Below(xml.path, name)
      /\ y.prefix = xml.prefix /\ y.keeproot = xml.keeproot /\ y.collapse = xml.collapse
      /\ y.elements = Append(xml.elements, name)
      /\ y.dotted = (xml.dotted \/ "." \in {name[i] : i \in DOMAIN name})
      /\ y = [left |-> y.left, path |-> y.path, element |-> y.element, prefix |-> y.prefix,
              keeproot |-> y.keeproot, collapse |-> y.collapse, elements |-> y.elements,
              dotted |-> y.dotted]
  <2> DEFINE x == [xml EXCEPT !.left = Tail(xml.left)]
  <2>1. /\ x = [left |-> x.left, path |-> x.path, element |-> x.element, prefix |-> x.prefix,
                keeproot |-> x.keeproot, collapse |-> x.collapse, elements |-> x.elements,
                dotted |-> x.dotted]
        /\ x.left = Tail(xml.left) /\ x.path = xml.path /\ x.prefix = xml.prefix
        /\ x.keeproot = xml.keeproot /\ x.collapse = xml.collapse
        /\ x.elements = xml.elements /\ x.dotted = xml.dotted
    <3>1. x = [xml EXCEPT !.left = Tail(xml.left)]
      OBVIOUS
    <3> HIDE DEF x
    <3>2. ReadFurther(x, xml, Tail(xml.left))
      BY <1>4, <3>1, EventTaken, Zenon
    <3> QED
      BY <3>2 DEF ReadFurther
  <2>2. y = xmlprop_start(x, name)
    BY DEF name
  <2> HIDE DEF x
  <2> DEFINE path == IF xml.path = <<>> THEN IF xml.keeproot THEN RootPath(xml.prefix, name) ELSE <<>>
                     ELSE Below(xml.path, name)
             dotted == xml.dotted \/ "." \in {name[i] : i \in DOMAIN name}
             elements == Append(xml.elements, name)
  <2>3. y = [x EXCEPT !.path = path, !.element = name, !.elements = elements, !.dotted = dotted]
    BY <2>1, <2>2 DEF xmlprop_start, RootPath, Below
  <2> HIDE DEF path, dotted, elements
  <2>4. /\ y.left = x.left /\ y.element = name /\ y.path = path /\ y.prefix = x.prefix
        /\ y.keeproot = x.keeproot /\ y.collapse = x.collapse /\ y.elements = elements
        /\ y.dotted = dotted
        /\ y = [left |-> y.left, path |-> y.path, element |-> y.element, prefix |-> y.prefix,
                keeproot |-> y.keeproot, collapse |-> y.collapse, elements |-> y.elements,
                dotted |-> y.dotted]
    BY <2>1, <2>3
  <2> QED
    BY <2>1, <2>4 DEF path, dotted, elements
<1>6. /\ Reported(events, k + 1, "start") = Reported(events, k, "start") + 1
      /\ Reported(events, k + 1, "end") = Reported(events, k, "end")
      /\ Reported(events, k, "start") \in Nat /\ Reported(events, k, "end") \in Nat
  <2>1. Reported(events, k, "start") \in Nat /\ Reported(events, k, "end") \in Nat
    BY <1>2, ReportedNext
  <2>2. Reported(events, k + 1, "start") = Reported(events, k, "start") + 1
    BY <1>2, <1>3, ReportedNext
  <2>3. Reported(events, k + 1, "end") = Reported(events, k, "end") + 0
    BY <1>2, <1>3, ReportedNext
  <2> QED
    BY <2>1, <2>2, <2>3
<1>7. /\ IsSequence(name) /\ name # <<>>
      /\ Reported(events, k, "start") = 0 \/ OpenAfter(events, k) > 0
  <2>1. k + 1 - 1 = k
    BY <1>2
  <2>2. Nested(events)
    BY <1>1 DEF ReadTo
  <2>3. NestedAt(events, k + 1, k)
    BY <1>2, <2>1, <2>2, EventNested
  <2> QED
    BY <1>3, <2>3, Zenon DEF NestedAt
<1>8. /\ n \in Nat /\ n = OpenAfter(events, k) /\ IsSequence(xml.elements)
      /\ DOMAIN xml.elements = 1..n /\ (xml.elements = <<>> <=> n = 0)
      /\ IsSequence(xml.prefix) /\ Names(xml.elements)
  BY <1>1, <1>4, InSeq DEF ReadTo, XmlRecord, Names
<1>9. /\ IsSequence(y.elements) /\ Len(y.elements) = n + 1 /\ DOMAIN y.elements = 1..n + 1
      /\ \A i \in 1..n : y.elements[i] = xml.elements[i]
      /\ y.elements[n + 1] = name
  <2>1. PICK S : xml.elements \in Seq(S)
    BY <1>8, InSeq
  <2>2. xml.elements \in Seq(S \cup {name}) /\ name \in S \cup {name}
    BY <2>1, SeqMonotonic
  <2>3. /\ Append(xml.elements, name) \in Seq(S \cup {name})
        /\ Len(Append(xml.elements, name)) = n + 1
        /\ \A i \in 1..n : Append(xml.elements, name)[i] = xml.elements[i]
        /\ Append(xml.elements, name)[n + 1] = name
    BY <2>2, AppendProperties
  <2>4. IsSequence(y.elements)
    BY <1>5, <2>3, SequenceOverItself
  <2> QED
    BY <1>5, <2>3, <2>4, InSeq
<1> HIDE DEF n
<1>10. \A i \in 1..n + 1 : i \in 1..n \/ i = n + 1
  BY <1>8
<1>11. Names(y.elements)
  BY <1>7, <1>8, <1>9, <1>10 DEF Names
<1>12. ReadTo(y, events, k + 1)
  <2>1. Len(y.elements) = OpenAfter(events, k + 1)
    BY <1>6, <1>8, <1>9 DEF OpenAfter
  <2>2. Reported(events, k + 1, "start") # 0
    BY <1>6
  <2>3. Nested(events) /\ y.left = SubSeq(events, (k + 1) + 1, Len(events))
    BY <1>1, <1>2, <1>5 DEF ReadTo
  <2> QED
    BY <1>2, <2>1, <2>2, <2>3 DEF ReadTo
<1>13. ~y.keeproot => y.path = <<>>
  BY <1>4, <1>5 DEF PathOfOpen
<1>14. ASSUME y.keeproot, ~y.dotted
       PROVE  /\ \A i \in DOMAIN y.elements : NoDot(y.elements[i])
              /\ \E h : OnlyPosition(h, y.prefix, y.elements) /\ y.path = h[Len(y.elements)]
  <2>1. xml.keeproot /\ ~xml.dotted /\ NoDot(name)
    BY <1>5, <1>14 DEF NoDot
  <2>2. PICK f : /\ OnlyPosition(f, xml.prefix, xml.elements)
                 /\ xml.elements # <<>> => xml.path = f[n]
    BY <1>4, <2>1 DEF PathOfOpen, n
  <2>3. \A i \in 1..n : NoDot(xml.elements[i])
    BY <1>4, <1>8, <2>1 DEF PathOfOpen
  <2>4. \A i \in DOMAIN y.elements : NoDot(y.elements[i])
    BY <1>9, <1>10, <2>1, <2>3
  <2>5. PICK h : /\ OnlyPosition(h, xml.prefix, y.elements)
                 /\ h[n + 1] = IF xml.elements = <<>> THEN RootPath(xml.prefix, name)
                               ELSE Below(f[n], name)
    BY <1>7, <1>8, <1>9, <2>2, ElementOpens DEF n
  <2>6. CASE xml.elements = <<>>
    <3>1. xml.path = <<>>
      BY <1>1, <1>7, <1>8, <2>6 DEF ReadTo
    <3> QED
      BY <1>5, <1>9, <2>1, <2>4, <2>5, <2>6, <3>1
  <2>7. CASE xml.elements # <<>>
    <3>1. xml.path # <<>>
      BY <1>8, <2>2, <2>7, OpenHasPath DEF n
    <3> QED
      BY <1>5, <1>9, <2>1, <2>2, <2>4, <2>5, <2>7, <3>1
  <2> QED
    BY <2>6, <2>7
<1>15. PathOfOpen(y)
  BY <1>13, <1>14 DEF PathOfOpen
<1> QED
  BY <1>5, <1>8, <1>11, <1>12, <1>15 DEF XmlOK, XmlRecord

LEMMA EndEvent ==
    ASSUME XmlOK(xml), xml.left # <<>>, Head(xml.left).event = "end",
           NEW y, y = xmlprop_end([xml EXCEPT !.left = Tail(xml.left)])
    PROVE  XmlOK(y)
<1> DEFINE n == Len(xml.elements)
           path == IF Dots(xml.path) = {} THEN <<>>
                   ELSE SubSeq(xml.path, 1, LastDot(xml.path) - 1)
           rest == SubSeq(xml.elements, 1, n - 1)
<1>1. PICK events, k : ReadTo(xml, events, k)
  BY DEF XmlOK
<1>2. /\ k \in Nat /\ k + 1 \in 0..Len(events) /\ k + 1 \in 1..Len(events)
      /\ Head(xml.left) = events[k + 1]
      /\ Tail(xml.left) = SubSeq(events, (k + 1) + 1, Len(events))
  BY <1>1, NextEvent
<1>3. events[k + 1].event = "end"
  BY <1>2
<1>4. XmlRecord(xml) /\ PathOfOpen(xml)
  BY DEF XmlOK
<1>5. /\ y.left = Tail(xml.left) /\ y.path = path /\ y.element = xml.element
      /\ y.prefix = xml.prefix /\ y.keeproot = xml.keeproot /\ y.collapse = xml.collapse
      /\ y.elements = rest /\ y.dotted = xml.dotted
      /\ y = [left |-> y.left, path |-> y.path, element |-> y.element, prefix |-> y.prefix,
              keeproot |-> y.keeproot, collapse |-> y.collapse, elements |-> y.elements,
              dotted |-> y.dotted]
  <2> DEFINE x == [xml EXCEPT !.left = Tail(xml.left)]
  <2>1. /\ x = [left |-> x.left, path |-> x.path, element |-> x.element, prefix |-> x.prefix,
                keeproot |-> x.keeproot, collapse |-> x.collapse, elements |-> x.elements,
                dotted |-> x.dotted]
        /\ x.left = Tail(xml.left) /\ x.path = xml.path /\ x.prefix = xml.prefix
        /\ x.element = xml.element /\ x.keeproot = xml.keeproot /\ x.collapse = xml.collapse
        /\ x.elements = xml.elements /\ x.dotted = xml.dotted
    <3>1. x = [xml EXCEPT !.left = Tail(xml.left)]
      OBVIOUS
    <3> HIDE DEF x
    <3>2. ReadFurther(x, xml, Tail(xml.left))
      BY <1>4, <3>1, EventTaken, Zenon
    <3> QED
      BY <3>2 DEF ReadFurther
  <2>2. y = xmlprop_end(x)
    OBVIOUS
  <2> HIDE DEF x
  <2>3. y = [x EXCEPT !.path = path, !.elements = rest]
    BY <2>1, <2>2 DEF xmlprop_end, Dots, LastDot
  <2> HIDE DEF path, rest
  <2> QED
    BY <2>1, <2>3
<1>6. /\ Reported(events, k + 1, "end") = Reported(events, k, "end") + 1
      /\ Reported(events, k + 1, "start") = Reported(events, k, "start")
      /\ Reported(events, k, "start") \in Nat /\ Reported(events, k, "end") \in Nat
  <2>1. Reported(events, k, "start") \in Nat /\ Reported(events, k, "end") \in Nat
    BY <1>2, ReportedNext
  <2>2. Reported(events, k + 1, "end") = Reported(events, k, "end") + 1
    BY <1>2, <1>3, ReportedNext
  <2>3. Reported(events, k + 1, "start") = Reported(events, k, "start") + 0
    BY <1>2, <1>3, ReportedNext
  <2> QED
    BY <2>1, <2>2, <2>3
<1>7. OpenAfter(events, k) > 0
  <2>1. k + 1 - 1 = k
    BY <1>2
  <2>2. Nested(events)
    BY <1>1 DEF ReadTo
  <2>3. NestedAt(events, k + 1, k)
    BY <1>2, <2>1, <2>2, EventNested
  <2> QED
    BY <1>3, <2>3, Zenon DEF NestedAt
<1>8. /\ n \in Nat /\ n = OpenAfter(events, k) /\ IsSequence(xml.elements)
      /\ DOMAIN xml.elements = 1..n /\ (xml.elements = <<>> <=> n = 0)
      /\ IsSequence(xml.prefix) /\ Names(xml.elements)
  BY <1>1, <1>4, InSeq DEF ReadTo, XmlRecord, Names
<1>9. /\ IsSequence(rest) /\ Len(rest) = n - 1 /\ DOMAIN rest = 1..n - 1
      /\ \A i \in 1..n - 1 : rest[i] = xml.elements[i]
  <2>1. PICK S : xml.elements \in Seq(S)
    BY <1>8, InSeq
  <2>2. \A i \in 1..n - 1 : xml.elements[i] \in S
    BY <1>8, <2>1, ElementOfSeq
  <2>3. /\ rest \in Seq(S) /\ Len(rest) = IF 1 <= n - 1 THEN n - 1 - 1 + 1 ELSE 0
        /\ \A i \in 1..n - 1 - 1 + 1 : rest[i] = xml.elements[1 + i - 1]
    <3>1. 1 \in Int /\ n - 1 \in Int
      BY <1>8
    <3> HIDE DEF n
    <3> QED
      BY <2>2, <3>1, SubSeqProperties
  <2> HIDE DEF rest
  <2>4. IsSequence(rest)
    BY <2>3, SequenceOverItself
  <2>5. Len(rest) = n - 1
    BY <1>7, <1>8, <2>3
  <2>6. \A i \in 1..n - 1 : i \in 1..n - 1 - 1 + 1 /\ 1 + i - 1 = i
    BY <1>8
  <2> QED
    BY <2>3, <2>4, <2>5, <2>6, InSeq
<1> HIDE DEF n, rest
<1>10. \A i \in 1..n - 1 : i \in 1..n
  BY <1>8
<1>11. Names(rest)
  BY <1>8, <1>9, <1>10 DEF Names
<1>12. Reported(events, k, "start") # 0
  BY <1>6, <1>7 DEF OpenAfter
<1>13. ReadTo(y, events, k + 1)
  <2>1. Len(y.elements) = OpenAfter(events, k + 1)
    BY <1>5, <1>6, <1>8, <1>9 DEF OpenAfter
  <2>2. Reported(events, k + 1, "start") # 0
    BY <1>6, <1>12
  <2>3. Nested(events) /\ y.left = SubSeq(events, (k + 1) + 1, Len(events))
    BY <1>1, <1>2, <1>5 DEF ReadTo
  <2> QED
    BY <1>2, <2>1, <2>2, <2>3 DEF ReadTo
<1>14. ~y.keeproot => y.path = <<>>
  <2>1. xml.path = <<>> => path = <<>>
    OBVIOUS
  <2> HIDE DEF path
  <2> QED
    BY <1>4, <1>5, <2>1 DEF PathOfOpen
<1>15. ASSUME y.keeproot, ~y.dotted
       PROVE  /\ \A i \in DOMAIN y.elements : NoDot(y.elements[i])
              /\ \E h : /\ OnlyPosition(h, y.prefix, y.elements)
                        /\ y.elements # <<>> => y.path = h[Len(y.elements)]
  <2>1. xml.keeproot /\ ~xml.dotted
    BY <1>5, <1>15
  <2>2. PICK f : /\ OnlyPosition(f, xml.prefix, xml.elements)
                 /\ xml.elements # <<>> => xml.path = f[n]
    BY <1>4, <2>1 DEF PathOfOpen, n
  <2>3. \A i \in 1..n : NoDot(xml.elements[i])
    BY <1>4, <1>8, <2>1 DEF PathOfOpen
  <2>4. \A i \in DOMAIN y.elements : NoDot(y.elements[i])
    BY <1>5, <1>9, <1>10, <2>3
  <2>5. PICK h : /\ OnlyPosition(h, xml.prefix, rest)
                 /\ rest # <<>> => /\ IsSequence(h[Len(rest)])
                                   /\ f[n] = Below(h[Len(rest)], xml.elements[n])
    <3>1. xml.elements # <<>> /\ Len(rest) = Len(xml.elements) - 1
          /\ \A i \in 1..Len(rest) : rest[i] = xml.elements[i]
      BY <1>7, <1>8, <1>9 DEF n
    <3>2. Names(xml.elements) /\ IsSequence(rest) /\ OnlyPosition(f, xml.prefix, xml.elements)
      BY <1>8, <1>9, <2>2
    <3>3. n = Len(xml.elements)
      BY DEF n
    <3> QED
      BY <3>1, <3>2, <3>3, ElementCloses
  <2>6. ASSUME rest # <<>>
        PROVE  path = h[Len(rest)]
    <3>1. xml.path = Below(h[Len(rest)], xml.elements[n])
      BY <1>7, <1>8, <2>2, <2>5, <2>6
    <3>2. n \in 1..n
      BY <1>7, <1>8
    <3>3. IsSequence(xml.elements[n]) /\ NoDot(xml.elements[n]) /\ IsSequence(h[Len(rest)])
      BY <1>8, <2>3, <2>5, <2>6, <3>2 DEF Names
    <3>4. Dots(xml.path) # {} /\ SubSeq(xml.path, 1, LastDot(xml.path) - 1) = h[Len(rest)]
      BY <3>1, <3>3, CutAtLastDot
    <3> QED
      BY <3>4
  <2> HIDE DEF path
  <2> QED
    BY <1>5, <2>4, <2>5, <2>6
<1>16. PathOfOpen(y)
  BY <1>14, <1>15 DEF PathOfOpen
<1> QED
  BY <1>5, <1>8, <1>11, <1>13, <1>16 DEF XmlOK, XmlRecord

LEMMA XmlInvStep ==
    ASSUME XmlInv, [Next]_vars
    PROVE  XmlInv'
<1>1. CASE ~XmlEvent
  <2>1. CASE xml' = xml
    BY <2>1 DEF XmlInv, XmlOK, XmlRecord, ReadTo, PathOfOpen
  <2>2. CASE xml' = NoXml
    BY <2>2 DEF XmlInv
  <2>3. ASSUME NEW t \in Tasks, XmlBegins(t)
        PROVE  XmlInv'
    BY <2>3, ParserBegins DEF XmlInv, NoXml
  <2> QED
    BY <1>1, <2>1, <2>2, <2>3, ParserAlone
<1>2. CASE XmlEvent
  <2>1. XmlOK(xml)
    BY <1>2 DEF XmlEvent, XmlInv
  <2>2. \/ xml' = NoXml
        \/ /\ xml.left # <<>> /\ Head(xml.left).event = "start"
           /\ xml' = xmlprop_start([xml EXCEPT !.left = Tail(xml.left)], Head(xml.left).name)
        \/ /\ xml.left # <<>> /\ Head(xml.left).event = "end"
           /\ xml' = xmlprop_end([xml EXCEPT !.left = Tail(xml.left)])
        \/ /\ xml.left # <<>> /\ Head(xml.left).event \in {"attribute", "text"}
           /\ xml' = [xml EXCEPT !.left = Tail(xml.left)]
    BY <1>2, Zenon DEF XmlEvent
  <2>3. xml' = NoXml \/ XmlOK(xml')
    BY <2>1, <2>2, StartEvent, EndEvent, OtherEvent
  <2> QED
    BY <2>3 DEF XmlInv
<1> QED
  BY <1>1, <1>2

\* What the parser has read gives PathIsPosition its one solution.
LEMMA PathFromInv == XmlInv => PathIsPosition
<1> SUFFICES ASSUME XmlInv, xml # NoXml
             PROVE  /\ ~xml.keeproot => xml.path = <<>>
                    /\ xml.keeproot /\ ~xml.dotted /\ xml.elements # <<>> =>
                          xml.path = (CHOOSE f : IsPosition(f, xml.prefix, xml.elements))
                                        [Len(xml.elements)]
  BY DEF PathIsPosition, IsPosition, RootPath, Below
<1>1. PathOfOpen(xml)
  BY DEF XmlInv, XmlOK
<1>2. ASSUME NEW f, OnlyPosition(f, xml.prefix, xml.elements)
      PROVE  (CHOOSE g : IsPosition(g, xml.prefix, xml.elements)) = f
  BY <1>2 DEF OnlyPosition
<1> QED
  BY <1>1, <1>2 DEF PathOfOpen

\* Whatever the elements of a file and their names, the path xmlproperty keeps
\* by adding a name at an opening tag and cutting at the last dot at a closing
\* one is that of the elements now open, as long as no name has a dot in it.
THEOREM PathsFollowElements == Spec => []PathIsPosition
<1>1. Init => XmlInv
  BY DEF Init, XmlInv
<1>2. XmlInv /\ [Next]_vars => XmlInv'
  BY XmlInvStep
<1> QED
  BY <1>1, <1>2, PathFromInv, PTL DEF Spec
=============================================================================
