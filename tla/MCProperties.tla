---------------------------- MODULE MCProperties ----------------------------
(***************************************************************************)
(* A build with three property names of its own, a small disk and one task *)
(* of each form.                                                           *)
(***************************************************************************)
EXTENDS Properties, TLC

a == <<"a">>
b == <<"b">>
c == <<"c">>
T(w) == <<Text(w)>>
R(n) == <<Reference(n)>>

Entry(n, v, sep) == [key |-> n, value |-> v, sep |-> sep]
Ev(event, name, value) == [event |-> event, name |-> name, value |-> value]
PlainFile == [type |-> "file", entries |-> <<>>, text |-> T("x"), events |-> <<>>,
              size |-> 2, mtime |-> 5, members |-> [r \in {} |-> <<>>]]
Home == <<Slash, Text("home")>>
At(w) == Home \o <<Slash>> \o T(w)

\* root, in it a with a text and an attribute, and in that b; then c.
XmlEvents ==
    <<Ev("start", <<"root">>, <<>>), Ev("start", a, <<>>), Ev("attribute", b, R(c)),
      Ev("text", <<>>, T("y")), Ev("start", b, <<>>), Ev("end", b, <<>>), Ev("text", <<>>, T("z")),
      Ev("end", a, <<>>), Ev("start", c, <<>>), Ev("end", c, <<>>), Ev("end", <<"root">>, <<>>)>>
DottedEvents ==
    <<Ev("start", a, <<>>), Ev("start", <<"b", ".", "c">>, <<>>), Ev("end", <<"b", ".", "c">>, <<>>),
      Ev("text", <<>>, R(a)), Ev("malformed", <<>>, <<>>)>>

MCDisk ==
    [p \in {Home, At("one"), At("properties"), At("xml"), At("dotted"), At("jar"),
            At("cp"), At("cp") \o <<Slash>> \o T("res")} |->
        CASE p = Home \/ p = At("cp") -> [PlainFile EXCEPT !.type = "dir"]
          [] p = At("properties") ->
                [PlainFile EXCEPT !.entries = <<Entry(a, R(b), "="), Entry(b, R(a), "="),
                                                Entry(a, T("2"), ":")>>]
          [] p = At("xml") -> [PlainFile EXCEPT !.events = XmlEvents]
          [] p = At("dotted") -> [PlainFile EXCEPT !.events = DottedEvents]
          [] p = At("one") -> [PlainFile EXCEPT !.text = R(a), !.mtime = 6]
          [] OTHER -> PlainFile]
MCCwd == Home \o <<Slash>>
MCPaths == [id \in {"path", "empty"} |->
               IF id = "path" THEN <<R(a), T("cp")>> ELSE <<>>]
MCOutputs == {<<>>, R(a)}
MCInput == {<<>>, T("y"), R(b)}
MCEnvironment == <<[name |-> a, value |-> R(b)], [name |-> c, value |-> T("env")]>>
MCBuiltins == <<[name |-> <<"basedir">>, value |-> Home], [name |-> <<"user">>, value |-> T("me")]>>
MCDefines == {[name |-> a, value |-> R(b)], [name |-> <<"basedir">>, value |-> R(a)],
               [name |-> <<"user">>, value |-> <<>>]}
MCBaseDir == Home
MCRawBaseDir == <<Reference(c)>>
MCJavaVersion == <<11, 0, 2>>

P(n, v) == [kind |-> "property", name |-> n, value |-> v]

PropertyTasks ==
    {P(a, R(b)), P(b, R(a)), P(a, R(a)), P(c, R(a) \o T("x") \o R(b)),
     [kind |-> "property", name |-> a, location |-> <<Text("l"), Backslash, Reference(c)>>],
     [kind |-> "property", name |-> c, refid |-> "path"],
     [kind |-> "property", name |-> c, refid |-> "empty"],
     [kind |-> "property", file |-> T("properties")],
     [kind |-> "property", file |-> R(a), prefix |-> c],
     [kind |-> "property", url |-> T("properties"), prefix |-> <<"c", ".">>],
     [kind |-> "property", resource |-> T("res"), classpath |-> <<Text("jar"), Colon>> \o R(a) \o <<Colon, Text("cp")>>],
     [kind |-> "property", resource |-> T("res"), classpathref |-> "path"],
     [kind |-> "property", resource |-> T("res")],
     [kind |-> "property", environment |-> <<"e">>],
     [kind |-> "property", environment |-> <<>>],
     [kind |-> "property"]}

ConditionTask(tests, nodes) ==
    [kind |-> "condition", property |-> a, tests |-> tests, nodes |-> nodes]
NoTests == [x \in {} |-> 0]
Nodes(type) ==
    <<[type |-> type, children |-> <<2, 3>>], [type |-> "isset", property |-> b],
      [type |-> "istrue", value |-> R(b)]>>

SettingTasks ==
    {[kind |-> "available", property |-> b, file |-> R(a), value |-> R(c)],
     [kind |-> "available", property |-> b, file |-> T("res"), type |-> "file",
      filepath |-> T("x") \o <<Colon>> \o T("cp")],
     [kind |-> "available", property |-> b, resource |-> T("res"), classpathref |-> "path"],
     [kind |-> "available", property |-> b, file |-> T("one"), classname |-> R(b), classpath |-> R(c)],
     [kind |-> "available", property |-> b, file |-> T("gone"), classname |-> R(a), classpathref |-> "path",
      resource |-> T("res"), value |-> R(c)],
     [kind |-> "basename", property |-> a, file |-> T("x") \o <<Slash>> \o R(b)],
     [kind |-> "dirname", property |-> b, file |-> R(a) \o <<Slash, Text("y")>>],
     [kind |-> "loadfile", property |-> c, srcFile |-> T("one"), failonerror |-> TRUE],
     [kind |-> "loadfile", property |-> c, srcFile |-> R(a), failonerror |-> FALSE],
     [kind |-> "tempfile", property |-> a, createfile |-> TRUE, destdir |-> R(b)],
     [kind |-> "tempfile", property |-> a, createfile |-> TRUE, destdir |-> T("cp")],
     [kind |-> "length", property |-> a, file |-> R(b)],
     [kind |-> "length", property |-> a, string |-> R(b)],
     [kind |-> "length", property |-> a],
     [kind |-> "uptodate", property |-> a, srcfile |-> T("xml"), targetfile |-> T("one"), value |-> R(b)],
     [kind |-> "uptodate", property |-> a, srcfile |-> T("one"), targetfile |-> R(b)],
     [kind |-> "uptodate", property |-> a, targetfile |-> R(b), value |-> R(a)],
     [kind |-> "uptodate", targetfile |-> R(b)],
     ConditionTask([isset |-> [type |-> "isset", property |-> b]], Nodes("and")),
     ConditionTask([equals |-> [type |-> "equals", arg1 |-> R(a), arg2 |-> R(b)],
                    available_file |-> [type |-> "available_file", file |-> R(c)]], Nodes("or")),
     ConditionTask(NoTests, Nodes("and")),
     ConditionTask(NoTests, Nodes("not")) @@ ("else" :> R(c)),
     ConditionTask(NoTests, <<[type |-> "javaversion", atleast |-> <<<<"version", <<9, 0, 0>>>>>>]>>)
        @@ ("value" :> R(b)),
     [kind |-> "input", addproperty |-> c, message |-> R(b), defaultvalue |-> R(a),
      validargs |-> {T("y")}],
     [kind |-> "pathconvert", property |-> b, refid |-> "path", setonempty |-> TRUE],
     [kind |-> "pathconvert", property |-> b, refid |-> "empty", setonempty |-> FALSE]}

OtherTasks ==
    {[kind |-> "tstamp"],
     [kind |-> "exec", executable |-> R(a), resultproperty |-> a, outputproperty |-> b, errorproperty |-> c, failonerror |-> FALSE],
     [kind |-> "fail"] @@ ("if" :> a) @@ ("unless" :> b),
     [kind |-> "fail", status |-> 3] @@ ("unless" :> b),
     [kind |-> "echo", message |-> R(b)],
     [kind |-> "local", name |-> a], [kind |-> "local"],
     [kind |-> "xmlproperty", file |-> T("xml"), keeproot |-> TRUE, collapse |-> TRUE, prefix |-> <<"p", ".">>],
     [kind |-> "xmlproperty", file |-> T("xml"), keeproot |-> FALSE, collapse |-> TRUE],
     [kind |-> "xmlproperty", file |-> T("dotted"), keeproot |-> TRUE, collapse |-> FALSE],
     [kind |-> "xmlproperty", file |-> R(b), keeproot |-> TRUE, collapse |-> TRUE]}

MCTasks == PropertyTasks \cup SettingTasks \cup OtherTasks
=============================================================================
