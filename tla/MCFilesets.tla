----------------------------- MODULE MCFilesets -----------------------------
(***************************************************************************)
(* A small disk, and filesets and paths over it.                           *)
(***************************************************************************)
EXTENDS Filesets

MCDown == [t \in {"A"} |-> "a"]

\* src holds A.java, a/a.java, a/b/a.txt and a link from a/b back to src;
\* shut cannot be opened, nor can half be walked through.
A == <<"A">>
Lower == <<"a">>
B == <<"b">>
Java == <<"A", ".java">>
Text == <<"b", ".txt">>
MCDisk ==
    [src  |-> (Java :> "file" @@ Lower :> "src/a"),
     half |-> (B :> "file" @@ A :> "shut" @@ Lower :> "src/a/b"),
     loop |-> (B :> "file" @@ A :> "loop"),
     shut |-> [n \in {} |-> ""]]
    @@ "src/a" :> (Java :> "file" @@ B :> "src/a/b")
    @@ "src/a/b" :> (Lower :> "file" @@ Text :> "file")
MCClosed == {"shut"}
MCLinks == {<<"loop", A>>}

Fileset(dir, attributes, children) ==
    [element |-> "fileset", refid |-> "", dir |-> dir, attributes |-> attributes,
     children |-> children, casesensitive |-> "yes"]

Attribute(name, value) == [name |-> name, value |-> value]
Child(type, name) == Selector(type, name)

\* Every pattern of up to three names, each in an include of its own.
Names == {Anything, Lower, B, <<"*", ".java">>, <<"a", "*">>}
SmallPatterns == UNION {[1..n -> Names] : n \in 1..3} \cup {<<Lower, Empty>>}
SinglePatterns == {Fileset("src", <<>>, <<Child("include", p)>>) : p \in SmallPatterns}

\* Between two or more ** a star, or another name.
LongPatterns ==
    {Fileset("src", <<Attribute("includes", <<<<Anything, n, Anything, m>>>>)>>, <<>>) :
        n \in {Lower, <<"*">>, Anything}, m \in {Text, <<"*">>}}

All == <<Anything>>
Javas == <<Anything, <<"*", ".java">>>>
Below == <<Lower, Anything>>
DeepB == <<Anything, B, <<"*">>>>

\* Attributes and nested elements in every combination, on every kind of
\* element and in every spelling of casesensitive.
Mixed ==
    {[element |-> e, refid |-> "", dir |-> "src", attributes |-> a, children |-> c,
      casesensitive |-> IF e = "fileset" THEN s ELSE ""] :
        e \in {"fileset", "javac", "jar"},
        s \in {"", "yes", "no"},
        a \in {<<>>, <<Attribute("includes", <<Below>>)>>, <<Attribute("excludes", <<Below>>)>>,
               <<Attribute("includes", <<All>>), Attribute("excludes", <<Javas, DeepB>>)>>,
               <<Attribute("excludes", <<Below>>), Attribute("includes", <<Below, <<Java>>>>)>>},
        c \in {<<>>, <<Child("include", <<Java>>)>>, <<Child("exclude", Below), Child("include", Javas)>>,
               <<[Child("exclude", All) EXCEPT !.ruled_out = TRUE]>>,
               <<Child("excludesfile", Below)>>}}

Everything(dir) == Fileset(dir, <<Attribute("includes", <<All>>)>>, <<>>)
Refer(id) == [Everything("") EXCEPT !.refid = id]

MCFilesets ==
    [all |-> Everything("src/a"), again |-> Refer("all"), lost |-> Refer("nowhere"),
     round |-> Refer("about"), about |-> Refer("round")]

OnDisk == {Everything(dir) : dir \in {"", "src", "half", "loop", "shut", "nowhere"}}
             \cup {Refer(id) : id \in DOMAIN MCFilesets}

Element1(name, value) == [pathelement |-> TRUE, attributes |-> <<Attribute(name, value)>>]
PathTo(id) == [path |-> <<>>, attributes |-> <<Attribute("refid", id)>>]
Inline(es) == [path |-> es, attributes |-> <<>>]
Beside(value, es) == [path |-> es, attributes |-> <<Attribute("path", value)>>]
Files(d) == [fileset |-> d]

MCPaths ==
    [lib  |-> <<Element1("location", "l1"), Files(Everything("src/a/b"))>>,
     both |-> <<PathTo("lib"), Inline(<<Element1("path", "l2"), PathTo("lib")>>)>>,
     bad  |-> <<Element1("location", "l3"), Element1("name", "l4")>>,
     ring |-> <<Element1("location", "l5"), PathTo("ring")>>]

\* Inline paths in inline paths, with up to three elements inside, in front
\* and behind; and a fileset with an include too many.
InlineContents ==
    LET some == [i \in 1..3 |-> Element1("location", <<"p", "q", "r">>[i])] IN
    {SubSeq(some, 1, n) \o <<Inline(SubSeq(some, 1, m))>> \o SubSeq(some, 1, k) :
        n \in 0..2, m \in 0..3, k \in 0..2}
    \cup {<<Beside("p", <<Inline(<<PathTo("both")>>)>>)>>, <<Inline(<<Inline(some)>>)>>,
          <<Files(Fileset("src", <<>>, <<Child("include", <<Java>>), Child("include", <<A>>),
                                        Child("include", Below)>>)), PathTo("lib")>>}

WantedPaths ==
    {<<PathTo(id), Element1("path", "x")>> : id \in DOMAIN MCPaths \cup {"nowhere"}}
    \cup {<<Beside("x", <<Element1("location", "y"), Files(d)>>), Element1("path", "z")>> : d \in OnDisk}
    \cup {<<Files(Refer("lost")), Inline(<<PathTo("both")>>), Files(Everything("half"))>>, <<>>}
    \cup {<<Element1("path", "x"), Inline(es), Files(Everything("src/a/b"))>> : es \in InlineContents}

MCWants == {[path |-> p] : p \in WantedPaths}
            \cup {[fileset |-> d] : d \in SinglePatterns \cup LongPatterns \cup Mixed \cup OnDisk}
=============================================================================
