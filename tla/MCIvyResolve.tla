---------------------------- MODULE MCIvyResolve ----------------------------
EXTENDS IvyResolve

N(n) == [numeric |-> TRUE, value |-> n]
W(n) == [numeric |-> FALSE, value |-> n]
Rev(tokens) == [tokens |-> tokens, spelling |-> 0]

\* LongMax is 2: 1.0, 1-0, 1.0-beta, 1.1, and 1.3 and 1.4, which read alike
R10 == Rev(<<N(1), N(0)>>)
R10dash == [R10 EXCEPT !.spelling = 1]
R10beta == Rev(<<N(1), N(0), W(0)>>)
R11 == Rev(<<N(1), N(1)>>)
R13 == Rev(<<N(1), N(3)>>)
R14 == Rev(<<N(1), N(4)>>)

Id(m, r) == [module |-> m, revision |-> r]

A10 == Id("a", R10)
A11 == Id("a", R11)
B10 == Id("b", R10)
B10dash == Id("b", R10dash)
B10beta == Id("b", R10beta)
C13 == Id("c", R13)
C14 == Id("c", R14)
MCRoot == Id("root", R10)

MCIds == {A10, A11, B10, B10dash, B10beta, C13, C14}

On(id) == [id |-> id, matches |-> TRUE, transitive |-> TRUE, excludes |-> {}]
Flat(id) == [On(id) EXCEPT !.transitive = FALSE]
Other(id) == [On(id) EXCEPT !.matches = FALSE]
Without(id, m) == [On(id) EXCEPT !.excludes = {m}]

\* For every module revision a few lists of dependencies: none, chains,
\* conflicts, cycles within and across revisions, excludes.
MCGraphs ==
    {[id \in MCIds \cup {MCRoot} |->
        CASE id = MCRoot  -> root
          [] id = A10     -> a10
          [] id = A11     -> a11
          [] id = B10     -> b10
          [] id = B10dash -> b10dash
          [] id = B10beta -> b10beta
          [] id = C13     -> c13
          [] id = C14     -> <<>>] :
        root    \in {<<On(A10), On(B10)>>, <<Without(A10, "c"), On(B10beta), On(C13)>>,
                     <<On(C13), On(A11)>>},
        a10     \in {<<>>, <<On(B10dash)>>, <<Flat(B10), On(C14)>>, <<On(A11)>>},
        a11     \in {<<>>, <<On(B10beta), Other(C13)>>},
        b10     \in {<<>>, <<On(A10)>>, <<On(C13)>>},
        b10dash \in {<<On(C13)>>, <<Without(A11, "b")>>},
        b10beta \in {<<>>, <<On(C14)>>},
        c13     \in {<<>>, <<On(A11)>>, <<On(B10)>>}}

=============================================================================
