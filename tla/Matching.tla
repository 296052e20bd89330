------------------------------ MODULE Matching ------------------------------
(***************************************************************************)
(* Patterns of file names (match.c) and the compound selectors of javac    *)
(* (selector.c).                                                           *)
(*                                                                         *)
(* A name is a sequence of tokens, "*" among them in a pattern; a path and *)
(* a pattern are sequences of names, what stands between the slashes.      *)
(***************************************************************************)
EXTENDS Integers, Sequences, FiniteSets
LOCAL INSTANCE FiniteSetsExt

CONSTANT Down   \* token -> the token in lower case, where that is another one

Anything == <<"*", "*">>
Colon    == <<":">>
Empty    == <<>>

Lowered(name) == [i \in DOMAIN name |-> IF name[i] \in DOMAIN Down THEN Down[name[i]] ELSE name[i]]

\* A star stands for any tokens, whatever they are.
fnmatch(pattern, name) ==
    LET upto[i \in 0..Len(pattern), j \in 0..Len(name)] ==
            IF i = 0 THEN j = 0
            ELSE IF pattern[i] = "*" THEN \E k \in 0..j : upto[i - 1, k]
            ELSE j > 0 /\ pattern[i] = name[j] /\ upto[i - 1, j - 1]
    IN  upto[Len(pattern), Len(name)]

match(pattern, name, case_sensitive) ==
    IF case_sensitive THEN fnmatch(pattern, name) ELSE fnmatch(Lowered(pattern), Lowered(name))

\* A slash at the end stands for everything below.
WithoutSlash(pattern) ==
    IF Len(pattern) > 1 /\ pattern[Len(pattern)] = Empty
    THEN [pattern EXCEPT ![Len(pattern)] = Anything] ELSE pattern

\* Names first..last, a colon before each but the first; of a pattern, every
\* ** but the first becomes *, which does not matter to fnmatch.
Joint(names, first, last) ==
    LET upto[k \in first..last] ==
            IF k = first THEN names[k] ELSE upto[k - 1] \o Colon \o names[k]
    IN  upto[last]

\* Mutant: the first ** takes in all that is left.
MatchPathAtFirst(pattern, path, case_sensitive) ==
    LET p == WithoutSlash(pattern)
        first == Min({k \in 1..Len(p) + 1 : k > Len(p) \/ k > Len(path) \/ p[k] = Anything})
    IN  /\ \A k \in 1..first - 1 : match(p[k], path[k], case_sensitive)
        /\ first <= Len(p)

\* Forward to the first **, backward to the last one, and what is left between
\* the two as one string; of it the name at the end of the path is left out.
match_path(pattern, path, case_sensitive) ==
    LET p == WithoutSlash(pattern)
        first == Min({k \in 1..Len(p) + 1 : k > Len(p) \/ k > Len(path) \/ p[k] = Anything})
        forward == \A k \in 1..first - 1 : match(p[k], path[k], case_sensitive)
        \* names matched from the end, unless one differs
        back == Min({k \in 0..Len(p) : \/ Len(p) - k <= first \/ Len(path) - k <= first
                                       \/ p[Len(p) - k] = Anything})
        backward == \A k \in 0..back - 1 :
                        match(p[Len(p) - k], path[Len(path) - k], case_sensitive)
        lastp == Len(p) - back
        lasts == Len(path) - back
    IN  /\ forward
        /\ IF first > Len(path) THEN \A k \in first..Len(p) : p[k] = Anything
           ELSE /\ first <= Len(p) /\ backward
                /\ IF lasts = first THEN \A k \in first + 1..lastp : p[k] = Anything
                   ELSE lastp # first =>
                          match(Joint(p, first, lastp - 1), Joint(path, first, lasts - 1),
                                case_sensitive)

-----------------------------------------------------------------------------
(* The reference: what the patterns of Ant mean                            *)

AntMatches(pattern, path, case_sensitive) ==
    LET p == WithoutSlash(pattern)
        upto[i \in 0..Len(p), j \in 0..Len(path)] ==
            IF i = 0 THEN j = 0
            ELSE IF p[i] = Anything THEN \E k \in 0..j : upto[i - 1, k]
            ELSE /\ j > 0 /\ match(p[i], path[j], case_sensitive) /\ upto[i - 1, j - 1]
    IN  upto[Len(p), Len(path)]

Deep(pattern) == {k \in DOMAIN WithoutSlash(pattern) : WithoutSlash(pattern)[k] = Anything}

\* Patterns without ** or with one at the very end.
Simple(pattern) == Deep(pattern) \subseteq {Len(pattern)}

\* Between two ** a star may take in a whole directory.
Crossing(pattern) ==
    \E i, j \in Deep(pattern) : \E k \in i + 1..j - 1 :
        pattern[k] # Anything /\ "*" \in {pattern[k][n] : n \in DOMAIN pattern[k]}
=============================================================================
