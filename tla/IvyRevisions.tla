---------------------------- MODULE IvyRevisions ----------------------------
(***************************************************************************)
(* The order of Ivy revisions: ivy_compare_revisions (ivy_parse.c).        *)
(*                                                                         *)
(* tokenize_revision splits a revision at every separator, which it drops, *)
(* and at every change between digits and other characters.  A revision is *)
(* therefore its tokens and the way their separators are spelled: 1.0 and  *)
(* 1-0 are two revisions with the same tokens.  A word stands for its      *)
(* place in strcmp's order.                                                *)
(***************************************************************************)
EXTENDS Integers, Sequences

CONSTANT LongMax  \* LONG_MAX of the platform

ASSUME LongMaxAssumption == LongMax \in Nat

Token == [numeric : BOOLEAN, value : Nat]

Revision == [tokens : Seq(Token), spelling : Nat]

Sign(n) == IF n < 0 THEN -1 ELSE IF n > 0 THEN 1 ELSE 0

\* What a run of digits is read as: strtol stops at LONG_MAX.
strtol(n) == IF n > LongMax THEN LongMax ELSE n

ReadAs(t) == IF t.numeric THEN strtol(t.value) ELSE t.value

\* A number outranks a word; otherwise values decide.
CompareTokens(s, t) ==
    IF s.numeric # t.numeric
    THEN IF s.numeric THEN 1 ELSE -1
    ELSE Sign(ReadAs(s) - ReadAs(t))

\* The positions both revisions have and at which they differ.
Differences(a, b) ==
    {i \in DOMAIN a.tokens \cap DOMAIN b.tokens :
        CompareTokens(a.tokens[i], b.tokens[i]) # 0}

\* The first difference decides; without one the longer revision is later.
CompareRevisions(a, b) ==
    LET diff == Differences(a, b)
    IN  IF diff = {}
        THEN Sign(Len(a.tokens) - Len(b.tokens))
        ELSE LET i == CHOOSE j \in diff : \A k \in diff : j <= k
             IN  CompareTokens(a.tokens[i], b.tokens[i])

-----------------------------------------------------------------------------
(* The order the code is meant to have                                     *)

\* "A numeric token outranks a non-numeric one at the same position (matches
\* the common "1.0 > 1.0-beta" intuition)", says the comment in
\* ivy_compare_revisions: numbers before the end of the revision, and that
\* before words.
Rank(r, i) ==
    IF i \notin DOMAIN r.tokens THEN 1 ELSE IF r.tokens[i].numeric THEN 2 ELSE 0

\* Numbers by their value, words by strcmp.
Outranks(a, b, i) ==
    \/ Rank(a, i) > Rank(b, i)
    \/ /\ i \in DOMAIN a.tokens \cap DOMAIN b.tokens
       /\ Rank(a, i) = Rank(b, i)
       /\ a.tokens[i].value > b.tokens[i].value

\* a is the later revision by what stands at i.
LaterBy(a, b, i) ==
    /\ Outranks(a, b, i)
    /\ \A k \in 1..i - 1 : ~Outranks(a, b, k) /\ ~Outranks(b, a, k)

\* What the code does not read so at i.  It takes a revision that goes on
\* with a word for later than the one that ends, 1.0-beta for later than 1.0,
\* and all numbers from LONG_MAX on for equal.
ReadOtherwise(a, b, i) ==
    \/ Rank(a, i) = 1 /\ Rank(b, i) = 0
    \/ Rank(a, i) = 2 /\ Rank(b, i) = 2 /\ b.tokens[i].value >= LongMax

=============================================================================
