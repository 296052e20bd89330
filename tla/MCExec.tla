------------------------------- MODULE MCExec -------------------------------
(***************************************************************************)
(* Small commands and options for Exec.                                    *)
(***************************************************************************)
EXTENDS Exec

\* The options that do not change how the processes meet.
Sync ==
    [ops |-> <<>>, exit |-> 0, input |-> 0, osmatches |-> TRUE, wrong |-> FALSE,
     spawn |-> FALSE, redirects |-> FALSE, captures |-> TRUE,
     failonerror |-> FALSE, failifexecutionfails |-> TRUE]

Sequences(ops, n) == UNION {[1..k -> ops] : k \in 0..n}

\* Every order of up to five reads and writes, with input that is less than,
\* as much as and more than a pipe holds.
PipeCalls ==
    {[Sync EXCEPT !.ops = o, !.input = i] :
        o \in Sequences({"in", "out", "err"}, 5), i \in {0, 1, 2, 4}}

BackgroundCalls ==
    {[Sync EXCEPT !.ops = o, !.input = i] :
        o \in {<<"background">>, <<"out", "background", "out">>,
               <<"err", "err", "background", "err">>}, i \in {0, 3}}

OptionCalls ==
    {[ops |-> e.ops, exit |-> e.exit, input |-> i, osmatches |-> m, wrong |-> w,
      spawn |-> s, redirects |-> s, captures |-> c,
      failonerror |-> f, failifexecutionfails |-> x] :
        e \in {[ops |-> <<>>, exit |-> 127], [ops |-> <<"out">>, exit |-> 0],
               [ops |-> <<"err", "out">>, exit |-> 1], [ops |-> <<"out">>, exit |-> -1]},
        i \in {0, 1}, m \in BOOLEAN, w \in BOOLEAN, s \in BOOLEAN, c \in BOOLEAN,
        f \in BOOLEAN, x \in BOOLEAN}

MCCalls == PipeCalls \cup BackgroundCalls \cup OptionCalls
=============================================================================
