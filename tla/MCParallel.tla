----------------------------- MODULE MCParallel -----------------------------
(***************************************************************************)
(* Task trees for Parallel.                                                *)
(***************************************************************************)
EXTENDS Parallel

MCTasks == {"root", "a", "b", "c", "d", "e"}

TreeOf(sequential, parallel, nested, failonany) ==
    [kind      |-> [t \in Tasks |-> IF t \in sequential THEN "sequential"
                                    ELSE IF t \in parallel THEN "parallel" ELSE "plain"],
     nested    |-> [t \in Tasks |-> IF t \in DOMAIN nested THEN nested[t] ELSE <<>>],
     failonany |-> [t \in Tasks |-> failonany]]

\* Children in the middle of a sequence; a sequence beside a child, with
\* children of its own; parallel inside parallel; an empty parallel.
MCTrees ==
    UNION {{TreeOf({"root"}, {"b"},
                   [root |-> <<"a", "b", "e">>, b |-> <<"c", "d">>], f),
            TreeOf({"b"}, {"root", "d"},
                   [root |-> <<"a", "b">>, b |-> <<"c", "d">>, d |-> <<"e">>], f),
            TreeOf({}, {"root", "a"},
                   [root |-> <<"a", "b", "e">>, a |-> <<"c", "d">>], f),
            TreeOf({"root"}, {"a", "b"},
                   [root |-> <<"a", "b", "d", "e">>, b |-> <<"c">>], f)} : f \in BOOLEAN}
=============================================================================
