---------------------------- MODULE MCTargetExec ----------------------------
(***************************************************************************)
(* Small build files for TargetExec.                                       *)
(***************************************************************************)
EXTENDS TargetExec

MCTargets == {"a", "b", "c"}
PairTargets == {"a", "b"}

\* Every dependency graph over three targets, with depends lists of at most
\* two entries: chains, diamonds, repeated entries, cycles of every length.
\* Each body is one plain task.
GraphBuilds ==
    {[depends   |-> d,
      tasks     |-> [t \in Targets |-> <<Plain>>],
      requested |-> w.requested,
      default   |-> w.default,
      disabled  |-> {}] :
        d \in [Targets -> {<<>>} \cup [1..1 -> Targets] \cup [1..2 -> Targets]],
        w \in {[requested |-> <<>>, default |-> "a"],
               [requested |-> <<"a", "b">>, default |-> Missing],
               [requested |-> <<"c", Missing>>, default |-> "a"],
               [requested |-> <<>>, default |-> Missing]}}

\* Two targets whose bodies call each other, themselves, a target that does
\* not exist, or nothing, before and after plain tasks; a third does nothing.
AntcallBuilds ==
    {[depends   |-> [t \in Targets |-> IF t = "c" THEN <<>> ELSE d[t]],
      tasks     |-> [t \in Targets |-> IF t = "c" THEN <<>> ELSE k[t]],
      requested |-> r,
      default   |-> "a",
      disabled  |-> {}] :
        d \in [PairTargets -> {<<>>} \cup [1..1 -> PairTargets]],
        k \in [PairTargets ->
                {<<>>, <<Missing>>, <<Plain, "a">>, <<"b", Plain>>, <<"b", "b">>}],
        r \in {<<>>, <<"b", "a">>}}

AllBuilds == GraphBuilds \cup AntcallBuilds

\* Two targets, one of which its if/unless attributes rule out.
ConditionalBuilds ==
    {[depends   |-> d,
      tasks     |-> [t \in Targets |-> <<Plain, Plain>>],
      requested |-> r,
      default   |-> "a",
      disabled  |-> {x}] :
        d \in [Targets -> {<<>>} \cup [1..1 -> Targets] \cup [1..2 -> Targets]],
        r \in {<<>>, <<"b", "a">>, <<"a", "b", "a">>},
        x \in Targets}
=============================================================================
