----------------------------- MODULE IvyResolve -----------------------------
(***************************************************************************)
(* One run of ivy_resolve_run (ivy_resolve.c): the depth-first walk over   *)
(* the dependency graph by walk_module, the choice of the latest revision  *)
(* of each module on the way, and the verdicts finalize_revision gives.    *)
(*                                                                         *)
(* The recursion is explicit: a frame is an activation of walk_module in   *)
(* its loop over the descriptor's dependencies, the bottom frame is the    *)
(* loop of ivy_resolve_run over the root's.  Every lookup of a descriptor  *)
(* may fail or succeed, each time anew, as a repository on the network     *)
(* does; what is found is memoized, a failure is not.                      *)
(***************************************************************************)
EXTENDS IvyRevisions, SequencesExt

CONSTANTS
    Ids,         \* the module revisions, records of module and revision
    Root,        \* the module being built
    None,        \* no revision
    Graphs       \* the dependency graphs considered (see Graph)

Modules == {id.module : id \in Ids}
Revs == {id.revision : id \in Ids}

\* One <dependency>.  matches: its conf mapping maps some requested conf;
\* excludes: the modules its <exclude>s match.
Dependency == [id : Ids, matches : BOOLEAN, transitive : BOOLEAN,
               excludes : SUBSET Modules]

Graph == [Ids \cup {Root} -> Seq(Dependency)]

ASSUME IdsAssumption ==
    /\ IsFiniteSet(Ids)
    /\ Root \notin Ids
    /\ Revs \subseteq Revision
    /\ None \notin Revs
    /\ \A id \in Ids : DOMAIN id = {"module", "revision"}
ASSUME GraphsAssumption == Graphs \subseteq Graph

VARIABLES
    graph,      \* the dependencies each descriptor declares
    phase,      \* "walk", "finalize" or "done"
    stack,      \* activations, the innermost last
    ancestors,  \* ancestor_path: the modules being walked
    described,  \* descriptor_cache: the revisions whose descriptor was found
    latest,     \* mr->id.revision for each module
    callers,    \* rr->callers: edges <<from, to>>; a `to' has a report
    errors,     \* the reports with an error
    verdict,    \* is_default and evicted of the finalized revisions
    artifacts   \* the revisions whose jar is in the cache

vars == <<graph, phase, stack, ancestors, described, latest, callers, errors,
          verdict, artifacts>>

Frame == [id : Ids \cup {Root}, next : Nat \ {0}, excludes : SUBSET Modules]

TypeOK ==
    /\ graph \in Graph
    /\ phase \in {"walk", "finalize", "done"}
    /\ stack \in Seq(Frame)
    /\ ancestors \subseteq Modules
    /\ described \subseteq Ids
    /\ latest \in [Modules -> Revs \cup {None}]
    /\ callers \subseteq (Ids \cup {Root}) \X Ids
    /\ errors \subseteq Ids
    /\ verdict \in [Ids -> {"none", "default", "evicted"}]
    /\ artifacts \subseteq Ids

Init ==
    /\ graph \in Graphs
    /\ phase = "walk"
    /\ stack = <<[id |-> Root, next |-> 1, excludes |-> {}]>>
    /\ ancestors = {} /\ described = {} /\ callers = {} /\ errors = {}
    /\ latest = [m \in Modules |-> None]
    /\ verdict = [id \in Ids |-> "none"]
    /\ artifacts = {}

-----------------------------------------------------------------------------
(* The walk                                                                *)

Here == Last(stack)

AtEnd == Here.next > Len(graph[Here.id])

Advanced == [stack EXCEPT ![Len(stack)].next = @ + 1]

\* d is the next dependency of the innermost loop.
At(d) == phase = "walk" /\ ~AtEnd /\ d = graph[Here.id][Here.next]

\* Mutant: only the excludes of the dependency's own declaration count.
ParticipatesUnlessOwn(d) == d.matches /\ d.id.module \notin d.excludes

Participates(d) == d.matches /\ d.id.module \notin Here.excludes

Unwalked == UNCHANGED <<graph, phase, verdict, artifacts>>

\* Mutant: the loop does not move on.
SkipStuck(d) ==
    /\ At(d) /\ ~Participates(d)
    /\ UNCHANGED vars

Skip(d) ==
    /\ At(d) /\ ~Participates(d)
    /\ stack' = Advanced
    /\ Unwalked /\ UNCHANGED <<ancestors, described, latest, callers, errors>>

\* walk_module is called: the edge is recorded whatever comes of it.
Walks(d) ==
    /\ At(d) /\ Participates(d)
    /\ callers' = callers \cup {<<Here.id, d.id>>}
    /\ Unwalked

Cyclic(d) ==
    /\ Walks(d)
    /\ d.id.module \in ancestors
    /\ stack' = Advanced
    /\ UNCHANGED <<ancestors, described, latest, errors>>

\* Mutant: a revision that is not found competes all the same.
NotFoundCompeting(d) ==
    /\ Walks(d)
    /\ d.id.module \notin ancestors /\ d.id \notin described
    /\ errors' = errors \cup {d.id}
    /\ latest' = [latest EXCEPT ![d.id.module] = d.id.revision]
    /\ stack' = Advanced
    /\ UNCHANGED <<ancestors, described>>

NotFound(d) ==
    /\ Walks(d)
    /\ d.id.module \notin ancestors /\ d.id \notin described
    /\ errors' = errors \cup {d.id}
    /\ stack' = Advanced
    /\ UNCHANGED <<ancestors, described, latest>>

Later(r, best) ==
    IF best = None THEN r
    ELSE IF CompareRevisions(r, best) > 0 THEN r ELSE best

\* The descriptor is at hand or found now; its revision competes, and its
\* dependencies are walked unless the edge is not transitive.
Describe(d) ==
    /\ Walks(d)
    /\ d.id.module \notin ancestors
    /\ described' = described \cup {d.id}
    /\ latest' = [latest EXCEPT ![d.id.module] = Later(d.id.revision, @)]
    /\ IF d.transitive
       THEN /\ ancestors' = ancestors \cup {d.id.module}
            /\ stack' = Append(Advanced, [id |-> d.id, next |-> 1,
                                          excludes |-> Here.excludes \cup d.excludes])
       ELSE /\ stack' = Advanced
            /\ UNCHANGED ancestors
    /\ UNCHANGED errors

\* Mutant: a module stays on the ancestor path.
ReturnMarked ==
    /\ phase = "walk" /\ AtEnd /\ Len(stack) > 1
    /\ stack' = Front(stack)
    /\ Unwalked /\ UNCHANGED <<ancestors, described, latest, callers, errors>>

Return ==
    /\ phase = "walk" /\ AtEnd /\ Len(stack) > 1
    /\ ancestors' = ancestors \ {Here.id.module}
    /\ stack' = Front(stack)
    /\ Unwalked /\ UNCHANGED <<described, latest, callers, errors>>

WalkDone ==
    /\ phase = "walk" /\ AtEnd /\ Len(stack) = 1
    /\ phase' = "finalize"
    /\ UNCHANGED <<graph, stack, ancestors, described, latest, callers, errors,
                   verdict, artifacts>>

-----------------------------------------------------------------------------
(* The verdicts, in the order of the hashtable                             *)

Wins(id) == id.revision = latest[id.module]

\* finalize_revision; the jar is fetched for a winner only, and may not be
\* there.
Finalize(id) ==
    /\ phase = "finalize"
    /\ id \in described /\ verdict[id] = "none"
    /\ IF Wins(id)
       THEN /\ verdict' = [verdict EXCEPT ![id] = "default"]
            /\ artifacts' \in {artifacts, artifacts \cup {id}}
       ELSE /\ verdict' = [verdict EXCEPT ![id] = "evicted"]
            /\ UNCHANGED artifacts
    /\ UNCHANGED <<graph, phase, stack, ancestors, described, latest, callers, errors>>

Resolved ==
    /\ phase = "finalize"
    /\ \A id \in described : verdict[id] # "none"
    /\ phase' = "done"
    /\ UNCHANGED <<graph, stack, ancestors, described, latest, callers, errors,
                   verdict, artifacts>>

Done == phase = "done" /\ UNCHANGED vars

\* One action per outcome of the next dependency.
Step ==
    \/ \E d \in Range(graph[Here.id]) :
          Skip(d) \/ Cyclic(d) \/ NotFound(d) \/ Describe(d)
    \/ Return \/ WalkDone
    \/ \E id \in Ids : Finalize(id)
    \/ Resolved

Next == Step \/ Done

\* A single thread, and every fetch returns.
Spec == Init /\ [][Next]_vars /\ WF_vars(Step)

-----------------------------------------------------------------------------
(* What the graph declares                                                 *)

\* The ways of n dependencies that lead from the root to a module: declared
\* one by the other, requested, each but the last found and transitive,
\* never through a module twice, and never to one that a dependency on the
\* way excludes.
Ways[n \in 1..Cardinality(Modules) + 1] ==
    IF n = 1
    THEN {<<d>> : d \in {e \in Range(graph[Root]) : e.matches}}
    ELSE UNION {
        LET through == {w[i].id.module : i \in 1..n - 2}
            excluded == UNION {w[i].excludes : i \in 1..n - 1}
            from == w[n - 1]
        IN  IF from.transitive /\ from.id \in described /\ from.id.module \notin through
            THEN {Append(w, d) : d \in {e \in Range(graph[from.id]) :
                                          e.matches /\ e.id.module \notin excluded}}
            ELSE {}
        : w \in Ways[n - 1]}

\* The edges at the ends of these ways.
Edge(w) == <<IF Len(w) = 1 THEN Root ELSE w[Len(w) - 1].id, w[Len(w)].id>>

DeclaredEdges == UNION {{Edge(w) : w \in Ways[n]} : n \in DOMAIN Ways}

Reported == {edge[2] : edge \in callers}

Rivals(id) == {other \in described : other.module = id.module}

-----------------------------------------------------------------------------
(* Properties                                                              *)

\* Every edge in the report is at the end of a way the graph declares, and
\* all of them are in it: the memo, the cycle check and the excludes, which
\* follow the path of the walk, neither lose nor invent a dependency.  This
\* needs every report to have either an error or what its descriptor says,
\* for an error is there "only if this exact organisation:name:revision could
\* never be found" (ivy.h:213).  A descriptor that is found at one visit and
\* not at another contradicts that: such a report has both.
ReportIsDeclared ==
    phase = "done" =>
        /\ callers \subseteq DeclaredEdges
        /\ errors \cap described = {} => callers = DeclaredEdges

Found(m) == {id.revision : id \in {x \in described : x.module = m}}

\* mr->id.revision is one of the revisions found so far, and in whatever
\* order the walk has met them none of them is a later one, later as the
\* comment of ivy_compare_revisions (ivy_parse.c:180) has it, but where that
\* function reads a revision otherwise.  What was not found never counts.
LatestIsGreatest ==
    \A m \in Modules :
        /\ Found(m) = {} => latest[m] = None
        /\ Found(m) # {} => latest[m] \in Found(m)
        /\ \A r \in Found(m) : \A i \in 1..Len(r.tokens) + 1 :
              LaterBy(r, latest[m], i) => ReadOtherwise(r, latest[m], i)

\* Every resolution ends, on cyclic graphs too.
Terminates == <>(phase = "done")

-----------------------------------------------------------------------------
(* What makes the invariants inductive                                     *)

\* latest is the greatest revision found, by ivy_compare_revisions.
LatestIsFirst ==
    \A m \in Modules :
        IF Found(m) = {} THEN latest[m] = None
        ELSE /\ latest[m] \in Found(m)
             /\ \A r \in Found(m) : CompareRevisions(r, latest[m]) <= 0

\* The ancestor path is the stack above the root, one revision of a module
\* at a time, each of them found.
AncestorsAreStack ==
    /\ stack # <<>> /\ stack[1].id = Root
    /\ ancestors = {stack[i].id.module : i \in 2..Len(stack)}
    /\ \A i, j \in 2..Len(stack) : stack[i].id.module = stack[j].id.module => i = j
    /\ \A i \in 2..Len(stack) : stack[i].id \in described

\* Verdicts are given to what was found, by the revisions that are final.
VerdictsFollowLatest ==
    /\ \A id \in Ids : verdict[id] # "none" =>
          /\ phase # "walk" /\ id \in described
          /\ verdict[id] = "default" <=> id.revision = latest[id.module]
    /\ \A id \in artifacts : verdict[id] = "default"
    /\ phase = "done" => \A id \in described : verdict[id] # "none"

\* Every revision found, or not found, is in the report.
OutcomesReported == described \cup errors \subseteq Reported

\* The dependency the loop of a frame has passed last.
Passed(i) == graph[stack[i].id][stack[i].next - 1]

\* Every frame above the root's was entered by the one the frame below it has
\* passed last, and that edge is in the report.
StackIsWay ==
    /\ stack[1].excludes = {}
    /\ \A i \in 2..Len(stack) :
          /\ stack[i - 1].next - 1 \in DOMAIN graph[stack[i - 1].id]
          /\ Passed(i - 1).id = stack[i].id
          /\ Passed(i - 1).matches /\ Passed(i - 1).transitive
          /\ stack[i].id.module \notin stack[i - 1].excludes
          /\ stack[i].excludes = UNION {Passed(k).excludes : k \in 1..i - 1}
          /\ <<stack[i - 1].id, stack[i].id>> \in callers

\* A way the walk has left behind: it follows the stack up to a frame and
\* goes on there by a dependency which that loop is done with.
Behind(w) ==
    \E i \in 1..Len(stack) :
        /\ i <= Len(w)
        /\ \A k \in 1..i - 1 : w[k] = Passed(k)
        /\ \E j \in DOMAIN graph[stack[i].id] :
              /\ w[i] = graph[stack[i].id][j]
              /\ j < stack[i].next - (IF i = Len(stack) THEN 0 ELSE 1)

\* Its edge is in the report, and what it leads to was found or not, unless
\* it leads back to itself.
BehindReported ==
    errors \cap described = {} =>
        \A n \in DOMAIN Ways : \A w \in {v \in Ways[n] : Behind(v)} :
            /\ Edge(w) \in callers
            /\ w[n].id \in described \cup errors
               \/ w[n].id.module \in {w[i].id.module : i \in 1..n - 1}

WalkOver == phase # "walk" => Len(stack) = 1 /\ AtEnd

IInv ==
    /\ TypeOK
    /\ AncestorsAreStack
    /\ LatestIsFirst
    /\ VerdictsFollowLatest
    /\ OutcomesReported
    /\ StackIsWay
    /\ callers \subseteq DeclaredEdges
    /\ BehindReported
    /\ WalkOver

=============================================================================
