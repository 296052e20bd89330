----------------------------- MODULE MCIvyCache -----------------------------
(***************************************************************************)
(* Two repositories in a chain and up to four tasks that meet.             *)
(***************************************************************************)
EXTENDS IvyCache

MCChain == <<"r1", "r2">>
MCRemote == {"r1"}

Publish(repo, rev) == [task |-> "publish", repo |-> repo, rev |-> rev, overwrite |-> FALSE, built |-> TRUE]
Published(repo, rev) == [Publish(repo, rev) EXCEPT !.task = "published"]
Consume(task, rev) == [task |-> task, rev |-> rev, qualified |-> TRUE, wget |-> FALSE]
Unqualified(rev) == [Consume("retrieve", rev) EXCEPT !.qualified = FALSE]

Wget(consumer) == [consumer EXCEPT !.wget = TRUE]

MCJobs ==
    { \* two repositories have the revision, sooner or later
      [p |-> Publish("r1", 1), q |-> Published("r2", 1),
       c |-> Wget(Consume("cachepath", 1)), d |-> Consume("retrieve", 1)],
      [q |-> Published("r2", 1), c |-> Consume("resolve", 1), d |-> Consume("retrieve", 1)],
      \* the revision is published again, or by two at once
      [p |-> Published("r2", 1), q |-> [Publish("r2", 1) EXCEPT !.overwrite = TRUE], c |-> Consume("resolve", 1)],
      [p |-> Publish("r2", 1), q |-> Publish("r2", 1), c |-> Consume("retrieve", 1)],
      \* without its jar
      [p |-> [Publish("r1", 1) EXCEPT !.built = FALSE],
       c |-> Wget(Consume("cachepath", 1)), d |-> Consume("cachefileset", 1)],
      \* two revisions, retrieved to one place
      [p |-> Published("r2", 1), q |-> Published("r2", 2), c |-> Unqualified(1), d |-> Unqualified(2)],
      [p |-> Published("r2", 1), q |-> Published("r1", 2), c |-> Consume("cachepath", 1), d |-> Consume("cachepath", 2)] }

=============================================================================
