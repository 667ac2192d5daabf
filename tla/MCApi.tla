-------------------------------- MODULE MCApi --------------------------------
(* Instances of Api for TLC: an agent whose id is a UUID, and of two runs one *)
(* that is given texts and one that is given None.                            *)
EXTENDS Api, TLC
CONSTANTS r1, r2, w1, t1, t2, c1

Manifest(name) ==
  [found |-> TRUE, valid |-> TRUE, extensions |-> TRUE, framework |-> "langgraph",
   name |-> name, version |-> "1", can |-> Capabilities]
Entry(name) ==
  [id |-> name, pair |-> TRUE, imports |-> TRUE, manifests |-> <<Manifest(name)>>,
   symbol |-> TRUE, exports |-> "compiledPostgres", events |-> TRUE]

MCServed == <<Entry("mail")>>
MCGives == r1 :> "text" @@ r2 :> "null"

\* Threads differ in their ids only.
AnyThread == Permutations(ThreadIds)

\* What tells states apart.  No step depends on the last answer, and the invariants
\* look at the answers about a run only; the action properties are evaluated at
\* every step, whether its state is new or not.
Essentials ==
  <<IF reply.run # NoRun THEN reply ELSE NoReply, threaded, agent, order, route, threadVars>>
=============================================================================
