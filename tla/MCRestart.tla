------------------------------ MODULE MCRestart ------------------------------
(* Instances of Restart for TLC: configurations with a Postgres agent, one    *)
(* that keeps nothing, agents that fail to load at each step, and none at all.*)
EXTENDS Restart
CONSTANTS r1, r2, w1, t1, p1, p2

Manifest ==
  [found |-> TRUE, valid |-> TRUE, extensions |-> TRUE, framework |-> "langgraph",
   name |-> "mail", version |-> "1", can |-> Capabilities]
Missing == [Manifest EXCEPT !.found = FALSE]
Entry ==
  [id |-> "mail", pair |-> TRUE, imports |-> TRUE, manifests |-> <<Manifest>>,
   symbol |-> TRUE, exports |-> "compiledPostgres", events |-> TRUE]

Flow ==
  [Entry EXCEPT !.id = "flow", !.exports = "workflow",
                !.manifests = <<Missing, [Manifest EXCEPT !.framework = "llamaindex", !.can = {"interrupts"}]>>]
Plain == [Entry EXCEPT !.id = "plain", !.exports = "compiled", !.manifests[1].can = {"streaming"}]

MCConfigs ==
  {<< >>, <<Entry>>, <<Entry, Plain>>, <<Flow, Entry>>,
   <<Entry, [Flow EXCEPT !.manifests[2].framework = "docker"]>>,
   <<[Entry EXCEPT !.manifests = <<[Manifest EXCEPT !.extensions = FALSE], Manifest>>]>>}
=============================================================================
