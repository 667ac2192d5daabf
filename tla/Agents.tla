------------------------------- MODULE Agents -------------------------------
(***************************************************************************)
(* The agents of a server: agents/load.py, the load_agent methods of       *)
(* agents/adapters, and the document agents/oas_generator.py publishes of  *)
(* an agent.  Everything here is a function of the configuration; Restart  *)
(* loads it, entry by entry, and Api answers from it.                      *)
(*                                                                         *)
(* An entry of AGENTS_REF is a record of                                   *)
(*   id          the agent's id                                            *)
(*   pair        the reference has the form module:variable                *)
(*   imports     the module, or the file, imports                          *)
(*   manifests   what the manifest paths hold, in the order they are tried *)
(*   symbol      the module has the variable                               *)
(*   exports     what kind of object it is                                 *)
(*   events      the event classes the manifest names for interrupts load  *)
(* and what a path holds a record of                                       *)
(*   found, valid, extensions   a file, one AgentManifest accepts, one     *)
(*               with extensions                                           *)
(*   framework   of its first deployment option                            *)
(*   name, version, can         the agent's, and its capabilities          *)
(***************************************************************************)
EXTENDS Naturals, Sequences, Tables

Capabilities == {"threads", "interrupts", "streaming", "callbacks"}

-----------------------------------------------------------------------------
(* Manifests and adapters                                                  *)

\* Without extensions there is no descriptor, and that is an error.
MakesDescriptor(m) == m.valid /\ m.extensions

\* The first file found is the manifest, good or bad: only a missing file leads
\* to the next path.
Found(e) == {i \in DOMAIN e.manifests : e.manifests[i].found}
ManifestOf(e) == e.manifests[CHOOSE i \in Found(e) : \A j \in Found(e) : i <= j]
ReadsManifest(e) == Found(e) # {} /\ MakesDescriptor(ManifestOf(e))

\* LangGraphAdapter takes graphs, compiled or not.
LangGraphs == {"graph", "compiled", "compiledPostgres"}

\* LlamaIndexAdapter takes workflows and functions that return one.
Workflows == {"workflow", "factory"}

\* Its constructor reads the interrupts off the first deployment option, which
\* has none to read in any framework but its own.
LoadsInterrupts(e) == ManifestOf(e).framework = "llamaindex" /\ e.events

\* Faulty Flag: a graph without Postgres clears the flag, none sets it.
FlagOnlyCleared(e, flag) == flag /\ e.exports # "compiled"

\* DB.set_persist_threads, called for a graph that comes compiled: the last
\* one decides for all.
Flag(e, flag) ==
  CASE e.exports = "compiled" -> FALSE
    [] e.exports = "compiledPostgres" -> TRUE
    [] OTHER -> flag

\* _resolve_agent goes through, to the registration of the agent.
Resolves(e) ==
  /\ e.pair /\ e.imports /\ ReadsManifest(e) /\ e.symbol
  /\ e.exports \in LangGraphs \/ (e.exports \in Workflows /\ LoadsInterrupts(e))

-----------------------------------------------------------------------------
(***************************************************************************)
(* The OpenAPI document.  Of the specification it starts from, the paths   *)
(* are kept by what they serve, the tags by name, RunOutput by what it may *)
(* be and RunCreate by whether it has a webhook.                           *)
(***************************************************************************)
ThreadPaths == {"threads", "threadHistory", "threadRuns", "threadRunStream"}
Specification ==
  [paths |-> {"agents", "runs", "runStream", "newRunStream"} \cup ThreadPaths,
   tags |-> {"Agents", "Stateless Runs", "Thread Runs", "Threads"},
   outputs |-> {"RunResult", "RunInterrupt", "RunError"},
   webhook |-> TRUE]

\* Faulty GenThreadRuns: the prefix is "/threads/".
GenThreadRunsBelow(doc, can) ==
  IF "threads" \in can THEN doc
  ELSE [doc EXCEPT !.paths = (@ \ ThreadPaths) \cup {"threads"}, !.tags = @ \ {"Threads"}]

GenThreadRuns(doc, can) ==
  IF "threads" \in can THEN doc
  ELSE [doc EXCEPT !.paths = @ \ ThreadPaths, !.tags = @ \ {"Threads"}]

\* No path contains "/interrupt", and no reference "interrupt" in lower case:
\* nothing is ever removed.
GenInterrupts(doc, can) == doc

\* Only the stream of an existing run is removed.
GenStreaming(doc, can) ==
  IF "streaming" \in can THEN doc ELSE [doc EXCEPT !.paths = @ \ {"runStream"}]

GenCallback(doc, can) ==
  IF "callbacks" \in can THEN doc ELSE [doc EXCEPT !.webhook = FALSE]

Document(e) ==
  LET can == ManifestOf(e).can IN
  GenCallback(GenStreaming(GenInterrupts(GenThreadRuns(Specification, can), can), can), can)

\* An agent's document offers threads, the stream of a run and webhooks to the
\* agents that have them, and to no other.
DocumentFits(e) ==
  LET can == ManifestOf(e).can IN
  /\ "threads" \in can => ThreadPaths \subseteq Document(e).paths
  /\ "threads" \notin can => Document(e).paths \cap ThreadPaths = {}
  /\ "runStream" \in Document(e).paths <=> "streaming" \in can
  /\ Document(e).webhook <=> "callbacks" \in can

-----------------------------------------------------------------------------
(* Lookups in AGENTS, kept as the sequence of registered entries, and the  *)
(* endpoints that answer from it.                                          *)

Known(agents, id) == \E i \in DOMAIN agents : agents[i].id = id

\* The first one registered.
DefaultAgent(agents) == agents[1].id

GetDescriptor(agents, id) == IF Known(agents, id) THEN 200 ELSE 404
GetAgent(agents, id) == IF Known(agents, id) THEN 200 ELSE 404
GetOpenApi(agents, id) == IF Known(agents, id) THEN 200 ELSE 404

\* What is not given, or empty.
Blank == ""

\* limit and offset of the request are not looked at.
SearchForAgents(agents, request) ==
  Matching(agents, {e \in {agents[i] : i \in DOMAIN agents} :
    /\ request.name \in {Blank, ManifestOf(e).name}
    /\ request.version \in {Blank, ManifestOf(e).version}})

\* One of the two has to be given.
SearchAgents(request) == IF request.name = Blank /\ request.version = Blank THEN 422 ELSE 200

\* The agent is found by its id, by its name and by its version.
Reachable(agents, e) ==
  /\ {GetDescriptor(agents, e.id), GetAgent(agents, e.id), GetOpenApi(agents, e.id)} = {200}
  /\ \A name \in {Blank, ManifestOf(e).name}, version \in {Blank, ManifestOf(e).version} :
       LET request == [name |-> name, version |-> version]
           listed == SearchForAgents(agents, request) IN
       SearchAgents(request) = 200 => \E i \in DOMAIN listed : listed[i] = e
=============================================================================
