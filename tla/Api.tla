--------------------------------- MODULE Api ---------------------------------
(***************************************************************************)
(* The HTTP interface: the endpoints of apis/, the validation and the      *)
(* authentication in front of them, and the answers they give, over the    *)
(* runs and threads they change.  The last answer is in reply; a step that *)
(* answers nobody clears it.  An endpoint that only reads is an operator:  *)
(* the code it answers with in a state.                                    *)
(*                                                                         *)
(* FastAPI is external.  What the code takes from it: a route's own        *)
(* dependencies run before the parameters of its function, each dependency *)
(* has a request body of its own to change, a body its model does not take *)
(* is answered with 422, and what nobody catches with 500.                 *)
(*                                                                         *)
(* Abstractions.  A client has one request under way.  A read is of one    *)
(* state, and the thread and the run a client waits for are looked up in   *)
(* one.  A copy and a patch of a thread are one step each: Threads has     *)
(* what may come in between.  An agent gives a run values of one kind, as  *)
(* results and as interrupts.  A run without an agent has no webhook here: *)
(* one would end its worker, as a webhook that rejects the first call does.*)
(***************************************************************************)
EXTENDS ThreadRuns, Agents, Models, SequencesExt

CONSTANTS
  Served,      \* AGENTS
  Uuids,       \* the ids that are UUIDs
  OtherAgent,  \* an id that is not served
  NoAgent,     \* no id in the request
  Gives        \* the kind of the values each run's agent gives

ASSUME ServedAssumption ==
  /\ Served # << >> /\ ~Known(Served, OtherAgent) /\ ~Known(Served, NoAgent)
ASSUME ClientsAssumption ==
  Posts = Clients /\ Gives \in [Runs -> {"null", "text", "object"}]

VARIABLES
  reply,     \* the answer given by the last step
  threaded,  \* the default agent keeps threads; it never changes
  touched,   \* the thread whose metadata the last step replaced
  agent,     \* DB._runs[r]["agent_id"]
  order,     \* the keys of DB._runs
  route      \* the API, runs or threads, through which each client waits

runVars == <<thread, owner, post, dbVars, queue, workerVars, tries, resumes, agent, order>>
apiVars == <<reply, touched, threaded, agent, order, route, threadVars>>

AgentIds == {Served[i].id : i \in DOMAIN Served}
Requests ==
  [agent : AgentIds \cup {OtherAgent, NoAgent},
   fits : BOOLEAN,              \* input and config match the agent's schemas
   mode : {"null", "values", "list", "object"},  \* stream_mode
   disconnect : {"cancel", "text"},              \* on_disconnect
   webhook : BOOLEAN]           \* it is a URL

\* The answer as the state keeps it: a refusal is a refusal, whatever its code.
NoReply == [to |-> "nobody", code |-> 0, run |-> NoRun, body |-> "none"]
ReplyWith(op, code, r, body) ==
  reply' = IF code = 200 THEN [to |-> op, code |-> code, run |-> r, body |-> body]
                         ELSE [NoReply EXCEPT !.to = "other", !.code = IF code >= 400 THEN 400 ELSE code]

\* An error that is answered after something was stored.
ReplyLate(op) == reply' = [NoReply EXCEPT !.to = op, !.code = 400]

Tell(op, code, r, body) == ReplyWith(op, code, r, body) /\ touched' = NoThread
TellLate(op) == ReplyLate(op) /\ touched' = NoThread
Quiet == reply' = NoReply /\ touched' = NoThread

\* A request that changes nothing.
Say(code) == Tell("other", code, NoRun, "none") /\ UNCHANGED <<threaded, runVars, waiter, route>>

ApiInit ==
  /\ ThreadInit
  /\ reply = NoReply /\ touched = NoThread /\ threaded \in BOOLEAN /\ order = << >>
  /\ agent = [r \in Runs |-> NoAgent] /\ route = [c \in Clients |-> "runs"]

-----------------------------------------------------------------------------
(* Authentication and validation                                           *)

\* Without the API_KEY there is, any request but for the two public pages.
Unauthenticated == Say(401)

\* The body, and whether the model takes it.
Body(q) ==
  [agent_id |-> IF q.agent = NoAgent THEN "null" ELSE "text",
   input |-> "object", config |-> Kind("Config", Config, [configurable |-> "object"]),
   webhook |-> "text", stream_mode |-> StreamModeOfBody(q.mode), on_disconnect |-> q.disconnect]

GetAgentSchemas(q) == IF Known(Served, q.agent) THEN "schemas" ELSE "ValueError"

ValidateRunCreate(q) ==
  CASE GetAgentSchemas(q) = "ValueError" -> "ValueError"
    [] ~q.fits -> "InvalidFormat"
    [] OTHER -> "valid"

\* The dependency of the route: it knows no default agent.
ValidateStateless(q) ==
  CASE ~Validates(RunCreateStateless, Body(q)) -> 422
    [] ValidateRunCreate(q) = "ValueError" -> 404
    [] ValidateRunCreate(q) = "InvalidFormat" -> 422
    [] OTHER -> 200

\* The dependency of the parameter, which does, too late.  No body gets here with
\* a stream mode.
ValidateStreamMode(q) == IF q.mode \in {"null", "values"} THEN 200 ELSE 501

\* An agent may be served under any id; only a UUID makes a stateless run.
MakeRun(q) == IF q.agent \in Uuids /\ q.webhook THEN 200 ELSE 500

\* The dependency of the thread routes: the default agent goes to a copy of the
\* request that is dropped, and a ValueError to nobody.
ValidateStateful(q) ==
  LET filled == IF q.agent = NoAgent THEN [q EXCEPT !.agent = DefaultAgent(Served)] ELSE q IN
  CASE ~Validates(RunCreateStateful, Body(q)) -> 422
    [] ValidateRunCreate(filled) = "ValueError" -> 500
    [] ValidateRunCreate(filled) = "InvalidFormat" -> 422
    [] OTHER -> 200

\* All that is asked of a request for a stateless run, in this order.
Judge(q) ==
  CASE ValidateStateless(q) # 200 -> ValidateStateless(q)
    [] ValidateStreamMode(q) # 200 -> ValidateStreamMode(q)
    [] OTHER -> MakeRun(q)

\* The answers to requests that are refused, and the agents named in the others.
Refused == {Judge(q) : q \in Requests} \ {200}
Accepted == {q.agent : q \in {q \in Requests : Judge(q) = 200}}
ThreadRefused == {ValidateStateful(q) : q \in Requests} \ {200}
ThreadAccepted == {q.agent : q \in {q \in Requests : ValidateStateful(q) = 200}}

-----------------------------------------------------------------------------
(* New stateless runs                                                      *)

\* Faulty Enqueue: RUNS_QUEUE.put is called and not awaited.
EnqueueNotAwaited(r, a, t) ==
  /\ status[r] = "new"
  /\ status' = [status EXCEPT ![r] = "pending"]
  /\ agent' = [agent EXCEPT ![r] = a]
  /\ owner' = [owner EXCEPT ![r] = t]
  /\ order' = Append(order, r)
  /\ UNCHANGED <<threaded, thread, output, attempts, queue, workerVars, tries, resumes>>

\* The run is stored and queued in one go.
Enqueue(r, a, t) ==
  /\ status[r] = "new"
  /\ status' = [status EXCEPT ![r] = "pending"]
  /\ agent' = [agent EXCEPT ![r] = a]
  /\ owner' = [owner EXCEPT ![r] = t]
  /\ order' = Append(order, r)
  /\ queue' = Append(queue, r)
  /\ UNCHANGED <<threaded, thread, output, attempts, workerVars, tries, resumes>>

\* The thread_id of a stateless run, and that of a copy, is a new one.  It is in the
\* answer, so that a client may name it later; NoThread is one that nobody names
\* again.  A bound: only that of a run of Deletable is named.
Fresh(t) == thread[t] = "absent" /\ \A r \in Runs : owner[r] # t
NewIds(r) == {t \in ThreadIds : r \in Deletable /\ Fresh(t)} \cup {NoThread}
Store(r, a) == \E t \in NewIds(r) : Enqueue(r, a, t)

\* Faulty RefuseRun: the webhook is looked at after the run is stored.
RefuseStored ==
  \/ \E code \in Refused \ {500} : Say(code)
  \/ /\ Tell("other", 500, NoRun, "none")
     /\ \E r \in Runs, a \in AgentIds : Store(r, a) /\ UNCHANGED <<post, waiter, route>>

RefuseRun == \E code \in Refused : Say(code)

CreateRun(r, a) ==
  /\ a \in Accepted
  /\ Store(r, a)
  /\ Tell("create", 200, r, "run")
  /\ UNCHANGED <<post, waiter, route>>

\* The answer is the stream, which is RunStream's.
CreateAndStream(r, a) ==
  /\ a \in Accepted
  /\ Store(r, a)
  /\ Tell("create", 200, r, "run")
  /\ UNCHANGED <<post, waiter, route>>

Free(c) == waiter[c] = Idle /\ post[c] = NoThread
Block(c, r, api) ==
  /\ waiter' = [waiter EXCEPT ![c] = [Idle EXCEPT !.at = "waiting", !.run = r]]
  /\ route' = [route EXCEPT ![c] = api]
  /\ Quiet

CreateAndWait(c, r, a) ==
  /\ Free(c)
  /\ a \in Accepted
  /\ Store(r, a)
  /\ Block(c, r, "runs")
  /\ UNCHANGED post

-----------------------------------------------------------------------------
(***************************************************************************)
(* New runs on threads.  Only the route that waits makes any: the one that *)
(* does not hands FastAPI a coroutine, and the one that streams is not     *)
(* implemented.                                                            *)
(***************************************************************************)
RefuseThreadRun == \E code \in ThreadRefused : Say(code)

CreateThreadRun == Say(500)
StreamNewThreadRun == Say(500)

\* The thread is looked up and its state asked for.
BeginThreadRun(p, t) ==
  /\ Free(p)
  /\ \/ BeginPost(p, t) /\ Quiet /\ UNCHANGED <<threaded, agent, order, route>>
     \/ thread[t] # "present" /\ Say(404)

\* The agent has no state to give, or the thread has a pending run.
EndThreadRun(p) ==
  /\ \/ ~threaded /\ AbortPost(p) /\ Tell("other", 500, NoRun, "none")
     \/ threaded /\ RejectPost(p) /\ Tell("other", 409, NoRun, "none")
  /\ UNCHANGED <<threaded, agent, order, route>>

StoreThreadRun(p, r, a) ==
  /\ threaded /\ post[p] # NoThread /\ ~HasPending(post[p])
  /\ Enqueue(r, a, post[p])
  /\ post' = [post EXCEPT ![p] = NoThread]

CreateThreadRunAndWait(p, r, a) ==
  /\ a \in ThreadAccepted \ {NoAgent} /\ StoreThreadRun(p, r, a)
  /\ Block(p, r, "threads")

\* A request without an agent passes too.  Its run is queued, and cannot be made
\* an answer.
CreateAgentless(p, r) ==
  /\ NoAgent \in ThreadAccepted
  /\ r \notin Hooked /\ StoreThreadRun(p, r, NoAgent)
  /\ TellLate("post")
  /\ UNCHANGED <<waiter, route>>

-----------------------------------------------------------------------------
(***************************************************************************)
(* What a client that waits is told of a run that is not pending, and how  *)
(* it reads it.  Only the stateless API knows interrupts, and the text of  *)
(* an error has to be one.  A run without an agent is no RunStateless and  *)
(* no RunStateful.                                                         *)
(***************************************************************************)

\* The config is stored as model_dump gives it, and read again.
Creation(r) ==
  [agent_id |-> IF agent[r] = NoAgent THEN "null" ELSE "text",
   thread_id |-> "text", input |-> "object", metadata |-> "null",
   config |-> Kind("Config", Config, ModelDump(Config, [configurable |-> "object"]))]

Stored(r, creation) ==
  [run_id |-> "text", thread_id |-> "text", agent_id |-> Creation(r).agent_id,
   created_at |-> "time", updated_at |-> "time", status |-> status[r], creation |-> creation]

StatelessRun(r) == Stored(r, Kind("RunCreateStateless", RunCreateStateless, Creation(r)))
StatefulRun(r) == Stored(r, Kind("RunCreateStateful", RunCreateStateful, Creation(r)))

\* The kind of what the run has given.
Given(r) ==
  CASE output[r] = "none" -> "null"
    [] output[r] = "error" -> "text"
    [] OTHER -> Gives[r]

Result(r) == [model |-> RunResult, given |-> [type |-> "result", values |-> Given(r)]]
\* By its name, whatever it is.
Interrupted(r) == [model |-> RunInterrupt, given |-> [type |-> "interrupt", interrupt |-> "object"]]
Failed(r) ==
  [model |-> RunError,
   given |-> [type |-> "error", run_id |-> "text", errcode |-> "number", description |-> Given(r)]]

\* What cannot be made an answer is a 500.
Respond(response, run, out) ==
  IF Validates(response, [run |-> run, output |-> Kind("RunOutput", out.model, out.given)])
  THEN [code |-> 200, body |-> ReadAs(RunOutput, ToDict(out.model, out.given))]
  ELSE [code |-> 500, body |-> "none"]

Succeeded(r) == status[r] = "success" /\ Given(r) # "null"

StatefulReply(r) ==
  Respond(RunWaitResponseStateful, Kind("RunStateful", RunStateful, StatefulRun(r)),
          IF Succeeded(r) THEN Result(r) ELSE Failed(r))

\* Faulty StatelessReply: it goes by the output, not by the status.
ReplyByOutput(r) ==
  Respond(RunWaitResponseStateless, Kind("RunStateless", RunStateless, StatelessRun(r)),
          CASE output[r] = "interrupt" -> Interrupted(r)
            [] Succeeded(r) -> Result(r)
            [] OTHER -> Failed(r))

StatelessReply(r) ==
  Respond(RunWaitResponseStateless, Kind("RunStateless", RunStateless, StatelessRun(r)),
          CASE Succeeded(r) -> Result(r)
            [] status[r] = "interrupted" -> Interrupted(r)
            [] OTHER -> Failed(r))

TellRun(r, api) ==
  IF api = "threads" THEN Tell("waitThread", StatefulReply(r).code, r, StatefulReply(r).body)
                     ELSE Tell("wait", StatelessReply(r).code, r, StatelessReply(r).body)

\* wait_for_output when it is called: what is not pending is answered at once.
WaitForOutput(c, r, api) ==
  /\ Free(c)
  /\ IF status[r] = "pending" THEN Block(c, r, api)
     ELSE /\ IF Present(r) THEN TellRun(r, api) ELSE Tell("wait", 404, r, "none")
          /\ UNCHANGED <<waiter, route>>
  /\ UNCHANGED <<threaded, runVars>>

\* When it is notified: a run deleted meanwhile breaks it.
AnswerWaiter(c) ==
  LET r == waiter[c].run IN
  /\ waiter[c].at = "woken"
  /\ IF status[r] = "pending" THEN Block(c, r, route[c])
     ELSE /\ waiter' = [waiter EXCEPT ![c] = Idle]
          /\ route' = [route EXCEPT ![c] = "runs"]
          /\ IF Present(r) THEN TellRun(r, route[c]) ELSE Tell("wait", 500, r, "none")
  /\ UNCHANGED <<threaded, runVars>>

WaitForRun(c, r) == WaitForOutput(c, r, "runs")

\* Any thread will do: it is not compared with the run's.
WaitForThreadRun(c, t, r) ==
  /\ Free(c)
  /\ \/ thread[t] # "present" /\ Say(404)
     \/ thread[t] = "present" /\ ~threaded /\ Say(422)
     \/ thread[t] = "present" /\ threaded /\ WaitForOutput(c, r, "threads")

-----------------------------------------------------------------------------
(* Existing runs                                                           *)

GetRun(r) ==
  CASE ~Present(r) -> 404
    [] ~Validates(RunStateless, StatelessRun(r)) -> 500
    [] OTHER -> 200

\* Only that it exists is looked at before the stream is joined.
StreamRun(r) == IF Present(r) THEN 200 ELSE 404

\* Faulty Slice: the limit first, then the offset.
SliceOfLimit(s, offset, limit) ==
  LET n == IF Len(s) < limit THEN Len(s) ELSE limit IN SubSeq(s, offset + 1, n)

\* The two islices.
Slice(s, offset, limit) ==
  LET n == IF Len(s) < offset + limit THEN Len(s) ELSE offset + limit IN SubSeq(s, offset + 1, n)

\* Without metadata: those break the search as soon as there is a run to look at.
SearchForRuns(a, s, offset, limit) ==
  Slice(Matching(order, {r \in Runs : agent[r] = a /\ status[r] = s}), offset, limit)

\* The default agent is filled in.
SearchRuns(a, s, offset, limit) ==
  SearchForRuns(IF a = NoAgent THEN DefaultAgent(Served) ELSE a, s, offset, limit)

\* Against the schema of the interrupt the run waits in.
ValidateResumeRun(r, fits) ==
  CASE status[r] # "interrupted" -> "ValueError"
    [] ~fits -> "InvalidFormat"
    [] OTHER -> "valid"

\* Validation and Runs.resume, in one step: neither suspends.
ResumeRun(r) ==
  \/ ValidateResumeRun(r, TRUE) = "ValueError" /\ Say(400)
  \/ ValidateResumeRun(r, FALSE) = "InvalidFormat" /\ Say(422)
  \/ /\ ValidateResumeRun(r, TRUE) = "valid"
     /\ Resume(r)
     /\ Tell("resume", 200, r, "run")
     /\ UNCHANGED <<threaded, agent, order, route, thread, owner, post>>

Forgotten(r) == \E i \in DOMAIN order : order[i] = r /\ order' = RemoveAt(order, i)

\* Faulty DeleteThreadRun: whose the run is is not asked.
DeleteAnyRun(t, r) ==
  \/ thread[t] # "present" /\ Say(404)
  \/ thread[t] = "present" /\ ~Present(r) /\ Say(204)
  \/ /\ thread[t] = "present" /\ Delete(r) /\ Forgotten(r)
     /\ Tell("other", 204, NoRun, "none")
     /\ UNCHANGED <<threaded, agent, route, thread, owner, post>>

\* A run that is not there counts as deleted.
DeleteThreadRun(t, r) ==
  \/ thread[t] # "present" /\ Say(404)
  \/ thread[t] = "present" /\ ~Present(r) /\ Say(204)
  \/ thread[t] = "present" /\ Present(r) /\ owner[r] # t /\ Say(422)
  \/ DeleteRun(t, r) /\ Forgotten(r) /\ Tell("other", 204, NoRun, "none") /\ UNCHANGED <<threaded, agent, route>>

\* What cannot be made an answer is a ValueError too.
GetThreadRun(t, r) ==
  CASE thread[t] # "present" \/ ~Present(r) -> 404
    [] owner[r] # t \/ ~Validates(RunStateful, StatefulRun(r)) -> 422
    [] OTHER -> 200

\* Whatever goes wrong is a 404; limit and offset are not looked at.
ThreadRunsOf(t) == {r \in Runs : Present(r) /\ owner[r] = t}
ListThreadRuns(t) ==
  IF /\ thread[t] = "present"
     /\ \A r \in ThreadRunsOf(t) : Validates(RunStateful, StatefulRun(r))
  THEN 200 ELSE 404

CancelRun == Say(500)
DeleteStatelessRun == Say(500)
CancelThreadRun == Say(500)
StreamThreadRun == Say(500)
ResumeThreadRun == Say(500)

-----------------------------------------------------------------------------
(* Threads.  What becomes of their states is in Threads.                   *)

\* The bodies of a creation, those its model takes, and those that want no thread
\* that exists, which is the default of if_exists.
NewThreads ==
  {[thread_id |-> "text"]} \cup
  {[thread_id |-> "text", if_exists |-> kind] : kind \in {"do_nothing", "text"}}
NewThreadsTaken == {given \in NewThreads : Validates(ThreadCreate, given)}
Raising == {given \in NewThreads : ModelDump(ThreadCreate, given).if_exists = "raise"}

NewThread(t, given) ==
  \/ given \notin NewThreadsTaken /\ Say(422)
  \/ /\ given \in NewThreadsTaken /\ CreateThread(t) /\ Tell("other", 200, NoRun, "none")
     /\ UNCHANGED <<threaded, agent, order, route>>
  \/ /\ given \in NewThreadsTaken /\ thread[t] = "present"
     /\ Say(IF given \in Raising THEN 409 ELSE 200)

\* No thread to copy makes no answer.  The record of the copy is stored before the
\* agent, which may keep no threads or fail, is asked for the state.
CopyThread(t) ==
  \/ thread[t] # "present" /\ Say(500)
  \/ thread[t] = "present" /\ \E code \in {500, IF threaded THEN 200 ELSE 500} : Say(code)
  \/ /\ thread[t] = "present"
     /\ \E u \in ThreadIds : Fresh(u) /\ thread' = [thread EXCEPT ![u] = "present"]
     /\ TellLate("copy") \/ (threaded /\ Tell("other", 200, NoRun, "none"))
     /\ UNCHANGED <<threaded, agent, order, route, owner, post, vars>>

RemoveThread(t) ==
  \/ HasPending(t) /\ Say(422)
  \/ thread[t] # "present" /\ ~HasPending(t) /\ Say(404)
  \/ DeleteThread(t) /\ Tell("other", 200, NoRun, "none") /\ UNCHANGED <<threaded, agent, order, route>>

GetThread(t) == CASE thread[t] # "present" -> 404 [] ~threaded -> 422 [] OTHER -> 200

\* The bodies of a patch, and those its model takes.
Checkpointed(checkpoint) == Kind("ThreadCheckpoint", ThreadCheckpoint, checkpoint)
Patches ==
  {[metadata |-> "object"], [checkpoint |-> Checkpointed([checkpoint_id |-> "null"])],
   [values |-> "object", metadata |-> "object", checkpoint |-> Checkpointed([checkpoint_id |-> "text"])]}
PatchesTaken == {given \in Patches : Validates(ThreadPatch, given)}

\* With the state, an agent that keeps threads and takes it is needed.  Then the
\* metadata is replaced, if there is any, and only then the thread is read.
PatchThread(t, given) ==
  LET stateful == {"checkpoint", "values"} \subseteq DOMAIN given IN
  \/ given \notin PatchesTaken /\ Say(422)
  \/ given \in PatchesTaken /\ thread[t] # "present" /\ Say(404)
  \/ given \in PatchesTaken /\ thread[t] = "present" /\ stateful /\ Say(422)
  \/ /\ given \in PatchesTaken /\ thread[t] = "present" /\ (stateful => threaded)
     /\ touched' = IF "metadata" \in DOMAIN given THEN t ELSE NoThread
     /\ ReplyLate("patch") \/ (threaded /\ ReplyWith("other", 200, NoRun, "none"))
     /\ UNCHANGED <<threaded, agent, order, route, threadVars>>

-----------------------------------------------------------------------------
\* The workers; a run without an agent fails.
Work ==
  /\ (\E w \in Workers : Worker(w)) \/ CancelWorkers
  /\ \A r \in Runs : agent[r] = NoAgent => status'[r] \notin {"success", "interrupted"}
  /\ Quiet /\ UNCHANGED <<threaded, agent, order, route, thread, owner, post>>

Create ==
  \/ CreateThreadRun \/ StreamNewThreadRun
  \/ RefuseRun \/ RefuseThreadRun
  \/ \E r \in Runs, a \in AgentIds :
       CreateRun(r, a) \/ CreateAndStream(r, a) \/ \E c \in Clients : CreateAndWait(c, r, a)

PostThreadRun(p) ==
  \/ EndThreadRun(p)
  \/ \E t \in ThreadIds : BeginThreadRun(p, t)
  \/ \E r \in Runs : CreateAgentless(p, r) \/ \E a \in AgentIds : CreateThreadRunAndWait(p, r, a)

Await(c) ==
  \/ AnswerWaiter(c)
  \/ \E r \in Runs : WaitForRun(c, r) \/ \E t \in ThreadIds : WaitForThreadRun(c, t, r)

ChangeRun(r) == ResumeRun(r) \/ \E t \in ThreadIds : DeleteThreadRun(t, r)

ChangeThread(t) ==
  \/ RemoveThread(t) \/ CopyThread(t)
  \/ \E given \in NewThreads : NewThread(t, given)
  \/ \E given \in Patches : PatchThread(t, given)

Refuse ==
  \/ Unauthenticated
  \/ CancelRun \/ DeleteStatelessRun \/ CancelThreadRun \/ StreamThreadRun \/ ResumeThreadRun

ApiNext ==
  \/ Work \/ Create \/ Refuse
  \/ \E p \in Posts : PostThreadRun(p)
  \/ \E c \in Clients : Await(c)
  \/ \E r \in Runs : ChangeRun(r)
  \/ \E t \in ThreadIds : ChangeThread(t)

ApiSpec == ApiInit /\ [][ApiNext]_apiVars

-----------------------------------------------------------------------------
(* Properties *)

ApiTypeOK ==
  /\ TypeOK /\ ThreadTypeOK
  /\ reply \in [to : {"nobody", "create", "wait", "waitThread", "resume", "post", "copy", "patch", "other"},
                code : {0, 200, 204, 400}, run : Runs \cup {NoRun},
                body : {"none", "run", "result", "interrupt", "error"}]
  /\ threaded \in BOOLEAN
  /\ touched # NoThread => touched \in ThreadIds /\ thread[touched] = "present"
  /\ agent \in [Runs -> AgentIds \cup {NoAgent}] /\ route \in [Clients -> {"runs", "threads"}]
  /\ order \in Seq(Runs) /\ \A i, j \in DOMAIN order : order[i] = order[j] => i = j
  /\ \A r \in Runs : Present(r) <=> \E i \in DOMAIN order : order[i] = r

\* A run a client is told of, when it creates or resumes it, is pending and will
\* be executed: it has its place in the queue, one only, and no worker yet.
AcceptedIsQueued ==
  reply.to \in {"create", "resume"} /\ reply.code = 200 =>
    /\ status[reply.run] = "pending"
    /\ Cardinality({i \in DOMAIN queue : queue[i] = reply.run}) = 1
    /\ \A w \in Workers : Active(w) => job[w] # reply.run

\* A request that is answered with an error has changed nothing, but for three that
\* fail after they have stored something, and leave just that: a run of a thread,
\* without an agent; the record of a copy; and the metadata of a patch.
Traceless ==
  CASE reply'.to = "post" ->
         /\ UNCHANGED <<thread, output>> /\ touched' = NoThread
         /\ \E r \in Runs :
              /\ status[r] = "new" /\ status' = [status EXCEPT ![r] = "pending"]
              /\ order' = Append(order, r) /\ queue' = Append(queue, r) /\ agent'[r] = NoAgent
    [] reply'.to = "copy" ->
         /\ UNCHANGED <<owner, dbVars, queue, order, agent>> /\ touched' = NoThread
         /\ \E t, u \in ThreadIds :
              thread[t] = "present" /\ Fresh(u) /\ thread' = [thread EXCEPT ![u] = "present"]
    [] reply'.to = "patch" ->
         /\ UNCHANGED <<thread, owner, dbVars, queue, order, agent>>
         /\ touched' # NoThread => thread[touched'] = "present"
    [] OTHER -> UNCHANGED <<thread, owner, dbVars, queue, order, agent>> /\ touched' = NoThread
RefusedLeavesNoTrace == [][reply'.code >= 400 => Traceless]_apiVars

\* Whatever webhooks, retries, resumptions and deletions do while a client waits,
\* an answer that says what became of a run is read as one kind of output and no
\* other, and says it of the run as it is.  But for one: the API of threads knows no
\* interrupts, and tells one whose value is a text as an error.
WaitReplyFits ==
  reply.to \in {"wait", "waitThread"} /\ reply.code = 200 =>
    CASE reply.body = "result" -> status[reply.run] = "success" /\ output[reply.run] = "value"
      [] reply.body = "interrupt" -> status[reply.run] = "interrupted" /\ output[reply.run] = "interrupt"
      [] reply.body = "error" ->
           \/ status[reply.run] = "error"
           \/ reply.to = "waitThread" /\ status[reply.run] = "interrupted" /\ Gives[reply.run] = "text"
      [] OTHER -> FALSE

\* A run is deleted only by a request that names the run's own thread_id, while there
\* is a thread with that id: the one it was posted to, or, if it was posted to none,
\* one that was made later under the id it was given.
DeletedThroughItsThread ==
  [][\A r \in Runs : Present(r) /\ status'[r] = "gone" =>
       /\ owner[r] \in ThreadIds /\ thread[owner[r]] = "present"
       /\ reply'.code = 204]_apiVars

\* What the endpoints show of the runs agrees.  Page after page, the search gives
\* each run of an agent and a status once, and no other; what it gives can be got
\* and streamed; and of a thread that can be listed, every run can be got through
\* that thread and as a run of its own.
ViewsAgree ==
  /\ \A a \in AgentIds, s \in {status[r] : r \in Runs}, limit \in 1..Len(order) :
       LET pages == [k \in 0..Len(order) |-> SearchRuns(a, s, k * limit, limit)]
           found(r) == {p \in (DOMAIN pages) \X (1..limit) : p[2] \in DOMAIN pages[p[1]] /\ pages[p[1]][p[2]] = r} IN
       \A r \in Runs :
         /\ Cardinality(found(r)) = IF Present(r) /\ status[r] = s /\ agent[r] = a THEN 1 ELSE 0
         /\ found(r) # {} => GetRun(r) = 200 /\ StreamRun(r) = 200
  /\ \A t \in ThreadIds : ListThreadRuns(t) = 200 =>
       GetThread(t) # 404 /\ \A r \in ThreadRunsOf(t) : GetThreadRun(t, r) = 200 /\ GetRun(r) = 200
=============================================================================
