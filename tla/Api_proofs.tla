----------------------------- MODULE Api_proofs -----------------------------
(***************************************************************************)
(* What holds of the HTTP interface for every set of runs, threads,        *)
(* workers and clients and every list of served agents.  An endpoint       *)
(* drives the queue by storing a run, resuming it or deleting it, and what *)
(* it does to those who wait it does in the same step: so what is proved   *)
(* of the queue's operations is used here operation by operation.          *)
(***************************************************************************)
EXTENDS Api, ThreadRuns_proofs, Tables_proofs

-----------------------------------------------------------------------------
(***************************************************************************)
(* The steps, by what they do.  Whatever its route, a request is answered  *)
(* and changes nothing, stores a run, changes the threads, asks what       *)
(* became of a run, resumes one or deletes one.                            *)
(***************************************************************************)
Codes == {200, 204, 400, 401, 404, 409, 422, 500, 501}

\* A run is stored and queued, under some thread_id.
Enqueued(r, a) == \E t : Enqueue(r, a, t)

\* It is for a thread that was looked up, or under a new id; who asked is told at
\* once, or waits.
Admission(r, a) ==
  /\ \E t \in ThreadIds \cup {NoThread} \cup {post[p] : p \in Posts} : Enqueue(r, a, t)
  /\ UNCHANGED post \/ \E p \in Posts : post' = [post EXCEPT ![p] = NoThread]
  /\ \/ Tell("create", 200, r, "run") /\ UNCHANGED <<waiter, route>>
     \/ \E c \in Clients, api \in {"runs", "threads"} : Block(c, r, api)
     \/ a = NoAgent /\ TellLate("post") /\ UNCHANGED <<waiter, route>>

\* A post begins or ends without a run; a thread is made or deleted.
OnThreads ==
  /\ \/ /\ \E p \in Posts : RejectPost(p) \/ AbortPost(p) \/ \E t \in ThreadIds : BeginPost(p, t)
        /\ Quiet \/ \E code \in Codes : Tell("other", code, NoRun, "none")
     \/ /\ \E t \in ThreadIds : CreateThread(t) \/ DeleteThread(t)
        /\ Tell("other", 200, NoRun, "none")
  /\ UNCHANGED <<threaded, agent, order, route>>

\* A thread is copied, or gets its metadata.
OnCopies ==
  /\ \E t, u \in ThreadIds : thread[t] = "present" /\ Fresh(u) /\ thread' = [thread EXCEPT ![u] = "present"]
  /\ TellLate("copy") \/ Tell("other", 200, NoRun, "none")
  /\ UNCHANGED <<threaded, agent, order, route, owner, post, vars>>

OnPatches ==
  /\ touched' # NoThread => touched' \in ThreadIds /\ thread[touched'] = "present"
  /\ ReplyLate("patch") \/ ReplyWith("other", 200, NoRun, "none")
  /\ UNCHANGED <<threaded, agent, order, route, threadVars>>

Resumption(r) ==
  /\ Resume(r) /\ Tell("resume", 200, r, "run")
  /\ UNCHANGED <<threaded, agent, order, route, thread, owner, post>>

Deletion(t, r) ==
  /\ DeleteRun(t, r) /\ Forgotten(r)
  /\ Tell("other", 204, NoRun, "none")
  /\ UNCHANGED <<threaded, agent, route>>

\* A request is refused with one of the codes.
LEMMA RefusalCodes == Refused \subseteq Codes /\ ThreadRefused \subseteq Codes
<1>1. ASSUME NEW q \in Requests PROVE Judge(q) \in Codes
  BY DEF Judge, ValidateStateless, ValidateStreamMode, MakeRun, Codes
<1>2. ASSUME NEW q \in Requests PROVE ValidateStateful(q) \in Codes
  BY DEF ValidateStateful, Codes
<1> QED
  BY <1>1, <1>2 DEF Refused, ThreadRefused

\* Each kind of request is of one of these kinds.
LEMMA CreateCases ==
  ASSUME Create
  PROVE  (\E code \in Codes : Say(code)) \/ \E r \in Runs, a \in AgentIds : Admission(r, a)
<1>1. ASSUME CreateThreadRun \/ StreamNewThreadRun \/ RefuseRun \/ RefuseThreadRun
      PROVE  \E code \in Codes : Say(code)
  BY <1>1, RefusalCodes DEF CreateThreadRun, StreamNewThreadRun, RefuseRun, RefuseThreadRun, Codes
<1>2. ASSUME NEW r \in Runs, NEW a \in AgentIds, CreateRun(r, a) \/ CreateAndStream(r, a) PROVE Admission(r, a)
  BY <1>2 DEF CreateRun, CreateAndStream, Store, NewIds, Admission
<1>3. ASSUME NEW r \in Runs, NEW a \in AgentIds, NEW c \in Clients, CreateAndWait(c, r, a) PROVE Admission(r, a)
  BY <1>3 DEF CreateAndWait, Store, NewIds, Admission
<1> QED
  BY <1>1, <1>2, <1>3 DEF Create

\* A post to a thread is refused, waits in the agent, is given up or stores a run.
LEMMA PostCases ==
  ASSUME NEW p \in Posts, PostThreadRun(p)
  PROVE  \/ \E code \in Codes : Say(code)
         \/ OnThreads
         \/ \E r \in Runs, a \in AgentIds \cup {NoAgent} : Admission(r, a)
<1>1. CASE EndThreadRun(p)
  BY <1>1 DEF EndThreadRun, OnThreads, Codes
<1>2. ASSUME NEW t \in ThreadIds, BeginThreadRun(p, t) PROVE OnThreads \/ \E code \in Codes : Say(code)
  BY <1>2 DEF BeginThreadRun, OnThreads, Codes
<1>3. ASSUME NEW r \in Runs, CreateAgentless(p, r) PROVE Admission(r, NoAgent)
  BY <1>3 DEF CreateAgentless, StoreThreadRun, Admission
<1>4. ASSUME NEW r \in Runs, NEW a \in AgentIds, CreateThreadRunAndWait(p, r, a) PROVE Admission(r, a)
  <2>1. p \in Clients
    BY ClientsAssumption
  <2> QED
    BY <1>4, <2>1 DEF CreateThreadRunAndWait, StoreThreadRun, Admission
<1> QED
  BY <1>1, <1>2, <1>3, <1>4 DEF PostThreadRun

\* A wait is refused, begins, or ends with what its client is told.
LEMMA AwaitCases ==
  ASSUME NEW c \in Clients, Await(c)
  PROVE  \/ \E code \in Codes : Say(code)
         \/ AnswerWaiter(c)
         \/ \E r \in Runs, api \in {"runs", "threads"} : WaitForOutput(c, r, api)
<1>1. ASSUME NEW r \in Runs, WaitForRun(c, r)
      PROVE  \E api \in {"runs", "threads"} : WaitForOutput(c, r, api)
  BY <1>1 DEF WaitForRun
<1>2. ASSUME NEW r \in Runs, NEW t \in ThreadIds, WaitForThreadRun(c, t, r)
      PROVE  \/ \E code \in Codes : Say(code)
             \/ \E api \in {"runs", "threads"} : WaitForOutput(c, r, api)
  BY <1>2 DEF WaitForThreadRun, Codes
<1> QED
  BY <1>1, <1>2 DEF Await

\* A run is resumed or deleted, or the request is refused.
LEMMA ChangeCases ==
  ASSUME NEW r \in Runs, ChangeRun(r)
  PROVE  (\E code \in Codes : Say(code)) \/ Resumption(r) \/ \E t \in ThreadIds : Deletion(t, r)
<1>1. ASSUME ResumeRun(r) PROVE Resumption(r) \/ \E code \in Codes : Say(code)
  <2>1. 400 \in Codes /\ 422 \in Codes
    BY DEF Codes
  <2> QED
    BY <1>1, <2>1, Zenon DEF ResumeRun, Resumption
<1>2. ASSUME NEW t \in ThreadIds, DeleteThreadRun(t, r) PROVE Deletion(t, r) \/ \E code \in Codes : Say(code)
  BY <1>2 DEF DeleteThreadRun, Deletion, Codes
<1> QED
  BY <1>1, <1>2 DEF ChangeRun

\* A thread is made, copied, patched or deleted, or the request is only answered.
LEMMA ThreadCases ==
  ASSUME NEW t \in ThreadIds, ChangeThread(t)
  PROVE  OnThreads \/ OnCopies \/ OnPatches \/ \E code \in Codes : Say(code)
<1>1. CASE RemoveThread(t)
  BY <1>1 DEF RemoveThread, OnThreads, Codes
<1>2. CASE CopyThread(t)
  BY <1>2 DEF CopyThread, OnCopies, Codes
<1>3. ASSUME NEW given, PatchThread(t, given)
      PROVE  OnPatches \/ \E code \in Codes : Say(code)
  BY <1>3 DEF PatchThread, OnPatches, Codes
<1>4. ASSUME NEW given, NewThread(t, given) PROVE OnThreads \/ \E code \in Codes : Say(code)
  BY <1>4 DEF NewThread, OnThreads, Codes
<1> QED
  BY <1>1, <1>2, <1>3, <1>4 DEF ChangeThread

\* All steps.
LEMMA ApiCases ==
  ASSUME ApiNext
  PROVE  \/ Work
         \/ \E code \in Codes : Say(code)
         \/ OnThreads \/ OnCopies \/ OnPatches
         \/ \E r \in Runs, a \in AgentIds \cup {NoAgent} : Admission(r, a)
         \/ \E c \in Clients : AnswerWaiter(c) \/ \E r \in Runs, api \in {"runs", "threads"} : WaitForOutput(c, r, api)
         \/ \E r \in Runs : Resumption(r) \/ \E t \in ThreadIds : Deletion(t, r)
<1>1. ASSUME Refuse PROVE \E code \in Codes : Say(code)
  BY <1>1 DEF Refuse, Unauthenticated, CancelRun, DeleteStatelessRun, CancelThreadRun, StreamThreadRun,
              ResumeThreadRun, Codes
<1> QED
  BY <1>1, CreateCases, PostCases, AwaitCases, ChangeCases, ThreadCases DEF ApiNext

-----------------------------------------------------------------------------
(***************************************************************************)
(* What the queue sees of a step: one of its own, a run put, or nothing.   *)
(* Only the requests that wait are the interface's own affair.             *)
(***************************************************************************)
LEMMA QueueCases ==
  ASSUME [ApiNext]_apiVars
  PROVE  \/ (\E w \in Workers : Worker(w)) \/ CancelWorkers
         \/ \E r \in Runs, a \in AgentIds \cup {NoAgent} : Enqueued(r, a)
         \/ \E r \in Runs : Resume(r) \/ Delete(r)
         \/ UNCHANGED <<dbVars, queue, workerVars, tries, resumes>>
<1>1. ASSUME OnThreads \/ OnCopies \/ OnPatches PROVE UNCHANGED vars
  BY <1>1 DEF OnThreads, OnCopies, OnPatches, RejectPost, AbortPost, BeginPost, CreateThread, DeleteThread,
              threadVars
<1>2. ASSUME NEW code \in Codes, Say(code) PROVE UNCHANGED vars
  BY <1>2 DEF Say, runVars, vars, dbVars, workerVars
<1>3. ASSUME NEW c \in Clients,
             AnswerWaiter(c) \/ \E r \in Runs, api \in {"runs", "threads"} : WaitForOutput(c, r, api)
      PROVE  UNCHANGED <<dbVars, queue, workerVars, tries, resumes>>
  <2>1. UNCHANGED runVars
    BY <1>3, Zenon DEF AnswerWaiter, WaitForOutput
  <2> QED
    BY <2>1 DEF runVars
<1>4. ASSUME UNCHANGED apiVars PROVE UNCHANGED vars
  BY <1>4 DEF apiVars, threadVars
<1>5. UNCHANGED vars => UNCHANGED <<dbVars, queue, workerVars, tries, resumes>>
  BY DEF vars, dbVars, workerVars
<1> QED
  BY <1>1, <1>2, <1>3, <1>4, <1>5, ApiCases DEF Work, Admission, Enqueued, Resumption, Deletion, DeleteRun

-----------------------------------------------------------------------------
(***************************************************************************)
(* What a waiter is told.  A client knows the output by its type alone; so *)
(* what is sent is read by one model, and by no other.                     *)
(***************************************************************************)

\* What an output's constructor took, its client reads by its type.
LEMMA OutputRead ==
  ASSUME NEW model \in RunOutput, NEW given, Validates(model, given), DOMAIN given \subseteq DOMAIN model.fields,
         "type" \in DOMAIN given, \A f \in DOMAIN given : given[f] # "null",
         \A f \in DOMAIN model.fields \ DOMAIN given : f = "messages"
  PROVE  ReadAs(RunOutput, ToDict(model, given)) = given["type"]
<1> DEFINE sent == ToDict(model, given)
<1>1. \A m \in RunOutput : /\ "type" \in DOMAIN m.fields /\ m.defaults = NoDefaults
                           /\ "messages" \in DOMAIN m.fields => "null" \in m.fields["messages"]
  BY DEF RunOutput, RunResult, RunInterrupt, RunError
<1>2. \A f : Default(model, f) = "null"
  BY <1>1 DEF Default, NoDefaults
<1>3. FromDict(model, sent) /\ "type" \in DOMAIN sent /\ sent["type"] = given["type"]
  BY <1>1, <1>2, ReadBack
<1> HIDE DEF sent
<1>4. ASSUME NEW m \in RunOutput, FromDict(m, sent) PROVE m = model
  <2>1. sent["type"] \in m.fields["type"]
    BY <1>1, <1>3, <1>4, TypeTells
  <2>2. sent["type"] \in model.fields["type"]
    BY <1>1, <1>3, TypeTells
  <2>3. /\ RunResult.fields["type"] = {"result"} /\ RunInterrupt.fields["type"] = {"interrupt"}
        /\ RunError.fields["type"] = {"error"}
    BY DEF RunResult, RunInterrupt, RunError
  <2> QED
    BY <2>1, <2>2, <2>3 DEF RunOutput
<1>5. ReadAs(RunOutput, sent) = sent["type"]
  BY <1>3, <1>4, OneReads
<1> QED
  BY <1>3, <1>5 DEF sent

\* What the output of a run is told as, by the model it is made with.
LEMMA OutputTold ==
  ASSUME NEW r \in Runs, NEW out \in {Result(r), Interrupted(r), Failed(r)},
         Validates(out.model, out.given), out = Result(r) => Given(r) # "null"
  PROVE  /\ out = Result(r) => ReadAs(RunOutput, ToDict(out.model, out.given)) = "result"
         /\ out = Interrupted(r) => ReadAs(RunOutput, ToDict(out.model, out.given)) = "interrupt"
         /\ out = Failed(r) => /\ ReadAs(RunOutput, ToDict(out.model, out.given)) = "error"
                               /\ Given(r) = "text"
<1>1. Given(r) \in {"null", "text", "object"}
  BY ClientsAssumption DEF Given
<1>2. CASE out = Result(r)
  <2>1. ReadAs(RunOutput, ToDict(out.model, out.given)) = out.given["type"]
    <3>1. out.model = RunResult /\ out.given = [type |-> "result", values |-> Given(r)]
      BY <1>2 DEF Result
    <3>2. RunResult \in RunOutput /\ DOMAIN RunResult.fields = {"type", "values", "messages"}
      BY DEF RunOutput, RunResult
    <3> QED
      BY <1>2, <3>1, <3>2, OutputRead
  <2> QED
    BY <1>2, <2>1 DEF Result, Interrupted, Failed
<1>3. CASE out = Interrupted(r)
  <2>1. ReadAs(RunOutput, ToDict(out.model, out.given)) = out.given["type"]
    <3>1. out.model = RunInterrupt /\ out.given = [type |-> "interrupt", interrupt |-> "object"]
      BY <1>3 DEF Interrupted
    <3>2. RunInterrupt \in RunOutput /\ DOMAIN RunInterrupt.fields = {"type", "interrupt"}
      BY DEF RunOutput, RunInterrupt
    <3> QED
      BY <3>1, <3>2, OutputRead
  <2> QED
    BY <1>3, <2>1 DEF Result, Interrupted, Failed
<1>4. CASE out = Failed(r)
  <2>1. /\ out.model = RunError
        /\ out.given = [type |-> "error", run_id |-> "text", errcode |-> "number", description |-> Given(r)]
    BY <1>4 DEF Failed
  <2>2. RunError \in RunOutput /\ DOMAIN RunError.fields = {"type", "run_id", "errcode", "description"}
    BY DEF RunOutput, RunError
  <2>3. Given(r) = "text"
    <3>1. Given(r) \in RunError.fields["description"]
      BY <2>1, <2>2 DEF Validates
    <3>2. RunError.fields["description"] = Texts /\ "null" \notin Texts /\ "object" \notin Texts
      BY DEF RunError, Texts, Literals, RunStatus, StreamingMode
    <3> QED
      BY <1>1, <3>1, <3>2
  <2>4. ReadAs(RunOutput, ToDict(out.model, out.given)) = out.given["type"]
    BY <2>1, <2>2, <2>3, OutputRead
  <2> QED
    BY <1>4, <2>1, <2>3, <2>4 DEF Result, Interrupted, Failed
<1> QED
  BY <1>2, <1>3, <1>4

\* A response is made of an output its model takes.
LEMMA RespondsWith ==
  ASSUME NEW response \in {RunWaitResponseStateless, RunWaitResponseStateful}, NEW run, NEW out,
         NEW a, a = Respond(response, run, out)
  PROVE  \/ a = [code |-> 500, body |-> "none"]
         \/ /\ Validates(out.model, out.given)
            /\ a = [code |-> 200, body |-> ReadAs(RunOutput, ToDict(out.model, out.given))]
<1> DEFINE told == [run |-> run, output |-> Kind("RunOutput", out.model, out.given)]
<1>1. ASSUME Validates(response, told) PROVE Validates(out.model, out.given)
  <2>1. "output" \in DOMAIN response.fields /\ response.fields["output"] = {"null", "RunOutput"}
    BY DEF RunWaitResponseStateless, RunWaitResponseStateful
  <2>2. told["output"] \in response.fields["output"]
    BY <1>1, <2>1 DEF Validates
  <2> QED
    BY <2>1, <2>2 DEF Kind
<1> QED
  BY <1>1 DEF Respond

Refusal == [to |-> "other", code |-> 400, run |-> NoRun, body |-> "none"]
Told(api, r, body) ==
  [to |-> IF api = "threads" THEN "waitThread" ELSE "wait", code |-> 200, run |-> r, body |-> body]

\* An error is told as an error, whatever its code.
LEMMA ErrorTold ==
  ASSUME NEW op, NEW code \in {400, 401, 404, 409, 422, 500, 501}, NEW r, NEW body, Tell(op, code, r, body)
  PROVE  reply' = Refusal
<1>1. code # 200 /\ code >= 400
  OBVIOUS
<1>2. reply' = [NoReply EXCEPT !.to = "other", !.code = 400]
  BY <1>1, Zenon DEF Tell, ReplyWith
<1> DEFINE other == [to |-> "other", code |-> 0, run |-> NoRun, body |-> "none"]
<1>3. [NoReply EXCEPT !.to = "other"] = other
  BY DEF NoReply
<1>4. [other EXCEPT !.code = 400] = Refusal
  BY DEF Refusal
<1> HIDE DEF other
<1> QED
  BY <1>2, <1>3, <1>4, Zenon

\* Who waited is told the output its run's status announces, or that it cannot be told.
LEMMA TellsFit ==
  ASSUME NEW r \in Runs, NEW api, TellRun(r, api)
  PROVE  \/ reply' = Refusal
         \/ reply' = Told(api, r, "result") /\ Succeeded(r)
         \/ reply' = Told(api, r, "interrupt") /\ status[r] = "interrupted"
         \/ /\ reply' = Told(api, r, "error") /\ ~Succeeded(r) /\ Given(r) = "text"
            /\ status[r] = "interrupted" => api = "threads"
<1> DEFINE a == IF api = "threads" THEN StatefulReply(r) ELSE StatelessReply(r)
<1>1. PICK out \in {Result(r), Interrupted(r), Failed(r)} :
        /\ \/ a = [code |-> 500, body |-> "none"]
           \/ /\ Validates(out.model, out.given)
              /\ a = [code |-> 200, body |-> ReadAs(RunOutput, ToDict(out.model, out.given))]
        /\ out = Result(r) => Succeeded(r)
        /\ out = Interrupted(r) => status[r] = "interrupted"
        /\ out = Failed(r) => ~Succeeded(r) /\ (status[r] = "interrupted" => api = "threads")
  <2>1. Result(r) # Interrupted(r) /\ Result(r) # Failed(r) /\ Interrupted(r) # Failed(r)
    <3>1. Result(r).given["type"] = "result" /\ Interrupted(r).given["type"] = "interrupt"
          /\ Failed(r).given["type"] = "error"
      BY DEF Result, Interrupted, Failed
    <3> QED
      BY <3>1
  <2>2. CASE api = "threads"
    <3> DEFINE run == Kind("RunStateful", RunStateful, StatefulRun(r))
               out == IF Succeeded(r) THEN Result(r) ELSE Failed(r)
    <3>1. a = Respond(RunWaitResponseStateful, run, out)
      BY <2>2, Zenon DEF StatefulReply
    <3>2. out \in {Result(r), Failed(r)} /\ (out = Result(r) => Succeeded(r)) /\ (out = Failed(r) => ~Succeeded(r))
      BY <2>1
    <3> HIDE DEF a, run, out
    <3>3. \/ a = [code |-> 500, body |-> "none"]
          \/ /\ Validates(out.model, out.given)
             /\ a = [code |-> 200, body |-> ReadAs(RunOutput, ToDict(out.model, out.given))]
      BY <3>1, RespondsWith
    <3> QED
      BY <2>1, <2>2, <3>2, <3>3
  <2>3. CASE api # "threads"
    <3> DEFINE run == Kind("RunStateless", RunStateless, StatelessRun(r))
               out == CASE Succeeded(r) -> Result(r)
                        [] status[r] = "interrupted" -> Interrupted(r)
                        [] OTHER -> Failed(r)
    <3>1. a = Respond(RunWaitResponseStateless, run, out)
      BY <2>3, Zenon DEF StatelessReply
    <3>2. Succeeded(r) => status[r] # "interrupted"
      BY DEF Succeeded
    <3>3. \/ out = Result(r) /\ Succeeded(r)
          \/ out = Interrupted(r) /\ status[r] = "interrupted"
          \/ out = Failed(r) /\ ~Succeeded(r) /\ status[r] # "interrupted"
      BY <3>2
    <3> HIDE DEF a, run, out
    <3>4. \/ a = [code |-> 500, body |-> "none"]
          \/ /\ Validates(out.model, out.given)
             /\ a = [code |-> 200, body |-> ReadAs(RunOutput, ToDict(out.model, out.given))]
      BY <3>1, RespondsWith
    <3> QED
      BY <2>1, <3>3, <3>4
  <2> QED
    BY <2>2, <2>3
<1>2. Tell(IF api = "threads" THEN "waitThread" ELSE "wait", a.code, r, a.body)
  BY Zenon DEF TellRun
<1> HIDE DEF a
<1>3. CASE a = [code |-> 500, body |-> "none"]
  BY <1>2, <1>3, ErrorTold
<1>4. CASE /\ Validates(out.model, out.given)
           /\ a = [code |-> 200, body |-> ReadAs(RunOutput, ToDict(out.model, out.given))]
  <2>1. reply' = Told(api, r, ReadAs(RunOutput, ToDict(out.model, out.given)))
    BY <1>2, <1>4 DEF Tell, ReplyWith, Told
  <2>2. out = Result(r) => Given(r) # "null"
    BY <1>1 DEF Succeeded
  <2>3. \/ out = Result(r) /\ reply' = Told(api, r, "result")
        \/ out = Interrupted(r) /\ reply' = Told(api, r, "interrupt")
        \/ out = Failed(r) /\ reply' = Told(api, r, "error") /\ Given(r) = "text"
    BY <1>4, <2>1, <2>2, OutputTold
  <2> QED
    BY <1>1, <2>3
<1> QED
  BY <1>1, <1>3, <1>4

-----------------------------------------------------------------------------
(***************************************************************************)
(* Types.  A client waits for a run that was created, and the keys of      *)
(* DB._runs are the runs that are there: what makes the types inductive.   *)
(***************************************************************************)
Replies ==
  [to : {"nobody", "create", "wait", "waitThread", "resume", "post", "copy", "patch", "other"},
   code : {0, 200, 204, 400}, run : Runs \cup {NoRun},
   body : {"none", "run", "result", "interrupt", "error"}]

TouchedOK == touched # NoThread => touched \in ThreadIds /\ thread[touched] = "present"

AnswersOK ==
  /\ reply \in Replies /\ TouchedOK
  /\ threaded \in BOOLEAN
  /\ agent \in [Runs -> AgentIds \cup {NoAgent}] /\ route \in [Clients -> {"runs", "threads"}]

OrderOK ==
  /\ order \in Seq(Runs) /\ Distinct(order)
  /\ \A r \in Runs : Present(r) <=> Within(r, order)

TypesInv == TypeOK /\ WaitsForRun /\ ThreadTypeOK /\ AnswersOK /\ OrderOK

\* A worker neither creates nor deletes a run.
LEMMA WorkersKeepRuns ==
  ASSUME TypeOK, NEW w \in Workers, Worker(w)
  PROVE  \A q \in Runs : /\ status'[q] = "new" <=> status[q] = "new"
                         /\ status'[q] = "gone" <=> status[q] = "gone"
<1> DEFINE Kept == \A q \in Runs : /\ status'[q] = "new" <=> status[q] = "new"
                                   /\ status'[q] = "gone" <=> status[q] = "gone"
<1>1. ASSUME NEW r \in Runs, PickDeleted(w, r) \/ PickHooked(w, r) \/ PickAndRun(w, r) \/ PickAndGiveUp(w, r)
      PROVE  Kept
  BY <1>1 DEF PickDeleted, PickHooked, PickAndRun, PickAndGiveUp, SetStatus, Present, Statuses, dbVars, TypeOK
<1>2. ASSUME Agent(w) PROVE Kept
  BY <1>2 DEF Agent, Finish, Fail, EndDeleted, SetStatus, Present, Statuses, TypeOK
<1>3. ASSUME Hook(w) PROVE Kept
  BY <1>3 DEF Hook, Start, GiveUp, HookEndAnswers, HookErrorAnswers, HookGiveUpAnswers, HookRejects,
              Fail, SetStatus, Present, Statuses, dbVars, TypeOK
<1> QED
  BY <1>1, <1>2, <1>3 DEF Worker, Pick, Close, Requeue, dbVars

\* So a run comes by a request that stores it and goes by one that deletes it.
LEMMA RunsComeAndGo ==
  ASSUME TypeOK, [ApiNext]_apiVars, NEW r \in Runs
  PROVE  /\ status'[r] # "new" /\ status[r] = "new" =>
              \E a \in AgentIds \cup {NoAgent} : Admission(r, a)
         /\ status'[r] = "gone" /\ status[r] # "gone" => \E t \in ThreadIds : Deletion(t, r)
         /\ status'[r] = "new" => status[r] = "new"
         /\ status[r] = "gone" => status'[r] = "gone"
<1>1. CASE Work
  <2>1. CancelWorkers => UNCHANGED status
    BY DEF CancelWorkers, dbVars
  <2> QED
    BY <1>1, <2>1, WorkersKeepRuns DEF Work
<1>2. ASSUME OnThreads \/ OnCopies \/ OnPatches \/ (\E code \in Codes : Say(code)) \/ UNCHANGED apiVars
      PROVE  UNCHANGED status
  BY <1>2 DEF OnThreads, OnCopies, OnPatches, RejectPost, AbortPost, BeginPost, CreateThread, DeleteThread, vars, Say, runVars,
              apiVars, threadVars, dbVars
<1>3. ASSUME NEW c \in Clients,
             AnswerWaiter(c) \/ \E q \in Runs, api \in {"runs", "threads"} : WaitForOutput(c, q, api)
      PROVE  UNCHANGED status
  <2>1. UNCHANGED runVars
    BY <1>3, Zenon DEF AnswerWaiter, WaitForOutput
  <2> QED
    BY <2>1 DEF runVars, dbVars
<1>4. ASSUME NEW q \in Runs, NEW a \in AgentIds \cup {NoAgent}, Admission(q, a)
      PROVE  status[q] = "new" /\ status' = [status EXCEPT ![q] = "pending"]
  BY <1>4 DEF Admission, Enqueue
<1>5. ASSUME NEW q \in Runs, Resumption(q)
      PROVE  status[q] = "interrupted" /\ status' = [status EXCEPT ![q] = "pending"]
  BY <1>5 DEF Resumption, Resume
<1>6. ASSUME NEW q \in Runs, NEW t \in ThreadIds, Deletion(t, q)
      PROVE  status[q] \in Statuses /\ status' = [status EXCEPT ![q] = "gone"]
  BY <1>6 DEF Deletion, DeleteRun, Delete, Present
<1>7. status \in [Runs -> Statuses \cup {"new", "gone"}]
  BY DEF TypeOK
<1>8. ASSUME NEW q \in Runs, NEW a \in AgentIds \cup {NoAgent}, Admission(q, a)
      PROVE  (q = r \/ status'[r] = status[r]) /\ status'[q] = "pending"
  BY <1>4, <1>7, <1>8
<1>9. ASSUME NEW q \in Runs, NEW t \in ThreadIds, Deletion(t, q)
      PROVE  (q = r \/ status'[r] = status[r]) /\ status[q] \in Statuses /\ status'[q] = "gone"
  BY <1>6, <1>7, <1>9
<1>10. ASSUME NEW q \in Runs, Resumption(q)
       PROVE  status'[r] = status[r] \/ (status[r] = "interrupted" /\ status'[r] = "pending")
  BY <1>5, <1>7, <1>10
<1>11. CASE \E q \in Runs, a \in AgentIds \cup {NoAgent} : Admission(q, a)
  BY <1>4, <1>8, <1>11
<1>12. CASE \E q \in Runs, t \in ThreadIds : Deletion(t, q)
  BY <1>9, <1>12 DEF Statuses
<1> QED
  BY <1>1, <1>2, <1>3, <1>10, <1>11, <1>12, ApiCases

\* A client that is made to wait is told nothing, and waits for its run.
LEMMA BlockType ==
  ASSUME TypeOK, AnswersOK, NEW c \in Clients, NEW r \in Runs, NEW api \in {"runs", "threads"}, Block(c, r, api)
  PROVE  /\ waiter' \in [Clients -> WaiterStates]
         /\ \A d \in Clients : waiter'[d] = waiter[d] \/ waiter'[d].run = r
         /\ route' \in [Clients -> {"runs", "threads"}]
         /\ reply' \in Replies
<1> DEFINE asleep == [Idle EXCEPT !.at = "waiting", !.run = r]
<1>1. asleep \in WaiterStates /\ asleep.run = r
  BY DEF Idle, WaiterStates, OutputKinds
<1> HIDE DEF asleep
<1>2. waiter' = [waiter EXCEPT ![c] = asleep] /\ waiter \in [Clients -> WaiterStates]
  BY DEF Block, asleep, TypeOK
<1>3. waiter' \in [Clients -> WaiterStates] /\ \A d \in Clients : waiter'[d] = waiter[d] \/ waiter'[d].run = r
  BY <1>1, <1>2
<1>4. route' \in [Clients -> {"runs", "threads"}]
  BY DEF Block, AnswersOK
<1>5. reply' \in Replies
  BY DEF Block, Quiet, NoReply, Replies
<1> QED
  BY <1>3, <1>4, <1>5

\* An answer is one of the answers.
LEMMA TellType ==
  ASSUME NEW op \in {"create", "resume", "other"}, NEW code \in Codes, NEW r \in Runs \cup {NoRun},
         NEW body \in {"none", "run", "result", "interrupt", "error"}, Tell(op, code, r, body)
  PROVE  reply' \in Replies
<1>1. CASE code = 200
  BY <1>1 DEF Tell, ReplyWith, Replies
<1>2. CASE code = 204
  <2>1. reply' = [NoReply EXCEPT !.to = "other", !.code = 204]
    BY <1>2, 204 # 200, ~(204 >= 400), Zenon DEF Tell, ReplyWith
  <2> DEFINE other == [NoReply EXCEPT !.to = "other"]
  <2>2. other \in Replies
    BY DEF NoReply, Replies
  <2> HIDE DEF other
  <2>3. [other EXCEPT !.code = 204] \in Replies
    BY <2>2 DEF Replies
  <2> QED
    BY <2>1, <2>3 DEF other
<1>3. CASE code \notin {200, 204}
  <2>1. reply' = Refusal
    BY <1>3, ErrorTold DEF Codes
  <2> QED
    BY <2>1 DEF Refusal, Replies
<1> QED
  BY <1>1, <1>2, <1>3

\* A late error is one, told as one of what was asked.
LEMMA LateTold ==
  ASSUME NEW op \in {"post", "copy", "patch"}, ReplyLate(op)
  PROVE  reply' \in Replies /\ reply'.to = op /\ reply'.code = 400
<1> DEFINE late == [NoReply EXCEPT !.to = op]
<1>1. late = [to |-> op, code |-> 0, run |-> NoRun, body |-> "none"]
  BY DEF NoReply
<1>2. reply' = [late EXCEPT !.code = 400]
  BY DEF ReplyLate
<1> HIDE DEF late
<1>3. reply' = [to |-> op, code |-> 400, run |-> NoRun, body |-> "none"]
  BY <1>1, <1>2
<1> QED
  BY <1>3 DEF Replies

\* The queue keeps its types whatever becomes of those who wait.
LEMMA QueueTypes ==
  ASSUME TypeOK, WaitsForRun, waiter' \in [Clients -> WaiterStates],
         \A d \in Clients : waiter'[d].at \in {"waiting", "woken"} =>
           waiter'[d].run \in Runs /\ status'[waiter'[d].run] # "new",
         \/ \E r \in Runs, a \in AgentIds \cup {NoAgent} : Enqueued(r, a)
         \/ UNCHANGED <<dbVars, queue, workerVars, tries, resumes>>
  PROVE  TypeOK' /\ WaitsForRun'
<1>1. WaitsForRun'
  BY DEF WaitsForRun
<1>2. ASSUME NEW r \in Runs, NEW a \in AgentIds \cup {NoAgent}, Enqueued(r, a) PROVE TypeOK'
  BY <1>2, AppendProperties DEF Enqueued, Enqueue, TypeOK, workerVars, Statuses
<1>3. ASSUME UNCHANGED <<dbVars, queue, workerVars, tries, resumes>> PROVE TypeOK'
  BY <1>3 DEF dbVars, workerVars, TypeOK
<1> QED
  BY <1>1, <1>2, <1>3

\* The keys of DB._runs are the runs that are there.
LEMMA OrderStep ==
  ASSUME TypeOK, TypeOK', OrderOK, [ApiNext]_apiVars
  PROVE  OrderOK'
<1>0. status \in [Runs -> Statuses \cup {"new", "gone"}] /\ status' \in [Runs -> Statuses \cup {"new", "gone"}]
  BY DEF TypeOK
<1>1. ASSUME UNCHANGED order,
             \A q \in Runs : (status'[q] = "new" <=> status[q] = "new") /\ (status'[q] = "gone" <=> status[q] = "gone")
      PROVE  OrderOK'
  <2>1. \A q \in Runs : Present(q)' <=> Present(q)
    BY <1>0, <1>1 DEF Present, Statuses
  <2> QED
    BY <1>1, <2>1 DEF OrderOK
<1>2. CASE \E q \in Runs, a \in AgentIds \cup {NoAgent} : Admission(q, a)
  <2>1. PICK q \in Runs : /\ status[q] = "new" /\ status' = [status EXCEPT ![q] = "pending"]
                          /\ order' = Append(order, q)
    BY <1>2 DEF Admission, Enqueue
  <2>2. ~Within(q, order)
    BY <2>1 DEF OrderOK, Present, Statuses
  <2>3. /\ order' \in Seq(Runs) /\ Distinct(order')
        /\ \A y : Within(y, order') <=> Within(y, order) \/ y = q
    BY <2>1, <2>2, KeyAdded DEF OrderOK
  <2>4. \A y \in Runs : Present(y)' <=> Present(y) \/ y = q
    BY <1>0, <2>1 DEF Present, Statuses
  <2> QED
    BY <2>3, <2>4 DEF OrderOK, Within, Distinct
<1>3. CASE \E q \in Runs, t \in ThreadIds : Deletion(t, q)
  <2>1. PICK q \in Runs : status' = [status EXCEPT ![q] = "gone"] /\ Forgotten(q)
    BY <1>3 DEF Deletion, DeleteRun, Delete
  <2>2. PICK i \in DOMAIN order : order[i] = q /\ order' = RemoveAt(order, i)
    BY <2>1 DEF Forgotten
  <2>3. /\ order' \in Seq(Runs) /\ Distinct(order')
        /\ \A y : Within(y, order') <=> Within(y, order) /\ y # q
    BY <2>2, KeyRemoved DEF OrderOK
  <2>4. \A y \in Runs : Present(y)' <=> Present(y) /\ y # q
    BY <1>0, <2>1 DEF Present, Statuses
  <2> QED
    BY <2>3, <2>4 DEF OrderOK, Within, Distinct
<1>4. CASE ~(\E q \in Runs, a \in AgentIds \cup {NoAgent} : Admission(q, a)) /\ ~\E q \in Runs, t \in ThreadIds : Deletion(t, q)
  <2>1. \A q \in Runs : (status'[q] = "new" <=> status[q] = "new") /\ (status'[q] = "gone" <=> status[q] = "gone")
    BY <1>4, RunsComeAndGo
  <2>2. ASSUME NEW c \in Clients,
               AnswerWaiter(c) \/ \E q \in Runs, api \in {"runs", "threads"} : WaitForOutput(c, q, api)
        PROVE  UNCHANGED runVars
    BY <2>2, Zenon DEF AnswerWaiter, WaitForOutput
  <2>3. UNCHANGED order
    BY <1>4, <2>2, ApiCases DEF Work, Say, OnThreads, OnCopies, OnPatches, Resumption, runVars, apiVars
  <2> QED
    BY <1>1, <2>1, <2>3
<1> QED
  BY <1>2, <1>3, <1>4

\* Who asks what became of a run waits for it, or is told of it as it is, or of an error.
LEMMA AskCases ==
  ASSUME WaitsForRun, AnswersOK, TypeOK, NEW c \in Clients,
         AnswerWaiter(c) \/ \E r \in Runs, api \in {"runs", "threads"} : WaitForOutput(c, r, api)
  PROVE  \E r \in Runs, api \in {"runs", "threads"} :
           /\ UNCHANGED <<threaded, runVars>> /\ touched' = NoThread
           /\ \/ status[r] = "pending" /\ Block(c, r, api)
              \/ /\ waiter' = waiter \/ waiter' = [waiter EXCEPT ![c] = Idle]
                 /\ route' = route \/ route' = [route EXCEPT ![c] = "runs"]
                 /\ (status[r] \in Statuses \ {"pending"} /\ TellRun(r, api)) \/ reply' = Refusal
<1>1. ASSUME AnswerWaiter(c)
      PROVE  /\ waiter[c].run \in Runs /\ route[c] \in {"runs", "threads"}
             /\ UNCHANGED <<threaded, runVars>>
             /\ \/ status[waiter[c].run] = "pending" /\ Block(c, waiter[c].run, route[c])
                \/ /\ waiter' = [waiter EXCEPT ![c] = Idle]
                   /\ route' = [route EXCEPT ![c] = "runs"]
                   /\ \/ status[waiter[c].run] \in Statuses \ {"pending"} /\ TellRun(waiter[c].run, route[c])
                      \/ Tell("wait", 500, waiter[c].run, "none")
  <2>1. waiter[c].run \in Runs /\ route[c] \in {"runs", "threads"}
    BY <1>1 DEF AnswerWaiter, WaitsForRun, AnswersOK
  <2> QED
    BY <1>1, <2>1, Zenon DEF AnswerWaiter, Present
<1>2. ASSUME NEW r \in Runs, NEW api \in {"runs", "threads"}, WaitForOutput(c, r, api)
      PROVE  /\ UNCHANGED <<threaded, runVars>>
             /\ \/ status[r] = "pending" /\ Block(c, r, api)
                \/ /\ UNCHANGED <<waiter, route>>
                   /\ \/ status[r] \in Statuses \ {"pending"} /\ TellRun(r, api)
                      \/ Tell("wait", 404, r, "none")
  BY <1>2, Zenon DEF WaitForOutput, Present
<1>3. \A r \in Runs : Tell("wait", 500, r, "none") \/ Tell("wait", 404, r, "none") => reply' = Refusal
  BY ErrorTold
<1>4. touched' = NoThread
  BY Zenon DEF AnswerWaiter, WaitForOutput, Block, Quiet, TellRun, Tell
<1>5. CASE AnswerWaiter(c)
  BY <1>1, <1>3, <1>4, <1>5
<1>6. CASE \E r \in Runs, api \in {"runs", "threads"} : WaitForOutput(c, r, api)
  BY <1>2, <1>3, <1>4, <1>6
<1> QED
  BY <1>5, <1>6

\* No step takes a variable out of its values.
LEMMA ApiTypeStep ==
  ASSUME TypesInv, [ApiNext]_apiVars
  PROVE  TypesInv'
<1> DEFINE Core == TypeOK' /\ WaitsForRun'
           Rest == ThreadTypeOK' /\ AnswersOK'
<1>0. TypeOK /\ WaitsForRun /\ ThreadTypeOK /\ AnswersOK /\ OrderOK
  BY DEF TypesInv
<1>1. \A d \in Clients : waiter[d].at \in {"waiting", "woken"} => waiter[d].run \in Runs /\ status'[waiter[d].run] # "new"
  BY <1>0, RunsComeAndGo DEF WaitsForRun
<1>2. waiter \in [Clients -> WaiterStates]
  BY <1>0 DEF TypeOK
<1>3. ASSUME [Next]_vars PROVE Core
  BY <1>0, <1>3, TypeStep, WaitsStep
<1>4. ASSUME UNCHANGED <<thread, owner, post, threaded, agent, route>>, reply' \in Replies, TouchedOK' PROVE Rest
  BY <1>0, <1>4 DEF ThreadTypeOK, AnswersOK
<1>5. ASSUME Work PROVE Core /\ Rest
  <2>1. Next
    BY <1>5 DEF Work, Next
  <2>2. reply' \in Replies /\ TouchedOK' /\ UNCHANGED <<thread, owner, post, threaded, agent, route>>
    BY <1>5 DEF Work, Quiet, NoReply, Replies, TouchedOK
  <2> QED
    BY <1>3, <1>4, <2>1, <2>2
<1>6. ASSUME NEW code \in Codes, Say(code) PROVE Core /\ Rest
  <2>1. UNCHANGED vars /\ UNCHANGED <<thread, owner, post, threaded, agent, route>>
    BY <1>6 DEF Say, runVars, vars, dbVars, workerVars
  <2>2. reply' \in Replies /\ TouchedOK'
    BY <1>6, TellType DEF Say, Tell, TouchedOK
  <2> QED
    BY <1>3, <1>4, <2>1, <2>2
<1>7. ASSUME OnThreads PROVE Core /\ Rest
  <2>1. UNCHANGED vars
    BY <1>7 DEF OnThreads, RejectPost, AbortPost, BeginPost, CreateThread, DeleteThread
  <2>2. ThreadTypeOK'
    BY <1>0, <1>7 DEF OnThreads, RejectPost, AbortPost, BeginPost, CreateThread, DeleteThread, ThreadTypeOK
  <2>3. reply' \in Replies
    <3>1. Quiet => reply' \in Replies
      BY DEF Quiet, NoReply, Replies
    <3>2. 200 \in Codes
      BY DEF Codes
    <3> QED
      BY <1>7, <3>1, <3>2, TellType DEF OnThreads
  <2>4. TouchedOK'
    BY <1>7 DEF OnThreads, Quiet, Tell, TouchedOK
  <2> QED
    BY <1>0, <1>3, <1>7, <2>1, <2>2, <2>3, <2>4 DEF OnThreads, AnswersOK
<1>8. ASSUME NEW r \in Runs, NEW a \in AgentIds \cup {NoAgent}, Admission(r, a) PROVE Core /\ Rest
  <2>1. Enqueued(r, a) /\ status'[r] = "pending"
    BY <1>0, <1>8 DEF Admission, Enqueued, Enqueue, TypeOK
  <2>2. UNCHANGED <<thread, threaded>> /\ agent' \in [Runs -> AgentIds \cup {NoAgent}]
    BY <1>0, <2>1 DEF Enqueued, Enqueue, AnswersOK
  <2>3. ThreadTypeOK'
    <3>1. PICK t \in ThreadIds \cup {NoThread} \cup {post[p] : p \in Posts} : Enqueue(r, a, t)
      BY <1>8 DEF Admission
    <3>2. t \in ThreadIds \cup {NoThread}
      BY <1>0 DEF ThreadTypeOK
    <3>3. owner' = [owner EXCEPT ![r] = t]
      BY <3>1 DEF Enqueue
    <3>4. UNCHANGED post \/ \E p \in Posts : post' = [post EXCEPT ![p] = NoThread]
      BY <1>8 DEF Admission
    <3> QED
      BY <1>0, <2>2, <3>2, <3>3, <3>4 DEF ThreadTypeOK
  <2>4. /\ waiter' \in [Clients -> WaiterStates]
        /\ \A d \in Clients : waiter'[d] = waiter[d] \/ waiter'[d].run = r
        /\ route' \in [Clients -> {"runs", "threads"}]
        /\ reply' \in Replies
    <3>1. CASE \E c \in Clients, api \in {"runs", "threads"} : Block(c, r, api)
      BY <1>0, <3>1, BlockType
    <3>2. CASE ~\E c \in Clients, api \in {"runs", "threads"} : Block(c, r, api)
      <4>1. TellLate("post") => reply' \in Replies
        BY LateTold DEF TellLate
      <4> QED
        BY <1>0, <1>2, <1>8, <3>2, <4>1, TellType DEF Admission, Codes, AnswersOK
    <3> QED
      BY <3>1, <3>2
  <2>5. \A d \in Clients : waiter'[d].at \in {"waiting", "woken"} =>
          waiter'[d].run \in Runs /\ status'[waiter'[d].run] # "new"
    BY <1>1, <2>1, <2>4
  <2>6. TouchedOK'
    BY <1>8 DEF Admission, Block, Quiet, Tell, TellLate, TouchedOK
  <2> QED
    BY <1>0, <2>1, <2>2, <2>3, <2>4, <2>5, <2>6, QueueTypes DEF AnswersOK
<1>9. ASSUME NEW c \in Clients,
             AnswerWaiter(c) \/ \E r \in Runs, api \in {"runs", "threads"} : WaitForOutput(c, r, api)
      PROVE  Core /\ Rest
  <2>1. PICK r \in Runs, api \in {"runs", "threads"} :
          /\ UNCHANGED <<threaded, runVars>> /\ touched' = NoThread
          /\ \/ status[r] = "pending" /\ Block(c, r, api)
             \/ /\ waiter' = waiter \/ waiter' = [waiter EXCEPT ![c] = Idle]
                /\ route' = route \/ route' = [route EXCEPT ![c] = "runs"]
                /\ (status[r] \in Statuses \ {"pending"} /\ TellRun(r, api)) \/ reply' = Refusal
    BY <1>0, <1>9, AskCases
  <2>2. /\ UNCHANGED <<thread, owner, post, threaded, agent>> /\ UNCHANGED <<dbVars, queue, workerVars, tries, resumes>>
        /\ TouchedOK'
    BY <2>1 DEF runVars, TouchedOK
  <2>3. CASE status[r] = "pending" /\ Block(c, r, api)
    <3>1. /\ waiter' \in [Clients -> WaiterStates]
          /\ \A d \in Clients : waiter'[d] = waiter[d] \/ waiter'[d].run = r
          /\ route' \in [Clients -> {"runs", "threads"}] /\ reply' \in Replies
      BY <1>0, <2>3, BlockType
    <3>2. status'[r] = "pending"
      BY <2>2, <2>3 DEF dbVars
    <3>3. \A d \in Clients : waiter'[d].at \in {"waiting", "woken"} =>
            waiter'[d].run \in Runs /\ status'[waiter'[d].run] # "new"
      BY <1>1, <3>1, <3>2
    <3> QED
      BY <1>0, <2>2, <3>1, <3>3, QueueTypes DEF AnswersOK, ThreadTypeOK
  <2>4. CASE ~(status[r] = "pending" /\ Block(c, r, api))
    <3>1. Idle \in WaiterStates /\ Idle.at = "idle"
      BY DEF Idle, WaiterStates, OutputKinds
    <3>2. waiter' \in [Clients -> WaiterStates] /\ \A d \in Clients : waiter'[d] = waiter[d] \/ waiter'[d].at = "idle"
      BY <1>2, <2>1, <2>4, <3>1
    <3>3. \A d \in Clients : waiter'[d].at \in {"waiting", "woken"} =>
            waiter'[d].run \in Runs /\ status'[waiter'[d].run] # "new"
      BY <1>1, <3>2
    <3>4. route' \in [Clients -> {"runs", "threads"}]
      BY <1>0, <2>1, <2>4 DEF AnswersOK
    <3>5. reply' \in Replies
      <4>1. CASE reply' = Refusal
        BY <4>1 DEF Refusal, Replies
      <4>2. CASE TellRun(r, api)
        <5>1. \A body \in {"result", "interrupt", "error"} : Told(api, r, body) \in Replies
          BY DEF Told, Replies
        <5>2. Refusal \in Replies
          BY DEF Refusal, Replies
        <5> QED
          BY <4>2, <5>1, <5>2, TellsFit
      <4> QED
        BY <2>1, <2>4, <4>1, <4>2
    <3> QED
      BY <1>0, <2>2, <3>2, <3>3, <3>4, <3>5, QueueTypes DEF AnswersOK, ThreadTypeOK
  <2> QED
    BY <2>3, <2>4
<1>10. ASSUME NEW r \in Runs, Resumption(r) \/ \E t \in ThreadIds : Deletion(t, r) PROVE Core /\ Rest
  <2>1. Next
    BY <1>10 DEF Resumption, Deletion, DeleteRun, Next, Request
  <2>2. UNCHANGED <<thread, owner, post, threaded, agent, route>>
    BY <1>10 DEF Resumption, Deletion, DeleteRun
  <2>3. reply' \in Replies /\ TouchedOK'
    BY <1>10, TellType DEF Resumption, Deletion, Codes, Tell, TouchedOK
  <2> QED
    BY <1>3, <1>4, <2>1, <2>2, <2>3
<1>11. ASSUME UNCHANGED apiVars PROVE Core /\ Rest
  <2>1. UNCHANGED vars /\ UNCHANGED <<thread, owner, post, threaded, agent, route, reply, touched>>
    BY <1>11 DEF apiVars, threadVars
  <2> QED
    BY <1>0, <1>3, <1>4, <2>1 DEF AnswersOK, TouchedOK
<1>12. ASSUME OnCopies PROVE Core /\ Rest
  <2>1. UNCHANGED vars /\ UNCHANGED <<owner, post, threaded, agent, route>> /\ touched' = NoThread
    BY <1>12 DEF OnCopies, TellLate, Tell
  <2>2. thread' \in [ThreadIds -> {"absent", "present", "deleted"}]
    BY <1>0, <1>12 DEF OnCopies, ThreadTypeOK
  <2>3. reply' \in Replies
    BY <1>12, LateTold, TellType DEF OnCopies, TellLate, Codes
  <2> QED
    BY <1>0, <1>3, <2>1, <2>2, <2>3 DEF AnswersOK, ThreadTypeOK, TouchedOK
<1>13. ASSUME OnPatches PROVE Core /\ Rest
  <2>1. UNCHANGED vars /\ UNCHANGED <<thread, owner, post, threaded, agent, route>>
    BY <1>13 DEF OnPatches, threadVars
  <2>2. reply' \in Replies
    BY <1>13, LateTold DEF OnPatches, ReplyWith, Replies
  <2>3. TouchedOK'
    BY <1>13, <2>1 DEF OnPatches, TouchedOK
  <2> QED
    BY <1>3, <1>4, <2>1, <2>2, <2>3
<1>14. Core /\ Rest
  BY <1>5, <1>6, <1>7, <1>8, <1>9, <1>10, <1>11, <1>12, <1>13, ApiCases
<1> HIDE DEF Core
<1> QED
  BY <1>0, <1>14, OrderStep DEF TypesInv, Core

\* The types hold with what they rest on.
LEMMA ApiTypesKept == ApiSpec => []TypesInv
<1>1. ApiInit => TypesInv
  <2> SUFFICES ASSUME ApiInit PROVE TypesInv
    OBVIOUS
  <2>1. TypeOK /\ WaitsForRun
    BY InitCorrect DEF ApiInit, ThreadInit
  <2>2. ThreadTypeOK
    BY DEF ApiInit, ThreadInit, ThreadTypeOK
  <2>3. AnswersOK
    BY DEF ApiInit, NoReply, Replies, TouchedOK, AnswersOK
  <2>4. OrderOK
    <3>1. order = << >> /\ \A r \in Runs : ~Present(r)
      BY DEF ApiInit, ThreadInit, Init, Present, Statuses
    <3>2. << >> \in Seq(Runs) /\ DOMAIN << >> = {}
      BY EmptySeq
    <3> QED
      BY <3>1, <3>2 DEF OrderOK, Distinct, Within
  <2> QED
    BY <2>1, <2>2, <2>3, <2>4 DEF TypesInv
<1>2. TypesInv /\ [ApiNext]_apiVars => TypesInv'
  BY ApiTypeStep
<1> QED
  BY <1>1, <1>2, PTL DEF ApiSpec

\* Every answer is one the endpoints give, and DB._runs has a key, once, for each
\* run that is there, whatever requests and workers do in between.
THEOREM ApiTypeCorrect == ApiSpec => []ApiTypeOK
<1>1. TypesInv => ApiTypeOK
  BY DEF TypesInv, AnswersOK, TouchedOK, Replies, OrderOK, Distinct, Within, ApiTypeOK
<1> QED
  BY <1>1, ApiTypesKept, PTL

-----------------------------------------------------------------------------
(* Deletion and refusal.                                                   *)

\* That something is deleted is told as such.
LEMMA DoneTold ==
  ASSUME NEW op, NEW r, NEW body, Tell(op, 204, r, body)
  PROVE  reply'.code = 204
<1> DEFINE other == [NoReply EXCEPT !.to = "other"]
<1>1. reply' = [[NoReply EXCEPT !.to = "other"] EXCEPT !.code = 204]
  BY 204 # 200, ~(204 >= 400), Zenon DEF Tell, ReplyWith
<1>2. "code" \in DOMAIN other
  BY DEF NoReply
<1> HIDE DEF other
<1>3. [other EXCEPT !.code = 204].code = 204
  BY <1>2
<1> QED
  BY <1>1, <1>3 DEF other

\* Only who is answered with 200 is told of what he asked.
LEMMA AnswerTo ==
  ASSUME NEW op, NEW code, NEW r, NEW body, Tell(op, code, r, body)
  PROVE  reply'.to = IF code = 200 THEN op ELSE "other"
<1>1. CASE code = 200
  BY <1>1 DEF Tell, ReplyWith
<1>2. CASE code # 200
  <2> DEFINE n == IF code >= 400 THEN 400 ELSE code
             other == [NoReply EXCEPT !.to = "other"]
  <2>1. reply' = [other EXCEPT !.code = n]
    BY <1>2, Zenon DEF Tell, ReplyWith
  <2>2. other.to = "other" /\ DOMAIN other = {"to", "code", "run", "body"}
    BY DEF NoReply
  <2> HIDE DEF other, n
  <2>3. [other EXCEPT !.code = n].to = "other"
    BY <2>2
  <2> QED
    BY <1>2, <2>1, <2>3
<1> QED
  BY <1>1, <1>2

\* A run goes only by a request that names the run's own thread_id, and a thread with
\* that id is there: no worker, no deletion of the thread and no other endpoint
\* deletes one.
THEOREM RunsGoThroughTheirThread == ApiSpec => DeletedThroughItsThread
<1> DEFINE Through ==
      \A r \in Runs : Present(r) /\ status'[r] = "gone" =>
        /\ owner[r] \in ThreadIds /\ thread[owner[r]] = "present"
        /\ reply'.code = 204
<1>1. TypesInv /\ [ApiNext]_apiVars => Through
  <2> SUFFICES ASSUME TypesInv, [ApiNext]_apiVars, NEW r \in Runs, Present(r), status'[r] = "gone"
               PROVE  owner[r] \in ThreadIds /\ thread[owner[r]] = "present" /\ reply'.code = 204
    OBVIOUS
  <2>1. PICK t \in ThreadIds : Deletion(t, r)
    BY RunsComeAndGo DEF TypesInv, Present, Statuses
  <2>2. reply'.code = 204
    BY <2>1, DoneTold DEF Deletion
  <2> QED
    BY <2>1, <2>2 DEF Deletion, DeleteRun
<1>2. Through => [Through]_apiVars
  OBVIOUS
<1> QED
  BY <1>1, <1>2, ApiTypesKept, PTL DEF ApiSpec, DeletedThroughItsThread

\* What is answered with an error has stored, changed and deleted nothing, unless it
\* failed late: then it leaves the run of a thread that names no agent, the record of
\* a copy or the metadata of a patch, and nothing besides.
THEOREM RefusalsChangeNothing == ApiSpec => RefusedLeavesNoTrace
<1>1. TypesInv /\ [ApiNext]_apiVars => [reply'.code >= 400 => Traceless]_apiVars
  <2> SUFFICES ASSUME TypesInv, ApiNext, reply'.code >= 400
               PROVE  Traceless
    OBVIOUS
  <2>1. ~Quiet
    BY DEF Quiet, NoReply
  <2>2. ASSUME NEW op, NEW r, NEW body PROVE ~ReplyWith(op, 200, r, body) /\ ~Tell(op, 200, r, body)
    BY DEF ReplyWith, Tell
  <2>3. ASSUME NEW c \in Clients, NEW r, NEW api PROVE ~Block(c, r, api)
    BY <2>1 DEF Block
  <2>4. ~Work
    BY <2>1 DEF Work
  <2>5. ASSUME NEW r \in Runs PROVE ~Resumption(r) /\ \A t \in ThreadIds : ~Deletion(t, r)
    <3>1. ~Resumption(r)
      BY <2>2 DEF Resumption
    <3>2. ASSUME NEW t \in ThreadIds PROVE ~Deletion(t, r)
      BY DoneTold DEF Deletion
    <3> QED
      BY <3>1, <3>2
  <2>6. ASSUME NEW r \in Runs, NEW a \in AgentIds \cup {NoAgent}, Admission(r, a) PROVE Traceless
    <3>1. a = NoAgent /\ ReplyLate("post") /\ touched' = NoThread
      BY <2>2, <2>3, <2>6 DEF Admission, TellLate
    <3>2. reply'.to = "post"
      BY <3>1, LateTold
    <3>3. UNCHANGED <<thread, output>>
      BY <2>6 DEF Admission, Enqueue
    <3>4. /\ status[r] = "new" /\ status' = [status EXCEPT ![r] = "pending"]
          /\ order' = Append(order, r) /\ queue' = Append(queue, r) /\ agent'[r] = NoAgent
      BY <2>6, <3>1 DEF Admission, Enqueue, TypesInv, AnswersOK
    <3> QED
      BY <3>1, <3>2, <3>3, <3>4 DEF Traceless
  <2>7. ASSUME reply'.to = "other", touched' = NoThread, UNCHANGED <<thread, owner, dbVars, queue, order, agent>>
        PROVE  Traceless
    BY <2>7 DEF Traceless
  <2>8. ASSUME OnThreads PROVE Traceless
    <3>1. \A t \in ThreadIds : ~(Tell("other", 200, NoRun, "none") /\ (CreateThread(t) \/ DeleteThread(t)))
      BY <2>2
    <3>2. PICK p \in Posts : RejectPost(p) \/ AbortPost(p) \/ \E t \in ThreadIds : BeginPost(p, t)
      BY <2>8, <3>1 DEF OnThreads
    <3>3. PICK code \in Codes : Tell("other", code, NoRun, "none")
      BY <2>1, <2>2, <2>8 DEF OnThreads
    <3>4. reply'.to = "other" /\ touched' = NoThread
      BY <3>3, AnswerTo DEF Tell
    <3>5. UNCHANGED <<thread, owner, dbVars, queue, order, agent>>
      BY <2>8, <3>2 DEF OnThreads, RejectPost, AbortPost, BeginPost, vars, dbVars
    <3> QED
      BY <2>7, <3>4, <3>5
  <2>9. ASSUME OnCopies PROVE Traceless
    <3>1. ReplyLate("copy") /\ touched' = NoThread
      BY <2>2, <2>9 DEF OnCopies, TellLate
    <3>2. reply'.to = "copy"
      BY <3>1, LateTold
    <3>3. UNCHANGED <<owner, dbVars, queue, order, agent>>
      BY <2>9 DEF OnCopies, vars, dbVars
    <3>4. \E t, u \in ThreadIds : thread[t] = "present" /\ Fresh(u) /\ thread' = [thread EXCEPT ![u] = "present"]
      BY <2>9 DEF OnCopies
    <3> QED
      BY <3>1, <3>2, <3>3, <3>4, Zenon DEF Traceless
  <2>10. ASSUME OnPatches PROVE Traceless
    <3>1. ReplyLate("patch")
      BY <2>2, <2>10 DEF OnPatches
    <3>2. reply'.to = "patch"
      BY <3>1, LateTold
    <3>3. UNCHANGED <<thread, owner, dbVars, queue, order, agent>>
      BY <2>10 DEF OnPatches, threadVars, vars, dbVars
    <3>4. touched' # NoThread => thread[touched'] = "present"
      BY <2>10 DEF OnPatches
    <3> QED
      BY <3>2, <3>3, <3>4 DEF Traceless
  <2>11. UNCHANGED runVars => UNCHANGED <<thread, owner, dbVars, queue, order, agent>>
    BY DEF runVars
  <2>12. ASSUME NEW c \in Clients,
                AnswerWaiter(c) \/ \E r \in Runs, api \in {"runs", "threads"} : WaitForOutput(c, r, api)
         PROVE  Traceless
    <3>1. PICK r \in Runs, api \in {"runs", "threads"} :
            /\ UNCHANGED runVars /\ touched' = NoThread
            /\ Block(c, r, api) \/ TellRun(r, api) \/ reply' = Refusal
      BY <2>12, AskCases DEF TypesInv
    <3>2. \A body : reply' # Told(api, r, body)
      BY DEF Told
    <3>3. reply' = Refusal
      BY <2>3, <3>1, <3>2, TellsFit
    <3> QED
      BY <2>7, <2>11, <3>1, <3>3 DEF Refusal
  <2>13. ASSUME NEW code \in Codes, Say(code) PROVE Traceless
    <3>1. Tell("other", code, NoRun, "none") /\ UNCHANGED runVars
      BY <2>13 DEF Say
    <3>2. reply'.to = "other" /\ touched' = NoThread
      BY <3>1, AnswerTo DEF Tell
    <3> QED
      BY <2>7, <2>11, <3>1, <3>2
  <2> QED
    BY <2>4, <2>5, <2>6, <2>8, <2>9, <2>10, <2>12, <2>13, ApiCases
<1> QED
  BY <1>1, ApiTypesKept, PTL DEF ApiSpec, RefusedLeavesNoTrace

-----------------------------------------------------------------------------
(***************************************************************************)
(* The queue behind the interface.  The interface stores a run only under  *)
(* an id that was never used and resumes one only while it waits for input *)
(* so it never queues a run that somebody carries.                         *)
(***************************************************************************)

\* A run that is put by a request gets one carrier.
LEMMA CarriedAdmission ==
  ASSUME TypeOK, Carried, NEW r \in Runs, NEW a \in AgentIds \cup {NoAgent}, Enqueued(r, a)
  PROVE  Carried'
<1>1. AtRest(r) /\ queue \in Seq(Runs) /\ queue' = Append(queue, r) /\ UNCHANGED <<pc, job>>
  BY DEF Enqueued, Enqueue, AtRest, TypeOK, workerVars
<1>2. ~Driven(r)
  BY <1>1 DEF Carried, RestedIsIdle
<1>3. ~Queued(r) /\ \A v \in Workers : Active(v)' => Active(v) /\ job'[v] = job[v] /\ job[v] # r
  BY <1>1, <1>2 DEF Driven, Active
<1>4. \A q \in Runs : AtRest(q)' => AtRest(q) /\ q # r
  BY DEF Enqueued, Enqueue, AtRest, TypeOK
<1> QED
  BY <1>1, <1>3, <1>4, EnqueueStep

\* Without webhooks that reject, a run has one carrier at most, behind the interface too.
LEMMA ApiCarried ==
  ASSUME Flaky = {}
  PROVE  ApiSpec => []Carried
<1>1. ApiInit => Carried
  BY InitIsCarried DEF ApiInit, ThreadInit
<1>2. TypesInv /\ Carried /\ [ApiNext]_apiVars => Carried'
  <2> SUFFICES ASSUME TypesInv, Carried, [ApiNext]_apiVars PROVE Carried'
    OBVIOUS
  <2>1. TypeOK
    BY DEF TypesInv
  <2>2. ASSUME CancelWorkers PROVE Next
    BY <2>2 DEF Next
  <2>3. ASSUME NEW r \in Runs, Resume(r) \/ Delete(r) PROVE Request(r)
    BY <2>3 DEF Request
  <2>4. ASSUME UNCHANGED <<dbVars, queue, workerVars, tries, resumes>> PROVE Carried'
    BY <2>4, QuietStep DEF Active, AtRest, dbVars, workerVars
  <2> QED
    BY <2>1, <2>2, <2>3, <2>4, QueueCases, CarriedWorker, CarriedRequest, CarriedAdmission, CarriedStep
<1> QED
  BY <1>1, <1>2, ApiTypesKept, PTL DEF ApiSpec

\* A run a client is told of when it creates or resumes it is pending and queued once,
\* and no worker has it yet: the answer promises that it will be executed.
THEOREM AcceptedRunsAreQueued == ASSUME Flaky = {} PROVE ApiSpec => []AcceptedIsQueued
<1>1. ApiInit => AcceptedIsQueued
  BY DEF ApiInit, NoReply, AcceptedIsQueued
<1>2. TypesInv /\ TypesInv' /\ Carried /\ Carried' /\ AcceptedIsQueued /\ [ApiNext]_apiVars => AcceptedIsQueued'
  <2> SUFFICES ASSUME TypesInv, TypesInv', Carried, Carried', AcceptedIsQueued, [ApiNext]_apiVars,
                      reply'.to \in {"create", "resume"}, reply'.code = 200
               PROVE  /\ status'[reply'.run] = "pending"
                      /\ Cardinality({i \in DOMAIN queue' : queue'[i] = reply'.run}) = 1
                      /\ \A w \in Workers : Active(w)' => job'[w] # reply'.run
    BY DEF AcceptedIsQueued
  <2>1. TypeOK /\ TypeOK'
    BY DEF TypesInv
  <2>2. ASSUME NEW r \in Runs, reply'.run = r, (\E a \in AgentIds \cup {NoAgent} : Enqueued(r, a)) \/ Resume(r)
        PROVE  /\ status'[reply'.run] = "pending"
               /\ Cardinality({i \in DOMAIN queue' : queue'[i] = reply'.run}) = 1
               /\ \A w \in Workers : Active(w)' => job'[w] # reply'.run
    <3>0. queue' = Append(queue, r) /\ status' = [status EXCEPT ![r] = "pending"]
      BY <2>2 DEF Enqueued, Enqueue, Resume
    <3>1. queue \in Seq(Runs) /\ queue' = Append(queue, r) /\ status'[r] = "pending"
      BY <2>1, <3>0 DEF TypeOK
    <3>2. Queued(r)'
      BY <3>1, EnqueueQueued
    <3>3. PICK k \in 1..Len(queue') : queue'[k] = r
      BY <3>2 DEF Queued
    <3>4. DOMAIN queue' = 1..Len(queue')
      BY <2>1 DEF TypeOK
    <3>5. {i \in DOMAIN queue' : queue'[i] = r} = {k}
      BY <3>3, <3>4 DEF Carried, Exclusive, OnceQueued
    <3>6. Cardinality({k}) = 1
      BY FS_Singleton
    <3>7. \A w \in Workers : Active(w)' => job'[w] # r
      BY <3>2 DEF Carried, Exclusive, NotBoth
    <3> QED
      BY <2>2, <3>1, <3>5, <3>6, <3>7
  <2>3. /\ ~Quiet /\ \A code, r, body : ~Tell("other", code, r, body)
        /\ \A op \in {"post", "copy", "patch"} : ~ReplyLate(op)
        /\ ~ReplyWith("other", 200, NoRun, "none")
    BY AnswerTo, LateTold DEF Quiet, NoReply, ReplyWith
  <2>4. ASSUME NEW r, Tell("create", 200, r, "run") \/ Tell("resume", 200, r, "run") PROVE reply'.run = r
    BY <2>4 DEF Tell, ReplyWith
  <2>5. ASSUME NEW r \in Runs, NEW a \in AgentIds \cup {NoAgent}, Admission(r, a)
        PROVE  Enqueued(r, a) /\ reply'.run = r
    BY <2>3, <2>4, <2>5 DEF Admission, Enqueued, Block, TellLate
  <2>6. ASSUME NEW r \in Runs, Resumption(r) PROVE Resume(r) /\ reply'.run = r
    BY <2>4, <2>6 DEF Resumption
  <2>7. ASSUME NEW r \in Runs, NEW t \in ThreadIds PROVE ~Deletion(t, r)
    BY <2>3 DEF Deletion
  <2>8. ASSUME NEW c \in Clients,
               AnswerWaiter(c) \/ \E r \in Runs, api \in {"runs", "threads"} : WaitForOutput(c, r, api)
        PROVE  FALSE
    <3>1. PICK r \in Runs, api \in {"runs", "threads"} : Block(c, r, api) \/ TellRun(r, api) \/ reply' = Refusal
      BY <2>8, AskCases DEF TypesInv
    <3>2. ~Block(c, r, api) /\ reply' # Refusal
      BY <2>3 DEF Block, Refusal
    <3>3. \A body : reply' # Told(api, r, body)
      BY DEF Told
    <3> QED
      BY <3>1, <3>2, <3>3, TellsFit
  <2>9. ~Work /\ ~OnThreads /\ ~OnCopies /\ ~OnPatches /\ \A code \in Codes : ~Say(code)
    BY <2>3 DEF Work, OnThreads, OnCopies, OnPatches, TellLate, Say
  <2>10. CASE UNCHANGED apiVars
    <3>1. UNCHANGED <<reply, status, queue, pc, job>>
      BY <2>10 DEF apiVars, threadVars, vars
    <3>2. UNCHANGED reply /\ UNCHANGED queue
      BY <3>1
    <3>3. {i \in DOMAIN queue' : queue'[i] = reply'.run} = {i \in DOMAIN queue : queue[i] = reply.run}
      BY <3>2
    <3> QED
      BY <3>1, <3>3 DEF AcceptedIsQueued, Active
  <2> QED
    BY <2>2, <2>5, <2>6, <2>7, <2>8, <2>9, <2>10, ApiCases
<1> QED
  BY <1>1, <1>2, ApiTypesKept, ApiCarried, PTL DEF ApiSpec

-----------------------------------------------------------------------------
(***************************************************************************)
(* The answer to who waited.  It is made of the status and of the output   *)
(* as two tables have them, long after the run ended: the output of a run  *)
(* at rest must be the one its status announces, with webhooks too.        *)
(***************************************************************************)
Valued ==
  \A r \in Runs : /\ status[r] = "success" => output[r] = "value"
                  /\ status[r] = "interrupted" => output[r] = "interrupt"

\* Only who carries a run stores an output for it, and a run at rest is carried by nobody.
LEMMA ValuedWorker ==
  ASSUME TypeOK, Carried, Valued, Flaky = {}, NEW w \in Workers, Worker(w)
  PROVE  Valued'
<1>1. ASSUME NEW r \in Runs, PickDeleted(w, r) \/ PickHooked(w, r) \/ PickAndRun(w, r) \/ PickAndGiveUp(w, r)
      PROVE  Valued'
  BY <1>1 DEF PickDeleted, PickHooked, PickAndRun, PickAndGiveUp, SetStatus, dbVars, TypeOK, Valued
<1>2. ASSUME NEW s \in {"success", "interrupted"}, Finish(w, s) PROVE Valued'
  <2>1. job[w] \in Runs
    BY <1>2, PlaceType DEF Finish
  <2>2. status' = [status EXCEPT ![job[w]] = s]
        /\ output' = [output EXCEPT ![job[w]] = IF s = "success" THEN "value" ELSE "interrupt"]
    BY <1>2 DEF Finish, SetStatus
  <2> QED
    BY <2>1, <2>2 DEF TypeOK, Valued
<1>3. ASSUME Fail(w, "running") PROVE Valued'
  <2>1. job[w] \in Runs
    BY <1>3, PlaceType DEF Fail
  <2>2. /\ status' = [status EXCEPT ![job[w]] = "error"]
        /\ UNCHANGED output \/ output' = [output EXCEPT ![job[w]] = "error"]
    BY <1>3 DEF Fail, SetStatus
  <2> QED
    BY <2>1, <2>2 DEF TypeOK, Valued
<1>4. ASSUME EndDeleted(w) PROVE Valued'
  <2>1. PICK kind : output' = [output EXCEPT ![job[w]] = kind]
    BY <1>4 DEF EndDeleted
  <2>2. UNCHANGED status /\ status[job[w]] \notin Statuses
    BY <1>4 DEF EndDeleted, Present
  <2> QED
    BY <2>1, <2>2 DEF TypeOK, Valued, Statuses
<1>5. ASSUME HookErrorAnswers(w) PROVE Valued'
  <2>1. job[w] \in Runs /\ Active(w)
    BY <1>5, PlaceType DEF HookErrorAnswers, Active
  <2>2. ~AtRest(job[w])
    BY <2>1 DEF Carried, RestedIsIdle, Driven
  <2>3. UNCHANGED status /\ output' = [output EXCEPT ![job[w]] = "error"]
    BY <1>5 DEF HookErrorAnswers
  <2> QED
    BY <2>2, <2>3 DEF TypeOK, Valued, AtRest
<1>6. ASSUME GiveUp(w) PROVE Valued'
  <2>1. UNCHANGED output /\ (UNCHANGED status \/ status' = [status EXCEPT ![job[w]] = "error"])
    BY <1>6 DEF GiveUp, SetStatus
  <2> QED
    BY <2>1 DEF TypeOK, Valued
<1>7. ASSUME Start(w) \/ HookEndAnswers(w) \/ HookGiveUpAnswers(w) \/ Close(w) \/ Requeue(w) PROVE Valued'
  BY <1>7 DEF Start, HookEndAnswers, HookGiveUpAnswers, Close, Requeue, dbVars, Valued
<1>8. ~HookRejects(w)
  BY DEF HookRejects
<1> QED
  BY <1>1, <1>2, <1>3, <1>4, <1>5, <1>6, <1>7, <1>8 DEF Worker, Pick, Agent, Hook

\* At first no run is at rest with an output.
LEMMA InitIsValued ==
  ASSUME ApiInit
  PROVE  Valued
<1> SUFFICES ASSUME NEW r \in Runs PROVE status[r] # "success" /\ status[r] # "interrupted"
  BY Zenon DEF Valued
<1>1. status[r] = "new"
  BY Zenon DEF ApiInit, ThreadInit, Init
<1> QED
  BY <1>1

\* Nobody else stores one: a run at rest keeps the output its status announces.
LEMMA ApiValued ==
  ASSUME Flaky = {}
  PROVE  ApiSpec => []Valued
<1>1. ApiInit => Valued
  BY InitIsValued
<1>2. TypesInv /\ Carried /\ Valued /\ [ApiNext]_apiVars => Valued'
  <2> SUFFICES ASSUME TypesInv, Carried, Valued, [ApiNext]_apiVars PROVE Valued'
    OBVIOUS
  <2>1. TypeOK
    BY DEF TypesInv
  <2>2. ASSUME NEW r \in Runs, (\E a \in AgentIds \cup {NoAgent} : Enqueued(r, a)) \/ Resume(r) PROVE Valued'
    <3>1. UNCHANGED output /\ status' = [status EXCEPT ![r] = "pending"]
      BY <2>2 DEF Enqueued, Enqueue, Resume
    <3> QED
      BY <2>1, <3>1 DEF TypeOK, Valued
  <2>3. ASSUME NEW r \in Runs, Delete(r) PROVE Valued'
    BY <2>1, <2>3 DEF Delete, TypeOK, Valued
  <2>4. ASSUME CancelWorkers \/ UNCHANGED <<dbVars, queue, workerVars, tries, resumes>> PROVE Valued'
    BY <2>4 DEF CancelWorkers, dbVars, Valued
  <2> QED
    BY <2>1, <2>2, <2>3, <2>4, QueueCases, ValuedWorker
<1> QED
  BY <1>1, <1>2, ApiTypesKept, ApiCarried, PTL DEF ApiSpec

\* An answer that says what became of a run is read as one kind of output, and says it
\* of the run as it is: whatever webhooks, retries, resumptions and deletions did while
\* its client waited.  Through the API of threads the one exception is that an interrupt
\* whose value is a text is told as an error.
THEOREM WaitersAreTold == ASSUME Flaky = {} PROVE ApiSpec => []WaitReplyFits
<1>1. ApiInit => WaitReplyFits
  BY DEF ApiInit, NoReply, WaitReplyFits
<1>2. TypesInv /\ Valued /\ WaitReplyFits /\ [ApiNext]_apiVars => WaitReplyFits'
  <2> SUFFICES ASSUME TypesInv, Valued, WaitReplyFits, [ApiNext]_apiVars, reply'.to \in {"wait", "waitThread"}
               PROVE  WaitReplyFits'
    BY DEF WaitReplyFits
  <2>1. /\ ~Quiet /\ \A op, code, r, body : Tell(op, code, r, body) => op \in {"wait", "waitThread"}
        /\ \A op \in {"post", "copy", "patch"} : ~ReplyLate(op)
        /\ ~ReplyWith("other", 200, NoRun, "none")
    BY AnswerTo, LateTold DEF Quiet, NoReply, ReplyWith
  <2>2. ~Work /\ ~OnThreads /\ ~OnCopies /\ ~OnPatches /\ \A code \in Codes : ~Say(code)
    BY <2>1 DEF Work, OnThreads, OnCopies, OnPatches, TellLate, Say
  <2>3. ASSUME NEW r \in Runs
        PROVE  /\ ~Resumption(r) /\ \A t \in ThreadIds : ~Deletion(t, r)
               /\ \A a \in AgentIds \cup {NoAgent} : ~Admission(r, a)
    BY <2>1 DEF Resumption, Deletion, Admission, Block, TellLate
  <2>4. ASSUME NEW c \in Clients,
               AnswerWaiter(c) \/ \E r \in Runs, api \in {"runs", "threads"} : WaitForOutput(c, r, api)
        PROVE  WaitReplyFits'
    <3>1. PICK r \in Runs, api \in {"runs", "threads"} :
            /\ UNCHANGED runVars
            /\ Block(c, r, api) \/ (status[r] \in Statuses \ {"pending"} /\ TellRun(r, api)) \/ reply' = Refusal
      BY <2>4, AskCases DEF TypesInv
    <3>2. ~Block(c, r, api) /\ reply' # Refusal
      BY <2>1 DEF Block, Refusal
    <3>3. UNCHANGED <<status, output>>
      BY <3>1 DEF runVars, dbVars
    <3>4. output[r] \in OutputKinds
      BY DEF TypesInv, TypeOK
    <3>5. CASE reply' = Told(api, r, "result") /\ Succeeded(r)
      <4>1. status[r] = "success" /\ output[r] = "value"
        BY <3>5 DEF Valued, Succeeded
      <4> QED
        BY <3>3, <3>5, <4>1 DEF WaitReplyFits, Told
    <3>6. CASE reply' = Told(api, r, "interrupt") /\ status[r] = "interrupted"
      <4>1. output[r] = "interrupt"
        BY <3>6 DEF Valued
      <4> QED
        BY <3>3, <3>6, <4>1 DEF WaitReplyFits, Told
    <3>7. CASE /\ reply' = Told(api, r, "error") /\ ~Succeeded(r) /\ Given(r) = "text"
               /\ status[r] = "interrupted" => api = "threads"
      <4>1. status[r] \in {"error", "interrupted"}
        <5>1. ASSUME status[r] = "success" PROVE FALSE
          BY <3>7, <5>1 DEF Succeeded
        <5> QED
          BY <3>1, <3>2, <3>7, <5>1 DEF Statuses
      <4>2. CASE status[r] = "error"
        BY <3>3, <3>7, <4>2 DEF WaitReplyFits, Told
      <4>3. CASE status[r] = "interrupted"
        <5>1. output[r] = "interrupt" /\ Gives[r] = "text"
          BY <3>7, <4>3 DEF Valued, Given
        <5>2. reply'.to = "waitThread" /\ reply'.run = r /\ reply'.body = "error"
          BY <3>7, <4>3 DEF Told
        <5> QED
          BY <3>3, <4>3, <5>1, <5>2 DEF WaitReplyFits
      <4> QED
        BY <4>1, <4>2, <4>3
    <3> QED
      BY <3>1, <3>2, <3>5, <3>6, <3>7, TellsFit
  <2>5. CASE UNCHANGED apiVars
    BY <2>5 DEF apiVars, threadVars, vars, WaitReplyFits
  <2> QED
    BY <2>2, <2>3, <2>4, <2>5, ApiCases
<1> QED
  BY <1>1, <1>2, ApiTypesKept, ApiValued, PTL DEF ApiSpec

-----------------------------------------------------------------------------
(* Nothing is forgotten, through the interface either.                     *)

\* A run that is put by a request is owed no more than it is carried.
LEMMA DrivenAdmission ==
  ASSUME TypeOK, NEW x \in Runs, NEW a \in AgentIds \cup {NoAgent}, Enqueued(x, a),
         NEW r \in Runs, Owed(r) => Driven(r), Owed(r)'
  PROVE  Driven(r)'
<1>1. /\ queue \in Seq(Runs) /\ queue' = Append(queue, x) /\ UNCHANGED <<pc, job>>
      /\ r # x => Owed(r)
  BY DEF Enqueued, Enqueue, Owed, TypeOK, workerVars
<1>2. Queued(r)' <=> Queued(r) \/ r = x
  BY <1>1, EnqueueQueued
<1> QED
  BY <1>1, <1>2 DEF Driven, Active

\* While the workers are up, a run that a request stored or resumed is queued or being
\* executed until it has its result or has used up its attempts: whichever API it came
\* by, whether its client was answered, waits or went away with an error, and with
\* webhooks that reject.
THEOREM ApiLosesNoRun == ApiSpec => []NoLostRun
<1>1. ApiInit => NoLostRun
  BY DEF ApiInit, ThreadInit, Init, NoLostRun, Owed
<1>2. TypesInv /\ NoLostRun /\ [ApiNext]_apiVars => NoLostRun'
  <2> SUFFICES ASSUME TypesInv, NoLostRun, [ApiNext]_apiVars, pool' = "up", NEW r \in Runs, Owed(r)'
               PROVE  Driven(r)'
    BY DEF NoLostRun
  <2>1. TypeOK
    BY DEF TypesInv
  <2>2. ASSUME Next PROVE Driven(r)'
    BY <2>1, <2>2, PoolNeverReturns, DrivenStep DEF NoLostRun
  <2>3. ASSUME NEW x \in Runs, NEW a \in AgentIds \cup {NoAgent}, Enqueued(x, a) PROVE Driven(r)'
    <3>1. Owed(r) => Driven(r)
      BY <2>3 DEF NoLostRun, Enqueued, Enqueue, workerVars
    <3> QED
      BY <2>1, <2>3, <3>1, DrivenAdmission
  <2>4. ASSUME UNCHANGED <<dbVars, queue, workerVars, tries, resumes>> PROVE Driven(r)'
    BY <2>4 DEF NoLostRun, dbVars, workerVars, Owed, Driven, Queued, Active
  <2>5. (\E w \in Workers : Worker(w)) \/ CancelWorkers \/ (\E x \in Runs : Resume(x) \/ Delete(x)) => Next
    BY DEF Next, Request
  <2> QED
    BY <2>2, <2>3, <2>4, <2>5, QueueCases
<1> QED
  BY <1>1, <1>2, ApiTypesKept, PTL DEF ApiSpec

-----------------------------------------------------------------------------
(***************************************************************************)
(* What the endpoints that only read show.  They look at one state, so     *)
(* that the types are all they need: the keys of DB._runs are the runs.    *)
(***************************************************************************)

\* What a page of a list is: the elements from its first place on, as many as fit.
LEMMA SliceProperties ==
  ASSUME NEW S, NEW s \in Seq(S), NEW offset \in Nat, NEW limit \in Nat
  PROVE  /\ \A i \in Nat \ {0} :
              i \in DOMAIN Slice(s, offset, limit) <=> i <= limit /\ offset + i \in DOMAIN s
         /\ \A i \in Nat \ {0} :
              i \in DOMAIN Slice(s, offset, limit) => Slice(s, offset, limit)[i] = s[offset + i]
<1> DEFINE slice == Slice(s, offset, limit)
<1>0. PICK len \in Nat : len = Len(s) /\ DOMAIN s = 1..len
  OBVIOUS
<1>1. PICK n \in Nat : n = IF len < offset + limit THEN len ELSE offset + limit
  <2>1. (IF len < offset + limit THEN len ELSE offset + limit) \in Nat
    <3>1. len \in Nat /\ offset + limit \in Nat
      OBVIOUS
    <3> QED
      BY <3>1
  <2> QED
    BY <2>1
<1>2. slice = SubSeq(s, offset + 1, n)
  BY <1>0, <1>1 DEF Slice
<1>3. n <= len /\ n <= offset + limit /\ (n = len \/ n = offset + limit)
  <2>1. CASE len < offset + limit
    BY <1>1, <2>1
  <2>2. CASE ~(len < offset + limit)
    BY <1>1, <2>2
  <2> QED
    BY <2>1, <2>2
<1> HIDE DEF slice
<1>4. \A i \in (offset + 1)..n : s[i] \in S
  <2>1. \A i \in 1..len : s[i] \in S
    BY <1>0, ElementOfSeq
  <2>2. (offset + 1)..n \subseteq 1..len
    BY <1>3
  <2> QED
    BY <2>1, <2>2
<1>5. /\ slice \in Seq(S) /\ Len(slice) = IF offset + 1 <= n THEN n - (offset + 1) + 1 ELSE 0
      /\ \A i \in 1..(n - (offset + 1) + 1) : slice[i] = s[(offset + 1) + i - 1]
  <2>1. offset + 1 \in Int /\ n \in Int
    OBVIOUS
  <2> QED
    BY <1>2, <1>4, <2>1, SubSeqProperties
<1>6. DOMAIN slice = 1..Len(slice)
  BY <1>5
<1>7. ASSUME NEW i \in Nat \ {0} PROVE i \in DOMAIN slice <=> i <= limit /\ offset + i \in DOMAIN s
  <2>1. i \in DOMAIN slice <=> offset + i <= n
    <3>1. CASE offset + 1 <= n
      <4>1. Len(slice) = n - offset
        BY <1>5, <3>1
      <4> QED
        BY <1>6, <4>1
    <3>2. CASE ~(offset + 1 <= n)
      <4>1. Len(slice) = 0
        BY <1>5, <3>2
      <4>2. ~(offset + i <= n)
        BY <3>2
      <4> QED
        BY <1>6, <4>1, <4>2
    <3> QED
      BY <3>1, <3>2
  <2>2. offset + i <= n <=> i <= limit /\ offset + i <= len
    BY <1>3
  <2>3. offset + i \in 1..len <=> offset + i <= len
    OBVIOUS
  <2> QED
    BY <1>0, <2>1, <2>2, <2>3
<1>8. ASSUME NEW i \in Nat \ {0}, i \in DOMAIN slice PROVE slice[i] = s[offset + i]
  <2>1. i \in 1..(n - (offset + 1) + 1) /\ (offset + 1) + i - 1 = offset + i
    BY <1>5, <1>6, <1>8
  <2> QED
    BY <1>5, <2>1
<1> QED
  BY <1>7, <1>8 DEF slice

\* A list in pages, and where an element is in them.
Pages(s, last, limit) == [k \in 0..last |-> Slice(s, k * limit, limit)]
FoundAt(pages, limit, x) ==
  {p \in (DOMAIN pages) \X (1..limit) : p[2] \in DOMAIN pages[p[1]] /\ pages[p[1]][p[2]] = x}

\* Page after page, a list shows each of its elements at one place of one page.
LEMMA ShownOnce ==
  ASSUME NEW S, NEW s \in Seq(S), Distinct(s), NEW N \in Nat, Len(s) <= N, NEW limit \in Nat \ {0}, NEW x
  PROVE  LET found == FoundAt(Pages(s, N, limit), limit, x) IN
         Cardinality(found) = (IF Within(x, s) THEN 1 ELSE 0) /\ (found # {} <=> Within(x, s))
<1> DEFINE pages == Pages(s, N, limit)
           found == FoundAt(pages, limit, x)
<1>0. /\ \A j \in Nat \ {0} : \E k \in 0..j, i \in 1..limit : j = k * limit + i
      /\ \A k, l \in Nat, i, j \in 1..limit : k * limit + i = l * limit + j => k = l /\ i = j
  BY OnOnePage, Zenon
<1>1. Len(s) \in Nat /\ DOMAIN s = 1..Len(s) /\ DOMAIN pages = 0..N
  BY DEF Pages
<1>8. \A k \in 0..N : pages[k] = Slice(s, k * limit, limit)
  BY DEF Pages
<1> HIDE DEF pages
<1>9. found = {p \in (0..N) \X (1..limit) : p[2] \in DOMAIN pages[p[1]] /\ pages[p[1]][p[2]] = x}
  BY <1>1 DEF FoundAt
<1> HIDE DEF found
<1>2. ASSUME NEW k \in 0..N, NEW i \in 1..limit
      PROVE  <<k, i>> \in found <=> k * limit + i \in DOMAIN s /\ s[k * limit + i] = x
  <2>1. k * limit \in Nat /\ i \in Nat \ {0} /\ limit \in Nat /\ i <= limit
    OBVIOUS
  <2>2. pages[k] = Slice(s, k * limit, limit)
    BY <1>8
  <2>3. i \in DOMAIN pages[k] <=> k * limit + i \in DOMAIN s
    BY <2>1, <2>2, SliceProperties
  <2>4. i \in DOMAIN pages[k] => pages[k][i] = s[k * limit + i]
    <3> SUFFICES ASSUME i \in DOMAIN pages[k] PROVE pages[k][i] = s[k * limit + i]
      OBVIOUS
    <3> DEFINE offset == k * limit
    <3>1. offset \in Nat
      BY <2>1
    <3>2. i \in DOMAIN Slice(s, offset, limit)
      BY <2>2
    <3> HIDE DEF offset
    <3>3. Slice(s, offset, limit)[i] = s[offset + i]
      BY <2>1, <3>1, <3>2, SliceProperties
    <3> QED
      BY <2>2, <3>3 DEF offset
  <2>5. <<k, i>> \in found <=> i \in DOMAIN pages[k] /\ pages[k][i] = x
    BY <1>9
  <2> QED
    BY <2>3, <2>4, <2>5
<1>3. \A p \in found : p \in (0..N) \X (1..limit)
  BY <1>9
<1>4. ASSUME NEW p \in found PROVE Within(x, s)
  <2>1. PICK k \in 0..N, i \in 1..limit : p = <<k, i>>
    BY <1>3
  <2> QED
    BY <1>2, <2>1 DEF Within
<1>5. ASSUME Within(x, s) PROVE Cardinality(found) = 1 /\ found # {}
  <2>1. PICK j \in 1..Len(s) : s[j] = x
    BY <1>1, <1>5 DEF Within
  <2>2. PICK k \in 0..j, i \in 1..limit : j = k * limit + i
    <3>1. j \in Nat \ {0}
      BY <1>1
    <3> QED
      BY <1>0, <3>1, Zenon
  <2>3. k \in 0..N /\ k \in Nat
    BY <1>1, <2>1
  <2>4. <<k, i>> \in found
    BY <1>1, <1>2, <2>1, <2>2, <2>3
  <2>5. ASSUME NEW p \in found PROVE p = <<k, i>>
    <3>1. PICK l \in 0..N, h \in 1..limit : p = <<l, h>>
      BY <1>3
    <3>2. l * limit + h \in DOMAIN s /\ s[l * limit + h] = x
      BY <1>2, <2>5, <3>1
    <3>3. l * limit + h = k * limit + i
      BY <1>1, <2>1, <2>2, <3>2 DEF Distinct
    <3>4. l = k /\ h = i
      <4>1. l \in Nat
        BY <1>1
      <4> DEFINE Place(page, at) == page * limit + at
      <4>2. \A a, b \in Nat, c, d \in 1..limit : Place(a, c) = Place(b, d) => a = b /\ c = d
        BY <1>0, Zenon
      <4>3. Place(l, h) = Place(k, i)
        BY <3>3
      <4> HIDE DEF Place
      <4> QED
        BY <2>3, <4>1, <4>2, <4>3
    <3> QED
      BY <3>1, <3>4
  <2>6. Cardinality(found) = 1
    BY <2>4, <2>5, OneElement, Zenon
  <2>7. found # {}
    BY <2>4, Zenon
  <2> QED
    BY <2>6, <2>7
<1>6. ASSUME ~Within(x, s) PROVE Cardinality(found) = 0 /\ found = {}
  <2>1. found = {}
    BY <1>4, <1>6
  <2>2. Cardinality({}) = 0
    BY FS_EmptySet
  <2> QED
    BY <2>1, <2>2
<1>7. Cardinality(found) = (IF Within(x, s) THEN 1 ELSE 0) /\ (found # {} <=> Within(x, s))
  BY <1>5, <1>6
<1> QED
  BY <1>7 DEF found, pages

\* Each run that names its agent can be made an answer of the stateless API, and
\* none that names none can be one of a thread.
LEMMA RunsShown ==
  ASSUME NEW r \in Runs, status[r] \in Statuses
  PROVE  /\ agent[r] # NoAgent => Validates(RunStateless, StatelessRun(r))
         /\ Validates(RunStateful, StatefulRun(r)) => agent[r] # NoAgent
<1> DEFINE config == ModelDump(Config, [configurable |-> "object"])
<1>1. Kind("Config", Config, config) = "Config"
  <2>1. /\ config = [f \in {"tags", "recursion_limit", "configurable"} |->
                       IF f = "configurable" THEN "object" ELSE "null"]
    BY DEF ModelDump, Config, Default, NoDefaults
  <2> HIDE DEF config
  <2>2. Validates(Config, config)
    BY <2>1 DEF Validates, Config, Anything
  <2> QED
    BY <2>2 DEF Kind
<1> HIDE DEF config
<1>2. Validates(RunCreateStateless, Creation(r))
  <2>1. Creation(r) = [agent_id |-> IF agent[r] = NoAgent THEN "null" ELSE "text",
                       thread_id |-> "text", input |-> "object", metadata |-> "null", config |-> "Config"]
    BY <1>1 DEF Creation, config
  <2>2. /\ RunCreateStateless.required = {}
        /\ "thread_id" \notin DOMAIN RunCreateStateless.fields
        /\ RunCreateStateless.fields["agent_id"] = Optional(Texts)
        /\ RunCreateStateless.fields["input"] = Anything
        /\ RunCreateStateless.fields["metadata"] = {"null", "object"}
        /\ RunCreateStateless.fields["config"] = {"null", "Config"}
    BY DEF RunCreateStateless
  <2>3. "null" \in Optional(Texts) /\ "text" \in Optional(Texts) /\ "object" \in Anything
    BY DEF Optional, Texts, Anything
  <2> DEFINE given == Creation(r)
  <2>4. /\ DOMAIN given = {"agent_id", "thread_id", "input", "metadata", "config"}
        /\ given["agent_id"] \in {"null", "text"} /\ given["input"] = "object"
        /\ given["metadata"] = "null" /\ given["config"] = "Config"
    BY <2>1
  <2> HIDE DEF given
  <2> QED
    BY <2>2, <2>3, <2>4 DEF Validates, given
<1>3. ASSUME agent[r] # NoAgent PROVE Validates(RunStateless, StatelessRun(r))
  <2>1. Creation(r).agent_id = "text"
    BY <1>3 DEF Creation
  <2>2. StatelessRun(r) =
          [run_id |-> "text", thread_id |-> "text", agent_id |-> "text", created_at |-> "time",
           updated_at |-> "time", status |-> status[r], creation |-> "RunCreateStateless"]
    BY <1>2, <2>1 DEF StatelessRun, Stored, Kind
  <2>3. status[r] \in RunStatus /\ "text" \in Texts /\ "text" \in Optional(Texts)
    BY DEF Statuses, RunStatus, Texts, Optional
  <2>4. /\ RunStateless.required = {"run_id", "agent_id", "created_at", "updated_at", "status", "creation"}
        /\ RunStateless.fields =
             [run_id |-> Texts, thread_id |-> Optional(Texts), agent_id |-> Texts, created_at |-> {"time"},
              updated_at |-> {"time"}, status |-> RunStatus, creation |-> {"RunCreateStateless"}]
    BY DEF RunStateless
  <2> DEFINE given == StatelessRun(r)
             fields == RunStateless.fields
  <2>5. /\ DOMAIN given = {"run_id", "thread_id", "agent_id", "created_at", "updated_at", "status", "creation"}
        /\ given["run_id"] \in fields["run_id"] /\ given["thread_id"] \in fields["thread_id"]
        /\ given["agent_id"] \in fields["agent_id"] /\ given["created_at"] \in fields["created_at"]
        /\ given["updated_at"] \in fields["updated_at"] /\ given["status"] \in fields["status"]
        /\ given["creation"] \in fields["creation"]
    BY <2>2, <2>3, <2>4
  <2>6. RunStateless.required \subseteq DOMAIN given
    BY <2>4, <2>5
  <2> HIDE DEF given, fields
  <2>7. \A f \in DOMAIN given : given[f] \in fields[f]
    BY <2>5
  <2> QED
    BY <2>6, <2>7 DEF Validates, given, fields
<1>4. ASSUME agent[r] = NoAgent PROVE ~Validates(RunStateful, StatefulRun(r))
  <2>1. "agent_id" \in DOMAIN RunStateful.fields /\ RunStateful.fields["agent_id"] = Texts
    <3> DEFINE fields == RunStateless.fields
    <3>1. RunStateful.fields = [fields EXCEPT !["creation"] = {"RunCreateStateful"}]
      BY DEF RunStateful, RunStateless
    <3>2. "agent_id" \in DOMAIN fields /\ fields["agent_id"] = Texts
      BY DEF RunStateless
    <3> HIDE DEF fields
    <3> QED
      BY <3>1, <3>2
  <2>2. "agent_id" \in DOMAIN StatefulRun(r) /\ StatefulRun(r)["agent_id"] = "null"
    BY <1>4 DEF StatefulRun, Stored, Creation
  <2>3. "null" \notin Texts
    BY DEF Texts, Literals, RunStatus, StreamingMode
  <2> QED
    BY <2>1, <2>2, <2>3 DEF Validates
<1> QED
  BY <1>3, <1>4

\* A search finds a run by its agent and status, once, and what can be found can be
\* got and streamed, as can what a thread lists.
THEOREM SearchesAgree == ApiSpec => []ViewsAgree
<1>1. ASSUME TypesInv, NEW r \in Runs, Present(r), agent[r] # NoAgent
      PROVE  GetRun(r) = 200 /\ StreamRun(r) = 200
  BY <1>1, RunsShown DEF GetRun, StreamRun, Present
<1> DEFINE Shown(a, s, limit) == [k \in 0..Len(order) |-> SearchRuns(a, s, k * limit, limit)]
<1>2. ASSUME TypesInv, NEW a \in AgentIds, NEW s, NEW limit \in 1..Len(order), NEW r \in Runs
      PROVE  LET found == FoundAt(Shown(a, s, limit), limit, r) IN
             /\ Cardinality(found) = IF Present(r) /\ status[r] = s /\ agent[r] = a THEN 1 ELSE 0
             /\ found # {} => GetRun(r) = 200 /\ StreamRun(r) = 200
  <2> DEFINE match == Matching(order, {q \in Runs : agent[q] = a /\ status[q] = s})
             found == FoundAt(Shown(a, s, limit), limit, r)
  <2>0. /\ order \in Seq(Runs) /\ Distinct(order) /\ Len(order) \in Nat /\ limit \in Nat \ {0}
        /\ Within(r, order) <=> Present(r)
    BY <1>2 DEF TypesInv, OrderOK
  <2>1. a # NoAgent
    BY ServedAssumption DEF AgentIds, Known
  <2>2. Shown(a, s, limit) = Pages(match, Len(order), limit)
    <3>1. \A k : SearchRuns(a, s, k * limit, limit) = Slice(match, k * limit, limit)
      BY <2>1, Zenon DEF SearchRuns, SearchForRuns
    <3> HIDE DEF match
    <3> QED
      BY <3>1, Zenon DEF Pages
  <2>3. /\ match \in Seq(Runs) /\ Len(match) <= Len(order) /\ Distinct(match)
        /\ Within(r, match) <=> Present(r) /\ agent[r] = a /\ status[r] = s
    BY <2>0, MatchingProperties
  <2> HIDE DEF match
  <2>4. Cardinality(found) = (IF Within(r, match) THEN 1 ELSE 0) /\ (found # {} <=> Within(r, match))
    <3> DEFINE there == FoundAt(Pages(match, Len(order), limit), limit, r)
    <3>1. Cardinality(there) = (IF Within(r, match) THEN 1 ELSE 0) /\ (there # {} <=> Within(r, match))
      BY <2>0, <2>3, ShownOnce, Zenon
    <3>2. found = there
      BY <2>2, Zenon
    <3> HIDE DEF found, there
    <3> QED
      BY <3>1, <3>2
  <2> HIDE DEF found
  <2>5. /\ Cardinality(found) = IF Present(r) /\ status[r] = s /\ agent[r] = a THEN 1 ELSE 0
        /\ found # {} => GetRun(r) = 200 /\ StreamRun(r) = 200
    BY <1>1, <1>2, <2>1, <2>3, <2>4
  <2> QED
    BY <2>5 DEF found
<1>3. ASSUME TypesInv, NEW t \in ThreadIds, ListThreadRuns(t) = 200
      PROVE  GetThread(t) # 404 /\ \A r \in ThreadRunsOf(t) : GetThreadRun(t, r) = 200 /\ GetRun(r) = 200
  <2>1. thread[t] = "present" /\ \A r \in ThreadRunsOf(t) : Validates(RunStateful, StatefulRun(r))
    BY <1>3 DEF ListThreadRuns
  <2>2. GetThread(t) # 404
    BY <2>1 DEF GetThread
  <2>3. ASSUME NEW r \in ThreadRunsOf(t) PROVE GetThreadRun(t, r) = 200 /\ GetRun(r) = 200
    <3>1. r \in Runs /\ Present(r) /\ owner[r] = t /\ Validates(RunStateful, StatefulRun(r))
      BY <2>1 DEF ThreadRunsOf
    <3>2. agent[r] # NoAgent
      BY <3>1, RunsShown DEF Present
    <3> QED
      BY <1>1, <1>3, <2>1, <3>1, <3>2 DEF GetThreadRun
  <2> QED
    BY <2>2, <2>3
<1>4. TypesInv => ViewsAgree
  <2> SUFFICES ASSUME TypesInv PROVE ViewsAgree
    OBVIOUS
  <2> HIDE DEF Shown
  <2>1. ASSUME NEW a \in AgentIds, NEW s \in {status[r] : r \in Runs}, NEW limit \in 1..Len(order), NEW r \in Runs
        PROVE  LET found == FoundAt(Shown(a, s, limit), limit, r) IN
               /\ Cardinality(found) = IF Present(r) /\ status[r] = s /\ agent[r] = a THEN 1 ELSE 0
               /\ found # {} => GetRun(r) = 200 /\ StreamRun(r) = 200
    BY <1>2
  <2>2. \A a \in AgentIds, s \in {status[r] : r \in Runs}, limit \in 1..Len(order) :
          LET found(r) == FoundAt(Shown(a, s, limit), limit, r) IN
          \A r \in Runs :
            /\ Cardinality(found(r)) = IF Present(r) /\ status[r] = s /\ agent[r] = a THEN 1 ELSE 0
            /\ found(r) # {} => GetRun(r) = 200 /\ StreamRun(r) = 200
    BY <2>1, Zenon
  <2> QED
    BY <1>3, <2>2, Zenon DEF ViewsAgree, FoundAt, Shown
<1> QED
  BY <1>4, ApiTypesKept, PTL
=============================================================================
