------------------------------ MODULE RunQueue ------------------------------
(***************************************************************************)
(* The background run queue: services/queue.py (the worker pool) together  *)
(* with the part of services/runs.py it drives: Runs.put, Runs.resume,     *)
(* Runs.set_status, Runs.wait_for_output and the condition variables       *)
(* cvs_pending_run.                                                        *)
(*                                                                         *)
(* The server is one asyncio event loop, so a step here is the code        *)
(* between two points where a coroutine really suspends: RUNS_QUEUE.get()  *)
(* on an empty queue, the webhook request of a run that has one, the       *)
(* agent's stream, the gather() of Stream.publish, and Condition.wait().   *)
(* RUNS_QUEUE.put, Stream.subscribe and `async with` on a condition whose  *)
(* lock nobody holds across a suspension run straight through.             *)
(*                                                                         *)
(* Abstractions.  A run's payload is the kind of its stored output.  The   *)
(* messages an agent streams change nothing here (see RunStream).  The     *)
(* timestamps of a RunInfo are left out, and each worker has a copy of its *)
(* own of the RunInfo it read at line 81.                                  *)
(***************************************************************************)
EXTENDS Naturals, Sequences

CONSTANTS
  Runs,          \* the run ids that may be handed out
  Workers,       \* the tasks of start_workers
  Clients,       \* requests that block in wait_for_output
  NoRun,         \* a worker that holds no run
  MaxAttempts,   \* MAX_RETRY_ATTEMPTS
  MaxResumes,    \* bound: how often one run is resumed
  Hooked,        \* runs created with a webhook
  Flaky,         \* those whose webhook may answer with an HTTP error status
  Deletable      \* runs a client may delete (DELETE /threads/{t}/runs/{r})

ASSUME RunsAssumption == NoRun \notin Runs
ASSUME BoundsAssumption == MaxAttempts \in Nat \ {0} /\ MaxResumes \in Nat
ASSUME HookAssumption == Hooked \subseteq Runs /\ Flaky \subseteq Hooked
ASSUME DeletableAssumption == Deletable \subseteq Runs

VARIABLES
  status,    \* DB._runs[r]["status"]; "new": no such run yet, "gone": deleted
  output,    \* DB._runs_output[r], as the kind of value stored
  attempts,  \* DB._runs_info[r]["attempts"]
  queue,     \* RUNS_QUEUE
  pc,        \* where each worker is suspended
  job,       \* the run_id each worker holds
  held,      \* the worker's own run_info["attempts"]
  pool,      \* the start_workers task: up, failed (a worker raised), down
  waiter,    \* requests in wait_for_output, and what the last one returned
  tries,     \* history: agent executions since the run was put or resumed
  resumes    \* bound: resumes so far

dbVars == <<status, output, attempts>>
workerVars == <<pc, job, held, pool>>
vars == <<status, output, attempts, queue, pc, job, held, pool, waiter, tries, resumes>>

-----------------------------------------------------------------------------
Statuses == {"pending", "interrupted", "success", "error"}
OutputKinds == {"none", "value", "interrupt", "error"}

(***************************************************************************)
(* "idle"       in RUNS_QUEUE.get()                                        *)
(* "hookStart"  in the webhook of set_status("pending"), outside the try   *)
(* "running"    consuming the agent's stream                               *)
(* "hookEnd"    in the webhook of set_status("success" or "interrupted")   *)
(* "closing"    publishing the control message "done"                      *)
(* "hookError"  in the webhook of set_status("error") of the retry path    *)
(* "retrying"   publishing the error, before the run is re-queued          *)
(* "hookGiveUp" in the webhook of set_status("error") once attempts are    *)
(*              exhausted                                                  *)
(* "dead"       an exception left the worker; "cancelled" by start_workers *)
(***************************************************************************)
Places == {"idle", "hookStart", "running", "hookEnd", "closing",
           "hookError", "retrying", "hookGiveUp", "dead", "cancelled"}

Idle == [at |-> "idle", run |-> NoRun, status |-> "none", output |-> "none"]
WaiterStates ==
  [at : {"idle", "waiting", "woken", "failed"}, run : Runs \cup {NoRun},
   status : Statuses \cup {"none", "missing"}, output : OutputKinds]

Present(r) == status[r] \in Statuses
Queued(r) == \E i \in 1..Len(queue) : queue[i] = r
\* The worker still has the run's fate in its hands: it will end or re-queue it.
Active(w) == pc[w] \in {"hookStart", "running", "hookError", "retrying"}
Driven(r) == Queued(r) \/ \E w \in Workers : Active(w) /\ job[w] = r

Init ==
  /\ status = [r \in Runs |-> "new"]
  /\ output = [r \in Runs |-> "none"]
  /\ attempts = [r \in Runs |-> 0]
  /\ queue = << >>
  /\ pc = [w \in Workers |-> "idle"]
  /\ job = [w \in Workers |-> NoRun]
  /\ held = [w \in Workers |-> 0]
  /\ pool = "up"
  /\ waiter = [c \in Clients |-> Idle]
  /\ tries = [r \in Runs |-> 0]
  /\ resumes = [r \in Runs |-> 0]

-----------------------------------------------------------------------------
(* The API side: Runs.put, Runs.resume, the deletion of a run.             *)

Put(r) ==
  /\ status[r] = "new"
  /\ status' = [status EXCEPT ![r] = "pending"]
  /\ queue' = Append(queue, r)
  /\ UNCHANGED <<output, attempts, workerVars, waiter, tries, resumes>>

\* Faulty Resume: check_run_is_interrupted accepts a failed run as well.
ResumeFailed(r) ==
  /\ status[r] \in {"interrupted", "error"} /\ resumes[r] < MaxResumes
  /\ status' = [status EXCEPT ![r] = "pending"]
  /\ attempts' = [attempts EXCEPT ![r] = 0]
  /\ tries' = [tries EXCEPT ![r] = 0]
  /\ resumes' = [resumes EXCEPT ![r] = @ + 1]
  /\ queue' = Append(queue, r)
  /\ UNCHANGED <<output, workerVars, waiter>>

\* Faulty Resume: update_run_info without "attempts": 0.
ResumeKeepsAttempts(r) ==
  /\ status[r] = "interrupted" /\ resumes[r] < MaxResumes
  /\ status' = [status EXCEPT ![r] = "pending"]
  /\ tries' = [tries EXCEPT ![r] = 0]
  /\ resumes' = [resumes EXCEPT ![r] = @ + 1]
  /\ queue' = Append(queue, r)
  /\ UNCHANGED <<output, attempts, workerVars, waiter>>

\* The stored attempts restart at 0; the output of the interrupt stays.
Resume(r) ==
  /\ status[r] = "interrupted" /\ resumes[r] < MaxResumes
  /\ status' = [status EXCEPT ![r] = "pending"]
  /\ attempts' = [attempts EXCEPT ![r] = 0]
  /\ tries' = [tries EXCEPT ![r] = 0]
  /\ resumes' = [resumes EXCEPT ![r] = @ + 1]
  /\ queue' = Append(queue, r)
  /\ UNCHANGED <<output, workerVars, waiter>>

\* Whatever its status; neither the queue nor the condition variable is told.
Delete(r) ==
  /\ r \in Deletable /\ Present(r)
  /\ status' = [status EXCEPT ![r] = "gone"]
  /\ output' = [output EXCEPT ![r] = "none"]
  /\ UNCHANGED <<attempts, queue, workerVars, waiter, tries, resumes>>

-----------------------------------------------------------------------------
(* wait_for_output                                                         *)

Answer(r) == [at |-> "idle", run |-> r, status |-> status[r], output |-> output[r]]

Wait(c, r) ==
  /\ waiter[c].at = "idle" /\ status[r] # "new"
  /\ waiter' = [waiter EXCEPT ![c] =
       CASE status[r] = "gone" -> [Idle EXCEPT !.run = r, !.status = "missing"]
         [] status[r] = "pending" -> [Idle EXCEPT !.at = "waiting", !.run = r]
         [] OTHER -> Answer(r)]
  /\ UNCHANGED <<dbVars, queue, workerVars, tries, resumes>>

\* A notified waiter evaluates its predicate again; the status may be pending
\* once more, and a deleted run passes (None) and breaks _to_api_model.
Wake(c) ==
  LET r == waiter[c].run IN
  /\ waiter[c].at = "woken"
  /\ waiter' = [waiter EXCEPT ![c] =
       CASE status[r] = "pending" -> [@ EXCEPT !.at = "waiting"]
         [] status[r] = "gone" -> [@ EXCEPT !.at = "failed"]
         [] OTHER -> Answer(r)]
  /\ UNCHANGED <<dbVars, queue, workerVars, tries, resumes>>

\* Faulty NotifyAll: set_status without its last two lines.
NotifyNobody(r) == r \in Runs /\ UNCHANGED waiter

NotifyAll(r) ==
  waiter' = [c \in Clients |->
    IF waiter[c].at = "waiting" /\ waiter[c].run = r
    THEN [waiter[c] EXCEPT !.at = "woken"] ELSE waiter[c]]

-----------------------------------------------------------------------------
(* The worker.                                                             *)

Goto(w, place) == pc' = [pc EXCEPT ![w] = place]

\* Faulty Release: the worker takes its last run for its own while it is idle.
ReleaseKeepsJob(w) == Goto(w, "idle") /\ UNCHANGED <<job, held, pool>>

Release(w) ==
  /\ Goto(w, "idle")
  /\ job' = [job EXCEPT ![w] = NoRun]
  /\ held' = [held EXCEPT ![w] = 0]
  /\ UNCHANGED pool

\* An exception nobody catches ends the worker's task.
Die(w) ==
  /\ Goto(w, "dead")
  /\ job' = [job EXCEPT ![w] = NoRun]
  /\ held' = [held EXCEPT ![w] = 0]
  /\ pool' = "failed"

SetStatus(r, s) == status' = [status EXCEPT ![r] = s]
\* Faulty CountAttempt: the count stays in the worker's copy.
CountLocally(r, n) == r \in Runs /\ n \in Nat /\ UNCHANGED attempts

CountAttempt(r, n) == attempts' = IF Present(r) THEN [attempts EXCEPT ![r] = n] ELSE attempts

Take(w, r) ==
  /\ pc[w] = "idle" /\ queue # << >> /\ r = Head(queue)
  /\ queue' = Tail(queue)

\* The run was deleted while it was queued: run["run_id"] with run = None.
PickDeleted(w, r) ==
  /\ Take(w, r) /\ ~Present(r)
  /\ Die(w)
  /\ UNCHANGED <<dbVars, waiter, tries, resumes>>

\* set_status("pending") calls the webhook and the worker is suspended in it.
PickHooked(w, r) ==
  /\ Take(w, r) /\ Present(r) /\ r \in Hooked
  /\ SetStatus(r, "pending")
  /\ Goto(w, "hookStart")
  /\ job' = [job EXCEPT ![w] = r]
  /\ held' = [held EXCEPT ![w] = attempts[r]]
  /\ UNCHANGED <<output, attempts, pool, waiter, tries, resumes>>

PickAndRun(w, r) ==
  /\ Take(w, r) /\ Present(r) /\ r \notin Hooked
  /\ attempts[r] + 1 <= MaxAttempts
  /\ SetStatus(r, "pending")
  /\ CountAttempt(r, attempts[r] + 1)
  /\ Goto(w, "running")
  /\ job' = [job EXCEPT ![w] = r]
  /\ held' = [held EXCEPT ![w] = attempts[r] + 1]
  /\ tries' = [tries EXCEPT ![r] = @ + 1]
  /\ UNCHANGED <<output, pool, waiter, resumes>>

\* AttemptsExceededError: error again, nothing published, not re-queued.
PickAndGiveUp(w, r) ==
  /\ Take(w, r) /\ Present(r) /\ r \notin Hooked
  /\ attempts[r] + 1 > MaxAttempts
  /\ SetStatus(r, "error")
  /\ CountAttempt(r, attempts[r] + 1)
  /\ NotifyAll(r)
  /\ UNCHANGED <<output, workerVars, tries, resumes>>

\* The webhook of set_status("pending") has answered.
Start(w) ==
  LET r == job[w] IN
  /\ pc[w] = "hookStart" /\ held[w] + 1 <= MaxAttempts
  /\ CountAttempt(r, held[w] + 1)
  /\ held' = [held EXCEPT ![w] = @ + 1]
  /\ tries' = [tries EXCEPT ![r] = @ + 1]
  /\ Goto(w, "running")
  /\ UNCHANGED <<status, output, queue, job, pool, waiter, resumes>>

GiveUp(w) ==
  LET r == job[w] IN
  /\ pc[w] = "hookStart" /\ held[w] + 1 > MaxAttempts
  /\ CountAttempt(r, held[w] + 1)
  /\ \/ /\ Present(r)
        /\ SetStatus(r, "error")
        /\ held' = [held EXCEPT ![w] = @ + 1]
        /\ Goto(w, "hookGiveUp")
        /\ UNCHANGED <<job, pool>>
     \/ /\ ~Present(r)
        /\ Die(w)
        /\ UNCHANGED status
  /\ UNCHANGED <<output, queue, waiter, tries, resumes>>

\* The stream is over with a valid value or an interrupt: the output is stored
\* before the status is set.
Finish(w, s) ==
  LET r == job[w] IN
  /\ pc[w] = "running" /\ Present(r)
  /\ CountAttempt(r, held[w])
  /\ output' = [output EXCEPT ![r] = IF s = "success" THEN "value" ELSE "interrupt"]
  /\ SetStatus(r, s)
  /\ IF r \in Hooked THEN Goto(w, "hookEnd") /\ UNCHANGED waiter
                     ELSE Goto(w, "closing") /\ NotifyAll(r)
  /\ UNCHANGED <<queue, job, held, pool, tries, resumes>>

\* Faulty Fail: add_run_output is forgotten.
FailSilently(w, from) ==
  LET r == job[w] IN
  /\ pc[w] = from /\ Present(r)
  /\ CountAttempt(r, held[w])
  /\ SetStatus(r, "error")
  /\ IF r \in Hooked THEN Goto(w, "hookError") /\ UNCHANGED waiter
                     ELSE Goto(w, "retrying") /\ NotifyAll(r)
  /\ UNCHANGED <<output, queue, job, held, pool, tries, resumes>>

\* The generic handler: the agent raised, streamed nothing, or its output does
\* not match the schema.  The status is set before the output.
Fail(w, from) ==
  LET r == job[w] IN
  /\ pc[w] = from /\ Present(r)
  /\ CountAttempt(r, held[w])
  /\ SetStatus(r, "error")
  /\ IF r \in Hooked
       THEN Goto(w, "hookError") /\ UNCHANGED <<output, waiter>>
       ELSE /\ Goto(w, "retrying")
            /\ output' = [output EXCEPT ![r] = "error"]
            /\ NotifyAll(r)
  /\ UNCHANGED <<queue, job, held, pool, tries, resumes>>

\* Both set_status calls raise "Run not found"; add_run_output, called before
\* the first, does not look whether the run exists.
EndDeleted(w) ==
  LET r == job[w] IN
  /\ pc[w] = "running" /\ ~Present(r)
  /\ \E kind \in {output[r], "value", "interrupt"} : output' = [output EXCEPT ![r] = kind]
  /\ Die(w)
  /\ UNCHANGED <<status, attempts, queue, waiter, tries, resumes>>

\* A webhook accepted, refused the connection or timed out: set_status goes on
\* to notify the waiters.
HookEndAnswers(w) ==
  /\ pc[w] = "hookEnd"
  /\ NotifyAll(job[w]) /\ Goto(w, "closing")
  /\ UNCHANGED <<dbVars, queue, job, held, pool, tries, resumes>>

HookErrorAnswers(w) ==
  /\ pc[w] = "hookError"
  /\ NotifyAll(job[w]) /\ Goto(w, "retrying")
  /\ output' = [output EXCEPT ![job[w]] = "error"]
  /\ UNCHANGED <<status, attempts, queue, job, held, pool, tries, resumes>>

HookGiveUpAnswers(w) ==
  /\ pc[w] = "hookGiveUp"
  /\ NotifyAll(job[w]) /\ Release(w)
  /\ UNCHANGED <<dbVars, queue, tries, resumes>>

\* Faulty HookRejects: the status error is recorded and the run dropped.
HookRejectionDrops(w) ==
  /\ job[w] \in Flaky /\ pc[w] = "hookEnd" /\ Present(job[w])
  /\ SetStatus(job[w], "error") /\ NotifyAll(job[w]) /\ Release(w)
  /\ UNCHANGED <<output, attempts, queue, tries, resumes>>

\* raise_for_status raises HTTPStatusError, which is not a RequestError.  Only
\* after set_status("success" or "interrupted") does a handler catch it.
HookRejects(w) ==
  /\ job[w] \in Flaky
  /\ \/ Fail(w, "hookEnd")
     \/ /\ \/ pc[w] \in {"hookStart", "hookError", "hookGiveUp"}
           \/ pc[w] = "hookEnd" /\ ~Present(job[w])
        /\ Die(w)
        /\ UNCHANGED <<dbVars, queue, waiter, tries, resumes>>

\* Faulty Close: the re-queueing moved to the finally clause.
CloseRequeues(w) ==
  /\ pc[w] = "closing"
  /\ queue' = Append(queue, job[w]) /\ Release(w)
  /\ UNCHANGED <<dbVars, waiter, tries, resumes>>

Close(w) ==
  /\ pc[w] = "closing"
  /\ Release(w)
  /\ UNCHANGED <<dbVars, queue, waiter, tries, resumes>>

\* Faulty Requeue: line 188 is missing.
RequeueForgotten(w) ==
  /\ pc[w] = "retrying"
  /\ Release(w)
  /\ UNCHANGED <<dbVars, queue, waiter, tries, resumes>>

\* Faulty Requeue: publishing the error raises in the handler.
RequeueRaises(w) ==
  /\ pc[w] = "retrying"
  /\ Die(w)
  /\ UNCHANGED <<dbVars, queue, waiter, tries, resumes>>

Requeue(w) ==
  /\ pc[w] = "retrying"
  /\ queue' = Append(queue, job[w])
  /\ Release(w)
  /\ UNCHANGED <<dbVars, waiter, tries, resumes>>

\* gather() in start_workers raises what the dead worker raised, and the
\* finally clause cancels every other worker wherever it is suspended.
CancelWorkers ==
  /\ pool = "failed"
  /\ pool' = "down"
  /\ pc' = [w \in Workers |-> IF pc[w] = "dead" THEN "dead" ELSE "cancelled"]
  /\ job' = [w \in Workers |-> NoRun]
  /\ held' = [w \in Workers |-> 0]
  /\ UNCHANGED <<dbVars, queue, waiter, tries, resumes>>

-----------------------------------------------------------------------------
Pick(w) ==
  \E r \in Runs : PickDeleted(w, r) \/ PickHooked(w, r) \/ PickAndRun(w, r) \/ PickAndGiveUp(w, r)

Agent(w) == Finish(w, "success") \/ Finish(w, "interrupted") \/ Fail(w, "running") \/ EndDeleted(w)

Hook(w) ==
  Start(w) \/ GiveUp(w) \/ HookEndAnswers(w) \/ HookErrorAnswers(w) \/ HookGiveUpAnswers(w) \/ HookRejects(w)

Worker(w) == Pick(w) \/ Agent(w) \/ Hook(w) \/ Close(w) \/ Requeue(w)

Client(c) == Wake(c) \/ \E r \in Runs : Wait(c, r)

Request(r) == Put(r) \/ Resume(r) \/ Delete(r)

Next ==
  \/ \E r \in Runs : Request(r)
  \/ \E w \in Workers : Worker(w)
  \/ \E c \in Clients : Client(c)
  \/ CancelWorkers

Spec == Init /\ [][Next]_vars

(***************************************************************************)
(* The event loop runs every task that can run, so each worker and each    *)
(* notified waiter is weakly fair.  That an agent's stream ends is assumed *)
(* of the agent; a webhook ends by httpx's default timeout at the latest.  *)
(* Clients owe nothing: Put, Resume, Delete and Wait have no fairness.     *)
(***************************************************************************)
Fairness ==
  /\ \A w \in Workers : WF_vars(Worker(w))
  /\ \A c \in Clients : WF_vars(Wake(c))
  /\ WF_vars(CancelWorkers)

FairSpec == Spec /\ Fairness

-----------------------------------------------------------------------------
(***************************************************************************)
(* The run's life as RunLifecycle sees it.  A run in error that is still   *)
(* carried will be retried.                                                *)
(***************************************************************************)
Life(r) ==
  CASE status[r] = "new" -> "absent"
    [] status[r] = "gone" -> "deleted"
    [] status[r] \in {"success", "interrupted"} -> status[r]
    [] status[r] = "pending" \/ (status[r] = "error" /\ Driven(r)) -> "working"
    [] OTHER -> "failed"

Lifecycle == INSTANCE RunLifecycle WITH life <- [r \in Runs |-> Life(r)]

-----------------------------------------------------------------------------
(* Properties *)

TypeOK ==
  /\ status \in [Runs -> Statuses \cup {"new", "gone"}]
  /\ output \in [Runs -> OutputKinds]
  /\ attempts \in [Runs -> Nat]
  /\ queue \in Seq(Runs)
  /\ pc \in [Workers -> Places]
  /\ job \in [Workers -> Runs \cup {NoRun}]
  /\ held \in [Workers -> Nat]
  /\ pool \in {"up", "failed", "down"}
  /\ waiter \in [Clients -> WaiterStates]
  /\ tries \in [Runs -> Nat]
  /\ resumes \in [Runs -> 0..MaxResumes]
  /\ \A w \in Workers : (job[w] = NoRun) <=> (pc[w] \in {"idle", "dead", "cancelled"})

\* At any time a run has at most one carrier: one place in RUNS_QUEUE or one
\* worker that will still end or re-queue it.  Put, Resume and the retry at
\* queue.py:188 all enqueue without looking.
OnceQueued == \A i, j \in 1..Len(queue) : queue[i] = queue[j] => i = j
NotBoth == \A w \in Workers : Active(w) => ~Queued(job[w])
OneWorker == \A v, w \in Workers : Active(v) /\ Active(w) /\ job[v] = job[w] => v = w
Exclusive == OnceQueued /\ NotBoth /\ OneWorker

\* While the pool is up no run is forgotten: one that is pending, or failed
\* with attempts left, is queued or in a worker that will end or re-queue it.
Owed(r) == status[r] = "pending" \/ (status[r] = "error" /\ attempts[r] <= MaxAttempts)
NoLostRun == pool = "up" => \A r \in Runs : Owed(r) => Driven(r)

\* A run is in error for good only after the agent was run MaxAttempts times
\* since the run was put or resumed, and it is never run more often than that.
RetryBudget ==
  \A r \in Runs :
    /\ tries[r] <= MaxAttempts
    /\ pool = "up" /\ status[r] = "error" /\ ~Driven(r) => tries[r] = MaxAttempts

\* A run that has its result, or waits for its client's input, is left alone:
\* nothing queues or runs it again until it is resumed.
AtRest(r) == status[r] \in {"new", "success", "interrupted"}
RestedIsIdle == \A r \in Runs : AtRest(r) => ~Driven(r)

\* What wait_for_output returns belongs together: the stored output is the one
\* the returned status announces.  Holds for runs without a webhook.
AnswerFits(c) ==
  /\ waiter[c].status = "success" => waiter[c].output = "value"
  /\ waiter[c].status = "interrupted" => waiter[c].output = "interrupt"
  /\ waiter[c].status = "error" => waiter[c].output = "error"
PlainAnswersFit == \A c \in Clients : waiter[c].run \notin Hooked => AnswerFits(c)

\* stateless_runs.py:449: "an error, this happens when the agent run status is
\* error ... This call blocks until the output is available."
AnswersFit == \A c \in Clients : AnswerFits(c)

\* stateless_runs.py:449: "the final result of the run, this happens when the
\* agent run status is success": a step leaves a successful run as it is, or
\* deletes it.
SuccessIsFinal ==
  [][\A r \in Runs : status[r] = "success" => status'[r] \in {"success", "gone"}]_vars

\* Every run that is put or resumed comes to rest: with a result, waiting for
\* input, or in error with its attempts used up, for as long as nobody resumes it.
RunsSettle == \A r \in Runs : Driven(r) ~> ~Driven(r)

\* wait_for_output always returns: a notification is not lost, and a waiter
\* that sees "pending" again after a retry is notified again.
WaitsReturn == \A c \in Clients : (waiter[c].at \in {"waiting", "woken"}) ~> (waiter[c].at = "idle")

\* The queue, its workers and its webhooks implement the life of a run as
\* RunLifecycle promises it, its liveness included.
ImplementsLifecycle == Lifecycle!FairSpec
=============================================================================
