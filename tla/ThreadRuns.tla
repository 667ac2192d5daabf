------------------------------ MODULE ThreadRuns ------------------------------
(***************************************************************************)
(* Runs on threads: ThreadRuns.put and .delete (services/thread_runs.py)   *)
(* and the creation and deletion of threads (services/threads.py),         *)
(* composed with the run queue.  A thread may have one pending run at a    *)
(* time and is not to be deleted while it has one.                         *)
(*                                                                         *)
(* ThreadRuns.put is suspended in agent.get_agent_state between looking up *)
(* the thread and looking for pending runs; the check for pending runs and *)
(* what follows it run without suspension.  A run on a thread is resumed   *)
(* through POST /runs/{run_id}, which accepts any run id.                  *)
(***************************************************************************)
EXTENDS RunQueue

CONSTANTS
  ThreadIds,  \* threads
  NoThread,
  Posts       \* requests to POST /threads/{thread_id}/runs/wait

ASSUME ThreadAssumption == NoThread \notin ThreadIds

VARIABLES
  thread,  \* DB._threads: absent, present, deleted
  owner,   \* DB._runs[r]["thread_id"]
  post     \* the thread each post is loading, NoThread when it is not under way

threadVars == <<thread, owner, post, vars>>

ThreadInit ==
  /\ Init
  /\ thread = [t \in ThreadIds |-> "absent"]
  /\ owner = [r \in Runs |-> NoThread]
  /\ post = [p \in Posts |-> NoThread]

\* DB.search_run({"thread_id": t, "status": "pending"})
HasPending(t) == \E r \in Runs : owner[r] = t /\ status[r] = "pending"

\* A client may name its thread, so the id of a deleted one may come again; for
\* a thread that exists the request changes nothing.
CreateThread(t) ==
  /\ thread[t] # "present"
  /\ thread' = [thread EXCEPT ![t] = "present"]
  /\ UNCHANGED <<owner, post, vars>>

\* Get_thread_by_id finds the thread and waits for the agent's state.
BeginPost(p, t) ==
  /\ post[p] = NoThread /\ thread[t] = "present"
  /\ post' = [post EXCEPT ![p] = t]
  /\ UNCHANGED <<thread, owner, vars>>

\* Faulty PostRun: the check is made when the request comes in only.
PostRunUnchecked(p, r) ==
  /\ post[p] # NoThread
  /\ Put(r)
  /\ owner' = [owner EXCEPT ![r] = post[p]]
  /\ post' = [post EXCEPT ![p] = NoThread]
  /\ UNCHANGED thread

\* The state has come: the thread is not looked up again.
PostRun(p, r) ==
  /\ post[p] # NoThread /\ ~HasPending(post[p])
  /\ Put(r)
  /\ owner' = [owner EXCEPT ![r] = post[p]]
  /\ post' = [post EXCEPT ![p] = NoThread]
  /\ UNCHANGED thread

\* PendingRunError: 409, the request changes nothing.
RejectPost(p) ==
  /\ post[p] # NoThread /\ HasPending(post[p])
  /\ post' = [post EXCEPT ![p] = NoThread]
  /\ UNCHANGED <<thread, owner, vars>>

\* The agent has no state to give: ThreadsNotSupportedError.
AbortPost(p) ==
  /\ post[p] # NoThread
  /\ post' = [post EXCEPT ![p] = NoThread]
  /\ UNCHANGED <<thread, owner, vars>>

\* Faulty DeleteThread: the record is emptied, not removed.
EmptyThread(t) ==
  /\ thread[t] = "present" /\ ~HasPending(t)
  /\ thread' = [thread EXCEPT ![t] = "empty"]
  /\ UNCHANGED <<owner, post, vars>>

DeleteThread(t) ==
  /\ thread[t] = "present" /\ ~HasPending(t)
  /\ thread' = [thread EXCEPT ![t] = "deleted"]
  /\ UNCHANGED <<owner, post, vars>>

\* Only a thread that is still there lets its runs be deleted.
DeleteRun(t, r) ==
  /\ thread[t] = "present" /\ owner[r] = t
  /\ Delete(r)
  /\ UNCHANGED <<thread, owner, post>>

QueueStep ==
  /\ \/ \E r \in Runs : Resume(r)
     \/ \E w \in Workers : Worker(w)
     \/ \E c \in Clients : Client(c)
     \/ CancelWorkers
  /\ UNCHANGED <<thread, owner, post>>

Post(p) == RejectPost(p) \/ AbortPost(p) \/ (\E t \in ThreadIds : BeginPost(p, t)) \/ \E r \in Runs : PostRun(p, r)

Thread(t) == CreateThread(t) \/ DeleteThread(t) \/ \E r \in Runs : DeleteRun(t, r)

ThreadNext ==
  \/ QueueStep
  \/ \E p \in Posts : Post(p)
  \/ \E t \in ThreadIds : Thread(t)

ThreadSpec == ThreadInit /\ [][ThreadNext]_threadVars

-----------------------------------------------------------------------------
(* Properties *)

ThreadTypeOK ==
  /\ thread \in [ThreadIds -> {"absent", "present", "deleted"}]
  /\ owner \in [Runs -> ThreadIds \cup {NoThread}]
  /\ post \in [Posts -> ThreadIds \cup {NoThread}]

\* However the posts to a thread interleave, at most one of its pending runs is
\* in its first attempt: the check and the creation are one step.
FirstAttempt(r) ==
  /\ status[r] = "pending" /\ resumes[r] = 0
  /\ tries[r] = 0 \/ (tries[r] = 1 /\ \E w \in Workers : pc[w] = "running" /\ job[w] = r)
NewRunsAlternate ==
  \A t \in ThreadIds : \A r, q \in Runs :
    /\ owner[r] = t /\ owner[q] = t
    /\ FirstAttempt(r) /\ FirstAttempt(q)
    => r = q

\* apis/threads.py:99, "If the thread contains any pending run, deletion fails":
\* so a run that is pending still has its thread.
PendingHasThread ==
  \A r \in Runs : owner[r] # NoThread /\ status[r] = "pending" => thread[owner[r]] = "present"
=============================================================================
