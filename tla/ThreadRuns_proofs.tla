--------------------------- MODULE ThreadRuns_proofs ---------------------------
(***************************************************************************)
(* What holds of ThreadRuns for every set of threads, posts, runs, workers *)
(* and clients.  The threads drive the queue by its own operations only,   *)
(* so what is proved of the queue holds of the two together.               *)
(***************************************************************************)
EXTENDS ThreadRuns, RunQueue_proofs

\* Every step on threads is a step of the queue, or leaves it alone.
LEMMA ThreadStep ==
  ASSUME [ThreadNext]_threadVars
  PROVE  [Next]_vars
<1>1. ASSUME QueueStep PROVE Next
  BY <1>1 DEF QueueStep, Next, Request
<1>2. ASSUME NEW p \in Posts, Post(p) PROVE [Next]_vars
  <2>1. ASSUME NEW r \in Runs, PostRun(p, r) PROVE Next
    BY <2>1 DEF PostRun, Next, Request
  <2>2. ASSUME RejectPost(p) \/ AbortPost(p) \/ \E t \in ThreadIds : BeginPost(p, t) PROVE UNCHANGED vars
    BY <2>2 DEF RejectPost, AbortPost, BeginPost
  <2> QED
    BY <1>2, <2>1, <2>2 DEF Post
<1>3. ASSUME NEW t \in ThreadIds, Thread(t) PROVE [Next]_vars
  <2>1. ASSUME NEW r \in Runs, DeleteRun(t, r) PROVE Next
    BY <2>1 DEF DeleteRun, Next, Request
  <2>2. ASSUME CreateThread(t) \/ DeleteThread(t) PROVE UNCHANGED vars
    BY <2>2 DEF CreateThread, DeleteThread
  <2> QED
    BY <1>3, <2>1, <2>2 DEF Thread
<1> QED
  BY <1>1, <1>2, <1>3 DEF ThreadNext, threadVars

\* No step on threads takes their variables out of their values.
LEMMA ThreadTypeStep ==
  ASSUME ThreadTypeOK, [ThreadNext]_threadVars
  PROVE  ThreadTypeOK'
<1>1. ASSUME NEW p \in Posts, Post(p) PROVE ThreadTypeOK'
  BY <1>1 DEF Post, PostRun, RejectPost, AbortPost, BeginPost, ThreadTypeOK
<1>2. ASSUME NEW t \in ThreadIds, Thread(t) PROVE ThreadTypeOK'
  BY <1>2 DEF Thread, CreateThread, DeleteThread, DeleteRun, ThreadTypeOK
<1>3. ASSUME QueueStep \/ UNCHANGED threadVars PROVE ThreadTypeOK'
  BY <1>3 DEF QueueStep, threadVars, ThreadTypeOK
<1> QED
  BY <1>1, <1>2, <1>3 DEF ThreadNext

\* Threads have their states, runs their threads and requests the thread they
\* wait for, however requests, workers and clients interleave.
THEOREM ThreadTypeCorrect == ThreadSpec => []ThreadTypeOK
<1>1. ThreadInit => ThreadTypeOK
  BY DEF ThreadInit, ThreadTypeOK
<1> QED
  BY <1>1, ThreadTypeStep, PTL DEF ThreadSpec

\* The queue with threads implements the queue alone: posts that wait for the
\* agent's state, deletions of threads and refused posts add nothing to it.
THEOREM ThreadsImplementQueue == ThreadSpec => Spec
<1>1. ThreadInit => Init
  BY DEF ThreadInit
<1> QED
  BY <1>1, ThreadStep, PTL DEF ThreadSpec, Spec

\* So a run posted on a thread is never forgotten while the workers are up,
\* whatever becomes of its thread.
THEOREM ThreadsLoseNoRun == ThreadSpec => []NoLostRun
BY ThreadsImplementQueue, NothingLost, PTL

-----------------------------------------------------------------------------
(***************************************************************************)
(* New runs alternate.  What could bring a second one is a run that        *)
(* becomes pending again although nobody put it.  A run in its first       *)
(* attempt has one carrier, webhooks that reject included: it is queued    *)
(* once, or one worker has it, and until its agent runs it is pending.     *)
(***************************************************************************)
Once(r) == \A i, j \in 1..Len(queue) : queue[i] = r /\ queue[j] = r => i = j

Untried(r) == tries[r] = 0 /\ resumes[r] = 0

First(r) ==
  /\ resumes[r] = 0
  /\ tries[r] = 0 \/ (tries[r] = 1 /\ \E w \in Workers : pc[w] = "running" /\ job[w] = r)

NewIsFree(r) == status[r] = "new" => ~Queued(r) /\ \A w \in Workers : job[w] # r
UntriedIsPending(r) ==
  Untried(r) => /\ status[r] \in {"new", "pending", "gone"} /\ attempts[r] = 0
                /\ \A w \in Workers : job[w] = r => pc[w] = "hookStart" /\ held[w] = 0
FirstIsAlone(r) ==
  First(r) => /\ Once(r)
              /\ \A w \in Workers : job[w] = r => ~Queued(r) /\ \A v \in Workers : job[v] = r => v = w

FirstRun(r) == NewIsFree(r) /\ UntriedIsPending(r) /\ FirstIsAlone(r)
FirstRuns == \A r \in Runs : FirstRun(r)

\* A run is queued once if it was not queued when it was put.
LEMMA EnqueuedOnce ==
  ASSUME queue \in Seq(Runs), NEW x \in Runs, queue' = Append(queue, x), NEW r, Once(r), x # r \/ ~Queued(r)
  PROVE  Once(r)'
<1>1. /\ Len(queue') = Len(queue) + 1 /\ Len(queue) \in Nat
      /\ \A i \in 1..Len(queue) : queue'[i] = queue[i]
      /\ queue'[Len(queue) + 1] = x
  BY AppendProperties, LenProperties
<1>2. \A i \in 1..Len(queue') : i \in 1..Len(queue) \/ i = Len(queue) + 1
  BY <1>1
<1> QED
  BY <1>1, <1>2 DEF Once, Queued

\* What was queued once is queued no more when a worker has taken it.
LEMMA DequeuedOnce ==
  ASSUME queue \in Seq(Runs), queue # << >>, queue' = Tail(queue), NEW x, x = Head(queue), NEW r, Once(r)
  PROVE  Once(r)' /\ (x = r => ~Queued(r)')
<1>1. Once(r)'
  BY TailIndices DEF Once
<1>2. x = r => ~Queued(r)'
  <2> SUFFICES ASSUME x = r, NEW i \in 1..Len(queue'), queue'[i] = r PROVE FALSE
    BY DEF Queued
  <2>1. i + 1 \in 1..Len(queue) /\ 1 \in 1..Len(queue) /\ queue[i + 1] = r /\ queue[1] = r
    BY TailIndices
  <2> QED
    BY <2>1 DEF Once
<1> QED
  BY <1>1, <1>2

\* A step that neither queues a run nor hands it to a worker leaves it alone.
LEMMA FirstAside ==
  ASSUME NEW r \in Runs, FirstRun(r), status'[r] = status[r] \/ status'[r] = "gone",
         attempts'[r] = attempts[r], tries'[r] = tries[r], resumes'[r] = resumes[r],
         Queued(r)' => Queued(r), Once(r) => Once(r)',
         \A v \in Workers : job'[v] = r =>
           /\ job[v] = r /\ held'[v] = held[v]
           /\ pc[v] = "hookStart" => pc'[v] = "hookStart"
           /\ pc'[v] = "running" => pc[v] = "running"
  PROVE  FirstRun(r)'
<1>1. NewIsFree(r)'
  BY DEF FirstRun, NewIsFree
<1>2. UntriedIsPending(r)'
  BY DEF FirstRun, UntriedIsPending, Untried
<1>3. First(r)' => First(r)
  BY DEF First
<1>4. FirstIsAlone(r)'
  BY <1>3 DEF FirstRun, FirstIsAlone
<1> QED
  BY <1>1, <1>2, <1>4 DEF FirstRun

\* A worker that takes a run from the queue.
LEMMA FirstPicked ==
  ASSUME TypeOK, FirstRuns, NEW w \in Workers, NEW x \in Runs,
         PickDeleted(w, x) \/ PickHooked(w, x) \/ PickAndRun(w, x) \/ PickAndGiveUp(w, x), NEW r \in Runs
  PROVE  FirstRun(r)'
<1> USE DEF FirstRuns
<1>1. queue \in Seq(Runs) /\ queue # << >> /\ queue' = Tail(queue) /\ x = Head(queue) /\ pc[w] = "idle"
  BY DEF PickDeleted, PickHooked, PickAndRun, PickAndGiveUp, Take, TypeOK
<1>2. Queued(x) /\ \A y : Queued(y)' => Queued(y)
  BY <1>1, DequeueQueued
<1>3. Once(r) => Once(r)' /\ (x = r => ~Queued(r)')
  BY <1>1, DequeuedOnce
<1>4. CASE x # r \/ PickDeleted(w, x)
  <2>1. \A v \in Workers : job'[v] = r => job[v] = r /\ held'[v] = held[v] /\ pc'[v] = pc[v]
    BY <1>4, RunsAssumption
       DEF PickDeleted, PickHooked, PickAndRun, PickAndGiveUp, Die, Goto, workerVars, TypeOK
  <2>2. status'[r] = status[r] /\ attempts'[r] = attempts[r] /\ tries'[r] = tries[r] /\ resumes'[r] = resumes[r]
    BY <1>4 DEF PickDeleted, PickHooked, PickAndRun, PickAndGiveUp, SetStatus, CountAttempt, dbVars, TypeOK
  <2> QED
    BY <1>2, <1>3, <2>1, <2>2, FirstAside
<1>5. CASE x = r /\ ~PickDeleted(w, x)
  <2>1. status'[r] \in {"pending", "error"} /\ status[r] \in Statuses /\ resumes'[r] = resumes[r]
    BY <1>5 DEF PickHooked, PickAndRun, PickAndGiveUp, SetStatus, Present, TypeOK
  <2>2. First(r) => \A v \in Workers : job[v] # r
    BY <1>2, <1>5 DEF FirstRun, FirstIsAlone
  <2>3. \A v \in Workers : v # w => job'[v] = job[v] /\ pc'[v] = pc[v] /\ held'[v] = held[v]
    BY <1>5 DEF PickHooked, PickAndRun, PickAndGiveUp, Goto, workerVars, TypeOK
  <2>4. NewIsFree(r)'
    BY <2>1 DEF NewIsFree
  <2>5. Untried(r) => First(r) /\ status[r] = "pending" /\ attempts[r] = 0
    BY <2>1 DEF FirstRun, UntriedIsPending, Untried, First, Statuses
  <2>6. First(r) => Untried(r)
    BY <2>2 DEF First, Untried
  <2>7. CASE PickHooked(w, x)
    <3>1. tries'[r] = tries[r] /\ attempts'[r] = attempts[r] /\ status'[r] = "pending"
      BY <1>5, <2>7 DEF PickHooked, SetStatus, TypeOK
    <3>2. pc'[w] = "hookStart" /\ held'[w] = attempts[r]
      BY <1>5, <2>7 DEF PickHooked, Goto, TypeOK
    <3>3. UntriedIsPending(r)'
      BY <2>2, <2>3, <2>5, <3>1, <3>2, <2>1 DEF UntriedIsPending, Untried
    <3>4. First(r)' => First(r)
      BY <2>1, <2>3, <3>1, <3>2 DEF First
    <3>5. FirstIsAlone(r)'
      BY <1>3, <1>5, <2>2, <2>3, <3>4 DEF FirstRun, FirstIsAlone
    <3> QED
      BY <2>4, <3>3, <3>5 DEF FirstRun
  <2>8. CASE PickAndRun(w, x)
    <3>1. tries'[r] = tries[r] + 1 /\ tries[r] \in Nat
      BY <1>5, <2>8 DEF PickAndRun, TypeOK
    <3>2. UntriedIsPending(r)'
      BY <3>1 DEF UntriedIsPending, Untried
    <3>3. First(r)' => First(r)
      BY <2>1, <3>1 DEF First
    <3>4. FirstIsAlone(r)'
      BY <1>3, <1>5, <2>2, <2>3, <3>3 DEF FirstRun, FirstIsAlone
    <3> QED
      BY <2>4, <3>2, <3>4 DEF FirstRun
  <2>9. CASE PickAndGiveUp(w, x)
    <3>1. tries'[r] = tries[r] /\ attempts[r] # 0 /\ UNCHANGED <<pc, job>>
      BY <1>5, <2>9, BoundsAssumption DEF PickAndGiveUp, workerVars, TypeOK
    <3>2. ~Untried(r) /\ ~First(r)
      BY <2>5, <2>6, <3>1
    <3>3. ~Untried(r)' /\ ~First(r)'
      BY <2>1, <3>1, <3>2 DEF Untried, First
    <3> QED
      BY <2>4, <3>3 DEF FirstRun, UntriedIsPending, FirstIsAlone
  <2> QED
    BY <1>5, <2>7, <2>8, <2>9
<1> QED
  BY <1>4, <1>5

\* A worker whose agent, or the webhook that follows, has answered.
LEMMA FirstEnded ==
  ASSUME TypeOK, FirstRuns, NEW w \in Workers, NEW s \in {"success", "interrupted"},
         NEW from \in {"running", "hookEnd"}, Finish(w, s) \/ Fail(w, from), NEW r \in Runs
  PROVE  FirstRun(r)'
<1> USE DEF FirstRuns
<1>1. pc[w] \in {"running", "hookEnd"} /\ job[w] \in Runs /\ UNCHANGED <<queue, job, held, tries, resumes>>
  BY PlaceType DEF Finish, Fail
<1>2. pc'[w] \notin {"running", "hookStart"} /\ \A v \in Workers : v # w => pc'[v] = pc[v]
  BY DEF Finish, Fail, Goto, TypeOK
<1>3. (Queued(r)' <=> Queued(r)) /\ (Once(r) => Once(r)')
  BY <1>1 DEF Queued, Once
<1>4. CASE job[w] # r
  <2>1. status'[r] = status[r] /\ attempts'[r] = attempts[r]
    BY <1>4 DEF Finish, Fail, SetStatus, CountAttempt, TypeOK
  <2> QED
    BY <1>1, <1>2, <1>3, <1>4, <2>1, FirstAside
<1>5. CASE job[w] = r
  <2>1. status'[r] # "new"
    BY <1>1, <1>5 DEF Finish, Fail, SetStatus, TypeOK
  <2>2. ~Untried(r)
    BY <1>1, <1>5 DEF FirstRun, UntriedIsPending
  <2>3. ~Untried(r)'
    BY <1>1, <2>2 DEF Untried
  <2>4. First(r)' => First(r)
    BY <1>1, <1>2 DEF First
  <2>5. FirstIsAlone(r)'
    BY <1>1, <1>3, <2>4 DEF FirstRun, FirstIsAlone
  <2> QED
    BY <2>1, <2>3, <2>5 DEF FirstRun, NewIsFree, UntriedIsPending
<1> QED
  BY <1>4, <1>5

\* The webhook of set_status("pending") has answered.
LEMMA FirstStarted ==
  ASSUME TypeOK, FirstRuns, NEW w \in Workers, Start(w) \/ GiveUp(w), NEW r \in Runs
  PROVE  FirstRun(r)'
<1> USE DEF FirstRuns
<1>1. pc[w] = "hookStart" /\ job[w] \in Runs /\ UNCHANGED <<queue, resumes>>
  BY PlaceType DEF Start, GiveUp
<1>2. \A v \in Workers : v # w => pc'[v] = pc[v] /\ job'[v] = job[v] /\ held'[v] = held[v]
  BY DEF Start, GiveUp, Die, Goto, TypeOK
<1>3. (Queued(r)' <=> Queued(r)) /\ (Once(r) => Once(r)')
  BY <1>1 DEF Queued, Once
<1>4. job'[w] = job[w] \/ job'[w] = NoRun
  BY DEF Start, GiveUp, Die, TypeOK
<1>5. CASE job[w] # r
  <2>1. status'[r] = status[r] /\ attempts'[r] = attempts[r] /\ tries'[r] = tries[r] /\ job'[w] # r
    BY <1>4, <1>5, RunsAssumption DEF Start, GiveUp, SetStatus, CountAttempt, TypeOK
  <2> QED
    BY <1>1, <1>2, <1>3, <1>5, <2>1, FirstAside
<1>6. CASE job[w] = r
  <2>1. status[r] # "new" /\ status'[r] # "new"
    BY <1>1, <1>6 DEF FirstRun, NewIsFree, Start, GiveUp, SetStatus, TypeOK
  <2>2. CASE Start(w)
    <3>1. tries'[r] = tries[r] + 1 /\ tries[r] \in Nat /\ UNCHANGED job
      BY <1>1, <1>6, <2>2 DEF Start, TypeOK
    <3>2. First(r)' => First(r)
      BY <1>1, <3>1 DEF First
    <3> QED
      BY <1>1, <1>3, <2>1, <3>1, <3>2 DEF FirstRun, NewIsFree, UntriedIsPending, Untried, FirstIsAlone
  <2>3. CASE GiveUp(w)
    <3>1. tries'[r] = tries[r] /\ held[w] # 0 /\ pc'[w] # "running"
      BY <1>1, <1>6, <2>3, BoundsAssumption DEF GiveUp, Die, Goto, TypeOK
    <3>2. ~Untried(r)
      BY <1>1, <1>6, <3>1 DEF FirstRun, UntriedIsPending
    <3>3. ~Untried(r)' /\ (First(r)' => First(r))
      BY <1>1, <1>2, <3>1, <3>2 DEF Untried, First
    <3>4. \A v \in Workers : job'[v] = r => job[v] = r
      BY <1>2, <1>4, RunsAssumption
    <3> QED
      BY <1>3, <2>1, <3>3, <3>4 DEF FirstRun, NewIsFree, UntriedIsPending, FirstIsAlone
  <2> QED
    BY <2>2, <2>3
<1> QED
  BY <1>5, <1>6

\* A worker that goes on, or ends, without a word to the table of runs.
LEMMA FirstReleased ==
  ASSUME TypeOK, FirstRuns, NEW w \in Workers, NEW r \in Runs,
         \/ EndDeleted(w) \/ HookEndAnswers(w) \/ HookErrorAnswers(w) \/ HookGiveUpAnswers(w) \/ Close(w)
         \/ Die(w) /\ UNCHANGED <<dbVars, queue, waiter, tries, resumes>>
  PROVE  FirstRun(r)'
<1> USE DEF FirstRuns
<1>1. UNCHANGED <<status, attempts, queue, tries, resumes>>
  BY DEF EndDeleted, HookEndAnswers, HookErrorAnswers, HookGiveUpAnswers, Close, dbVars
<1>2. \A v \in Workers : v # w => pc'[v] = pc[v] /\ job'[v] = job[v] /\ held'[v] = held[v]
  BY DEF EndDeleted, HookEndAnswers, HookErrorAnswers, HookGiveUpAnswers, Close, Release, Die, Goto, TypeOK
<1>3. job'[w] = NoRun \/ (job'[w] = job[w] /\ held'[w] = held[w] /\ pc[w] \in {"hookEnd", "hookError"} /\ pc'[w] # "running")
  BY DEF EndDeleted, HookEndAnswers, HookErrorAnswers, HookGiveUpAnswers, Close, Release, Die, Goto, TypeOK
<1>4. (Queued(r)' => Queued(r)) /\ (Once(r) => Once(r)')
  BY <1>1 DEF Queued, Once
<1> QED
  BY <1>1, <1>2, <1>3, <1>4, RunsAssumption, FirstAside

\* A worker that puts its failed run back.
LEMMA FirstRequeued ==
  ASSUME TypeOK, FirstRuns, NEW w \in Workers, Requeue(w), NEW r \in Runs
  PROVE  FirstRun(r)'
<1> USE DEF FirstRuns
<1>1. /\ pc[w] = "retrying" /\ job[w] \in Runs /\ queue \in Seq(Runs) /\ queue' = Append(queue, job[w])
      /\ UNCHANGED <<status, attempts, tries, resumes>>
  BY PlaceType DEF Requeue, dbVars, TypeOK
<1>2. \A v \in Workers : IF v = w THEN job'[v] = NoRun
                                  ELSE pc'[v] = pc[v] /\ job'[v] = job[v] /\ held'[v] = held[v]
  BY DEF Requeue, Release, Goto, TypeOK
<1>3. CASE job[w] # r
  <2>1. (Queued(r)' => Queued(r)) /\ (Once(r) => Once(r)')
    BY <1>1, <1>3, EnqueueQueued, EnqueuedOnce
  <2> QED
    BY <1>1, <1>2, <2>1, RunsAssumption, FirstAside
<1>4. CASE job[w] = r
  <2>1. status[r] # "new" /\ ~Untried(r)
    BY <1>1, <1>4 DEF FirstRun, NewIsFree, UntriedIsPending
  <2>2. ~First(r)'
    <3> SUFFICES ASSUME First(r)' PROVE FALSE
      OBVIOUS
    <3>1. PICK v \in Workers : pc'[v] = "running" /\ job'[v] = r
      BY <1>1, <2>1 DEF First, Untried
    <3>2. v # w /\ pc[v] = "running" /\ job[v] = r
      BY <1>2, <3>1, RunsAssumption
    <3>3. First(r)
      BY <1>1, <3>2 DEF First
    <3> QED
      BY <1>4, <3>2, <3>3 DEF FirstRun, FirstIsAlone
  <2> QED
    BY <1>1, <2>1, <2>2 DEF FirstRun, NewIsFree, UntriedIsPending, Untried, FirstIsAlone
<1> QED
  BY <1>3, <1>4

\* A run that is put, resumed or deleted.
LEMMA FirstRequested ==
  ASSUME TypeOK, FirstRuns, NEW x \in Runs, Request(x), NEW r \in Runs
  PROVE  FirstRun(r)'
<1> USE DEF FirstRuns
<1>1. queue \in Seq(Runs) /\ UNCHANGED <<pc, job, held>>
  BY DEF Request, Put, Resume, Delete, workerVars, TypeOK
<1>2. CASE Delete(x)
  <2>1. (Queued(r)' => Queued(r)) /\ (Once(r) => Once(r)')
    BY <1>2 DEF Delete, Queued, Once
  <2>2. (status'[r] = status[r] \/ status'[r] = "gone") /\ UNCHANGED <<attempts, tries, resumes>>
    BY <1>2 DEF Delete, TypeOK
  <2> QED
    BY <1>1, <2>1, <2>2, FirstAside
<1>3. CASE Put(x) \/ Resume(x)
  <2>1. queue' = Append(queue, x)
    BY <1>3 DEF Put, Resume
  <2>2. Queued(r)' <=> Queued(r) \/ r = x
    BY <1>1, <2>1, EnqueueQueued
  <2>3. CASE x # r
    <3>1. status'[r] = status[r] /\ attempts'[r] = attempts[r] /\ tries'[r] = tries[r] /\ resumes'[r] = resumes[r]
      BY <1>3, <2>3 DEF Put, Resume, TypeOK
    <3>2. Once(r) => Once(r)'
      BY <1>1, <2>1, <2>3, EnqueuedOnce
    <3> QED
      BY <1>1, <2>2, <2>3, <3>1, <3>2, FirstAside
  <2>4. CASE x = r /\ Put(x)
    <3>1. /\ status[r] = "new" /\ status'[r] = "pending" /\ attempts'[r] = attempts[r]
          /\ tries'[r] = tries[r] /\ resumes'[r] = resumes[r]
      BY <2>4 DEF Put, TypeOK
    <3>2. ~Queued(r) /\ \A w \in Workers : job[w] # r
      BY <3>1 DEF FirstRun, NewIsFree
    <3>3. Once(r)
      BY <3>2 DEF Once, Queued
    <3>4. Once(r)'
      BY <1>1, <2>1, <3>2, <3>3, EnqueuedOnce
    <3> QED
      BY <1>1, <3>1, <3>2, <3>4 DEF FirstRun, NewIsFree, UntriedIsPending, Untried, FirstIsAlone
  <2>5. CASE x = r /\ Resume(x)
    <3>1. status'[r] = "pending" /\ resumes'[r] # 0
      BY <2>5, BoundsAssumption DEF Resume, TypeOK
    <3> QED
      BY <3>1 DEF FirstRun, NewIsFree, UntriedIsPending, Untried, FirstIsAlone, First
  <2> QED
    BY <1>3, <2>3, <2>4, <2>5
<1> QED
  BY <1>2, <1>3 DEF Request

\* No step of the queue gives a run in its first attempt a second carrier.
LEMMA FirstStep ==
  ASSUME TypeOK, FirstRuns, [Next]_vars
  PROVE  FirstRuns'
<1> SUFFICES ASSUME NEW r \in Runs PROVE FirstRun(r)'
  BY DEF FirstRuns
<1>1. ASSUME NEW w \in Workers, Pick(w) PROVE FirstRun(r)'
  BY <1>1, FirstPicked DEF Pick
<1>2. ASSUME NEW w \in Workers, Agent(w) PROVE FirstRun(r)'
  BY <1>2, FirstEnded, FirstReleased DEF Agent
<1>3. ASSUME NEW w \in Workers, Hook(w) PROVE FirstRun(r)'
  BY <1>3, FirstStarted, FirstReleased, FirstEnded DEF Hook, HookRejects
<1>4. ASSUME NEW w \in Workers, Close(w) \/ Requeue(w) PROVE FirstRun(r)'
  BY <1>4, FirstReleased, FirstRequeued
<1>5. ASSUME NEW x \in Runs, Request(x) PROVE FirstRun(r)'
  BY <1>5, FirstRequested
<1>6. ASSUME (\E c \in Clients : Client(c)) \/ CancelWorkers \/ UNCHANGED vars PROVE FirstRun(r)'
  <2>1. UNCHANGED <<status, attempts, queue, tries, resumes>>
    BY <1>6 DEF Client, Wait, Wake, CancelWorkers, dbVars, vars
  <2>2. UNCHANGED <<pc, job, held>> \/ \A v \in Workers : job'[v] = NoRun
    BY <1>6 DEF Client, Wait, Wake, CancelWorkers, workerVars, vars
  <2>3. (Queued(r)' => Queued(r)) /\ (Once(r) => Once(r)')
    BY <2>1 DEF Queued, Once
  <2> QED
    BY <2>1, <2>2, <2>3, RunsAssumption, FirstAside DEF FirstRuns
<1> QED
  BY <1>1, <1>2, <1>3, <1>4, <1>5, <1>6 DEF Next, Worker

\* A run comes to its first attempt by being put, and in no other way.
LEMMA FirstAttemptIsNew ==
  ASSUME TypeOK, FirstRuns, [Next]_vars, NEW q \in Runs, FirstAttempt(q)'
  PROVE  FirstAttempt(q) \/ (status[q] = "new" /\ Put(q))
<1> USE DEF FirstRuns
<1>1. ASSUME NEW w \in Workers, NEW r \in Runs,
             PickDeleted(w, r) \/ PickHooked(w, r) \/ PickAndRun(w, r) \/ PickAndGiveUp(w, r)
      PROVE  FirstAttempt(q)
  <2>1. Queued(r)
    BY <1>1, DequeueQueued DEF PickDeleted, PickHooked, PickAndRun, PickAndGiveUp, Take, TypeOK
  <2>2. \A v \in Workers : v # w => pc'[v] = pc[v] /\ job'[v] = job[v]
    BY <1>1 DEF PickDeleted, PickHooked, PickAndRun, PickAndGiveUp, Die, Goto, workerVars, TypeOK
  <2>3. CASE r # q \/ PickDeleted(w, r)
    <3>1. status'[q] = status[q] /\ tries'[q] = tries[q] /\ resumes'[q] = resumes[q]
      BY <1>1, <2>3 DEF PickDeleted, PickHooked, PickAndRun, PickAndGiveUp, SetStatus, dbVars, TypeOK
    <3>2. job'[w] = q => pc'[w] = pc[w] /\ job[w] = q
      BY <1>1, <2>3, RunsAssumption
         DEF PickDeleted, PickHooked, PickAndRun, PickAndGiveUp, Die, Goto, workerVars, TypeOK
    <3> QED
      BY <2>2, <3>1, <3>2 DEF FirstAttempt
  <2>4. CASE r = q /\ ~PickDeleted(w, r)
    <3>1. status[q] \in Statuses /\ resumes'[q] = resumes[q] /\ status'[q] = "pending"
      BY <1>1, <2>4 DEF PickHooked, PickAndRun, PickAndGiveUp, Present, FirstAttempt, TypeOK
    <3>2. PickHooked(w, q) \/ PickAndRun(w, q)
      BY <1>1, <2>4, <3>1 DEF PickAndGiveUp, SetStatus, TypeOK
    <3>3. First(q)
      <4>1. CASE PickHooked(w, q)
        BY <2>2, <3>1, <4>1 DEF PickHooked, Goto, First, FirstAttempt, TypeOK
      <4>2. CASE PickAndRun(w, q)
        BY <3>1, <4>2 DEF PickAndRun, First, FirstAttempt, TypeOK
      <4> QED
        BY <3>2, <4>1, <4>2
    <3>4. \A v \in Workers : job[v] # q
      BY <2>1, <2>4, <3>3 DEF FirstRun, FirstIsAlone
    <3>5. Untried(q)
      BY <3>3, <3>4 DEF First, Untried
    <3> QED
      BY <3>1, <3>5 DEF FirstRun, UntriedIsPending, Untried, Statuses, FirstAttempt
  <2> QED
    BY <2>3, <2>4
<1>2. ASSUME NEW w \in Workers, Start(w) PROVE FirstAttempt(q)
  <2>1. job[w] \in Runs /\ status'[q] = status[q] /\ resumes'[q] = resumes[q]
    BY <1>2, PlaceType DEF Start
  <2>2. \A v \in Workers : v # w => pc'[v] = pc[v] /\ job'[v] = job[v]
    BY <1>2 DEF Start, Goto, TypeOK
  <2>3. CASE job[w] = q
    BY <1>2, <2>1, <2>3 DEF Start, FirstAttempt, TypeOK
  <2>4. CASE job[w] # q
    BY <1>2, <2>1, <2>2, <2>4 DEF Start, FirstAttempt, TypeOK
  <2> QED
    BY <2>3, <2>4
<1>3. ASSUME NEW w \in Workers, Agent(w) \/ (Hook(w) /\ ~Start(w)) \/ Close(w) \/ Requeue(w) PROVE FirstAttempt(q)
  <2>1. status'[q] = status[q] /\ UNCHANGED <<tries, resumes>>
    BY <1>3 DEF Agent, Finish, Fail, EndDeleted, Hook, GiveUp, HookEndAnswers, HookErrorAnswers, HookGiveUpAnswers,
                HookRejects, Close, Requeue, SetStatus, dbVars, FirstAttempt, TypeOK
  <2>2. \A v \in Workers : pc'[v] = "running" => pc[v] = "running" /\ job'[v] = job[v]
    BY <1>3 DEF Agent, Finish, Fail, EndDeleted, Hook, GiveUp, HookEndAnswers, HookErrorAnswers, HookGiveUpAnswers,
                HookRejects, Close, Requeue, Release, Die, Goto, TypeOK
  <2> QED
    BY <2>1, <2>2 DEF FirstAttempt
<1>4. ASSUME NEW r \in Runs, Request(r) PROVE FirstAttempt(q) \/ (status[q] = "new" /\ Put(q))
  BY <1>4, BoundsAssumption DEF Request, Put, Resume, Delete, workerVars, FirstAttempt, TypeOK
<1>5. ASSUME NEW c \in Clients, Client(c) PROVE FirstAttempt(q)
  BY <1>5 DEF Client, Wait, Wake, dbVars, workerVars, FirstAttempt
<1>6. ASSUME CancelWorkers \/ UNCHANGED vars PROVE FirstAttempt(q)
  BY <1>6, RunsAssumption DEF CancelWorkers, dbVars, vars, FirstAttempt
<1> QED
  BY <1>1, <1>2, <1>3, <1>4, <1>5, <1>6 DEF Next, Worker, Pick

\* Only a post creates a run on a thread.
LEMMA OnlyPostsPut ==
  ASSUME TypeOK, [ThreadNext]_threadVars, \A p \in Posts, x \in Runs : ~PostRun(p, x)
  PROVE  UNCHANGED owner /\ \A x \in Runs : status[x] = "new" => status'[x] = "new"
<1>1. CASE QueueStep
  <2>1. ASSUME NEW w \in Workers, Worker(w), NEW x \in Runs, status[x] = "new" PROVE status'[x] = "new"
    <3>1. ASSUME NEW r \in Runs, PickDeleted(w, r) \/ PickHooked(w, r) \/ PickAndRun(w, r) \/ PickAndGiveUp(w, r)
          PROVE  status'[x] = "new"
      BY <2>1, <3>1 DEF PickDeleted, PickHooked, PickAndRun, PickAndGiveUp, SetStatus, Present, Statuses, dbVars, TypeOK
    <3>2. ASSUME Agent(w) PROVE status'[x] = "new"
      BY <2>1, <3>2 DEF Agent, Finish, Fail, EndDeleted, SetStatus, Present, Statuses, TypeOK
    <3>3. ASSUME Hook(w) PROVE status'[x] = "new"
      BY <2>1, <3>3 DEF Hook, Start, GiveUp, HookEndAnswers, HookErrorAnswers, HookGiveUpAnswers, HookRejects,
                        Fail, SetStatus, Present, Statuses, dbVars, TypeOK
    <3> QED
      BY <2>1, <3>1, <3>2, <3>3 DEF Worker, Pick, Close, Requeue, dbVars
  <2>2. ASSUME NEW r \in Runs, Resume(r) PROVE \A x \in Runs : status[x] = "new" => status'[x] = "new"
    BY <2>2 DEF Resume, TypeOK
  <2> QED
    BY <1>1, <2>1, <2>2 DEF QueueStep, Client, Wait, Wake, CancelWorkers, dbVars
<1>2. ASSUME NEW p \in Posts, Post(p) PROVE UNCHANGED <<owner, status>>
  BY <1>2 DEF Post, RejectPost, AbortPost, BeginPost, vars
<1>3. ASSUME NEW t \in ThreadIds, Thread(t)
      PROVE  UNCHANGED owner /\ \A x \in Runs : status[x] = "new" => status'[x] = "new"
  BY <1>3 DEF Thread, CreateThread, DeleteThread, DeleteRun, Delete, Present, Statuses, vars, TypeOK
<1> QED
  BY <1>1, <1>2, <1>3 DEF ThreadNext, threadVars, vars

\* However the posts to a thread, its runs' retries, webhooks and resumptions
\* interleave, at most one pending run of a thread is in its first attempt,
\* although the request waits for the agent between finding the thread and
\* looking for pending runs.
THEOREM NewRunsNeverMeet == ThreadSpec => []NewRunsAlternate
<1>1. ThreadInit => FirstRuns /\ NewRunsAlternate
  <2> SUFFICES ASSUME Init PROVE FirstRuns /\ NewRunsAlternate
    BY DEF ThreadInit
  <2>1. Len(queue) = 0
    BY EmptySeq DEF Init
  <2> QED
    BY <2>1, RunsAssumption DEF Init, FirstRuns, FirstRun, NewIsFree, UntriedIsPending, FirstIsAlone, First, Once, Queued,
                                NewRunsAlternate, FirstAttempt
<1>2. TypeOK /\ ThreadTypeOK /\ FirstRuns /\ NewRunsAlternate /\ [ThreadNext]_threadVars
        => NewRunsAlternate'
  <2> SUFFICES ASSUME TypeOK, ThreadTypeOK, FirstRuns, NewRunsAlternate, [ThreadNext]_threadVars,
                      NEW t \in ThreadIds, NEW r \in Runs, NEW q \in Runs,
                      owner'[r] = t, owner'[q] = t, FirstAttempt(r)', FirstAttempt(q)'
               PROVE  r = q
    BY DEF NewRunsAlternate
  <2>1. [Next]_vars
    BY ThreadStep
  <2>2. CASE \E p \in Posts, x \in Runs : PostRun(p, x)
    <3>1. PICK p \in Posts, x \in Runs : PostRun(p, x)
      BY <2>2
    <3>2. \A y \in Runs : y # x => status'[y] = status[y] /\ owner'[y] = owner[y]
      BY <3>1 DEF PostRun, Put, TypeOK
    <3>3. \A y \in Runs : owner'[y] = post[p] /\ status'[y] = "pending" => y = x
      BY <3>1, <3>2 DEF PostRun, HasPending
    <3>4. CASE t = post[p]
      BY <3>3, <3>4 DEF FirstAttempt
    <3>5. CASE t # post[p]
      <4>1. r # x /\ q # x
        BY <3>1, <3>5 DEF PostRun, ThreadTypeOK
      <4>2. owner[r] = t /\ owner[q] = t /\ status[r] # "new" /\ status[q] # "new"
        BY <3>2, <4>1 DEF FirstAttempt
      <4>3. FirstAttempt(r) /\ FirstAttempt(q)
        BY <2>1, <4>2, FirstAttemptIsNew
      <4> QED
        BY <4>2, <4>3 DEF NewRunsAlternate
    <3> QED
      BY <3>4, <3>5
  <2>3. CASE ~\E p \in Posts, x \in Runs : PostRun(p, x)
    <3>1. UNCHANGED owner /\ \A x \in Runs : status[x] = "new" => status'[x] = "new"
      BY <2>3, OnlyPostsPut
    <3>2. status[r] # "new" /\ status[q] # "new"
      BY <3>1 DEF FirstAttempt
    <3>3. FirstAttempt(r) /\ FirstAttempt(q)
      BY <2>1, <3>2, FirstAttemptIsNew
    <3> QED
      BY <3>1, <3>3 DEF NewRunsAlternate
  <2> QED
    BY <2>2, <2>3
<1>3. TypeOK /\ FirstRuns /\ [ThreadNext]_threadVars => FirstRuns'
  BY ThreadStep, FirstStep
<1> QED
  BY <1>1, <1>2, <1>3, TypeCorrect, ThreadTypeCorrect, ThreadsImplementQueue, PTL DEF ThreadSpec
=============================================================================
