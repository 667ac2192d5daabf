-------------------------- MODULE RunLifecycle_proofs --------------------------
(***************************************************************************)
(* The safety half of ImplementsLifecycle: every step of RunQueue is a     *)
(* step of RunLifecycle or leaves the life of every run as it is.          *)
(***************************************************************************)
EXTENDS RunQueue_proofs

\* No run is deleted and no worker dies; a run the agent executes has been tried.
Alive == pool = "up" /\ \A r \in Runs : status[r] # "gone"
Tried == \A w \in Workers : pc[w] = "running" => tries[job[w]] > 0

Inv == TypeOK /\ Carried /\ Budget /\ Alive /\ Tried

\* A run that somebody carries is being worked on, whatever its status says.
LEMMA DrivenWorks ==
  ASSUME TypeOK, Carried, Alive, NEW r \in Runs, Driven(r)
  PROVE  Life(r) = "working" /\ Present(r)
<1>1. status[r] \in {"pending", "error"}
  BY DEF Carried, RestedIsIdle, AtRest, Alive, TypeOK, Statuses
<1> QED
  BY <1>1 DEF Life, Present, Statuses

\* The same of the state after a step.
LEMMA WorksNext ==
  ASSUME TypeOK', Carried', Alive', NEW r \in Runs, Driven(r)'
  PROVE  Life(r)' = "working"
<1>1. status'[r] \in {"pending", "error"}
  <2>1. status'[r] \in Statuses \cup {"new", "gone"}
    BY DEF TypeOK
  <2>2. ~AtRest(r)' /\ status'[r] # "gone"
    BY DEF Carried, RestedIsIdle, Alive
  <2> QED
    BY <2>1, <2>2 DEF AtRest, Statuses
<1> QED
  BY <1>1 DEF Life

\* The life of a run is a matter of its status and of who carries it.
LEMMA SameLife ==
  ASSUME NEW r \in Runs, status'[r] = status[r], Driven(r)' <=> Driven(r)
  PROVE  Life(r)' = Life(r)
BY DEF Life

\* What a worker is about: the run it picks up or holds, which is carried, and
\* all others stay as they are.
LEMMA WorkerFocus ==
  ASSUME TypeOK, Carried, Flaky = {}, NEW w \in Workers, Worker(w)
  PROVE  \E x \in Runs \cup {NoRun} :
           /\ \A r \in Runs : r # x => /\ status'[r] = status[r] /\ tries'[r] = tries[r]
                                       /\ Driven(r)' <=> Driven(r)
           /\ \/ PickDeleted(w, x) \/ PickHooked(w, x) \/ PickAndRun(w, x) \/ PickAndGiveUp(w, x)
              \/ x = job[w] /\ ~Pick(w)
<1>1. Others(w)
  BY OthersStay
<1>2. CASE Pick(w)
  <2>1. PICK x \in Runs : PickDeleted(w, x) \/ PickHooked(w, x) \/ PickAndRun(w, x) \/ PickAndGiveUp(w, x)
    BY <1>2 DEF Pick
  <2>2. queue \in Seq(Runs) /\ queue # << >> /\ queue' = Tail(queue) /\ x = Head(queue) /\ ~Active(w)
    BY <2>1 DEF PickDeleted, PickHooked, PickAndRun, PickAndGiveUp, Take, TypeOK, Active
  <2>3. Active(w)' => job'[w] = x
    BY <2>1, <2>2 DEF PickDeleted, PickHooked, PickAndRun, PickAndGiveUp, Die, Goto, Active, workerVars, TypeOK
  <2>4. ASSUME NEW r \in Runs, r # x PROVE Driven(r)' <=> Driven(r)
    <3>1. Queued(r)' <=> Queued(r)
      BY <2>2, <2>4, DequeueQueued
    <3>2. \A v \in Workers : Active(v)' /\ job'[v] = r <=> Active(v) /\ job[v] = r
      BY <1>1, <2>2, <2>3, <2>4 DEF Others, Active
    <3> QED
      BY <3>1, <3>2 DEF Driven
  <2>5. \A r \in Runs : r # x => status'[r] = status[r] /\ tries'[r] = tries[r]
    BY <2>1 DEF PickDeleted, PickHooked, PickAndRun, PickAndGiveUp, SetStatus, dbVars, TypeOK
  <2> QED
    BY <2>1, <2>4, <2>5
<1>3. CASE ~Pick(w)
  <2>1. PICK x \in Runs \cup {NoRun} : x = job[w]
    BY DEF TypeOK
  <2>2. Active(w)' => Active(w) /\ job'[w] = x
    BY <1>3, <2>1 DEF Worker, Agent, Finish, Fail, EndDeleted, Hook, Start, GiveUp, HookEndAnswers,
         HookErrorAnswers, HookGiveUpAnswers, HookRejects, Close, Requeue, Die, Release, Goto, Active, TypeOK
  <2>3. ASSUME NEW r \in Runs, r # x PROVE Queued(r)' <=> Queued(r)
    <3>1. CASE Requeue(w)
      <4>1. x \in Runs /\ queue \in Seq(Runs) /\ queue' = Append(queue, x)
        BY <2>1, <3>1, PlaceType DEF Requeue, TypeOK
      <4> QED
        BY <2>3, <4>1, EnqueueQueued
    <3>2. CASE ~Requeue(w)
      <4>1. UNCHANGED queue
        BY <1>3, <3>2 DEF Worker, Agent, Finish, Fail, EndDeleted, Hook, Start, GiveUp, HookEndAnswers,
                          HookErrorAnswers, HookGiveUpAnswers, HookRejects, Close
      <4> QED
        BY <4>1 DEF Queued
    <3> QED
      BY <3>1, <3>2
  <2>4. ASSUME NEW r \in Runs, r # x PROVE Driven(r)' <=> Driven(r)
    <3>1. \A v \in Workers : Active(v)' /\ job'[v] = r <=> Active(v) /\ job[v] = r
      BY <1>1, <2>1, <2>2, <2>4 DEF Others, Active
    <3> QED
      BY <2>3, <2>4, <3>1 DEF Driven
  <2>5. \A r \in Runs : r # x => status'[r] = status[r] /\ tries'[r] = tries[r]
    BY <1>3, <2>1 DEF Worker, Agent, Finish, Fail, EndDeleted, Hook, Start, GiveUp, HookEndAnswers,
         HookErrorAnswers, HookGiveUpAnswers, HookRejects, Close, Requeue, SetStatus, dbVars, TypeOK
  <2> QED
    BY <1>3, <2>1, <2>4, <2>5
<1> QED
  BY <1>2, <1>3

Lives == [r \in Runs |-> Life(r)]

\* One run changes its life and every other keeps it.
LEMMA LifeStep ==
  ASSUME NEW x \in Runs, NEW l, Life(x)' = l, \A r \in Runs : r # x => Life(r)' = Life(r)
  PROVE  Lives' = [Lives EXCEPT ![x] = l]
BY DEF Lives

\* A step after which every run lives as before.
LEMMA LifeStutter ==
  ASSUME \A r \in Runs : Life(r)' = Life(r), UNCHANGED <<tries, resumes>>
  PROVE  UNCHANGED Lifecycle!vars
BY DEF Lifecycle!vars

\* A worker tries a run, ends it, gives it up, or changes nothing its owner sees.
LEMMA WorkerWorks ==
  ASSUME Inv, Inv', Flaky = {}, NEW w \in Workers, Worker(w)
  PROVE  Lifecycle!Next \/ UNCHANGED Lifecycle!vars
<1> USE BoundsAssumption DEF Inv
<1>1. PICK x \in Runs \cup {NoRun} :
        /\ \A r \in Runs : r # x => /\ status'[r] = status[r] /\ tries'[r] = tries[r]
                                    /\ Driven(r)' <=> Driven(r)
        /\ \/ PickDeleted(w, x) \/ PickHooked(w, x) \/ PickAndRun(w, x) \/ PickAndGiveUp(w, x)
           \/ x = job[w] /\ ~Pick(w)
  BY WorkerFocus
<1>2. \A r \in Runs : r # x => Life(r)' = Life(r)
  BY <1>1, SameLife
<1>3. UNCHANGED resumes
  BY DEF Worker, Pick, PickDeleted, PickHooked, PickAndRun, PickAndGiveUp, Agent, Finish, Fail, EndDeleted, Hook,
         Start, GiveUp, HookEndAnswers, HookErrorAnswers, HookGiveUpAnswers, HookRejects, Close, Requeue
<1>4. ~PickDeleted(w, x) /\ ~EndDeleted(w) /\ ~Die(w)
  BY DEF PickDeleted, EndDeleted, Die, Alive
<1>5. ASSUME x \in Runs, Driven(x), Driven(x)', UNCHANGED tries PROVE UNCHANGED Lifecycle!vars
  <2>1. Life(x)' = Life(x)
    BY <1>5, DrivenWorks, WorksNext
  <2> QED
    BY <1>2, <1>3, <1>5, <2>1, LifeStutter
<1>6. ASSUME x \in Runs, Driven(x), Driven(x)', tries[x] < MaxAttempts, tries' = [tries EXCEPT ![x] = @ + 1]
      PROVE  Lifecycle!Try(x)
  <2>1. Life(x)' = "working" /\ Life(x) = "working"
    BY <1>6, DrivenWorks, WorksNext
  <2>2. Lives' = Lives
    BY <1>2, <2>1 DEF Lives
  <2> QED
    BY <1>3, <1>6, <2>1, <2>2 DEF Lifecycle!Try, Lives
<1>7. ASSUME x \in Runs, Driven(x), NEW l, Life(x)' = l, tries[x] > 0, UNCHANGED tries
      PROVE  Lifecycle!End(x, l)
  <2>1. Life(x) = "working"
    BY <1>7, DrivenWorks
  <2>2. Lives' = [Lives EXCEPT ![x] = l]
    BY <1>2, <1>7, LifeStep
  <2> QED
    BY <1>3, <1>7, <2>1, <2>2 DEF Lifecycle!End, Lives
<1>8. ASSUME PickHooked(w, x) PROVE UNCHANGED Lifecycle!vars
  <2>1. x \in Runs /\ queue \in Seq(Runs) /\ queue # << >> /\ queue' = Tail(queue) /\ x = Head(queue)
    BY <1>8, TakeType DEF PickHooked, Take, TypeOK
  <2>2. Driven(x) /\ Driven(x)' /\ UNCHANGED tries
    BY <1>8, <2>1, DequeueQueued DEF PickHooked, Goto, Driven, Active, TypeOK
  <2> QED
    BY <1>5, <2>1, <2>2
<1>9. ASSUME PickAndRun(w, x) PROVE Lifecycle!Try(x)
  <2>1. x \in Runs /\ queue \in Seq(Runs) /\ queue # << >> /\ queue' = Tail(queue) /\ x = Head(queue)
    BY <1>9, TakeType DEF PickAndRun, Take, TypeOK
  <2>2. Driven(x) /\ Driven(x)' /\ Present(x) /\ attempts[x] + 1 <= MaxAttempts /\ tries' = [tries EXCEPT ![x] = @ + 1]
    BY <1>9, <2>1, DequeueQueued DEF PickAndRun, Goto, Driven, Active, TypeOK
  <2>3. attempts[x] = tries[x] /\ tries[x] \in Nat /\ attempts[x] + 1 <= MaxAttempts
    BY <2>1, <2>2 DEF Budget, RunBudget, TypeOK
  <2>4. tries[x] < MaxAttempts
    BY <2>3
  <2> QED
    BY <1>6, <2>1, <2>2, <2>4
<1>10. ASSUME x \in Runs, Driven(x), ~Driven(x)', status'[x] = "error", UNCHANGED tries PROVE Lifecycle!GiveUp(x)
  <2>1. tries[x] = MaxAttempts
    BY <1>10 DEF Budget, RunBudget, Alive
  <2>2. Life(x)' = "failed"
    BY <1>10 DEF Life
  <2> QED
    BY <1>7, <1>10, <2>1, <2>2 DEF Lifecycle!GiveUp
<1>11. ASSUME PickAndGiveUp(w, x) PROVE Lifecycle!GiveUp(x)
  <2>1. x \in Runs /\ queue \in Seq(Runs) /\ queue # << >> /\ queue' = Tail(queue) /\ x = Head(queue)
    BY <1>11, TakeType DEF PickAndGiveUp, Take, TypeOK
  <2>2. Queued(x) /\ ~Queued(x)' /\ Driven(x)
    BY <2>1, DequeueQueued, DequeueOnce DEF Carried, Exclusive, Driven
  <2>3. UNCHANGED <<pc, job, tries>> /\ status'[x] = "error"
    BY <1>11, <2>1 DEF PickAndGiveUp, SetStatus, workerVars, TypeOK
  <2>4. ~Driven(x)'
    BY <2>2, <2>3 DEF Driven, Active, Carried, Exclusive, NotBoth
  <2> QED
    BY <1>10, <2>1, <2>2, <2>3, <2>4
<1>12. ASSUME x = job[w], ~Pick(w), Active(w) PROVE Lifecycle!Next \/ UNCHANGED Lifecycle!vars
  <2>1. x \in Runs /\ Driven(x) /\ Present(x)
    BY <1>12, PlaceType, DrivenWorks DEF Active, Driven
  <2>2. ~Queued(x) /\ \A v \in Workers : Active(v) /\ job[v] = x => v = w
    BY <1>12, OnlyCarrier
  <2>3. Others(w)
    BY OthersStay
  <2>4. UNCHANGED queue /\ ~Active(w)' => ~Driven(x)'
    BY <2>2, <2>3 DEF Driven, Others, Active, Queued
  <2>5. CASE Start(w)
    <3>1. Driven(x)' /\ tries' = [tries EXCEPT ![x] = @ + 1] /\ held[w] + 1 <= MaxAttempts
      BY <1>12, <2>5 DEF Start, Goto, Driven, Active, TypeOK
    <3>2. tries[x] < MaxAttempts
      BY <1>12, <2>1, <3>1 DEF Budget, RunBudget, TypeOK
    <3>3. Lifecycle!Try(x)
      BY <1>6, <2>1, <3>1, <3>2
    <3> QED
      BY <2>1, <3>3 DEF Lifecycle!Next, Lifecycle!Work
  <2>6. CASE GiveUp(w)
    <3>1. status'[x] = "error" /\ ~Active(w)' /\ UNCHANGED <<queue, tries>>
      BY <1>4, <1>12, <2>1, <2>6 DEF GiveUp, SetStatus, Goto, Active, TypeOK
    <3>2. Lifecycle!GiveUp(x)
      BY <1>10, <2>1, <2>4, <3>1
    <3> QED
      BY <2>1, <3>2 DEF Lifecycle!Next, Lifecycle!Work
  <2>7. ASSUME NEW s \in {"success", "interrupted"}, Finish(w, s) PROVE Lifecycle!End(x, s)
    <3>1. status'[x] = s /\ UNCHANGED tries /\ pc[w] = "running"
      BY <1>12, <2>1, <2>7 DEF Finish, SetStatus, TypeOK
    <3>2. Life(x)' = s /\ tries[x] > 0
      BY <1>12, <3>1 DEF Life, Tried
    <3> QED
      BY <1>7, <2>1, <3>1, <3>2
  <2>8. CASE Fail(w, "running") \/ HookErrorAnswers(w)
    <3>1. Driven(x)' /\ UNCHANGED tries
      BY <1>12, <2>8 DEF Fail, HookErrorAnswers, Goto, Driven, Active, TypeOK
    <3> QED
      BY <1>5, <2>1, <3>1
  <2>9. CASE Requeue(w)
    <3>1. queue \in Seq(Runs) /\ queue' = Append(queue, x) /\ UNCHANGED tries
      BY <1>12, <2>9 DEF Requeue, TypeOK
    <3>2. Driven(x)'
      BY <2>1, <3>1, EnqueueQueued DEF Driven
    <3> QED
      BY <1>5, <2>1, <3>1, <3>2
  <2>10. ~HookRejects(w) /\ ~HookEndAnswers(w) /\ ~HookGiveUpAnswers(w) /\ ~Close(w)
    BY <1>12 DEF HookRejects, HookEndAnswers, HookGiveUpAnswers, Close, Active
  <2> QED
    BY <1>4, <1>12, <2>1, <2>5, <2>6, <2>7, <2>8, <2>9, <2>10
    DEF Worker, Agent, Hook, Lifecycle!Next, Lifecycle!Work
<1>13. ASSUME x = job[w], ~Pick(w), ~Active(w) PROVE UNCHANGED Lifecycle!vars
  <2>1. UNCHANGED <<status, tries, queue>> /\ ~Active(w)'
    BY <1>4, <1>13 DEF Worker, Agent, Finish, Fail, EndDeleted, Hook, Start, GiveUp, HookEndAnswers,
         HookErrorAnswers, HookGiveUpAnswers, HookRejects, Close, Requeue, Release, Goto, Active, dbVars, TypeOK
  <2>2. \A r \in Runs : Driven(r)' <=> Driven(r)
    BY <1>13, <2>1, OthersStay DEF Driven, Others, Active, Queued
  <2>3. \A r \in Runs : Life(r)' = Life(r)
    BY <2>1, <2>2, SameLife
  <2> QED
    BY <1>3, <2>1, <2>3, LifeStutter
<1>14. CASE x = job[w] /\ ~Pick(w)
  BY <1>12, <1>13, <1>14
<1>15. ASSUME PickHooked(w, x) \/ PickAndRun(w, x) \/ PickAndGiveUp(w, x)
       PROVE  Lifecycle!Next \/ UNCHANGED Lifecycle!vars
  <2>1. x \in Runs
    BY <1>15, TakeType DEF PickHooked, PickAndRun, PickAndGiveUp
  <2> QED
    BY <1>8, <1>9, <1>11, <1>15, <2>1 DEF Lifecycle!Next, Lifecycle!Work
<1> QED
  BY <1>1, <1>4, <1>14, <1>15

\* What makes the mapping work is kept by every step.
LEMMA InvKept == ASSUME Flaky = {}, Deletable = {} PROVE Spec => []Inv
<1>1. Init => Alive /\ Tried
  BY DEF Init, Alive, Tried
<1>2. TypeOK /\ Carried /\ Alive /\ Tried /\ [Next]_vars => Alive'
  <2> SUFFICES ASSUME TypeOK, Carried, Alive, [Next]_vars PROVE Alive'
    OBVIOUS
  <2>1. ASSUME NEW w \in Workers, Worker(w) PROVE Alive'
    <3>1. ~EndDeleted(w) /\ ~HookRejects(w)
      <4>1. ASSUME EndDeleted(w) PROVE FALSE
        <5>1. job[w] \in Runs /\ Driven(job[w])
          BY <4>1, PlaceType DEF EndDeleted, Driven, Active
        <5> QED
          BY <4>1, <5>1, DrivenWorks DEF EndDeleted
      <4> QED
        BY <4>1 DEF HookRejects
    <3>2. ASSUME NEW r \in Runs, PickDeleted(w, r) PROVE FALSE
      <4>1. Driven(r)
        BY <3>2, DequeueQueued DEF PickDeleted, Take, Driven, TypeOK
      <4> QED
        BY <3>2, <4>1, DrivenWorks DEF PickDeleted
    <3>3. ASSUME Pick(w) PROVE Alive'
      BY <3>2, <3>3 DEF Pick, PickHooked, PickAndRun, PickAndGiveUp, SetStatus, workerVars, Alive, TypeOK
    <3>4. ASSUME GiveUp(w) PROVE Alive'
      <4>1. job[w] \in Runs /\ Driven(job[w])
        BY <3>4, PlaceType DEF GiveUp, Driven, Active
      <4>2. Present(job[w])
        BY <4>1, DrivenWorks
      <4> QED
        BY <3>4, <4>2 DEF GiveUp, SetStatus, Alive, TypeOK
    <3> QED
      BY <2>1, <3>1, <3>3, <3>4 DEF Worker, Agent, Finish, Fail, Hook, Start, HookEndAnswers, HookErrorAnswers,
           HookGiveUpAnswers, Close, Requeue, Release, SetStatus, dbVars, Alive, TypeOK
  <2>2. ASSUME NEW x \in Runs, Put(x) \/ Resume(x) PROVE Alive'
    BY <2>2 DEF Put, Resume, workerVars, Alive, TypeOK
  <2>3. \A x \in Runs : ~Delete(x)
    BY DEF Delete
  <2>4. ASSUME NEW c \in Clients, Client(c) PROVE Alive'
    BY <2>4 DEF Client, Wait, Wake, dbVars, workerVars, Alive
  <2>5. ~CancelWorkers
    BY DEF CancelWorkers, Alive
  <2>6. CASE UNCHANGED vars
    BY <2>6 DEF vars, Alive
  <2> QED
    BY <2>1, <2>2, <2>3, <2>4, <2>5, <2>6 DEF Next, Request
<1>3. TypeOK /\ Carried /\ Alive /\ Tried /\ [Next]_vars => Tried'
  <2> SUFFICES ASSUME TypeOK, Carried, Alive, Tried, [Next]_vars, NEW v \in Workers, pc'[v] = "running"
               PROVE  tries'[job'[v]] > 0
    BY DEF Tried
  <2>1. ASSUME NEW w \in Workers, Worker(w) PROVE tries'[job'[v]] > 0
    <3>1. UNCHANGED tries \/ \E r \in Runs : tries' = [tries EXCEPT ![r] = @ + 1]
      <4>1. CASE Pick(w)
        BY <4>1 DEF Pick, PickDeleted, PickHooked, PickAndRun, PickAndGiveUp
      <4>2. CASE Start(w)
        BY <4>2, PlaceType DEF Start
      <4>3. CASE ~Pick(w) /\ ~Start(w)
        BY <2>1, <4>3 DEF Worker, Agent, Finish, Fail, EndDeleted, Hook, GiveUp, HookEndAnswers, HookErrorAnswers,
             HookGiveUpAnswers, HookRejects, Close, Requeue
      <4> QED
        BY <4>1, <4>2, <4>3
    <3>2. CASE v # w
      <4>1. pc[v] = "running" /\ job'[v] = job[v] /\ job[v] \in Runs
        BY <2>1, <3>2, OthersStay, PlaceType DEF Others
      <4>2. tries \in [Runs -> Nat] /\ tries[job[v]] > 0
        BY <4>1 DEF Tried, TypeOK
      <4> QED
        BY <3>1, <4>1, <4>2
    <3>3. CASE v = w
      <4>1. (\E r \in Runs : PickAndRun(w, r)) \/ Start(w)
        BY <2>1, <3>3 DEF Worker, Pick, PickDeleted, PickHooked, PickAndGiveUp, Take, Agent, Finish, Fail, EndDeleted,
             Hook, GiveUp, HookEndAnswers, HookErrorAnswers, HookGiveUpAnswers, HookRejects, Close, Requeue,
             Die, Release, Goto, workerVars, TypeOK
      <4>2. ASSUME NEW r \in Runs, PickAndRun(w, r) PROVE tries'[job'[w]] > 0
        BY <4>2 DEF PickAndRun, TypeOK
      <4>3. ASSUME Start(w) PROVE tries'[job'[w]] > 0
        <5>1. job[w] \in Runs
          BY <4>3, PlaceType DEF Start
        <5> QED
          BY <4>3, <5>1 DEF Start, TypeOK
      <4> QED
        BY <3>3, <4>1, <4>2, <4>3
    <3> QED
      BY <3>2, <3>3
  <2>2. ASSUME NEW x \in Runs, Put(x) \/ Resume(x) PROVE tries'[job'[v]] > 0
    <3>1. UNCHANGED <<pc, job>> /\ AtRest(x) /\ \A r \in Runs : r # x => tries'[r] = tries[r]
      BY <2>2 DEF Put, Resume, workerVars, AtRest, TypeOK
    <3>2. job[v] \in Runs /\ job[v] # x
      BY <3>1, PlaceType DEF Carried, RestedIsIdle, Driven, Active
    <3> QED
      BY <3>1, <3>2 DEF Tried
  <2>3. \A x \in Runs : ~Delete(x)
    BY DEF Delete
  <2>4. ASSUME NEW c \in Clients, Client(c) PROVE tries'[job'[v]] > 0
    BY <2>4 DEF Client, Wait, Wake, workerVars, Tried
  <2>5. ~CancelWorkers
    BY DEF CancelWorkers, Alive
  <2>6. CASE UNCHANGED vars
    BY <2>6 DEF vars, Tried
  <2> QED
    BY <2>1, <2>2, <2>3, <2>4, <2>5, <2>6 DEF Next, Request
<1> QED
  BY <1>1, <1>2, <1>3, TypeCorrect, BudgetKept, PTL DEF Spec, Inv

\* While nobody deletes runs and no webhook rejects, the queue, its workers and
\* its webhooks do to a run only what RunLifecycle allows: the safety half of
\* ImplementsLifecycle.
THEOREM LifecycleImplemented == ASSUME Flaky = {}, Deletable = {} PROVE Spec => Lifecycle!Spec
<1>1. Init => Lifecycle!Init
  BY DEF Init, Lifecycle!Init, Life
<1>2. Inv /\ Inv' /\ [Next]_vars => [Lifecycle!Next]_Lifecycle!vars
  <2> SUFFICES ASSUME Inv, Inv', [Next]_vars PROVE Lifecycle!Next \/ UNCHANGED Lifecycle!vars
    OBVIOUS
  <2> USE DEF Inv
  <2>1. ASSUME NEW w \in Workers, Worker(w) PROVE Lifecycle!Next \/ UNCHANGED Lifecycle!vars
    BY <2>1, WorkerWorks
  <2>2. ASSUME NEW x \in Runs, Put(x) \/ Resume(x) PROVE Lifecycle!Next
    <3>1. /\ queue \in Seq(Runs) /\ queue' = Append(queue, x) /\ UNCHANGED <<pc, job>>
          /\ \A r \in Runs : r # x => status'[r] = status[r]
          /\ status'[x] = "pending"
      BY <2>2 DEF Put, Resume, workerVars, TypeOK
    <3>2. \A r \in Runs : r # x => (Driven(r)' <=> Driven(r))
      BY <3>1, EnqueueQueued DEF Driven, Active
    <3>3. Life(x)' = "working" /\ \A r \in Runs : r # x => Life(r)' = Life(r)
      BY <3>1, <3>2, SameLife DEF Life
    <3>4. Lives' = [Lives EXCEPT ![x] = "working"]
      BY <3>3, LifeStep
    <3>5. CASE Put(x)
      <4>1. Life(x) = "absent" /\ UNCHANGED <<tries, resumes>>
        BY <3>5 DEF Put, Life
      <4>2. Lifecycle!Put(x)
        BY <3>4, <4>1 DEF Lifecycle!Put, Lives
      <4> QED
        BY <4>2 DEF Lifecycle!Next
    <3>6. CASE Resume(x)
      <4>1. /\ Life(x) = "interrupted" /\ resumes[x] < MaxResumes
            /\ tries' = [tries EXCEPT ![x] = 0] /\ resumes' = [resumes EXCEPT ![x] = @ + 1]
        BY <3>6 DEF Resume, Life
      <4>2. Lifecycle!Resume(x)
        BY <3>4, <4>1 DEF Lifecycle!Resume, Lives
      <4> QED
        BY <4>2 DEF Lifecycle!Next
    <3> QED
      BY <2>2, <3>5, <3>6
  <2>3. \A x \in Runs : ~Delete(x)
    BY DEF Delete
  <2>4. ~CancelWorkers
    BY DEF CancelWorkers, Alive
  <2>5. ASSUME UNCHANGED <<status, queue, pc, job, tries, resumes>> PROVE UNCHANGED Lifecycle!vars
    <3>1. \A r \in Runs : Driven(r)' <=> Driven(r)
      BY <2>5 DEF Driven, Queued, Active
    <3> QED
      BY <2>5, <3>1, SameLife, LifeStutter
  <2>6. ASSUME NEW c \in Clients, Client(c) PROVE UNCHANGED <<status, queue, pc, job, tries, resumes>>
    BY <2>6 DEF Client, Wait, Wake, dbVars, workerVars
  <2> QED
    BY <2>1, <2>2, <2>3, <2>4, <2>5, <2>6 DEF Next, Request, vars
<1> QED
  BY <1>1, <1>2, InvKept, PTL DEF Spec, Lifecycle!Spec
=============================================================================
