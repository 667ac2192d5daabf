--------------------------- MODULE RunQueue_proofs ---------------------------
(***************************************************************************)
(* What holds of RunQueue for every set of runs, workers and clients and   *)
(* every retry limit.                                                      *)
(***************************************************************************)
EXTENDS RunQueue, SequenceTheorems, TLAPS

\* cvs_pending_run[r].notify_all() keeps every waiter a waiter.
LEMMA NotifyType ==
  ASSUME TypeOK, NEW r \in Runs, NotifyAll(r)
  PROVE  waiter' \in [Clients -> WaiterStates]
BY DEF TypeOK, NotifyAll, WaiterStates

\* What is taken from RUNS_QUEUE is a run, and a queue remains.
LEMMA TakeType ==
  ASSUME TypeOK, NEW w \in Workers, NEW r, Take(w, r)
  PROVE  r \in Runs /\ queue' \in Seq(Runs)
BY HeadTailProperties DEF TypeOK, Take

\* The stored attempts stay numbers, whether or not the run was deleted meanwhile.
LEMMA CountType ==
  ASSUME TypeOK, NEW r \in Runs, NEW n \in Nat, CountAttempt(r, n)
  PROVE  attempts' \in [Runs -> Nat]
BY DEF TypeOK, CountAttempt

\* A worker that is neither waiting for work nor dead holds a run.
LEMMA PlaceType ==
  ASSUME TypeOK, NEW w \in Workers, pc[w] \notin {"idle", "dead", "cancelled"}
  PROVE  job[w] \in Runs
BY DEF TypeOK

\* Who waits, waits for a run that was created: what makes TypeOK inductive.
WaitsForRun ==
  \A c \in Clients : waiter[c].at \in {"waiting", "woken"} =>
    waiter[c].run \in Runs /\ status[waiter[c].run] # "new"

\* A run id is never handed out twice.
LEMMA NeverNewAgain ==
  ASSUME TypeOK, [Next]_vars
  PROVE  \A r \in Runs : status'[r] = "new" => status[r] = "new"
<1>1. ASSUME NEW r \in Runs, Request(r) PROVE \A q \in Runs : status'[q] = "new" => status[q] = "new"
  BY <1>1 DEF Request, Put, Resume, Delete, TypeOK
<1>2. ASSUME NEW w \in Workers, Worker(w) PROVE \A q \in Runs : status'[q] = "new" => status[q] = "new"
  <2>1. ASSUME NEW r \in Runs, PickDeleted(w, r) \/ PickHooked(w, r) \/ PickAndRun(w, r) \/ PickAndGiveUp(w, r)
        PROVE  \A q \in Runs : status'[q] = "new" => status[q] = "new"
    BY <2>1 DEF PickDeleted, PickHooked, PickAndRun, PickAndGiveUp, SetStatus, dbVars, TypeOK
  <2>2. ASSUME Agent(w) PROVE \A q \in Runs : status'[q] = "new" => status[q] = "new"
    BY <2>2 DEF Agent, Finish, Fail, EndDeleted, SetStatus, TypeOK
  <2>3. ASSUME Hook(w) PROVE \A q \in Runs : status'[q] = "new" => status[q] = "new"
    BY <2>3 DEF Hook, Start, GiveUp, HookEndAnswers, HookErrorAnswers, HookGiveUpAnswers, HookRejects,
                Fail, SetStatus, dbVars, TypeOK
  <2> QED
    BY <1>2, <2>1, <2>2, <2>3 DEF Worker, Pick, Close, Requeue, dbVars
<1>3. ASSUME NEW c \in Clients, Client(c) PROVE UNCHANGED status
  BY <1>3 DEF Client, Wait, Wake, dbVars
<1> QED
  BY <1>1, <1>2, <1>3 DEF Next, CancelWorkers, dbVars, vars

\* notify_all() wakes waiters and changes neither what they wait for nor who waits.
LEMMA NotifyWaits ==
  ASSUME TypeOK, NEW r \in Runs, NotifyAll(r), NEW c \in Clients
  PROVE  /\ waiter'[c].run = waiter[c].run
         /\ waiter'[c].at \in {"waiting", "woken"} => waiter[c].at \in {"waiting", "woken"}
BY DEF TypeOK, NotifyAll, WaiterStates

\* Every step keeps the runs that are waited for created.
LEMMA WaitsStep ==
  ASSUME TypeOK, WaitsForRun, [Next]_vars
  PROVE  WaitsForRun'
<1> SUFFICES ASSUME NEW c \in Clients, waiter'[c].at \in {"waiting", "woken"}
             PROVE  waiter'[c].run \in Runs /\ status[waiter'[c].run] # "new"
  BY NeverNewAgain DEF WaitsForRun
<1> DEFINE Kept == /\ waiter'[c].run = waiter[c].run
                   /\ waiter'[c].at \in {"waiting", "woken"} => waiter[c].at \in {"waiting", "woken"}
<1>1. ASSUME UNCHANGED waiter PROVE Kept
  BY <1>1
<1>2. ASSUME NEW r \in Runs, NotifyAll(r) PROVE Kept
  BY <1>2, NotifyWaits
<1>3. ASSUME NEW w \in Workers, Worker(w) PROVE Kept
  <2>1. ASSUME Pick(w) PROVE Kept
    BY <1>1, <1>2, <2>1 DEF Pick, PickDeleted, PickHooked, PickAndRun, PickAndGiveUp
  <2>2. ASSUME Agent(w) PROVE Kept
    BY <1>1, <1>2, <2>2, PlaceType DEF Agent, Finish, Fail, EndDeleted
  <2>3. ASSUME Hook(w) PROVE Kept
    BY <1>1, <1>2, <2>3, PlaceType DEF Hook, Start, GiveUp, HookEndAnswers, HookErrorAnswers, HookGiveUpAnswers,
                                       HookRejects, Fail
  <2> QED
    BY <1>1, <1>3, <2>1, <2>2, <2>3 DEF Worker, Close, Requeue
<1>4. ASSUME NEW d \in Clients, Wake(d) PROVE Kept
  BY <1>4 DEF Wake, Answer, TypeOK, WaiterStates
<1>5. ASSUME NEW d \in Clients, NEW r \in Runs, Wait(d, r)
      PROVE  Kept \/ (waiter'[c].run \in Runs /\ status[waiter'[c].run] # "new")
  <2>1. CASE c = d
    BY <1>5, <2>1 DEF Wait, Answer, Idle, TypeOK
  <2>2. CASE c # d
    BY <1>5, <2>2 DEF Wait, TypeOK
  <2> QED
    BY <2>1, <2>2
<1>6. ASSUME NEW r \in Runs, Request(r) PROVE Kept
  BY <1>1, <1>6 DEF Request, Put, Resume, Delete
<1>7. ASSUME CancelWorkers PROVE Kept
  BY <1>1, <1>7 DEF CancelWorkers
<1> QED
  BY <1>1, <1>3, <1>4, <1>5, <1>6, <1>7 DEF Next, Client, vars, WaitsForRun

\* No step takes a variable out of its values.
LEMMA TypeStep ==
  ASSUME TypeOK, WaitsForRun, [Next]_vars
  PROVE  TypeOK'
<1> USE BoundsAssumption, RunsAssumption
<1>1. ASSUME NEW r \in Runs, Put(r) PROVE TypeOK'
  BY <1>1, AppendProperties DEF Put, TypeOK, workerVars, Statuses
<1>2. ASSUME NEW r \in Runs, Resume(r) PROVE TypeOK'
  BY <1>2, AppendProperties DEF Resume, TypeOK, workerVars, Statuses
<1>3. ASSUME NEW r \in Runs, Delete(r) PROVE TypeOK'
  BY <1>3 DEF Delete, TypeOK, workerVars, OutputKinds
<1>4. ASSUME NEW w \in Workers, NEW r \in Runs, PickDeleted(w, r) PROVE TypeOK'
  BY <1>4, TakeType DEF PickDeleted, Take, Die, Goto, TypeOK, dbVars, Places
<1>5. ASSUME NEW w \in Workers, NEW r \in Runs, PickHooked(w, r) PROVE TypeOK'
  BY <1>5, TakeType DEF PickHooked, Take, SetStatus, Goto, TypeOK, Places, Statuses
<1>6. ASSUME NEW w \in Workers, NEW r \in Runs, PickAndRun(w, r) PROVE TypeOK'
  <2>1. attempts' \in [Runs -> Nat]
    BY <1>6, CountType DEF PickAndRun, TypeOK
  <2>2. queue' \in Seq(Runs)
    BY <1>6, TakeType DEF PickAndRun
  <2>3. tries' \in [Runs -> Nat] /\ held' \in [Workers -> Nat]
    BY <1>6 DEF PickAndRun, TypeOK
  <2>4. status' \in [Runs -> Statuses \cup {"new", "gone"}]
    BY <1>6 DEF PickAndRun, SetStatus, TypeOK, Statuses
  <2>5. /\ pc' \in [Workers -> Places] /\ job' \in [Workers -> Runs \cup {NoRun}]
        /\ \A v \in Workers : (job'[v] = NoRun) <=> (pc'[v] \in {"idle", "dead", "cancelled"})
    BY <1>6 DEF PickAndRun, Goto, TypeOK, Places
  <2> QED
    BY <1>6, <2>1, <2>2, <2>3, <2>4, <2>5 DEF PickAndRun, TypeOK
<1>7. ASSUME NEW w \in Workers, NEW r \in Runs, PickAndGiveUp(w, r) PROVE TypeOK'
  <2>1. attempts' \in [Runs -> Nat]
    BY <1>7, CountType DEF PickAndGiveUp, TypeOK
  <2>2. queue' \in Seq(Runs) /\ waiter' \in [Clients -> WaiterStates]
    BY <1>7, TakeType, NotifyType DEF PickAndGiveUp
  <2> QED
    BY <1>7, <2>1, <2>2 DEF PickAndGiveUp, SetStatus, TypeOK, workerVars, Statuses
<1>8. ASSUME NEW w \in Workers, Start(w) PROVE TypeOK'
  <2>1. job[w] \in Runs
    BY <1>8, PlaceType DEF Start
  <2>2. held[w] + 1 \in Nat
    BY DEF TypeOK
  <2>3. attempts' \in [Runs -> Nat]
    BY <1>8, <2>1, <2>2, CountType DEF Start
  <2>4. tries' \in [Runs -> Nat] /\ held' \in [Workers -> Nat]
    BY <1>8, <2>1 DEF Start, TypeOK
  <2> QED
    BY <1>8, <2>1, <2>3, <2>4 DEF Start, Goto, TypeOK, Places
<1>9. ASSUME NEW w \in Workers, GiveUp(w) PROVE TypeOK'
  <2>1. job[w] \in Runs
    BY <1>9, PlaceType DEF GiveUp
  <2>2. held[w] + 1 \in Nat
    BY DEF TypeOK
  <2>3. attempts' \in [Runs -> Nat]
    BY <1>9, <2>1, <2>2, CountType DEF GiveUp
  <2>4. CASE Die(w) /\ UNCHANGED status
    BY <1>9, <2>3, <2>4 DEF GiveUp, Die, Goto, TypeOK, Places
  <2>5. CASE ~(Die(w) /\ UNCHANGED status)
    <3>1. /\ status' = [status EXCEPT ![job[w]] = "error"]
          /\ held' = [held EXCEPT ![w] = @ + 1]
          /\ pc' = [pc EXCEPT ![w] = "hookGiveUp"]
          /\ pc[w] = "hookStart"
          /\ UNCHANGED <<output, queue, job, pool, waiter, tries, resumes>>
      BY <1>9, <2>5 DEF GiveUp, SetStatus, Goto
    <3> QED
      BY <2>1, <2>2, <2>3, <3>1 DEF TypeOK, Places, Statuses
  <2> QED
    BY <2>4, <2>5
<1>10. ASSUME NEW w \in Workers, NEW s \in {"success", "interrupted"}, Finish(w, s) PROVE TypeOK'
  <2>1. job[w] \in Runs
    BY <1>10, PlaceType DEF Finish
  <2>2. waiter' \in [Clients -> WaiterStates]
    BY <1>10, <2>1, NotifyType DEF Finish, TypeOK
  <2> QED
    BY <1>10, <2>1, <2>2 DEF Finish, CountAttempt, SetStatus, Goto, TypeOK, Places, Statuses, OutputKinds
<1>11. ASSUME NEW w \in Workers, NEW from \in {"running", "hookEnd"}, Fail(w, from) PROVE TypeOK'
  <2>1. job[w] \in Runs
    BY <1>11, PlaceType DEF Fail
  <2>2. waiter' \in [Clients -> WaiterStates]
    BY <1>11, <2>1, NotifyType DEF Fail, TypeOK
  <2> QED
    BY <1>11, <2>1, <2>2 DEF Fail, CountAttempt, SetStatus, Goto, TypeOK, Places, Statuses, OutputKinds
<1>12. ASSUME NEW w \in Workers, EndDeleted(w) PROVE TypeOK'
  <2>1. job[w] \in Runs
    BY <1>12, PlaceType DEF EndDeleted
  <2>2. output' \in [Runs -> OutputKinds]
    BY <1>12, <2>1 DEF EndDeleted, TypeOK, OutputKinds
  <2> QED
    BY <1>12, <2>2 DEF EndDeleted, Die, Goto, TypeOK, Places
<1>13. ASSUME NEW w \in Workers, HookEndAnswers(w) PROVE TypeOK'
  BY <1>13, PlaceType, NotifyType DEF HookEndAnswers, Goto, TypeOK, dbVars, Places
<1>14. ASSUME NEW w \in Workers, HookErrorAnswers(w) PROVE TypeOK'
  BY <1>14, PlaceType, NotifyType DEF HookErrorAnswers, Goto, TypeOK, Places, OutputKinds
<1>15. ASSUME NEW w \in Workers, HookGiveUpAnswers(w) PROVE TypeOK'
  BY <1>15, PlaceType, NotifyType DEF HookGiveUpAnswers, Release, Goto, TypeOK, dbVars, Places
<1>16. ASSUME NEW w \in Workers, HookRejects(w) PROVE TypeOK'
  <2>1. CASE Fail(w, "hookEnd")
    BY <2>1, <1>11
  <2>2. CASE Die(w) /\ UNCHANGED <<dbVars, queue, waiter, tries, resumes>>
    BY <2>2 DEF Die, Goto, TypeOK, dbVars, Places
  <2> QED
    BY <1>16, <2>1, <2>2 DEF HookRejects
<1>17. ASSUME NEW w \in Workers, Close(w) PROVE TypeOK'
  BY <1>17 DEF Close, Release, Goto, TypeOK, dbVars, Places
<1>18. ASSUME NEW w \in Workers, Requeue(w) PROVE TypeOK'
  BY <1>18, PlaceType, AppendProperties DEF Requeue, Release, Goto, TypeOK, dbVars, Places
<1>19. ASSUME NEW c \in Clients, NEW r \in Runs, Wait(c, r) PROVE TypeOK'
  <2>1. Answer(r) \in WaiterStates \/ status[r] \in {"new", "gone"}
    BY DEF TypeOK, Answer, WaiterStates
  <2>2. [Idle EXCEPT !.run = r, !.status = "missing"] \in WaiterStates
    BY DEF Idle, WaiterStates, OutputKinds
  <2>3. [Idle EXCEPT !.at = "waiting", !.run = r] \in WaiterStates
    BY DEF Idle, WaiterStates, OutputKinds
  <2>4. waiter' \in [Clients -> WaiterStates]
    BY <1>19, <2>1, <2>2, <2>3 DEF Wait, TypeOK
  <2> QED
    BY <1>19, <2>4 DEF Wait, TypeOK, dbVars, workerVars
<1>20. ASSUME NEW c \in Clients, Wake(c) PROVE TypeOK'
  <2>1. waiter[c] \in WaiterStates /\ waiter[c].run \in Runs /\ status[waiter[c].run] # "new"
    BY <1>20 DEF TypeOK, WaitsForRun, Wake
  <2>2. status[waiter[c].run] # "gone" => Answer(waiter[c].run) \in WaiterStates
    BY <2>1 DEF TypeOK, Answer, WaiterStates
  <2> QED
    BY <1>20, <2>1, <2>2 DEF Wake, WaiterStates, TypeOK, dbVars, workerVars
<1>21. CASE CancelWorkers
  BY <1>21 DEF CancelWorkers, TypeOK, dbVars, Places
<1>22. CASE UNCHANGED vars
  BY <1>22 DEF vars, TypeOK
<1> QED
  BY <1>1, <1>2, <1>3, <1>4, <1>5, <1>6, <1>7, <1>8, <1>9, <1>10, <1>11, <1>12, <1>13, <1>14,
     <1>15, <1>16, <1>17, <1>18, <1>19, <1>20, <1>21, <1>22
  DEF Next, Request, Worker, Pick, Agent, Hook, Client

\* Initially nobody waits, and every variable has one of its values.
LEMMA InitCorrect ==
  ASSUME Init
  PROVE  TypeOK /\ WaitsForRun
<1>1. TypeOK
  BY BoundsAssumption, EmptySeq DEF Init, TypeOK, Idle, WaiterStates, OutputKinds, Places
<1>2. WaitsForRun
  BY DEF Init, WaitsForRun, Idle
<1> QED
  BY <1>1, <1>2

\* The types and the waiters' runs keep each other.
LEMMA TypeAndWaits == Spec => [](TypeOK /\ WaitsForRun)
<1>1. Init => TypeOK /\ WaitsForRun
  BY InitCorrect
<1>2. TypeOK /\ WaitsForRun /\ [Next]_vars => (TypeOK /\ WaitsForRun)'
  BY TypeStep, WaitsStep
<1> QED
  BY <1>1, <1>2, PTL DEF Spec

\* The variables have the values the code gives them, and a worker holds a run
\* exactly while it is executing one.
THEOREM TypeCorrect == Spec => []TypeOK
BY TypeAndWaits, PTL

-----------------------------------------------------------------------------
(* RUNS_QUEUE: what put and get do to the runs that are queued.            *)

\* put() adds one run to those queued.
LEMMA EnqueueQueued ==
  ASSUME queue \in Seq(Runs), NEW x \in Runs, queue' = Append(queue, x)
  PROVE  \A r : Queued(r)' <=> Queued(r) \/ r = x
<1>1. /\ Len(queue') = Len(queue) + 1 /\ Len(queue) \in Nat
      /\ \A i \in 1..Len(queue) : queue'[i] = queue[i]
      /\ queue'[Len(queue) + 1] = x
  BY AppendProperties, LenProperties
<1> QED
  BY <1>1 DEF Queued

\* put() of a run that is not queued leaves every run queued at most once.
LEMMA EnqueueOnce ==
  ASSUME queue \in Seq(Runs), NEW x \in Runs, queue' = Append(queue, x), OnceQueued, ~Queued(x)
  PROVE  OnceQueued'
<1>1. /\ Len(queue') = Len(queue) + 1 /\ Len(queue) \in Nat
      /\ \A i \in 1..Len(queue) : queue'[i] = queue[i]
      /\ queue'[Len(queue) + 1] = x
  BY AppendProperties, LenProperties
<1> QED
  BY <1>1 DEF Queued, OnceQueued

\* get() shifts the queue by one place.
LEMMA TailIndices ==
  ASSUME queue \in Seq(Runs), queue # << >>, queue' = Tail(queue), NEW x, x = Head(queue)
  PROVE  /\ Len(queue) \in Nat \ {0} /\ Len(queue') = Len(queue) - 1
         /\ queue[1] = x
         /\ \A i \in 1..Len(queue') : queue'[i] = queue[i + 1]
BY HeadTailProperties, LenProperties, EmptySeq

\* get() takes a queued run and leaves every other one queued.
LEMMA DequeueQueued ==
  ASSUME queue \in Seq(Runs), queue # << >>, queue' = Tail(queue), NEW x, x = Head(queue)
  PROVE  /\ Queued(x)
         /\ \A r : Queued(r)' => Queued(r)
         /\ \A r : Queued(r) /\ r # x => Queued(r)'
<1>1. Queued(x)
  BY TailIndices DEF Queued
<1>2. ASSUME NEW r, Queued(r)' PROVE Queued(r)
  <2>1. PICK i \in 1..Len(queue') : queue'[i] = r
    BY <1>2 DEF Queued
  <2>2. i + 1 \in 1..Len(queue) /\ queue[i + 1] = r
    BY <2>1, TailIndices
  <2> QED
    BY <2>2 DEF Queued
<1>3. ASSUME NEW r, Queued(r), r # x PROVE Queued(r)'
  <2>1. PICK i \in 1..Len(queue) : queue[i] = r
    BY <1>3 DEF Queued
  <2>2. i - 1 \in 1..Len(queue') /\ queue'[i - 1] = r
    BY <1>3, <2>1, TailIndices
  <2> QED
    BY <2>2 DEF Queued
<1> QED
  BY <1>1, <1>2, <1>3

\* get() from a queue without repetitions leaves none, and the run taken is gone.
LEMMA DequeueOnce ==
  ASSUME queue \in Seq(Runs), queue # << >>, queue' = Tail(queue), NEW x, x = Head(queue), OnceQueued
  PROVE  OnceQueued' /\ ~Queued(x)'
<1>1. OnceQueued'
  BY TailIndices DEF OnceQueued
<1>2. ~Queued(x)'
  BY TailIndices DEF OnceQueued, Queued
<1> QED
  BY <1>1, <1>2

-----------------------------------------------------------------------------
(***************************************************************************)
(* One carrier per run.  Exclusive is not inductive alone: Put and Resume  *)
(* enqueue a run without looking, so they must find it carried by nobody,  *)
(* which is RestedIsIdle; and a worker that ends a run must have been its  *)
(* only carrier, which is Exclusive again.  The steps fall into three      *)
(* kinds: they enqueue a run, dequeue one, or leave the queue alone.       *)
(***************************************************************************)
Carried == Exclusive /\ RestedIsIdle

\* A step that leaves the queue alone and hands no worker a run keeps one carrier per
\* run, if the runs it brings to rest are carried by nobody afterwards.
LEMMA QuietStep ==
  ASSUME Carried, UNCHANGED queue,
         \A v \in Workers : Active(v)' => Active(v) /\ job'[v] = job[v],
         \A r \in Runs : AtRest(r)' => AtRest(r) \/ ~Driven(r)'
  PROVE  Carried'
<1>1. \A r : Queued(r)' <=> Queued(r)
  BY DEF Queued
<1>2. Exclusive'
  BY <1>1 DEF Carried, Exclusive, OnceQueued, NotBoth, OneWorker
<1>3. RestedIsIdle'
  BY <1>1 DEF Carried, RestedIsIdle, Driven
<1> QED
  BY <1>2, <1>3 DEF Carried

\* Enqueueing a run that nobody carries keeps one carrier per run.
LEMMA EnqueueStep ==
  ASSUME Carried, queue \in Seq(Runs), NEW x \in Runs, queue' = Append(queue, x),
         ~Queued(x), \A v \in Workers : Active(v)' => Active(v) /\ job'[v] = job[v] /\ job[v] # x,
         \A r \in Runs : AtRest(r)' => AtRest(r) /\ r # x
  PROVE  Carried'
<1>1. \A r : Queued(r)' <=> Queued(r) \/ r = x
  BY EnqueueQueued
<1>2. OnceQueued'
  BY EnqueueOnce DEF Carried, Exclusive
<1>3. NotBoth' /\ OneWorker'
  BY <1>1 DEF Carried, Exclusive, NotBoth, OneWorker
<1>4. RestedIsIdle'
  BY <1>1 DEF Carried, RestedIsIdle, Driven
<1> QED
  BY <1>2, <1>3, <1>4 DEF Carried, Exclusive

\* A worker that takes the head of the queue becomes that run's one carrier.
LEMMA DequeueStep ==
  ASSUME Carried, queue \in Seq(Runs), queue # << >>, queue' = Tail(queue), NEW x, x = Head(queue),
         NEW w \in Workers, ~Active(w),
         \A v \in Workers : Active(v)' =>
           (Active(v) /\ job'[v] = job[v]) \/ (v = w /\ job'[v] = x),
         \A r \in Runs : AtRest(r)' => AtRest(r)
  PROVE  Carried'
<1>1. /\ Queued(x) /\ ~Queued(x)'
      /\ \A r : Queued(r)' => Queued(r)
  BY DequeueQueued, DequeueOnce DEF Carried, Exclusive
<1>2. OnceQueued'
  BY DequeueOnce DEF Carried, Exclusive
<1>3. \A v \in Workers : Active(v) => job[v] # x
  BY <1>1 DEF Carried, Exclusive, NotBoth
<1>4. NotBoth' /\ OneWorker'
  BY <1>1, <1>3 DEF Carried, Exclusive, NotBoth, OneWorker
<1>5. RestedIsIdle'
  BY <1>1 DEF Carried, RestedIsIdle, Driven
<1> QED
  BY <1>2, <1>4, <1>5 DEF Carried, Exclusive

\* No step of a worker gives a run a second carrier: the retry at queue.py:188 puts back
\* a run whose only carrier was this worker.
LEMMA CarriedWorker ==
  ASSUME TypeOK, Carried, Flaky = {}, NEW w \in Workers, Worker(w)
  PROVE  Carried'
<1>1. ASSUME NEW r \in Runs, PickDeleted(w, r) \/ PickHooked(w, r) \/ PickAndRun(w, r) \/ PickAndGiveUp(w, r)
      PROVE  Carried'
  <2>1. Take(w, r)
    BY <1>1 DEF PickDeleted, PickHooked, PickAndRun, PickAndGiveUp
  <2>2. queue \in Seq(Runs) /\ queue # << >> /\ r = Head(queue) /\ queue' = Tail(queue) /\ ~Active(w)
    BY <2>1 DEF Take, TypeOK, Active
  <2>3. \A v \in Workers : Active(v)' =>
           (Active(v) /\ job'[v] = job[v]) \/ (v = w /\ job'[v] = r)
    <3>1. CASE PickDeleted(w, r)
      BY <3>1 DEF PickDeleted, Die, Goto, Active, TypeOK
    <3>2. CASE PickHooked(w, r) \/ PickAndRun(w, r)
      BY <3>2 DEF PickHooked, PickAndRun, Goto, Active, TypeOK
    <3>3. CASE PickAndGiveUp(w, r)
      BY <3>3 DEF PickAndGiveUp, workerVars, Active
    <3> QED
      BY <1>1, <3>1, <3>2, <3>3
  <2>4. \A q \in Runs : AtRest(q)' => AtRest(q)
    BY <1>1 DEF PickDeleted, PickHooked, PickAndRun, PickAndGiveUp, SetStatus, dbVars, AtRest, TypeOK
  <2> QED
    BY <2>2, <2>3, <2>4, DequeueStep
<1>2. ASSUME Start(w) \/ GiveUp(w) \/ EndDeleted(w) \/ HookEndAnswers(w) \/ HookErrorAnswers(w)
               \/ HookGiveUpAnswers(w) \/ Fail(w, "running") \/ Close(w)
      PROVE  Carried'
  <2>1. UNCHANGED queue
    BY <1>2 DEF Start, GiveUp, EndDeleted, HookEndAnswers, HookErrorAnswers, HookGiveUpAnswers, Fail, Close
  <2>2. \A v \in Workers : Active(v)' => Active(v) /\ job'[v] = job[v]
    BY <1>2 DEF Start, GiveUp, EndDeleted, HookEndAnswers, HookErrorAnswers, HookGiveUpAnswers, Fail, Close,
                Die, Release, Goto, Active, TypeOK
  <2>3. \A r \in Runs : AtRest(r)' => AtRest(r)
    BY <1>2 DEF Start, GiveUp, EndDeleted, HookEndAnswers, HookErrorAnswers, HookGiveUpAnswers, Fail, Close,
                SetStatus, dbVars, AtRest, TypeOK
  <2> QED
    BY <2>1, <2>2, <2>3, QuietStep
<1>3. ASSUME NEW s \in {"success", "interrupted"}, Finish(w, s) PROVE Carried'
  <2>1. UNCHANGED <<queue, job>> /\ Active(w) /\ ~Active(w)' /\ job[w] \in Runs
    BY <1>3, PlaceType DEF Finish, Goto, Active, TypeOK
  <2>2. \A v \in Workers : Active(v)' => Active(v) /\ v # w
    BY <1>3 DEF Finish, Goto, Active, TypeOK
  <2>3. ~Driven(job[w])'
    BY <2>1, <2>2 DEF Carried, Exclusive, NotBoth, OneWorker, Driven, Queued
  <2>4. \A r \in Runs : AtRest(r)' => AtRest(r) \/ r = job[w]
    BY <1>3 DEF Finish, SetStatus, AtRest, TypeOK
  <2> QED
    BY <2>1, <2>2, <2>3, <2>4, QuietStep
<1>4. ~HookRejects(w)
  BY DEF HookRejects
<1>5. ASSUME Requeue(w) PROVE Carried'
  <2>1. /\ Active(w) /\ ~Active(w)' /\ job[w] \in Runs
        /\ queue \in Seq(Runs) /\ queue' = Append(queue, job[w])
        /\ UNCHANGED status
    BY <1>5, PlaceType DEF Requeue, Release, Goto, Active, TypeOK, dbVars
  <2>2. ~Queued(job[w])
    BY <2>1 DEF Carried, Exclusive, NotBoth
  <2>3. \A v \in Workers : Active(v)' => Active(v) /\ job'[v] = job[v] /\ v # w
    BY <1>5 DEF Requeue, Release, Goto, Active, TypeOK
  <2>4. \A v \in Workers : Active(v)' => job[v] # job[w]
    BY <2>1, <2>3 DEF Carried, Exclusive, OneWorker
  <2>5. ~AtRest(job[w])
    BY <2>1 DEF Carried, RestedIsIdle, Driven
  <2>6. \A r \in Runs : AtRest(r)' => AtRest(r) /\ r # job[w]
    BY <2>1, <2>5 DEF AtRest
  <2> QED
    BY <2>1, <2>2, <2>3, <2>4, <2>6, EnqueueStep
<1> QED
  BY <1>1, <1>2, <1>3, <1>4, <1>5 DEF Worker, Pick, Agent, Hook

\* No request of a client does: what Put and Resume enqueue was at rest.
LEMMA CarriedRequest ==
  ASSUME TypeOK, Carried, NEW r \in Runs, Request(r)
  PROVE  Carried'
<1>1. ASSUME Put(r) \/ Resume(r) PROVE Carried'
  <2>1. AtRest(r) /\ queue \in Seq(Runs) /\ queue' = Append(queue, r) /\ UNCHANGED <<pc, job>>
    BY <1>1 DEF Put, Resume, AtRest, TypeOK, workerVars
  <2>2. ~Driven(r)
    BY <2>1 DEF Carried, RestedIsIdle
  <2>3. ~Queued(r) /\ \A v \in Workers : Active(v)' => Active(v) /\ job'[v] = job[v] /\ job[v] # r
    BY <2>1, <2>2 DEF Driven, Active
  <2>4. \A q \in Runs : AtRest(q)' => AtRest(q) /\ q # r
    BY <1>1 DEF Put, Resume, AtRest, TypeOK
  <2> QED
    BY <2>1, <2>3, <2>4, EnqueueStep
<1>2. ASSUME Delete(r) PROVE Carried'
  <2>1. /\ UNCHANGED <<queue, pc, job>>
        /\ \A q \in Runs : AtRest(q)' => AtRest(q)
    BY <1>2 DEF Delete, AtRest, TypeOK, workerVars
  <2>2. \A v \in Workers : Active(v)' => Active(v) /\ job'[v] = job[v]
    BY <2>1 DEF Active
  <2> QED
    BY <2>1, <2>2, QuietStep
<1> QED
  BY <1>1, <1>2 DEF Request

\* Nor does any other step.
LEMMA CarriedStep ==
  ASSUME TypeOK, Carried, Flaky = {}, [Next]_vars
  PROVE  Carried'
<1>1. ASSUME NEW c \in Clients, Client(c) PROVE UNCHANGED <<status, queue, pc, job>>
  BY <1>1 DEF Client, Wait, Wake, dbVars, workerVars
<1>2. ASSUME CancelWorkers PROVE UNCHANGED <<status, queue>> /\ \A v \in Workers : ~Active(v)'
  BY <1>2 DEF CancelWorkers, dbVars, Active
<1>3. ASSUME UNCHANGED <<status, queue>>, UNCHANGED <<pc, job>> \/ \A v \in Workers : ~Active(v)' PROVE Carried'
  BY <1>3, QuietStep DEF Active, AtRest
<1> QED
  BY <1>1, <1>2, <1>3, CarriedWorker, CarriedRequest DEF Next, vars

\* Initially nobody carries anything.
LEMMA InitIsCarried ==
  ASSUME Init
  PROVE  Carried
<1>1. \A w \in Workers : ~Active(w)
  BY DEF Init, Active
<1>2. Len(queue) = 0
  BY DEF Init
<1> QED
  BY <1>1, <1>2 DEF Carried, Exclusive, OnceQueued, NotBoth, OneWorker, RestedIsIdle, Driven, Queued

\* Without webhooks that reject, a run is queued or in the hands of one worker
\* but never both nor twice, however puts, resumes, deletions, retries and
\* slow webhooks interleave; and a finished or interrupted run stays untouched.
THEOREM OneCarrier == ASSUME Flaky = {} PROVE Spec => [](Exclusive /\ RestedIsIdle)
<1>1. Init => Carried
  BY InitIsCarried
<1>2. TypeOK /\ Carried /\ [Next]_vars => Carried'
  BY CarriedStep
<1>3. Carried <=> Exclusive /\ RestedIsIdle
  BY DEF Carried
<1> QED
  BY <1>1, <1>2, <1>3, TypeCorrect, PTL DEF Spec

\* A run with its result, or waiting for its client's input, is neither queued nor
\* executed until it is resumed.
THEOREM RestIsLeftAlone == ASSUME Flaky = {} PROVE Spec => []RestedIsIdle
BY OneCarrier, PTL

-----------------------------------------------------------------------------
(***************************************************************************)
(* No run is forgotten, webhooks that reject included.  NoLostRun is       *)
(* inductive over TypeOK: whoever puts down a run it was carrying has      *)
(* given it a result, exhausted its attempts, queued it, or died.          *)
(***************************************************************************)

\* The workers other than w stay where they are.
Others(w) == \A v \in Workers : v # w => pc'[v] = pc[v] /\ job'[v] = job[v]

\* A worker's step moves no other worker.
LEMMA OthersStay ==
  ASSUME TypeOK, NEW w \in Workers, Worker(w)
  PROVE  Others(w)
<1>1. CASE Pick(w)
  BY <1>1 DEF Pick, PickDeleted, PickHooked, PickAndRun, PickAndGiveUp, Die, Goto, workerVars, Others, TypeOK
<1>2. CASE Agent(w)
  BY <1>2 DEF Agent, Finish, Fail, EndDeleted, Die, Goto, Others, TypeOK
<1>3. CASE Hook(w)
  BY <1>3 DEF Hook, Start, GiveUp, HookEndAnswers, HookErrorAnswers, HookGiveUpAnswers, HookRejects, Fail,
              Die, Release, Goto, Others, TypeOK
<1>4. CASE Close(w) \/ Requeue(w)
  BY <1>4 DEF Close, Requeue, Release, Goto, Others, TypeOK
<1> QED
  BY <1>1, <1>2, <1>3, <1>4 DEF Worker

\* A run is still carried after a worker's step, if that worker or the queue was not what
\* carried it.
LEMMA StillDriven ==
  ASSUME NEW w \in Workers, Others(w), NEW r \in Runs, Driven(r), Queued(r) => Queued(r)',
         Active(w) /\ job[w] = r => Driven(r)'
  PROVE  Driven(r)'
BY DEF Driven, Others, Active

\* A pick-up forgets no run: the worker carries it on or has used up its attempts.
LEMMA DrivenByPick ==
  ASSUME TypeOK, NEW w \in Workers, NEW x \in Runs,
         PickHooked(w, x) \/ PickAndRun(w, x) \/ PickAndGiveUp(w, x),
         NEW r \in Runs, Owed(r) => Driven(r), Owed(r)'
  PROVE  Driven(r)'
<1>1. queue \in Seq(Runs) /\ queue # << >> /\ queue' = Tail(queue) /\ x = Head(queue) /\ ~Active(w)
  BY DEF PickHooked, PickAndRun, PickAndGiveUp, Take, TypeOK, Active
<1>2. CASE r = x
  <2>1. ASSUME PickAndGiveUp(w, x) PROVE FALSE
    <3>1. attempts' = [attempts EXCEPT ![x] = attempts[x] + 1] /\ attempts[x] + 1 > MaxAttempts
      BY <2>1 DEF PickAndGiveUp, CountAttempt
    <3>2. attempts'[x] > MaxAttempts /\ attempts[x] + 1 \in Nat
      BY <3>1 DEF TypeOK
    <3>3. status'[x] = "error"
      BY <2>1 DEF PickAndGiveUp, SetStatus, TypeOK
    <3> QED
      BY <1>2, <3>1, <3>2, <3>3, BoundsAssumption DEF Owed, TypeOK
  <2>2. Active(w)' /\ job'[w] = x
    BY <2>1 DEF PickHooked, PickAndRun, Goto, Active, TypeOK
  <2> QED
    BY <1>2, <2>2 DEF Driven
<1>3. CASE r # x
  <2>1. Owed(r)
    BY <1>3 DEF PickHooked, PickAndRun, PickAndGiveUp, SetStatus, CountAttempt, Owed, TypeOK
  <2>2. Driven(r)
    BY <2>1
  <2>3. Queued(r) => Queued(r)'
    BY <1>1, <1>3, DequeueQueued
  <2>4. Others(w)
    BY OthersStay DEF Worker, Pick
  <2> QED
    BY <1>1, <2>2, <2>3, <2>4, StillDriven
<1> QED
  BY <1>2, <1>3

\* What a step of a worker that survives it does to the run the worker holds:
\* it leaves the queue alone, touches no other run, and keeps the run or is
\* done with it.
LEMMA DrivenByHolder ==
  ASSUME TypeOK, NEW w \in Workers, Others(w), UNCHANGED queue,
         NEW x, x = job[w], \A q \in Runs : q # x => status'[q] = status[q] /\ attempts'[q] = attempts[q],
         (Active(w)' /\ job'[w] = x) \/ ~Owed(x)'
           \/ (~Active(w) /\ UNCHANGED <<status, attempts>>),
         NEW r \in Runs, Owed(r) => Driven(r), Owed(r)'
  PROVE  Driven(r)'
<1>1. Queued(r) <=> Queued(r)'
  BY DEF Queued
<1>2. CASE r = x /\ Active(w)' /\ job'[w] = x
  BY <1>2 DEF Driven
<1>3. CASE r = x /\ ~Active(w) /\ UNCHANGED <<status, attempts>>
  <2>1. Driven(r)
    BY <1>3 DEF Owed
  <2> QED
    BY <1>1, <1>3, <2>1, StillDriven
<1>4. CASE r # x
  <2>1. Driven(r)
    BY <1>4 DEF Owed
  <2> QED
    BY <1>1, <1>4, <2>1, StillDriven
<1> QED
  BY <1>2, <1>3, <1>4

\* Nobody restarts the workers.
LEMMA PoolNeverReturns ==
  ASSUME TypeOK, [Next]_vars, pool' = "up"
  PROVE  pool = "up"
<1>1. ASSUME NEW w \in Workers, Worker(w) PROVE pool' = pool \/ pool' = "failed"
  <2>1. CASE Pick(w)
    BY <2>1 DEF Pick, PickDeleted, PickHooked, PickAndRun, PickAndGiveUp, Die, workerVars
  <2>2. CASE Agent(w)
    BY <2>2 DEF Agent, Finish, Fail, EndDeleted, Die
  <2>3. CASE Hook(w)
    BY <2>3 DEF Hook, Start, GiveUp, HookEndAnswers, HookErrorAnswers, HookGiveUpAnswers, HookRejects, Fail,
                Die, Release
  <2> QED
    BY <1>1, <2>1, <2>2, <2>3 DEF Worker, Close, Requeue, Release
<1> QED
  BY <1>1 DEF Next, Request, Put, Resume, Delete, Client, Wait, Wake, CancelWorkers, workerVars, vars

\* No step of a worker that survives it forgets a run.
LEMMA DrivenByWorker ==
  ASSUME TypeOK, NEW w \in Workers, Worker(w), pool' = "up",
         NEW r \in Runs, Owed(r) => Driven(r), Owed(r)'
  PROVE  Driven(r)'
<1>1. Others(w)
  BY OthersStay
<1>2. ASSUME Die(w) PROVE FALSE
  BY <1>2 DEF Die
<1>3. CASE Pick(w)
  BY <1>2, <1>3, DrivenByPick DEF Pick, PickDeleted
<1>4. CASE Requeue(w)
  <2>1. queue \in Seq(Runs) /\ job[w] \in Runs /\ queue' = Append(queue, job[w]) /\ Owed(r)
    BY <1>4, PlaceType DEF Requeue, Owed, dbVars, TypeOK
  <2>2. Driven(r) /\ (Queued(r)' <=> Queued(r) \/ r = job[w])
    BY <2>1, EnqueueQueued
  <2> QED
    BY <1>1, <2>2, StillDriven DEF Driven
<1>5. PICK x : x = job[w]
  OBVIOUS
<1>6. ASSUME Start(w) \/ Fail(w, "running") \/ Fail(w, "hookEnd") \/ HookErrorAnswers(w)
      PROVE  /\ UNCHANGED queue
             /\ \A q \in Runs : q # x => status'[q] = status[q] /\ attempts'[q] = attempts[q]
             /\ Active(w)' /\ job'[w] = x
  BY <1>5, <1>6 DEF Start, Fail, HookErrorAnswers, CountAttempt, SetStatus, Goto, Active, TypeOK
<1>7. ASSUME GiveUp(w) \/ Finish(w, "success") \/ Finish(w, "interrupted")
      PROVE  /\ UNCHANGED queue
             /\ \A q \in Runs : q # x => status'[q] = status[q] /\ attempts'[q] = attempts[q]
             /\ x \in Runs /\ ~Owed(x)'
  <2>1. x \in Runs
    BY <1>5, <1>7, PlaceType DEF GiveUp, Finish
  <2> QED
    <3>1. CASE GiveUp(w)
      <4>1. status' = [status EXCEPT ![x] = "error"] /\ UNCHANGED queue /\ Present(x)
        BY <1>2, <1>5, <3>1 DEF GiveUp, SetStatus
      <4>2. attempts' = [attempts EXCEPT ![x] = held[w] + 1] /\ held[w] + 1 > MaxAttempts
        BY <1>5, <3>1, <4>1 DEF GiveUp, CountAttempt
      <4>3. attempts'[x] > MaxAttempts /\ attempts'[x] \in Nat
        BY <2>1, <4>2 DEF TypeOK
      <4> QED
        BY <2>1, <4>1, <4>2, <4>3, BoundsAssumption DEF Owed, TypeOK
    <3>2. CASE Finish(w, "success") \/ Finish(w, "interrupted")
      BY <1>5, <2>1, <3>2 DEF Finish, CountAttempt, SetStatus, Owed, TypeOK
    <3> QED
      BY <1>7, <3>1, <3>2
<1>8. ASSUME HookEndAnswers(w) \/ HookGiveUpAnswers(w) \/ Close(w)
      PROVE  UNCHANGED <<queue, status, attempts>> /\ ~Active(w)
  BY <1>8 DEF HookEndAnswers, HookGiveUpAnswers, Close, Active, dbVars
<1>9. CASE Start(w) \/ Fail(w, "running") \/ Fail(w, "hookEnd") \/ HookErrorAnswers(w)
  BY <1>1, <1>5, <1>6, <1>9, DrivenByHolder
<1>10. CASE GiveUp(w) \/ Finish(w, "success") \/ Finish(w, "interrupted")
  BY <1>1, <1>5, <1>7, <1>10, DrivenByHolder
<1>11. CASE HookEndAnswers(w) \/ HookGiveUpAnswers(w) \/ Close(w)
  BY <1>1, <1>5, <1>8, <1>11, DrivenByHolder
<1>12. EndDeleted(w) => FALSE
  BY <1>2 DEF EndDeleted
<1>13. HookRejects(w) => Fail(w, "hookEnd")
  BY <1>2 DEF HookRejects
<1> QED
  BY <1>3, <1>4, <1>9, <1>10, <1>11, <1>12, <1>13 DEF Worker, Agent, Hook

\* A run that is carried if anything is owed to it stays so in every step that leaves the
\* workers up.
LEMMA DrivenStep ==
  ASSUME TypeOK, [Next]_vars, pool' = "up", NEW r \in Runs, Owed(r) => Driven(r), Owed(r)'
  PROVE  Driven(r)'
<1>1. pool = "up"
  BY PoolNeverReturns
<1>2. ASSUME NEW w \in Workers, Worker(w) PROVE Driven(r)'
  BY <1>2, DrivenByWorker
<1>3. ASSUME UNCHANGED <<status, attempts, queue, pc, job>> PROVE Driven(r)'
  BY <1>3 DEF Owed, Driven, Queued, Active
<1>4. ASSUME NEW x \in Runs, Put(x) \/ Resume(x) PROVE Driven(r)'
  <2>1. /\ queue \in Seq(Runs) /\ queue' = Append(queue, x) /\ UNCHANGED <<pc, job>>
        /\ r # x => Owed(r)
    BY <1>4 DEF Put, Resume, Owed, TypeOK, workerVars
  <2>2. Queued(r)' <=> Queued(r) \/ r = x
    BY <2>1, EnqueueQueued
  <2> QED
    BY <2>1, <2>2 DEF Driven, Active
<1>5. ASSUME NEW x \in Runs, Delete(x) PROVE Driven(r)'
  <2>1. UNCHANGED <<queue, pc, job>> /\ Owed(r)
    BY <1>5 DEF Delete, Owed, TypeOK, workerVars
  <2> QED
    BY <2>1 DEF Driven, Queued, Active
<1>6. ASSUME NEW c \in Clients, Client(c) PROVE UNCHANGED <<status, attempts, queue, pc, job>>
  BY <1>6 DEF Client, Wait, Wake, dbVars, workerVars
<1>7. ~CancelWorkers
  BY <1>1 DEF CancelWorkers
<1> QED
  BY <1>2, <1>3, <1>4, <1>5, <1>6, <1>7 DEF Next, Request, vars

\* While the workers are up, a run that was put or resumed and has neither a
\* result nor its attempts exhausted is queued or being executed, for every
\* interleaving of clients, workers, deletions and rejecting webhooks.
THEOREM NothingLost == Spec => []NoLostRun
<1>1. Init => NoLostRun
  BY DEF Init, NoLostRun, Owed
<1>2. TypeOK /\ NoLostRun /\ [Next]_vars => NoLostRun'
  BY PoolNeverReturns, DrivenStep DEF NoLostRun
<1> QED
  BY <1>1, <1>2, TypeCorrect, PTL DEF Spec

-----------------------------------------------------------------------------
\* A successful run that nobody carries stays successful or is deleted.
LEMMA SuccessStep ==
  ASSUME TypeOK, RestedIsIdle, Flaky = {}, [Next]_vars, NEW r \in Runs, status[r] = "success"
  PROVE  status'[r] \in {"success", "gone"}
<1>1. ~Driven(r)
  BY DEF RestedIsIdle, AtRest
<1>2. ASSUME NEW w \in Workers, NEW x \in Runs, Take(w, x) PROVE x # r
  BY <1>1, <1>2, DequeueQueued DEF Take, Driven, TypeOK
<1>3. ASSUME NEW w \in Workers, Pick(w) PROVE status'[r] = "success"
  BY <1>2, <1>3 DEF Pick, PickDeleted, PickHooked, PickAndRun, PickAndGiveUp, SetStatus, dbVars, TypeOK
<1>4. \A w \in Workers : Active(w) => job[w] # r
  BY <1>1 DEF Driven
<1>5. ASSUME NEW w \in Workers, Agent(w) \/ Hook(w) PROVE status'[r] = "success"
  BY <1>4, <1>5 DEF Agent, Finish, Fail, EndDeleted, Hook, Start, GiveUp, HookEndAnswers, HookErrorAnswers,
                    HookGiveUpAnswers, HookRejects, SetStatus, Active, dbVars, TypeOK
<1>6. ASSUME NEW x \in Runs, Request(x) PROVE status'[r] \in {"success", "gone"}
  BY <1>6 DEF Request, Put, Resume, Delete, TypeOK
<1> QED
  BY <1>3, <1>5, <1>6 DEF Next, Worker, Client, Close, Requeue, Wait, Wake, CancelWorkers, dbVars, vars

\* Without webhooks that reject, a run that succeeded is never reported
\* otherwise again: only its deletion can follow.
THEOREM SuccessStays == ASSUME Flaky = {} PROVE Spec => SuccessIsFinal
<1> DEFINE Kept == \A r \in Runs : status[r] = "success" => status'[r] \in {"success", "gone"}
<1>1. TypeOK /\ Exclusive /\ RestedIsIdle /\ [Next]_vars => Kept
  BY SuccessStep
<1>2. Kept => [Kept]_vars
  OBVIOUS
<1> QED
  BY <1>1, <1>2, TypeCorrect, OneCarrier, PTL DEF Spec, SuccessIsFinal

-----------------------------------------------------------------------------
(***************************************************************************)
(* The retry budget.  It is inductive once the three places an attempt is  *)
(* counted in agree: a carried run's stored attempts and its carrier's     *)
(* copy both are the number of executions so far.                          *)
(***************************************************************************)
RunBudget(r) ==
  /\ \A w \in Workers : Active(w) /\ job[w] = r => held[w] = tries[r]
  /\ Driven(r) /\ Present(r) => attempts[r] = tries[r]
  /\ status[r] = "new" => attempts[r] = 0 /\ tries[r] = 0
  /\ tries[r] <= MaxAttempts
  /\ pool = "up" /\ status[r] = "error" /\ ~Driven(r) => tries[r] = MaxAttempts

Budget == \A r \in Runs : RunBudget(r)

\* A run a step is not about keeps its budget.
LEMMA BudgetAside ==
  ASSUME NEW r \in Runs, RunBudget(r),
         status'[r] = status[r], attempts'[r] = attempts[r], tries'[r] = tries[r],
         pool' = "up" => pool = "up",
         Queued(r)' <=> Queued(r),
         \A v \in Workers : Active(v)' /\ job'[v] = r => Active(v) /\ job[v] = r /\ held'[v] = held[v],
         pool' = "up" => \A v \in Workers : Active(v) /\ job[v] = r => Active(v)' /\ job'[v] = r
  PROVE  RunBudget(r)'
<1>1. Driven(r)' => Driven(r)
  BY DEF Driven
<1>2. pool' = "up" /\ Driven(r) => Driven(r)'
  BY DEF Driven
<1> QED
  BY <1>1, <1>2 DEF RunBudget, Present

\* A worker that carries a run is its only carrier.
LEMMA OnlyCarrier ==
  ASSUME Carried, NEW w \in Workers, Active(w), NEW x, x = job[w]
  PROVE  ~Queued(x) /\ \A v \in Workers : Active(v) /\ job[v] = x => v = w
BY DEF Carried, Exclusive, NotBoth, OneWorker

\* A worker's copy of the attempts changes in its own steps only.
LEMMA HeldStays ==
  ASSUME TypeOK, NEW w \in Workers, Worker(w)
  PROVE  \A v \in Workers : v # w => held'[v] = held[v]
<1>1. CASE Pick(w)
  BY <1>1 DEF Pick, PickDeleted, PickHooked, PickAndRun, PickAndGiveUp, Die, workerVars, TypeOK
<1>2. CASE Agent(w)
  BY <1>2 DEF Agent, Finish, Fail, EndDeleted, Die, TypeOK
<1>3. CASE Hook(w)
  BY <1>3 DEF Hook, Start, GiveUp, HookEndAnswers, HookErrorAnswers, HookGiveUpAnswers, HookRejects, Fail,
              Die, Release, TypeOK
<1>4. CASE Close(w) \/ Requeue(w)
  BY <1>4 DEF Close, Requeue, Release, TypeOK
<1> QED
  BY <1>1, <1>2, <1>3, <1>4 DEF Worker

\* A worker that picks a run up counts from the executions so far.
LEMMA BudgetPick ==
  ASSUME TypeOK, Carried, Budget, [Next]_vars, NEW w \in Workers, NEW x \in Runs,
         PickDeleted(w, x) \/ PickHooked(w, x) \/ PickAndRun(w, x) \/ PickAndGiveUp(w, x)
  PROVE  Budget'
<1> USE BoundsAssumption
<1>1. /\ queue \in Seq(Runs) /\ queue # << >> /\ queue' = Tail(queue) /\ x = Head(queue) /\ ~Active(w)
      /\ Worker(w)
  BY DEF PickDeleted, PickHooked, PickAndRun, PickAndGiveUp, Take, TypeOK, Active, Worker, Pick
<1>2. /\ Queued(x) /\ ~Queued(x)'
      /\ \A r : r # x => (Queued(r)' <=> Queued(r))
  BY <1>1, DequeueQueued, DequeueOnce DEF Carried, Exclusive
<1>3. Others(w) /\ \A v \in Workers : v # w => held'[v] = held[v]
  BY <1>1, OthersStay, HeldStays
<1>4. pool' = "up" => pool = "up"
  BY PoolNeverReturns
<1>5. ASSUME NEW v \in Workers, v # w, Active(v)' PROVE job'[v] # x
  BY <1>2, <1>3, <1>5 DEF Others, Active, Carried, Exclusive, NotBoth
<1>6. RunBudget(x) /\ Driven(x) /\ status[x] # "new"
  BY <1>2 DEF Budget, Driven, Carried, RestedIsIdle, AtRest
<1>7. RunBudget(x)'
  <2>1. CASE PickDeleted(w, x)
    <3>1. pool' # "up" /\ ~Active(w)' /\ UNCHANGED <<status, attempts, tries>>
      BY <2>1 DEF PickDeleted, Die, Goto, dbVars, Active, TypeOK
    <3> QED
      BY <1>2, <1>5, <1>6, <3>1 DEF RunBudget, Driven
  <2>2. CASE PickHooked(w, x)
    <3>1. /\ Active(w)' /\ job'[w] = x /\ held'[w] = attempts[x] /\ UNCHANGED <<attempts, tries>>
          /\ status'[x] = "pending" /\ Present(x)
      BY <2>2 DEF PickHooked, SetStatus, Goto, Active, TypeOK
    <3> QED
      BY <1>5, <1>6, <3>1 DEF RunBudget
  <2>3. CASE PickAndRun(w, x)
    <3>1. /\ Active(w)' /\ job'[w] = x /\ held'[w] = attempts[x] + 1
          /\ attempts'[x] = attempts[x] + 1 /\ tries'[x] = tries[x] + 1
          /\ status'[x] = "pending" /\ Present(x) /\ attempts[x] + 1 <= MaxAttempts
      BY <2>3 DEF PickAndRun, SetStatus, CountAttempt, Goto, Active, TypeOK
    <3> QED
      BY <1>5, <1>6, <3>1 DEF RunBudget
  <2>4. CASE PickAndGiveUp(w, x)
    <3>1. /\ ~Active(w)' /\ UNCHANGED tries /\ status'[x] = "error"
          /\ Present(x) /\ attempts[x] + 1 > MaxAttempts
      BY <1>1, <2>4 DEF PickAndGiveUp, SetStatus, workerVars, Active, TypeOK
    <3>2. ~Driven(x)'
      BY <1>2, <1>5, <3>1 DEF Driven
    <3>3. tries[x] = MaxAttempts
      BY <1>6, <3>1 DEF RunBudget, TypeOK
    <3> QED
      BY <1>5, <1>6, <3>1, <3>2, <3>3 DEF RunBudget
  <2> QED
    BY <2>1, <2>2, <2>3, <2>4
<1>8. ASSUME NEW r \in Runs, r # x PROVE RunBudget(r)'
  <2>1. status'[r] = status[r] /\ attempts'[r] = attempts[r] /\ tries'[r] = tries[r]
    BY <1>8 DEF PickDeleted, PickHooked, PickAndRun, PickAndGiveUp, SetStatus, CountAttempt, dbVars, TypeOK
  <2>2. Active(w)' => job'[w] = x
    BY <1>1 DEF PickDeleted, PickHooked, PickAndRun, PickAndGiveUp, Die, Goto, Active, workerVars, TypeOK
  <2>3. \A v \in Workers : Active(v)' /\ job'[v] = r => Active(v) /\ job[v] = r /\ held'[v] = held[v]
    BY <1>3, <1>8, <2>2 DEF Others, Active
  <2>4. \A v \in Workers : Active(v) /\ job[v] = r => Active(v)' /\ job'[v] = r
    BY <1>1, <1>3 DEF Others, Active
  <2> QED
    BY <1>2, <1>4, <1>8, <2>1, <2>3, <2>4, BudgetAside DEF Budget
<1> QED
  BY <1>7, <1>8 DEF Budget

\* A worker that holds a run counts what it executes and gives up when the
\* budget is spent.
LEMMA BudgetHolder ==
  ASSUME TypeOK, Carried, Budget, Flaky = {}, [Next]_vars, NEW w \in Workers, Worker(w), ~Pick(w)
  PROVE  Budget'
<1> USE BoundsAssumption
<1>1. PICK x : x = job[w]
  OBVIOUS
<1>2. Others(w) /\ \A v \in Workers : v # w => held'[v] = held[v]
  BY OthersStay, HeldStays
<1>3. pool' = "up" => pool = "up"
  BY PoolNeverReturns
<1>4. Active(w)' => Active(w) /\ job'[w] = x
  BY <1>1 DEF Worker, Agent, Finish, Fail, EndDeleted, Hook, Start, GiveUp, HookEndAnswers, HookErrorAnswers,
              HookGiveUpAnswers, HookRejects, Close, Requeue, Die, Release, Goto, Active, TypeOK
<1>5. \A r \in Runs : r # x => (Queued(r)' <=> Queued(r))
  <2>1. ASSUME Requeue(w) PROVE \A r \in Runs : r # x => (Queued(r)' <=> Queued(r))
    <3>1. x \in Runs /\ queue \in Seq(Runs) /\ queue' = Append(queue, x)
      BY <1>1, <2>1, PlaceType DEF Requeue, TypeOK
    <3> QED
      BY <3>1, EnqueueQueued
  <2>2. ASSUME ~Requeue(w) PROVE UNCHANGED queue
    BY <2>2 DEF Worker, Agent, Finish, Fail, EndDeleted, Hook, Start, GiveUp, HookEndAnswers, HookErrorAnswers,
                HookGiveUpAnswers, HookRejects, Close
  <2> QED
    BY <2>1, <2>2 DEF Queued
<1>6. \A r \in Runs : r # x => status'[r] = status[r] /\ attempts'[r] = attempts[r] /\ tries'[r] = tries[r]
  BY <1>1 DEF Worker, Agent, Finish, Fail, EndDeleted, Hook, Start, GiveUp, HookEndAnswers, HookErrorAnswers,
              HookGiveUpAnswers, HookRejects, Close, Requeue, SetStatus, CountAttempt, dbVars, TypeOK
<1>7. ASSUME NEW r \in Runs, r # x PROVE RunBudget(r)'
  <2>1. \A v \in Workers : Active(v)' /\ job'[v] = r => Active(v) /\ job[v] = r /\ held'[v] = held[v]
    BY <1>2, <1>4, <1>7 DEF Others, Active
  <2>2. \A v \in Workers : Active(v) /\ job[v] = r => Active(v)' /\ job'[v] = r
    BY <1>1, <1>2, <1>7 DEF Others, Active
  <2> QED
    BY <1>3, <1>5, <1>6, <1>7, <2>1, <2>2, BudgetAside DEF Budget
<1>8. ASSUME x \in Runs PROVE RunBudget(x)'
  <2>1. RunBudget(x)
    BY <1>8 DEF Budget
  <2>2. CASE Active(w)
    <3>1. Driven(x) /\ ~Queued(x) /\ held[w] = tries[x] /\ \A v \in Workers : Active(v)' /\ job'[v] = x => v = w
      BY <1>1, <1>2, <2>1, <2>2, OnlyCarrier DEF Driven, RunBudget, Others, Active
    <3>2. status[x] # "new"
      BY <1>8, <3>1 DEF Carried, RestedIsIdle, AtRest
    <3>3. CASE Start(w)
      <4>1. /\ held'[w] = held[w] + 1 /\ tries'[x] = tries[x] + 1 /\ held[w] + 1 <= MaxAttempts /\ UNCHANGED status
            /\ Present(x) => attempts'[x] = held[w] + 1
            /\ Active(w)' /\ job'[w] = x
        BY <1>1, <1>8, <3>3 DEF Start, CountAttempt, Goto, Active, TypeOK
      <4>2. Driven(x)'
        BY <4>1 DEF Driven
      <4> QED
        BY <3>1, <3>2, <4>1, <4>2 DEF RunBudget, Present
    <3>4. CASE GiveUp(w)
      <4>1. UNCHANGED <<tries, queue>> /\ held[w] + 1 > MaxAttempts /\ ~Active(w)' /\ status'[x] # "new"
        BY <1>1, <3>2, <3>4 DEF GiveUp, SetStatus, Die, Goto, Active, TypeOK
      <4>2. ~Driven(x)'
        BY <3>1, <4>1 DEF Driven, Queued
      <4>3. tries[x] = MaxAttempts
        BY <1>8, <2>1, <3>1, <4>1 DEF RunBudget, TypeOK
      <4> QED
        BY <2>1, <3>1, <4>1, <4>2, <4>3 DEF RunBudget
    <3>5. CASE Finish(w, "success") \/ Finish(w, "interrupted")
      <4>1. UNCHANGED <<tries, queue>> /\ ~Active(w)' /\ status'[x] \in {"success", "interrupted"}
        BY <1>1, <1>8, <3>5 DEF Finish, SetStatus, Goto, Active, TypeOK
      <4>2. ~Driven(x)'
        BY <3>1, <4>1 DEF Driven, Queued
      <4> QED
        BY <2>1, <3>1, <4>1, <4>2 DEF RunBudget
    <3>6. CASE Fail(w, "running")
      <4>1. /\ UNCHANGED <<tries, held, job>> /\ Active(w)' /\ status'[x] = "error"
            /\ attempts'[x] = held[w]
        BY <1>1, <1>8, <3>6 DEF Fail, SetStatus, CountAttempt, Goto, Active, TypeOK
      <4>2. Driven(x)'
        BY <1>1, <4>1 DEF Driven
      <4> QED
        BY <2>1, <3>1, <4>1, <4>2 DEF RunBudget
    <3>7. CASE EndDeleted(w)
      <4>1. UNCHANGED <<tries, queue, status>> /\ ~Active(w)'
        BY <1>1, <3>7 DEF EndDeleted, Die, Goto, Active, TypeOK
      <4>2. ~Driven(x)' /\ ~Present(x)
        BY <1>1, <3>1, <3>7, <4>1 DEF Driven, Queued, EndDeleted
      <4> QED
        BY <2>1, <3>1, <3>2, <4>1, <4>2 DEF RunBudget, Present, Statuses
    <3>8. CASE HookErrorAnswers(w)
      <4>1. /\ UNCHANGED <<tries, held, job, status, attempts>> /\ Active(w)'
        BY <3>8 DEF HookErrorAnswers, Goto, Active, TypeOK
      <4>2. Driven(x)'
        BY <1>1, <4>1 DEF Driven
      <4> QED
        BY <2>1, <3>1, <4>1, <4>2 DEF RunBudget, Present
    <3>9. CASE Requeue(w)
      <4>1. queue \in Seq(Runs) /\ queue' = Append(queue, x) /\ ~Active(w)' /\ UNCHANGED <<status, attempts, tries>>
        BY <1>1, <3>9 DEF Requeue, Release, Goto, Active, dbVars, TypeOK
      <4>2. Driven(x)'
        BY <1>8, <4>1, EnqueueQueued DEF Driven
      <4> QED
        BY <2>1, <3>1, <4>1, <4>2 DEF RunBudget, Present
    <3>10. ~HookRejects(w) /\ ~HookEndAnswers(w) /\ ~HookGiveUpAnswers(w) /\ ~Close(w)
      BY <2>2 DEF HookRejects, HookEndAnswers, HookGiveUpAnswers, Close, Active
    <3> QED
      BY <3>3, <3>4, <3>5, <3>6, <3>7, <3>8, <3>9, <3>10 DEF Worker, Agent, Hook
  <2>3. CASE ~Active(w)
    <3>1. UNCHANGED <<status, attempts, tries, queue>>
      BY <2>3 DEF Worker, Agent, Finish, Fail, EndDeleted, Hook, Start, GiveUp, HookEndAnswers, HookErrorAnswers,
                  HookGiveUpAnswers, HookRejects, Close, Requeue, Active, dbVars
    <3>2. \A v \in Workers : Active(v)' /\ job'[v] = x => Active(v) /\ job[v] = x /\ held'[v] = held[v]
      BY <1>2, <1>4, <2>3 DEF Others, Active
    <3>3. \A v \in Workers : Active(v) /\ job[v] = x => Active(v)' /\ job'[v] = x
      BY <1>2, <2>3 DEF Others, Active
    <3> QED
      BY <1>3, <1>8, <2>1, <3>1, <3>2, <3>3, BudgetAside DEF Queued
  <2> QED
    BY <2>2, <2>3
<1> QED
  BY <1>7, <1>8 DEF Budget

\* Without webhooks that reject, the three counts of a run's attempts agree.
LEMMA BudgetKept == ASSUME Flaky = {} PROVE Spec => [](Carried /\ Budget)
<1> USE BoundsAssumption
<1>1. Init => Budget
  <2> SUFFICES ASSUME Init, NEW r \in Runs PROVE RunBudget(r)
    BY DEF Budget
  <2>1. status[r] = "new" /\ attempts[r] = 0 /\ tries[r] = 0 /\ \A w \in Workers : ~Active(w)
    BY DEF Init, Active
  <2> QED
    BY <2>1 DEF RunBudget
<1>2. TypeOK /\ Carried /\ Budget /\ [Next]_vars => Budget'
  <2> SUFFICES ASSUME TypeOK, Carried, Budget, [Next]_vars PROVE Budget'
    OBVIOUS
  <2>1. pool' = "up" => pool = "up"
    BY PoolNeverReturns
  <2>2. ASSUME NEW w \in Workers, Worker(w) PROVE Budget'
    BY <2>2, BudgetPick, BudgetHolder DEF Pick
  <2>3. ASSUME NEW x \in Runs, Put(x) \/ Resume(x) PROVE Budget'
    <3>1. /\ queue \in Seq(Runs) /\ queue' = Append(queue, x) /\ UNCHANGED <<pc, job, held, pool>>
          /\ status'[x] = "pending" /\ AtRest(x)
          /\ \A r \in Runs : r # x => status'[r] = status[r] /\ attempts'[r] = attempts[r] /\ tries'[r] = tries[r]
      BY <2>3 DEF Put, Resume, AtRest, TypeOK, workerVars
    <3>2. attempts'[x] = 0 /\ tries'[x] = 0
      BY <2>3 DEF Put, Resume, Budget, RunBudget, workerVars, TypeOK
    <3>3. ~Driven(x) /\ \A r : Queued(r)' <=> Queued(r) \/ r = x
      BY <3>1, EnqueueQueued DEF Carried, RestedIsIdle
    <3>4. RunBudget(x)'
      BY <3>1, <3>2, <3>3 DEF RunBudget, Driven, Active
    <3>5. ASSUME NEW r \in Runs, r # x PROVE RunBudget(r)'
      BY <3>1, <3>3, <3>5, BudgetAside DEF Budget, Active
    <3> QED
      BY <3>4, <3>5 DEF Budget
  <2>4. ASSUME NEW x \in Runs, Delete(x) PROVE Budget'
    <3>1. UNCHANGED <<queue, pc, job, held, pool, attempts, tries>> /\ status' = [status EXCEPT ![x] = "gone"]
      BY <2>4 DEF Delete, workerVars
    <3>2. \A r : Queued(r)' <=> Queued(r)
      BY <3>1 DEF Queued
    <3>3. RunBudget(x)'
      BY <3>1, <3>2 DEF Budget, RunBudget, Present, Statuses, Active, TypeOK
    <3>4. ASSUME NEW r \in Runs, r # x PROVE RunBudget(r)'
      BY <3>1, <3>2, <3>4, BudgetAside DEF Budget, Active, TypeOK
    <3> QED
      BY <3>3, <3>4 DEF Budget
  <2>5. ASSUME CancelWorkers PROVE Budget'
    <3>1. UNCHANGED <<queue, status, attempts, tries>> /\ pool' # "up" /\ \A v \in Workers : ~Active(v)'
      BY <2>5 DEF CancelWorkers, dbVars, Active
    <3> QED
      BY <3>1, BudgetAside DEF Budget, Queued
  <2>6. ASSUME UNCHANGED <<status, attempts, tries, queue, pc, job, held, pool>> PROVE Budget'
    BY <2>6 DEF Budget, RunBudget, Driven, Queued, Active, Present
  <2>7. ASSUME NEW c \in Clients, Client(c) PROVE UNCHANGED <<status, attempts, tries, queue, pc, job, held, pool>>
    BY <2>7 DEF Client, Wait, Wake, dbVars, workerVars
  <2> QED
    BY <2>2, <2>3, <2>4, <2>5, <2>6, <2>7 DEF Next, Request, vars
<1>3. Carried <=> Exclusive /\ RestedIsIdle
  BY DEF Carried
<1> QED
  BY <1>1, <1>2, <1>3, TypeCorrect, OneCarrier, PTL DEF Spec

\* Without webhooks that reject, an agent is never run more than MaxAttempts
\* times for a run since it was put or resumed, and a run is in error for good
\* only after exactly that many.
THEOREM RetriesBounded == ASSUME Flaky = {} PROVE Spec => []RetryBudget
<1>1. Budget => RetryBudget
  BY DEF Budget, RunBudget, RetryBudget
<1> QED
  BY <1>1, BudgetKept, PTL

-----------------------------------------------------------------------------
(***************************************************************************)
(* What waiters are told.  A run without a webhook changes its status and  *)
(* its output in one step, except when it gives up: then the output is     *)
(* that of the last failed attempt, which whoever requeued it has stored.  *)
(***************************************************************************)
RunFits(r) ==
  /\ status[r] = "success" => output[r] = "value"
  /\ status[r] = "interrupted" => output[r] = "interrupt"
  /\ status[r] = "error" => output[r] = "error"
  /\ Present(r) /\ Queued(r) /\ attempts[r] # 0 => output[r] = "error"
  /\ \A w \in Workers : pc[w] = "retrying" /\ job[w] = r /\ Present(r) => output[r] = "error"

HooksAreCalled ==
  \A w \in Workers : pc[w] \in {"hookStart", "hookEnd", "hookError", "hookGiveUp"} => job[w] \in Hooked

OutputsFit == HooksAreCalled /\ \A r \in Runs \ Hooked : RunFits(r)

\* A run a step is not about keeps its output.
LEMMA FitsAside ==
  ASSUME NEW r \in Runs, RunFits(r),
         status'[r] = status[r] \/ status'[r] = "gone", output'[r] = output[r] \/ status'[r] = "gone",
         attempts'[r] = attempts[r], Queued(r)' => Queued(r),
         \A v \in Workers : pc'[v] = "retrying" /\ job'[v] = r => pc[v] = "retrying" /\ job[v] = r
  PROVE  RunFits(r)'
<1>1. Present(r)' => Present(r) /\ output'[r] = output[r]
  BY DEF Present, Statuses
<1> QED
  BY <1>1 DEF RunFits

\* Only a run with a webhook suspends its worker in one.
LEMMA HooksStep ==
  ASSUME TypeOK, HooksAreCalled, [Next]_vars
  PROVE  HooksAreCalled'
<1>1. ASSUME NEW w \in Workers, Worker(w) PROVE HooksAreCalled'
  <2>1. Others(w)
    BY <1>1, OthersStay
  <2>2. pc'[w] \in {"hookStart", "hookEnd", "hookError", "hookGiveUp"} => job'[w] \in Hooked
    <3>1. CASE Pick(w)
      BY <3>1 DEF Pick, PickDeleted, PickHooked, PickAndRun, PickAndGiveUp, Take, Die, Goto, workerVars, TypeOK
    <3>2. CASE Agent(w)
      BY <3>2 DEF Agent, Finish, Fail, EndDeleted, Die, Goto, TypeOK
    <3>3. CASE Hook(w)
      BY <3>3 DEF Hook, Start, GiveUp, HookEndAnswers, HookErrorAnswers, HookGiveUpAnswers, HookRejects, Fail,
                  Die, Release, Goto, HooksAreCalled, TypeOK
    <3>4. CASE Close(w) \/ Requeue(w)
      BY <3>4 DEF Close, Requeue, Release, Goto, TypeOK
    <3> QED
      BY <1>1, <3>1, <3>2, <3>3, <3>4 DEF Worker
  <2> QED
    BY <2>1, <2>2 DEF Others, HooksAreCalled
<1>2. ASSUME CancelWorkers PROVE HooksAreCalled'
  BY <1>2 DEF CancelWorkers, HooksAreCalled, TypeOK
<1>3. ASSUME UNCHANGED <<pc, job>> PROVE HooksAreCalled'
  BY <1>3 DEF HooksAreCalled
<1> QED
  BY <1>1, <1>2, <1>3 DEF Next, Request, Put, Resume, Delete, Client, Wait, Wake, workerVars, vars

\* A worker that picks a run up gives it up only with the output of its last failure.
LEMMA FitsByPick ==
  ASSUME TypeOK, Carried, OutputsFit, NEW w \in Workers, NEW x \in Runs,
         PickDeleted(w, x) \/ PickHooked(w, x) \/ PickAndRun(w, x) \/ PickAndGiveUp(w, x),
         NEW r \in Runs \ Hooked
  PROVE  RunFits(r)'
<1> USE BoundsAssumption
<1>1. /\ queue \in Seq(Runs) /\ queue # << >> /\ queue' = Tail(queue) /\ x = Head(queue)
      /\ Worker(w)
  BY DEF PickDeleted, PickHooked, PickAndRun, PickAndGiveUp, Take, TypeOK, Worker, Pick
<1>2. /\ Queued(x) /\ ~Queued(x)'
      /\ \A y : y # x => (Queued(y)' <=> Queued(y))
  BY <1>1, DequeueQueued, DequeueOnce DEF Carried, Exclusive
<1>3. Others(w) /\ pc'[w] # "retrying"
  BY <1>1, OthersStay DEF PickDeleted, PickHooked, PickAndRun, PickAndGiveUp, Take, Die, Goto, workerVars, TypeOK
<1>4. \A v \in Workers : pc'[v] = "retrying" => v # w /\ pc[v] = "retrying" /\ job'[v] = job[v] /\ job[v] # x
  BY <1>2, <1>3 DEF Others, Active, Carried, Exclusive, NotBoth
<1>5. RunFits(r) /\ UNCHANGED output
  BY DEF OutputsFit, PickDeleted, PickHooked, PickAndRun, PickAndGiveUp, dbVars
<1>6. CASE r # x \/ PickDeleted(w, x)
  <2>1. status'[r] = status[r] /\ attempts'[r] = attempts[r]
    BY <1>6 DEF PickDeleted, PickHooked, PickAndRun, PickAndGiveUp, SetStatus, CountAttempt, dbVars, TypeOK
  <2> QED
    BY <1>2, <1>4, <1>5, <2>1, FitsAside
<1>7. CASE r = x /\ PickAndRun(w, x)
  <2>1. status'[r] = "pending"
    BY <1>7 DEF PickAndRun, SetStatus, TypeOK
  <2> QED
    BY <1>2, <1>4, <1>7, <2>1 DEF RunFits
<1>8. CASE r = x /\ PickAndGiveUp(w, x)
  <2>1. status'[r] = "error" /\ Present(r) /\ attempts[r] # 0
    BY <1>8 DEF PickAndGiveUp, SetStatus, TypeOK
  <2> QED
    BY <1>2, <1>4, <1>5, <1>8, <2>1 DEF RunFits
<1>9. ~PickHooked(w, r)
  BY DEF PickHooked
<1> QED
  BY <1>6, <1>7, <1>8, <1>9

\* A worker that ends an attempt stores what it ended with.
LEMMA FitsByHolder ==
  ASSUME TypeOK, Carried, OutputsFit, Flaky = {}, NEW w \in Workers, Worker(w), ~Pick(w),
         NEW r \in Runs \ Hooked
  PROVE  RunFits(r)'
<1>1. Others(w) /\ RunFits(r)
  BY OthersStay DEF OutputsFit
<1>2. CASE Finish(w, "success") \/ Finish(w, "interrupted") \/ Fail(w, "running")
  <2>1. job[w] \in Runs /\ Active(w) /\ job'[w] = job[w] /\ UNCHANGED queue /\ (pc'[w] = "retrying" => Fail(w, "running"))
    BY <1>2, PlaceType DEF Finish, Fail, Active, Goto, TypeOK
  <2>2. CASE job[w] = r
    <3>1. ~Queued(r)' /\ \A v \in Workers : Active(v) /\ job[v] = r => v = w
      BY <2>1, <2>2, OnlyCarrier DEF Queued
    <3>2. \/ status'[r] = "success" /\ output'[r] = "value" /\ pc'[w] # "retrying"
          \/ status'[r] = "interrupted" /\ output'[r] = "interrupt" /\ pc'[w] # "retrying"
          \/ status'[r] = "error" /\ output'[r] = "error"
      BY <1>2, <2>2 DEF Finish, Fail, SetStatus, Goto, TypeOK
    <3>3. \A v \in Workers : pc'[v] = "retrying" /\ job'[v] = r => v = w
      BY <1>1, <3>1 DEF Others, Active
    <3> QED
      BY <3>1, <3>2, <3>3 DEF RunFits
  <2>3. CASE job[w] # r
    <3>1. status'[r] = status[r] /\ output'[r] = output[r] /\ attempts'[r] = attempts[r]
      BY <1>2, <2>3 DEF Finish, Fail, SetStatus, CountAttempt, TypeOK
    <3> QED
      BY <1>1, <2>1, <2>3, <3>1, FitsAside DEF Others, Queued
  <2> QED
    BY <2>2, <2>3
<1>3. CASE EndDeleted(w)
  <2>1. /\ pc'[w] # "retrying" /\ UNCHANGED <<status, attempts, queue>>
        /\ job[w] # r => output'[r] = output[r]
        /\ job[w] = r => ~Present(r)
    BY <1>3 DEF EndDeleted, Die, Goto, TypeOK
  <2>2. \A v \in Workers : pc'[v] = "retrying" /\ job'[v] = r => pc[v] = "retrying" /\ job[v] = r
    BY <1>1, <2>1 DEF Others
  <2>3. CASE job[w] = r
    BY <2>1, <2>3 DEF RunFits, Present, Statuses
  <2>4. CASE job[w] # r
    BY <1>1, <2>1, <2>2, <2>4, FitsAside DEF Queued
  <2> QED
    BY <2>3, <2>4
<1>4. CASE Hook(w)
  <2>1. job[w] \in Hooked /\ job[w] # r
    BY <1>4 DEF Hook, Start, GiveUp, HookEndAnswers, HookErrorAnswers, HookGiveUpAnswers, HookRejects,
                OutputsFit, HooksAreCalled
  <2>2. /\ UNCHANGED queue /\ status'[r] = status[r] /\ output'[r] = output[r] /\ attempts'[r] = attempts[r]
        /\ job'[w] # r
    BY <1>4, <2>1, RunsAssumption DEF Hook, Start, GiveUp, HookEndAnswers, HookErrorAnswers, HookGiveUpAnswers, HookRejects,
       Die, Release, SetStatus, CountAttempt, dbVars, TypeOK
  <2> QED
    BY <1>1, <2>2, FitsAside DEF Others, Queued
<1>5. CASE Close(w)
  <2>1. UNCHANGED <<status, output, attempts, queue>> /\ pc'[w] # "retrying"
    BY <1>5 DEF Close, Release, Goto, dbVars, TypeOK
  <2> QED
    BY <1>1, <2>1, FitsAside DEF Others, Queued
<1>6. CASE Requeue(w)
  <2>1. /\ UNCHANGED <<status, output, attempts>> /\ pc'[w] # "retrying" /\ pc[w] = "retrying"
        /\ job[w] \in Runs /\ queue \in Seq(Runs) /\ queue' = Append(queue, job[w])
    BY <1>6, PlaceType DEF Requeue, Release, Goto, dbVars, TypeOK
  <2>2. \A y : Queued(y)' <=> Queued(y) \/ y = job[w]
    BY <2>1, EnqueueQueued
  <2>3. \A v \in Workers : pc'[v] = "retrying" /\ job'[v] = r => pc[v] = "retrying" /\ job[v] = r
    BY <1>1, <2>1 DEF Others
  <2>4. CASE job[w] = r
    BY <1>1, <2>1, <2>3, <2>4 DEF RunFits, Present
  <2>5. CASE job[w] # r
    BY <1>1, <2>1, <2>2, <2>3, <2>5, FitsAside
  <2> QED
    BY <2>4, <2>5
<1> QED
  BY <1>2, <1>3, <1>4, <1>5, <1>6 DEF Worker, Agent

\* Without webhooks that reject, every step keeps statuses and outputs together.
LEMMA FitsStep ==
  ASSUME TypeOK, Carried, Budget, OutputsFit, Flaky = {}, [Next]_vars
  PROVE  OutputsFit'
<1> SUFFICES ASSUME NEW r \in Runs \ Hooked PROVE RunFits(r)'
  BY HooksStep DEF OutputsFit
<1>1. ASSUME NEW w \in Workers, Worker(w) PROVE RunFits(r)'
  BY <1>1, FitsByPick, FitsByHolder DEF Pick
<1>2. ASSUME NEW x \in Runs, Put(x) \/ Resume(x) PROVE RunFits(r)'
  <2>1. /\ queue \in Seq(Runs) /\ queue' = Append(queue, x) /\ UNCHANGED <<pc, job, output>>
        /\ status'[x] = "pending" /\ AtRest(x)
        /\ x # r => status'[r] = status[r] /\ attempts'[r] = attempts[r]
    BY <1>2 DEF Put, Resume, AtRest, TypeOK, workerVars
  <2>2. attempts'[x] = 0
    BY <1>2 DEF Put, Resume, Budget, RunBudget, workerVars, TypeOK
  <2>3. ~Driven(x) /\ \A y : Queued(y)' <=> Queued(y) \/ y = x
    BY <2>1, EnqueueQueued DEF Carried, RestedIsIdle
  <2>4. CASE r = x
    BY <2>1, <2>2, <2>3, <2>4 DEF RunFits, Driven, Active
  <2>5. CASE r # x
    BY <2>1, <2>3, <2>5, FitsAside DEF OutputsFit
  <2> QED
    BY <2>4, <2>5
<1>3. ASSUME NEW x \in Runs, Delete(x) PROVE RunFits(r)'
  <2>1. /\ UNCHANGED <<attempts, queue, pc, job>>
        /\ (status'[r] = status[r] /\ output'[r] = output[r]) \/ status'[r] = "gone"
    BY <1>3 DEF Delete, workerVars, TypeOK
  <2> QED
    BY <2>1, FitsAside DEF OutputsFit, Queued
<1>4. ASSUME UNCHANGED <<status, output, attempts, queue>>,
             \A w \in Workers : pc'[w] = "retrying" => pc[w] = "retrying" /\ job'[w] = job[w]
      PROVE  RunFits(r)'
  BY <1>4, FitsAside DEF OutputsFit, Queued
<1>5. ASSUME CancelWorkers
      PROVE  /\ UNCHANGED <<status, output, attempts, queue>>
             /\ \A w \in Workers : pc'[w] # "retrying"
  BY <1>5 DEF CancelWorkers, dbVars
<1>6. ASSUME NEW c \in Clients, Client(c) PROVE UNCHANGED <<status, output, attempts, queue, pc, job>>
  BY <1>6 DEF Client, Wait, Wake, dbVars, workerVars
<1> QED
  BY <1>1, <1>2, <1>3, <1>4, <1>5, <1>6 DEF Next, Request, vars

\* Waiters are told what fits, and what they were told stays.
LEMMA AnswersStep ==
  ASSUME TypeOK, WaitsForRun, OutputsFit, PlainAnswersFit, [Next]_vars
  PROVE  PlainAnswersFit'
<1> SUFFICES ASSUME NEW c \in Clients, waiter'[c].run \notin Hooked PROVE AnswerFits(c)'
  BY DEF PlainAnswersFit
<1>1. ASSUME /\ waiter'[c].run = waiter[c].run
             /\ waiter'[c].status = waiter[c].status
             /\ waiter'[c].output = waiter[c].output
      PROVE  AnswerFits(c)'
  BY <1>1 DEF PlainAnswersFit, AnswerFits
<1>2. ASSUME NEW r \in Runs, waiter'[c] = Answer(r) PROVE AnswerFits(c)'
  BY <1>2 DEF Answer, AnswerFits, OutputsFit, RunFits
<1>3. ASSUME waiter'[c].status \in {"none", "missing"} PROVE AnswerFits(c)'
  BY <1>3 DEF AnswerFits
<1>4. ASSUME NEW d \in Clients, NEW r \in Runs, Wait(d, r) PROVE AnswerFits(c)'
  BY <1>1, <1>2, <1>3, <1>4 DEF Wait, Idle, TypeOK, WaiterStates
<1>5. ASSUME NEW d \in Clients, Wake(d) PROVE AnswerFits(c)'
  <2>1. waiter[d].run \in Runs
    BY <1>5 DEF Wake, WaitsForRun
  <2> QED
    BY <1>1, <1>2, <1>5, <2>1 DEF Wake, TypeOK, WaiterStates
<1>6. ASSUME NEW r, NotifyAll(r) PROVE AnswerFits(c)'
  BY <1>1, <1>6 DEF NotifyAll, TypeOK, WaiterStates
<1>7. ASSUME NEW w \in Workers, Worker(w) PROVE UNCHANGED waiter \/ \E r : NotifyAll(r)
  BY <1>7 DEF Worker, Pick, PickDeleted, PickHooked, PickAndRun, PickAndGiveUp, Agent, Finish, Fail, EndDeleted,
              Hook, Start, GiveUp, HookEndAnswers, HookErrorAnswers, HookGiveUpAnswers, HookRejects, Close, Requeue
<1>8. CASE UNCHANGED waiter
  BY <1>1, <1>8
<1> QED
  BY <1>4, <1>5, <1>6, <1>7, <1>8 DEF Next, Request, Put, Resume, Delete, Client, CancelWorkers, vars

\* Without webhooks that reject, whoever waits for a run that has no webhook is
\* told a status and the output that belongs to it.
THEOREM AnswersBelong == ASSUME Flaky = {} PROVE Spec => []PlainAnswersFit
<1>1. Init => OutputsFit /\ PlainAnswersFit
  BY DEF Init, OutputsFit, HooksAreCalled, RunFits, Present, Statuses, PlainAnswersFit, AnswerFits, Idle
<1>2. TypeOK /\ Carried /\ Budget /\ OutputsFit /\ [Next]_vars => OutputsFit'
  BY FitsStep
<1>3. TypeOK /\ WaitsForRun /\ OutputsFit /\ PlainAnswersFit /\ [Next]_vars => PlainAnswersFit'
  BY AnswersStep
<1> QED
  BY <1>1, <1>2, <1>3, TypeAndWaits, BudgetKept, PTL DEF Spec
=============================================================================
