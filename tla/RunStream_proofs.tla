--------------------------- MODULE RunStream_proofs ---------------------------
(***************************************************************************)
(* What holds of the live streams for every set of runs, workers and       *)
(* readers, every retry limit and every number of resumptions.             *)
(***************************************************************************)
EXTENDS RunStream, RunQueue_proofs, Tables_proofs

\* Every step with readers is a step of the queue, or leaves it alone.
LEMMA StreamStep ==
  ASSUME [StreamNext]_streamVars
  PROVE  [Next]_vars
BY DEF StreamNext, QueueStep, Emit, Reader, Read, Join, streamVars, vars

\* Readers add nothing to the queue.
LEMMA StreamsImplementQueue == StreamSpec => Spec
<1>1. StreamInit => Init
  BY DEF StreamInit
<1> QED
  BY <1>1, StreamStep, PTL DEF StreamSpec, Spec

-----------------------------------------------------------------------------
(***************************************************************************)
(* What a worker may hold: a run that was created.  A pool that is down    *)
(* has no worker that could take another step.                             *)
(***************************************************************************)
HoldsKnown ==
  /\ \A r \in Runs : Queued(r) => status[r] # "new"
  /\ \A w \in Workers : job[w] # NoRun => status[job[w]] # "new"
  /\ pool = "down" => \A w \in Workers : pc[w] \in {"dead", "cancelled"}

\* Requests that wait change nothing else.
LEMMA WaitsAside ==
  ASSUME NEW c \in Clients, Client(c)
  PROVE  UNCHANGED <<status, queue, resumes, pc, job>>
<1>1. CASE Wake(c)
  BY <1>1 DEF Wake, dbVars, workerVars
<1>2. ASSUME NEW r \in Runs, Wait(c, r) PROVE UNCHANGED <<status, queue, resumes, pc, job>>
  BY <1>2 DEF Wait, dbVars, workerVars
<1> QED
  BY <1>1, <1>2 DEF Client

\* A worker that is dead or cancelled takes no step.
LEMMA DeadStay ==
  ASSUME NEW w \in Workers, Worker(w)
  PROVE  pc[w] \notin {"dead", "cancelled"}
BY DEF Worker, Pick, PickDeleted, PickHooked, PickAndRun, PickAndGiveUp, Take, Agent, Finish, Fail, EndDeleted,
       Hook, Start, GiveUp, HookEndAnswers, HookErrorAnswers, HookGiveUpAnswers, HookRejects, Close, Requeue

\* A worker gets its run from the queue, and puts back the one it has.
LEMMA JobFromQueue ==
  ASSUME TypeOK, NEW w \in Workers, Worker(w)
  PROVE  /\ job'[w] # NoRun => job'[w] = job[w] \/ (job'[w] \in Runs /\ Queued(job'[w]))
         /\ \A r \in Runs : Queued(r)' => Queued(r) \/ r = job[w]
<1>1. ASSUME NEW x \in Runs, PickDeleted(w, x) \/ PickHooked(w, x) \/ PickAndRun(w, x) \/ PickAndGiveUp(w, x)
      PROVE  /\ job'[w] # NoRun => job'[w] = job[w] \/ (job'[w] \in Runs /\ Queued(job'[w]))
             /\ \A r \in Runs : Queued(r)' => Queued(r)
  <2>1. queue \in Seq(Runs) /\ queue # << >> /\ queue' = Tail(queue) /\ x = Head(queue)
    BY <1>1 DEF PickDeleted, PickHooked, PickAndRun, PickAndGiveUp, Take, TypeOK
  <2>2. Queued(x) /\ \A r \in Runs : Queued(r)' => Queued(r)
    BY <2>1, DequeueQueued
  <2>3. job'[w] \in {NoRun, job[w], x}
    BY <1>1 DEF PickDeleted, PickHooked, PickAndRun, PickAndGiveUp, Die, Goto, workerVars, TypeOK
  <2> QED
    BY <2>2, <2>3
<1>2. ASSUME ~Pick(w), ~Requeue(w) PROVE UNCHANGED queue /\ job'[w] \in {NoRun, job[w]}
  BY <1>2 DEF Worker, Agent, Finish, Fail, EndDeleted, Hook, Start, GiveUp, HookEndAnswers, HookErrorAnswers,
              HookGiveUpAnswers, HookRejects, Close, Die, Release, Goto, TypeOK
<1>3. ASSUME Requeue(w)
      PROVE  job'[w] \in {NoRun, job[w]} /\ \A r \in Runs : Queued(r)' => Queued(r) \/ r = job[w]
  <2>1. queue \in Seq(Runs) /\ job[w] \in Runs /\ queue' = Append(queue, job[w])
    BY <1>3, PlaceType DEF Requeue, TypeOK
  <2> QED
    BY <1>3, <2>1, EnqueueQueued DEF Requeue, Release, Goto, TypeOK
<1> QED
  BY <1>1, <1>2, <1>3 DEF Pick, Queued

\* Every step leaves the workers with runs that were created.
LEMMA HoldsKnownStep ==
  ASSUME TypeOK, HoldsKnown, [Next]_vars
  PROVE  HoldsKnown'
<1>1. \A r \in Runs : status'[r] = "new" => status[r] = "new"
  BY NeverNewAgain
<1>2. ASSUME NEW w \in Workers, Worker(w) PROVE HoldsKnown'
  <2>1. Others(w) /\ pc[w] \notin {"dead", "cancelled"} /\ pool # "down"
    BY <1>2, OthersStay, DeadStay DEF HoldsKnown
  <2>2. pool' # "down"
    BY <1>2, <2>1 DEF Worker, Pick, PickDeleted, PickHooked, PickAndRun, PickAndGiveUp, Agent, Finish, Fail,
                      EndDeleted, Hook, Start, GiveUp, HookEndAnswers, HookErrorAnswers, HookGiveUpAnswers,
                      HookRejects, Close, Requeue, Die, Release, workerVars
  <2>3. \A r \in Runs : Queued(r)' => Queued(r) \/ (r = job[w] /\ job[w] # NoRun)
    BY <1>2, JobFromQueue, RunsAssumption
  <2>4. \A v \in Workers : job[v] \in Runs \cup {NoRun} /\ job'[v] \in Runs \cup {NoRun}
    BY <1>2, JobFromQueue, <2>1 DEF TypeOK, Others
  <2>5. \A v \in Workers : job'[v] # NoRun => status'[job'[v]] # "new"
    BY <1>1, <1>2, <2>1, <2>4, JobFromQueue DEF Others, HoldsKnown
  <2> QED
    BY <1>1, <2>2, <2>3, <2>5 DEF HoldsKnown
<1>3. ASSUME NEW x \in Runs, Put(x) \/ Resume(x) PROVE HoldsKnown'
  <2>1. queue \in Seq(Runs) /\ queue' = Append(queue, x) /\ UNCHANGED <<pc, job, pool>> /\ status'[x] = "pending"
    BY <1>3 DEF Put, Resume, TypeOK, workerVars
  <2>2. \A r : Queued(r)' <=> Queued(r) \/ r = x
    BY <2>1, EnqueueQueued
  <2> QED
    BY <1>1, <2>1, <2>2 DEF HoldsKnown, TypeOK
<1>4. ASSUME UNCHANGED <<queue, pc, job, pool>> PROVE HoldsKnown'
  BY <1>1, <1>4 DEF HoldsKnown, Queued, TypeOK
<1>5. ASSUME NEW x \in Runs, Delete(x) PROVE UNCHANGED <<queue, pc, job, pool>>
  BY <1>5 DEF Delete, workerVars
<1>6. ASSUME NEW c \in Clients, Client(c) PROVE UNCHANGED <<queue, pc, job, pool>>
  BY <1>6 DEF Client, Wait, Wake, workerVars
<1>7. ASSUME CancelWorkers PROVE HoldsKnown'
  BY <1>1, <1>7 DEF CancelWorkers, HoldsKnown, Queued, TypeOK
<1> QED
  BY <1>2, <1>3, <1>4, <1>5, <1>6, <1>7 DEF Next, Request, vars

\* A status stays a status.
LEMMA StatusType ==
  ASSUME TypeOK, WaitsForRun, [Next]_vars
  PROVE  status' \in [Runs -> Statuses \cup {"new", "gone"}]
BY TypeStep DEF TypeOK

\* A worker that comes to publish the end of an attempt keeps its run, and no other
\* worker moves in that step.
LEMMA EntersWithJob ==
  ASSUME TypeOK, Next, NEW w \in Workers, NEW place \in {"closing", "retrying"}, Enters(w, place)
  PROVE  job'[w] = job[w] /\ job[w] \in Runs /\ Worker(w) /\ Others(w)
<1>1. ASSUME UNCHANGED pc PROVE FALSE
  BY <1>1 DEF Enters
<1>2. ~CancelWorkers
  BY DEF CancelWorkers, Enters, TypeOK
<1>3. PICK v \in Workers : Worker(v)
  BY <1>1, <1>2 DEF Next, Request, Put, Resume, Delete, Client, Wait, Wake, workerVars
<1>4. Others(v)
  BY <1>3, OthersStay
<1>5. v = w
  BY <1>4 DEF Others, Enters
<1>6. pc'[w] = place /\ pc[w] # place
  BY DEF Enters
<1>7. ~Pick(w) /\ ~Close(w) /\ ~Requeue(w)
  BY <1>6 DEF Pick, PickDeleted, PickHooked, PickAndRun, PickAndGiveUp, Close, Requeue, Die, Release, Goto,
              workerVars, TypeOK
<1>8. pc[w] \notin {"idle", "dead", "cancelled"} /\ job'[w] = job[w]
  <2>1. CASE Agent(w)
    BY <1>6, <2>1 DEF Agent, Finish, Fail, EndDeleted, Die, Goto, TypeOK
  <2>2. CASE Hook(w)
    BY <1>6, <2>2 DEF Hook, Start, GiveUp, HookEndAnswers, HookErrorAnswers, HookGiveUpAnswers, HookRejects,
                      Fail, Die, Release, Goto, TypeOK
  <2> QED
    BY <1>3, <1>5, <1>7, <2>1, <2>2 DEF Worker
<1> QED
  BY <1>3, <1>4, <1>5, <1>8, PlaceType

\* A pool that is down stays down.
LEMMA DownStaysDown ==
  ASSUME HoldsKnown, Next, pool = "down"
  PROVE  pool' = "down"
<1>1. \A w \in Workers : ~Worker(w)
  BY DeadStay DEF HoldsKnown
<1> QED
  BY <1>1 DEF Next, Request, Put, Resume, Delete, Client, Wait, Wake, CancelWorkers, workerVars

-----------------------------------------------------------------------------
(* Types of the streams                                                    *)

\* A stream is open on a run that was created.
OpenKnown == \A s \in Streams : Open(s) => stream[s].run \in Runs /\ status[stream[s].run] # "new"

\* What reading and publishing make of a reader is a reader.
LEMMA ReaderType ==
  ASSUME NEW x \in Readers, NEW box \in Seq(Messages), NEW ev \in Events, NEW at \in {"open", "closed", "failed"}
  PROVE  /\ [x EXCEPT !.inbox = box] \in Readers
         /\ [x EXCEPT !.inbox = box, !.event = ev] \in Readers
         /\ [x EXCEPT !.at = at, !.inbox = box, !.event = ev] \in Readers
         /\ \A r \in Runs : [at |-> at, run |-> r, inbox |-> box, event |-> ev] \in Readers
<1> HIDE DEF Events
<1> QED
  BY DEF Readers

\* A publication is put on the queue of each reader of the run, and of no other.
LEMMA PublishType ==
  ASSUME StreamTypeOK, NEW r, NEW kind \in {"value", "error", "done"}, NEW st \in Statuses \cup {"gone"},
         Publish(r, kind, st)
  PROVE  /\ StreamTypeOK'
         /\ \A s \in Streams : stream'[s].at = stream[s].at /\ stream'[s].run = stream[s].run
<1>1. [kind |-> kind, at |-> st] \in Messages
  BY DEF Messages
<1>2. ASSUME NEW s \in Streams PROVE [stream[s] EXCEPT !.inbox = Append(@, [kind |-> kind, at |-> st])] \in Readers
  <2>1. stream[s] \in Readers /\ stream[s].inbox \in Seq(Messages) /\ stream[s].event \in Events
    BY DEF StreamTypeOK, Readers
  <2>2. Append(stream[s].inbox, [kind |-> kind, at |-> st]) \in Seq(Messages)
    BY <1>1, <2>1, AppendProperties
  <2> QED
    BY <2>1, <2>2, ReaderType
<1>3. StreamTypeOK'
  BY <1>2 DEF Publish, StreamTypeOK
<1>4. \A s \in Streams : stream'[s].at = stream[s].at /\ stream'[s].run = stream[s].run
  BY DEF Publish
<1> QED
  BY <1>3, <1>4

\* Every step leaves streams what they are.
LEMMA StreamTypeStep ==
  ASSUME TypeOK, WaitsForRun, HoldsKnown, StreamTypeOK, OpenKnown, [StreamNext]_streamVars
  PROVE  StreamTypeOK' /\ OpenKnown'
<1>1. \A r \in Runs : status'[r] = "new" => status[r] = "new"
  BY StreamStep, NeverNewAgain
<1>2. CASE QueueStep
  <2>1. CASE UNCHANGED stream
    BY <1>1, <2>1 DEF StreamTypeOK, OpenKnown, Open
  <2>2. ASSUME NEW w \in Workers, NEW place \in {"closing", "retrying"},
               Enters(w, place), Publish(job[w], LastWord(place), status'[job[w]])
        PROVE  StreamTypeOK' /\ OpenKnown'
    <3>1. HoldsKnown'
      BY <1>2, HoldsKnownStep DEF QueueStep
    <3>2. job'[w] = job[w] /\ job[w] \in Runs
      BY <1>2, <2>2, EntersWithJob DEF QueueStep
    <3>3. status'[job[w]] \in Statuses \cup {"gone"}
      BY <1>2, <3>1, <3>2, StatusType, RunsAssumption DEF HoldsKnown, QueueStep
    <3>4. LastWord(place) \in {"value", "error", "done"}
      BY <2>2 DEF LastWord
    <3> QED
      BY <1>1, <2>2, <3>3, <3>4, PublishType DEF OpenKnown, Open
  <2> QED
    BY <1>2, <2>1, <2>2 DEF QueueStep
<1>3. ASSUME NEW w \in Workers, Emit(w) PROVE StreamTypeOK' /\ OpenKnown'
  <2>1. job[w] \in Runs /\ status[job[w]] \in Statuses \cup {"gone"} /\ UNCHANGED status
    BY <1>3, PlaceType, RunsAssumption DEF Emit, HoldsKnown, TypeOK, vars
  <2> QED
    BY <1>3, <2>1, PublishType DEF Emit, OpenKnown, Open
<1>4. ASSUME NEW s \in Streams, NEW r \in Runs, Join(s, r) PROVE StreamTypeOK' /\ OpenKnown'
  <2>1. << >> \in Seq(Messages)
    BY EmptySeq
  <2>2. StreamTypeOK'
    <3>1. NoEvent \in Events
      BY DEF NoEvent, Events
    <3>2. \E at \in {"open", "closed", "failed"} :
            stream' = [stream EXCEPT ![s] = [at |-> at, run |-> r, inbox |-> << >>, event |-> NoEvent]]
      BY <1>4 DEF Join
    <3>3. PICK x \in Readers : stream' = [stream EXCEPT ![s] = x]
      BY <2>1, <3>1, <3>2, ReaderType DEF StreamTypeOK
    <3> QED
      BY <3>3 DEF StreamTypeOK
  <2>3. \A t \in Streams : t # s => stream'[t] = stream[t]
    BY <1>4 DEF Join, StreamTypeOK
  <2>4. stream'[s].run = r /\ status[r] # "new" /\ UNCHANGED status
    BY <1>4 DEF Join, StreamTypeOK, vars
  <2> QED
    BY <1>4, <2>2, <2>3, <2>4 DEF OpenKnown, Open
<1>5. ASSUME NEW s \in Streams, Read(s) PROVE StreamTypeOK' /\ OpenKnown'
  <2>1. /\ stream[s].run \in Runs /\ status[stream[s].run] \in Statuses \cup {"gone"} /\ UNCHANGED status
        /\ stream[s].inbox # << >> /\ stream[s].inbox \in Seq(Messages)
    BY <1>5 DEF Read, OpenKnown, StreamTypeOK, Readers, TypeOK, vars
  <2>2. Head(stream[s].inbox) \in Messages /\ Tail(stream[s].inbox) \in Seq(Messages) /\ << >> \in Seq(Messages)
    BY <2>1, HeadTailProperties, EmptySeq
  <2>3. status[stream[s].run] # "gone" => Label(status[stream[s].run]) \in Labels
    BY <2>1 DEF Label, Labels, Statuses
  <2>4. StreamTypeOK'
    <3> DEFINE r == stream[s].run
               m == Head(stream[s].inbox)
               broken == status[r] = "gone" \/ ~MakesEvent(status[r], r, m.kind)
               event == [label |-> Label(status[r]), kind |-> m.kind, at |-> m.at, status |-> status[r]]
    <3>1. m.kind # "done" /\ status[r] # "gone" => event \in Events
      BY <2>1, <2>2, <2>3 DEF Messages, Events
    <3>2. NoEvent \in Events /\ stream[s] \in Readers
      BY DEF NoEvent, Events, StreamTypeOK
    <3>3. PICK x \in Readers : stream' = [stream EXCEPT ![s] = x]
      <4>1. CASE m.kind = "done"
        <5>1. stream' = [stream EXCEPT ![s] = [stream[s] EXCEPT !.at = "closed", !.inbox = << >>, !.event = NoEvent]]
          BY <1>5, <4>1 DEF Read
        <5> QED
          BY <2>2, <3>2, <5>1, ReaderType
      <4>2. CASE m.kind # "done" /\ broken
        <5>1. stream' = [stream EXCEPT ![s] = [stream[s] EXCEPT !.at = "failed", !.inbox = << >>, !.event = NoEvent]]
          BY <1>5, <4>2 DEF Read
        <5> QED
          BY <2>2, <3>2, <5>1, ReaderType
      <4>3. CASE m.kind # "done" /\ ~broken
        <5>1. stream' = [stream EXCEPT ![s] = [stream[s] EXCEPT !.inbox = Tail(stream[s].inbox), !.event = event]]
          BY <1>5, <4>3 DEF Read
        <5> HIDE DEF event
        <5> QED
          BY <2>2, <3>1, <3>2, <4>3, <5>1, ReaderType
      <4> QED
        BY <4>1, <4>2, <4>3
    <3> QED
      BY <3>3 DEF StreamTypeOK
  <2>5. \A t \in Streams : stream'[t].run = stream[t].run /\ (stream'[t].at = "open" => stream[t].at = "open")
    BY <1>5 DEF Read, StreamTypeOK, Readers
  <2> QED
    BY <2>1, <2>4, <2>5 DEF OpenKnown, Open
<1>6. CASE UNCHANGED streamVars
  BY <1>6 DEF streamVars, vars, StreamTypeOK, OpenKnown, Open
<1> QED
  BY <1>2, <1>3, <1>4, <1>5, <1>6 DEF StreamNext, Reader

\* The types, with what keeps them.
StreamInv == TypeOK /\ WaitsForRun /\ HoldsKnown /\ StreamTypeOK /\ OpenKnown

\* They hold of every state that is reached.
LEMMA StreamInvKept == StreamSpec => []StreamInv
<1>1. StreamInit => StreamInv
  <2> SUFFICES ASSUME StreamInit PROVE StreamInv
    OBVIOUS
  <2>1. << >> \in Seq(Messages) /\ NoEvent \in Events
    BY EmptySeq DEF NoEvent, Events
  <2>2. Closed \in Readers
    BY <2>1 DEF Closed, Readers
  <2>3. StreamTypeOK /\ OpenKnown
    BY <2>2 DEF StreamInit, StreamTypeOK, OpenKnown, Open, Closed
  <2>4. Len(queue) = 0
    BY DEF StreamInit, Init
  <2>5. HoldsKnown
    BY <2>4 DEF StreamInit, Init, HoldsKnown, Queued
  <2> QED
    BY <2>3, <2>5, InitCorrect DEF StreamInit, StreamInv
<1>2. StreamInv /\ [StreamNext]_streamVars => StreamInv'
  BY StreamStep, TypeStep, WaitsStep, HoldsKnownStep, StreamTypeStep DEF StreamInv
<1> QED
  BY <1>1, <1>2, PTL DEF StreamSpec

\* Every reader is at a place the code gives it, with messages and events that some
\* worker published, whatever the interleaving of attempts, resumptions and reads.
THEOREM StreamTypeCorrect == StreamSpec => []StreamTypeOK
<1>1. StreamInv => StreamTypeOK
  BY DEF StreamInv
<1> QED
  BY <1>1, StreamInvKept, PTL

-----------------------------------------------------------------------------
(***************************************************************************)
(* The end of a stream.  A run gets its result in the step that publishes  *)
(* "done", or in one that leaves its worker in the webhook before it; and  *)
(* nobody can open a stream on a run that has one.                         *)
(***************************************************************************)
Ended == {"success", "interrupted"}

\* What is published reaches the readers, and takes nothing from them.
LEMMA PublishReaches ==
  ASSUME StreamTypeOK, NEW r, NEW kind \in {"value", "error", "done"}, NEW st, Publish(r, kind, st),
         NEW s \in Streams, Open(s)
  PROVE  /\ Unread(s, "done") => Unread(s, "done")'
         /\ kind = "done" /\ stream[s].run = r => Unread(s, "done")'
<1> DEFINE m == [kind |-> kind, at |-> st]
           box == stream[s].inbox
<1>1. box \in Seq(Messages)
  BY DEF StreamTypeOK, Readers
<1>2. CASE stream[s].run = r
  <2>1. stream'[s].inbox = Append(box, m)
    BY <1>2 DEF Publish, StreamTypeOK, Readers
  <2>2. box \in Seq(Messages \cup {m})
    BY <1>1, SeqMonotonic
  <2>3. /\ Len(Append(box, m)) = Len(box) + 1 /\ Len(box) \in Nat
        /\ \A i \in 1..Len(box) : Append(box, m)[i] = box[i]
        /\ Append(box, m)[Len(box) + 1] = m
    BY <2>2, AppendProperties, LenProperties
  <2> QED
    BY <1>2, <2>1, <2>3 DEF Unread
<1>3. CASE stream[s].run # r
  BY <1>3 DEF Publish, Unread
<1> QED
  BY <1>2, <1>3

\* A run gets its result from the worker that executes it, which then publishes the
\* end or waits for the webhook.
LEMMA EndsByWorker ==
  ASSUME TypeOK, Next, NEW r \in Runs, status[r] \notin Ended, status'[r] \in Ended
  PROVE  \E w \in Workers :
           /\ job[w] = r /\ job'[w] = r /\ pc[w] = "running"
           /\ pc'[w] = "hookEnd" \/ Enters(w, "closing")
<1>1. ASSUME NEW x \in Runs, Request(x) PROVE FALSE
  BY <1>1 DEF Request, Put, Resume, Delete, Ended, TypeOK
<1>2. ASSUME NEW w \in Workers, Worker(w)
      PROVE  /\ job[w] = r /\ job'[w] = r /\ pc[w] = "running"
             /\ pc'[w] = "hookEnd" \/ Enters(w, "closing")
  <2>1. ~Pick(w)
    BY DEF Pick, PickDeleted, PickHooked, PickAndRun, PickAndGiveUp, SetStatus, dbVars, Ended, TypeOK
  <2>2. ~Close(w) /\ ~Requeue(w)
    BY DEF Close, Requeue, dbVars
  <2>3. \A place : ~Fail(w, place)
    BY DEF Fail, SetStatus, Ended, TypeOK
  <2>5. ~Hook(w) /\ ~EndDeleted(w)
    BY <2>3 DEF Hook, Start, GiveUp, HookEndAnswers, HookErrorAnswers, HookGiveUpAnswers, HookRejects, EndDeleted,
       SetStatus, dbVars, Ended, TypeOK
  <2>4. CASE Finish(w, "success") \/ Finish(w, "interrupted")
    BY <2>4 DEF Finish, SetStatus, Goto, Enters, Ended, TypeOK
  <2> QED
    BY <1>2, <2>1, <2>2, <2>3, <2>4, <2>5 DEF Worker, Agent
<1>3. ASSUME NEW c \in Clients, Client(c) PROVE FALSE
  BY <1>3, WaitsAside
<1>4. ~CancelWorkers
  BY DEF CancelWorkers, dbVars
<1> QED
  BY <1>1, <1>2, <1>3, <1>4 DEF Next

\* A worker in the webhook that follows a result stays there, publishes the end, or has
\* made of the result an error.
LEMMA HookLeads ==
  ASSUME TypeOK, Next, pool' # "down", NEW w \in Workers, pc[w] = "hookEnd", status'[job[w]] \in Ended
  PROVE  \/ pc'[w] = "hookEnd" /\ job'[w] = job[w]
         \/ Enters(w, "closing")
<1>1. ASSUME NEW v \in Workers, Worker(v)
      PROVE  (pc'[w] = "hookEnd" /\ job'[w] = job[w]) \/ Enters(w, "closing")
  <2>1. CASE v # w
    BY <1>1, <2>1, OthersStay DEF Others
  <2>2. CASE v = w
    <3>1. HookEndAnswers(w) \/ HookRejects(w)
      BY <1>1, <2>2 DEF Worker, Pick, PickDeleted, PickHooked, PickAndRun, PickAndGiveUp, Take, Agent, Finish,
         Fail, EndDeleted, Hook, Start, GiveUp, HookErrorAnswers, HookGiveUpAnswers, Close, Requeue
    <3>2. ~HookRejects(w)
      <4>1. ASSUME Fail(w, "hookEnd") PROVE FALSE
        BY <4>1, PlaceType DEF Fail, SetStatus, Ended, TypeOK
      <4>2. ASSUME UNCHANGED status PROVE Present(job[w])
        BY <4>2 DEF Present, Ended, Statuses
      <4> QED
        BY <4>1, <4>2 DEF HookRejects, dbVars
    <3> QED
      BY <3>1, <3>2 DEF HookEndAnswers, Goto, Enters, TypeOK
  <2> QED
    BY <2>1, <2>2
<1>2. ~CancelWorkers
  BY DEF CancelWorkers
<1>3. ASSUME NEW r \in Runs, Request(r) PROVE UNCHANGED <<pc, job>>
  BY <1>3 DEF Request, Put, Resume, Delete, workerVars
<1> QED
  BY <1>1, <1>2, <1>3, WaitsAside DEF Next

\* Whoever enters "closing" is the one that publishes in this step.
LEMMA EndIsPublished ==
  ASSUME TypeOK, StreamTypeOK, QueueStep, NEW w \in Workers, Enters(w, "closing"),
         NEW s \in Streams, Open(s), stream[s].run = job[w]
  PROVE  Unread(s, "done")'
<1>1. PICK v \in Workers, place \in {"closing", "retrying"} :
        Enters(v, place) /\ Publish(job[v], LastWord(place), status'[job[v]])
  BY DEF QueueStep
<1>2. v = w
  BY <1>1, EntersWithJob DEF QueueStep, Enters, Others
<1>3. place = "closing"
  BY <1>1, <1>2 DEF Enters
<1>4. LastWord(place) = "done"
  BY <1>3 DEF LastWord
<1> QED
  BY <1>1, <1>2, <1>4, PublishReaches

\* No step takes the end from who waits for it.
LEMMA EndStep ==
  ASSUME StreamInv, EndIsAnnounced, [StreamNext]_streamVars
  PROVE  EndIsAnnounced'
<1> SUFFICES ASSUME NEW s \in Streams, Open(s)', pool' # "down", status'[stream'[s].run] \in Ended
             PROVE  Unread(s, "done")' \/ \E w \in Workers : pc'[w] = "hookEnd" /\ job'[w] = stream'[s].run
  BY DEF EndIsAnnounced, Ended
<1> USE DEF StreamInv
<1>1. CASE QueueStep
  <2>1. stream'[s].run = stream[s].run /\ Open(s)
    BY <1>1 DEF QueueStep, Publish, Open, StreamTypeOK, Readers
  <2>2. stream[s].run \in Runs /\ Next
    BY <1>1, <2>1 DEF OpenKnown, QueueStep
  <2>3. Unread(s, "done") => Unread(s, "done")'
    <3>1. CASE UNCHANGED stream
      BY <3>1 DEF Unread
    <3>2. ASSUME NEW w \in Workers, NEW place \in {"closing", "retrying"},
                 Publish(job[w], LastWord(place), status'[job[w]])
          PROVE  Unread(s, "done") => Unread(s, "done")'
      <4>1. LastWord(place) \in {"value", "error", "done"}
        BY <3>2 DEF LastWord
      <4> QED
        BY <2>1, <3>2, <4>1, PublishReaches
    <3> QED
      BY <1>1, <3>1, <3>2 DEF QueueStep
  <2>4. CASE status[stream[s].run] \in Ended
    <3>1. pool # "down"
      <4>1. ASSUME pool = "down" PROVE FALSE
        BY <2>2, <4>1, DownStaysDown
      <4> QED
        BY <4>1
    <3>2. Unread(s, "done") \/ \E w \in Workers : pc[w] = "hookEnd" /\ job[w] = stream[s].run
      BY <2>1, <2>4, <3>1 DEF EndIsAnnounced, Ended
    <3>3. ASSUME NEW w \in Workers, pc[w] = "hookEnd", job[w] = stream[s].run
          PROVE  Unread(s, "done")' \/ (pc'[w] = "hookEnd" /\ job'[w] = stream'[s].run)
      BY <1>1, <2>1, <2>2, <3>3, HookLeads, EndIsPublished
    <3> QED
      BY <2>3, <3>2, <3>3
  <2>5. CASE status[stream[s].run] \notin Ended
    <3>1. PICK w \in Workers :
            /\ job[w] = stream[s].run /\ job'[w] = stream[s].run
            /\ pc'[w] = "hookEnd" \/ Enters(w, "closing")
      BY <2>1, <2>2, <2>5, EndsByWorker
    <3> QED
      BY <1>1, <2>1, <3>1, EndIsPublished
  <2> QED
    BY <2>4, <2>5
<1>2. ASSUME NEW w \in Workers, Emit(w) PROVE Unread(s, "done")' \/ \E v \in Workers : pc'[v] = "hookEnd" /\ job'[v] = stream'[s].run
  <2>1. stream'[s].run = stream[s].run /\ Open(s) /\ UNCHANGED vars
    BY <1>2 DEF Emit, Publish, Open, StreamTypeOK, Readers
  <2>2. Unread(s, "done") => Unread(s, "done")'
    BY <1>2, <2>1, PublishReaches DEF Emit
  <2> QED
    BY <2>1, <2>2 DEF EndIsAnnounced, Ended, vars
<1>3. ASSUME NEW t \in Streams, NEW r \in Runs, Join(t, r)
      PROVE  Unread(s, "done")' \/ \E v \in Workers : pc'[v] = "hookEnd" /\ job'[v] = stream'[s].run
  <2>1. UNCHANGED vars
    BY <1>3 DEF Join
  <2>2. CASE s = t
    BY <1>3, <2>1, <2>2 DEF Join, Open, Ended, StreamTypeOK, vars
  <2>3. CASE s # t
    <3>1. stream'[s] = stream[s]
      BY <1>3, <2>3 DEF Join, StreamTypeOK
    <3> QED
      BY <2>1, <3>1 DEF EndIsAnnounced, Ended, vars, Open, Unread
  <2> QED
    BY <2>2, <2>3
<1>4. ASSUME NEW t \in Streams, Read(t)
      PROVE  Unread(s, "done")' \/ \E v \in Workers : pc'[v] = "hookEnd" /\ job'[v] = stream'[s].run
  <2>1. UNCHANGED vars /\ stream'[s].run = stream[s].run /\ Open(s)
    BY <1>4 DEF Read, Open, StreamTypeOK, Readers
  <2>2. Unread(s, "done") => Unread(s, "done")'
    <3>1. CASE s # t
      BY <1>4, <3>1 DEF Read, StreamTypeOK, Unread
    <3>2. CASE s = t
      <4> DEFINE box == stream[s].inbox
      <4>1. box \in Seq(Messages) /\ box # << >>
        BY <1>4, <3>2 DEF Read, StreamTypeOK, Readers
      <4>2. Head(box).kind # "done" /\ stream'[s].inbox = Tail(box)
        BY <1>4, <3>2 DEF Read, Open, StreamTypeOK, Readers
      <4>3. /\ Head(box) = box[1] /\ Len(box) \in Nat \ {0} /\ Len(Tail(box)) = Len(box) - 1
            /\ \A i \in 1..Len(Tail(box)) : Tail(box)[i] = box[i + 1]
        BY <4>1, HeadTailProperties, LenProperties, EmptySeq
      <4>4. ASSUME NEW i \in 1..Len(box), box[i].kind = "done" PROVE i - 1 \in 1..Len(Tail(box)) /\ Tail(box)[i - 1] = box[i]
        <5>1. i # 1
          BY <4>2, <4>3, <4>4
        <5>2. i - 1 \in 1..Len(Tail(box))
          BY <4>3, <5>1
        <5> QED
          BY <4>3, <5>2
      <4> QED
        BY <4>2, <4>4 DEF Unread
    <3> QED
      BY <3>1, <3>2
  <2> QED
    BY <2>1, <2>2 DEF EndIsAnnounced, Ended, vars
<1>5. CASE UNCHANGED streamVars
  BY <1>5 DEF streamVars, vars, EndIsAnnounced, Ended, Open, Unread
<1> QED
  BY <1>1, <1>2, <1>3, <1>4, <1>5 DEF StreamNext, Reader

\* A reader whose run has its result still has the "done" to read, or a worker in the
\* webhook is about to publish it: a reader that joins while the run ends is not left
\* behind, resumptions, retries and webhooks that reject included, unless start_workers
\* cancels that worker.
THEOREM EndAnnounced == StreamSpec => []EndIsAnnounced
<1>1. StreamInit => EndIsAnnounced
  BY DEF StreamInit, Closed, Open, EndIsAnnounced
<1> QED
  BY <1>1, StreamInvKept, EndStep, PTL DEF StreamSpec

-----------------------------------------------------------------------------
(***************************************************************************)
(* What readers are told of errors.  The status of a run may turn to error *)
(* while values are unread: it is the model of the event that refuses to   *)
(* take a value for the description of an error.                           *)
(***************************************************************************)

\* No object is the description of an error.
LEMMA ObjectsDescribeNothing ==
  ASSUME NEW r, NEW kind, MakesEvent("error", r, kind)
  PROVE  kind = "error" \/ r \in Wordy
<1> SUFFICES ASSUME kind # "error", r \notin Wordy PROVE FALSE
  OBVIOUS
<1> DEFINE sent == EventFields("error", r, kind)
<1>1. EventModel("error") = ValueRunErrorUpdate
  BY DEF EventModel
<1>2. "description" \in DOMAIN ValueRunErrorUpdate.fields /\ ValueRunErrorUpdate.fields["description"] = Texts
  BY DEF ValueRunErrorUpdate
<1>3. "description" \in DOMAIN sent /\ sent["description"] = "object"
  BY <1>1, <1>2 DEF EventFields
<1>4. "object" \in Texts
  BY <1>1, <1>2, <1>3 DEF MakesEvent, Validates
<1> QED
  BY <1>4 DEF Texts, Literals, RunStatus, StreamingMode

\* A step that reads gives an event that tells the truth of errors; others give none.
LEMMA ErrorsStep ==
  ASSUME StreamInv, ErrorsAreErrors, [StreamNext]_streamVars
  PROVE  ErrorsAreErrors'
<1>1. ASSUME NEW r, NEW kind, NEW st, Publish(r, kind, st) PROVE ErrorsAreErrors'
  BY <1>1 DEF StreamInv, StreamTypeOK, Readers, Publish, ErrorsAreErrors
<1>2. ASSUME NEW s \in Streams, NEW r \in Runs, Join(s, r) PROVE ErrorsAreErrors'
  BY <1>2 DEF StreamInv, StreamTypeOK, Readers, Join, ErrorsAreErrors, NoEvent
<1>3. ASSUME NEW s \in Streams, Read(s) PROVE ErrorsAreErrors'
  <2> DEFINE r == stream[s].run
             m == Head(stream[s].inbox)
             broken == status[r] = "gone" \/ ~MakesEvent(status[r], r, m.kind)
  <2>1. r \in Runs /\ status[r] \in Statuses \cup {"gone"}
    BY <1>3 DEF Read, StreamInv, OpenKnown, StreamTypeOK, Readers, TypeOK
  <2>2. CASE m.kind = "done" \/ broken
    BY <1>3, <2>2 DEF Read, StreamInv, StreamTypeOK, Readers, ErrorsAreErrors, NoEvent
  <2>3. CASE m.kind # "done" /\ ~broken
    <3>1. stream' = [stream EXCEPT ![s] = [stream[s] EXCEPT !.inbox = Tail(stream[s].inbox),
            !.event = [label |-> Label(status[r]), kind |-> m.kind, at |-> m.at, status |-> status[r]]]]
      BY <1>3, <2>3 DEF Read
    <3>2. Label(status[r]) = "error" => status[r] = "error"
      BY <2>1, <2>3 DEF Label, Statuses
    <3>3. Label(status[r]) = "error" => m.kind = "error" \/ r \in Wordy
      BY <2>3, <3>2, ObjectsDescribeNothing
    <3> QED
      BY <3>1, <3>3 DEF StreamInv, StreamTypeOK, Readers, ErrorsAreErrors
  <2> QED
    BY <2>2, <2>3
<1>4. CASE UNCHANGED stream
  BY <1>4 DEF ErrorsAreErrors
<1> QED
  BY <1>1, <1>2, <1>3, <1>4 DEF StreamNext, QueueStep, Emit, Reader, streamVars

\* Whatever retries, resumptions and deletions do between the publication of a value
\* and its reading, no reader is told that an object the agent gave is an error.
THEOREM ErrorsTold == StreamSpec => []ErrorsAreErrors
<1>1. StreamInit => ErrorsAreErrors
  BY DEF StreamInit, Closed, NoEvent, ErrorsAreErrors
<1> QED
  BY <1>1, StreamInvKept, ErrorsStep, PTL DEF StreamSpec

-----------------------------------------------------------------------------
(***************************************************************************)
(* "done" is the last message.  It is published by a worker that has its   *)
(* run in the hand, and after it nobody has, until the run is resumed: so  *)
(* a run that was never resumed must be in one hand at a time, and the     *)
(* worker in the webhook after a result, which may yet publish "done" or,  *)
(* when that webhook rejects, run the agent again, holds it too.           *)
(***************************************************************************)
Holds(w) == Active(w) \/ pc[w] = "hookEnd"
InHand(r) == Queued(r) \/ \E w \in Workers : Holds(w) /\ job[w] = r

InOneHand(r) ==
  /\ \A i, j \in 1..Len(queue) : queue[i] = r /\ queue[j] = r => i = j
  /\ \A w \in Workers : Holds(w) /\ job[w] = r => ~Queued(r)
  /\ \A v, w \in Workers : Holds(v) /\ Holds(w) /\ job[v] = r /\ job[w] = r => v = w
  /\ status[r] = "new" => ~InHand(r)
  /\ status[r] \in Ended => ~Driven(r)

OneHand == \A r \in Runs : resumes[r] = 0 => InOneHand(r)

\* A step that takes nothing from the queue and hands no worker the run.
LEMMA HandQuiet ==
  ASSUME NEW r \in Runs, InOneHand(r), UNCHANGED queue, status'[r] = "new" => status[r] = "new",
         \A v \in Workers : Holds(v)' /\ job'[v] = r => Holds(v) /\ job[v] = r,
         status'[r] \in Ended => ~Driven(r)'
  PROVE  InOneHand(r)'
<1>1. Queued(r)' <=> Queued(r)
  BY DEF Queued
<1> QED
  BY <1>1 DEF InOneHand, InHand

\* put() of a run nobody has.
LEMMA HandEnqueue ==
  ASSUME NEW r \in Runs, InOneHand(r), queue \in Seq(Runs), NEW x \in Runs, queue' = Append(queue, x),
         x = r => ~Queued(r) /\ \A v \in Workers : ~(Holds(v)' /\ job'[v] = r),
         \A v \in Workers : Holds(v)' /\ job'[v] = r => Holds(v) /\ job[v] = r,
         status'[r] = "new" => status[r] = "new" /\ x # r,
         status'[r] \in Ended => ~Driven(r)'
  PROVE  InOneHand(r)'
<1>1. /\ Len(queue) \in Nat /\ Len(queue') = Len(queue) + 1
      /\ \A i \in 1..Len(queue) : queue'[i] = queue[i]
      /\ queue'[Len(queue) + 1] = x
  BY AppendProperties, LenProperties
<1>2. Queued(r)' <=> Queued(r) \/ r = x
  BY EnqueueQueued
<1>3. ASSUME NEW i \in 1..Len(queue'), NEW j \in 1..Len(queue'), queue'[i] = r, queue'[j] = r PROVE i = j
  <2>1. CASE x = r
    <3>1. i \notin 1..Len(queue) /\ j \notin 1..Len(queue)
      BY <1>1, <1>3, <2>1 DEF Queued
    <3> QED
      BY <1>1, <3>1
  <2>2. CASE x # r
    <3>1. i \in 1..Len(queue) /\ j \in 1..Len(queue)
      BY <1>1, <1>3, <2>2
    <3> QED
      BY <1>1, <1>3, <3>1 DEF InOneHand
  <2> QED
    BY <2>1, <2>2
<1>4. \A w \in Workers : Holds(w)' /\ job'[w] = r => ~Queued(r)'
  BY <1>2 DEF InOneHand
<1>5. status'[r] = "new" => ~InHand(r)'
  BY <1>2 DEF InOneHand, InHand
<1>6. \A v, w \in Workers : Holds(v)' /\ Holds(w)' /\ job'[v] = r /\ job'[w] = r => v = w
  BY DEF InOneHand
<1> QED
  BY <1>3, <1>4, <1>5, <1>6 DEF InOneHand

\* get() by a worker with empty hands.
LEMMA HandDequeue ==
  ASSUME NEW r \in Runs, InOneHand(r), queue \in Seq(Runs), queue # << >>, queue' = Tail(queue),
         NEW x, x = Head(queue), NEW w \in Workers, ~Holds(w), Others(w),
         Holds(w)' => job'[w] = x, status'[r] = "new" => status[r] = "new",
         status'[r] \in Ended => status[r] \in Ended /\ x # r
  PROVE  InOneHand(r)'
<1>1. /\ Queued(x)
      /\ Queued(r)' => Queued(r)
  BY DequeueQueued
<1>2. /\ Len(queue) \in Nat \ {0} /\ Len(queue') = Len(queue) - 1
      /\ queue[1] = x
      /\ \A i \in 1..Len(queue') : queue'[i] = queue[i + 1]
  BY TailIndices
<1>3. ASSUME NEW i \in 1..Len(queue'), queue'[i] = r PROVE i + 1 \in 1..Len(queue) /\ queue[i + 1] = r
  BY <1>2, <1>3
<1>4. ASSUME NEW i \in 1..Len(queue'), NEW j \in 1..Len(queue'), queue'[i] = r, queue'[j] = r PROVE i = j
  <2>1. i + 1 = j + 1
    BY <1>3, <1>4 DEF InOneHand
  <2> QED
    BY <1>2, <2>1
<1>5. x = r => ~Queued(r)'
  <2> SUFFICES ASSUME x = r, NEW i \in 1..Len(queue'), queue'[i] = r PROVE FALSE
    BY DEF Queued
  <2>1. 1 = i + 1
    BY <1>2, <1>3 DEF InOneHand
  <2> QED
    BY <1>2, <2>1
<1>6. \A v \in Workers : v # w => (Holds(v)' /\ job'[v] = r <=> Holds(v) /\ job[v] = r)
  BY DEF Holds, Active, Others
<1>7. x = r => \A v \in Workers : ~(Holds(v) /\ job[v] = r)
  BY <1>1 DEF InOneHand
<1>8. \A v \in Workers : Holds(v)' /\ job'[v] = r => ~Queued(r)'
  BY <1>1, <1>5, <1>6 DEF InOneHand
<1>9. \A u, v \in Workers : Holds(u)' /\ Holds(v)' /\ job'[u] = r /\ job'[v] = r => u = v
  BY <1>6, <1>7 DEF InOneHand
<1>10. status'[r] = "new" => ~InHand(r)'
  <2> SUFFICES ASSUME status[r] = "new" PROVE ~InHand(r)'
    OBVIOUS
  <2>1. ~InHand(r) /\ x # r
    BY <1>1 DEF InOneHand, InHand
  <2> QED
    BY <1>1, <1>6, <2>1 DEF InHand
<1>11. status'[r] \in Ended => ~Driven(r)'
  <2> SUFFICES ASSUME status[r] \in Ended, x # r PROVE ~Driven(r)'
    OBVIOUS
  <2>1. ~Driven(r)
    BY DEF InOneHand
  <2>2. \A v \in Workers : Active(v)' /\ job'[v] = r => v # w
    BY DEF Holds
  <2> QED
    BY <1>1, <2>1, <2>2 DEF Driven, Others, Active
<1> QED
  BY <1>4, <1>8, <1>9, <1>10, <1>11 DEF InOneHand

\* What a worker's step does to its own run, get() and put() of RUNS_QUEUE aside.
LEMMA HandOfHolder ==
  ASSUME TypeOK, NEW w \in Workers, Worker(w), ~Pick(w)
  PROVE  /\ UNCHANGED resumes
         /\ ~Requeue(w) => UNCHANGED queue
         /\ Holds(w)' => Holds(w) /\ job'[w] = job[w]
         /\ \A r \in Runs : r # job[w] \/ ~Holds(w) => status'[r] = status[r]
         /\ \A r \in Runs : status'[r] \in Ended => status[r] \in Ended \/ ~Active(w)'
         /\ Active(w)' /\ ~Active(w) => status'[job[w]] = "error"
<1> USE DEF Holds, Active, Ended, Goto, TypeOK
<1>1. CASE Agent(w)
  BY <1>1 DEF Agent, Finish, Fail, EndDeleted, Die, SetStatus
<1>2. CASE Start(w) \/ GiveUp(w)
  BY <1>2 DEF Start, GiveUp, Die, SetStatus
<1>3. CASE HookEndAnswers(w) \/ HookErrorAnswers(w) \/ HookGiveUpAnswers(w)
  BY <1>3 DEF HookEndAnswers, HookErrorAnswers, HookGiveUpAnswers, Release, dbVars
<1>4. CASE HookRejects(w)
  <2>1. job[w] \in Runs
    BY <1>4 DEF HookRejects, Fail
  <2>2. CASE Fail(w, "hookEnd")
    BY <2>1, <2>2 DEF Fail, SetStatus
  <2>3. CASE ~Fail(w, "hookEnd")
    BY <1>4, <2>3 DEF HookRejects, Die, dbVars
  <2> QED
    BY <2>2, <2>3
<1>5. CASE Close(w) \/ Requeue(w)
  BY <1>5 DEF Close, Requeue, Release, dbVars
<1> QED
  BY <1>1, <1>2, <1>3, <1>4, <1>5 DEF Worker, Hook

\* A worker hands its run on, or puts it down.
LEMMA HandByHolder ==
  ASSUME TypeOK, NEW w \in Workers, Worker(w), ~Pick(w), NEW r \in Runs, InOneHand(r),
         status'[r] = "new" => status[r] = "new"
  PROVE  InOneHand(r)'
<1>1. Others(w)
  BY OthersStay
<1>2. \A v \in Workers : Holds(v)' /\ job'[v] = r => Holds(v) /\ job[v] = r
  BY <1>1, HandOfHolder DEF Others, Holds, Active
<1>3. CASE Requeue(w)
  <2>1. /\ queue \in Seq(Runs) /\ job[w] \in Runs /\ queue' = Append(queue, job[w])
        /\ Holds(w) /\ Active(w) /\ ~Holds(w)' /\ status' = status
    BY <1>3, PlaceType DEF Requeue, Release, Goto, Holds, Active, dbVars, TypeOK
  <2>2. job[w] = r => ~Queued(r) /\ \A v \in Workers : ~(Holds(v)' /\ job'[v] = r)
    BY <1>2, <2>1 DEF InOneHand
  <2>3. status'[r] = "new" => job[w] # r
    BY <2>1 DEF InOneHand, InHand
  <2>4. status'[r] \in Ended => ~Driven(r)'
    <3>1. SUFFICES ASSUME status[r] \in Ended PROVE ~Driven(r)'
      BY <2>1
    <3>2. ~Driven(r) /\ job[w] # r
      BY <2>1, <3>1 DEF InOneHand, Driven
    <3>3. ~Queued(r)'
      BY <2>1, <3>2, EnqueueQueued DEF Driven
    <3> QED
      BY <1>1, <2>1, <3>2, <3>3 DEF Driven, Others, Active, Holds
  <2> QED
    BY <1>2, <2>1, <2>2, <2>3, <2>4, HandEnqueue
<1>4. CASE ~Requeue(w)
  <2>1. UNCHANGED queue /\ (Queued(r)' <=> Queued(r))
    BY <1>4, HandOfHolder DEF Queued
  <2>2. ASSUME status'[r] \in Ended PROVE ~Driven(r)'
    <3>1. CASE Holds(w) /\ job[w] = r
      <4>1. ~Queued(r)' /\ \A v \in Workers : Active(v)' /\ job'[v] = r => v = w
        BY <1>2, <2>1, <3>1 DEF InOneHand, Holds
      <4>2. ASSUME Active(w)' PROVE FALSE
        <5>1. status[r] \in Ended
          BY <2>2, <4>2, HandOfHolder
        <5>2. ~Active(w)
          BY <3>1, <5>1 DEF InOneHand, Driven
        <5> QED
          BY <2>2, <3>1, <4>2, <5>2, HandOfHolder DEF Ended
      <4> QED
        BY <4>1, <4>2 DEF Driven
    <3>2. CASE ~(Holds(w) /\ job[w] = r)
      <4>1. status'[r] = status[r]
        BY <3>2, HandOfHolder
      <4>2. ~Driven(r)
        BY <2>2, <4>1 DEF InOneHand
      <4>3. ~(Active(w)' /\ job'[w] = r)
        BY <3>2, HandOfHolder DEF Holds
      <4> QED
        BY <1>1, <2>1, <4>2, <4>3 DEF Driven, Others, Active
    <3> QED
      BY <3>1, <3>2
  <2> QED
    BY <1>2, <2>1, <2>2, HandQuiet
<1> QED
  BY <1>3, <1>4

\* A run that is picked up is in the hand of that worker, or in none.
LEMMA HandByPick ==
  ASSUME TypeOK, NEW w \in Workers, Pick(w), NEW r \in Runs, InOneHand(r),
         status'[r] = "new" => status[r] = "new"
  PROVE  InOneHand(r)'
<1>1. PICK x \in Runs : PickDeleted(w, x) \/ PickHooked(w, x) \/ PickAndRun(w, x) \/ PickAndGiveUp(w, x)
  BY DEF Pick
<1>2. /\ queue \in Seq(Runs) /\ queue # << >> /\ queue' = Tail(queue) /\ x = Head(queue)
      /\ ~Holds(w) /\ (Holds(w)' => job'[w] = x)
  BY <1>1 DEF PickDeleted, PickHooked, PickAndRun, PickAndGiveUp, Take, Die, Goto, Holds, Active, workerVars, TypeOK
<1>3. Others(w)
  BY OthersStay DEF Worker
<1>4. status'[r] \in Ended => status[r] \in Ended
  BY <1>1 DEF PickDeleted, PickHooked, PickAndRun, PickAndGiveUp, SetStatus, Ended, dbVars, TypeOK
<1>5. status[r] \in Ended => x # r
  BY <1>2, DequeueQueued DEF InOneHand, Driven
<1> QED
  BY <1>2, <1>3, <1>4, <1>5, HandDequeue

\* Every step leaves a run that was never resumed in one hand.
LEMMA HandStep ==
  ASSUME TypeOK, OneHand, [Next]_vars
  PROVE  OneHand'
<1> SUFFICES ASSUME NEW r \in Runs, resumes'[r] = 0 PROVE InOneHand(r)'
  BY DEF OneHand
<1>1. status'[r] = "new" => status[r] = "new"
  BY NeverNewAgain
<1>2. ASSUME NEW w \in Workers, Worker(w) PROVE UNCHANGED resumes
  BY <1>2, HandOfHolder DEF Pick, PickDeleted, PickHooked, PickAndRun, PickAndGiveUp
<1>3. ASSUME NEW x \in Runs, Put(x) \/ Resume(x) PROVE InOneHand(r)'
  <2>1. /\ queue \in Seq(Runs) /\ queue' = Append(queue, x) /\ UNCHANGED <<pc, job>>
        /\ status' = [status EXCEPT ![x] = "pending"]
    BY <1>3 DEF Put, Resume, workerVars, TypeOK
  <2>2. resumes[r] = 0 /\ (x = r => status[r] = "new")
    BY <1>3 DEF Put, Resume, TypeOK
  <2>3. InOneHand(r)
    BY <2>2 DEF OneHand
  <2>4. \A v \in Workers : (Holds(v)' <=> Holds(v)) /\ job'[v] = job[v] /\ (Active(v)' <=> Active(v))
    BY <2>1 DEF Holds, Active
  <2>5. x = r => ~InHand(r)
    BY <2>2, <2>3 DEF InOneHand
  <2>6. status'[r] \in Ended => status[r] \in Ended /\ x # r
    BY <2>1 DEF Ended, TypeOK
  <2>7. status'[r] = "new" => x # r
    BY <2>1 DEF TypeOK
  <2>8. status'[r] \in Ended => ~Driven(r)'
    BY <2>1, <2>3, <2>4, <2>6, EnqueueQueued DEF InOneHand, Driven
  <2> QED
    BY <1>1, <2>1, <2>3, <2>4, <2>5, <2>7, <2>8, HandEnqueue DEF InHand
<1>4. ASSUME NEW w \in Workers, Worker(w) PROVE InOneHand(r)'
  BY <1>1, <1>2, <1>4, HandByHolder, HandByPick DEF OneHand
<1>5. ASSUME UNCHANGED <<queue, resumes>>, status'[r] \in {status[r], "gone"},
             UNCHANGED <<pc, job>> \/ \A v \in Workers : pc'[v] \in {"dead", "cancelled"}
      PROVE  InOneHand(r)'
  <2>1. \A v \in Workers : (Holds(v)' => Holds(v) /\ job'[v] = job[v]) /\ (Active(v)' => Active(v) /\ job'[v] = job[v])
    BY <1>5 DEF Holds, Active
  <2>2. InOneHand(r) /\ (Queued(r)' <=> Queued(r))
    BY <1>5 DEF OneHand, Queued
  <2>3. status'[r] \in Ended => ~Driven(r)'
    BY <1>5, <2>1, <2>2 DEF InOneHand, Driven, Ended
  <2> QED
    BY <1>1, <1>5, <2>1, <2>2, <2>3, HandQuiet
<1>6. ASSUME NEW x \in Runs, Delete(x) PROVE InOneHand(r)'
  BY <1>5, <1>6 DEF Delete, workerVars, TypeOK
<1>7. ASSUME NEW c \in Clients, Client(c) PROVE InOneHand(r)'
  BY <1>5, <1>7, WaitsAside
<1>8. ASSUME CancelWorkers PROVE InOneHand(r)'
  BY <1>5, <1>8 DEF CancelWorkers, dbVars
<1>9. ASSUME UNCHANGED vars PROVE InOneHand(r)'
  BY <1>5, <1>9 DEF vars
<1> QED
  BY <1>3, <1>4, <1>6, <1>7, <1>8, <1>9 DEF Next, Request

\* A run that is in nobody's hand is in nobody's hand until it is resumed.
LEMMA RestedStays ==
  ASSUME TypeOK, [Next]_vars, NEW r \in Runs, ~InHand(r), status[r] # "new", resumes'[r] = 0
  PROVE  ~InHand(r)'
<1>1. ASSUME NEW w \in Workers, Worker(w) PROVE ~InHand(r)'
  <2>1. Others(w)
    BY <1>1, OthersStay
  <2>2. \A v \in Workers : v # w => ~(Holds(v)' /\ job'[v] = r)
    BY <2>1 DEF Others, InHand, Holds, Active
  <2>3. ~Queued(r)'
    <3>1. CASE Requeue(w)
      <4>1. queue \in Seq(Runs) /\ job[w] \in Runs /\ queue' = Append(queue, job[w]) /\ Holds(w)
        BY <3>1, PlaceType DEF Requeue, Holds, Active, TypeOK
      <4> QED
        BY <4>1, EnqueueQueued DEF InHand
    <3>2. CASE Pick(w)
      <4>1. PICK x \in Runs : queue \in Seq(Runs) /\ queue # << >> /\ queue' = Tail(queue) /\ x = Head(queue)
        BY <3>2 DEF Pick, PickDeleted, PickHooked, PickAndRun, PickAndGiveUp, Take, TypeOK
      <4> QED
        BY <4>1, DequeueQueued DEF InHand
    <3>3. CASE ~Requeue(w) /\ ~Pick(w)
      BY <1>1, <3>3, HandOfHolder DEF InHand, Queued
    <3> QED
      BY <3>1, <3>2, <3>3
  <2>4. ~(Holds(w)' /\ job'[w] = r)
    <3>1. CASE Pick(w)
      <4>1. PICK x \in Runs : /\ queue \in Seq(Runs) /\ queue # << >> /\ queue' = Tail(queue) /\ x = Head(queue)
                              /\ Holds(w)' => job'[w] = x
        BY <3>1 DEF Pick, PickDeleted, PickHooked, PickAndRun, PickAndGiveUp, Take, Die, Goto, Holds, Active,
                    workerVars, TypeOK
      <4> QED
        BY <4>1, DequeueQueued DEF InHand
    <3>2. CASE ~Pick(w)
      BY <1>1, <3>2, HandOfHolder DEF InHand
    <3> QED
      BY <3>1, <3>2
  <2> QED
    BY <2>2, <2>3, <2>4 DEF InHand
<1>2. ASSUME NEW x \in Runs, Put(x) \/ Resume(x) PROVE ~InHand(r)'
  <2>1. queue \in Seq(Runs) /\ queue' = Append(queue, x) /\ UNCHANGED <<pc, job>> /\ x # r
    BY <1>2 DEF Put, Resume, workerVars, TypeOK
  <2> QED
    BY <2>1, EnqueueQueued DEF InHand, Holds, Active
<1>3. ASSUME UNCHANGED queue, UNCHANGED <<pc, job>> \/ \A v \in Workers : pc'[v] \in {"dead", "cancelled"}
      PROVE  ~InHand(r)'
  BY <1>3 DEF InHand, Queued, Holds, Active
<1>4. ASSUME NEW x \in Runs, Delete(x) PROVE ~InHand(r)'
  BY <1>3, <1>4 DEF Delete, workerVars
<1>5. ASSUME NEW c \in Clients, Client(c) PROVE ~InHand(r)'
  BY <1>3, <1>5, WaitsAside
<1>6. ASSUME CancelWorkers PROVE ~InHand(r)'
  BY <1>3, <1>6 DEF CancelWorkers
<1>7. ASSUME UNCHANGED vars PROVE ~InHand(r)'
  BY <1>3, <1>7 DEF vars
<1> QED
  BY <1>1, <1>2, <1>4, <1>5, <1>6, <1>7 DEF Next, Request

\* Who publishes the end of an attempt has the run in its hand, and after the end of
\* the stream no more.
LEMMA EntersFromHand ==
  ASSUME TypeOK, Next, NEW w \in Workers, NEW place \in {"closing", "retrying"}, Enters(w, place)
  PROVE  Holds(w) /\ (place = "closing" => ~Holds(w)')
<1>1. Worker(w) /\ pc'[w] = place /\ pc[w] # place
  BY EntersWithJob DEF Enters
<1> QED
  BY <1>1 DEF Worker, Pick, PickDeleted, PickHooked, PickAndRun, PickAndGiveUp, Agent, Finish, Fail, EndDeleted,
       Hook, Start, GiveUp, HookEndAnswers, HookErrorAnswers, HookGiveUpAnswers, HookRejects, Close, Requeue,
       Release, Die, Goto, Holds, Active, workerVars, TypeOK

\* Until it is resumed, a run's "done" is the last message its readers have, and the run is
\* in nobody's hand by then; a request without a stream has no messages.
DoneEnds ==
  \A s \in Streams, r \in Runs : stream[s].run = r /\ resumes[r] = 0 =>
    \A i \in 1..Len(stream[s].inbox) :
      stream[s].inbox[i].kind = "done" => i = Len(stream[s].inbox) /\ ~InHand(r)
ClosedIsEmpty == \A s \in Streams : ~Open(s) => stream[s].inbox = << >>

\* A run that was resumed has been resumed ever since.
LEMMA ResumedForEver ==
  ASSUME TypeOK, [Next]_vars, NEW r \in Runs, resumes'[r] = 0
  PROVE  resumes[r] = 0
<1>1. ASSUME NEW x \in Runs, Resume(x) PROVE resumes[r] = 0
  <2>1. resumes' = [resumes EXCEPT ![x] = resumes[x] + 1] /\ resumes[x] \in Nat
    BY <1>1, BoundsAssumption DEF Resume, TypeOK
  <2> QED
    BY <2>1 DEF TypeOK
<1>2. ASSUME NEW w \in Workers, Worker(w) PROVE UNCHANGED resumes
  BY <1>2, HandOfHolder DEF Pick, PickDeleted, PickHooked, PickAndRun, PickAndGiveUp
<1>3. ASSUME NEW x \in Runs, Put(x) \/ Delete(x) PROVE UNCHANGED resumes
  BY <1>3 DEF Put, Delete
<1> QED
  BY <1>1, <1>2, <1>3, WaitsAside DEF Next, Request, CancelWorkers, vars

\* After a publication a reader's message is one it had, in its place, or the new one, last.
LEMMA PublishAppends ==
  ASSUME StreamTypeOK, NEW r, NEW kind \in {"value", "error", "done"}, NEW st, Publish(r, kind, st),
         NEW s \in Streams, Open(s), stream[s].run = r, NEW i \in 1..Len(stream'[s].inbox)
  PROVE  \/ i \in 1..Len(stream[s].inbox) /\ stream'[s].inbox[i] = stream[s].inbox[i]
         \/ i = Len(stream'[s].inbox) /\ stream'[s].inbox[i].kind = kind
<1> DEFINE m == [kind |-> kind, at |-> st]
           box == stream[s].inbox
<1>1. stream'[s].inbox = Append(box, m)
  BY DEF Publish, StreamTypeOK, Readers
<1>2. box \in Seq(Messages \cup {m})
  BY SeqMonotonic DEF StreamTypeOK, Readers
<1>3. /\ Len(Append(box, m)) = Len(box) + 1 /\ Len(box) \in Nat
      /\ \A j \in 1..Len(box) : Append(box, m)[j] = box[j]
      /\ Append(box, m)[Len(box) + 1] = m
  BY <1>2, AppendProperties, LenProperties
<1>4. i \in 1..Len(box) \/ i = Len(box) + 1
  BY <1>1, <1>3
<1> QED
  BY <1>1, <1>3, <1>4

\* A request without a stream gets no messages.
LEMMA EmptyStep ==
  ASSUME StreamInv, ClosedIsEmpty, [StreamNext]_streamVars
  PROVE  ClosedIsEmpty'
<1>1. ASSUME NEW r, NEW kind, NEW st, Publish(r, kind, st) PROVE ClosedIsEmpty'
  BY <1>1 DEF StreamInv, StreamTypeOK, Readers, Publish, ClosedIsEmpty, Open
<1>2. ASSUME NEW s \in Streams, NEW r \in Runs, Join(s, r) PROVE ClosedIsEmpty'
  BY <1>2 DEF StreamInv, StreamTypeOK, Readers, Join, ClosedIsEmpty, Open
<1>3. ASSUME NEW s \in Streams, Read(s) PROVE ClosedIsEmpty'
  BY <1>3 DEF StreamInv, StreamTypeOK, Readers, Read, ClosedIsEmpty, Open
<1>4. CASE UNCHANGED stream
  BY <1>4 DEF ClosedIsEmpty, Open
<1> QED
  BY <1>1, <1>2, <1>3, <1>4 DEF StreamNext, QueueStep, Emit, Reader, streamVars

\* Nothing is published after "done".
LEMMA DoneStep ==
  ASSUME StreamInv, OneHand, ClosedIsEmpty, DoneEnds, [StreamNext]_streamVars
  PROVE  DoneEnds'
<1> USE DEF StreamInv
<1> SUFFICES ASSUME NEW s \in Streams, NEW r \in Runs, stream'[s].run = r, resumes'[r] = 0,
                    NEW i \in 1..Len(stream'[s].inbox), stream'[s].inbox[i].kind = "done"
             PROVE  i = Len(stream'[s].inbox) /\ ~InHand(r)'
  BY DEF DoneEnds
<1>1. [Next]_vars /\ resumes[r] = 0
  BY StreamStep, ResumedForEver
<1>2. ASSUME NEW j \in 1..Len(stream[s].inbox), stream[s].inbox[j].kind = "done", stream[s].run = r
      PROVE  j = Len(stream[s].inbox) /\ ~InHand(r) /\ ~InHand(r)'
  <2>1. Open(s)
    BY <1>2, EmptySeq DEF ClosedIsEmpty
  <2>2. status[r] # "new"
    BY <1>2, <2>1 DEF OpenKnown
  <2>3. j = Len(stream[s].inbox) /\ ~InHand(r)
    BY <1>1, <1>2 DEF DoneEnds
  <2> QED
    BY <1>1, <2>2, <2>3, RestedStays
<1>3. CASE stream'[s] = stream[s]
  BY <1>2, <1>3
<1>4. ASSUME NEW x, NEW kind \in {"value", "error", "done"}, NEW st, Publish(x, kind, st),
             Open(s), stream[s].run = x, InHand(x)
      PROVE  i = Len(stream'[s].inbox) /\ kind = "done" /\ x = r
  <2>1. stream'[s].run = x
    BY <1>4 DEF Publish, StreamTypeOK, Readers
  <2>2. \/ i \in 1..Len(stream[s].inbox) /\ stream'[s].inbox[i] = stream[s].inbox[i]
        \/ i = Len(stream'[s].inbox) /\ stream'[s].inbox[i].kind = kind
    BY <1>4, PublishAppends
  <2>3. ~(i \in 1..Len(stream[s].inbox) /\ stream'[s].inbox[i] = stream[s].inbox[i])
    BY <1>2, <1>4, <2>1
  <2> QED
    BY <2>1, <2>2, <2>3
<1>5. ASSUME QueueStep, stream'[s] # stream[s] PROVE i = Len(stream'[s].inbox) /\ ~InHand(r)'
  <2>1. PICK w \in Workers, place \in {"closing", "retrying"} :
          Enters(w, place) /\ Publish(job[w], LastWord(place), status'[job[w]])
    BY <1>5 DEF QueueStep
  <2>2. /\ LastWord(place) \in {"value", "error", "done"} /\ (LastWord(place) = "done" => place = "closing")
        /\ Open(s) /\ stream[s].run = job[w]
    BY <1>5, <2>1 DEF LastWord, Publish
  <2>3. Holds(w) /\ (place = "closing" => ~Holds(w)') /\ Worker(w) /\ Others(w) /\ job'[w] = job[w]
    BY <1>5, <2>1, EntersWithJob, EntersFromHand DEF QueueStep
  <2>4. i = Len(stream'[s].inbox) /\ place = "closing" /\ job[w] = r
    BY <1>4, <1>5, <2>1, <2>2, <2>3 DEF InHand
  <2>5. UNCHANGED queue
    <3>1. ~Pick(w)
      BY <2>3 DEF Pick, PickDeleted, PickHooked, PickAndRun, PickAndGiveUp, Take, Holds, Active
    <3>2. ~Requeue(w)
      BY <2>1, <2>4 DEF Requeue, Release, Goto, Enters, TypeOK
    <3> QED
      BY <2>3, <3>1, <3>2, HandOfHolder
  <2>6. InOneHand(r)
    BY <1>1 DEF OneHand
  <2> QED
    BY <2>3, <2>4, <2>5, <2>6 DEF InOneHand, InHand, Queued, Others, Holds, Active
<1>6. ASSUME NEW w \in Workers, Emit(w), stream'[s] # stream[s] PROVE FALSE
  <2>1. Publish(job[w], "value", status[job[w]]) /\ InHand(job[w])
    BY <1>6 DEF Emit, InHand, Holds, Active
  <2>2. Open(s) /\ stream[s].run = job[w]
    BY <1>6, <2>1 DEF Publish
  <2> QED
    BY <1>4, <2>1, <2>2
<1>7. ASSUME NEW t \in Streams, NEW x \in Runs, Join(t, x) PROVE stream'[s] = stream[s]
  <2>1. CASE s = t
    BY <1>7, <2>1 DEF Join, StreamTypeOK
  <2>2. CASE s # t
    BY <1>7, <2>2 DEF Join, StreamTypeOK
  <2> QED
    BY <2>1, <2>2
<1>8. ASSUME Read(s), stream'[s] # stream[s] PROVE i = Len(stream'[s].inbox) /\ ~InHand(r)'
  <2> DEFINE box == stream[s].inbox
  <2>1. box \in Seq(Messages) /\ box # << >>
    BY <1>8 DEF Read, StreamTypeOK, Readers
  <2>2. stream'[s].inbox = Tail(box) /\ stream[s].run = r
    BY <1>8 DEF Read, StreamTypeOK, Readers
  <2>3. /\ Len(box) \in Nat \ {0} /\ Len(Tail(box)) = Len(box) - 1
        /\ \A j \in 1..Len(Tail(box)) : Tail(box)[j] = box[j + 1]
    BY <2>1, HeadTailProperties, LenProperties, EmptySeq
  <2>4. i + 1 \in 1..Len(box) /\ box[i + 1].kind = "done"
    BY <2>2, <2>3
  <2>5. i + 1 = Len(box) /\ ~InHand(r)'
    BY <1>2, <2>2, <2>4
  <2> QED
    BY <2>2, <2>3, <2>5
<1>9. ASSUME NEW t \in Streams, Read(t), t # s PROVE stream'[s] = stream[s]
  BY <1>9 DEF Read, StreamTypeOK
<1> QED
  BY <1>3, <1>5, <1>6, <1>7, <1>8, <1>9 DEF StreamNext, Reader, streamVars

\* All of it holds initially and of every step.
LEMMA DoneKept == StreamSpec => [](OneHand /\ ClosedIsEmpty /\ DoneEnds)
<1>1. StreamInit => OneHand /\ ClosedIsEmpty /\ DoneEnds
  <2> SUFFICES ASSUME StreamInit PROVE OneHand /\ ClosedIsEmpty /\ DoneEnds
    OBVIOUS
  <2>1. Len(queue) = 0 /\ \A w \in Workers : ~Holds(w)
    BY DEF StreamInit, Init, Holds, Active
  <2>2. \A r \in Runs : ~InHand(r) /\ ~Driven(r)
    BY <2>1 DEF InHand, Driven, Queued, Holds
  <2>3. OneHand
    BY <2>1, <2>2 DEF OneHand, InOneHand
  <2>4. ClosedIsEmpty /\ \A s \in Streams : Len(stream[s].inbox) = 0
    BY DEF StreamInit, Closed, ClosedIsEmpty
  <2> QED
    BY <2>3, <2>4 DEF DoneEnds
<1>2. StreamInv /\ OneHand /\ ClosedIsEmpty /\ DoneEnds /\ [StreamNext]_streamVars
        => OneHand' /\ ClosedIsEmpty' /\ DoneEnds'
  BY StreamStep, HandStep, EmptyStep, DoneStep DEF StreamInv
<1> QED
  BY <1>1, <1>2, StreamInvKept, PTL DEF StreamSpec

\* Of a run that was not resumed, "done" is the last message any reader gets: no value and
\* no error text follows it, whatever the webhooks answer and whenever the reader came.
THEOREM DoneComesLast == StreamSpec => []DoneIsLast
<1>1. StreamInv /\ ClosedIsEmpty /\ DoneEnds => DoneIsLast
  <2> SUFFICES ASSUME StreamInv, ClosedIsEmpty, DoneEnds, NEW s \in Streams,
                      NEW i \in 1..Len(stream[s].inbox), stream[s].inbox[i].kind = "done",
                      resumes[stream[s].run] = 0
               PROVE  i = Len(stream[s].inbox)
    BY DEF DoneIsLast
  <2>1. Open(s)
    BY EmptySeq DEF ClosedIsEmpty
  <2> QED
    BY <2>1 DEF StreamInv, OpenKnown, DoneEnds
<1> QED
  BY <1>1, StreamInvKept, DoneKept, PTL

-----------------------------------------------------------------------------
(***************************************************************************)
(* Events as their client reads them.  A client knows an event by its type *)
(* alone, so each event must pass one model, and no more: whichever status *)
(* the run has by then, its model's type is one no other model takes, and  *)
(* what the constructor took, reading takes again.                         *)
(***************************************************************************)
\* The model of each status, and what its constructor is given.
LEMMA FieldsOfEvent ==
  ASSUME NEW st \in Statuses, NEW r, NEW kind
  PROVE  LET model == EventModel(st)
             given == EventFields(st, r, kind) IN
         /\ "type" \in DOMAIN given /\ given["type"] = Label(st)
         /\ DOMAIN given \subseteq DOMAIN model.fields
         /\ \A f \in DOMAIN given : given[f] # "null"
         /\ \A f \in DOMAIN model.fields \ DOMAIN given :
              Default(model, f) = "null" /\ "null" \in model.fields[f]
<1> DEFINE data == IF kind = "error" \/ r \in Wordy THEN "text" ELSE "object"
           event == [type |-> Label(st), run_id |-> "text", status |-> st, errcode |-> "number"]
           fields == DOMAIN EventModel(st).fields
           given == EventFields(st, r, kind)
<1>1. /\ "type" \in fields
      /\ "messages" \in fields => EventModel(st).fields["messages"] = {"null"}
      /\ EventModel(st).defaults = NoDefaults
  BY DEF EventModel, Statuses, ValueRunInterruptUpdate, ValueRunResultUpdate, ValueRunErrorUpdate
<1>2. Label(st) # "null" /\ st # "null" /\ data # "null"
  BY DEF Label, Statuses
<1> HIDE DEF fields, data
<1>3. given = [f \in fields \ {"messages"} |-> IF f \in DOMAIN event THEN event[f] ELSE data]
  BY DEF EventFields, fields, data
<1>4. \A f \in DOMAIN event : event[f] # "null"
  BY <1>2
<1>5. "type" \in DOMAIN event /\ event["type"] = Label(st)
  OBVIOUS
<1> HIDE DEF event, given
<1>6. "type" \in DOMAIN given /\ given["type"] = Label(st)
  BY <1>1, <1>3, <1>5
<1>7. \A f \in DOMAIN given : given[f] # "null"
  BY <1>2, <1>3, <1>4
<1>8. DOMAIN given \subseteq fields /\ \A f \in fields \ DOMAIN given : f = "messages"
  BY <1>3
<1>9. Default(EventModel(st), "messages") = "null"
  BY <1>1 DEF Default, NoDefaults
<1> QED
  BY <1>1, <1>6, <1>7, <1>8, <1>9 DEF fields, given

\* What makes an event is read as one of its status, whatever the status.
LEMMA EventIsTold ==
  ASSUME NEW st \in Statuses, NEW r, NEW kind, MakesEvent(st, r, kind)
  PROVE  ReadAs(StreamEventPayload, ToDict(EventModel(st), EventFields(st, r, kind))) = Label(st)
<1> DEFINE given == EventFields(st, r, kind)
           sent == ToDict(EventModel(st), given)
<1>1. FromDict(EventModel(st), sent) /\ "type" \in DOMAIN sent /\ sent["type"] = Label(st)
  <2>1. Validates(EventModel(st), given)
    BY DEF MakesEvent
  <2> HIDE DEF given
  <2> QED
    BY <2>1, FieldsOfEvent, ReadBack DEF given
<1> HIDE DEF sent
<1>2. EventModel(st) \in StreamEventPayload
  BY DEF EventModel, Statuses, StreamEventPayload
<1>3. ASSUME NEW m \in StreamEventPayload, FromDict(m, sent) PROVE m = EventModel(st)
  <2>1. "type" \in DOMAIN m.fields
    BY DEF StreamEventPayload, ValueRunInterruptUpdate, ValueRunResultUpdate, ValueRunErrorUpdate,
           CustomRunResultUpdate
  <2>2. Label(st) # "null"
    BY DEF Label, Statuses
  <2>3. Label(st) \in m.fields["type"]
    BY <1>1, <1>3, <2>1, <2>2, TypeTells
  <2>4. CASE m = ValueRunResultUpdate
    <3>1. Label(st) = "values"
      BY <2>3, <2>4 DEF ValueRunResultUpdate
    <3> QED
      BY <2>4, <3>1 DEF Label, Statuses, EventModel
  <2>5. CASE m = ValueRunInterruptUpdate
    <3>1. Label(st) = "interrupt"
      BY <2>3, <2>5 DEF ValueRunInterruptUpdate
    <3> QED
      BY <2>5, <3>1 DEF Label, Statuses, EventModel
  <2>6. CASE m = ValueRunErrorUpdate
    <3>1. Label(st) = "error"
      BY <2>3, <2>6 DEF ValueRunErrorUpdate
    <3> QED
      BY <2>6, <3>1 DEF Label, Statuses, EventModel
  <2>7. CASE m = CustomRunResultUpdate
    <3>1. Label(st) = "custom"
      BY <2>3, <2>7 DEF CustomRunResultUpdate
    <3> QED
      BY <3>1 DEF Label, Statuses
  <2> QED
    BY <2>4, <2>5, <2>6, <2>7 DEF StreamEventPayload
<1>4. ReadAs(StreamEventPayload, sent) = sent.type
  BY <1>1, <1>2, <1>3, OneReads
<1> QED
  BY <1>1, <1>4 DEF sent

\* The events of the readers are what their constructors made of a message.
EventsMade ==
  \A s \in Streams :
    stream[s].event # NoEvent =>
      /\ stream[s].event.status \in Statuses
      /\ stream[s].event.label = Label(stream[s].event.status)
      /\ MakesEvent(stream[s].event.status, stream[s].run, stream[s].event.kind)

\* Only reading makes an event, of the status the run has then.
LEMMA EventsStep ==
  ASSUME StreamInv, EventsMade, [StreamNext]_streamVars
  PROVE  EventsMade'
<1> USE DEF StreamInv
<1> SUFFICES ASSUME NEW s \in Streams, NEW e, e = stream'[s].event, e # NoEvent
             PROVE  /\ e.status \in Statuses /\ e.label = Label(e.status)
                    /\ MakesEvent(e.status, stream'[s].run, e.kind)
  BY DEF EventsMade
<1>1. ASSUME stream'[s].event = stream[s].event, stream'[s].run = stream[s].run
      PROVE  /\ e.status \in Statuses /\ e.label = Label(e.status)
             /\ MakesEvent(e.status, stream'[s].run, e.kind)
  BY <1>1 DEF EventsMade
<1>2. ASSUME NEW r, NEW kind, NEW st, Publish(r, kind, st)
      PROVE  stream'[s].event = stream[s].event /\ stream'[s].run = stream[s].run
  BY <1>2 DEF Publish, StreamTypeOK, Readers
<1>3. ASSUME NEW t \in Streams, NEW r \in Runs, Join(t, r) PROVE stream'[s] = stream[s]
  <2>1. CASE s = t
    BY <1>3, <2>1 DEF Join, StreamTypeOK
  <2>2. CASE s # t
    BY <1>3, <2>2 DEF Join, StreamTypeOK
  <2> QED
    BY <2>1, <2>2
<1>4. ASSUME NEW t \in Streams, t # s, Read(t) PROVE stream'[s] = stream[s]
  BY <1>4 DEF Read, StreamTypeOK
<1>5. ASSUME Read(s)
      PROVE  /\ e.status \in Statuses /\ e.label = Label(e.status)
             /\ MakesEvent(e.status, stream'[s].run, e.kind)
  <2> DEFINE r == stream[s].run
             m == Head(stream[s].inbox)
  <2>1. r \in Runs /\ status[r] \in Statuses \cup {"gone"}
    BY <1>5 DEF Read, OpenKnown, StreamTypeOK, Readers, TypeOK
  <2>2. /\ m.kind # "done" /\ status[r] # "gone" /\ MakesEvent(status[r], r, m.kind)
        /\ stream'[s].run = r
        /\ stream'[s].event = [label |-> Label(status[r]), kind |-> m.kind, at |-> m.at, status |-> status[r]]
    BY <1>5 DEF Read, StreamTypeOK, Readers
  <2> QED
    BY <2>1, <2>2
<1> QED
  BY <1>1, <1>2, <1>3, <1>4, <1>5 DEF StreamNext, QueueStep, Emit, Reader, streamVars

\* Whatever the run's status has become by the time a message is read, by retries,
\* resumptions or its end, the event made of it is read by its client as the one it is.
THEOREM EventsReadAsSent == StreamSpec => []EventsAreTold
<1>1. StreamInit => EventsMade
  BY DEF StreamInit, Closed, EventsMade
<1>2. EventsMade => EventsAreTold
  BY EventIsTold DEF EventsMade, EventsAreTold
<1> QED
  BY <1>1, <1>2, StreamInvKept, EventsStep, PTL DEF StreamSpec

-----------------------------------------------------------------------------
(***************************************************************************)
(* What ends a stream early.  While a run that was never resumed is queued *)
(* or executed it has no result, by OneHand, and its readers no "done", by *)
(* DoneEnds; a message of a pending run always makes an event.             *)
(***************************************************************************)

\* Whatever is published, while the run is pending it is a value to its readers.
LEMMA PendingTakesAll ==
  ASSUME NEW r, NEW kind
  PROVE  MakesEvent("pending", r, kind)
<1> DEFINE data == IF kind = "error" \/ r \in Wordy THEN "text" ELSE "object"
           event == [type |-> "values", run_id |-> "text", status |-> "pending", errcode |-> "number"]
           fields == DOMAIN ValueRunResultUpdate.fields
           given == [f \in fields \ {"messages"} |-> IF f \in DOMAIN event THEN event[f] ELSE data]
<1>1. EventModel("pending") = ValueRunResultUpdate /\ EventFields("pending", r, kind) = given
  BY DEF EventModel, EventFields, Label
<1>2. /\ fields = {"type", "run_id", "status", "values", "messages"}
      /\ ValueRunResultUpdate.fields["type"] = {"values"}
      /\ ValueRunResultUpdate.fields["run_id"] = Texts
      /\ ValueRunResultUpdate.fields["status"] = RunStatus
      /\ ValueRunResultUpdate.fields["values"] = Anything
      /\ ValueRunResultUpdate.required = {"type", "run_id", "status", "values"}
  BY DEF ValueRunResultUpdate
<1>3. "text" \in Texts /\ "pending" \in RunStatus /\ data \in Anything
  BY DEF Texts, RunStatus, Anything
<1> HIDE DEF fields, data
<1>4. /\ DOMAIN given = {"type", "run_id", "status", "values"}
      /\ given["type"] = "values" /\ given["run_id"] = "text" /\ given["status"] = "pending"
      /\ given["values"] = data
  BY <1>2
<1> HIDE DEF given
<1>5. Validates(ValueRunResultUpdate, given)
  BY <1>2, <1>3, <1>4 DEF Validates, fields
<1> QED
  BY <1>1, <1>5 DEF MakesEvent

\* A step that ends a stream on a run that is being worked on has met a failed attempt or
\* a deletion.
LEMMA EarlyStep ==
  ASSUME StreamInv, OneHand, ClosedIsEmpty, DoneEnds, [StreamNext]_streamVars,
         NEW s \in Streams, NEW r, r = stream'[s].run,
         stream'[s] # stream[s], stream'[s].at # "open", resumes[r] = 0, Driven(r)
  PROVE  status[r] = "error" \/ (status[r] = "gone" /\ stream'[s].at = "failed")
<1> USE DEF StreamInv
<1>1. ASSUME NEW x, NEW kind, NEW st, Publish(x, kind, st) PROVE FALSE
  BY <1>1 DEF Publish, StreamTypeOK, Readers, Open
<1>2. ASSUME r \in Runs, status[r] # "new"
      PROVE  /\ status[r] \in {"pending", "error", "gone"}
             /\ \A i \in 1..Len(stream[s].inbox) : stream[s].run = r => stream[s].inbox[i].kind # "done"
  <2>1. status[r] \notin Ended
    BY <1>2 DEF OneHand, InOneHand
  <2>2. InHand(r)
    BY DEF Driven, InHand, Holds
  <2> QED
    BY <1>2, <2>1, <2>2 DEF Ended, Statuses, TypeOK, DoneEnds
<1>3. ASSUME NEW x \in Runs, Join(s, x)
      PROVE  status[r] = "error" \/ (status[r] = "gone" /\ stream'[s].at = "failed")
  <2>1. x = r /\ status[r] # "new"
    BY <1>3 DEF Join, StreamTypeOK
  <2> QED
    BY <1>2, <1>3, <2>1 DEF Join, StreamTypeOK
<1>4. ASSUME Read(s) PROVE status[r] = "error" \/ (status[r] = "gone" /\ stream'[s].at = "failed")
  <2> DEFINE m == Head(stream[s].inbox)
  <2>1. /\ stream[s].run = r /\ r \in Runs /\ status[r] # "new"
        /\ stream[s].inbox \in Seq(Messages) /\ stream[s].inbox # << >>
    BY <1>4 DEF Read, OpenKnown, StreamTypeOK, Readers
  <2>2. m.kind # "done"
    <3>1. 1 \in 1..Len(stream[s].inbox) /\ m = stream[s].inbox[1]
      BY <2>1, HeadTailProperties, LenProperties, EmptySeq
    <3> QED
      BY <1>2, <2>1, <3>1
  <2>3. status[r] = "gone" \/ ~MakesEvent(status[r], r, m.kind)
    <3>1. ASSUME status[r] # "gone", MakesEvent(status[r], r, m.kind) PROVE stream'[s].at = stream[s].at
      BY <1>4, <2>1, <2>2, <3>1 DEF Read, StreamTypeOK, Readers
    <3> QED
      BY <1>4, <3>1 DEF Read, Open
  <2>4. stream'[s].at = "failed"
    BY <1>4, <2>1, <2>2, <2>3 DEF Read, StreamTypeOK, Readers
  <2> QED
    BY <1>2, <2>1, <2>3, <2>4, PendingTakesAll
<1>5. ASSUME NEW t \in Streams, NEW x \in Runs, Join(t, x) \/ Read(t), t # s PROVE FALSE
  BY <1>5 DEF Join, Read, StreamTypeOK
<1>6. ASSUME NEW t \in Streams, Read(t), t # s PROVE FALSE
  BY <1>6 DEF Read, StreamTypeOK
<1> QED
  BY <1>1, <1>3, <1>4, <1>5, <1>6 DEF StreamNext, QueueStep, Emit, Reader, streamVars

\* Before a run is resumed, no reader's stream ends or breaks while the run is queued or
\* executed, unless an attempt has just failed or the run was deleted.
THEOREM EarlyEndsAreFailures == StreamSpec => OnlyFailuresEndEarly
<1> DEFINE Early ==
      \A s \in Streams :
        LET r == stream'[s].run IN
        /\ stream'[s] # stream[s] /\ stream'[s].at # "open"
        /\ resumes[r] = 0 /\ Driven(r)
        => \/ status[r] = "error"
           \/ status[r] = "gone" /\ stream'[s].at = "failed"
<1>1. StreamInv /\ OneHand /\ ClosedIsEmpty /\ DoneEnds /\ [StreamNext]_streamVars => Early
  BY EarlyStep
<1>2. Early => [Early]_streamVars
  OBVIOUS
<1> QED
  BY <1>1, <1>2, StreamInvKept, DoneKept, PTL DEF StreamSpec, OnlyFailuresEndEarly
=============================================================================
