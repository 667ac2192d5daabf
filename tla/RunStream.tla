------------------------------ MODULE RunStream ------------------------------
(***************************************************************************)
(* The live stream of a run: StreamManager, Runs.Stream.publish, .join and *)
(* Runs.stream_events of services/runs.py, composed with the workers of    *)
(* RunQueue that publish.                                                  *)
(*                                                                         *)
(* A publication is put on every queue subscribed when publish is called;  *)
(* which worker step publishes what is read off where the worker is        *)
(* suspended next.  A queue outlives its reader (remove_queue is never     *)
(* called), and every worker subscribes one for itself that nobody reads:  *)
(* queues without a reader are left out.  The "timeout" control message    *)
(* join yields every ten seconds of silence changes no state.  A value an  *)
(* agent streams is an object, or, for the runs in Wordy, a text.          *)
(***************************************************************************)
EXTENDS RunQueue, Models

CONSTANTS
  Streams,   \* requests to GET /runs/{run_id}/stream
  Wordy,     \* runs whose agent streams texts
  MaxUnread  \* bound: messages a reader may lag behind the agent

ASSUME StreamAssumption == MaxUnread \in Nat \ {0} /\ Wordy \subseteq Runs

VARIABLE stream  \* per request: where it is, its queue and its last event

streamVars == <<stream, vars>>

Labels == {"values", "interrupt", "error"}
\* "at" is the run's status when the message was published.
Messages == [kind : {"value", "error", "done"}, at : Statuses \cup {"gone"}]
NoEvent == [label |-> "none", kind |-> "none", at |-> "none", status |-> "none"]
Closed == [at |-> "closed", run |-> NoRun, inbox |-> << >>, event |-> NoEvent]

StreamInit == Init /\ stream = [s \in Streams |-> Closed]

Open(s) == stream[s].at = "open"
Unread(s, kind) == \E i \in 1..Len(stream[s].inbox) : stream[s].inbox[i].kind = kind

-----------------------------------------------------------------------------
(* Readers                                                                 *)

\* Faulty Join: without the check after subscribe.
JoinUnchecked(s, r) ==
  /\ ~Open(s) /\ status[r] # "new"
  /\ stream' = [stream EXCEPT ![s] =
       [at |-> IF status[r] = "gone" THEN "failed" ELSE "open",
        run |-> r, inbox |-> << >>, event |-> NoEvent]]
  /\ UNCHANGED vars

\* join subscribes and then looks at the run: one that is no longer pending
\* ends the stream at once (the queue was created this moment, so it is empty).
Join(s, r) ==
  /\ ~Open(s) /\ status[r] # "new"
  /\ stream' = [stream EXCEPT ![s] =
       [at |-> CASE status[r] = "gone" -> "failed"
                 [] status[r] = "pending" -> "open"
                 [] OTHER -> "closed",
        run |-> r, inbox |-> << >>, event |-> NoEvent]]
  /\ UNCHANGED vars

Label(st) == CASE st = "interrupted" -> "interrupt"
               [] st \in {"success", "pending"} -> "values"
               [] st = "error" -> "error"

\* The model of the event and its fields: the message's data goes to whichever
\* field the status asks for.
EventModel(st) == CASE st = "interrupted" -> ValueRunInterruptUpdate
                    [] st \in {"success", "pending"} -> ValueRunResultUpdate
                    [] st = "error" -> ValueRunErrorUpdate
EventFields(st, r, kind) ==
  LET data == IF kind = "error" \/ r \in Wordy THEN "text" ELSE "object"
      event == [type |-> Label(st), run_id |-> "text", status |-> st, errcode |-> "number"] IN
  [f \in DOMAIN EventModel(st).fields \ {"messages"} |-> IF f \in DOMAIN event THEN event[f] ELSE data]

MakesEvent(st, r, kind) == Validates(EventModel(st), EventFields(st, r, kind))

\* stream_events asks the database for the status when it has the message.  What
\* makes no event breaks the stream.
Read(s) ==
  LET r == stream[s].run
      box == stream[s].inbox
      m == Head(box) IN
  /\ Open(s) /\ box # << >>
  /\ stream' = [stream EXCEPT ![s] =
       CASE m.kind = "done" -> [@ EXCEPT !.at = "closed", !.inbox = << >>, !.event = NoEvent]
         [] m.kind # "done" /\ (status[r] = "gone" \/ ~MakesEvent(status[r], r, m.kind)) ->
              [@ EXCEPT !.at = "failed", !.inbox = << >>, !.event = NoEvent]
         [] OTHER ->
              [@ EXCEPT !.inbox = Tail(box),
                        !.event = [label |-> Label(status[r]), kind |-> m.kind,
                                   at |-> m.at, status |-> status[r]]]]
  /\ UNCHANGED vars

-----------------------------------------------------------------------------
(* Publications                                                            *)

\* Faulty Publish: the control message is not put on the queues.
PublishNoControl(r, kind, st) ==
  stream' = [s \in Streams |->
    IF Open(s) /\ stream[s].run = r /\ kind # "done"
    THEN [stream[s] EXCEPT !.inbox = Append(@, [kind |-> kind, at |-> st])] ELSE stream[s]]

Publish(r, kind, st) ==
  stream' = [s \in Streams |->
    IF Open(s) /\ stream[s].run = r
    THEN [stream[s] EXCEPT !.inbox = Append(@, [kind |-> kind, at |-> st])] ELSE stream[s]]

\* Faulty Emit: the stream goes on while "done" is being published.
EmitLate(w) ==
  /\ pc[w] \in {"running", "closing"}
  /\ \A s \in Streams : Len(stream[s].inbox) < MaxUnread
  /\ Publish(job[w], "value", status[job[w]])
  /\ UNCHANGED vars

\* The agent streams a value; a final interrupt is not published.
Emit(w) ==
  /\ pc[w] = "running"
  /\ \A s \in Streams : Len(stream[s].inbox) < MaxUnread
  /\ Publish(job[w], "value", status[job[w]])
  /\ UNCHANGED vars

Enters(w, place) == pc[w] # place /\ pc'[w] = place

\* Faulty LastWord: a failed attempt ends the stream as well.
LastWordAlwaysDone(place) == IF place = "idle" THEN "none" ELSE "done"

\* Faulty LastWord: the end of an attempt is no message of its own.
LastWordUnmarked(place) == IF place = "retrying" THEN "error" ELSE "none"

\* What a worker publishes at the end of an attempt: "done" after a result or an
\* interrupt, the error text before a retry, nothing when it gives up.
LastWord(place) ==
  CASE place = "closing" -> "done"
    [] place = "retrying" -> "error"
    [] OTHER -> "none"

\* A step of RunQueue and the publication it ends in, if any.
QueueStep ==
  /\ Next
  /\ \/ \E w \in Workers, place \in {"closing", "retrying"} :
          Enters(w, place) /\ Publish(job[w], LastWord(place), status'[job[w]])
     \/ /\ \A w \in Workers : ~Enters(w, "closing") /\ ~Enters(w, "retrying")
        /\ UNCHANGED stream

Reader(s) == Read(s) \/ \E r \in Runs : Join(s, r)

StreamNext ==
  \/ QueueStep
  \/ \E w \in Workers : Emit(w)
  \/ \E s \in Streams : Reader(s)

StreamSpec == StreamInit /\ [][StreamNext]_streamVars

\* The workers go on as in RunQueue, publications included, and a client that
\* opened a stream keeps reading it.
StreamFairSpec ==
  /\ StreamSpec
  /\ \A w \in Workers : WF_streamVars(QueueStep /\ Worker(w))
  /\ \A s \in Streams : WF_streamVars(Read(s))

-----------------------------------------------------------------------------
(* Properties *)

Events ==
  [label : Labels \cup {"none"}, kind : {"value", "error", "none"},
   at : Statuses \cup {"gone", "none"}, status : Statuses \cup {"none"}]
Readers ==
  [at : {"open", "closed", "failed"}, run : Runs \cup {NoRun}, inbox : Seq(Messages), event : Events]
StreamTypeOK == stream \in [Streams -> Readers]

\* runs.py:373, "Check after subscribe whether the run is completed to avoid
\* race condition": whoever still has a stream open on a run with a result has
\* its "done" unread, or the worker is about to publish it, unless start_workers
\* has cancelled that worker in its webhook.
EndIsAnnounced ==
  \A s \in Streams :
    pool # "down" /\ Open(s) /\ status[stream[s].run] \in {"success", "interrupted"} =>
      \/ Unread(s, "done")
      \/ \E w \in Workers : pc[w] = "hookEnd" /\ job[w] = stream[s].run

\* An error text that a reader has not fetched never follows "done": each
\* attempt's messages end before the run rests.
DoneIsLast ==
  \A s \in Streams : \A i \in 1..Len(stream[s].inbox) :
    stream[s].inbox[i].kind = "done" /\ resumes[stream[s].run] = 0 => i = Len(stream[s].inbox)

\* A stream left open for ever is one on a run that gave up or was deleted, or
\* the workers are gone: any other reader is told the end.
Abandoned(r) == status[r] = "gone" \/ (status[r] = "error" /\ ~Driven(r))
StreamsClose ==
  \A s \in Streams : Open(s) ~> ~Open(s) \/ pool # "up" \/ Abandoned(stream[s].run)

\* A stream that ends or breaks while its run is queued or executed has met a
\* failed attempt, or the run is deleted: no other status of such a run ends it,
\* before the run is resumed.
OnlyFailuresEndEarly ==
  [][\A s \in Streams :
       LET r == stream'[s].run IN
       /\ stream'[s] # stream[s] /\ stream'[s].at # "open"
       /\ resumes[r] = 0 /\ Driven(r)
       => \/ status[r] = "error"
          \/ status[r] = "gone" /\ stream'[s].at = "failed"]_streamVars

\* Whatever the run's status has become by the time a message is read, its event
\* is sent as one its client can tell from all others.
EventsAreTold ==
  \A s \in Streams :
    LET e == stream[s].event
        sent == ToDict(EventModel(e.status), EventFields(e.status, stream[s].run, e.kind)) IN
    e # NoEvent => ReadAs(StreamEventPayload, sent) = e.label

\* An event that tells of an error has the text of an error: a value the agent
\* gave, unless it is a text, never passes for one.
ErrorsAreErrors ==
  \A s \in Streams :
    stream[s].event.label = "error" => stream[s].event.kind = "error" \/ stream[s].run \in Wordy

\* value_run_result_update.py:41: "Status of the Run when this result was
\* generated."
StatusIsOfGeneration ==
  \A s \in Streams : stream[s].event # NoEvent => stream[s].event.status = stream[s].event.at
=============================================================================
