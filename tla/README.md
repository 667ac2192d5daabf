# Verification of the agent workflow server

TLA+ models of `src/src/agent_workflow_server`, the TLC runs that check them and the TLAPS proofs
about them. The server is a FastAPI application in one asyncio event loop: clients create *runs* of
an agent, possibly on a *thread*; a pool of worker coroutines takes runs off an in-memory queue and
consumes the agent's stream; clients wait for the result or read the stream; the tables are pickled
when the process exits. Paths below are relative to `src/src/agent_workflow_server`.

## Inventory

| Component | State | Operations | Hard behaviour | Module |
|---|---|---|---|---|
| Worker pool (`services/queue.py`) | per worker: suspension point, run, its copy of the run info | pick up, execute, interrupt, succeed, retry, give up; start and cancel the pool | interleaving of workers at every `await`; retries; runs deleted under a worker; exceptions outside the `try` | `RunQueue` |
| Run service (`services/runs.py`) | `RUNS_QUEUE`, `cvs_pending_run` | `put`, `resume`, `set_status`, `wait_for_output`, webhooks; search | webhook suspends a status change half-way; notification against re-evaluated predicate | `RunQueue`, `Api` |
| Run stream (`StreamManager`, `join`, `stream_events`, `services/stream.py`) | the queues subscribed per run | publish, subscribe, join, read | a reader joining at the wrong moment; status read later than published; a retry after an error message | `RunStream` |
| Runs on threads (`services/thread_runs.py`) | - | `put`, `delete`, `wait_for_output`, getters | check of the thread before an `await`, use after it | `ThreadRuns`, `Api` |
| Threads (`services/threads.py`) | `DB._threads` | create, copy, update, delete, search, history | lost updates; partial copies; deletion against posts | `Threads`, `ThreadRuns` |
| Adapters (`agents/adapters`, `agents/base.py`) | checkpoints per thread, in the agent | accept an object; stream; get, update and list states | executions and patches of one thread share checkpoints; nothing ties them to the thread's record | `Agents`, `Threads` |
| Agent loading (`agents/load.py`) | `AGENTS`, fixed at start | resolve entries one by one; look up, search | one entry that fails after others were registered; a flag set by whichever graph comes last | `Agents`, `Restart` |
| OpenAPI generation (`agents/oas_generator.py`) | - | drop what an agent cannot do from its document | - | `Agents` |
| Persistence (`storage/storage.py`) | pickle file | save at exit, read at start | the queue is not saved; a kill saves nothing, or half a file | `Restart` |
| Start and shutdown (`main.py`) | - | load, start the workers and the server, stop | an error while loading ends in an orderly exit that saves | `Restart` |
| HTTP handlers (`apis/`) | - | validate, call the service, translate what comes back | handlers that do not await, validate a copy, or answer with an error after a change | `Api` |
| Validation, authentication (`services/validation.py`, `apis/authentication.py`) | - | refuse requests | defaults filled in one dependency and not in the other | `Api` |
| Tables (`storage/service.py`) | runs, infos, outputs, threads | create, read, update, delete, search | updates of deleted records are ignored, except outputs | inlined in every module |
| Generated models (`generated/models`) | none | construct, `to_dict`, `from_dict`, choices of models | a value put into a field that refuses it, several steps after it was made; models told apart by their fields alone | `Models` |
| Generated routers (`generated/apis`) | none | - | - | not modelled: `main.py` does not include them |

How they interact: a handler calls `Runs.put` or `ThreadRuns.put`, which writes the tables and
enqueues the run id. A worker dequeues it, sets the status to pending, counts the attempt and
consumes `stream_run`; the adapter checkpoints what the agent streams. Each message is put on every
queue subscribed for the run. At the end the worker stores the output and calls `set_status`, which
calls the run's webhook and then notifies the condition variable that `wait_for_output` sleeps on. A
failed attempt is enqueued again by the worker, an interrupted run by `Runs.resume`. At exit the
tables are saved and everything else, `RUNS_QUEUE` included, is gone.

What makes each part correct:

* pool and run service: a run has one carrier, is never forgotten, is tried a bounded number of
  times, keeps a final result, and everybody who waits is told a status and an output that belong
  together;
* stream: whoever follows a run learns its end, and the end is the last thing learnt;
* runs on threads: new runs of a thread do not overlap, and a thread with work does not disappear;
* threads: what was written to a thread is not undone by somebody else's write, a failed request
  leaves no trace, a copy is of one moment;
* persistence: what was saved is there after the next start, and a start forgets nothing it accepts;
* events and answers: what is sent can be made a model, and is read as that one and no other;
* interface: an accepted run is queued, a refused request changes nothing, an answer describes the run
  as it is, and the different views of the runs agree.

## Modules

**`RunQueue`** is the core. A step is the code between two points at which a coroutine really
suspends. `RUNS_QUEUE.put`, `Stream.subscribe`, and `async with` on a condition whose lock nobody
holds across a suspension do not suspend. The points that do are the values of `pc`: waiting for
work (`idle`), in one of the four webhook calls (`hookStart`, `hookEnd`, `hookError`, `hookGiveUp`),
consuming the agent (`running`), in the `gather` of a final publication (`closing`, `retrying`).
`Pick*` is lines 79-98 of `queue.py` and splits by what the code finds: no run (the exception
outside the `try`), a webhook to call, an attempt to make, no attempts left. `Finish` and `Fail` are
the two ends of an attempt; without a webhook the rest of `set_status` belongs to the same step,
with one it follows in `Hook*Answers`. `HookRejects` is the `HTTPStatusError` that `_call_webhook` lets
through. `Requeue` and `Close` end the iteration; `CancelWorkers` is the `finally` of `start_workers`.
Clients act by `Put`, `Resume`, `Delete`, `Wait`; `Wake` is a notified waiter evaluating its predicate.

Choices a reader should know:

* A run's payload is the kind of its stored output. Validation and interrupt matching succeed or
  raise, so they are the choice between `Finish` and `Fail`.
* Each worker has a copy of the run info it read. In the code the first `update_run_info` makes
  the stored record a new dict, so worker and table do not share one afterwards.
* `Close`/`Requeue` and the next `Pick` are separate steps although `get()` on a non-empty queue does
  not suspend. This adds interleavings and removes none.
* `status = "gone"` is a deleted run; its stored attempts are kept in the model but never read again.
* `tries` is a history variable: agent executions since the run was put or resumed.
* Run ids are never reused (`uuid4`): `Put` takes an id that is `"new"`.

**`RunLifecycle`** is the abstract specification: what the owner of a run is promised, without queue,
workers, webhooks. `Life` in `RunQueue` is the refinement mapping: a run in `error` that is still
carried by somebody is `working`, because it will be retried.

**`Models`** holds the models of `generated/models` that requests are read into and that answers and events are made
of, as tables: the kinds of values each field takes, the fields a constructor must be given, those whose `None` `to_dict` keeps,
and the defaults. `Validates`, `ModelDump`, `ToDict`, `FromDict` and `ReadAs` (the `from_json` of a choice of models) are the same for all.
A value is known by its kind: a literal where some validator asks for one, `"text"`, `"object"` and so on, and the name of its model where it
is an instance. How pydantic constructs is external; the models rely on three things it does: a class with an
`__init__` of its own gets an object as keyword arguments, fields a model does not have are ignored, and a strict text is nothing but a text.

**`RunStream`** adds the readers. `QueueStep` is a step of `RunQueue` conjoined with the publication the
step ends in (`LastWord`). Queues nobody reads (each worker subscribes one, and no queue is ever
removed) are left out; so is the heartbeat of `join`, which changes nothing. The status a reader finds when it takes a
message decides which model the event is made with (`EventModel`) and which of its fields gets the message's data (`EventFields`). What the
model refuses breaks the stream (`Read`). An agent streams objects, or texts for the runs in `Wordy`.

**`ThreadRuns`** adds threads and posts. `BeginPost` is `get_thread_by_id` up to the `await` of the agent's
state; `PostRun` and `RejectPost` are the rest of `ThreadRuns.put`, which does not suspend; `AbortPost` is an
agent whose state cannot be read. `ThreadRuns` has the record of a thread as present or not;
`Threads` has what is in it.

**`Tables`** is one operator, `Matching`: what a search of a table gives, in the order of its keys. `DB.search_run`, the search of threads and
that of agents are made of it. It is the `SelectSeq` of the matching elements, said by their ranks: the provers know nothing of `SelectSeq`, which is recursive.

**`Agents`** has no state: it is `load.py`, the two `load_agent` methods and `oas_generator.py` as operators
on a configuration, a sequence of records that say at which step, if any, an entry fails. `Resolves` is
`_resolve_agent`, `Flag` what a graph does to `DB._presist_threads`, `Document` the paths, tags, outputs and
webhooks left in the document of an agent, the rest the lookups of `apis/agents.py`.

**`Restart`** is the process around `ThreadRuns`: `Import` reads the file, `LoadAgent` registers entry after entry,
`Serve` starts the workers. `Exit`, `FailToLoad`, `CutSave` and `Kill` are the four ways a process stops:
orderly, orderly after a failed load (`start` logs the exception and returns, and the save registered with
`atexit` runs), killed while the pickle is written, killed. `Forget` is what all have in common: the queue,
the workers, the waiting requests and the tables of the old process are gone. `stranded` and
`promised` are history variables: the runs that were unfinished when the file was read, and what complete
saves have held. A thread stays in `promised.threads` once a process whose last compiled graph has Postgres (`Durable`) has saved it, whatever is saved
later; `promised.erased` are those of them that the last save has left out, because it was cut short or came from a process that was not, or not yet, `Durable`.

**`Threads`** has, for each thread, its record (`table`, `metadata`) and the checkpoints the agent keeps of
it. In a LlamaIndex agent these are Python lists: `lists` are the lists, `current` which one a thread has, and an
execution has a reference to one of its own (`Begin`, `Record`), as in the code. Its operations do not
suspend, so patches and copies are one step (`PatchLlamaIndex`, `CopyLlamaIndex`). Those of a LangGraph agent do:
`BeginPatch`/`PatchState`/`FinishPatch`, `BeginCopy`/`ReadCopy`/`WriteCopy`; its checkpointer is external and
appends. A LangGraph agent without a checkpointer (`plain`) raises. `Page` and `SearchThread` are the search.
`used`, `latest`, `raced`, `written`, `forked` and `past` are history.

* An execution needs no record (`RunsUnder`): a run posted to no thread keeps its states under the id `_make_run` gave it, and with a LangGraph agent
  under the `thread_id` of its `config.configurable`, if it brings one. So a thread that is created may have states already, as it may under the
  id of a deleted one; that a new thread starts empty is claimed nowhere.
* A patch is `refused` when the agent does not take its values or the record is gone, and `failed` when it is answered as failed although its metadata are
  stored: the thread is read from the agent once more after the record (`Answered`), which a LangGraph agent may fail, and one without threads always does.
* The metadata of a patch replace those of the thread, as `DB.update_thread` does.

**`Api`** composes `ThreadRuns` and `Agents` with the endpoints. Each one that changes something, or may be refused,
is an action that sets `reply` to the answer; those that only read (`GetRun`, `SearchRuns`, `GetThreadRun`,
`ListThreadRuns`, `GetThread`, ...) are operators that give the answer in a state. A request is its agent, its `stream_mode` and `on_disconnect`, and whether it
matches the schemas and has a usable webhook; `Body` is what the model is given, and `Judge` and `ValidateStateful` are what the dependencies of
the two kinds of routes make of it. What runs and outputs look like in an answer is put together with the models (`StatelessRun`, `StatefulRun`,
`Result`, `Interrupted`, `Failed`, `Respond`): an answer that no model takes is a 500. `route` is the API a client waits through, because the two answer differently.
`Gives` is the kind of the values each run's agent gives, as results and as interrupts alike: a text, an object or None. A run posted to no thread has a `thread_id` all the same (`NewIds`):
it is in the answer, and a thread may be created under it later. Three requests fail after they have stored something (`TellLate`, `ReplyLate`): the run of a thread
that names no agent (`CreateAgentless`), a copy whose agent cannot be asked (`CopyThread`), and a patch whose thread cannot be read again (`PatchThread`); `touched` is the
thread whose metadata the step replaced.

**`RunQueue_proofs`**, **`RunLifecycle_proofs`**, **`ThreadRuns_proofs`**, **`RunStream_proofs`**,
**`Restart_proofs`**, **`Threads_proofs`** and **`Api_proofs`** hold the theorems about the module they are named for,
**`Tables_proofs`** the lemmas about tables, searches, pages and models that several of them use. The `MC*`
modules name the model values; `MCApi` and `MCRestart` also spell out configurations.

In each module a definition marked *Faulty* precedes the one it would replace. It is a bug the code
could plausibly have, and no specification uses it; substituted for the real definition it breaks
the property named with it in `PROJECT.json` ("mutants"), which shows that the property tells the
two apart.

## Runs

| Run | Instance | Shows |
|---|---|---|
| `queue_safety` | 2 runs (`r1` with a webhook that may reject), 2 workers, 1 waiting client, 3 attempts, both deletable; 162 k states | type correctness; `NoLostRun`, rejecting webhooks and deletions included; `PlainAnswersFit` |
| `queue_live` | the same with a webhook that does not reject, 1 resume, no deletions, under `FairSpec`; 214 k states | `Exclusive`, `RestedIsIdle`: one carrier, none at rest; `RetryBudget`; `SuccessIsFinal`; `RunsSettle`, `WaitsReturn`; `ImplementsLifecycle`: safety and liveness of `RunLifecycle` |
| `stream` | 1 reader, 2 runs, 2 workers, 2 attempts, `r1` with a webhook, `r2` streaming texts, both deletable; 239 k states | `EndIsAnnounced`, `DoneIsLast`, `StreamsClose`, `OnlyFailuresEndEarly`; `EventsAreTold`, `ErrorsAreErrors`: an event is read as what it is |
| `restart` | 6 configurations, 2 runs (`r1` with a webhook that may reject), 1 thread, 2 posts, 1 worker, 2 attempts; 1.2 M states | `NoRunLostSinceStart`, `KeptResults`, `KeptThreads`, `ServesConfigured`; `NewRunsAlternate` |
| `threads` | 3 kinds of agent, 2 threads, 2 patches, 1 copy, 1 execution, 2 checkpoints; 1.4 M states, symmetric in threads and patches | `HistoryKept`, `MetadataKept`, `RefusedPatchIsHidden`, `CopyIsSnapshot`, `PagesAreWhole` |
| `api` | 1 agent, 2 runs (`r1` with a webhook and given texts, `r2` given None and deletable), 2 threads, 1 client, 1 worker, 1 attempt, 1 resume; 394 k states, symmetric in threads | `AcceptedIsQueued`, `WaitReplyFits`, `ViewsAgree`, `RefusedLeavesNoTrace`, `DeletedThroughItsThread` |
| `wait_after_delete` | violated: `WaitsReturn` | deleting a queued run stops all workers for good |
| `success_then_webhook_error` | violated: `SuccessIsFinal` | a rejecting webhook re-executes a finished run |
| `wait_during_webhook` | violated: `AnswersFit` | status `error` is visible before its output |
| `stream_status` | violated: `StatusIsOfGeneration` | events carry a later status than the documented one |
| `metadata_replaced` | violated: `MetadataMerged` | a patch replaces the metadata it is documented to merge |
| `pending_run_on_deleted_thread` | violated: `PendingHasThread` | a thread is deleted under a post in progress |

The findings in `PROJECT.json` quote the line each violated property comes from.

**Bounds.** Two workers and two runs are the least at which a run can be taken by a second worker
while the first is suspended, and at which one run's fate (a deletion, a webhook) reaches another's.
`MaxAttempts = 3` is the code's value; the stream and restart instances use 2, which keeps a first,
a retried and a refused pick-up, and `api` uses 1, because what it asks of a run is asked at its ends.
`MaxResumes` bounds `Resume` only: with 1 there is a life before and one after it, and the attempts are
reset once. It is 0 where a webhook may reject (`queue_safety`, `restart`): a run resumed while its former worker is in such a webhook
has two holders that reset each other's counts, and executes without end. It is 0 in `stream` for the
size of the instance; `EndAnnounced` covers resumes. `MaxUnread` bounds how far the agent may run ahead of a
reader; 2 lets an event be read after the message that follows it was published. One run streams objects and one texts (`Wordy`), so both the value an error refuses and the one it takes occur. `MaxHistory` lets a list be
empty, started and appended to. `Runs` is finite because every create uses up an id. In `restart` the
configurations are none at all, one Postgres graph, the same followed by a graph without a checkpointer, a workflow followed
by the Postgres graph (its manifest on the second path), and two that fail, on the second and on the first entry;
starts and stops are not bounded.

In `api` the agent's id is a UUID; a stateless run for an id that is none would be refused where one with a webhook that is no URL is (`MakeRun`). Only of a run in `Deletable` does a client name the `thread_id` it was given
(`NewIds`), which is what `DeletedThroughItsThread` needs. Threads are symmetric: nothing but their ids tells them apart, and no property names one. States that differ only in an answer that is about no run are one
(`VIEW Essentials`): no action reads `reply` or `touched`, the invariants look at answers about a run, and TLC evaluates the action properties, `RefusedLeavesNoTrace` and
`DeletedThroughItsThread`, at every step it makes, whether or not the state it leads to is new.

The state spaces are finite without any other constraint. Deadlock is not checked: a server whose
runs are done, or whose workers are dead, stops.

**Fairness.** Every worker, every notified waiter and `CancelWorkers` are weakly fair, because the event
loop eventually runs each task that can run, and a worker suspended in a webhook goes on: httpx's default
timeout ends every call, as a `RequestError`, which is caught. That an agent's stream ends is an assumption
about the agent; nothing in the server limits it. In `RunStream` a client that opened a stream reads it.
No fairness is assumed of requests: nobody need create, resume, delete or wait; nor of starts and stops.

## Proofs

All hold for any sets of runs, workers, clients, readers, threads and requests, and any bounds > 0. "No webhook
rejects" is `Flaky = {}`.

**`RunQueue_proofs`**

* `TypeCorrect`: `Spec => []TypeOK`. `TypeOK` is inductive together with `WaitsForRun`: a waiter's run has
  been created, which is what gives `Wake` a status to return.
* `OneCarrier`: `Spec => [](Exclusive /\ RestedIsIdle)` if no webhook rejects (`RestIsLeftAlone` names the second half).
  Neither conjunct is
  inductive alone. `Put` and `Resume` enqueue blindly, so they need that a run at rest has no carrier;
  a worker that brings a run to rest must have been its only carrier. Each step of the system either
  enqueues a run nobody carries (`EnqueueStep`), dequeues one (`DequeueStep`), or leaves the queue alone and
  hands nobody a run (`QuietStep`). The assumption is needed: `HookRejects` re-queues a run that a
  client may have resumed meanwhile.
* `NothingLost`: `Spec => []NoLostRun` with rejecting webhooks and deletions included. It is inductive over
  `TypeOK`: whoever puts a run down has given it a result, exhausted its attempts, queued it, or died,
  and a death takes `pool` away from `"up"` for ever.
* `SuccessStays`: `Spec => SuccessIsFinal` if no webhook rejects, from `OneCarrier`: only a carrier changes the
  status of a run, and a successful run has none.
* `RetriesBounded`: `Spec => []RetryBudget` if no webhook rejects. The count of attempts lives in three places:
  the stored run info, the copy of the worker that carries the run, and what really happened (`tries`).
  `Budget` says that the three agree for as long as somebody carries the run, which `OneCarrier` makes
  inductive: a second carrier would count from a stale copy.
* `AnswersBelong`: `Spec => []PlainAnswersFit` if no webhook rejects. `OutputsFit`: the status of a run without a
  webhook and its output change in one step, except when it gives up, where the output is that of its last
  failed attempt; so a run that is queued with attempts counted, or about to be, must have an error stored. That is inductive
  only with `Carried` (nobody else ends the run meanwhile) and `Budget` (a put or resumed run has no attempts).

**`RunLifecycle_proofs`** proves `LifecycleImplemented`: `Spec => Lifecycle!Spec` if no webhook rejects and nobody
deletes runs. `WorkerFocus` says that a worker's step is about one run and leaves the life of every other as
it is; `WorkerWorks` maps that run's step to `Try`, `End`, `GiveUp` or a stutter. It rests on `Carried` (a driven run is
`working`), `Budget` (the abstract `GiveUp` needs all attempts used) and `Tried` (only what the agent executed
has a result). With deletions the mapping fails for good reason: a worker that meets a deleted run
dies, the pool goes down, and the remaining runs, in `error` and carried, seem to fail at once.

**`ThreadRuns_proofs`**: `ThreadsImplementQueue`, `ThreadSpec => Spec`, carries everything above over to runs on threads, as
`ThreadsLoseNoRun` does for `NoLostRun`; `ThreadTypeCorrect`; and `NewRunsNeverMeet`, `NewRunsAlternate` without
any assumption on webhooks. `PostRun` needs that no run of the thread is *pending*; what could bring a second first attempt is a run that becomes pending again without being
put. `FirstRuns` excludes that: a run in its first attempt is queued once or in the hands of one worker (`FirstIsAlone`), also where webhooks reject and `Carried` does not
hold, and until its agent runs it is pending (`UntriedIsPending`), so that whatever sets a run back to pending does so to one that has been tried (`FirstAttemptIsNew`).

**`Tables_proofs`** has what the proofs about data keep needing. A table of keys stays one, without duplicates, when a key is added (`KeyAdded`) or taken out
(`KeyRemoved`, over `RemoveAtProperties`); a search finds what matches, once, and nothing else (`MatchingProperties`, which rests on `Ranks`: the k-th
of the matching places exists and is one); a place of a list is on exactly one page (`OnOnePage`). Of models: what a constructor took is read back by the
same model (`ReadBack`), a reader that takes other types refuses it (`TypeTells`), so of a choice one model reads it (`OneReads`).

**`RunStream_proofs`**

* `StreamTypeCorrect` rests on `HoldsKnown` and `OpenKnown`, workers and readers have only runs that were
  created, because what is published carries a status.
* `EndAnnounced`: `Spec => []EndIsAnnounced`, with webhooks that reject. A run gets its result in the step that publishes `done`, or in one that
  leaves its worker in the webhook before it (`EndsByWorker`); from there the worker publishes (`HookLeads`, `EndIsPublished`), is cancelled, or makes
  of the result an error when the webhook rejects; and nobody opens a stream on a run that has a result.
* `DoneComesLast`: `DoneIsLast`, with webhooks that reject, where `Carried` does not hold. Before a resume it does in another form:
  `InOneHand` counts as a holder the worker in the webhook after a result too, because it may publish `done` or run the agent again. Who publishes has
  the run in its hand and, if it publishes `done`, no more (`EntersFromHand`); a run in nobody's hand stays so until it is resumed
  (`RestedStays`). So `DoneEnds` is inductive: a `done` is a reader's last message, and by then nobody has the run who could publish another.
* `EventsReadAsSent`: `EventsAreTold`. `EventsMade` says that an event was made by the constructor that the status at its reading asks for; then, for
  each of the models, what its constructor takes is read as that model and no other (`EventIsTold`).
* `ErrorsTold`: `ErrorsAreErrors`. `ObjectsDescribeNothing` says that no event of an error is made with an object,
  whatever the run; so a label `error` comes from a published error or from a text, and `Read` is the only step that sets a label.
* `EarlyEndsAreFailures`: `OnlyFailuresEndEarly`, an action property. `PendingTakesAll` says that while the run is pending whatever was published makes an
  event, so the stream does not break; and `done` is not there to be read, by `DoneEnds`.

**`Restart_proofs`**: `RestartTypeCorrect`, `StartLosesNoRun` (`NoRunLostSinceStart`), `ResultsSurvive` (`KeptResults`, if no webhook
rejects), `ThreadsSurvive` (`KeptThreads`). What happens while the server is up is a step of `ThreadRuns` and of `RunQueue`, so
the lemmas about their steps are used as they are; a start has to show that what it reads from the file satisfies their
invariants. `RestartInv` is `RestartTypeOK`, `WaitsForRun` and `AtStart`: a process that is not up has an empty queue, idle workers and nobody who
waits. `StartLosesNoRun` is `NothingLost` with the runs in `stranded` set apart; it needs `StrandedAreKnown`: while a server loads, every run that
is owed an execution is in `stranded`. `ResultsSurvive` rests on `ResultsInv`: nobody carries a run that has its result (`Carried`), a success has
a value in the tables and in the file, and the results promised are in both. `ThreadsSurvive` rests on `ThreadsInv`: a process that is `Durable` has the flag `persist`
set (`FlagFollows`, entry by entry), so its save leaves out no thread there is; and promised threads are in the file and, while a process runs, present, but for those in `erased`. Saves of any kind keep the
promise, so the theorem says of each how a thread can be lost: its own deletion, a cut save, or the save of a process that is not `Durable`. `AllAgentsServed`: `ServesConfigured` at every list of entries that `Configs` may hold. `AgentsInv` says that what is loaded is the beginning of what
is configured, and all of it once the process is up; `DocumentsFit` follows a document through the steps of its generator, and
`RegisteredIsFound` is `MatchingProperties` of the table of agents. `ConfigsAssumption` says no more than
that a configuration is a sequence: a server without `AGENTS_REF` starts, and serves nothing.

**`Threads_proofs`**

* `MetadataStays` (`MetadataKept`) and `RefusedPatchesHidden` (`RefusedPatchIsHidden`). `MetadataInv`: both the metadata stored and those that any patch
  in progress has read are the latest, unless the thread is in `raced`. `StoredInv`: all metadata stored in a record or read by a patch come from
  patches that have stored their record, whether they are answered as done or as failed. The steps fall in four kinds (`Kinds`): those that leave records and patches alone, those that store a record, those that
  move a patch on, and those that write what a patch brings.
* `ThreadsTyped` (`ThreadsTypeOK`). `TypesInv` adds to the types that the table has no thread twice, that a call
  under way is about ids in use (`Placed`), by a record or a run, and so is whatever has a list; a deletion takes neither back.
* `HistoriesKept`: `HistoryKept`. `ListsInv` says whose a list is: it is used by one thread, the one that shows it or whose executions hold it (`Uses`); one that a
  call may still start (`Fresh`) is empty and nobody's; an execution holds its thread's list, unless that was replaced (`HoldsRight`). Every step
  then leaves the lists alone (`StillStep`) or appends to one list of one thread (`TouchStep`), and the invariant is proved of
  these two shapes (`ListsStill`, `ListsTouched`), each action being one of them. Without `Fresh`, an append by one call could show in a list another one is about to start.
* `CopiesAreSnapshots`: `CopyIsSnapshot`, an action property. `ShownInv`: what a thread of a LlamaIndex agent shows, it is known to have shown.
* `SearchesAreWhole`: `PagesAreWhole`, from `MatchingProperties` and the arithmetic of pages (`PagesMeet`, `OnePage`).

**`Api_proofs`** begins with the kinds of steps: whatever its route, a request is answered and changes nothing, stores a run (`Admission`), changes the threads
(`OnThreads`), asks what became of a run, resumes one (`Resumption`) or deletes one (`Deletion`). `ApiCases` brings the endpoints down to these, and
`QueueCases` what the queue sees of them, so that the lemmas about operations of the queue are used as they are. An interface step is no step of `RunQueue`, because a
client may wait and be told in ways that the queue has no part in, so nothing is carried over by implication.

* `ApiTypeCorrect` (`ApiTypeOK`): `TypesInv`, with `WaitsForRun` and `OrderOK`, the keys of `DB._runs` are the runs that are there; a step that makes or takes a run
  away is an `Admission` or a `Deletion` (`RunsComeAndGo`).
* `RefusalsChangeNothing` (`RefusedLeavesNoTrace`) and `RunsGoThroughTheirThread` (`DeletedThroughItsThread`), action properties, from the kinds of steps. A worker's step
  has no answer: it neither creates nor deletes a run (`WorkersKeepRuns`). The three late failures are the `Admission` of an agentless run, `OnCopies` and `OnPatches`,
  and `Traceless` says of each what it leaves.
* `AcceptedRunsAreQueued` (`AcceptedIsQueued`) if no webhook rejects: `Carried` holds behind the interface too (`ApiCarried`), since it puts only new
  ids and resumes only runs that wait for input.
* `WaitersAreTold` (`WaitReplyFits`) if no webhook rejects. The status and the output are read from two tables, after the run has ended and others may have resumed it: `Valued` says
  that a success has a value stored and an interrupted run an interrupt, webhooks included, and `Carried` that nobody is there to overwrite it. Then
  the model the answer is made with takes that output and no other (`OutputTold`, `OutputRead`, over `OneReads`), through either API (`TellsFit`).
* `ApiLosesNoRun`: `NoLostRun` of the queue, for every request of the interface and with webhooks that reject.
* `SearchesAgree` (`ViewsAgree`): needs the types only. A run that is there is at one place of the table, the search has it at one (`MatchingProperties`), and
  the pages at one of theirs (`ShownOnce`); what is found names an agent, so that an answer can be made of it (`RunsShown`).

Three forms in the modules are chosen for the provers, and mean what the plain ones do: a key is taken out of a table with `RemoveAt` where it stands,
searches are `Matching`, and names of paths have no spaces, the empty text being `Blank`.

Every safety invariant and every action property of the passing runs is a theorem. Model-checked only:

* what is claimed under fairness: `RunsSettle`, `WaitsReturn`, `StreamsClose` and the liveness of `ImplementsLifecycle` (`LifecycleImplemented` is the rest
  of it), which is outside the proof system's reach;
* the runs that expect a violation, each a behaviour TLC shows.

The theorems that assume `Flaky = {}` need it: `success_then_webhook_error` shows what a rejecting webhook does to a run that has succeeded.

## Divergences met on the way

The six runs that expect a violation show one divergence each. These were met while reading and are in the models as the
code has them, without a run of their own:

* `POST /runs` without `agent_id` is answered with 404, although the API says the default agent is used: the route's validation
  runs before the dependency that fills the default in. `MakeRun`: an agent id that is no UUID is a 500.
* `POST /threads/{id}/runs` passes FastAPI a coroutine nobody awaits: 500, and no run (`CreateThreadRun`). Of the routes that
  make runs on threads only the one that waits works; without an agent it stores and queues a run and answers 500
  (`CreateAgentless`), and that run then breaks the lookups that show it.
* A wait on a run of a thread knows no interrupts: an interrupted run whose value is a text is told with 200 as an error, any other value is a 500 (`StatefulReply`;
  `WaitReplyFits` exempts the text); any thread will do for any run. A run deleted while it
  is waited for: 500.
* Searching runs by metadata raises as soon as there is a run.
* An object the agent streamed while the run was pending, read after the attempt failed, becomes the `description` of a `ValueRunErrorUpdate`, which takes
  texts only: the reader's stream breaks with a `ValidationError`. A text passes for the error's (`Read`, `ErrorsAreErrors`).
* A body with any `stream_mode` is refused with 422, because no `StreamMode` can be made from JSON (`StreamModeOfBody`): the 501 for modes
  other than `values` is never given over HTTP.
* A reader whose worker is cancelled by `start_workers` while in its webhook never gets `done` (`EndIsAnnounced` exempts it).
* A start that fails while agents are loaded saves, and if the flag was not yet set, erases the threads of the last save
  (`FailToLoad`), as a server does that has no graph or whose last has no Postgres; the graph loaded last decides whether threads are saved at all (`Flag`); a save cut short erases everything (`CutSave`).
* A thread created under the id of a deleted one has the old one's state, and one created under the `thread_id` of a stateless run, or one a client configured, has that run's:
  it lists the run and lets it be deleted (`Store`, `DeleteThreadRun`).
* A patch whose thread cannot be read again is answered as failed with its metadata stored, as every patch of metadata is for an agent without
  threads (`Answered`); a copy that fails leaves a new thread without state (`AbandonCopy`); of two patches at once one may write
  back what it read before the other.
* An agent that does not support interrupts keeps them in its OpenAPI document: what `_gen_oas_interrupts` looks for is in no path (`GenInterrupts`).

## Not modelled

The routes of `generated/apis`, which `main.py` does not include, and of `generated/models` the models of searches, agents, threads in answers, messages
and content, and `run` and `run_create`, which nothing uses: what handlers do with searches and agents is in `Api` and `Agents` without those
models' fields. The parts of JSON-schema validation,
interrupt matching and OpenAPI schemas that compute on payloads: they succeed, fail or do not matter to any property. Logging. `Runs.wait`,
`Runs.get_all`, `Runs.delete`, `list_threads` and `remove_queue` have no caller. Clients that disconnect: their queues stay subscribed
and nothing else changes. Metadata searches of runs, which raise. The `limit` of a thread's history, which gives the oldest checkpoints of a
LlamaIndex thread and the newest of a LangGraph one.

## Plan

1. An abstract specification of the streams, of which `RunStream` is an implementation: a reader gets a part of the run's messages in
   their order, and its end last.
2. `AcceptedIsQueued`, `WaitReplyFits` and `KeptResults` with webhooks that reject, of the runs that have none.
3. Several answers at once in `Api`, so that two clients may wait for one run.
4. `Threads` and `ThreadRuns` as one composition, with executions that are runs of the queue.
