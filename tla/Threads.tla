------------------------------- MODULE Threads -------------------------------
(***************************************************************************)
(* Threads and the states an agent keeps of them: services/threads.py with *)
(* the thread operations of the two adapters (agents/adapters).  A thread  *)
(* has a record in DB._threads and checkpoints in the agent, which nothing *)
(* ties together; requests that change them and executions of its runs     *)
(* overlap.                                                                *)
(*                                                                         *)
(* A LlamaIndex agent keeps, per thread, a Python list in its own memory,  *)
(* and its operations do not suspend; an execution takes a reference to    *)
(* the list when it starts and appends to it as it goes.  Those of a       *)
(* LangGraph agent suspend, and its checkpointer, external, adds a         *)
(* checkpoint to whatever the thread has; without one the agent supports   *)
(* no threads and raises.                                                  *)
(*                                                                         *)
(* A checkpoint is known by the call that made its values and the call     *)
(* that stored it; metadata are sets of entries, each known by the patch   *)
(* that brought it.  A run has a thread id of its own, of a thread or made *)
(* for it, and keeps its states there or, with LangGraph, under the id its *)
(* client configures: an id may have states before it has a record.  A     *)
(* thread is not deleted while a run under its id is executed, one between *)
(* two attempts of a run may be (see ThreadRuns).                          *)
(***************************************************************************)
EXTENDS Naturals, SequencesExt, Tables

CONSTANTS
  ThreadIds,
  Patches,    \* PATCH /threads/{thread_id}, each made once
  Copies,     \* POST /threads/{thread_id}/copy, each made once
  Execs,      \* runs executed, on a thread or on none
  NoCall,
  Frameworks, \* the agents considered: llamaindex, postgres, plain
  MaxHistory  \* bound: checkpoints in a list before an execution streams more

Calls == Patches \cup Copies \cup Execs

ASSUME CallsAssumption ==
  /\ NoCall \notin Calls
  /\ Patches \cap Copies = {} /\ Patches \cap Execs = {} /\ Copies \cap Execs = {}
ASSUME FrameworksAssumption ==
  /\ Frameworks \subseteq {"llamaindex", "postgres", "plain"}
  /\ MaxHistory \in Nat \ {0}

VARIABLES
  framework, \* the agent's kind; it never changes
  table,     \* DB._threads, in the order of its keys
  metadata,  \* DB._threads[t]["metadata"]: the patches its entries come from
  lists,     \* the lists of checkpoints, by the call that started them
  current,   \* self.checkpoints[t], as the list it refers to
  call,      \* the requests and executions
  used,      \* history: the ids that had a record or were given to a run
  latest,    \* history: the last metadata a patch stored
  raced,     \* history: threads whose metadata changed under another patch
  written,   \* history: who stored checkpoints of a thread
  forked,    \* history: threads whose list was replaced by one started before it
  past       \* history: metadata and values a thread had at once

records == <<table, metadata>>
checkpoints == <<lists, current, written, forked>>
threadsVars == <<framework, records, checkpoints, call, used, latest, raced, past>>

-----------------------------------------------------------------------------
Checkpoint == [values : Calls, by : Calls]
\* Where a request has come to; thread is the one it is about or, of a run, the
\* id of its states; target the id a copy makes or a run has for its own.
Unused == [at |-> "unused", thread |-> NoCall, target |-> NoCall,
           list |-> NoCall, values |-> NoCall, read |-> {}, new |-> FALSE]

Exists(t) == \E i \in DOMAIN table : table[i] = t
\* get_history of a thread, without limit.
HistoryIn(ls, cur, t) == IF cur[t] = NoCall THEN << >> ELSE ls[cur[t]]
History(t) == HistoryIn(lists, current, t)
\* get_agent_state: the values of the last checkpoint.
ValuesIn(h) == IF h = << >> THEN NoCall ELSE h[Len(h)].values
Busy(t) == \E e \in Execs : call[e].at = "running" /\ call[e].target = t

ThreadsInit ==
  /\ framework \in Frameworks
  /\ table = << >>
  /\ metadata = [t \in ThreadIds |-> {}]
  /\ lists = [c \in Calls |-> << >>]
  /\ current = [t \in ThreadIds |-> NoCall]
  /\ call = [c \in Calls |-> Unused]
  /\ used = {} /\ raced = {} /\ forked = {}
  /\ latest = [t \in ThreadIds |-> {}]
  /\ written = [t \in ThreadIds |-> {}]
  /\ past = [t \in ThreadIds |-> {}]

\* What a thread of a LlamaIndex agent shows after a step, for CopyIsSnapshot.
Witness ==
  past' = [t \in ThreadIds |-> IF t \in used' /\ framework = "llamaindex"
    THEN past[t] \cup {<<metadata'[t], ValuesIn(HistoryIn(lists', current', t))>>} ELSE past[t]]

-----------------------------------------------------------------------------
(* The record of a thread                                                  *)

\* Another request is patching the thread.
Patching(t, p) == \E q \in Patches : q # p /\ call[q].at = "patching" /\ call[q].thread = t

\* Faulty Store: an id that is taken gets a record all the same.
StoreAgain(t, m) ==
  /\ table' = Append(table, t)
  /\ metadata' = [metadata EXCEPT ![t] = m]
  /\ latest' = [latest EXCEPT ![t] = m]
  /\ used' = used \cup {t}
  /\ raced' = IF Patching(t, NoCall) THEN raced \cup {t} ELSE raced

Store(t, m) ==
  /\ ~Exists(t)
  /\ table' = Append(table, t)
  /\ metadata' = [metadata EXCEPT ![t] = m]
  /\ latest' = [latest EXCEPT ![t] = m]
  /\ used' = used \cup {t}
  /\ raced' = IF Patching(t, NoCall) THEN raced \cup {t} ELSE raced

\* A thread that exists already is returned or refused: nothing changes.
CreateThread(t) ==
  /\ Store(t, {})
  /\ UNCHANGED <<framework, checkpoints, call>>

\* The agent is not told.
DeleteThread(t) ==
  /\ ~Busy(t)
  /\ \E i \in DOMAIN table : table[i] = t /\ table' = RemoveAt(table, i)
  /\ UNCHANGED <<framework, metadata, checkpoints, call, used, latest, raced>>

-----------------------------------------------------------------------------
(* The checkpoints of a thread                                             *)

\* update_agent_state appends to the list there is, or starts one.
AddState(c, t, v) ==
  LET l == IF current[t] = NoCall THEN c ELSE current[t] IN
  /\ lists' = [lists EXCEPT ![l] = Append(@, [values |-> v, by |-> c])]
  /\ current' = [current EXCEPT ![t] = l]
  /\ written' = [written EXCEPT ![t] = @ \cup {c}]
  /\ UNCHANGED forked

\* What a request knows is gone when it ends.
Finished(c, at) == call' = [call EXCEPT ![c] = [Unused EXCEPT !.at = at]]

\* The ids of a run: u is the thread it is posted to, which may be gone by now
\* (see ThreadRuns), or one made for it; t is u, unless a LangGraph run brings
\* its own in config.configurable.  No record is looked up.
RunsUnder(e, t, u) ==
  /\ framework # "plain"
  /\ \/ call[e].at = "unused" /\ (t = u \/ framework = "postgres")
     \/ call[e].at = "retry" /\ t = call[e].thread /\ u = call[e].target

\* Faulty Begin: what a run streams goes to a list of its own.
BeginOwnList(e, t, u) ==
  /\ RunsUnder(e, t, u)
  /\ call' = [call EXCEPT ![e] =
       [Unused EXCEPT !.at = "running", !.thread = t, !.target = u, !.new = (current[t] = NoCall)]]
  /\ used' = used \cup {t, u}
  /\ UNCHANGED <<framework, records, checkpoints, latest, raced>>

\* astream takes its reference to the list before the agent runs.
Begin(e, t, u) ==
  /\ RunsUnder(e, t, u)
  /\ call' = [call EXCEPT ![e] =
       [Unused EXCEPT !.at = "running", !.thread = t, !.target = u, !.list = current[t], !.new = (current[t] = NoCall)]]
  /\ used' = used \cup {t, u}
  /\ UNCHANGED <<framework, records, checkpoints, latest, raced>>

\* An event of a LlamaIndex workflow, or its end: the list of this execution
\* becomes the thread's, whatever that is by now.
Record(e) ==
  LET t == call[e].thread
      l == IF call[e].list = NoCall THEN e ELSE call[e].list IN
  /\ call[e].at = "running" /\ framework = "llamaindex" /\ Len(lists[l]) < MaxHistory
  /\ lists' = [lists EXCEPT ![l] = Append(@, [values |-> e, by |-> e])]
  /\ current' = [current EXCEPT ![t] = l]
  /\ written' = [written EXCEPT ![t] = @ \cup {e}]
  /\ call' = [call EXCEPT ![e].list = l]
  /\ forked' = IF call[e].list = NoCall /\ call[e].new /\ current[t] # NoCall THEN forked \cup {t} ELSE forked
  /\ UNCHANGED <<framework, records, used, latest, raced>>

\* A step of a LangGraph graph, checkpointed by the library.
RecordGraph(e) ==
  /\ call[e].at = "running" /\ framework = "postgres" /\ Len(History(call[e].thread)) < MaxHistory
  /\ AddState(e, call[e].thread, e)
  /\ UNCHANGED <<framework, records, call, used, latest, raced>>

\* The run ends, for good or until its next attempt or resumption; its reference
\* to the list is gone.
End(e) ==
  /\ call[e].at = "running"
  /\ call' = [call EXCEPT ![e] =
       [Unused EXCEPT !.at = "retry", !.thread = call[e].thread, !.target = call[e].target]]
  /\ UNCHANGED <<framework, records, checkpoints, used, latest, raced>>

-----------------------------------------------------------------------------
(* PATCH: the agent's state first, then the record.                        *)

\* Faulty StoreMetadata: a patch without metadata stores None.
StoreNoMetadata(p, t, read, new) ==
  /\ metadata' = [metadata EXCEPT ![t] = IF new THEN {p} ELSE {}]
  /\ latest' = IF new THEN [latest EXCEPT ![t] = {p}] ELSE latest
  /\ raced' = IF new /\ Patching(t, p) THEN raced \cup {t} ELSE raced

\* A patch without metadata writes back those it read.
StoreMetadata(p, t, read, new) ==
  /\ metadata' = [metadata EXCEPT ![t] = IF new THEN {p} ELSE read]
  /\ latest' = IF new THEN [latest EXCEPT ![t] = {p}] ELSE latest
  /\ raced' = IF new /\ Patching(t, p) THEN raced \cup {t} ELSE raced

Ready(p, t) == call[p].at = "unused" /\ Exists(t)

\* Once the record is stored the thread is read again: a LangGraph agent may fail
\* to answer, and one without threads refuses.
Answered(p) ==
  \E at \in {"done", "failed"} :
    /\ at = "failed" => framework # "llamaindex"
    /\ at = "done" => framework # "plain"
    /\ Finished(p, at)

\* Without values and checkpoint, the record is all there is to update.
PatchRecord(p, t) ==
  /\ Ready(p, t)
  /\ StoreMetadata(p, t, metadata[t], TRUE)
  /\ Answered(p)
  /\ UNCHANGED <<framework, table, checkpoints, used>>

PatchLlamaIndex(p, t) ==
  /\ Ready(p, t) /\ framework = "llamaindex"
  /\ AddState(p, t, p)
  /\ \E new \in BOOLEAN : StoreMetadata(p, t, metadata[t], new)
  /\ Answered(p)
  /\ UNCHANGED <<framework, table, used>>

\* Faulty BeginPatch: the record is updated before the agent.
BeginPatchRecord(p, t) ==
  /\ Ready(p, t) /\ framework = "postgres"
  /\ \E new \in BOOLEAN :
       /\ StoreMetadata(p, t, metadata[t], new)
       /\ call' = [call EXCEPT ![p] =
            [Unused EXCEPT !.at = "patching", !.thread = t, !.read = metadata[t], !.new = new]]
  /\ UNCHANGED <<framework, table, checkpoints, used>>

\* The record is read, and the agent asked to update its state.
BeginPatch(p, t) ==
  /\ Ready(p, t) /\ framework = "postgres"
  /\ \E new \in BOOLEAN : call' = [call EXCEPT ![p] =
       [Unused EXCEPT !.at = "patching", !.thread = t, !.read = metadata[t], !.new = new]]
  /\ UNCHANGED <<framework, records, checkpoints, used, latest, raced>>

\* The checkpointer has stored the values, while the request still waits.
PatchState(p) ==
  /\ call[p].at = "patching" /\ p \notin written[call[p].thread]
  /\ AddState(p, call[p].thread, p)
  /\ UNCHANGED <<framework, records, call, used, latest, raced>>

\* The record is written, if it is still there.
FinishPatch(p) ==
  LET t == call[p].thread IN
  /\ call[p].at = "patching" /\ p \in written[t]
  /\ IF Exists(t)
       THEN StoreMetadata(p, t, call[p].read, call[p].new) /\ Answered(p)
       ELSE Finished(p, "refused") /\ UNCHANGED <<metadata, latest, raced>>
  /\ UNCHANGED <<framework, table, checkpoints, used>>

\* The agent raises, at once or after a while, whether or not the values are
\* stored by then: the record is left alone.
RefusePatch(p, t) ==
  /\ Ready(p, t) \/ (call[p].at = "patching" /\ call[p].thread = t)
  /\ Finished(p, "refused")
  /\ UNCHANGED <<framework, records, checkpoints, used, latest, raced>>

-----------------------------------------------------------------------------
(* Copy: a record with the metadata first, then the agent's state.         *)

BeginCopy(c, t, u) ==
  /\ call[c].at = "unused" /\ Exists(t) /\ u \notin used
  /\ framework # "llamaindex"
  /\ Store(u, metadata[t])
  /\ call' = [call EXCEPT ![c] = [Unused EXCEPT !.at = "reading", !.thread = t, !.target = u]]
  /\ UNCHANGED <<framework, checkpoints>>

\* The agent's state has come; a thread that has none is copied.
ReadCopy(c) ==
  LET v == ValuesIn(History(call[c].thread)) IN
  /\ call[c].at = "reading" /\ framework = "postgres"
  /\ call' = [call EXCEPT ![c].at = IF v = NoCall THEN "done" ELSE "copying", ![c].values = v]
  /\ UNCHANGED <<framework, records, checkpoints, used, latest, raced>>

WriteCopy(c) ==
  /\ call[c].at = "copying"
  /\ AddState(c, call[c].target, call[c].values)
  /\ Finished(c, "done")
  /\ UNCHANGED <<framework, records, used, latest, raced>>

\* The agent cannot be asked, and the request fails: the new record stays.
AbandonCopy(c) ==
  /\ call[c].at \in {"reading", "copying"}
  /\ Finished(c, "done")
  /\ UNCHANGED <<framework, records, checkpoints, used, latest, raced>>

\* Faulty CopyLlamaIndex: the first checkpoint is copied, not the last.
CopyFirstState(c, t, u) ==
  /\ call[c].at = "unused" /\ Exists(t) /\ u \notin used /\ framework = "llamaindex"
  /\ Store(u, metadata[t])
  /\ IF History(t) = << >> THEN UNCHANGED checkpoints ELSE AddState(c, u, History(t)[1].values)
  /\ call' = [call EXCEPT ![c] = [Unused EXCEPT !.at = "done", !.thread = t, !.target = u]]
  /\ UNCHANGED framework

\* All in one step: only the last state is copied, not the history.
CopyLlamaIndex(c, t, u) ==
  /\ call[c].at = "unused" /\ Exists(t) /\ u \notin used /\ framework = "llamaindex"
  /\ Store(u, metadata[t])
  /\ IF History(t) = << >> THEN UNCHANGED checkpoints ELSE AddState(c, u, ValuesIn(History(t)))
  /\ call' = [call EXCEPT ![c] = [Unused EXCEPT !.at = "done", !.thread = t, !.target = u]]
  /\ UNCHANGED framework

-----------------------------------------------------------------------------
(* Threads.search                                                          *)

\* A filter on values finds nothing: a record has none.
SearchThread(meta) == Matching(table, {t \in ThreadIds : metadata[t] = meta})

\* Faulty Page: the limit is taken for the end.
PageToLimit(s, limit, offset) == SubSeq(s, offset + 1, IF limit < Len(s) THEN limit ELSE Len(s))

Page(s, limit, offset) ==
  SubSeq(s, offset + 1, IF offset + limit < Len(s) THEN offset + limit ELSE Len(s))

\* POST /threads/search: without metadata, all threads are listed.
SearchThreads(m, limit, offset) ==
  Page(IF m = {} THEN table ELSE SearchThread(m), limit, offset)

-----------------------------------------------------------------------------
Thread(t) == CreateThread(t) \/ DeleteThread(t)
Patch(p, t) == PatchRecord(p, t) \/ PatchLlamaIndex(p, t) \/ BeginPatch(p, t) \/ RefusePatch(p, t)
Copy(c, t, u) == BeginCopy(c, t, u) \/ CopyLlamaIndex(c, t, u)

ThreadsNext ==
  /\ \/ \E t \in ThreadIds : Thread(t)
     \/ \E p \in Patches : PatchState(p) \/ FinishPatch(p) \/ \E t \in ThreadIds : Patch(p, t)
     \/ \E c \in Copies : ReadCopy(c) \/ WriteCopy(c) \/ AbandonCopy(c)
     \/ \E c \in Copies, t, u \in ThreadIds : Copy(c, t, u)
     \/ \E e \in Execs : Record(e) \/ RecordGraph(e) \/ End(e) \/ \E t, u \in ThreadIds : Begin(e, t, u)
  /\ Witness

ThreadsSpec == ThreadsInit /\ [][ThreadsNext]_threadsVars

-----------------------------------------------------------------------------
(* Properties *)

ThreadsTypeOK ==
  /\ framework \in Frameworks
  /\ table \in Seq(ThreadIds) /\ \A i, j \in DOMAIN table : table[i] = table[j] => i = j
  /\ metadata \in [ThreadIds -> SUBSET Patches]
  /\ lists \in [Calls -> Seq(Checkpoint)]
  /\ current \in [ThreadIds -> Calls \cup {NoCall}]
  /\ call \in [Calls ->
       [at : {"unused", "patching", "reading", "copying", "running", "retry", "done", "failed", "refused"},
        thread : ThreadIds \cup {NoCall}, target : ThreadIds \cup {NoCall},
        list : Calls \cup {NoCall}, values : Calls \cup {NoCall}, read : SUBSET Patches, new : BOOLEAN]]
  /\ \A t \in ThreadIds : Exists(t) => t \in used

\* "Get all past states for a thread" (apis/threads.py:167): a checkpoint stays
\* in the history, whoever else patches the thread or executes runs on it; all that
\* is lost are checkpoints stored between the start of an execution on a
\* thread that has none and its first event.
HistoryKept ==
  \A t \in ThreadIds \ forked : written[t] = {History(t)[i].by : i \in DOMAIN History(t)}

\* A thread has the metadata it was last given, with or without those of before,
\* whatever else is under way: a patch that brings none changes none, unless it
\* had read those of before.
MetadataKept == \A t \in ThreadIds : Exists(t) => latest[t] \subseteq metadata[t] \/ t \in raced

\* generated/models/thread_patch.py:40, "Metadata to merge with existing thread
\* metadata": what a thread has stays when a patch brings an entry of its own.
MetadataMerged == [][\A t \in ThreadIds : Exists(t) /\ Exists(t)' => metadata[t] \subseteq metadata'[t]]_threadsVars

\* threads.py:202, "so if there was an error we dont update the DB": no thread, nor
\* a copy of it, shows the metadata of a patch whose values the agent has not
\* taken, or whose thread was gone by then.  A patch that fails after that does show.
RefusedPatchIsHidden == \A t \in ThreadIds : \A p \in metadata[t] : call[p].at # "refused"

\* A copy shows its thread at one moment: its metadata and values were the
\* original's at once.  A LangGraph agent is asked for the values later.
CopyIsSnapshot ==
  [][\A c \in Copies :
       framework = "llamaindex" /\ call[c].at = "unused" /\ call'[c].at = "done" =>
         <<metadata'[call'[c].target], ValuesIn(HistoryIn(lists', current', call'[c].target))>>
           \in past[call'[c].thread]]_threadsVars

\* Reading on from any offset yields each thread once, in order, whatever the
\* limit of a page.
PagesAreWhole ==
  \A m \in SUBSET Patches : LET all == SearchThreads(m, Len(table), 0) IN
    /\ \A i \in DOMAIN table : (m \in {{}, metadata[table[i]]}) <=> \E j \in DOMAIN all : all[j] = table[i]
    /\ \A limit \in 1..Len(all), offset \in 0..Len(all) :
         SearchThreads(m, limit, offset) \o SearchThreads(m, Len(all), offset + limit)
           = SubSeq(all, offset + 1, Len(all))
=============================================================================
