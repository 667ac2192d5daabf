---------------------------- MODULE Threads_proofs ----------------------------
(***************************************************************************)
(* What holds of the threads for every set of threads, requests and        *)
(* executions, however long their histories: of their metadata, their      *)
(* types, the lists that hold their values, their copies and the searches. *)
(* The metadata come first and do without the table: a thread that is      *)
(* deleted keeps in the model those it had, until a new record resets them.*)
(***************************************************************************)
EXTENDS Threads, Tables_proofs

\* The calls, as far as the metadata depend on them.
MetadataOK ==
  /\ metadata \in [ThreadIds -> SUBSET Patches]
  /\ latest \in [ThreadIds -> SUBSET Patches]
  /\ DOMAIN call = Calls
  /\ \A p \in Patches :
       /\ DOMAIN call[p] = {"at", "thread", "target", "list", "values", "read", "new"}
       /\ call[p].at = "patching" =>
            call[p].thread \in ThreadIds /\ call[p].read \in SUBSET Patches /\ call[p].new \in BOOLEAN

\* What a call is that has not been made.
LEMMA InitIsOK ==
  ASSUME ThreadsInit
  PROVE  MetadataOK /\ (\A p \in Patches : call[p].at = "unused") /\ metadata = latest
                    /\ \A t \in ThreadIds : metadata[t] = {}
BY DEF ThreadsInit, MetadataOK, Unused, Calls

(***************************************************************************)
(* The steps fall into four kinds, by what they do to metadata and patches.*)
(***************************************************************************)
SameMetadata == UNCHANGED <<metadata, latest, raced>>
SamePatches == \A p \in Patches : call'[p] = call[p]

\* Nothing of both.
QuietStep == SameMetadata /\ SamePatches

\* A record is stored, for a thread created or copied.
StoreStep == SamePatches /\ \E t \in ThreadIds, m \in SUBSET Patches :
  /\ metadata' = [metadata EXCEPT ![t] = m]
  /\ latest' = [latest EXCEPT ![t] = m]
  /\ raced' = IF Patching(t, NoCall) THEN raced \cup {t} ELSE raced
  /\ m = {} \/ \E u \in ThreadIds : m = metadata[u]

\* Only patch p moves.
OthersWait(p) == \A q \in Patches : q # p => call'[q] = call[q]

\* Patch p begins, or is refused.
MoveStep(p) ==
  /\ SameMetadata /\ OthersWait(p)
  /\ call[p].at \in {"unused", "patching"}
  /\ \/ call'[p] = [Unused EXCEPT !.at = "refused"]
     \/ \E t \in ThreadIds, new \in BOOLEAN :
          call'[p] = [Unused EXCEPT !.at = "patching", !.thread = t, !.read = metadata[t], !.new = new]

\* Patch p ends and writes the record of thread t over what it read.
WriteStep(p, t, read, new) ==
  /\ OthersWait(p)
  /\ StoreMetadata(p, t, read, new)
  /\ \/ call[p].at = "unused" /\ read = metadata[t]
     \/ call[p].at = "patching" /\ t = call[p].thread /\ read = call[p].read /\ new = call[p].new
  /\ \E at \in {"done", "failed"} : call'[p] = [Unused EXCEPT !.at = at]

Kinds ==
  \/ QuietStep \/ StoreStep
  \/ \E p \in Patches : MoveStep(p) \/ \E t \in ThreadIds, read \in SUBSET Patches, new \in BOOLEAN : WriteStep(p, t, read, new)

\* Copies and executions are no patches: what they do to their calls is not seen.
LEMMA KindsOfSteps ==
  ASSUME MetadataOK, [ThreadsNext]_threadsVars
  PROVE  Kinds /\ DOMAIN call' = Calls /\ UNCHANGED framework
<1> USE CallsAssumption DEF Calls, MetadataOK
<1>1. ASSUME NEW t \in ThreadIds, Thread(t) PROVE Kinds /\ DOMAIN call' = Calls /\ UNCHANGED framework
  <2>1. CASE CreateThread(t)
    <3>1. StoreStep
      BY <2>1 DEF CreateThread, Store, StoreStep, SamePatches
    <3> QED
      BY <2>1, <3>1 DEF CreateThread, Kinds
  <2>2. CASE DeleteThread(t)
    BY <2>2 DEF DeleteThread, Kinds, QuietStep, SameMetadata, SamePatches
  <2> QED
    BY <1>1, <2>1, <2>2 DEF Thread
<1>2. ASSUME NEW p \in Patches, NEW t \in ThreadIds, Patch(p, t)
      PROVE  Kinds /\ DOMAIN call' = Calls /\ UNCHANGED framework
  <2>1. CASE PatchRecord(p, t)
    <3>1. WriteStep(p, t, metadata[t], TRUE)
      BY <2>1 DEF PatchRecord, Ready, Answered, Finished, WriteStep, OthersWait
    <3> QED
      BY <2>1, <3>1 DEF PatchRecord, Answered, Finished, Kinds
  <2>2. CASE PatchLlamaIndex(p, t)
    <3>1. PICK new \in BOOLEAN : StoreMetadata(p, t, metadata[t], new)
      BY <2>2 DEF PatchLlamaIndex
    <3>2. WriteStep(p, t, metadata[t], new)
      BY <2>2, <3>1 DEF PatchLlamaIndex, Ready, Answered, Finished, WriteStep, OthersWait
    <3> QED
      BY <2>2, <3>2 DEF PatchLlamaIndex, Answered, Finished, Kinds
  <2>3. CASE BeginPatch(p, t)
    <3> DEFINE begun(new) == [Unused EXCEPT !.at = "patching", !.thread = t, !.read = metadata[t], !.new = new]
    <3>0. PICK new \in BOOLEAN : call' = [call EXCEPT ![p] = begun(new)]
      BY <2>3 DEF BeginPatch
    <3>1. MoveStep(p)
      <4>1. SameMetadata /\ call[p].at = "unused"
        BY <2>3 DEF BeginPatch, Ready, records, SameMetadata
      <4>2. OthersWait(p) /\ call'[p] = begun(new)
        <5> HIDE DEF begun
        <5> QED
          BY <3>0 DEF OthersWait
      <4> QED
        BY <4>1, <4>2 DEF MoveStep
    <3> QED
      BY <2>3, <3>1 DEF BeginPatch, Kinds
  <2>4. CASE RefusePatch(p, t)
    <3>1. MoveStep(p)
      BY <2>4 DEF RefusePatch, Ready, Finished, records, MoveStep, SameMetadata, OthersWait
    <3> QED
      BY <2>4, <3>1 DEF RefusePatch, Finished, Kinds
  <2> QED
    BY <1>2, <2>1, <2>2, <2>3, <2>4 DEF Patch
<1>3. ASSUME NEW p \in Patches, PatchState(p) \/ FinishPatch(p)
      PROVE  Kinds /\ DOMAIN call' = Calls /\ UNCHANGED framework
  <2>1. CASE PatchState(p)
    BY <2>1 DEF PatchState, records, Kinds, QuietStep, SameMetadata, SamePatches
  <2>2. CASE FinishPatch(p) /\ Exists(call[p].thread)
    <3>1. WriteStep(p, call[p].thread, call[p].read, call[p].new)
      BY <2>2 DEF FinishPatch, Answered, Finished, WriteStep, OthersWait
    <3>2. call[p].thread \in ThreadIds /\ call[p].read \in SUBSET Patches /\ call[p].new \in BOOLEAN
      BY <2>2 DEF FinishPatch
    <3> QED
      BY <2>2, <3>1, <3>2 DEF FinishPatch, Answered, Finished, Kinds
  <2>3. CASE FinishPatch(p) /\ ~Exists(call[p].thread)
    <3>1. MoveStep(p)
      BY <2>3 DEF FinishPatch, Finished, MoveStep, SameMetadata, OthersWait
    <3> QED
      BY <2>3, <3>1 DEF FinishPatch, Finished, Kinds
  <2> QED
    BY <1>3, <2>1, <2>2, <2>3
<1>4. ASSUME NEW c \in Copies, ReadCopy(c) \/ WriteCopy(c) \/ AbandonCopy(c)
      PROVE  Kinds /\ DOMAIN call' = Calls /\ UNCHANGED framework
  BY <1>4 DEF ReadCopy, WriteCopy, AbandonCopy, Finished, records, Kinds, QuietStep, SameMetadata, SamePatches
<1>5. ASSUME NEW c \in Copies, NEW t \in ThreadIds, NEW u \in ThreadIds, Copy(c, t, u)
      PROVE  Kinds /\ DOMAIN call' = Calls /\ UNCHANGED framework
  <2>1. StoreStep
    <3>1. SamePatches
      BY <1>5 DEF Copy, BeginCopy, CopyLlamaIndex, SamePatches
    <3>2. Store(u, metadata[t])
      BY <1>5 DEF Copy, BeginCopy, CopyLlamaIndex
    <3> QED
      BY <3>1, <3>2 DEF Store, StoreStep
  <2> QED
    BY <1>5, <2>1 DEF Copy, BeginCopy, CopyLlamaIndex, Kinds
<1>6. ASSUME NEW e \in Execs, Record(e) \/ RecordGraph(e) \/ End(e) \/ \E t, u \in ThreadIds : Begin(e, t, u)
      PROVE  Kinds /\ DOMAIN call' = Calls /\ UNCHANGED framework
  <2>1. CASE Record(e)
    BY <2>1 DEF Record, records, Kinds, QuietStep, SameMetadata, SamePatches
  <2>2. CASE RecordGraph(e)
    BY <2>2 DEF RecordGraph, records, Kinds, QuietStep, SameMetadata, SamePatches
  <2>3. ASSUME NEW k, call' = [call EXCEPT ![e] = k], UNCHANGED <<framework, records, latest, raced>>
        PROVE  Kinds /\ DOMAIN call' = Calls /\ UNCHANGED framework
    BY <2>3 DEF records, Kinds, QuietStep, SameMetadata, SamePatches
  <2>4. CASE End(e)
    BY <2>3, <2>4, Zenon DEF End
  <2>5. ASSUME NEW t \in ThreadIds, NEW u \in ThreadIds, Begin(e, t, u)
        PROVE  Kinds /\ DOMAIN call' = Calls /\ UNCHANGED framework
    BY <2>3, <2>5, Zenon DEF Begin
  <2> QED
    BY <1>6, <2>1, <2>2, <2>4, <2>5
<1>7. CASE UNCHANGED threadsVars
  BY <1>7 DEF threadsVars, records, Kinds, QuietStep, SameMetadata, SamePatches
<1> QED
  BY <1>1, <1>2, <1>3, <1>4, <1>5, <1>6, <1>7 DEF ThreadsNext

\* The calls stay what they are, whatever kind of step is taken.
LEMMA MetadataOKStep ==
  ASSUME MetadataOK, [ThreadsNext]_threadsVars
  PROVE  MetadataOK'
<1>1. DOMAIN call' = Calls /\ Kinds
  BY KindsOfSteps
<1>2. CASE QuietStep
  BY <1>1, <1>2 DEF QuietStep, SameMetadata, SamePatches, MetadataOK
<1>3. CASE StoreStep
  BY <1>1, <1>3 DEF StoreStep, SamePatches, MetadataOK
<1>4. ASSUME NEW p \in Patches, MoveStep(p) PROVE MetadataOK'
  <2>1. DOMAIN call'[p] = {"at", "thread", "target", "list", "values", "read", "new"}
    BY <1>4 DEF MoveStep, Unused, MetadataOK
  <2>2. call'[p].at = "patching" =>
          call'[p].thread \in ThreadIds /\ call'[p].read \in SUBSET Patches /\ call'[p].new \in BOOLEAN
    BY <1>4 DEF MoveStep, Unused, MetadataOK
  <2> QED
    BY <1>1, <1>4, <2>1, <2>2 DEF MoveStep, OthersWait, SameMetadata, MetadataOK
<1>5. ASSUME NEW p \in Patches, NEW t \in ThreadIds, NEW read \in SUBSET Patches, NEW new \in BOOLEAN,
             WriteStep(p, t, read, new)
      PROVE  MetadataOK'
  <2>1. /\ metadata' \in [ThreadIds -> SUBSET Patches]
        /\ latest' \in [ThreadIds -> SUBSET Patches]
    BY <1>5 DEF WriteStep, StoreMetadata, MetadataOK
  <2>2. DOMAIN call'[p] = {"at", "thread", "target", "list", "values", "read", "new"} /\ call'[p].at # "patching"
    BY <1>5 DEF WriteStep, Unused, MetadataOK
  <2> QED
    BY <1>1, <1>5, <2>1, <2>2 DEF WriteStep, OthersWait, MetadataOK
<1> QED
  BY <1>1, <1>2, <1>3, <1>4, <1>5 DEF Kinds

-----------------------------------------------------------------------------
(***************************************************************************)
(* What a patch that brings no metadata writes back is what it read, so    *)
(* the reads have to be right as well.                                     *)
(***************************************************************************)
Current(t, m) == latest[t] \subseteq m \/ t \in raced
MetadataInv ==
  /\ \A t \in ThreadIds : Current(t, metadata[t])
  /\ \A p \in Patches : call[p].at = "patching" => Current(call[p].thread, call[p].read)

\* Every step keeps them right, or marks the thread as raced for.
LEMMA MetadataStep ==
  ASSUME MetadataOK, MetadataInv, [ThreadsNext]_threadsVars
  PROVE  MetadataInv'
<1>1. Kinds
  BY KindsOfSteps
<1>2. CASE QuietStep
  BY <1>2 DEF QuietStep, SameMetadata, SamePatches, MetadataInv, Current
<1>3. CASE StoreStep
  <2>1. PICK t \in ThreadIds, m \in SUBSET Patches :
          /\ metadata' = [metadata EXCEPT ![t] = m]
          /\ latest' = [latest EXCEPT ![t] = m]
          /\ raced' = IF Patching(t, NoCall) THEN raced \cup {t} ELSE raced
    BY <1>3 DEF StoreStep
  <2>2. \A u \in ThreadIds : Current(u, metadata[u])'
    BY <2>1 DEF MetadataOK, MetadataInv, Current
  <2>3. ASSUME NEW p \in Patches, call'[p].at = "patching" PROVE Current(call[p].thread, call[p].read)'
    <3>1. call'[p] = call[p] /\ call[p].thread \in ThreadIds /\ p # NoCall
      BY <1>3, <2>3, CallsAssumption DEF StoreStep, SamePatches, MetadataOK, Calls
    <3>2. CASE call[p].thread = t
      BY <2>1, <2>3, <3>1, <3>2 DEF Patching, Current
    <3>3. CASE call[p].thread # t
      BY <2>1, <2>3, <3>1, <3>3 DEF MetadataOK, MetadataInv, Current
    <3> QED
      BY <3>2, <3>3
  <2> QED
    BY <2>2, <2>3 DEF MetadataInv
<1>4. ASSUME NEW p \in Patches, MoveStep(p) PROVE MetadataInv'
  <2>1. call'[p].at = "patching" => call'[p].thread \in ThreadIds /\ call'[p].read = metadata[call'[p].thread]
    BY <1>4 DEF MoveStep, Unused, MetadataOK
  <2> QED
    BY <1>4, <2>1 DEF MoveStep, OthersWait, SameMetadata, MetadataInv, Current
<1>5. ASSUME NEW p \in Patches, NEW t \in ThreadIds, NEW read \in SUBSET Patches, NEW new \in BOOLEAN,
             WriteStep(p, t, read, new)
      PROVE  MetadataInv'
  <2>1. Current(t, read)
    BY <1>5 DEF WriteStep, MetadataInv
  <2>2. /\ metadata' = [metadata EXCEPT ![t] = IF new THEN {p} ELSE read]
        /\ latest' = IF new THEN [latest EXCEPT ![t] = {p}] ELSE latest
        /\ raced' = IF new /\ Patching(t, p) THEN raced \cup {t} ELSE raced
    BY <1>5 DEF WriteStep, StoreMetadata
  <2>3. \A u \in ThreadIds : Current(u, metadata[u])'
    BY <2>1, <2>2 DEF MetadataOK, MetadataInv, Current
  <2>4. call'[p].at # "patching"
    BY <1>5 DEF WriteStep, MetadataOK
  <2>5. ASSUME NEW q \in Patches, call'[q].at = "patching" PROVE Current(call[q].thread, call[q].read)'
    <3>1. q # p /\ call'[q] = call[q] /\ call[q].thread \in ThreadIds
      BY <1>5, <2>4, <2>5 DEF WriteStep, OthersWait, MetadataOK
    <3>2. CASE call[q].thread = t /\ new
      BY <2>2, <2>5, <3>1, <3>2 DEF Patching, Current
    <3>3. CASE ~(call[q].thread = t /\ new)
      BY <2>2, <2>5, <3>1, <3>3 DEF MetadataOK, MetadataInv, Current
    <3> QED
      BY <3>2, <3>3
  <2> QED
    BY <2>3, <2>5 DEF MetadataInv
<1> QED
  BY <1>1, <1>2, <1>3, <1>4, <1>5 DEF Kinds

\* A thread shows the metadata it was last given, by its creation, its copying or
\* a patch, unless two patches of it were under way at once.
THEOREM MetadataStays == ThreadsSpec => []MetadataKept
<1>1. ThreadsInit => MetadataOK /\ MetadataInv
  BY InitIsOK DEF MetadataInv, Current
<1>2. MetadataInv => MetadataKept
  BY DEF MetadataInv, Current, MetadataKept
<1> QED
  BY <1>1, <1>2, MetadataOKStep, MetadataStep, PTL DEF ThreadsSpec

-----------------------------------------------------------------------------
(***************************************************************************)
(* Metadata come from patches that have stored their record, those still   *)
(* to be written back included: none of them is refused any more.          *)
(***************************************************************************)
Stored(m) == \A p \in m : call[p].at \in {"done", "failed"}
StoredInv ==
  /\ \A t \in ThreadIds : Stored(metadata[t])
  /\ \A p \in Patches : call[p].at = "patching" => Stored(call[p].read)

\* A patch that is over stays so, and one that is refused has stored nothing.
LEMMA StoredStep ==
  ASSUME MetadataOK, StoredInv, [ThreadsNext]_threadsVars
  PROVE  StoredInv'
<1>1. Kinds
  BY KindsOfSteps
<1>2. CASE QuietStep
  BY <1>2 DEF QuietStep, SameMetadata, SamePatches, MetadataOK, StoredInv, Stored
<1>3. CASE StoreStep
  BY <1>3 DEF StoreStep, SamePatches, MetadataOK, StoredInv, Stored
<1>4. ASSUME NEW p \in Patches, MoveStep(p) PROVE StoredInv'
  <2>1. call'[p].at = "patching" => \E t \in ThreadIds : call'[p].read = metadata[t]
    BY <1>4 DEF MoveStep, Unused, MetadataOK
  <2>2. \A m \in SUBSET Patches : Stored(m) => Stored(m)'
    BY <1>4 DEF MoveStep, OthersWait, Stored
  <2> QED
    BY <1>4, <2>1, <2>2 DEF MoveStep, OthersWait, SameMetadata, MetadataOK, StoredInv
<1>5. ASSUME NEW p \in Patches, NEW t \in ThreadIds, NEW read \in SUBSET Patches, NEW new \in BOOLEAN,
             WriteStep(p, t, read, new)
      PROVE  StoredInv'
  <2>1. call'[p].at \in {"done", "failed"} /\ call[p].at \notin {"done", "failed"}
    BY <1>5 DEF WriteStep, Unused, MetadataOK
  <2>2. \A m \in SUBSET Patches : Stored(m) => Stored(m)'
    BY <1>5, <2>1 DEF WriteStep, OthersWait, Stored
  <2>3. Stored({p})' /\ Stored(read)'
    BY <1>5, <2>1, <2>2 DEF WriteStep, StoredInv, Stored
  <2>4. metadata' = [metadata EXCEPT ![t] = IF new THEN {p} ELSE read]
    BY <1>5 DEF WriteStep, StoreMetadata
  <2>5. \A u \in ThreadIds : Stored(metadata[u])'
    BY <2>2, <2>3, <2>4 DEF MetadataOK, StoredInv
  <2>6. \A q \in Patches : call'[q].at = "patching" => Stored(call[q].read)'
    BY <1>5, <2>1, <2>2 DEF WriteStep, OthersWait, MetadataOK, StoredInv
  <2> QED
    BY <2>5, <2>6 DEF StoredInv
<1> QED
  BY <1>1, <1>2, <1>3, <1>4, <1>5 DEF Kinds

\* No thread, copies included, ever shows the metadata of a patch that the agent
\* refused or whose thread was gone, whoever reads and writes them back meanwhile.
THEOREM RefusedPatchesHidden == ThreadsSpec => []RefusedPatchIsHidden
<1>1. ThreadsInit => MetadataOK /\ StoredInv
  BY InitIsOK DEF StoredInv, Stored
<1>2. StoredInv => RefusedPatchIsHidden
  BY DEF StoredInv, Stored, RefusedPatchIsHidden
<1> QED
  BY <1>1, <1>2, MetadataOKStep, StoredStep, PTL DEF ThreadsSpec

-----------------------------------------------------------------------------
(***************************************************************************)
(* Types, and where a call is: its ids are in use, and what it will store  *)
(* it has.                                                                 *)
(***************************************************************************)
Request ==
  [at : {"unused", "patching", "reading", "copying", "running", "retry", "done", "failed", "refused"},
   thread : ThreadIds \cup {NoCall}, target : ThreadIds \cup {NoCall},
   list : Calls \cup {NoCall}, values : Calls \cup {NoCall}, read : SUBSET Patches, new : BOOLEAN]

Placed(k, ids) ==
  /\ k.at \in {"patching", "reading", "copying", "running", "retry"} => k.thread \in ids
  /\ k.at \in {"reading", "copying"} => k.target \in ids
  /\ k.at = "copying" => k.values \in Calls

RecordsOK ==
  /\ table \in Seq(ThreadIds) /\ Distinct(table)
  /\ metadata \in [ThreadIds -> SUBSET Patches]
  /\ used \subseteq ThreadIds /\ \A t \in ThreadIds : Exists(t) => t \in used

CallsOK == call \in [Calls -> Request] /\ \A c \in Calls : Placed(call[c], used)

ListsOK ==
  /\ lists \in [Calls -> Seq(Checkpoint)]
  /\ current \in [ThreadIds -> Calls \cup {NoCall}]
  /\ written \in [ThreadIds -> SUBSET Calls]
  /\ \A t \in ThreadIds : current[t] # NoCall => t \in used

TypesInv == framework \in Frameworks /\ RecordsOK /\ CallsOK /\ ListsOK

\* The parts are what the type invariant says, and more.
LEMMA TypesSay ==
  ASSUME TypesInv
  PROVE  ThreadsTypeOK
BY DEF TypesInv, RecordsOK, CallsOK, ListsOK, Request, Distinct, ThreadsTypeOK

\* A call that has not been made is one.
LEMMA UnusedIsRequest == Unused \in Request
BY DEF Unused, Request

\* They hold before any request.
LEMMA TypesInit ==
  ASSUME ThreadsInit
  PROVE  TypesInv
<1>1. RecordsOK
  <2>1. table = << >> /\ used = {} /\ metadata = [t \in ThreadIds |-> {}]
    BY DEF ThreadsInit
  <2> QED
    BY <2>1 DEF RecordsOK, Distinct, Exists
<1>2. CallsOK
  <2>1. call = [c \in Calls |-> Unused] /\ Unused.at = "unused"
    BY DEF ThreadsInit, Unused
  <2> QED
    BY <2>1, UnusedIsRequest DEF CallsOK, Placed
<1>3. ListsOK
  <2>1. /\ lists = [c \in Calls |-> << >>] /\ current = [t \in ThreadIds |-> NoCall]
        /\ written = [t \in ThreadIds |-> {}]
    BY DEF ThreadsInit
  <2> QED
    BY <2>1 DEF ListsOK
<1> QED
  BY <1>1, <1>2, <1>3 DEF ThreadsInit, TypesInv

\* One call moves to a place that is right for it, and no id is forgotten.
LEMMA CallMoves ==
  ASSUME CallsOK, NEW c \in Calls, NEW k \in Request, call' = [call EXCEPT ![c] = k],
         used \subseteq used', Placed(k, used')
  PROVE  CallsOK'
<1>1. call' \in [Calls -> Request]
  BY DEF CallsOK
<1>2. ASSUME NEW d \in Calls PROVE Placed(call'[d], used')
  <2>1. CASE d = c
    BY <2>1 DEF CallsOK
  <2>2. CASE d # c
    BY <2>2 DEF CallsOK, Placed
  <2> QED
    BY <2>1, <2>2
<1> QED
  BY <1>1, <1>2 DEF CallsOK

\* A call that ends has no place any more.
LEMMA CallEnds ==
  ASSUME CallsOK, NEW c \in Calls, NEW at \in {"done", "failed", "refused"}, Finished(c, at), used \subseteq used'
  PROVE  CallsOK'
<1> DEFINE k == [Unused EXCEPT !.at = at]
<1>1. k \in Request /\ k.at = at
  BY DEF Unused, Request
<1>2. call' = [call EXCEPT ![c] = k]
  BY DEF Finished
<1>3. Placed(k, used')
  BY <1>1 DEF Placed
<1> QED
  BY <1>1, <1>2, <1>3, CallMoves

\* A checkpoint is added to the list of an id in use.
LEMMA StateAdded ==
  ASSUME ListsOK, NEW c \in Calls, NEW t \in ThreadIds, NEW v \in Calls, AddState(c, t, v),
         used \subseteq used', t \in used'
  PROVE  ListsOK'
<1> DEFINE l == IF current[t] = NoCall THEN c ELSE current[t]
           x == [values |-> v, by |-> c]
<1>1. l \in Calls /\ x \in Checkpoint /\ lists[l] \in Seq(Checkpoint)
  BY DEF ListsOK, Checkpoint
<1>2. /\ lists' = [lists EXCEPT ![l] = Append(lists[l], x)]
      /\ current' = [current EXCEPT ![t] = l]
      /\ written' = [written EXCEPT ![t] = @ \cup {c}]
  BY DEF AddState
<1> HIDE DEF l, x
<1>3. Append(lists[l], x) \in Seq(Checkpoint)
  BY <1>1, AppendProperties
<1>4. lists' \in [Calls -> Seq(Checkpoint)] /\ current' \in [ThreadIds -> Calls \cup {NoCall}]
  BY <1>1, <1>2, <1>3 DEF ListsOK
<1>5. written' \in [ThreadIds -> SUBSET Calls]
  BY <1>2 DEF ListsOK
<1>6. \A u \in ThreadIds : current'[u] # NoCall => u \in used'
  BY <1>2 DEF ListsOK
<1> QED
  BY <1>4, <1>5, <1>6 DEF ListsOK

\* A record is added for an id, new or not.
LEMMA RecordStored ==
  ASSUME RecordsOK, NEW t \in ThreadIds, NEW m \in SUBSET Patches, Store(t, m)
  PROVE  RecordsOK' /\ used \subseteq used' /\ t \in used'
<1>1. ~Within(t, table) /\ table' = Append(table, t) /\ used' = used \cup {t}
  BY DEF Store, Exists, Within
<1>2. /\ table' \in Seq(ThreadIds) /\ Distinct(table')
      /\ \A u : Within(u, table') <=> Within(u, table) \/ u = t
  BY <1>1, KeyAdded DEF RecordsOK
<1>3. metadata' \in [ThreadIds -> SUBSET Patches]
  BY DEF Store, RecordsOK
<1>4. \A u \in ThreadIds : Exists(u)' => u \in used'
  <2>1. \A u \in ThreadIds : Exists(u)' => Within(u, table')
    BY DEF Exists, Within
  <2>2. \A u \in ThreadIds : Within(u, table) => u \in used
    BY DEF RecordsOK, Exists, Within
  <2> QED
    BY <1>1, <1>2, <2>1, <2>2
<1> QED
  BY <1>1, <1>2, <1>3, <1>4 DEF RecordsOK

\* What a thread shows is the value of a call, or nothing.
LEMMA ShownValues ==
  ASSUME ListsOK, NEW t \in ThreadIds
  PROVE  /\ ValuesIn(History(t)) \in Calls \cup {NoCall}
         /\ History(t) \in Seq(Checkpoint)
         /\ History(t) # << >> => ValuesIn(History(t)) \in Calls
<1>1. History(t) \in Seq(Checkpoint)
  BY DEF ListsOK, History, HistoryIn
<1>2. ASSUME NEW h \in Seq(Checkpoint), h # << >> PROVE h[Len(h)].values \in Calls
  <2>1. h[Len(h)] \in Checkpoint
    BY <1>2
  <2> QED
    BY <2>1 DEF Checkpoint
<1> QED
  BY <1>1, <1>2 DEF ValuesIn

\* A patch that writes its metadata writes those of a patch.
LEMMA MetadataTyped ==
  ASSUME RecordsOK, NEW p \in Patches, NEW t \in ThreadIds, NEW read \in SUBSET Patches,
         NEW new \in BOOLEAN, StoreMetadata(p, t, read, new), UNCHANGED <<table, used>>
  PROVE  RecordsOK'
<1>1. metadata' \in [ThreadIds -> SUBSET Patches]
  BY DEF StoreMetadata, RecordsOK
<1> QED
  BY <1>1 DEF RecordsOK, Exists

\* What leaves the records or the lists alone leaves them right.
LEMMA TypesStay ==
  /\ RecordsOK /\ UNCHANGED <<table, metadata, used>> => RecordsOK'
  /\ ListsOK /\ UNCHANGED <<lists, current, written>> /\ used \subseteq used' => ListsOK'
  /\ CallsOK /\ UNCHANGED call /\ used \subseteq used' => CallsOK'
<1>1. RecordsOK /\ UNCHANGED <<table, metadata, used>> => RecordsOK'
  BY DEF RecordsOK, Exists
<1>2. ListsOK /\ UNCHANGED <<lists, current, written>> /\ used \subseteq used' => ListsOK'
  BY DEF ListsOK
<1>3. CallsOK /\ UNCHANGED call /\ used \subseteq used' => CallsOK'
  BY DEF CallsOK, Placed
<1> QED
  BY <1>1, <1>2, <1>3

\* Creating and deleting a thread keeps the types.
LEMMA TypesThread ==
  ASSUME TypesInv, NEW t \in ThreadIds, Thread(t)
  PROVE  TypesInv'
<1>1. CASE CreateThread(t)
  <2>1. Store(t, {}) /\ UNCHANGED <<framework, call, lists, current, written>>
    BY <1>1 DEF CreateThread, checkpoints
  <2>2. RecordsOK' /\ used \subseteq used'
    BY <2>1, RecordStored DEF TypesInv
  <2> QED
    BY <2>1, <2>2, TypesStay DEF TypesInv
<1>2. CASE DeleteThread(t)
  <2>1. PICK i \in DOMAIN table : table[i] = t /\ table' = RemoveAt(table, i)
    BY <1>2 DEF DeleteThread
  <2>2. UNCHANGED <<framework, metadata, call, lists, current, written, used>>
    BY <1>2 DEF DeleteThread, checkpoints
  <2>3. /\ table' \in Seq(ThreadIds) /\ Distinct(table')
        /\ \A u : Within(u, table') <=> Within(u, table) /\ u # t
    BY <2>1, KeyRemoved DEF TypesInv, RecordsOK
  <2>4. RecordsOK'
    BY <2>2, <2>3 DEF TypesInv, RecordsOK, Exists, Within
  <2> QED
    BY <2>2, <2>4, TypesStay DEF TypesInv
<1> QED
  BY <1>1, <1>2 DEF Thread

\* So does a patch until the agent answers, and the whole of one without awaiting.
LEMMA TypesPatch ==
  ASSUME TypesInv, NEW p \in Patches, NEW t \in ThreadIds, Patch(p, t)
  PROVE  TypesInv'
<1> USE DEF Calls
<1>0. Ready(p, t) => t \in used /\ metadata[t] \in SUBSET Patches
  BY DEF Ready, TypesInv, RecordsOK
<1>1. CASE PatchRecord(p, t)
  <2>1. RecordsOK'
    BY <1>0, <1>1, MetadataTyped DEF PatchRecord, TypesInv
  <2>2. CallsOK'
    BY <1>1, CallEnds DEF PatchRecord, Answered, TypesInv
  <2> QED
    BY <1>1, <2>1, <2>2, TypesStay DEF PatchRecord, checkpoints, TypesInv
<1>2. CASE PatchLlamaIndex(p, t)
  <2>1. PICK new \in BOOLEAN : StoreMetadata(p, t, metadata[t], new)
    BY <1>2 DEF PatchLlamaIndex
  <2>2. Ready(p, t) /\ AddState(p, t, p) /\ Answered(p) /\ UNCHANGED <<framework, table, used>>
    BY <1>2 DEF PatchLlamaIndex
  <2>3. RecordsOK'
    BY <1>0, <2>1, <2>2, MetadataTyped DEF TypesInv
  <2>4. CallsOK'
    BY <2>2, CallEnds DEF Answered, TypesInv
  <2>5. ListsOK'
    BY <1>0, <2>2, StateAdded DEF TypesInv
  <2> QED
    BY <2>2, <2>3, <2>4, <2>5 DEF TypesInv
<1>3. CASE BeginPatch(p, t)
  <2> DEFINE begun(new) == [Unused EXCEPT !.at = "patching", !.thread = t, !.read = metadata[t], !.new = new]
  <2>1. PICK new \in BOOLEAN : call' = [call EXCEPT ![p] = begun(new)]
    BY <1>3, Zenon DEF BeginPatch
  <2>2. UNCHANGED <<framework, table, metadata, lists, current, written, used>> /\ Ready(p, t)
    BY <1>3 DEF BeginPatch, records, checkpoints
  <2>3. begun(new) \in Request /\ begun(new).at = "patching" /\ begun(new).thread = t
    BY <1>0, <2>2 DEF Unused, Request
  <2> HIDE DEF begun
  <2>4. CallsOK'
    <3>1. Placed(begun(new), used')
      BY <1>0, <2>2, <2>3 DEF Placed
    <3> QED
      BY <2>1, <2>2, <2>3, <3>1, CallMoves DEF TypesInv
  <2> QED
    BY <2>2, <2>4, TypesStay DEF TypesInv
<1>4. CASE RefusePatch(p, t)
  <2>1. CallsOK'
    BY <1>4, CallEnds DEF RefusePatch, TypesInv
  <2> QED
    BY <1>4, <2>1, TypesStay DEF RefusePatch, records, checkpoints, TypesInv
<1> QED
  BY <1>1, <1>2, <1>3, <1>4 DEF Patch

\* So does the end of a patch.
LEMMA TypesPatchEnds ==
  ASSUME TypesInv, MetadataOK, NEW p \in Patches, PatchState(p) \/ FinishPatch(p)
  PROVE  TypesInv'
<1> USE DEF Calls
<1> DEFINE t == call[p].thread
<1>0. t \in used /\ t \in ThreadIds /\ call[p].read \in SUBSET Patches /\ call[p].new \in BOOLEAN
  <2>1. call[p].at = "patching"
    BY DEF PatchState, FinishPatch
  <2>2. t \in used
    BY <2>1 DEF TypesInv, CallsOK, Placed
  <2> QED
    BY <2>1, <2>2 DEF MetadataOK
<1>1. CASE PatchState(p)
  <2>1. ListsOK'
    BY <1>0, <1>1, StateAdded DEF PatchState, TypesInv
  <2> QED
    BY <1>1, <2>1, TypesStay DEF PatchState, records, TypesInv
<1>2. CASE FinishPatch(p)
  <2>1. RecordsOK'
    <3>1. CASE Exists(t)
      BY <1>0, <1>2, <3>1, MetadataTyped DEF FinishPatch, TypesInv
    <3>2. CASE ~Exists(t)
      BY <1>2, <3>2, TypesStay DEF FinishPatch, TypesInv
    <3> QED
      BY <3>1, <3>2
  <2>2. CallsOK'
    BY <1>2, CallEnds DEF FinishPatch, Answered, TypesInv
  <2> QED
    BY <1>2, <2>1, <2>2, TypesStay DEF FinishPatch, checkpoints, TypesInv
<1> QED
  BY <1>1, <1>2

\* So does a copy until its state is read.
LEMMA TypesCopy ==
  ASSUME TypesInv, NEW c \in Copies, NEW t \in ThreadIds, NEW u \in ThreadIds, Copy(c, t, u)
  PROVE  TypesInv'
<1> USE DEF Calls
<1> DEFINE k(at) == [Unused EXCEPT !.at = at, !.thread = t, !.target = u]
<1>0. /\ call' = [call EXCEPT ![c] = k("reading")] \/ call' = [call EXCEPT ![c] = k("done")]
      /\ UNCHANGED framework /\ Store(u, metadata[t]) /\ Exists(t)
  BY DEF Copy, BeginCopy, CopyLlamaIndex
<1>1. RecordsOK' /\ used \subseteq used' /\ u \in used' /\ t \in used
  BY <1>0, RecordStored DEF TypesInv, RecordsOK
<1>2. \A at \in {"reading", "done"} : k(at) \in Request /\ k(at).at = at /\ k(at).thread = t /\ k(at).target = u
  BY DEF Unused, Request
<1> HIDE DEF k
<1>3. CallsOK'
  <2>1. \A at \in {"reading", "done"} : Placed(k(at), used')
    BY <1>1, <1>2 DEF Placed
  <2> QED
    BY <1>0, <1>1, <1>2, <2>1, CallMoves DEF TypesInv
<1>4. ListsOK'
  <2>1. CASE UNCHANGED checkpoints
    BY <1>1, <2>1, TypesStay DEF checkpoints, TypesInv
  <2>2. CASE History(t) # << >> /\ AddState(c, u, ValuesIn(History(t)))
    BY <1>1, <2>2, ShownValues, StateAdded DEF TypesInv
  <2> QED
    BY <2>1, <2>2 DEF Copy, BeginCopy, CopyLlamaIndex
<1> QED
  BY <1>0, <1>1, <1>3, <1>4 DEF TypesInv

\* So does the writing of a copy.
LEMMA TypesCopyEnds ==
  ASSUME TypesInv, NEW c \in Copies, ReadCopy(c) \/ WriteCopy(c) \/ AbandonCopy(c)
  PROVE  TypesInv'
<1> USE DEF Calls
<1>0. UNCHANGED <<framework, table, metadata, used>>
  BY DEF ReadCopy, WriteCopy, AbandonCopy, records
<1>1. CASE ReadCopy(c)
  <2> DEFINE v == ValuesIn(History(call[c].thread))
             k == [call[c] EXCEPT !.at = IF v = NoCall THEN "done" ELSE "copying", !.values = v]
  <2>1. call' = [call EXCEPT ![c] = k] /\ call[c].at = "reading" /\ UNCHANGED <<lists, current, written>>
    BY <1>1 DEF ReadCopy, checkpoints, TypesInv, CallsOK
  <2>2. call[c].thread \in ThreadIds /\ call[c].target \in used
    BY <2>1 DEF TypesInv, CallsOK, RecordsOK, Placed
  <2>3. v \in Calls \cup {NoCall}
    BY <2>2, ShownValues DEF TypesInv
  <2>4. call[c] \in Request /\ call[c].thread \in used
    BY <2>1 DEF TypesInv, CallsOK, Placed
  <2> HIDE DEF v
  <2>5. k \in Request /\ Placed(k, used')
    BY <1>0, <2>2, <2>3, <2>4 DEF Request, Placed
  <2>6. CallsOK'
    <3> HIDE DEF k
    <3> QED
      BY <1>0, <2>1, <2>5, CallMoves DEF TypesInv
  <2> QED
    BY <1>0, <2>1, <2>6, TypesStay DEF TypesInv
<1>2. CASE WriteCopy(c)
  <2>1. call[c].target \in used /\ call[c].values \in Calls
    BY <1>2 DEF WriteCopy, TypesInv, CallsOK, Placed
  <2>2. ListsOK'
    BY <1>0, <1>2, <2>1, StateAdded DEF WriteCopy, TypesInv, RecordsOK
  <2>3. CallsOK'
    BY <1>0, <1>2, CallEnds DEF WriteCopy, TypesInv
  <2> QED
    BY <1>0, <2>2, <2>3, TypesStay DEF TypesInv
<1>3. CASE AbandonCopy(c)
  <2>1. CallsOK'
    BY <1>0, <1>3, CallEnds DEF AbandonCopy, TypesInv
  <2> QED
    BY <1>0, <1>3, <2>1, TypesStay DEF AbandonCopy, checkpoints, TypesInv
<1> QED
  BY <1>1, <1>2, <1>3

\* So does an execution, from its list to what it appends.
LEMMA TypesExec ==
  ASSUME TypesInv, NEW e \in Execs, Record(e) \/ RecordGraph(e) \/ End(e) \/ \E t, u \in ThreadIds : Begin(e, t, u)
  PROVE  TypesInv'
<1> USE DEF Calls
<1>0. Record(e) \/ RecordGraph(e) \/ End(e) => UNCHANGED <<framework, table, metadata, used>>
  <2>1. Record(e) => UNCHANGED <<framework, table, metadata, used>>
    BY Zenon DEF Record, records
  <2>2. RecordGraph(e) => UNCHANGED <<framework, table, metadata, used>>
    BY Zenon DEF RecordGraph, records
  <2>3. End(e) => UNCHANGED <<framework, table, metadata, used>>
    BY Zenon DEF End, records
  <2> QED
    BY <2>1, <2>2, <2>3
<1>1. call[e].at = "running" => call[e].thread \in used /\ call[e].thread \in ThreadIds
  BY DEF TypesInv, CallsOK, RecordsOK, Placed
<1>2. CASE Record(e)
  <2> DEFINE t == call[e].thread
             l == IF call[e].list = NoCall THEN e ELSE call[e].list
             x == [values |-> e, by |-> e]
             k == [call[e] EXCEPT !.list = l]
  <2>1. /\ call[e].at = "running" /\ lists' = [lists EXCEPT ![l] = Append(lists[l], x)]
        /\ current' = [current EXCEPT ![t] = l] /\ written' = [written EXCEPT ![t] = @ \cup {e}]
        /\ call' = [call EXCEPT ![e] = k]
    BY <1>2 DEF Record, TypesInv, CallsOK
  <2>2. call[e] \in Request /\ t \in used /\ t \in ThreadIds
    BY <1>1, <2>1 DEF TypesInv, CallsOK
  <2>3. l \in Calls /\ x \in Checkpoint
    BY <2>2 DEF Request, Checkpoint
  <2>4. k \in Request /\ Placed(k, used')
    <3> HIDE DEF l
    <3>1. k \in Request /\ k.at = "running" /\ k.thread = t
      BY <2>1, <2>2, <2>3 DEF Request
    <3> QED
      BY <1>0, <1>2, <2>2, <3>1 DEF Placed
  <2> HIDE DEF l, x, k
  <2>5. CallsOK'
    BY <1>0, <1>2, <2>1, <2>4, CallMoves DEF TypesInv
  <2>6. ListsOK'
    <3>1. lists[l] \in Seq(Checkpoint)
      BY <2>3 DEF TypesInv, ListsOK
    <3>2. Append(lists[l], x) \in Seq(Checkpoint)
      BY <2>3, <3>1, AppendProperties
    <3>3. lists' \in [Calls -> Seq(Checkpoint)] /\ current' \in [ThreadIds -> Calls \cup {NoCall}]
      BY <2>1, <2>3, <3>2 DEF TypesInv, ListsOK
    <3>4. written' \in [ThreadIds -> SUBSET Calls]
      BY <2>1 DEF TypesInv, ListsOK
    <3>5. \A u \in ThreadIds : current'[u] # NoCall => u \in used'
      BY <1>0, <1>2, <2>1, <2>2 DEF TypesInv, ListsOK
    <3> QED
      BY <3>3, <3>4, <3>5 DEF ListsOK
  <2> QED
    BY <1>0, <1>2, <2>5, <2>6, TypesStay DEF TypesInv
<1>3. CASE RecordGraph(e)
  <2>1. ListsOK'
    BY <1>0, <1>1, <1>3, StateAdded DEF RecordGraph, TypesInv
  <2> QED
    BY <1>0, <1>3, <2>1, TypesStay DEF RecordGraph, TypesInv
<1>4. CASE End(e)
  <2> DEFINE k == [Unused EXCEPT !.at = "retry", !.thread = call[e].thread, !.target = call[e].target]
  <2>1. call' = [call EXCEPT ![e] = k] /\ call[e].at = "running"
    BY <1>4, Zenon DEF End
  <2>2. call[e].target \in ThreadIds \cup {NoCall}
    BY DEF TypesInv, CallsOK, Request
  <2>3. k \in Request /\ k.at = "retry" /\ k.thread = call[e].thread
    BY <1>1, <2>1, <2>2 DEF Unused, Request
  <2> HIDE DEF k
  <2>4. Placed(k, used')
    BY <1>0, <1>1, <1>4, <2>1, <2>3 DEF Placed
  <2>5. CallsOK'
    BY <1>0, <1>4, <2>1, <2>3, <2>4, CallMoves DEF TypesInv
  <2> QED
    BY <1>0, <1>4, <2>5, TypesStay DEF End, checkpoints, TypesInv
<1>5. ASSUME NEW t \in ThreadIds, NEW u \in ThreadIds, Begin(e, t, u) PROVE TypesInv'
  <2> DEFINE k == [Unused EXCEPT !.at = "running", !.thread = t, !.target = u,
                                 !.list = current[t], !.new = (current[t] = NoCall)]
  <2>1. /\ call' = [call EXCEPT ![e] = k] /\ used' = used \cup {t, u}
        /\ UNCHANGED <<framework, table, metadata, lists, current, written>>
    BY <1>5, Zenon DEF Begin, records, checkpoints
  <2>2. current[t] \in Calls \cup {NoCall}
    BY DEF TypesInv, ListsOK
  <2>3. k \in Request /\ k.at = "running" /\ k.thread = t
    BY <2>2 DEF Unused, Request
  <2> HIDE DEF k
  <2>4. Placed(k, used')
    BY <2>1, <2>3 DEF Placed
  <2>5. CallsOK'
    BY <2>1, <2>3, <2>4, CallMoves DEF TypesInv
  <2>6. RecordsOK'
    BY <2>1 DEF TypesInv, RecordsOK, Exists
  <2> QED
    BY <2>1, <2>5, <2>6, TypesStay DEF TypesInv
<1> QED
  BY <1>2, <1>3, <1>4, <1>5

\* So does every step.
LEMMA TypesStep ==
  ASSUME TypesInv, MetadataOK, [ThreadsNext]_threadsVars
  PROVE  TypesInv'
<1>1. CASE UNCHANGED threadsVars
  BY <1>1, TypesStay DEF threadsVars, records, checkpoints, TypesInv
<1> QED
  BY <1>1, TypesThread, TypesPatch, TypesPatchEnds, TypesCopy, TypesCopyEnds, TypesExec DEF ThreadsNext

\* The records stay a table without duplicates, and the calls and lists what they
\* are, however many requests and executions overlap.
THEOREM ThreadsTyped == ThreadsSpec => []ThreadsTypeOK
<1>1. ThreadsInit => MetadataOK /\ TypesInv
  BY InitIsOK, TypesInit
<1>2. TypesInv => ThreadsTypeOK
  BY TypesSay
<1> QED
  BY <1>1, <1>2, MetadataOKStep, TypesStep, PTL DEF ThreadsSpec

-----------------------------------------------------------------------------
(***************************************************************************)
(* Histories.  What is stored of a thread is found in its list as long as  *)
(* no other thread's calls append to that list: a list belongs to the      *)
(* thread that shows it or whose executions hold it, and one that a call   *)
(* may still start is empty.                                               *)
(***************************************************************************)
Uses(t, l) ==
  \/ current[t] = l
  \/ \E e \in Execs : call[e].at = "running" /\ call[e].thread = t /\ call[e].list = l

\* The calls that may still start a list of their own.
Fresh(c) ==
  \/ c \in Patches /\ call[c].at = "unused"
  \/ c \in Patches /\ call[c].at = "patching" /\ c \notin written[call[c].thread]
  \/ c \in Copies /\ call[c].at # "done"
  \/ c \in Execs /\ call[c].at = "unused"
  \/ c \in Execs /\ call[c].at \in {"running", "retry"} /\ current[call[c].thread] = NoCall

Unstarted(c) == lists[c] = << >> /\ \A t \in ThreadIds : ~Uses(t, c)
AtHome(e, t) == call[e].at # "unused" /\ call[e].thread = t

\* What an execution holds, unless its thread's list was replaced by an older one.
HoldsRight(e) == call[e].at = "running" =>
  /\ call[e].list = NoCall => call[e].new
  /\ current[call[e].thread] = NoCall => call[e].list = NoCall
  /\ call[e].thread \notin forked => call[e].list \in {NoCall, current[call[e].thread]}

Kept(t) == t \notin forked => written[t] = {History(t)[i].by : i \in DOMAIN History(t)}

ListsInv ==
  /\ \A t, u \in ThreadIds, l \in Calls : Uses(t, l) /\ Uses(u, l) => t = u
  /\ \A c \in Calls : Fresh(c) => Unstarted(c)
  /\ \A e \in Execs, t \in ThreadIds : Uses(t, e) => AtHome(e, t)
  /\ \A e \in Execs : HoldsRight(e)
  /\ \A t \in ThreadIds : Kept(t)

\* No list is started before any request.
LEMMA ListsInit ==
  ASSUME ThreadsInit
  PROVE  ListsInv
<1>1. /\ \A t \in ThreadIds : current[t] = NoCall /\ written[t] = {} /\ History(t) = << >>
      /\ \A c \in Calls : call[c].at = "unused" /\ lists[c] = << >>
  BY DEF ThreadsInit, Unused, History, HistoryIn
<1>2. \A t \in ThreadIds, l \in Calls : ~Uses(t, l)
  BY <1>1, CallsAssumption DEF Uses, Calls
<1>3. \A e \in Execs : HoldsRight(e)
  BY <1>1 DEF HoldsRight, Calls
<1>4. \A t \in ThreadIds : Kept(t)
  BY <1>1 DEF Kept
<1>5. \A c \in Calls : Unstarted(c)
  BY <1>1, <1>2 DEF Unstarted
<1> QED
  BY <1>2, <1>3, <1>4, <1>5 DEF ListsInv, Calls

(***************************************************************************)
(* A step leaves the lists alone, while executions begin and end, or it    *)
(* touches the list of one thread.                                         *)
(***************************************************************************)
Begun(e) ==
  /\ call[e].at = "unused" \/ (call[e].at = "retry" /\ call'[e].thread = call[e].thread)
  /\ call'[e].at = "running" /\ call'[e].thread \in ThreadIds
  /\ call'[e].list = current[call'[e].thread] /\ (call'[e].list = NoCall => call'[e].new)

Ended(e) == call[e].at = "running" /\ call'[e].at = "retry" /\ call'[e].thread = call[e].thread

StillStep == UNCHANGED checkpoints /\ \A e \in Execs : call'[e] = call[e] \/ Begun(e) \/ Ended(e)

\* The list is the thread's, or one of its executions', or starts its history.
BelongsTo(l, t) ==
  \/ current[t] = l
  \/ Fresh(l) /\ current[t] = NoCall
  \/ Uses(t, l) /\ t \in forked'
  \/ l \in Execs /\ t \in forked'

Touches(t, l, c, v) ==
  /\ lists' = [lists EXCEPT ![l] = Append(lists[l], [values |-> v, by |-> c])]
  /\ current' = [current EXCEPT ![t] = l]
  /\ written' = [written EXCEPT ![t] = @ \cup {c}]
  /\ forked' = forked \/ forked' = forked \cup {t}
  /\ BelongsTo(l, t) /\ (Uses(t, l) \/ ~Fresh(l)')
  /\ l \in Execs => Uses(t, l) \/ (call[l].at = "running" /\ call[l].thread = t)
  /\ \A e \in Execs :
       \/ call'[e] = call[e]
       \/ /\ call[e].at = "running" /\ call'[e].at = "running"
          /\ call[e].thread = t /\ call'[e].thread = t /\ call'[e].list = l

TouchStep == \E t \in ThreadIds, l, c, v \in Calls : Touches(t, l, c, v)

\* Requests go forward.
OnwardStep ==
  /\ \A p \in Patches :
       /\ call'[p].at = "unused" => call[p].at = "unused"
       /\ call'[p].at = "patching" =>
            call[p].at = "unused" \/ (call[p].at = "patching" /\ call'[p].thread = call[p].thread)
  /\ \A c \in Copies : call'[c].at # "done" => call[c].at # "done"

\* What the shapes of steps need from the types.
LEMMA PlacesOf ==
  ASSUME TypesInv, NEW c \in Calls,
         call[c].at \in {"patching", "reading", "copying", "running", "retry"}
  PROVE  call[c].thread \in ThreadIds
BY DEF TypesInv, CallsOK, RecordsOK, Placed

\* A call that may still start a list could do so before the step.
LEMMA FreshStays ==
  ASSUME TypesInv, StillStep \/ TouchStep, OnwardStep, NEW c \in Calls, Fresh(c)'
  PROVE  Fresh(c)
<1>1. \A t \in ThreadIds : (current[t] # NoCall => current'[t] # NoCall) /\ written[t] \subseteq written'[t]
  <2>1. CASE StillStep
    BY <2>1 DEF StillStep, checkpoints
  <2>2. ASSUME NEW t \in ThreadIds, NEW l \in Calls, NEW d \in Calls, NEW v \in Calls, Touches(t, l, d, v)
        PROVE  \A u \in ThreadIds :
                 (current[u] # NoCall => current'[u] # NoCall) /\ written[u] \subseteq written'[u]
    BY <2>2, CallsAssumption DEF Touches, TypesInv, ListsOK
  <2> QED
    BY <2>1, <2>2 DEF TouchStep
<1>2. CASE c \in Patches
  <2>1. c \notin Copies /\ c \notin Execs
    BY <1>2, CallsAssumption
  <2>2. CASE call'[c].at = "unused"
    BY <1>2, <2>2 DEF Fresh, OnwardStep
  <2>3. CASE call'[c].at = "patching" /\ c \notin written'[call'[c].thread]
    <3>1. CASE call[c].at = "unused"
      BY <1>2, <3>1 DEF Fresh
    <3>2. CASE call[c].at = "patching" /\ call'[c].thread = call[c].thread
      BY <1>1, <1>2, <2>3, <3>2, PlacesOf DEF Fresh
    <3> QED
      BY <1>2, <2>3, <3>1, <3>2 DEF OnwardStep
  <2> QED
    BY <2>1, <2>2, <2>3 DEF Fresh
<1>3. CASE c \in Copies
  <2>1. c \notin Patches /\ c \notin Execs
    BY <1>3, CallsAssumption
  <2> QED
    BY <1>3, <2>1 DEF Fresh, OnwardStep
<1>4. CASE c \in Execs
  <2>1. c \notin Patches /\ c \notin Copies
    BY <1>4, CallsAssumption
  <2>2. \/ call'[c] = call[c]
        \/ call[c].at = "unused"
        \/ /\ call[c].at \in {"running", "retry"} /\ call'[c].at # "unused"
           /\ call'[c].thread = call[c].thread
    BY <1>4 DEF StillStep, TouchStep, Touches, Begun, Ended
  <2>3. CASE call[c].at = "unused"
    BY <1>4, <2>3 DEF Fresh
  <2>4. CASE /\ call[c].at \in {"running", "retry"} /\ call'[c].at # "unused"
             /\ call'[c].thread = call[c].thread
    BY <1>1, <1>4, <2>1, <2>4, PlacesOf DEF Fresh
  <2>5. CASE call'[c] = call[c] /\ call[c].at # "unused"
    BY <1>1, <1>4, <2>1, <2>5, PlacesOf DEF Fresh
  <2> QED
    BY <2>2, <2>3, <2>4, <2>5
<1> QED
  BY <1>2, <1>3, <1>4 DEF Calls

\* An execution that has begun has its thread for ever.
LEMMA HomeStays ==
  ASSUME StillStep \/ TouchStep, NEW e \in Execs, NEW t \in ThreadIds, AtHome(e, t)
  PROVE  AtHome(e, t)'
<1>1. CASE StillStep
  BY <1>1 DEF StillStep, Begun, Ended, AtHome
<1>2. CASE TouchStep
  BY <1>2 DEF TouchStep, Touches, AtHome
<1> QED
  BY <1>1, <1>2

\* No thread comes to use a list but the one that touches it.
LEMMA UsesStay ==
  ASSUME StillStep, NEW t \in ThreadIds, NEW l, Uses(t, l)'
  PROVE  Uses(t, l)
<1>1. current' = current
  BY DEF StillStep, checkpoints
<1>2. CASE current'[t] = l
  BY <1>1, <1>2 DEF Uses
<1>3. ASSUME NEW e \in Execs, call'[e].at = "running", call'[e].thread = t, call'[e].list = l
      PROVE  Uses(t, l)
  BY <1>1, <1>3 DEF StillStep, Begun, Ended, Uses
<1> QED
  BY <1>2, <1>3 DEF Uses

\* The thread whose list a call touches may come to use that list, and no other.
LEMMA UsesTouched ==
  ASSUME TypesInv, NEW t \in ThreadIds, NEW l \in Calls, NEW c \in Calls, NEW v \in Calls, Touches(t, l, c, v),
         NEW u \in ThreadIds, NEW k, Uses(u, k)'
  PROVE  Uses(u, k) \/ (u = t /\ k = l)
<1>1. CASE current'[u] = k
  BY <1>1 DEF Touches, Uses, TypesInv, ListsOK
<1>2. ASSUME NEW e \in Execs, call'[e].at = "running", call'[e].thread = u, call'[e].list = k
      PROVE  Uses(u, k) \/ (u = t /\ k = l)
  BY <1>2 DEF Touches, Uses
<1> QED
  BY <1>1, <1>2 DEF Uses

\* A step that leaves the lists alone leaves them right.
LEMMA ListsStill ==
  ASSUME TypesInv, ListsInv, StillStep, OnwardStep
  PROVE  ListsInv'
<1>1. lists' = lists /\ current' = current /\ written' = written /\ forked' = forked
  BY DEF StillStep, checkpoints
<1>2. \A t, u \in ThreadIds, l \in Calls : Uses(t, l)' /\ Uses(u, l)' => t = u
  BY UsesStay DEF ListsInv
<1>3. ASSUME NEW c \in Calls, Fresh(c)' PROVE Unstarted(c)'
  <2>1. Unstarted(c)
    BY <1>3, FreshStays DEF ListsInv
  <2>2. \A t \in ThreadIds : ~Uses(t, c)'
    BY <2>1, UsesStay DEF Unstarted
  <2> QED
    BY <1>1, <2>1, <2>2 DEF Unstarted
<1>4. ASSUME NEW e \in Execs, NEW t \in ThreadIds, Uses(t, e)' PROVE AtHome(e, t)'
  BY <1>4, UsesStay, HomeStays DEF ListsInv
<1>5. ASSUME NEW e \in Execs PROVE HoldsRight(e)'
  <2>1. CASE call'[e] = call[e]
    BY <1>1, <2>1 DEF ListsInv, HoldsRight
  <2>2. CASE Begun(e)
    BY <1>1, <2>2 DEF Begun, HoldsRight
  <2>3. CASE Ended(e)
    BY <2>3 DEF Ended, HoldsRight
  <2> QED
    BY <2>1, <2>2, <2>3 DEF StillStep
<1>6. ASSUME NEW t \in ThreadIds PROVE Kept(t)'
  BY <1>1 DEF ListsInv, Kept, History, HistoryIn
<1> QED
  BY <1>2, <1>3, <1>4, <1>5, <1>6 DEF ListsInv

\* Who stored what is in a list, after one more has.
LEMMA StoredIn ==
  ASSUME NEW h \in Seq(Checkpoint), NEW x \in Checkpoint
  PROVE  /\ Append(h, x) # << >>
         /\ {Append(h, x)[i].by : i \in DOMAIN Append(h, x)} = {h[i].by : i \in DOMAIN h} \cup {x.by}
<1> DEFINE more == Append(h, x)
<1>1. /\ DOMAIN more = DOMAIN h \cup {Len(h) + 1} /\ Len(more) = Len(h) + 1 /\ more \in Seq(Checkpoint)
      /\ more[Len(h) + 1] = x /\ \A i \in DOMAIN h : more[i] = h[i]
  BY AppendProperties
<1>2. more # << >>
  BY <1>1
<1> HIDE DEF more
<1>3. {more[i].by : i \in DOMAIN more} = {h[i].by : i \in DOMAIN h} \cup {x.by}
  BY <1>1
<1> QED
  BY <1>2, <1>3 DEF more

\* A step that touches the list of one thread leaves the others' right.
LEMMA ListsTouched ==
  ASSUME TypesInv, ListsInv, TouchStep, OnwardStep
  PROVE  ListsInv'
<1>0. PICK t \in ThreadIds, l \in Calls, c \in Calls, v \in Calls : Touches(t, l, c, v)
  BY DEF TouchStep
<1>1. /\ current'[t] = l /\ \A u \in ThreadIds : u # t => current'[u] = current[u]
      /\ \A k \in Calls : k # l => lists'[k] = lists[k]
      /\ \A u \in ThreadIds : u # t => written'[u] = written[u]
      /\ l # NoCall /\ forked \subseteq forked'
  BY <1>0, CallsAssumption DEF Touches, TypesInv, ListsOK
<1>2. \A u \in ThreadIds, k \in Calls : Uses(u, k)' => Uses(u, k) \/ (u = t /\ k = l)
  BY <1>0, UsesTouched
<1>3. \A u \in ThreadIds : Uses(u, l) => u = t
  <2>1. CASE Uses(t, l)
    BY <2>1 DEF ListsInv
  <2>2. CASE Fresh(l)
    BY <2>2 DEF ListsInv, Unstarted
  <2>3. CASE l \in Execs /\ call[l].thread = t
    BY <2>3 DEF ListsInv, AtHome
  <2> QED
    BY <1>0, <2>1, <2>2, <2>3 DEF Touches, BelongsTo, Uses
<1>4. \A u, w \in ThreadIds, k \in Calls : Uses(u, k)' /\ Uses(w, k)' => u = w
  BY <1>2, <1>3 DEF ListsInv
<1>5. ~Fresh(l)'
  BY <1>0, FreshStays DEF Touches, ListsInv, Unstarted
<1>6. ASSUME NEW d \in Calls, Fresh(d)' PROVE Unstarted(d)'
  <2>1. Unstarted(d) /\ d # l
    BY <1>5, <1>6, FreshStays DEF ListsInv
  <2>2. \A u \in ThreadIds : ~Uses(u, d)'
    BY <1>2, <2>1 DEF Unstarted
  <2> QED
    BY <1>1, <2>1, <2>2 DEF Unstarted
<1>7. ASSUME NEW e \in Execs, NEW u \in ThreadIds, Uses(u, e)' PROVE AtHome(e, u)'
  <2>1. e \in Calls
    BY DEF Calls
  <2>2. CASE Uses(u, e)
    BY <2>2, HomeStays DEF ListsInv
  <2>3. CASE u = t /\ e = l
    <3>1. AtHome(e, u)
      BY <1>0, <2>3 DEF Touches, ListsInv, AtHome
    <3> QED
      BY <3>1, HomeStays
  <2> QED
    BY <1>2, <1>7, <2>1, <2>2, <2>3
<1>8. ASSUME NEW e \in Execs, call'[e].at = "running" PROVE HoldsRight(e)'
  <2>1. e \in Calls /\ call[e].at = "running" /\ call[e].thread \in ThreadIds /\ call'[e].thread = call[e].thread
    <3>1. e \in Calls /\ call[e].at = "running" /\ call'[e].thread = call[e].thread
      BY <1>0, <1>8 DEF Touches, Calls
    <3> QED
      BY <3>1, PlacesOf
  <2>2. HoldsRight(e)
    BY DEF ListsInv
  <2>3. CASE call'[e] = call[e] /\ call[e].thread # t
    <3>1. call[e].thread \notin forked' => call[e].thread \notin forked
      BY <1>1
    <3> QED
      BY <1>1, <2>1, <2>2, <2>3, <3>1 DEF HoldsRight
  <2>4. CASE call'[e] = call[e] /\ call[e].thread = t
    <3>1. t \notin forked' => current[t] = l \/ current[t] = NoCall
      BY <1>0 DEF Touches, BelongsTo
    <3> QED
      BY <1>1, <2>1, <2>2, <2>4, <3>1 DEF HoldsRight
  <2>5. CASE call[e].thread = t /\ call'[e].list = l
    BY <1>1, <2>1, <2>5 DEF HoldsRight
  <2> QED
    BY <1>0, <2>3, <2>4, <2>5 DEF Touches
<1>9. ASSUME NEW u \in ThreadIds, u \notin forked' PROVE Kept(u)'
  <2> DEFINE by(h) == {h[i].by : i \in DOMAIN h}
  <2>1. u \notin forked /\ written[u] = by(History(u))
    BY <1>1, <1>9 DEF ListsInv, Kept
  <2>2. CASE u # t
    <3>1. current'[u] # l
      BY <1>1, <1>3, <2>2 DEF Uses
    <3>2. History(u)' = History(u)
      BY <1>1, <2>2, <3>1 DEF History, HistoryIn, TypesInv, ListsOK
    <3> QED
      BY <1>1, <2>1, <2>2, <3>2 DEF Kept
  <2>3. CASE u = t
    <3> DEFINE h == lists[l]
               x == [values |-> v, by |-> c]
    <3>1. h \in Seq(Checkpoint) /\ x \in Checkpoint /\ x.by = c
      BY DEF TypesInv, ListsOK, Checkpoint
    <3>2. History(t) = h
      <4>1. CASE current[t] = l
        BY <1>1, <4>1 DEF History, HistoryIn
      <4>2. CASE Fresh(l) /\ current[t] = NoCall
        BY <4>2 DEF ListsInv, Unstarted, History, HistoryIn
      <4> QED
        BY <1>0, <1>9, <2>3, <4>1, <4>2 DEF Touches, BelongsTo
    <3>3. History(t)' = Append(h, x)
      <4>1. lists'[l] = Append(h, x)
        BY <1>0 DEF Touches, TypesInv, ListsOK
      <4> QED
        BY <1>1, <4>1 DEF History, HistoryIn
    <3>4. written'[t] = written[t] \cup {c}
      BY <1>0 DEF Touches, TypesInv, ListsOK
    <3> HIDE DEF h, x
    <3>5. by(Append(h, x)) = by(h) \cup {c}
      BY <3>1, StoredIn
    <3> HIDE DEF by
    <3>6. written'[t] = by(History(t)')
      BY <2>1, <2>3, <3>2, <3>3, <3>4, <3>5
    <3> QED
      BY <2>3, <3>6 DEF Kept, by
  <2> QED
    BY <2>2, <2>3
<1>10. \A u \in ThreadIds : Kept(u)'
  BY <1>9 DEF Kept
<1>11. \A e \in Execs : HoldsRight(e)'
  BY <1>8 DEF HoldsRight
<1> QED
  BY <1>4, <1>6, <1>7, <1>10, <1>11 DEF ListsInv

\* What update_agent_state does is such a touch, of a call that may start a list.
LEMMA AddTouches ==
  ASSUME TypesInv, ListsInv, NEW t \in ThreadIds, NEW c \in Calls, NEW v \in Calls, AddState(c, t, v),
         current[t] = NoCall => Fresh(c) /\ ~Fresh(c)',
         c \in Execs => call[c].at = "running" /\ call[c].thread = t,
         \A e \in Execs : call'[e] = call[e]
  PROVE  TouchStep
<1>0. PICK l \in Calls : l = IF current[t] = NoCall THEN c ELSE current[t]
  BY DEF TypesInv, ListsOK
<1>1. /\ lists' = [lists EXCEPT ![l] = Append(lists[l], [values |-> v, by |-> c])]
      /\ current' = [current EXCEPT ![t] = l]
      /\ written' = [written EXCEPT ![t] = @ \cup {c}]
      /\ forked' = forked
  BY <1>0 DEF AddState
<1>2. CASE current[t] = NoCall
  <2>1. l = c /\ BelongsTo(l, t)
    BY <1>0, <1>2 DEF BelongsTo
  <2> QED
    BY <1>1, <1>2, <2>1 DEF TouchStep, Touches
<1>3. CASE current[t] # NoCall
  <2>1. l = current[t] /\ BelongsTo(l, t) /\ Uses(t, l)
    BY <1>0, <1>3 DEF BelongsTo, Uses
  <2> QED
    BY <1>1, <2>1 DEF TouchStep, Touches
<1> QED
  BY <1>2, <1>3

\* Executions are no requests, nor patches copies.
LEMMA OthersOnward ==
  ASSUME CallsOK, NEW c \in Calls, NEW k, call' = [call EXCEPT ![c] = k]
  PROVE  /\ c \in Execs => OnwardStep
         /\ c \notin Execs => \A e \in Execs : call'[e] = call[e]
         /\ c \in Patches => (k.at \notin {"unused", "patching"} => OnwardStep)
         /\ c \in Copies => ((call[c].at # "done" \/ k.at = "done") => OnwardStep)
<1> USE CallsAssumption DEF Calls
<1>1. call'[c] = k /\ \A d \in Calls : d # c => call'[d] = call[d]
  BY DEF CallsOK
<1> QED
  BY <1>1 DEF OnwardStep

\* The lists are right after a patch has begun, or was done at once.
LEMMA ListsPatch ==
  ASSUME TypesInv, ListsInv, NEW p \in Patches, NEW t \in ThreadIds, Patch(p, t)
  PROVE  (StillStep \/ TouchStep) /\ OnwardStep
<1> USE DEF Calls
<1>0. p \notin Execs /\ p \notin Copies
  BY CallsAssumption
<1>1. CASE PatchRecord(p, t) \/ RefusePatch(p, t)
  <2>1. PICK at \in {"done", "failed", "refused"} : Finished(p, at)
    BY <1>1 DEF PatchRecord, Answered, RefusePatch
  <2> DEFINE k == [Unused EXCEPT !.at = at]
  <2>2. call' = [call EXCEPT ![p] = k] /\ k.at = at
    BY <2>1 DEF Finished, Unused
  <2> HIDE DEF k
  <2>3. OnwardStep /\ \A e \in Execs : call'[e] = call[e]
    BY <1>0, <2>2, OthersOnward DEF TypesInv
  <2> QED
    BY <1>1, <2>3 DEF PatchRecord, RefusePatch, StillStep
<1>2. CASE PatchLlamaIndex(p, t)
  <2>0. PICK at \in {"done", "failed"} : Finished(p, at)
    BY <1>2 DEF PatchLlamaIndex, Answered
  <2> DEFINE k == [Unused EXCEPT !.at = at]
  <2>1. call' = [call EXCEPT ![p] = k] /\ k.at = at /\ call'[p] = k
    BY <2>0 DEF Finished, Unused, TypesInv, CallsOK
  <2> HIDE DEF k
  <2>2. OnwardStep /\ \A e \in Execs : call'[e] = call[e]
    BY <1>0, <2>1, OthersOnward DEF TypesInv
  <2>3. Fresh(p) /\ ~Fresh(p)'
    BY <1>0, <1>2, <2>1 DEF PatchLlamaIndex, Ready, Fresh
  <2>4. AddState(p, t, p)
    BY <1>2 DEF PatchLlamaIndex
  <2>5. TouchStep
    BY <1>0, <2>2, <2>3, <2>4, AddTouches
  <2> QED
    BY <2>2, <2>5
<1>3. CASE BeginPatch(p, t)
  <2> DEFINE begun(new) == [Unused EXCEPT !.at = "patching", !.thread = t, !.read = metadata[t], !.new = new]
  <2>1. PICK new \in BOOLEAN : call' = [call EXCEPT ![p] = begun(new)]
    BY <1>3, Zenon DEF BeginPatch
  <2>2. call[p].at = "unused" /\ UNCHANGED checkpoints
    BY <1>3 DEF BeginPatch, Ready
  <2> HIDE DEF begun
  <2>3. \A d \in Calls : d # p => call'[d] = call[d]
    BY <2>1 DEF TypesInv, CallsOK
  <2>4. OnwardStep
    BY <1>0, <2>2, <2>3 DEF OnwardStep
  <2> QED
    BY <1>0, <2>2, <2>3, <2>4 DEF StillStep
<1> QED
  BY <1>1, <1>2, <1>3 DEF Patch

\* So does the rest of a patch.
LEMMA ListsPatchEnds ==
  ASSUME TypesInv, ListsInv, NEW p \in Patches, PatchState(p) \/ FinishPatch(p)
  PROVE  (StillStep \/ TouchStep) /\ OnwardStep
<1> USE DEF Calls
<1>0. p \notin Execs /\ p \notin Copies
  BY CallsAssumption
<1>1. CASE PatchState(p)
  <2> DEFINE t == call[p].thread
  <2>1. call[p].at = "patching" /\ p \notin written[t] /\ AddState(p, t, p) /\ UNCHANGED call
    BY <1>1 DEF PatchState
  <2>2. t \in ThreadIds
    BY <2>1, PlacesOf
  <2>3. p \in written'[t]
    BY <2>1, <2>2 DEF AddState, TypesInv, ListsOK
  <2>4. Fresh(p) /\ ~Fresh(p)'
    BY <1>0, <2>1, <2>3 DEF Fresh
  <2>5. TouchStep
    BY <1>0, <2>1, <2>2, <2>4, AddTouches
  <2>6. OnwardStep
    BY <2>1 DEF OnwardStep
  <2> QED
    BY <2>5, <2>6
<1>2. CASE FinishPatch(p)
  <2>1. PICK at \in {"done", "failed", "refused"} : Finished(p, at)
    BY <1>2 DEF FinishPatch, Answered
  <2> DEFINE k == [Unused EXCEPT !.at = at]
  <2>2. call' = [call EXCEPT ![p] = k] /\ k.at = at
    BY <2>1 DEF Finished, Unused
  <2> HIDE DEF k
  <2>3. OnwardStep /\ \A e \in Execs : call'[e] = call[e]
    BY <1>0, <2>2, OthersOnward DEF TypesInv
  <2> QED
    BY <1>2, <2>3 DEF FinishPatch, StillStep
<1> QED
  BY <1>1, <1>2

\* A copy that begins, or is made at once, starts its list or touches none.
LEMMA ListsCopy ==
  ASSUME TypesInv, ListsInv, NEW c \in Copies, NEW t \in ThreadIds, NEW u \in ThreadIds, Copy(c, t, u)
  PROVE  (StillStep \/ TouchStep) /\ OnwardStep
<1> USE DEF Calls
<1>0. c \notin Execs /\ c \notin Patches
  BY CallsAssumption
<1> DEFINE k(at) == [Unused EXCEPT !.at = at, !.thread = t, !.target = u]
<1>1. call[c].at = "unused" /\ \E at \in {"reading", "done"} : call' = [call EXCEPT ![c] = k(at)]
  BY DEF Copy, BeginCopy, CopyLlamaIndex
<1>2. \A at \in {"reading", "done"} : k(at).at = at
  BY DEF Unused
<1> HIDE DEF k
<1>3. OnwardStep /\ \A e \in Execs : call'[e] = call[e]
  BY <1>0, <1>1, OthersOnward DEF TypesInv
<1>4. CASE UNCHANGED checkpoints
  BY <1>3, <1>4 DEF StillStep
<1>5. CASE CopyLlamaIndex(c, t, u) /\ History(t) # << >> /\ AddState(c, u, ValuesIn(History(t)))
  <2>1. call'[c].at = "done"
    <3>1. call' = [call EXCEPT ![c] = k("done")]
      BY <1>5 DEF CopyLlamaIndex, k
    <3> QED
      BY <1>2, <3>1 DEF TypesInv, CallsOK
  <2>2. Fresh(c) /\ ~Fresh(c)'
    BY <1>0, <1>1, <2>1 DEF Fresh
  <2>3. ValuesIn(History(t)) \in Calls
    BY <1>5, ShownValues DEF TypesInv
  <2>4. TouchStep
    BY <1>0, <1>3, <1>5, <2>2, <2>3, AddTouches
  <2> QED
    BY <1>3, <2>4
<1> QED
  BY <1>4, <1>5 DEF Copy, BeginCopy, CopyLlamaIndex

\* So does the rest of a copy.
LEMMA ListsCopyEnds ==
  ASSUME TypesInv, ListsInv, NEW c \in Copies, ReadCopy(c) \/ WriteCopy(c) \/ AbandonCopy(c)
  PROVE  (StillStep \/ TouchStep) /\ OnwardStep
<1> USE DEF Calls
<1>0. c \notin Execs /\ c \notin Patches
  BY CallsAssumption
<1>1. call[c].at \in {"reading", "copying"} /\ \E k : call' = [call EXCEPT ![c] = k]
  BY DEF ReadCopy, WriteCopy, AbandonCopy, Finished
<1>2. OnwardStep /\ \A e \in Execs : call'[e] = call[e]
  BY <1>0, <1>1, OthersOnward DEF TypesInv
<1>3. CASE UNCHANGED checkpoints
  BY <1>2, <1>3 DEF StillStep
<1>4. CASE WriteCopy(c)
  <2>1. call[c].target \in ThreadIds /\ call[c].values \in Calls
    BY <1>4 DEF WriteCopy, TypesInv, CallsOK, RecordsOK, Placed
  <2>2. call'[c].at = "done"
    BY <1>4 DEF WriteCopy, Finished, Unused, TypesInv, CallsOK
  <2>3. Fresh(c) /\ ~Fresh(c)'
    BY <1>0, <1>1, <2>2 DEF Fresh
  <2>4. TouchStep
    BY <1>0, <1>2, <1>4, <2>1, <2>3, AddTouches DEF WriteCopy
  <2> QED
    BY <1>2, <2>4
<1> QED
  BY <1>3, <1>4 DEF ReadCopy, AbandonCopy

\* An execution touches the list it has, or none.
LEMMA ListsExec ==
  ASSUME TypesInv, ListsInv, NEW e \in Execs, Record(e) \/ RecordGraph(e) \/ End(e) \/ \E t, u \in ThreadIds : Begin(e, t, u)
  PROVE  (StillStep \/ TouchStep) /\ OnwardStep
<1> USE DEF Calls
<1>0. e \notin Copies /\ e \notin Patches /\ e \in Calls
  BY CallsAssumption
<1>1. CASE RecordGraph(e)
  <2> DEFINE t == call[e].thread
  <2>1. call[e].at = "running" /\ AddState(e, t, e) /\ UNCHANGED call
    BY <1>1 DEF RecordGraph
  <2>2. t \in ThreadIds
    BY <1>0, <2>1, PlacesOf
  <2>3. current'[t] # NoCall
    BY <2>1, <2>2, CallsAssumption DEF AddState, TypesInv, ListsOK
  <2>4. current[t] = NoCall => Fresh(e) /\ ~Fresh(e)'
    BY <1>0, <2>1, <2>3 DEF Fresh
  <2>5. OnwardStep /\ \A d \in Execs : call'[d] = call[d]
    BY <2>1 DEF OnwardStep
  <2> QED
    BY <2>1, <2>2, <2>4, <2>5, AddTouches
<1>2. CASE Record(e)
  <2>1. PICK t : t = call[e].thread
    OBVIOUS
  <2>2. PICK l : l = IF call[e].list = NoCall THEN e ELSE call[e].list
    OBVIOUS
  <2>3. call[e].at = "running" /\ t \in ThreadIds /\ call[e] \in Request /\ l \in Calls
    <3>1. call[e].at = "running" /\ call[e] \in Request
      BY <1>0, <1>2, Zenon DEF Record, TypesInv, CallsOK
    <3>2. call[e].list \in Calls \cup {NoCall}
      BY <3>1 DEF Request
    <3> QED
      BY <1>0, <2>1, <2>2, <3>1, <3>2, PlacesOf
  <2>4. /\ lists' = [lists EXCEPT ![l] = Append(lists[l], [values |-> e, by |-> e])]
        /\ current' = [current EXCEPT ![t] = l] /\ written' = [written EXCEPT ![t] = @ \cup {e}]
        /\ call' = [call EXCEPT ![e].list = l]
        /\ forked' = IF call[e].list = NoCall /\ call[e].new /\ current[t] # NoCall THEN forked \cup {t} ELSE forked
    BY <1>2, <2>1, <2>2, Zenon DEF Record
  <2>5. call' = [call EXCEPT ![e] = [call[e] EXCEPT !.list = l]]
    BY <2>3, <2>4 DEF TypesInv, CallsOK, Request
  <2>6. OnwardStep
    BY <1>0, <2>5, OthersOnward DEF TypesInv
  <2>7. /\ call'[e].at = "running" /\ call'[e].thread = t /\ call'[e].list = l
        /\ \A d \in Execs : d # e => call'[d] = call[d]
    BY <1>0, <2>1, <2>3, <2>5 DEF TypesInv, CallsOK, Request
  <2>8. HoldsRight(e)
    BY DEF ListsInv
  <2>9. BelongsTo(l, t) /\ (Uses(t, l) \/ ~Fresh(l)') /\ (l \in Execs => Uses(t, l) \/ l = e)
    <3>1. CASE call[e].list # NoCall
      <4>1. Uses(t, l)
        BY <2>1, <2>2, <2>3, <3>1 DEF Uses
      <4>2. t \in forked' \/ current[t] = l
        BY <2>1, <2>2, <2>3, <2>4, <2>8, <3>1 DEF HoldsRight
      <4> QED
        BY <4>1, <4>2 DEF BelongsTo
    <3>2. CASE call[e].list = NoCall
      <4>1. l = e /\ call[e].new
        BY <2>2, <2>3, <2>8, <3>2 DEF HoldsRight
      <4>2. current'[t] # NoCall
        BY <2>3, <2>4, CallsAssumption DEF TypesInv, ListsOK
      <4>3. ~Fresh(l)'
        BY <1>0, <2>7, <4>1, <4>2 DEF Fresh
      <4>4. CASE current[t] = NoCall
        <5>1. Fresh(l)
          BY <2>1, <2>3, <4>1, <4>4 DEF Fresh
        <5> QED
          BY <4>1, <4>3, <4>4, <5>1 DEF BelongsTo
      <4>5. CASE current[t] # NoCall
        <5>1. t \in forked'
          BY <2>4, <3>2, <4>1, <4>5
        <5> QED
          BY <4>1, <4>3, <5>1 DEF BelongsTo
      <4> QED
        BY <4>4, <4>5
    <3> QED
      BY <3>1, <3>2
  <2>10. Touches(t, l, e, e)
    <3>1. forked' = forked \/ forked' = forked \cup {t}
      BY <2>4
    <3> QED
      BY <2>1, <2>3, <2>4, <2>7, <2>9, <3>1 DEF Touches
  <2> QED
    BY <1>0, <2>3, <2>6, <2>10 DEF TouchStep
<1>3. CASE End(e)
  <2> DEFINE k == [Unused EXCEPT !.at = "retry", !.thread = call[e].thread, !.target = call[e].target]
  <2>1. call' = [call EXCEPT ![e] = k] /\ call[e].at = "running" /\ UNCHANGED checkpoints
    BY <1>3, Zenon DEF End
  <2>2. k.at = "retry" /\ k.thread = call[e].thread
    BY DEF Unused
  <2> HIDE DEF k
  <2>3. call'[e] = k /\ \A d \in Execs : d # e => call'[d] = call[d]
    BY <1>0, <2>1 DEF TypesInv, CallsOK
  <2>4. Ended(e)
    BY <2>1, <2>2, <2>3 DEF Ended
  <2>5. OnwardStep
    BY <1>0, <2>1, OthersOnward DEF TypesInv
  <2> QED
    BY <2>1, <2>3, <2>4, <2>5 DEF StillStep
<1>4. ASSUME NEW t \in ThreadIds, NEW u \in ThreadIds, Begin(e, t, u) PROVE (StillStep \/ TouchStep) /\ OnwardStep
  <2> DEFINE k == [Unused EXCEPT !.at = "running", !.thread = t, !.target = u,
                                 !.list = current[t], !.new = (current[t] = NoCall)]
  <2>1. /\ call' = [call EXCEPT ![e] = k] /\ UNCHANGED checkpoints
        /\ call[e].at = "unused" \/ (call[e].at = "retry" /\ call[e].thread = t)
    BY <1>4, Zenon DEF Begin, RunsUnder
  <2>2. k.at = "running" /\ k.thread = t /\ k.list = current[t] /\ (current[t] = NoCall => k.new)
    BY DEF Unused
  <2> HIDE DEF k
  <2>3. call'[e] = k /\ \A d \in Execs : d # e => call'[d] = call[d]
    BY <2>1 DEF TypesInv, CallsOK
  <2>4. Begun(e)
    BY <2>1, <2>2, <2>3 DEF Begun
  <2>5. OnwardStep
    BY <1>0, <2>1, OthersOnward DEF TypesInv
  <2> QED
    BY <2>1, <2>3, <2>4, <2>5 DEF StillStep
<1> QED
  BY <1>1, <1>2, <1>3, <1>4

\* They are right after every step.
LEMMA ListsStep ==
  ASSUME TypesInv, ListsInv, [ThreadsNext]_threadsVars
  PROVE  ListsInv'
<1>1. (StillStep \/ TouchStep) /\ OnwardStep
  <2>1. ASSUME NEW t \in ThreadIds, Thread(t) PROVE StillStep /\ OnwardStep
    BY <2>1 DEF Thread, CreateThread, DeleteThread, StillStep, OnwardStep
  <2>2. CASE UNCHANGED threadsVars
    BY <2>2 DEF threadsVars, StillStep, OnwardStep
  <2> QED
    BY <2>1, <2>2, ListsPatch, ListsPatchEnds, ListsCopy, ListsCopyEnds, ListsExec DEF ThreadsNext
<1> QED
  BY <1>1, ListsStill, ListsTouched

\* Whatever patches, copies, executions and deletions overlap, a thread's history
\* holds what was stored of it and nothing else, unless an execution that began
\* before the thread had a state replaced its list.
THEOREM HistoriesKept == ThreadsSpec => []HistoryKept
<1>1. ThreadsInit => MetadataOK /\ TypesInv /\ ListsInv
  BY InitIsOK, TypesInit, ListsInit
<1>2. ListsInv => HistoryKept
  BY DEF ListsInv, Kept, HistoryKept
<1> QED
  BY <1>1, <1>2, MetadataOKStep, TypesStep, ListsStep, PTL DEF ThreadsSpec

-----------------------------------------------------------------------------
(***************************************************************************)
(* Copies.  What a thread of a LlamaIndex agent shows, it is known to have *)
(* shown; the id a copy takes is new, so that its list is the copy's alone.*)
(***************************************************************************)
ShownInv ==
  /\ DOMAIN past = ThreadIds
  /\ framework = "llamaindex" =>
       \A t \in ThreadIds : t \in used => <<metadata[t], ValuesIn(History(t))>> \in past[t]

\* Every step lets a thread show only what it is then known to have shown.
LEMMA ShownStep ==
  ASSUME ShownInv, MetadataOK, [ThreadsNext]_threadsVars
  PROVE  ShownInv'
<1>1. CASE ThreadsNext
  <2>1. UNCHANGED framework
    BY KindsOfSteps
  <2>2. Witness
    BY <1>1 DEF ThreadsNext
  <2> QED
    BY <2>1, <2>2 DEF Witness, ShownInv, History
<1>2. CASE UNCHANGED threadsVars
  BY <1>2 DEF threadsVars, records, checkpoints, ShownInv, History, HistoryIn
<1> QED
  BY <1>1, <1>2

\* The one step that makes a copy of a LlamaIndex thread.
LEMMA CopyIsMadeAtOnce ==
  ASSUME TypesInv, [ThreadsNext]_threadsVars, NEW c \in Copies,
         framework = "llamaindex", call[c].at = "unused", call'[c].at = "done"
  PROVE  \E t, u \in ThreadIds : CopyLlamaIndex(c, t, u)
<1> USE DEF Calls
<1>0. c \in Calls /\ c \notin Patches /\ c \notin Execs
  BY CallsAssumption
<1>1. \A d \in Calls : d # c => \A k : call' # [call EXCEPT ![d] = k]
  BY <1>0 DEF TypesInv, CallsOK
<1>2. \A d \in Calls : d # c => \A at : ~Finished(d, at)
  BY <1>0 DEF Finished, TypesInv, CallsOK
<1>3. ASSUME NEW p \in Patches, NEW t \in ThreadIds, Patch(p, t) PROVE FALSE
  <2>1. CASE PatchRecord(p, t) \/ PatchLlamaIndex(p, t) \/ RefusePatch(p, t)
    BY <1>0, <1>2, <2>1 DEF PatchRecord, PatchLlamaIndex, Answered, RefusePatch
  <2>2. CASE BeginPatch(p, t)
    BY <2>2 DEF BeginPatch
  <2> QED
    BY <1>3, <2>1, <2>2 DEF Patch
<1>4. ASSUME NEW p \in Patches, PatchState(p) \/ FinishPatch(p) PROVE FALSE
  BY <1>0, <1>2, <1>4 DEF PatchState, FinishPatch, Answered
<1>5. ASSUME NEW d \in Copies, ReadCopy(d) \/ WriteCopy(d) \/ AbandonCopy(d) PROVE FALSE
  BY <1>0, <1>2, <1>5 DEF ReadCopy, WriteCopy, AbandonCopy
<1>6. ASSUME NEW e \in Execs, Record(e) \/ RecordGraph(e) \/ End(e) \/ \E t, u \in ThreadIds : Begin(e, t, u) PROVE FALSE
  <2>1. e # c
    BY <1>0
  <2>2. call'[c] = call[c]
    <3>1. (\A f : f # e => call'[f] = call[f]) \/ \A f \in Calls : f # e => call'[f] = call[f]
      <4>1. CASE Record(e)
        <5>1. PICK l : call' = [call EXCEPT ![e].list = l]
          BY <4>1, Zenon DEF Record
        <5> QED
          BY <5>1 DEF TypesInv, CallsOK
      <4>2. CASE RecordGraph(e)
        BY <4>2 DEF RecordGraph
      <4>3. CASE End(e)
        BY <1>1, <4>3 DEF End, TypesInv, CallsOK
      <4>4. ASSUME NEW t \in ThreadIds, NEW u \in ThreadIds, Begin(e, t, u) PROVE \A f \in Calls : f # e => call'[f] = call[f]
        <5>1. \E k : call' = [call EXCEPT ![e] = k]
          BY <4>4, Zenon DEF Begin
        <5> QED
          BY <5>1 DEF TypesInv, CallsOK
      <4> QED
        BY <1>6, <4>1, <4>2, <4>3, <4>4
    <3> QED
      BY <1>0, <2>1, <3>1
  <2> QED
    BY <2>2
<1>7. ASSUME NEW t \in ThreadIds, Thread(t) PROVE FALSE
  BY <1>7 DEF Thread, CreateThread, DeleteThread
<1>8. ASSUME NEW d \in Copies, NEW t \in ThreadIds, NEW u \in ThreadIds, Copy(d, t, u)
      PROVE  CopyLlamaIndex(c, t, u)
  <2>1. CopyLlamaIndex(d, t, u)
    BY <1>8 DEF Copy, BeginCopy
  <2>2. d = c
    BY <1>1, <2>1 DEF CopyLlamaIndex
  <2> QED
    BY <2>1, <2>2
<1>9. ~UNCHANGED threadsVars
  BY DEF threadsVars
<1> QED
  BY <1>3, <1>4, <1>5, <1>6, <1>7, <1>8, <1>9 DEF ThreadsNext

\* A copy has the metadata and values its thread has at that moment.
LEMMA CopyShows ==
  ASSUME TypesInv, ListsInv, NEW c \in Copies, NEW t \in ThreadIds, NEW u \in ThreadIds, CopyLlamaIndex(c, t, u)
  PROVE  /\ call'[c].thread = t /\ call'[c].target = u /\ t \in used
         /\ metadata'[u] = metadata[t] /\ ValuesIn(HistoryIn(lists', current', u)) = ValuesIn(History(t))
<1> USE DEF Calls
<1>1. call'[c].thread = t /\ call'[c].target = u
  <2> DEFINE k == [Unused EXCEPT !.at = "done", !.thread = t, !.target = u]
  <2>1. call' = [call EXCEPT ![c] = k]
    BY DEF CopyLlamaIndex
  <2>2. k.thread = t /\ k.target = u
    BY DEF Unused
  <2> HIDE DEF k
  <2> QED
    BY <2>1, <2>2 DEF TypesInv, CallsOK
<1>2. t \in used /\ metadata'[u] = metadata[t]
  BY DEF CopyLlamaIndex, Store, TypesInv, RecordsOK
<1>3. current[u] = NoCall
  BY DEF CopyLlamaIndex, TypesInv, ListsOK
<1>4. ASSUME History(t) = << >>
      PROVE  ValuesIn(HistoryIn(lists', current', u)) = ValuesIn(History(t))
  BY <1>3, <1>4 DEF CopyLlamaIndex, checkpoints, HistoryIn, ValuesIn
<1>5. ASSUME History(t) # << >>
      PROVE  ValuesIn(HistoryIn(lists', current', u)) = ValuesIn(History(t))
  <2> DEFINE v == ValuesIn(History(t))
             x == [values |-> v, by |-> c]
  <2>1. AddState(c, u, v)
    BY <1>5 DEF CopyLlamaIndex
  <2>2. lists[c] = << >>
    <3>1. Fresh(c)
      BY DEF CopyLlamaIndex, Fresh
    <3> QED
      BY <3>1 DEF ListsInv, Unstarted
  <2>3. current'[u] = c /\ lists'[c] = Append(<< >>, x) /\ c # NoCall
    BY <1>3, <2>1, <2>2, CallsAssumption DEF AddState, TypesInv, ListsOK
  <2>4. v \in Calls
    BY <1>5, ShownValues DEF TypesInv
  <2> HIDE DEF v
  <2>5. Append(<< >>, x) = <<x>> /\ x.values = v
    OBVIOUS
  <2>6. HistoryIn(lists', current', u) = <<x>>
    BY <2>3, <2>5 DEF HistoryIn
  <2>7. ValuesIn(<<x>>) = x.values
    BY DEF ValuesIn
  <2> QED
    BY <2>5, <2>6, <2>7 DEF v
<1> QED
  BY <1>1, <1>2, <1>4, <1>5

\* A copy of a LlamaIndex thread is one of what the thread was at one moment, its
\* metadata and its values together.
THEOREM CopiesAreSnapshots == ThreadsSpec => CopyIsSnapshot
<1>1. ThreadsInit => MetadataOK /\ TypesInv /\ ListsInv /\ ShownInv
  BY InitIsOK, TypesInit, ListsInit DEF ThreadsInit, ShownInv
<1> DEFINE Snapshot ==
       \A c \in Copies :
         framework = "llamaindex" /\ call[c].at = "unused" /\ call'[c].at = "done" =>
           <<metadata'[call'[c].target], ValuesIn(HistoryIn(lists', current', call'[c].target))>>
             \in past[call'[c].thread]
<1>2. MetadataOK /\ TypesInv /\ ListsInv /\ ShownInv /\ [ThreadsNext]_threadsVars => [Snapshot]_threadsVars
  <2> SUFFICES ASSUME TypesInv, ListsInv, ShownInv, [ThreadsNext]_threadsVars, NEW c \in Copies,
                      framework = "llamaindex", call[c].at = "unused", call'[c].at = "done"
               PROVE  <<metadata'[call'[c].target], ValuesIn(HistoryIn(lists', current', call'[c].target))>>
                        \in past[call'[c].thread]
    OBVIOUS
  <2>1. PICK t, u \in ThreadIds : CopyLlamaIndex(c, t, u)
    BY CopyIsMadeAtOnce
  <2> QED
    BY <2>1, CopyShows DEF ShownInv
<1> QED
  BY <1>1, <1>2, MetadataOKStep, TypesStep, ListsStep, ShownStep, PTL DEF ThreadsSpec, CopyIsSnapshot

-----------------------------------------------------------------------------
(***************************************************************************)
(* The search.  It is of one state, so that the types are all it needs.    *)
(***************************************************************************)

\* As long as the limit is positive, what a page leaves out the next begins with.
LEMMA PagesMeet ==
  ASSUME NEW S, NEW s \in Seq(S), NEW limit \in 1..Len(s), NEW offset \in 0..Len(s)
  PROVE  Page(s, limit, offset) \o Page(s, Len(s), offset + limit) = SubSeq(s, offset + 1, Len(s))
<1> DEFINE end == IF offset + limit < Len(s) THEN offset + limit ELSE Len(s)
<1>1. PICK k \in offset..Len(s) : k = end
  OBVIOUS
<1>0. Len(s) \in Nat /\ k \in Int /\ offset \in Int /\ limit \in Int
  OBVIOUS
<1>2. Page(s, limit, offset) = SubSeq(s, offset + 1, k)
  BY <1>1 DEF Page
<1>3. Page(s, Len(s), offset + limit) = SubSeq(s, offset + limit + 1, Len(s))
  BY <1>0 DEF Page
<1>4. SubSeq(s, offset + limit + 1, Len(s)) = SubSeq(s, k + 1, Len(s))
  <2>1. CASE offset + limit < Len(s)
    BY <1>1, <2>1
  <2>2. CASE ~(offset + limit < Len(s))
    <3>1. /\ Len(s) < offset + limit + 1 /\ offset + limit + 1 \in Int
          /\ Len(s) < k + 1 /\ k + 1 \in Int
      BY <1>0, <1>1, <2>2
    <3>2. SubSeq(s, offset + limit + 1, Len(s)) = << >>
      BY <1>0, <3>1, SubSeqEmpty
    <3>3. SubSeq(s, k + 1, Len(s)) = << >>
      BY <1>0, <3>1, SubSeqEmpty
    <3> QED
      BY <3>2, <3>3
  <2> QED
    BY <2>1, <2>2
<1>5. SubSeq(s, offset + 1, k) \o SubSeq(s, k + 1, Len(s)) = SubSeq(s, offset + 1, Len(s))
  <2>1. /\ offset + 1 \in 1..(Len(s) + 1)
        /\ k \in ((offset + 1) - 1)..Len(s)
        /\ Len(s) \in k..Len(s)
    BY <1>0
  <2> QED
    BY <2>1, ConcatAdjacentSubSeq
<1> QED
  BY <1>2, <1>3, <1>4, <1>5

\* The page of a search that has the table's length for its limit is all of it.
LEMMA OnePage ==
  ASSUME NEW S, NEW s \in Seq(S), NEW limit \in Nat, Len(s) <= limit
  PROVE  Page(s, limit, 0) = s
<1>1. Len(s) \in Nat
  OBVIOUS
<1>2. Page(s, limit, 0) = SubSeq(s, 1, Len(s))
  BY <1>1 DEF Page
<1> QED
  BY <1>2, SubSeqFull

\* A search of the threads finds those with the metadata asked for, all of them
\* and no other, and its pages, put together, are what it finds.
THEOREM SearchesAreWhole == ThreadsSpec => []PagesAreWhole
<1>1. ThreadsTypeOK => PagesAreWhole
  <2> SUFFICES ASSUME ThreadsTypeOK, NEW m \in SUBSET Patches
               PROVE  LET all == SearchThreads(m, Len(table), 0) IN
                      /\ \A i \in DOMAIN table :
                           (m \in {{}, metadata[table[i]]}) <=> \E j \in DOMAIN all : all[j] = table[i]
                      /\ \A limit \in 1..Len(all), offset \in 0..Len(all) :
                           SearchThreads(m, limit, offset) \o SearchThreads(m, Len(all), offset + limit)
                             = SubSeq(all, offset + 1, Len(all))
    BY DEF PagesAreWhole
  <2> DEFINE match == IF m = {} THEN table ELSE SearchThread(m)
  <2>1. table \in Seq(ThreadIds) /\ Len(table) \in Nat
    BY DEF ThreadsTypeOK
  <2>2. /\ match \in Seq(ThreadIds) /\ Len(match) <= Len(table)
        /\ \A x : Within(x, match) <=> Within(x, table) /\ (m = {} \/ x \in {t \in ThreadIds : metadata[t] = m})
    BY <2>1, MatchingProperties DEF SearchThread
  <2>3. \A limit, offset : SearchThreads(m, limit, offset) = Page(match, limit, offset)
    BY DEF SearchThreads
  <2> HIDE DEF match
  <2>4. SearchThreads(m, Len(table), 0) = match
    BY <2>1, <2>2, <2>3, OnePage
  <2>5. ASSUME NEW i \in DOMAIN table
        PROVE  (m \in {{}, metadata[table[i]]}) <=> \E j \in DOMAIN match : match[j] = table[i]
    <3>1. Within(table[i], table) /\ table[i] \in ThreadIds
      BY <2>1, ElementOfSeq DEF Within
    <3>2. Within(table[i], match) <=> m \in {{}, metadata[table[i]]}
      BY <2>2, <3>1
    <3> QED
      BY <3>2 DEF Within
  <2>6. ASSUME NEW limit \in 1..Len(match), NEW offset \in 0..Len(match)
        PROVE  SearchThreads(m, limit, offset) \o SearchThreads(m, Len(match), offset + limit)
                 = SubSeq(match, offset + 1, Len(match))
    BY <2>2, <2>3, PagesMeet
  <2> QED
    BY <2>4, <2>5, <2>6
<1> QED
  BY <1>1, ThreadsTyped, PTL
=============================================================================
