---------------------------- MODULE Restart_proofs ----------------------------
(***************************************************************************)
(* What holds of Restart for every set of runs, threads and configurations *)
(* and every number of exits, kills and starts.  While the server is up    *)
(* its steps are those of ThreadRuns, and what is proved of a step there   *)
(* holds here; the proofs add what a start reads, which agents it serves   *)
(* and what an end leaves.                                                 *)
(***************************************************************************)
EXTENDS Restart, ThreadRuns_proofs, Tables_proofs

\* A process that is not serving has no run queued, executed or waited for.
AtStart ==
  process # "up" =>
    /\ queue = << >> /\ pool = "up"
    /\ \A w \in Workers : pc[w] = "idle" /\ job[w] = NoRun
    /\ \A c \in Clients : waiter[c].at = "idle"

\* A step of the server is one of the queue and its threads.
LEMMA ServerIsThreads ==
  ASSUME ServerStep
  PROVE  [ThreadNext]_threadVars /\ [Next]_vars
BY ThreadStep DEF ServerStep

\* Loading and serving touch no run and no thread.
LEMMA LoadingIsQuiet ==
  ASSUME LoadAgent \/ Serve \/ UNCHANGED restartVars
  PROVE  UNCHANGED <<file, historyVars, threadVars>>
BY DEF LoadAgent, Serve, restartVars

\* However a process ends, the next one has forgotten all but the file.
LEMMA EndForgets ==
  ASSUME Exit \/ FailToLoad \/ CutSave \/ Kill
  PROVE  Forget
BY DEF Exit, FailToLoad, CutSave, Kill

\* What is saved can be read: every field has the values of its table.
LEMMA ImageType ==
  ASSUME RestartTypeOK
  PROVE  /\ Image \in [status : [Runs -> Statuses \cup {"gone"}], output : [Runs -> OutputKinds],
                      attempts : [Runs -> Nat], owner : [Runs -> ThreadIds \cup {NoThread}],
                      threads : SUBSET ThreadIds]
         /\ NoFile \in [status : [Runs -> Statuses \cup {"gone"}], output : [Runs -> OutputKinds],
                       attempts : [Runs -> Nat], owner : [Runs -> ThreadIds \cup {NoThread}],
                       threads : SUBSET ThreadIds]
<1>1. [r \in Runs |-> IF Present(r) THEN status[r] ELSE "gone"] \in [Runs -> Statuses \cup {"gone"}]
  BY DEF Present
<1>2. (IF persist THEN PresentThreads ELSE {}) \in SUBSET ThreadIds
  BY DEF PresentThreads
<1> QED
  BY <1>1, <1>2 DEF Image, NoFile, RestartTypeOK, TypeOK, ThreadTypeOK, OutputKinds

\* What has been saved stays a set of runs and two of threads.
LEMMA PromiseType ==
  ASSUME RestartTypeOK, [RestartNext]_restartVars
  PROVE  promised' \in [runs : SUBSET Runs, threads : SUBSET ThreadIds, erased : SUBSET ThreadIds]
<1>1. CASE ServerStep
  BY <1>1 DEF ServerStep, RestartTypeOK
<1>2. CASE Save
  BY <1>2 DEF Save, PresentThreads, RestartTypeOK
<1>3. CASE CutSave
  BY <1>3 DEF CutSave, RestartTypeOK
<1> QED
  BY <1>1, <1>2, <1>3
     DEF RestartNext, Import, LoadAgent, Serve, Exit, FailToLoad, Kill, historyVars, restartVars, RestartTypeOK

\* A forgetful end leaves an empty process.
LEMMA ForgetType ==
  ASSUME RestartTypeOK, Forget
  PROVE  TypeOK' /\ ThreadTypeOK' /\ AtStart' /\ process' = "down" /\ persist' = FALSE /\ stranded' = {}
<1>1. << >> \in Seq(Runs)
  BY EmptySeq
<1>2. Idle \in WaiterStates
  BY DEF Idle, WaiterStates, OutputKinds
<1>3. TypeOK'
  BY <1>1, <1>2 DEF Forget, RestartTypeOK, TypeOK, OutputKinds, Places, Statuses
<1>4. ThreadTypeOK'
  BY DEF Forget, RestartTypeOK, ThreadTypeOK
<1>5. AtStart'
  BY DEF Forget, AtStart, Idle
<1> QED
  BY <1>3, <1>4, <1>5 DEF Forget

\* What a start reads has the values of the tables.
LEMMA ImportType ==
  ASSUME RestartTypeOK, Import
  PROVE  TypeOK' /\ ThreadTypeOK'
<1>1. status' \in [Runs -> Statuses \cup {"new", "gone"}]
  BY DEF Import, RestartTypeOK, TypeOK
<1>2. thread' \in [ThreadIds -> {"absent", "present", "deleted"}]
  BY DEF Import, RestartTypeOK, ThreadTypeOK
<1>3. output' \in [Runs -> OutputKinds] /\ attempts' \in [Runs -> Nat] /\ owner' \in [Runs -> ThreadIds \cup {NoThread}]
  BY DEF Import, RestartTypeOK
<1>4. TypeOK'
  BY <1>1, <1>3 DEF Import, RestartTypeOK, TypeOK, workerVars
<1>5. ThreadTypeOK'
  BY <1>2, <1>3 DEF Import, RestartTypeOK, ThreadTypeOK
<1> QED
  BY <1>4, <1>5

\* The types, with what keeps them: who waits, waits for a run that was created,
\* and nobody waits while the process is not serving.
RestartInv == RestartTypeOK /\ WaitsForRun /\ AtStart

\* Initially.
LEMMA RestartInvInit ==
  ASSUME RestartInit
  PROVE  RestartInv
<1>1. Init /\ ThreadInit
  BY DEF RestartInit, ThreadInit
<1>2. TypeOK /\ WaitsForRun
  BY <1>1, InitCorrect
<1>3. ThreadTypeOK
  BY <1>1 DEF ThreadInit, ThreadTypeOK
<1>4. NoFile = file /\ stranded = {} /\ process = "down" /\ persist = FALSE /\ promised = NoPromise
  BY DEF RestartInit
<1>5. NoFile \in [status : [Runs -> Statuses \cup {"gone"}], output : [Runs -> OutputKinds],
                  attempts : [Runs -> Nat], owner : [Runs -> ThreadIds \cup {NoThread}],
                  threads : SUBSET ThreadIds]
  BY DEF NoFile, OutputKinds
<1>6. AtStart
  BY <1>1 DEF Init, AtStart, Idle
<1> QED
  BY <1>2, <1>3, <1>4, <1>5, <1>6 DEF NoPromise, RestartInv, RestartTypeOK

\* Every step keeps them.
LEMMA RestartInvStep ==
  ASSUME RestartInv, [RestartNext]_restartVars
  PROVE  RestartInv'
<1> USE DEF RestartInv
<1>0. promised' \in [runs : SUBSET Runs, threads : SUBSET ThreadIds, erased : SUBSET ThreadIds]
  BY PromiseType
<1>1. CASE ServerStep
  <2>1. TypeOK' /\ ThreadTypeOK' /\ WaitsForRun'
    BY <1>1, ServerIsThreads, TypeStep, WaitsStep, ThreadTypeStep DEF RestartTypeOK
  <2> QED
    <3>1. process = "up" /\ UNCHANGED <<process, persist, file, stranded>>
      BY <1>1 DEF ServerStep, processVars
    <3> QED
      BY <1>0, <2>1, <3>1 DEF RestartTypeOK, AtStart
<1>2. CASE Import
  <2>1. TypeOK' /\ ThreadTypeOK'
    BY <1>2, ImportType
  <2>2. WaitsForRun' /\ AtStart'
    BY <1>2 DEF Import, AtStart, WaitsForRun, workerVars
  <2>3. stranded' \subseteq Runs /\ process' = "loading" /\ UNCHANGED <<persist, file>>
    BY <1>2 DEF Import
  <2> QED
    BY <1>0, <2>1, <2>2, <2>3 DEF RestartTypeOK
<1>3. CASE LoadAgent \/ Serve \/ UNCHANGED restartVars
  <2>1. UNCHANGED <<file, stranded, threadVars, vars>>
    BY <1>3, LoadingIsQuiet DEF historyVars, threadVars
  <2>2. process' \in {"down", "loading", "up"} /\ persist' \in BOOLEAN
    BY <1>3 DEF LoadAgent, Serve, restartVars, processVars, Flag, RestartTypeOK
  <2>3. TypeOK' /\ ThreadTypeOK' /\ WaitsForRun'
    BY <2>1 DEF threadVars, vars, RestartTypeOK, TypeOK, ThreadTypeOK, WaitsForRun
  <2>4. AtStart'
    BY <1>3, <2>1 DEF LoadAgent, Serve, restartVars, processVars, vars, AtStart
  <2> QED
    BY <1>0, <2>1, <2>2, <2>3, <2>4 DEF RestartTypeOK
<1>4. CASE Exit \/ FailToLoad \/ CutSave \/ Kill
  <2>1. Forget
    BY <1>4, EndForgets
  <2>2. file' \in {Image, NoFile, file}
    BY <1>4 DEF Exit, FailToLoad, CutSave, Kill, Save
  <2>3. WaitsForRun'
    BY <2>1 DEF Forget, WaitsForRun, Idle
  <2> QED
    BY <1>0, <2>1, <2>2, <2>3, ImageType, ForgetType DEF RestartTypeOK
<1> QED
  BY <1>1, <1>2, <1>3, <1>4 DEF RestartNext

\* The tables and the file keep their types, however often the server is stopped,
\* killed, cut off in its save and started again.
THEOREM RestartTypeCorrect == RestartSpec => []RestartTypeOK
<1>1. RestartInv => RestartTypeOK
  BY DEF RestartInv
<1> QED
  BY <1>1, RestartInvInit, RestartInvStep, PTL DEF RestartSpec

-----------------------------------------------------------------------------
\* While the agents are loaded, every run that is owed something is one of those
\* the start read: there is no other yet.
StrandedAreKnown == process = "loading" => \A r \in Runs : Owed(r) => r \in stranded

\* A run accepted since the server was started is queued or executed for as long
\* as something is owed to it and the workers are up, after any number of
\* restarts; only what was pending at the last one is left behind.
THEOREM StartLosesNoRun == RestartSpec => []NoRunLostSinceStart
<1> DEFINE Inv == StrandedAreKnown /\ NoRunLostSinceStart
<1>1. RestartInit => Inv
  BY DEF RestartInit, StrandedAreKnown, NoRunLostSinceStart
<1>2. RestartInv /\ Inv /\ [RestartNext]_restartVars => Inv'
  <2> SUFFICES ASSUME RestartInv, Inv, [RestartNext]_restartVars PROVE Inv'
    OBVIOUS
  <2>1. CASE ServerStep
    <3>1. process = "up" /\ process' = "up" /\ UNCHANGED stranded /\ [Next]_vars
      BY <2>1, ServerIsThreads DEF ServerStep, processVars, RestartTypeOK, ThreadNext
    <3>2. ASSUME pool' = "up", NEW r \in Runs, Owed(r)', r \notin stranded PROVE Driven(r)'
      <4>1. TypeOK
        BY DEF RestartInv, RestartTypeOK
      <4>2. Owed(r) => Driven(r)
        BY <3>1, <3>2, <4>1, PoolNeverReturns DEF NoRunLostSinceStart
      <4> QED
        BY <3>1, <3>2, <4>1, <4>2, DrivenStep
    <3> QED
      BY <3>1, <3>2 DEF StrandedAreKnown, NoRunLostSinceStart
  <2>2. CASE Import
    BY <2>2 DEF Import, StrandedAreKnown, NoRunLostSinceStart
  <2>3. CASE LoadAgent \/ Serve \/ UNCHANGED restartVars
    <3>1. UNCHANGED <<stranded, threadVars, vars>>
      BY <2>3, LoadingIsQuiet DEF historyVars, threadVars
    <3>2. \A r \in Runs : (Owed(r) <=> Owed(r)') /\ (Driven(r) <=> Driven(r)')
      BY <3>1 DEF vars, Owed, Driven, Queued, Active
    <3>3. process' = process \/ (process = "loading" /\ process' = "up")
      BY <2>3 DEF LoadAgent, Serve, restartVars, processVars
    <3> QED
      BY <3>1, <3>2, <3>3 DEF vars, StrandedAreKnown, NoRunLostSinceStart
  <2>4. CASE Exit \/ FailToLoad \/ CutSave \/ Kill
    <3>1. process' = "down"
      BY <2>4, EndForgets DEF Forget
    <3> QED
      BY <3>1 DEF StrandedAreKnown, NoRunLostSinceStart
  <2> QED
    BY <2>1, <2>2, <2>3, <2>4 DEF RestartNext
<1> QED
  BY <1>1, <1>2, RestartInvInit, RestartInvStep, PTL DEF RestartSpec

-----------------------------------------------------------------------------
(***************************************************************************)
(* Results.  A start brings back what the last complete save held, and no  *)
(* step of the server takes a result from a run that has one, because      *)
(* nobody carries such a run: one carrier per run, and none for a run at   *)
(* rest, survives restarts as well.                                        *)
(***************************************************************************)
SuccessHasValue == \A r \in Runs : status[r] = "success" => output[r] = "value"

ResultsInv ==
  /\ Carried /\ SuccessHasValue
  /\ process = "down" => \A r \in Runs : status[r] \in {"new", "gone"}
  /\ \A r \in Runs : file.status[r] = "success" => file.output[r] = "value"
  /\ \A r \in promised.runs : r \in Runs /\ file.status[r] = "success"
  /\ process # "down" => \A r \in promised.runs : status[r] = "success"

\* Where nothing is queued or executed, every run has at most one carrier.
LEMMA IdleIsCarried ==
  ASSUME queue' = << >>, \A w \in Workers : pc'[w] = "idle"
  PROVE  Carried'
<1>1. Len(queue') = 0
  OBVIOUS
<1>2. \A w \in Workers : ~Active(w)'
  BY DEF Active
<1> QED
  BY <1>1, <1>2 DEF Carried, Exclusive, OnceQueued, NotBoth, OneWorker, RestedIsIdle, Driven, Queued

\* Without webhooks that reject, the output of a successful run is its value: the
\* only worker that stores an error holds the run, which is not successful then.
LEMMA ValueStep ==
  ASSUME TypeOK, Carried, Flaky = {}, SuccessHasValue, [Next]_vars
  PROVE  SuccessHasValue'
<1>1. ASSUME NEW w \in Workers, Pick(w) PROVE SuccessHasValue'
  BY <1>1 DEF Pick, PickDeleted, PickHooked, PickAndRun, PickAndGiveUp, SetStatus, dbVars, SuccessHasValue, TypeOK
<1>2. ASSUME NEW w \in Workers, Agent(w) PROVE SuccessHasValue'
  <2>1. job[w] \in Runs
    BY <1>2, PlaceType DEF Agent, Finish, Fail, EndDeleted
  <2>2. CASE Finish(w, "success") \/ Finish(w, "interrupted")
    BY <2>1, <2>2 DEF Finish, SetStatus, SuccessHasValue, TypeOK
  <2>3. CASE Fail(w, "running")
    BY <2>1, <2>3 DEF Fail, SetStatus, SuccessHasValue, TypeOK
  <2>4. CASE EndDeleted(w)
    BY <2>1, <2>4 DEF EndDeleted, Present, Statuses, SuccessHasValue, TypeOK
  <2> QED
    BY <1>2, <2>2, <2>3, <2>4 DEF Agent
<1>3. ASSUME NEW w \in Workers, Hook(w) PROVE SuccessHasValue'
  <2>1. ~HookRejects(w)
    BY DEF HookRejects
  <2>2. CASE HookErrorAnswers(w)
    <3>1. job[w] \in Runs /\ status[job[w]] # "success"
      BY <2>2, PlaceType DEF HookErrorAnswers, Active, Driven, Carried, RestedIsIdle, AtRest
    <3> QED
      BY <2>2, <3>1 DEF HookErrorAnswers, SuccessHasValue, TypeOK
  <2>3. CASE GiveUp(w)
    BY <2>3, PlaceType DEF GiveUp, SetStatus, SuccessHasValue, TypeOK
  <2>4. CASE Start(w) \/ HookEndAnswers(w) \/ HookGiveUpAnswers(w)
    BY <2>4 DEF Start, HookEndAnswers, HookGiveUpAnswers, dbVars, SuccessHasValue
  <2> QED
    BY <1>3, <2>1, <2>2, <2>3, <2>4 DEF Hook
<1>4. ASSUME NEW r \in Runs, Request(r) PROVE SuccessHasValue'
  BY <1>4 DEF Request, Put, Resume, Delete, SuccessHasValue, TypeOK
<1> QED
  BY <1>1, <1>2, <1>3, <1>4
  DEF Next, Worker, Client, Close, Requeue, Wait, Wake, CancelWorkers, dbVars, vars, SuccessHasValue

\* Every step keeps the results.
LEMMA ResultsStep ==
  ASSUME RestartInv, ResultsInv, Flaky = {}, [RestartNext]_restartVars
  PROVE  ResultsInv'
<1>0. TypeOK /\ ThreadTypeOK /\ RestartTypeOK
  BY DEF RestartInv, RestartTypeOK
<1>1. CASE ServerStep
  <2>1. process = "up" /\ process' = "up" /\ UNCHANGED file /\ [Next]_vars
        /\ promised'.runs = {r \in promised.runs : status'[r] # "gone"}
    BY <1>0, <1>1, ServerIsThreads DEF ServerStep, processVars, RestartTypeOK
  <2>2. Carried' /\ SuccessHasValue'
    BY <1>0, <2>1, CarriedStep, ValueStep DEF ResultsInv
  <2>3. ASSUME NEW r \in promised'.runs PROVE r \in Runs /\ file.status[r] = "success" /\ status'[r] = "success"
    <3>1. r \in promised.runs /\ status'[r] # "gone"
      BY <2>1, <2>3
    <3>2. r \in Runs /\ file.status[r] = "success" /\ status[r] = "success"
      BY <2>1, <3>1 DEF ResultsInv
    <3> QED
      BY <1>0, <2>1, <3>1, <3>2, SuccessStep DEF ResultsInv, Carried
  <2> QED
    BY <2>1, <2>2, <2>3 DEF ResultsInv
<1>2. CASE Import
  <2>1. process = "down" /\ process' = "loading" /\ UNCHANGED <<file, promised, queue, pc>>
    BY <1>2 DEF Import, workerVars
  <2>2. Carried'
    <3>1. queue' = << >> /\ \A w \in Workers : pc'[w] = "idle"
      BY <2>1 DEF RestartInv, AtStart
    <3> QED
      BY <3>1, IdleIsCarried
  <2>3. \A r \in Runs : status'[r] = "success" <=> file.status[r] = "success"
    BY <1>0, <1>2, <2>1 DEF Import, ResultsInv
  <2>4. SuccessHasValue'
    BY <1>2, <2>3 DEF Import, ResultsInv, SuccessHasValue
  <2> QED
    BY <2>1, <2>2, <2>3, <2>4 DEF ResultsInv
<1>3. CASE LoadAgent \/ Serve \/ UNCHANGED restartVars
  <2>1. UNCHANGED <<file, promised, threadVars, vars>>
    BY <1>3, LoadingIsQuiet DEF historyVars, threadVars
  <2>2. process' = process \/ process = "loading"
    BY <1>3 DEF LoadAgent, Serve, restartVars, processVars
  <2>3. Carried' <=> Carried
    BY <2>1 DEF vars, Carried, Exclusive, OnceQueued, NotBoth, OneWorker, RestedIsIdle, AtRest, Driven, Queued, Active
  <2>4. process' = "down" => process = "down"
    BY <1>3 DEF LoadAgent, Serve, restartVars, processVars
  <2> QED
    BY <2>1, <2>2, <2>3, <2>4 DEF vars, ResultsInv, SuccessHasValue
<1>4. CASE Exit \/ FailToLoad \/ CutSave \/ Kill
  <2>1. Forget
    BY <1>4, EndForgets
  <2>2. Carried'
    <3>1. queue' = << >> /\ \A w \in Workers : pc'[w] = "idle"
      BY <2>1 DEF Forget
    <3> QED
      BY <3>1, IdleIsCarried
  <2>3. process' = "down" /\ \A r \in Runs : status'[r] \in {"new", "gone"}
    BY <2>1 DEF Forget
  <2>4. CASE Save
    <3>1. \A r \in Runs : file'.status[r] = "success" <=> status[r] = "success"
      BY <2>4 DEF Save, Image, Present, Statuses
    <3>2. \A r \in Runs : file'.output[r] = output[r]
      BY <2>4 DEF Save, Image
    <3>3. promised'.runs = {r \in Runs : status[r] = "success"}
      BY <2>4 DEF Save
    <3> QED
      BY <2>2, <2>3, <3>1, <3>2, <3>3 DEF ResultsInv, SuccessHasValue
  <2>5. CASE CutSave
    <3>1. file' = NoFile /\ promised'.runs = {}
      BY <2>5 DEF CutSave
    <3> QED
      BY <2>2, <2>3, <3>1 DEF NoFile, ResultsInv, SuccessHasValue
  <2>6. CASE UNCHANGED <<file, promised>>
    BY <2>2, <2>3, <2>6 DEF ResultsInv, SuccessHasValue
  <2> QED
    BY <1>4, <2>4, <2>5, <2>6 DEF Exit, FailToLoad, Kill
<1> QED
  BY <1>1, <1>2, <1>3, <1>4 DEF RestartNext

\* Without webhooks that reject, a result that a complete save holds is there, with
\* its value, in every later life of the server that is not the heir of a cut
\* save, until its run is deleted.
THEOREM ResultsSurvive == ASSUME Flaky = {} PROVE RestartSpec => []KeptResults
<1>1. RestartInit => ResultsInv
  <2> SUFFICES ASSUME RestartInit PROVE ResultsInv
    OBVIOUS
  <2>1. Carried
    BY InitIsCarried DEF RestartInit, ThreadInit
  <2> QED
    BY <2>1 DEF RestartInit, ThreadInit, Init, NoFile, NoPromise, ResultsInv, SuccessHasValue
<1>2. ResultsInv => KeptResults
  <2> SUFFICES ASSUME ResultsInv, process # "down", NEW r \in promised.runs
               PROVE  status[r] = "success" /\ output[r] = "value"
    BY DEF KeptResults
  <2>1. r \in Runs /\ status[r] = "success"
    BY DEF ResultsInv
  <2> QED
    BY <2>1 DEF ResultsInv, SuccessHasValue
<1> QED
  BY <1>1, <1>2, ResultsStep, RestartInvInit, RestartInvStep, PTL DEF RestartSpec

-----------------------------------------------------------------------------
(***************************************************************************)
(* Threads.  The flag that decides whether they are saved is set exactly   *)
(* while the compiled graph loaded last has Postgres, and a save with the  *)
(* flag set leaves out no thread there is.                                 *)
(***************************************************************************)
EntriesOf(c) == {c[i] : i \in DOMAIN c}

\* A configuration is a list of its entries.
LEMMA ConfigLength ==
  ASSUME NEW c \in Configs
  PROVE  c \in Seq(EntriesOf(c)) /\ Len(c) \in Nat /\ DOMAIN c = 1..Len(c)
<1>1. c \in Seq(EntriesOf(c))
  BY ConfigsAssumption DEF EntriesOf
<1>2. Len(c) \in Nat /\ DOMAIN c = 1..Len(c)
  BY <1>1, LenProperties
<1> QED
  BY <1>1, <1>2

Entries == UNION {{c[i] : i \in 1..Len(c)} : c \in Configs}

ThreadsInv ==
  /\ agents \in Seq(Entries)
  /\ process = "loading" => config \in Configs
  /\ process = "down" => agents = << >>
  /\ Durable => persist
  /\ \A t \in promised.threads : t \in file.threads \/ t \in promised.erased
  /\ process # "down" => \A t \in promised.threads : thread[t] = "present" \/ t \in promised.erased

\* An agent that is loaded sets the flag, clears it or leaves it as its graph says.
LEMMA FlagFollows ==
  ASSUME RestartTypeOK, ThreadsInv, LoadAgent
  PROVE  agents' \in Seq(Entries) /\ (Durable' => persist')
<1> DEFINE n == Len(agents)
<1>1. n \in Nat /\ DOMAIN agents = 1..n /\ NextEntry \in Entries
  <2>1. n \in Nat /\ DOMAIN agents = 1..n
    BY LenProperties DEF ThreadsInv
  <2>2. n + 1 \in 1..Len(config)
    BY <2>1, ConfigLength DEF LoadAgent, ThreadsInv
  <2> QED
    BY <2>1, <2>2 DEF LoadAgent, NextEntry, Entries, ThreadsInv
<1>2. /\ agents' \in Seq(Entries) /\ DOMAIN agents' = 1..(n + 1)
      /\ agents'[n + 1] = NextEntry /\ \A i \in 1..n : agents'[i] = agents[i]
  BY <1>1, AppendProperties, LenProperties DEF LoadAgent, ThreadsInv
<1> HIDE DEF n
<1>3. ASSUME Durable' PROVE persist'
  <2>1. PICK i \in 1..(n + 1) :
          /\ agents'[i].exports = "compiledPostgres"
          /\ \A j \in 1..(n + 1) : j > i => agents'[j].exports # "compiled"
    BY <1>2, <1>3 DEF Durable
  <2>2. CASE i = n + 1
    BY <1>2, <2>1, <2>2 DEF LoadAgent, Flag
  <2>3. CASE i # n + 1
    <3>1. i \in 1..n /\ n + 1 \in 1..(n + 1) /\ n + 1 > i
      BY <1>1, <2>1, <2>3
    <3>2. NextEntry.exports # "compiled"
      BY <1>2, <2>1, <3>1
    <3>3. agents[i].exports = "compiledPostgres" /\ \A j \in 1..n : j > i => agents[j].exports # "compiled"
      BY <1>1, <1>2, <2>1, <3>1
    <3>4. Durable
      BY <1>1, <3>1, <3>3 DEF Durable
    <3> QED
      BY <3>2, <3>4 DEF LoadAgent, Flag, ThreadsInv
  <2> QED
    BY <2>2, <2>3
<1> QED
  BY <1>2, <1>3

\* Every step keeps the threads.
LEMMA ThreadsStep ==
  ASSUME RestartTypeOK, ThreadsInv, [RestartNext]_restartVars
  PROVE  ThreadsInv'
<1>1. CASE ServerStep
  <2>1. /\ promised'.threads = {t \in promised.threads : thread[t] = "present" => thread'[t] = "present"}
        /\ promised'.erased = promised.erased
    BY <1>1 DEF ServerStep, RestartTypeOK
  <2> QED
    BY <1>1, <2>1 DEF ServerStep, processVars, ThreadsInv, Durable
<1>2. CASE Import
  <2>1. \A t \in promised.threads : thread'[t] = "present" \/ t \in promised.erased
    BY <1>2 DEF Import, RestartTypeOK, ThreadsInv
  <2> QED
    BY <1>2, <2>1 DEF Import, ThreadsInv, Durable
<1>3. CASE LoadAgent
  BY <1>3, FlagFollows DEF LoadAgent, historyVars, threadVars, ThreadsInv
<1>4. CASE Serve
  BY <1>4 DEF Serve, historyVars, threadVars, ThreadsInv, Durable
<1>5. CASE UNCHANGED restartVars
  BY <1>5 DEF restartVars, processVars, historyVars, threadVars, ThreadsInv, Durable
<1>6. CASE Exit \/ FailToLoad \/ CutSave \/ Kill
  <2>1. process' = "down" /\ agents' = << >> /\ agents' \in Seq(Entries) /\ ~Durable'
    <3>1. process' = "down" /\ agents' = << >>
      BY <1>6, EndForgets DEF Forget
    <3>2. << >> \in Seq(Entries) /\ DOMAIN << >> = {}
      BY EmptySeq
    <3> QED
      BY <3>1, <3>2 DEF Durable
  <2>2. \A t \in promised'.threads : t \in file'.threads \/ t \in promised'.erased
    <3>1. CASE process # "down" /\ Save
      <4>1. CASE Durable
        <5>1. file'.threads = PresentThreads
          BY <3>1, <4>1 DEF Save, Image, ThreadsInv
        <5>2. /\ promised'.threads = promised.threads \cup PresentThreads
              /\ promised'.erased = promised.erased \ PresentThreads
          BY <3>1, <4>1 DEF Save
        <5>3. promised.threads \subseteq ThreadIds
          BY DEF RestartTypeOK
        <5> QED
          BY <3>1, <5>1, <5>2, <5>3 DEF PresentThreads, ThreadsInv
      <4>2. CASE ~Durable
        BY <3>1, <4>2 DEF Save
      <4> QED
        BY <4>1, <4>2
    <3>2. CASE CutSave
      BY <3>2 DEF CutSave
    <3>3. CASE UNCHANGED <<file, promised>>
      BY <3>3 DEF ThreadsInv
    <3> QED
      BY <1>6, <3>1, <3>2, <3>3 DEF Exit, FailToLoad, Kill
  <2> QED
    BY <2>1, <2>2 DEF ThreadsInv
<1> QED
  BY <1>1, <1>2, <1>3, <1>4, <1>5, <1>6 DEF RestartNext

\* A thread saved by a process whose last compiled graph has Postgres is there in
\* every later life, until it is deleted, unless a later save erased it: one cut
\* short, or one of a process that had no such graph or had not loaded it yet.
THEOREM ThreadsSurvive == RestartSpec => []KeptThreads
<1>1. RestartInit => ThreadsInv
  BY EmptySeq DEF RestartInit, NoFile, NoPromise, ThreadsInv, Durable
<1>2. ThreadsInv => KeptThreads
  BY DEF ThreadsInv, KeptThreads
<1> QED
  BY <1>1, <1>2, ThreadsStep, RestartTypeCorrect, PTL DEF RestartSpec

-----------------------------------------------------------------------------
(***************************************************************************)
(* The agents.  Those loaded so far are the first of the configuration, in *)
(* its order, and a process that is up has loaded them all.                *)
(***************************************************************************)
AgentsInv ==
  /\ process = "down" => agents = << >>
  /\ process # "down" =>
       /\ config \in Configs /\ agents \in Seq(EntriesOf(config)) /\ Len(agents) <= Len(config)
       /\ \A i \in 1..Len(agents) : agents[i] = config[i]
  /\ process = "up" => Len(agents) = Len(config)

\* Every step keeps what is loaded the beginning of what is configured.
LEMMA AgentsStep ==
  ASSUME RestartTypeOK, AgentsInv, [RestartNext]_restartVars
  PROVE  AgentsInv'
<1>1. CASE ServerStep \/ UNCHANGED restartVars
  BY <1>1 DEF ServerStep, restartVars, processVars, AgentsInv
<1>2. CASE Import
  <2>1. agents' = << >> /\ process' = "loading" /\ config' \in Configs
    BY <1>2 DEF Import, AgentsInv
  <2>2. Len(agents') = 0 /\ agents' \in Seq(EntriesOf(config')) /\ Len(config') \in Nat
    BY <2>1, EmptySeq, ConfigLength
  <2> QED
    BY <2>1, <2>2 DEF AgentsInv
<1>3. CASE LoadAgent
  <2> DEFINE n == Len(agents)
  <2>1. /\ process = "loading" /\ process' = "loading" /\ config' = config /\ config \in Configs
        /\ n < Len(config) /\ agents' = Append(agents, config[n + 1])
        /\ agents \in Seq(EntriesOf(config)) /\ \A i \in 1..n : agents[i] = config[i]
    BY <1>3 DEF LoadAgent, NextEntry, AgentsInv
  <2>2. n \in Nat /\ Len(config) \in Nat /\ DOMAIN config = 1..Len(config)
    BY <2>1, ConfigLength
  <2>3. config[n + 1] \in EntriesOf(config)
    BY <2>1, <2>2 DEF EntriesOf
  <2>4. /\ agents' \in Seq(EntriesOf(config)) /\ Len(agents') = n + 1
        /\ agents'[n + 1] = config[n + 1] /\ \A i \in 1..n : agents'[i] = agents[i]
    BY <2>1, <2>3, AppendProperties
  <2> HIDE DEF n
  <2>5. \A i \in 1..(n + 1) : agents'[i] = config[i]
    BY <2>1, <2>2, <2>4
  <2>6. n + 1 <= Len(config)
    BY <2>1, <2>2
  <2> QED
    BY <2>1, <2>4, <2>5, <2>6 DEF AgentsInv
<1>4. CASE Serve
  BY <1>4 DEF Serve, AgentsInv
<1>5. CASE Exit \/ FailToLoad \/ CutSave \/ Kill
  <2>1. process' = "down" /\ agents' = << >>
    BY <1>5, EndForgets DEF Forget
  <2> QED
    BY <2>1 DEF AgentsInv
<1> QED
  BY <1>1, <1>2, <1>3, <1>4, <1>5 DEF RestartNext

\* The document of an agent has what its capabilities say, and no step of making
\* it undoes one before.
LEMMA DocumentsFit ==
  ASSUME NEW e
  PROVE  DocumentFits(e)
<1> DEFINE can == ManifestOf(e).can
           one == GenThreadRuns(Specification, can)
           two == GenStreaming(one, can)
           document == GenCallback(two, can)
<1>0. Document(e) = document
  BY DEF Document, GenInterrupts
<1>1. /\ Specification.paths = {"agents", "runs", "runStream", "newRunStream"} \cup ThreadPaths
      /\ Specification.webhook = TRUE /\ DOMAIN Specification = {"paths", "tags", "outputs", "webhook"}
  BY DEF Specification
<1>2. /\ one.paths = IF "threads" \in can THEN Specification.paths ELSE Specification.paths \ ThreadPaths
      /\ one.webhook = TRUE /\ DOMAIN one = {"paths", "tags", "outputs", "webhook"}
  BY <1>1 DEF GenThreadRuns
<1> HIDE DEF can, one
<1>3. /\ two.paths = IF "streaming" \in can THEN one.paths ELSE one.paths \ {"runStream"}
      /\ two.webhook = TRUE /\ DOMAIN two = {"paths", "tags", "outputs", "webhook"}
  BY <1>2 DEF GenStreaming
<1> HIDE DEF two
<1>4. document.paths = two.paths /\ (document.webhook <=> "callbacks" \in can)
  BY <1>3 DEF GenCallback
<1> HIDE DEF document
<1>5. "runStream" \notin ThreadPaths
  BY DEF ThreadPaths
<1>6. "threads" \in can => ThreadPaths \subseteq document.paths
  BY <1>1, <1>2, <1>3, <1>4, <1>5
<1>7. "threads" \notin can => document.paths \cap ThreadPaths = {}
  BY <1>2, <1>3, <1>4
<1>8. "runStream" \in document.paths <=> "streaming" \in can
  BY <1>1, <1>2, <1>3, <1>4, <1>5
<1> QED
  BY <1>0, <1>4, <1>6, <1>7, <1>8 DEF DocumentFits, can

\* What is registered is found, by its id and by the name and the version it has.
LEMMA RegisteredIsFound ==
  ASSUME NEW S, NEW list \in Seq(S), NEW i \in DOMAIN list
  PROVE  Reachable(list, list[i])
<1> DEFINE e == list[i]
<1>1. Known(list, e.id)
  BY DEF Known
<1>2. {GetDescriptor(list, e.id), GetAgent(list, e.id), GetOpenApi(list, e.id)} = {200}
  BY <1>1 DEF GetDescriptor, GetAgent, GetOpenApi
<1>3. ASSUME NEW name \in {Blank, ManifestOf(e).name}, NEW version \in {Blank, ManifestOf(e).version}
      PROVE  LET listed == SearchForAgents(list, [name |-> name, version |-> version]) IN
             \E j \in DOMAIN listed : listed[j] = e
  <2> DEFINE request == [name |-> name, version |-> version]
             matching == {f \in {list[j] : j \in DOMAIN list} :
                            /\ request.name \in {Blank, ManifestOf(f).name}
                            /\ request.version \in {Blank, ManifestOf(f).version}}
  <2>1. request.name = name /\ request.version = version
    OBVIOUS
  <2>2. e \in matching
    BY <1>3, <2>1
  <2>3. SearchForAgents(list, request) = Matching(list, matching)
    BY DEF SearchForAgents
  <2> HIDE DEF matching
  <2>4. Within(e, list)
    BY DEF Within
  <2>5. Within(e, Matching(list, matching))
    BY <2>2, <2>4, MatchingProperties
  <2> QED
    BY <2>3, <2>5 DEF Within
<1> SUFFICES ASSUME NEW name \in {Blank, ManifestOf(e).name}, NEW version \in {Blank, ManifestOf(e).version}
             PROVE  LET request == [name |-> name, version |-> version]
                        listed == SearchForAgents(list, request) IN
                    SearchAgents(request) = 200 => \E j \in DOMAIN listed : listed[j] = e
  BY <1>2, Zenon DEF Reachable
<1> QED
  BY <1>3

\* A server that is up serves all it is configured with, in its order, so that the
\* first entry is the default; each agent is documented by what it can do, and found
\* by every search that fits it.
THEOREM AllAgentsServed == RestartSpec => []ServesConfigured
<1>1. RestartInit => AgentsInv
  BY DEF RestartInit, AgentsInv
<1>2. AgentsInv => ServesConfigured
  <2> SUFFICES ASSUME AgentsInv, process = "up" PROVE ServesConfigured
    BY DEF ServesConfigured
  <2>1. /\ config \in Configs /\ agents \in Seq(EntriesOf(config)) /\ Len(agents) = Len(config)
        /\ \A i \in 1..Len(agents) : agents[i] = config[i]
    BY DEF AgentsInv
  <2>2. config \in Seq(EntriesOf(config)) /\ Len(config) \in Nat
    BY <2>1, ConfigLength
  <2>3. agents = config
    BY <2>1, <2>2, SeqEqual
  <2>4. \A i \in DOMAIN agents : DocumentFits(agents[i]) /\ Reachable(agents, agents[i])
    BY <2>1, DocumentsFit, RegisteredIsFound
  <2> QED
    BY <2>3, <2>4 DEF ServesConfigured
<1> QED
  BY <1>1, <1>2, AgentsStep, RestartTypeCorrect, PTL DEF RestartSpec
=============================================================================
