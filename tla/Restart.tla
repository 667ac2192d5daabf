------------------------------- MODULE Restart -------------------------------
(***************************************************************************)
(* The life of the server process: main.py's start, the loading of the     *)
(* agents it serves, and the pickle of storage/storage.py, written when    *)
(* the process exits and read when it starts, composed with the runs and   *)
(* threads it persists.                                                    *)
(*                                                                         *)
(* Only the tables are saved: RUNS_QUEUE, the workers, the waiting         *)
(* requests and what they hold are gone with the process.  The save runs   *)
(* at any orderly exit, be the server up or still loading its agents; a    *)
(* kill saves nothing, and one that comes during the save leaves a file    *)
(* that cannot be read, which counts as no file.  Storage is switched on   *)
(* (AGWS_STORAGE_PERSIST), as is the default.                              *)
(***************************************************************************)
EXTENDS ThreadRuns, Agents

CONSTANT Configs  \* the values AGENTS_REF may have, as sequences of entries

ASSUME ConfigsAssumption == \A c \in Configs : c \in Seq({c[i] : i \in DOMAIN c})

VARIABLES
  process,   \* down, loading its agents, up
  config,    \* AGENTS_REF of this process
  agents,    \* AGENTS, in order of registration
  persist,   \* DB._presist_threads
  file,      \* what a start would read
  stranded,  \* history: the runs that were owed something when they were read
  promised   \* history: what complete saves have held, and the threads among it
             \* that a later save has left out

processVars == <<process, config, agents, persist>>
historyVars == <<stranded, promised>>
restartVars == <<processVars, file, historyVars, threadVars>>

-----------------------------------------------------------------------------
NoFile ==
  [status |-> [r \in Runs |-> "gone"], output |-> [r \in Runs |-> "none"],
   attempts |-> [r \in Runs |-> 0], owner |-> [r \in Runs |-> NoThread], threads |-> {}]

NoPromise == [runs |-> {}, threads |-> {}, erased |-> {}]

PresentThreads == {t \in ThreadIds : thread[t] = "present"}

\* _save_to_file
Image ==
  [status |-> [r \in Runs |-> IF Present(r) THEN status[r] ELSE "gone"],
   output |-> output, attempts |-> attempts, owner |-> owner,
   threads |-> IF persist THEN PresentThreads ELSE {}]

\* Of the graphs that came compiled, the one loaded last keeps the states of its
\* threads in Postgres: the process is expected to keep the threads.
Durable ==
  \E i \in DOMAIN agents :
    /\ agents[i].exports = "compiledPostgres"
    /\ \A j \in DOMAIN agents : j > i => agents[j].exports # "compiled"

RestartInit ==
  /\ ThreadInit
  /\ process = "down" /\ config = << >> /\ agents = << >> /\ persist = FALSE
  /\ file = NoFile
  /\ stranded = {} /\ promised = NoPromise

-----------------------------------------------------------------------------
(* Start                                                                   *)

\* Faulty Import: the tables stay empty, to be filled when agents are loaded.
ImportNothing ==
  /\ process = "down"
  /\ process' = "loading" /\ config' \in Configs
  /\ stranded' = {}
  /\ UNCHANGED <<agents, persist, file, promised, threadVars>>

\* Importing the storage module reads the file and registers the save.
Import ==
  /\ process = "down"
  /\ process' = "loading" /\ config' \in Configs
  /\ status' = [r \in Runs |-> IF file.status[r] # "gone" THEN file.status[r] ELSE status[r]]
  /\ output' = file.output /\ attempts' = file.attempts /\ owner' = file.owner
  /\ thread' = [t \in ThreadIds |-> IF t \in file.threads THEN "present" ELSE thread[t]]
  /\ stranded' = {r \in Runs : Owed(r)'}
  /\ UNCHANGED <<agents, persist, file, promised, queue, workerVars, waiter, tries, resumes, post>>

NextEntry == config[Len(agents) + 1]

LoadAgent ==
  /\ process = "loading" /\ Len(agents) < Len(config) /\ Resolves(NextEntry)
  /\ agents' = Append(agents, NextEntry)
  /\ persist' = Flag(NextEntry, persist)
  /\ UNCHANGED <<process, config, file, historyVars, threadVars>>

\* start_workers and the HTTP server.
Serve ==
  /\ process = "loading" /\ Len(agents) = Len(config)
  /\ process' = "up"
  /\ UNCHANGED <<config, agents, persist, file, historyVars, threadVars>>

-----------------------------------------------------------------------------
(* End                                                                     *)

\* What a new process knows before it has read the file.
Forget ==
  /\ process' = "down" /\ config' = << >> /\ agents' = << >> /\ persist' = FALSE
  /\ status' = [r \in Runs |-> IF status[r] = "new" THEN "new" ELSE "gone"]
  /\ output' = [r \in Runs |-> "none"]
  /\ attempts' = [r \in Runs |-> 0]
  /\ queue' = << >>
  /\ pc' = [w \in Workers |-> "idle"]
  /\ job' = [w \in Workers |-> NoRun]
  /\ held' = [w \in Workers |-> 0]
  /\ pool' = "up"
  /\ waiter' = [c \in Clients |-> Idle]
  /\ owner' = [r \in Runs |-> NoThread]
  /\ thread' = [t \in ThreadIds |-> IF thread[t] = "absent" THEN "absent" ELSE "deleted"]
  /\ post' = [p \in Posts |-> NoThread]
  /\ stranded' = {}
  /\ UNCHANGED <<tries, resumes>>

Save ==
  /\ file' = Image
  /\ promised' =
       [runs |-> {r \in Runs : status[r] = "success"},
        threads |-> IF Durable THEN promised.threads \cup PresentThreads ELSE promised.threads,
        erased |-> IF Durable THEN promised.erased \ PresentThreads ELSE promised.threads]

\* SIGTERM, SIGINT: the save runs atexit, while agents are loaded as well.
Exit == process # "down" /\ Save /\ Forget

\* Faulty FailToLoad: load_agents returns instead of raising.
ServeTheRest ==
  /\ process = "loading" /\ Len(agents) < Len(config) /\ ~Resolves(NextEntry)
  /\ process' = "up"
  /\ UNCHANGED <<config, agents, persist, file, historyVars, threadVars>>

\* load_agents raises, start logs it and returns, and the exit saves.
FailToLoad ==
  /\ process = "loading" /\ Len(agents) < Len(config) /\ ~Resolves(NextEntry)
  /\ Save /\ Forget

\* The file was opened for writing and is incomplete.
CutSave ==
  /\ process # "down"
  /\ file' = NoFile
  /\ promised' = [runs |-> {}, threads |-> promised.threads, erased |-> promised.threads]
  /\ Forget

Kill ==
  /\ process # "down"
  /\ UNCHANGED <<file, promised>>
  /\ Forget

-----------------------------------------------------------------------------
ServerStep ==
  /\ process = "up" /\ ThreadNext
  /\ promised' =
       [runs |-> {r \in promised.runs : status'[r] # "gone"},
        threads |-> {t \in promised.threads : thread[t] = "present" => thread'[t] = "present"},
        erased |-> promised.erased]
  /\ UNCHANGED <<processVars, file, stranded>>

RestartNext ==
  \/ ServerStep
  \/ Import \/ LoadAgent \/ Serve
  \/ Exit \/ FailToLoad \/ CutSave \/ Kill

RestartSpec == RestartInit /\ [][RestartNext]_restartVars

-----------------------------------------------------------------------------
(* Properties *)

RestartTypeOK ==
  /\ TypeOK /\ ThreadTypeOK
  /\ process \in {"down", "loading", "up"} /\ persist \in BOOLEAN
  /\ file \in [status : [Runs -> Statuses \cup {"gone"}], output : [Runs -> OutputKinds],
               attempts : [Runs -> Nat], owner : [Runs -> ThreadIds \cup {NoThread}],
               threads : SUBSET ThreadIds]
  /\ stranded \subseteq Runs
  /\ promised \in [runs : SUBSET Runs, threads : SUBSET ThreadIds, erased : SUBSET ThreadIds]

\* A run accepted since the server was started is not forgotten while its
\* workers are up; those that were pending or between two attempts when it was
\* stopped are the only ones nobody will execute.
NoRunLostSinceStart ==
  process = "up" /\ pool = "up" => \A r \in Runs : Owed(r) => Driven(r) \/ r \in stranded

\* A result that a complete save holds survives every later exit, kill and failed
\* start, until its run is deleted or a save is cut short.
KeptResults ==
  process # "down" => \A r \in promised.runs : status[r] = "success" /\ output[r] = "value"

\* A thread that a process has saved whose last compiled graph has Postgres is there
\* after every later exit, kill and failed start, until it is deleted, unless one of
\* those saves was cut short or came from a process that had no such graph, or had
\* not loaded it yet: such a save erases the threads, whoever saved them before.
KeptThreads ==
  process # "down" => \A t \in promised.threads : thread[t] = "present" \/ t \in promised.erased

\* A server that is up serves every agent it is configured with, in their order, of
\* which the first is the default, documents each by its capabilities, and finds it.
ServesConfigured ==
  process = "up" =>
    /\ agents = config
    /\ \A i \in DOMAIN agents : DocumentFits(agents[i]) /\ Reachable(agents, agents[i])
=============================================================================
