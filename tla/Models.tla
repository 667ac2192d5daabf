------------------------------- MODULE Models -------------------------------
(***************************************************************************)
(* The models of generated/models that requests are read into and answers  *)
(* and events are made of.  A model is a table: the kinds of values each   *)
(* field takes, the fields a constructor must be given, those whose None   *)
(* to_dict keeps if it was given, and the defaults that are not None.      *)
(*                                                                         *)
(* A value is known by its kind: a literal where some validator asks for   *)
(* it, and the name of its model where it is an instance.  An object is a  *)
(* function from its fields to their kinds.  Fields a model does not have  *)
(* are ignored, as pydantic does.  Messages of models are never set.       *)
(***************************************************************************)
EXTENDS Naturals, FiniteSets

RunStatus == {"pending", "error", "success", "timeout", "interrupted"}
StreamingMode == {"values", "custom"}
Literals ==
  RunStatus \cup StreamingMode \cup
  {"result", "interrupt", "cancel", "continue", "reject", "rollback", "enqueue",
   "delete", "keep", "create", "raise", "do_nothing"}

Texts == {"text"} \cup Literals
Anything == Texts \cup {"null", "number", "boolean", "object", "list"}
Optional(kinds) == kinds \cup {"null"}
NoDefaults == [f \in {} |-> "null"]

-----------------------------------------------------------------------------
(* What every model does                                                   *)

\* The constructor, and model_validate.
Validates(model, given) ==
  /\ model.required \subseteq DOMAIN given
  /\ \A f \in DOMAIN given \cap DOMAIN model.fields : given[f] \in model.fields[f]

\* As the value of a field of another model.
Kind(name, model, given) == IF Validates(model, given) THEN name ELSE "invalid"

Default(model, f) == IF f \in DOMAIN model.defaults THEN model.defaults[f] ELSE "null"

\* model_dump: all fields.
ModelDump(model, given) ==
  [f \in DOMAIN model.fields |-> IF f \in DOMAIN given THEN given[f] ELSE Default(model, f)]

\* to_dict, and to_json: None only where it was given and may be.
ToDict(model, given) ==
  LET all == ModelDump(model, given) IN
  [f \in {f \in DOMAIN all : all[f] # "null" \/ f \in model.nullable \cap DOMAIN given} |-> all[f]]

\* from_dict, and from_json: what is missing is None, and None is the default.
FromDict(model, dict) ==
  Validates(model,
    [f \in DOMAIN model.fields |->
       IF f \in DOMAIN dict /\ dict[f] # "null" THEN dict[f] ELSE Default(model, f)])

\* The from_json of a choice of models: exactly one of them reads it.
ReadAs(models, dict) ==
  IF Cardinality({m \in models : FromDict(m, dict)}) = 1 THEN dict.type ELSE "none"

-----------------------------------------------------------------------------
(* Requests                                                                *)

Config ==
  [fields |-> [tags |-> {"null", "list"}, recursion_limit |-> {"null", "number"}, configurable |-> Anything],
   required |-> {}, nullable |-> {"configurable"}, defaults |-> NoDefaults]

\* A list of modes, or a mode: a text is neither.
StreamMode == {"modes", "mode"}

\* In a body.  An object is passed as keyword arguments, which make an object
\* again; from anything else no instance is made.
StreamModeOfBody(kind) ==
  CASE kind = "null" -> "null"
    [] kind = "object" /\ "object" \in StreamMode -> "StreamMode"
    [] OTHER -> "invalid"

RunCreateStateless ==
  [fields |->
     [agent_id |-> Optional(Texts), input |-> Anything, metadata |-> {"null", "object"},
      config |-> {"null", "Config"}, webhook |-> Optional(Texts),
      stream_mode |-> {"null", "StreamMode"}, on_disconnect |-> {"null", "cancel", "continue"},
      multitask_strategy |-> {"null", "reject", "rollback", "interrupt", "enqueue"},
      after_seconds |-> {"null", "number"}, on_completion |-> {"null", "delete", "keep"}],
   required |-> {}, nullable |-> {"input", "stream_mode"},
   defaults |-> [on_disconnect |-> "cancel", multitask_strategy |-> "reject", on_completion |-> "delete"]]

RunCreateStateful ==
  [fields |->
     [agent_id |-> Optional(Texts), input |-> Anything, metadata |-> {"null", "object"},
      config |-> {"null", "Config"}, webhook |-> Optional(Texts),
      stream_mode |-> {"null", "StreamMode"}, on_disconnect |-> {"null", "cancel", "continue"},
      multitask_strategy |-> {"null", "reject", "rollback", "interrupt", "enqueue"},
      after_seconds |-> {"null", "number"}, stream_subgraphs |-> {"null", "boolean"},
      if_not_exists |-> {"null", "create", "reject"}],
   required |-> {}, nullable |-> {"input", "stream_mode"},
   defaults |->
     [on_disconnect |-> "cancel", multitask_strategy |-> "reject", stream_subgraphs |-> "boolean",
      if_not_exists |-> "reject"]]

ThreadCreate ==
  [fields |-> [thread_id |-> Optional(Texts), metadata |-> {"null", "object"},
               if_exists |-> {"null", "raise", "do_nothing"}],
   required |-> {}, nullable |-> {}, defaults |-> [if_exists |-> "raise"]]

ThreadCheckpoint ==
  [fields |-> [checkpoint_id |-> Texts],
   required |-> {"checkpoint_id"}, nullable |-> {}, defaults |-> NoDefaults]

ThreadPatch ==
  [fields |-> [checkpoint |-> {"null", "ThreadCheckpoint"}, metadata |-> {"null", "object"},
               values |-> Anything, messages |-> {"null"}],
   required |-> {}, nullable |-> {"values"}, defaults |-> NoDefaults]

-----------------------------------------------------------------------------
(* Runs, and what waiting for them gives                                   *)

RunStateless ==
  [fields |-> [run_id |-> Texts, thread_id |-> Optional(Texts), agent_id |-> Texts,
               created_at |-> {"time"}, updated_at |-> {"time"}, status |-> RunStatus,
               creation |-> {"RunCreateStateless"}],
   required |-> {"run_id", "agent_id", "created_at", "updated_at", "status", "creation"},
   nullable |-> {}, defaults |-> NoDefaults]

RunStateful ==
  [RunStateless EXCEPT !.fields.creation = {"RunCreateStateful"}]

RunResult ==
  [fields |-> [type |-> {"result"}, values |-> Anything, messages |-> {"null"}],
   required |-> {"type"}, nullable |-> {"values"}, defaults |-> NoDefaults]

RunInterrupt ==
  [fields |-> [type |-> {"interrupt"}, interrupt |-> Anything],
   required |-> {"type", "interrupt"}, nullable |-> {"interrupt"}, defaults |-> NoDefaults]

RunError ==
  [fields |-> [type |-> {"error"}, run_id |-> Texts, errcode |-> {"number"}, description |-> Texts],
   required |-> {"type", "run_id", "errcode", "description"}, nullable |-> {}, defaults |-> NoDefaults]

RunOutput == {RunResult, RunInterrupt, RunError}

RunWaitResponseStateless ==
  [fields |-> [run |-> {"null", "RunStateless"}, output |-> {"null", "RunOutput"}],
   required |-> {}, nullable |-> {}, defaults |-> NoDefaults]

RunWaitResponseStateful ==
  [fields |-> [run |-> {"null", "RunStateful"}, output |-> {"null", "RunOutput"}],
   required |-> {}, nullable |-> {}, defaults |-> NoDefaults]

-----------------------------------------------------------------------------
(* Streamed events                                                         *)

\* Faulty ValueRunResultUpdate: the type is any text.
ValueRunResultUpdateUntyped ==
  [fields |-> [type |-> Texts, run_id |-> Texts, status |-> RunStatus, values |-> Anything, messages |-> {"null"}],
   required |-> {"type", "run_id", "status", "values"}, nullable |-> {"values"}, defaults |-> NoDefaults]

ValueRunResultUpdate ==
  [fields |-> [type |-> {"values"}, run_id |-> Texts, status |-> RunStatus, values |-> Anything,
               messages |-> {"null"}],
   required |-> {"type", "run_id", "status", "values"}, nullable |-> {"values"}, defaults |-> NoDefaults]

ValueRunInterruptUpdate ==
  [fields |-> [type |-> {"interrupt"}, interrupt |-> Anything, run_id |-> Texts, status |-> RunStatus],
   required |-> {"type", "interrupt", "run_id", "status"}, nullable |-> {"interrupt"},
   defaults |-> NoDefaults]

\* Faulty ValueRunErrorUpdate: anything describes an error.
ValueRunErrorUpdateLoose ==
  [fields |-> [type |-> {"error"}, run_id |-> Texts, errcode |-> {"number"}, description |-> Anything,
               status |-> RunStatus],
   required |-> {"type", "run_id", "errcode", "description", "status"}, nullable |-> {},
   defaults |-> NoDefaults]

ValueRunErrorUpdate ==
  [fields |-> [type |-> {"error"}, run_id |-> Texts, errcode |-> {"number"}, description |-> Texts,
               status |-> RunStatus],
   required |-> {"type", "run_id", "errcode", "description", "status"}, nullable |-> {},
   defaults |-> NoDefaults]

CustomRunResultUpdate ==
  [fields |-> [type |-> {"custom"}, run_id |-> Optional(Texts), status |-> RunStatus,
               update |-> {"object"}],
   required |-> {"type", "status", "update"}, nullable |-> {}, defaults |-> NoDefaults]

StreamEventPayload ==
  {ValueRunResultUpdate, CustomRunResultUpdate, ValueRunInterruptUpdate, ValueRunErrorUpdate}
=============================================================================
