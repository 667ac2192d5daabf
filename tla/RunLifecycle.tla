---------------------------- MODULE RunLifecycle ----------------------------
(***************************************************************************)
(* What the server promises the owner of a run, with queue, workers and    *)
(* webhooks out of sight: a run that is put is worked on until it succeeds,*)
(* is interrupted, or has been tried MaxAttempts times in vain.  The       *)
(* passing "error" of a run that will be retried is not a result.          *)
(***************************************************************************)
EXTENDS Naturals

CONSTANTS Runs, MaxAttempts, MaxResumes

VARIABLES
  life,     \* absent, working, success, interrupted, failed, deleted
  tries,    \* agent executions since the run was put or resumed
  resumes   \* bound: resumes so far

vars == <<life, tries, resumes>>

Init ==
  /\ life = [r \in Runs |-> "absent"]
  /\ tries = [r \in Runs |-> 0]
  /\ resumes = [r \in Runs |-> 0]

Put(r) ==
  /\ life[r] = "absent"
  /\ life' = [life EXCEPT ![r] = "working"]
  /\ UNCHANGED <<tries, resumes>>

Try(r) ==
  /\ life[r] = "working" /\ tries[r] < MaxAttempts
  /\ tries' = [tries EXCEPT ![r] = @ + 1]
  /\ UNCHANGED <<life, resumes>>

\* Only a run the agent has executed has a result.
End(r, result) ==
  /\ life[r] = "working" /\ tries[r] > 0
  /\ life' = [life EXCEPT ![r] = result]
  /\ UNCHANGED <<tries, resumes>>

GiveUp(r) == tries[r] = MaxAttempts /\ End(r, "failed")

Resume(r) ==
  /\ life[r] = "interrupted" /\ resumes[r] < MaxResumes
  /\ life' = [life EXCEPT ![r] = "working"]
  /\ tries' = [tries EXCEPT ![r] = 0]
  /\ resumes' = [resumes EXCEPT ![r] = @ + 1]

Delete(r) ==
  /\ life[r] \notin {"absent", "deleted"}
  /\ life' = [life EXCEPT ![r] = "deleted"]
  /\ UNCHANGED <<tries, resumes>>

Work(r) == Try(r) \/ End(r, "success") \/ End(r, "interrupted") \/ GiveUp(r)

Next == \E r \in Runs : Put(r) \/ Work(r) \/ Resume(r) \/ Delete(r)

Spec == Init /\ [][Next]_vars

\* Work that was begun goes on.
FairSpec == Spec /\ \A r \in Runs : WF_vars(Work(r))
=============================================================================
