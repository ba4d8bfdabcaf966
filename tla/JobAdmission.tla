---------------------------- MODULE JobAdmission ----------------------------
(***************************************************************************)
(* What the wrapped task scheduler and the audit server together promise:  *)
(* a job is admitted only after each of its jars has been read and was     *)
(* vouched for after that, by the sandbox of the job's token or by the     *)
(* whitelist.  Not all of them need be vouched for at one moment, nor when *)
(* the job is admitted.  Any job may be rejected, and its jars are then    *)
(* forgotten; none is left undecided.                                      *)
(***************************************************************************)
EXTENDS Naturals

CONSTANTS Job, Hash, NoHash

VARIABLES
  jars,     \* how many jars each submission names
  vouched,  \* the hashes vouched for now, for each job
  stage,    \* of each submission
  jar,      \* what the jar under examination hashed to, if it has been read
  cleared   \* how many jars have been cleared

admissionVars == <<jars, vouched, stage, jar, cleared>>

AdmissionInit ==
  /\ jars \in [Job -> Nat]
  /\ vouched \in [Job -> SUBSET Hash]
  /\ stage = [j \in Job |-> "new"]
  /\ jar = [j \in Job |-> NoHash]
  /\ cleared = [j \in Job |-> 0]

Begin(j) ==
  /\ stage[j] = "new"
  /\ stage' = [stage EXCEPT ![j] = "checking"]
  /\ UNCHANGED <<jars, vouched, jar, cleared>>

Read(j) ==
  /\ stage[j] = "checking"
  /\ jar[j] = NoHash
  /\ cleared[j] < jars[j]
  /\ \E h \in Hash : jar' = [jar EXCEPT ![j] = h]
  /\ UNCHANGED <<jars, vouched, stage, cleared>>

Clear(j) ==
  /\ stage[j] = "checking"
  /\ jar[j] \in vouched[j]
  /\ jar' = [jar EXCEPT ![j] = NoHash]
  /\ cleared' = [cleared EXCEPT ![j] = @ + 1]
  /\ UNCHANGED <<jars, vouched, stage>>

Admit(j) ==
  /\ stage[j] = "checking"
  /\ jars[j] > 0 /\ cleared[j] = jars[j]
  /\ stage' = [stage EXCEPT ![j] = "admitted"]
  /\ UNCHANGED <<jars, vouched, jar, cleared>>

Reject(j) ==
  /\ stage[j] \in {"new", "checking"}
  /\ stage' = [stage EXCEPT ![j] = "rejected"]
  /\ jar' = [jar EXCEPT ![j] = NoHash]
  /\ cleared' = [cleared EXCEPT ![j] = 0]
  /\ UNCHANGED <<jars, vouched>>

VouchedChange ==
  /\ vouched' \in [Job -> SUBSET Hash]
  /\ UNCHANGED <<jars, stage, jar, cleared>>

AdmissionNext ==
  \/ \E j \in Job : Begin(j) \/ Read(j) \/ Clear(j) \/ Admit(j) \/ Reject(j)
  \/ VouchedChange

AdmissionSafety == AdmissionInit /\ [][AdmissionNext]_admissionVars

AdmissionSpec ==
  /\ AdmissionSafety
  /\ \A j \in Job :
       WF_admissionVars(Admit(j) \/ (stage[j] = "checking" /\ Reject(j)))

=============================================================================
