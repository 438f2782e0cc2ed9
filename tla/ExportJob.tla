------------------------------ MODULE ExportJob ------------------------------
(*****************************************************************************)
(* What the workers together promise about one export job and the events     *)
(* that ask for it: one object is stored, the job is completed once and with *)
(* that object, and an event is acknowledged only after that.  ExportSystem  *)
(* implements this module.                                                   *)
(*****************************************************************************)
CONSTANTS
  Event,      \* the events of the job
  Export,     \* what could be stored for it
  NoExport

VARIABLES
  object,     \* what is stored under the job's key
  completion, \* what the API completed the job with
  fate        \* of each event

jobVars == <<object, completion, fate>>

Open == [e \in Event |-> "open"]

JobInit == object = NoExport /\ completion = NoExport /\ fate = Open

StoreExport ==
  /\ object = NoExport
  /\ object' \in Export
  /\ UNCHANGED <<completion, fate>>

CompleteJob ==
  /\ completion = NoExport /\ object # NoExport
  /\ completion' = object
  /\ UNCHANGED <<object, fate>>

Acknowledge(e) ==
  /\ fate[e] = "open" /\ completion # NoExport
  /\ fate' = [fate EXCEPT ![e] = "acknowledged"]
  /\ UNCHANGED <<object, completion>>

DeadLetter(e) ==
  /\ fate[e] = "open"
  /\ fate' = [fate EXCEPT ![e] = "dead-lettered"]
  /\ UNCHANGED <<object, completion>>

JobNext ==
  StoreExport \/ CompleteJob \/ \E e \in Event : Acknowledge(e) \/ DeadLetter(e)

JobSpec == JobInit /\ [][JobNext]_jobVars

=============================================================================
