----------------------------- MODULE MCSession -----------------------------
(* Session, SyncTransfer and DeviceLookup; a behaviour is about one of them. *)
EXTENDS Session, DeviceLookup, SequencesExt

CONSTANT MaxDevices

\* device_desc is zero before it is cached.
MCDeviceLists == SeqOf({d \in Listed : d.descriptor = "none" => ~d.says}, MaxDevices)

Topic == {"session", "transfer", "lookup"}

VARIABLE topic

allVars == <<transferVars, sessionVars, lookupVars, topic>>

MCTypeOK == TransferTypeOK /\ SessionTypeOK /\ LookupTypeOK

MCInit ==
  /\ topic \in Topic
  /\ topic # "lookup" => device_list = <<>>
  /\ TransferInit /\ SessionInit /\ LookupInit
  /\ topic # "transfer" => ~loop_runs
  /\ topic = "lookup" => config = 0

MCNext ==
  /\ UNCHANGED topic
  /\ \/ topic = "session" /\ SessionStep /\ UNCHANGED <<transferVars, lookupVars>>
     \/ topic = "transfer" /\ TransferStep /\ UNCHANGED <<sessionVars, lookupVars>>
     \/ topic = "lookup" /\ LookupStep /\ UNCHANGED <<transferVars, sessionVars>>

MCSpec == MCInit /\ [][MCNext]_allVars

Symmetry == Permutations(Threads) \cup Permutations(Handles) \cup Permutations(Interfaces)
=============================================================================
