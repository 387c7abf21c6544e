----------------------------- MODULE MCRestore -----------------------------
(***************************************************************************)
(* Restore for TLC: two questions in one run.  "order": up to two           *)
(* operations fail and up to two stops happen, three of them in all; what   *)
(* has not been synced is lost from the end.  "disorder": nothing fails,     *)
(* and one power loss keeps any of the unsynced changes and loses the rest. *)
(***************************************************************************)
EXTENDS Restore

VARIABLE question

MCInit == Init /\ question \in {"order", "disorder"}

MCNext ==
    /\ \/ /\ question = "order"
          /\ Program \/ Failure \/ PowerLoss(InOrder)
          /\ faults' + stops' <= 3
       \/ /\ question = "disorder"
          /\ Program \/ PowerLoss(InAnyOrder)
          /\ stops' <= 1
    /\ UNCHANGED question

MCSpec == MCInit /\ [][MCNext]_<<vars, question>> /\ Fairness
=============================================================================
