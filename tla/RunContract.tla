----------------------------- MODULE RunContract -----------------------------
(***************************************************************************)
(* What the batch engine promises of a run while nobody cancels it, its    *)
(* process survives and its statements succeed: every item is executed     *)
(* exactly once, and a finished run tells the truth about its items.       *)
(* BatchRun implements it.                                                 *)
(***************************************************************************)
CONSTANT Items

VARIABLES runStatus, itemStatus, undisturbed

contractVars == <<runStatus, itemStatus, undisturbed>>

Init ==
  /\ undisturbed = TRUE
  /\ runStatus = "absent"
  /\ itemStatus = [i \in Items |-> "absent"]

Submit ==
  /\ runStatus = "absent"
  /\ runStatus' = "queued"
  /\ itemStatus' = [i \in Items |-> "queued"]

\* A finished run may be worked again: nothing is queued, so nothing is executed.
Work ==
  /\ runStatus # "absent"
  /\ runStatus' = "running"
  /\ UNCHANGED itemStatus

Start(i) ==
  /\ runStatus = "running" /\ itemStatus[i] = "queued"
  /\ itemStatus' = [itemStatus EXCEPT ![i] = "running"]
  /\ UNCHANGED runStatus

Finish(i, outcome) ==
  /\ runStatus = "running" /\ itemStatus[i] = "running"
  /\ itemStatus' = [itemStatus EXCEPT ![i] = outcome]
  /\ UNCHANGED runStatus

Conclude ==
  /\ runStatus = "running"
  /\ \A i \in Items : itemStatus[i] \in {"completed", "failed"}
  /\ runStatus' = IF \A i \in Items : itemStatus[i] = "completed" THEN "completed" ELSE "failed"
  /\ UNCHANGED itemStatus

Promised ==
  \/ Submit \/ Work \/ Conclude
  \/ \E i \in Items : Start(i) \/ \E outcome \in {"completed", "failed"} : Finish(i, outcome)

\* A disturbed run stays disturbed, and nothing is promised of it here.
Next ==
  \/ undisturbed = TRUE /\ undisturbed' = TRUE /\ Promised
  \/ undisturbed' = FALSE

Spec == Init /\ [][Next]_contractVars
=============================================================================
