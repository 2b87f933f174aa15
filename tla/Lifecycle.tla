----------------------------- MODULE Lifecycle -----------------------------
(* What the job store promises about every post, whatever the interleaving  *)
(* of requests, dispatchers, retention sweeps and crashes: a job is created  *)
(* as a draft, moves only along the edges of the transition table of         *)
(* internal/domain/state.go, and disappears only once it is resolved.        *)
CONSTANT Jobs

VARIABLE status     \* [Jobs -> Status]: where each job is in its life

(* internal/domain/types.go, JobState *)
States == {"DRAFT", "APPROVED", "ROUTING", "PUBLISHING", "COMPLETE",
           "PARTIAL", "FAILED", "UNKNOWN", "CANCELLED"}

(* An id that no row has had yet, and the id of a deleted row.  randomID     *)
(* draws 128 random bits: an id never returns once it has been used.         *)
Status == States \cup {"NONE", "PURGED"}

(* The table `transitions`, as the set of its <<from, to>> pairs. *)
Transitions ==
  ({"DRAFT"}      \X {"APPROVED", "CANCELLED"}) \cup
  ({"APPROVED"}   \X {"ROUTING", "CANCELLED"}) \cup
  ({"ROUTING"}    \X {"PUBLISHING", "FAILED", "CANCELLED"}) \cup
  ({"PUBLISHING"} \X {"COMPLETE", "PARTIAL", "FAILED", "UNKNOWN"}) \cup
  ({"PARTIAL"}    \X {"PUBLISHING", "COMPLETE", "FAILED", "UNKNOWN"}) \cup
  ({"FAILED"}     \X {"ROUTING", "CANCELLED"}) \cup
  ({"UNKNOWN"}    \X {"COMPLETE", "FAILED", "PARTIAL"})

CanTransition(from, to) == <<from, to>> \in Transitions

(* The states PurgeResolvedJobsBefore deletes.  UNKNOWN and PARTIAL are not  *)
(* among them: they still require reconciliation.                            *)
Resolved == {"COMPLETE", "FAILED", "CANCELLED"}

----------------------------------------------------------------------------
Init == status = [j \in Jobs |-> "NONE"]

Create(j) ==
  /\ status[j] = "NONE"
  /\ status' = [status EXCEPT ![j] = "DRAFT"]

Move(j, to) ==
  /\ CanTransition(status[j], to)
  /\ status' = [status EXCEPT ![j] = to]

(* One retention sweep deletes any number of resolved jobs at once. *)
Purge(S) ==
  /\ \A j \in S : status[j] \in Resolved
  /\ status' = [j \in Jobs |-> IF j \in S THEN "PURGED" ELSE status[j]]

Next ==
  \/ \E j \in Jobs : Create(j)
  \/ \E j \in Jobs, to \in States : Move(j, to)
  \/ \E S \in SUBSET Jobs : Purge(S)

Spec == Init /\ [][Next]_status
=============================================================================
