------------------------------- MODULE MCJobs -------------------------------
(* Small instances of Jobs for TLC. *)
EXTENDS Jobs, TLC

CONSTANTS crlf, lf, blank, other     \* what operators type

(* "a\r\nb" normalizes to "a\nb"; a blank text is rejected. *)
MCInputs == {crlf, lf, blank, other}
MCContents == {lf, other}
MCNormalize == [i \in MCInputs |-> CASE i = crlf -> lf [] i = blank -> None [] OTHER -> i]

Draft(c, x, n, s) == [content |-> c, x |-> x, nostr |-> n, sched |-> s]

(* Two drafts that are accepted, one due now and one later, and one rejected *)
(* for each reason.                                                          *)
MCSubmissions ==
  {Draft(crlf, TRUE, TRUE, 0), Draft(other, FALSE, TRUE, 1),
   Draft(blank, TRUE, FALSE, 0), Draft(lf, FALSE, FALSE, 0)}

(* One accepted draft. *)
MCOneSubmission == {Draft(crlf, TRUE, FALSE, 1)}

ClientSymmetry == Permutations(Clients)
=============================================================================
