------------------------------ MODULE OneTime ------------------------------
(* What the control plane promises about its one-time secrets, the WebAuthn  *)
(* ceremonies of internal/auth and the OAuth states of internal/platform:    *)
(* each is drawn at random, kept in memory only, and redeemed once at most.  *)
(* It is dropped unredeemed when it expires, when a request presents it the  *)
(* wrong way, and when the process ends.                                     *)
EXTENDS Naturals

CONSTANT Secrets

VARIABLES
  status,        \* fresh: not drawn yet; live: can be redeemed; spent: cannot any more
  redeemed       \* how often each secret was redeemed

vars == <<status, redeemed>>

Status == {"fresh", "live", "spent"}

Init ==
  /\ status = [s \in Secrets |-> "fresh"]
  /\ redeemed = [s \in Secrets |-> 0]

Live == {s \in Secrets : status[s] = "live"}

Without(D) == [s \in Secrets |-> IF s \in D THEN "spent" ELSE status[s]]

(* A new secret; some that were live may go with the same step. *)
Draw(s) ==
  /\ status[s] = "fresh"
  /\ \E D \in SUBSET Live : status' = [Without(D) EXCEPT ![s] = "live"]
  /\ UNCHANGED redeemed

Redeem(s) ==
  /\ status[s] = "live"
  /\ status' = [status EXCEPT ![s] = "spent"]
  /\ redeemed' = [redeemed EXCEPT ![s] = @ + 1]

Drop ==
  /\ \E D \in SUBSET Live : status' = Without(D)
  /\ UNCHANGED redeemed

Next == Drop \/ \E s \in Secrets : Draw(s) \/ Redeem(s)

Spec == Init /\ [][Next]_vars

----------------------------------------------------------------------------
(* The promise: no secret is redeemed twice, and none before it was drawn or *)
(* while it can still be redeemed.                                           *)
AtMostOnce ==
  \A s \in Secrets : redeemed[s] <= 1 /\ (status[s] # "spent" => redeemed[s] = 0)
=============================================================================
