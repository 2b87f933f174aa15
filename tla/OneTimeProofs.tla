--------------------------- MODULE OneTimeProofs ---------------------------
(* The promise of OneTime follows from its steps, for any set of secrets. *)
EXTENDS OneTime, TLAPS

TypeOK == status \in [Secrets -> Status] /\ redeemed \in [Secrets -> Nat]

(* Redeeming is possible only from live and ends it, so it happens once:     *)
(* whatever implements OneTime, as the ceremonies and the authorization      *)
(* states do, redeems no secret twice.                                       *)
THEOREM RedeemedOnce == Spec => []AtMostOnce
<1> DEFINE Inv == TypeOK /\ AtMostOnce
<1>1. Init => Inv
  BY DEF Init, TypeOK, AtMostOnce, Status
<1>2. Inv /\ [Next]_vars => Inv'
  <2> SUFFICES ASSUME TypeOK, AtMostOnce, [Next]_vars PROVE TypeOK' /\ AtMostOnce'
    OBVIOUS
  <2>1. ASSUME NEW D \in SUBSET Live
        PROVE  /\ Without(D) \in [Secrets -> Status]
               /\ \A s \in Secrets : Without(D)[s] # "spent" => Without(D)[s] = status[s]
               /\ \A s \in Secrets : status[s] = "spent" => Without(D)[s] = "spent"
    BY DEF Without, TypeOK, Status
  <2>2. ASSUME NEW s \in Secrets, Draw(s) PROVE TypeOK' /\ AtMostOnce'
    <3>1. PICK D \in SUBSET Live : status' = [Without(D) EXCEPT ![s] = "live"]
      BY <2>2 DEF Draw
    <3>2. status' \in [Secrets -> Status] /\ redeemed' = redeemed
      BY <2>1, <2>2, <3>1 DEF Draw, Status
    <3>3. \A t \in Secrets : status'[t] # "spent" => status[t] # "spent"
      BY <2>1, <2>2, <3>1 DEF Draw
    <3>4. QED
      BY <3>2, <3>3 DEF TypeOK, AtMostOnce
  <2>3. ASSUME NEW s \in Secrets, Redeem(s) PROVE TypeOK' /\ AtMostOnce'
    <3>1. TypeOK'
      BY <2>3 DEF Redeem, TypeOK, Status
    <3>2. AtMostOnce'
      BY <2>3 DEF Redeem, TypeOK, AtMostOnce
    <3>3. QED
      BY <3>1, <3>2
  <2>4. CASE Drop
    <3>1. PICK D \in SUBSET Live : status' = Without(D)
      BY <2>4 DEF Drop
    <3>2. status' \in [Secrets -> Status] /\ redeemed' = redeemed
      BY <2>1, <2>4, <3>1 DEF Drop
    <3>3. \A t \in Secrets : status'[t] # "spent" => status[t] # "spent"
      BY <2>1, <3>1
    <3>4. QED
      BY <3>2, <3>3 DEF TypeOK, AtMostOnce
  <2>5. CASE UNCHANGED vars
    BY <2>5 DEF vars, TypeOK, AtMostOnce
  <2>6. QED
    BY <2>2, <2>3, <2>4, <2>5 DEF Next
<1>3. QED
  BY <1>1, <1>2, PTL DEF Spec
=============================================================================
