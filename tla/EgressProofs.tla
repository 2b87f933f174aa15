---------------------------- MODULE EgressProofs ----------------------------
(* Proofs about Egress for any catalog, policy and number of jobs: that an   *)
(* alternate country is left, when an endpoint is quarantined, that a leak   *)
(* excludes it, what the broker may still activate then and how long a clean *)
(* endpoint stays eligible.                                                  *)
EXTENDS Egress, FiniteSetTheorems, TLAPS

(* Some report comes without CheckedAt. *)
Unstamped == None \in Stamps

(* A Nostr lease is for an allowed country, so what Finish records is one. *)
LeaseAllowed ==
  \A j \in Jobs : lease[j].platform = "nostr" => Country[lease[j].endpoint] \in AllowedCountries

LeaseInv == TypeOK /\ LeaseAllowed

(* Quarantine is what makes the exclusion of a leaking endpoint last. *)
LeakQuarantines == \A e \in leaked : health[e].quarantined

(* The registry's count never falls behind the failures in a row, and stays  *)
(* below the threshold as long as there is no quarantine.                    *)
FailuresCounted ==
  \A e \in Endpoints : ~health[e].quarantined =>
    health[e].failures >= streak[e] /\ health[e].failures < Threshold

(* An endpoint was activated after it leaked only by the request that was    *)
(* being served when it leaked, and that request is over.                    *)
LateIsOver ==
  \A e \in Endpoints : after[e] # 0 => after[e] = 1 /\ e \in leaked /\ broker.endpoint # e

HealthInv == LeakQuarantines /\ FailuresCounted /\ LateIsOver

----------------------------------------------------------------------------
(* Facts about the data *)

(* The ages the model uses are ages. *)
LEMMA AgeFacts == /\ 0 \in Ages /\ Stale \in Ages /\ Stamps \ {None} \subseteq Ages
                  /\ \A a \in Ages : AtMost(a + 1, Stale) \in Ages
BY EgressAssumption DEF Ages, Stale, AtMost

(* The catalog has a length. *)
LEMMA CatalogFacts == Len(Catalog) \in Nat
BY EgressAssumption

(* A failure never lifts a quarantine, and counts. *)
LEMMA FailedFacts ==
  ASSUME NEW h \in Health, NEW age \in Ages, NEW hard \in BOOLEAN
  PROVE  LET g == Failed(h, age, hard) IN
         /\ g \in Health
         /\ h.quarantined \/ hard => g.quarantined
         /\ g.failures = AtMost(h.failures + 1, Threshold)
         /\ ~g.quarantined => g.failures < Threshold
<1> DEFINE failures == AtMost(h.failures + 1, Threshold)
<1>1. failures \in 0 .. Threshold
  BY DEF Health, AtMost, Threshold
<1>2. Failed(h, age, hard) =
        [healthy |-> FALSE, quarantined |-> h.quarantined \/ hard \/ failures >= Threshold,
         failures |-> failures, age |-> age]
  BY DEF Failed
<1> HIDE DEF failures
<1>3. /\ Failed(h, age, hard).failures = failures
      /\ Failed(h, age, hard).quarantined = (h.quarantined \/ hard \/ failures >= Threshold)
      /\ Failed(h, age, hard) \in Health
  BY <1>1, <1>2 DEF Health
<1>4. ~Failed(h, age, hard).quarantined => failures < Threshold
  <2>1. failures >= Threshold \/ failures < Threshold
    BY <1>1 DEF Threshold
  <2>2. QED
    BY <1>3, <2>1, Zenon
<1>5. h.quarantined \/ hard => Failed(h, age, hard).quarantined
  BY <1>3, Zenon
<1>6. QED
  BY <1>3, <1>4, <1>5 DEF failures

(* Neither does a report. *)
LEMMA AppliedFacts ==
  ASSUME NEW h \in Health, NEW age \in Ages, NEW verdict \in {"ok", "unreachable", "leak"}
  PROVE  LET g == Applied(h, verdict, age) IN
         /\ g \in Health
         /\ h.quarantined \/ verdict = "leak" => g.quarantined
         /\ verdict # "ok" => g.failures = AtMost(h.failures + 1, Threshold)
         /\ ~g.quarantined => g.failures < Threshold
<1>1. CASE verdict = "ok"
  BY <1>1 DEF Applied, Health, Threshold
<1>2. CASE verdict = "leak"
  BY <1>2, FailedFacts DEF Applied
<1>3. CASE verdict = "unreachable"
  BY <1>3, FailedFacts DEF Applied
<1>4. QED
  BY <1>1, <1>2, <1>3

(* What MarkProbe makes of a record. *)
LEMMA MarkedFacts ==
  ASSUME NEW h \in Health, NEW healthy \in BOOLEAN
  PROVE  LET g == Marked(h, healthy) IN
         /\ g \in Health
         /\ h.quarantined => g.quarantined
         /\ ~healthy => g.failures = AtMost(h.failures + 1, Threshold)
         /\ ~g.quarantined => g.failures < Threshold
<1>1. CASE healthy
  BY <1>1, AgeFacts DEF Marked, Health, Threshold
<1>2. CASE ~healthy
  BY <1>2, FailedFacts, AgeFacts DEF Marked
<1>3. QED
  BY <1>1, <1>2

(* What a probe does to the health of its endpoint and to the counts kept    *)
(* beside it: g is the new health; failed says that the probe did not find   *)
(* the endpoint in order.                                                    *)
Outcome(e, g, failed) ==
  /\ g \in Health
  /\ health[e].quarantined => g.quarantined
  /\ failed => g.failures = AtMost(health[e].failures + 1, Threshold)
  /\ ~g.quarantined => g.failures < Threshold
  /\ health' = [health EXCEPT ![e] = g]
  /\ streak' = [streak EXCEPT ![e] = IF failed THEN AtMost(@ + 1, Threshold) ELSE 0]
  /\ leaked' = leaked \/ (leaked' = leaked \cup {e} /\ g.quarantined)
  /\ after' = after

(* A report that was refused changes the history alone. *)
Ignored(e, failed) ==
  /\ health' = health
  /\ streak' = [streak EXCEPT ![e] = IF failed THEN AtMost(@ + 1, Threshold) ELSE 0]
  /\ leaked' \in {leaked, leaked \cup {e}}
  /\ after' = after

(* MarkProbe counts a failure and never lifts a quarantine. *)
LEMMA MarkProbeFacts ==
  ASSUME TypeOK, NEW e \in Endpoints, NEW healthy \in BOOLEAN, MarkProbe(e, healthy)
  PROVE  \E g : Outcome(e, g, ~healthy)
<1> DEFINE g == Marked(health[e], healthy)
<1>1. health[e] \in Health
  BY DEF TypeOK
<1>2. /\ g \in Health
      /\ health[e].quarantined => g.quarantined
      /\ ~healthy => g.failures = AtMost(health[e].failures + 1, Threshold)
      /\ ~g.quarantined => g.failures < Threshold
  BY <1>1, MarkedFacts
<1>3. streak' = [streak EXCEPT ![e] = IF ~healthy THEN AtMost(@ + 1, Threshold) ELSE 0]
  BY DEF MarkProbe, Clear, Strike
<1>4. health' = [health EXCEPT ![e] = g] /\ UNCHANGED <<leaked, after>>
  BY DEF MarkProbe
<1> HIDE DEF g
<1>5. Outcome(e, g, ~healthy)
  BY <1>2, <1>3, <1>4 DEF Outcome
<1>6. QED
  BY <1>5

(* ApplyProbe does as much, unless it refuses the report. *)
LEMMA ApplyProbeFacts ==
  ASSUME TypeOK, NEW e \in Endpoints,
         NEW verdict \in {"ok", "unreachable", "leak"}, ApplyProbe(e, verdict)
  PROVE  \/ \E g : Outcome(e, g, verdict # "ok")
         \/ Unstamped /\ Ignored(e, verdict # "ok")
<1>1. streak' = [streak EXCEPT ![e] = IF verdict # "ok" THEN AtMost(@ + 1, Threshold) ELSE 0]
  BY DEF ApplyProbe, Clear, Strike
<1>2. leaked' = IF verdict = "leak" THEN leaked \cup {e} ELSE leaked
  BY DEF ApplyProbe
<1>3. ASSUME NEW age \in Stamps \ {None}, health' = [health EXCEPT ![e] = Applied(@, verdict, age)]
      PROVE  \E g : Outcome(e, g, verdict # "ok")
  <2> DEFINE g == Applied(health[e], verdict, age)
  <2>1. health[e] \in Health /\ age \in Ages
    BY AgeFacts DEF TypeOK
  <2>2. /\ g \in Health
        /\ health[e].quarantined \/ verdict = "leak" => g.quarantined
        /\ verdict # "ok" => g.failures = AtMost(health[e].failures + 1, Threshold)
        /\ ~g.quarantined => g.failures < Threshold
    BY <2>1, AppliedFacts
  <2>3. health' = [health EXCEPT ![e] = g] /\ after' = after
    BY <1>3 DEF ApplyProbe
  <2> HIDE DEF g
  <2>4. Outcome(e, g, verdict # "ok")
    BY <1>1, <1>2, <2>2, <2>3 DEF Outcome
  <2>5. QED
    BY <2>4
<1>4. CASE Unstamped /\ health' = health
  BY <1>1, <1>2, <1>4 DEF ApplyProbe, Ignored
<1>5. QED
  BY <1>3, <1>4 DEF ApplyProbe, Unstamped

(* The types of what a probe changes. *)
LEMMA ProbeTypes ==
  ASSUME TypeOK, NEW e \in Endpoints, NEW failed \in BOOLEAN,
         (\E g : Outcome(e, g, failed)) \/ Ignored(e, failed)
  PROVE  /\ health' \in [Endpoints -> Health]
         /\ leaked' \subseteq Endpoints
         /\ streak' \in [Endpoints -> 0 .. Threshold]
         /\ after' = after
BY DEF TypeOK, Outcome, Ignored, AtMost, Threshold

(* A report that is applied keeps quarantine and counts in step. *)
LEMMA ProbeKeeps ==
  ASSUME TypeOK, HealthInv, NEW e \in Endpoints, NEW failed \in BOOLEAN,
         NEW g, Outcome(e, g, failed), broker' = broker
  PROVE  HealthInv'
<1>1. LeakQuarantines'
  BY DEF HealthInv, LeakQuarantines, TypeOK, Outcome
<1>2. FailuresCounted'
  <2> SUFFICES ASSUME NEW d \in Endpoints, ~health'[d].quarantined
               PROVE  health'[d].failures >= streak'[d] /\ health'[d].failures < Threshold
    BY DEF FailuresCounted
  <2>1. CASE d # e
    BY <2>1 DEF HealthInv, FailuresCounted, TypeOK, Outcome
  <2>2. CASE d = e
    <3>1. /\ health'[e] = g /\ g \in Health
          /\ streak'[e] = IF failed THEN AtMost(streak[e] + 1, Threshold) ELSE 0
          /\ health[e] \in Health /\ streak[e] \in 0 .. Threshold
      BY DEF TypeOK, Outcome
    <3>2. ~health[e].quarantined /\ health[e].failures >= streak[e]
      BY <2>2, <3>1 DEF HealthInv, FailuresCounted, Outcome
    <3>3. CASE failed
      BY <2>2, <3>1, <3>2, <3>3 DEF Outcome, AtMost, Threshold, Health
    <3>4. CASE ~failed
      BY <2>2, <3>1, <3>4 DEF Outcome, Health, Threshold
    <3>5. QED
      BY <3>3, <3>4
  <2>3. QED
    BY <2>1, <2>2
<1>3. LateIsOver'
  BY DEF HealthInv, LateIsOver, Outcome
<1>4. QED
  BY <1>1, <1>2, <1>3 DEF HealthInv

----------------------------------------------------------------------------
(* Types, and the countries of leases *)

(* The invariant of the leases holds initially. *)
LEMMA InitLease == Init => LeaseInv
<1> SUFFICES ASSUME Init PROVE LeaseInv
  OBVIOUS
<1>1. health \in [Endpoints -> Health]
  BY AgeFacts DEF Init, Health, Threshold
<1>2. monitor \in [next : 1 .. Len(Catalog) + 1, left : 0 .. Interval, spent : 0 .. ScanMax]
  BY EgressAssumption DEF Init
<1>3. /\ lease \in [Jobs -> Lease] /\ last \in [Jobs -> AllowedCountries \cup {None}]
      /\ broker \in [pc : {"idle", "activate"}, endpoint : Endpoints \cup {None}]
  BY DEF Init, Lease, Idle
<1>4. /\ leaked \subseteq Endpoints
      /\ streak \in [Endpoints -> 0 .. Threshold] /\ after \in [Endpoints -> 0 .. 2]
  BY DEF Init, Threshold
<1>5. QED
  BY <1>1, <1>2, <1>3, <1>4 DEF Init, LeaseInv, TypeOK, LeaseAllowed, NoLease

(* A probe is applied or, without its stamp, ignored. *)
LEMMA ProbeStep ==
  ASSUME TypeOK, NEW e \in Endpoints, Probe(e)
  PROVE  \/ \E g : \E failed \in BOOLEAN : Outcome(e, g, failed)
         \/ Unstamped /\ \E failed \in BOOLEAN : Ignored(e, failed)
<1>1. CASE MarkProbe(e, FALSE)
  BY <1>1, MarkProbeFacts
<1>2. ASSUME NEW verdict \in {"ok", "unreachable", "leak"}, ApplyProbe(e, verdict)
      PROVE  \/ \E g : \E failed \in BOOLEAN : Outcome(e, g, failed)
             \/ Unstamped /\ \E failed \in BOOLEAN : Ignored(e, failed)
  BY <1>2, ApplyProbeFacts
<1>3. QED
  BY <1>1, <1>2 DEF Probe

(* Every step keeps the invariant of the leases. *)
LEMMA LeaseStep == LeaseInv /\ [Next]_vars => LeaseInv'
<1> SUFFICES ASSUME LeaseInv, [Next]_vars PROVE LeaseInv'
  OBVIOUS
<1> USE DEF LeaseInv
<1>1. ASSUME NEW e \in Endpoints, Probe(e) PROVE LeaseInv'
  <2>1. /\ health' \in [Endpoints -> Health] /\ leaked' \subseteq Endpoints
        /\ streak' \in [Endpoints -> 0 .. Threshold] /\ after' = after
    BY <1>1, ProbeStep, ProbeTypes
  <2>2. monitor' \in [next : 1 .. Len(Catalog) + 1, left : 0 .. Interval, spent : 0 .. ScanMax]
    <3>1. /\ monitor.next \in 1 .. Len(Catalog) /\ monitor.spent \in 0 .. ScanMax
          /\ monitor = [next |-> monitor.next, left |-> monitor.left, spent |-> monitor.spent]
      BY <1>1, CatalogFacts DEF Probe, Probing, TypeOK
    <3>2. monitor' = [next |-> monitor.next + 1,
                      left |-> IF monitor.next = Len(Catalog) THEN Interval ELSE 0,
                      spent |-> monitor.spent]
      BY <1>1, <3>1 DEF Probe
    <3>3. QED
      BY <3>1, <3>2, CatalogFacts, EgressAssumption
  <2>3. QED
    BY <1>1, <2>1, <2>2 DEF Probe, TypeOK, LeaseAllowed
<1>2. ASSUME NEW e \in Endpoints, MarkHealthy(e) PROVE LeaseInv'
  <2>1. \E g : Outcome(e, g, FALSE)
    BY <1>2, MarkProbeFacts DEF MarkHealthy
  <2>2. QED
    BY <1>2, <2>1, ProbeTypes DEF MarkHealthy, TypeOK, LeaseAllowed
<1>3. ASSUME NEW e \in Endpoints, SetHealth(e) PROVE LeaseInv'
  <2>1. health' \in [Endpoints -> Health]
    BY <1>3, AgeFacts DEF SetHealth, TypeOK, Health, Threshold
  <2>2. /\ leaked' \subseteq Endpoints
        /\ streak' \in [Endpoints -> 0 .. Threshold] /\ after' \in [Endpoints -> 0 .. 2]
    BY <1>3 DEF SetHealth, TypeOK, Threshold
  <2>3. QED
    BY <1>3, <2>1, <2>2 DEF SetHealth, TypeOK, LeaseAllowed
<1>4. ASSUME NEW e \in Endpoints, Execute(e) \/ Activate(e) PROVE LeaseInv'
  <2>1. broker' \in [pc : {"idle", "activate"}, endpoint : Endpoints \cup {None}]
    BY <1>4 DEF Execute, Activate, Idle
  <2>2. after' \in [Endpoints -> 0 .. 2]
    BY <1>4 DEF Execute, Activate, TypeOK, AtMost, history
  <2>3. QED
    BY <1>4, <2>1, <2>2 DEF Execute, Activate, TypeOK, LeaseAllowed, history
<1>5. ASSUME NEW j \in Jobs, selectStableX(j) PROVE LeaseInv'
  <2>1. lease' \in [Jobs -> Lease]
    BY <1>5, EgressAssumption DEF selectStableX, TypeOK, Lease
  <2>2. QED
    BY <1>5, <2>1 DEF selectStableX, TypeOK, LeaseAllowed, history
<1>6. ASSUME NEW j \in Jobs, NEW e \in Endpoints, Select(j, e) PROVE LeaseInv'
  <2>1. lease' \in [Jobs -> Lease]
    BY <1>6 DEF Select, TypeOK, Lease
  <2>2. LeaseAllowed'
    BY <1>6 DEF Select, Candidates, Alternates, TypeOK, LeaseAllowed
  <2>3. QED
    BY <1>6, <2>1, <2>2 DEF Select, TypeOK, history
<1>7. ASSUME NEW j \in Jobs, Finish(j) PROVE LeaseInv'
  <2>1. lease' \in [Jobs -> Lease]
    BY <1>7 DEF Finish, TypeOK, Lease
  <2>2. last' \in [Jobs -> AllowedCountries \cup {None}]
    BY <1>7 DEF Finish, TypeOK, LeaseAllowed
  <2>3. LeaseAllowed'
    BY <1>7 DEF Finish, TypeOK, LeaseAllowed, NoLease
  <2>4. QED
    BY <1>7, <2>1, <2>2, <2>3 DEF Finish, TypeOK, history
<1>8. CASE StartScan
  <2>1. monitor' \in [next : 1 .. Len(Catalog) + 1, left : 0 .. Interval, spent : 0 .. ScanMax]
    BY <1>8, EgressAssumption DEF StartScan, TypeOK
  <2>2. QED
    BY <1>8, <2>1 DEF StartScan, TypeOK, LeaseAllowed, history
<1>9. CASE Tick
  <2>1. health' \in [Endpoints -> Health]
    <3> SUFFICES ASSUME NEW e \in Endpoints
                 PROVE  [health[e] EXCEPT !.age = AtMost(@ + 1, Stale)] \in Health
      BY <1>9 DEF Tick
    <3>1. health[e] \in Health /\ AtMost(health[e].age + 1, Stale) \in Ages
      BY AgeFacts DEF TypeOK, Health
    <3>2. QED
      BY <3>1 DEF Health
  <2>2. monitor' \in [next : 1 .. Len(Catalog) + 1, left : 0 .. Interval, spent : 0 .. ScanMax]
    <3>1. /\ monitor.next \in 1 .. Len(Catalog) + 1
          /\ monitor.left \in 0 .. Interval /\ monitor.spent \in 0 .. ScanMax
          /\ monitor = [next |-> monitor.next, left |-> monitor.left, spent |-> monitor.spent]
      BY DEF TypeOK
    <3>2. CASE Probing
      BY <1>9, <3>1, <3>2, EgressAssumption DEF Tick
    <3>3. CASE ~Probing
      BY <1>9, <3>1, <3>3, EgressAssumption DEF Tick
    <3>4. QED
      BY <3>2, <3>3
  <2>3. QED
    BY <1>9, <2>1, <2>2 DEF Tick, TypeOK, LeaseAllowed, history
<1>10. CASE UNCHANGED vars
  BY <1>10 DEF vars, TypeOK, LeaseAllowed
<1>11. QED
  BY <1>1, <1>2, <1>3, <1>4, <1>5, <1>6, <1>7, <1>8, <1>9, <1>10 DEF Next

(* The invariant of the leases always holds. *)
LEMMA LeaseInvariance == Spec => []LeaseInv
BY InitLease, LeaseStep, PTL DEF Spec

(* The registry, the monitor, the leases and the broker are always well      *)
(* typed; in particular only allowed countries are recorded.                 *)
THEOREM EgressTypeCorrect == Spec => []TypeOK
BY LeaseInvariance, PTL DEF LeaseInv

(* Select never fails for want of an alternate: three countries are enough   *)
(* to leave two whichever one is taken out.                                  *)
THEOREM AlternateAlwaysExists == Spec => []AlternateExists
<1>1. AlternateExists
  <2> SUFFICES ASSUME EnoughCountries, NEW c, EligibleCountries \subseteq {c}
               PROVE  FALSE
    BY DEF AlternateExists, Alternates
  <2>1. IsFiniteSet({c}) /\ Cardinality({c}) = 1
    BY FS_Singleton
  <2>2. Cardinality(EligibleCountries) <= 1 /\ Cardinality(EligibleCountries) \in Nat
    BY <2>1, FS_Subset, FS_CardinalityType
  <2>3. QED
    BY <2>2, EgressAssumption DEF EnoughCountries
<1>2. QED
  BY <1>1, PTL

----------------------------------------------------------------------------
(* Health, for a prober that always stamps its reports *)

(* The invariant of the health records holds initially. *)
LEMMA InitHealth == Init => HealthInv
BY DEF Init, HealthInv, LeakQuarantines, FailuresCounted, LateIsOver, Threshold

(* Every step keeps the invariant of the health records. *)
LEMMA HealthStep ==
  ASSUME ~Unstamped, TypeOK, HealthInv, [Next]_vars
  PROVE  HealthInv'
<1>1. ASSUME NEW e \in Endpoints, Probe(e) PROVE HealthInv'
  <2>1. PICK g : \E failed \in BOOLEAN : Outcome(e, g, failed)
    BY <1>1, ProbeStep
  <2>2. QED
    BY <1>1, <2>1, ProbeKeeps DEF Probe
<1>2. ASSUME NEW e \in Endpoints, MarkHealthy(e) PROVE HealthInv'
  <2>1. PICK g : Outcome(e, g, FALSE)
    BY <1>2, MarkProbeFacts DEF MarkHealthy
  <2>2. QED
    BY <1>2, <2>1, ProbeKeeps DEF MarkHealthy
<1>3. ASSUME NEW e \in Endpoints, SetHealth(e) PROVE HealthInv'
  BY <1>3 DEF SetHealth, TypeOK, HealthInv, LeakQuarantines, FailuresCounted, LateIsOver,
     Threshold
<1>4. ASSUME NEW e \in Endpoints, Execute(e) PROVE HealthInv'
  <2>1. e \notin leaked
    BY <1>4 DEF Execute, Eligible, HealthInv, LeakQuarantines
  <2>2. LateIsOver'
    BY <1>4, <2>1 DEF Execute, HealthInv, LateIsOver, history
  <2>3. QED
    BY <1>4, <2>2 DEF Execute, HealthInv, LeakQuarantines, FailuresCounted, history
<1>5. ASSUME NEW e \in Endpoints, Activate(e) PROVE HealthInv'
  <2>1. after[e] = 0 /\ broker.endpoint = e /\ broker'.endpoint = None
    BY <1>5 DEF Activate, HealthInv, LateIsOver, Idle
  <2>2. LateIsOver'
    BY <1>5, <2>1, EgressAssumption DEF Activate, HealthInv, LateIsOver, TypeOK, AtMost
  <2>3. QED
    BY <1>5, <2>2 DEF Activate, HealthInv, LeakQuarantines, FailuresCounted
<1>6. ASSUME NEW j \in Jobs, \/ selectStableX(j) \/ Finish(j)
                             \/ \E e \in Endpoints : Select(j, e)
      PROVE  HealthInv'
  BY <1>6 DEF selectStableX, Finish, Select, HealthInv, LeakQuarantines, FailuresCounted,
     LateIsOver, history
<1>7. CASE Tick
  <2>1. \A e \in Endpoints : /\ health'[e].quarantined = health[e].quarantined
                            /\ health'[e].failures = health[e].failures
    BY <1>7 DEF Tick, TypeOK, Health
  <2>2. QED
    BY <1>7, <2>1 DEF Tick, TypeOK, HealthInv, LeakQuarantines, FailuresCounted, LateIsOver,
       history
<1>8. CASE StartScan \/ UNCHANGED vars
  BY <1>8 DEF StartScan, vars, HealthInv, LeakQuarantines, FailuresCounted, LateIsOver, history
<1>9. QED
  BY <1>1, <1>2, <1>3, <1>4, <1>5, <1>6, <1>7, <1>8 DEF Next

(* The invariant of the health records always holds. *)
LEMMA HealthInvariance ==
  ASSUME ~Unstamped
  PROVE  Spec => [](TypeOK /\ HealthInv)
<1>1. LeaseInv /\ HealthInv /\ [Next]_vars => HealthInv'
  BY HealthStep DEF LeaseInv
<1>2. QED
  BY InitHealth, LeaseInvariance, <1>1, PTL DEF Spec, LeaseInv

(* A leaking endpoint stays ineligible until it is reset, provided the       *)
(* prober stamps its reports.                                                *)
THEOREM LeakSafety ==
  ASSUME ~Unstamped
  PROVE  Spec => []LeakExcludes
<1>1. HealthInv => LeakExcludes
  BY DEF HealthInv, LeakQuarantines, LeakExcludes, Eligible
<1>2. QED
  BY HealthInvariance, <1>1, PTL

(* Three failed probes in a row quarantine, whichever calls reported them. *)
THEOREM QuarantineAfterThree ==
  ASSUME ~Unstamped
  PROVE  Spec => []ThreeStrikes
<1>1. TypeOK /\ HealthInv => ThreeStrikes
  <2> SUFFICES ASSUME TypeOK, HealthInv, NEW e \in Endpoints, streak[e] >= Threshold,
                      ~health[e].quarantined
               PROVE  FALSE
    BY DEF ThreeStrikes
  <2>1. health[e].failures \in 0 .. Threshold /\ streak[e] \in 0 .. Threshold
    BY DEF TypeOK, Health
  <2>2. health[e].failures >= streak[e] /\ health[e].failures < Threshold
    BY DEF HealthInv, FailuresCounted
  <2>3. QED
    BY <2>1, <2>2 DEF Threshold
<1>2. QED
  BY HealthInvariance, <1>1, PTL

(* After a leak the broker activates the endpoint at most once more. *)
THEOREM AtMostOneLateActivation ==
  ASSUME ~Unstamped
  PROVE  Spec => []OneLateActivation
<1>1. TypeOK /\ HealthInv => OneLateActivation
  BY DEF TypeOK, HealthInv, LateIsOver, OneLateActivation
<1>2. QED
  BY HealthInvariance, <1>1, PTL

----------------------------------------------------------------------------
(* How old a check may be *)

(* Reports are stamped, by a clock that is not ahead, and applied within     *)
(* lag; a check is valid for the interval, two scans and the lag.            *)
InTime(lag) ==
  /\ ~Unstamped
  /\ Stamps \subseteq 0 .. lag
  /\ Interval + 2 * ScanMax + lag <= MaxHealthAge

Fine(h) == h.healthy /\ ~h.quarantined

(* The oldest check of an endpoint: since its probe the rest of that scan,   *)
(* the interval and a part of this scan may have passed.                     *)
Oldest(lag) ==
  IF Probing THEN lag + ScanMax + Interval + monitor.spent
             ELSE lag + ScanMax + Interval - monitor.left

(* One that this scan has already probed is younger. *)
Youngest(lag) ==
  IF Probing THEN lag + monitor.spent ELSE lag + monitor.spent + Interval - monitor.left

AgeBounded(lag) ==
  \A e \in Endpoints : Fine(health[e]) => 0 <= health[e].age /\ health[e].age <= Oldest(lag)

ProbedIsYoung(lag) ==
  \A i \in 1 .. Len(Catalog) :
    i < monitor.next /\ Fine(health[Catalog[i]]) => health[Catalog[i]].age <= Youngest(lag)

FreshInv(lag) == AgeBounded(lag) /\ ProbedIsYoung(lag)

(* The record of e becomes g, and if that is eligible it has just been       *)
(* checked.                                                                  *)
Checked(e, g, lag) ==
  /\ health' = [health EXCEPT ![e] = g]
  /\ Fine(g) => 0 <= g.age /\ g.age <= lag

(* What a probe makes eligible has just been checked. *)
LEMMA FreshReport ==
  ASSUME NEW lag \in Nat, InTime(lag), TypeOK, NEW e \in Endpoints,
         Probe(e) \/ SetHealth(e) \/ MarkHealthy(e)
  PROVE  \E g \in Health : Checked(e, g, lag)
<1>1. health[e] \in Health
  BY DEF TypeOK
<1>2. ASSUME NEW healthy \in BOOLEAN, MarkProbe(e, healthy)
      PROVE  \E g \in Health : Checked(e, g, lag)
  <2>1. Marked(health[e], healthy) \in Health
    BY <1>1, MarkedFacts
  <2>2. Marked(health[e], healthy).age = 0
    BY DEF Marked, Failed
  <2>3. health' = [health EXCEPT ![e] = Marked(health[e], healthy)]
    BY <1>2 DEF MarkProbe
  <2>4. 0 <= Marked(health[e], healthy).age /\ Marked(health[e], healthy).age <= lag
    BY <2>2
  <2>5. QED
    BY <2>1, <2>3, <2>4 DEF Checked
<1>3. ASSUME NEW verdict \in {"ok", "unreachable", "leak"}, ApplyProbe(e, verdict)
      PROVE  \E g \in Health : Checked(e, g, lag)
  <2>1. PICK age \in Stamps : health' = [health EXCEPT ![e] = Applied(@, verdict, age)]
    BY <1>3 DEF ApplyProbe, InTime, Unstamped
  <2>2. age \in Ages /\ 0 <= age /\ age <= lag
    BY <2>1, AgeFacts DEF InTime, Unstamped
  <2>3. Applied(health[e], verdict, age) \in Health
    BY <1>1, <2>2, AppliedFacts
  <2>4. Applied(health[e], verdict, age).age = age
    BY <1>1 DEF Applied, Failed, Health
  <2>5. QED
    BY <2>1, <2>2, <2>3, <2>4 DEF Checked
<1>4. CASE SetHealth(e)
  <2>1. [healthy |-> TRUE, quarantined |-> FALSE, failures |-> 0, age |-> 0] \in Health
    BY AgeFacts DEF Health, Threshold
  <2> DEFINE g == [healthy |-> TRUE, quarantined |-> FALSE, failures |-> 0, age |-> 0]
  <2>2. health' = [health EXCEPT ![e] = g] /\ 0 <= g.age /\ g.age <= lag
    BY <1>4 DEF SetHealth
  <2>3. QED
    BY <2>1, <2>2 DEF Checked
<1>5. QED
  BY <1>2, <1>3, <1>4 DEF Probe, MarkHealthy

(* Every endpoint has its place in the catalog. *)
LEMMA Placed ==
  /\ Len(Catalog) \in Nat
  /\ \A i \in 1 .. Len(Catalog) : Catalog[i] \in Endpoints
  /\ \A e \in Endpoints : \E i \in 1 .. Len(Catalog) : Catalog[i] = e
BY EgressAssumption DEF Endpoints

(* The sums behind the bounds. *)
LEMMA Sums ==
  ASSUME NEW lag \in Nat, NEW scan \in Nat, NEW interval \in Nat,
         NEW left \in 0 .. interval, NEW spent \in 0 .. scan
  PROVE  /\ lag + scan + interval + spent \in Int /\ lag <= lag + scan + interval + spent
         /\ lag + scan + interval - left \in Int /\ lag <= lag + scan + interval - left
         /\ lag + spent \in Int /\ lag <= lag + spent
         /\ lag + spent + interval - left \in Int /\ lag <= lag + spent + interval - left
OBVIOUS

(* A tick of the timer is one on the bounds. *)
LEMMA SumsTick ==
  ASSUME NEW a \in Int, NEW b \in Int, NEW c \in Int, NEW left \in Int
  PROVE  a + b + c - (left - 1) = (a + b + c - left) + 1
OBVIOUS

(* Where the scan is, and the bounds that follow. *)
LEMMA BoundFacts ==
  ASSUME NEW lag \in Nat, TypeOK
  PROVE  /\ monitor.next \in 1 .. Len(Catalog) + 1
         /\ monitor.left \in 0 .. Interval /\ monitor.spent \in 0 .. ScanMax
         /\ Interval \in Nat /\ ScanMax \in Nat /\ Len(Catalog) \in Nat
         /\ Oldest(lag) \in Int /\ Youngest(lag) \in Int
         /\ lag <= Oldest(lag) /\ lag <= Youngest(lag)
<1>1. /\ monitor.next \in 1 .. Len(Catalog) + 1
      /\ monitor.left \in 0 .. Interval /\ monitor.spent \in 0 .. ScanMax
      /\ Interval \in Nat /\ ScanMax \in Nat /\ Len(Catalog) \in Nat
  BY EgressAssumption, CatalogFacts DEF TypeOK
<1>2. QED
  BY <1>1, Sums DEF Oldest, Youngest

(* Every step keeps the bounds on the ages. *)
LEMMA FreshStep ==
  ASSUME NEW lag \in Nat, InTime(lag), TypeOK, TypeOK', FreshInv(lag), [Next]_vars
  PROVE  FreshInv(lag)'
<1>0. /\ monitor.next \in 1 .. Len(Catalog) + 1
      /\ monitor.left \in 0 .. Interval /\ monitor.spent \in 0 .. ScanMax
      /\ Interval \in Nat /\ ScanMax \in Nat /\ Len(Catalog) \in Nat
      /\ Oldest(lag) \in Int /\ Youngest(lag) \in Int
      /\ lag <= Oldest(lag) /\ lag <= Youngest(lag)
  BY BoundFacts
<1>a. \A d \in Endpoints : health[d].age \in Int /\ health'[d].age \in Int
  BY DEF TypeOK, Health, Ages
<1>d. health \in [Endpoints -> Health]
  BY DEF TypeOK
<1>b. /\ Oldest(lag)' \in Int /\ Youngest(lag)' \in Int
      /\ lag <= Oldest(lag)' /\ lag <= Youngest(lag)'
  <2>1. monitor'.left \in 0 .. Interval /\ monitor'.spent \in 0 .. ScanMax
    BY DEF TypeOK
  <2>2. QED
    BY <1>0, <2>1, Sums DEF Oldest, Youngest
<1>1. ASSUME NEW e \in Endpoints, SetHealth(e) \/ MarkHealthy(e)
      PROVE  FreshInv(lag)'
  <2>1. PICK g \in Health : Checked(e, g, lag)
    BY <1>1, FreshReport
  <2>2. monitor' = monitor /\ Oldest(lag)' = Oldest(lag) /\ Youngest(lag)' = Youngest(lag)
    BY <1>1 DEF SetHealth, MarkHealthy, Oldest, Youngest, Probing
  <2>3. /\ \A d \in Endpoints : d # e => health'[d] = health[d]
        /\ Fine(health'[e]) => /\ 0 <= health'[e].age
                              /\ health'[e].age <= Oldest(lag)'
                              /\ health'[e].age <= Youngest(lag)'
    <3>1. health'[e] = g /\ \A d \in Endpoints : d # e => health'[d] = health[d]
      BY <1>d, <2>1 DEF Checked
    <3>2. ASSUME Fine(g), NEW bound \in Int, lag <= bound
          PROVE  0 <= g.age /\ g.age <= bound
      <4>1. g.age \in Int /\ 0 <= g.age /\ g.age <= lag
        BY <1>a, <2>1, <3>1, <3>2 DEF Checked
      <4>2. QED
        BY <3>2, <4>1
    <3>3. QED
      BY <1>b, <3>1, <3>2
  <2>4. AgeBounded(lag)'
    BY <2>2, <2>3 DEF FreshInv, AgeBounded
  <2>5. ProbedIsYoung(lag)'
    BY <2>2, <2>3, Placed DEF FreshInv, ProbedIsYoung
  <2>6. QED
    BY <2>4, <2>5 DEF FreshInv
<1>2. ASSUME NEW e \in Endpoints, Probe(e)
      PROVE  FreshInv(lag)'
  <2>1. PICK g \in Health : Checked(e, g, lag)
    BY <1>2, FreshReport
  <2>2. /\ monitor.next <= Len(Catalog) /\ Probing /\ e = Catalog[monitor.next]
        /\ monitor'.next = monitor.next + 1
        /\ monitor'.left = IF monitor.next = Len(Catalog) THEN Interval ELSE 0
        /\ monitor'.spent = monitor.spent
    BY <1>2 DEF Probe, Probing, TypeOK
  <2>3. /\ \A d \in Endpoints : d # e => health'[d] = health[d]
        /\ Fine(health'[e]) => /\ 0 <= health'[e].age
                              /\ health'[e].age <= Oldest(lag)'
                              /\ health'[e].age <= Youngest(lag)'
    <3>1. health'[e] = g /\ \A d \in Endpoints : d # e => health'[d] = health[d]
      BY <1>d, <2>1 DEF Checked
    <3>2. ASSUME Fine(g), NEW bound \in Int, lag <= bound
          PROVE  0 <= g.age /\ g.age <= bound
      <4>1. g.age \in Int /\ 0 <= g.age /\ g.age <= lag
        BY <1>a, <2>1, <3>1, <3>2 DEF Checked
      <4>2. QED
        BY <3>2, <4>1
    <3>3. QED
      BY <1>b, <3>1, <3>2
  <2>4. Youngest(lag)' = Youngest(lag)
    BY <1>0, <2>2 DEF Youngest, Probing
  <2>5. ProbedIsYoung(lag)'
    <3> SUFFICES ASSUME NEW i \in 1 .. Len(Catalog), i < monitor'.next,
                        Fine(health'[Catalog[i]])
                 PROVE  health'[Catalog[i]].age <= Youngest(lag)'
      BY DEF ProbedIsYoung
    <3>1. CASE Catalog[i] = e
      BY <2>3, <3>1
    <3>2. CASE Catalog[i] # e
      <4>1. health'[Catalog[i]] = health[Catalog[i]]
        BY <2>3, <3>2, Placed
      <4>2. i # monitor.next
        BY <2>2, <3>2
      <4>3. i < monitor.next
        BY <1>0, <2>2, <4>2
      <4>4. QED
        BY <2>4, <4>1, <4>3 DEF FreshInv, ProbedIsYoung
    <3>3. QED
      BY <3>1, <3>2
  <2>6. ASSUME monitor.next = Len(Catalog)
        PROVE  AgeBounded(lag)'
    <3>1. Youngest(lag)' <= Oldest(lag)'
      BY <1>0, <2>2, <2>6 DEF Oldest, Youngest, Probing
    <3>2. Youngest(lag)' \in Int /\ Oldest(lag)' \in Int
      BY <1>b
    <3>3. ASSUME NEW d \in Endpoints, Fine(health'[d])
          PROVE  0 <= health'[d].age /\ health'[d].age <= Oldest(lag)'
      <4>1. PICK i \in 1 .. Len(Catalog) : Catalog[i] = d
        BY Placed
      <4>2. i < monitor'.next
        BY <1>0, <2>2, <2>6
      <4>3. health'[d].age <= Youngest(lag)'
        BY <2>5, <3>3, <4>1, <4>2 DEF ProbedIsYoung
      <4>4. health'[d].age <= Oldest(lag)'
        BY <1>a, <3>1, <3>2, <4>3
      <4>5. 0 <= health'[d].age
        BY <2>3, <3>3 DEF FreshInv, AgeBounded
      <4>6. QED
        BY <4>4, <4>5
    <3>4. QED
      BY <3>3 DEF AgeBounded
  <2>7. ASSUME monitor.next # Len(Catalog)
        PROVE  AgeBounded(lag)'
    <3>1. Oldest(lag)' = Oldest(lag)
      BY <1>0, <2>2, <2>7 DEF Oldest, Probing
    <3>2. QED
      BY <2>3, <3>1 DEF FreshInv, AgeBounded
  <2>8. QED
    BY <2>5, <2>6, <2>7 DEF FreshInv
<1>3. CASE StartScan
  <2>1. /\ monitor.next = Len(Catalog) + 1 /\ ~Probing /\ monitor.left = 0 /\ health' = health
        /\ monitor'.next = 1 /\ monitor'.left = 0 /\ monitor'.spent = 0
    BY <1>0, <1>3 DEF StartScan, Probing
  <2>2. Oldest(lag)' = Oldest(lag)
    BY <1>0, <2>1 DEF Oldest
  <2>3. \A i \in 1 .. Len(Catalog) : ~(i < monitor'.next)
    BY <1>0, <2>1
  <2>4. QED
    BY <2>1, <2>2, <2>3 DEF FreshInv, AgeBounded, ProbedIsYoung
<1>4. CASE Tick
  <2>1. monitor'.next = monitor.next /\ (Probing' <=> Probing)
    BY <1>4 DEF Tick, Probing, TypeOK
  <2>2. \/ Probing /\ monitor'.spent = monitor.spent + 1 /\ monitor'.left = monitor.left
        \/ ~Probing /\ monitor'.left = monitor.left - 1 /\ monitor'.spent = monitor.spent
    <3>1. CASE Probing
      <4>1. monitor' = [monitor EXCEPT !.spent = @ + 1]
        BY <1>4, <3>1 DEF Tick
      <4>2. QED
        BY <3>1, <4>1 DEF TypeOK
    <3>2. CASE ~Probing
      <4>1. monitor' = [monitor EXCEPT !.left = @ - 1]
        BY <1>4, <3>2 DEF Tick
      <4>2. QED
        BY <3>2, <4>1 DEF TypeOK
    <3>3. QED
      BY <3>1, <3>2
  <2>3. Oldest(lag)' = Oldest(lag) + 1 /\ Youngest(lag)' = Youngest(lag) + 1
    <3>1. CASE Probing /\ monitor'.spent = monitor.spent + 1
      <4>1. /\ Oldest(lag) = lag + ScanMax + Interval + monitor.spent
            /\ Oldest(lag)' = lag + ScanMax + Interval + (monitor.spent + 1)
            /\ Youngest(lag) = lag + monitor.spent
            /\ Youngest(lag)' = lag + (monitor.spent + 1)
        BY <2>1, <3>1 DEF Oldest, Youngest
      <4>2. QED
        BY <1>0, <4>1
    <3>2. CASE ~Probing /\ monitor'.left = monitor.left - 1 /\ monitor'.spent = monitor.spent
      <4>1. /\ Oldest(lag) = lag + ScanMax + Interval - monitor.left
            /\ Oldest(lag)' = lag + ScanMax + Interval - (monitor.left - 1)
            /\ Youngest(lag) = lag + monitor.spent + Interval - monitor.left
            /\ Youngest(lag)' = lag + monitor.spent + Interval - (monitor.left - 1)
        BY <2>1, <3>2 DEF Oldest, Youngest
      <4>2. /\ lag \in Int /\ ScanMax \in Int /\ Interval \in Int
            /\ monitor.left \in Int /\ monitor.spent \in Int
        BY <1>0
      <4>3. QED
        BY <4>1, <4>2, SumsTick
    <3>3. QED
      BY <2>2, <3>1, <3>2
  <2>4. \A d \in Endpoints : /\ Fine(health'[d]) <=> Fine(health[d])
                             /\ health'[d].age = AtMost(health[d].age + 1, Stale)
    <3>1. \A d \in Endpoints :
            health'[d] = [health[d] EXCEPT !.age = AtMost(health[d].age + 1, Stale)]
      BY <1>4 DEF Tick
    <3>2. \A d \in Endpoints : /\ health'[d].age = AtMost(health[d].age + 1, Stale)
                               /\ health'[d].healthy = health[d].healthy
                               /\ health'[d].quarantined = health[d].quarantined
      BY <1>d, <3>1 DEF Health
    <3>3. QED
      BY <3>2 DEF Fine
  <2>5. Stale \in Nat
    BY EgressAssumption DEF Stale
  <2>6. ASSUME NEW d \in Endpoints, NEW bound \in Int, health[d].age <= bound
        PROVE  health'[d].age <= bound + 1
    BY <1>a, <2>4, <2>5, <2>6 DEF AtMost
  <2>7. ASSUME NEW d \in Endpoints, 0 <= health[d].age
        PROVE  0 <= health'[d].age
    BY <1>a, <2>4, <2>5, <2>7 DEF AtMost
  <2>8. AgeBounded(lag)'
    BY <1>0, <2>3, <2>4, <2>6, <2>7 DEF FreshInv, AgeBounded
  <2>9. ProbedIsYoung(lag)'
    BY <1>0, <2>1, <2>3, <2>4, <2>6, Placed DEF FreshInv, ProbedIsYoung
  <2>10. QED
    BY <2>8, <2>9 DEF FreshInv
<1>5. CASE UNCHANGED <<health, monitor>>
  BY <1>5 DEF FreshInv, AgeBounded, ProbedIsYoung, Oldest, Youngest, Probing
<1>6. QED
  BY <1>1, <1>2, <1>3, <1>4, <1>5 DEF Next, vars, Execute, Activate, selectStableX, Finish, Select

(* Whatever the number of endpoints, an endpoint whose last probe was clean  *)
(* never drops out for age alone, if the validity of a check covers the      *)
(* interval, two scans and the lag of a report.                              *)
THEOREM CleanEndpointsStayEligible ==
  ASSUME NEW CONSTANT lag \in Nat, InTime(lag)
  PROVE  Spec => []StaysFresh
<1>1. Init => FreshInv(lag)
  BY Placed DEF Init, FreshInv, AgeBounded, ProbedIsYoung, Fine
<1>2. TypeOK /\ TypeOK' /\ FreshInv(lag) /\ [Next]_vars => FreshInv(lag)'
  BY FreshStep
<1>3. TypeOK /\ FreshInv(lag) => StaysFresh
  <2> SUFFICES ASSUME TypeOK, FreshInv(lag), NEW e \in Endpoints, Fine(health[e])
               PROVE  Eligible(health[e])
    BY DEF StaysFresh, Fine
  <2>1. /\ monitor.left \in 0 .. Interval /\ monitor.spent \in 0 .. ScanMax
        /\ Interval \in Nat /\ ScanMax \in Nat /\ MaxHealthAge \in Nat
        /\ health[e].age \in Int
    BY EgressAssumption DEF TypeOK, Health, Ages
  <2>2. 0 <= health[e].age /\ health[e].age <= MaxHealthAge
    BY <2>1 DEF FreshInv, AgeBounded, Oldest, InTime
  <2>3. QED
    BY <2>2 DEF Eligible, Fine
<1>4. QED
  BY <1>1, <1>2, <1>3, EgressTypeCorrect, PTL DEF Spec
=============================================================================
