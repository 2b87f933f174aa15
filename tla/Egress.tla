------------------------------- MODULE Egress -------------------------------
(* internal/egress: the endpoint registry, the health monitor that probes it, *)
(* the selector that leases an endpoint to a post and the guarded broker that *)
(* activates it.  Registry calls take its lock for their whole body, so each *)
(* is one step; what a caller copied out of the registry may be stale when   *)
(* it is used.                                                               *)
(*                                                                           *)
(* The prober, the namespace executor and the dispatcher that asks for       *)
(* leases and records countries are not in the repository.                   *)
EXTENDS Integers, Sequences, FiniteSets

CONSTANTS
  Catalog,              \* the endpoints, in the order of Snapshot (by ID)
  Country,              \* the country code of each endpoint
  AllowedCountries,     \* SelectionPolicy
  MinHealthyCountries,
  MaxHealthAge,
  StableXEndpoint,
  FR,                   \* the country code the X endpoint must have
  Jobs,                 \* posts that ask for an endpoint
  Enabled,              \* GuardedBroker.enabled
  Interval,             \* ticks between two scans of the monitor
  ScanMax,              \* ticks that the probes of one scan may take
  Stamps,               \* how old a report's CheckedAt may be when it is applied
  None                  \* no country, no endpoint, no CheckedAt

Endpoints == {Catalog[i] : i \in 1 .. Len(Catalog)}

(* An age of MaxHealthAge + 1 stands for every older one, and for the zero   *)
(* time of an endpoint never checked: none of them is eligible.              *)
Stale == MaxHealthAge + 1

(* NewRegistry and NewSelector refuse every other configuration. *)
ASSUME EgressAssumption ==
  /\ Catalog \in Seq(Endpoints)
  /\ None \notin Endpoints
  /\ \A e \in Endpoints : Country[e] # None
  /\ IsFiniteSet(AllowedCountries)
  /\ MinHealthyCountries \in Nat /\ MinHealthyCountries >= 3
  /\ MaxHealthAge \in Nat \ {0}
  /\ StableXEndpoint \in Endpoints
  /\ Interval \in Nat /\ ScanMax \in Nat
  /\ Stamps \ {None} \subseteq Int /\ \A a \in Stamps \ {None} : a <= Stale
  /\ Enabled \in BOOLEAN

VARIABLES
  health,       \* Registry.records: the Health of each endpoint
  monitor,      \* HealthMonitor.Run: where in its scan it is
  lease,        \* the EgressLease each job holds
  last,         \* last_nostr_country of each job
  broker,       \* the request the broker is serving
  leaked,       \* history: endpoints reported as leaking and not reset since
  streak,       \* history: consecutive failed probes of each endpoint, up to 3
  after         \* history: activations of each endpoint since it leaked, up to 2

vars == <<health, monitor, lease, last, broker, leaked, streak, after>>
history == <<leaked, streak, after>>

----------------------------------------------------------------------------
(* Data *)

Ages == {a \in Int : a <= Stale}

(* Only whether Failures has reached 3 matters: it is counted up to there. *)
Threshold == 3
Health == [healthy : BOOLEAN, quarantined : BOOLEAN, failures : 0 .. Threshold, age : Ages]

Eligible_Strict(h) == h.healthy /\ ~h.quarantined /\ 0 <= h.age /\ h.age < MaxHealthAge

Eligible(h) == h.healthy /\ ~h.quarantined /\ 0 <= h.age /\ h.age <= MaxHealthAge

AtMost(n, bound) == IF n > bound THEN bound ELSE n

NoLease == [platform |-> "none", endpoint |-> None]
Lease == [platform : {"x", "nostr"}, endpoint : Endpoints] \cup {NoLease}

Idle == [pc |-> "idle", endpoint |-> None]

----------------------------------------------------------------------------
Init ==
  /\ health = [e \in Endpoints |-> [healthy |-> FALSE, quarantined |-> FALSE,
                                    failures |-> 0, age |-> Stale]]
  /\ monitor = [next |-> 1, left |-> 0, spent |-> 0]
  /\ lease = [j \in Jobs |-> NoLease]
  /\ last = [j \in Jobs |-> None]
  /\ broker = Idle
  /\ leaked = {}
  /\ streak = [e \in Endpoints |-> 0]
  /\ after = [e \in Endpoints |-> 0]

(* One more failure, and the quarantine that it brings. *)
Failed(h, age, hard) ==
  LET failures == AtMost(h.failures + 1, Threshold) IN
  [healthy |-> FALSE, quarantined |-> h.quarantined \/ hard \/ failures >= Threshold,
   failures |-> failures, age |-> age]

Strike(e) == streak' = [streak EXCEPT ![e] = AtMost(@ + 1, Threshold)]
Clear(e) == streak' = [streak EXCEPT ![e] = 0]

(* ApplyProbe: a leak or an identity mismatch is a hard failure; a reachable *)
(* endpoint becomes healthy unless it is quarantined.                        *)
Applied_ForgetsQuarantine(h, verdict, age) ==
  CASE verdict = "leak" -> Failed(h, age, TRUE)
    [] verdict = "unreachable" -> Failed(h, age, FALSE)
    [] verdict = "ok" ->
         [healthy |-> TRUE, quarantined |-> FALSE, failures |-> 0, age |-> age]

Applied_StaysDown(h, verdict, age) ==
  CASE verdict = "leak" -> Failed(h, age, TRUE)
    [] verdict = "unreachable" -> Failed(h, age, FALSE)
    [] verdict = "ok" ->
         IF h.quarantined THEN [h EXCEPT !.age = age]
                          ELSE [h EXCEPT !.failures = 0, !.age = age]

Applied(h, verdict, age) ==
  CASE verdict = "leak" -> Failed(h, age, TRUE)
    [] verdict = "unreachable" -> Failed(h, age, FALSE)
    [] verdict = "ok" ->
         IF h.quarantined
           THEN [h EXCEPT !.age = age]
           ELSE [healthy |-> TRUE, quarantined |-> FALSE, failures |-> 0, age |-> age]

(* A report without CheckedAt is refused; probeAll drops the error. *)
ApplyProbe(e, verdict) ==
  /\ \E age \in Stamps :
       health' = IF age = None THEN health
                 ELSE [health EXCEPT ![e] = Applied(@, verdict, age)]
  /\ leaked' = IF verdict = "leak" THEN leaked \cup {e} ELSE leaked
  /\ IF verdict = "ok" THEN Clear(e) ELSE Strike(e)
  /\ UNCHANGED after

(* MarkProbe records a bare result.  A healthy one clears the failures of a  *)
(* quarantined endpoint, not its quarantine.                                 *)
Marked(h, healthy) ==
  IF healthy
    THEN [healthy |-> TRUE, quarantined |-> h.quarantined, failures |-> 0, age |-> 0]
    ELSE Failed(h, 0, FALSE)

MarkProbe_NeverQuarantines(e, healthy) ==
  /\ health' = [health EXCEPT ![e].healthy = healthy, ![e].age = 0,
                              ![e].failures = IF healthy THEN 0 ELSE AtMost(@ + 1, Threshold)]
  /\ IF healthy THEN Clear(e) ELSE Strike(e)
  /\ UNCHANGED <<leaked, after>>

MarkProbe(e, healthy) ==
  /\ health' = [health EXCEPT ![e] = Marked(@, healthy)]
  /\ IF healthy THEN Clear(e) ELSE Strike(e)
  /\ UNCHANGED <<leaked, after>>

----------------------------------------------------------------------------
(* HealthMonitor.Run: a scan probes the endpoints in order, then a timer     *)
(* runs for the interval.                                                    *)

Probing == monitor.next <= Len(Catalog)

Probe(e) ==
  /\ Probing
  /\ e = Catalog[monitor.next]
  /\ \/ MarkProbe(e, FALSE)     \* the prober returned an error
     \/ \E verdict \in {"ok", "unreachable", "leak"} : ApplyProbe(e, verdict)
  /\ monitor' = [monitor EXCEPT !.next = @ + 1,
                                !.left = IF monitor.next = Len(Catalog) THEN Interval ELSE 0]
  /\ UNCHANGED <<lease, last, broker>>

StartScan ==
  /\ ~Probing
  /\ monitor.left = 0
  /\ monitor' = [next |-> 1, left |-> 0, spent |-> 0]
  /\ UNCHANGED <<health, lease, last, broker, history>>

(* Time passes while a probe or the timer is running.  The code bounds the   *)
(* time of a probe by its context alone: ScanMax is an assumption.           *)
Tick ==
  /\ IF Probing
       THEN /\ monitor.spent < ScanMax
            /\ monitor' = [monitor EXCEPT !.spent = @ + 1]
       ELSE /\ monitor.left > 0
            /\ monitor' = [monitor EXCEPT !.left = @ - 1]
  /\ health' = [e \in Endpoints |->
                 [health[e] EXCEPT !.age = AtMost(@ + 1, Stale)]]
  /\ UNCHANGED <<lease, last, broker, history>>

(* No code outside the tests calls SetHealth; an operator would, to put a    *)
(* repaired endpoint back.                                                   *)
SetHealth(e) ==
  /\ health[e].quarantined
  /\ health' = [health EXCEPT ![e] = [healthy |-> TRUE, quarantined |-> FALSE,
                                      failures |-> 0, age |-> 0]]
  /\ leaked' = leaked \ {e}
  /\ streak' = [streak EXCEPT ![e] = 0]
  /\ after' = [after EXCEPT ![e] = 0]
  /\ UNCHANGED <<monitor, lease, last, broker>>

(* Nor does any code outside the tests report a healthy endpoint this way. *)
MarkHealthy(e) ==
  /\ MarkProbe(e, TRUE)
  /\ UNCHANGED <<monitor, lease, last, broker>>

----------------------------------------------------------------------------
(* Selector.Select *)

(* byCountry: the allowed countries with an eligible endpoint. *)
Candidates == {e \in Endpoints : Country[e] \in AllowedCountries /\ Eligible(health[e])}
EligibleCountries == {Country[e] : e \in Candidates}

(* The minimum is checked before the previous country is taken out. *)
EnoughCountries_Any == EligibleCountries # {}

EnoughCountries == Cardinality(EligibleCountries) >= MinHealthyCountries

Alternates(previous) == EligibleCountries \ {previous}

Select(j, e) ==
  /\ last[j] # None => last[j] \in AllowedCountries
  /\ EnoughCountries
  /\ e \in Candidates
  /\ Country[e] \in Alternates(last[j])
  /\ lease' = [lease EXCEPT ![j] = [platform |-> "nostr", endpoint |-> e]]
  /\ UNCHANGED <<health, monitor, last, broker, history>>

selectStableX_AsNostr(j) ==
  /\ last[j] # None => last[j] \in AllowedCountries
  /\ Country[StableXEndpoint] = FR
  /\ Eligible(health[StableXEndpoint])
  /\ lease' = [lease EXCEPT ![j] = [platform |-> "nostr", endpoint |-> StableXEndpoint]]
  /\ UNCHANGED <<health, monitor, last, broker, history>>

(* X is bound to its endpoint in France, whether or not the policy allows    *)
(* Nostr posts from there.                                                   *)
selectStableX(j) ==
  /\ last[j] # None => last[j] \in AllowedCountries
  /\ Country[StableXEndpoint] = FR
  /\ Eligible(health[StableXEndpoint])
  /\ lease' = [lease EXCEPT ![j] = [platform |-> "x", endpoint |-> StableXEndpoint]]
  /\ UNCHANGED <<health, monitor, last, broker, history>>

(* The dispatcher is done with its lease; after a Nostr post it records the  *)
(* country (SetLastNostrCountry).                                            *)
Finish(j) ==
  /\ lease[j] # NoLease
  /\ last' = IF lease[j].platform = "nostr"
               THEN [last EXCEPT ![j] = Country[lease[j].endpoint]] ELSE last
  /\ lease' = [lease EXCEPT ![j] = NoLease]
  /\ UNCHANGED <<health, monitor, broker, history>>

----------------------------------------------------------------------------
(* GuardedBroker.Execute: Resolve copies the endpoint's health; the checks   *)
(* and Activate use the copy.  serve handles one connection at a time.       *)
Execute_NoHealthCheck(e) ==
  /\ broker.pc = "idle"
  /\ Enabled
  /\ broker' = [pc |-> "activate", endpoint |-> e]
  /\ UNCHANGED <<health, monitor, lease, last, history>>

Execute(e) ==
  /\ broker.pc = "idle"
  /\ Enabled
  /\ Eligible(health[e])
  /\ broker' = [pc |-> "activate", endpoint |-> e]
  /\ UNCHANGED <<health, monitor, lease, last, history>>

Activate(e) ==
  /\ broker = [pc |-> "activate", endpoint |-> e]
  /\ broker' = Idle
  /\ after' = IF e \in leaked THEN [after EXCEPT ![e] = AtMost(@ + 1, 2)] ELSE after
  /\ UNCHANGED <<health, monitor, lease, last, leaked, streak>>

----------------------------------------------------------------------------
Next ==
  \/ \E e \in Endpoints : Probe(e) \/ SetHealth(e) \/ MarkHealthy(e) \/ Execute(e) \/ Activate(e)
  \/ \E j \in Jobs : selectStableX(j) \/ Finish(j)
  \/ \E j \in Jobs, e \in Endpoints : Select(j, e)
  \/ StartScan
  \/ Tick

Spec == Init /\ [][Next]_vars

(* Run scans again and again: its timer fires and, under the assumption of   *)
(* ScanMax, its probes return.  Nobody else is bound to do anything.         *)
Fairness == WF_vars(Tick) /\ WF_vars(StartScan \/ \E e \in Endpoints : Probe(e))

FairSpec == Spec /\ Fairness

----------------------------------------------------------------------------
(* Properties *)

(* The variables have their types.  The country recorded for a job is in the *)
(* allowed pool, also when the X endpoint is outside it: Select would refuse *)
(* the job ever after.                                                       *)
TypeOK ==
  /\ health \in [Endpoints -> Health]
  /\ monitor \in [next : 1 .. Len(Catalog) + 1, left : 0 .. Interval, spent : 0 .. ScanMax]
  /\ lease \in [Jobs -> Lease]
  /\ last \in [Jobs -> AllowedCountries \cup {None}]
  /\ broker \in [pc : {"idle", "activate"}, endpoint : Endpoints \cup {None}]
  /\ leaked \subseteq Endpoints
  /\ streak \in [Endpoints -> 0 .. Threshold]
  /\ after \in [Endpoints -> 0 .. 2]

(* From the moment a probe reports a leak or an identity mismatch, and until *)
(* an operator resets the endpoint, Eligible refuses it: neither a later     *)
(* clean probe nor a mere failure brings it back.                            *)
LeakExcludes == \A e \in leaked : ~Eligible(health[e])

(* Three failed probes in a row quarantine an endpoint, whether the prober   *)
(* returned errors (MarkProbe) or unreachable reports (ApplyProbe).          *)
ThreeStrikes == \A e \in Endpoints : streak[e] >= Threshold => health[e].quarantined

(* ErrNoEligibleAlternate is never returned: whenever Select finds enough    *)
(* countries, one of them differs from the previous country, whichever it is. *)
AlternateExists ==
  EnoughCountries => \A c \in AllowedCountries \cup {None} : Alternates(c) # {}

(* The broker checks a copy of the health, so an endpoint may be activated   *)
(* just after it was quarantined: but once at most, since requests are       *)
(* served one at a time.                                                     *)
OneLateActivation == \A e \in Endpoints : after[e] <= 1

(* An endpoint whose last probe was clean stays eligible until its next      *)
(* probe.  The 90 s validity of a check must cover the 60 s interval, the    *)
(* probes of two scans, since an endpoint may be probed early in the one and *)
(* late in the other, and the lag of the report's stamp: with scans of 10 s  *)
(* and a lag of 10 s it just does.                                           *)
StaysFresh ==
  \A e \in Endpoints : health[e].healthy /\ ~health[e].quarantined => Eligible(health[e])

(* An endpoint that was down comes back without an operator: if from some    *)
(* time on it fails no probe and is not quarantined, it is eligible from     *)
(* some time on, and not just now and then, between a probe and the age that *)
(* ends its validity.  Otherwise the countries would fall below the minimum  *)
(* for good.                                                                 *)
Recovers ==
  \A e \in Endpoints :
    <>[](streak[e] = 0 /\ ~health[e].quarantined) => <>[]Eligible(health[e])
=============================================================================
