---------------------------- MODULE NostrProofs ----------------------------
(* Proofs about Nostr for any texts, identities and relays: what is signed   *)
(* and sent is what was approved, every relay is tried, and the receipt      *)
(* never overstates, whatever relays answer or keep.                         *)
EXTENDS Nostr, ContentProofs, FiniteSetTheorems, TLAPS

(* The event is the one that the call is for. *)
Requested(e) ==
  e = IF relay = None THEN TextNote(e.pubkey, content) ELSE RelayAuth(e.pubkey, relay)

BeforeSigning == {"idle", "key", "sign.key", "sign"}

(* How far the call is, and what is known by then of the event. *)
SigningInv ==
  /\ pc = "idle" => relay = None /\ content = None /\ want = None
  /\ pc \in BeforeSigning => event = None /\ results = <<>>
  /\ pc \in {"key", "sign.key", "sign", "relay"} /\ relay = None => ValidateNostrText(content)
  /\ pc \in {"sign.key", "sign"} => want \in EventsOf({content}) /\ Requested(want)
  /\ pc = "sign" => want.pubkey \in WellFormed
  /\ pc = "relay" => relay = None /\ event \in EventsOf({content})
  /\ event # None => event.pubkey \in WellFormed /\ Requested(event)

(* Which relays have the event, by their results. *)
DeliveryInv ==
  /\ \A i \in 1 .. 3 : i > Len(results) => holds[Relays[i]] = {}
  /\ \A i \in 1 .. Len(results) :
       /\ results[i].relay = Relays[i]
       /\ results[i].accepted => holds[Relays[i]] # {}
  /\ \A r \in RelayIDs : holds[r] # {} =>
       holds[r] = {event} /\ relay = None /\ ValidateNostrText(content)

(* When the state of the receipt is decided. *)
ReceiptInv ==
  /\ pc = "relay" => Len(results) < 3
  /\ pc = "done" => Len(results) \in {0, 3}
  /\ pc = "done" /\ relay = None /\ event # None => Len(results) = 3
  /\ state = IF Len(results) = 3 THEN Quorum(results) ELSE "FAILED"

NostrInv == TypeOK /\ SigningInv /\ DeliveryInv /\ ReceiptInv

----------------------------------------------------------------------------
(* Relays *)

(* There are three numbers from 1 to 3. *)
LEMMA ThreeNumbers == IsFiniteSet(1 .. 3) /\ Cardinality(1 .. 3) = 3
<1>1. 1 \in Int /\ 3 \in Int
  OBVIOUS
<1>2. IsFiniteSet(1 .. 3) /\ Cardinality(1 .. 3) = IF 1 > 3 THEN 0 ELSE 3 - 1 + 1
  BY <1>1, FS_Interval, Zenon
<1>3. QED
  BY <1>2

(* The relays are numbered, and no two of them are the same. *)
LEMMA RelayNumbers ==
  /\ Relays \in [1 .. 3 -> RelayIDs] /\ Len(Relays) = 3
  /\ \A r \in RelayIDs : \E i \in 1 .. 3 : r = Relays[i]
  /\ \A i, j \in 1 .. 3 : Relays[i] = Relays[j] => i = j
<1>1. /\ Relays \in [1 .. 3 -> RelayIDs] /\ Len(Relays) = 3
      /\ \A r \in RelayIDs : \E i \in 1 .. 3 : r = Relays[i]
  BY NostrAssumption DEF RelayIDs, ToSet
<1>2. Relays \in Surjection(1 .. 3, RelayIDs)
  BY <1>1 DEF Surjection
<1>3. Relays \in Injection(1 .. 3, RelayIDs)
  BY <1>2, ThreeNumbers, FS_Surjection, NostrAssumption
<1>4. QED
  BY <1>1, <1>3 DEF Injection, IsInjective

(* The new result is the last one. *)
LEMMA OneMore ==
  ASSUME TypeOK, NEW result \in RelayResults, results' = Append(results, result)
  PROVE  /\ results' \in Seq(RelayResults) /\ Len(results') = Len(results) + 1
         /\ Len(results) \in Nat
         /\ \A i \in 1 .. Len(results) : results'[i] = results[i]
         /\ results'[Len(results) + 1] = result
BY DEF TypeOK

(* A text note and an authentication event are events of the call. *)
LEMMA EventTypes ==
  ASSUME NEW t \in Contents \cup {None}, NEW k \in Identities, NEW r \in RelayIDs
  PROVE  /\ TextNote(k, t) \in EventsOf({t}) /\ RelayAuth(k, r) \in EventsOf({t})
         /\ TextNote(k, t).pubkey = k /\ RelayAuth(k, r).pubkey = k
BY DEF TextNote, RelayAuth, EventsOf

----------------------------------------------------------------------------
(* The inductive invariant *)

(* At first nothing is asked, signed or sent. *)
LEMMA InitNostrInv == Init => NostrInv
<1> SUFFICES ASSUME Init PROVE NostrInv
  OBVIOUS
<1>1. /\ pc = "idle" /\ relay = None /\ content = None /\ want = None /\ event = None
      /\ results = <<>> /\ state = "FAILED" /\ key \in Identities
      /\ holds = [r \in RelayIDs |-> {}]
  BY DEF Init
<1>2. TypeOK
  BY <1>1, RelayNumbers DEF TypeOK, PCs
<1>3. SigningInv
  BY <1>1 DEF SigningInv
<1>4. DeliveryInv
  BY <1>1, RelayNumbers DEF DeliveryInv
<1>5. ReceiptInv
  BY <1>1 DEF ReceiptInv
<1>6. QED
  BY <1>2, <1>3, <1>4, <1>5 DEF NostrInv

(* Up to the signature there are neither results nor deliveries, and a step  *)
(* that adds none keeps what is known of them.                               *)
LEMMA NothingSent ==
  ASSUME NostrInv, pc \in BeforeSigning, UNCHANGED <<results, state, holds>>,
         pc' \in PCs,
         pc' = "done" => relay' # None \/ event' = None
  PROVE  /\ DeliveryInv' /\ ReceiptInv' /\ results = <<>> /\ Len(results) = 0
         /\ \A r \in RelayIDs : holds[r] = {}
<1>1. results = <<>> /\ Len(results) = 0 /\ event = None
  BY DEF NostrInv, SigningInv
<1>2. \A r \in RelayIDs : holds[r] = {}
  BY <1>1, RelayNumbers DEF NostrInv, DeliveryInv
<1>3. DeliveryInv'
  BY <1>1, <1>2, RelayNumbers DEF DeliveryInv
<1>4. state = "FAILED"
  BY <1>1 DEF NostrInv, ReceiptInv
<1>5. ReceiptInv'
  BY <1>1, <1>4 DEF ReceiptInv
<1>6. QED
  BY <1>1, <1>2, <1>3, <1>5

(* The steps up to the signature. *)
LEMMA SigningSteps ==
  ASSUME NostrInv,
         \/ \E t \in Contents : Publish(t)
         \/ \E r \in RelayIDs, valid \in BOOLEAN : SignNIP42AuthEvent(r, valid)
         \/ PublicKey \/ SignNostrEvent \/ SignEvent
  PROVE  NostrInv'
<1>0. TypeOK /\ SigningInv
  BY DEF NostrInv
<1>a. pc \in BeforeSigning /\ UNCHANGED <<results, state, holds, key>>
  BY DEF Publish, SignNIP42AuthEvent, PublicKey, SignNostrEvent, SignEvent, BeforeSigning
<1>b. event = None /\ results = <<>>
  BY <1>0, <1>a DEF SigningInv
<1>1. ASSUME NEW t \in Contents, Publish(t) PROVE NostrInv'
  <2>1. /\ pc = "idle" /\ content' = t /\ UNCHANGED <<relay, want, event>>
        /\ relay = None /\ want = None
        /\ pc' \in {"key", "done"} /\ (pc' = "key" => ValidateNostrText(t))
    BY <1>0, <1>1 DEF Publish, SigningInv
  <2>2. DeliveryInv' /\ ReceiptInv' /\ \A r \in RelayIDs : holds[r] = {}
    BY <1>a, <1>b, <2>1, NothingSent DEF PCs
  <2>3. TypeOK'
    BY <1>0, <1>a, <1>b, <2>1, <2>2 DEF TypeOK, PCs
  <2>4. SigningInv'
    BY <1>a, <1>b, <2>1 DEF SigningInv
  <2>5. QED
    BY <2>2, <2>3, <2>4 DEF NostrInv
<1>2. ASSUME NEW r \in RelayIDs, NEW valid \in BOOLEAN, SignNIP42AuthEvent(r, valid) PROVE NostrInv'
  <2>1. /\ pc = "idle" /\ relay' = r /\ UNCHANGED <<content, want, event>>
        /\ want = None /\ pc' \in {"key", "done"}
    BY <1>0, <1>2 DEF SignNIP42AuthEvent, SigningInv
  <2>2. r # None
    BY NostrAssumption
  <2>3. DeliveryInv' /\ ReceiptInv' /\ \A q \in RelayIDs : holds[q] = {}
    BY <1>a, <1>b, <2>1, <2>2, NothingSent DEF PCs
  <2>4. TypeOK'
    BY <1>0, <1>a, <1>b, <2>1, <2>3 DEF TypeOK, PCs
  <2>5. SigningInv'
    BY <1>a, <1>b, <2>1, <2>2 DEF SigningInv
  <2>6. QED
    BY <2>3, <2>4, <2>5 DEF NostrInv
<1>3. CASE PublicKey
  <2>1. pc = "key" /\ pc' \in {"sign.key", "done"} /\ UNCHANGED <<relay, content, event>>
    BY <1>3 DEF PublicKey
  <2>2. DeliveryInv' /\ ReceiptInv' /\ \A q \in RelayIDs : holds[q] = {}
    BY <1>a, <1>b, <2>1, NothingSent DEF PCs
  <2>3. key \in Identities /\ content \in Contents \cup {None} /\ relay \in RelayIDs \cup {None}
    BY <1>0 DEF TypeOK
  <2>4. CASE pc' = "sign.key" /\ relay = None /\ want' = TextNote(key, content)
    <3>1. want' \in EventsOf({content}) /\ want'.pubkey = key
      <4>1. PICK r : r \in RelayIDs
        BY RelayNumbers
      <4>2. QED
        BY <2>3, <2>4, <4>1, EventTypes
    <3>2. TypeOK'
      BY <1>0, <1>a, <2>1, <2>4, <3>1 DEF TypeOK, PCs
    <3>3. SigningInv'
      BY <1>0, <1>a, <1>b, <2>1, <2>4, <3>1 DEF SigningInv, Requested
    <3>4. QED
      BY <2>2, <3>2, <3>3 DEF NostrInv
  <2>5. CASE pc' = "sign.key" /\ relay # None /\ want' = RelayAuth(key, relay)
    <3>1. want' \in EventsOf({content}) /\ want'.pubkey = key
      BY <2>3, <2>5, EventTypes
    <3>2. TypeOK'
      BY <1>0, <1>a, <2>1, <2>5, <3>1 DEF TypeOK, PCs
    <3>3. SigningInv'
      BY <1>0, <1>a, <1>b, <2>1, <2>5, <3>1 DEF SigningInv, Requested
    <3>4. QED
      BY <2>2, <3>2, <3>3 DEF NostrInv
  <2>6. CASE pc' = "done" /\ UNCHANGED want
    <3>1. TypeOK'
      BY <1>0, <1>a, <2>1, <2>6 DEF TypeOK, PCs
    <3>2. SigningInv'
      BY <1>0, <1>a, <1>b, <2>1, <2>6 DEF SigningInv
    <3>3. QED
      BY <2>2, <3>1, <3>2 DEF NostrInv
  <2>7. QED
    BY <1>3, <2>1, <2>4, <2>5, <2>6 DEF PublicKey
<1>4. CASE SignNostrEvent
  <2>1. /\ pc = "sign.key" /\ pc' \in {"sign", "done"} /\ UNCHANGED <<relay, content, want, event>>
        /\ pc' = "sign" => want.pubkey \in WellFormed
    BY <1>4 DEF SignNostrEvent
  <2>2. DeliveryInv' /\ ReceiptInv'
    BY <1>a, <1>b, <2>1, NothingSent DEF PCs
  <2>3. TypeOK'
    BY <1>0, <1>a, <2>1 DEF TypeOK, PCs
  <2>4. SigningInv'
    BY <1>0, <1>a, <1>b, <2>1 DEF SigningInv, Requested
  <2>5. QED
    BY <2>2, <2>3, <2>4 DEF NostrInv
<1>5. CASE SignEvent
  <2>1. /\ pc = "sign" /\ UNCHANGED <<relay, content, want>>
        /\ \/ event' = want /\ pc' = IF relay = None THEN "relay" ELSE "done"
           \/ event' = event /\ pc' = "done"
    BY <1>5 DEF SignEvent, validateSignedEnvelope
  <2>2. DeliveryInv' /\ ReceiptInv'
    BY <1>a, <1>b, <2>1, NothingSent DEF PCs
  <2>3. want \in EventsOf({content}) /\ Requested(want) /\ want.pubkey \in WellFormed
    BY <1>0, <2>1 DEF SigningInv
  <2>4. TypeOK'
    BY <1>0, <1>a, <2>1, <2>3 DEF TypeOK, PCs
  <2>5. SigningInv'
    BY <1>0, <1>a, <1>b, <2>1, <2>3 DEF SigningInv, Requested, BeforeSigning
  <2>6. QED
    BY <2>2, <2>4, <2>5 DEF NostrInv
<1>6. QED
  BY <1>1, <1>2, <1>3, <1>4, <1>5

(* One more result for the relay whose turn it is: the relay has the event   *)
(* if it accepted it, and may have it if not.                                *)
Delivers(r, result) ==
  /\ Sending(r)
  /\ result \in RelayResults /\ result.relay = r
  /\ Store(r) \/ UNCHANGED holds
  /\ result.accepted => Store(r)
  /\ Recorded(result)
  /\ UNCHANGED <<key, relay, content, want, event>>

(* Every such result keeps the invariant. *)
LEMMA DeliveryStep ==
  ASSUME NostrInv, NEW r \in RelayIDs, NEW result, Delivers(r, result)
  PROVE  NostrInv'
<1> DEFINE n == Len(results) + 1
<1>0. TypeOK /\ SigningInv /\ DeliveryInv /\ ReceiptInv
  BY DEF NostrInv
<1>1. /\ pc = "relay" /\ r = Relays[n] /\ results' = Append(results, result)
      /\ result \in RelayResults /\ result.relay = r
      /\ UNCHANGED <<key, relay, content, want, event>>
  BY DEF Delivers, Sending, Recorded
<1>2. /\ results' \in Seq(RelayResults) /\ Len(results') = n /\ Len(results) \in Nat
      /\ \A i \in 1 .. Len(results) : results'[i] = results[i]
      /\ results'[n] = result
  BY <1>0, <1>1, OneMore
<1>3. Len(results) < 3 /\ n \in 1 .. 3
  BY <1>0, <1>1, <1>2 DEF ReceiptInv
<1>4. /\ relay = None /\ event \in EventsOf({content}) /\ ValidateNostrText(content)
  BY <1>0, <1>1 DEF SigningInv
<1>5. holds \in [RelayIDs -> SUBSET EventsOf({content})]
  BY <1>0 DEF TypeOK
<1>6. holds[r] = {}
  <2>1. n > Len(results)
    BY <1>2
  <2>2. holds[Relays[n]] = {}
    BY <1>0, <1>3, <2>1 DEF DeliveryInv
  <2>3. QED
    BY <1>1, <2>2
<1>7. /\ \A q \in RelayIDs : q # r => holds'[q] = holds[q]
      /\ holds'[r] \in {{}, {event}}
      /\ result.accepted => holds'[r] # {}
      /\ holds' \in [RelayIDs -> SUBSET EventsOf({content})]
  <2>1. CASE Store(r)
    <3>1. holds' = [holds EXCEPT ![r] = holds[r] \cup {event}]
      BY <2>1 DEF Store
    <3>2. holds'[r] = {event} /\ \A q \in RelayIDs : q # r => holds'[q] = holds[q]
      BY <1>5, <1>6, <3>1
    <3>3. holds' \in [RelayIDs -> SUBSET EventsOf({content})]
      BY <1>4, <1>5, <3>1
    <3>4. QED
      BY <3>2, <3>3
  <2>2. CASE UNCHANGED holds
    <3>1. result.accepted => holds'[r] # {}
      <4>1. ASSUME result.accepted PROVE holds'[r] = {event}
        BY <1>5, <1>6, <4>1 DEF Delivers, Store
      <4>2. QED
        BY <4>1
    <3>2. QED
      BY <1>5, <1>6, <2>2, <3>1
  <2>3. QED
    BY <2>1, <2>2 DEF Delivers
<1> HIDE DEF n
<1>8. n = Len(results) + 1
  BY DEF n
<1>9. /\ n # 3 => pc' = pc /\ state' = state
      /\ n = 3 => pc' = "done" /\ state' = Quorum(results')
  BY <1>2, RelayNumbers DEF Delivers, Recorded
<1>10. TypeOK'
  <2>1. Quorum(results') \in {"FAILED", "PARTIAL", "COMPLETE"}
    BY DEF Quorum
  <2>2. state' \in {"FAILED", "PARTIAL", "COMPLETE"} /\ pc' \in PCs
    BY <1>0, <1>9, <2>1 DEF TypeOK, PCs
  <2>3. Len(results') <= Len(Relays) /\ results' \in Seq(RelayResults)
    BY <1>2, <1>3, RelayNumbers
  <2>4. /\ key' \in Identities /\ relay' \in RelayIDs \cup {None} /\ content' \in Contents \cup {None}
        /\ {want', event'} \subseteq EventsOf({content'}) \cup {None}
    BY <1>0, <1>1 DEF TypeOK
  <2>5. holds' \in [RelayIDs -> SUBSET EventsOf({content'})]
    BY <1>1, <1>7
  <2>6. QED
    BY <2>2, <2>3, <2>4, <2>5 DEF TypeOK
<1>11. SigningInv'
  BY <1>0, <1>1, <1>4, <1>9 DEF SigningInv, Requested, BeforeSigning
<1>12. DeliveryInv'
  <2>1. \A i \in 1 .. 3 : i > n => holds'[Relays[i]] = {}
    <3>1. ASSUME NEW i \in 1 .. 3, i > n PROVE holds'[Relays[i]] = {}
      <4>1. Relays[i] # r /\ Relays[i] \in RelayIDs
        BY <1>1, <1>3, <1>8, <3>1, RelayNumbers
      <4>2. holds[Relays[i]] = {}
        BY <1>0, <1>2, <1>8, <3>1 DEF DeliveryInv
      <4>3. QED
        BY <1>7, <4>1, <4>2
    <3>2. QED
      BY <3>1
  <2>2. ASSUME NEW i \in 1 .. n
        PROVE  /\ results'[i].relay = Relays[i]
               /\ results'[i].accepted => holds'[Relays[i]] # {}
    <3>1. CASE i = n
      BY <1>1, <1>2, <1>7, <1>8, <3>1
    <3>2. CASE i # n
      <4>1. i \in 1 .. Len(results) /\ i \in 1 .. 3
        BY <1>2, <1>3, <1>8, <3>2
      <4>2. Relays[i] # r /\ Relays[i] \in RelayIDs
        BY <1>1, <1>3, <1>8, <3>2, <4>1, RelayNumbers
      <4>3. results'[i] = results[i] /\ holds'[Relays[i]] = holds[Relays[i]]
        BY <1>2, <1>7, <4>1, <4>2
      <4>4. QED
        BY <1>0, <4>1, <4>3 DEF DeliveryInv
    <3>3. QED
      BY <3>1, <3>2
  <2>3. \A q \in RelayIDs : holds'[q] # {} =>
          holds'[q] = {event'} /\ relay' = None /\ ValidateNostrText(content')
    BY <1>0, <1>1, <1>4, <1>7 DEF DeliveryInv
  <2>4. QED
    BY <1>2, <2>1, <2>2, <2>3 DEF DeliveryInv
<1>13. ReceiptInv'
  BY <1>0, <1>1, <1>2, <1>3, <1>8, <1>9 DEF ReceiptInv
<1>14. QED
  BY <1>10, <1>11, <1>12, <1>13 DEF NostrInv

(* Every step keeps the invariant. *)
LEMMA NextNostrInv == NostrInv /\ [Next]_vars => NostrInv'
<1> SUFFICES ASSUME NostrInv, [Next]_vars PROVE NostrInv'
  OBVIOUS
<1>1. ASSUME NEW k \in Identities, ChangeKey(k) PROVE NostrInv'
  <2>1. key' \in Identities /\ UNCHANGED <<pc, relay, content, want, event, results, state, holds>>
    BY <1>1 DEF ChangeKey
  <2>2. QED
    BY <2>1 DEF NostrInv, TypeOK, SigningInv, DeliveryInv, ReceiptInv, Requested
<1>2. ASSUME NEW r \in RelayIDs, NEW accepted \in BOOLEAN, NEW cd \in RelayCodes \cup {"unlisted"},
             PublishEvent(r, accepted, cd)
      PROVE  NostrInv'
  <2> DEFINE result == [relay |-> r, accepted |-> accepted, code |-> normalizeRelayCode(accepted, cd)]
  <2>1. normalizeRelayCode(accepted, cd) \in RelayCodes \cup {"ok"}
    BY <1>2 DEF normalizeRelayCode, RelayCodes
  <2>2. result \in RelayResults
    BY <2>1 DEF RelayResults
  <2>3. Delivers(r, result)
    BY <1>2, <2>2 DEF Delivers, PublishEvent
  <2>4. QED
    BY <2>3, DeliveryStep
<1>3. ASSUME NEW r \in RelayIDs, PublishLost(r) PROVE NostrInv'
  <2> DEFINE result == [relay |-> r, accepted |-> FALSE, code |-> "transport_error"]
  <2>1. result \in RelayResults /\ ~result.accepted /\ result.code = "transport_error"
    BY DEF RelayResults
  <2>2. Delivers(r, result)
    BY <1>3, <2>1 DEF Delivers, PublishLost
  <2>3. QED
    BY <2>2, DeliveryStep
<1>4. CASE UNCHANGED vars
  BY <1>4 DEF vars, NostrInv, TypeOK, SigningInv, DeliveryInv, ReceiptInv, Requested
<1>5. QED
  BY <1>1, <1>2, <1>3, <1>4, SigningSteps DEF Next

(* The inductive invariant holds in every state. *)
LEMMA NostrInvariance == Spec => []NostrInv
BY InitNostrInv, NextNostrInv, PTL DEF Spec

----------------------------------------------------------------------------
(* What the invariant says *)

(* The variables keep their types, and no relay is given a second try. *)
THEOREM NostrTypes == Spec => []TypeOK
<1>1. NostrInv => TypeOK
  BY DEF NostrInv
<1>2. QED
  BY <1>1, NostrInvariance, PTL

(* For any texts and identities, and whatever the signer returns: a call     *)
(* goes on only with the event it asked for under a well-formed identity,    *)
(* relays are sent the approved text alone, and an authentication event is   *)
(* bound to the relay that asked for it and is sent to none.                 *)
THEOREM OnlyWhatWasRequested == Spec => []SignedAsRequested
<1>1. NostrInv => SignedAsRequested
  BY DEF NostrInv, SigningInv, DeliveryInv, Requested, SignedAsRequested
<1>2. QED
  BY <1>1, NostrInvariance, PTL

(* A relay that fails, rejects or does not answer keeps the event from no    *)
(* other: after a signature there is a result for each, in order.            *)
THEOREM AllRelaysTried == Spec => []EveryRelayIsTried
<1>1. NostrInv => EveryRelayIsTried
  BY RelayNumbers DEF NostrInv, DeliveryInv, ReceiptInv, EveryRelayIsTried
<1>2. QED
  BY <1>1, NostrInvariance, PTL

(* The relays that acknowledged are among those that have the event. *)
LEMMA AcknowledgedHave ==
  ASSUME NostrInv, NEW having, having = {r \in RelayIDs : holds[r] = {event}}
  PROVE  /\ Cardinality(having) \in Nat /\ Acknowledged(results) \in Nat
         /\ Acknowledged(results) <= Cardinality(having)
         /\ \A i \in 1 .. Len(results) : results[i].accepted => results[i].relay \in having
<1> DEFINE acked == {i \in 1 .. Len(results) : results[i].accepted}
           f == [i \in acked |-> Relays[i]]
<1>1. Len(results) \in Nat /\ Len(results) <= 3
  BY RelayNumbers DEF NostrInv, TypeOK
<1>2. \A i \in acked : i \in 1 .. 3 /\ Relays[i] \in having
  BY <1>1, RelayNumbers DEF NostrInv, DeliveryInv
<1>3. f \in Injection(acked, having)
  <2>1. f \in [acked -> having]
    BY <1>2
  <2>2. IsInjective(f)
    BY <1>2, RelayNumbers DEF IsInjective
  <2>3. QED
    BY <2>1, <2>2 DEF Injection
<1>4. IsFiniteSet(having) /\ Cardinality(having) \in Nat
  <2>1. IsFiniteSet(RelayIDs)
    <3>1. Relays \in Surjection(1 .. 3, RelayIDs)
      BY RelayNumbers DEF Surjection
    <3>2. QED
      BY <3>1, ThreeNumbers, FS_Surjection
  <2>2. having \in SUBSET RelayIDs
    OBVIOUS
  <2>3. QED
    BY <2>1, <2>2, FS_Subset, FS_CardinalityType
<1>5. IsFiniteSet(acked) /\ Cardinality(acked) <= Cardinality(having)
  <2> HIDE DEF acked, f
  <2>1. QED
    BY <1>3, <1>4, FS_Injection
<1>6. Cardinality(acked) \in Nat
  BY <1>5, FS_CardinalityType
<1>7. \A i \in 1 .. Len(results) : results[i].accepted => results[i].relay \in having
  BY <1>2 DEF NostrInv, DeliveryInv
<1>8. QED
  BY <1>4, <1>5, <1>6, <1>7 DEF Acknowledged

(* COMPLETE and PARTIAL never overstate how many relays have the event that  *)
(* was signed, and every relay listed as accepting has it, for any texts,    *)
(* keys and relays, and whatever relays keep without acknowledging it.       *)
THEOREM ReceiptsAreHonest == Spec => []ReceiptNeverOverstates
<1>1. NostrInv => ReceiptNeverOverstates
  <2> SUFFICES ASSUME NostrInv PROVE ReceiptNeverOverstates
    OBVIOUS
  <2> DEFINE having == {r \in RelayIDs : holds[r] = {event}}
             claimed == CASE state = "COMPLETE" -> 2 [] state = "PARTIAL" -> 1 [] OTHER -> 0
  <2>1. /\ Cardinality(having) \in Nat /\ Acknowledged(results) \in Nat
        /\ Acknowledged(results) <= Cardinality(having)
        /\ \A i \in 1 .. Len(results) : results[i].accepted => results[i].relay \in having
    BY AcknowledgedHave
  <2>2. Len(results) = 3 => claimed <= Acknowledged(results)
    BY <2>1 DEF NostrInv, ReceiptInv, Quorum
  <2>3. Len(results) # 3 => claimed = 0
    BY DEF NostrInv, ReceiptInv
  <2>4. claimed \in {0, 1, 2}
    OBVIOUS
  <2> HIDE DEF having, claimed
  <2>5. claimed <= Cardinality(having)
    BY <2>1, <2>2, <2>3, <2>4
  <2>6. QED
    BY <2>1, <2>5 DEF having, claimed, ReceiptNeverOverstates
<1>2. QED
  BY <1>1, NostrInvariance, PTL

----------------------------------------------------------------------------
(* Texts *)

(* The text of a publication is a sequence of symbols. *)
LEMMA ContentIsText == TypeOK => content = None \/ content \in Seq(Symbols)
BY NostrAssumption DEF TypeOK

(* Whatever text Publish is given, NormalizeContent would change nothing in  *)
(* it but how its lines end, and both connectors would still take it.        *)
THEOREM TextsStayWhatTheyAre == Spec => []NormalizationIsFaithful
<1>1. TypeOK => NormalizationIsFaithful
  BY ContentIsText, NormalizationFaithful DEF NormalizationIsFaithful
<1>2. QED
  BY <1>1, NostrTypes, PTL

(* Whatever text Publish is given, XWeightedLength counts each of its URLs   *)
(* and each of its other characters once.                                    *)
THEOREM TextsAreWeighedOnce == Spec => []WeighsEverySymbolOnce
<1>1. TypeOK => WeighsEverySymbolOnce
  BY ContentIsText, EverySymbolWeighedOnce DEF WeighsEverySymbolOnce
<1>2. QED
  BY <1>1, NostrTypes, PTL
=============================================================================
