------------------------------- MODULE Nostr -------------------------------
(* The Nostr connector (internal/platform/nostr.go): Publish signs one event *)
(* with a remote signer and sends it to three relays in turn, and            *)
(* SignNIP42AuthEvent signs the answer to a relay's challenge.               *)
(*                                                                           *)
(* The connector keeps nothing between calls, so one call is modelled.  The  *)
(* signer and the relays are external.  The signer may change its identity   *)
(* between two requests, fail, or return any event; a relay may accept an    *)
(* event, answer anything else whether it keeps the event or not, or its     *)
(* answer may be lost.                                                       *)
EXTENDS Content

CONSTANTS
  Relays,         \* the endpoint IDs, in the order they are used
  Contents,       \* texts that may be given to Publish
  Identities,     \* public keys that the signer may report
  WellFormed,     \* those that are 32 bytes of lowercase hex
  None

RelayIDs == ToSet(Relays)

(* NewNostrConnector refuses every other configuration. *)
ASSUME NostrAssumption ==
  /\ Relays \in Seq(RelayIDs) /\ Len(Relays) = 3 /\ Cardinality(RelayIDs) = 3
  /\ None \notin RelayIDs \cup Contents
  /\ Contents \subseteq Seq(Symbols)
  /\ WellFormed \subseteq Identities

VARIABLES
  key,            \* signer: its identity now
  pc,
  relay,          \* of SignNIP42AuthEvent: who sent the challenge
  content,        \* of Publish: command.Content
  want,           \* the unsigned event
  event,          \* the event once it is signed
  results,        \* receipt.RelayResults
  state,          \* receipt.State
  holds           \* relays: the events that each of them has of this call

vars == <<key, pc, relay, content, want, event, results, state, holds>>

----------------------------------------------------------------------------
(* Data *)

(* The tags of an authentication event name the challenge and the relay; a   *)
(* text note has none.  time is CreatedAt: now, or another.                  *)
EventsOf(texts) ==
  [pubkey : Identities, kind : {1, 22242, 4}, tag : RelayIDs \cup {None},
   content : texts \cup {None}, time : {"now", "other"}]

TextNote(k, c) == [pubkey |-> k, kind |-> 1, tag |-> None, content |-> c, time |-> "now"]
RelayAuth(k, r) == [pubkey |-> k, kind |-> 22242, tag |-> r, content |-> None, time |-> "now"]

(* What the signer returns: the event, the one its ID is the hash of, and    *)
(* whether the signature is 64 bytes of lowercase hex.  None stands for any  *)
(* text but the one asked for.                                               *)
Returned ==
  LET events == EventsOf({content}) IN
  UNION {[event : {e}, id : {e, want}, sig : BOOLEAN] : e \in events}

PCs == {"idle", "key", "sign.key", "sign", "relay", "done"}

(* The codes that normalizeRelayCode lets through. *)
RelayCodes == {"rejected", "auth_required", "duplicate", "timeout", "protocol_error"}

RelayResults == [relay : RelayIDs, accepted : BOOLEAN,
                 code : RelayCodes \cup {"ok", "transport_error"}]

Init ==
  /\ key \in Identities
  /\ pc = "idle"
  /\ relay = None /\ content = None
  /\ want = None /\ event = None
  /\ results = <<>>
  /\ state = "FAILED"
  /\ holds = [r \in RelayIDs |-> {}]

(* The signer is paired with another key. *)
ChangeKey(k) ==
  /\ key # k
  /\ key' = k
  /\ UNCHANGED <<pc, relay, content, want, event, results, state, holds>>

----------------------------------------------------------------------------
(* Both calls ask the signer who it is and build the event; SignNostrEvent   *)
(* asks again, and then for the signature.  An error ends the call, and      *)
(* Publish returns the receipt as it is, FAILED.                             *)

Publish(t) ==
  /\ pc = "idle"
  /\ content' = t
  /\ pc' = IF ValidateNostrText(t) THEN "key" ELSE "done"
  /\ UNCHANGED <<key, relay, want, event, results, state, holds>>

(* valid: the challenge and the URL of the relay pass the checks. *)
SignNIP42AuthEvent(r, valid) ==
  /\ pc = "idle"
  /\ relay' = r
  /\ pc' = IF valid THEN "key" ELSE "done"
  /\ UNCHANGED <<key, content, want, event, results, state, holds>>

PublicKey ==
  /\ pc = "key"
  /\ \/ /\ want' = IF relay = None THEN TextNote(key, content) ELSE RelayAuth(key, relay)
        /\ pc' = "sign.key"
     \/ pc' = "done" /\ UNCHANGED want
  /\ UNCHANGED <<key, relay, content, event, results, state, holds>>

(* Only the two kinds are signed, for the identity that is still the         *)
(* signer's; and the signer may not be reached.                              *)
SignNostrEvent ==
  /\ pc = "sign.key"
  /\ \/ /\ want.kind \in {1, 22242}
        /\ key \in WellFormed /\ want.pubkey = key
        /\ pc' = "sign"
     \/ pc' = "done"
  /\ UNCHANGED <<key, relay, content, want, event, results, state, holds>>

validateSignedEnvelope_IgnoresTags(signed) ==
  /\ [signed.id EXCEPT !.tag = want.tag] = want
  /\ [signed.event EXCEPT !.tag = want.tag] = want
  /\ signed.sig

validateSignedEnvelope(signed) ==
  /\ signed.id = want
  /\ signed.event = want
  /\ signed.sig

(* Whatever the signer returns, or an error. *)
SignEvent ==
  /\ pc = "sign"
  /\ \/ \E signed \in Returned :
          /\ validateSignedEnvelope(signed)
          /\ event' = signed.event
          /\ pc' = IF relay = None THEN "relay" ELSE "done"
     \/ /\ \E signed \in Returned : ~validateSignedEnvelope(signed)
        /\ pc' = "done"
        /\ UNCHANGED event
  /\ UNCHANGED <<key, relay, content, want, results, state, holds>>

----------------------------------------------------------------------------
(* The relays *)

normalizeRelayCode_Passes(accepted, code) == IF accepted THEN "ok" ELSE code

normalizeRelayCode(accepted, code) ==
  CASE accepted -> "ok"
    [] code \in RelayCodes -> code
    [] OTHER -> "rejected"

Acknowledged(rs) == Cardinality({i \in 1 .. Len(rs) : rs[i].accepted})

Quorum_One(rs) ==
  CASE Acknowledged(rs) >= 1 -> "COMPLETE"
    [] OTHER -> "FAILED"

Quorum(rs) ==
  CASE Acknowledged(rs) >= 2 -> "COMPLETE"
    [] Acknowledged(rs) = 1 -> "PARTIAL"
    [] OTHER -> "FAILED"

(* One more result; with the last one the state is decided. *)
Recorded(result) ==
  /\ results' = Append(results, result)
  /\ IF Len(results') = Len(Relays)
       THEN /\ state' = Quorum(results')
            /\ pc' = "done"
       ELSE UNCHANGED <<state, pc>>

Sending(r) == pc = "relay" /\ r = Relays[Len(results) + 1]

Store(r) == holds' = [holds EXCEPT ![r] = @ \cup {event}]

(* The relay answers.  One that accepts has the event; one that does not may *)
(* have it all the same: it had it already (duplicate), took longer than the *)
(* publisher waits (timeout), or says otherwise than it does.                *)
PublishEvent(r, accepted, code) ==
  /\ Sending(r)
  /\ Store(r) \/ (~accepted /\ UNCHANGED holds)
  /\ Recorded([relay |-> r, accepted |-> accepted, code |-> normalizeRelayCode(accepted, code)])
  /\ UNCHANGED <<key, relay, content, want, event>>

(* No answer; the relay may have the event all the same. *)
PublishLost_Stops(r) ==
  /\ Sending(r)
  /\ Store(r) \/ UNCHANGED holds
  /\ results' = Append(results, [relay |-> r, accepted |-> FALSE, code |-> "transport_error"])
  /\ state' = Quorum(results')
  /\ pc' = "done"
  /\ UNCHANGED <<key, relay, content, want, event>>

PublishLost(r) ==
  /\ Sending(r)
  /\ Store(r) \/ UNCHANGED holds
  /\ Recorded([relay |-> r, accepted |-> FALSE, code |-> "transport_error"])
  /\ UNCHANGED <<key, relay, content, want, event>>

----------------------------------------------------------------------------
Next ==
  \/ \E k \in Identities : ChangeKey(k)
  \/ \E t \in Contents : Publish(t)
  \/ \E r \in RelayIDs, valid \in BOOLEAN : SignNIP42AuthEvent(r, valid)
  \/ PublicKey \/ SignNostrEvent \/ SignEvent
  \/ \E r \in RelayIDs, accepted \in BOOLEAN, code \in RelayCodes \cup {"unlisted"} :
       PublishEvent(r, accepted, code)
  \/ \E r \in RelayIDs : PublishLost(r)

Spec == Init /\ [][Next]_vars

----------------------------------------------------------------------------
(* Properties *)

(* The variables have their types; no relay is given a second try. *)
TypeOK ==
  /\ key \in Identities
  /\ pc \in PCs
  /\ relay \in RelayIDs \cup {None} /\ content \in Contents \cup {None}
  /\ {want, event} \subseteq EventsOf({content}) \cup {None}
  /\ results \in Seq(RelayResults) /\ Len(results) <= Len(Relays)
  /\ state \in {"FAILED", "PARTIAL", "COMPLETE"}
  /\ holds \in [RelayIDs -> SUBSET EventsOf({content})]

(* Whatever the signer returns, and whichever key it has by then, a call     *)
(* goes on only with the event it asked for, under one well-formed identity: *)
(* Publish with a note of exactly the approved text, which is all that any   *)
(* relay is sent, and SignNIP42AuthEvent with an answer to the relay that    *)
(* sent the challenge and to no other, which is never sent as a post         *)
(* (SignNostrEvent, validateSignedEnvelope).                                 *)
SignedAsRequested ==
  /\ event # None =>
       /\ event.pubkey \in WellFormed
       /\ event = IF relay = None THEN TextNote(event.pubkey, content)
                  ELSE RelayAuth(event.pubkey, relay)
  /\ \A r \in RelayIDs : holds[r] # {} =>
       holds[r] = {event} /\ relay = None /\ ValidateNostrText(content)

(* A receipt never overstates.  COMPLETE means that two relays have the very *)
(* event that was signed, PARTIAL that one has, and a relay listed as        *)
(* accepting is one of those that have it: no other relay's acknowledgement  *)
(* is put to its name and no second event to its place.  It may understate,  *)
(* down to FAILED: a relay that did not acknowledge the event may have it,   *)
(* and Publish knows no UNKNOWN.                                             *)
ReceiptNeverOverstates ==
  LET having == {r \in RelayIDs : holds[r] = {event}}
      claimed == CASE state = "COMPLETE" -> 2 [] state = "PARTIAL" -> 1 [] OTHER -> 0
  IN /\ claimed <= Cardinality(having)
     /\ \A i \in 1 .. Len(results) : results[i].accepted => results[i].relay \in having

(* One relay that fails does not keep the event from the others: when        *)
(* Publish returns after signing, each relay has its result, in order.       *)
EveryRelayIsTried ==
  pc = "done" /\ relay = None /\ event # None =>
    Len(results) = Len(Relays) /\ \A i \in 1 .. Len(results) : results[i].relay = Relays[i]

(* NormalizeContent changes a text in nothing but how its lines end: there   *)
(* are as many lines as before and the words between them are the same.      *)
(* Done again, as ApprovalHash does with the stored text, it changes         *)
(* nothing, and it neither makes a text acceptable nor spoils one: what      *)
(* either connector would have taken before, it takes after.                 *)
NormalizationIsFaithful ==
  content # None =>
    LET t == NewLines(content) IN
    /\ Cardinality(Breaks(t)) = Cardinality(Breaks(content))
    /\ Words(t) = Words(content)
    /\ NewLines(t) = t
    /\ Accepted(t) <=> Accepted(content)
    /\ ValidateXText(content) => ValidateXText(t)
    /\ ValidateNostrText(content) => ValidateNostrText(t)

(* The loop over the matches of xURLPattern gives every URL 23 and every     *)
(* other character its own weight, each of them once.                        *)
WeighsEverySymbolOnce == content # None => XWeightedLength(content) = WeightOf(content)
=============================================================================
