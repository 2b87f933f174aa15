------------------------------ MODULE MCNostr ------------------------------
(* Small instances of Nostr for TLC. *)
EXTENDS Nostr

CONSTANTS r1, r2, r3

MCRelays == <<r1, r2, r3>>

(* Every text of up to three symbols, and longer ones with several URLs. *)
Texts == BoundedSeq(Symbols, 3) \cup BoundedSeq({"sp", "a", "url"}, 5)
=============================================================================
