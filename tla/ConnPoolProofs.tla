--------------------------- MODULE ConnPoolProofs ---------------------------
(* Proofs about ConnPool for any number of requests, connections and rows:   *)
(* no connection is lost, and fewer listings than connections never wait on  *)
(* each other.  Both are by counting the requests that hold a connection and *)
(* those that hold a second one.                                             *)
EXTENDS ConnPool, FiniteSetTheorems, TLAPS

TypeOK ==
  /\ pc \in [Requests -> {"idle", "want", "stmt", "rows", "receipts"}]
  /\ rows \in [Requests -> Nat]
  /\ free \in Nat

(* Requests with a connection, and those of them with a second. *)
Using == {r \in Requests : pc[r] \in {"stmt", "rows", "receipts"}}
Nested == {r \in Requests : pc[r] = "receipts"}

(* Every connection is free or with a request; only listings keep rows open. *)
PoolInv ==
  /\ TypeOK
  /\ \A r \in Requests : pc[r] \in {"rows", "receipts"} => r \in Listers
  /\ free + Cardinality(Using) + Cardinality(Nested) = MaxOpenConns

(* The sets of requests that are counted are finite. *)
LEMMA UsingFinite ==
  /\ IsFiniteSet(Using) /\ Cardinality(Using) \in Nat
  /\ IsFiniteSet(Nested) /\ Cardinality(Nested) \in Nat
<1>1. Using \in SUBSET Requests /\ Nested \in SUBSET Requests
  BY DEF Using, Nested
<1>2. QED
  BY <1>1, PoolAssumption, FS_Subset, FS_CardinalityType

(* What happens to the counts when one request moves from a step to another. *)
LEMMA Counted ==
  ASSUME TypeOK, NEW r \in Requests,
         NEW to \in {"idle", "want", "stmt", "rows", "receipts"},
         pc' = [pc EXCEPT ![r] = to]
  PROVE  /\ Cardinality(Using') =
              Cardinality(Using)
                + (IF to \in {"stmt", "rows", "receipts"} THEN 1 ELSE 0)
                - (IF pc[r] \in {"stmt", "rows", "receipts"} THEN 1 ELSE 0)
         /\ Cardinality(Nested') =
              Cardinality(Nested)
                + (IF to = "receipts" THEN 1 ELSE 0) - (IF pc[r] = "receipts" THEN 1 ELSE 0)
<1>1. Using' = IF to \in {"stmt", "rows", "receipts"} THEN Using \cup {r} ELSE Using \ {r}
  BY DEF Using, TypeOK
<1>2. Nested' = IF to = "receipts" THEN Nested \cup {r} ELSE Nested \ {r}
  BY DEF Nested, TypeOK
<1>3. r \in Using <=> pc[r] \in {"stmt", "rows", "receipts"}
  BY DEF Using
<1>4. r \in Nested <=> pc[r] = "receipts"
  BY DEF Nested
<1>5. /\ Cardinality(Using \cup {r}) =
           IF r \in Using THEN Cardinality(Using) ELSE Cardinality(Using) + 1
      /\ Cardinality(Using \ {r}) =
           IF r \in Using THEN Cardinality(Using) - 1 ELSE Cardinality(Using)
  BY UsingFinite, FS_AddElement, FS_RemoveElement
<1>6. /\ Cardinality(Nested \cup {r}) =
           IF r \in Nested THEN Cardinality(Nested) ELSE Cardinality(Nested) + 1
      /\ Cardinality(Nested \ {r}) =
           IF r \in Nested THEN Cardinality(Nested) - 1 ELSE Cardinality(Nested)
  BY UsingFinite, FS_AddElement, FS_RemoveElement
<1>7. Cardinality(Using') =
        Cardinality(Using)
          + (IF to \in {"stmt", "rows", "receipts"} THEN 1 ELSE 0)
          - (IF pc[r] \in {"stmt", "rows", "receipts"} THEN 1 ELSE 0)
  BY <1>1, <1>3, <1>5, UsingFinite
<1>8. Cardinality(Nested') =
        Cardinality(Nested)
          + (IF to = "receipts" THEN 1 ELSE 0) - (IF pc[r] = "receipts" THEN 1 ELSE 0)
  BY <1>2, <1>4, <1>6, UsingFinite
<1>9. QED
  BY <1>7, <1>8

(* The pool starts with all its connections. *)
LEMMA InitPoolInv == Init => PoolInv
<1> SUFFICES ASSUME Init PROVE PoolInv
  OBVIOUS
<1>1. Using = {} /\ Nested = {}
  BY DEF Init, Using, Nested
<1>2. QED
  BY <1>1, PoolAssumption, FS_EmptySet DEF Init, PoolInv, TypeOK

(* A request goes to another step; how many connections each step holds. *)
Moves(r, to) == pc' = [pc EXCEPT ![r] = to]
Connections(at) == CASE at \in {"stmt", "rows"} -> 1 [] at = "receipts" -> 2 [] OTHER -> 0

(* One connection for a statement, two for a listing that reads receipts. *)
LEMMA ConnectionsAt ==
  /\ Connections("idle") = 0 /\ Connections("want") = 0
  /\ Connections("stmt") = 1 /\ Connections("rows") = 1 /\ Connections("receipts") = 2
BY DEF Connections

(* A step that moves one request and adjusts the free connections by what it *)
(* gives back and takes keeps the balance.                                   *)
LEMMA Balanced ==
  ASSUME PoolInv, NEW r \in Requests,
         NEW to \in {"idle", "want", "stmt", "rows", "receipts"},
         Moves(r, to),
         to \in {"rows", "receipts"} => r \in Listers,
         rows' \in [Requests -> Nat],
         free' \in Nat,
         free' = free + Connections(pc[r]) - Connections(to)
  PROVE  PoolInv'
<1>1. TypeOK'
  BY DEF Moves, PoolInv, TypeOK
<1>2. \A q \in Requests : pc'[q] \in {"rows", "receipts"} => q \in Listers
  BY DEF Moves, PoolInv, TypeOK
<1>3. /\ Connections(pc[r]) = (IF pc[r] \in {"stmt", "rows", "receipts"} THEN 1 ELSE 0)
                                + (IF pc[r] = "receipts" THEN 1 ELSE 0)
      /\ Connections(to) = (IF to \in {"stmt", "rows", "receipts"} THEN 1 ELSE 0)
                             + (IF to = "receipts" THEN 1 ELSE 0)
  BY DEF Connections, PoolInv, TypeOK
<1>4. TypeOK
  BY DEF PoolInv
<1>5. free' + Cardinality(Using') + Cardinality(Nested') = MaxOpenConns
  <2>1. free \in Nat /\ free + Cardinality(Using) + Cardinality(Nested) = MaxOpenConns
    BY DEF PoolInv, TypeOK
  <2>2. /\ Cardinality(Using') =
              Cardinality(Using)
                + (IF to \in {"stmt", "rows", "receipts"} THEN 1 ELSE 0)
                - (IF pc[r] \in {"stmt", "rows", "receipts"} THEN 1 ELSE 0)
        /\ Cardinality(Nested') =
              Cardinality(Nested)
                + (IF to = "receipts" THEN 1 ELSE 0) - (IF pc[r] = "receipts" THEN 1 ELSE 0)
    BY <1>4, Counted DEF Moves
  <2>3. QED
    BY <1>3, <2>1, <2>2, UsingFinite, PoolAssumption
<1>6. QED
  BY <1>1, <1>2, <1>5 DEF PoolInv

(* Every step takes and gives back what it says. *)
LEMMA NextPoolInv == PoolInv /\ [Next]_vars => PoolInv'
<1> SUFFICES ASSUME PoolInv, [Next]_vars PROVE PoolInv'
  OBVIOUS
<1>0. /\ free \in Nat /\ rows \in [Requests -> Nat]
      /\ \A r \in Requests : pc[r] \in {"rows", "receipts"} => r \in Listers
  BY DEF PoolInv, TypeOK
<1>1. ASSUME NEW r \in Requests, Arrive(r) PROVE PoolInv'
  <2>1. Moves(r, "want") /\ pc[r] = "idle" /\ UNCHANGED <<rows, free>>
    BY <1>1 DEF Arrive, Moves
  <2>2. QED
    BY <2>1, <1>0, ConnectionsAt, Balanced
<1>2. ASSUME NEW r \in Requests, Statement(r) PROVE PoolInv'
  <2>1. /\ Moves(r, "stmt") /\ pc[r] = "want"
        /\ free > 0 /\ free' = free - 1 /\ UNCHANGED rows
    BY <1>2 DEF Statement, Acquire, Moves
  <2>2. QED
    BY <2>1, <1>0, ConnectionsAt, Balanced
<1>3. ASSUME NEW r \in Requests, StatementDone(r) PROVE PoolInv'
  <2>1. Moves(r, "idle") /\ pc[r] = "stmt" /\ free' = free + 1 /\ UNCHANGED rows
    BY <1>3 DEF StatementDone, Release, Moves
  <2>2. QED
    BY <2>1, <1>0, ConnectionsAt, Balanced
<1>4. ASSUME NEW r \in Requests, ListJobs(r) PROVE PoolInv'
  <2>1. /\ Moves(r, "rows") /\ pc[r] = "want" /\ r \in Listers
        /\ free > 0 /\ free' = free - 1
    BY <1>4 DEF ListJobs, Acquire, Moves
  <2>2. rows' \in [Requests -> Nat]
    BY <1>4, PoolAssumption DEF ListJobs, PoolInv, TypeOK
  <2>3. QED
    BY <2>1, <2>2, <1>0, ConnectionsAt, Balanced
<1>5. ASSUME NEW r \in Requests, ListReceipts(r) PROVE PoolInv'
  <2>1. /\ Moves(r, "receipts") /\ pc[r] = "rows"
        /\ free > 0 /\ free' = free - 1
    BY <1>5 DEF ListReceipts, Acquire, Moves
  <2>2. rows' \in [Requests -> Nat]
    BY <1>5 DEF ListReceipts, PoolInv, TypeOK
  <2>3. QED
    BY <2>1, <2>2, <1>0, ConnectionsAt, Balanced
<1>6. ASSUME NEW r \in Requests, ReceiptsDone(r) PROVE PoolInv'
  <2>1. /\ Moves(r, "rows") /\ pc[r] = "receipts"
        /\ free' = free + 1 /\ UNCHANGED rows
    BY <1>6 DEF ReceiptsDone, Release, Moves
  <2>2. QED
    BY <2>1, <1>0, ConnectionsAt, Balanced
<1>7. ASSUME NEW r \in Requests, ListDone(r) PROVE PoolInv'
  <2>1. Moves(r, "idle") /\ pc[r] = "rows" /\ free' = free + 1 /\ UNCHANGED rows
    BY <1>7 DEF ListDone, Release, Moves
  <2>2. QED
    BY <2>1, <1>0, ConnectionsAt, Balanced
<1>8. ASSUME NEW r \in Requests, Cancel(r) PROVE PoolInv'
  <2>1. Moves(r, "idle") /\ free' = free + Held(r)
    BY <1>8 DEF Cancel, Release, Moves
  <2>2. Held(r) = Connections(pc[r]) /\ Held(r) \in Nat /\ Connections("idle") = 0
    BY DEF Held, Connections
  <2>3. rows' \in [Requests -> Nat]
    BY <1>8 DEF Cancel, PoolInv, TypeOK
  <2>4. QED
    BY <2>1, <2>2, <2>3, <1>0, Balanced
<1>9. ASSUME UNCHANGED vars PROVE PoolInv'
  BY <1>9 DEF vars, PoolInv, TypeOK, Using, Nested
<1>10. QED
  BY <1>1, <1>2, <1>3, <1>4, <1>5, <1>6, <1>7, <1>8, <1>9 DEF Next

(* No connection is lost and none handed out twice: those that are not free  *)
(* are with the requests that use them, two with a listing that reads        *)
(* receipts and one with any other, however requests are cancelled.          *)
THEOREM ConnectionsAreCounted == Spec => []PoolInv
BY InitPoolInv, NextPoolInv, PTL DEF Spec

(* As long as there are fewer listings than connections, whenever the pool   *)
(* is empty some request holds a connection and waits for no other: with all *)
(* connections taken by listings that wait for a second there would be as    *)
(* many listings as connections.                                             *)
THEOREM FewListingsNeverStarve ==
  ASSUME Cardinality(Listers) < MaxOpenConns
  PROVE  Spec => []SomebodyReleases
<1>1. PoolInv => SomebodyReleases
  <2> SUFFICES ASSUME PoolInv, free = 0,
                      \A r \in Requests : pc[r] \notin {"stmt", "receipts"}
               PROVE  FALSE
    BY DEF SomebodyReleases
  <2>1. Nested = {} /\ Using \in SUBSET Listers
    BY DEF PoolInv, Nested, Using
  <2>2. IsFiniteSet(Listers) /\ Cardinality(Listers) \in Nat
    BY PoolAssumption, FS_Subset, FS_CardinalityType DEF Requests
  <2>3. Cardinality(Using) <= Cardinality(Listers)
    BY <2>1, <2>2, FS_Subset
  <2>4. Cardinality(Using) = MaxOpenConns
    BY <2>1, FS_EmptySet, UsingFinite DEF PoolInv, TypeOK
  <2>5. QED
    BY <2>2, <2>3, <2>4, PoolAssumption
<1>2. QED
  BY <1>1, ConnectionsAreCounted, PTL
=============================================================================
