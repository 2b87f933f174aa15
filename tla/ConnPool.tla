------------------------------ MODULE ConnPool ------------------------------
(* The connection pool under internal/store: database/sql hands out at most  *)
(* MaxOpenConns connections, and a call that finds none waits for one.  A    *)
(* request runs its store calls one after another, with one connection each. *)
(* ListJobs alone needs two: its rows stay open, and keep their connection,  *)
(* while it calls ListReceipts for every job they return.                    *)
EXTENDS Naturals, FiniteSets

CONSTANTS
  Listers,        \* requests that list the jobs: dashboard and jobJSON
  Callers,        \* requests whose store calls need one connection each
  MaxOpenConns,   \* SetMaxOpenConns
  MaxRows         \* bound on the number of jobs a listing returns

Requests == Listers \cup Callers

ASSUME PoolAssumption ==
  /\ IsFiniteSet(Requests)
  /\ Listers \cap Callers = {}
  /\ MaxOpenConns \in Nat \ {0}
  /\ MaxRows \in Nat

VARIABLES
  pc,             \* what each request is doing: idle, want, stmt, rows or receipts
  rows,           \* the jobs that a listing has not yet looked at
  free            \* connections that the pool can hand out

vars == <<pc, rows, free>>

(* The connections a request holds. *)
Held(r) ==
  CASE pc[r] \in {"stmt", "rows"} -> 1
    [] pc[r] = "receipts" -> 2
    [] OTHER -> 0

Init ==
  /\ pc = [r \in Requests |-> "idle"]
  /\ rows = [r \in Requests |-> 0]
  /\ free = MaxOpenConns

----------------------------------------------------------------------------
(* DB.conn: a connection, or a place among the waiters. *)
Acquire == free > 0 /\ free' = free - 1
Release(n) == free' = free + n

Arrive(r) ==
  /\ pc[r] = "idle"
  /\ pc' = [pc EXCEPT ![r] = "want"]
  /\ UNCHANGED <<rows, free>>

(* ExecContext, QueryRowContext and the listings that do not nest. *)
Statement(r) ==
  /\ r \in Callers
  /\ pc[r] = "want"
  /\ Acquire
  /\ pc' = [pc EXCEPT ![r] = "stmt"]
  /\ UNCHANGED rows

StatementDone(r) ==
  /\ pc[r] = "stmt"
  /\ Release(1)
  /\ pc' = [pc EXCEPT ![r] = "idle"]
  /\ UNCHANGED rows

(* ListJobs: the outer query ... *)
ListJobs(r) ==
  /\ r \in Listers
  /\ pc[r] = "want"
  /\ Acquire
  /\ pc' = [pc EXCEPT ![r] = "rows"]
  /\ \E n \in 0 .. MaxRows : rows' = [rows EXCEPT ![r] = n]

(* ... for each row of it, ListReceipts ... *)
ListReceipts(r) ==
  /\ pc[r] = "rows"
  /\ rows[r] > 0
  /\ Acquire
  /\ pc' = [pc EXCEPT ![r] = "receipts"]
  /\ rows' = [rows EXCEPT ![r] = @ - 1]

(* (its deferred rows.Close) *)
ReceiptsDone_Leaks(r) ==
  /\ pc[r] = "receipts"
  /\ Release(0)
  /\ pc' = [pc EXCEPT ![r] = "rows"]
  /\ UNCHANGED rows

ReceiptsDone(r) ==
  /\ pc[r] = "receipts"
  /\ Release(1)
  /\ pc' = [pc EXCEPT ![r] = "rows"]
  /\ UNCHANGED rows

(* ... and at the end the deferred rows.Close. *)
ListDone(r) ==
  /\ pc[r] = "rows"
  /\ rows[r] = 0
  /\ Release(1)
  /\ pc' = [pc EXCEPT ![r] = "idle"]
  /\ UNCHANGED rows

(* The client disconnects, which cancels the request's context, or a         *)
(* statement fails: every Close on the way is deferred.                      *)
Cancel(r) ==
  /\ pc[r] # "idle"
  /\ Release(Held(r))
  /\ pc' = [pc EXCEPT ![r] = "idle"]
  /\ rows' = [rows EXCEPT ![r] = 0]

----------------------------------------------------------------------------
Next ==
  \E r \in Requests :
    \/ Arrive(r)
    \/ Statement(r)
    \/ StatementDone(r)
    \/ ListJobs(r)
    \/ ListReceipts(r)
    \/ ReceiptsDone(r)
    \/ ListDone(r)
    \/ Cancel(r)

(* Statements end, and a waiter that could be served again and again is: the *)
(* pool serves its waiters before newcomers.  Cancel is not fair: requests   *)
(* are to be served without anybody giving up.                               *)
Fairness ==
  \A r \in Requests :
    /\ WF_vars(StatementDone(r)) /\ WF_vars(ReceiptsDone(r)) /\ WF_vars(ListDone(r))
    /\ SF_vars(Statement(r)) /\ SF_vars(ListJobs(r)) /\ SF_vars(ListReceipts(r))

Spec == Init /\ [][Next]_vars /\ Fairness

----------------------------------------------------------------------------
(* Properties *)

(* Every request that uses the store comes to its end: a listing for all its *)
(* nested queries, and a single statement, an emergency stop for one,        *)
(* whatever listings run beside it.                                          *)
EveryCallEnds == \A r \in Requests : pc[r] # "idle" ~> pc[r] = "idle"

(* With fewer listings than connections nobody waits on everybody: if no     *)
(* connection is free, somebody holds one and needs no other to give it up.  *)
SomebodyReleases ==
  free = 0 => \E r \in Requests : \/ pc[r] \in {"stmt", "receipts"}
                                  \/ pc[r] = "rows" /\ rows[r] = 0
=============================================================================
