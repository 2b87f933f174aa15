----------------------------- MODULE JobsProofs -----------------------------
(* Proofs about Jobs for any number of jobs, of concurrent requests and of   *)
(* contents: type correctness, the safety invariants that the runs check on  *)
(* a small instance, and the implementation of Lifecycle.                    *)
EXTENDS Jobs, TLAPS

(* The job was approved: its row carries the hash, or is deleted by now. *)
Approved(j) == jobs[j].state # "NONE" /\ (jobs[j].hash # NoHash \/ jobs[j].state = "PURGED")

(* Where a request in flight stands.  A request that has passed Approve's    *)
(* checks holds the hash of the row it is about to approve, unless the       *)
(* content has been erased since; one about to write an audit record has     *)
(* made the change that it records.                                          *)
RequestOK(l) ==
  /\ l.pc \notin {"idle", "audit"} => l.job \in Jobs
  /\ l.pc = "audit" /\ l.kind \in Kinds => l.job \in Jobs
  /\ l.pc \in {"approve.open", "approve.store"} /\ l.hash # NoHash
       => <<l.job, l.hash>> \in consented
  /\ l.pc = "approve.store" =>
       /\ l.hash # NoHash
       /\ jobs[l.job].state # "NONE"
       /\ jobs[l.job].content # None => l.hash = RowHash(jobs[l.job])
  /\ l.pc = "worker" => l.from \notin {"NONE", "DRAFT"}
  /\ l.pc = "audit" /\ l.kind = "job.approved"
       => Approved(l.job)
  /\ l.pc = "audit" /\ l.kind = "job.cancelled"
       => jobs[l.job].state \in {"CANCELLED", "PURGED"}

RequestsOK == \A c \in Clients : RequestOK(client[c])

(* A job that may still be claimed has not been claimed yet. *)
Unclaimed ==
  \A j \in Jobs : jobs[j].state \in {"NONE", "DRAFT", "APPROVED"} => claims[j] = 0

IInv ==
  /\ TypeOK
  /\ RequestsOK
  /\ ApprovalIsExact
  /\ PayloadIsConsented
  /\ Unclaimed
  /\ ClaimedOnce
  /\ AuditIsTruthful
  /\ NoOrphanReceipt
  /\ StopDrains

----------------------------------------------------------------------------
(* Facts about the data *)

(* ApprovalHash returns the empty hash or the payload it covers. *)
LEMMA HashType ==
  ASSUME NEW row \in Rows, row.content # None
  PROVE  RowHash(row) \in Payloads \cup {NoHash}
BY JobsAssumption DEF RowHash, ApprovalHash, Rows, Payloads

(* The row that stands for an absent one is typed. *)
LEMMA NoRowType == \A st \in L!Status : NoRow(st) \in Rows
BY JobsAssumption DEF NoRow, Rows, L!Status

(* One UPDATE keeps the table typed and touches one row only. *)
LEMMA WriteRow ==
  ASSUME jobs \in [Jobs -> Rows], NEW j \in Jobs, NEW row \in Rows, Write(j, row)
  PROVE  /\ jobs' \in [Jobs -> Rows]
         /\ jobs'[j].state = row.state /\ jobs'[j].content = row.content
         /\ jobs'[j].hash = row.hash /\ jobs'[j].sched = row.sched
         /\ jobs'[j].x = row.x /\ jobs'[j].nostr = row.nostr
         /\ \A k \in Jobs \ {j} : jobs'[k] = jobs[k]
BY DEF Write, Rows

(* A step of one request leaves the locals of the others alone. *)
LEMMA GotoLocals ==
  ASSUME client \in [Clients -> Locals], NEW c \in Clients, NEW l \in Locals, Goto(c, l)
  PROVE  /\ client' \in [Clients -> Locals]
         /\ client'[c] = l
         /\ \A d \in Clients \ {c} : client'[d] = client[d]
BY DEF Goto

(* The locals of a request that has not begun are typed. *)
LEMMA IdleType == Idle \in Locals
BY DEF Idle, Locals, PCs, L!Status, Untracked

(* The initial state satisfies the invariant. *)
LEMMA InitIInv == Init => IInv
<1> SUFFICES ASSUME Init PROVE IInv
  OBVIOUS
<1>1. TypeOK
  <2>1. jobs \in [Jobs -> Rows]
    BY NoRowType DEF Init, L!Status
  <2>2. client \in [Clients -> Locals]
    BY IdleType DEF Init
  <2>3. sweep \in Sweeps
    BY DEF Init, Sweeps, Waiting
  <2>4. now \in 0 .. Horizon /\ claims \in [Jobs -> Nat]
    BY JobsAssumption DEF Init
  <2>5. receipts = {} /\ audit = {} /\ consented = {} /\ late = {} /\ stop = FALSE
    BY DEF Init
  <2>6. QED
    BY <2>1, <2>2, <2>3, <2>4, <2>5 DEF TypeOK
<1>2. QED
  BY <1>1 DEF Init, IInv, RequestsOK, RequestOK, Approved, Idle, ApprovalIsExact, PayloadIsConsented,
     Unclaimed, ClaimedOnce, AuditIsTruthful, NoOrphanReceipt, StopDrains, NoRow, L!States

----------------------------------------------------------------------------
(* What no step ever does to a row, and what follows from it *)

(* A job never becomes a draft again, a cancelled or purged one stays so, an *)
(* approved one keeps a hash until it is purged, and what is left of its     *)
(* payload does not change.                                                  *)
Evolves(j) ==
  /\ jobs[j].state # "NONE" =>
       /\ jobs'[j].state # "NONE"
       /\ jobs'[j].content # None => /\ jobs[j].content # None
                                     /\ RowHash(jobs'[j]) = RowHash(jobs[j])
  /\ jobs[j].state \notin {"NONE", "DRAFT"} => jobs'[j].state \notin {"NONE", "DRAFT"}
  /\ jobs[j].state \in {"CANCELLED", "PURGED"} => jobs'[j].state \in {"CANCELLED", "PURGED"}
  /\ Approved(j) => Approved(j)'

(* A row that no statement touches evolves legally. *)
LEMMA SameRowEvolves ==
  ASSUME NEW j \in Jobs, jobs'[j] = jobs[j]
  PROVE  Evolves(j)
BY DEF Evolves, Approved

(* A request that takes no step stays in order. *)
LEMMA OtherRequest ==
  ASSUME NEW c \in Clients, RequestOK(client[c]), client'[c] = client[c],
         consented \subseteq consented', \A j \in Jobs : Evolves(j)
  PROVE  RequestOK(client[c])'
BY DEF RequestOK, Approved, Evolves, Kinds

(* The audit facts survive a step that adds no record. *)
LEMMA SameAudit ==
  ASSUME AuditIsTruthful, audit' \subseteq audit, \A j \in Jobs : Evolves(j)
  PROVE  AuditIsTruthful'
BY DEF AuditIsTruthful, Evolves, Approved

(* When one request moves, and not to a payload, the others stay in order. *)
LEMMA OneMoves ==
  ASSUME IInv, NEW c \in Clients, RequestOK(client[c])', client'[c].pc # "payload",
         \A d \in Clients \ {c} : client'[d] = client[d],
         consented \subseteq consented', now' = now, \A j \in Jobs : Evolves(j)
  PROVE  RequestsOK' /\ PayloadIsConsented'
<1>1. RequestsOK'
  BY OtherRequest DEF IInv, RequestsOK
<1>2. PayloadIsConsented'
  BY DEF IInv, PayloadIsConsented
<1>3. QED
  BY <1>1, <1>2

(* When no request moves, all of them stay in order. *)
LEMMA NoneMoves ==
  ASSUME IInv, UNCHANGED <<client, consented, now>>, \A j \in Jobs : Evolves(j)
  PROVE  RequestsOK' /\ PayloadIsConsented'
<1>1. RequestsOK'
  BY OtherRequest DEF IInv, RequestsOK
<1>2. PayloadIsConsented'
  BY DEF IInv, PayloadIsConsented
<1>3. QED
  BY <1>1, <1>2

(* The invariant after a step of one request that writes no row. *)
LEMMA ReadStep ==
  ASSUME IInv, NEW c \in Clients, TypeOK',
         \A d \in Clients \ {c} : client'[d] = client[d],
         UNCHANGED <<jobs, receipts, claims, now>>, consented \subseteq consented',
         RequestOK(client[c])', AuditIsTruthful', StopDrains',
         client'[c].pc = "payload" =>
           <<client'[c].job, client'[c].hash>> \in consented' /\ client'[c].hash[4] <= now
  PROVE  IInv'
<1>1. \A j \in Jobs : Evolves(j)
  BY SameRowEvolves
<1>2. RequestsOK'
  BY <1>1, OtherRequest DEF IInv, RequestsOK
<1>3. PayloadIsConsented'
  BY DEF IInv, PayloadIsConsented
<1>4. ApprovalIsExact' /\ Unclaimed' /\ ClaimedOnce' /\ NoOrphanReceipt'
  BY DEF IInv, ApprovalIsExact, Unclaimed, ClaimedOnce, NoOrphanReceipt, Exists, RowHash
<1>5. QED
  BY <1>2, <1>3, <1>4 DEF IInv

(* The invariant after a step that writes the row of job j. *)
LEMMA WriteStep ==
  ASSUME IInv, NEW j \in Jobs, TypeOK', Evolves(j), Exists(j), Exists(j)',
         \A k \in Jobs \ {j} : jobs'[k] = jobs[k] /\ claims'[k] = claims[k],
         RequestsOK', PayloadIsConsented', StopDrains',
         UNCHANGED <<receipts, audit, consented>>,
         jobs'[j].state # "CANCELLED" /\ jobs'[j].state # "DRAFT" => jobs'[j].hash # NoHash,
         \/ jobs'[j].hash = jobs[j].hash
         \/ /\ <<j, jobs'[j].hash>> \in consented
            /\ jobs'[j].content # None => jobs'[j].hash = RowHash(jobs'[j]),
         jobs'[j].state \in {"DRAFT", "APPROVED"} => claims'[j] = 0,
         claims'[j] <= 1
  PROVE  IInv'
<1>1. AuditIsTruthful'
  BY SameRowEvolves, SameAudit DEF IInv
<1>2. ApprovalIsExact'
  <2> SUFFICES ASSUME NEW k \in Jobs
               PROVE  /\ jobs'[k].state \in L!States \ {"DRAFT", "CANCELLED"} => jobs'[k].hash # NoHash
                      /\ jobs'[k].hash # NoHash =>
                           /\ <<k, jobs'[k].hash>> \in consented'
                           /\ jobs'[k].content # None => jobs'[k].hash = RowHash(jobs'[k])
    BY DEF ApprovalIsExact, RowHash
  <2>1. CASE k = j
    BY <2>1 DEF IInv, ApprovalIsExact, Evolves, Approved, Exists, L!States
  <2>2. CASE k # j
    BY <2>2 DEF IInv, ApprovalIsExact
  <2>3. QED
    BY <2>1, <2>2
<1>3. Unclaimed' /\ ClaimedOnce' /\ NoOrphanReceipt'
  BY DEF IInv, TypeOK, Unclaimed, ClaimedOnce, NoOrphanReceipt, Exists, L!States
<1>4. QED
  BY <1>1, <1>2, <1>3 DEF IInv

----------------------------------------------------------------------------
(* One lemma per action *)

(* CreateDraft keeps the invariant: the id is fresh, so no record names it. *)
LEMMA CreateDraftStep ==
  ASSUME IInv, NEW c \in Clients, NEW j \in Jobs, NEW s \in Submissions, CreateDraft(c, j, s)
  PROVE  IInv'
<1> DEFINE row == [state |-> "DRAFT", content |-> Normalize[s.content], hash |-> NoHash,
                   x |-> s.x, nostr |-> s.nostr, sched |-> s.sched, old |-> FALSE]
<1>1. row \in Rows
  BY JobsAssumption DEF CreateDraft, Rows, L!Status, L!States
<1>2. /\ jobs' \in [Jobs -> Rows]
      /\ jobs'[j].state = "DRAFT" /\ jobs'[j].hash = NoHash
      /\ \A k \in Jobs \ {j} : jobs'[k] = jobs[k]
  <2>1. Write(j, row)
    BY DEF CreateDraft
  <2>2. row.state = "DRAFT" /\ row.hash = NoHash
    OBVIOUS
  <2> HIDE DEF row
  <2>3. QED
    BY <1>1, <2>1, <2>2, WriteRow DEF IInv, TypeOK
<1>3. TypeOK'
  BY <1>2 DEF IInv, TypeOK, CreateDraft, history
<1> HIDE DEF row
<1>4. \A k \in Jobs : Evolves(k)
  BY <1>2, SameRowEvolves DEF CreateDraft, Evolves, Approved
<1>5. RequestsOK' /\ AuditIsTruthful'
  BY <1>4, OtherRequest, SameAudit DEF IInv, CreateDraft, history, RequestsOK
<1>6. ApprovalIsExact' /\ Unclaimed'
  BY <1>2 DEF IInv, CreateDraft, history, ApprovalIsExact, Unclaimed, RowHash, L!States
<1>7. NoOrphanReceipt'
  BY <1>2 DEF IInv, TypeOK, CreateDraft, history, NoOrphanReceipt, Exists, L!States
<1>8. QED
  BY <1>3, <1>5, <1>6, <1>7
  DEF IInv, CreateDraft, history, PayloadIsConsented, ClaimedOnce, StopDrains

(* Approve, first statement: what the operator asks for is consented. *)
LEMMA ApproveBeginStep ==
  ASSUME IInv, NEW c \in Clients, NEW j \in Jobs, NEW h \in Expected, ApproveBegin(c, j, h)
  PROVE  IInv'
<1>1. h \in Payloads \cup {NoHash}
  BY JobsAssumption DEF Expected, ApprovalHash, Payloads
<1>2. /\ client' \in [Clients -> Locals]
      /\ client'[c].pc = "approve.open" /\ client'[c].job = j /\ client'[c].hash = h
      /\ \A d \in Clients \ {c} : client'[d] = client[d]
  BY <1>1 DEF IInv, TypeOK, ApproveBegin, Goto, Idle, Locals, PCs, Untracked, L!Status
<1>3. consented' = consented \cup ({j} \X ({h} \ {NoHash}))
  BY DEF ApproveBegin
<1>4. TypeOK'
  <2>1. consented' \subseteq Jobs \X Payloads
    BY <1>1, <1>3 DEF IInv, TypeOK
  <2>2. QED
    BY <1>2, <2>1 DEF IInv, TypeOK, ApproveBegin, store
<1>5. RequestOK(client[c])'
  BY <1>2, <1>3 DEF RequestOK, Approved
<1>6. AuditIsTruthful' /\ StopDrains'
  BY DEF IInv, ApproveBegin, store, AuditIsTruthful, StopDrains
<1>7. QED
  BY <1>2, <1>3, <1>4, <1>5, <1>6, ReadStep DEF ApproveBegin, store

(* Approve, second statement: the hash in hand is that of the row. *)
LEMMA ApproveOpenStep ==
  ASSUME IInv, NEW c \in Clients, ApproveOpen(c)
  PROVE  IInv'
<1>1. /\ client' \in [Clients -> Locals]
      /\ client'[c].pc = "approve.store" /\ client'[c].job = client[c].job
      /\ client'[c].hash = client[c].hash
      /\ \A d \in Clients \ {c} : client'[d] = client[d]
  BY DEF IInv, TypeOK, ApproveOpen, Goto, Locals, PCs
<1>2. TypeOK'
  BY <1>1 DEF IInv, TypeOK, ApproveOpen, store, history
<1>3. RequestOK(client[c])'
  <2>1. jobs' = jobs /\ consented' = consented
    BY DEF ApproveOpen, store, history
  <2>2. RequestOK(client[c]) /\ client[c].pc = "approve.open"
    BY DEF IInv, RequestsOK, ApproveOpen
  <2>3. /\ client[c].hash # NoHash
        /\ client[c].hash = RowHash(jobs[client[c].job])
        /\ jobs[client[c].job].state = "DRAFT"
    BY DEF ApproveOpen, Preview
  <2>4. QED
    BY <1>1, <2>1, <2>2, <2>3 DEF RequestOK, Approved
<1>4. AuditIsTruthful' /\ StopDrains'
  BY <1>1 DEF IInv, TypeOK, ApproveOpen, store, history, AuditIsTruthful, StopDrains
<1>5. QED
  BY <1>1, <1>2, <1>3, <1>4, ReadStep DEF ApproveOpen, store, history

(* A request that turns to its audit record has made the change it records. *)
LEMMA ApproveStoreStep ==
  ASSUME IInv, NEW c \in Clients, ApproveStore(c)
  PROVE  IInv'
<1>0. PICK j \in Jobs : j = client[c].job
  BY DEF IInv, RequestsOK, RequestOK, Approved, ApproveStore
<1> DEFINE row == [jobs[j] EXCEPT !.hash = client[c].hash, !.state = "APPROVED"]
<1>1. /\ client[c].hash \in Payloads /\ client[c].hash # NoHash
      /\ <<j, client[c].hash>> \in consented
      /\ jobs[j].content # None => client[c].hash = RowHash(jobs[j])
  BY <1>0 DEF IInv, TypeOK, RequestsOK, RequestOK, Approved, ApproveStore, Locals
<1>2. jobs \in [Jobs -> Rows] /\ jobs[j] \in Rows
  BY <1>1 DEF IInv, TypeOK
<1>3. /\ row \in Rows /\ row.state = "APPROVED" /\ row.hash = client[c].hash
      /\ row.content = jobs[j].content /\ RowHash(row) = RowHash(jobs[j])
  BY <1>1, <1>2 DEF Rows, RowHash, L!Status, L!States
<1>4. Write(j, row)
  BY <1>0 DEF ApproveStore, ApproveJob
<1> HIDE DEF row
<1>5. /\ jobs' \in [Jobs -> Rows]
      /\ jobs'[j].state = "APPROVED" /\ jobs'[j].hash = client[c].hash
      /\ jobs'[j].content = jobs[j].content /\ RowHash(jobs'[j]) = RowHash(jobs[j])
      /\ \A k \in Jobs \ {j} : jobs'[k] = jobs[k]
  BY <1>1, <1>2, <1>3, <1>4, WriteRow DEF RowHash
<1>6. jobs[j].state = "DRAFT"
  BY <1>0 DEF ApproveStore, ApproveJob
<1>7. Evolves(j) /\ Exists(j) /\ Exists(j)'
  BY <1>1, <1>5, <1>6 DEF Evolves, Approved, Exists, L!States
<1>8. /\ client' \in [Clients -> Locals]
      /\ client'[c].pc = "audit" /\ client'[c].job = j /\ client'[c].kind = "job.approved"
      /\ \A d \in Clients \ {c} : client'[d] = client[d]
  BY <1>0 DEF IInv, TypeOK, ApproveStore, Goto, Idle, Locals, PCs, Kinds, L!Status
<1>9. RequestOK(client[c])'
  BY <1>1, <1>5, <1>8 DEF RequestOK, Approved
<1>10. TypeOK'
  BY <1>5, <1>8 DEF IInv, TypeOK, ApproveStore
<1>11. StopDrains'
  BY <1>8 DEF IInv, TypeOK, ApproveStore, StopDrains
<1>12. claims' = claims /\ claims[j] = 0
  BY <1>1, <1>6 DEF IInv, Unclaimed, ApproveStore
<1>13. UNCHANGED <<receipts, audit, now, consented>>
  BY DEF ApproveStore
<1>14. RequestsOK' /\ PayloadIsConsented'
  BY <1>5, <1>7, <1>8, <1>9, <1>13, SameRowEvolves, OneMoves
<1>15. \A k \in Jobs \ {j} : jobs'[k] = jobs[k] /\ claims'[k] = claims[k]
  BY <1>5, <1>12
<1>16. /\ jobs'[j].hash # NoHash /\ <<j, jobs'[j].hash>> \in consented
       /\ jobs'[j].content # None => jobs'[j].hash = RowHash(jobs'[j])
       /\ claims'[j] = 0
  BY <1>1, <1>5, <1>12
<1>17. claims'[j] <= 1
  BY <1>16
<1>18. QED
  BY <1>7, <1>10, <1>11, <1>13, <1>14, <1>15, <1>16, <1>17, WriteStep

(* What TransitionJob does to a row that a dispatcher or a cancellation moves. *)
LEMMA TransitionRow ==
  ASSUME IInv, NEW j \in Jobs, NEW from, NEW to \in L!States, TransitionJob(j, from, to),
         from # "DRAFT" \/ to = "CANCELLED"
  PROVE  /\ jobs' \in [Jobs -> Rows]
         /\ jobs[j].state = from /\ jobs'[j].state = to
         /\ jobs'[j].hash = jobs[j].hash
         /\ \A k \in Jobs \ {j} : jobs'[k] = jobs[k]
         /\ Evolves(j) /\ Exists(j) /\ Exists(j)'
         /\ to \notin {"DRAFT", "APPROVED"}
         /\ to # "CANCELLED" => jobs'[j].hash # NoHash
<1> DEFINE row == [jobs[j] EXCEPT !.state = to]
<1>1. jobs \in [Jobs -> Rows] /\ jobs[j] \in Rows
  BY DEF IInv, TypeOK
<1>2. /\ row \in Rows /\ row.state = to /\ row.hash = jobs[j].hash
      /\ row.content = jobs[j].content /\ RowHash(row) = RowHash(jobs[j])
  BY <1>1 DEF Rows, RowHash, L!Status
<1>3. Write(j, row)
  BY DEF TransitionJob
<1> HIDE DEF row
<1>4. /\ jobs' \in [Jobs -> Rows]
      /\ jobs'[j].state = to /\ jobs'[j].hash = jobs[j].hash
      /\ jobs'[j].content = jobs[j].content /\ RowHash(jobs'[j]) = RowHash(jobs[j])
      /\ \A k \in Jobs \ {j} : jobs'[k] = jobs[k]
  BY <1>1, <1>2, <1>3, WriteRow DEF RowHash
<1>5. jobs[j].state = from /\ <<from, to>> \in L!Transitions
  BY DEF TransitionJob, L!CanTransition
<1>6. /\ from \in L!States \ {"COMPLETE", "CANCELLED"}
      /\ to # "DRAFT"
      /\ to = "APPROVED" => from = "DRAFT"
  BY <1>5 DEF L!Transitions, L!States
<1>7. Evolves(j) /\ Exists(j) /\ Exists(j)'
  BY <1>4, <1>5, <1>6 DEF Evolves, Approved, Exists, L!States
<1>8. to # "CANCELLED" => jobs[j].hash # NoHash
  BY <1>5, <1>6 DEF IInv, ApprovalIsExact
<1>9. QED
  BY <1>4, <1>5, <1>6, <1>7, <1>8

(* Cancel, second statement: only a job in the state read is cancelled. *)
LEMMA CancelStoreStep ==
  ASSUME IInv, NEW c \in Clients, CancelStore(c)
  PROVE  IInv'
<1>1. PICK j \in Jobs : j = client[c].job
  BY DEF IInv, RequestsOK, RequestOK, Approved, CancelStore
<1>2. /\ jobs' \in [Jobs -> Rows] /\ jobs'[j].state = "CANCELLED"
      /\ jobs'[j].hash = jobs[j].hash
      /\ \A k \in Jobs \ {j} : jobs'[k] = jobs[k]
      /\ Evolves(j) /\ Exists(j) /\ Exists(j)'
  BY <1>1, TransitionRow DEF CancelStore, L!States
<1>3. /\ client' \in [Clients -> Locals]
      /\ client'[c].pc = "audit" /\ client'[c].job = j /\ client'[c].kind = "job.cancelled"
      /\ \A d \in Clients \ {c} : client'[d] = client[d]
  BY <1>1 DEF IInv, TypeOK, CancelStore, Goto, Idle, Locals, PCs, Kinds, L!Status
<1>4. RequestOK(client[c])'
  BY <1>1, <1>2, <1>3 DEF RequestOK, Approved
<1>5. TypeOK'
  BY <1>2, <1>3 DEF IInv, TypeOK, CancelStore, history
<1>6. StopDrains'
  BY <1>3 DEF IInv, TypeOK, CancelStore, history, StopDrains
<1>7. UNCHANGED <<receipts, audit, now, consented, claims>>
  BY DEF CancelStore, history
<1>8. claims[j] <= 1
  BY <1>1 DEF IInv, ClaimedOnce
<1>9. RequestsOK' /\ PayloadIsConsented'
  BY <1>2, <1>3, <1>4, <1>7, SameRowEvolves, OneMoves
<1>10. QED
  BY <1>2, <1>5, <1>6, <1>7, <1>8, <1>9, WriteStep

(* A dispatcher claims a job: the compare-and-set lets one through. *)
LEMMA ClaimStep ==
  ASSUME IInv, NEW c \in Clients, Claim(c)
  PROVE  IInv'
<1>1. PICK j \in Jobs : j = client[c].job
  BY DEF IInv, RequestsOK, RequestOK, Approved, Claim
<1>2. /\ jobs' \in [Jobs -> Rows]
      /\ jobs[j].state = "APPROVED" /\ jobs'[j].state = "ROUTING"
      /\ jobs'[j].hash = jobs[j].hash /\ jobs'[j].hash # NoHash
      /\ \A k \in Jobs \ {j} : jobs'[k] = jobs[k]
      /\ Evolves(j) /\ Exists(j) /\ Exists(j)'
  BY <1>1, TransitionRow DEF Claim, L!States
<1>3. /\ client' \in [Clients -> Locals] /\ client'[c] = Idle
      /\ \A d \in Clients \ {c} : client'[d] = client[d]
  BY IdleType, GotoLocals DEF IInv, TypeOK, Claim
<1>4. RequestOK(client[c])' /\ client'[c].pc = "idle"
  BY <1>3 DEF RequestOK, Approved, Idle
<1>5. /\ claims' \in [Jobs -> Nat] /\ claims'[j] = 1
      /\ \A k \in Jobs \ {j} : claims'[k] = claims[k]
  BY <1>1, <1>2 DEF IInv, TypeOK, Unclaimed, Claim
<1>6. TypeOK'
  BY <1>2, <1>3, <1>5 DEF IInv, TypeOK, Claim
<1>7. StopDrains'
  BY <1>3, <1>4 DEF IInv, TypeOK, Claim, StopDrains
<1>8. UNCHANGED <<receipts, audit, now, consented>>
  BY DEF Claim
<1>9. RequestsOK' /\ PayloadIsConsented'
  BY <1>2, <1>3, <1>4, <1>8, SameRowEvolves, OneMoves
<1>10. claims'[j] <= 1
  BY <1>5
<1>11. QED
  BY <1>2, <1>5, <1>6, <1>7, <1>8, <1>9, <1>10, WriteStep

(* A dispatcher moves a claimed job on, never back to APPROVED. *)
LEMMA WorkerStoreStep ==
  ASSUME IInv, NEW c \in Clients, NEW to \in L!States, WorkerStore(c, to)
  PROVE  IInv'
<1>1. PICK j \in Jobs : j = client[c].job
  BY DEF IInv, RequestsOK, RequestOK, Approved, WorkerStore
<1>2. client[c].from # "DRAFT"
  BY DEF IInv, RequestsOK, RequestOK, Approved, WorkerStore
<1>3. /\ jobs' \in [Jobs -> Rows]
      /\ jobs'[j].state \notin {"DRAFT", "APPROVED"}
      /\ jobs'[j].state # "CANCELLED" => jobs'[j].hash # NoHash
      /\ jobs'[j].hash = jobs[j].hash
      /\ \A k \in Jobs \ {j} : jobs'[k] = jobs[k]
      /\ Evolves(j) /\ Exists(j) /\ Exists(j)'
  BY <1>1, <1>2, TransitionRow DEF WorkerStore
<1>4. /\ client' \in [Clients -> Locals] /\ client'[c] = Idle
      /\ \A d \in Clients \ {c} : client'[d] = client[d]
  BY IdleType, GotoLocals DEF IInv, TypeOK, WorkerStore
<1>5. RequestOK(client[c])' /\ client'[c].pc = "idle"
  BY <1>4 DEF RequestOK, Approved, Idle
<1>6. TypeOK'
  BY <1>3, <1>4 DEF IInv, TypeOK, WorkerStore, history
<1>7. StopDrains'
  BY <1>4, <1>5 DEF IInv, TypeOK, WorkerStore, history, StopDrains
<1>8. UNCHANGED <<receipts, audit, now, consented, claims>>
  BY DEF WorkerStore, history
<1>9. RequestsOK' /\ PayloadIsConsented'
  BY <1>3, <1>4, <1>5, <1>8, SameRowEvolves, OneMoves
<1>10. claims[j] <= 1
  BY DEF IInv, ClaimedOnce
<1>11. QED
  BY <1>3, <1>6, <1>7, <1>8, <1>9, <1>10, WriteStep

(* AddAudit records what its request did before. *)
LEMMA AddAuditStep ==
  ASSUME IInv, NEW c \in Clients, AddAudit(c)
  PROVE  IInv'
<1>1. /\ client' \in [Clients -> Locals] /\ client'[c] = Idle
      /\ \A d \in Clients \ {c} : client'[d] = client[d]
  BY IdleType, GotoLocals DEF IInv, TypeOK, AddAudit
<1>2. RequestOK(client[c])' /\ client'[c].pc = "idle"
  BY <1>1 DEF RequestOK, Approved, Idle
<1>3. UNCHANGED <<jobs, receipts, claims, now, consented>>
  BY DEF AddAudit, history
<1>4. audit' \subseteq Jobs \X Kinds /\ AuditIsTruthful'
  <2>1. CASE client[c].kind \in Kinds
    <3>1. PICK j \in Jobs : j = client[c].job
      BY <2>1 DEF IInv, RequestsOK, RequestOK, Approved, AddAudit
    <3>2. audit' = audit \cup {<<j, client[c].kind>>}
      BY <2>1, <3>1 DEF AddAudit
    <3>3. /\ client[c].kind = "job.approved" => Approved(j)
          /\ client[c].kind = "job.cancelled" => jobs[j].state \in {"CANCELLED", "PURGED"}
      BY <3>1 DEF IInv, RequestsOK, RequestOK, Approved, AddAudit
    <3>4. AuditIsTruthful'
      BY <1>3, <3>2, <3>3 DEF IInv, AuditIsTruthful, Approved
    <3>5. QED
      BY <2>1, <3>2, <3>4 DEF IInv, TypeOK
  <2>2. CASE client[c].kind \notin Kinds
    BY <1>3, <2>2 DEF IInv, TypeOK, AddAudit, AuditIsTruthful
  <2>3. QED
    BY <2>1, <2>2
<1>5. TypeOK'
  BY <1>1, <1>4 DEF IInv, TypeOK, AddAudit, history
<1>6. StopDrains'
  BY <1>1, <1>2 DEF IInv, TypeOK, AddAudit, history, StopDrains
<1>7. QED
  BY <1>1, <1>2, <1>3, <1>4, <1>5, <1>6, ReadStep

(* Cancel, first statement: it only reads. *)
LEMMA CancelBeginStep ==
  ASSUME IInv, NEW c \in Clients, NEW j \in Jobs, CancelBegin(c, j)
  PROVE  IInv'
<1>1. /\ client' \in [Clients -> Locals]
      /\ client'[c].pc = "cancel.store" /\ client'[c].job = j
      /\ \A d \in Clients \ {c} : client'[d] = client[d]
  BY DEF IInv, TypeOK, CancelBegin, Goto, Idle, Locals, PCs, Untracked, Exists, L!Status
<1>2. UNCHANGED <<jobs, receipts, audit, stop, sweep, claims, now, consented, late>>
  BY DEF CancelBegin, store, history
<1>3. TypeOK' /\ AuditIsTruthful' /\ StopDrains'
  BY <1>1, <1>2 DEF IInv, TypeOK, AuditIsTruthful, StopDrains
<1>4. RequestOK(client[c])'
  BY <1>1 DEF RequestOK, Approved
<1>5. QED
  BY <1>1, <1>2, <1>3, <1>4, ReadStep

(* Reconcile changes no job. *)
LEMMA ReconcileStep ==
  ASSUME IInv, NEW c \in Clients, NEW j \in Jobs, Reconcile(c, j)
  PROVE  IInv'
<1>1. /\ client' \in [Clients -> Locals]
      /\ client'[c].pc = "audit" /\ client'[c].kind = "job.reconcile.requested"
      /\ \A d \in Clients \ {c} : client'[d] = client[d]
  BY DEF IInv, TypeOK, Reconcile, Goto, Idle, Locals, PCs, Untracked, L!Status
<1>2. UNCHANGED <<jobs, receipts, audit, stop, sweep, claims, now, consented, late>>
  BY DEF Reconcile, store, history
<1>3. TypeOK' /\ AuditIsTruthful' /\ StopDrains'
  BY <1>1, <1>2 DEF IInv, TypeOK, AuditIsTruthful, StopDrains
<1>4. RequestOK(client[c])'
  BY <1>1 DEF RequestOK, Approved, Kinds
<1>5. QED
  BY <1>1, <1>2, <1>3, <1>4, ReadStep

(* EmergencyStop: nobody is late when a stop begins. *)
LEMMA EmergencyStopStep ==
  ASSUME IInv, NEW c \in Clients, NEW stopped \in BOOLEAN, EmergencyStop(c, stopped)
  PROVE  IInv'
<1>1. /\ client' \in [Clients -> Locals]
      /\ client'[c].pc = "audit" /\ client'[c].kind = "system.emergency_stop"
      /\ \A d \in Clients \ {c} : client'[d] = client[d]
  BY DEF IInv, TypeOK, EmergencyStop, Goto, Idle, Locals, PCs, Untracked, L!Status
<1>2. UNCHANGED <<jobs, receipts, audit, sweep, claims, now, consented>>
  BY DEF EmergencyStop
<1>3. stop' = stopped /\ late' = IF stop /\ stopped THEN late ELSE {}
  BY DEF EmergencyStop
<1>4. TypeOK' /\ AuditIsTruthful'
  BY <1>1, <1>2, <1>3 DEF IInv, TypeOK, AuditIsTruthful
<1>5. StopDrains'
  BY <1>1, <1>3 DEF IInv, TypeOK, StopDrains
<1>6. RequestOK(client[c])'
  BY <1>1 DEF RequestOK, Approved, Kinds
<1>7. QED
  BY <1>1, <1>2, <1>4, <1>5, <1>6, ReadStep

(* PayloadForDispatch, first statement: it only reads. *)
LEMMA DispatchBeginStep ==
  ASSUME IInv, NEW c \in Clients, NEW j \in Jobs, DispatchBegin(c, j)
  PROVE  IInv'
<1>1. /\ client' \in [Clients -> Locals]
      /\ client'[c].pc = "dispatch.open" /\ client'[c].job = j
      /\ \A d \in Clients \ {c} : client'[d] = client[d]
  BY DEF IInv, TypeOK, DispatchBegin, Goto, Idle, Locals, PCs, Untracked, L!Status
<1>2. UNCHANGED <<jobs, receipts, audit, stop, sweep, claims, now, consented, late>>
  BY DEF DispatchBegin, store, history
<1>3. TypeOK' /\ AuditIsTruthful' /\ StopDrains'
  BY <1>1, <1>2 DEF IInv, TypeOK, AuditIsTruthful, StopDrains
<1>4. RequestOK(client[c])'
  BY <1>1 DEF RequestOK, Approved
<1>5. QED
  BY <1>1, <1>2, <1>3, <1>4, ReadStep

(* The payload handed out is the one its approval covers: the row's hash was *)
(* consented to, and its last component is the schedule that has come.       *)
LEMMA DispatchOpenStep ==
  ASSUME IInv, NEW c \in Clients, DispatchOpen(c)
  PROVE  IInv'
<1>1. PICK j \in Jobs : j = client[c].job
  BY DEF IInv, RequestsOK, RequestOK, Approved, DispatchOpen
<1>2. /\ jobs[j] \in Rows /\ jobs[j].hash # NoHash
      /\ jobs[j].hash = RowHash(jobs[j]) /\ jobs[j].sched <= now
  BY <1>1 DEF IInv, TypeOK, DispatchOpen, Preview
<1>3. <<j, jobs[j].hash>> \in consented
  BY <1>2 DEF IInv, ApprovalIsExact
<1>4. jobs[j].hash[4] <= now
  BY <1>2 DEF RowHash, ApprovalHash
<1>5. /\ client' \in [Clients -> Locals]
      /\ client'[c].pc = "payload" /\ client'[c].job = j /\ client'[c].hash = jobs[j].hash
      /\ \A d \in Clients \ {c} : client'[d] = client[d]
  BY <1>1, <1>2 DEF IInv, TypeOK, DispatchOpen, Goto, Locals, PCs, Rows
<1>6. UNCHANGED <<jobs, receipts, audit, stop, sweep, claims, now, consented, late>>
  BY DEF DispatchOpen, store, history
<1>7. TypeOK' /\ AuditIsTruthful' /\ StopDrains'
  BY <1>5, <1>6 DEF IInv, TypeOK, AuditIsTruthful, StopDrains
<1>8. RequestOK(client[c])'
  BY <1>5 DEF RequestOK, Approved
<1>9. QED
  BY <1>3, <1>4, <1>5, <1>6, <1>7, <1>8, ReadStep

(* A dispatcher reads where a job is. *)
LEMMA WorkerReadStep ==
  ASSUME IInv, NEW c \in Clients, NEW j \in Jobs, WorkerRead(c, j)
  PROVE  IInv'
<1>1. /\ client' \in [Clients -> Locals]
      /\ client'[c].pc = "worker" /\ client'[c].job = j
      /\ client'[c].from \notin {"NONE", "DRAFT"}
      /\ \A d \in Clients \ {c} : client'[d] = client[d]
  BY DEF IInv, TypeOK, WorkerRead, Goto, Idle, Locals, PCs, Untracked, L!Status, L!States
<1>2. UNCHANGED <<jobs, receipts, audit, stop, sweep, claims, now, consented, late>>
  BY DEF WorkerRead, store, history
<1>3. TypeOK' /\ AuditIsTruthful' /\ StopDrains'
  BY <1>1, <1>2 DEF IInv, TypeOK, AuditIsTruthful, StopDrains
<1>4. RequestOK(client[c])'
  BY <1>1 DEF RequestOK, Approved
<1>5. QED
  BY <1>1, <1>2, <1>3, <1>4, ReadStep

(* A request that gives up between two statements breaks nothing. *)
LEMMA AbortStep ==
  ASSUME IInv, NEW c \in Clients, Abort(c)
  PROVE  IInv'
<1>1. /\ client' \in [Clients -> Locals] /\ client'[c] = Idle
      /\ \A d \in Clients \ {c} : client'[d] = client[d]
  BY IdleType, GotoLocals DEF IInv, TypeOK, Abort
<1>2. RequestOK(client[c])' /\ client'[c].pc = "idle"
  BY <1>1 DEF RequestOK, Approved, Idle
<1>3. UNCHANGED <<jobs, receipts, audit, stop, sweep, claims, now, consented, late>>
  BY DEF Abort, store, history
<1>4. TypeOK' /\ AuditIsTruthful' /\ StopDrains'
  BY <1>1, <1>2, <1>3 DEF IInv, TypeOK, AuditIsTruthful, StopDrains
<1>5. QED
  BY <1>1, <1>2, <1>3, <1>4, ReadStep

(* DestroyJobContent, SetLastNostrCountry and Age keep the state of the row. *)
LEMMA StoreCallStep ==
  ASSUME IInv, NEW j \in Jobs, StoreCall(j)
  PROVE  IInv'
<1>1. jobs \in [Jobs -> Rows] /\ jobs[j] \in Rows
  BY DEF IInv, TypeOK
<1>2. ASSUME /\ Exists(j)
             /\ jobs' \in [Jobs -> Rows]
             /\ \A k \in Jobs \ {j} : jobs'[k] = jobs[k]
             /\ jobs'[j].state = jobs[j].state /\ jobs'[j].hash = jobs[j].hash
             /\ jobs'[j].content # None => /\ jobs[j].content # None
                                           /\ RowHash(jobs'[j]) = RowHash(jobs[j])
             /\ UNCHANGED <<receipts, audit, stop, client, sweep, now, consented, claims, late>>
      PROVE  IInv'
  <2>1. Evolves(j) /\ Exists(j)'
    BY <1>2 DEF Evolves, Approved, Exists
  <2>2. TypeOK' /\ StopDrains'
    BY <1>2 DEF IInv, TypeOK, StopDrains
  <2>3. RequestsOK' /\ PayloadIsConsented'
    BY <1>2, <2>1, SameRowEvolves, NoneMoves
  <2>4. /\ jobs[j].state # "CANCELLED" /\ jobs[j].state # "DRAFT" => jobs[j].hash # NoHash
        /\ jobs[j].state \in {"DRAFT", "APPROVED"} => claims[j] = 0
        /\ claims[j] <= 1
    BY <1>2 DEF IInv, ApprovalIsExact, Unclaimed, ClaimedOnce, Exists
  <2>5. QED
    BY <1>2, <2>1, <2>2, <2>3, <2>4, WriteStep
<1>3. CASE DestroyJobContent(j)
  <2> DEFINE row == [jobs[j] EXCEPT !.content = None]
  <2>1. /\ row \in Rows /\ row.state = jobs[j].state /\ row.hash = jobs[j].hash
        /\ row.content = None
    BY <1>1 DEF Rows
  <2>2. Write(j, row) /\ Exists(j)
    BY <1>3 DEF DestroyJobContent
  <2> HIDE DEF row
  <2>3. /\ jobs' \in [Jobs -> Rows]
        /\ \A k \in Jobs \ {j} : jobs'[k] = jobs[k]
        /\ jobs'[j].state = jobs[j].state /\ jobs'[j].hash = jobs[j].hash
        /\ jobs'[j].content = None
    BY <1>1, <2>1, <2>2, WriteRow
  <2>4. QED
    BY <1>2, <1>3, <2>2, <2>3 DEF DestroyJobContent, history
<1>4. CASE SetLastNostrCountry(j)
  <2>1. /\ jobs' \in [Jobs -> Rows]
        /\ \A k \in Jobs \ {j} : jobs'[k] = jobs[k]
        /\ jobs'[j].state = jobs[j].state /\ jobs'[j].hash = jobs[j].hash
        /\ jobs'[j].content = jobs[j].content /\ RowHash(jobs'[j]) = RowHash(jobs[j])
    BY <1>1, <1>4, WriteRow DEF SetLastNostrCountry, RowHash
  <2>2. QED
    BY <1>2, <1>4, <2>1 DEF SetLastNostrCountry, history
<1>5. CASE AddReceipt(j)
  <2>1. UNCHANGED <<jobs, audit, stop, client, sweep, now, consented, claims, late>>
    BY <1>5 DEF AddReceipt, history
  <2>2. TypeOK' /\ NoOrphanReceipt'
    BY <1>5, <2>1 DEF IInv, TypeOK, NoOrphanReceipt, AddReceipt, Exists
  <2>3. RequestsOK' /\ PayloadIsConsented' /\ AuditIsTruthful'
    BY <2>1, SameRowEvolves, NoneMoves, SameAudit DEF IInv
  <2>4. ApprovalIsExact' /\ Unclaimed' /\ ClaimedOnce' /\ StopDrains'
    BY <2>1 DEF IInv, ApprovalIsExact, Unclaimed, ClaimedOnce, StopDrains, RowHash
  <2>5. QED
    BY <2>2, <2>3, <2>4 DEF IInv
<1>6. CASE Age(j)
  <2>1. /\ jobs' \in [Jobs -> Rows]
        /\ \A k \in Jobs \ {j} : jobs'[k] = jobs[k]
        /\ jobs'[j].state = jobs[j].state /\ jobs'[j].hash = jobs[j].hash
        /\ jobs'[j].content = jobs[j].content /\ RowHash(jobs'[j]) = RowHash(jobs[j])
    BY <1>1, <1>6 DEF Age, Rows, RowHash
  <2>2. QED
    BY <1>2, <1>6, <2>1 DEF Age, history
<1>7. QED
  BY <1>3, <1>4, <1>5, <1>6 DEF StoreCall

(* A sweep deletes whole rows, their receipts with them. *)
LEMMA PurgeStep ==
  ASSUME IInv, PurgeResolvedJobsBefore
  PROVE  IInv'
<1> DEFINE S == {j \in sweep.expired : jobs[j].old /\ jobs[j].state \in L!Resolved}
<1>1. PICK D \in SUBSET Jobs : D = S
  BY DEF IInv, TypeOK, Sweeps
<1>2. \A j \in D : jobs[j].state \in L!Resolved
  BY <1>1
<1>3. /\ jobs' = [j \in Jobs |-> IF j \in D THEN NoRow("PURGED") ELSE jobs[j]]
      /\ receipts' = receipts \ D
      /\ sweep' = Waiting
      /\ UNCHANGED <<audit, stop, client, now, consented, claims, late>>
  BY <1>1 DEF PurgeResolvedJobsBefore, Purge, history
<1>4. TypeOK'
  <2>1. jobs' \in [Jobs -> Rows]
    BY <1>3, NoRowType DEF IInv, TypeOK, L!Status
  <2>2. sweep' \in Sweeps
    BY <1>3 DEF Sweeps, Waiting
  <2>3. QED
    BY <1>3, <2>1, <2>2 DEF IInv, TypeOK
<1>5. \A j \in Jobs : Evolves(j)
  BY <1>2, <1>3 DEF Evolves, Approved, NoRow, L!Resolved
<1>6. RequestsOK' /\ PayloadIsConsented' /\ AuditIsTruthful'
  BY <1>3, <1>5, NoneMoves, SameAudit DEF IInv
<1>7. ApprovalIsExact'
  BY <1>3 DEF IInv, ApprovalIsExact, NoRow, RowHash, L!States
<1>8. Unclaimed' /\ ClaimedOnce' /\ StopDrains'
  BY <1>3 DEF IInv, Unclaimed, ClaimedOnce, StopDrains, NoRow
<1>9. NoOrphanReceipt'
  BY <1>3 DEF IInv, TypeOK, NoOrphanReceipt, Exists
<1>10. QED
  BY <1>4, <1>6, <1>7, <1>8, <1>9 DEF IInv

(* The steps of the retention loop that delete no job. *)
LEMMA SweepStep ==
  ASSUME IInv, SweepStart \/ PurgeAuditBefore \/ SweepFail
  PROVE  IInv'
<1>1. /\ UNCHANGED <<jobs, receipts, stop, client, now, consented, claims, late>>
      /\ audit' \subseteq audit
  BY DEF SweepStart, PurgeAuditBefore, SweepFail, store, history
<1>2. sweep' \in Sweeps
  BY DEF IInv, TypeOK, SweepStart, PurgeAuditBefore, SweepFail, Sweeps, Waiting
<1>3. TypeOK'
  BY <1>1, <1>2 DEF IInv, TypeOK
<1>4. RequestsOK' /\ PayloadIsConsented' /\ AuditIsTruthful'
  BY <1>1, SameRowEvolves, NoneMoves, SameAudit DEF IInv
<1>5. ApprovalIsExact' /\ Unclaimed' /\ ClaimedOnce' /\ NoOrphanReceipt' /\ StopDrains'
  BY <1>1 DEF IInv, ApprovalIsExact, Unclaimed, ClaimedOnce, NoOrphanReceipt, StopDrains,
     Exists, RowHash
<1>6. QED
  BY <1>3, <1>4, <1>5 DEF IInv

(* A crash ends every request and the sweep, and leaves the tables. *)
LEMMA CrashStep ==
  ASSUME IInv, Crash
  PROVE  IInv'
<1>1. /\ client' = [c \in Clients |-> Idle] /\ sweep' = Waiting
      /\ UNCHANGED <<jobs, receipts, audit, stop, now, consented, claims, late>>
  BY DEF Crash, store, history
<1>2. TypeOK'
  BY <1>1, IdleType DEF IInv, TypeOK, Sweeps, Waiting
<1>3. RequestsOK' /\ PayloadIsConsented'
  BY <1>1 DEF RequestsOK, RequestOK, Approved, PayloadIsConsented, Idle
<1>4. ApprovalIsExact' /\ Unclaimed' /\ ClaimedOnce' /\ NoOrphanReceipt' /\ AuditIsTruthful'
  BY <1>1 DEF IInv, ApprovalIsExact, Unclaimed, ClaimedOnce, NoOrphanReceipt, AuditIsTruthful,
     Exists, RowHash
<1>5. StopDrains'
  BY <1>1 DEF IInv, TypeOK, StopDrains, Idle
<1>6. QED
  BY <1>2, <1>3, <1>4, <1>5 DEF IInv

(* The clock only makes more schedules due. *)
LEMMA TickStep ==
  ASSUME IInv, Tick
  PROVE  IInv'
<1>1. /\ now \in 0 .. Horizon /\ now < Horizon /\ now' = now + 1
      /\ UNCHANGED <<jobs, receipts, audit, stop, client, sweep, consented, claims, late>>
  BY DEF IInv, TypeOK, Tick, store, history
<1>2. TypeOK'
  BY <1>1, JobsAssumption DEF IInv, TypeOK
<1>3. RequestsOK'
  BY <1>1, SameRowEvolves, OtherRequest DEF IInv, RequestsOK
<1>4. PayloadIsConsented'
  <2> SUFFICES ASSUME NEW c \in Clients, client[c].pc = "payload"
               PROVE  <<client[c].job, client[c].hash>> \in consented /\ client[c].hash[4] <= now'
    BY <1>1 DEF PayloadIsConsented
  <2>1. <<client[c].job, client[c].hash>> \in consented /\ client[c].hash[4] <= now
    BY DEF IInv, PayloadIsConsented
  <2>2. client[c].hash[4] \in 0 .. Horizon
    BY <2>1 DEF IInv, TypeOK, Payloads
  <2>3. QED
    BY <1>1, <2>1, <2>2, JobsAssumption
<1>5. ApprovalIsExact' /\ Unclaimed' /\ ClaimedOnce' /\ NoOrphanReceipt' /\ AuditIsTruthful'
      /\ StopDrains'
  BY <1>1 DEF IInv, ApprovalIsExact, Unclaimed, ClaimedOnce, NoOrphanReceipt, AuditIsTruthful,
     StopDrains, Exists, RowHash
<1>6. QED
  BY <1>2, <1>3, <1>4, <1>5 DEF IInv

(* A step that changes nothing. *)
LEMMA StutterStep ==
  ASSUME IInv, UNCHANGED vars
  PROVE  IInv'
<1>1. TypeOK' /\ RequestsOK'
  BY DEF IInv, TypeOK, RequestsOK, RequestOK, Approved, vars, RowHash
<1>2. QED
  BY <1>1 DEF IInv, vars, ApprovalIsExact, PayloadIsConsented, Unclaimed, ClaimedOnce,
     NoOrphanReceipt, AuditIsTruthful, StopDrains, Exists, RowHash

----------------------------------------------------------------------------
(* Every step of the specification preserves the invariant. *)
LEMMA NextIInv == IInv /\ [Next]_vars => IInv'
<1> SUFFICES ASSUME IInv, [Next]_vars PROVE IInv'
  OBVIOUS
<1>1. ASSUME NEW c \in Clients, Request(c) PROVE IInv'
  BY <1>1, CreateDraftStep, ApproveBeginStep, ApproveOpenStep, ApproveStoreStep,
     CancelBeginStep, CancelStoreStep, ReconcileStep, EmergencyStopStep, AddAuditStep,
     DispatchBeginStep, DispatchOpenStep, ClaimStep, WorkerReadStep, WorkerStoreStep, AbortStep
  DEF Request
<1>2. CASE Sweep
  BY <1>2, PurgeStep, SweepStep DEF Sweep
<1>3. QED
  BY <1>1, <1>2, StoreCallStep, CrashStep, TickStep, StutterStep DEF Next

(* The inductive invariant holds in every reachable state. *)
LEMMA Invariance == Spec => []IInv
<1>1. Init => IInv
  BY InitIInv
<1>2. IInv /\ [Next]_vars => IInv'
  BY NextIInv
<1>3. QED
  BY <1>1, <1>2, PTL DEF Spec

(* Rows, locals and histories keep their types, whatever requests, sweeps    *)
(* and crashes interleave.                                                   *)
THEOREM TypeCorrect == Spec => []TypeOK
<1>1. IInv => TypeOK
  BY DEF IInv
<1>2. QED
  BY <1>1, Invariance, PTL

(* Approve then ApproveJob: every job past DRAFT carries a hash an operator  *)
(* submitted for it, and that hash covers exactly the row.                   *)
THEOREM ApprovalSafety == Spec => []ApprovalIsExact
<1>1. IInv => ApprovalIsExact
  BY DEF IInv
<1>2. QED
  BY <1>1, Invariance, PTL

(* PayloadForDispatch releases consented, due payloads only. *)
THEOREM DispatchSafety == Spec => []PayloadIsConsented
<1>1. IInv => PayloadIsConsented
  BY DEF IInv
<1>2. QED
  BY <1>1, Invariance, PTL

(* TransitionJob's compare-and-set lets one dispatcher route a job, once. *)
THEOREM SingleClaim == Spec => []ClaimedOnce
<1>1. IInv => ClaimedOnce
  BY DEF IInv
<1>2. QED
  BY <1>1, Invariance, PTL

(* The audit trail records only approvals and cancellations that happened. *)
THEOREM AuditSafety == Spec => []AuditIsTruthful
<1>1. IInv => AuditIsTruthful
  BY DEF IInv
<1>2. QED
  BY <1>1, Invariance, PTL

(* The cascade of PurgeResolvedJobsBefore leaves no receipt without its job. *)
THEOREM ReceiptSafety == Spec => []NoOrphanReceipt
<1>1. IInv => NoOrphanReceipt
  BY DEF IInv
<1>2. QED
  BY <1>1, Invariance, PTL

(* During one emergency stop no request approves twice. *)
THEOREM StopSafety == Spec => []StopDrains
<1>1. IInv => StopDrains
  BY DEF IInv
<1>2. QED
  BY <1>1, Invariance, PTL

----------------------------------------------------------------------------
(* The store implements the lifecycle *)

(* A step that changes no row is a stuttering step of Lifecycle. *)
LEMMA SameStatus ==
  ASSUME \A j \in Jobs : jobs'[j].state = jobs[j].state
  PROVE  status' = status
BY DEF status

(* A write that moves job j along the table is a Move of the lifecycle. *)
LEMMA OneMove ==
  ASSUME NEW j \in Jobs, NEW to \in L!States, L!CanTransition(jobs[j].state, to),
         jobs'[j].state = to, \A k \in Jobs \ {j} : jobs'[k] = jobs[k]
  PROVE  L!Next
<1>1. status[j] = jobs[j].state
  BY DEF status
<1>2. status' = [status EXCEPT ![j] = to]
  BY DEF status
<1>3. L!Move(j, to)
  BY <1>1, <1>2 DEF L!Move
<1>4. QED
  BY <1>3 DEF L!Next

(* TransitionJob is a move along the table `transitions`. *)
LEMMA TransitionMoves ==
  ASSUME IInv, NEW j \in Jobs, NEW from, NEW to \in L!States, TransitionJob(j, from, to)
  PROVE  L!Next
<1>1. jobs[j].state = from /\ L!CanTransition(from, to)
  BY DEF TransitionJob
<1>2. jobs'[j].state = to /\ \A k \in Jobs \ {j} : jobs'[k] = jobs[k]
  BY DEF IInv, TypeOK, Rows, TransitionJob, Write
<1>3. QED
  BY <1>1, <1>2, OneMove

(* Every step of a request is a step of Lifecycle, or a stutter. *)
LEMMA RequestImplements ==
  ASSUME IInv, NEW c \in Clients, Request(c)
  PROVE  L!Next \/ status' = status
<1>1. ASSUME NEW j \in Jobs, NEW s \in Submissions, CreateDraft(c, j, s) PROVE L!Next
  <2>1. jobs[j].state = "NONE" /\ jobs'[j].state = "DRAFT"
    BY <1>1 DEF CreateDraft, Write, IInv, TypeOK
  <2>2. \A k \in Jobs \ {j} : jobs'[k] = jobs[k]
    BY <1>1 DEF CreateDraft, Write, IInv, TypeOK
  <2>3. status[j] = "NONE" /\ status' = [status EXCEPT ![j] = "DRAFT"]
    BY <2>1, <2>2 DEF status
  <2>4. QED
    BY <2>3 DEF L!Next, L!Create
<1>2. ASSUME ApproveStore(c) PROVE L!Next
  <2>1. PICK j \in Jobs : j = client[c].job
    BY <1>2 DEF IInv, RequestsOK, RequestOK, Approved, ApproveStore
  <2>2. /\ jobs[j].state = "DRAFT" /\ jobs'[j].state = "APPROVED"
        /\ \A k \in Jobs \ {j} : jobs'[k] = jobs[k]
    BY <1>2, <2>1 DEF IInv, TypeOK, Rows, ApproveStore, ApproveJob, Write
  <2>3. L!CanTransition("DRAFT", "APPROVED") /\ "APPROVED" \in L!States
    BY DEF L!CanTransition, L!Transitions, L!States
  <2>4. QED
    BY <2>2, <2>3, OneMove
<1>3. ASSUME CancelStore(c) PROVE L!Next
  BY <1>3, TransitionMoves DEF IInv, RequestsOK, RequestOK, Approved, CancelStore, L!States
<1>4. ASSUME Claim(c) PROVE L!Next
  BY <1>4, TransitionMoves DEF IInv, RequestsOK, RequestOK, Approved, Claim, L!States
<1>5. ASSUME NEW to \in L!States, WorkerStore(c, to) PROVE L!Next
  BY <1>5, TransitionMoves DEF IInv, RequestsOK, RequestOK, Approved, WorkerStore
<1>6. ASSUME jobs' = jobs PROVE status' = status
  BY <1>6, SameStatus
<1>7. QED
  BY <1>1, <1>2, <1>3, <1>4, <1>5, <1>6
  DEF Request, ApproveBegin, ApproveOpen, CancelBegin, Reconcile, EmergencyStop, AddAudit,
      DispatchBegin, DispatchOpen, WorkerRead, Abort, store

(* The other store operations leave the state of every job alone. *)
LEMMA StoreCallKeepsState ==
  ASSUME IInv, NEW j \in Jobs, StoreCall(j)
  PROVE  \A k \in Jobs : jobs'[k].state = jobs[k].state
<1>1. jobs \in [Jobs -> Rows]
  BY DEF IInv, TypeOK
<1>2. CASE DestroyJobContent(j)
  BY <1>1, <1>2 DEF DestroyJobContent, Write, Rows
<1>3. CASE SetLastNostrCountry(j)
  BY <1>1, <1>3 DEF SetLastNostrCountry, Write, Rows
<1>4. CASE AddReceipt(j)
  BY <1>4 DEF AddReceipt
<1>5. CASE Age(j)
  BY <1>1, <1>5 DEF Age, Rows
<1>6. QED
  BY <1>2, <1>3, <1>4, <1>5 DEF StoreCall

(* A sweep deletes resolved jobs only, as Lifecycle's Purge does. *)
LEMMA SweepImplements ==
  ASSUME IInv, Sweep
  PROVE  L!Next \/ status' = status
<1>1. CASE PurgeResolvedJobsBefore
  <2> DEFINE S == {j \in sweep.expired : jobs[j].old /\ jobs[j].state \in L!Resolved}
  <2>1. PICK D \in SUBSET Jobs : D = S
    BY DEF IInv, TypeOK, Sweeps
  <2>2. \A j \in D : status[j] \in L!Resolved
    BY <2>1 DEF status
  <2>3. jobs' = [j \in Jobs |-> IF j \in D THEN NoRow("PURGED") ELSE jobs[j]]
    BY <1>1, <2>1 DEF PurgeResolvedJobsBefore, Purge
  <2>4. status' = [j \in Jobs |-> IF j \in D THEN "PURGED" ELSE status[j]]
    BY <2>3 DEF status, NoRow
  <2>5. L!Purge(D)
    BY <2>2, <2>4 DEF L!Purge
  <2>6. QED
    BY <2>5 DEF L!Next
<1>2. CASE SweepStart \/ PurgeAuditBefore \/ SweepFail
  BY <1>2, SameStatus DEF SweepStart, PurgeAuditBefore, SweepFail, store
<1>3. QED
  BY <1>1, <1>2 DEF Sweep

(* ApproveJob, TransitionJob and PurgeResolvedJobsBefore keep every job on   *)
(* the paths of the table `transitions`, on stale reads too.                 *)
THEOREM LifecycleRefinement == Spec => ImplementsLifecycle
<1>1. Init => L!Init
  BY DEF Init, L!Init, status, NoRow
<1>2. IInv /\ [Next]_vars => [L!Next]_status
  <2> SUFFICES ASSUME IInv, [Next]_vars PROVE L!Next \/ status' = status
    OBVIOUS
  <2>1. CASE Crash \/ Tick \/ UNCHANGED vars
    BY <2>1, SameStatus DEF Crash, Tick, vars, store
  <2>2. QED
    BY <2>1, RequestImplements, StoreCallKeepsState, SameStatus, SweepImplements DEF Next
<1>3. QED
  BY <1>1, <1>2, Invariance, PTL DEF Spec, ImplementsLifecycle, L!Spec

(* ApproveJob's content_destroyed=0: erased content is never approved. *)
THEOREM ApprovalNotBlind == Spec => NoBlindApproval
<1>1. IInv /\ [Next]_vars =>
        [\A j \in Jobs : jobs[j].state = "DRAFT" /\ jobs'[j].state = "APPROVED"
                          => jobs[j].content # None]_vars
  <2> SUFFICES ASSUME IInv, Next, NEW j \in Jobs,
                      jobs[j].state = "DRAFT", jobs'[j].state = "APPROVED"
               PROVE  jobs[j].content # None
    OBVIOUS
  <2>1. \A c \in Clients : client[c].pc = "worker" => client[c].from # "DRAFT"
    BY DEF IInv, RequestsOK, RequestOK, Approved
  <2>2. ASSUME NEW c \in Clients, Request(c) PROVE jobs[j].content # None
    <3>1. CASE ApproveStore(c)
      BY <3>1 DEF IInv, TypeOK, Rows, ApproveStore, ApproveJob, Write
    <3>2. ASSUME NEW k \in Jobs, NEW s \in Submissions, CreateDraft(c, k, s) PROVE FALSE
      BY <3>2 DEF CreateDraft, Write, IInv, TypeOK
    <3>3. ASSUME NEW from, NEW to, TransitionJob(client[c].job, from, to),
                 from # "DRAFT" \/ to = "CANCELLED"
          PROVE  FALSE
      BY <3>3 DEF TransitionJob, Write, IInv, TypeOK, Rows
    <3>4. QED
      BY <2>1, <2>2, <3>1, <3>2, <3>3
      DEF Request, ApproveBegin, ApproveOpen, CancelBegin, CancelStore, Reconcile,
          EmergencyStop, AddAudit, DispatchBegin, DispatchOpen, Claim, WorkerRead,
          WorkerStore, Abort, store
  <2>3. ASSUME NEW k \in Jobs, StoreCall(k) PROVE FALSE
    BY <2>3, StoreCallKeepsState
  <2>4. ASSUME Sweep \/ Crash \/ Tick PROVE FALSE
    BY <2>4 DEF Sweep, SweepStart, PurgeAuditBefore, PurgeResolvedJobsBefore, Purge, NoRow,
       SweepFail, Crash, Tick, store
  <2>5. QED
    BY <2>2, <2>3, <2>4 DEF Next
<1>2. QED
  BY <1>1, Invariance, PTL DEF Spec, NoBlindApproval
=============================================================================
