-------------------------------- MODULE Jobs --------------------------------
(* The control plane's job service (internal/app/service.go) over the SQLite *)
(* store (internal/store/sqlite.go), with the retention loop of cmd/ivpn.    *)
(*                                                                           *)
(* Requests run concurrently and the store keeps no transaction across       *)
(* statements, so every SQL statement is one atomic step and a request keeps *)
(* what it read in locals until its next statement.  A request ends early on *)
(* a failed check, a failed statement, a cancelled context or a crash: all   *)
(* of these are Abort, which is possible between any two statements.         *)
(*                                                                           *)
(* The dispatcher is not in the repository.  It is modelled as one more      *)
(* caller of PayloadForDispatch and of the store's exported operations, in   *)
(* the order the store's tests call them.                                    *)
EXTENDS Naturals, FiniteSets

CONSTANTS
  Jobs,          \* ids that randomID may return
  Clients,       \* requests and dispatchers that may be in flight together
  Inputs,        \* strings an operator may type
  Contents,      \* the ones that NormalizeContent accepts and leaves alone
  Normalize,     \* what NormalizeContent returns for each input
  Submissions,   \* the CreateDraftInput values operators submit
  Horizon,       \* the instant by which every schedule is due; the clock stops there
  None           \* an SQL NULL, an absent value

(* NormalizeContent turns \r\n and \r into \n and changes nothing else, so   *)
(* normalizing twice is normalizing once.  A schedule of 0 stands for a      *)
(* draft with no schedule.                                                   *)
ASSUME JobsAssumption ==
  /\ Horizon \in Nat
  /\ None \notin Contents
  /\ Contents \subseteq Inputs
  /\ Normalize \in [Inputs -> Contents \cup {None}]
  /\ \A c \in Contents : Normalize[c] = c
  /\ Submissions \subseteq [content : Inputs, x : BOOLEAN, nostr : BOOLEAN,
                            sched : 0 .. Horizon]

VARIABLES
  jobs,          \* table jobs, one row per id
  receipts,      \* table receipts: the jobs that have one
  audit,         \* table audit_events: the <<job, kind>> pairs it holds
  stop,          \* table system_state, column emergency_stop
  client,        \* the locals of each request in flight
  sweep,         \* the locals of the retention loop
  now,           \* the wall clock, in units of the schedules
  consented,     \* history: the <<job, hash>> pairs operators asked to approve
  claims,        \* history: how often each job went from APPROVED to ROUTING
  late           \* history: requests that approved during the present stop

vars == <<jobs, receipts, audit, stop, client, sweep, now, consented, claims, late>>

status == [j \in Jobs |-> jobs[j].state]
L == INSTANCE Lifecycle

----------------------------------------------------------------------------
(* Data *)

(* SHA-256 over the canonical JSON is taken to be injective, so a hash is the *)
(* tuple of what it covers.  The empty hash is the empty string of the code: *)
(* the payload_hash of a row never approved, and the result of an error.     *)
NoHash == <<>>

Payloads == Contents \X BOOLEAN \X BOOLEAN \X (0 .. Horizon)

ApprovalHash(content, x, nostr, sched) ==
  IF ~(x \/ nostr) \/ Normalize[content] = None
    THEN NoHash
    ELSE <<Normalize[content], x, nostr, sched>>

(* A row: content None is encrypted_content NULL with content_destroyed set; *)
(* old says that updated_at is older than the seven days of retention.       *)
Rows == [state : L!Status, content : Contents \cup {None}, hash : Payloads \cup {NoHash},
         x : BOOLEAN, nostr : BOOLEAN, sched : 0 .. Horizon, old : BOOLEAN]

NoRow(st) == [state |-> st, content |-> None, hash |-> NoHash, x |-> FALSE,
              nostr |-> FALSE, sched |-> 0, old |-> FALSE]

Exists(j) == jobs[j].state \in L!States

RowHash(row) == ApprovalHash(row.content, row.x, row.nostr, row.sched)

(* The audit kinds some property tells apart; events of the others leave no  *)
(* trace in the model.                                                       *)
Kinds == {"job.approved", "job.cancelled"}
Untracked == {"job.reconcile.requested", "system.emergency_stop", "none"}

PCs == {"idle", "approve.open", "approve.store", "cancel.store",
        "dispatch.open", "payload", "worker", "audit"}

Locals == [pc : PCs, job : Jobs \cup {None}, hash : Payloads \cup {NoHash},
           from : L!Status, kind : Kinds \cup Untracked]

Idle == [pc |-> "idle", job |-> None, hash |-> NoHash, from |-> "NONE", kind |-> "none"]

Sweeps == [pc : {"waiting", "audit", "jobs"}, expired : SUBSET Jobs]

Waiting == [pc |-> "waiting", expired |-> {}]

----------------------------------------------------------------------------
Init ==
  /\ jobs = [j \in Jobs |-> NoRow("NONE")]
  /\ receipts = {}
  /\ audit = {}
  /\ stop = FALSE
  /\ client = [c \in Clients |-> Idle]
  /\ sweep = Waiting
  /\ now = 0
  /\ consented = {}
  /\ claims = [j \in Jobs |-> 0]
  /\ late = {}

store == <<jobs, receipts, audit, stop>>
history == <<consented, claims, late>>

Goto(c, l) == client' = [client EXCEPT ![c] = l]

(* One UPDATE of job j's row: every one of them also sets updated_at. *)
Write(j, row) == jobs' = [jobs EXCEPT ![j] = [row EXCEPT !.old = FALSE]]

----------------------------------------------------------------------------
(* Store operations: one SQL statement each *)

(* ApproveJob and TransitionJob update nothing, and return ErrNotFound, when *)
(* the row is no longer in the state the caller read.                        *)
ApproveJob_AnyContent(j, hash) ==
  /\ jobs[j].state = "DRAFT"
  /\ Write(j, [jobs[j] EXCEPT !.hash = hash, !.state = "APPROVED"])

ApproveJob(j, hash) ==
  /\ jobs[j].state = "DRAFT"
  /\ jobs[j].content # None
  /\ Write(j, [jobs[j] EXCEPT !.hash = hash, !.state = "APPROVED"])

TransitionJob_NoCompare(j, from, to) ==
  /\ Exists(j)
  /\ L!CanTransition(from, to)
  /\ Write(j, [jobs[j] EXCEPT !.state = to])

TransitionJob(j, from, to) ==
  /\ L!CanTransition(from, to)
  /\ jobs[j].state = from
  /\ Write(j, [jobs[j] EXCEPT !.state = to])

(* No code of the repository outside the tests calls the next three. *)
DestroyJobContent(j) ==
  /\ Exists(j)
  /\ jobs[j].content # None
  /\ Write(j, [jobs[j] EXCEPT !.content = None])
  /\ UNCHANGED <<receipts, audit, stop, client, sweep, now, history>>

(* The country itself is read by no operation of this module. *)
SetLastNostrCountry(j) ==
  /\ Exists(j)
  /\ Write(j, jobs[j])
  /\ UNCHANGED <<receipts, audit, stop, client, sweep, now, history>>

AddReceipt_NoForeignKey(j) ==
  /\ receipts' = receipts \cup {j}
  /\ UNCHANGED <<jobs, audit, stop, client, sweep, now, history>>

AddReceipt(j) ==
  /\ Exists(j)
  /\ receipts' = receipts \cup {j}
  /\ UNCHANGED <<jobs, audit, stop, client, sweep, now, history>>

----------------------------------------------------------------------------
(* Service operations *)

(* CreateDraft: the id is fresh, the content is stored normalized.  The      *)
(* audit record of a draft is best effort and of no kind tracked here.       *)
CreateDraft_Raw(c, j, input) ==
  /\ client[c].pc = "idle"
  /\ jobs[j].state = "NONE"
  /\ Normalize[input.content] # None
  /\ input.x \/ input.nostr
  /\ Write(j, [state |-> "DRAFT", content |-> input.content, hash |-> NoHash,
               x |-> input.x, nostr |-> input.nostr, sched |-> input.sched, old |-> FALSE])
  /\ UNCHANGED <<receipts, audit, stop, client, sweep, now, history>>

CreateDraft(c, j, input) ==
  /\ client[c].pc = "idle"
  /\ jobs[j].state = "NONE"
  /\ Normalize[input.content] # None
  /\ input.x \/ input.nostr
  /\ Write(j, [state |-> "DRAFT", content |-> Normalize[input.content], hash |-> NoHash,
               x |-> input.x, nostr |-> input.nostr, sched |-> input.sched, old |-> FALSE])
  /\ UNCHANGED <<receipts, audit, stop, client, sweep, now, history>>

(* Preview of job j opens its content; h is the hash it shows the operator. *)
Preview(j, h) ==
  /\ Exists(j)
  /\ jobs[j].content # None
  /\ h = RowHash(jobs[j])
  /\ h # NoHash

(* Approve, first statement: SELECT ... FROM system_state. *)
ApproveBegin_IgnoreStop(c, j, expected) ==
  /\ client[c].pc = "idle"
  /\ Goto(c, [Idle EXCEPT !.pc = "approve.open", !.job = j, !.hash = expected])
  /\ consented' = consented \cup ({j} \X ({expected} \ {NoHash}))
  /\ UNCHANGED <<store, sweep, now, claims, late>>

ApproveBegin(c, j, expected) ==
  /\ client[c].pc = "idle"
  /\ ~stop
  /\ Goto(c, [Idle EXCEPT !.pc = "approve.open", !.job = j, !.hash = expected])
  /\ consented' = consented \cup ({j} \X ({expected} \ {NoHash}))
  /\ UNCHANGED <<store, sweep, now, claims, late>>

(* Second statement: Preview's SELECT and the checks on what it returned. *)
ApproveOpen_AnyHash(c) ==
  /\ client[c].pc = "approve.open"
  /\ \E h \in Payloads :
       /\ Preview(client[c].job, h)
       /\ jobs[client[c].job].state = "DRAFT"
       /\ Goto(c, [client[c] EXCEPT !.pc = "approve.store", !.hash = h])
  /\ UNCHANGED <<store, sweep, now, history>>

ApproveOpen(c) ==
  /\ client[c].pc = "approve.open"
  /\ Preview(client[c].job, client[c].hash)
  /\ jobs[client[c].job].state = "DRAFT"
  /\ Goto(c, [client[c] EXCEPT !.pc = "approve.store"])
  /\ UNCHANGED <<store, sweep, now, history>>

(* Third statement: the compare-and-set UPDATE. *)
ApproveStore_AuditAnyway(c) ==
  /\ client[c].pc = "approve.store"
  /\ ApproveJob(client[c].job, client[c].hash) \/ UNCHANGED jobs
  /\ Goto(c, [Idle EXCEPT !.pc = "audit", !.job = client[c].job, !.kind = "job.approved"])
  /\ UNCHANGED <<receipts, audit, stop, sweep, now, history>>

ApproveStore(c) ==
  /\ client[c].pc = "approve.store"
  /\ ApproveJob(client[c].job, client[c].hash)
  /\ Goto(c, [Idle EXCEPT !.pc = "audit", !.job = client[c].job, !.kind = "job.approved"])
  /\ late' = IF stop THEN late \cup {c} ELSE late
  /\ UNCHANGED <<receipts, audit, stop, sweep, now, consented, claims>>

(* The audit record that ends Approve, Cancel, Reconcile and EmergencyStop. *)
AddAudit(c) ==
  /\ client[c].pc = "audit"
  /\ audit' = IF client[c].kind \in Kinds
               THEN audit \cup {<<client[c].job, client[c].kind>>} ELSE audit
  /\ Goto(c, Idle)
  /\ UNCHANGED <<jobs, receipts, stop, sweep, now, history>>

(* Cancel reads the state it then asks to leave. *)
CancelBegin(c, j) ==
  /\ client[c].pc = "idle"
  /\ Exists(j)
  /\ L!CanTransition(jobs[j].state, "CANCELLED")
  /\ Goto(c, [Idle EXCEPT !.pc = "cancel.store", !.job = j, !.from = jobs[j].state])
  /\ UNCHANGED <<store, sweep, now, history>>

CancelStore(c) ==
  /\ client[c].pc = "cancel.store"
  /\ TransitionJob(client[c].job, client[c].from, "CANCELLED")
  /\ Goto(c, [Idle EXCEPT !.pc = "audit", !.job = client[c].job, !.kind = "job.cancelled"])
  /\ UNCHANGED <<receipts, audit, stop, sweep, now, history>>

(* Reconcile only records that the operator asked for it. *)
Reconcile(c, j) ==
  /\ client[c].pc = "idle"
  /\ jobs[j].state \in {"UNKNOWN", "PARTIAL"}
  /\ Goto(c, [Idle EXCEPT !.pc = "audit", !.job = j, !.kind = "job.reconcile.requested"])
  /\ UNCHANGED <<store, sweep, now, history>>

EmergencyStop(c, stopped) ==
  /\ client[c].pc = "idle"
  /\ stop' = stopped
  /\ late' = IF stop /\ stopped THEN late ELSE {}
  /\ Goto(c, [Idle EXCEPT !.pc = "audit", !.kind = "system.emergency_stop"])
  /\ UNCHANGED <<jobs, receipts, audit, sweep, now, consented, claims>>

(* PayloadForDispatch, first statement: SELECT ... FROM system_state. *)
DispatchBegin(c, j) ==
  /\ client[c].pc = "idle"
  /\ ~stop
  /\ Goto(c, [Idle EXCEPT !.pc = "dispatch.open", !.job = j])
  /\ UNCHANGED <<store, sweep, now, history>>

(* Second statement: the job, re-opened.  The caller is handed the payload   *)
(* that the hash stands for.                                                 *)
DispatchOpen_AnyTime(c) ==
  /\ client[c].pc = "dispatch.open"
  /\ LET row == jobs[client[c].job] IN
       /\ Preview(client[c].job, row.hash)
       /\ row.state = "APPROVED"
       /\ Goto(c, [client[c] EXCEPT !.pc = "payload", !.hash = row.hash])
  /\ UNCHANGED <<store, sweep, now, history>>

DispatchOpen(c) ==
  /\ client[c].pc = "dispatch.open"
  /\ LET row == jobs[client[c].job] IN
       /\ Preview(client[c].job, row.hash)
       /\ row.state = "APPROVED"
       /\ row.sched <= now
       /\ Goto(c, [client[c] EXCEPT !.pc = "payload", !.hash = row.hash])
  /\ UNCHANGED <<store, sweep, now, history>>

----------------------------------------------------------------------------
(* The external dispatcher *)

(* It routes a job only with the payload in hand ... *)
Claim(c) ==
  /\ client[c].pc = "payload"
  /\ TransitionJob(client[c].job, "APPROVED", "ROUTING")
  /\ claims' = [claims EXCEPT ![client[c].job] = @ + 1]
  /\ Goto(c, Idle)
  /\ UNCHANGED <<receipts, audit, stop, sweep, now, consented, late>>

(* ... and later reads where the job is and moves it on. *)
WorkerRead(c, j) ==
  /\ client[c].pc = "idle"
  /\ jobs[j].state \in {"ROUTING", "PUBLISHING", "PARTIAL", "FAILED", "UNKNOWN"}
  /\ Goto(c, [Idle EXCEPT !.pc = "worker", !.job = j, !.from = jobs[j].state])
  /\ UNCHANGED <<store, sweep, now, history>>

WorkerStore(c, to) ==
  /\ client[c].pc = "worker"
  /\ TransitionJob(client[c].job, client[c].from, to)
  /\ Goto(c, Idle)
  /\ UNCHANGED <<receipts, audit, stop, sweep, now, history>>

----------------------------------------------------------------------------
(* The retention loop: the cutoff is taken once, then two DELETEs.  The      *)
(* first failing skips the second (`continue`) until the next day's tick.    *)
SweepStart ==
  /\ sweep.pc = "waiting"
  /\ sweep' = [pc |-> "audit", expired |-> {j \in Jobs : Exists(j) /\ jobs[j].old}]
  /\ UNCHANGED <<store, client, now, history>>

(* Which audit events are past the cutoff is left open. *)
PurgeAuditBefore ==
  /\ sweep.pc = "audit"
  /\ \E S \in SUBSET audit : audit' = audit \ S
  /\ sweep' = [sweep EXCEPT !.pc = "jobs"]
  /\ UNCHANGED <<jobs, receipts, stop, client, now, history>>

Purge(S) ==
  /\ jobs' = [j \in Jobs |-> IF j \in S THEN NoRow("PURGED") ELSE jobs[j]]
  /\ receipts' = receipts \ S
  /\ sweep' = Waiting
  /\ UNCHANGED <<audit, stop, client, now, history>>

PurgeResolvedJobsBefore_SkipFailed ==
  /\ sweep.pc = "jobs"
  /\ Purge({j \in sweep.expired : jobs[j].old /\ jobs[j].state \in {"COMPLETE", "CANCELLED"}})

PurgeResolvedJobsBefore ==
  /\ sweep.pc = "jobs"
  /\ Purge({j \in sweep.expired : jobs[j].old /\ jobs[j].state \in L!Resolved})

SweepFail ==
  /\ sweep.pc # "waiting"
  /\ sweep' = Waiting
  /\ UNCHANGED <<store, client, now, history>>

----------------------------------------------------------------------------
(* Failures and time *)

Abort(c) ==
  /\ client[c].pc # "idle"
  /\ Goto(c, Idle)
  /\ UNCHANGED <<store, sweep, now, history>>

(* Only the database survives; the process starts again at once. *)
Crash ==
  /\ client' = [c \in Clients |-> Idle]
  /\ sweep' = Waiting
  /\ UNCHANGED <<store, now, history>>

Age(j) ==
  /\ Exists(j)
  /\ ~jobs[j].old
  /\ jobs' = [jobs EXCEPT ![j].old = TRUE]
  /\ UNCHANGED <<receipts, audit, stop, client, sweep, now, history>>

Tick ==
  /\ now < Horizon
  /\ now' = now + 1
  /\ UNCHANGED <<store, client, sweep, history>>

----------------------------------------------------------------------------
(* An operator may submit any hash, that of another draft included. *)
Expected == {ApprovalHash(s.content, s.x, s.nostr, s.sched) : s \in Submissions}

Request(c) ==
  \/ \E j \in Jobs, s \in Submissions : CreateDraft(c, j, s)
  \/ \E j \in Jobs, h \in Expected : ApproveBegin(c, j, h)
  \/ ApproveOpen(c)
  \/ ApproveStore(c)
  \/ \E j \in Jobs : CancelBegin(c, j)
  \/ CancelStore(c)
  \/ \E j \in Jobs : Reconcile(c, j)
  \/ \E stopped \in BOOLEAN : EmergencyStop(c, stopped)
  \/ AddAudit(c)
  \/ \E j \in Jobs : DispatchBegin(c, j)
  \/ DispatchOpen(c)
  \/ Claim(c)
  \/ \E j \in Jobs : WorkerRead(c, j)
  \/ \E to \in L!States : WorkerStore(c, to)
  \/ Abort(c)

StoreCall(j) ==
  \/ DestroyJobContent(j)
  \/ SetLastNostrCountry(j)
  \/ AddReceipt(j)
  \/ Age(j)

Sweep ==
  \/ SweepStart
  \/ PurgeAuditBefore
  \/ PurgeResolvedJobsBefore
  \/ SweepFail

Next ==
  \/ \E c \in Clients : Request(c)
  \/ \E j \in Jobs : StoreCall(j)
  \/ Sweep
  \/ Crash
  \/ Tick

(* Time passes, the process stays up for the day its ticker needs again and  *)
(* again, and the retention statements do not fail every time.               *)
Fairness ==
  /\ \A j \in Jobs : WF_vars(Age(j))
  /\ WF_vars(SweepStart)
  /\ SF_vars(PurgeAuditBefore)
  /\ SF_vars(PurgeResolvedJobsBefore)

Spec == Init /\ [][Next]_vars /\ Fairness

----------------------------------------------------------------------------
(* Properties *)

(* Every variable has its type: rows, locals and histories as the schema and *)
(* the Go structs declare them.                                              *)
TypeOK ==
  /\ jobs \in [Jobs -> Rows]
  /\ receipts \subseteq Jobs
  /\ audit \subseteq (Jobs \X Kinds)
  /\ stop \in BOOLEAN
  /\ client \in [Clients -> Locals]
  /\ sweep \in Sweeps
  /\ now \in 0 .. Horizon
  /\ consented \subseteq (Jobs \X Payloads)
  /\ claims \in [Jobs -> Nat]
  /\ late \subseteq Clients

(* Approval is exact (ApproveJob after Preview): a job past DRAFT carries a  *)
(* hash that an operator submitted for this very job, and as long as its     *)
(* content is kept that hash covers exactly the content, the destinations    *)
(* and the schedule of the row.  Only a cancelled draft has no hash.         *)
ApprovalIsExact ==
  \A j \in Jobs :
    /\ jobs[j].state \in L!States \ {"DRAFT", "CANCELLED"} => jobs[j].hash # NoHash
    /\ jobs[j].hash # NoHash =>
         /\ <<j, jobs[j].hash>> \in consented
         /\ jobs[j].content # None => jobs[j].hash = RowHash(jobs[j])

(* PayloadForDispatch hands out only what an operator consented to for that  *)
(* job, and only once its schedule has come, whatever happened to the job    *)
(* between the request's statements.                                         *)
PayloadIsConsented ==
  \A c \in Clients : client[c].pc = "payload" =>
    /\ <<client[c].job, client[c].hash>> \in consented
    /\ client[c].hash[4] <= now

(* Of all the dispatchers that hold the payload of a job, at most one ever   *)
(* gets it from APPROVED to ROUTING (TransitionJob's WHERE state=?).         *)
ClaimedOnce == \A j \in Jobs : claims[j] <= 1

(* The audit trail never says what did not happen.  The job of an approval   *)
(* record carries its approval hash, as long as there is a row: the record   *)
(* is not one of an Approve that a Cancel of the same draft overtook.  The   *)
(* job of a cancellation record is CANCELLED for good.                       *)
AuditIsTruthful ==
  \A j \in Jobs :
    /\ <<j, "job.approved">> \in audit =>
         jobs[j].state # "NONE" /\ (jobs[j].hash # NoHash \/ jobs[j].state = "PURGED")
    /\ <<j, "job.cancelled">> \in audit => jobs[j].state \in {"CANCELLED", "PURGED"}

(* A receipt always has its job: AddReceipt racing the retention sweep       *)
(* leaves no receipt behind (foreign key, ON DELETE CASCADE).                *)
NoOrphanReceipt == \A j \in receipts : Exists(j)

(* The emergency stop drains: a request that still approved a job after the  *)
(* stop was set cannot be approving a second one while the stop lasts.       *)
StopDrains ==
  stop => \A c \in late : client[c].pc \notin {"approve.open", "approve.store"}

(* No job is approved after its content was erased, though the erasure may   *)
(* come between Approve's Preview and its UPDATE.                            *)
NoBlindApproval ==
  [][\A j \in Jobs : jobs[j].state = "DRAFT" /\ jobs'[j].state = "APPROVED"
                       => jobs[j].content # None]_vars

(* The store implements the lifecycle: every row moves along the table       *)
(* `transitions` only, on stale reads too, and only resolved rows vanish.    *)
ImplementsLifecycle == L!Spec

(* Retention keeps its promise: a job that stays resolved forever is one     *)
(* that somebody keeps writing; untouched, it is deleted by a sweep.         *)
ResolvedIsPurged ==
  \A j \in Jobs :
    <>[](jobs[j].state \in L!Resolved) => []<>(~jobs[j].old)

(* Approve checks the emergency stop; the service test says an approval must *)
(* not be allowed during the stop.  The check and the UPDATE are separate    *)
(* statements.                                                               *)
NoApprovalDuringStop ==
  [][\A j \in Jobs : jobs[j].state = "DRAFT" /\ jobs'[j].state = "APPROVED" => ~stop]_vars

=============================================================================
