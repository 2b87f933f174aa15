# A TLA+ verification of nomadposting

nomadposting is a private control plane for posting to X and Nostr. An operator
drafts a post, previews it, approves exactly what was previewed, and a dispatcher
later publishes it through a verified network egress. This project models the
parts of it whose correctness depends on the order of steps, checks them with TLC
on small instances and proves the main safety properties with TLAPS for every size.

The dispatcher, the health prober and the namespace executor are not in the
repository; they appear in the models as the callers and callees that the
interfaces of the repository expect.

## Inventory

| Component | State | Operations | What makes it correct |
|---|---|---|---|
| Job lifecycle, `internal/domain` | none (a table) | `CanTransition`, `NormalizeContent`, `ApprovalHash` | jobs move along the table only; the hash covers content, destinations and schedule |
| Job service, `internal/app` | none of its own | create, preview, approve, cancel, reconcile, emergency stop, payload for dispatch | what is dispatched is what was approved; the audit trail is true; the stop holds |
| Store, `internal/store` | tables `jobs`, `receipts`, `audit_events`, `system_state`, `auth_state`, `x_oauth_state` | one SQL statement per operation, no transactions | compare-and-set on state; no orphan receipts; retention deletes resolved jobs only |
| Retention loop, `cmd/ivpn` | a ticker | daily purge of audit records and of jobs | resolved jobs go eventually, although sweeps fail |
| Connection pool, `database/sql` under the store | four connections | acquire, release | no call waits for a call that waits for it |
| Egress registry and monitor, `internal/egress` | health per endpoint | `ApplyProbe`, `MarkProbe`, `SetHealth`, scan | leaks exclude, three failures quarantine, clean endpoints do not lapse, failed ones come back |
| Egress selector | policy | `Select`, `selectStableX` | only allowed countries; an alternate to the previous one always exists |
| Guarded broker, `broker.go`, `cmd/netbroker` | none | dry run, execute, activate | unhealthy endpoints are not activated |
| X connector, `internal/platform/x.go` | none | `Publish` | one post at most, truthful receipts, no blind resend |
| X OAuth manager, `xoauth.go` | pending authorizations (memory), token vault (store) | begin, exchange, bearer, refresh, revoke | states are one-time; the vault stays usable; revocation lasts |
| Nostr connector, `nostr.go` | none | publish, answer a relay's challenge: sign, validate the envelope, count relay answers | relays get exactly the approved text; the receipt says no more than is so |
| Authentication, `internal/auth` | sessions and ceremonies (memory), credentials and recovery hash (store) | register, login, recovery, rotate, logout | ceremonies and recovery codes are one-time; attempts are limited; memory and store agree; nobody is locked out |
| Web interface, `internal/web` | none | forwards to the above behind session, CSRF and readiness checks | no unauthenticated change |
| Envelope encryption, configuration, UI assets, infrastructure | - | - | outside a state model |

Components interact by direct calls. HTTP handlers run concurrently; so does the
retention loop, and so, in its own process, does the broker. The store is shared
by all of them. **No transaction spans two statements**, so a request that reads
and later writes holds stale values in between; this is the main source of
difficulty in the control plane. In the X connector it is the network: an answer
may be lost after X has acted, and the manager's mutex does not cover the calls
to X. In the egress registry every call is atomic under a lock, but what a caller
copied out may be stale when it is used. In the authentication manager every
access to memory is under one mutex, but a handler takes it several times, and the
database is written between two of them.

`PROJECT.json` lists the hazards line by line and the properties aimed at them.

## Modules

| Module | Models | Proofs |
|---|---|---|
| `Lifecycle` | the abstract specification: what the store promises about each job | - |
| `Jobs` (`MCJobs`) | service, store and retention loop, one action per SQL statement | `JobsProofs` |
| `Egress` (`MCEgress`) | registry, monitor, selector, broker | `EgressProofs` |
| `XConnector` (`MCXConnector`) | connector, OAuth manager, token vault | `XConnectorProofs` |
| `ConnPool` | how store calls take and return connections | `ConnPoolProofs` |
| `OneTime` | the abstract specification of one-time secrets, implemented by `Auth`'s ceremonies and `XConnector`'s authorization states | `OneTimeProofs` |
| `Auth` (`MCAuth`) | passkeys, sessions, recovery code, their rows in the store, and the guards of the web server | `AuthProofs` |
| `Content` | what is done to the text of a post: normalization, the checks of both connectors | `ContentProofs` |
| `Nostr` (`MCNostr`) | the Nostr connector, on top of `Content` | `NostrProofs` |

A definition whose name ends in `_Something` beside one of the plain name
(`TransitionJob_NoCompare`) is a faulty variant of it. No specification uses it:
it documents which fault the property named in `PROJECT.json` would detect.

### Lifecycle and Jobs

`jobs[j]` is the row of job `j`; its `state` is a `JobState`, or `NONE` (no such row
yet) or `PURGED` (deleted). `receipts`, `audit` and `stop` are the other tables,
as far as a property can tell their rows apart. `client[c]` holds the locals of a
request in flight and names the statement it executes next. For example `Approve`
is three actions and an audit record: `ApproveBegin` reads `system_state`,
`ApproveOpen` is `Preview`'s SELECT and the comparison of hash and state,
`ApproveStore` is the conditional UPDATE, `AddAudit` ends it. `Abort` stands for every
early return, failed statement and cancelled context, and is possible between any
two statements; `Crash` clears all locals and keeps the tables.

The data are abstracted. A content is a model value; `Normalize` maps the strings
an operator may type to contents, not as the identity (`a\r\nb` and `a\nb` have the
same image, a blank text is refused). SHA-256 is taken as injective, so a hash is
the tuple of what it covers. `updated_at` is the bit `old`: older than the seven days
of retention. An id is never reused (128 random bits). The sealing of columns is
left out.

`consented`, `claims` and `late` are history variables that no guard reads.

`Lifecycle` has one variable, `status`, and three actions. `Jobs` implements it
under `status[j] = jobs[j].state`.

### Egress

`health[e]` is a registry record with the age of its check instead of the time of it;
ages are cut off just above `MaxHealthAge`, and the failure count at the threshold of
three, which nothing distinguishes from larger values. `monitor` is the position of the scan
and its timer. `lease` and `last` are what a job holds and the country recorded for
it; `broker` is the request being served (`serve` accepts one connection at a time). A
probe ends in one of four ways: an error of the prober, or a report that is clean,
unreachable or leaking (the latter also stands for an identity mismatch), stamped
with any time in `Stamps`, where `None` stands for no stamp. The random choices of the
selector are nondeterministic; their uniformity is not a property of behaviours.
`SetHealth` is modelled as the reset an operator would make of a quarantined
endpoint; like a healthy `MarkProbe` it has no caller outside the tests. That `Select`
leaves out the previous country is its guard and is not stated as a property. The
country is kept per job (`jobs.last_nostr_country`): whether posts of different jobs that
follow each other differ in their countries depends on what the missing dispatcher passes.

### XConnector

A call (`Procs`) is a publication, an exchange or a revocation, with the refresh inside a
publication; `proc[p].pc` is its next step: a read of the vault, a request to X, a
write of the vault. Tokens are numbered as X issues them, `vault` is the one row
of `x_oauth_state`, `pending` the map of authorization states under the mutex.
The receipt of a call is tracked through both POSTs that it may make. A validation
that fails, a request that X refuses and a cancelled context end the call (`Abort`).

X is external. Assumed of it: it accepts only live refresh tokens and may or may not
rotate them; it creates a post exactly when it answers 201 or when its answer is
lost; in particular not when it answers 401, another 4xx or 5xx. The last is an
assumption about X that the code makes too (its receipts say FAILED). A `Publish` call
that a crash ends returns no receipt; the model then keeps the last one, which no
caller sees.

### ConnPool

Each request is idle, waiting for a connection, executing a statement, or, for a
listing, holding its rows while it waits for, or executes, the nested query. `free`
counts what the pool can hand out.

### OneTime and Auth

`OneTime` says of a set of secrets what both managers promise: a secret is drawn,
may be redeemed while it is live, and is spent from then on; it may also be dropped,
by expiry, by a request that presents it wrongly, by a restart. Its theorem is that
none is redeemed twice. `Auth` implements it with its ceremonies
(`CeremoniesAreOneTime`) and `XConnector` with its authorization states
(`StatesAreOneTime`).

In `Auth`, `creds` and `code` are the manager's memory and `stored` and `storedCode` the
two rows in the database; only the number of credentials matters. Ceremonies, sessions
and recovery codes are numbered as they are drawn. `proc[p].pc` names the next step of a
request: every section under `mu` is one step, except that `FinishRegistration` and
`FinishLogin`, which read the request and write the database with `mu` held, take and
release it in two steps (`Lock`, then `registerVerify`, `loginVerify` or
`VerifyFails`). `recoveryMu` is taken by `lockRecovery` and held until the handler
returns. `rotateRecoveryCode` is `SaveRecoveryHash` followed by `rotateSet`.
`Require`, `requireOperational` and `requireCSRF` are the guards of the protected routes, in
the order of the code, and `Handle` is whatever handler is behind them.

Abstractions: checks of one request with no write between them whose outcome no other
request can revert are one step. An expired entry counts as gone, whether
`purgeLocked` has deleted it or not. A database write that fails changed nothing. The
WebAuthn library verifies or refuses. The mode is production: in development mode the
guards let every request pass.

`raced` records that the last stored code overlapped the rotation of a bootstrap
registration, which does not take `recoveryMu`. `CodeSurvivesRestart` excludes that
overlap, and the moment between the two steps of a rotation, and nothing else.
The flag `Bootstrap` is computed when a ceremony begins, so two ceremonies begun with the
bootstrap token before the first credential may both finish; the token, which
`login.html` calls one-time, then registers two passkeys. The model has that behaviour
and the properties hold with it.

### Content and Nostr

A text is a sequence of symbols, one per kind of character that the code tells
apart: the two line-end characters, a space, U+3000 (blank to `TrimSpace` but not to the
pattern `\s`), NUL, a control character that is not white space, a character X counts once and one it
counts twice, `https://`, and a byte that is not UTF-8. Form feed and vertical tab are left out. `NewLines` is the pair of
`ReplaceAll`, in their order; `XWeightedLength` is the loop over the matches of the URL
pattern. Both are compared with definitions that do not follow the code: the line breaks
and words of a text, and the sum over symbols inside and outside URLs. `Jobs`' assumption
that normalization is idempotent is one conjunct of `NormalizationIsFaithful`.

`Nostr` is one call of `Publish` or `SignNIP42AuthEvent`; the connector keeps nothing
between calls. The signer is external and arbitrary: it may change its key
between two requests, fail, or return any event with any ID. An ID is taken as the
event it is the hash of. A relay accepts the event, and then has it; or it answers anything else,
or its answer is lost, and then it may have the event or not. So a receipt never
says more than relays hold, but it may say less: without an acknowledgement it is FAILED, also
when relays timed out and show the post. X's receipts say UNKNOWN there, and so does the
repository's `README.md:37` ("Preserve `UNKNOWN` after ambiguous delivery"); the comment of
`Publish` (`nostr.go:97`) says that none is failed. Publishing again would sign a second event.

## Runs

Passing runs:

| Run | Instance | Shows |
|---|---|---|
| `jobs` | 1 job, 2 requests, 4 submissions, times 0..1 | types; approvals are exact; payloads are consented to and due; one claim at most; what the audit trail says of approvals and cancellations is so; no orphan receipt; the stop drains; no approval of erased content; `Lifecycle` is implemented |
| `jobs_retention` | 1 job, 1 request | an untouched resolved job is eventually deleted |
| `egress_health` | 2 endpoints, broker enabled, 1 job; ticks of 10 s: interval 6, scans of up to 1, stamps up to 1 old, validity 9 | types; leaks exclude; three strikes quarantine; at most one late activation; clean endpoints stay eligible between probes; an endpoint that was down comes back |
| `egress_select` | 3 endpoints in 3 countries, 1 job | whenever enough countries are eligible there is an alternate to any previous one |
| `x_connector` | 2 calls, 2 sessions, 2 states, 3 tokens | one post per call; truthful receipts; a loadable vault; revocation deletes the record only after X has revoked the token it read (a newer record may go with it); states implement `OneTime` |
| `conn_pool` | 3 listings, 1 other call, 4 connections, up to 2 rows | nobody waits on everybody; every call ends, listings included |
| `auth` | 2 requests, 3 ceremonies, 2 sessions, 3 codes, 2 passkeys | a recovery code logs in once and survives restarts; attempts are bounded; acknowledged passkeys are durable; nobody is locked out; readiness holds when a handler runs; locks are released; ceremonies implement `OneTime` |
| `nostr` | 1 call, 3 relays, 3 keys (one malformed), every text of up to 3 symbols and URL texts of up to 5 | only the approved note reaches relays; authentication is bound to its relay; receipts never overstate; every relay is tried; normalization is faithful; every symbol is weighed once |

Runs that TLC refutes, each against a sentence of the repository (quoted in `PROJECT.json`):

| Run | What happens |
|---|---|
| `jobs_stop` | Approve reads the emergency stop, the stop is set, Approve's UPDATE approves. `StopDrains` shows that this is limited to requests already past their check. |
| `x_resend` | A 401 whose body cannot be read makes the receipt UNKNOWN, and the POST is repeated all the same, because the test is on the status alone. |
| `x_revoke_race` | X answers a refresh with a new token, a revocation completes, and the refresh saves its live token into the emptied vault. |
| `conn_pool_starves` | Four listings hold the four connections and each waits for a fifth. Until the client of one of them disconnects no store call is served. |

### Bounds

* The actions of `Jobs` couple jobs only through the stop and the sweep's cutoff,
  so one job and two requests give every race over a row; the operator may submit the
  hash of another draft, so mismatched approvals occur. The theorems cover any number.
* Two schedules, one due and one not, are all `sched <= now` can tell apart.
* Two calls of `XConnector` give every pairwise interleaving. Three tokens allow an
  authorization, a refresh and one more of either; four allow a re-authorization after a
  revocation.
* `egress_health` has the proportions of the code's 60 s and 90 s. A scan of 10 s and a lag of
  10 s are what they just allow: 6 + 2 * 1 + 1 = 9. Two endpoints are probed early and late in
  a scan. The pool leaves out France, where the X endpoint is, so that an X lease could not be
  mistaken for a Nostr one unseen. Stamps from the future or out of date are left to the theorems.
* `egress_select` has `MaxHealthAge = 1`: an age below, at and above the limit.
* In `auth`, two requests give every pairwise race; three ceremonies allow a bootstrap, a
  second one beside it and a login; three codes a bootstrap and two rotations; two
  passkeys are what readiness asks for. `AttemptLimit` is 1 for the code's 5: a request in
  flight beyond the limit is then one step away.
* In `nostr`, a text of three symbols has a line end with something on either side, and five
  symbols have two URLs with text around them. `XMaxWeightedLength` 24 and
  `NostrMaxContent` 2 stand for 280 and 65536 so that both limits fall among the texts.
* Three countries are the fewest that `NewSelector` accepts as the minimum.
* Three listings are the most that four connections bear; four are the fewest that
  they do not.

### Fairness

* `Jobs`: jobs age and sweeps start (weak fairness: time passes, and the process
  stays up for the ticker's 24 hours again and again; `retentionLoop` does not sweep at its
  start, so a process restarted more often than daily would never purge); each of the two purge statements succeeds if it is attempted again and
  again (strong fairness: a sweep may fail or a crash interrupt it, but not always).
  Requests have no fairness.
* `ConnPool`: statements end (weak fairness); a waiter for which a connection is
  free again and again gets one (strong fairness: `database/sql` hands a returned
  connection to a waiter). `Cancel` has none: the properties must not depend on
  requests that give up.
* `Egress`: time passes and the monitor goes on with its scans (weak fairness: `Run` is a loop
  around a timer, and `ScanMax` assumes that probes return). Selector, broker and operators have
  none.
* `XConnector`, `Auth` and `Nostr` have safety properties only, and no fairness.
  That handlers of `Auth` end follows from `LocksAreReleased` only if request bodies
  arrive or time out (`ReadTimeout`, `main.go:103`), which is not modelled.

## Proofs

All theorems hold for every value of the constants that satisfies the module's
assumption, which TLC evaluates in every run.

**JobsProofs** (from `JobsAssumption`: normalizing is idempotent and types are right).
The inductive invariant `IInv` is the conjunction of the invariants with two more
facts. `RequestsOK` says what a request knows between two statements: past
`ApproveOpen` it holds the hash of the row or the row has been erased; before an
audit record, the change recorded has been made (`Approved`: the row carries its approval hash
unless it has been purged). Without it neither `ApproveStore`
nor `AddAudit` could be shown safe. `Unclaimed` says that a job that can still reach
ROUTING from APPROVED was never claimed. That steps of other requests do not disturb
these facts is lemma `OtherRequest`, by way of `Evolves`: no row ever returns to DRAFT,
leaves CANCELLED or changes its payload. Proved: `TypeCorrect`, `ApprovalSafety`,
`DispatchSafety`, `SingleClaim`, `AuditSafety`, `ReceiptSafety`, `StopSafety`,
`ApprovalNotBlind` (an action property) and `LifecycleRefinement`.

**EgressProofs** (from `EgressAssumption`: what `NewRegistry` and `NewSelector` accept).
`LeaseInv` adds to the types that a Nostr lease is for an allowed country, which is why
the recorded country is a legal input of the next selection. `HealthInv` says that
quarantine, not mere ill health, is what excludes a leaking endpoint; that the
registry's count never falls behind the failures in a row; and that a late activation
was by the one request being served. It is inductive only if every report is
stamped: `LeakSafety`, `QuarantineAfterThree` and `AtMostOneLateActivation` assume
`None \notin Stamps`. They must: `ApplyProbe` refuses a report without `CheckedAt`
(`health.go:23`) and `probeAll` drops the error (`health.go:92`), so such a leak
report leaves an eligible endpoint eligible. Nothing in the repository obliges a
prober to set the stamp. `EgressTypeCorrect` and
`AlternateAlwaysExists` need no such assumption. `CleanEndpointsStayEligible` is about any
durations: if the interval, twice the longest scan and the lag of the stamps fit into
the validity of a check, `StaysFresh` holds. The code's interval of 60 s and validity of
90 s leave 30 s for two scans and the lag. Its invariant bounds the age of every check by
the time since the scan that made it.

**XConnectorProofs** (from `XAssumption`). `XInv` adds `CallsOK` (a publication in
flight has created no post, has sent at most once and has not reported success; a
call about to save holds both tokens) and `StatesOK` (a state that may still be
accepted never was). Proved: `XTypeCorrect`, `SinglePost`, `TruthfulReceipts`,
`UsableVault`, `RevokedBeforeDeleted` (a token that X has revoked is never accepted again,
so what Revoke read stays dead until it deletes), `OneTimeStates`, the refinement of
`OneTime`, and `NoStateExchangedTwice`, what that refinement says of the states.

**OneTimeProofs**. `RedeemedOnce`: in `OneTime`, for any set of secrets, none is redeemed
twice. The two implementations instantiate this module and carry the theorem over along their
refinements: `NoStateExchangedTwice` and `NoCeremonyFinishesTwice` are what it means for
authorization states and ceremonies, in the words of `XConnector` and `Auth`.

**AuthProofs** (from `AuthAssumption`: the requests are finite, the limit is positive).
The invariant is built in layers, each proved from those below it.

* `TypeInv`: types, and the order `acked <= stored <= creds`. It gives `AuthTypes` and
  `EnrolledDurable`.
* `LockInv`: a request is inside a guarded section if and only if it holds the lock, and which
  handlers reach which steps. It gives `LocksReleased`; the layers above use it for the
  fact that at most one recovery or rotation is between its check and its end.
* `PasskeyInv`: before the first credential is stored there is no code and no session, and no
  request is past the checks that lead to one. The last part is what makes it inductive. It
  gives `NobodyLockedOut`.
* `ReadyInv`: what `requireOperational` found holds for every request past it, since
  credentials only grow in memory and a code is only ever replaced. It gives `ReadyAtHandlers`.
* `CodeInv`: codes that are stored and not yet set in memory are new and all different
  (`PendingInv`); a code that has logged in is neither accepted nor about to be (`SpentInv`);
  the code that a recovery presented has not logged in, and leaves the store and then the
  memory before the session is issued (`ClaimInv`). `CodesWorkOnce` needs all three: the
  rotation of a bootstrap registration takes no lock, so the order of the writes and not the
  mutex alone excludes that an old code returns.
* `SurvivalInv`: unless `raced`, the code still to be set is the stored one. It gives
  `CodesSurvive`.
* `AttemptInv`: failures and attempts in flight together stay below the limit plus the number
  of requests. The failures alone are not inductive, because an attempt is admitted
  before it is counted. It gives `AttemptsStayBounded`.
* `CeremonyInv`: numbers not yet drawn are untouched, so `CeremoniesOneTime` follows: every
  step of `Auth` is a draw, a redemption, a drop or a stutter of `OneTime`.
  `NoCeremonyFinishesTwice` is the consequence.

**NostrProofs** (from `NostrAssumption`: three different relays, as `NewNostrConnector`
requires; any texts, identities and signer). `SigningInv` says that from the check of the envelope on
the event is the requested one and before it there is none; `DeliveryInv` that results are for
the first relays of the list, in order, that an acknowledging relay holds the event,
and that no relay holds anything else; `ReceiptInv`
when the state of the receipt is decided.
`ReceiptsAreHonest` follows by counting: the acknowledgements map one to one into the relays
that hold the event. Also proved: `NostrTypes`, `OnlyWhatWasRequested`, `AllRelaysTried`, and, from
`ContentProofs`, `TextsStayWhatTheyAre` and `TextsAreWeighedOnce`: whatever a caller passes to
the connector, normalization would leave it what it is, and X's length of it is right.

**ContentProofs** (from `ContentAssumption`: both limits are natural numbers), for texts of any
length. `NewLines` is written by numbering the positions that are kept: `Rank` is a bijection that
keeps the order, so what it keeps needs no induction. `NormalizationIsStable` (twice is once,
and acceptance is unaffected) discharges for `Content` what `JobsAssumption` asks of `Normalize`;
`NormalizationKeepsTheText` gives the line breaks and, as a bijection of positions, the rest.

What measures a text is a fold or a recursive function. There the argument has three parts.

* Induction is a least counterexample: `LeastNumber` says that a set of natural numbers that is
  not empty has a least element, and the set is given at each use.
* A sum is the size of a set: `Units(w, S)` holds the pairs of a position in `S` and a unit of its
  weight, and `Total` counts them. Splitting, moving and comparing sums is then counting, for
  which `FiniteSetTheorems` suffices.
* A recursive definition is what solves its equation. The equations are `Adds` (the sums),
  `Weighs` (the loop over matches) and `Collects` (`Words`). For each a solution is given outright
  (`TotalAdds`, `WeightWeighs`, `SpelledCollects`) and shown to be the only one (`AddsOnce`,
  `WeighsOnce`, `CollectsOnce`), so it is what the definition computes.

`EverySymbolWeighedOnce`: the loop of `XWeightedLength`, which jumps from match to match of the
URL pattern, yields the sum over single symbols. `NormalizationFaithful`: all six conjuncts of
`NormalizationIsFaithful`. The two about the connectors hold because normalization drops symbols
and lengthens none: the bytes become no more (`FewerBytes`), URLs neither arise, split nor join
(`UrlsKept`, `FirstsKept`), and so the weight does not grow (`NoMoreWeight`).

**ConnPoolProofs** (from `PoolAssumption`). `PoolInv` counts: free connections, one for each
request that uses one and a second for each nested query make up the pool
(`ConnectionsAreCounted`). `FewListingsNeverStarve` assumes that there are fewer listings than
connections, and must: `conn_pool_starves` is the other case.

Model-checked only: `ResolvedIsPurged`, `EveryCallEnds` and `Recovers`, which are liveness under
fairness. All
other properties of the passing runs are theorems as well.

## Not modelled

* Envelope encryption: cryptographic, no control.
* Configuration and start-up of the two processes, deployment, infrastructure,
  release scripts, browser assets and templates: no state that operations change.
* The framing of the broker's socket protocol, its dry run and its status reply, which
  change nothing. The lease's expiry, which nothing checks.
* The audit events of kinds that no property mentions.
* Development mode of the authentication; rendering, headers and redirects of the web
  server; sizes of request bodies.
* A composition of service, egress and connectors: in the repository nothing
  connects them. The dispatcher that would is not there (`loadConfig` refuses live mode), and a
  model of it would be invented. `Jobs`, `Egress` and the connectors therefore each
  have it as an arbitrary caller.
* The canonical encoding of Nostr events, which is taken as injective.

## Plan

Done, in this order: `Lifecycle` and `Jobs` with their proofs (the core: what is
published is what was approved), `Egress`, `XConnector`, `ConnPool`, `OneTime` and `Auth`,
`Content` and `Nostr`.

Then the proofs: every invariant and action property of the passing runs is a theorem, and so are
both refinements of `OneTime`, with what they imply, and that of `Lifecycle`.

What could follow: shorter arguments in `AuthProofs` and `ContentProofs` where one lemma serves
several steps; and, when the repository gets its dispatcher, a module for it that composes
`Jobs`, `Egress` and the connectors.
