-------------------------------- MODULE Auth --------------------------------
(* Passkeys, sessions and the recovery code (internal/auth/passkeys.go), the *)
(* rows they are kept in (internal/store/sqlite.go) and the guards that the  *)
(* web server puts before its handlers (internal/web/server.go).  Production *)
(* mode: in development mode the guards let everything pass.                 *)
(*                                                                           *)
(* Every access to the manager's memory is under mu, so each such section is *)
(* one step, except that FinishRegistration and FinishLogin read the request *)
(* and write the database with mu held.  recoveryMu is held over several     *)
(* steps by recoveryLogin and recoveryRotate; the rotation at the end of a   *)
(* bootstrap registration does not take it.                                  *)
(*                                                                           *)
(* Ceremonies, sessions and recovery codes are random values that never      *)
(* repeat: they are numbered as they are drawn.  Only how many credentials   *)
(* there are matters.                                                        *)
EXTENDS Naturals, FiniteSets

CONSTANTS
  Procs,           \* requests that may be in flight together
  AttemptLimit,    \* failures within 15 minutes that close the recovery: 5
  MaxCeremonies,   \* bounds of a behaviour: ceremonies begun,
  MaxSessions,     \* sessions issued,
  MaxCodes,        \* recovery codes stored
  MaxCreds,        \* and credentials registered
  None

ASSUME AuthAssumption ==
  /\ IsFiniteSet(Procs)
  /\ None \notin Procs
  /\ AttemptLimit \in Nat \ {0}
  /\ MaxCeremonies \in Nat /\ MaxSessions \in Nat /\ MaxCodes \in Nat /\ MaxCreds \in Nat

Ceremonies == 1 .. MaxCeremonies
Sessions == 1 .. MaxSessions
Codes == 1 .. MaxCodes

VARIABLES
  creds,         \* len(user.Credentials)
  code,          \* recoveryHash; 0 until recoverySet
  fails,         \* recoveryFails of the last 15 minutes
  ceremony,      \* ceremonies, with those that are no longer there
  session,       \* sessions, likewise
  mu, recoveryMu,
  stored,        \* table auth_state: the credentials in it
  storedCode,    \* table auth_recovery_state: the code whose hash it holds, or 0
  drawn,         \* how many ceremonies, sessions and codes were drawn
  proc,          \* the locals of each request
  redeemed,      \* history: how often each ceremony was accepted
  logins,        \* history: the recovery logins with each code
  acked,         \* history: the registrations not answered by a persistence error
  raced          \* history: the last stored code overlapped a bootstrap's rotation

memory == <<creds, code, fails, ceremony, session>>
locks == <<mu, recoveryMu>>
disk == <<stored, storedCode>>
history == <<redeemed, logins, acked, raced>>
vars == <<memory, locks, disk, drawn, proc, history>>

----------------------------------------------------------------------------
(* Data *)

Fresh == [status |-> "fresh", kind |-> "none", boot |-> FALSE]
Spent == [status |-> "spent", kind |-> "none", boot |-> FALSE]
Began(kind, boot) == [status |-> "live", kind |-> kind, boot |-> boot]
CeremonyStates == {Fresh, Spent} \cup {Began(k, b) : k \in {"register", "login"}, b \in BOOLEAN}

(* The routes behind Require, by the guards they add. *)
Routes == {"csrf", "operational", "both"}
Operational(route) == route \in {"operational", "both"}
CSRFGuarded(route) == route \in {"csrf", "both"}

PCs == {"idle", "begin.register", "begin.login",
        "register.check", "register.lock", "register.verify", "login.lock", "login.verify",
        "recovery.wait", "recovery.check", "recovery.fail", "rotate.wait",
        "rotate.save", "rotate.set", "issue", "guard.ready", "guard.csrf", "act"}

(* boot: entry.Bootstrap, or the flag registerBegin computed; sess: the      *)
(* cookie of the request, 0 for none; given: the recovery code presented,    *)
(* where 0 is a wrong one; new: the replacement; via: the handler or route.  *)
Locals == [pc : PCs, boot : BOOLEAN, sess : 0 .. MaxSessions, given : 0 .. MaxCodes,
           new : 0 .. MaxCodes, via : {"", "register", "login", "recovery", "rotate"} \cup Routes]

Idle == [pc |-> "idle", boot |-> FALSE, sess |-> 0, given |-> 0, new |-> 0, via |-> ""]

Goto(p, l) == proc' = [proc EXCEPT ![p] = l]
Move(p, pc) == Goto(p, [proc[p] EXCEPT !.pc = pc])

Init ==
  /\ creds = 0 /\ code = 0 /\ fails = 0
  /\ ceremony = [c \in Ceremonies |-> Fresh]
  /\ session = [s \in Sessions |-> "fresh"]
  /\ mu = None /\ recoveryMu = None
  /\ stored = 0 /\ storedCode = 0
  /\ drawn = [ceremonies |-> 0, sessions |-> 0, codes |-> 0]
  /\ proc = [p \in Procs |-> Idle]
  /\ redeemed = [c \in Ceremonies |-> 0]
  /\ logins = [k \in Codes |-> 0]
  /\ acked = 0
  /\ raced = FALSE

(* A section under mu, or under its read lock. *)
Unlocked == mu = None

(* sessionForRequest: known and not expired. *)
authenticated(s) == s # 0 /\ session[s] = "live"

OperationallyReady_One == creds >= 1 /\ code # 0

OperationallyReady == creds >= 2 /\ code # 0

(* The handler returns; its deferred unlock of recoveryMu runs. *)
Return(p) ==
  /\ Goto(p, Idle)
  /\ recoveryMu' = IF recoveryMu = p THEN None ELSE recoveryMu

----------------------------------------------------------------------------
(* Ceremonies *)

(* Without credentials the request must carry the bootstrap token, otherwise *)
(* a session.                                                                *)
registerBegin(p, s) ==
  /\ proc[p].pc = "idle"
  /\ Unlocked
  /\ creds = 0 \/ authenticated(s)
  /\ Goto(p, [Idle EXCEPT !.pc = "begin.register", !.boot = (creds = 0)])
  /\ UNCHANGED <<memory, locks, disk, drawn, history>>

loginBegin(p) ==
  /\ proc[p].pc = "idle"
  /\ Unlocked
  /\ creds > 0
  /\ Goto(p, [Idle EXCEPT !.pc = "begin.login"])
  /\ UNCHANGED <<memory, locks, disk, drawn, history>>

(* The entropy source may fail, and then nothing is begun. *)
beginCeremony(p) ==
  /\ proc[p].pc \in {"begin.register", "begin.login"}
  /\ Unlocked
  /\ \/ LET c == drawn.ceremonies + 1
            kind == IF proc[p].pc = "begin.register" THEN "register" ELSE "login" IN
        /\ c \in Ceremonies
        /\ ceremony' = [ceremony EXCEPT ![c] = Began(kind, proc[p].boot)]
        /\ drawn' = [drawn EXCEPT !.ceremonies = c]
     \/ UNCHANGED <<ceremony, drawn>>
  /\ Goto(p, Idle)
  /\ UNCHANGED <<creds, code, fails, session, locks, disk, history>>

(* An entry past its expiry is refused, whether purgeLocked has deleted it   *)
(* already or not: it counts as gone at once.                                *)
ExpireCeremony(c) ==
  /\ ceremony[c].status = "live"
  /\ ceremony' = [ceremony EXCEPT ![c] = Spent]
  /\ UNCHANGED <<creds, code, fails, session, locks, disk, drawn, proc, history>>

(* Deleted first and checked then: kind, expiry and CSRF token. *)
consumeCeremony_Keeps(c, kind) ==
  /\ Unlocked
  /\ ceremony[c].status = "live" /\ ceremony[c].kind = kind
  /\ redeemed' = [redeemed EXCEPT ![c] = @ + 1]
  /\ UNCHANGED ceremony

consumeCeremony(c, kind) ==
  /\ Unlocked
  /\ ceremony[c].status = "live" /\ ceremony[c].kind = kind
  /\ redeemed' = [redeemed EXCEPT ![c] = @ + 1]
  /\ ceremony' = [ceremony EXCEPT ![c] = Spent]

(* Presented to the wrong handler or without its CSRF token. *)
consumeRefused(c) ==
  /\ Unlocked
  /\ ceremony[c].status = "live"
  /\ ceremony' = [ceremony EXCEPT ![c] = Spent]
  /\ UNCHANGED <<creds, code, fails, session, locks, disk, drawn, proc, history>>

----------------------------------------------------------------------------
(* registerFinish and loginFinish *)

registerFinish(p, c, s) ==
  /\ proc[p].pc = "idle"
  /\ consumeCeremony(c, "register")
  /\ Goto(p, [Idle EXCEPT !.pc = "register.check", !.boot = ceremony[c].boot,
                          !.sess = s, !.via = "register"])
  /\ UNCHANGED <<creds, code, fails, session, locks, disk, drawn, logins, acked, raced>>

(* A bootstrap presents the token again, which may be wrong this time.       *)
registerCheck(p) ==
  /\ proc[p].pc = "register.check"
  /\ Unlocked
  /\ \/ /\ proc[p].boot \/ authenticated(proc[p].sess)
        /\ Goto(p, [proc[p] EXCEPT !.pc = "register.lock", !.sess = 0])
     \/ /\ proc[p].boot \/ ~authenticated(proc[p].sess)
        /\ Goto(p, Idle)
  /\ UNCHANGED <<memory, locks, disk, drawn, history>>

loginFinish(p, c) ==
  /\ proc[p].pc = "idle"
  /\ consumeCeremony(c, "login")
  /\ Goto(p, [Idle EXCEPT !.pc = "login.lock", !.via = "login"])
  /\ UNCHANGED <<creds, code, fails, session, locks, disk, drawn, logins, acked, raced>>

Lock(p) ==
  /\ proc[p].pc \in {"register.lock", "login.lock"}
  /\ Unlocked
  /\ mu' = p
  /\ Move(p, IF proc[p].pc = "register.lock" THEN "register.verify" ELSE "login.verify")
  /\ UNCHANGED <<memory, recoveryMu, disk, drawn, history>>

(* The answer of the authenticator does not verify, or the request ended     *)
(* before it was read.                                                       *)
VerifyFails(p) ==
  /\ proc[p].pc \in {"register.verify", "login.verify"}
  /\ mu' = None
  /\ Goto(p, Idle)
  /\ UNCHANGED <<memory, recoveryMu, disk, drawn, history>>

(* The whole list of credentials is written over the stored one. *)
persistLocked(n) == stored' = n

(* The credential is appended, then persistLocked stores all of them.  If    *)
(* that fails the request is refused, but the credential stays in memory.    *)
Enrolled(p) == Move(p, IF proc[p].boot THEN "rotate.save" ELSE "issue")

registerVerify_IgnoresError(p) ==
  /\ proc[p].pc = "register.verify"
  /\ creds < MaxCreds
  /\ creds' = creds + 1
  /\ stored' \in {stored, creds + 1}
  /\ acked' = acked + 1
  /\ Enrolled(p)
  /\ mu' = None
  /\ UNCHANGED <<code, fails, ceremony, session, recoveryMu, storedCode, drawn, redeemed, logins, raced>>

registerVerify_PersistsFirst(p) ==
  /\ proc[p].pc = "register.verify"
  /\ creds < MaxCreds
  /\ creds' = creds + 1
  /\ \/ persistLocked(creds) /\ acked' = acked + 1 /\ Enrolled(p)
     \/ UNCHANGED <<stored, acked>> /\ Goto(p, Idle)
  /\ mu' = None
  /\ UNCHANGED <<code, fails, ceremony, session, recoveryMu, storedCode, drawn, redeemed, logins, raced>>

registerVerify(p) ==
  /\ proc[p].pc = "register.verify"
  /\ creds < MaxCreds
  /\ creds' = creds + 1
  /\ \/ persistLocked(creds + 1) /\ acked' = acked + 1 /\ Enrolled(p)
     \/ UNCHANGED <<stored, acked>> /\ Goto(p, Idle)
  /\ mu' = None
  /\ UNCHANGED <<code, fails, ceremony, session, recoveryMu, storedCode, drawn, redeemed, logins, raced>>

(* The credential that was used replaces the one with its ID. *)
loginVerify_Appends(p) ==
  /\ proc[p].pc = "login.verify"
  /\ creds' = creds + 1
  /\ persistLocked(creds + 1)
  /\ Move(p, "issue")
  /\ mu' = None
  /\ UNCHANGED <<code, fails, ceremony, session, recoveryMu, storedCode, drawn, history>>

loginVerify(p) ==
  /\ proc[p].pc = "login.verify"
  /\ creds > 0
  /\ \/ persistLocked(creds) /\ Move(p, "issue")
     \/ UNCHANGED stored /\ Goto(p, Idle)
  /\ mu' = None
  /\ UNCHANGED <<memory, recoveryMu, storedCode, drawn, history>>

----------------------------------------------------------------------------
(* Recovery *)

allowRecoveryAttempt_OffByOne == fails <= AttemptLimit

allowRecoveryAttempt == fails < AttemptLimit

(* The attempt is allowed before recoveryMu is taken. *)
recoveryLogin(p, k) ==
  /\ proc[p].pc = "idle"
  /\ Unlocked
  /\ creds > 0
  /\ allowRecoveryAttempt
  /\ Goto(p, [Idle EXCEPT !.pc = "recovery.wait", !.given = k, !.via = "recovery"])
  /\ UNCHANGED <<memory, locks, disk, drawn, history>>

recoveryRotate(p, s) ==
  /\ proc[p].pc = "idle"
  /\ Unlocked
  /\ authenticated(s)
  /\ Goto(p, [Idle EXCEPT !.pc = "rotate.wait", !.via = "rotate"])
  /\ UNCHANGED <<memory, locks, disk, drawn, history>>

lockRecovery_Missing(p) ==
  /\ proc[p].pc \in {"recovery.wait", "rotate.wait"}
  /\ Move(p, IF proc[p].via = "recovery" THEN "recovery.check" ELSE "rotate.save")
  /\ UNCHANGED <<memory, locks, disk, drawn, history>>

lockRecovery(p) ==
  /\ proc[p].pc \in {"recovery.wait", "rotate.wait"}
  /\ recoveryMu = None
  /\ recoveryMu' = p
  /\ Move(p, IF proc[p].via = "recovery" THEN "recovery.check" ELSE "rotate.save")
  /\ UNCHANGED <<memory, mu, disk, drawn, history>>

validRecoveryCode(p) ==
  /\ proc[p].pc = "recovery.check"
  /\ Unlocked
  /\ Move(p, IF code # 0 /\ proc[p].given = code THEN "rotate.save" ELSE "recovery.fail")
  /\ UNCHANGED <<memory, locks, disk, drawn, history>>

recordRecoveryFailure_KeepsLock(p) ==
  /\ proc[p].pc = "recovery.fail"
  /\ Unlocked
  /\ fails' = fails + 1
  /\ Goto(p, Idle)
  /\ UNCHANGED <<creds, code, ceremony, session, locks, disk, drawn, history>>

recordRecoveryFailure(p) ==
  /\ proc[p].pc = "recovery.fail"
  /\ Unlocked
  /\ fails' = fails + 1
  /\ Return(p)
  /\ UNCHANGED <<creds, code, ceremony, session, mu, disk, drawn, history>>

(* rotateRecoveryCode: a new code is stored, and only then set in memory.    *)
(* Its first step may fail and leave everything as it was.                   *)
Overlaps(p) ==
  \E q \in Procs \ {p} : /\ proc[q].pc = "rotate.set"
                         /\ "register" \in {proc[p].via, proc[q].via}

SaveRecoveryHash_IgnoresError(p) ==
  /\ proc[p].pc = "rotate.save"
  /\ LET k == drawn.codes + 1 IN
       /\ k \in Codes
       /\ storedCode' \in {storedCode, k}
       /\ drawn' = [drawn EXCEPT !.codes = k]
       /\ Goto(p, [proc[p] EXCEPT !.pc = "rotate.set", !.new = k])
  /\ raced' = Overlaps(p)
  /\ UNCHANGED <<memory, locks, stored, redeemed, logins, acked>>

SaveRecoveryHash(p) ==
  /\ proc[p].pc = "rotate.save"
  /\ LET k == drawn.codes + 1 IN
       /\ k \in Codes
       /\ storedCode' = k
       /\ drawn' = [drawn EXCEPT !.codes = k]
       /\ Goto(p, [proc[p] EXCEPT !.pc = "rotate.set", !.new = k])
  /\ raced' = Overlaps(p)
  /\ UNCHANGED <<memory, locks, stored, redeemed, logins, acked>>

rotateFails(p) ==
  /\ proc[p].pc = "rotate.save"
  /\ Return(p)
  /\ UNCHANGED <<memory, mu, disk, drawn, history>>

rotateSet(p) ==
  /\ proc[p].pc = "rotate.set"
  /\ Unlocked
  /\ code' = proc[p].new
  /\ fails' = 0
  /\ IF proc[p].via = "rotate"
       THEN Return(p)
       ELSE Move(p, "issue") /\ UNCHANGED recoveryMu
  /\ UNCHANGED <<creds, ceremony, session, mu, disk, drawn, history>>

(* Fifteen minutes after it, a failure no longer counts. *)
ForgetFailure ==
  /\ fails > 0
  /\ fails' = fails - 1
  /\ UNCHANGED <<creds, code, ceremony, session, locks, disk, drawn, proc, history>>

----------------------------------------------------------------------------
(* Sessions *)

issueSession(p) ==
  /\ proc[p].pc = "issue"
  /\ Unlocked
  /\ LET s == drawn.sessions + 1 IN
       /\ s \in Sessions
       /\ session' = [session EXCEPT ![s] = "live"]
       /\ drawn' = [drawn EXCEPT !.sessions = s]
  /\ logins' = IF proc[p].via = "recovery"
                 THEN [logins EXCEPT ![proc[p].given] = @ + 1] ELSE logins
  /\ Return(p)
  /\ UNCHANGED <<creds, code, fails, ceremony, mu, disk, redeemed, acked, raced>>

(* The entropy source fails, after the rotation if there was one. *)
issueFails(p) ==
  /\ proc[p].pc = "issue"
  /\ Return(p)
  /\ UNCHANGED <<memory, mu, disk, drawn, history>>

(* logout, or the end of the session's time. *)
EndSession(s) ==
  /\ Unlocked
  /\ session[s] = "live"
  /\ session' = [session EXCEPT ![s] = "spent"]
  /\ UNCHANGED <<creds, code, fails, ceremony, locks, disk, drawn, proc, history>>

----------------------------------------------------------------------------
(* Requests to the protected routes *)

Require(p, s, route) ==
  /\ proc[p].pc = "idle"
  /\ Unlocked
  /\ authenticated(s)
  /\ Goto(p, [Idle EXCEPT !.pc = IF Operational(route) THEN "guard.ready" ELSE "guard.csrf",
                          !.sess = s, !.via = route])
  /\ UNCHANGED <<memory, locks, disk, drawn, history>>

requireOperational(p) ==
  /\ proc[p].pc = "guard.ready"
  /\ Unlocked
  /\ IF OperationallyReady
       THEN Move(p, IF CSRFGuarded(proc[p].via) THEN "guard.csrf" ELSE "act")
       ELSE Goto(p, Idle)
  /\ UNCHANGED <<memory, locks, disk, drawn, history>>

(* ValidateCSRF looks the session up once more; the token may also be wrong. *)
requireCSRF(p) ==
  /\ proc[p].pc = "guard.csrf"
  /\ Unlocked
  /\ \/ authenticated(proc[p].sess) /\ Move(p, "act")
     \/ Goto(p, Idle)
  /\ UNCHANGED <<memory, locks, disk, drawn, history>>

Handle(p) ==
  /\ proc[p].pc = "act"
  /\ Goto(p, Idle)
  /\ UNCHANGED <<memory, locks, disk, drawn, history>>

----------------------------------------------------------------------------
(* The process ends and a new one loads what is stored (New). *)
load == creds' = stored
loadRecovery == code' = storedCode

Restart ==
  /\ load
  /\ loadRecovery
  /\ fails' = 0
  /\ ceremony' = [c \in Ceremonies |-> IF ceremony[c].status = "live" THEN Spent ELSE ceremony[c]]
  /\ session' = [s \in Sessions |-> IF session[s] = "live" THEN "spent" ELSE session[s]]
  /\ mu' = None /\ recoveryMu' = None
  /\ proc' = [p \in Procs |-> Idle]
  /\ raced' = FALSE
  /\ UNCHANGED <<disk, drawn, redeemed, logins, acked>>

Start(p) ==
  \/ loginBegin(p)
  \/ \E s \in Sessions \cup {0} : registerBegin(p, s)
  \/ \E c \in Ceremonies, s \in Sessions \cup {0} : registerFinish(p, c, s)
  \/ \E c \in Ceremonies : loginFinish(p, c)
  \/ \E k \in Codes \cup {0} : recoveryLogin(p, k)
  \/ \E s \in Sessions : recoveryRotate(p, s)
  \/ \E s \in Sessions, route \in Routes : Require(p, s, route)

Step(p) ==
  \/ beginCeremony(p)
  \/ registerCheck(p)
  \/ Lock(p)
  \/ VerifyFails(p) \/ registerVerify(p) \/ loginVerify(p)
  \/ lockRecovery(p)
  \/ validRecoveryCode(p)
  \/ recordRecoveryFailure(p)
  \/ SaveRecoveryHash(p) \/ rotateFails(p)
  \/ rotateSet(p)
  \/ issueSession(p) \/ issueFails(p)
  \/ requireOperational(p)
  \/ requireCSRF(p)
  \/ Handle(p)

Next ==
  \/ \E p \in Procs : Start(p) \/ Step(p)
  \/ \E c \in Ceremonies : ExpireCeremony(c) \/ consumeRefused(c)
  \/ \E s \in Sessions : EndSession(s)
  \/ ForgetFailure
  \/ Restart

Spec == Init /\ [][Next]_vars

----------------------------------------------------------------------------
(* Properties *)

(* The variables have their types. *)
TypeOK ==
  /\ creds \in 0 .. MaxCreds /\ stored \in 0 .. MaxCreds /\ acked \in 0 .. MaxCreds
  /\ code \in 0 .. MaxCodes /\ storedCode \in 0 .. MaxCodes
  /\ fails \in Nat
  /\ ceremony \in [Ceremonies -> CeremonyStates]
  /\ session \in [Sessions -> {"fresh", "live", "spent"}]
  /\ mu \in Procs \cup {None} /\ recoveryMu \in Procs \cup {None}
  /\ drawn \in [ceremonies : 0 .. MaxCeremonies, sessions : 0 .. MaxSessions, codes : 0 .. MaxCodes]
  /\ proc \in [Procs -> Locals]
  /\ redeemed \in [Ceremonies -> Nat]
  /\ logins \in [Codes -> Nat]
  /\ raced \in BOOLEAN

OT == INSTANCE OneTime WITH
  Secrets <- Ceremonies,
  status <- [c \in Ceremonies |-> ceremony[c].status],
  redeemed <- redeemed

(* Ceremonies are one-time secrets: however its finishing requests race, and *)
(* whatever they present, a ceremony completes once at most, and none begun  *)
(* before a restart completes after it (consumeCeremony).                    *)
CeremoniesAreOneTime == OT!Spec

(* A recovery code logs in once at most, though requests that present it may *)
(* race each other, other rotations and a restart between the two steps of   *)
(* rotateRecoveryCode; and once it has, neither the memory nor the store     *)
(* accepts it, so that no restart revives it.                                *)
CodeUsedOnce ==
  \A k \in Codes : logins[k] <= 1 /\ (logins[k] = 1 => k # code /\ k # storedCode)

(* A restart does not change which recovery code is valid, unless it strikes *)
(* between the two steps of a rotation, or the rotation of a bootstrap       *)
(* registration, which does not take recoveryMu, overlapped another.         *)
CodeSurvivesRestart ==
  ~raced /\ (\A p \in Procs : proc[p].pc # "rotate.set") => code = storedCode

(* The five attempts are counted before recoveryMu is taken and recorded     *)
(* after it: each request in flight may add one failure to those the limit   *)
(* allows, and no more.                                                      *)
AttemptsBounded == fails <= AttemptLimit + Cardinality(Procs) - 1

(* A passkey whose registration was not refused survives every restart, even *)
(* if persisting another one failed in between.                              *)
EnrolledIsDurable == acked <= stored

(* Whoever is logged in or holds a recovery code can still log in with a     *)
(* passkey after a restart: there is none of either before the first         *)
(* credential is in the database.                                            *)
NeverLockedOut ==
  (storedCode # 0 \/ \E s \in Sessions : session[s] = "live") => stored > 0

(* What requireOperational found is still so when the handler runs: no       *)
(* request in between removes a passkey or the recovery code.                *)
ReadyWhenActing ==
  \A p \in Procs : proc[p].pc = "act" /\ Operational(proc[p].via) => creds >= 2 /\ code # 0

(* The locks are released on every path: whoever holds one is inside the     *)
(* section it guards.  The holder of mu waits for no lock and the holder of  *)
(* recoveryMu for mu alone, so no two requests wait for each other.          *)
LocksAreReleased ==
  /\ mu # None => proc[mu].pc \in {"register.verify", "login.verify"}
  /\ recoveryMu # None =>
       /\ proc[recoveryMu].pc \in {"recovery.check", "recovery.fail", "rotate.save",
                                   "rotate.set", "issue"}
       /\ proc[recoveryMu].via \in {"recovery", "rotate"}
=============================================================================
