----------------------------- MODULE AuthProofs -----------------------------
(* Proofs about Auth for any number of requests, ceremonies, sessions, codes *)
(* and credentials.  The inductive invariant is built in layers, each proved *)
(* from the ones below it: types, locks, passkeys, readiness, recovery codes *)
(* and attempts.                                                             *)
EXTENDS Auth, FiniteSetTheorems, TLAPS

(* The locks: who is inside a guarded section holds its lock, and which      *)
(* handlers get to which steps.                                              *)
UnderMu == {"register.verify", "login.verify"}
UnderRecoveryMu == {"recovery.check", "recovery.fail"}
Rotating == {"rotate.save", "rotate.set"}

ViaOK(l) ==
  /\ l.pc \in {"recovery.wait", "recovery.check", "recovery.fail"} => l.via = "recovery"
  /\ l.pc = "rotate.wait" => l.via = "rotate"
  /\ l.pc \in {"register.check", "register.lock", "register.verify"} => l.via = "register"
  /\ l.pc \in {"login.lock", "login.verify"} => l.via = "login"
  /\ l.pc \in Rotating => l.via \in {"register", "recovery", "rotate"}
  /\ l.pc = "issue" => l.via \in {"register", "login", "recovery"}

NeedsRecoveryMu(l) ==
  \/ l.pc \in UnderRecoveryMu
  \/ l.pc \in Rotating \cup {"issue"} /\ l.via \in {"recovery", "rotate"}

LockInv ==
  /\ \A p \in Procs : ViaOK(proc[p])
  /\ \A p \in Procs : mu = p <=> proc[p].pc \in UnderMu
  /\ \A p \in Procs : recoveryMu = p <=> NeedsRecoveryMu(proc[p])

(* Passkeys *)
Durable == acked <= stored /\ stored <= creds

Enrolling(l) == l.pc \in {"rotate.wait", "issue"} \cup Rotating

PasskeyInv ==
  stored = 0 => /\ code = 0 /\ storedCode = 0
                /\ \A s \in Sessions : session[s] # "live"
                /\ \A p \in Procs : ~Enrolling(proc[p])

(* Readiness *)
Passed(l) == l.pc \in {"guard.csrf", "act"} /\ Operational(l.via)
ReplacementOK(l) == l.pc = "rotate.set" => l.new # 0

ReadyInv ==
  \A p \in Procs : ReplacementOK(proc[p]) /\ (Passed(proc[p]) => OperationallyReady)

(* Recovery codes *)
Pending(l) == l.pc = "rotate.set"
Recovering(l) == l.via = "recovery" /\ l.pc \in Rotating \cup {"issue"}

(* The codes that are stored and not yet set are new and all different. *)
PendingInv ==
  \A q \in Procs : Pending(proc[q]) =>
    /\ proc[q].new \in 1 .. drawn.codes
    /\ proc[q].new # code
    /\ \A r \in Procs : Pending(proc[r]) /\ proc[r].new = proc[q].new => r = q

(* A code that has logged in is neither accepted nor about to be. *)
SpentInv ==
  \A k \in Codes :
    /\ logins[k] <= 1
    /\ logins[k] # 0 => /\ k <= drawn.codes /\ k # code /\ k # storedCode
                        /\ \A q \in Procs : Pending(proc[q]) => proc[q].new # k

(* The code that a recovery has presented has not logged in yet, and goes    *)
(* first from the store and then from the memory.                            *)
ClaimInv ==
  \A p \in Procs : Recovering(proc[p]) =>
    /\ proc[p].given \in 1 .. drawn.codes
    /\ logins[proc[p].given] = 0
    /\ \A q \in Procs : Pending(proc[q]) => proc[q].new # proc[p].given
    /\ proc[p].pc \in {"rotate.set", "issue"} => proc[p].given # storedCode
    /\ proc[p].pc = "issue" => proc[p].given # code

CodeInv ==
  /\ code <= drawn.codes /\ storedCode <= drawn.codes
  /\ PendingInv /\ SpentInv /\ ClaimInv

(* Unless a bootstrap interfered there is at most one code to be set, the    *)
(* stored one.                                                               *)
SurvivalInv ==
  ~raced => /\ \A q \in Procs : Pending(proc[q]) => proc[q].new = storedCode
            /\ (\A q \in Procs : ~Pending(proc[q])) => code = storedCode

(* Attempts that were allowed and not yet judged. *)
AttemptPCs == {"recovery.wait", "recovery.check", "recovery.fail"}
Attempting == {p \in Procs : proc[p].pc \in AttemptPCs}
AttemptInv == fails + Cardinality(Attempting) <= AttemptLimit + Cardinality(Procs) - 1

CeremonyInv == \A c \in Ceremonies : c > drawn.ceremonies => ceremony[c] = Fresh

----------------------------------------------------------------------------
(* Types *)

TypeInv == TypeOK /\ Durable

(* The steps of a request that change its locals and nothing else. *)
Quiet(p) ==
  \/ loginBegin(p)
  \/ \E s \in Sessions \cup {0} : registerBegin(p, s)
  \/ \E k \in Codes \cup {0} : recoveryLogin(p, k)
  \/ \E s \in Sessions : recoveryRotate(p, s)
  \/ \E s \in Sessions, route \in Routes : Require(p, s, route)
  \/ registerCheck(p)
  \/ validRecoveryCode(p)
  \/ requireOperational(p)
  \/ requireCSRF(p)
  \/ Handle(p)

(* Whatever locals a request is given, they are typed if the new ones are. *)
LEMMA GotoTyped ==
  ASSUME TypeOK, NEW p \in Procs, NEW l \in Locals, Goto(p, l)
  PROVE  proc' \in [Procs -> Locals]
BY DEF Goto, TypeOK

(* The ranges of the locals by name, so that they need not be unfolded. *)
SessionNrs == 0 .. MaxSessions
CodeNrs == 0 .. MaxCodes
Vias == {"", "register", "login", "recovery", "rotate"} \cup Routes

(* The locals of a request, with their ranges by name. *)
LEMMA LocalsShape ==
  Locals = [pc : PCs, boot : BOOLEAN, sess : SessionNrs, given : CodeNrs, new : CodeNrs, via : Vias]
BY DEF Locals, SessionNrs, CodeNrs, Vias

(* What the ranges contain. *)
LEMMA Ranges ==
  /\ 0 \in SessionNrs /\ 0 \in CodeNrs /\ Sessions \cup {0} = SessionNrs /\ Codes \cup {0} = CodeNrs
  /\ {"", "register", "login", "recovery", "rotate"} \subseteq Vias /\ Routes \subseteq Vias
<1>1. Sessions \cup {0} = SessionNrs
  BY AuthAssumption DEF SessionNrs, Sessions
<1>2. Codes \cup {0} = CodeNrs
  BY AuthAssumption DEF CodeNrs, Codes
<1>3. QED
  BY <1>1, <1>2 DEF Vias

(* Every step that an action names is one of PCs. *)
LEMMA PCNames ==
  /\ {"idle", "begin.register", "begin.login", "register.check", "register.lock",
      "register.verify", "login.lock", "login.verify"} \subseteq PCs
  /\ {"recovery.wait", "recovery.check", "recovery.fail", "rotate.wait", "rotate.save",
      "rotate.set", "issue", "guard.ready", "guard.csrf", "act"} \subseteq PCs
BY DEF PCs

(* A request that only moves keeps typed locals. *)
LEMMA MoveTyped ==
  ASSUME TypeOK, NEW p \in Procs, NEW at \in PCs
  PROVE  [proc[p] EXCEPT !.pc = at] \in Locals
BY LocalsShape DEF TypeOK

(* The locals of a request that is not served are typed. *)
LEMMA IdleTyped == Idle \in Locals
BY LocalsShape, Ranges, PCNames DEF Idle

(* The bootstrap flag of a ceremony is a truth value. *)
LEMMA CeremonyBoot ==
  ASSUME TypeOK, NEW c \in Ceremonies
  PROVE  ceremony[c].boot \in BOOLEAN
<1>1. ceremony[c] \in CeremonyStates
  BY DEF TypeOK
<1>2. Fresh.boot = FALSE /\ Spent.boot = FALSE
  BY DEF Fresh, Spent
<1>3. \A k, b : Began(k, b).boot = b
  BY DEF Began
<1>4. \/ ceremony[c] = Fresh
      \/ ceremony[c] = Spent
      \/ \E k \in {"register", "login"}, b \in BOOLEAN : ceremony[c] = Began(k, b)
  BY <1>1 DEF CeremonyStates
<1>5. CASE ceremony[c] = Fresh \/ ceremony[c] = Spent
  <2>1. ceremony[c].boot = FALSE
    BY <1>2, <1>5
  <2>2. QED
    BY <2>1, Zenon
<1>6. CASE \E k \in {"register", "login"}, b \in BOOLEAN : ceremony[c] = Began(k, b)
  <2>1. PICK b \in BOOLEAN : ceremony[c].boot = b
    BY <1>3, <1>6
  <2>2. QED
    BY <2>1, Zenon
<1>7. QED
  BY <1>4, <1>5, <1>6

(* The locals of a rotation that has stored its new code. *)
LEMMA SaveLocals ==
  ASSUME TypeOK, NEW p \in Procs, SaveRecoveryHash(p), NEW l,
         l = [proc[p] EXCEPT !.pc = "rotate.set", !.new = drawn.codes + 1]
  PROVE  /\ l \in Locals /\ l.pc = "rotate.set" /\ l.via = proc[p].via
         /\ l.given = proc[p].given /\ l.new = drawn.codes + 1
<1>1. drawn.codes + 1 \in CodeNrs
  BY DEF SaveRecoveryHash, Codes, CodeNrs
<1>2. proc[p] \in Locals
  BY DEF TypeOK
<1>3. QED
  BY <1>1, <1>2, LocalsShape, PCNames

(* The quiet steps leave everything but the locals alone, and those typed. *)
LEMMA QuietTyped ==
  ASSUME TypeOK, NEW p \in Procs, Quiet(p)
  PROVE  /\ \E l \in Locals : Goto(p, l)
         /\ UNCHANGED <<memory, locks, disk, drawn, history>>
<1>1. CASE loginBegin(p)
  <2>1. [Idle EXCEPT !.pc = "begin.login"] \in Locals
    BY IdleTyped, LocalsShape, Ranges, PCNames
  <2>2. QED
    BY <1>1, <2>1 DEF loginBegin
<1>2. ASSUME NEW s \in Sessions \cup {0}, registerBegin(p, s)
      PROVE  \E l \in Locals : Goto(p, l)
  <2>1. [Idle EXCEPT !.pc = "begin.register", !.boot = (creds = 0)] \in Locals
    BY IdleTyped, LocalsShape, Ranges, PCNames
  <2>2. QED
    BY <1>2, <2>1 DEF registerBegin
<1>3. ASSUME NEW k \in Codes \cup {0}, recoveryLogin(p, k)
      PROVE  \E l \in Locals : Goto(p, l)
  <2>1. [Idle EXCEPT !.pc = "recovery.wait", !.given = k, !.via = "recovery"] \in Locals
    BY IdleTyped, LocalsShape, Ranges, PCNames
  <2>2. QED
    BY <1>3, <2>1 DEF recoveryLogin
<1>4. ASSUME NEW s \in Sessions, recoveryRotate(p, s)
      PROVE  \E l \in Locals : Goto(p, l)
  <2>1. [Idle EXCEPT !.pc = "rotate.wait", !.via = "rotate"] \in Locals
    BY IdleTyped, LocalsShape, Ranges, PCNames
  <2>2. QED
    BY <1>4, <2>1 DEF recoveryRotate
<1>5. ASSUME NEW s \in Sessions, NEW route \in Routes, Require(p, s, route)
      PROVE  \E l \in Locals : Goto(p, l)
  <2>1. [Idle EXCEPT !.pc = IF Operational(route) THEN "guard.ready" ELSE "guard.csrf",
                     !.sess = s, !.via = route] \in Locals
    BY IdleTyped, LocalsShape, Ranges, PCNames
  <2>2. QED
    BY <1>5, <2>1 DEF Require
<1>6. CASE registerCheck(p)
  <2>1. [proc[p] EXCEPT !.pc = "register.lock", !.sess = 0] \in Locals
    <3>1. proc[p] \in Locals
      BY DEF TypeOK
    <3>2. QED
      BY <3>1, LocalsShape, Ranges, PCNames
  <2>2. QED
    BY <1>6, <2>1, IdleTyped DEF registerCheck
<1>7. CASE validRecoveryCode(p) \/ requireOperational(p) \/ requireCSRF(p) \/ Handle(p)
  <2>1. {"rotate.save", "recovery.fail", "guard.csrf", "act"} \subseteq PCs
    BY DEF PCs
  <2>2. QED
    BY <1>7, <2>1, IdleTyped, MoveTyped
    DEF validRecoveryCode, requireOperational, requireCSRF, Handle, Move
<1>8. UNCHANGED <<memory, locks, disk, drawn, history>>
  BY DEF Quiet, loginBegin, registerBegin, recoveryLogin, recoveryRotate, Require,
         registerCheck, validRecoveryCode, requireOperational, requireCSRF, Handle
<1>9. QED
  BY <1>1, <1>2, <1>3, <1>4, <1>5, <1>6, <1>7, <1>8 DEF Quiet

(* In the initial state nothing is stored, and nobody is served. *)
LEMMA InitTypeInv == Init => TypeInv
<1> SUFFICES ASSUME Init PROVE TypeInv
  OBVIOUS
<1>1. /\ creds \in 0 .. MaxCreds /\ stored \in 0 .. MaxCreds /\ acked \in 0 .. MaxCreds
      /\ code \in 0 .. MaxCodes /\ storedCode \in 0 .. MaxCodes /\ fails \in Nat
      /\ mu \in Procs \cup {None} /\ recoveryMu \in Procs \cup {None}
  BY AuthAssumption DEF Init
<1>2. ceremony \in [Ceremonies -> CeremonyStates]
  BY DEF Init, CeremonyStates
<1>3. session \in [Sessions -> {"fresh", "live", "spent"}]
  BY DEF Init
<1>4. drawn \in [ceremonies : 0 .. MaxCeremonies, sessions : 0 .. MaxSessions, codes : 0 .. MaxCodes]
  BY AuthAssumption DEF Init
<1>5. proc \in [Procs -> Locals]
  BY IdleTyped DEF Init
<1>6. redeemed \in [Ceremonies -> Nat] /\ logins \in [Codes -> Nat]
  BY DEF Init
<1>7. Durable /\ raced \in BOOLEAN
  <2>1. Durable
    BY DEF Init, Durable
  <2>2. raced \in BOOLEAN
    BY Zenon DEF Init
  <2>3. QED
    BY <2>1, <2>2
<1>8. QED
  BY <1>1, <1>2, <1>3, <1>4, <1>5, <1>6, <1>7 DEF TypeInv, TypeOK

(* Returning releases the lock or leaves it alone. *)
LEMMA ReturnTyped ==
  ASSUME TypeOK, NEW p \in Procs, Return(p)
  PROVE  proc' \in [Procs -> Locals] /\ recoveryMu' \in Procs \cup {None}
BY GotoTyped, IdleTyped DEF Return, TypeOK

(* Every step keeps the types, and stores at least what it acknowledges. *)
LEMMA NextTypeInv == TypeInv /\ [Next]_vars => TypeInv'
<1> SUFFICES ASSUME TypeInv, [Next]_vars PROVE TypeInv'
  OBVIOUS
<1>0. TypeOK
  BY DEF TypeInv
<1>1. ASSUME NEW p \in Procs, Quiet(p) PROVE TypeInv'
  <2>1. proc' \in [Procs -> Locals]
    BY <1>0, <1>1, QuietTyped, GotoTyped
  <2>2. UNCHANGED <<memory, locks, disk, drawn, history>>
    BY <1>0, <1>1, QuietTyped
  <2>3. QED
    BY <2>1, <2>2 DEF TypeInv, TypeOK, Durable, memory, locks, disk, history
<1>2. ASSUME NEW p \in Procs, beginCeremony(p) PROVE TypeInv'
  <2>1. proc' \in [Procs -> Locals]
    BY <1>0, <1>2, IdleTyped, GotoTyped DEF beginCeremony
  <2>2. ASSUME NEW kind \in {"register", "login"}, NEW b \in BOOLEAN
        PROVE  Began(kind, b) \in CeremonyStates
    BY DEF CeremonyStates
  <2>3. proc[p].boot \in BOOLEAN
    BY <1>0, LocalsShape DEF TypeOK
  <2>4. ceremony' \in [Ceremonies -> CeremonyStates]
    BY <1>0, <1>2, <2>2, <2>3 DEF beginCeremony, TypeOK
  <2>5. drawn' \in [ceremonies : 0 .. MaxCeremonies, sessions : 0 .. MaxSessions, codes : 0 .. MaxCodes]
    BY <1>0, <1>2, AuthAssumption DEF beginCeremony, TypeOK, Ceremonies
  <2>6. QED
    BY <1>2, <2>1, <2>4, <2>5 DEF TypeInv, TypeOK, Durable, beginCeremony, locks, disk, history
<1>3. ASSUME NEW c \in Ceremonies, ExpireCeremony(c) \/ consumeRefused(c) PROVE TypeInv'
  <2>1. ceremony' \in [Ceremonies -> CeremonyStates]
    BY <1>0, <1>3 DEF ExpireCeremony, consumeRefused, TypeOK, CeremonyStates
  <2>2. QED
    BY <1>3, <2>1 DEF TypeInv, TypeOK, Durable, ExpireCeremony, consumeRefused, locks, disk, history
<1>4. ASSUME NEW p \in Procs, NEW c \in Ceremonies, NEW s \in Sessions \cup {0},
             registerFinish(p, c, s)
      PROVE  TypeInv'
  <2>1. ceremony' \in [Ceremonies -> CeremonyStates] /\ redeemed' \in [Ceremonies -> Nat]
    BY <1>0, <1>4 DEF registerFinish, consumeCeremony, TypeOK, CeremonyStates
  <2>3. [Idle EXCEPT !.pc = "register.check", !.boot = ceremony[c].boot, !.sess = s,
                     !.via = "register"] \in Locals
    BY <1>0, CeremonyBoot, IdleTyped, LocalsShape, Ranges, PCNames
  <2>4. proc' \in [Procs -> Locals]
    BY <1>0, <1>4, <2>3, GotoTyped DEF registerFinish
  <2>5. QED
    BY <1>4, <2>1, <2>4 DEF TypeInv, TypeOK, Durable, registerFinish, locks, disk
<1>5. ASSUME NEW p \in Procs, NEW c \in Ceremonies, loginFinish(p, c) PROVE TypeInv'
  <2>1. ceremony' \in [Ceremonies -> CeremonyStates] /\ redeemed' \in [Ceremonies -> Nat]
    BY <1>0, <1>5 DEF loginFinish, consumeCeremony, TypeOK, CeremonyStates
  <2>2. [Idle EXCEPT !.pc = "login.lock", !.via = "login"] \in Locals
    BY IdleTyped, LocalsShape, Ranges, PCNames
  <2>3. proc' \in [Procs -> Locals]
    BY <1>0, <1>5, <2>2, GotoTyped DEF loginFinish
  <2>4. QED
    BY <1>5, <2>1, <2>3 DEF TypeInv, TypeOK, Durable, loginFinish, locks, disk
<1>6. ASSUME NEW p \in Procs, Lock(p) \/ VerifyFails(p) PROVE TypeInv'
  <2>1. proc' \in [Procs -> Locals]
    BY <1>0, <1>6, PCNames, IdleTyped, MoveTyped, GotoTyped DEF Lock, VerifyFails, Move
  <2>2. QED
    BY <1>6, <2>1 DEF TypeInv, TypeOK, Durable, Lock, VerifyFails, memory, disk, history
<1>7. ASSUME NEW p \in Procs, registerVerify(p) PROVE TypeInv'
  <2>1. proc' \in [Procs -> Locals]
    BY <1>0, <1>7, PCNames, IdleTyped, MoveTyped, GotoTyped DEF registerVerify, Enrolled, Move
  <2>2. /\ creds' \in 0 .. MaxCreds /\ stored' \in 0 .. MaxCreds /\ acked' \in 0 .. MaxCreds
        /\ Durable'
    BY <1>7, AuthAssumption DEF TypeInv, TypeOK, Durable, registerVerify, persistLocked
  <2>3. QED
    BY <1>7, <2>1, <2>2 DEF TypeInv, TypeOK, registerVerify
<1>8. ASSUME NEW p \in Procs, loginVerify(p) PROVE TypeInv'
  <2>1. proc' \in [Procs -> Locals]
    BY <1>0, <1>8, PCNames, IdleTyped, MoveTyped, GotoTyped DEF loginVerify, Move
  <2>2. stored' \in 0 .. MaxCreds /\ Durable'
    BY <1>8, AuthAssumption
    DEF TypeInv, TypeOK, Durable, loginVerify, persistLocked, memory, history
  <2>3. QED
    BY <1>8, <2>1, <2>2 DEF TypeInv, TypeOK, loginVerify, memory, history
<1>9. ASSUME NEW p \in Procs, lockRecovery(p) PROVE TypeInv'
  <2>1. proc' \in [Procs -> Locals]
    BY <1>0, <1>9, PCNames, MoveTyped, GotoTyped DEF lockRecovery, Move
  <2>2. QED
    BY <1>9, <2>1 DEF TypeInv, TypeOK, Durable, lockRecovery, memory, disk, history
<1>10. ASSUME NEW p \in Procs, recordRecoveryFailure(p) \/ rotateFails(p) \/ issueFails(p)
       PROVE  TypeInv'
  <2>1. Return(p)
    BY <1>10 DEF recordRecoveryFailure, rotateFails, issueFails
  <2>2. fails' \in Nat
    BY <1>0, <1>10 DEF TypeOK, recordRecoveryFailure, rotateFails, issueFails, memory
  <2>3. QED
    BY <1>0, <1>10, <2>1, <2>2, ReturnTyped
    DEF TypeInv, TypeOK, Durable, recordRecoveryFailure, rotateFails, issueFails,
        memory, disk, history
<1>11. ASSUME NEW p \in Procs, SaveRecoveryHash(p) PROVE TypeInv'
  <2>1. drawn.codes + 1 \in Codes /\ drawn.codes + 1 \in CodeNrs
    BY <1>11 DEF SaveRecoveryHash, Codes, CodeNrs
  <2>2. [proc[p] EXCEPT !.pc = "rotate.set", !.new = drawn.codes + 1] \in Locals
    <3>1. proc[p] \in Locals
      BY <1>0 DEF TypeOK
    <3>2. QED
      BY <2>1, <3>1, LocalsShape, PCNames
  <2>3. proc' \in [Procs -> Locals]
    BY <1>0, <1>11, <2>2, GotoTyped DEF SaveRecoveryHash
  <2>4. /\ storedCode' \in 0 .. MaxCodes
        /\ drawn' \in [ceremonies : 0 .. MaxCeremonies, sessions : 0 .. MaxSessions,
                       codes : 0 .. MaxCodes]
    BY <1>0, <1>11, <2>1 DEF TypeOK, SaveRecoveryHash, CodeNrs
  <2>5. raced' \in BOOLEAN
    BY <1>11 DEF SaveRecoveryHash, Overlaps
  <2>6. QED
    BY <1>11, <2>3, <2>4, <2>5 DEF TypeInv, TypeOK, Durable, SaveRecoveryHash, memory, locks
<1>12. ASSUME NEW p \in Procs, rotateSet(p) PROVE TypeInv'
  <2>1. proc' \in [Procs -> Locals] /\ recoveryMu' \in Procs \cup {None}
    BY <1>0, <1>12, PCNames, MoveTyped, GotoTyped, ReturnTyped DEF rotateSet, Move, TypeOK
  <2>2. code' \in 0 .. MaxCodes
    BY <1>0, <1>12, LocalsShape DEF rotateSet, TypeOK, CodeNrs
  <2>3. QED
    BY <1>12, <2>1, <2>2 DEF TypeInv, TypeOK, Durable, rotateSet, disk, history
<1>13. ASSUME NEW p \in Procs, issueSession(p) PROVE TypeInv'
  <2>1. Return(p)
    BY <1>13 DEF issueSession
  <2>2. session' \in [Sessions -> {"fresh", "live", "spent"}]
    BY <1>0, <1>13 DEF TypeOK, issueSession
  <2>3. logins' \in [Codes -> Nat]
    <3>1. logins' = logins \/ logins' = [logins EXCEPT ![proc[p].given] = @ + 1]
      BY <1>13 DEF issueSession
    <3>2. logins \in [Codes -> Nat]
      BY <1>0 DEF TypeOK
    <3>3. QED
      BY <3>1, <3>2
  <2>4. drawn' \in [ceremonies : 0 .. MaxCeremonies, sessions : 0 .. MaxSessions, codes : 0 .. MaxCodes]
    <3>1. drawn' = [drawn EXCEPT !.sessions = drawn.sessions + 1] /\ drawn.sessions + 1 \in Sessions
      BY <1>13 DEF issueSession
    <3>2. drawn.sessions + 1 \in 0 .. MaxSessions
      BY <3>1 DEF Sessions
    <3>3. QED
      BY <1>0, <3>1, <3>2 DEF TypeOK
  <2>5. QED
    BY <1>0, <1>13, <2>1, <2>2, <2>3, <2>4, ReturnTyped DEF TypeInv, TypeOK, Durable, issueSession, disk
<1>14. ASSUME ForgetFailure \/ \E s \in Sessions : EndSession(s) PROVE TypeInv'
  <2>1. fails' \in Nat /\ session' \in [Sessions -> {"fresh", "live", "spent"}]
    BY <1>0, <1>14 DEF ForgetFailure, EndSession, TypeOK
  <2>2. QED
    BY <1>14, <2>1 DEF TypeInv, TypeOK, Durable, ForgetFailure, EndSession, locks, disk, history
<1>15. ASSUME Restart PROVE TypeInv'
  <2>1. ceremony' \in [Ceremonies -> CeremonyStates]
    BY <1>0, <1>15 DEF Restart, TypeOK, CeremonyStates
  <2>2. session' \in [Sessions -> {"fresh", "live", "spent"}] /\ proc' \in [Procs -> Locals]
    BY <1>0, <1>15, IdleTyped DEF Restart, TypeOK
  <2>3. raced' \in BOOLEAN
    BY <1>15, Zenon DEF Restart
  <2>4. fails' \in Nat /\ creds' = stored /\ code' = storedCode /\ mu' = None /\ recoveryMu' = None
        /\ UNCHANGED <<stored, storedCode, drawn, redeemed, logins, acked>>
    BY <1>15 DEF Restart, load, loadRecovery, disk
  <2>5. Durable'
    BY <2>4 DEF TypeInv, TypeOK, Durable
  <2>6. QED
    BY <2>1, <2>2, <2>3, <2>4, <2>5 DEF TypeInv, TypeOK
<1>16. ASSUME UNCHANGED vars PROVE TypeInv'
  BY <1>16 DEF vars, memory, locks, disk, history, TypeInv, TypeOK, Durable
<1>17. QED
  BY <1>1, <1>2, <1>3, <1>4, <1>5, <1>6, <1>7, <1>8, <1>9, <1>10, <1>11, <1>12, <1>13, <1>14,
     <1>15, <1>16 DEF Next, Start, Step, Quiet

(* Every variable keeps its type, however many requests are served.          *)
THEOREM AuthTypes == Spec => []TypeOK
<1>1. TypeInv => TypeOK
  BY DEF TypeInv
<1>2. QED
  BY <1>1, InitTypeInv, NextTypeInv, PTL DEF Spec

----------------------------------------------------------------------------
(* Locks *)

(* Request p goes on with the locals l, and takes or gives back the locks    *)
(* that belong to its new step.                                              *)
HandsOver(p, l) ==
  /\ Goto(p, l)
  /\ ViaOK(l)
  /\ \A q \in Procs : mu' = q <=> IF q = p THEN l.pc \in UnderMu ELSE mu = q
  /\ \A q \in Procs : recoveryMu' = q <=> IF q = p THEN NeedsRecoveryMu(l) ELSE recoveryMu = q

(* Such a step keeps locks and sections together. *)
LEMMA LocksKept ==
  ASSUME TypeOK, LockInv, NEW p \in Procs, NEW l \in Locals, HandsOver(p, l)
  PROVE  LockInv'
<1>1. \A q \in Procs : proc'[q] = IF q = p THEN l ELSE proc[q]
  BY DEF HandsOver, Goto, TypeOK
<1>2. QED
  BY <1>1 DEF LockInv, HandsOver

(* A request outside both sections, before and after, takes no lock. *)
LEMMA NoLock ==
  ASSUME TypeOK, LockInv, NEW p \in Procs, NEW l \in Locals, Goto(p, l), ViaOK(l),
         UNCHANGED <<mu, recoveryMu>>,
         proc[p].pc \notin UnderMu, l.pc \notin UnderMu,
         NeedsRecoveryMu(l) <=> NeedsRecoveryMu(proc[p])
  PROVE  LockInv'
<1>1. HandsOver(p, l)
  BY DEF HandsOver, LockInv
<1>2. QED
  BY <1>1, LocksKept

(* A request that is not served needs no lock and has no business left. *)
LEMMA IdleFree ==
  /\ Idle.pc = "idle" /\ Idle.pc \notin UnderMu /\ ViaOK(Idle)
  /\ ~NeedsRecoveryMu(Idle) /\ ~Enrolling(Idle) /\ ~Recovering(Idle)
BY DEF Idle, Enrolling, Recovering, ViaOK, NeedsRecoveryMu, UnderMu, UnderRecoveryMu, Rotating

(* Returning gives back the lock that is held. *)
LEMMA ReturnUnlocks ==
  ASSUME TypeOK, LockInv, NEW p \in Procs, Return(p), UNCHANGED mu, proc[p].pc \notin UnderMu
  PROVE  LockInv'
<1>1. HandsOver(p, Idle)
  BY IdleFree, AuthAssumption DEF HandsOver, Return, LockInv
<1>2. QED
  BY <1>1, IdleTyped, LocksKept

(* A request that moves keeps its other locals. *)
LEMMA MoveLocals ==
  ASSUME TypeOK, NEW p \in Procs, NEW at \in PCs, NEW l, l = [proc[p] EXCEPT !.pc = at]
  PROVE  /\ l \in Locals /\ l.pc = at /\ l.via = proc[p].via
         /\ l.given = proc[p].given /\ l.new = proc[p].new
<1>1. proc[p] \in Locals
  BY DEF TypeOK
<1>2. QED
  BY <1>1, LocalsShape

(* Nobody holds a lock at first. *)
LEMMA InitLockInv == Init => LockInv
BY IdleFree, AuthAssumption DEF Init, LockInv

(* Every step takes the lock of the section it enters and gives back the one *)
(* of the section it leaves.                                                 *)
LEMMA NextLockInv == TypeInv /\ LockInv /\ [Next]_vars => LockInv'
<1> SUFFICES ASSUME TypeInv, LockInv, [Next]_vars PROVE LockInv'
  OBVIOUS
<1> USE DEF UnderMu, UnderRecoveryMu, Rotating
<1>0. TypeOK
  BY DEF TypeInv
<1>a. ASSUME NEW p \in Procs, NEW l \in Locals, Goto(p, l), UNCHANGED <<mu, recoveryMu>>,
             proc[p].pc = "idle",
             \/ l.pc \in {"begin.register", "begin.login", "guard.ready", "guard.csrf"}
             \/ l.pc = "recovery.wait" /\ l.via = "recovery"
             \/ l.pc = "rotate.wait" /\ l.via = "rotate"
             \/ l.pc = "register.check" /\ l.via = "register"
             \/ l.pc = "login.lock" /\ l.via = "login"
      PROVE  LockInv'
  <2>1. ViaOK(l) /\ ~NeedsRecoveryMu(l) /\ ~NeedsRecoveryMu(proc[p])
    BY <1>a DEF ViaOK, NeedsRecoveryMu
  <2>2. QED
    BY <1>0, <1>a, <2>1, NoLock
<1>b. ASSUME NEW p \in Procs, Goto(p, Idle), UNCHANGED <<mu, recoveryMu>>,
             proc[p].pc \in {"begin.register", "begin.login", "register.check",
                             "guard.ready", "guard.csrf", "act"}
      PROVE  LockInv'
  <2>1. ~NeedsRecoveryMu(proc[p])
    BY <1>b DEF NeedsRecoveryMu
  <2>2. QED
    BY <1>0, <1>b, <2>1, IdleFree, IdleTyped, NoLock
<1>1. ASSUME NEW p \in Procs, loginBegin(p) PROVE LockInv'
  <2>1. /\ [Idle EXCEPT !.pc = "begin.login"] \in Locals
        /\ [Idle EXCEPT !.pc = "begin.login"].pc = "begin.login"
    BY IdleTyped, LocalsShape, Ranges, PCNames
  <2>2. QED
    BY <1>1, <1>a, <2>1 DEF loginBegin, locks
<1>2. ASSUME NEW p \in Procs, NEW s \in Sessions \cup {0}, registerBegin(p, s) PROVE LockInv'
  <2>1. PICK l \in Locals : Goto(p, l) /\ l.pc = "begin.register"
    <3>1. /\ [Idle EXCEPT !.pc = "begin.register", !.boot = (creds = 0)] \in Locals
          /\ [Idle EXCEPT !.pc = "begin.register", !.boot = (creds = 0)].pc = "begin.register"
      BY IdleTyped, LocalsShape, Ranges, PCNames
    <3>2. QED
      BY <1>2, <3>1 DEF registerBegin
  <2>2. QED
    BY <1>2, <1>a, <2>1 DEF registerBegin, locks
<1>3. ASSUME NEW p \in Procs, NEW k \in Codes \cup {0}, recoveryLogin(p, k) PROVE LockInv'
  <2>1. PICK l \in Locals : Goto(p, l) /\ l.pc = "recovery.wait" /\ l.via = "recovery"
    <3> DEFINE l == [Idle EXCEPT !.pc = "recovery.wait", !.given = k, !.via = "recovery"]
    <3>1. l \in Locals /\ l.pc = "recovery.wait" /\ l.via = "recovery"
      BY IdleTyped, LocalsShape, Ranges, PCNames
    <3>2. QED
      BY <1>3, <3>1 DEF recoveryLogin
  <2>2. QED
    BY <1>3, <1>a, <2>1 DEF recoveryLogin, locks
<1>4. ASSUME NEW p \in Procs, NEW s \in Sessions, recoveryRotate(p, s) PROVE LockInv'
  <2>1. PICK l \in Locals : Goto(p, l) /\ l.pc = "rotate.wait" /\ l.via = "rotate"
    <3> DEFINE l == [Idle EXCEPT !.pc = "rotate.wait", !.via = "rotate"]
    <3>1. l \in Locals /\ l.pc = "rotate.wait" /\ l.via = "rotate"
      BY IdleTyped, LocalsShape, Ranges, PCNames
    <3>2. QED
      BY <1>4, <3>1 DEF recoveryRotate
  <2>2. QED
    BY <1>4, <1>a, <2>1 DEF recoveryRotate, locks
<1>5. ASSUME NEW p \in Procs, NEW s \in Sessions, NEW route \in Routes, Require(p, s, route)
      PROVE  LockInv'
  <2>1. PICK l \in Locals : Goto(p, l) /\ l.pc \in {"guard.ready", "guard.csrf"}
    <3> DEFINE l == [Idle EXCEPT !.pc = IF Operational(route) THEN "guard.ready" ELSE "guard.csrf",
                                 !.sess = s, !.via = route]
    <3>1. l \in Locals /\ l.pc \in {"guard.ready", "guard.csrf"}
      BY IdleTyped, LocalsShape, Ranges, PCNames
    <3>2. QED
      BY <1>5, <3>1 DEF Require
  <2>2. QED
    BY <1>5, <1>a, <2>1 DEF Require, locks
<1>6. ASSUME NEW p \in Procs, registerCheck(p) PROVE LockInv'
  <2>1. CASE Goto(p, Idle)
    BY <1>6, <1>b, <2>1 DEF registerCheck, locks
  <2>2. CASE Goto(p, [proc[p] EXCEPT !.pc = "register.lock", !.sess = 0])
    <3> DEFINE l == [proc[p] EXCEPT !.pc = "register.lock", !.sess = 0]
    <3>1. proc[p] \in Locals
      BY <1>0 DEF TypeOK
    <3>2. l \in Locals /\ l.pc = "register.lock" /\ l.via = proc[p].via
      BY <3>1, LocalsShape, Ranges, PCNames
    <3>3. proc[p].pc = "register.check" /\ proc[p].via = "register" /\ UNCHANGED <<mu, recoveryMu>>
      BY <1>6 DEF registerCheck, locks, LockInv, ViaOK
    <3>4. ViaOK(l) /\ ~NeedsRecoveryMu(l) /\ ~NeedsRecoveryMu(proc[p])
      BY <3>2, <3>3 DEF ViaOK, NeedsRecoveryMu
    <3>5. QED
      BY <1>0, <2>2, <3>2, <3>3, <3>4, NoLock
  <2>3. QED
    BY <1>6, <2>1, <2>2 DEF registerCheck
<1>7. ASSUME NEW p \in Procs, beginCeremony(p) \/ Handle(p) PROVE LockInv'
  BY <1>7, <1>b DEF beginCeremony, Handle, locks
<1>8. ASSUME NEW p \in Procs, requireOperational(p) \/ requireCSRF(p) PROVE LockInv'
  <2>1. CASE Goto(p, Idle)
    BY <1>8, <1>b, <2>1 DEF requireOperational, requireCSRF, locks
  <2>2. ASSUME NEW at \in {"guard.csrf", "act"}, Move(p, at) PROVE LockInv'
    <3> DEFINE l == [proc[p] EXCEPT !.pc = at]
    <3>1. l \in Locals /\ l.pc = at /\ at \in PCs
      BY <1>0, PCNames, MoveLocals
    <3>2. proc[p].pc \in {"guard.ready", "guard.csrf"} /\ UNCHANGED <<mu, recoveryMu>>
      BY <1>8 DEF requireOperational, requireCSRF, locks
    <3>3. ViaOK(l) /\ ~NeedsRecoveryMu(l) /\ ~NeedsRecoveryMu(proc[p])
      BY <3>1, <3>2 DEF ViaOK, NeedsRecoveryMu
    <3>4. QED
      BY <1>0, <2>2, <3>1, <3>2, <3>3, NoLock DEF Move
  <2>3. QED
    BY <1>8, <2>1, <2>2 DEF requireOperational, requireCSRF
<1>9. ASSUME NEW p \in Procs, NEW c \in Ceremonies, NEW s \in Sessions \cup {0},
             registerFinish(p, c, s)
      PROVE  LockInv'
  <2>1. PICK l \in Locals : Goto(p, l) /\ l.pc = "register.check" /\ l.via = "register"
    <3> DEFINE l == [Idle EXCEPT !.pc = "register.check", !.boot = ceremony[c].boot,
                                 !.sess = s, !.via = "register"]
    <3>1. l \in Locals /\ l.pc = "register.check" /\ l.via = "register"
      BY <1>0, CeremonyBoot, IdleTyped, LocalsShape, Ranges, PCNames
    <3>2. QED
      BY <1>9, <3>1 DEF registerFinish
  <2>2. QED
    BY <1>9, <1>a, <2>1 DEF registerFinish, locks
<1>10. ASSUME NEW p \in Procs, NEW c \in Ceremonies, loginFinish(p, c) PROVE LockInv'
  <2>1. PICK l \in Locals : Goto(p, l) /\ l.pc = "login.lock" /\ l.via = "login"
    <3> DEFINE l == [Idle EXCEPT !.pc = "login.lock", !.via = "login"]
    <3>1. l \in Locals /\ l.pc = "login.lock" /\ l.via = "login"
      BY IdleTyped, LocalsShape, Ranges, PCNames
    <3>2. QED
      BY <1>10, <3>1 DEF loginFinish
  <2>2. QED
    BY <1>10, <1>a, <2>1 DEF loginFinish, locks
<1>11. ASSUME NEW p \in Procs, Lock(p) PROVE LockInv'
  <2> DEFINE at == IF proc[p].pc = "register.lock" THEN "register.verify" ELSE "login.verify"
             l == [proc[p] EXCEPT !.pc = at]
  <2>1. l \in Locals /\ l.pc = at /\ l.via = proc[p].via
    BY <1>0, PCNames, MoveLocals
  <2>2. /\ proc[p].pc \in {"register.lock", "login.lock"} /\ mu = None /\ mu' = p
        /\ Goto(p, l) /\ UNCHANGED recoveryMu
    BY <1>11 DEF Lock, Unlocked, Move
  <2>3. ViaOK(l) /\ ~NeedsRecoveryMu(l) /\ ~NeedsRecoveryMu(proc[p])
    BY <2>1, <2>2 DEF LockInv, ViaOK, NeedsRecoveryMu
  <2>4. HandsOver(p, l)
    BY <2>1, <2>2, <2>3, AuthAssumption DEF HandsOver, LockInv
  <2>5. QED
    BY <1>0, <2>1, <2>4, LocksKept
<1>12. ASSUME NEW p \in Procs, NEW l \in Locals, Goto(p, l), mu' = None, UNCHANGED recoveryMu,
              proc[p].pc \in UnderMu, l.pc \notin UnderMu, ViaOK(l), ~NeedsRecoveryMu(l)
       PROVE  LockInv'
  <2>1. ~NeedsRecoveryMu(proc[p])
    BY <1>12 DEF NeedsRecoveryMu
  <2>2. HandsOver(p, l)
    BY <1>12, <2>1, AuthAssumption DEF HandsOver, LockInv
  <2>3. QED
    BY <1>0, <1>12, <2>2, LocksKept
<1>13. ASSUME NEW p \in Procs, VerifyFails(p) PROVE LockInv'
  BY <1>12, <1>13, IdleFree, IdleTyped DEF VerifyFails
<1>14. ASSUME NEW p \in Procs, registerVerify(p) \/ loginVerify(p) PROVE LockInv'
  <2>1. CASE Goto(p, Idle)
    BY <1>12, <1>14, <2>1, IdleFree, IdleTyped DEF registerVerify, loginVerify
  <2>2. ASSUME NEW at \in {"rotate.save", "issue"}, Move(p, at),
               at = "rotate.save" => proc[p].pc = "register.verify"
        PROVE  LockInv'
    <3> DEFINE l == [proc[p] EXCEPT !.pc = at]
    <3>1. l \in Locals /\ l.pc = at /\ l.via = proc[p].via
      BY <1>0, PCNames, MoveLocals
    <3>2. /\ proc[p].pc \in UnderMu /\ mu' = None /\ Goto(p, l) /\ UNCHANGED recoveryMu
      BY <1>14, <2>2 DEF registerVerify, loginVerify, Move
    <3>3. ViaOK(l) /\ ~NeedsRecoveryMu(l)
      BY <2>2, <3>1, <3>2 DEF LockInv, ViaOK, NeedsRecoveryMu
    <3>4. QED
      BY <1>12, <3>1, <3>2, <3>3
  <2>3. QED
    BY <1>14, <2>1, <2>2 DEF registerVerify, loginVerify, Enrolled
<1>15. ASSUME NEW p \in Procs, lockRecovery(p) PROVE LockInv'
  <2> DEFINE at == IF proc[p].via = "recovery" THEN "recovery.check" ELSE "rotate.save"
             l == [proc[p] EXCEPT !.pc = at]
  <2>1. l \in Locals /\ l.pc = at /\ l.via = proc[p].via
    BY <1>0, PCNames, MoveLocals
  <2>2. /\ proc[p].pc \in {"recovery.wait", "rotate.wait"} /\ recoveryMu = None /\ recoveryMu' = p
        /\ Goto(p, l) /\ UNCHANGED mu
    BY <1>15 DEF lockRecovery, Move
  <2>3. ViaOK(l) /\ NeedsRecoveryMu(l)
    BY <2>1, <2>2 DEF LockInv, ViaOK, NeedsRecoveryMu
  <2>4. HandsOver(p, l)
    BY <2>1, <2>2, <2>3, AuthAssumption DEF HandsOver, LockInv
  <2>5. QED
    BY <1>0, <2>1, <2>4, LocksKept
<1>16. ASSUME NEW p \in Procs, validRecoveryCode(p) PROVE LockInv'
  <2>1. PICK at \in {"rotate.save", "recovery.fail"} : Move(p, at)
    BY <1>16 DEF validRecoveryCode
  <2> DEFINE l == [proc[p] EXCEPT !.pc = at]
  <2>2. l \in Locals /\ l.pc = at /\ l.via = proc[p].via
    BY <1>0, PCNames, MoveLocals
  <2>3. proc[p].pc = "recovery.check" /\ UNCHANGED <<mu, recoveryMu>> /\ Goto(p, l)
    BY <1>16, <2>1 DEF validRecoveryCode, locks, Move
  <2>4. ViaOK(l) /\ NeedsRecoveryMu(l) /\ NeedsRecoveryMu(proc[p])
    BY <2>2, <2>3 DEF LockInv, ViaOK, NeedsRecoveryMu
  <2>5. QED
    BY <1>0, <2>2, <2>3, <2>4, NoLock
<1>17. ASSUME NEW p \in Procs,
              recordRecoveryFailure(p) \/ rotateFails(p) \/ issueSession(p) \/ issueFails(p)
       PROVE  LockInv'
  BY <1>0, <1>17, ReturnUnlocks DEF recordRecoveryFailure, rotateFails, issueSession, issueFails
<1>18. ASSUME NEW p \in Procs, SaveRecoveryHash(p) PROVE LockInv'
  <2> DEFINE l == [proc[p] EXCEPT !.pc = "rotate.set", !.new = drawn.codes + 1]
  <2>1. l \in Locals /\ l.pc = "rotate.set" /\ l.via = proc[p].via
    BY <1>0, <1>18, SaveLocals
  <2>2. proc[p].pc = "rotate.save" /\ UNCHANGED <<mu, recoveryMu>> /\ Goto(p, l)
    BY <1>18 DEF SaveRecoveryHash, locks
  <2>3. ViaOK(l) /\ (NeedsRecoveryMu(l) <=> NeedsRecoveryMu(proc[p]))
    BY <2>1, <2>2 DEF LockInv, ViaOK, NeedsRecoveryMu
  <2>4. QED
    BY <1>0, <2>1, <2>2, <2>3, NoLock
<1>19. ASSUME NEW p \in Procs, rotateSet(p) PROVE LockInv'
  <2>1. CASE proc[p].via = "rotate"
    BY <1>0, <1>19, <2>1, ReturnUnlocks DEF rotateSet
  <2>2. CASE proc[p].via # "rotate"
    <3> DEFINE l == [proc[p] EXCEPT !.pc = "issue"]
    <3>1. l \in Locals /\ l.pc = "issue" /\ l.via = proc[p].via
      BY <1>0, PCNames, MoveLocals
    <3>2. proc[p].pc = "rotate.set" /\ UNCHANGED <<mu, recoveryMu>> /\ Goto(p, l)
      BY <1>19, <2>2 DEF rotateSet, Move
    <3>3. ViaOK(l) /\ (NeedsRecoveryMu(l) <=> NeedsRecoveryMu(proc[p]))
      BY <2>2, <3>1, <3>2 DEF LockInv, ViaOK, NeedsRecoveryMu
    <3>4. QED
      BY <1>0, <3>1, <3>2, <3>3, NoLock
  <2>3. QED
    BY <2>1, <2>2
<1>20. ASSUME Restart PROVE LockInv'
  <2>1. /\ mu' = None /\ recoveryMu' = None /\ \A p \in Procs : proc'[p] = Idle
    BY <1>20 DEF Restart
  <2>2. QED
    BY <2>1, IdleFree, AuthAssumption DEF LockInv
<1>21. ASSUME UNCHANGED <<mu, recoveryMu, proc>> PROVE LockInv'
  BY <1>21 DEF LockInv
<1>22. ASSUME NEW c \in Ceremonies, ExpireCeremony(c) \/ consumeRefused(c) PROVE LockInv'
  BY <1>21, <1>22 DEF ExpireCeremony, consumeRefused, locks
<1>23. ASSUME ForgetFailure \/ (\E s \in Sessions : EndSession(s)) \/ UNCHANGED vars
       PROVE  LockInv'
  BY <1>21, <1>23 DEF ForgetFailure, EndSession, locks, vars
<1>24. QED
  BY <1>1, <1>2, <1>3, <1>4, <1>5, <1>6, <1>7, <1>8, <1>9, <1>10, <1>11, <1>13, <1>14, <1>15,
     <1>16, <1>17, <1>18, <1>19, <1>20, <1>22, <1>23 DEF Next, Start, Step

(* Types and locks hold in every state. *)
LEMMA Foundations == Spec => [](TypeInv /\ LockInv)
BY InitTypeInv, NextTypeInv, InitLockInv, NextLockInv, PTL DEF Spec

(* Whoever holds a lock is inside the section that the lock guards, for any  *)
(* number of requests: no path of the handlers, their refusals included,     *)
(* leaves with a lock, and no restart finds one taken.                       *)
THEOREM LocksReleased == Spec => []LocksAreReleased
<1>1. TypeInv /\ LockInv => LocksAreReleased
  <2> SUFFICES ASSUME TypeInv, LockInv PROVE LocksAreReleased
    OBVIOUS
  <2>1. mu \in Procs \cup {None} /\ recoveryMu \in Procs \cup {None}
    BY DEF TypeInv, TypeOK
  <2>2. mu # None => proc[mu].pc \in UnderMu
    BY <2>1 DEF LockInv
  <2>3. recoveryMu # None => NeedsRecoveryMu(proc[recoveryMu]) /\ ViaOK(proc[recoveryMu])
    BY <2>1 DEF LockInv
  <2>4. QED
    BY <2>2, <2>3
    DEF LocksAreReleased, UnderMu, NeedsRecoveryMu, ViaOK, UnderRecoveryMu, Rotating
<1>2. QED
  BY <1>1, Foundations, PTL

----------------------------------------------------------------------------
(* What the steps of a request leave alone *)

(* The steps that touch neither passkeys nor codes nor sessions, and lead to *)
(* no step that does.                                                        *)
Plain(p) ==
  \/ loginBegin(p)
  \/ \E s \in Sessions \cup {0} : registerBegin(p, s)
  \/ \E c \in Ceremonies, s \in Sessions \cup {0} : registerFinish(p, c, s)
  \/ \E c \in Ceremonies : loginFinish(p, c)
  \/ \E k \in Codes \cup {0} : recoveryLogin(p, k)
  \/ beginCeremony(p) \/ registerCheck(p) \/ Lock(p) \/ VerifyFails(p)
  \/ recordRecoveryFailure(p) \/ rotateFails(p) \/ issueFails(p) \/ Handle(p)

PlainPCs == {"idle", "begin.register", "begin.login", "register.check", "register.lock",
             "register.verify", "login.lock", "login.verify", "recovery.wait"}

Kept == <<creds, stored, acked, code, storedCode, session, drawn.codes, logins, raced>>

ToPlain(p) ==
  \E l \in Locals : /\ Goto(p, l) /\ l.pc \in PlainPCs
                    /\ l.pc = "recovery.wait" => \E k \in Codes \cup {0} : recoveryLogin(p, k)

(* After such a step the request is at a plain step. *)
LEMMA PlainMoves ==
  ASSUME TypeOK, NEW p \in Procs, Plain(p)
  PROVE  /\ UNCHANGED Kept /\ proc[p].pc # "rotate.set"
         /\ ToPlain(p)
<1> USE DEF PlainPCs, ToPlain
<1>0. proc[p].pc # "rotate.set"
  BY DEF Plain, loginBegin, registerBegin, registerFinish, loginFinish, recoveryLogin,
         beginCeremony, registerCheck, Lock, VerifyFails, recordRecoveryFailure, rotateFails,
         issueFails, Handle
<1>1. UNCHANGED Kept
  <2>1. UNCHANGED <<creds, stored, acked, code, storedCode, session, logins, raced>>
    BY DEF Plain, loginBegin, registerBegin, registerFinish, loginFinish, recoveryLogin,
           beginCeremony, registerCheck, Lock, VerifyFails, recordRecoveryFailure, rotateFails,
           issueFails, Handle, memory, disk, history
  <2>2. drawn'.codes = drawn.codes
    <3>1. drawn' = drawn \/ drawn' = [drawn EXCEPT !.ceremonies = drawn.ceremonies + 1]
      BY DEF Plain, loginBegin, registerBegin, registerFinish, loginFinish, recoveryLogin,
             beginCeremony, registerCheck, Lock, VerifyFails, recordRecoveryFailure, rotateFails,
             issueFails, Handle
    <3>2. QED
      BY <3>1 DEF TypeOK
  <2>3. QED
    BY <2>1, <2>2 DEF Kept
<1>2. CASE Goto(p, Idle)
  BY <1>0, <1>1, <1>2, IdleTyped, IdleFree
<1>3. CASE loginBegin(p)
  <2> DEFINE l == [Idle EXCEPT !.pc = "begin.login"]
  <2>1. l \in Locals /\ l.pc = "begin.login"
    BY IdleTyped, LocalsShape, Ranges, PCNames
  <2>2. QED
    BY <1>0, <1>1, <1>3, <2>1 DEF loginBegin
<1>4. ASSUME NEW s \in Sessions \cup {0}, registerBegin(p, s)
      PROVE  ToPlain(p)
  <2> DEFINE l == [Idle EXCEPT !.pc = "begin.register", !.boot = (creds = 0)]
  <2>1. l \in Locals /\ l.pc = "begin.register"
    BY IdleTyped, LocalsShape, Ranges, PCNames
  <2>2. QED
    BY <1>4, <2>1 DEF registerBegin
<1>5. ASSUME NEW c \in Ceremonies, NEW s \in Sessions \cup {0}, registerFinish(p, c, s)
      PROVE  ToPlain(p)
  <2> DEFINE l == [Idle EXCEPT !.pc = "register.check", !.boot = ceremony[c].boot,
                               !.sess = s, !.via = "register"]
  <2>1. l \in Locals /\ l.pc = "register.check"
    BY CeremonyBoot, IdleTyped, LocalsShape, Ranges, PCNames
  <2>2. QED
    BY <1>5, <2>1 DEF registerFinish
<1>6. ASSUME NEW c \in Ceremonies, loginFinish(p, c)
      PROVE  ToPlain(p)
  <2> DEFINE l == [Idle EXCEPT !.pc = "login.lock", !.via = "login"]
  <2>1. l \in Locals /\ l.pc = "login.lock"
    BY IdleTyped, LocalsShape, Ranges, PCNames
  <2>2. QED
    BY <1>6, <2>1 DEF loginFinish
<1>7. ASSUME NEW k \in Codes \cup {0}, recoveryLogin(p, k)
      PROVE  ToPlain(p)
  <2> DEFINE l == [Idle EXCEPT !.pc = "recovery.wait", !.given = k, !.via = "recovery"]
  <2>1. l \in Locals /\ l.pc = "recovery.wait"
    BY IdleTyped, LocalsShape, Ranges, PCNames
  <2>2. QED
    BY <1>7, <2>1 DEF recoveryLogin
<1>8. CASE Goto(p, [proc[p] EXCEPT !.pc = "register.lock", !.sess = 0])
  <2> DEFINE l == [proc[p] EXCEPT !.pc = "register.lock", !.sess = 0]
  <2>1. proc[p] \in Locals
    BY DEF TypeOK
  <2>2. l \in Locals /\ l.pc = "register.lock"
    BY <2>1, LocalsShape, Ranges, PCNames
  <2>3. QED
    BY <1>0, <1>1, <1>8, <2>2
<1>9. CASE Lock(p)
  <2>1. PICK at \in {"register.verify", "login.verify"} : Move(p, at)
    BY <1>9 DEF Lock
  <2> DEFINE l == [proc[p] EXCEPT !.pc = at]
  <2>2. l \in Locals /\ l.pc = at
    BY PCNames, MoveLocals
  <2>3. QED
    BY <1>0, <1>1, <2>1, <2>2 DEF Move
<1>10. QED
  BY <1>0, <1>1, <1>2, <1>3, <1>4, <1>5, <1>6, <1>7, <1>8, <1>9
  DEF Plain, beginCeremony, registerCheck, VerifyFails, recordRecoveryFailure, rotateFails,
      issueFails, Handle, Return

(* The steps of time and of the browsers that no request takes. *)
Aside ==
  \/ \E c \in Ceremonies : ExpireCeremony(c) \/ consumeRefused(c)
  \/ \E s \in Sessions : EndSession(s)
  \/ ForgetFailure
  \/ UNCHANGED vars

(* They change no passkey, no code and no request, and revive no session. *)
LEMMA AsideKeeps ==
  ASSUME TypeOK, Aside
  PROVE  /\ UNCHANGED <<creds, stored, acked, code, storedCode, drawn, logins, raced, proc>>
         /\ \A s \in Sessions : session'[s] = "live" => session[s] = "live"
BY DEF Aside, ExpireCeremony, consumeRefused, EndSession, ForgetFailure, vars, memory, disk,
       history, TypeOK

(* The other requests keep their locals. *)
LEMMA GotoLocals ==
  ASSUME TypeOK, NEW p \in Procs, NEW l, Goto(p, l)
  PROVE  \A q \in Procs : proc'[q] = IF q = p THEN l ELSE proc[q]
BY DEF Goto, TypeOK

(* The steps of a request, sorted. *)
LEMMA StepsSorted ==
  ASSUME [Next]_vars
  PROVE  \/ Aside \/ Restart
         \/ \E p \in Procs :
              \/ Plain(p)
              \/ \E s \in Sessions : recoveryRotate(p, s)
              \/ \E s \in Sessions, route \in Routes : Require(p, s, route)
              \/ registerVerify(p) \/ loginVerify(p) \/ lockRecovery(p) \/ validRecoveryCode(p)
              \/ SaveRecoveryHash(p) \/ rotateSet(p) \/ issueSession(p)
              \/ requireOperational(p) \/ requireCSRF(p)
BY DEF Next, Start, Step, Aside, Plain

----------------------------------------------------------------------------
(* Passkeys *)

(* Nothing that is stored is lost. *)
LEMMA StoredGrows == TypeInv /\ [Next]_vars => stored' >= stored /\ stored' \in Nat
<1> SUFFICES ASSUME TypeInv, [Next]_vars PROVE stored' >= stored /\ stored' \in Nat
  OBVIOUS
<1>1. stored \in Nat /\ creds \in Nat /\ stored <= creds /\ TypeOK
  BY AuthAssumption DEF TypeInv, TypeOK, Durable
<1>2. stored' = stored \/ stored' = creds \/ stored' = creds + 1
  <2>1. CASE Aside \/ Restart
    BY <1>1, <2>1, AsideKeeps DEF Restart, disk
  <2>2. ASSUME NEW p \in Procs, Plain(p) PROVE UNCHANGED stored
    BY <1>1, <2>2, PlainMoves DEF Kept
  <2>3. ASSUME NEW p \in Procs,
               \/ \E s \in Sessions : recoveryRotate(p, s)
               \/ \E s \in Sessions, route \in Routes : Require(p, s, route)
               \/ registerVerify(p) \/ loginVerify(p) \/ lockRecovery(p) \/ validRecoveryCode(p)
               \/ SaveRecoveryHash(p) \/ rotateSet(p) \/ issueSession(p)
               \/ requireOperational(p) \/ requireCSRF(p)
        PROVE  stored' = stored \/ stored' = creds \/ stored' = creds + 1
    BY <2>3 DEF recoveryRotate, Require, registerVerify, loginVerify, lockRecovery,
                validRecoveryCode, SaveRecoveryHash, rotateSet, issueSession,
                requireOperational, requireCSRF, persistLocked, disk
  <2>4. QED
    BY <2>1, <2>2, <2>3, StepsSorted
<1>3. QED
  BY <1>1, <1>2

(* At first there is neither a code nor a session. *)
LEMMA InitPasskeyInv == Init => PasskeyInv
<1> SUFFICES ASSUME Init PROVE PasskeyInv
  OBVIOUS
<1>1. \A p \in Procs : proc[p] = Idle
  BY DEF Init
<1>2. QED
  BY <1>1, IdleFree DEF Init, PasskeyInv

(* While no credential is stored no step leads to a code or a session.       *)
LEMMA NextPasskeyInv == TypeInv /\ LockInv /\ PasskeyInv /\ [Next]_vars => PasskeyInv'
<1> SUFFICES ASSUME TypeInv, LockInv, PasskeyInv, [Next]_vars, stored' = 0
             PROVE  PasskeyInv'
  BY DEF PasskeyInv
<1>0. TypeOK
  BY DEF TypeInv
<1>1. /\ stored = 0 /\ code = 0 /\ storedCode = 0
      /\ \A s \in Sessions : session[s] # "live"
      /\ \A p \in Procs : ~Enrolling(proc[p])
  <2>1. stored = 0
    BY StoredGrows DEF TypeInv, TypeOK
  <2>2. QED
    BY <2>1 DEF PasskeyInv
<1>2. ASSUME NEW p \in Procs, NEW l, Goto(p, l), ~Enrolling(l), UNCHANGED <<code, storedCode, session>>
      PROVE  PasskeyInv'
  BY <1>0, <1>1, <1>2, GotoLocals DEF PasskeyInv
<1>3. CASE Aside
  BY <1>0, <1>1, <1>3, AsideKeeps DEF PasskeyInv
<1>4. CASE Restart
  <2>1. /\ code' = storedCode /\ storedCode' = storedCode
        /\ \A p \in Procs : proc'[p] = Idle
        /\ \A s \in Sessions : session'[s] # "live"
    BY <1>1, <1>4 DEF Restart, loadRecovery, disk
  <2>2. QED
    BY <1>1, <2>1, IdleFree DEF PasskeyInv
<1>5. ASSUME NEW p \in Procs, Plain(p) PROVE PasskeyInv'
  <2>1. PICK l \in Locals : Goto(p, l) /\ l.pc \in PlainPCs
    BY <1>0, <1>5, PlainMoves DEF ToPlain
  <2>2. ~Enrolling(l)
    BY <2>1 DEF Enrolling, Rotating, PlainPCs
  <2>3. QED
    BY <1>0, <1>2, <1>5, <2>1, <2>2, PlainMoves DEF Kept
<1>6. ASSUME NEW p \in Procs, NEW s \in Sessions,
             recoveryRotate(p, s) \/ \E route \in Routes : Require(p, s, route)
      PROVE  PasskeyInv'
  BY <1>1, <1>6 DEF recoveryRotate, Require, authenticated
<1>7. ASSUME NEW p \in Procs, registerVerify(p) \/ loginVerify(p) PROVE PasskeyInv'
  <2>1. Goto(p, Idle) /\ UNCHANGED <<code, storedCode, session>>
    BY <1>7 DEF registerVerify, loginVerify, persistLocked, memory, TypeInv, TypeOK
  <2>2. QED
    BY <1>2, <2>1, IdleFree
<1>8. ASSUME NEW p \in Procs, NEW at \in {"recovery.check", "recovery.fail", "guard.csrf", "act"},
             Move(p, at), UNCHANGED <<code, storedCode, session>>
      PROVE  PasskeyInv'
  <2> DEFINE l == [proc[p] EXCEPT !.pc = at]
  <2>1. l.pc = at
    BY <1>0, PCNames, MoveLocals
  <2>2. ~Enrolling(l)
    BY <2>1 DEF Enrolling, Rotating
  <2>3. QED
    BY <1>2, <1>8, <2>2 DEF Move
<1>9. ASSUME NEW p \in Procs, lockRecovery(p) PROVE PasskeyInv'
  <2>1. proc[p].pc = "recovery.wait"
    BY <1>1, <1>9 DEF lockRecovery, Enrolling
  <2>2. proc[p].via = "recovery"
    BY <2>1 DEF LockInv, ViaOK
  <2>3. QED
    BY <1>8, <1>9, <2>2 DEF lockRecovery, memory, disk
<1>10. ASSUME NEW p \in Procs, validRecoveryCode(p) PROVE PasskeyInv'
  BY <1>1, <1>8, <1>10 DEF validRecoveryCode, memory, disk
<1>11. ASSUME NEW p \in Procs, SaveRecoveryHash(p) \/ rotateSet(p) \/ issueSession(p)
       PROVE  PasskeyInv'
  BY <1>1, <1>11 DEF SaveRecoveryHash, rotateSet, issueSession, Enrolling, Rotating
<1>12. ASSUME NEW p \in Procs, requireOperational(p) \/ requireCSRF(p) PROVE PasskeyInv'
  <2>1. CASE Goto(p, Idle)
    BY <1>2, <1>12, <2>1, IdleFree DEF requireOperational, requireCSRF, memory, disk
  <2>2. CASE Move(p, "guard.csrf") \/ Move(p, "act")
    BY <1>8, <1>12, <2>2 DEF requireOperational, requireCSRF, memory, disk
  <2>3. QED
    BY <1>12, <2>1, <2>2 DEF requireOperational, requireCSRF
<1>13. QED
  BY <1>3, <1>4, <1>5, <1>6, <1>7, <1>9, <1>10, <1>11, <1>12, StepsSorted

(* A passkey whose registration was answered without a persistence error is  *)
(* in the database for good, whatever fails or restarts later.               *)
THEOREM EnrolledDurable == Spec => []EnrolledIsDurable
<1>1. TypeInv => EnrolledIsDurable
  BY DEF TypeInv, Durable, EnrolledIsDurable
<1>2. QED
  BY <1>1, Foundations, PTL

(* There is no session and no recovery code, in memory or stored, before the *)
(* first passkey is in the database: a restart locks nobody out.             *)
THEOREM NobodyLockedOut == Spec => []NeverLockedOut
<1>1. TypeInv /\ PasskeyInv => NeverLockedOut
  BY DEF TypeInv, TypeOK, PasskeyInv, NeverLockedOut
<1>2. QED
  BY <1>1, Foundations, InitPasskeyInv, NextPasskeyInv, PTL DEF Spec

----------------------------------------------------------------------------
(* Readiness *)

(* A step that takes neither passkeys nor the code away, and lets its own    *)
(* request pass only when the system is ready, keeps the guards' promise.    *)
LEMMA ReadyKept ==
  ASSUME TypeOK, ReadyInv, NEW p \in Procs, NEW l, Goto(p, l),
         OperationallyReady => OperationallyReady', ReplacementOK(l),
         Passed(l) => OperationallyReady
  PROVE  ReadyInv'
<1>1. \A q \in Procs : proc'[q] = IF q = p THEN l ELSE proc[q]
  BY GotoLocals
<1>2. \A q \in Procs : ReplacementOK(proc'[q]) /\ (Passed(proc'[q]) => OperationallyReady')
  BY <1>1 DEF ReadyInv
<1>3. QED
  BY <1>2 DEF ReadyInv, ReplacementOK, Passed

(* Nobody has passed a guard at first, or after a restart. *)
LEMMA IdleReady == ~Passed(Idle) /\ ReplacementOK(Idle)
BY DEF Passed, ReplacementOK, Idle

(* The initial state. *)
LEMMA InitReadyInv == Init => ReadyInv
<1> SUFFICES ASSUME Init PROVE ReadyInv
  OBVIOUS
<1>1. \A p \in Procs : proc[p] = Idle
  BY DEF Init
<1>2. QED
  BY <1>1, IdleReady DEF ReadyInv

(* The number of passkeys only grows and the code is only replaced, but for  *)
(* a restart, which ends every request.                                      *)
LEMMA NextReadyInv == TypeInv /\ ReadyInv /\ [Next]_vars => ReadyInv'
<1> SUFFICES ASSUME TypeInv, ReadyInv, [Next]_vars PROVE ReadyInv'
  OBVIOUS
<1>0. TypeOK /\ creds \in Nat
  BY AuthAssumption DEF TypeInv, TypeOK
<1>1. ASSUME NEW p \in Procs, NEW l, Goto(p, l), UNCHANGED <<creds, code>>,
             l.pc \notin {"rotate.set", "guard.csrf", "act"}
      PROVE  ReadyInv'
  <2>1. ReplacementOK(l) /\ ~Passed(l) /\ UNCHANGED OperationallyReady
    BY <1>1 DEF ReplacementOK, Passed, OperationallyReady
  <2>2. QED
    BY <1>0, <1>1, <2>1, ReadyKept
<1>2. CASE Aside
  BY <1>0, <1>2, AsideKeeps DEF ReadyInv, OperationallyReady, Passed, ReplacementOK
<1>3. CASE Restart
  <2>1. \A p \in Procs : proc'[p] = Idle
    BY <1>3 DEF Restart
  <2>2. \A p \in Procs : ReplacementOK(proc'[p]) /\ ~Passed(proc'[p])
    BY <2>1, IdleReady
  <2>3. QED
    BY <2>2 DEF ReadyInv, ReplacementOK, Passed
<1>4. ASSUME NEW p \in Procs, Plain(p) PROVE ReadyInv'
  <2>1. PICK l \in Locals : Goto(p, l) /\ l.pc \in PlainPCs
    BY <1>0, <1>4, PlainMoves DEF ToPlain
  <2>2. UNCHANGED <<creds, code>>
    BY <1>0, <1>4, PlainMoves DEF Kept
  <2>3. QED
    BY <1>1, <2>1, <2>2 DEF PlainPCs
<1>5. ASSUME NEW p \in Procs, NEW s \in Sessions, recoveryRotate(p, s) PROVE ReadyInv'
  <2> DEFINE l == [Idle EXCEPT !.pc = "rotate.wait", !.via = "rotate"]
  <2>1. l.pc = "rotate.wait"
    BY DEF Idle
  <2>2. QED
    BY <1>1, <1>5, <2>1 DEF recoveryRotate, memory
<1>6. ASSUME NEW p \in Procs, NEW s \in Sessions, NEW route \in Routes, Require(p, s, route)
      PROVE  ReadyInv'
  <2> DEFINE l == [Idle EXCEPT !.pc = IF Operational(route) THEN "guard.ready" ELSE "guard.csrf",
                               !.sess = s, !.via = route]
  <2>1. /\ l.via = route
        /\ l.pc = IF Operational(route) THEN "guard.ready" ELSE "guard.csrf"
    BY DEF Idle
  <2>2. ReplacementOK(l) /\ ~Passed(l)
    BY <2>1 DEF ReplacementOK, Passed
  <2>3. Goto(p, l) /\ UNCHANGED OperationallyReady
    BY <1>6 DEF Require, memory, OperationallyReady
  <2>4. QED
    BY <1>0, <2>2, <2>3, ReadyKept
<1>7. ASSUME NEW p \in Procs, registerVerify(p) PROVE ReadyInv'
  <2>1. OperationallyReady => OperationallyReady'
    BY <1>0, <1>7 DEF registerVerify, OperationallyReady
  <2>2. PICK l : Goto(p, l) /\ l.pc \in {"rotate.save", "issue", "idle"}
    <3>1. CASE Goto(p, Idle)
      BY <3>1, IdleFree
    <3>2. ASSUME NEW at \in {"rotate.save", "issue"}, Move(p, at)
          PROVE  \E l : Goto(p, l) /\ l.pc \in {"rotate.save", "issue", "idle"}
      BY <1>0, <3>2, PCNames, MoveLocals DEF Move
    <3>3. QED
      BY <1>7, <3>1, <3>2 DEF registerVerify, Enrolled
  <2>3. ReplacementOK(l) /\ ~Passed(l)
    BY <2>2 DEF ReplacementOK, Passed
  <2>4. QED
    BY <1>0, <2>1, <2>2, <2>3, ReadyKept
<1>8. ASSUME NEW p \in Procs, NEW at \in {"issue", "recovery.check", "recovery.fail", "rotate.save"},
             Move(p, at), UNCHANGED <<creds, code>>
      PROVE  ReadyInv'
  <2> DEFINE l == [proc[p] EXCEPT !.pc = at]
  <2>1. l.pc = at
    BY <1>0, PCNames, MoveLocals
  <2>2. QED
    BY <1>1, <1>8, <2>1 DEF Move
<1>9. ASSUME NEW p \in Procs, loginVerify(p) \/ lockRecovery(p) \/ validRecoveryCode(p)
      PROVE  ReadyInv'
  <2>1. CASE Goto(p, Idle)
    BY <1>1, <1>9, <2>1, IdleFree DEF loginVerify, lockRecovery, validRecoveryCode, memory
  <2>2. CASE ~Goto(p, Idle)
    BY <1>8, <1>9, <2>2 DEF loginVerify, lockRecovery, validRecoveryCode, memory
  <2>3. QED
    BY <2>1, <2>2
<1>10. ASSUME NEW p \in Procs, SaveRecoveryHash(p) PROVE ReadyInv'
  <2> DEFINE l == [proc[p] EXCEPT !.pc = "rotate.set", !.new = drawn.codes + 1]
  <2>0. drawn.codes + 1 # 0
    BY <1>10 DEF SaveRecoveryHash, Codes
  <2>1. l.pc = "rotate.set" /\ l.new = drawn.codes + 1
    BY <1>0, <1>10, SaveLocals
  <2>2. ReplacementOK(l) /\ ~Passed(l)
    BY <2>0, <2>1 DEF ReplacementOK, Passed
  <2>3. Goto(p, l) /\ UNCHANGED OperationallyReady
    BY <1>10 DEF SaveRecoveryHash, memory, OperationallyReady
  <2>4. QED
    BY <1>0, <2>2, <2>3, ReadyKept
<1>11. ASSUME NEW p \in Procs, rotateSet(p) PROVE ReadyInv'
  <2>1. OperationallyReady => OperationallyReady'
    BY <1>11 DEF rotateSet, ReadyInv, ReplacementOK, OperationallyReady
  <2>2. PICK l : Goto(p, l) /\ l.pc \in {"idle", "issue"}
    BY <1>0, <1>11, IdleFree, PCNames, MoveLocals DEF rotateSet, Return, Move
  <2>3. ReplacementOK(l) /\ ~Passed(l)
    BY <2>2 DEF ReplacementOK, Passed
  <2>4. QED
    BY <1>0, <2>1, <2>2, <2>3, ReadyKept
<1>12. ASSUME NEW p \in Procs, issueSession(p) PROVE ReadyInv'
  BY <1>1, <1>12, IdleFree DEF issueSession, Return
<1>13. ASSUME NEW p \in Procs, requireOperational(p) \/ requireCSRF(p) PROVE ReadyInv'
  <2>1. CASE Goto(p, Idle)
    BY <1>1, <1>13, <2>1, IdleFree DEF requireOperational, requireCSRF, memory
  <2>2. ASSUME NEW at \in {"guard.csrf", "act"}, Move(p, at),
               OperationallyReady \/ proc[p].pc = "guard.csrf"
        PROVE  ReadyInv'
    <3> DEFINE l == [proc[p] EXCEPT !.pc = at]
    <3>1. l.pc = at /\ l.via = proc[p].via /\ Goto(p, l)
      BY <1>0, <2>2, PCNames, MoveLocals DEF Move
    <3>2. ReplacementOK(l) /\ (Passed(l) => OperationallyReady)
      BY <2>2, <3>1 DEF ReplacementOK, Passed, ReadyInv
    <3>3. UNCHANGED OperationallyReady
      BY <1>13 DEF requireOperational, requireCSRF, memory, OperationallyReady
    <3>4. QED
      BY <1>0, <3>1, <3>2, <3>3, ReadyKept
  <2>3. QED
    BY <1>13, <2>1, <2>2 DEF requireOperational, requireCSRF
<1>14. QED
  BY <1>2, <1>3, <1>4, <1>5, <1>6, <1>7, <1>9, <1>10, <1>11, <1>12, <1>13, StepsSorted

(* When a handler behind requireOperational runs there still are two         *)
(* passkeys and a recovery code: what the guard read before the CSRF check   *)
(* cannot have been taken away since.                                        *)
THEOREM ReadyAtHandlers == Spec => []ReadyWhenActing
<1>1. ReadyInv => ReadyWhenActing
  BY DEF ReadyInv, Passed, OperationallyReady, ReadyWhenActing
<1>2. QED
  BY <1>1, Foundations, InitReadyInv, NextReadyInv, PTL DEF Spec

----------------------------------------------------------------------------
(* Recovery codes *)

(* A step that touches no code, of a request that neither rotates nor claims *)
(* one after it.                                                             *)
LEMMA CodesUntouched ==
  ASSUME TypeOK, CodeInv, NEW p \in Procs, NEW l, Goto(p, l), ~Pending(l), ~Recovering(l),
         UNCHANGED <<code, storedCode, drawn.codes, logins>>
  PROVE  CodeInv'
<1>1. \A q \in Procs : proc'[q] = IF q = p THEN l ELSE proc[q]
  BY GotoLocals
<1>2. \A q \in Procs : /\ Pending(proc'[q]) => q # p /\ Pending(proc[q]) /\ proc'[q] = proc[q]
                       /\ Recovering(proc'[q]) => Recovering(proc[q]) /\ proc'[q] = proc[q]
  BY <1>1
<1>3. PendingInv'
  <2>1. \A q \in Procs : Pending(proc'[q]) =>
          /\ proc'[q].new \in 1 .. drawn'.codes
          /\ proc'[q].new # code'
          /\ \A r \in Procs : Pending(proc'[r]) /\ proc'[r].new = proc'[q].new => r = q
    BY <1>2 DEF CodeInv, PendingInv
  <2>2. QED
    BY <2>1 DEF PendingInv, Pending
<1>4. SpentInv'
  <2>1. \A k \in Codes :
          /\ logins'[k] <= 1
          /\ logins'[k] # 0 => /\ k <= drawn'.codes /\ k # code' /\ k # storedCode'
                               /\ \A q \in Procs : Pending(proc'[q]) => proc'[q].new # k
    BY <1>2 DEF CodeInv, SpentInv
  <2>2. QED
    BY <2>1 DEF SpentInv, Pending
<1>5. ClaimInv'
  <2>1. \A r \in Procs : Recovering(proc'[r]) =>
          /\ proc'[r].given \in 1 .. drawn'.codes
          /\ logins'[proc'[r].given] = 0
          /\ \A q \in Procs : Pending(proc'[q]) => proc'[q].new # proc'[r].given
          /\ proc'[r].pc \in {"rotate.set", "issue"} => proc'[r].given # storedCode'
          /\ proc'[r].pc = "issue" => proc'[r].given # code'
    BY <1>2 DEF CodeInv, ClaimInv
  <2>2. QED
    BY <2>1 DEF ClaimInv, Pending, Recovering
<1>6. QED
  BY <1>3, <1>4, <1>5 DEF CodeInv

(* Nobody has a code at first. *)
LEMMA InitCodeInv == Init => CodeInv /\ SurvivalInv
<1> SUFFICES ASSUME Init PROVE CodeInv /\ SurvivalInv
  OBVIOUS
<1>1. \A p \in Procs : ~Pending(proc[p]) /\ ~Recovering(proc[p])
  BY IdleFree DEF Init, Pending
<1>2. code = 0 /\ storedCode = 0 /\ drawn.codes = 0 /\ \A k \in Codes : logins[k] = 0
  BY DEF Init
<1>3. PendingInv /\ SpentInv /\ ClaimInv
  BY <1>1, <1>2 DEF PendingInv, SpentInv, ClaimInv
<1>4. QED
  BY <1>1, <1>2, <1>3 DEF CodeInv, SurvivalInv

(* A recovery and a rotation hold recoveryMu from the check of the code to   *)
(* the session: there is one at a time.                                      *)
LEMMA OneRecovery ==
  ASSUME LockInv, NEW p \in Procs, NEW q \in Procs,
         proc[p].pc \in Rotating \cup {"issue"}, proc[p].via \in {"recovery", "rotate"},
         proc[q].pc \in Rotating \cup {"issue"}, proc[q].via \in {"recovery", "rotate"}
  PROVE  p = q
<1>1. NeedsRecoveryMu(proc[p]) /\ NeedsRecoveryMu(proc[q])
  BY DEF NeedsRecoveryMu
<1>2. QED
  BY <1>1 DEF LockInv

(* Checking a code claims it: it is set in memory, so it has not logged in   *)
(* and no rotation is about to set it.                                       *)
LEMMA CheckKeepsCodes ==
  ASSUME TypeOK, LockInv, CodeInv, NEW p \in Procs, validRecoveryCode(p)
  PROVE  CodeInv'
<1>1. PICK at \in {"rotate.save", "recovery.fail"} :
        Move(p, at) /\ (at = "rotate.save" => code # 0 /\ proc[p].given = code)
  BY DEF validRecoveryCode
<1>2. UNCHANGED <<code, storedCode, drawn, logins>> /\ code \in 0 .. MaxCodes
  BY DEF validRecoveryCode, memory, disk, history, TypeOK
<1> DEFINE l == [proc[p] EXCEPT !.pc = at]
<1>3. l.pc = at /\ l.given = proc[p].given /\ Goto(p, l)
  BY <1>1, PCNames, MoveLocals DEF Move
<1>4. ~Pending(l)
  BY <1>3 DEF Pending
<1>5. CASE at = "recovery.fail"
  <2>1. ~Recovering(l)
    BY <1>3, <1>5 DEF Recovering, Rotating
  <2>2. QED
    BY <1>2, <1>3, <1>4, <2>1, CodesUntouched
<1>6. CASE at = "rotate.save"
  <2>1. \A q \in Procs : proc'[q] = IF q = p THEN l ELSE proc[q]
    BY <1>3, GotoLocals
  <2>2. \A q \in Procs : Pending(proc'[q]) => q # p /\ Pending(proc[q]) /\ proc'[q] = proc[q]
    BY <1>4, <2>1
  <2>3. code \in 1 .. drawn.codes /\ code \in Codes
    BY <1>1, <1>2, <1>6, AuthAssumption DEF CodeInv, Codes, TypeOK
  <2>4. logins[code] = 0 /\ \A q \in Procs : Pending(proc[q]) => proc[q].new # code
    BY <2>3 DEF CodeInv, SpentInv, PendingInv
  <2>5. PendingInv'
    BY <1>2, <2>2 DEF CodeInv, PendingInv, Pending
  <2>6. SpentInv'
    BY <1>2, <2>2 DEF CodeInv, SpentInv, Pending
  <2>7. \A r \in Procs : Recovering(proc'[r]) =>
          /\ proc'[r].given \in 1 .. drawn'.codes
          /\ logins'[proc'[r].given] = 0
          /\ \A q \in Procs : Pending(proc'[q]) => proc'[q].new # proc'[r].given
          /\ proc'[r].pc \in {"rotate.set", "issue"} => proc'[r].given # storedCode'
          /\ proc'[r].pc = "issue" => proc'[r].given # code'
    <3>1. ASSUME NEW r \in Procs, Recovering(proc'[r]), r # p
          PROVE  Recovering(proc[r]) /\ proc'[r] = proc[r]
      BY <2>1, <3>1
    <3>2. proc'[p].given = code /\ proc'[p].pc = "rotate.save"
      BY <1>1, <1>3, <1>6, <2>1
    <3>3. QED
      BY <1>2, <2>2, <2>3, <2>4, <3>1, <3>2 DEF CodeInv, ClaimInv
  <2>8. ClaimInv'
    BY <2>7 DEF ClaimInv, Pending, Recovering
  <2>9. QED
    BY <1>2, <2>5, <2>6, <2>8 DEF CodeInv
<1>7. QED
  BY <1>5, <1>6

(* A new code is none of those that were drawn before. *)
LEMMA SaveKeepsCodes ==
  ASSUME TypeOK, CodeInv, NEW p \in Procs, SaveRecoveryHash(p)
  PROVE  CodeInv'
<1> DEFINE k == drawn.codes + 1
           l == [proc[p] EXCEPT !.pc = "rotate.set", !.new = k]
<1>1. /\ l.pc = "rotate.set" /\ l.new = k /\ l.given = proc[p].given /\ l.via = proc[p].via
  BY SaveLocals
<1>2. /\ proc[p].pc = "rotate.save" /\ Goto(p, l) /\ storedCode' = k
      /\ UNCHANGED <<code, logins>>
  BY DEF SaveRecoveryHash, memory
<1>3. drawn.codes \in Nat /\ drawn'.codes = k
  BY DEF SaveRecoveryHash, TypeOK
<1> HIDE DEF k, l
<1>4. k \in Nat /\ k = drawn.codes + 1
  BY <1>3 DEF k
<1>5. \A q \in Procs : proc'[q] = IF q = p THEN l ELSE proc[q]
  BY <1>2, GotoLocals
<1>6. \A q \in Procs : Pending(proc'[q]) => \/ q = p /\ proc'[q].new = k
                                            \/ q # p /\ Pending(proc[q]) /\ proc'[q] = proc[q]
  BY <1>1, <1>5
<1>7. code \in Nat /\ code < k
  BY <1>3, <1>4 DEF CodeInv, TypeOK
<1>8. \A q \in Procs : Pending(proc[q]) => proc[q].new \in 1 .. drawn.codes /\ proc[q].new # k
  BY <1>3, <1>4 DEF CodeInv, PendingInv
<1>9. PendingInv'
  <2>1. \A q \in Procs : Pending(proc'[q]) => proc'[q].new \in 1 .. k /\ proc'[q].new # code
    BY <1>3, <1>4, <1>6, <1>7, <1>8 DEF CodeInv, PendingInv
  <2>2. \A q, r \in Procs : Pending(proc'[q]) /\ Pending(proc'[r]) /\ proc'[r].new = proc'[q].new
                            => r = q
    BY <1>6, <1>8 DEF CodeInv, PendingInv
  <2>3. QED
    BY <1>2, <1>3, <2>1, <2>2 DEF PendingInv, Pending
<1>10. SpentInv'
  <2>1. \A j \in Codes :
          /\ logins[j] <= 1
          /\ logins[j] # 0 => /\ j <= k /\ j # code /\ j # k
                              /\ \A q \in Procs : Pending(proc'[q]) => proc'[q].new # j
    BY <1>3, <1>4, <1>6 DEF CodeInv, SpentInv, Codes
  <2>2. QED
    BY <1>2, <1>3, <2>1 DEF SpentInv, Pending
<1>11. ClaimInv'
  <2>1. \A r \in Procs : Recovering(proc'[r]) =>
          Recovering(proc[r]) /\ proc'[r].given = proc[r].given /\ (r # p => proc'[r] = proc[r])
    BY <1>1, <1>2, <1>5 DEF Recovering, Rotating
  <2>2. proc'[p].pc = "rotate.set"
    BY <1>1, <1>5
  <2>3. \A r \in Procs : Recovering(proc[r]) => proc[r].given \in 1 .. drawn.codes /\ proc[r].given # k
    BY <1>3, <1>4 DEF CodeInv, ClaimInv
  <2>4. \A r \in Procs : Recovering(proc'[r]) =>
          /\ proc'[r].given \in 1 .. k
          /\ logins[proc'[r].given] = 0
          /\ \A q \in Procs : Pending(proc'[q]) => proc'[q].new # proc'[r].given
          /\ proc'[r].given # k
          /\ proc'[r].pc = "issue" => proc'[r].given # code
    BY <1>3, <1>4, <1>6, <2>1, <2>2, <2>3 DEF CodeInv, ClaimInv
  <2>5. QED
    BY <1>2, <1>3, <2>4 DEF ClaimInv, Pending, Recovering
<1>12. QED
  BY <1>2, <1>3, <1>4, <1>7, <1>9, <1>10, <1>11 DEF CodeInv

(* Setting the new code in memory is what makes the claimed one useless.     *)
LEMMA SetKeepsCodes ==
  ASSUME TypeOK, LockInv, CodeInv, NEW p \in Procs, rotateSet(p)
  PROVE  CodeInv'
<1>1. PICK l : /\ Goto(p, l) /\ l.pc \in {"idle", "issue"}
               /\ Recovering(l) => /\ Recovering(proc[p])
                                   /\ l.given = proc[p].given
  <2>1. CASE proc[p].via = "rotate"
    BY <2>1, IdleFree DEF rotateSet, Return
  <2>2. CASE proc[p].via # "rotate"
    <3> DEFINE m == [proc[p] EXCEPT !.pc = "issue"]
    <3>1. m.pc = "issue" /\ m.via = proc[p].via /\ m.given = proc[p].given
      BY PCNames, MoveLocals
    <3>2. Goto(p, m) /\ proc[p].pc = "rotate.set"
      BY <2>2 DEF rotateSet, Move
    <3>3. QED
      BY <3>1, <3>2 DEF Recovering, Rotating
  <2>3. QED
    BY <2>1, <2>2
<1>2. /\ proc[p].pc = "rotate.set" /\ Pending(proc[p]) /\ code' = proc[p].new
      /\ UNCHANGED <<storedCode, drawn, logins>>
  BY DEF rotateSet, disk, history, Pending
<1>3. \A q \in Procs : proc'[q] = IF q = p THEN l ELSE proc[q]
  BY <1>1, GotoLocals
<1>4. \A q \in Procs : Pending(proc'[q]) => q # p /\ Pending(proc[q]) /\ proc'[q] = proc[q]
  BY <1>1, <1>3 DEF Pending
<1>5. proc[p].new \in 1 .. drawn.codes
  BY <1>2 DEF CodeInv, PendingInv
<1>6. PendingInv'
  BY <1>2, <1>4 DEF CodeInv, PendingInv, Pending
<1>7. SpentInv'
  BY <1>2, <1>4 DEF CodeInv, SpentInv, Pending
<1>8. ClaimInv'
  <2>1. \A r \in Procs : Recovering(proc'[r]) =>
          /\ Recovering(proc[r]) /\ proc'[r].given = proc[r].given
          /\ r # p => proc'[r] = proc[r]
    BY <1>1, <1>3
  <2>2. \A r \in Procs : Recovering(proc'[r]) =>
          /\ proc'[r].given \in 1 .. drawn.codes
          /\ logins[proc'[r].given] = 0
          /\ \A q \in Procs : Pending(proc'[q]) => proc'[q].new # proc'[r].given
          /\ proc'[r].pc \in {"rotate.set", "issue"} => proc'[r].given # storedCode
          /\ proc'[r].given # proc[p].new
    BY <1>2, <1>4, <2>1 DEF CodeInv, ClaimInv
  <2>3. QED
    BY <1>2, <2>2 DEF ClaimInv, Pending, Recovering
<1>9. QED
  BY <1>2, <1>5, <1>6, <1>7, <1>8 DEF CodeInv, TypeOK

(* The session of a recovery spends the code, which is neither stored nor    *)
(* set any more; the only recovery under way is the one that ends.           *)
LEMMA IssueKeepsCodes ==
  ASSUME TypeOK, LockInv, CodeInv, NEW p \in Procs, issueSession(p)
  PROVE  CodeInv'
<1>1. Goto(p, Idle) /\ proc[p].pc = "issue" /\ UNCHANGED <<code, storedCode>>
  BY DEF issueSession, Return, disk
<1>2. UNCHANGED drawn.codes
  <2>1. drawn' = [drawn EXCEPT !.sessions = drawn.sessions + 1]
    BY DEF issueSession
  <2>2. QED
    BY <2>1 DEF TypeOK
<1>3. ~Pending(Idle) /\ ~Recovering(Idle)
  BY IdleFree DEF Pending
<1>4. CASE proc[p].via # "recovery"
  <2>1. UNCHANGED logins
    BY <1>4 DEF issueSession
  <2>2. QED
    BY <1>1, <1>2, <1>3, <2>1, CodesUntouched
<1>5. CASE proc[p].via = "recovery"
  <2> DEFINE k == proc[p].given
  <2>1. Recovering(proc[p])
    BY <1>1, <1>5 DEF Recovering
  <2>2. /\ k \in 1 .. drawn.codes /\ logins[k] = 0 /\ k # storedCode /\ k # code
        /\ \A q \in Procs : Pending(proc[q]) => proc[q].new # k
    BY <1>1, <2>1 DEF CodeInv, ClaimInv
  <2>3. k \in Codes
    BY <2>2, AuthAssumption DEF Codes, TypeOK
  <2>4. logins' = [logins EXCEPT ![k] = @ + 1]
    BY <1>5 DEF issueSession
  <2> HIDE DEF k
  <2>5. \A j \in Codes : logins'[j] = IF j = k THEN 1 ELSE logins[j]
    BY <2>2, <2>3, <2>4 DEF TypeOK
  <2>6. \A q \in Procs : proc'[q] = IF q = p THEN Idle ELSE proc[q]
    BY <1>1, GotoLocals
  <2>7. \A q \in Procs : Pending(proc'[q]) => Pending(proc[q]) /\ proc'[q] = proc[q]
    BY <1>3, <2>6
  <2>8. \A q \in Procs : ~Recovering(proc'[q])
    <3>1. ASSUME NEW q \in Procs, Recovering(proc[q]) PROVE q = p
      BY <2>1, <3>1, OneRecovery DEF Recovering
    <3>2. QED
      BY <1>3, <2>6, <3>1
  <2>9. PendingInv'
    BY <1>1, <1>2, <2>7 DEF CodeInv, PendingInv, Pending
  <2>10. \A j \in Codes :
          /\ logins'[j] <= 1
          /\ logins'[j] # 0 => /\ j <= drawn.codes /\ j # code /\ j # storedCode
                               /\ \A q \in Procs : Pending(proc'[q]) => proc'[q].new # j
    BY <2>2, <2>5, <2>7 DEF CodeInv, SpentInv
  <2>11. SpentInv'
    BY <1>1, <1>2, <2>10 DEF SpentInv, Pending
  <2>12. ClaimInv'
    BY <2>8 DEF ClaimInv, Recovering
  <2>13. QED
    BY <1>1, <1>2, <2>9, <2>11, <2>12 DEF CodeInv
<1>6. QED
  BY <1>4, <1>5

(* The steps of a request that move it without a change to any code. *)
Moves(p) ==
  \/ Plain(p)
  \/ \E s \in Sessions : recoveryRotate(p, s)
  \/ \E s \in Sessions, route \in Routes : Require(p, s, route)
  \/ registerVerify(p) \/ loginVerify(p) \/ lockRecovery(p)
  \/ requireOperational(p) \/ requireCSRF(p)

(* They leave no rotation undone, begin none and claim no code. *)
LEMMA MovesApart ==
  ASSUME TypeOK, LockInv, NEW p \in Procs, Moves(p)
  PROVE  /\ UNCHANGED <<code, storedCode, drawn.codes, logins, raced>> /\ ~Pending(proc[p])
         /\ \E l \in Locals : Goto(p, l) /\ ~Pending(l) /\ ~Recovering(l)
<1> USE DEF Pending, Recovering, Rotating
<1>1. CASE Plain(p)
  BY <1>1, PlainMoves DEF Kept, PlainPCs, ToPlain
<1>2. CASE ~Plain(p)
  <2>1. UNCHANGED <<code, storedCode, drawn, logins, raced>> /\ ~Pending(proc[p])
    BY <1>2 DEF Moves, recoveryRotate, Require, registerVerify, loginVerify, lockRecovery,
                requireOperational, requireCSRF, memory, disk, history
  <2>2. CASE Goto(p, Idle)
    BY <2>1, <2>2, IdleTyped, IdleFree
  <2>3. ASSUME NEW s \in Sessions, recoveryRotate(p, s)
        PROVE  \E l \in Locals : Goto(p, l) /\ ~Pending(l) /\ ~Recovering(l)
    <3> DEFINE l == [Idle EXCEPT !.pc = "rotate.wait", !.via = "rotate"]
    <3>1. l \in Locals /\ l.pc = "rotate.wait"
      BY IdleTyped, LocalsShape, Ranges, PCNames
    <3>2. QED
      BY <2>3, <3>1 DEF recoveryRotate
  <2>4. ASSUME NEW s \in Sessions, NEW route \in Routes, Require(p, s, route)
        PROVE  \E l \in Locals : Goto(p, l) /\ ~Pending(l) /\ ~Recovering(l)
    <3> DEFINE l == [Idle EXCEPT !.pc = IF Operational(route) THEN "guard.ready" ELSE "guard.csrf",
                                 !.sess = s, !.via = route]
    <3>1. l \in Locals /\ l.pc \in {"guard.ready", "guard.csrf"}
      BY IdleTyped, LocalsShape, Ranges, PCNames
    <3>2. QED
      BY <2>4, <3>1 DEF Require
  <2>5. ASSUME NEW at \in {"issue", "rotate.save", "recovery.check", "guard.csrf", "act"}, Move(p, at),
               at \in {"issue", "rotate.save"} => proc[p].via # "recovery"
        PROVE  \E l \in Locals : Goto(p, l) /\ ~Pending(l) /\ ~Recovering(l)
    <3> DEFINE l == [proc[p] EXCEPT !.pc = at]
    <3>1. l \in Locals /\ l.pc = at /\ l.via = proc[p].via
      BY PCNames, MoveLocals
    <3>2. QED
      BY <2>5, <3>1 DEF Move
  <2>6. CASE registerVerify(p) \/ loginVerify(p)
    <3>1. proc[p].via # "recovery"
      BY <2>6 DEF registerVerify, loginVerify, LockInv, ViaOK
    <3>2. QED
      BY <2>1, <2>2, <2>5, <2>6, <3>1 DEF registerVerify, loginVerify, Enrolled
  <2>7. CASE lockRecovery(p) \/ requireOperational(p) \/ requireCSRF(p)
    BY <2>1, <2>2, <2>5, <2>7 DEF lockRecovery, requireOperational, requireCSRF
  <2>8. UNCHANGED drawn.codes
    BY <2>1
  <2>9. QED
    BY <1>2, <2>1, <2>3, <2>4, <2>6, <2>7, <2>8 DEF Moves
<1>3. QED
  BY <1>1, <1>2

(* The steps once more, by what they do to the recovery codes. *)
LEMMA CodeSteps ==
  ASSUME [Next]_vars
  PROVE  \/ Aside \/ Restart
         \/ \E p \in Procs : \/ Moves(p) \/ validRecoveryCode(p) \/ SaveRecoveryHash(p)
                             \/ rotateSet(p) \/ issueSession(p)
BY StepsSorted DEF Moves

(* Every step keeps spent codes unusable and claimed ones unspent. *)
LEMMA NextCodeInv == TypeInv /\ LockInv /\ CodeInv /\ [Next]_vars => CodeInv'
<1> SUFFICES ASSUME TypeInv, LockInv, CodeInv, [Next]_vars PROVE CodeInv'
  OBVIOUS
<1>0. TypeOK
  BY DEF TypeInv
<1>1. CASE Aside
  <2>1. UNCHANGED <<code, storedCode, drawn, logins, proc>>
    BY <1>0, <1>1, AsideKeeps
  <2>2. QED
    BY <2>1 DEF CodeInv, PendingInv, SpentInv, ClaimInv, Pending, Recovering
<1>2. CASE Restart
  <2>1. code' = storedCode /\ UNCHANGED <<storedCode, drawn, logins>>
    BY <1>2 DEF Restart, loadRecovery, disk
  <2>2. \A q \in Procs : proc'[q] = Idle
    BY <1>2 DEF Restart
  <2>3. \A q \in Procs : ~Pending(proc'[q]) /\ ~Recovering(proc'[q])
    BY <2>2, IdleFree DEF Pending
  <2>4. PendingInv' /\ ClaimInv'
    BY <2>3 DEF PendingInv, ClaimInv, Pending, Recovering
  <2>5. SpentInv'
    BY <2>1, <2>3 DEF CodeInv, SpentInv, Pending
  <2>6. QED
    BY <2>1, <2>4, <2>5 DEF CodeInv
<1>3. ASSUME NEW p \in Procs, Moves(p) PROVE CodeInv'
  <2>1. PICK l \in Locals : Goto(p, l) /\ ~Pending(l) /\ ~Recovering(l)
    BY <1>0, <1>3, MovesApart
  <2>2. UNCHANGED <<code, storedCode, drawn.codes, logins>>
    BY <1>0, <1>3, MovesApart
  <2>3. QED
    BY <1>0, <2>1, <2>2, CodesUntouched
<1>4. QED
  BY <1>0, <1>1, <1>2, <1>3, CodeSteps, CheckKeepsCodes, SaveKeepsCodes, SetKeepsCodes,
     IssueKeepsCodes

(* A recovery code logs in once at most, and then neither the memory nor the *)
(* database accepts it again, whatever requests race with it and wherever a  *)
(* restart strikes.                                                          *)
THEOREM CodesWorkOnce == Spec => []CodeUsedOnce
<1>1. CodeInv => CodeUsedOnce
  BY DEF CodeInv, SpentInv, CodeUsedOnce
<1>2. QED
  BY <1>1, Foundations, InitCodeInv, NextCodeInv, PTL DEF Spec

(* A step that neither ends nor begins a rotation. *)
LEMMA SurvivalUntouched ==
  ASSUME TypeOK, SurvivalInv, NEW p \in Procs, NEW l, Goto(p, l), ~Pending(l), ~Pending(proc[p]),
         UNCHANGED <<code, storedCode, raced>>
  PROVE  SurvivalInv'
<1>1. \A q \in Procs : proc'[q] = IF q = p THEN l ELSE proc[q]
  BY GotoLocals
<1>2. \A q \in Procs : /\ Pending(proc'[q]) <=> Pending(proc[q])
                       /\ Pending(proc'[q]) => proc'[q] = proc[q]
  BY <1>1
<1>3. ~raced' => /\ \A q \in Procs : Pending(proc'[q]) => proc'[q].new = storedCode'
                 /\ (\A q \in Procs : ~Pending(proc'[q])) => code' = storedCode'
  BY <1>2 DEF SurvivalInv
<1>4. QED
  BY <1>3 DEF SurvivalInv, Pending

(* Two rotations overlap only if one is a bootstrap's, and then raced is     *)
(* set; otherwise the one under way sets what it has stored.                 *)
LEMMA NextSurvivalInv ==
  TypeInv /\ LockInv /\ CodeInv /\ SurvivalInv /\ [Next]_vars => SurvivalInv'
<1> SUFFICES ASSUME TypeInv, LockInv, CodeInv, SurvivalInv, [Next]_vars PROVE SurvivalInv'
  OBVIOUS
<1>0. TypeOK
  BY DEF TypeInv
<1>1. CASE Aside
  <2>1. UNCHANGED <<code, storedCode, raced, proc>>
    BY <1>0, <1>1, AsideKeeps
  <2>2. QED
    BY <2>1 DEF SurvivalInv, Pending
<1>2. CASE Restart
  <2>1. code' = storedCode /\ storedCode' = storedCode
    BY <1>2 DEF Restart, loadRecovery, disk
  <2>2. \A q \in Procs : proc'[q] = Idle
    BY <1>2 DEF Restart
  <2>3. \A q \in Procs : ~Pending(proc'[q])
    BY <2>2, IdleFree DEF Pending
  <2>4. QED
    BY <2>1, <2>3 DEF SurvivalInv, Pending
<1>3. ASSUME NEW p \in Procs, Moves(p) PROVE SurvivalInv'
  <2>1. PICK l \in Locals : Goto(p, l) /\ ~Pending(l)
    BY <1>0, <1>3, MovesApart
  <2>2. UNCHANGED <<code, storedCode, raced>> /\ ~Pending(proc[p])
    BY <1>0, <1>3, MovesApart
  <2>3. QED
    BY <1>0, <2>1, <2>2, SurvivalUntouched
<1>4. ASSUME NEW p \in Procs, validRecoveryCode(p) PROVE SurvivalInv'
  <2>1. PICK at \in {"rotate.save", "recovery.fail"} : Move(p, at)
    BY <1>4 DEF validRecoveryCode
  <2> DEFINE l == [proc[p] EXCEPT !.pc = at]
  <2>2. ~Pending(l)
    BY <1>0, PCNames, MoveLocals DEF Pending
  <2>3. Goto(p, l) /\ ~Pending(proc[p]) /\ UNCHANGED <<code, storedCode, raced>>
    BY <1>4, <2>1 DEF Move, validRecoveryCode, Pending, memory, disk, history
  <2>4. QED
    BY <1>0, <2>2, <2>3, SurvivalUntouched
<1>5. ASSUME NEW p \in Procs, issueSession(p) PROVE SurvivalInv'
  <2>1. Goto(p, Idle) /\ ~Pending(proc[p]) /\ UNCHANGED <<code, storedCode, raced>>
    BY <1>5 DEF issueSession, Return, Pending, disk
  <2>2. ~Pending(Idle)
    BY IdleFree DEF Pending
  <2>3. QED
    BY <1>0, <2>1, <2>2, SurvivalUntouched
<1>6. ASSUME NEW p \in Procs, SaveRecoveryHash(p) PROVE SurvivalInv'
  <2> DEFINE l == [proc[p] EXCEPT !.pc = "rotate.set", !.new = drawn.codes + 1]
  <2>1. l.pc = "rotate.set" /\ l.new = drawn.codes + 1
    BY <1>0, <1>6, SaveLocals
  <2>2. /\ proc[p].pc = "rotate.save" /\ Goto(p, l) /\ storedCode' = drawn.codes + 1
        /\ raced' = Overlaps(p)
    BY <1>6 DEF SaveRecoveryHash
  <2>3. \A q \in Procs : proc'[q] = IF q = p THEN l ELSE proc[q]
    BY <1>0, <2>2, GotoLocals
  <2>4. ASSUME ~raced', NEW q \in Procs, q # p, Pending(proc[q]) PROVE FALSE
    <3>1. proc[p].via # "register" /\ proc[q].via # "register" /\ proc[q].pc = "rotate.set"
      BY <2>2, <2>4 DEF Overlaps, Pending
    <3>2. proc[p].via \in {"recovery", "rotate"} /\ proc[q].via \in {"recovery", "rotate"}
      BY <2>2, <3>1 DEF LockInv, ViaOK, Rotating
    <3>3. QED
      BY <2>2, <2>4, <3>1, <3>2, OneRecovery DEF Rotating
  <2>5. Pending(proc'[p]) /\ proc'[p].new = storedCode'
    BY <2>1, <2>2, <2>3 DEF Pending
  <2>6. ~raced' => /\ \A q \in Procs : Pending(proc'[q]) => proc'[q].new = storedCode'
                   /\ (\A q \in Procs : ~Pending(proc'[q])) => code' = storedCode'
    BY <2>3, <2>4, <2>5
  <2>7. QED
    BY <2>6 DEF SurvivalInv, Pending
<1>7. ASSUME NEW p \in Procs, rotateSet(p) PROVE SurvivalInv'
  <2>1. PICK l : Goto(p, l) /\ ~Pending(l)
    BY <1>0, <1>7, IdleFree, PCNames, MoveLocals DEF rotateSet, Return, Move, Pending
  <2>2. Pending(proc[p]) /\ code' = proc[p].new /\ UNCHANGED <<storedCode, raced>>
    BY <1>7 DEF rotateSet, Pending, disk, history
  <2>3. \A q \in Procs : proc'[q] = IF q = p THEN l ELSE proc[q]
    BY <1>0, <2>1, GotoLocals
  <2>4. ASSUME ~raced PROVE code' = storedCode' /\ \A q \in Procs : ~Pending(proc'[q])
    BY <2>1, <2>2, <2>3, <2>4 DEF SurvivalInv, CodeInv, PendingInv
  <2>5. QED
    BY <2>2, <2>4 DEF SurvivalInv, Pending
<1>8. QED
  BY <1>1, <1>2, <1>3, <1>4, <1>5, <1>6, <1>7, CodeSteps

(* Between rotations the code in memory is the one in the database, unless a *)
(* bootstrap registration, which does not take recoveryMu, overlapped        *)
(* another rotation.                                                         *)
THEOREM CodesSurvive == Spec => []CodeSurvivesRestart
<1>1. SurvivalInv => CodeSurvivesRestart
  BY DEF SurvivalInv, Pending, CodeSurvivesRestart
<1>2. QED
  BY <1>1, Foundations, InitCodeInv, NextCodeInv, NextSurvivalInv, PTL DEF Spec

----------------------------------------------------------------------------
(* Attempts *)

(* A set of requests is no larger than all of them. *)
LEMMA PartOfProcs ==
  ASSUME NEW S \in SUBSET Procs
  PROVE  /\ IsFiniteSet(S) /\ Cardinality(S) \in Nat /\ Cardinality(Procs) \in Nat
         /\ Cardinality(S) <= Cardinality(Procs)
BY AuthAssumption, FS_Subset, FS_CardinalityType

(* What a step does to the attempts: it clears the failures, allows another  *)
(* attempt below the limit, ends one with a failure, or adds nothing.        *)
LEMMA AttemptSteps ==
  ASSUME TypeInv, LockInv, [Next]_vars
  PROVE  \/ fails' = 0
         \/ fails < AttemptLimit /\ fails' = fails
         \/ fails' \in Nat /\ fails' <= fails /\ Attempting' \subseteq Attempting
         \/ \E p \in Attempting : fails' = fails + 1 /\ Attempting' = Attempting \ {p}
<1>0. TypeOK /\ fails \in Nat
  BY DEF TypeInv, TypeOK
<1>1. ASSUME NEW p \in Procs, NEW l, Goto(p, l), UNCHANGED fails,
             l.pc \in AttemptPCs => proc[p].pc \in AttemptPCs
      PROVE  fails' \in Nat /\ fails' <= fails /\ Attempting' \subseteq Attempting
  BY <1>0, <1>1, GotoLocals DEF Attempting
<1>2. CASE Aside
  <2>1. UNCHANGED proc
    BY <1>0, <1>2, AsideKeeps
  <2>2. fails' \in Nat /\ fails' <= fails
    BY <1>0, <1>2 DEF Aside, ExpireCeremony, consumeRefused, EndSession, ForgetFailure, vars, memory
  <2>3. QED
    BY <2>1, <2>2 DEF Attempting
<1>3. CASE Restart
  BY <1>3 DEF Restart
<1>4. ASSUME NEW p \in Procs, recordRecoveryFailure(p)
      PROVE  p \in Attempting /\ fails' = fails + 1 /\ Attempting' = Attempting \ {p}
  <2>1. proc[p].pc = "recovery.fail" /\ fails' = fails + 1 /\ Goto(p, Idle)
    BY <1>4 DEF recordRecoveryFailure, Return
  <2>2. \A q \in Procs : proc'[q] = IF q = p THEN Idle ELSE proc[q]
    BY <1>0, <2>1, GotoLocals
  <2>3. QED
    BY <2>1, <2>2, IdleFree DEF Attempting, AttemptPCs
<1>5. ASSUME NEW p \in Procs, NEW k \in Codes \cup {0}, recoveryLogin(p, k)
      PROVE  fails < AttemptLimit /\ fails' = fails
  BY <1>5 DEF recoveryLogin, allowRecoveryAttempt, memory
<1>6. ASSUME NEW p \in Procs, Plain(p), ~recordRecoveryFailure(p),
             ~\E k \in Codes \cup {0} : recoveryLogin(p, k)
      PROVE  fails' \in Nat /\ fails' <= fails /\ Attempting' \subseteq Attempting
  <2>1. PICK l \in Locals : Goto(p, l) /\ l.pc \in PlainPCs /\ l.pc # "recovery.wait"
    BY <1>0, <1>6, PlainMoves DEF ToPlain
  <2>2. UNCHANGED fails
    BY <1>6 DEF Plain, loginBegin, registerBegin, registerFinish, loginFinish, beginCeremony,
                registerCheck, Lock, VerifyFails, rotateFails, issueFails, Handle, memory
  <2>3. QED
    BY <1>1, <2>1, <2>2 DEF PlainPCs, AttemptPCs
<1>7. ASSUME NEW p \in Procs, ~Plain(p), Moves(p)
      PROVE  fails' \in Nat /\ fails' <= fails /\ Attempting' \subseteq Attempting
  <2>1. UNCHANGED fails
    BY <1>7 DEF Moves, recoveryRotate, Require, registerVerify, loginVerify, lockRecovery,
                requireOperational, requireCSRF, memory
  <2>2. CASE Goto(p, Idle)
    BY <1>1, <2>1, <2>2, IdleFree DEF AttemptPCs
  <2>3. ASSUME NEW s \in Sessions, recoveryRotate(p, s)
        PROVE  fails' \in Nat /\ fails' <= fails /\ Attempting' \subseteq Attempting
    <3> DEFINE l == [Idle EXCEPT !.pc = "rotate.wait", !.via = "rotate"]
    <3>1. l.pc = "rotate.wait"
      BY DEF Idle
    <3>2. QED
      BY <1>1, <2>1, <2>3, <3>1 DEF recoveryRotate, AttemptPCs
  <2>4. ASSUME NEW s \in Sessions, NEW route \in Routes, Require(p, s, route)
        PROVE  fails' \in Nat /\ fails' <= fails /\ Attempting' \subseteq Attempting
    <3> DEFINE l == [Idle EXCEPT !.pc = IF Operational(route) THEN "guard.ready" ELSE "guard.csrf",
                                 !.sess = s, !.via = route]
    <3>1. l.pc \in {"guard.ready", "guard.csrf"}
      BY DEF Idle
    <3>2. QED
      BY <1>1, <2>1, <2>4, <3>1 DEF Require, AttemptPCs
  <2>5. ASSUME NEW at \in {"issue", "rotate.save", "recovery.check", "guard.csrf", "act"}, Move(p, at),
               at = "recovery.check" => proc[p].pc = "recovery.wait"
        PROVE  fails' \in Nat /\ fails' <= fails /\ Attempting' \subseteq Attempting
    <3> DEFINE l == [proc[p] EXCEPT !.pc = at]
    <3>1. l.pc = at
      BY <1>0, PCNames, MoveLocals
    <3>2. QED
      BY <1>1, <2>1, <2>5, <3>1 DEF Move, AttemptPCs
  <2>6. CASE lockRecovery(p)
    <3>1. proc[p].via = "recovery" => proc[p].pc = "recovery.wait"
      BY <2>6 DEF lockRecovery, LockInv, ViaOK
    <3>2. QED
      BY <2>5, <2>6, <3>1 DEF lockRecovery
  <2>7. CASE registerVerify(p) \/ loginVerify(p) \/ requireOperational(p) \/ requireCSRF(p)
    BY <2>2, <2>5, <2>7 DEF registerVerify, loginVerify, Enrolled, requireOperational, requireCSRF
  <2>8. QED
    BY <1>7, <2>3, <2>4, <2>6, <2>7 DEF Moves
<1>8. ASSUME NEW p \in Procs, validRecoveryCode(p)
      PROVE  fails' \in Nat /\ fails' <= fails /\ Attempting' \subseteq Attempting
  BY <1>1, <1>8 DEF validRecoveryCode, memory, Move, AttemptPCs
<1>9. ASSUME NEW p \in Procs, SaveRecoveryHash(p)
      PROVE  fails' \in Nat /\ fails' <= fails /\ Attempting' \subseteq Attempting
  <2> DEFINE l == [proc[p] EXCEPT !.pc = "rotate.set", !.new = drawn.codes + 1]
  <2>1. l.pc = "rotate.set"
    BY <1>0, <1>9, SaveLocals
  <2>2. QED
    BY <1>1, <1>9, <2>1 DEF SaveRecoveryHash, memory, AttemptPCs
<1>10. ASSUME NEW p \in Procs, issueSession(p)
       PROVE  fails' \in Nat /\ fails' <= fails /\ Attempting' \subseteq Attempting
  BY <1>1, <1>10, IdleFree DEF issueSession, Return, AttemptPCs
<1>11. ASSUME NEW p \in Procs, rotateSet(p) PROVE fails' = 0
  BY <1>11 DEF rotateSet
<1>12. QED
  BY <1>2, <1>3, <1>4, <1>5, <1>6, <1>7, <1>8, <1>9, <1>10, <1>11, CodeSteps DEF Moves

(* There is room for one attempt at least. *)
LEMMA InitAttemptInv == Init => AttemptInv
<1> SUFFICES ASSUME Init PROVE AttemptInv
  OBVIOUS
<1>1. Attempting = {}
  BY IdleFree DEF Init, Attempting, AttemptPCs
<1>2. Cardinality(Attempting) = 0 /\ Cardinality(Procs) \in Nat
  BY <1>1, FS_EmptySet, PartOfProcs
<1>3. QED
  BY <1>2, AuthAssumption DEF Init, AttemptInv

(* The failures together with the attempts that may still fail stay bounded. *)
LEMMA NextAttemptInv == TypeInv /\ LockInv /\ AttemptInv /\ [Next]_vars => AttemptInv'
<1> SUFFICES ASSUME TypeInv, LockInv, AttemptInv, [Next]_vars PROVE AttemptInv'
  OBVIOUS
<1>1. Attempting \in SUBSET Procs /\ Attempting' \in SUBSET Procs
  BY DEF Attempting
<1>2. /\ IsFiniteSet(Attempting) /\ Cardinality(Attempting) \in Nat /\ Cardinality(Procs) \in Nat
      /\ Cardinality(Attempting') \in Nat /\ Cardinality(Attempting') <= Cardinality(Procs)
  BY <1>1, PartOfProcs
<1>3. fails \in Nat /\ AttemptLimit \in Nat \ {0}
  BY AuthAssumption DEF TypeInv, TypeOK
<1>4. fails + Cardinality(Attempting) <= AttemptLimit + Cardinality(Procs) - 1
  BY DEF AttemptInv
<1>5. fails' + Cardinality(Attempting') <= AttemptLimit + Cardinality(Procs) - 1
  <2>1. CASE fails' = 0 \/ (fails < AttemptLimit /\ fails' = fails)
    BY <1>2, <1>3, <2>1
  <2>2. CASE fails' \in Nat /\ fails' <= fails /\ Attempting' \subseteq Attempting
    <3>1. Cardinality(Attempting') <= Cardinality(Attempting)
      BY <1>2, <2>2, FS_Subset
    <3>2. QED
      BY <1>2, <1>3, <1>4, <2>2, <3>1
  <2>3. CASE \E p \in Attempting : fails' = fails + 1 /\ Attempting' = Attempting \ {p}
    <3>1. Cardinality(Attempting') = Cardinality(Attempting) - 1 /\ fails' = fails + 1
      BY <1>2, <2>3, FS_RemoveElement
    <3>2. QED
      BY <1>2, <1>3, <1>4, <3>1
  <2>4. QED
    BY <2>1, <2>2, <2>3, AttemptSteps
<1>6. QED
  BY <1>5 DEF AttemptInv

(* However many requests present codes at once, the failures that are        *)
(* counted exceed the limit by the other requests in flight at most.         *)
THEOREM AttemptsStayBounded == Spec => []AttemptsBounded
<1>1. TypeInv /\ AttemptInv => AttemptsBounded
  <2> SUFFICES ASSUME TypeInv, AttemptInv PROVE AttemptsBounded
    OBVIOUS
  <2>1. Cardinality(Attempting) \in Nat /\ Cardinality(Procs) \in Nat
    BY PartOfProcs DEF Attempting
  <2>2. QED
    BY <2>1, AuthAssumption DEF TypeInv, TypeOK, AttemptInv, AttemptsBounded
<1>2. QED
  BY <1>1, Foundations, InitAttemptInv, NextAttemptInv, PTL DEF Spec

----------------------------------------------------------------------------
(* Ceremonies *)

(* The statuses of the three kinds of entries. *)
LEMMA StatusFacts ==
  /\ Fresh.status = "fresh" /\ Spent.status = "spent"
  /\ \A kind, boot : Began(kind, boot).status = "live"
BY DEF Fresh, Spent, Began

(* What a step does to the ceremonies. *)
Begins(c) ==
  /\ c = drawn.ceremonies + 1 /\ drawn'.ceremonies = c
  /\ \E kind, boot : ceremony' = [ceremony EXCEPT ![c] = Began(kind, boot)]
  /\ UNCHANGED redeemed

Drops(c) ==
  /\ ceremony[c].status = "live" /\ ceremony' = [ceremony EXCEPT ![c] = Spent]
  /\ UNCHANGED <<redeemed, drawn>>

Accepts(c) ==
  /\ ceremony[c].status = "live" /\ ceremony' = [ceremony EXCEPT ![c] = Spent]
  /\ redeemed' = [redeemed EXCEPT ![c] = @ + 1]
  /\ UNCHANGED drawn

(* Every step is one of these, a restart, or leaves them alone. *)
LEMMA CeremonySteps ==
  ASSUME TypeOK, [Next]_vars
  PROVE  \/ \E c \in Ceremonies : Begins(c) \/ Drops(c) \/ Accepts(c)
         \/ Restart
         \/ UNCHANGED <<ceremony, redeemed, drawn.ceremonies>>
<1>1. ASSUME NEW p \in Procs, beginCeremony(p)
      PROVE  (\E c \in Ceremonies : Begins(c)) \/ UNCHANGED <<ceremony, redeemed, drawn.ceremonies>>
  <2>1. UNCHANGED redeemed
    BY <1>1 DEF beginCeremony, history
  <2>2. CASE UNCHANGED <<ceremony, drawn>>
    BY <2>1, <2>2
  <2>3. CASE ~UNCHANGED <<ceremony, drawn>>
    <3> DEFINE c == drawn.ceremonies + 1
    <3>1. /\ c \in Ceremonies
          /\ \E kind, boot : ceremony' = [ceremony EXCEPT ![c] = Began(kind, boot)]
          /\ drawn' = [drawn EXCEPT !.ceremonies = c]
      BY <1>1, <2>3 DEF beginCeremony
    <3>2. drawn'.ceremonies = c
      BY <3>1 DEF TypeOK
    <3>3. QED
      BY <2>1, <3>1, <3>2 DEF Begins
  <2>4. QED
    BY <2>2, <2>3
<1>2. ASSUME NEW p \in Procs, NEW c \in Ceremonies,
             loginFinish(p, c) \/ \E s \in Sessions \cup {0} : registerFinish(p, c, s)
      PROVE  Accepts(c)
  BY <1>2 DEF loginFinish, registerFinish, consumeCeremony, Accepts
<1>3. ASSUME NEW c \in Ceremonies, ExpireCeremony(c) \/ consumeRefused(c) PROVE Drops(c)
  BY <1>3 DEF ExpireCeremony, consumeRefused, Drops, history
<1>4. ASSUME NEW p \in Procs, issueSession(p) \/ SaveRecoveryHash(p)
      PROVE  UNCHANGED <<ceremony, redeemed, drawn.ceremonies>>
  <2>1. \/ drawn' = [drawn EXCEPT !.sessions = drawn.sessions + 1]
        \/ drawn' = [drawn EXCEPT !.codes = drawn.codes + 1]
    BY <1>4 DEF issueSession, SaveRecoveryHash
  <2>2. drawn'.ceremonies = drawn.ceremonies
    BY <2>1 DEF TypeOK
  <2>3. QED
    BY <1>4, <2>2 DEF issueSession, SaveRecoveryHash, memory
<1>5. ASSUME NEW p \in Procs,
             \/ loginBegin(p) \/ registerCheck(p) \/ Lock(p) \/ VerifyFails(p)
             \/ recordRecoveryFailure(p) \/ rotateFails(p) \/ issueFails(p) \/ Handle(p)
             \/ \E s \in Sessions \cup {0} : registerBegin(p, s)
             \/ \E k \in Codes \cup {0} : recoveryLogin(p, k)
             \/ \E s \in Sessions : recoveryRotate(p, s)
             \/ \E s \in Sessions, route \in Routes : Require(p, s, route)
             \/ registerVerify(p) \/ loginVerify(p) \/ lockRecovery(p) \/ validRecoveryCode(p)
             \/ rotateSet(p) \/ requireOperational(p) \/ requireCSRF(p)
      PROVE  UNCHANGED <<ceremony, redeemed, drawn>>
  BY <1>5
  DEF loginBegin, registerCheck, Lock, VerifyFails, recordRecoveryFailure, rotateFails, issueFails,
      Handle, registerBegin, recoveryLogin, recoveryRotate, Require, registerVerify, loginVerify,
      lockRecovery, validRecoveryCode, rotateSet, requireOperational, requireCSRF, memory, history
<1>6. ASSUME ForgetFailure \/ (\E s \in Sessions : EndSession(s)) \/ UNCHANGED vars
      PROVE  UNCHANGED <<ceremony, redeemed, drawn>>
  BY <1>6 DEF ForgetFailure, EndSession, vars, memory, history
<1>7. QED
  BY <1>1, <1>2, <1>3, <1>4, <1>5, <1>6 DEF Next, Start, Step

(* No ceremony is known before it is drawn. *)
LEMMA CeremoniesFresh ==
  /\ Init => CeremonyInv
  /\ TypeOK /\ CeremonyInv /\ [Next]_vars => CeremonyInv'
<1>1. Init => CeremonyInv
  BY DEF Init, CeremonyInv
<1>2. ASSUME TypeOK, CeremonyInv, [Next]_vars PROVE CeremonyInv'
  <2>0. ceremony \in [Ceremonies -> CeremonyStates] /\ drawn.ceremonies \in Nat
    BY <1>2 DEF TypeOK
  <2>1. ASSUME NEW c \in Ceremonies, Begins(c) PROVE CeremonyInv'
    <3>1. PICK e : ceremony' = [ceremony EXCEPT ![c] = e]
      BY <2>1 DEF Begins
    <3>2. c = drawn.ceremonies + 1 /\ drawn'.ceremonies = c
      BY <2>1 DEF Begins
    <3>3. ASSUME NEW d \in Ceremonies, d > drawn'.ceremonies PROVE ceremony'[d] = Fresh
      BY <1>2, <2>0, <3>1, <3>2, <3>3 DEF CeremonyInv, Ceremonies
    <3>4. QED
      BY <3>3 DEF CeremonyInv
  <2>2. ASSUME NEW c \in Ceremonies, Drops(c) \/ Accepts(c) PROVE CeremonyInv'
    <3>1. ceremony[c] # Fresh
      BY <2>2, StatusFacts DEF Drops, Accepts
    <3>2. QED
      BY <1>2, <2>0, <2>2, <3>1 DEF Drops, Accepts, CeremonyInv
  <2>3. CASE Restart
    <3>1. Fresh.status # "live"
      BY StatusFacts
    <3>2. QED
      BY <1>2, <2>3, <3>1 DEF Restart, CeremonyInv
  <2>4. CASE UNCHANGED <<ceremony, redeemed, drawn.ceremonies>>
    BY <1>2, <2>4 DEF CeremonyInv
  <2>5. QED
    BY <1>2, <2>1, <2>2, <2>3, <2>4, CeremonySteps
<1>3. QED
  BY <1>1, <1>2

(* The statuses of the ceremonies, as the abstract specification sees them.  *)
CeremonyStatus == [c \in Ceremonies |-> ceremony[c].status]

(* Ceremonies behave as one-time secrets, whatever else the handlers do:     *)
(* beginning one draws it, finishing it redeems it, and an expiry, a refused *)
(* request or a restart drops it unredeemed.                                 *)
THEOREM CeremoniesOneTime == Spec => CeremoniesAreOneTime
<1>1. Init => OT!Init
  BY StatusFacts DEF Init, OT!Init
<1>2. TypeInv /\ CeremonyInv /\ [Next]_vars => [OT!Next]_(OT!vars)
  <2> SUFFICES ASSUME TypeInv, CeremonyInv, [Next]_vars PROVE [OT!Next]_(OT!vars)
    OBVIOUS
  <2>0. /\ TypeOK /\ drawn.ceremonies \in Nat
        /\ ceremony \in [Ceremonies -> CeremonyStates] /\ redeemed \in [Ceremonies -> Nat]
    BY DEF TypeInv, TypeOK
  <2>1. ASSUME NEW c \in Ceremonies, Begins(c) PROVE OT!Next
    <3>1. ceremony[c] = Fresh
      BY <2>0, <2>1 DEF Begins, CeremonyInv, Ceremonies
    <3>2. CeremonyStatus' = [CeremonyStatus EXCEPT ![c] = "live"]
      <4>1. PICK kind, boot : ceremony' = [ceremony EXCEPT ![c] = Began(kind, boot)]
        BY <2>1 DEF Begins
      <4>2. Began(kind, boot).status = "live"
        BY StatusFacts
      <4>3. QED
        BY <2>0, <4>1, <4>2 DEF CeremonyStatus
    <3>3. CeremonyStatus = OT!Without({}) /\ {} \in SUBSET OT!Live
      BY DEF OT!Without, CeremonyStatus
    <3>4. OT!Draw(c)
      BY <2>1, <3>1, <3>2, <3>3, StatusFacts DEF OT!Draw, CeremonyStatus, Begins
    <3>5. QED
      BY <3>4 DEF OT!Next
  <2>2. ASSUME NEW c \in Ceremonies, Accepts(c) PROVE OT!Next
    <3>1. CeremonyStatus' = [CeremonyStatus EXCEPT ![c] = "spent"]
      BY <2>0, <2>2, StatusFacts DEF Accepts, CeremonyStatus
    <3>2. OT!Redeem(c)
      BY <2>2, <3>1 DEF OT!Redeem, CeremonyStatus, Accepts
    <3>3. QED
      BY <3>2 DEF OT!Next
  <2>3. ASSUME NEW c \in Ceremonies, Drops(c) PROVE OT!Next
    <3>1. CeremonyStatus' = OT!Without({c})
      BY <2>0, <2>3, StatusFacts DEF Drops, CeremonyStatus, OT!Without
    <3>2. {c} \in SUBSET OT!Live
      BY <2>3 DEF OT!Live, Drops
    <3>3. QED
      BY <2>3, <3>1, <3>2 DEF OT!Next, OT!Drop, CeremonyStatus, Drops
  <2>4. CASE Restart
    <3>1. CeremonyStatus' = OT!Without(OT!Live)
      BY <2>4, StatusFacts DEF Restart, CeremonyStatus, OT!Without, OT!Live
    <3>2. UNCHANGED redeemed
      BY <2>4 DEF Restart
    <3>3. QED
      BY <3>1, <3>2 DEF OT!Next, OT!Drop, CeremonyStatus
  <2>5. CASE UNCHANGED <<ceremony, redeemed, drawn.ceremonies>>
    BY <2>5 DEF OT!vars
  <2>6. QED
    BY <2>0, <2>1, <2>2, <2>3, <2>4, <2>5, CeremonySteps
<1>3. TypeInv => TypeOK
  BY DEF TypeInv
<1>4. QED
  BY <1>1, <1>2, <1>3, CeremoniesFresh, Foundations, PTL DEF Spec, CeremoniesAreOneTime, OT!Spec

(* What was proved of one-time secrets, for the ceremonies. *)
OneTimeCeremonies == INSTANCE OneTimeProofs WITH
  Secrets <- Ceremonies,
  status <- [c \in Ceremonies |-> ceremony[c].status],
  redeemed <- redeemed

(* Finish is accepted once at most for a ceremony, and not before it was     *)
(* begun: consumed ceremonies leave the map under the lock that read them.   *)
FinishedOnce ==
  \A c \in Ceremonies :
    redeemed[c] <= 1 /\ (ceremony[c].status # "spent" => redeemed[c] = 0)

(* No ceremony is finished twice, however the requests that present it race, *)
(* repeat or are cut off: the refinement with the promise of OneTime.        *)
THEOREM NoCeremonyFinishesTwice == Spec => []FinishedOnce
<1>1. OneTimeCeremonies!Spec => []OneTimeCeremonies!AtMostOnce
  BY OneTimeCeremonies!RedeemedOnce
<1>2. OneTimeCeremonies!AtMostOnce => FinishedOnce
  BY DEF OneTimeCeremonies!AtMostOnce, FinishedOnce
<1>3. OT!Init => OneTimeCeremonies!Init
  BY DEF OT!Init, OneTimeCeremonies!Init
<1>4. [OT!Next]_(OT!vars) => [OneTimeCeremonies!Next]_(OneTimeCeremonies!vars)
  BY DEF OT!Next, OT!vars, OT!Draw, OT!Redeem, OT!Drop, OT!Live, OT!Without,
    OneTimeCeremonies!Next, OneTimeCeremonies!vars, OneTimeCeremonies!Draw,
    OneTimeCeremonies!Redeem, OneTimeCeremonies!Drop, OneTimeCeremonies!Live,
    OneTimeCeremonies!Without
<1>5. QED
  BY <1>1, <1>2, <1>3, <1>4, CeremoniesOneTime, PTL
     DEF CeremoniesAreOneTime, OT!Spec, OneTimeCeremonies!Spec
=============================================================================
