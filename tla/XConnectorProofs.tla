-------------------------- MODULE XConnectorProofs --------------------------
(* Proofs about XConnector for any number of calls, sessions, authorization  *)
(* states and tokens: the types, and the invariants that the run XConnector  *)
(* checks on a small instance.                                               *)
EXTENDS XConnector, TLAPS

(* A Publish call that has not returned has created no post, has sent at     *)
(* most once and has not reported success; a call that is about to save      *)
(* tokens has both of them.                                                  *)
Publishing == {"bearer", "refresh.load", "refresh.call", "refresh.save", "send"}

CallsOK ==
  \A p \in Procs :
    /\ proc[p].pc \in Publishing =>
         posts[p] = 0 /\ receipt[p].state # "COMPLETE" /\ receipt[p].sends <= 1
    /\ proc[p].pc = "refresh.call" => proc[p].held # 0
    /\ proc[p].pc \in {"refresh.save", "exchange.save"} =>
         proc[p].got.access # 0 /\ proc[p].got.refresh # 0

(* A state that may still be accepted has not been accepted yet. *)
StatesOK ==
  \A s \in AuthStates :
    /\ exchanges[s] <= 1
    /\ ~pending[s].used => pending[s].session = None /\ exchanges[s] = 0
    /\ pending[s].session # None => exchanges[s] = 0

XInv ==
  /\ TypeOK
  /\ CallsOK
  /\ StatesOK
  /\ ReceiptIsTruthful
  /\ PostedOnce
  /\ VaultIsUsable

(* What X accepts it has issued; a token that Revoke is about to delete is   *)
(* not accepted, and having been issued is never issued again.               *)
TokensOK ==
  /\ live \subseteq 1 .. issued
  /\ vault.refresh <= issued
  /\ \A p \in Procs : proc[p].held <= issued /\ proc[p].got.refresh <= issued
  /\ DeletesOnlyRevoked

----------------------------------------------------------------------------
(* Facts about the data *)

(* The absent token record is typed. *)
LEMMA TokensType == NoTokens \in Tokens
BY XAssumption DEF NoTokens, Tokens

(* The locals of a call that has not begun are typed. *)
LEMMA IdleType == Idle \in Locals
BY XAssumption, TokensType DEF Idle, Locals, PCs

(* A call that moves on has well-typed locals if it is given such. *)
LEMMA MoveType ==
  ASSUME proc \in [Procs -> Locals], NEW p \in Procs, NEW l \in Locals, Goto(p, l)
  PROVE  proc' \in [Procs -> Locals]
BY DEF Goto

(* The locals of a call that holds a token or a new record are typed. *)
LEMMA LocalsType ==
  ASSUME NEW pc \in PCs, NEW held \in 0 .. MaxTokens, NEW got \in Tokens
  PROVE  /\ [Idle EXCEPT !.pc = pc] \in Locals
         /\ [Idle EXCEPT !.pc = pc, !.held = held] \in Locals
         /\ [Idle EXCEPT !.pc = pc, !.got = got] \in Locals
BY IdleType DEF Idle, Locals

(* The initial state satisfies the invariant. *)
LEMMA InitXInv == Init => XInv
<1> SUFFICES ASSUME Init PROVE XInv
  OBVIOUS
<1>1. TypeOK
  <2>1. pending \in [AuthStates -> PendingStates] /\ receipt \in [Procs -> Receipts]
    BY DEF Init, PendingStates, NoState, Receipts
  <2>2. vault \in Tokens /\ proc \in [Procs -> Locals]
    BY TokensType, IdleType DEF Init
  <2>3. live = {} /\ issued \in 0 .. MaxTokens /\ revoked = FALSE
    BY XAssumption DEF Init
  <2>4. posts \in [Procs -> Nat] /\ exchanges \in [AuthStates -> Nat]
    BY DEF Init
  <2>5. QED
    BY <2>1, <2>2, <2>3, <2>4 DEF TypeOK
<1>2. QED
  BY <1>1 DEF Init, XInv, CallsOK, StatesOK, ReceiptIsTruthful, PostedOnce, VaultIsUsable,
     Publishing, Idle, NoState

----------------------------------------------------------------------------
(* Every action preserves the invariant. *)

(* Exchange: consumeState takes the state out before it counts. *)
LEMMA ExchangeKeeps ==
  ASSUME XInv, NEW p \in Procs, NEW s \in AuthStates, NEW b \in Sessions, Exchange(p, s, b)
  PROVE  XInv'
<1>1. TypeOK'
  <2>1. pending' \in [AuthStates -> PendingStates]
    BY DEF Exchange, consumeState, XInv, TypeOK, PendingStates
  <2>2. proc' \in [Procs -> Locals]
    BY LocalsType, MoveType DEF Exchange, XInv, TypeOK, PCs
  <2>3. exchanges' \in [AuthStates -> Nat]
    BY DEF Exchange, XInv, TypeOK
  <2>4. revoked' \in BOOLEAN /\ UNCHANGED <<vault, receipt, live, issued, posts>>
    BY DEF Exchange, remote
  <2>5. QED
    BY <2>1, <2>2, <2>3, <2>4 DEF XInv, TypeOK
<1>2. CallsOK'
  BY DEF Exchange, consumeState, Goto, Idle, XInv, remote, history, CallsOK, Publishing,
     TypeOK, Locals, Tokens, Receipts
<1>3. StatesOK'
  BY DEF Exchange, consumeState, XInv, remote, history, StatesOK, TypeOK, PendingStates,
     NoState
<1>4. ReceiptIsTruthful' /\ PostedOnce' /\ VaultIsUsable'
  BY DEF Exchange, consumeState, XInv, remote, history, ReceiptIsTruthful, PostedOnce,
     VaultIsUsable, Loadable
<1>5. QED
  BY <1>1, <1>2, <1>3, <1>4 DEF XInv

(* The token request of an exchange: without a refresh token it ends. *)
LEMMA ExchangeCallKeeps ==
  ASSUME XInv, NEW p \in Procs, ExchangeCall(p)
  PROVE  XInv'
<1>1. TypeOK'
  <2>1. proc' \in [Procs -> Locals]
    <3>1. PICK rotate, answered \in BOOLEAN :
            /\ issued < MaxTokens
            /\ \/ Goto(p, Idle)
               \/ Goto(p, [Idle EXCEPT !.pc = "exchange.save",
                                       !.got = [access |-> issued + 1, refresh |-> issued + 1,
                                                fresh |-> TRUE]])
      BY DEF ExchangeCall, Issue
    <3>2. [access |-> issued + 1, refresh |-> issued + 1, fresh |-> TRUE] \in Tokens
      BY <3>1, XAssumption DEF XInv, TypeOK, Tokens
    <3>3. [Idle EXCEPT !.pc = "exchange.save",
                       !.got = [access |-> issued + 1, refresh |-> issued + 1,
                                fresh |-> TRUE]] \in Locals
      BY <3>2, IdleType DEF Idle, Locals, PCs
    <3>4. QED
      BY <3>1, <3>3, IdleType, MoveType DEF XInv, TypeOK
  <2>2. QED
    BY XAssumption, <2>1 DEF ExchangeCall, Issue, XInv, TypeOK, remote, history
<1>2. CallsOK'
  BY DEF ExchangeCall, Issue, Goto, Idle, XInv, remote, history, CallsOK, Publishing,
     TypeOK, Locals, Tokens, Receipts
<1>3. StatesOK' /\ ReceiptIsTruthful' /\ PostedOnce' /\ VaultIsUsable'
  BY DEF ExchangeCall, XInv, remote, history, StatesOK, ReceiptIsTruthful, PostedOnce,
     VaultIsUsable, Loadable
<1>4. QED
  BY <1>1, <1>2, <1>3 DEF XInv

(* saveTokens: what is saved is loadable. *)
LEMMA SaveTokensKeeps ==
  ASSUME XInv, NEW p \in Procs, saveTokens(p)
  PROVE  XInv'
<1>1. TypeOK'
  <2>1. vault' \in Tokens
    BY TokensType DEF saveTokens, XInv, TypeOK, Tokens, Locals
  <2>2. proc' \in [Procs -> Locals]
    BY LocalsType, IdleType, MoveType DEF saveTokens, XInv, TypeOK, PCs
  <2>3. QED
    BY XAssumption, <2>1, <2>2 DEF saveTokens, XInv, TypeOK, remote, history
<1>2. CallsOK'
  BY DEF saveTokens, Goto, Idle, XInv, remote, history, CallsOK, Publishing, TypeOK,
     Locals, Tokens, Receipts
<1>3. VaultIsUsable'
  BY DEF saveTokens, XInv, remote, history, VaultIsUsable, CallsOK, TypeOK, Tokens,
     NoTokens, Loadable
<1>4. StatesOK' /\ ReceiptIsTruthful' /\ PostedOnce'
  BY DEF saveTokens, XInv, remote, history, StatesOK, ReceiptIsTruthful, PostedOnce
<1>5. QED
  BY <1>1, <1>2, <1>3, <1>4 DEF XInv

(* Publish begins with a FAILED receipt and no post. *)
LEMMA PublishKeeps ==
  ASSUME XInv, NEW p \in Procs, Publish(p)
  PROVE  XInv'
<1>1. TypeOK'
  <2>1. proc' \in [Procs -> Locals]
    BY LocalsType, MoveType DEF Publish, XInv, TypeOK, PCs
  <2>2. receipt' \in [Procs -> Receipts]
    BY DEF Publish, XInv, TypeOK, Receipts, CallsOK, Publishing
  <2>3. QED
    BY XAssumption, <2>1, <2>2 DEF Publish, XInv, TypeOK, remote, history
<1>2. CallsOK'
  BY DEF Publish, Goto, Idle, XInv, remote, history, CallsOK, Publishing, TypeOK,
     Locals, Tokens, Receipts
<1>3. ReceiptIsTruthful' /\ PostedOnce'
  BY DEF Publish, XInv, remote, history, ReceiptIsTruthful, PostedOnce, CallsOK,
     Publishing, TypeOK, Receipts
<1>4. StatesOK' /\ VaultIsUsable'
  BY DEF Publish, XInv, remote, history, StatesOK, VaultIsUsable, Loadable
<1>5. QED
  BY <1>1, <1>2, <1>3, <1>4 DEF XInv

(* BearerToken only reads. *)
LEMMA BearerTokenKeeps ==
  ASSUME XInv, NEW p \in Procs, BearerToken(p)
  PROVE  XInv'
<1>1. TypeOK'
  <2>1. proc' \in [Procs -> Locals]
    BY LocalsType, MoveType DEF BearerToken, XInv, TypeOK, PCs
  <2>2. QED
    BY XAssumption, <2>1 DEF BearerToken, XInv, TypeOK, remote, history
<1>2. CallsOK'
  BY DEF BearerToken, Loadable, Goto, Idle, XInv, remote, history, CallsOK, Publishing,
     TypeOK, Locals, Tokens, Receipts
<1>3. StatesOK' /\ ReceiptIsTruthful' /\ PostedOnce' /\ VaultIsUsable'
  BY DEF BearerToken, XInv, remote, history, StatesOK, ReceiptIsTruthful, PostedOnce,
     VaultIsUsable, Loadable
<1>4. QED
  BY <1>1, <1>2, <1>3 DEF XInv

(* RefreshBearerToken reads a refresh token that is not empty. *)
LEMMA RefreshLoadKeeps ==
  ASSUME XInv, NEW p \in Procs, RefreshLoad(p)
  PROVE  XInv'
<1>1. TypeOK'
  <2>1. proc' \in [Procs -> Locals]
    BY LocalsType, MoveType DEF RefreshLoad, XInv, TypeOK, PCs, Tokens
  <2>2. QED
    BY XAssumption, <2>1 DEF RefreshLoad, XInv, TypeOK, remote, history
<1>2. CallsOK'
  BY DEF RefreshLoad, Loadable, Goto, Idle, XInv, remote, history, CallsOK, Publishing,
     TypeOK, Locals, Tokens, Receipts, VaultIsUsable, NoTokens
<1>3. StatesOK' /\ ReceiptIsTruthful' /\ PostedOnce' /\ VaultIsUsable'
  BY DEF RefreshLoad, XInv, remote, history, StatesOK, ReceiptIsTruthful, PostedOnce,
     VaultIsUsable, Loadable
<1>4. QED
  BY <1>1, <1>2, <1>3 DEF XInv

(* The token request of a refresh: the old refresh token is carried over. *)
LEMMA RefreshCallKeeps ==
  ASSUME XInv, NEW p \in Procs, RefreshCall(p)
  PROVE  XInv'
<1>1. TypeOK'
  <2>1. proc' \in [Procs -> Locals]
    <3>1. PICK rotate, answered \in BOOLEAN :
            /\ issued < MaxTokens
            /\ \/ Goto(p, Idle)
               \/ Goto(p, [Idle EXCEPT !.pc = "refresh.save",
                                       !.got = Refreshed(proc[p].held, rotate)])
      BY DEF RefreshCall, Issue
    <3>2. Refreshed(proc[p].held, rotate) \in Tokens
      BY <3>1, XAssumption DEF Refreshed, XInv, TypeOK, Locals, Tokens
    <3>3. [Idle EXCEPT !.pc = "refresh.save",
                       !.got = Refreshed(proc[p].held, rotate)] \in Locals
      BY <3>2, IdleType DEF Idle, Locals, PCs
    <3>4. QED
      BY <3>1, <3>3, IdleType, MoveType DEF XInv, TypeOK
  <2>2. QED
    BY XAssumption, <2>1 DEF RefreshCall, Issue, XInv, TypeOK, remote, history
<1>2. CallsOK'
  BY DEF RefreshCall, Issue, Refreshed, Goto, Idle, XInv, remote, history, CallsOK,
     Publishing, TypeOK, Locals, Tokens, Receipts
<1>3. StatesOK' /\ ReceiptIsTruthful' /\ PostedOnce' /\ VaultIsUsable'
  BY DEF RefreshCall, XInv, remote, history, StatesOK, ReceiptIsTruthful, PostedOnce,
     VaultIsUsable, Loadable
<1>4. QED
  BY <1>1, <1>2, <1>3 DEF XInv

(* One POST and its answer: a repeat follows a 401 only. *)
LEMMA PublishOnceKeeps ==
  ASSUME XInv, NEW p \in Procs, NEW answer \in Answers, publishOnce(p, answer)
  PROVE  XInv'
<1>1. TypeOK'
  <2>1. proc' \in [Procs -> Locals]
    BY LocalsType, IdleType, MoveType DEF publishOnce, XInv, TypeOK, PCs
  <2>2. receipt' \in [Procs -> Receipts]
    BY DEF publishOnce, Attempt, Outcome, Created, Repeats, Answers, XInv, TypeOK,
       Receipts, CallsOK, Publishing
  <2>3. QED
    BY XAssumption, <2>1, <2>2 DEF publishOnce, XInv, TypeOK, remote, history
<1>2. CallsOK'
  BY DEF publishOnce, Attempt, Outcome, Created, Repeats, Answers, Goto, Idle, XInv,
     remote, history, CallsOK, Publishing, TypeOK, Locals, Tokens, Receipts
<1>3. ReceiptIsTruthful' /\ PostedOnce'
  BY DEF publishOnce, Attempt, Outcome, Created, Repeats, Answers, XInv, remote,
     history, ReceiptIsTruthful, PostedOnce, CallsOK, Publishing, TypeOK, Receipts
<1>4. StatesOK' /\ VaultIsUsable'
  BY DEF publishOnce, XInv, remote, history, StatesOK, VaultIsUsable, Loadable
<1>5. QED
  BY <1>1, <1>2, <1>3, <1>4 DEF XInv

(* One POST with no answer: the receipt says UNKNOWN. *)
LEMMA PublishLostKeeps ==
  ASSUME XInv, NEW p \in Procs, publishLost(p)
  PROVE  XInv'
<1>1. TypeOK'
  <2>1. proc' \in [Procs -> Locals]
    BY IdleType, MoveType DEF publishLost, XInv, TypeOK
  <2>2. receipt' \in [Procs -> Receipts]
    BY DEF publishLost, Attempt, XInv, TypeOK, Receipts, CallsOK, Publishing
  <2>3. posts' \in [Procs -> Nat]
    BY DEF publishLost, XInv, TypeOK
  <2>4. QED
    BY <2>1, <2>2, <2>3 DEF publishLost, XInv, TypeOK, history
<1>2. CallsOK'
  BY DEF publishLost, Attempt, Goto, Idle, XInv, remote, history, CallsOK, Publishing,
     TypeOK, Locals, Tokens, Receipts
<1>3. ReceiptIsTruthful' /\ PostedOnce'
  BY DEF publishLost, Attempt, XInv, remote, history, ReceiptIsTruthful, PostedOnce,
     CallsOK, Publishing, TypeOK, Receipts
<1>4. StatesOK' /\ VaultIsUsable'
  BY DEF publishLost, XInv, remote, history, StatesOK, VaultIsUsable, Loadable
<1>5. QED
  BY <1>1, <1>2, <1>3, <1>4 DEF XInv

(* Revoke reads the token it is to revoke. *)
LEMMA RevokeKeeps ==
  ASSUME XInv, NEW p \in Procs, Revoke(p)
  PROVE  XInv'
<1>1. TypeOK'
  <2>1. proc' \in [Procs -> Locals]
    BY LocalsType, MoveType DEF Revoke, XInv, TypeOK, PCs, Tokens
  <2>2. QED
    BY XAssumption, <2>1 DEF Revoke, XInv, TypeOK, remote, history
<1>2. CallsOK'
  BY DEF Revoke, Loadable, Goto, Idle, XInv, remote, history, CallsOK, Publishing,
     TypeOK, Locals, Tokens, Receipts
<1>3. StatesOK' /\ ReceiptIsTruthful' /\ PostedOnce' /\ VaultIsUsable'
  BY DEF Revoke, XInv, remote, history, StatesOK, ReceiptIsTruthful, PostedOnce,
     VaultIsUsable, Loadable
<1>4. QED
  BY <1>1, <1>2, <1>3 DEF XInv

(* The revocation request changes nothing of ours. *)
LEMMA RevokeCallKeeps ==
  ASSUME XInv, NEW p \in Procs, RevokeCall(p)
  PROVE  XInv'
<1>1. TypeOK'
  <2>1. proc' \in [Procs -> Locals]
    BY IdleType DEF RevokeCall, Goto, XInv, TypeOK, Locals, PCs
  <2>2. QED
    BY XAssumption, <2>1 DEF RevokeCall, XInv, TypeOK, remote, history
<1>2. CallsOK'
  BY DEF RevokeCall, Goto, Idle, XInv, remote, history, CallsOK, Publishing, TypeOK,
     Locals, Tokens, Receipts
<1>3. StatesOK' /\ ReceiptIsTruthful' /\ PostedOnce' /\ VaultIsUsable'
  BY DEF RevokeCall, XInv, remote, history, StatesOK, ReceiptIsTruthful, PostedOnce,
     VaultIsUsable, Loadable
<1>4. QED
  BY <1>1, <1>2, <1>3 DEF XInv

(* The deletion leaves an empty vault. *)
LEMMA DeleteXOAuthTokensKeeps ==
  ASSUME XInv, NEW p \in Procs, DeleteXOAuthTokens(p)
  PROVE  XInv'
<1>1. TypeOK'
  <2>1. vault' \in Tokens
    BY TokensType DEF DeleteXOAuthTokens, XInv, TypeOK, Tokens, Locals
  <2>2. proc' \in [Procs -> Locals]
    BY IdleType, MoveType DEF DeleteXOAuthTokens, XInv, TypeOK
  <2>3. QED
    BY XAssumption, <2>1, <2>2 DEF DeleteXOAuthTokens, XInv, TypeOK, remote, history
<1>2. CallsOK'
  BY DEF DeleteXOAuthTokens, Goto, Idle, XInv, remote, history, CallsOK, Publishing,
     TypeOK, Locals, Tokens, Receipts
<1>3. VaultIsUsable'
  BY DEF DeleteXOAuthTokens, XInv, remote, history, VaultIsUsable, CallsOK, TypeOK,
     Tokens, NoTokens, Loadable
<1>4. StatesOK' /\ ReceiptIsTruthful' /\ PostedOnce'
  BY DEF DeleteXOAuthTokens, XInv, remote, history, StatesOK, ReceiptIsTruthful,
     PostedOnce
<1>5. QED
  BY <1>1, <1>2, <1>3, <1>4 DEF XInv

(* A call that gives up leaves vault and receipt as they are. *)
LEMMA AbortKeeps ==
  ASSUME XInv, NEW p \in Procs, Abort(p)
  PROVE  XInv'
<1>1. TypeOK'
  <2>1. proc' \in [Procs -> Locals]
    BY IdleType, MoveType DEF Abort, XInv, TypeOK
  <2>2. QED
    BY XAssumption, <2>1 DEF Abort, XInv, TypeOK, remote, history
<1>2. CallsOK'
  BY DEF Abort, Goto, Idle, XInv, remote, history, CallsOK, Publishing, TypeOK, Locals,
     Tokens, Receipts
<1>3. StatesOK' /\ ReceiptIsTruthful' /\ PostedOnce' /\ VaultIsUsable'
  BY DEF Abort, XInv, remote, history, StatesOK, ReceiptIsTruthful, PostedOnce,
     VaultIsUsable, Loadable
<1>4. QED
  BY <1>1, <1>2, <1>3 DEF XInv

(* Begin adds a state that was never used and drops expired ones. *)
LEMMA BeginKeeps ==
  ASSUME XInv, NEW s \in AuthStates, NEW b \in Sessions, Begin(s, b)
  PROVE  XInv'
<1>1. TypeOK'
  <2>1. pending' \in [AuthStates -> PendingStates]
    BY DEF Begin, XInv, TypeOK, PendingStates
  <2>2. QED
    BY XAssumption, <2>1 DEF Begin, XInv, TypeOK, remote, history
<1>2. StatesOK'
  BY DEF Begin, XInv, remote, history, StatesOK, TypeOK, PendingStates, NoState
<1>3. CallsOK' /\ ReceiptIsTruthful' /\ PostedOnce' /\ VaultIsUsable'
  BY DEF Begin, XInv, remote, history, CallsOK, ReceiptIsTruthful, PostedOnce,
     VaultIsUsable, Loadable
<1>4. QED
  BY <1>1, <1>2, <1>3 DEF XInv

(* A refused callback uses the state up. *)
LEMMA ExchangeRefusedKeeps ==
  ASSUME XInv, NEW s \in AuthStates, NEW b \in Sessions, ExchangeRefused(s, b)
  PROVE  XInv'
<1>1. TypeOK'
  <2>1. pending' \in [AuthStates -> PendingStates]
    BY DEF ExchangeRefused, XInv, TypeOK, PendingStates
  <2>2. QED
    BY XAssumption, <2>1 DEF ExchangeRefused, XInv, TypeOK, remote, history
<1>2. StatesOK'
  BY DEF ExchangeRefused, XInv, remote, history, StatesOK, TypeOK, PendingStates,
     NoState
<1>3. CallsOK' /\ ReceiptIsTruthful' /\ PostedOnce' /\ VaultIsUsable'
  BY DEF ExchangeRefused, XInv, remote, history, CallsOK, ReceiptIsTruthful, PostedOnce,
     VaultIsUsable, Loadable
<1>4. QED
  BY <1>1, <1>2, <1>3 DEF XInv

(* Time runs out for an authorization state. *)
LEMMA ExpireStateKeeps ==
  ASSUME XInv, NEW s \in AuthStates, ExpireState(s)
  PROVE  XInv'
<1>1. TypeOK'
  <2>1. pending' \in [AuthStates -> PendingStates]
    BY DEF ExpireState, XInv, TypeOK, PendingStates
  <2>2. QED
    BY XAssumption, <2>1 DEF ExpireState, XInv, TypeOK, remote, history
<1>2. StatesOK'
  BY DEF ExpireState, XInv, remote, history, StatesOK, TypeOK, PendingStates, NoState
<1>3. CallsOK' /\ ReceiptIsTruthful' /\ PostedOnce' /\ VaultIsUsable'
  BY DEF ExpireState, XInv, remote, history, CallsOK, ReceiptIsTruthful, PostedOnce,
     VaultIsUsable, Loadable
<1>4. QED
  BY <1>1, <1>2, <1>3 DEF XInv

(* Time runs out for an access token. *)
LEMMA ExpireAccessKeeps ==
  ASSUME XInv, ExpireAccess
  PROVE  XInv'
<1>1. TypeOK'
  <2>1. vault' \in Tokens
    BY TokensType DEF ExpireAccess, XInv, TypeOK, Tokens, Locals
  <2>2. QED
    BY XAssumption, <2>1 DEF ExpireAccess, XInv, TypeOK, remote, history
<1>2. VaultIsUsable'
  BY DEF ExpireAccess, XInv, remote, history, VaultIsUsable, CallsOK, TypeOK, Tokens,
     NoTokens, Loadable
<1>3. CallsOK' /\ StatesOK' /\ ReceiptIsTruthful' /\ PostedOnce'
  BY DEF ExpireAccess, XInv, remote, history, CallsOK, StatesOK, ReceiptIsTruthful,
     PostedOnce
<1>4. QED
  BY <1>1, <1>2, <1>3 DEF XInv

(* A crash ends every call and forgets the pending authorizations. *)
LEMMA CrashKeeps ==
  ASSUME XInv, Crash
  PROVE  XInv'
<1>1. TypeOK'
  <2>1. pending' \in [AuthStates -> PendingStates]
    BY DEF Crash, XInv, TypeOK, PendingStates
  <2>2. proc' \in [Procs -> Locals]
    BY IdleType DEF Crash, XInv, TypeOK
  <2>3. QED
    BY XAssumption, <2>1, <2>2 DEF Crash, XInv, TypeOK, remote, history
<1>2. CallsOK'
  BY DEF Crash, Goto, Idle, XInv, remote, history, CallsOK, Publishing, TypeOK, Locals,
     Tokens, Receipts
<1>3. StatesOK'
  BY DEF Crash, XInv, remote, history, StatesOK, TypeOK, PendingStates, NoState
<1>4. ReceiptIsTruthful' /\ PostedOnce' /\ VaultIsUsable'
  BY DEF Crash, XInv, remote, history, ReceiptIsTruthful, PostedOnce, VaultIsUsable,
     Loadable
<1>5. QED
  BY <1>1, <1>2, <1>3, <1>4 DEF XInv

(* The initial states satisfy the invariant and every step preserves it. *)
THEOREM XInvariance == Spec => []XInv
<1>1. XInv /\ [Next]_vars => XInv'
  <2> SUFFICES ASSUME XInv, [Next]_vars PROVE XInv'
    OBVIOUS
  <2>1. ASSUME NEW p \in Procs, Call(p) PROVE XInv'
    BY <2>1, ExchangeKeeps, ExchangeCallKeeps, SaveTokensKeeps, PublishKeeps, BearerTokenKeeps,
       RefreshLoadKeeps, RefreshCallKeeps, PublishOnceKeeps, PublishLostKeeps, RevokeKeeps,
       RevokeCallKeeps, DeleteXOAuthTokensKeeps, AbortKeeps DEF Call
  <2>2. ASSUME NEW s \in AuthStates, NEW b \in Sessions, Begin(s, b) \/ ExchangeRefused(s, b)
        PROVE  XInv'
    BY <2>2, BeginKeeps, ExchangeRefusedKeeps
  <2>3. CASE UNCHANGED vars
    BY <2>3 DEF vars, XInv, TypeOK, CallsOK, StatesOK, ReceiptIsTruthful, PostedOnce,
       VaultIsUsable, Loadable
  <2>4. QED
    BY <2>1, <2>2, <2>3, ExpireStateKeeps, ExpireAccessKeeps, CrashKeeps DEF Next
<1>2. QED
  BY InitXInv, <1>1, PTL DEF Spec

(* The state of the connector, of the token manager and of the vault is      *)
(* always well typed; in particular Publish sends at most twice.             *)
THEOREM XTypeCorrect == Spec => []TypeOK
BY XInvariance, PTL DEF XInv

(* However many calls run, and whatever answers are lost, one Publish call   *)
(* creates at most one post.                                                 *)
THEOREM SinglePost == Spec => []PostedOnce
BY XInvariance, PTL DEF XInv

(* A receipt that says FAILED or COMPLETE is right about X. *)
THEOREM TruthfulReceipts == Spec => []ReceiptIsTruthful
BY XInvariance, PTL DEF XInv

----------------------------------------------------------------------------
(* Authorization states are one-time secrets *)

(* What a state is worth to the abstract specification. *)
LEMMA StatusFacts ==
  ASSUME TypeOK, NEW s \in AuthStates
  PROVE  /\ pending[s].session # None => StateStatus[s] = "live"
         /\ pending[s].session = None /\ pending[s].used => StateStatus[s] = "spent"
         /\ pending[s].session = None /\ ~pending[s].used => StateStatus[s] = "fresh"
BY DEF TypeOK, PendingStates, StateStatus

(* Begin draws a state, and drops those that have expired. *)
LEMMA BeginDraws ==
  ASSUME XInv, NEW s \in AuthStates, NEW b \in Sessions, Begin(s, b)
  PROVE  OT!Draw(s)
<1> DEFINE D == {t \in AuthStates \ {s} : pending[t].session # None /\ pending[t].expired}
<1>1. TypeOK /\ pending[s] = NoState /\ exchanges' = exchanges
  BY DEF XInv, Begin, history
<1>2. StateStatus[s] = "fresh"
  BY <1>1, StatusFacts DEF NoState
<1>3. D \in SUBSET OT!Live
  BY <1>1, StatusFacts DEF OT!Live
<1>4. \A t \in AuthStates : pending[t].session # None => pending[t].used
  BY DEF XInv, StatesOK
<1>5. b # None
  BY XAssumption
<1>6. \A t \in AuthStates :
        /\ t = s => StateStatus'[t] = "live"
        /\ t \in D => StateStatus'[t] = "spent"
        /\ t # s /\ t \notin D => StateStatus'[t] = StateStatus[t]
  <2> SUFFICES ASSUME NEW t \in AuthStates
               PROVE  /\ t = s => StateStatus'[t] = "live"
                      /\ t \in D => StateStatus'[t] = "spent"
                      /\ t # s /\ t \notin D => StateStatus'[t] = StateStatus[t]
    OBVIOUS
  <2>1. CASE t = s
    <3>1. pending'[t].session = b
      BY <2>1 DEF Begin
    <3>2. QED
      BY <1>5, <2>1, <3>1 DEF StateStatus
  <2>2. CASE t \in D
    <3>1. pending'[t].session = None /\ pending'[t].used = pending[t].used
      BY <1>1, <2>2 DEF Begin, TypeOK, PendingStates
    <3>2. QED
      BY <1>4, <2>2, <3>1 DEF StateStatus
  <2>3. CASE t # s /\ t \notin D
    <3>1. pending'[t].session = pending[t].session /\ pending'[t].used = pending[t].used
      BY <1>1, <2>3 DEF Begin, TypeOK, PendingStates
    <3>2. QED
      BY <2>3, <3>1 DEF StateStatus
  <2>4. QED
    BY <2>1, <2>2, <2>3
<1>7. StateStatus' = [OT!Without(D) EXCEPT ![s] = "live"]
  BY <1>6 DEF StateStatus, OT!Without
<1>8. QED
  BY <1>1, <1>2, <1>3, <1>7 DEF OT!Draw

(* An accepted callback redeems its state. *)
LEMMA ExchangeRedeems ==
  ASSUME XInv, NEW p \in Procs, NEW s \in AuthStates, NEW b \in Sessions, Exchange(p, s, b)
  PROVE  OT!Redeem(s)
<1>1. /\ TypeOK /\ pending[s].session # None /\ pending[s].used
      /\ pending' = [pending EXCEPT ![s].session = None]
      /\ exchanges' = [exchanges EXCEPT ![s] = @ + 1]
  BY DEF XInv, StatesOK, Exchange, consumeState
<1>2. StateStatus[s] = "live"
  BY <1>1, StatusFacts
<1>3. StateStatus' = [StateStatus EXCEPT ![s] = "spent"]
  BY <1>1 DEF StateStatus, TypeOK, PendingStates
<1>4. QED
  BY <1>1, <1>2, <1>3 DEF OT!Redeem

(* A refused callback drops its state. *)
LEMMA RefusalDrops ==
  ASSUME XInv, NEW s \in AuthStates, NEW b \in Sessions, ExchangeRefused(s, b)
  PROVE  OT!Drop
<1>1. /\ TypeOK /\ pending[s].session # None /\ pending[s].used
      /\ pending' = [pending EXCEPT ![s].session = None] /\ exchanges' = exchanges
  BY DEF XInv, StatesOK, ExchangeRefused, history
<1>2. StateStatus' = [t \in AuthStates |-> IF t \in {s} THEN "spent" ELSE StateStatus[t]]
  BY <1>1 DEF StateStatus, TypeOK, PendingStates
<1>3. {s} \in SUBSET OT!Live
  BY <1>1, StatusFacts DEF OT!Live
<1>4. QED
  BY <1>1, <1>2, <1>3 DEF OT!Drop, OT!Without

(* So does a crash, all of them. *)
LEMMA CrashDrops ==
  ASSUME XInv, Crash
  PROVE  OT!Drop
<1> DEFINE D == {t \in AuthStates : pending[t].session # None}
<1>1. /\ TypeOK /\ exchanges' = exchanges
      /\ \A t \in AuthStates : pending[t].session # None => pending[t].used
      /\ pending' = [t \in AuthStates |-> [pending[t] EXCEPT !.session = None]]
  BY DEF XInv, StatesOK, Crash, history
<1>2. StateStatus' = [t \in AuthStates |-> IF t \in D THEN "spent" ELSE StateStatus[t]]
  BY <1>1 DEF StateStatus, TypeOK, PendingStates
<1>3. D \in SUBSET OT!Live
  BY <1>1, StatusFacts DEF OT!Live
<1> HIDE DEF D
<1>4. QED
  BY <1>1, <1>2, <1>3 DEF OT!Drop, OT!Without

(* The connector's authorization states behave as one-time secrets, however  *)
(* callbacks, expiries, refusals and crashes interleave.                     *)
THEOREM OneTimeStates == Spec => StatesAreOneTime
<1>1. Init => OT!Init
  BY DEF Init, OT!Init, StateStatus, NoState
<1>2. XInv /\ [Next]_vars => [OT!Next]_(OT!vars)
  <2> SUFFICES ASSUME XInv, [Next]_vars PROVE [OT!Next]_(OT!vars)
    OBVIOUS
  <2>1. ASSUME UNCHANGED <<pending, exchanges>> PROVE UNCHANGED OT!vars
    BY <2>1 DEF OT!vars, StateStatus
  <2>2. ASSUME NEW p \in Procs, Call(p) PROVE OT!Next \/ UNCHANGED OT!vars
    <3>1. ASSUME NEW s \in AuthStates, NEW b \in Sessions, Exchange(p, s, b)
          PROVE  OT!Next
      BY <3>1, ExchangeRedeems DEF OT!Next
    <3>2. CASE UNCHANGED <<pending, exchanges>>
      BY <2>1, <3>2
    <3>3. QED
      BY <2>2, <3>1, <3>2 DEF Call, ExchangeCall, saveTokens, Publish, BearerToken, RefreshLoad,
         RefreshCall, publishOnce, publishLost, Revoke, RevokeCall, DeleteXOAuthTokens, Abort,
         history
  <2>3. ASSUME NEW s \in AuthStates, NEW b \in Sessions, Begin(s, b) \/ ExchangeRefused(s, b)
        PROVE  OT!Next
    BY <2>3, BeginDraws, RefusalDrops DEF OT!Next
  <2>4. ASSUME NEW s \in AuthStates, ExpireState(s) PROVE UNCHANGED OT!vars
    <3>1. \A t \in AuthStates : /\ pending'[t].session = pending[t].session
                                /\ pending'[t].used = pending[t].used
      BY <2>4 DEF ExpireState, XInv, TypeOK, PendingStates
    <3>2. exchanges' = exchanges
      BY <2>4 DEF ExpireState, history
    <3>3. QED
      BY <3>1, <3>2 DEF OT!vars, StateStatus
  <2>5. CASE ExpireAccess \/ UNCHANGED vars
    BY <2>1, <2>5 DEF ExpireAccess, vars, history
  <2>6. CASE Crash
    BY <2>6, CrashDrops DEF OT!Next
  <2>7. QED
    BY <2>2, <2>3, <2>4, <2>5, <2>6 DEF Next
<1>3. QED
  BY <1>1, <1>2, XInvariance, PTL DEF Spec, StatesAreOneTime, OT!Spec

----------------------------------------------------------------------------
(* What Revoke deletes *)

(* The initial state satisfies the invariant of the tokens. *)
LEMMA InitTokens == Init => TokensOK
BY XAssumption DEF Init, TokensOK, DeletesOnlyRevoked, NoTokens, Idle

(* A step of one call that issues no token and writes nothing to the vault,  *)
(* or the record it got.                                                     *)
LEMMA TokensMove ==
  ASSUME TypeOK, TokensOK, NEW p \in Procs, NEW l \in Locals, Goto(p, l),
         issued' = issued, live' \subseteq live,
         vault'.refresh \in {0, vault.refresh, proc[p].got.refresh},
         l.held \in {0, vault.refresh, proc[p].held}, l.got \in {NoTokens, proc[p].got},
         l.pc = "revoke.delete" => l.held \notin live'
  PROVE  TokensOK'
<1>1. /\ proc \in [Procs -> Locals] /\ issued \in Nat /\ vault.refresh \in Nat
      /\ \A q \in Procs : proc[q].held \in Nat /\ proc[q].got.refresh \in Nat
  BY XAssumption DEF TypeOK, Locals, Tokens
<1>2. proc'[p] = l /\ \A q \in Procs : q # p => proc'[q] = proc[q]
  BY <1>1 DEF Goto
<1>3. l.held <= issued /\ l.got.refresh <= issued /\ vault'.refresh <= issued
  BY <1>1 DEF TokensOK, NoTokens
<1>4. QED
  BY <1>1, <1>2, <1>3 DEF TokensOK, DeletesOnlyRevoked

(* A token request: the token it brings is a new one. *)
LEMMA TokensIssue ==
  ASSUME TypeOK, TokensOK, NEW p \in Procs, NEW l \in Locals, Goto(p, l),
         issued' = issued + 1, vault' = vault, live' \subseteq live \cup {issued + 1},
         l.held = 0, l.got.refresh \in {0, proc[p].held, issued + 1}, l.pc # "revoke.delete"
  PROVE  TokensOK'
<1>1. /\ proc \in [Procs -> Locals] /\ issued \in Nat /\ vault.refresh \in Nat
      /\ \A q \in Procs : proc[q].held \in Nat /\ proc[q].got.refresh \in Nat
  BY XAssumption DEF TypeOK, Locals, Tokens
<1>2. proc'[p] = l /\ \A q \in Procs : q # p => proc'[q] = proc[q]
  BY <1>1 DEF Goto
<1>3. l.got.refresh <= issued + 1
  BY <1>1 DEF TokensOK
<1>4. QED
  BY <1>1, <1>2, <1>3 DEF TokensOK, DeletesOnlyRevoked

(* Every step of a call preserves the invariant of the tokens. *)
LEMMA TokensCall ==
  ASSUME TypeOK, TypeOK', TokensOK, NEW p \in Procs, Call(p)
  PROVE  TokensOK'
<1> DEFINE l == proc'[p]
<1>0. l \in Locals /\ proc \in [Procs -> Locals]
  BY DEF TypeOK
<1>1. CASE ExchangeCall(p)
  <2>1. Goto(p, l) /\ l.held = 0 /\ l.got.refresh \in {0, issued + 1} /\ l.pc # "revoke.delete"
    BY <1>0, <1>1 DEF ExchangeCall, Goto, Idle, NoTokens
  <2>2. issued' = issued + 1 /\ vault' = vault /\ live' \subseteq live \cup {issued + 1}
    BY <1>1 DEF ExchangeCall, Issue
  <2>3. QED
    BY <1>0, <2>1, <2>2, TokensIssue
<1>2. CASE RefreshCall(p)
  <2>1. /\ Goto(p, l) /\ l.held = 0 /\ l.got.refresh \in {0, proc[p].held, issued + 1}
        /\ l.pc # "revoke.delete"
    BY <1>0, <1>2 DEF RefreshCall, Goto, Idle, NoTokens, Refreshed
  <2>2. issued' = issued + 1 /\ vault' = vault /\ live' \subseteq live \cup {issued + 1}
    BY <1>2 DEF RefreshCall, Issue
  <2>3. QED
    BY <1>0, <2>1, <2>2, TokensIssue
<1>3. CASE Revoke(p) \/ RefreshLoad(p)
  <2>1. /\ Goto(p, l) /\ l.held = vault.refresh /\ l.got = NoTokens /\ l.pc # "revoke.delete"
        /\ UNCHANGED <<vault, live, issued>>
    BY <1>0, <1>3 DEF Revoke, RefreshLoad, Goto, Idle, remote
  <2>2. QED
    BY <1>0, <2>1, TokensMove
<1>4. CASE RevokeCall(p)
  <2>1. /\ Goto(p, l) /\ l.held \in {0, proc[p].held} /\ l.got \in {NoTokens, proc[p].got}
        /\ l.pc = "revoke.delete" => l.held = proc[p].held
    BY <1>0, <1>4 DEF RevokeCall, Goto, Idle, Locals
  <2>2. live' = live \ {proc[p].held} /\ UNCHANGED <<vault, issued>>
    BY <1>4 DEF RevokeCall
  <2>3. QED
    BY <1>0, <2>1, <2>2, TokensMove
<1>5. CASE saveTokens(p) \/ DeleteXOAuthTokens(p)
  <2>1. Goto(p, l) /\ l.held = 0 /\ l.got = NoTokens /\ l.pc # "revoke.delete"
    BY <1>0, <1>5 DEF saveTokens, DeleteXOAuthTokens, Goto, Idle
  <2>2. UNCHANGED <<live, issued>> /\ vault' \in {proc[p].got, NoTokens}
    BY <1>5 DEF saveTokens, DeleteXOAuthTokens, remote
  <2>3. vault'.refresh \in {0, proc[p].got.refresh}
    BY <2>2 DEF NoTokens
  <2>4. QED
    BY <1>0, <2>1, <2>2, <2>3, TokensMove
<1>6. ASSUME \/ \E s \in AuthStates, b \in Sessions : Exchange(p, s, b)
             \/ \E answer \in Answers : publishOnce(p, answer)
             \/ Publish(p) \/ BearerToken(p) \/ publishLost(p) \/ Abort(p)
      PROVE  TokensOK'
  <2>1. /\ Goto(p, l) /\ l.held = 0 /\ l.got = NoTokens /\ l.pc # "revoke.delete"
        /\ UNCHANGED <<vault, live, issued>>
    BY <1>0, <1>6 DEF Exchange, publishOnce, Publish, BearerToken, publishLost, Abort, Goto, Idle,
       remote
  <2>2. QED
    BY <1>0, <2>1, TokensMove
<1>7. QED
  BY <1>1, <1>2, <1>3, <1>4, <1>5, <1>6 DEF Call

(* So does every other step. *)
LEMMA TokensStep == TypeOK /\ TypeOK' /\ TokensOK /\ [Next]_vars => TokensOK'
<1> SUFFICES ASSUME TypeOK, TypeOK', TokensOK, [Next]_vars PROVE TokensOK'
  OBVIOUS
<1>1. ASSUME NEW p \in Procs, Call(p) PROVE TokensOK'
  BY <1>1, TokensCall
<1>2. CASE UNCHANGED <<vault, proc, live, issued>>
  BY <1>2 DEF TokensOK, DeletesOnlyRevoked
<1>3. CASE ExpireAccess
  <2>1. vault'.refresh = vault.refresh /\ UNCHANGED <<proc, live, issued>>
    BY <1>3 DEF ExpireAccess, TypeOK, Tokens, remote
  <2>2. QED
    BY <2>1 DEF TokensOK, DeletesOnlyRevoked
<1>4. CASE Crash
  <2>1. UNCHANGED <<vault, live, issued>> /\ \A p \in Procs : proc'[p] = Idle
    BY <1>4 DEF Crash, remote
  <2>2. issued \in Nat
    BY XAssumption DEF TypeOK
  <2>3. QED
    BY <2>1, <2>2 DEF TokensOK, DeletesOnlyRevoked, Idle, NoTokens
<1>5. QED
  BY <1>1, <1>2, <1>3, <1>4 DEF Next, vars, Begin, ExchangeRefused, ExpireState, remote

(* However refreshes, exchanges and revocations race, Revoke gets as far as  *)
(* deleting the record only when the token it read is dead at X.             *)
THEOREM RevokedBeforeDeleted == Spec => []DeletesOnlyRevoked
<1>1. TokensOK => DeletesOnlyRevoked
  BY DEF TokensOK
<1>2. QED
  BY InitTokens, TokensStep, XTypeCorrect, <1>1, PTL DEF Spec

(* Whatever refreshes, exchanges and revocations race, the vault holds       *)
(* either no record or one that loadTokens accepts.                          *)
THEOREM UsableVault == Spec => []VaultIsUsable
BY XInvariance, PTL DEF XInv

(* What was proved of one-time secrets, for the authorization states. *)
OneTimeAuthStates == INSTANCE OneTimeProofs WITH
  Secrets <- AuthStates, status <- StateStatus, redeemed <- exchanges

(* An authorization state is exchanged once at most, and not while           *)
(* consumeState would still accept it.                                       *)
ExchangedOnce ==
  \A s \in AuthStates :
    exchanges[s] <= 1 /\ (pending[s].session # None => exchanges[s] = 0)

(* No authorization state is exchanged twice, however callbacks race, repeat *)
(* or come from other sessions: the refinement with the promise of OneTime.  *)
THEOREM NoStateExchangedTwice == Spec => []ExchangedOnce
<1>1. OneTimeAuthStates!Spec => []OneTimeAuthStates!AtMostOnce
  BY OneTimeAuthStates!RedeemedOnce
<1>2. OneTimeAuthStates!AtMostOnce => ExchangedOnce
  BY DEF OneTimeAuthStates!AtMostOnce, ExchangedOnce, StateStatus
<1>3. OT!Init => OneTimeAuthStates!Init
  BY DEF OT!Init, OneTimeAuthStates!Init
<1>4. [OT!Next]_(OT!vars) => [OneTimeAuthStates!Next]_(OneTimeAuthStates!vars)
  BY DEF OT!Next, OT!vars, OT!Draw, OT!Redeem, OT!Drop, OT!Live, OT!Without,
    OneTimeAuthStates!Next, OneTimeAuthStates!vars, OneTimeAuthStates!Draw,
    OneTimeAuthStates!Redeem, OneTimeAuthStates!Drop, OneTimeAuthStates!Live,
    OneTimeAuthStates!Without
<1>5. QED
  BY <1>1, <1>2, <1>3, <1>4, OneTimeStates, PTL
     DEF StatesAreOneTime, OT!Spec, OneTimeAuthStates!Spec
=============================================================================
