----------------------------- MODULE XConnector -----------------------------
(* The X connector (internal/platform/x.go) and its OAuth token manager      *)
(* (internal/platform/xoauth.go) over the one-row token vault of the store.  *)
(*                                                                           *)
(* The manager's mutex covers only the pending authorizations: a refresh, an *)
(* exchange and a revocation each read the vault, call X and then write the  *)
(* vault, in three steps that interleave with those of other calls.  A call  *)
(* ends early on an error, a timeout or a cancelled context (Abort).         *)
(*                                                                           *)
(* X is external: it refuses dead refresh tokens, may or may not rotate them *)
(* and creates a post exactly when it answers 201 or its answer is lost.     *)
EXTENDS Naturals, FiniteSets

CONSTANTS
  Procs,         \* calls that may be in flight together
  Sessions,      \* authenticated browser sessions
  AuthStates,    \* values that randomOAuthValue may return for a state
  MaxTokens,     \* bound on the tokens X issues in a behaviour
  None

ASSUME XAssumption == MaxTokens \in Nat /\ None \notin Sessions

VARIABLES
  vault,         \* table x_oauth_state: the stored XOAuthTokens
  pending,       \* XOAuthManager.states
  proc,          \* the locals of each call
  receipt,       \* the Receipt of each Publish call; sends is its AttemptCount
  live,          \* X: the refresh tokens it accepts
  issued,        \* X: how many tokens it has issued
  posts,         \* X: the posts that the present Publish call created
  exchanges,     \* history: how often consumeState accepted each state
  revoked        \* history: Revoke reported success, and no authorization followed

vars == <<vault, pending, proc, receipt, live, issued, posts, exchanges, revoked>>
remote == <<live, issued, posts>>
history == <<exchanges, revoked>>

----------------------------------------------------------------------------
(* Data *)

(* Tokens are numbered as they are issued; 0 is the empty string.  fresh     *)
(* says that ExpiresAt is more than 30 s away.                               *)
Tokens == [access : 0 .. MaxTokens, refresh : 0 .. MaxTokens, fresh : BOOLEAN]

NoTokens == [access |-> 0, refresh |-> 0, fresh |-> FALSE]

(* loadTokens: found, and not in violation of its policy. *)
Loadable == vault.access # 0 /\ vault.refresh # 0

NoState == [session |-> None, expired |-> FALSE, used |-> FALSE]
PendingStates == [session : Sessions \cup {None}, expired : BOOLEAN, used : BOOLEAN]

PCs == {"idle", "bearer", "refresh.load", "refresh.call", "refresh.save", "send",
        "exchange.call", "exchange.save", "revoke.call", "revoke.delete"}

Locals == [pc : PCs, held : 0 .. MaxTokens, got : Tokens]

Idle == [pc |-> "idle", held |-> 0, got |-> NoTokens]

Receipts == [state : {"FAILED", "UNKNOWN", "COMPLETE"}, sends : 0 .. 2]

Exchanging == {p \in Procs : proc[p].pc \in {"exchange.call", "exchange.save"}}

----------------------------------------------------------------------------
Init ==
  /\ vault = NoTokens
  /\ pending = [s \in AuthStates |-> NoState]
  /\ proc = [p \in Procs |-> Idle]
  /\ receipt = [p \in Procs |-> [state |-> "FAILED", sends |-> 0]]
  /\ live = {}
  /\ issued = 0
  /\ posts = [p \in Procs |-> 0]
  /\ exchanges = [s \in AuthStates |-> 0]
  /\ revoked = FALSE

Goto(p, l) == proc' = [proc EXCEPT ![p] = l]

(* X's token endpoint issues the next access token, and with it the next     *)
(* refresh token, rotating out the one that was presented, or none.          *)
Issue(presented, rotate) ==
  /\ issued < MaxTokens
  /\ issued' = issued + 1
  /\ live' = IF rotate THEN (live \ {presented}) \cup {issued + 1} ELSE live

----------------------------------------------------------------------------
(* Authorization *)

Begin(s, session) ==
  /\ pending[s] = NoState
  /\ pending' = [t \in AuthStates |->
                  IF t = s THEN [session |-> session, expired |-> FALSE, used |-> TRUE]
                  ELSE IF pending[t].expired THEN [pending[t] EXCEPT !.session = None]
                  ELSE pending[t]]
  /\ UNCHANGED <<vault, proc, receipt, remote, history>>

(* Five minutes have passed. *)
ExpireState(s) ==
  /\ pending[s].session # None
  /\ ~pending[s].expired
  /\ pending' = [pending EXCEPT ![s].expired = TRUE]
  /\ UNCHANGED <<vault, proc, receipt, remote, history>>

(* Looked up and deleted under the mutex, and only then checked. *)
consumeState_Keeps(s, session) ==
  /\ pending[s].session # None
  /\ UNCHANGED pending
  /\ ~pending[s].expired
  /\ pending[s].session = session

consumeState(s, session) ==
  /\ pending[s].session # None
  /\ pending' = [pending EXCEPT ![s].session = None]
  /\ ~pending[s].expired
  /\ pending[s].session = session

Exchange(p, s, session) ==
  /\ proc[p].pc = "idle"
  /\ consumeState(s, session)
  /\ exchanges' = [exchanges EXCEPT ![s] = @ + 1]
  /\ revoked' = FALSE
  /\ Goto(p, [Idle EXCEPT !.pc = "exchange.call"])
  /\ UNCHANGED <<vault, receipt, remote>>

(* The callback of another session, or a late one, also uses the state up. *)
ExchangeRefused(s, session) ==
  /\ pending[s].session # None
  /\ pending[s].expired \/ pending[s].session # session
  /\ pending' = [pending EXCEPT ![s].session = None]
  /\ UNCHANGED <<vault, proc, receipt, remote, history>>

(* An exchange that brings no refresh token is an error; one whose answer is *)
(* lost leaves a grant at X that nobody holds.                               *)
ExchangeCall(p) ==
  /\ proc[p].pc = "exchange.call"
  /\ \E rotate, answered \in BOOLEAN :
       /\ Issue(0, rotate)
       /\ Goto(p, IF answered /\ rotate
                    THEN [Idle EXCEPT !.pc = "exchange.save",
                                      !.got = [access |-> issued + 1, refresh |-> issued + 1,
                                               fresh |-> TRUE]]
                    ELSE Idle)
  /\ UNCHANGED <<vault, pending, receipt, posts, history>>

saveTokens(p) ==
  /\ proc[p].pc \in {"exchange.save", "refresh.save"}
  /\ vault' = proc[p].got
  /\ Goto(p, IF proc[p].pc = "exchange.save" THEN Idle ELSE [Idle EXCEPT !.pc = "send"])
  /\ UNCHANGED <<pending, receipt, remote, history>>

(* The access token comes within 30 s of its expiry. *)
ExpireAccess ==
  /\ vault.fresh
  /\ vault' = [vault EXCEPT !.fresh = FALSE]
  /\ UNCHANGED <<pending, proc, receipt, remote, history>>

----------------------------------------------------------------------------
(* RefreshBearerToken *)

RefreshLoad(p) ==
  /\ proc[p].pc = "refresh.load"
  /\ Loadable
  /\ Goto(p, [Idle EXCEPT !.pc = "refresh.call", !.held = vault.refresh])
  /\ UNCHANGED <<vault, pending, receipt, remote, history>>

(* A new record takes over the old refresh token if X sent none.             *)
Refreshed_NoCarry(presented, rotate) ==
  [access |-> issued + 1, refresh |-> IF rotate THEN issued + 1 ELSE 0, fresh |-> TRUE]

Refreshed(presented, rotate) ==
  [access |-> issued + 1, refresh |-> IF rotate THEN issued + 1 ELSE presented, fresh |-> TRUE]

RefreshCall(p) ==
  /\ proc[p].pc = "refresh.call"
  /\ proc[p].held \in live
  /\ \E rotate, answered \in BOOLEAN :
       /\ Issue(proc[p].held, rotate)
       /\ Goto(p, IF answered
                    THEN [Idle EXCEPT !.pc = "refresh.save",
                                      !.got = Refreshed(proc[p].held, rotate)]
                    ELSE Idle)
  /\ UNCHANGED <<vault, pending, receipt, posts, history>>

----------------------------------------------------------------------------
(* Publish *)

Publish(p) ==
  /\ proc[p].pc = "idle"
  /\ receipt' = [receipt EXCEPT ![p] = [state |-> "FAILED", sends |-> 0]]
  /\ posts' = [posts EXCEPT ![p] = 0]
  /\ Goto(p, [Idle EXCEPT !.pc = "bearer"])
  /\ UNCHANGED <<vault, pending, live, issued, history>>

BearerToken(p) ==
  /\ proc[p].pc = "bearer"
  /\ Loadable
  /\ Goto(p, [Idle EXCEPT !.pc = IF vault.fresh THEN "send" ELSE "refresh.load"])
  /\ UNCHANGED <<vault, pending, receipt, remote, history>>

(* What X may answer to a POST: a status, and whether the body is within the *)
(* limit and could be read.  A 201 is valid if its body carries an id.       *)
Answers == [status : {"201", "401", "other"}, readable : BOOLEAN, valid : BOOLEAN]

Created(answer) == answer.status = "201"

(* publishOnce: what the receipt says after one POST. *)
Outcome(answer, state) ==
  CASE ~answer.readable -> "UNKNOWN"
    [] Created(answer) -> IF answer.valid THEN "COMPLETE" ELSE "UNKNOWN"
    [] OTHER -> state

(* Publish repeats the POST once, and only after a 401, however that 401 was *)
(* received: the test is on HTTPStatus alone.                                *)
Repeats_Always(answer, sends) == answer.status = "401"

Repeats(answer, sends) == answer.status = "401" /\ sends = 0

Attempt(p, state) ==
  receipt' = [receipt EXCEPT ![p] = [state |-> state, sends |-> @.sends + 1]]

publishOnce(p, answer) ==
  /\ proc[p].pc = "send"
  /\ Attempt(p, Outcome(answer, receipt[p].state))
  /\ posts' = IF Created(answer) THEN [posts EXCEPT ![p] = @ + 1] ELSE posts
  /\ Goto(p, IF Repeats(answer, receipt[p].sends)
               THEN [Idle EXCEPT !.pc = "refresh.load"] ELSE Idle)
  /\ UNCHANGED <<vault, pending, live, issued, history>>

(* No answer: X may or may not have created the post. *)
publishLost_Resends(p) ==
  /\ proc[p].pc = "send"
  /\ Attempt(p, "UNKNOWN")
  /\ \E created \in 0 .. 1 : posts' = [posts EXCEPT ![p] = @ + created]
  /\ Goto(p, IF receipt[p].sends = 0 THEN proc[p] ELSE Idle)
  /\ UNCHANGED <<vault, pending, live, issued, history>>

publishLost_Failed(p) ==
  /\ proc[p].pc = "send"
  /\ Attempt(p, receipt[p].state)
  /\ \E created \in 0 .. 1 : posts' = [posts EXCEPT ![p] = @ + created]
  /\ Goto(p, Idle)
  /\ UNCHANGED <<vault, pending, live, issued, history>>

publishLost(p) ==
  /\ proc[p].pc = "send"
  /\ Attempt(p, "UNKNOWN")
  /\ \E created \in 0 .. 1 : posts' = [posts EXCEPT ![p] = @ + created]
  /\ Goto(p, Idle)
  /\ UNCHANGED <<vault, pending, live, issued, history>>

----------------------------------------------------------------------------
(* Revoke *)

(* With nothing stored there is nothing to revoke. *)
Revoke(p) ==
  /\ proc[p].pc = "idle"
  /\ Loadable
  /\ Goto(p, [Idle EXCEPT !.pc = "revoke.call", !.held = vault.refresh])
  /\ UNCHANGED <<vault, pending, receipt, remote, history>>

(* Only a 2xx whose body could be read leads to the deletion.  A lost answer *)
(* may hide a revocation.                                                    *)
RevokeCall_AnyAnswer(p) ==
  /\ proc[p].pc = "revoke.call"
  /\ live' \in {live, live \ {proc[p].held}}
  /\ Goto(p, [proc[p] EXCEPT !.pc = "revoke.delete"])
  /\ UNCHANGED <<vault, pending, receipt, issued, posts, history>>

RevokeCall(p) ==
  /\ proc[p].pc = "revoke.call"
  /\ live' = live \ {proc[p].held}
  /\ \E confirmed \in BOOLEAN :
       Goto(p, IF confirmed THEN [proc[p] EXCEPT !.pc = "revoke.delete"] ELSE Idle)
  /\ UNCHANGED <<vault, pending, receipt, issued, posts, history>>

DeleteXOAuthTokens(p) ==
  /\ proc[p].pc = "revoke.delete"
  /\ vault' = NoTokens
  /\ revoked' = (Exchanging = {})
  /\ Goto(p, Idle)
  /\ UNCHANGED <<pending, receipt, remote, exchanges>>

----------------------------------------------------------------------------
(* A failed check or statement, a request X refused or never got, a cancelled *)
(* context.                                                                  *)
Abort(p) ==
  /\ proc[p].pc \notin {"idle", "send"}
  /\ Goto(p, Idle)
  /\ UNCHANGED <<vault, pending, receipt, remote, history>>

(* The vault is in the database; the pending authorizations are not. *)
Crash ==
  /\ proc' = [p \in Procs |-> Idle]
  /\ pending' = [s \in AuthStates |-> [pending[s] EXCEPT !.session = None]]
  /\ UNCHANGED <<vault, receipt, remote, history>>

Call(p) ==
  \/ \E s \in AuthStates, b \in Sessions : Exchange(p, s, b)
  \/ ExchangeCall(p)
  \/ saveTokens(p)
  \/ Publish(p)
  \/ BearerToken(p)
  \/ RefreshLoad(p)
  \/ RefreshCall(p)
  \/ \E answer \in Answers : publishOnce(p, answer)
  \/ publishLost(p)
  \/ Revoke(p)
  \/ RevokeCall(p)
  \/ DeleteXOAuthTokens(p)
  \/ Abort(p)

Next ==
  \/ \E p \in Procs : Call(p)
  \/ \E s \in AuthStates, b \in Sessions : Begin(s, b) \/ ExchangeRefused(s, b)
  \/ \E s \in AuthStates : ExpireState(s)
  \/ ExpireAccess
  \/ Crash

Spec == Init /\ [][Next]_vars

----------------------------------------------------------------------------
(* Properties *)

(* The variables have their types.  In particular a Publish call makes at    *)
(* most two POSTs: one, and one more after a 401.                            *)
TypeOK ==
  /\ vault \in Tokens
  /\ pending \in [AuthStates -> PendingStates]
  /\ proc \in [Procs -> Locals]
  /\ receipt \in [Procs -> Receipts]
  /\ live \subseteq 1 .. MaxTokens
  /\ issued \in 0 .. MaxTokens
  /\ posts \in [Procs -> Nat]
  /\ exchanges \in [AuthStates -> Nat]
  /\ revoked \in BOOLEAN

(* One Publish call never creates a second post, though it may send twice    *)
(* and may lose any answer.                                                  *)
PostedOnce == \A p \in Procs : posts[p] <= 1

(* What a receipt says is so: FAILED means that X holds no post of this      *)
(* call, COMPLETE that it holds one.  In between, UNKNOWN is never forgotten. *)
ReceiptIsTruthful ==
  \A p \in Procs :
    /\ receipt[p].state = "FAILED" => posts[p] = 0
    /\ receipt[p].state = "COMPLETE" => posts[p] = 1

StateStatus ==
  [s \in AuthStates |-> CASE pending[s].session # None -> "live"
                        [] pending[s].session = None /\ pending[s].used -> "spent"
                        [] OTHER -> "fresh"]

OT == INSTANCE OneTime WITH Secrets <- AuthStates, status <- StateStatus, redeemed <- exchanges

(* Authorization states are one-time secrets: one is accepted once at most,  *)
(* however often and from however many sessions its callback arrives, and    *)
(* not at all after a wrong callback or a restart (consumeState).            *)
StatesAreOneTime == OT!Spec

(* The vault never holds a record that loadTokens would refuse: exchange     *)
(* insists on a refresh token and a refresh carries the old one over.        *)
VaultIsUsable == vault # NoTokens => Loadable

(* Revoke goes on to delete the local record only when X no longer accepts   *)
(* the token that it read, and nothing makes X accept that token again       *)
(* before the deletion: a revocation that was not confirmed keeps the record *)
(* so that it can be repeated.                                               *)
DeletesOnlyRevoked == \A p \in Procs : proc[p].pc = "revoke.delete" => proc[p].held \notin live

(* README: no automatic resend after an ambiguous transmission. *)
NoAmbiguousResend ==
  [][\A p \in Procs : receipt'[p].sends > receipt[p].sends
                        => receipt[p].state # "UNKNOWN"]_vars

(* Threat model: a revoked authorization leaves no usable refresh token. *)
RevokeSticks == revoked => vault.refresh \notin live
=============================================================================
