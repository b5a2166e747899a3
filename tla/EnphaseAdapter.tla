--------------------------- MODULE EnphaseAdapter ---------------------------
(***************************************************************************)
(* The Enphase client, backend/pkg/enphase/client.go and oauth.go: a call  *)
(* that is rejected refreshes the access token once and is tried once more.*)
(* Its only state is the two tokens, which a refresh replaces in memory and*)
(* a restart takes from the environment again.  One poller uses it, so one *)
(* call runs at a time and the mutex is never contended.                   *)
(*                                                                         *)
(* A token is the number of the grant it came with, 0 the empty string.    *)
(* The OAuth server may issue a new refresh token with a refresh, which    *)
(* ends the old one, or may leave the old one valid (RFC 6749, section 6). *)
(***************************************************************************)
EXTENDS Naturals

CONSTANTS MaxGrants,    \* bound: grants of the OAuth server
          MaxRestarts   \* bound: restarts of the process

ASSUME BoundAssumption == MaxGrants \in Nat \ {0} /\ MaxRestarts \in Nat

VARIABLES
  access,       \* a.cfg.AccessToken
  refresh,      \* a.cfg.RefreshToken; 0 too if client id or secret are not set
  pc,           \* where get is: "idle", "get", "refresh" or "retry"
  result,       \* what the last call returned: "none", "ok", "failed" or "authExpired"
  env           \* the tokens in the environment

VARIABLES       \* the OAuth server
  issued,       \* how many grants it has made
  liveAccess,   \* the access tokens it accepts
  liveRefresh   \* the refresh tokens it accepts

VARIABLES       \* history
  restarts,     \* restarts so far
  excused,      \* the adapter lost its session by no doing of its own
  steady        \* in this call the provider accepts the refresh token, has answered the
                \* refresh in full, if there was one, and refused one access token at most

tokens == <<access, refresh>>
server == <<issued, liveAccess, liveRefresh>>
vars == <<tokens, pc, result, env, server, restarts, excused, steady>>

Init ==
  /\ env \in [access : {1}, refresh : {0, 1}]
  /\ access = env.access /\ refresh = env.refresh
  /\ pc = "idle" /\ result = "none"
  /\ issued = 1 /\ liveAccess = {1} /\ liveRefresh = {1}
  /\ restarts = 0 /\ excused = (env.refresh = 0) /\ steady = FALSE
-----------------------------------------------------------------------------
(* get and doGet.                                                          *)

\* The poller makes a call.
Call ==
  /\ pc = "idle"
  /\ pc' = "get" /\ result' = "none"
  /\ steady' = (refresh \in liveRefresh)
  /\ UNCHANGED <<tokens, env, server, restarts, excused>>

Return(r) == pc' = "idle" /\ result' = r

Accepted ==
  /\ pc \in {"get", "retry"} /\ access \in liveAccess
  /\ Return("ok")
  /\ UNCHANGED <<tokens, env, server, restarts, excused, steady>>

\* 429, 5xx, no answer, or one that does not decode
Unavailable ==
  /\ pc \in {"get", "retry"}
  /\ Return("failed")
  /\ UNCHANGED <<tokens, env, server, restarts, excused, steady>>

\* Mutant: a 401 is returned to the poller like any other error
RejectedForGood ==
  /\ pc = "get"
  /\ Return("authExpired")
  /\ UNCHANGED <<tokens, env, server, restarts, excused, steady>>

\* The first 401 or 403, which may come for a token that is valid
Rejected ==
  /\ pc = "get"
  /\ pc' = "refresh"
  /\ UNCHANGED <<tokens, result, env, server, restarts, excused, steady>>

\* The second one is returned.
RejectedAgain ==
  /\ pc = "retry"
  /\ Return("authExpired")
  /\ steady' = (steady /\ access \notin liveAccess)
  /\ UNCHANGED <<tokens, env, server, restarts, excused>>
-----------------------------------------------------------------------------
(* refresh.                                                                *)

\* Mutant: get ignores the error of refresh
NothingToRefreshRetried ==
  /\ pc = "refresh" /\ refresh = 0
  /\ pc' = "retry"
  /\ UNCHANGED <<tokens, result, env, server, restarts, excused, steady>>

NothingToRefresh ==
  /\ pc = "refresh" /\ refresh = 0
  /\ Return("authExpired")
  /\ UNCHANGED <<tokens, env, server, restarts, excused, steady>>

\* The request does not get through, or the server refuses it.
RefreshFails ==
  /\ pc = "refresh" /\ refresh # 0
  /\ Return("authExpired")
  /\ steady' = FALSE
  /\ UNCHANGED <<tokens, env, server, restarts, excused>>

\* The server grants a refresh; token is the refresh_token of its answer: none,
\* the one it was asked with, or a new one.
Grant(token) ==
  /\ pc = "refresh" /\ refresh \in liveRefresh /\ issued < MaxGrants
  /\ token \in {0, refresh, issued + 1}
  /\ issued' = issued + 1
  /\ liveAccess' = liveAccess \cup {issued'}
  /\ liveRefresh' = IF token = issued' THEN (liveRefresh \ {refresh}) \cup {token}
                                       ELSE liveRefresh

\* What the answer has for an access token is stored without a check, so that an
\* answer that has none stores the empty string, which no request is accepted with.
StoreAccess == \/ access' = issued' /\ UNCHANGED steady
               \/ issued' < MaxGrants /\ access' = 0 /\ steady' = FALSE

\* Mutant: only the access token is stored
RefreshedAccessOnly(token) ==
  /\ Grant(token)
  /\ StoreAccess
  /\ pc' = "retry"
  /\ UNCHANGED <<refresh, result, env, restarts, excused>>

\* Mutant: the refresh token is stored even if the answer has none
RefreshedEmpty(token) ==
  /\ Grant(token)
  /\ StoreAccess
  /\ refresh' = token
  /\ pc' = "retry"
  /\ UNCHANGED <<result, env, restarts, excused>>

Refreshed(token) ==
  /\ Grant(token)
  /\ StoreAccess
  /\ refresh' = IF token = 0 THEN refresh ELSE token
  /\ pc' = "retry"
  /\ UNCHANGED <<result, env, restarts, excused>>

\* The server has made the grant, the answer is lost: 15 s time-out, reset
\* connection or truncated body.
RefreshLost(token) ==
  /\ issued + 1 < MaxGrants
  /\ Grant(token)
  /\ Return("authExpired")
  /\ excused' = (excused \/ token = issued')
  /\ steady' = FALSE
  /\ UNCHANGED <<tokens, env, restarts>>
-----------------------------------------------------------------------------
(* The OAuth server and the operator.                                      *)

\* An access token reaches the end of its life.
Expire(token) ==
  /\ token \in liveAccess /\ issued < MaxGrants
  /\ liveAccess' = liveAccess \ {token}
  /\ steady' = (steady /\ ~(pc = "retry" /\ token = access))
  /\ UNCHANGED <<tokens, pc, result, env, issued, liveRefresh, restarts, excused>>

\* The household withdraws its consent.
Revoke ==
  /\ liveRefresh # {}
  /\ liveRefresh' = {} /\ liveAccess' = {}
  /\ excused' = TRUE /\ steady' = FALSE
  /\ UNCHANGED <<tokens, pc, result, env, issued, restarts>>

\* cmd/enphase-auth: a new grant, which the operator copies into the environment.
Authorise ==
  /\ issued + 1 < MaxGrants
  /\ issued' = issued + 1
  /\ env' = [access |-> issued', refresh |-> issued']
  /\ liveAccess' = liveAccess \cup {issued'}
  /\ liveRefresh' = liveRefresh \cup {issued'}
  /\ UNCHANGED <<tokens, pc, result, restarts, excused, steady>>

\* Nothing is persisted: NewAdapter is given the tokens of the environment.
Restart ==
  /\ restarts < MaxRestarts /\ issued < MaxGrants
  /\ restarts' = restarts + 1
  /\ access' = env.access /\ refresh' = env.refresh
  /\ pc' = "idle" /\ result' = "none"
  /\ excused' = (env.refresh \notin liveRefresh) /\ steady' = FALSE
  /\ UNCHANGED <<env, server>>
-----------------------------------------------------------------------------
Refresh == \/ NothingToRefresh \/ RefreshFails
           \/ \E token \in 0..MaxGrants : Refreshed(token) \/ RefreshLost(token)

\* The answer to the request that is under way
Answer == Accepted \/ Unavailable \/ Rejected \/ RejectedAgain \/ Refresh

\* All but the authorisation command
AdapterNext == \/ Call \/ Answer
               \/ (\E token \in 1..MaxGrants : Expire(token))
               \/ Revoke \/ Restart

Next == AdapterNext \/ Authorise

Spec == Init /\ [][Next]_vars
-----------------------------------------------------------------------------
(* Properties.                                                             *)

Token == 0..MaxGrants

CallTypeOK ==
  /\ env \in [access : Token, refresh : Token] /\ access \in Token /\ refresh \in Token
  /\ pc \in {"idle", "get", "refresh", "retry"}
  /\ result \in {"none", "ok", "failed", "authExpired"}
  /\ pc # "idle" => result = "none"
  /\ pc = "retry" => refresh # 0
ServerTypeOK ==
  /\ issued \in 1..MaxGrants
  /\ liveAccess \subseteq 1..issued /\ liveRefresh \subseteq 1..issued
HistoryTypeOK == restarts \in 0..MaxRestarts /\ excused \in BOOLEAN /\ steady \in BOOLEAN

\* Every variable has its type, tokens are of grants made, a call that is under way
\* has no result, and a retry had something to refresh with.
TypeOK == CallTypeOK /\ ServerTypeOK /\ HistoryTypeOK

\* The adapter does not lose its session: however the server rotates refresh
\* tokens, or leaves them out of its answers, the adapter holds one the server
\* accepts.  Excepted are an answer that was lost with a new token, a withdrawn
\* consent, and a restart with an environment whose token has been rotated since
\* (client.go:99-104).
SessionKept == ~excused => refresh \in liveRefresh

\* An access token that expires costs no poll: a call in which the provider refused
\* nothing but one access token - the refresh token was there and accepted, the answer
\* to the refresh arrived with an access token, which neither expired before the retry
\* nor was refused although valid - never returns ErrAuthExpired (client.go:35-45).
ExpiryCostsNoCall == result = "authExpired" => ~steady

\* An adapter with a session comes back by itself from whatever the provider did:
\* again and again a call succeeds.
Heals == []<>(excused \/ result = "ok")
=============================================================================
