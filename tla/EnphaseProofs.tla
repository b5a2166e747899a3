--------------------------- MODULE EnphaseProofs ---------------------------
(* Theorems about EnphaseAdapter.tla, for any number of grants, expiries   *)
(* and restarts, and about EnphaseAccount.tla, which implements it.        *)
EXTENDS EnphaseAccount, TLAPS

\* What holds in the course of a call, from which SessionKept and
\* ExpiryCostsNoCall follow: a steady call has a session until it is refreshed,
\* and an access token the server accepts afterwards.
CallOK ==
  /\ SessionKept
  /\ ExpiryCostsNoCall
  /\ steady /\ pc \in {"get", "refresh"} => refresh \in liveRefresh
  /\ steady /\ pc = "retry" => access \in liveAccess

\* The inductive invariant
Inv == TypeOK /\ CallOK

\* A process that has just been given a grant has a session.
LEMMA InitInv == Init => Inv
<1> SUFFICES ASSUME Init PROVE Inv
  OBVIOUS
<1>1. CallTypeOK
  BY BoundAssumption DEF Init, CallTypeOK, Token
<1>2. ServerTypeOK
  BY BoundAssumption DEF Init, ServerTypeOK
<1>3. HistoryTypeOK
  <2>1. restarts \in 0..MaxRestarts
    BY BoundAssumption DEF Init
  <2>2. excused \in BOOLEAN /\ steady \in BOOLEAN
    BY Zenon DEF Init
  <2> QED
    BY <2>1, <2>2 DEF HistoryTypeOK
<1>4. CallOK
  BY DEF Init, CallOK, SessionKept, ExpiryCostsNoCall
<1> QED
  BY <1>1, <1>2, <1>3, <1>4 DEF Inv, TypeOK

\* What a grant of the server leaves behind
LEMMA GrantType ==
  ASSUME TypeOK, NEW token \in Token, Grant(token)
  PROVE  /\ ServerTypeOK'
         /\ issued' \in Token \ {0} /\ issued' \in liveAccess'
         /\ refresh # 0
         /\ token # 0 => token \in liveRefresh'
         /\ token # issued' => refresh \in liveRefresh'
BY BoundAssumption DEF TypeOK, CallTypeOK, ServerTypeOK, Grant, Token

\* A refresh that is answered leaves a session, and a live access token unless the answer
\* had none.
LEMMA RefreshedInv ==
  ASSUME Inv, NEW token \in Token, Refreshed(token)
  PROVE  Inv'
<1> USE DEF Inv, TypeOK
<1>1. Grant(token)
  BY DEF Refreshed
<1>2. refresh' # 0 /\ refresh' \in liveRefresh' /\ refresh' \in Token
  BY <1>1, GrantType DEF Refreshed, CallTypeOK
<1>3. access' \in Token /\ steady' \in BOOLEAN /\ (steady' => access' \in liveAccess')
  <2>1. CASE access' = issued' /\ UNCHANGED steady
    <3>1. access' \in Token /\ access' \in liveAccess'
      BY <1>1, <2>1, GrantType
    <3>2. steady' \in BOOLEAN
      BY <2>1, Zenon DEF HistoryTypeOK
    <3> QED
      BY <3>1, <3>2
  <2>2. CASE access' = 0 /\ steady' = FALSE
    <3>1. access' \in Token
      BY <2>2, BoundAssumption DEF Token
    <3> QED
      BY <2>2, <3>1
  <2> QED
    BY <2>1, <2>2 DEF Refreshed, StoreAccess
<1>4. CallTypeOK'
  BY <1>2, <1>3 DEF Refreshed, CallTypeOK, Grant
<1>5. HistoryTypeOK'
  BY <1>3, Zenon DEF Refreshed, HistoryTypeOK
<1>6. CallOK'
  BY <1>1, <1>2, <1>3 DEF Refreshed, Grant, CallOK, SessionKept, ExpiryCostsNoCall, CallTypeOK
<1> QED
  BY <1>1, <1>4, <1>5, <1>6, GrantType

\* One whose answer is lost may cost the session, and says so.
LEMMA RefreshLostInv ==
  ASSUME Inv, NEW token \in Token, RefreshLost(token)
  PROVE  Inv'
<1> USE DEF Inv, TypeOK
<1>1. Grant(token)
  BY DEF RefreshLost
<1>2. CallTypeOK'
  BY DEF RefreshLost, CallTypeOK, Return, tokens
<1>3. HistoryTypeOK'
  <2>1. restarts' \in 0..MaxRestarts
    BY DEF RefreshLost, HistoryTypeOK
  <2>2. excused' \in BOOLEAN /\ steady' \in BOOLEAN
    BY Zenon DEF RefreshLost
  <2> QED
    BY <2>1, <2>2 DEF HistoryTypeOK
<1>4. ~excused' => refresh' \in liveRefresh'
  BY <1>1, GrantType DEF RefreshLost, tokens
<1>5. CallOK'
  BY <1>4 DEF RefreshLost, Return, CallOK, SessionKept, ExpiryCostsNoCall
<1> QED
  BY <1>1, <1>2, <1>3, <1>5, GrantType

\* Every way for a request to end keeps the invariant.
LEMMA AnswerInv == Inv /\ Answer => Inv'
<1> SUFFICES ASSUME Inv, Answer PROVE Inv'
  OBVIOUS
<1> USE DEF Inv, TypeOK, CallTypeOK, ServerTypeOK, HistoryTypeOK,
            CallOK, SessionKept, ExpiryCostsNoCall, Return, tokens, server
<1>1. CASE Accepted
  BY <1>1 DEF Accepted
<1>2. CASE Unavailable
  BY <1>2 DEF Unavailable
<1>3. CASE Rejected
  BY <1>3 DEF Rejected
<1>4. CASE RejectedAgain
  <2>1. ~steady'
    BY <1>4 DEF RejectedAgain
  <2>2. steady' \in BOOLEAN
    BY <1>4, Zenon DEF RejectedAgain
  <2> QED
    BY <1>4, <2>1, <2>2 DEF RejectedAgain
<1>5. CASE NothingToRefresh
  BY <1>5 DEF NothingToRefresh
<1>6. CASE RefreshFails
  BY <1>6 DEF RefreshFails
<1> QED
  BY <1>1, <1>2, <1>3, <1>4, <1>5, <1>6, RefreshedInv, RefreshLostInv
  DEF Answer, Refresh, Token

\* So does every other step.
LEMMA NextInv == Inv /\ [Next]_vars => Inv'
<1> SUFFICES ASSUME Inv, [Next]_vars PROVE Inv'
  OBVIOUS
<1> USE DEF Inv, TypeOK, CallTypeOK, ServerTypeOK, HistoryTypeOK,
            CallOK, SessionKept, ExpiryCostsNoCall, tokens, server
<1>1. CASE Call
  <2>1. steady' \in BOOLEAN
    BY <1>1, SMT DEF Call
  <2>2. steady' => refresh' \in liveRefresh'
    BY <1>1 DEF Call
  <2> QED
    BY <1>1, <2>1, <2>2 DEF Call
<1>2. CASE Answer
  BY <1>2, AnswerInv
<1>3. ASSUME NEW token \in 1..MaxGrants, Expire(token) PROVE Inv'
  <2>1. steady' \in BOOLEAN
    BY <1>3, Zenon DEF Expire
  <2>2. TypeOK'
    BY <1>3, <2>1 DEF Expire
  <2>3. CallOK'
    BY <1>3 DEF Expire
  <2> QED
    BY <2>2, <2>3
<1>4. CASE Revoke
  BY <1>4 DEF Revoke
<1>5. CASE Authorise
  <2>1. issued' \in 1..MaxGrants /\ issued < issued'
    BY <1>5, BoundAssumption DEF Authorise
  <2>2. CallTypeOK'
    BY <1>5, <2>1 DEF Authorise, Token
  <2>3. ServerTypeOK' /\ HistoryTypeOK'
    BY <1>5, <2>1 DEF Authorise
  <2>4. CallOK'
    BY <1>5 DEF Authorise
  <2> QED
    BY <2>2, <2>3, <2>4
<1>6. CASE Restart
  <2>1. excused' \in BOOLEAN /\ steady' \in BOOLEAN
    BY <1>6, Zenon DEF Restart
  <2>2. restarts' \in 0..MaxRestarts
    BY <1>6, BoundAssumption DEF Restart
  <2>3. CallTypeOK'
    BY <1>6 DEF Restart, Token
  <2>4. ServerTypeOK'
    BY <1>6 DEF Restart
  <2>5. CallOK'
    BY <1>6 DEF Restart
  <2> QED
    BY <2>1, <2>2, <2>3, <2>4, <2>5
<1>7. CASE UNCHANGED vars
  BY <1>7 DEF vars
<1> QED
  BY <1>1, <1>2, <1>3, <1>4, <1>5, <1>6, <1>7 DEF Next, AdapterNext

\* The adapter's invariant holds whatever the provider and the operator do.
THEOREM Invariance == Spec => []Inv
BY InitInv, NextInv, PTL DEF Spec

\* The tokens the adapter holds are of grants the server made, and a call is
\* retried only if there was a refresh token (client.go:35-45, 90).
THEOREM TypeCorrect == Spec => []TypeOK
BY Invariance, PTL DEF Inv

\* The adapter does not lose its session, however the server rotates refresh
\* tokens (client.go:99-104).
THEOREM Session == Spec => []SessionKept
BY Invariance, PTL DEF Inv, CallOK

\* A call whose only trouble is one access token that is refused does not return
\* ErrAuthExpired, if its refresh is granted and answered in full (client.go:35-45).
THEOREM ExpiryHealed == Spec => []ExpiryCostsNoCall
BY Invariance, PTL DEF Inv, CallOK
-----------------------------------------------------------------------------
\* Beside the authorisation command the adapter behaves as it does beside the abstract
\* step Authorise: the command touches its state in the step that ends a granted exchange
\* only (enphase-auth main.go:97-114).
LEMMA Implementation == AccountSpec => Spec
<1>1. AccountInit => Init
  BY DEF AccountInit
<1>2. [AccountNext]_accountVars => [Next]_vars
  BY DEF AccountNext, Adapting, Commanding, ExchangeGranted, ExchangeFails, accountVars, Next
<1> QED
  BY <1>1, <1>2, PTL DEF AccountSpec, Spec

\* The session is kept in the specification that has the command, too (client.go:99-104).
THEOREM AccountSession == AccountSpec => []SessionKept
BY Implementation, Session, PTL
-----------------------------------------------------------------------------
\* The command's steps, its handlers and its two channels of one slot
CommandType == /\ command \in {"off", "wait", "stop", "drain", "exchange"}
               /\ handlers \in [Auth!Channel -> Nat]
               /\ queued \in [Auth!Channel -> 0..1]

\* What a step of main or of a handler does to them; in AccountNext it comes alone, or
\* with the grant that ends an exchange.
LEMMA CommandStep ==
  [AccountNext]_accountVars => Auth!Next \/ UNCHANGED commandVars
BY DEF AccountNext, Adapting, Commanding, ExchangeGranted, ExchangeFails, accountVars, Auth!Next

\* No send puts a second value into a channel, and no handler sends twice.
LEMMA CommandTypeStep == CommandType /\ [AccountNext]_accountVars => CommandType'
<1> SUFFICES ASSUME CommandType, Auth!Next \/ UNCHANGED commandVars PROVE CommandType'
  BY CommandStep
<1> USE DEF CommandType, Auth!Channel
<1>1. CASE Auth!Begin \/ Auth!CloseListener \/ Auth!Drained
  BY <1>1 DEF Auth!Begin, Auth!CloseListener, Auth!Drained, Auth!Goto
<1>2. CASE Auth!ListenFails
  BY <1>2 DEF Auth!ListenFails
<1>3. CASE Auth!ReceiveCode
  BY <1>3 DEF Auth!ReceiveCode, Auth!Goto
<1>4. CASE Auth!ReceiveError \/ Auth!TimeOut \/ Auth!Interrupt \/ Auth!Exchanged
  BY <1>4 DEF Auth!ReceiveError, Auth!TimeOut, Auth!Interrupt, Auth!Exchanged, Auth!Exit, Auth!Empty
<1>5. ASSUME NEW k \in Auth!Channel, Auth!Callback(k) \/ Auth!Send(k) PROVE CommandType'
  BY <1>5 DEF Auth!Callback, Auth!Send
<1>6. CASE UNCHANGED commandVars
  BY <1>6 DEF commandVars
<1> QED
  BY <1>1, <1>2, <1>3, <1>4, <1>5, <1>6 DEF Auth!Next, Auth!Waiting

\* Once main has received a code nobody empties codeCh and errCh, so that a handler that
\* finds its channel full blocks until the process ends, for any number of callbacks
\* (enphase-auth main.go:54-55, 66, 70, 82-95).
THEOREM CallbackBlocks == AccountSpec => BlockedForGood
<1>1. AccountInit => CommandType
  BY DEF AccountInit, Auth!Init, Auth!Empty, CommandType
<1>2. CommandType /\ [AccountNext]_accountVars =>
        [\A k \in Auth!Channel : Blocked(k) => Blocked(k)' \/ command' = "off"]_accountVars
  <2> SUFFICES ASSUME CommandType, Auth!Next \/ UNCHANGED commandVars,
                      NEW k \in Auth!Channel, Blocked(k)
               PROVE Blocked(k)' \/ command' = "off"
    BY CommandStep
  <2> USE DEF CommandType, Auth!Channel, Blocked
  <2>1. CASE Auth!Begin \/ Auth!ListenFails \/ Auth!ReceiveCode
    BY <2>1 DEF Auth!Begin, Auth!ListenFails, Auth!ReceiveCode, Auth!Goto
  <2>2. CASE Auth!CloseListener \/ Auth!Drained
    BY <2>2 DEF Auth!CloseListener, Auth!Drained, Auth!Goto
  <2>3. CASE Auth!ReceiveError \/ Auth!TimeOut \/ Auth!Interrupt \/ Auth!Exchanged
    BY <2>3 DEF Auth!ReceiveError, Auth!TimeOut, Auth!Interrupt, Auth!Exchanged, Auth!Exit
  <2>4. ASSUME NEW j \in Auth!Channel, Auth!Callback(j) \/ Auth!Send(j) PROVE Blocked(k)'
    BY <2>4 DEF Auth!Callback, Auth!Send
  <2>5. CASE UNCHANGED commandVars
    BY <2>5 DEF commandVars
  <2> QED
    BY <2>1, <2>2, <2>3, <2>4, <2>5 DEF Auth!Next, Auth!Waiting
<1> QED
  BY <1>1, <1>2, CommandTypeStep, PTL DEF AccountSpec, BlockedForGood
=============================================================================
