---------------------------- MODULE AccessProofs ----------------------------
(***************************************************************************)
(* What Access promises of tokens and sessions, proved for any number of   *)
(* flows and tokens; then what ConfigEditing promises of the row, its      *)
(* trail and the dialogs, and ConsoleLogin of the second factor, for any   *)
(* tabs, administrators and calls on their way.                            *)
(*                                                                         *)
(* None of the properties is inductive: that a logout answered "ok" leaves *)
(* nothing usable rests on which token its call carried, on what was found *)
(* out about the token held when it was asked for before the silent login, *)
(* and on tokens never coming to life again.  So the invariant says what a *)
(* flow knows at each of its awaits, in terms of the tokens that still     *)
(* open something, and a step of one flow leaves the others what they know *)
(* because that set never regains a token signed before.                   *)
(*                                                                         *)
(* In the console's two models the invariants say what is true of each     *)
(* call: TracedInv, how far the row, the trail and the one handler between *)
(* its steps agree; FaithfulDialogs, that an open dialog has an object no  *)
(* answer but a switch's replaces; ConsoleInv, that a call that enables    *)
(* the second factor carries a secret an authenticator has.                *)
(***************************************************************************)
EXTENDS Access, ConfigEditing, ConsoleLogin, TLAPS

(* The tokens that open something.                                         *)
Live == {t \in Token : Accepted(t)}

Calling == {"sent", "found", "admitted"}
LoggingInAgain == {"loggingIn", "loginAnswered"}
Asking == {"request", "refresh", "logout"}

(* What a flow r knows, with n tokens signed and those of L live.          *)
Tokens(r, n) == r.held \in 0..n /\ r.carried \in 0..n /\ r.fresh \in 0..n

AtItsAwait(r) ==
  /\ r.pc \in Calling =>
       /\ r.kind \in Asking /\ r.answer = "none"
       /\ r.retried => r.carried = r.fresh
       /\ r.kind = "logout" /\ ~r.retried => r.carried = r.held /\ r.fresh = NoToken
  /\ r.pc \in {"found", "admitted"} => r.carried # NoToken
  /\ r.pc = "answered" =>
       /\ r.kind \in Asking
       /\ r.kind = "logout" /\ ~r.retried => r.fresh = NoToken
  /\ r.pc \in LoggingInAgain =>
       /\ ~r.retried
       /\ \/ r.kind = "login" /\ r.answer = "none"
          \/ r.kind \in Asking /\ r.answer = "refused"
  /\ r.pc = "idle" => r = Idle

Ended(r, L) ==
  /\ r.kind = "logout" /\ (r.retried \/ r.answer \in {"ok", "refused"}) => r.held \notin L
  /\ r.kind = "logout" /\ r.answer = "ok" => r.fresh \notin L
  /\ r.retried /\ r.answer = "refused" => r.fresh \notin L

Good(r, n, L) == Tokens(r, n) /\ AtItsAwait(r) /\ Ended(r, L)

(* A stored agreement, and that of an open login page, is the user's last  *)
(* word on the policy.                                                     *)
Said ==
  /\ consent \in BOOLEAN /\ willing \in BOOLEAN /\ page \in LoginPage
  /\ consent \/ page = "agreed" => willing

(* Every signed token names a session that was created with a token no     *)
(* younger than it.                                                        *)
Store ==
  /\ minted \in 0..MaxTokens /\ sessions \subseteq 1..minted
  /\ sidOf \in [Token -> Token \cup {NoToken}]
  /\ \A t \in 1..minted : sidOf[t] \in 1..minted
  /\ aged \subseteq Token /\ redisUp \in BOOLEAN
  /\ token \in 0..minted /\ running \in BOOLEAN /\ Said

Flows == flow \in [Flow -> FlowState] /\ \A f \in Flow : Good(flow[f], minted, Live)

AccessInv == Store /\ Flows

-----------------------------------------------------------------------------
(* What a step may do to the tokens: more may be signed, none of those     *)
(* signed before comes to life again.                                      *)
Onward ==
  /\ Store' /\ minted <= minted'
  /\ \A t \in 0..minted : t \in Live' => t \in Live

LEMMA Signs ==
  ASSUME Store, minted < MaxTokens, minted' = minted + 1,
         NEW s \in 1..minted + 1, sidOf' = [sidOf EXCEPT ![minted'] = s],
         sessions' \subseteq sessions \cup {minted'}, UNCHANGED <<environment, device>>
  PROVE  Onward
<1>1. minted \in Nat /\ MaxTokens \in Nat
  BY AccessAssumption DEF Store
<1>2. Store'
  BY <1>1 DEF Store, Said, Token, NoToken, environment, device
<1>3. ASSUME NEW t \in 0..minted, t \in Live'
      PROVE  t \in Live
  <2>1. t \in Token /\ t # minted'
    BY <1>1, <1>3 DEF Live, Token
  <2>2. sidOf'[t] = sidOf[t] /\ sidOf[t] # minted' /\ aged' = aged
    BY <1>1, <1>3, <2>1 DEF Store, Token, environment
  <2> QED
    BY <1>3, <2>1, <2>2 DEF Live, Accepted, Signed
<1> QED
  BY <1>1, <1>2, <1>3 DEF Onward

LEMMA SignsNothing ==
  ASSUME Store, UNCHANGED <<minted, sidOf>>, sessions' \subseteq sessions,
         aged \subseteq aged', aged' \subseteq Token, redisUp' \in BOOLEAN,
         Said', token' \in 0..minted, running' \in BOOLEAN
  PROVE  Onward
<1>1. minted \in Nat
  BY AccessAssumption DEF Store
<1>2. Store'
  BY DEF Store
<1>3. Live' \subseteq Live
  BY DEF Live, Accepted, Signed
<1> QED
  BY <1>1, <1>2, <1>3 DEF Onward

-----------------------------------------------------------------------------
(* What other flows know stays true.                                       *)
LEMMA GoodKept ==
  ASSUME NEW r, NEW m \in Nat, NEW n \in Nat, m <= n, NEW L, NEW K,
         \A t \in 0..m : t \in K => t \in L, Good(r, m, L)
  PROVE  Good(r, n, K)
<1>1. Tokens(r, n)
  BY DEF Good, Tokens
<1>2. Ended(r, K)
  BY DEF Good, Tokens, Ended
<1> QED
  BY <1>1, <1>2 DEF Good

(* A step that moves one flow, or none, keeps the invariant if what that   *)
(* flow knows afterwards is true.                                          *)
LEMMA OneFlow ==
  ASSUME AccessInv, Onward, NEW f \in Flow, NEW r \in FlowState,
         flow' = [flow EXCEPT ![f] = r], Good(r, minted', Live')
  PROVE  AccessInv'
<1>1. minted \in Nat /\ minted' \in Nat
  BY AccessAssumption DEF AccessInv, Onward, Store
<1>2. flow' \in [Flow -> FlowState]
  BY DEF AccessInv, Flows
<1>3. ASSUME NEW g \in Flow
      PROVE  Good(flow'[g], minted', Live')
  <2>1. CASE g = f
    BY <2>1 DEF AccessInv, Flows
  <2>2. CASE g # f
    <3>1. Good(flow[g], minted, Live) /\ flow'[g] = flow[g]
      BY <2>2 DEF AccessInv, Flows
    <3> QED
      BY <1>1, <3>1, GoodKept DEF Onward
  <2> QED
    BY <2>1, <2>2
<1> QED
  BY <1>2, <1>3 DEF AccessInv, Flows, Onward

LEMMA NoFlow ==
  ASSUME AccessInv, Onward, UNCHANGED flow
  PROVE  AccessInv'
<1>1. minted \in Nat /\ minted' \in Nat
  BY AccessAssumption DEF AccessInv, Onward, Store
<1>2. ASSUME NEW g \in Flow
      PROVE  Good(flow'[g], minted', Live')
  <2>1. Good(flow[g], minted, Live) /\ flow'[g] = flow[g]
    BY DEF AccessInv, Flows
  <2> QED
    BY <1>1, <2>1, GoodKept DEF Onward
<1> QED
  BY <1>2 DEF AccessInv, Flows, Onward

-----------------------------------------------------------------------------
(* What a flow can become.                                                 *)
LEMMA Facts ==
  ASSUME AccessInv
  PROVE  /\ minted \in Nat /\ MaxTokens \in Nat /\ minted <= MaxTokens
         /\ 0..minted \subseteq Token \cup {NoToken} /\ token \in 0..minted
         /\ NoToken \in 0..minted /\ NoToken \notin Live /\ NoToken \notin Live'
         /\ \A f \in Flow : flow[f] \in FlowState /\ Good(flow[f], minted, Live)
BY AccessAssumption DEF AccessInv, Store, Flows, Token, NoToken, Live

LEMMA IdleIs ==
  /\ Idle \in [kind : {"none"}, pc : {"idle"}, retried : {FALSE}, held : {NoToken},
               carried : {NoToken}, fresh : {NoToken}, answer : {"none"}]
  /\ Idle \in FlowState
BY DEF Idle, FlowState

LEMMA BeginsGood ==
  ASSUME AccessInv
  PROVE  /\ Idle \in FlowState /\ Good(Idle, minted, Live)
         /\ LoggingIn \in FlowState /\ Good(LoggingIn, minted, Live)
         /\ \A kind \in Asking : Sending(kind) \in FlowState /\ Good(Sending(kind), minted, Live)
<1>1. Good(Idle, minted, Live)
  BY Facts, IdleIs DEF Good, Tokens, AtItsAwait, Ended, Calling, LoggingInAgain
<1>2. LoggingIn \in FlowState /\ LoggingIn.pc = "loggingIn" /\ LoggingIn.kind = "login"
  BY IdleIs DEF LoggingIn, FlowState
<1>3. /\ ~LoggingIn.retried /\ LoggingIn.answer = "none" /\ LoggingIn.held = NoToken
      /\ LoggingIn.carried = NoToken /\ LoggingIn.fresh = NoToken
  BY IdleIs DEF LoggingIn, FlowState
<1>4. Good(LoggingIn, minted, Live)
  BY <1>2, <1>3, Facts DEF Good, Tokens, AtItsAwait, Ended, Calling, LoggingInAgain
<1>5. ASSUME NEW kind \in Asking
      PROVE  Sending(kind) \in FlowState /\ Good(Sending(kind), minted, Live)
  <2> DEFINE r == Sending(kind)
  <2>1. r \in FlowState
    BY <1>5, Facts, IdleIs, ZenonT(60) DEF Sending, FlowState, Asking
  <2>2. /\ r.kind = kind /\ r.pc = "sent" /\ r.carried = token /\ ~r.retried
        /\ r.answer = "none" /\ r.fresh = NoToken
        /\ r.held = IF kind = "logout" THEN token ELSE NoToken
    BY <1>5, IdleIs DEF Sending, FlowState
  <2> HIDE DEF r
  <2> QED
    BY <1>5, <2>1, <2>2, Facts DEF r, Good, Tokens, AtItsAwait, Ended, Calling, LoggingInAgain
<1> QED
  BY <1>1, <1>2, <1>4, <1>5, IdleIs

(* What was said of the policy, step by step.                              *)
LEMMA SaidStays ==
  ASSUME Said, UNCHANGED said
  PROVE  Said'
BY DEF Said, said

LEMMA AnswersToThePolicy ==
  ASSUME Said,
         \/ OpenLoginPage \/ LeaveLoginPage \/ RefusePrivacyPolicy \/ Quit
         \/ \E f \in Flow : LoginPageAgree(f) \/ AcceptPrivacyPolicy(f)
  PROVE  Said'
<1>1. CASE OpenLoginPage \/ LeaveLoginPage
  BY <1>1 DEF OpenLoginPage, LeaveLoginPage, Said, LoginPage
<1>2. CASE RefusePrivacyPolicy
  BY <1>2 DEF RefusePrivacyPolicy, Said, LoginPage
<1>3. CASE Quit
  <2>1. page' = "closed" /\ page' \in LoginPage
    BY <1>3 DEF Quit, LoginPage
  <2>2. CASE consent' = FALSE /\ willing' = FALSE
    BY <2>1, <2>2 DEF Said
  <2>3. CASE UNCHANGED <<consent, willing>>
    BY <2>1, <2>3 DEF Said
  <2> QED
    BY <1>3, <2>2, <2>3 DEF Quit
<1>4. ASSUME NEW f \in Flow, LoginPageAgree(f) \/ AcceptPrivacyPolicy(f)
      PROVE  Said'
  BY <1>4 DEF LoginPageAgree, AcceptPrivacyPolicy, Said, LoginPage
<1> QED
  BY <1>1, <1>2, <1>3, <1>4

(* A step that leaves the tokens alone.                                    *)
LEMMA Stays ==
  ASSUME AccessInv, UNCHANGED <<server, aged>>, redisUp' \in BOOLEAN,
         Said', token' \in 0..minted, running' \in BOOLEAN
  PROVE  Onward /\ minted' = minted /\ Live' = Live
<1>1. Onward
  BY SignsNothing DEF AccessInv, server, Store
<1> QED
  BY <1>1 DEF server, Live, Accepted, Signed

LEMMA StaysOneFlow ==
  ASSUME AccessInv, UNCHANGED <<server, aged>>, redisUp' \in BOOLEAN,
         Said', token' \in 0..minted, running' \in BOOLEAN,
         NEW f \in Flow, NEW r \in FlowState, flow' = [flow EXCEPT ![f] = r],
         Good(r, minted, Live)
  PROVE  AccessInv'
BY Stays, OneFlow

-----------------------------------------------------------------------------
(* One lemma per group of actions.                                         *)
LEMMA UserStepKeeps ==
  ASSUME AccessInv, NEW f \in Flow, UserStep(f)
  PROVE  AccessInv'
<1>1. PICK r \in {Idle, LoggingIn} \cup {Sending(kind) : kind \in Asking} :
        flow' = [flow EXCEPT ![f] = r]
  BY DEF UserStep, Call, EnsureLogin, LoginPageAgree, LoginPageLogin, Logout,
         AcceptPrivacyPolicy, Launch, Asking
<1>2. r \in FlowState /\ Good(r, minted, Live)
  BY BeginsGood
<1>3. /\ UNCHANGED <<server, aged>> /\ redisUp' \in BOOLEAN
      /\ token' \in 0..minted /\ running' \in BOOLEAN
  BY DEF UserStep, Call, EnsureLogin, LoginPageAgree, LoginPageLogin, Logout,
         AcceptPrivacyPolicy, Launch, environment, device, AccessInv, Store
<1>4. Said'
  <2>1. UNCHANGED said \/ LoginPageAgree(f) \/ AcceptPrivacyPolicy(f)
    BY DEF UserStep, Call, EnsureLogin, LoginPageLogin, Logout, Launch, device, said
  <2> QED
    BY <2>1, SaidStays, AnswersToThePolicy DEF AccessInv, Store
<1> QED
  BY <1>1, <1>2, <1>3, <1>4, StaysOneFlow

LEMMA WorldStepKeeps ==
  ASSUME AccessInv,
         \/ OpenLoginPage \/ LeaveLoginPage \/ RefusePrivacyPolicy \/ Quit \/ SwitchRedis
         \/ \E t \in Token : ExpireSession(t) \/ AgeToken(t)
  PROVE  AccessInv'
<1>1. CASE OpenLoginPage \/ LeaveLoginPage \/ RefusePrivacyPolicy \/ SwitchRedis
  <2>1. Onward
    <3>1. Said'
      <4>1. UNCHANGED said \/ ~SwitchRedis
        BY DEF SwitchRedis, device, said
      <4> QED
        BY <1>1, <4>1, SaidStays, AnswersToThePolicy DEF AccessInv, Store
    <3> QED
      BY <1>1, <3>1, Facts, Stays
      DEF OpenLoginPage, LeaveLoginPage, RefusePrivacyPolicy, SwitchRedis,
          environment, device, server, AccessInv, Store
  <2> QED
    BY <1>1, <2>1, NoFlow DEF OpenLoginPage, LeaveLoginPage, RefusePrivacyPolicy, SwitchRedis
<1>2. CASE Quit
  <2>1. Onward /\ minted' = minted /\ Live' = Live
    BY <1>2, AnswersToThePolicy, Stays DEF Quit, environment, AccessInv, Store
  <2>2. \A f \in Flow : flow'[f] \in FlowState /\ Good(flow'[f], minted', Live')
    BY <1>2, <2>1, BeginsGood DEF Quit
  <2> QED
    BY <1>2, <2>1, <2>2 DEF Quit, AccessInv, Flows, Onward
<1>3. ASSUME NEW t \in Token, ExpireSession(t) \/ AgeToken(t)
      PROVE  AccessInv'
  <2>1. Onward
    BY <1>3, SignsNothing
    DEF ExpireSession, AgeToken, environment, device, server, AccessInv, Store, Said
  <2> QED
    BY <1>3, <2>1, NoFlow DEF ExpireSession, AgeToken
<1> QED
  BY <1>1, <1>2, <1>3

-----------------------------------------------------------------------------
(* The records the server's and the client's steps make of a flow q.       *)
Pc == {"idle", "sent", "found", "admitted", "answered", "loggingIn", "loginAnswered"}

LEMMA MovedIs ==
  ASSUME NEW q \in FlowState, NEW pc \in Pc, NEW r, r = [q EXCEPT !.pc = pc]
  PROVE  /\ r \in FlowState /\ r.pc = pc
         /\ r.kind = q.kind /\ r.retried = q.retried /\ r.held = q.held
         /\ r.carried = q.carried /\ r.fresh = q.fresh /\ r.answer = q.answer
BY DEF FlowState, Pc

LEMMA AnsweredIs ==
  ASSUME NEW q \in FlowState, NEW answer \in {"ok", "refused", "failed"}, NEW r,
         r = [q EXCEPT !.pc = "answered", !.answer = answer, !.carried = NoToken]
  PROVE  /\ r \in FlowState /\ r.pc = "answered" /\ r.answer = answer /\ r.carried = NoToken
         /\ r.kind = q.kind /\ r.retried = q.retried /\ r.held = q.held /\ r.fresh = q.fresh
BY DEF FlowState

LEMMA ReplayIs ==
  ASSUME NEW q \in FlowState, NEW r,
         r = [q EXCEPT !.pc = "sent", !.retried = TRUE, !.answer = "none", !.carried = q.fresh]
  PROVE  /\ r \in FlowState /\ r.pc = "sent" /\ r.retried /\ r.answer = "none"
         /\ r.carried = q.fresh /\ r.kind = q.kind /\ r.held = q.held /\ r.fresh = q.fresh
BY DEF FlowState

-----------------------------------------------------------------------------
(* The server's steps.                                                     *)
LEMMA ReadSessionKeeps ==
  ASSUME AccessInv, NEW f \in Flow, ReadSession(f)
  PROVE  AccessInv'
<1> DEFINE q == flow[f]
<1>1. q \in FlowState /\ Good(q, minted, Live) /\ q.pc = "sent"
  BY Facts DEF ReadSession
<1>2. /\ UNCHANGED <<server, aged>> /\ redisUp' \in BOOLEAN /\ Said'
      /\ token' \in 0..minted /\ running' \in BOOLEAN
  BY DEF ReadSession, environment, device, AccessInv, Store, Said
<1>3. CASE (Move(f, "found") \/ Move(f, "admitted")) /\ Signed(q.carried)
  <2>1. PICK pc \in {"found", "admitted"} : flow' = [flow EXCEPT ![f] = [q EXCEPT !.pc = pc]]
    BY <1>3 DEF Move
  <2> DEFINE r == [q EXCEPT !.pc = pc]
  <2>2. /\ r \in FlowState /\ r.pc = pc /\ r.kind = q.kind /\ r.retried = q.retried
        /\ r.held = q.held /\ r.carried = q.carried /\ r.fresh = q.fresh /\ r.answer = q.answer
    BY <1>1, MovedIs DEF Pc
  <2>3. q.carried # NoToken
    BY <1>3 DEF Signed
  <2>4. flow' = [flow EXCEPT ![f] = r]
    BY <2>1
  <2> HIDE DEF r
  <2>5. Good(r, minted, Live)
    BY <1>1, <2>2, <2>3 DEF Good, Tokens, AtItsAwait, Ended, Calling, LoggingInAgain
  <2> QED
    BY <1>2, <2>2, <2>4, <2>5, StaysOneFlow
<1>4. CASE Answer(f, "refused") /\ q.carried \notin Live
  <2> DEFINE r == [q EXCEPT !.pc = "answered", !.answer = "refused", !.carried = NoToken]
  <2>1. /\ r \in FlowState /\ r.pc = "answered" /\ r.answer = "refused" /\ r.carried = NoToken
        /\ r.kind = q.kind /\ r.retried = q.retried /\ r.held = q.held /\ r.fresh = q.fresh
    BY <1>1, AnsweredIs, ZenonT(60)
  <2>2. flow' = [flow EXCEPT ![f] = r]
    BY <1>4 DEF Answer, Answered
  <2> HIDE DEF r
  <2>3. Good(r, minted, Live)
    BY <1>1, <1>4, <2>1, Facts DEF Good, Tokens, AtItsAwait, Ended, Calling, LoggingInAgain
  <2> QED
    BY <1>2, <2>1, <2>2, <2>3, StaysOneFlow, Zenon
<1> QED
  BY <1>3, <1>4 DEF ReadSession, Live, Accepted

LEMMA RenewSessionKeeps ==
  ASSUME AccessInv, NEW f \in Flow, RenewSession(f)
  PROVE  AccessInv'
<1> DEFINE q == flow[f]  r == [q EXCEPT !.pc = "admitted"]
<1>1. q \in FlowState /\ Good(q, minted, Live) /\ q.pc = "found"
  BY Facts DEF RenewSession
<1>2. /\ r \in FlowState /\ r.pc = "admitted" /\ r.kind = q.kind /\ r.retried = q.retried
      /\ r.held = q.held /\ r.carried = q.carried /\ r.fresh = q.fresh /\ r.answer = q.answer
  BY <1>1, MovedIs DEF Pc
<1>3. flow' = [flow EXCEPT ![f] = r]
  BY DEF RenewSession, Move
<1> HIDE DEF r
<1>4. Good(r, minted, Live)
  BY <1>1, <1>2 DEF Good, Tokens, AtItsAwait, Ended, Calling, LoggingInAgain
<1>5. /\ UNCHANGED <<server, aged>> /\ redisUp' \in BOOLEAN /\ Said'
      /\ token' \in 0..minted /\ running' \in BOOLEAN
  BY DEF RenewSession, Renewed, server, environment, device, AccessInv, Store, Said
<1> QED
  BY <1>2, <1>3, <1>4, <1>5, StaysOneFlow

(* A request is answered without a change of the tokens.                   *)
LEMMA AnswerKeeps ==
  ASSUME AccessInv, NEW f \in Flow, HandleCall(f) \/ FailCall(f)
  PROVE  AccessInv'
<1> DEFINE q == flow[f]
<1>1. q \in FlowState /\ Good(q, minted, Live) /\ q.pc \in {"admitted", "answered"}
  BY Facts DEF HandleCall, FailCall
<1>2. PICK answer \in {"ok", "failed"} :
        /\ flow' = [flow EXCEPT ![f] =
                      [q EXCEPT !.pc = "answered", !.answer = answer, !.carried = NoToken]]
        /\ answer = "ok" => q.kind = "request"
  BY DEF HandleCall, FailCall, Answer, Answered
<1> DEFINE r == [q EXCEPT !.pc = "answered", !.answer = answer, !.carried = NoToken]
<1>a. answer \in {"ok", "refused", "failed"}
  BY <1>2
<1>3. /\ r \in FlowState /\ r.pc = "answered" /\ r.answer = answer /\ r.carried = NoToken
      /\ r.kind = q.kind /\ r.retried = q.retried /\ r.held = q.held /\ r.fresh = q.fresh
  BY <1>1, <1>a DEF FlowState
<1>4. flow' = [flow EXCEPT ![f] = r]
  BY <1>2
<1> HIDE DEF r
<1>5. Good(r, minted, Live)
  BY <1>1, <1>2, <1>3, Facts DEF Good, Tokens, AtItsAwait, Ended, Calling, LoggingInAgain, Asking
<1>6. /\ UNCHANGED <<server, aged>> /\ redisUp' \in BOOLEAN /\ Said'
      /\ token' \in 0..minted /\ running' \in BOOLEAN
  BY DEF HandleCall, FailCall, environment, device, AccessInv, Store, Said
<1> QED
  BY <1>3, <1>4, <1>5, <1>6, StaysOneFlow

(* After a logout the token its call carried opens nothing: that is the    *)
(* one held when it was asked for, or after a silent login the fresh one.  *)
LEMMA HandleLogoutKeeps ==
  ASSUME AccessInv, NEW f \in Flow, HandleLogout(f)
  PROVE  AccessInv'
<1> DEFINE q == flow[f]
           r == [q EXCEPT !.pc = "answered", !.answer = "ok", !.carried = NoToken]
<1>1. q \in FlowState /\ Good(q, minted, Live) /\ q.pc = "admitted" /\ q.kind = "logout"
  BY Facts DEF HandleLogout
<1>2. /\ r \in FlowState /\ r.pc = "answered" /\ r.answer = "ok" /\ r.carried = NoToken
      /\ r.kind = q.kind /\ r.retried = q.retried /\ r.held = q.held /\ r.fresh = q.fresh
  BY <1>1, AnsweredIs, ZenonT(60)
<1>3. flow' = [flow EXCEPT ![f] = r]
  BY DEF HandleLogout, Answer, Answered
<1>4. Onward /\ minted' = minted
  BY SignsNothing DEF HandleLogout, environment, device, AccessInv, Store, Said
<1>5. q.carried \notin Live'
  BY DEF HandleLogout, Live, Accepted
<1>6. \A t \in 0..minted : t \in Live' => t \in Live
  BY <1>4 DEF Onward
<1> HIDE DEF q, r
<1>7. q.held \notin Live' /\ q.fresh \notin Live'
  BY <1>1, <1>5, <1>6, Facts DEF Good, Tokens, AtItsAwait, Ended, Calling
<1>8. Good(r, minted', Live')
  BY <1>1, <1>2, <1>4, <1>7, Facts DEF Good, Tokens, AtItsAwait, Ended, Calling, LoggingInAgain
<1> QED
  BY <1>2, <1>3, <1>4, <1>8, OneFlow, Zenon

LEMMA HandleRefreshKeeps ==
  ASSUME AccessInv, NEW f \in Flow, HandleRefresh(f)
  PROVE  AccessInv'
<1> DEFINE q == flow[f]
           a == [q EXCEPT !.pc = "answered", !.answer = "ok", !.carried = NoToken]
           r == [a EXCEPT !.fresh = minted']
<1>1. /\ q \in FlowState /\ Good(q, minted, Live) /\ q.kind = "refresh"
      /\ q.carried \in 1..minted /\ minted' = minted + 1 /\ minted' \in Token
  BY Facts DEF HandleRefresh, Good, Tokens, AtItsAwait, NoToken, Token
<1>2. /\ a \in FlowState /\ a.pc = "answered" /\ a.answer = "ok" /\ a.carried = NoToken
      /\ a.kind = q.kind /\ a.retried = q.retried /\ a.held = q.held
  BY <1>1 DEF FlowState
<1>3. /\ r \in FlowState /\ r.fresh = minted'
      /\ r.pc = a.pc /\ r.answer = a.answer /\ r.carried = a.carried
      /\ r.kind = a.kind /\ r.retried = a.retried /\ r.held = a.held
  BY <1>1, <1>2 DEF FlowState
<1>4. flow' = [flow EXCEPT ![f] = r]
  BY DEF HandleRefresh, Answered
<1>5. Onward
  <2>1. sidOf[q.carried] \in 1..minted + 1
    BY <1>1, Facts DEF AccessInv, Store
  <2> QED
    BY <2>1, Signs DEF HandleRefresh, AccessInv
<1> HIDE DEF q, a, r
<1>6. Good(r, minted', Live')
  BY <1>1, <1>2, <1>3, Facts
  DEF Good, Tokens, AtItsAwait, Ended, Calling, LoggingInAgain, Asking, NoToken
<1> QED
  BY <1>3, <1>4, <1>5, <1>6, OneFlow

LEMMA HandleLoginKeeps ==
  ASSUME AccessInv, NEW f \in Flow, HandleLogin(f)
  PROVE  AccessInv'
<1> DEFINE q == flow[f]
           r == [q EXCEPT !.pc = "loginAnswered", !.fresh = minted']
<1>1. /\ q \in FlowState /\ Good(q, minted, Live) /\ q.pc = "loggingIn"
      /\ minted' = minted + 1 /\ minted' \in Token /\ minted' \in Token \cup {NoToken}
  BY Facts DEF HandleLogin, Token
<1>2. /\ r \in FlowState /\ r.pc = "loginAnswered" /\ r.fresh = minted'
      /\ r.kind = q.kind /\ r.retried = q.retried /\ r.held = q.held
      /\ r.carried = q.carried /\ r.answer = q.answer
  BY <1>1 DEF FlowState
<1>3. flow' = [flow EXCEPT ![f] = r]
  BY DEF HandleLogin
<1>4. Onward
  <2>1. minted' \in 1..minted + 1
    BY <1>1, Facts
  <2> QED
    BY <2>1, Signs DEF HandleLogin, AccessInv
<1>5. \A t \in 0..minted : t \in Live' => t \in Live
  BY <1>4 DEF Onward
<1> HIDE DEF q, r
<1>6. Good(r, minted', Live')
  BY <1>1, <1>2, <1>5, Facts
  DEF Good, Tokens, AtItsAwait, Ended, Calling, LoggingInAgain, Asking
<1> QED
  BY <1>2, <1>3, <1>4, <1>6, OneFlow

LEMMA FailLoginKeeps ==
  ASSUME AccessInv, NEW f \in Flow, FailLogin(f)
  PROVE  AccessInv'
<1> DEFINE q == flow[f]
           r == [q EXCEPT !.pc = "loginAnswered", !.fresh = NoToken]
<1>1. q \in FlowState /\ Good(q, minted, Live) /\ q.pc \in LoggingInAgain
  BY Facts DEF FailLogin, LoggingInAgain
<1>2. /\ r \in FlowState /\ r.pc = "loginAnswered" /\ r.fresh = NoToken
      /\ r.kind = q.kind /\ r.retried = q.retried /\ r.held = q.held
      /\ r.carried = q.carried /\ r.answer = q.answer
  BY <1>1 DEF FlowState
<1>3. flow' = [flow EXCEPT ![f] = r]
  BY DEF FailLogin
<1> HIDE DEF q, r
<1>4. Good(r, minted, Live)
  BY <1>1, <1>2, Facts DEF Good, Tokens, AtItsAwait, Ended, Calling, LoggingInAgain, Asking
<1>5. /\ UNCHANGED <<server, aged>> /\ redisUp' \in BOOLEAN /\ Said'
      /\ token' \in 0..minted /\ running' \in BOOLEAN
  BY DEF FailLogin, environment, device, AccessInv, Store, Said
<1> QED
  BY <1>2, <1>3, <1>4, <1>5, StaysOneFlow

-----------------------------------------------------------------------------
(* The client's steps.                                                     *)
LEMMA AbandonIs ==
  ASSUME AccessInv, NEW f \in Flow, NEW tok \in 0..minted, Abandon(f, tok),
         flow[f].kind \in Asking \cup {"login"}
  PROVE  /\ token' \in 0..minted
         /\ \E r \in {Idle, LoggingIn} : flow' = [flow EXCEPT ![f] = r]
BY Facts DEF Abandon, Asking

LEMMA ClientStepKeeps ==
  ASSUME AccessInv, NEW f \in Flow, ClientStep(f)
  PROVE  AccessInv'
<1> DEFINE q == flow[f]
<1>1. q \in FlowState /\ Good(q, minted, Live) /\ q.fresh \in 0..minted
  BY Facts DEF Good, Tokens
<1>2. UNCHANGED <<server, aged>> /\ redisUp' \in BOOLEAN
      /\ Said' /\ running' \in BOOLEAN
  BY SaidStays DEF ClientStep, OnOk, OnFailed, OnRefused, OnLogin, OnLoginFailed, environment,
                   AccessInv, Store
<1>3. ASSUME NEW r \in {Idle, LoggingIn}, flow' = [flow EXCEPT ![f] = r], token' \in 0..minted
      PROVE  AccessInv'
  <2>1. r \in FlowState /\ Good(r, minted, Live)
    BY <1>3, BeginsGood
  <2> QED
    BY <1>2, <1>3, <2>1, StaysOneFlow
<1>4. CASE OnOk(f)
  <2>1. flow' = [flow EXCEPT ![f] = Idle] /\ q.kind \in Asking
    BY <1>1, <1>4 DEF OnOk, Good, AtItsAwait
  <2>2. token' \in 0..minted
    BY <1>1, <1>4, <2>1, Facts DEF OnOk, Asking
  <2> QED
    BY <1>3, <2>1, <2>2
<1>5. CASE OnFailed(f) \/ OnLoginFailed(f)
  <2>1. q.kind \in Asking \cup {"login"}
    BY <1>1, <1>5 DEF OnFailed, OnLoginFailed, Good, AtItsAwait, LoggingInAgain
  <2>2. Abandon(f, token)
    BY <1>5 DEF OnFailed, OnLoginFailed
  <2> QED
    BY <1>3, <2>1, <2>2, AbandonIs, Facts
<1>6. CASE OnRefused(f)
  <2>1. q.kind \in Asking /\ q.pc = "answered" /\ q.answer = "refused"
    BY <1>1, <1>6 DEF OnRefused, Good, AtItsAwait
  <2>2. CASE ~q.retried /\ token' = NoToken /\ Move(f, "loggingIn")
    <3> DEFINE r == [q EXCEPT !.pc = "loggingIn"]
    <3>1. /\ r \in FlowState /\ r.pc = "loggingIn" /\ r.kind = q.kind
          /\ r.retried = q.retried /\ r.held = q.held /\ r.carried = q.carried
          /\ r.fresh = q.fresh /\ r.answer = q.answer
      BY <1>1, MovedIs DEF Pc
    <3>2. flow' = [flow EXCEPT ![f] = r]
      BY <2>2 DEF Move
    <3> HIDE DEF q, r
    <3>3. Good(r, minted, Live)
      BY <1>1, <2>1, <2>2, <3>1
      DEF Good, Tokens, AtItsAwait, Ended, Calling, LoggingInAgain, Asking
    <3>4. token' \in 0..minted
      BY <2>2, Facts
    <3> QED
      BY <1>2, <3>1, <3>2, <3>3, <3>4, StaysOneFlow
  <2>3. CASE Abandon(f, NoToken)
    BY <1>3, <2>1, <2>3, AbandonIs, Facts
  <2> QED
    BY <1>6, <2>2, <2>3 DEF OnRefused
<1>7. CASE OnLogin(f)
  <2>1. q.pc = "loginAnswered" /\ token' \in 0..minted
    BY <1>1, <1>7 DEF OnLogin
  <2>2. CASE q.kind = "login"
    BY <1>3, <1>7, <2>1, <2>2 DEF OnLogin
  <2>3. CASE q.kind # "login"
    <3> DEFINE r == [q EXCEPT !.pc = "sent", !.retried = TRUE, !.answer = "none",
                              !.carried = q.fresh]
    <3>1. /\ r \in FlowState /\ r.pc = "sent" /\ r.retried /\ r.answer = "none"
          /\ r.carried = q.fresh /\ r.kind = q.kind /\ r.held = q.held /\ r.fresh = q.fresh
      BY <1>1, ReplayIs, ZenonT(60)
    <3>2. flow' = [flow EXCEPT ![f] = r]
      BY <1>7, <2>3 DEF OnLogin, Replay
    <3> HIDE DEF q, r
    <3>3. Good(r, minted, Live)
      BY <1>1, <2>1, <2>3, <3>1
      DEF Good, Tokens, AtItsAwait, Ended, Calling, LoggingInAgain, Asking
    <3> QED
      BY <1>2, <2>1, <3>1, <3>2, <3>3, StaysOneFlow
  <2> QED
    BY <2>2, <2>3
<1> QED
  BY <1>4, <1>5, <1>6, <1>7 DEF ClientStep

-----------------------------------------------------------------------------
LEMMA InitAccess ==
  ASSUME Init
  PROVE  AccessInv
<1>1. Store
  <2>1. minted \in 0..MaxTokens /\ token \in 0..minted /\ sidOf \in [Token -> Token \cup {NoToken}]
    BY AccessAssumption DEF Init, NoToken
  <2>2. sessions \subseteq 1..minted /\ \A t \in 1..minted : sidOf[t] \in 1..minted
    BY DEF Init
  <2> QED
    BY <2>1, <2>2 DEF Init, Store, Said, LoginPage
<1>2. Good(Idle, minted, Live)
  BY IdleIs DEF Init, Good, Tokens, AtItsAwait, Ended, Calling, LoggingInAgain, NoToken
<1> QED
  BY <1>1, <1>2, IdleIs DEF Init, AccessInv, Flows

LEMMA ServerStepKeeps ==
  ASSUME AccessInv, NEW f \in Flow, ServerStep(f)
  PROVE  AccessInv'
BY ReadSessionKeeps, RenewSessionKeeps, AnswerKeeps, HandleLogoutKeeps, HandleRefreshKeeps,
   HandleLoginKeeps, FailLoginKeeps
DEF ServerStep

LEMMA NextAccess ==
  ASSUME AccessInv, [Next]_vars
  PROVE  AccessInv'
<1>1. CASE UNCHANGED vars
  BY <1>1, Stays, NoFlow DEF vars, server, AccessInv, Store, Said
<1>2. ASSUME NEW f \in Flow, UserStep(f) \/ ServerStep(f) \/ ClientStep(f)
      PROVE  AccessInv'
  BY <1>2, UserStepKeeps, ServerStepKeeps, ClientStepKeeps
<1> QED
  BY <1>1, <1>2, WorldStepKeeps DEF Next

(* Every behaviour of the device and the server keeps what the flows know. *)
THEOREM Inductive == Spec => []AccessInv
BY InitAccess, NextAccess, PTL DEF Spec

(* Access's variables keep their types: a flow never holds a token nobody  *)
(* signed, a session record never names one.                               *)
THEOREM TypeCorrect == Spec => []TypeOK
<1>1. AccessInv => TypeOK
  BY AccessAssumption DEF AccessInv, Store, Said, Flows, TypeOK, Token, NoToken
<1> QED
  BY <1>1, Inductive, PTL

(* auth.ts:155: a logout that reports success has closed the session of    *)
(* the token it was asked with and of the one a silent login gave it.      *)
THEOREM LogoutEnds == Spec => []LogoutEndsSession
<1>1. AccessInv => LogoutEndsSession
  <2> SUFFICES ASSUME AccessInv, NEW f \in Flow, flow[f].kind = "logout", flow[f].answer = "ok"
               PROVE  ~Accepted(flow[f].held) /\ ~Accepted(flow[f].fresh)
    BY DEF LogoutEndsSession
  <2>1. flow[f].held \notin Live /\ flow[f].fresh \notin Live
    BY Facts DEF Good, Ended
  <2>2. flow[f].held \in Token \cup {NoToken} /\ flow[f].fresh \in Token \cup {NoToken}
    BY Facts DEF FlowState
  <2> QED
    BY <2>1, <2>2 DEF Live, Accepted, Signed
<1> QED
  BY <1>1, Inductive, PTL

(* request.ts:128: the replay after a silent login is refused only when    *)
(* the session that login opened has ended.                                *)
THEOREM ReplayAuthorised == Spec => []ReplayIsAuthorised
<1>1. AccessInv => ReplayIsAuthorised
  <2> SUFFICES ASSUME AccessInv, NEW f \in Flow, flow[f].retried, flow[f].answer = "refused"
               PROVE  ~Accepted(flow[f].fresh)
    BY DEF ReplayIsAuthorised
  <2>1. flow[f].fresh \notin Live /\ flow[f].fresh \in Token \cup {NoToken}
    BY Facts DEF Good, Ended, FlowState
  <2> QED
    BY <2>1 DEF Live, Accepted, Signed
<1> QED
  BY <1>1, Inductive, PTL

(* session.service.ts:62: no step brings an ended session back, the        *)
(* sliding renewal of a request that found it alive included.              *)
THEOREM EndedStays == Spec => EndedStaysEnded
<1>1. ASSUME AccessInv, [Next]_vars, NEW s \in 1..minted, s \notin sessions
      PROVE  s \notin sessions'
  <2>1. CASE sessions' \subseteq sessions
    BY <1>1, <2>1
  <2>2. CASE \E f \in Flow : HandleLogin(f)
    BY <1>1, <2>2, Facts DEF HandleLogin
  <2>3. sessions' \subseteq sessions \/ \E f \in Flow : HandleLogin(f)
    <3>1. CASE UNCHANGED vars
      BY <3>1 DEF vars
    <3>2. CASE OpenLoginPage \/ LeaveLoginPage \/ RefusePrivacyPolicy \/ Quit \/ SwitchRedis
               \/ \E t \in Token : ExpireSession(t) \/ AgeToken(t)
      BY <3>2
      DEF OpenLoginPage, LeaveLoginPage, RefusePrivacyPolicy, Quit, SwitchRedis, ExpireSession,
          AgeToken, server
    <3>3. ASSUME NEW f \in Flow, UserStep(f) \/ ClientStep(f)
          PROVE  sessions' \subseteq sessions
      BY <3>3 DEF UserStep, ClientStep, Call, EnsureLogin, LoginPageAgree, LoginPageLogin,
                  Logout, AcceptPrivacyPolicy, Launch, OnOk, OnFailed, OnRefused, OnLogin,
                  OnLoginFailed, server
    <3>4. ASSUME NEW f \in Flow, ServerStep(f), ~HandleLogin(f)
          PROVE  sessions' \subseteq sessions
      BY <3>4 DEF ServerStep, ReadSession, RenewSession, Renewed, FailCall, FailLogin,
                  HandleCall, HandleLogout, HandleRefresh, server
    <3> QED
      BY <1>1, <3>1, <3>2, <3>3, <3>4 DEF Next
  <2> QED
    BY <2>1, <2>2, <2>3
<1>2. AccessInv /\ [Next]_vars => [\A s \in 1..minted : s \notin sessions => s \notin sessions']_vars
  BY <1>1
<1> QED
  BY <1>2, Inductive, PTL DEF Spec, EndedStaysEnded

(* App.vue:13: whatever starts a login, the user's last word on the policy *)
(* was yes, but for a login page that was open when they refused.          *)
THEOREM ConsentForLogin == Spec => LoginNeedsConsent
<1>1. ASSUME AccessInv, [Next]_vars, NEW g \in Flow,
             flow'[g].pc = "loggingIn", flow[g].pc # "loggingIn"
      PROVE  willing' \/ page = "withdrawn"
  <2>1. flow'[g] # flow[g] /\ flow \in [Flow -> FlowState] /\ Idle.pc = "idle"
    BY <1>1, IdleIs DEF AccessInv, Flows
  <2>2. CASE UNCHANGED vars \/ OpenLoginPage \/ LeaveLoginPage \/ RefusePrivacyPolicy
             \/ Quit \/ SwitchRedis
             \/ \E t \in Token : ExpireSession(t) \/ AgeToken(t)
    BY <1>1, <2>1, <2>2
    DEF vars, OpenLoginPage, LeaveLoginPage, RefusePrivacyPolicy, Quit, SwitchRedis,
        ExpireSession, AgeToken
  <2>3. ASSUME NEW f \in Flow, UserStep(f)
        PROVE  willing' \/ page = "withdrawn"
    <3>1. \A kind \in {"request", "refresh", "logout"} : Sending(kind).pc = "sent"
      BY IdleIs DEF Sending, FlowState
    <3>2. CASE Call(f) \/ Logout(f)
      BY <1>1, <2>1, <3>1, <3>2 DEF Call, Logout
    <3>3. CASE LoginPageAgree(f) \/ AcceptPrivacyPolicy(f)
      BY <3>3 DEF LoginPageAgree, AcceptPrivacyPolicy
    <3>4. CASE EnsureLogin(f) \/ LoginPageLogin(f)
      BY <1>1, <3>4 DEF EnsureLogin, LoginPageLogin, CanLogin, device, AccessInv, Store, Said
    <3>5. CASE Launch(f)
      BY <1>1, <2>1, <3>1, <3>5 DEF Launch, CanLogin, said, AccessInv, Store, Said
    <3> QED
      BY <2>3, <3>2, <3>3, <3>4, <3>5 DEF UserStep
  <2>4. ASSUME NEW f \in Flow, ServerStep(f)
        PROVE  FALSE
    BY <1>1, <2>1, <2>4, ZenonT(60)
    DEF ServerStep, ReadSession, RenewSession, FailCall, FailLogin, HandleCall, HandleLogout,
        HandleRefresh, HandleLogin, Answer, Answered, Move, FlowState
  <2>5. ASSUME NEW f \in Flow, ClientStep(f)
        PROVE  willing' \/ page = "withdrawn"
    <3>1. Replay(f).pc = "sent"
      BY <2>1 DEF Replay, FlowState
    <3>2. CASE OnOk(f) \/ OnLogin(f)
      BY <1>1, <2>1, <3>1, <3>2 DEF OnOk, OnLogin
    <3>3. CASE OnFailed(f) \/ OnRefused(f) \/ OnLoginFailed(f)
      <4>1. flow[f].kind \in Asking \cup {"login"}
        <5>1. Good(flow[f], minted, Live)
          BY <1>1, Facts
        <5>2. flow[f].pc = "answered" \/ flow[f].pc \in LoggingInAgain
          BY <3>3 DEF OnFailed, OnRefused, OnLoginFailed, LoggingInAgain
        <5> QED
          BY <5>1, <5>2 DEF Good, AtItsAwait
      <4>2. flow' = [flow EXCEPT ![f] = Idle] \/ CanLogin
        BY <3>3, <4>1 DEF OnFailed, OnRefused, OnLoginFailed, Abandon, Asking
      <4>3. willing' = willing
        BY <3>3 DEF OnFailed, OnRefused, OnLoginFailed, said
      <4> QED
        BY <1>1, <2>1, <4>2, <4>3 DEF CanLogin, AccessInv, Store, Said
    <3> QED
      BY <2>5, <3>2, <3>3 DEF ClientStep
  <2> QED
    BY <1>1, <2>2, <2>3, <2>4, <2>5 DEF Next
<1>2. AccessInv /\ [Next]_vars =>
        [\A f \in Flow : flow'[f].pc = "loggingIn" /\ flow[f].pc # "loggingIn" =>
           willing' \/ page = "withdrawn"]_vars
  BY <1>1
<1> QED
  BY <1>2, Inductive, PTL DEF Spec, LoginNeedsConsent

-----------------------------------------------------------------------------
(* The row, its trail and the pages that edit it.  The type invariant is   *)
(* inductive once a switch's call is known to wait for an object.          *)
ConfigTypes ==
  /\ ConfigTypeOK
  /\ \A s \in Slot : patch[s].pc # "free" /\ patch[s].kind = "switch" => patch[s].object \in Object

LEMMA ConstantTypes ==
  /\ Original \in ConfigRow /\ Original \in [Field -> Text] /\ Value \subseteq Text
  /\ Original[Switch] \in Value /\ Switch \in Field /\ Picture \in Field
  /\ \A t \in Text : Normal[t] \in Value
<1>1. Original \in ConfigRow /\ Value \subseteq Text /\ Switch \in Field /\ Picture \in Field
  BY EditingAssumption
<1>2. \A t \in Text : Normal[t] \in Value
  BY DEF Value
<1> QED
  BY <1>1, <1>2 DEF ConfigRow

LEMMA NoPatchType == NoPatch \in Patch /\ NoPatch.pc = "free"
<1>1. (CHOOSE t \in Tab : TRUE) \in Tab
  BY EditingAssumption
<1> QED
  BY <1>1, ConstantTypes DEF NoPatch, Patch

LEMMA MountedType == Mounted \in View /\ ~Mounted.open
BY ConstantTypes DEF Mounted, View

LEMMA ClosedType ==
  ASSUME NEW v \in View
  PROVE  Closed(v) \in View /\ ~Closed(v).open
BY ConstantTypes DEF Closed, View

LEMMA ReplacedType ==
  ASSUME NEW v \in View, NEW o \in Object, NEW row \in ConfigRow
  PROVE  Replaced(v, o, row) \in View
BY DEF Replaced, View

LEMMA AssignedType ==
  ASSUME NEW v \in View, NEW o \in Object, NEW row \in ConfigRow
  PROVE  Assigned(v, o, row) \in View
BY DEF Assigned, View

LEMMA AnsweringType ==
  ASSUME NEW p \in Patch, NEW ok \in BOOLEAN, NEW row \in ConfigRow
  PROVE  /\ Answering(p, ok, row) \in Patch
         /\ ~(Answering(p, ok, row).pc \in {"loaded", "compared", "saved"})
         /\ Answering(p, ok, row).pc # "free" =>
              Answering(p, ok, row).kind = p.kind /\ Answering(p, ok, row).object = p.object
BY NoPatchType, ZenonT(60) DEF Answering, Patch

LEMMA EditedType ==
  ASSUME NEW row \in ConfigRow, NEW p \in Patch
  PROVE  Edited(row, p) \in ConfigRow
BY ConstantTypes DEF Edited, Patch, ConfigRow

(* One call of the page, its answer or its handler moves.                  *)
LEMMA OnePatch ==
  ASSUME ConfigTypes, NEW s \in Slot, NEW p \in Patch, patch' = [patch EXCEPT ![s] = p],
         p.pc # "free" /\ p.kind = "switch" => p.object \in Object,
         config' \in ConfigRow, view' \in [Tab -> View], edits' \in 0..MaxEdits, disturbed' \in BOOLEAN,
         trail' = trail \/ \E c \in [before : ConfigRow, after : ConfigRow] : trail' = Append(trail, c)
  PROVE  ConfigTypes'
<1>1. patch' \in [Slot -> Patch]
  BY DEF ConfigTypes, ConfigTypeOK
<1> DEFINE Entry == [before : ConfigRow, after : ConfigRow]
<1>a. trail \in Seq(Entry) /\ (trail' = trail \/ \E c \in Entry : trail' = Append(trail, c))
  BY DEF ConfigTypes, ConfigTypeOK
<1>2. trail' \in Seq(Entry)
  <2> HIDE DEF Entry
  <2> QED
    BY <1>a
<1>3. \A r \in Slot : patch'[r].pc # "free" /\ patch'[r].kind = "switch" => patch'[r].object \in Object
  BY DEF ConfigTypes, ConfigTypeOK
<1> QED
  BY <1>1, <1>2, <1>3 DEF ConfigTypes, ConfigTypeOK

LEMMA CallOfType ==
  ASSUME NEW t \in Tab, NEW kind \in {"list", "switch", "save", "upload"}
  PROVE  CallOf(t, kind) \in Patch /\ CallOf(t, kind).pc = "sent" /\ CallOf(t, kind).kind = kind
BY NoPatchType DEF CallOf, Patch

(* Nothing of the calls moves.                                             *)
LEMMA NoPatchMoves ==
  ASSUME ConfigTypes, UNCHANGED <<config, trail, patch, disturbed>>,
         view' \in [Tab -> View], edits' \in 0..MaxEdits
  PROVE  ConfigTypes'
BY DEF ConfigTypes, ConfigTypeOK

LEMMA EditType ==
  ASSUME ConfigTypeOK, Edit
  PROVE  edits' \in 0..MaxEdits
BY EditingAssumption DEF ConfigTypeOK, Edit

LEMMA PageTypes ==
  ASSUME ConfigTypes, NEW t \in Tab,
         \/ OpenDialog(t) \/ CloseDialog(t) \/ Reload(t)
         \/ \E f \in Field, text \in Text : Type(t, f, text)
         \/ \E s \in Slot : LoadList(t, s) \/ UploadImage(t, s) \/ SaveForm(t, s) \/ \E value \in Value : TurnSwitch(t, s, value)
  PROVE  ConfigTypes'
<1> DEFINE v == view[t]
<1>1. v \in View /\ view \in [Tab -> View] /\ patch \in [Slot -> Patch] /\ edits \in 0..MaxEdits
  BY DEF ConfigTypes, ConfigTypeOK
<1>2. config \in ConfigRow /\ disturbed \in BOOLEAN
  BY DEF ConfigTypes, ConfigTypeOK
<1>3. CASE OpenDialog(t)
  <2> DEFINE w == [v EXCEPT !.open = TRUE, !.subject = v.shown, !.form = v.object[v.shown],
                            !.touched = {}, !.moved = FALSE]
  <2>1. v.object[v.shown] \in [Field -> Text]
    BY <1>1, <1>3, ConstantTypes DEF OpenDialog, View, ConfigRow
  <2>2. w \in View
    BY <1>1, <2>1 DEF View
  <2>3. view' = [view EXCEPT ![t] = w] /\ UNCHANGED <<config, trail, patch, disturbed, edits>>
    BY <1>3 DEF OpenDialog, Becomes, stored
  <2> QED
    BY <1>1, <2>2, <2>3, NoPatchMoves
<1>4. CASE CloseDialog(t)
  <2>1. view' = [view EXCEPT ![t] = Closed(v)] /\ UNCHANGED <<config, trail, patch, disturbed, edits>>
    BY <1>4 DEF CloseDialog, Becomes, stored
  <2> QED
    BY <1>1, <2>1, ClosedType, NoPatchMoves
<1>5. CASE Reload(t)
  <2>1. view' \in [Tab -> View] /\ UNCHANGED <<config, trail, disturbed>> /\ edits' \in 0..MaxEdits
    BY <1>1, <1>5, MountedType, EditType DEF Reload, Becomes, stored, ConfigTypes
  <2>2. ASSUME NEW s \in Slot
        PROVE  /\ patch'[s] \in Patch
               /\ patch'[s].pc # "free" /\ patch'[s].kind = "switch" => patch'[s].object \in Object
    <3>1. \/ patch'[s] = patch[s] \/ patch'[s] = NoPatch \/ patch'[s] = [patch[s] EXCEPT !.awaited = FALSE]
      BY <1>5 DEF Reload
    <3> QED
      BY <1>1, <3>1, NoPatchType, ZenonT(60) DEF ConfigTypes, Patch
  <2>3. patch' \in [Slot -> Patch]
    BY <1>5, <2>2 DEF Reload
  <2> QED
    BY <1>2, <2>1, <2>2, <2>3 DEF ConfigTypes, ConfigTypeOK
<1>6. ASSUME NEW f \in Field, NEW text \in Text, Type(t, f, text)
      PROVE  ConfigTypes'
  <2> DEFINE w == [v EXCEPT !.form[f] = text, !.touched = @ \cup {f}]
  <2>1. w \in View
    BY <1>1 DEF View
  <2>2. view' = [view EXCEPT ![t] = w] /\ UNCHANGED <<config, trail, patch, disturbed>>
    BY <1>6 DEF Type, Becomes, stored
  <2>3. edits' \in 0..MaxEdits
    BY <1>6, EditType DEF Type, ConfigTypes
  <2> QED
    BY <1>1, <2>1, <2>2, <2>3, NoPatchMoves
<1>7. ASSUME NEW s \in Slot, LoadList(t, s)
      PROVE  ConfigTypes'
  <2>1. patch' = [patch EXCEPT ![s] = CallOf(t, "list")]
    BY <1>7 DEF LoadList, Send
  <2>2. UNCHANGED <<config, trail, view, disturbed>> /\ edits' \in 0..MaxEdits
    BY <1>1, <1>7, EditType DEF LoadList, stored, ConfigTypes
  <2> QED
    BY <1>1, <1>2, <2>1, <2>2, CallOfType, OnePatch
<1>10. ASSUME NEW s \in Slot, UploadImage(t, s)
       PROVE  ConfigTypes'
  <2> DEFINE w == [v EXCEPT !.touched = @ \cup {Picture}]
  <2>1. w \in View
    BY <1>1, ConstantTypes DEF View
  <2>2. view' = [view EXCEPT ![t] = w] /\ patch' = [patch EXCEPT ![s] = CallOf(t, "upload")]
    BY <1>10 DEF UploadImage, Becomes, Send
  <2>3. UNCHANGED <<config, trail, disturbed>> /\ edits' \in 0..MaxEdits
    BY <1>10, EditType DEF UploadImage, stored, ConfigTypes
  <2>4. view' \in [Tab -> View]
    BY <1>1, <2>1, <2>2
  <2> QED
    BY <1>2, <2>2, <2>3, <2>4, CallOfType, OnePatch
<1>8. ASSUME NEW s \in Slot, SaveForm(t, s)
      PROVE  ConfigTypes'
  <2>1. UNCHANGED <<config, trail, disturbed>> /\ edits' \in 0..MaxEdits
    BY <1>8, EditType DEF SaveForm, stored, ConfigTypes
  <2>2. CASE Becomes(t, Closed(v)) /\ UNCHANGED patch
    BY <1>1, <2>1, <2>2, ClosedType, NoPatchMoves DEF Becomes
  <2>3. CASE /\ Becomes(t, [v EXCEPT !.saving = TRUE])
             /\ Send(s, [CallOf(t, "save") EXCEPT !.asked = FormChanges(v), !.text = v.form])
    <3>1. v.form \in [Field -> Text] /\ FormChanges(v) \in SUBSET Field /\ [v EXCEPT !.saving = TRUE] \in View
      BY <1>1 DEF View, FormChanges
    <3> DEFINE p == [CallOf(t, "save") EXCEPT !.asked = FormChanges(v), !.text = v.form]
    <3> DEFINE c == CallOf(t, "save")
    <3>c. c \in Patch /\ c.kind = "save"
      BY CallOfType
    <3>p. p = [c EXCEPT !.asked = FormChanges(v), !.text = v.form] /\ patch' = [patch EXCEPT ![s] = p]
      BY <2>3 DEF Send
    <3>2. p \in Patch /\ p.kind = "save" /\ patch' = [patch EXCEPT ![s] = p]
      <4> HIDE DEF c, p, v
      <4> QED
        BY <3>c, <3>p, <3>1 DEF Patch
    <3>3. view' \in [Tab -> View]
      BY <1>1, <2>3, <3>1 DEF Becomes
    <3> QED
      BY <1>2, <2>1, <3>2, <3>3, OnePatch
  <2> QED
    BY <1>8, <2>2, <2>3 DEF SaveForm
<1>9. ASSUME NEW s \in Slot, NEW value \in Value, TurnSwitch(t, s, value)
      PROVE  ConfigTypes'
  <2>1. UNCHANGED <<config, trail, disturbed>> /\ edits' \in 0..MaxEdits /\ v.shown \in Object
    BY <1>1, <1>9, EditType DEF TurnSwitch, stored, ConfigTypes, View
  <2>2. v.object[v.shown] \in ConfigRow /\ v.object[v.shown][Switch] \in Value
    BY <1>1, <2>1, ConstantTypes DEF View, ConfigRow
  <2>3. [v EXCEPT !.object[v.shown][Switch] = value] \in View
    <3>1. [v.object[v.shown] EXCEPT ![Switch] = value] \in ConfigRow
      BY <2>2 DEF ConfigRow
    <3> QED
      BY <1>1, <2>1, <3>1 DEF View
  <2>4. [Original EXCEPT ![Switch] = value] \in [Field -> Text]
    BY ConstantTypes
  <2> DEFINE p == [CallOf(t, "switch") EXCEPT !.asked = {Switch}, !.text = [Original EXCEPT ![Switch] = value],
                                              !.object = v.shown, !.previous = v.object[v.shown][Switch]]
  <2> DEFINE c == CallOf(t, "switch")  x == [Original EXCEPT ![Switch] = value]
             o == v.shown  b == v.object[v.shown][Switch]
  <2>c. c \in Patch /\ x \in [Field -> Text] /\ Switch \in Field /\ o \in Object /\ b \in Value
    BY SMTT(40), <2>1, <2>2, <2>4, CallOfType, ConstantTypes
  <2>p. p = [c EXCEPT !.asked = {Switch}, !.text = x, !.object = o, !.previous = b]
        /\ patch' = [patch EXCEPT ![s] = p]
    BY <1>9 DEF TurnSwitch, Send
  <2>5. p \in Patch /\ p.object \in Object /\ patch' = [patch EXCEPT ![s] = p]
    <3> HIDE DEF c, p, x, o, b
    <3> QED
      BY <2>c, <2>p DEF Patch
  <2>6. view' \in [Tab -> View]
    BY <1>1, <1>9, <2>3 DEF TurnSwitch, Becomes
  <2> QED
    BY <1>2, <2>1, <2>5, <2>6, OnePatch
<1> QED
  BY <1>3, <1>4, <1>5, <1>6, <1>7, <1>8, <1>9, <1>10

LEMMA HandlerTypes ==
  ASSUME ConfigTypes, NEW s \in Slot,
         \/ ReadList(s) \/ StoreImage(s) \/ LoadRow(s) \/ CompareRow(s)
         \/ SaveRow(s) \/ RecordChange(s) \/ LoseChange(s)
         \/ HandlerFails(s) \/ HandlerDies(s)
  PROVE  ConfigTypes'
<1> DEFINE p == patch[s]
<1>1. /\ p \in Patch /\ view \in [Tab -> View] /\ config \in ConfigRow /\ disturbed \in BOOLEAN
      /\ edits \in 0..MaxEdits
      /\ p.pc # "free" /\ p.kind = "switch" => p.object \in Object
  BY DEF ConfigTypes, ConfigTypeOK
<1>2. ASSUME NEW ok \in BOOLEAN, NEW row \in ConfigRow, Done(s, ok, row), p.pc # "free",
             UNCHANGED <<config, view, edits>>, disturbed' \in BOOLEAN,
             trail' = trail \/ \E c \in [before : ConfigRow, after : ConfigRow] : trail' = Append(trail, c)
      PROVE  ConfigTypes'
  <2>1. /\ Answering(p, ok, row) \in Patch /\ patch' = [patch EXCEPT ![s] = Answering(p, ok, row)]
        /\ Answering(p, ok, row).pc # "free" =>
             Answering(p, ok, row).kind = p.kind /\ Answering(p, ok, row).object = p.object
    BY <1>1, <1>2, AnsweringType, ZenonT(60) DEF Done
  <2> QED
    BY <1>1, <1>2, <2>1, OnePatch
<1>3. ASSUME ReadList(s) \/ StoreImage(s) \/ HandlerFails(s) \/ HandlerDies(s) \/ LoseChange(s) \/ RecordChange(s)
      PROVE  ConfigTypes'
  <2>1. p.next \in ConfigRow /\ p.seen \in ConfigRow
    BY <1>1 DEF Patch
  <2>2. CASE ReadList(s)
    BY <1>1, <1>2, <2>2 DEF ReadList, stored
  <2>7. CASE StoreImage(s)
    BY <1>1, <1>2, <2>7, ConstantTypes DEF StoreImage, stored
  <2>3. CASE HandlerFails(s)
    BY <1>1, <1>2, <2>3, ConstantTypes DEF HandlerFails, stored
  <2>4. CASE HandlerDies(s)
    BY <1>1, <1>2, <2>4, ConstantTypes DEF HandlerDies
  <2>5. CASE LoseChange(s)
    BY <1>1, <1>2, <2>1, <2>5 DEF LoseChange
  <2>6. CASE RecordChange(s)
    <3>1. Change(p) \in [before : ConfigRow, after : ConfigRow]
      BY <2>1 DEF Change
    <3> QED
      BY <1>1, <1>2, <2>1, <2>6, <3>1 DEF RecordChange
  <2> QED
    BY <1>3, <2>2, <2>3, <2>4, <2>5, <2>6, <2>7
<1>4. CASE LoadRow(s)
  <2> DEFINE q == [p EXCEPT !.pc = "loaded", !.seen = config, !.next = Edited(config, p)]
  <2>1. Edited(config, p) \in ConfigRow
    BY <1>1, EditedType
  <2>2. q \in Patch /\ q.kind = p.kind /\ q.object = p.object
    BY <1>1, <2>1 DEF Patch
  <2>3. patch' = [patch EXCEPT ![s] = q] /\ UNCHANGED <<config, trail, view, edits>> /\ disturbed' \in BOOLEAN /\ p.pc = "sent"
    BY <1>4 DEF LoadRow
  <2> QED
    BY <1>1, <2>2, <2>3, OnePatch
<1>5. CASE CompareRow(s)
  <2> DEFINE q == [p EXCEPT !.pc = "compared", !.differing = {f \in Field : p.next[f] # config[f]}]
  <2>1. q \in Patch /\ q.kind = p.kind /\ q.object = p.object
    BY <1>1 DEF Patch
  <2>2. patch' = [patch EXCEPT ![s] = q] /\ UNCHANGED <<config, trail, view, edits, disturbed>> /\ p.pc = "loaded"
    BY <1>5 DEF CompareRow, stored
  <2> QED
    BY <1>1, <2>1, <2>2, OnePatch
<1>6. CASE SaveRow(s)
  <2> DEFINE q == [p EXCEPT !.pc = "saved"]
  <2>1. q \in Patch /\ q.kind = p.kind /\ q.object = p.object
    BY <1>1 DEF Patch
  <2>2. patch' = [patch EXCEPT ![s] = q] /\ UNCHANGED <<trail, view, edits, disturbed>> /\ p.pc = "compared"
    BY <1>6 DEF SaveRow
  <2>3. config' \in ConfigRow
    BY <1>1, <1>6 DEF SaveRow, ConfigRow, Patch
  <2> QED
    BY <1>1, <2>1, <2>2, <2>3, OnePatch
<1> QED
  BY <1>3, <1>4, <1>5, <1>6

LEMMA AnswerTypes ==
  ASSUME ConfigTypes, NEW s \in Slot,
         \/ \E address \in Value : OnUploaded(s, address)
         \/ OnList(s) \/ OnSwitch(s) \/ OnSaved(s) \/ OnEditFailed(s) \/ LoseAnswer(s)
  PROVE  ConfigTypes'
<1> DEFINE p == patch[s]  t == p.tab  v == view[t]
<1>1. /\ p \in Patch /\ view \in [Tab -> View] /\ config \in ConfigRow /\ disturbed \in BOOLEAN
      /\ edits \in 0..MaxEdits /\ t \in Tab /\ v \in View /\ p.next \in ConfigRow
      /\ p.pc # "free" /\ p.kind = "switch" => p.object \in Object
  BY DEF ConfigTypes, ConfigTypeOK, Patch
<1>2. ASSUME NEW kind, Received(s, kind), view' \in [Tab -> View], UNCHANGED <<stored, edits>>
      PROVE  ConfigTypes'
  <2>1. patch' = [patch EXCEPT ![s] = NoPatch] /\ UNCHANGED <<config, trail, disturbed, edits>>
    BY <1>2 DEF Received, stored
  <2> QED
    BY <1>1, <1>2, <2>1, NoPatchType, OnePatch
<1>8. ASSUME NEW address \in Value, OnUploaded(s, address)
      PROVE  ConfigTypes'
  <2> DEFINE m == v.moved \/ Picture \notin v.touched
             w == [v EXCEPT !.form[Picture] = address, !.moved = m]
  <2>1. address \in Text /\ m \in BOOLEAN
    BY <1>1, ConstantTypes, ZenonT(60)
  <2>2. view' = [view EXCEPT ![t] = w] \/ UNCHANGED view
    BY <1>8, ZenonT(30) DEF OnUploaded, Becomes
  <2> HIDE DEF m
  <2>3. w \in View
    BY <1>1, <2>1 DEF View
  <2> HIDE DEF w
  <2>4. view' \in [Tab -> View]
    BY <1>1, <2>2, <2>3
  <2> QED
    BY <1>2, <1>8, <2>4 DEF OnUploaded
<1>3. CASE OnList(s)
  <2>1. PICK o \in Object : view' = [view EXCEPT ![t] = Replaced(v, o, p.next)]
    <3>1. (CHOOSE o \in Unused(v, t) : TRUE) \in Object
      BY <1>3 DEF OnList, Unused
    <3> QED
      BY <1>3, <3>1 DEF OnList, Becomes
  <2>2. view' \in [Tab -> View]
    BY <1>1, <2>1, ReplacedType
  <2> QED
    BY <1>2, <1>3, <2>2 DEF OnList
<1>4. CASE OnSwitch(s)
  <2> DEFINE row == IF p.ok THEN p.next ELSE [v.object[p.object] EXCEPT ![Switch] = p.previous]
  <2>1. p.object \in Object /\ view' = [view EXCEPT ![t] = Assigned(v, p.object, row)]
    BY <1>1, <1>4 DEF OnSwitch, Received, Becomes
  <2>2. row \in ConfigRow
    <3>1. v.object[p.object] \in ConfigRow /\ p.previous \in Value
      BY <1>1, <2>1 DEF View, Patch
    <3>2. [v.object[p.object] EXCEPT ![Switch] = p.previous] \in ConfigRow
      BY <3>1 DEF ConfigRow
    <3> QED
      BY <1>1, <3>2
  <2>3. Assigned(v, p.object, row) \in View
    BY <1>1, <2>1, <2>2, AssignedType
  <2>4. view' \in [Tab -> View]
    BY <1>1, <2>1, <2>3
  <2> QED
    BY <1>2, <1>4, <2>4 DEF OnSwitch
<1>5. CASE OnSaved(s)
  <2> DEFINE w == [Closed(v) EXCEPT !.saving = FALSE]
  <2>1. w \in View
    BY <1>1, ClosedType DEF View
  <2>2. view' = [view EXCEPT ![t] = w] \/ \E o \in Object : view' = [view EXCEPT ![t] = Replaced(w, o, p.next)]
    <3>1. ASSUME Unused(w, t) # {}
          PROVE  (CHOOSE o \in Unused(w, t) : TRUE) \in Object
      BY <3>1 DEF Unused
    <3> QED
      BY <1>5, <3>1 DEF OnSaved, Becomes
  <2>a. p.next \in ConfigRow
    BY <1>1
  <2> HIDE DEF p, w, t
  <2>3. view' \in [Tab -> View]
    BY <1>1, <2>1, <2>2, <2>a, ReplacedType
  <2> QED
    BY <1>2, <1>5, <2>3 DEF OnSaved
<1>6. CASE OnEditFailed(s)
  <2>1. CASE (Received(s, "list") \/ Received(s, "upload")) /\ UNCHANGED view
    BY <1>1, <1>2, <1>6, <2>1 DEF OnEditFailed
  <2>2. CASE Received(s, "save") /\ Becomes(t, [v EXCEPT !.saving = FALSE])
    <3>1. [v EXCEPT !.saving = FALSE] \in View
      BY <1>1 DEF View
    <3>2. view' \in [Tab -> View]
      BY <1>1, <2>2, <3>1 DEF Becomes
    <3> QED
      BY <1>2, <1>6, <2>2, <3>2 DEF OnEditFailed
  <2> QED
    BY <1>6, <2>1, <2>2 DEF OnEditFailed
<1>7. CASE LoseAnswer(s)
  <2> DEFINE q == [p EXCEPT !.ok = FALSE, !.next = Original]
  <2>1. q \in Patch /\ q.kind = p.kind /\ q.object = p.object /\ p.pc # "free"
    BY <1>1, <1>7, ConstantTypes DEF Patch, LoseAnswer
  <2>2. patch' = [patch EXCEPT ![s] = q] /\ UNCHANGED <<config, trail, view, edits, disturbed>>
    BY <1>7 DEF LoseAnswer, stored
  <2> QED
    BY <1>1, <2>1, <2>2, OnePatch
<1> QED
  BY <1>3, <1>4, <1>5, <1>6, <1>7, <1>8

LEMMA InitConfigTypes == ConfigInit => ConfigTypes
<1> SUFFICES ASSUME ConfigInit PROVE ConfigTypes
  OBVIOUS
<1>1. config \in ConfigRow /\ edits \in 0..MaxEdits /\ disturbed \in BOOLEAN
  <2>1. config \in ConfigRow /\ edits = 0 /\ disturbed \in BOOLEAN /\ MaxEdits \in Nat
    BY EditingAssumption DEF ConfigInit
  <2> QED
    BY <2>1
<1> DEFINE Entry == [before : ConfigRow, after : ConfigRow]
<1>a. trail \in Seq(Entry)
  <2> HIDE DEF Entry
  <2> QED
    BY DEF ConfigInit
<1>2. view \in [Tab -> View] /\ patch \in [Slot -> Patch] /\ \A s \in Slot : patch[s].pc = "free"
  BY MountedType, NoPatchType DEF ConfigInit
<1> QED
  BY <1>1, <1>a, <1>2 DEF ConfigTypes, ConfigTypeOK

LEMMA NextConfigTypes == ConfigTypes /\ [ConfigNext]_editing => ConfigTypes'
<1> SUFFICES ASSUME ConfigTypes, [ConfigNext]_editing PROVE ConfigTypes'
  OBVIOUS
<1>1. CASE UNCHANGED editing
  BY <1>1 DEF ConfigTypes, ConfigTypeOK, editing
<1>2. CASE ConfigNext
  BY <1>2, PageTypes, HandlerTypes, AnswerTypes DEF ConfigNext
<1> QED
  BY <1>1, <1>2

(* A dialog is faithful to what was typed into it: while it is open it has *)
(* a row, and unless an answer moved that row nothing but the touched      *)
(* columns differ from it.                                                 *)
Faithful(v) == v.open => v.subject \in Object /\ (~v.moved => FormChanges(v) \subseteq v.touched)

FaithfulDialogs == ConfigTypes /\ \A t \in Tab : Faithful(view[t])

LEMMA OneDialog ==
  ASSUME FaithfulDialogs, NEW t \in Tab, NEW w, view' = [view EXCEPT ![t] = w], Faithful(w)
  PROVE  \A u \in Tab : Faithful(view'[u])
BY DEF FaithfulDialogs, ConfigTypes, ConfigTypeOK

LEMMA ClosedFaithful ==
  ASSUME NEW v \in View, v.open => Faithful(v)
  PROVE  Faithful(Closed(v)) /\ Faithful([Closed(v) EXCEPT !.saving = FALSE])
BY ClosedType DEF Faithful, View

LEMMA SavingFaithful ==
  ASSUME NEW v \in View, NEW b \in BOOLEAN, Faithful(v)
  PROVE  Faithful([v EXCEPT !.saving = b])
BY DEF Faithful, View, FormChanges

LEMMA OpenedFaithful ==
  ASSUME NEW v \in View, v.shown \in Object
  PROVE  Faithful([v EXCEPT !.open = TRUE, !.subject = v.shown, !.form = v.object[v.shown],
                            !.touched = {}, !.moved = FALSE])
BY DEF Faithful, View, FormChanges

LEMMA TypedFaithful ==
  ASSUME NEW v \in View, NEW f \in Field, NEW text \in Text, Faithful(v)
  PROVE  Faithful([v EXCEPT !.form[f] = text, !.touched = @ \cup {f}])
BY DEF Faithful, View, FormChanges

LEMMA UploadingFaithful ==
  ASSUME NEW v \in View, Faithful(v)
  PROVE  Faithful([v EXCEPT !.touched = @ \cup {Picture}])
BY DEF Faithful, View, FormChanges

LEMMA UploadedFaithful ==
  ASSUME NEW v \in View, NEW address \in Text, NEW m \in BOOLEAN, m <=> (v.moved \/ Picture \notin v.touched),
         Faithful(v)
  PROVE  Faithful([v EXCEPT !.form[Picture] = address, !.moved = m])
<1> DEFINE w == [v EXCEPT !.form[Picture] = address, !.moved = m]
<1>1. /\ (w.open <=> v.open) /\ w.subject = v.subject /\ w.object = v.object /\ w.touched = v.touched
      /\ (w.moved <=> m) /\ \A f \in Field : f # Picture => w.form[f] = v.form[f]
  BY DEF View
<1> HIDE DEF w
<1>2. ASSUME v.open, ~w.moved
      PROVE  FormChanges(w) \subseteq w.touched
  <2>1. FormChanges(v) \subseteq v.touched /\ Picture \in v.touched
    BY <1>1, <1>2 DEF Faithful
  <2> QED
    BY <1>1, <2>1 DEF FormChanges
<1>3. Faithful(w)
  BY <1>1, <1>2 DEF Faithful
<1> QED
  BY <1>3 DEF w

(* The table's new object is none the dialog refers to.                    *)
LEMMA ReplacedFaithful ==
  ASSUME NEW v \in View, NEW o \in Object, NEW row \in ConfigRow, Faithful(v), v.open => o # v.subject
  PROVE  Faithful(Replaced(v, o, row))
<1> DEFINE w == Replaced(v, o, row)
<1>1. /\ (w.open <=> v.open) /\ w.subject = v.subject /\ (w.moved <=> v.moved)
      /\ w.form = v.form /\ w.touched = v.touched
      /\ \A p \in Object : p # o => w.object[p] = v.object[p]
  BY DEF Replaced, View
<1> HIDE DEF w
<1>2. ASSUME v.open
      PROVE  FormChanges(w) = FormChanges(v)
  BY <1>1, <1>2 DEF FormChanges, Faithful
<1>3. Faithful(w)
  BY <1>1, <1>2 DEF Faithful
<1> QED
  BY <1>3 DEF w

LEMMA AssignedFaithful ==
  ASSUME NEW v \in View, NEW o \in Object, NEW row \in ConfigRow, Faithful(v)
  PROVE  Faithful(Assigned(v, o, row))
<1> DEFINE w == Assigned(v, o, row)
<1>1. /\ (w.open <=> v.open) /\ w.subject = v.subject /\ w.form = v.form /\ w.touched = v.touched
      /\ \A p \in Object : p # o => w.object[p] = v.object[p]
      /\ w.object[o] = row
      /\ (w.moved <=> v.moved \/ (v.open /\ v.subject = o /\ v.object[o] # row))
  BY DEF Assigned, View
<1> HIDE DEF w
<1>2. ASSUME v.open, ~w.moved
      PROVE  FormChanges(w) = FormChanges(v)
  <2>1. v.subject \in Object /\ w.object[v.subject] = v.object[v.subject]
    BY <1>1, <1>2 DEF Faithful
  <2> QED
    BY <1>1, <2>1 DEF FormChanges
<1>3. Faithful(w)
  BY <1>1, <1>2 DEF Faithful
<1> QED
  BY <1>3 DEF w

LEMMA PageFaithful ==
  ASSUME FaithfulDialogs, NEW t \in Tab,
         \/ OpenDialog(t) \/ CloseDialog(t) \/ Reload(t)
         \/ \E f \in Field, text \in Text : Type(t, f, text)
         \/ \E s \in Slot : LoadList(t, s) \/ UploadImage(t, s) \/ SaveForm(t, s) \/ \E value \in Value : TurnSwitch(t, s, value)
  PROVE  \A u \in Tab : Faithful(view'[u])
<1> DEFINE v == view[t]
<1>1. v \in View /\ Faithful(v) /\ \A u \in Tab : Faithful(view[u])
  BY DEF FaithfulDialogs, ConfigTypes, ConfigTypeOK
<1>2. CASE OpenDialog(t)
  <2>1. v.shown \in Object
    BY <1>1, <1>2 DEF OpenDialog, View
  <2> QED
    BY <1>1, <1>2, <2>1, OpenedFaithful, OneDialog DEF OpenDialog, Becomes
<1>3. CASE CloseDialog(t)
  BY <1>1, <1>3, ClosedFaithful, OneDialog DEF CloseDialog, Becomes
<1>4. CASE Reload(t)
  <2>1. Faithful(Mounted)
    BY MountedType DEF Faithful
  <2> QED
    BY <1>4, <2>1, OneDialog DEF Reload, Becomes
<1>5. ASSUME NEW f \in Field, NEW text \in Text, Type(t, f, text)
      PROVE  \A u \in Tab : Faithful(view'[u])
  BY <1>1, <1>5, TypedFaithful, OneDialog DEF Type, Becomes
<1>6. ASSUME NEW s \in Slot, LoadList(t, s)
      PROVE  \A u \in Tab : Faithful(view'[u])
  BY <1>1, <1>6 DEF LoadList
<1>7. ASSUME NEW s \in Slot, SaveForm(t, s)
      PROVE  \A u \in Tab : Faithful(view'[u])
  <2>1. view' = [view EXCEPT ![t] = Closed(v)] \/ view' = [view EXCEPT ![t] = [v EXCEPT !.saving = TRUE]]
    BY <1>7 DEF SaveForm, Becomes
  <2> QED
    BY <1>1, <2>1, ClosedFaithful, SavingFaithful, OneDialog
<1>9. ASSUME NEW s \in Slot, UploadImage(t, s)
      PROVE  \A u \in Tab : Faithful(view'[u])
  BY <1>1, <1>9, UploadingFaithful, OneDialog DEF UploadImage, Becomes
<1>8. ASSUME NEW s \in Slot, NEW value \in Value, TurnSwitch(t, s, value)
      PROVE  \A u \in Tab : Faithful(view'[u])
  <2> DEFINE w == [v EXCEPT !.object[v.shown][Switch] = value]
  <2>1. view' = [view EXCEPT ![t] = w] /\ ~v.open
    BY <1>8, ZenonT(30) DEF TurnSwitch, Becomes
  <2>2. ~w.open
    BY <1>1, <2>1 DEF View
  <2> QED
    BY <2>1, <2>2, OneDialog, ZenonT(60) DEF Faithful
<1> QED
  BY <1>2, <1>3, <1>4, <1>5, <1>6, <1>7, <1>8, <1>9

LEMMA AnswerFaithful ==
  ASSUME FaithfulDialogs, NEW s \in Slot,
         \/ \E address \in Value : OnUploaded(s, address)
         \/ OnList(s) \/ OnSwitch(s) \/ OnSaved(s) \/ OnEditFailed(s)
  PROVE  \A u \in Tab : Faithful(view'[u])
<1> DEFINE p == patch[s]  t == p.tab  v == view[t]
<1>1. /\ p \in Patch /\ t \in Tab /\ v \in View /\ p.next \in ConfigRow /\ Faithful(v)
      /\ \A u \in Tab : Faithful(view[u])
      /\ p.pc # "free" /\ p.kind = "switch" => p.object \in Object
  BY DEF FaithfulDialogs, ConfigTypes, ConfigTypeOK, Patch
<1>6. ASSUME NEW address \in Value, OnUploaded(s, address)
      PROVE  \A u \in Tab : Faithful(view'[u])
  <2> DEFINE m == v.moved \/ Picture \notin v.touched
             w == [v EXCEPT !.form[Picture] = address, !.moved = m]
  <2>1. address \in Text /\ m \in BOOLEAN /\ (m <=> (v.moved \/ Picture \notin v.touched))
    BY <1>1, ConstantTypes, ZenonT(60)
  <2>2. view' = [view EXCEPT ![t] = w] \/ UNCHANGED view
    BY <1>6, ZenonT(30) DEF OnUploaded, Becomes
  <2> HIDE DEF m
  <2>3. Faithful(w)
    BY <1>1, <2>1, UploadedFaithful
  <2> HIDE DEF w
  <2> QED
    BY <1>1, <2>2, <2>3, OneDialog
<1>2. CASE OnList(s)
  <2>1. PICK o \in Object : view' = [view EXCEPT ![t] = Replaced(v, o, p.next)] /\ (v.open => o # v.subject)
    <3>1. (CHOOSE o \in Unused(v, t) : TRUE) \in Unused(v, t)
      BY <1>2 DEF OnList
    <3> QED
      BY <1>2, <3>1, ZenonT(30) DEF OnList, Becomes, Unused
  <2> HIDE DEF p, t, v
  <2>2. Faithful(Replaced(v, o, p.next))
    BY <1>1, <2>1, ReplacedFaithful
  <2> QED
    BY <1>1, <2>1, <2>2, OneDialog, ZenonT(60)
<1>3. CASE OnSwitch(s)
  <2> DEFINE row == IF p.ok THEN p.next ELSE [v.object[p.object] EXCEPT ![Switch] = p.previous]
  <2>1. p.object \in Object /\ view' = [view EXCEPT ![t] = Assigned(v, p.object, row)]
    BY <1>1, <1>3 DEF OnSwitch, Received, Becomes
  <2>2. row \in ConfigRow
    <3>1. v.object[p.object] \in ConfigRow /\ p.previous \in Value
      BY <1>1, <2>1 DEF View, Patch
    <3>2. [v.object[p.object] EXCEPT ![Switch] = p.previous] \in ConfigRow
      BY <3>1 DEF ConfigRow
    <3> QED
      BY <1>1, <3>2
  <2> HIDE DEF p, t, v, row
  <2>3. Faithful(Assigned(v, p.object, row))
    BY <1>1, <2>1, <2>2, AssignedFaithful
  <2> QED
    BY <1>1, <2>1, <2>3, OneDialog
<1>4. CASE OnSaved(s)
  <2> DEFINE w == [Closed(v) EXCEPT !.saving = FALSE]
  <2>1. w \in View /\ ~w.open
    BY <1>1, ClosedType DEF View
  <2>2. \/ view' = [view EXCEPT ![t] = w]
        \/ \E o \in Object : view' = [view EXCEPT ![t] = Replaced(w, o, p.next)]
    <3>1. ASSUME Unused(w, t) # {}
          PROVE  (CHOOSE o \in Unused(w, t) : TRUE) \in Object
      BY <3>1 DEF Unused
    <3> QED
      BY <1>4, <3>1 DEF OnSaved, Becomes
  <2>3. Faithful(w)
    BY <2>1 DEF Faithful
  <2>a. p.next \in ConfigRow
    BY <1>1
  <2> HIDE DEF p, t, w
  <2>4. \A o \in Object : Faithful(Replaced(w, o, p.next))
    BY <2>1, <2>3, <2>a, ReplacedFaithful
  <2> QED
    BY <1>1, <2>2, <2>3, <2>4, OneDialog
<1>5. CASE OnEditFailed(s)
  <2>1. UNCHANGED view \/ view' = [view EXCEPT ![t] = [v EXCEPT !.saving = FALSE]]
    BY <1>5 DEF OnEditFailed, Becomes
  <2> QED
    BY <1>1, <2>1, SavingFaithful, OneDialog
<1> QED
  BY <1>2, <1>3, <1>4, <1>5, <1>6

LEMMA NextFaithfulDialogs == FaithfulDialogs /\ [ConfigNext]_editing => FaithfulDialogs'
<1> SUFFICES ASSUME FaithfulDialogs, [ConfigNext]_editing PROVE FaithfulDialogs'
  OBVIOUS
<1>1. ConfigTypes'
  BY NextConfigTypes DEF FaithfulDialogs
<1>2. \A t \in Tab : Faithful(view'[t])
  <2>1. CASE UNCHANGED view
    BY <2>1 DEF FaithfulDialogs
  <2>2. CASE \E t \in Tab :
               \/ OpenDialog(t) \/ CloseDialog(t) \/ Reload(t)
               \/ \E f \in Field, text \in Text : Type(t, f, text)
               \/ \E s \in Slot : LoadList(t, s) \/ UploadImage(t, s) \/ SaveForm(t, s) \/ \E value \in Value : TurnSwitch(t, s, value)
    BY <2>2, PageFaithful
  <2>3. CASE \E s \in Slot :
               \/ \E address \in Value : OnUploaded(s, address)
               \/ OnList(s) \/ OnSwitch(s) \/ OnSaved(s) \/ OnEditFailed(s)
    BY <2>3, AnswerFaithful
  <2>4. CASE \E s \in Slot :
               \/ ReadList(s) \/ StoreImage(s) \/ LoadRow(s) \/ CompareRow(s)
               \/ SaveRow(s) \/ RecordChange(s) \/ LoseChange(s)
               \/ HandlerFails(s) \/ HandlerDies(s) \/ LoseAnswer(s)
    BY <2>1, <2>4 DEF ReadList, StoreImage, LoadRow, CompareRow, SaveRow, RecordChange, LoseChange, HandlerFails, HandlerDies,
                      LoseAnswer
  <2> QED
    BY <2>1, <2>2, <2>3, <2>4 DEF ConfigNext, editing
<1> QED
  BY <1>1, <1>2 DEF FaithfulDialogs, Faithful, FormChanges

(* ConfigEditing's variables keep their types: a call's object is one the  *)
(* page has, and what a handler holds of the row is a row.                 *)
THEOREM ConfigTypesHold == ConfigSpec => []ConfigTypeOK
<1> QED
  BY InitConfigTypes, NextConfigTypes, PTL DEF ConfigSpec, ConfigTypes

(* BrandSiteView.vue:199: the form of an open dialog differs from its row  *)
(* only where the administrator touched it, so that a save sends nothing   *)
(* else, although lists, saves and switches are answered meanwhile; unless *)
(* one of these answers changed the very object, or an upload the form.    *)
THEOREM OnlyWhatWasTouchedHolds == ConfigSpec => []OnlyWhatWasTouched
<1>1. ConfigInit => FaithfulDialogs
  <2> SUFFICES ASSUME ConfigInit PROVE FaithfulDialogs
    OBVIOUS
  <2>1. \A t \in Tab : ~view[t].open
    BY MountedType DEF ConfigInit
  <2> QED
    BY <2>1, InitConfigTypes DEF FaithfulDialogs, Faithful
<1>2. FaithfulDialogs => OnlyWhatWasTouched
  BY DEF FaithfulDialogs, Faithful, OnlyWhatWasTouched
<1> QED
  BY <1>1, <1>2, NextFaithfulDialogs, PTL DEF ConfigSpec

(* The trail and the handlers.  As long as nothing disturbed it there is   *)
(* one writer at most, and at each of its steps the row is what the trail  *)
(* tells or what the writer is about to tell.                              *)
Told == IF trail = <<>> THEN Original ELSE trail[Len(trail)].after

Chained ==
  \A i \in DOMAIN trail : trail[i].before = IF i = 1 THEN Original ELSE trail[i - 1].after

Tracking(p) ==
  /\ p.pc = "loaded" => config = Told /\ p.seen = Told
  /\ p.pc = "compared" => config = Told /\ p.seen = Told /\ p.differing = {f \in Field : p.next[f] # Told[f]}
  /\ p.pc = "saved" => config = p.next /\ p.seen = Told

TracedInv ==
  /\ ConfigTypes
  /\ \A i \in DOMAIN trail : trail[i].before # trail[i].after
  /\ \A s \in Slot : Writing(s) => patch[s].next # patch[s].seen
  /\ ~disturbed =>
       /\ Chained
       /\ \A r, s \in Slot : Writing(r) /\ Writing(s) => r = s
       /\ (\A s \in Slot : ~Writing(s)) => config = Told
       /\ \A s \in Slot : Tracking(patch[s])

(* No handler writes: it comes, it goes without a trace, or it stays.      *)
Quiet(s) ==
  \/ ~Writing(s) /\ ~Writing(s)'
  \/ /\ patch'[s].pc = patch[s].pc /\ patch'[s].seen = patch[s].seen
     /\ patch'[s].next = patch[s].next /\ patch'[s].differing = patch[s].differing

LEMMA QuietTraces ==
  ASSUME TracedInv, ConfigTypes', UNCHANGED stored, \A s \in Slot : Quiet(s)
  PROVE  TracedInv'
<1>1. UNCHANGED <<config, trail, disturbed>> /\ Told' = Told
  BY DEF stored, Told
<1>2. \A s \in Slot : Writing(s)' <=> Writing(s)
  BY DEF Quiet, Writing
<1>3. \A s \in Slot : Writing(s) => patch'[s].pc = patch[s].pc /\ patch'[s].seen = patch[s].seen
        /\ patch'[s].next = patch[s].next /\ patch'[s].differing = patch[s].differing
  BY DEF Quiet
<1>4. \A s \in Slot : Writing(s)' => patch'[s].next # patch'[s].seen
  BY <1>2, <1>3 DEF TracedInv
<1>5. \A s \in Slot : Tracking(patch[s]) => Tracking(patch[s])'
  BY <1>1, <1>2, <1>3 DEF Tracking, Writing
<1>6. Chained => Chained'
  BY <1>1 DEF Chained
<1> QED
  BY <1>1, <1>2, <1>4, <1>5, <1>6 DEF TracedInv

(* The one handler that moves, from p to q.                                *)
LEMMA OneMoves ==
  ASSUME NEW s \in Slot, NEW q, patch \in [Slot -> Patch], patch' = [patch EXCEPT ![s] = q]
  PROVE  patch'[s] = q /\ \A r \in Slot \ {s} : patch'[r] = patch[r] /\ (Writing(r)' <=> Writing(r))
BY DEF Writing

LEMMA OneQuiet ==
  ASSUME TracedInv, ConfigTypes', UNCHANGED stored, NEW s \in Slot, NEW q, patch' = [patch EXCEPT ![s] = q],
         patch[s].pc \in {"free", "sent", "answered"}, q.pc \in {"free", "sent", "answered"}
  PROVE  TracedInv'
<1>1. patch \in [Slot -> Patch]
  BY DEF TracedInv, ConfigTypes, ConfigTypeOK
<1>2. patch'[s] = q /\ \A r \in Slot \ {s} : patch'[r] = patch[r]
  BY <1>1, OneMoves
<1>3. ~Writing(s) /\ ~Writing(s)'
  BY <1>2 DEF Writing
<1>4. \A r \in Slot : Quiet(r)
  BY <1>2, <1>3 DEF Quiet
<1> QED
  BY <1>4, QuietTraces

LEMMA LoadTraces ==
  ASSUME TracedInv, ConfigTypes', NEW s \in Slot, LoadRow(s)
  PROVE  TracedInv'
<1> DEFINE p == patch[s]
           q == [p EXCEPT !.pc = "loaded", !.seen = config, !.next = Edited(config, p)]
<1>1. patch \in [Slot -> Patch] /\ p \in Patch /\ disturbed \in BOOLEAN
  BY DEF TracedInv, ConfigTypes, ConfigTypeOK
<1>2. /\ UNCHANGED <<config, trail>> /\ patch' = [patch EXCEPT ![s] = q] /\ p.pc = "sent"
      /\ Edited(config, p) # config /\ (disturbed' <=> disturbed \/ \E r \in Slot : Writing(r))
  BY DEF LoadRow
<1>3. q.pc = "loaded" /\ q.seen = config /\ q.next = Edited(config, p)
  BY <1>1 DEF Patch
<1>4. patch'[s] = q /\ \A r \in Slot \ {s} : patch'[r] = patch[r] /\ (Writing(r)' <=> Writing(r))
  BY <1>1, <1>2, OneMoves
<1> HIDE DEF p, q
<1>5. Told' = Told /\ (Chained => Chained')
  BY <1>2 DEF Told, Chained
<1>6. \A r \in Slot : Writing(r)' => patch'[r].next # patch'[r].seen
  BY <1>2, <1>3, <1>4 DEF TracedInv
<1>7. ASSUME ~disturbed'
      PROVE  /\ Chained' /\ \A r, t \in Slot : Writing(r)' /\ Writing(t)' => r = t
             /\ \E r \in Slot : Writing(r)'
             /\ \A r \in Slot : Tracking(patch[r])'
  <2>1. ~disturbed /\ \A r \in Slot : ~Writing(r)
    BY <1>2, <1>7
  <2>2. config = Told /\ Chained
    BY <2>1 DEF TracedInv
  <2>3. \A r \in Slot \ {s} : ~Writing(r)'
    BY <1>4, <2>1
  <2>4. Writing(s)'
    BY <1>3, <1>4 DEF Writing
  <2>5. \A r \in Slot \ {s} : Tracking(patch[r])'
    BY <2>3 DEF Tracking, Writing
  <2>6. Tracking(patch[s])'
    BY <1>2, <1>3, <1>4, <1>5, <2>2 DEF Tracking
  <2> QED
    BY <1>5, <2>2, <2>3, <2>4, <2>5, <2>6
<1> QED
  BY <1>2, <1>5, <1>6, <1>7 DEF TracedInv

(* The two steps of save, the second of which writes the row.              *)
LEMMA SaveTraces ==
  ASSUME TracedInv, ConfigTypes', NEW s \in Slot, CompareRow(s) \/ SaveRow(s)
  PROVE  TracedInv'
<1> DEFINE p == patch[s]
<1>1. /\ patch \in [Slot -> Patch] /\ p \in Patch /\ config \in ConfigRow /\ p.next \in ConfigRow
  BY DEF TracedInv, ConfigTypes, ConfigTypeOK, Patch
<1>2. PICK q : /\ patch' = [patch EXCEPT ![s] = q] /\ q.seen = p.seen /\ q.next = p.next
               /\ \/ /\ p.pc = "loaded" /\ q.pc = "compared" /\ config' = config
                     /\ q.differing = {f \in Field : p.next[f] # config[f]}
                  \/ /\ p.pc = "compared" /\ q.pc = "saved"
                     /\ config' = [f \in Field |-> IF f \in p.differing THEN p.next[f] ELSE config[f]]
  <2>1. CASE CompareRow(s)
    <3> DEFINE q == [p EXCEPT !.pc = "compared", !.differing = {f \in Field : p.next[f] # config[f]}]
    <3>1. q.seen = p.seen /\ q.next = p.next /\ q.pc = "compared" /\ q.differing = {f \in Field : p.next[f] # config[f]}
      BY <1>1 DEF Patch
    <3>2. patch' = [patch EXCEPT ![s] = q] /\ p.pc = "loaded" /\ config' = config
      BY <2>1 DEF CompareRow, stored
    <3> QED
      BY <3>1, <3>2
  <2>2. CASE SaveRow(s)
    <3> DEFINE q == [p EXCEPT !.pc = "saved"]
    <3>1. q.seen = p.seen /\ q.next = p.next /\ q.pc = "saved"
      BY <1>1 DEF Patch
    <3>2. /\ patch' = [patch EXCEPT ![s] = q] /\ p.pc = "compared"
          /\ config' = [f \in Field |-> IF f \in p.differing THEN p.next[f] ELSE config[f]]
      BY <2>2 DEF SaveRow
    <3> QED
      BY <3>1, <3>2
  <2> QED
    BY <2>1, <2>2
<1>3. UNCHANGED <<trail, disturbed>> /\ Told' = Told /\ (Chained => Chained')
  BY DEF CompareRow, SaveRow, stored, Told, Chained
<1>4. patch'[s] = q /\ \A r \in Slot \ {s} : patch'[r] = patch[r] /\ (Writing(r)' <=> Writing(r))
  BY <1>1, <1>2, OneMoves
<1>5. Writing(s) /\ Writing(s)'
  BY <1>2, <1>4 DEF Writing
<1>6. \A r \in Slot : Writing(r)' => patch'[r].next # patch'[r].seen
  BY <1>2, <1>4, <1>5 DEF TracedInv
<1>7. ASSUME ~disturbed'
      PROVE  /\ Chained' /\ \A r, t \in Slot : Writing(r)' /\ Writing(t)' => r = t
             /\ \A r \in Slot : Tracking(patch[r])'
  <2>1. Chained /\ Tracking(p) /\ \A r, t \in Slot : Writing(r) /\ Writing(t) => r = t
    BY <1>3, <1>7 DEF TracedInv
  <2>2. \A r \in Slot \ {s} : ~Writing(r)'
    BY <1>4, <1>5, <2>1
  <2>3. \A r \in Slot \ {s} : Tracking(patch[r])'
    BY <2>2 DEF Tracking, Writing
  <2>4. Tracking(patch[s])'
    <3>1. CASE p.pc = "loaded"
      BY <1>2, <1>3, <1>4, <2>1, <3>1 DEF Tracking
    <3>2. CASE p.pc = "compared"
      <4>1. config = Told /\ p.seen = Told /\ p.differing = {f \in Field : p.next[f] # Told[f]}
        BY <2>1, <3>2 DEF Tracking
      <4>2. config' = [f \in Field |-> IF f \in p.differing THEN p.next[f] ELSE config[f]]
        BY <1>2, <3>2
      <4>3. config' = p.next
        BY <1>1, <4>1, <4>2 DEF ConfigRow
      <4> QED
        BY <1>2, <1>3, <1>4, <3>2, <4>1, <4>3 DEF Tracking
    <3> QED
      BY <1>2, <3>1, <3>2
  <2> QED
    BY <1>3, <2>1, <2>2, <2>3, <2>4
<1> QED
  BY <1>3, <1>5, <1>6, <1>7 DEF TracedInv

LEMMA RecordTraces ==
  ASSUME TracedInv, ConfigTypes', NEW s \in Slot, RecordChange(s)
  PROVE  TracedInv'
<1> DEFINE p == patch[s]  q == Answering(p, TRUE, p.next)  n == Len(trail)
           Entry == [before : ConfigRow, after : ConfigRow]
<1>1. /\ patch \in [Slot -> Patch] /\ p \in Patch /\ p.next \in ConfigRow /\ trail \in Seq(Entry)
  BY DEF TracedInv, ConfigTypes, ConfigTypeOK, Patch
<1>2. /\ patch' = [patch EXCEPT ![s] = q] /\ p.pc = "saved" /\ trail' = Append(trail, Change(p))
      /\ UNCHANGED <<config, disturbed>>
  BY DEF RecordChange, Done
<1>3. ~(q.pc \in {"loaded", "compared", "saved"})
  BY <1>1, AnsweringType
<1>4. patch'[s] = q /\ \A r \in Slot \ {s} : patch'[r] = patch[r] /\ (Writing(r)' <=> Writing(r))
  BY <1>1, <1>2, OneMoves
<1>5. Writing(s) /\ ~Writing(s)' /\ p.seen # p.next
  BY <1>2, <1>3, <1>4 DEF Writing, TracedInv
<1>6. Change(p).before = p.seen /\ Change(p).after = p.next
  BY DEF Change
<1> DEFINE c == Change(p)
<1>7. /\ n \in Nat /\ DOMAIN trail = 1..n /\ DOMAIN trail' = 1..(n + 1) /\ Len(trail') = n + 1
      /\ trail'[n + 1] = c /\ \A i \in 1..n : trail'[i] = trail[i]
  <2>1. trail' = Append(trail, c) /\ c \in Entry /\ trail \in Seq(Entry)
    <3>1. p.next \in ConfigRow /\ p.seen \in ConfigRow
      BY <1>1 DEF Patch
    <3> QED
      BY <1>1, <1>2, <3>1 DEF Change
  <2> HIDE DEF c, Entry
  <2> QED
    BY <2>1
<1>8. Told' = p.next /\ (n = 0 => Told = Original) /\ (n # 0 => Told = trail[n].after)
  <2> HIDE DEF c, Entry, p
  <2>1. trail' # <<>> /\ (n = 0 <=> trail = <<>>)
    BY <1>1, <1>7
  <2> QED
    BY <1>6, <1>7, <2>1 DEF Told, c
<1> HIDE DEF p, q, n, c, Entry
<1>9. \A i \in DOMAIN trail' : trail'[i].before # trail'[i].after
  <2>1. c.before # c.after
    BY <1>5, <1>6 DEF c
  <2> QED
    BY <1>7, <2>1 DEF TracedInv
<1>10. \A r \in Slot : Writing(r)' => patch'[r].next # patch'[r].seen
  BY <1>4, <1>5 DEF TracedInv
<1>11. ASSUME ~disturbed'
       PROVE  /\ Chained' /\ config' = Told' /\ \A r \in Slot : ~Writing(r)'
              /\ \A r \in Slot : Tracking(patch[r])'
  <2>1. /\ Chained /\ Tracking(p) /\ \A r, t \in Slot : Writing(r) /\ Writing(t) => r = t
    BY <1>2, <1>11 DEF TracedInv, p
  <2>2. config = p.next /\ p.seen = Told
    BY <1>2, <2>1 DEF Tracking
  <2>3. \A r \in Slot : ~Writing(r)'
    BY <1>4, <1>5, <2>1
  <2>4. \A r \in Slot : Tracking(patch[r])'
    BY <2>3 DEF Tracking, Writing
  <2>5. c.before = IF n = 0 THEN Original ELSE trail[n].after
    BY <1>6, <1>8, <2>2 DEF c
  <2>6. ASSUME NEW i \in 1..(n + 1)
        PROVE  trail'[i].before = IF i = 1 THEN Original ELSE trail'[i - 1].after
    <3>1. CASE i = n + 1
      <4>1. n # 0 => trail'[n] = trail[n]
        BY <1>7
      <4> QED
        BY <1>7, <2>5, <3>1, <4>1
    <3>2. CASE i # n + 1
      <4>1. i \in 1..n /\ (i # 1 => i - 1 \in 1..n)
        BY <1>7, <3>2
      <4>2. trail[i].before = IF i = 1 THEN Original ELSE trail[i - 1].after
        BY <1>7, <2>1, <4>1 DEF Chained
      <4> QED
        BY <1>7, <4>1, <4>2
    <3> QED
      BY <3>1, <3>2
  <2>7. Chained'
    BY <1>7, <2>6 DEF Chained
  <2> QED
    BY <1>2, <1>8, <2>2, <2>3, <2>4, <2>7
<1> QED
  BY <1>9, <1>10, <1>11 DEF TracedInv

(* A handler that stops before it wrote leaves the row as it was.          *)
LEMMA StopTraces ==
  ASSUME TracedInv, ConfigTypes', NEW s \in Slot, HandlerFails(s) \/ HandlerDies(s) \/ LoseChange(s)
  PROVE  TracedInv'
<1> DEFINE p == patch[s]
<1>1. /\ patch \in [Slot -> Patch] /\ p \in Patch /\ p.next \in ConfigRow /\ Original \in ConfigRow
  BY ConstantTypes DEF TracedInv, ConfigTypes, ConfigTypeOK, Patch
<1>2. PICK q : /\ patch' = [patch EXCEPT ![s] = q] /\ ~(q.pc \in {"loaded", "compared", "saved"})
               /\ UNCHANGED <<config, trail>>
               /\ disturbed' \/ (UNCHANGED disturbed /\ p.pc \in {"sent", "loaded", "compared"})
  <2>1. PICK ok \in BOOLEAN, row \in ConfigRow : patch' = [patch EXCEPT ![s] = Answering(p, ok, row)]
    BY <1>1 DEF HandlerFails, HandlerDies, LoseChange, Done
  <2>2. ~(Answering(p, ok, row).pc \in {"loaded", "compared", "saved"})
    BY <1>1, AnsweringType
  <2>3. /\ UNCHANGED <<config, trail>>
        /\ disturbed' \/ (UNCHANGED disturbed /\ p.pc \in {"sent", "loaded", "compared"})
    BY DEF HandlerFails, HandlerDies, LoseChange, stored
  <2> QED
    BY <2>1, <2>2, <2>3
<1>3. patch'[s] = q /\ \A r \in Slot \ {s} : patch'[r] = patch[r] /\ (Writing(r)' <=> Writing(r))
  BY <1>1, <1>2, OneMoves
<1>4. ~Writing(s)' /\ Told' = Told /\ (Chained => Chained')
  BY <1>2, <1>3 DEF Writing, Told, Chained
<1>5. \A r \in Slot : Writing(r)' => patch'[r].next # patch'[r].seen
  BY <1>3, <1>4 DEF TracedInv
<1>6. ASSUME ~disturbed'
      PROVE  /\ Chained' /\ \A r, t \in Slot : Writing(r)' /\ Writing(t)' => r = t
             /\ (\A r \in Slot : ~Writing(r)') => config' = Told'
             /\ \A r \in Slot : Tracking(patch[r])'
  <2>1. /\ ~disturbed /\ p.pc \in {"sent", "loaded", "compared"} /\ Chained
        /\ \A r, t \in Slot : Writing(r) /\ Writing(t) => r = t
        /\ \A r \in Slot : Tracking(patch[r])
        /\ (\A r \in Slot : ~Writing(r)) => config = Told
    BY <1>2, <1>6 DEF TracedInv
  <2>2. \A r, t \in Slot : Writing(r)' /\ Writing(t)' => r = t
    BY <1>3, <1>4, <2>1
  <2>3. ASSUME \A r \in Slot : ~Writing(r)'
        PROVE  config = Told
    <3>1. CASE p.pc = "sent"
      BY <1>3, <2>1, <2>3, <3>1 DEF Writing
    <3>2. CASE p.pc # "sent"
      BY <2>1, <3>2 DEF Tracking
    <3> QED
      BY <3>1, <3>2
  <2>4. \A r \in Slot \ {s} : Tracking(patch[r])'
    BY <1>2, <1>3, <1>4, <2>1 DEF Tracking
  <2>5. Tracking(patch[s])'
    BY <1>4 DEF Tracking, Writing
  <2> QED
    BY <1>2, <1>4, <2>1, <2>2, <2>3, <2>4, <2>5
<1> QED
  BY <1>2, <1>5, <1>6 DEF TracedInv

(* Calls of the page, lists read, and answers.                             *)
LEMMA CallTraces ==
  ASSUME TracedInv, ConfigTypes', NEW s \in Slot,
         \/ \E t \in Tab : LoadList(t, s) \/ UploadImage(t, s) \/ SaveForm(t, s) \/ \E value \in Value : TurnSwitch(t, s, value)
         \/ \E address \in Value : OnUploaded(s, address)
         \/ ReadList(s) \/ StoreImage(s) \/ OnList(s) \/ OnSwitch(s)
         \/ OnSaved(s) \/ OnEditFailed(s) \/ LoseAnswer(s)
  PROVE  TracedInv'
<1> DEFINE p == patch[s]
<1>1. /\ patch \in [Slot -> Patch] /\ p \in Patch /\ config \in ConfigRow /\ UNCHANGED stored
  BY DEF TracedInv, ConfigTypes, ConfigTypeOK, LoadList, UploadImage, SaveForm, TurnSwitch, ReadList, StoreImage,
         OnUploaded, OnList, OnSwitch, OnSaved, OnEditFailed, LoseAnswer
<1>2. CASE UNCHANGED patch
  BY <1>1, <1>2, QuietTraces DEF Quiet
<1>3. ASSUME NEW q, Send(s, q), q.pc = "sent"
      PROVE  TracedInv'
  BY <1>1, <1>3, OneQuiet DEF Send
<1>4. ASSUME NEW t \in Tab, LoadList(t, s) \/ UploadImage(t, s) \/ SaveForm(t, s) \/ \E value \in Value : TurnSwitch(t, s, value)
      PROVE  TracedInv'
  <2>1. UNCHANGED patch \/ \E q : Send(s, q) /\ q.pc = "sent"
    <3>1. CASE LoadList(t, s)
      BY <3>1, CallOfType DEF LoadList
    <3>4. CASE UploadImage(t, s)
      BY <3>4, CallOfType DEF UploadImage
    <3>2. CASE SaveForm(t, s)
      <4> DEFINE v == view[t]  q == [CallOf(t, "save") EXCEPT !.asked = FormChanges(v), !.text = v.form]
      <4>1. UNCHANGED patch \/ Send(s, q)
        BY <3>2 DEF SaveForm
      <4>2. q.pc = "sent"
        BY CallOfType DEF Patch
      <4> QED
        BY <4>1, <4>2
    <3>3. ASSUME NEW value \in Value, TurnSwitch(t, s, value)
          PROVE  \E q : Send(s, q) /\ q.pc = "sent"
      <4> DEFINE v == view[t]
                 q == [CallOf(t, "switch") EXCEPT !.asked = {Switch}, !.text = [Original EXCEPT ![Switch] = value],
                                                  !.object = v.shown, !.previous = v.object[v.shown][Switch]]
      <4>1. Send(s, q)
        BY <3>3, ZenonT(30) DEF TurnSwitch
      <4>2. q.pc = "sent"
        BY CallOfType DEF Patch
      <4> QED
        BY <4>1, <4>2, ZenonT(30)
    <3> QED
      BY <1>4, <3>1, <3>2, <3>3, <3>4
  <2> QED
    BY <1>2, <1>3, <2>1
<1>5. CASE ReadList(s) \/ StoreImage(s)
  <2>a. PICK row \in ConfigRow : Done(s, TRUE, row) /\ p.pc = "sent"
    BY <1>1, <1>5, ConstantTypes DEF ReadList, StoreImage
  <2> DEFINE q == Answering(p, TRUE, row)
  <2>1. q \in Patch /\ ~(q.pc \in {"loaded", "compared", "saved"}) /\ patch' = [patch EXCEPT ![s] = q] /\ p.pc = "sent"
    BY <1>1, <2>a, AnsweringType DEF Done
  <2>2. q.pc \in {"free", "sent", "answered"}
    BY <2>1 DEF Patch
  <2> QED
    BY <1>1, <2>1, <2>2, OneQuiet
<1>6. ASSUME NEW kind, Received(s, kind)
      PROVE  TracedInv'
  BY <1>1, <1>6, NoPatchType, OneQuiet, ZenonT(60) DEF Received
<1>7. CASE \/ \E address \in Value : OnUploaded(s, address)
           \/ OnList(s) \/ OnSwitch(s) \/ OnSaved(s) \/ OnEditFailed(s)
  BY <1>6, <1>7, ZenonT(60) DEF OnUploaded, OnList, OnSwitch, OnSaved, OnEditFailed
<1>8. CASE LoseAnswer(s)
  <2> DEFINE q == [p EXCEPT !.ok = FALSE, !.next = Original]
  <2>1. q.pc = "answered" /\ patch' = [patch EXCEPT ![s] = q] /\ p.pc = "answered"
    BY <1>1, <1>8 DEF LoseAnswer, Patch
  <2> QED
    BY <1>1, <2>1, OneQuiet
<1> QED
  BY <1>4, <1>5, <1>7, <1>8, ZenonT(60)

LEMMA NextTraces == TracedInv /\ [ConfigNext]_editing => TracedInv'
<1> SUFFICES ASSUME TracedInv, [ConfigNext]_editing PROVE TracedInv'
  OBVIOUS
<1>1. ConfigTypes' /\ patch \in [Slot -> Patch]
  BY NextConfigTypes DEF TracedInv, ConfigTypes, ConfigTypeOK
<1>2. CASE UNCHANGED <<stored, patch>>
  BY <1>1, <1>2, QuietTraces DEF Quiet
<1>3. ASSUME NEW t \in Tab,
             \/ OpenDialog(t) \/ CloseDialog(t) \/ \E f \in Field, text \in Text : Type(t, f, text)
      PROVE  TracedInv'
  BY <1>2, <1>3 DEF OpenDialog, CloseDialog, Type
<1>4. ASSUME NEW t \in Tab, Reload(t)
      PROVE  TracedInv'
  <2>1. ASSUME NEW s \in Slot
        PROVE  Quiet(s)
    <3>1. patch[s] \in Patch
      BY <1>1
    <3>2. \/ patch'[s] = patch[s] \/ (patch[s].pc = "answered" /\ patch'[s] = NoPatch)
          \/ patch'[s] = [patch[s] EXCEPT !.awaited = FALSE]
      BY <1>4 DEF Reload
    <3>3. CASE patch'[s] = patch[s]
      BY <3>3 DEF Quiet
    <3>4. CASE patch[s].pc = "answered" /\ patch'[s] = NoPatch
      BY <3>4, NoPatchType DEF Quiet, Writing
    <3>5. CASE patch'[s] = [patch[s] EXCEPT !.awaited = FALSE]
      BY <3>1, <3>5 DEF Quiet, Patch
    <3> QED
      BY <3>2, <3>3, <3>4, <3>5
  <2> QED
    BY <1>1, <1>4, <2>1, QuietTraces DEF Reload
<1>5. CASE UNCHANGED editing
  BY <1>2, <1>5 DEF editing, stored
<1> QED
  BY <1>1, <1>3, <1>4, <1>5, CallTraces, LoadTraces, SaveTraces, RecordTraces, StopTraces DEF ConfigNext

(* admin-config.service.ts:41: as long as no two edits overlapped and no   *)
(* entry was lost the trail leads, entry by entry, from the seeded row to  *)
(* the row as it is; and no entry ever tells of a change that is none.     *)
THEOREM EditsTracedHolds == ConfigSpec => []EditsTraced
<1>1. ConfigInit => TracedInv
  <2> SUFFICES ASSUME ConfigInit PROVE TracedInv
    OBVIOUS
  <2>1. config = Original /\ trail = <<>> /\ \A s \in Slot : patch[s].pc = "free"
    BY NoPatchType DEF ConfigInit
  <2>2. DOMAIN trail = {}
    BY <2>1
  <2> QED
    BY <2>1, <2>2, InitConfigTypes DEF TracedInv, Writing, Tracking, Chained, Told
<1>2. TracedInv => EditsTraced
  BY DEF TracedInv, EditsTraced, Chained, Told
<1> QED
  BY <1>1, <1>2, NextTraces, PTL DEF ConfigSpec

-----------------------------------------------------------------------------
(* Signing in to the console.  A call that enables the second factor       *)
(* carries a code read from an authenticator, and only such a call reaches *)
(* the step that stores a secret.                                          *)
Sound(e) ==
  /\ e \in Exchange
  /\ e.pc = "verified" => e.kind = "enable"
  /\ e.kind = "enable" /\ e.pc # "free" => e.secret \in scanned

SoundLine(l) == l \in [Line -> Exchange] /\ \A c \in Line : Sound(l[c])

ConsoleInv == ConsoleTypeOK /\ NeverLockedOut /\ SoundLine(line)

LEMMA NoExchangeSound == Sound(NoExchange) /\ NoExchange.pc = "free"
<1>1. (CHOOSE w \in Window : TRUE) \in Window
  BY ConsoleAssumption
<1> QED
  BY <1>1 DEF NoExchange, Exchange, Sound, Page

Kind == {"login", "profile", "setup", "enable", "logout", "configs"}

Then == {"show", "route", "store", "known", "enabled", "drop"}

Outcome == {"none", "ok", "refused", "unbound", "already", "failed"}

(* One field of a call takes another value of its type.                    *)
LEMMA AmendedType ==
  ASSUME NEW e \in Exchange
  PROVE  /\ \A x \in {"free", "sent", "found", "checked", "verified", "stored", "answered"} :
              [e EXCEPT !.pc = x] \in Exchange
         /\ \A x \in Kind : [e EXCEPT !.kind = x] \in Exchange
         /\ \A x \in Window : [e EXCEPT !.window = x] \in Exchange
         /\ \A x \in Then : [e EXCEPT !.then = x] \in Exchange
         /\ \A x \in Page : [e EXCEPT !.to = x] \in Exchange
         /\ \A x \in BOOLEAN : [e EXCEPT !.here = x] \in Exchange
         /\ \A x \in Session \cup {0} : [e EXCEPT !.token = x] \in Exchange
         /\ \A x \in BOOLEAN : [e EXCEPT !.totp = x] \in Exchange
         /\ \A x \in Outcome : [e EXCEPT !.answer = x] \in Exchange
<1>1. \A x \in {"free", "sent", "found", "checked", "verified", "stored", "answered"} : [e EXCEPT !.pc = x] \in Exchange
  BY DEF Exchange
<1>2. \A x \in Kind : [e EXCEPT !.kind = x] \in Exchange
  BY DEF Exchange, Kind
<1>3. \A x \in Window : [e EXCEPT !.window = x] \in Exchange
  BY DEF Exchange
<1>4. \A x \in Then : [e EXCEPT !.then = x] \in Exchange
  BY DEF Exchange, Then
<1>5. \A x \in Page : [e EXCEPT !.to = x] \in Exchange
  BY DEF Exchange
<1>6. \A x \in BOOLEAN : [e EXCEPT !.here = x] \in Exchange
  BY DEF Exchange
<1>7. \A x \in Session \cup {0} : [e EXCEPT !.token = x] \in Exchange
  BY DEF Exchange
<1>8. \A x \in BOOLEAN : [e EXCEPT !.totp = x] \in Exchange
  BY DEF Exchange
<1>9. \A x \in Outcome : [e EXCEPT !.answer = x] \in Exchange
  BY DEF Exchange, Outcome
<1> QED
  BY <1>1, <1>2, <1>3, <1>4, <1>5, <1>6, <1>7, <1>8, <1>9

LEMMA RequestingType ==
  ASSUME NEW w \in Window, NEW kind \in Kind, NEW then \in Then, NEW to \in Page, NEW tk \in Session \cup {0}
  PROVE  /\ Requesting(w, kind, then, to, tk) \in Exchange
         /\ Requesting(w, kind, then, to, tk).pc = "sent" /\ Requesting(w, kind, then, to, tk).kind = kind
<1> DEFINE here == then \notin {"route", "store"}
           e1 == [NoExchange EXCEPT !.pc = "sent"]
           e2 == [e1 EXCEPT !.kind = kind]
           e3 == [e2 EXCEPT !.window = w]
           e4 == [e3 EXCEPT !.then = then]
           e5 == [e4 EXCEPT !.to = to]
           e6 == [e5 EXCEPT !.token = tk]
           e7 == [e6 EXCEPT !.here = here]
<1>1. Requesting(w, kind, then, to, tk) = e7
  BY DEF Requesting
<1>2. here \in BOOLEAN /\ NoExchange \in Exchange
  BY NoExchangeSound DEF Sound
<1> HIDE DEF here, e1, e2, e3, e4, e5, e6, e7
<1>3. e1 \in Exchange /\ e1.pc = "sent"
  BY <1>2, AmendedType DEF e1, Exchange
<1>4. e2 \in Exchange /\ e2.pc = "sent" /\ e2.kind = kind
  <2>1. e2 \in Exchange
    BY <1>3, AmendedType DEF e2
  <2>2. e2.pc = "sent" /\ e2.kind = kind
    BY <1>3 DEF e2, Exchange
  <2> QED
    BY <2>1, <2>2
<1>5. e3 \in Exchange /\ e3.pc = "sent" /\ e3.kind = kind
  BY <1>4, AmendedType DEF e3, Exchange
<1>6. e4 \in Exchange /\ e4.pc = "sent" /\ e4.kind = kind
  <2>1. e4 \in Exchange
    BY <1>5, AmendedType DEF e4
  <2>2. e4.pc = "sent" /\ e4.kind = kind
    BY <1>5 DEF e4, Exchange
  <2> QED
    BY <2>1, <2>2
<1>7. e5 \in Exchange /\ e5.pc = "sent" /\ e5.kind = kind
  BY <1>6, AmendedType DEF e5, Exchange
<1>8. e6 \in Exchange /\ e6.pc = "sent" /\ e6.kind = kind
  BY <1>7, AmendedType DEF e6, Exchange
<1>9. e7 \in Exchange /\ e7.pc = "sent" /\ e7.kind = kind
  BY <1>2, <1>8, AmendedType DEF e7, Exchange
<1> QED
  BY <1>1, <1>9

LEMMA RequestingSound ==
  ASSUME NEW w \in Window, NEW kind \in Kind \ {"enable"}, NEW then \in Then, NEW to \in Page,
         NEW tk \in Session \cup {0}
  PROVE  Sound(Requesting(w, kind, then, to, tk))
BY RequestingType DEF Sound

LEMMA RoutedType ==
  ASSUME NEW v \in WindowState, NEW to \in Page, NEW tk
  PROVE  Routed(v, to, tk) \in WindowState
BY DEF Routed, At, WindowState, Page

LEMMA FollowingSound ==
  ASSUME NEW w \in Window, NEW v \in WindowState, NEW to \in Page, NEW tk \in Session \cup {0}
  PROVE  Sound(Following(w, v, to, tk))
<1>1. "home" \in Page /\ "blank" \in Page
  BY DEF Page
<1>2. /\ Sound(Requesting(w, "setup", "show", "blank", tk))
      /\ Sound(Requesting(w, "configs", "show", "blank", tk))
      /\ Sound(Requesting(w, "profile", "route", to, tk))
      /\ Sound(Requesting(w, "profile", "route", "home", tk))
  BY <1>1, RequestingSound DEF Kind, Then
<1> QED
  BY <1>2, NoExchangeSound DEF Following, Mounting

LEMMA MountingSound ==
  ASSUME NEW w \in Window, NEW old, NEW new, NEW tk \in Session \cup {0}
  PROVE  Sound(Mounting(w, old, new, tk))
<1>1. "blank" \in Page
  BY DEF Page
<1>2. /\ Sound(Requesting(w, "setup", "show", "blank", tk))
      /\ Sound(Requesting(w, "configs", "show", "blank", tk))
  BY <1>1, RequestingSound DEF Kind, Then
<1> QED
  BY <1>2, NoExchangeSound DEF Mounting

LEMMA OvertakenSound ==
  ASSUME NEW e, Sound(e), NEW w, NEW leaves \in BOOLEAN
  PROVE  Sound(Overtaken(e, w, leaves))
<1> DEFINE then == IF e.then = "route" THEN "store" ELSE e.then
           here == e.here /\ ~leaves  o == [e EXCEPT !.then = then, !.here = here]
<1>1. Overtaken(e, w, leaves) = e \/ Overtaken(e, w, leaves) = o
  BY DEF Overtaken, Sound, Exchange
<1>2. then \in Then /\ here \in BOOLEAN /\ e \in Exchange
  BY DEF Sound, Exchange, Then
<1> HIDE DEF then, here
<1>3. o \in Exchange /\ o.pc = e.pc /\ o.kind = e.kind /\ o.secret = e.secret
  BY <1>2, ZenonT(60) DEF Exchange, Then
<1> HIDE DEF o
<1>4. Sound(o)
  BY <1>3 DEF Sound
<1> QED
  BY <1>1, <1>4

LEMMA ArriveSound ==
  ASSUME ConsoleInv, NEW w \in Window, NEW v, NEW new \in WindowState, NEW call, Sound(call), NEW c \in Line,
         Arrive(w, v, new, call, c)
  PROVE  window' \in [Window -> WindowState] /\ SoundLine(line')
<1>1. window \in [Window -> WindowState] /\ \A x \in Line : Sound(line[x])
  BY DEF ConsoleInv, ConsoleTypeOK, SoundLine
<1>2. window' \in [Window -> WindowState]
  BY <1>1 DEF Arrive
<1> DEFINE leaves == new.page # v.page
<1>3. line' = [x \in Line |-> IF x = c THEN call ELSE Overtaken(line[x], w, leaves)]
  BY DEF Arrive
<1>4. leaves \in BOOLEAN
  OBVIOUS
<1> HIDE DEF leaves
<1>5. \A x \in Line : Sound(line'[x])
  BY <1>1, <1>3, <1>4, OvertakenSound
<1> QED
  BY <1>2, <1>3, <1>5 DEF SoundLine, Sound

LEMMA GoSound ==
  ASSUME ConsoleInv, NEW w \in Window, NEW v \in WindowState, NEW to \in Page, NEW tk \in Session \cup {0},
         NEW c \in Line, Go(w, v, to, tk, c)
  PROVE  window' \in [Window -> WindowState] /\ SoundLine(line')
BY RoutedType, FollowingSound, ArriveSound DEF Go

LEMMA OneSound ==
  ASSUME ConsoleInv, NEW c \in Line, NEW e, Sound(e), line' = [line EXCEPT ![c] = e]
  PROVE  SoundLine(line')
BY DEF ConsoleInv, SoundLine, Sound

LEMMA StaySound ==
  ASSUME ConsoleInv, NEW w \in Window, NEW v \in WindowState, NEW c \in Line, Stay(w, v, c)
  PROVE  window' \in [Window -> WindowState] /\ SoundLine(line')
<1>1. window \in [Window -> WindowState]
  BY DEF ConsoleInv, ConsoleTypeOK
<1> QED
  BY <1>1, NoExchangeSound, OneSound DEF Stay

(* A step of the browser leaves what the server keeps alone.               *)
LEMMA BrowserKeeps ==
  ASSUME ConsoleInv, UNCHANGED <<factors, admitted>>, scanned \subseteq scanned', scanned' \subseteq Secret,
         ticket' \in Session \cup {0}, window' \in [Window -> WindowState], clicks' \in 0..MaxClicks,
         SoundLine(line')
  PROVE  ConsoleInv'
<1>1. UNCHANGED <<bound, offered, generated, opened, live, signedIn>>
  BY DEF factors, admitted
<1>2. ConsoleTypeOK'
  BY <1>1 DEF ConsoleInv, ConsoleTypeOK, SoundLine
<1>3. NeverLockedOut'
  BY <1>1 DEF ConsoleInv, NeverLockedOut
<1>4. SoundLine(line)'
  BY DEF SoundLine, Sound
<1> QED
  BY <1>2, <1>3, <1>4 DEF ConsoleInv

LEMMA ClickType ==
  ASSUME ConsoleInv, Click
  PROVE  clicks' \in 0..MaxClicks
BY ConsoleAssumption DEF ConsoleInv, ConsoleTypeOK, Click

LEMMA PressKeeps ==
  ASSUME ConsoleInv, NEW w, NEW call, Sound(call), NEW c \in Line, Press(w, call, c)
  PROVE  ConsoleInv'
<1>1. SoundLine(line') /\ clicks' \in 0..MaxClicks
  BY OneSound, ClickType DEF Press
<1>2. UNCHANGED <<factors, admitted>> /\ UNCHANGED scanned /\ UNCHANGED ticket /\ UNCHANGED window
  BY DEF Press
<1> QED
  BY <1>1, <1>2, BrowserKeeps DEF ConsoleInv, ConsoleTypeOK

LEMMA ClickKeeps ==
  ASSUME ConsoleInv, NEW w \in Window, NEW c \in Line,
         \/ \E to \in Page \ {"blank"} : Load(w, to, c)
         \/ \E a \in Admin, code \in scanned \cup {0} : SubmitLogin(w, a, code, c)
         \/ \E code \in scanned : SubmitCode(w, code, c)
         \/ Regenerate(w, c) \/ ClickLogout(w, c)
  PROVE  ConsoleInv'
<1>1. /\ window \in [Window -> WindowState] /\ ticket \in Session \cup {0} /\ scanned \subseteq Secret
      /\ \A x \in Line : Sound(line[x])
  BY DEF ConsoleInv, ConsoleTypeOK, SoundLine
<1>2. "blank" \in Page /\ 0 \in Session \cup {0}
  BY DEF Page
<1>3. ASSUME NEW to \in Page, Load(w, to, c)
      PROVE  ConsoleInv'
  <2> DEFINE call == Following(w, Unloaded, to, ticket)
  <2>1. Unloaded \in WindowState
    BY DEF Unloaded, WindowState, Page
  <2>2. window' \in [Window -> WindowState]
    BY <1>1, <1>3, <2>1, RoutedType DEF Load
  <2>3. Sound(call)
    BY <1>1, <2>1, FollowingSound
  <2>4. ASSUME NEW x \in Line
        PROVE  Sound(line'[x])
    <3>1. line'[x] \in {call, line[x], NoExchange, [line[x] EXCEPT !.then = "drop"]}
      BY <1>3 DEF Load
    <3>2. Sound([line[x] EXCEPT !.then = "drop"])
      BY <1>1 DEF Sound, Exchange
    <3> HIDE DEF call
    <3> QED
      BY <1>1, <2>3, <3>1, <3>2, NoExchangeSound
  <2>5. SoundLine(line')
    BY <1>3, <2>4 DEF SoundLine, Sound, Load
  <2>6. clicks' \in 0..MaxClicks
    BY <1>3, ClickType DEF Load
  <2> QED
    BY <1>1, <1>3, <2>2, <2>5, <2>6, BrowserKeeps DEF Load
<1>4. ASSUME NEW a \in Admin, NEW code \in scanned \cup {0}, SubmitLogin(w, a, code, c)
      PROVE  ConsoleInv'
  <2> DEFINE e == Requesting(w, "login", "show", "blank", 0)  call == [e EXCEPT !.admin = a, !.secret = code]
  <2>1. e \in Exchange /\ e.pc = "sent" /\ e.kind = "login"
    BY <1>2, RequestingType DEF Kind, Then
  <2>2. Sound(call)
    <3> HIDE DEF e
    <3> QED
      BY <1>1, <2>1, ZenonT(60) DEF Sound, Exchange
  <2> QED
    BY <1>4, <2>2, PressKeeps DEF SubmitLogin
<1>5. ASSUME NEW code \in scanned, SubmitCode(w, code, c)
      PROVE  ConsoleInv'
  <2> DEFINE e == Requesting(w, "enable", "show", "blank", ticket)  call == [e EXCEPT !.secret = code]
  <2>1. e \in Exchange /\ e.pc = "sent" /\ e.kind = "enable"
    BY <1>1, <1>2, RequestingType DEF Kind, Then
  <2>2. Sound(call)
    <3> HIDE DEF e
    <3> QED
      BY <1>1, <2>1 DEF Sound, Exchange
  <2> QED
    BY <1>5, <2>2, PressKeeps DEF SubmitCode
<1>6. CASE Regenerate(w, c)
  <2>1. Sound(Requesting(w, "setup", "show", "blank", ticket))
    BY <1>1, <1>2, RequestingSound DEF Kind, Then
  <2> QED
    BY <1>6, <2>1, PressKeeps DEF Regenerate
<1>7. CASE ClickLogout(w, c)
  <2>1. Sound(Requesting(w, "logout", "show", "blank", ticket))
    BY <1>1, <1>2, RequestingSound DEF Kind, Then
  <2> QED
    BY <1>7, <2>1, PressKeeps DEF ClickLogout
<1> QED
  BY <1>3, <1>4, <1>5, <1>6, <1>7

LEMMA ScanKeeps ==
  ASSUME ConsoleInv, NEW w \in Window, Scan(w)
  PROVE  ConsoleInv'
<1>1. window[w].secret \in Secret
  BY DEF ConsoleInv, ConsoleTypeOK, WindowState, Scan
<1>2. UNCHANGED <<factors, admitted>> /\ UNCHANGED ticket /\ UNCHANGED window /\ UNCHANGED line /\ UNCHANGED clicks
  BY DEF Scan
<1>3. scanned \subseteq scanned' /\ scanned' \subseteq Secret
  BY <1>1 DEF Scan, ConsoleInv, ConsoleTypeOK
<1>4. SoundLine(line')
  BY <1>2 DEF ConsoleInv
<1> QED
  BY <1>2, <1>3, <1>4, BrowserKeeps DEF ConsoleInv, ConsoleTypeOK

LEMMA PageKeeps ==
  ASSUME ConsoleInv, NEW c \in Line,
         \/ OnDenied(c) \/ OnUnbound(c) \/ OnShown(c) \/ OnSignedIn(c) \/ OnSignedOut(c) \/ OnBound(c)
         \/ OnRouteProfile(c) \/ OnBoundProfile(c) \/ OnProfileFailed(c)
  PROVE  ConsoleInv'
<1> DEFINE e == line[c]  w == e.window  v == window[w]
<1>1. /\ ticket \in Session \cup {0} /\ scanned \subseteq Secret /\ clicks \in 0..MaxClicks
      /\ e \in Exchange /\ Sound(e) /\ w \in Window /\ v \in WindowState /\ e.token \in Session \cup {0}
      /\ e.to \in Page /\ window \in [Window -> WindowState]
  BY DEF ConsoleInv, ConsoleTypeOK, SoundLine, Exchange
<1>2. {"blank", "login", "bind", "home"} \subseteq Page /\ 0 \in Session \cup {0}
  BY DEF Page
<1>3. /\ WithProfile(v, e) \in WindowState /\ Cleared(v) \in WindowState
      /\ [v EXCEPT !.secret = e.secret] \in WindowState
      /\ \A x \in WindowState, p \in Page : At(x, p) \in WindowState
  BY <1>1 DEF WithProfile, Cleared, At, WindowState, Exchange
<1>4. ASSUME ticket' \in Session \cup {0}, window' \in [Window -> WindowState], SoundLine(line'), UNCHANGED backend
      PROVE  ConsoleInv'
  BY <1>1, <1>4, BrowserKeeps DEF backend
<1>5. ASSUME ticket' \in Session \cup {0}, NEW x \in WindowState, Stay(w, x, c), UNCHANGED backend
      PROVE  ConsoleInv'
  BY <1>1, <1>4, <1>5, StaySound
<1>6. ASSUME ticket' \in Session \cup {0}, NEW x \in WindowState, NEW to \in Page, NEW tk \in Session \cup {0},
             Go(w, x, to, tk, c), UNCHANGED backend
      PROVE  ConsoleInv'
  BY <1>1, <1>4, <1>6, GoSound
<1>7. CASE OnDenied(c)
  BY <1>1, <1>2, <1>5, <1>6, <1>7 DEF OnDenied, Redirect
<1>8. CASE OnUnbound(c)
  <2>1. UNCHANGED backend /\ ticket' = ticket
    BY <1>8 DEF OnUnbound
  <2> QED
    BY <1>1, <1>2, <1>5, <1>6, <1>8, <2>1 DEF OnUnbound, Redirect
<1>9. CASE OnShown(c)
  <2>1. UNCHANGED backend /\ ticket' = ticket
    BY <1>9 DEF OnShown
  <2>2. \E x \in WindowState : Stay(w, x, c)
    BY <1>1, <1>3, <1>9 DEF OnShown
  <2> QED
    BY <1>1, <1>5, <2>1, <2>2
<1>10. CASE OnSignedIn(c)
  <2> DEFINE to == IF e.totp THEN "home" ELSE "bind"
  <2>1. to \in Page /\ ticket' = e.token /\ Go(w, WithProfile(v, e), to, e.token, c) /\ UNCHANGED backend
    BY <1>2, <1>10 DEF OnSignedIn
  <2> HIDE DEF to
  <2> QED
    BY <1>1, <1>3, <1>6, <2>1
<1>11. CASE OnSignedOut(c)
  BY <1>1, <1>2, <1>3, <1>6, <1>11 DEF OnSignedOut
<1>12. CASE OnBound(c)
  <2> DEFINE then == IF e.kind = "setup" THEN "known" ELSE "enabled"
             r == Requesting(w, "profile", then, "blank", ticket)  q == [r EXCEPT !.here = e.here]
  <2>1. r \in Exchange /\ r.kind = "profile" /\ r.pc = "sent"
    <3>1. then \in Then /\ "profile" \in Kind
      BY DEF Then, Kind
    <3> HIDE DEF then
    <3> QED
      BY <1>1, <1>2, <3>1, RequestingType
  <2>2. e.here \in BOOLEAN
    BY <1>1 DEF Exchange
  <2>3. Sound(q)
    <3> HIDE DEF r
    <3> QED
      BY <2>1, <2>2 DEF Sound, Exchange
  <2>4. line' = [line EXCEPT ![c] = q] /\ UNCHANGED backend /\ UNCHANGED ticket /\ UNCHANGED window
    BY <1>12 DEF OnBound
  <2>5. SoundLine(line')
    BY <2>3, <2>4, OneSound
  <2> QED
    BY <1>1, <1>4, <2>4, <2>5
<1>13. CASE OnRouteProfile(c)
  <2> DEFINE x == WithProfile(v, e)  new == At(x, e.to)
  <2>1. UNCHANGED backend /\ ticket' = ticket /\ x \in WindowState /\ new \in WindowState
    BY <1>1, <1>3, <1>13 DEF OnRouteProfile
  <2>2. CASE Stay(w, x, c)
    BY <1>1, <1>5, <2>1, <2>2
  <2>3. CASE Arrive(w, x, new, Mounting(w, v.page, new.page, ticket), c)
    <3>1. Sound(Mounting(w, v.page, new.page, ticket))
      BY <1>1, MountingSound
    <3>2. window' \in [Window -> WindowState] /\ SoundLine(line')
      BY <1>1, <2>1, <2>3, <3>1, ArriveSound
    <3> QED
      BY <1>1, <1>4, <2>1, <3>2
  <2>4. CASE Arrive(w, v, new, Mounting(w, v.page, new.page, ticket), c)
    <3>1. Sound(Mounting(w, v.page, new.page, ticket))
      BY <1>1, MountingSound
    <3>2. window' \in [Window -> WindowState] /\ SoundLine(line')
      BY <1>1, <2>1, <2>4, <3>1, ArriveSound
    <3> QED
      BY <1>1, <1>4, <2>1, <3>2
  <2>5. CASE Go(w, x, "bind", ticket, c)
    BY <1>1, <1>2, <1>6, <2>1, <2>5
  <2>6. x.page = v.page
    BY <1>1 DEF WithProfile, WindowState
  <2> QED
    BY <1>13, <2>2, <2>3, <2>4, <2>5, <2>6 DEF OnRouteProfile
<1>14. CASE OnBoundProfile(c)
  <2>1. UNCHANGED backend /\ ticket' = ticket
    BY <1>14 DEF OnBoundProfile
  <2>2. Go(w, v, "home", ticket, c) \/ Go(w, WithProfile(v, e), "home", ticket, c)
    BY <1>14 DEF OnBoundProfile
  <2> QED
    BY <1>1, <1>2, <1>3, <1>6, <2>1, <2>2
<1>15. CASE OnProfileFailed(c)
  <2>1. UNCHANGED backend /\ ticket' = 0
    BY <1>15 DEF OnProfileFailed
  <2>2. Stay(w, Cleared(v), c) \/ Go(w, Cleared(v), "login", 0, c)
    BY <1>15 DEF OnProfileFailed
  <2> QED
    BY <1>2, <1>3, <1>5, <1>6, <2>1, <2>2
<1> QED
  BY <1>7, <1>8, <1>9, <1>10, <1>11, <1>12, <1>13, <1>14, <1>15

(* A step of the server.                                                   *)
LEMMA ServerKeeps ==
  ASSUME ConsoleInv, UNCHANGED scanned, UNCHANGED ticket, UNCHANGED window, clicks' \in 0..MaxClicks,
         SoundLine(line'), bound' \in [Admin -> Secret \cup {0}], offered' \in [Admin -> Secret \cup {0}],
         generated' \in 0..MaxSecrets, opened' \in 0..MaxSessions, live' \subseteq Session,
         signedIn' \in [Session -> Admin \cup {Nobody}],
         \A a \in Admin : bound'[a] \in {bound[a], 0} \cup scanned
  PROVE  ConsoleInv'
<1>1. ConsoleTypeOK'
  BY DEF ConsoleInv, ConsoleTypeOK, SoundLine
<1>2. NeverLockedOut'
  BY DEF ConsoleInv, NeverLockedOut
<1>3. SoundLine(line)'
  BY DEF SoundLine, Sound
<1> QED
  BY <1>1, <1>2, <1>3 DEF ConsoleInv

LEMMA HandlerKeeps ==
  ASSUME ConsoleInv, NEW c \in Line,
         \/ CheckAccess(c) \/ GetProfile(c) \/ RevokeSession(c)
         \/ FindUnbound(c) \/ OfferSecret(c) \/ VerifyCode(c) \/ StoreSecret(c) \/ DropOffer(c)
         \/ CheckLogin(c) \/ CreateSession(c) \/ FailExchange(c)
  PROVE  ConsoleInv'
<1> DEFINE e == line[c]
<1>1. /\ Sound(e) /\ e \in Exchange /\ clicks \in 0..MaxClicks /\ bound \in [Admin -> Secret \cup {0}]
      /\ offered \in [Admin -> Secret \cup {0}] /\ generated \in 0..MaxSecrets /\ opened \in 0..MaxSessions
      /\ live \subseteq Session /\ signedIn \in [Session -> Admin \cup {Nobody}] /\ scanned \subseteq Secret
  BY DEF ConsoleInv, ConsoleTypeOK, SoundLine
<1>2. UNCHANGED scanned /\ UNCHANGED ticket /\ UNCHANGED window /\ UNCHANGED clicks
  BY DEF CheckAccess, GetProfile, RevokeSession, FindUnbound, OfferSecret, VerifyCode, StoreSecret, DropOffer,
         CheckLogin, CreateSession, FailExchange, browser
<1>p. e.pc # "free"
  BY DEF CheckAccess, GetProfile, RevokeSession, FindUnbound, OfferSecret, VerifyCode, StoreSecret, DropOffer,
         CheckLogin, CreateSession, FailExchange
<1>3. ASSUME NEW q, Sound(q), q.pc # "free", Respond(c, q)
      PROVE  SoundLine(line')
  <2> DEFINE r == IF q.then = "drop" THEN NoExchange ELSE [q EXCEPT !.pc = "answered"]
  <2> DEFINE a == [q EXCEPT !.pc = "answered"]
  <2>a. a \in Exchange /\ a.pc = "answered" /\ a.kind = q.kind /\ a.secret = q.secret
    BY <1>3 DEF Sound, Exchange
  <2>b. Sound(a)
    <3> HIDE DEF a
    <3>1. Sound(a)
      BY <1>3, <2>a DEF Sound
    <3> QED
      BY <3>1 DEF a
  <2>1. Sound(r)
    BY <2>b, NoExchangeSound
  <2>2. line' = [line EXCEPT ![c] = r]
    BY <1>3 DEF Respond
  <2> HIDE DEF r
  <2> QED
    BY <2>1, <2>2, OneSound
<1>4. ASSUME NEW answer \in {"none", "ok", "refused", "unbound", "already", "failed"}
      PROVE  Sound([e EXCEPT !.answer = answer]) /\ [e EXCEPT !.answer = answer].pc # "free"
  BY <1>1, <1>p DEF Sound, Exchange
<1>5. ASSUME NEW answer \in {"none", "ok", "refused", "unbound", "already", "failed"}, RespondWith(c, answer)
      PROVE  SoundLine(line')
  BY <1>3, <1>4, <1>5 DEF RespondWith
<1>6. ASSUME NEW pc \in {"found", "checked", "verified", "stored"}, Progress(c, pc),
             pc = "verified" => e.kind = "enable", e.pc # "free"
      PROVE  SoundLine(line')
  <2>1. Sound([e EXCEPT !.pc = pc])
    BY <1>1, <1>6 DEF Sound, Exchange
  <2>2. line' = [line EXCEPT ![c] = [e EXCEPT !.pc = pc]]
    BY <1>6 DEF Progress
  <2> QED
    BY <2>1, <2>2, OneSound
<1>7. CASE CheckAccess(c)
  <2>1. UNCHANGED <<factors, admitted>>
    BY <1>7 DEF CheckAccess
  <2>2. SoundLine(line')
    <3>1. CASE \E answer \in {"refused", "unbound", "ok"} : RespondWith(c, answer)
      BY <1>5, <3>1
    <3>2. CASE e.token \in live /\ line' = [line EXCEPT ![c].pc = "found", ![c].admin = signedIn[e.token]]
      <4> DEFINE q == [e EXCEPT !.pc = "found", !.admin = signedIn[e.token]]
      <4>1. signedIn[e.token] \in Admin \cup {Nobody} /\ e.pc = "sent"
        BY <1>1, <1>7, <3>2 DEF CheckAccess
      <4>2. line' = [line EXCEPT ![c] = q]
        BY <3>2
      <4>3. q \in Exchange /\ q.pc = "found" /\ q.kind = e.kind /\ q.secret = e.secret
        BY <1>1, <4>1 DEF Exchange
      <4> HIDE DEF q
      <4>4. Sound(q)
        BY <1>1, <4>1, <4>3 DEF Sound
      <4> QED
        BY <4>2, <4>4, OneSound
    <3> QED
      BY <1>7, <3>1, <3>2 DEF CheckAccess
  <2> QED
    BY <1>1, <1>2, <2>1, <2>2, ServerKeeps DEF factors, admitted
<1>8. CASE GetProfile(c)
  <2> DEFINE b == bound[e.admin] # 0  q == [e EXCEPT !.totp = b, !.answer = "ok"]
  <2>1. UNCHANGED <<factors, admitted>> /\ Respond(c, q)
    BY <1>8 DEF GetProfile
  <2>2. Sound(q) /\ q.pc # "free"
    <3>1. b \in BOOLEAN
      OBVIOUS
    <3> HIDE DEF b
    <3> DEFINE d == [e EXCEPT !.totp = b]
    <3>2. d \in Exchange
      BY <1>1, <3>1, AmendedType
    <3>3. q = [d EXCEPT !.answer = "ok"]
      OBVIOUS
    <3>4. q.pc = e.pc /\ q.kind = e.kind /\ q.secret = e.secret
      BY <1>1 DEF Exchange
    <3> HIDE DEF d, q
    <3>5. q \in Exchange
      BY <3>2, <3>3, AmendedType DEF Outcome
    <3>6. Sound(q) /\ q.pc # "free"
      BY <1>1, <1>p, <3>4, <3>5 DEF Sound
    <3> QED
      BY <3>6 DEF q, b
  <2>3. SoundLine(line')
    BY <1>3, <2>1, <2>2
  <2> QED
    BY <1>1, <1>2, <2>1, <2>3, ServerKeeps DEF factors, admitted
<1>9. CASE RevokeSession(c)
  <2>1. UNCHANGED factors /\ UNCHANGED opened /\ UNCHANGED signedIn /\ live' \subseteq live /\ RespondWith(c, "ok")
    BY <1>9 DEF RevokeSession
  <2>2. SoundLine(line')
    BY <1>5, <2>1
  <2> QED
    BY <1>1, <1>2, <2>1, <2>2, ServerKeeps DEF factors
<1>10. CASE FindUnbound(c)
  <2>1. UNCHANGED <<factors, admitted>> /\ (RespondWith(c, "already") \/ Progress(c, "checked")) /\ e.pc = "found"
    BY <1>10 DEF FindUnbound
  <2>2. SoundLine(line')
    BY <1>5, <1>6, <2>1
  <2> QED
    BY <1>1, <1>2, <2>1, <2>2, ServerKeeps DEF factors, admitted
<1>11. CASE OfferSecret(c)
  <2> DEFINE n == generated + 1  q == [e EXCEPT !.secret = n, !.answer = "ok"]
  <2>1. n \in Secret /\ n \in 0..MaxSecrets
    BY <1>1, <1>11, ConsoleAssumption DEF OfferSecret, Secret
  <2>2. /\ UNCHANGED bound /\ UNCHANGED admitted
        /\ generated' = n /\ offered' = [offered EXCEPT ![e.admin] = n]
        /\ Respond(c, q) /\ e.kind = "setup" /\ e.pc = "checked"
    BY <1>11 DEF OfferSecret
  <2> HIDE DEF n
  <2>3. Sound(q) /\ q.pc # "free"
    BY <1>1, <2>1, <2>2, ZenonT(60) DEF Sound, Exchange
  <2>4. SoundLine(line')
    BY <1>3, <2>2, <2>3
  <2> QED
    BY <1>1, <1>2, <2>1, <2>2, <2>4, ServerKeeps DEF admitted
<1>12. CASE VerifyCode(c)
  <2>1. UNCHANGED <<factors, admitted>> /\ Progress(c, "verified") /\ e.pc = "checked" /\ e.kind = "enable"
    BY <1>12 DEF VerifyCode
  <2>2. SoundLine(line')
    BY <1>6, <2>1
  <2> QED
    BY <1>1, <1>2, <2>1, <2>2, ServerKeeps DEF factors, admitted
<1>13. CASE StoreSecret(c)
  <2>1. /\ UNCHANGED offered /\ UNCHANGED generated /\ UNCHANGED admitted /\ Progress(c, "stored")
        /\ e.pc = "verified" /\ bound' = [bound EXCEPT ![e.admin] = e.secret]
    BY <1>13 DEF StoreSecret
  <2>2. e.secret \in scanned /\ e.secret \in Secret
    BY <1>1, <2>1 DEF Sound
  <2>3. SoundLine(line')
    BY <1>6, <2>1
  <2> QED
    BY <1>1, <1>2, <2>1, <2>2, <2>3, ServerKeeps DEF admitted
<1>14. CASE DropOffer(c)
  <2>1. /\ UNCHANGED bound /\ UNCHANGED generated /\ UNCHANGED admitted /\ RespondWith(c, "ok")
        /\ offered' = [offered EXCEPT ![e.admin] = 0]
    BY <1>14 DEF DropOffer
  <2>2. SoundLine(line')
    BY <1>5, <2>1
  <2> QED
    BY <1>1, <1>2, <2>1, <2>2, ServerKeeps DEF admitted
<1>15. CASE CheckLogin(c)
  <2> DEFINE b == bound[e.admin] # 0  q == [e EXCEPT !.pc = "checked", !.totp = b]
  <2>1. /\ UNCHANGED <<factors, admitted>> /\ e.pc = "sent" /\ e.kind = "login"
        /\ line' = [line EXCEPT ![c] = q]
    BY <1>15 DEF CheckLogin
  <2>2. Sound(q)
    <3>1. b \in BOOLEAN
      OBVIOUS
    <3> HIDE DEF b
    <3>2. q \in Exchange /\ q.pc = "checked" /\ q.kind = e.kind /\ q.secret = e.secret
      BY <1>1, <3>1 DEF Exchange
    <3> HIDE DEF q
    <3>3. Sound(q)
      BY <1>1, <2>1, <3>2 DEF Sound
    <3> QED
      BY <3>3 DEF q, b
  <2>3. SoundLine(line')
    BY <2>1, <2>2, OneSound
  <2> QED
    BY <1>1, <1>2, <2>1, <2>3, ServerKeeps DEF factors, admitted
<1>16. CASE CreateSession(c)
  <2> DEFINE n == opened + 1  q == [e EXCEPT !.token = n, !.answer = "ok"]
  <2>1. n \in Session /\ n \in 0..MaxSessions
    BY <1>1, <1>16, ConsoleAssumption DEF CreateSession, Session
  <2>2. /\ UNCHANGED factors /\ opened' = n
        /\ live' = live \cup {n} /\ signedIn' = [signedIn EXCEPT ![n] = e.admin]
        /\ Respond(c, q)
    BY <1>16 DEF CreateSession
  <2> HIDE DEF n
  <2>3. Sound(q) /\ q.pc # "free"
    <3> DEFINE d == [e EXCEPT !.token = n]
    <3>2. d \in Exchange
      BY <1>1, <2>1, AmendedType
    <3>3. q = [d EXCEPT !.answer = "ok"]
      OBVIOUS
    <3>4. q.pc = e.pc /\ q.kind = e.kind /\ q.secret = e.secret
      BY <1>1 DEF Exchange
    <3> HIDE DEF d, q
    <3>5. q \in Exchange
      BY <3>2, <3>3, AmendedType DEF Outcome
    <3>6. Sound(q) /\ q.pc # "free"
      BY <1>1, <1>p, <3>4, <3>5 DEF Sound
    <3> QED
      BY <3>6 DEF q
  <2>4. SoundLine(line') /\ e.admin \in Admin \cup {Nobody}
    BY <1>1, <1>3, <2>2, <2>3 DEF Exchange
  <2> QED
    BY <1>1, <1>2, <2>1, <2>2, <2>4, ServerKeeps DEF factors
<1>17. CASE FailExchange(c)
  <2> DEFINE q == [e EXCEPT !.answer = "failed", !.totp = FALSE]
  <2>1. UNCHANGED <<factors, admitted>> /\ Respond(c, q)
    BY <1>17 DEF FailExchange
  <2>2. Sound(q) /\ q.pc # "free"
    <3> DEFINE d == [e EXCEPT !.answer = "failed"]
    <3>2. d \in Exchange
      BY <1>1, AmendedType DEF Outcome
    <3>3. q = [d EXCEPT !.totp = FALSE]
      OBVIOUS
    <3>4. q.pc = e.pc /\ q.kind = e.kind /\ q.secret = e.secret
      BY <1>1 DEF Exchange
    <3> HIDE DEF d, q
    <3>5. q \in Exchange
      BY <3>2, <3>3, AmendedType
    <3>6. Sound(q) /\ q.pc # "free"
      BY <1>1, <1>p, <3>4, <3>5 DEF Sound
    <3> QED
      BY <3>6 DEF q
  <2>3. SoundLine(line')
    BY <1>3, <2>1, <2>2
  <2> QED
    BY <1>1, <1>2, <2>1, <2>3, ServerKeeps DEF factors, admitted
<1> QED
  BY <1>7, <1>8, <1>9, <1>10, <1>11, <1>12, <1>13, <1>14, <1>15, <1>16, <1>17

LEMMA AccountKeeps ==
  ASSUME ConsoleInv,
         (\E a \in Admin : Reset(a) \/ ExpireOffer(a)) \/ \E s \in Session : EndSession(s)
  PROVE  ConsoleInv'
<1>1. /\ clicks \in 0..MaxClicks /\ bound \in [Admin -> Secret \cup {0}]
      /\ offered \in [Admin -> Secret \cup {0}] /\ generated \in 0..MaxSecrets /\ opened \in 0..MaxSessions
      /\ live \subseteq Session /\ signedIn \in [Session -> Admin \cup {Nobody}] /\ SoundLine(line)
  BY DEF ConsoleInv, ConsoleTypeOK
<1>2. UNCHANGED scanned /\ UNCHANGED ticket /\ UNCHANGED window /\ UNCHANGED line /\ clicks' \in 0..MaxClicks
  BY <1>1, ClickType DEF Reset, ExpireOffer, EndSession, browser
<1>3. SoundLine(line')
  BY <1>1, <1>2
<1>4. ASSUME NEW a \in Admin, Reset(a)
      PROVE  ConsoleInv'
  BY <1>1, <1>2, <1>3, <1>4, ServerKeeps DEF Reset, admitted
<1>5. ASSUME NEW a \in Admin, ExpireOffer(a)
      PROVE  ConsoleInv'
  BY <1>1, <1>2, <1>3, <1>5, ServerKeeps DEF ExpireOffer, admitted
<1>6. ASSUME NEW s \in Session, EndSession(s)
      PROVE  ConsoleInv'
  BY <1>1, <1>2, <1>3, <1>6, ServerKeeps DEF EndSession, factors
<1> QED
  BY <1>4, <1>5, <1>6

LEMMA NextConsole == ConsoleInv /\ [ConsoleNext]_console => ConsoleInv'
<1> SUFFICES ASSUME ConsoleInv, [ConsoleNext]_console PROVE ConsoleInv'
  OBVIOUS
<1>1. CASE UNCHANGED console
  BY <1>1 DEF console, ConsoleInv, ConsoleTypeOK, NeverLockedOut, SoundLine, Sound
<1>2. CASE ConsoleNext
  BY <1>2, ClickKeeps, ScanKeeps, PageKeeps, HandlerKeeps, AccountKeeps DEF ConsoleNext
<1> QED
  BY <1>1, <1>2

LEMMA InitConsole == ConsoleInit => ConsoleInv
<1> SUFFICES ASSUME ConsoleInit PROVE ConsoleInv
  OBVIOUS
<1>1. SoundLine(line)
  BY NoExchangeSound DEF ConsoleInit, SoundLine, Sound
<1>2. window \in [Window -> WindowState]
  BY DEF ConsoleInit, Unloaded, WindowState, Page
<1>3. opened \in 0..MaxSessions /\ generated \in 0..MaxSecrets /\ clicks \in 0..MaxClicks
  BY ConsoleAssumption DEF ConsoleInit
<1>4. /\ bound \in [Admin -> Secret \cup {0}] /\ offered \in [Admin -> Secret \cup {0}]
      /\ live \subseteq Session
      /\ signedIn \in [Session -> Admin \cup {Nobody}] /\ scanned \subseteq Secret
      /\ ticket \in Session \cup {0}
  BY DEF ConsoleInit
<1>5. NeverLockedOut
  BY DEF ConsoleInit, NeverLockedOut
<1> QED
  BY <1>1, <1>2, <1>3, <1>4, <1>5 DEF ConsoleInv, ConsoleTypeOK, SoundLine

(* ConsoleLogin's variables keep their types: every token and every secret *)
(* on its way was created by the server.                                   *)
THEOREM ConsoleTypesHold == ConsoleSpec => []ConsoleTypeOK
<1> QED
  BY InitConsole, NextConsole, PTL DEF ConsoleSpec, ConsoleInv

(* admin-auth.service.ts:188: the secret an account asks codes of is one   *)
(* an authenticator has, whatever secrets are offered, by this tab or by   *)
(* another, while a code is verified, and whatever answers are lost.       *)
THEOREM NeverLockedOutHolds == ConsoleSpec => []NeverLockedOut
<1> QED
  BY InitConsole, NextConsole, PTL DEF ConsoleSpec, ConsoleInv
=============================================================================
