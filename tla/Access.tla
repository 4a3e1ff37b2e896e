------------------------------- MODULE Access -------------------------------
(***************************************************************************)
(* The login state of one device: the mini-program's requests and login    *)
(* flows (utils/request.ts, utils/auth.ts), the server's AuthGuard and     *)
(* AuthService, and the device's sessions in Redis.                        *)
(*                                                                         *)
(* A flow is one chain of awaits of the mini-program.  Its callbacks run   *)
(* one at a time, so what it does between two awaits is one step; between  *)
(* them other flows, the user and the server take theirs.  A request that  *)
(* its client gave up on takes effect before that or not at all.           *)
(*                                                                         *)
(* Tokens are numbered in the order they are signed.  A login signs a      *)
(* token of a new session, named by that number; a refresh signs another   *)
(* token of the same session.                                              *)
(***************************************************************************)
EXTENDS Naturals

CONSTANTS
  Flow,       \* chains of awaits the mini-program may have under way
  MaxTokens   \* bound: tokens signed; logins past it fail, as past the rate limit

ASSUME AccessAssumption == MaxTokens \in Nat \ {0}

VARIABLES
  sessions,   \* session records in Redis
  minted,     \* tokens signed so far
  sidOf,      \* the session each token names
  aged,       \* tokens past their expiry
  redisUp,    \* Redis answers
  consent,    \* the privacy policy is agreed to, in the device's storage
  token,      \* the token in the device's storage, NoToken if none
  running,    \* the mini-program is running
  page,       \* the login page, if one is open
  willing,    \* history: the user's last word on the policy in force was yes
  flow        \* what each flow is at

vars == <<sessions, minted, sidOf, aged, redisUp, consent, token, running, page, willing, flow>>
server == <<sessions, minted, sidOf>>
device == <<consent, token, running, page, willing>>
said == <<consent, page, willing>>
environment == <<aged, redisUp>>

NoToken == 0
Token == 1..MaxTokens

FlowState ==
  [kind : {"none", "login", "request", "refresh", "logout"},
   pc : {"idle", "sent", "found", "admitted", "answered", "loggingIn", "loginAnswered"},
   retried : BOOLEAN,                 \* the request is the replay
   held : Token \cup {NoToken},       \* the token stored when logout was asked for
   carried : Token \cup {NoToken},    \* the token in the header of the call under way
   fresh : Token \cup {NoToken},      \* the token the server handed out last
   answer : {"none", "ok", "refused", "failed"}]

Idle == [kind |-> "none", pc |-> "idle", retried |-> FALSE, held |-> NoToken,
         carried |-> NoToken, fresh |-> NoToken, answer |-> "none"]

(* The login page has a flag of its own, consented, set when it opens and  *)
(* when the user agrees on it: it is asking for the agreement or has it.   *)
(* withdrawn: it has it, but the user refused the policy since.  Of login  *)
(* pages on top of each other one is followed.                             *)
LoginPage == {"closed", "asking", "agreed", "withdrawn"}

(* get, post, put, del: the header takes the token stored at the send.     *)
Sending(kind) ==
  [Idle EXCEPT !.kind = kind, !.pc = "sent", !.carried = token,
               !.held = IF kind = "logout" THEN token ELSE NoToken]

(* performLogin: wx.login and POST auth/login, which carries no token.     *)
LoggingIn == [Idle EXCEPT !.kind = "login", !.pc = "loggingIn"]

(* Mutant: a silent login does not ask for the agreement.                  *)
CanLoginAlways == TRUE

(* canLogin                                                                *)
CanLogin == consent

Init ==
  /\ sessions = {} /\ minted = 0 /\ sidOf = [t \in Token |-> NoToken]
  /\ aged = {} /\ redisUp = TRUE
  /\ consent = FALSE /\ token = NoToken /\ running = TRUE
  /\ page = "closed" /\ willing = FALSE
  /\ flow = [f \in Flow |-> Idle]

-----------------------------------------------------------------------------
(* What the user does.                                                     *)

Free(f) == running /\ flow[f] = Idle

(* A page calls the API.                                                   *)
Call(f) ==
  /\ Free(f)
  /\ flow' = [flow EXCEPT ![f] = Sending("request")]
  /\ UNCHANGED <<server, environment, device>>

(* ensureLogin; where its silent login fails, OpenLoginPage follows.       *)
EnsureLogin(f) ==
  /\ Free(f) /\ CanLogin /\ token = NoToken
  /\ flow' = [flow EXCEPT ![f] = LoggingIn]
  /\ UNCHANGED <<server, environment, device>>

(* gotoLogin: from the home page, agreed or not, and from ensureLogin, at  *)
(* whatever time its login failed.                                         *)
OpenLoginPage ==
  /\ running /\ page = "closed"
  /\ page' = IF consent THEN "agreed" ELSE "asking"
  /\ UNCHANGED <<server, environment, consent, token, running, willing, flow>>

(* handleAgree: the flag is set and the login starts; nothing is stored.   *)
LoginPageAgree(f) ==
  /\ Free(f) /\ page = "asking"
  /\ page' = "agreed" /\ willing' = TRUE
  /\ flow' = [flow EXCEPT ![f] = LoggingIn]
  /\ UNCHANGED <<server, environment, consent, token, running>>

(* handleLogin and handleRetry ask for the flag, not for canLogin.         *)
LoginPageLogin(f) ==
  /\ Free(f) /\ page \in {"agreed", "withdrawn"}
  /\ flow' = [flow EXCEPT ![f] = LoggingIn]
  /\ UNCHANGED <<server, environment, device>>

(* Going back, backAfterLogin, or a redirect of another page.              *)
LeaveLoginPage ==
  /\ running /\ page # "closed" /\ page' = "closed"
  /\ UNCHANGED <<server, environment, consent, token, running, willing, flow>>

Logout(f) ==
  /\ Free(f)
  /\ flow' = [flow EXCEPT ![f] = Sending("logout")]
  /\ UNCHANGED <<server, environment, device>>

AcceptPrivacyPolicy(f) ==
  /\ Free(f)
  /\ consent' = TRUE /\ willing' = TRUE
  /\ page' = IF page = "withdrawn" THEN "agreed" ELSE page
  /\ flow' = [flow EXCEPT ![f] = IF token = NoToken THEN LoggingIn ELSE Sending("request")]
  /\ UNCHANGED <<server, environment, token, running>>

(* On the home page or in the dialog of the safety page, over which a      *)
(* login page may open.  Nothing that is under way is stopped.             *)
RefusePrivacyPolicy ==
  /\ running
  /\ consent' = FALSE /\ token' = NoToken /\ willing' = FALSE
  /\ page' = IF page = "agreed" THEN "withdrawn" ELSE page
  /\ UNCHANGED <<server, environment, running, flow>>

(* The process is killed: storage stays, memory and answers are lost.  The *)
(* next start may be of a version with another policy (isAgreed).          *)
Quit ==
  /\ running /\ running' = FALSE
  /\ page' = "closed"
  /\ flow' = [f \in Flow |-> Idle]
  /\ UNCHANGED <<consent, willing>> \/ (consent' = FALSE /\ willing' = FALSE)
  /\ UNCHANGED <<server, environment, token>>

(* onLaunch and bootstrapAuth.                                             *)
Launch(f) ==
  /\ ~running /\ running' = TRUE
  /\ flow' = [flow EXCEPT ![f] =
                IF ~CanLogin THEN Idle ELSE IF token = NoToken THEN LoggingIn ELSE Sending("refresh")]
  /\ UNCHANGED <<server, environment, said, token>>

-----------------------------------------------------------------------------
(* What the server does with a request.                                    *)

Answered(f, answer) ==
  [flow[f] EXCEPT !.pc = "answered", !.answer = answer, !.carried = NoToken]
Answer(f, answer) == flow' = [flow EXCEPT ![f] = Answered(f, answer)]
Move(f, pc) == flow' = [flow EXCEPT ![f].pc = pc]

Signed(t) == t # NoToken /\ t \notin aged
Accepted(t) == Signed(t) /\ sidOf[t] \in sessions

(* canActivate up to validate's read.  Without Redis a signed token will   *)
(* do.                                                                     *)
ReadSession(f) ==
  LET t == flow[f].carried IN
  /\ flow[f].pc = "sent"
  /\ IF ~Signed(t) THEN Answer(f, "refused")
     ELSE IF ~redisUp THEN Move(f, "admitted")
     ELSE IF sidOf[t] \in sessions THEN Move(f, "found")
     ELSE Answer(f, "refused")
  /\ UNCHANGED <<server, environment, device>>

(* Mutant: the renewal writes the record back with a new TTL.              *)
RenewedByRewriting(sid) == sessions \cup {sid}

(* validate's expire: nothing happens to a record that is gone.            *)
Renewed(sid) == sessions

RenewSession(f) ==
  /\ flow[f].pc = "found"
  /\ Move(f, "admitted")
  /\ sessions' = Renewed(sidOf[flow[f].carried])
  /\ UNCHANGED <<minted, sidOf, environment, device>>

HandleCall(f) ==
  /\ flow[f].pc = "admitted" /\ flow[f].kind = "request"
  /\ Answer(f, "ok")
  /\ UNCHANGED <<server, environment, device>>

(* Mutant: del swallows the errors of Redis, as setIfAbsent does.          *)
HandleLogoutSwallowing(f) ==
  /\ flow[f].pc = "admitted" /\ flow[f].kind = "logout"
  /\ Answer(f, "ok")
  /\ sessions' = IF redisUp THEN sessions \ {sidOf[flow[f].carried]} ELSE sessions
  /\ UNCHANGED <<minted, sidOf, environment, device>>

(* logout; without Redis del throws (FailCall).                            *)
HandleLogout(f) ==
  /\ flow[f].pc = "admitted" /\ flow[f].kind = "logout"
  /\ redisUp
  /\ Answer(f, "ok")
  /\ sessions' = sessions \ {sidOf[flow[f].carried]}
  /\ UNCHANGED <<minted, sidOf, environment, device>>

(* refresh signs a token of the same session, live or not by now.          *)
HandleRefresh(f) ==
  /\ flow[f].pc = "admitted" /\ flow[f].kind = "refresh"
  /\ minted < MaxTokens
  /\ minted' = minted + 1
  /\ sidOf' = [sidOf EXCEPT ![minted'] = sidOf[flow[f].carried]]
  /\ flow' = [flow EXCEPT ![f] = [Answered(f, "ok") EXCEPT !.fresh = minted']]
  /\ UNCHANGED <<sessions, environment, device>>

(* login: a new session, then its token.                                   *)
HandleLogin(f) ==
  /\ flow[f].pc = "loggingIn"
  /\ redisUp /\ minted < MaxTokens
  /\ minted' = minted + 1
  /\ sidOf' = [sidOf EXCEPT ![minted'] = minted']
  /\ sessions' = sessions \cup {minted'}
  /\ flow' = [flow EXCEPT ![f].pc = "loginAnswered", ![f].fresh = minted']
  /\ UNCHANGED <<environment, device>>

(* The handler throws, or the answer is lost.  A request that never        *)
(* arrives leaves the same behind.                                         *)
FailCall(f) ==
  /\ flow[f].pc \in {"admitted", "answered"} /\ flow[f].answer # "failed"
  /\ Answer(f, "failed")
  /\ UNCHANGED <<server, environment, device>>

FailLogin(f) ==
  /\ \/ flow[f].pc = "loggingIn"
     \/ flow[f].pc = "loginAnswered" /\ flow[f].fresh # NoToken
  /\ flow' = [flow EXCEPT ![f].pc = "loginAnswered", ![f].fresh = NoToken]
  /\ UNCHANGED <<server, environment, device>>

-----------------------------------------------------------------------------
(* What the mini-program does with an answer.                              *)

(* The flow ends without what it asked for, leaving tok stored:            *)
(* a caller's error, logout's finally, bootstrapAuth's catch.              *)
Abandon(f, tok) ==
  CASE flow[f].kind \in {"login", "request"} ->
         token' = tok /\ flow' = [flow EXCEPT ![f] = Idle]
    [] flow[f].kind = "logout" ->
         token' = NoToken /\ flow' = [flow EXCEPT ![f] = Idle]
    [] flow[f].kind = "refresh" ->
         /\ token' = NoToken
         /\ flow' = [flow EXCEPT ![f] = IF CanLogin THEN LoggingIn ELSE Idle]

OnOk(f) ==
  /\ flow[f].pc = "answered" /\ flow[f].answer = "ok"
  /\ flow' = [flow EXCEPT ![f] = Idle]
  /\ CASE flow[f].kind = "request" -> UNCHANGED token
       [] flow[f].kind = "refresh" -> token' = flow[f].fresh
       [] flow[f].kind = "logout" -> token' = NoToken
  /\ UNCHANGED <<server, environment, said, running>>

OnFailed(f) ==
  /\ flow[f].pc = "answered" /\ flow[f].answer = "failed"
  /\ Abandon(f, token)
  /\ UNCHANGED <<server, environment, said, running>>

(* 401: the stored token goes, whichever it is by now; then the handler of *)
(* registerUnauthorizedHandler logs in silently, once.                     *)
OnRefused(f) ==
  /\ flow[f].pc = "answered" /\ flow[f].answer = "refused"
  /\ IF ~flow[f].retried /\ CanLogin THEN token' = NoToken /\ Move(f, "loggingIn")
     ELSE Abandon(f, NoToken)
  /\ UNCHANGED <<server, environment, said, running>>

(* Mutant: the replay sends the header built for the first attempt.        *)
ReplayWithOldHeader(f) ==
  [flow[f] EXCEPT !.pc = "sent", !.retried = TRUE, !.answer = "none", !.carried = flow[f].held]

(* send(options, true): its header takes the token just stored.            *)
Replay(f) ==
  [flow[f] EXCEPT !.pc = "sent", !.retried = TRUE, !.answer = "none", !.carried = flow[f].fresh]

OnLogin(f) ==
  /\ flow[f].pc = "loginAnswered" /\ flow[f].fresh # NoToken
  /\ token' = flow[f].fresh
  /\ flow' = [flow EXCEPT ![f] = IF flow[f].kind = "login" THEN Idle ELSE Replay(f)]
  /\ UNCHANGED <<server, environment, said, running>>

OnLoginFailed(f) ==
  /\ flow[f].pc = "loginAnswered" /\ flow[f].fresh = NoToken
  /\ Abandon(f, token)
  /\ UNCHANGED <<server, environment, said, running>>

-----------------------------------------------------------------------------
(* What time and failures do.                                              *)

ExpireSession(s) ==
  /\ s \in sessions /\ sessions' = sessions \ {s}
  /\ UNCHANGED <<minted, sidOf, environment, device, flow>>

AgeToken(t) ==
  /\ t <= minted /\ t \notin aged /\ aged' = aged \cup {t}
  /\ UNCHANGED <<server, redisUp, device, flow>>

SwitchRedis ==
  /\ redisUp' = ~redisUp
  /\ UNCHANGED <<server, aged, device, flow>>

UserStep(f) ==
  \/ Call(f) \/ Logout(f) \/ AcceptPrivacyPolicy(f) \/ Launch(f)
  \/ EnsureLogin(f) \/ LoginPageAgree(f) \/ LoginPageLogin(f)

ServerStep(f) ==
  \/ ReadSession(f) \/ RenewSession(f) \/ FailCall(f) \/ FailLogin(f)
  \/ HandleCall(f) \/ HandleLogout(f) \/ HandleRefresh(f) \/ HandleLogin(f)

ClientStep(f) ==
  OnOk(f) \/ OnFailed(f) \/ OnRefused(f) \/ OnLogin(f) \/ OnLoginFailed(f)

Next ==
  \/ \E f \in Flow : UserStep(f) \/ ServerStep(f) \/ ClientStep(f)
  \/ OpenLoginPage \/ LeaveLoginPage \/ RefusePrivacyPolicy \/ Quit \/ SwitchRedis
  \/ \E t \in Token : ExpireSession(t) \/ AgeToken(t)

Spec == Init /\ [][Next]_vars

-----------------------------------------------------------------------------
TypeOK ==
  /\ sessions \subseteq Token /\ minted \in 0..MaxTokens
  /\ sidOf \in [Token -> Token \cup {NoToken}]
  /\ aged \subseteq Token /\ redisUp \in BOOLEAN
  /\ consent \in BOOLEAN /\ token \in Token \cup {NoToken}
  /\ running \in BOOLEAN /\ page \in LoginPage /\ willing \in BOOLEAN
  /\ flow \in [Flow -> FlowState]

(* session.service.ts:62: the sliding renewal is a read and an EXPIRE with *)
(* an await between them; a session that another request's logout or its   *)
(* TTL ended meanwhile does not come back.                                 *)
EndedStaysEnded ==
  [][\A s \in 1..minted : s \notin sessions => s \notin sessions']_vars

(* auth.ts:155: when logout reports success, neither the token the user    *)
(* held when asking nor one handed out on the way opens anything, even     *)
(* with the session expired, a silent login or Redis failing in between.   *)
LogoutEndsSession ==
  \A f \in Flow : flow[f].kind = "logout" /\ flow[f].answer = "ok" =>
                  ~Accepted(flow[f].held) /\ ~Accepted(flow[f].fresh)

(* request.ts:128: a replay after a silent login is refused only if that   *)
(* login's session has ended since, whatever other flows stored or cleared *)
(* in between.                                                             *)
ReplayIsAuthorised ==
  \A f \in Flow : flow[f].retried /\ flow[f].answer = "refused" => ~Accepted(flow[f].fresh)

(* App.vue:13, auth.ts:18: on no path (launch, page, 401, failed refresh,  *)
(* the login page with its own flag) does a login start unless the user's  *)
(* last word on the policy in force was yes; exempt is the button of a     *)
(* login page over which it was refused.                                   *)
LoginNeedsConsent ==
  [][\A f \in Flow : flow'[f].pc = "loggingIn" /\ flow[f].pc # "loggingIn" =>
       willing' \/ page = "withdrawn"]_vars

-----------------------------------------------------------------------------
(* What comments say, and the code does not keep.                          *)

(* App.vue:13: "未同意则保持游客态，仅可浏览首页".  A login under way when *)
(* the user refuses stores its token afterwards.                           *)
GuestUntilAgreed == ~consent => token = NoToken

(* auth.ts:18: "未同意隐私政策时不发起登录".  The login page does not ask  *)
(* what is stored: neither before its own agreement is kept, which is      *)
(* never, nor after a refusal.                                             *)
LoginAsksStorage ==
  [][\A f \in Flow : flow'[f].pc = "loggingIn" /\ flow[f].pc # "loggingIn" => consent']_vars

(* auth.ts:179: "先点「同意并继续」（此时还没登录）→ 随后登录成功 → 补报". *)
(* handleAgree stores nothing, so that reportPrivacyConsent has nothing to *)
(* report and the next start asks again.                                   *)
AgreementKept == willing => consent
=============================================================================
