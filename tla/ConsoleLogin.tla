---------------------------- MODULE ConsoleLogin ----------------------------
(***************************************************************************)
(* Administrators signing in to the console and binding their second       *)
(* factor: the tabs of one browser, which share the token in localStorage  *)
(* (api/http.ts, stores/auth.ts, router/index.ts, the login and the        *)
(* binding page), and on the server AdminAuthService, AdminSessionService, *)
(* AdminAuthGuard and the reset script.                                    *)
(*                                                                         *)
(* A session has one token, of the same number; one whose token expires    *)
(* ends.  A dynamic code stands for the secret of the authenticator it was *)
(* read from; one that is too old is a call that fails, as is a wrong      *)
(* password.  A call its page gave up on takes effect before that or not   *)
(* at all.  Every navigation of the console replaces the page, so that the *)
(* way back loads a document again.  Status disabled, which no code sets,  *)
(* and the page for unknown paths are left out.                            *)
(***************************************************************************)
EXTENDS Naturals

CONSTANTS
  Admin,
  Window,         \* the console's tabs
  Line,           \* bound: calls on their way at one time
  Nobody,
  MaxSessions,    \* bound: sessions created; logins past it fail
  MaxSecrets,     \* bound: secrets generated; setups past it fail
  MaxClicks       \* bound: what the administrators do

ASSUME ConsoleAssumption ==
  /\ Window # {} /\ Nobody \notin Admin
  /\ MaxSessions \in Nat /\ MaxSecrets \in Nat /\ MaxClicks \in Nat

VARIABLES
  bound,        \* admin_user.totp_secret, 0 if NULL
  offered,      \* the secret in Redis that waits to be bound, 0 if none
  opened, live, \* how many sessions were created; those that have not ended
  signedIn,     \* whose each session is
  generated,    \* how many secrets were
  scanned,      \* secrets an authenticator has
  ticket,       \* the token in localStorage, 0 if none
  window,       \* each tab's page and store
  line,         \* the calls on their way
  clicks

console == <<bound, offered, opened, live, signedIn, generated, scanned, ticket, window, line, clicks>>
factors == <<bound, offered, generated>>
admitted == <<opened, live, signedIn>>

Session == 1..MaxSessions
Secret == 1..MaxSecrets

Page == {"blank", "login", "bind", "home"}

(* profile: the administrator in the store, with its isTotpBound; secret:  *)
(* what the binding page shows.                                            *)
WindowState ==
  [page : Page, profile : Admin \cup {Nobody}, totp : BOOLEAN, secret : Secret \cup {0}]

Unloaded == [page |-> "blank", profile |-> Nobody, totp |-> FALSE, secret |-> 0]

(* then: whose await it is - the page's ("show"), of the profile for a     *)
(* navigation to to ("route"), for one that was overtaken ("store"), or    *)
(* for the binding page ("known", "enabled"); nobody's once the tab was    *)
(* loaded again ("drop").  here: the page that sent it is still there.     *)
Exchange ==
  [pc : {"free", "sent", "found", "checked", "verified", "stored", "answered"},
   kind : {"login", "profile", "setup", "enable", "logout", "configs"},
   window : Window, then : {"show", "route", "store", "known", "enabled", "drop"}, to : Page, here : BOOLEAN,
   token : Session \cup {0}, admin : Admin \cup {Nobody}, secret : Secret \cup {0}, totp : BOOLEAN,
   answer : {"none", "ok", "refused", "unbound", "already", "failed"}]

NoExchange ==
  [pc |-> "free", kind |-> "configs", window |-> CHOOSE w \in Window : TRUE, then |-> "show", to |-> "blank",
   here |-> FALSE, token |-> 0, admin |-> Nobody, secret |-> 0, totp |-> FALSE, answer |-> "none"]

(* Every tab was opened once, which led it to the login page.              *)
ConsoleInit ==
  /\ bound = [a \in Admin |-> 0] /\ offered = [a \in Admin |-> 0]
  /\ opened = 0 /\ live = {} /\ signedIn = [s \in Session |-> Nobody]
  /\ generated = 0 /\ scanned = {}
  /\ ticket = 0
  /\ window = [w \in Window |-> [Unloaded EXCEPT !.page = "login"]]
  /\ line = [c \in Line |-> NoExchange]
  /\ clicks = 0

-----------------------------------------------------------------------------
(* The router and the calls.                                               *)

(* request: the header takes the stored token.                             *)
Requesting(w, kind, then, to, token) ==
  [NoExchange EXCEPT !.pc = "sent", !.kind = kind, !.window = w, !.then = then, !.to = to, !.token = token,
                     !.here = then \notin {"route", "store"}]

At(v, page) == IF v.page = page THEN v ELSE [v EXCEPT !.page = page, !.secret = 0]

(* beforeEach on the way to to.  Without a profile the page stays, until   *)
(* the call for it is answered.                                            *)
Routed(v, to, token) ==
  IF token = 0 THEN At(v, "login")
  ELSE IF v.profile = Nobody THEN v
  ELSE IF ~v.totp THEN At(v, "bind")
  ELSE At(v, IF to = "login" THEN "home" ELSE to)

(* onMounted of the page that is new                                       *)
Mounting(w, old, new, token) ==
  IF new = old \/ new = "login" THEN NoExchange
  ELSE Requesting(w, IF new = "bind" THEN "setup" ELSE "configs", "show", "blank", token)

Following(w, v, to, token) ==
  IF token # 0 /\ v.profile = Nobody
  THEN Requesting(w, "profile", "route", IF to = "login" THEN "home" ELSE to, token)
  ELSE Mounting(w, v.page, Routed(v, to, token).page, token)

(* A navigation overtakes one that waits, and unmounts the page it leaves. *)
Overtaken(e, w, leaves) ==
  IF e.pc = "free" \/ e.window # w THEN e
  ELSE [e EXCEPT !.then = IF @ = "route" THEN "store" ELSE @, !.here = @ /\ ~leaves]

Arrive(w, v, new, call, c) ==
  /\ window' = [window EXCEPT ![w] = new]
  /\ line' = [x \in Line |-> IF x = c THEN call ELSE Overtaken(line[x], w, new.page # v.page)]

(* Tab w, whose store is v, goes to to; the call c is done with.           *)
Go(w, v, to, token, c) == Arrive(w, v, Routed(v, to, token), Following(w, v, to, token), c)

Stay(w, v, c) ==
  window' = [window EXCEPT ![w] = v] /\ line' = [line EXCEPT ![c] = NoExchange]

-----------------------------------------------------------------------------
(* What the administrators do.                                             *)

Click == clicks < MaxClicks /\ clicks' = clicks + 1

(* loading and submitting of the page that is there                        *)
Busy(w, kinds, then) ==
  \E c \in Line : /\ line[c].pc # "free" /\ line[c].window = w /\ line[c].here
                  /\ line[c].kind \in kinds \/ line[c].then = then

Press(w, call, c) ==
  /\ Click
  /\ line[c].pc = "free"
  /\ line' = [line EXCEPT ![c] = call]
  /\ UNCHANGED <<factors, admitted, scanned, ticket, window>>

(* The tab is loaded again; nobody waits for its calls any more.           *)
Load(w, to, c) ==
  /\ Click
  /\ line[c].pc = "free"
  /\ window' = [window EXCEPT ![w] = Routed(Unloaded, to, ticket)]
  /\ line' = [x \in Line |-> IF x = c THEN Following(w, Unloaded, to, ticket)
                             ELSE IF line[x].pc = "free" \/ line[x].window # w THEN line[x]
                             ELSE IF line[x].pc = "answered" THEN NoExchange
                             ELSE [line[x] EXCEPT !.then = "drop"]]
  /\ UNCHANGED <<factors, admitted, scanned, ticket>>

(* handleSubmit of LoginView                                               *)
SubmitLogin(w, a, code, c) ==
  /\ window[w].page = "login" /\ ~Busy(w, {"login"}, "login")
  /\ Press(w, [Requesting(w, "login", "show", "blank", 0) EXCEPT !.admin = a, !.secret = code], c)

Scan(w) ==
  /\ window[w].secret # 0
  /\ scanned' = scanned \cup {window[w].secret}
  /\ UNCHANGED <<factors, admitted, ticket, window, line, clicks>>

(* loadSecret                                                              *)
Regenerate(w, c) ==
  /\ window[w].page = "bind" /\ ~Busy(w, {"setup"}, "known")
  /\ Press(w, Requesting(w, "setup", "show", "blank", ticket), c)

(* handleEnable                                                            *)
SubmitCode(w, code, c) ==
  /\ window[w].page = "bind" /\ ~Busy(w, {"enable"}, "enabled")
  /\ Press(w, [Requesting(w, "enable", "show", "blank", ticket) EXCEPT !.secret = code], c)

(* handleLogout of AdminLayout                                             *)
ClickLogout(w, c) ==
  /\ window[w].page = "home"
  /\ Press(w, Requesting(w, "logout", "show", "blank", ticket), c)

(* create-admin --reset                                                    *)
Reset(a) ==
  /\ Click
  /\ bound' = [bound EXCEPT ![a] = 0]
  /\ UNCHANGED <<offered, generated, admitted, scanned, ticket, window, line>>

-----------------------------------------------------------------------------
(* What the server does.                                                   *)

browser == <<scanned, ticket, window, clicks>>

Respond(c, e) == line' = [line EXCEPT ![c] = IF e.then = "drop" THEN NoExchange ELSE [e EXCEPT !.pc = "answered"]]
RespondWith(c, answer) == Respond(c, [line[c] EXCEPT !.answer = answer])
Progress(c, pc) == line' = [line EXCEPT ![c].pc = pc]

(* AdminAuthGuard: the session, then the row.                              *)
CheckAccess(c) ==
  LET e == line[c] IN
  /\ e.pc = "sent" /\ e.kind # "login"
  /\ IF e.token \notin live THEN RespondWith(c, "refused")
     ELSE IF e.kind = "configs"
     THEN RespondWith(c, IF bound[signedIn[e.token]] = 0 THEN "unbound" ELSE "ok")
     ELSE line' = [line EXCEPT ![c].pc = "found", ![c].admin = signedIn[e.token]]
  /\ UNCHANGED <<factors, admitted, browser>>

GetProfile(c) ==
  LET e == line[c] IN
  /\ e.pc = "found" /\ e.kind = "profile"
  /\ Respond(c, [e EXCEPT !.totp = bound[e.admin] # 0, !.answer = "ok"])
  /\ UNCHANGED <<factors, admitted, browser>>

(* revoke                                                                  *)
RevokeSession(c) ==
  /\ line[c].pc = "found" /\ line[c].kind = "logout"
  /\ live' = live \ {line[c].token}
  /\ RespondWith(c, "ok")
  /\ UNCHANGED <<factors, opened, signedIn, browser>>

(* findAdminOrFail and the test of totpSecret, in setup and in enable      *)
FindUnbound(c) ==
  LET e == line[c] IN
  /\ e.pc = "found" /\ e.kind \in {"setup", "enable"}
  /\ IF bound[e.admin] # 0 THEN RespondWith(c, "already") ELSE Progress(c, "checked")
  /\ UNCHANGED <<factors, admitted, browser>>

(* setupTotp: the secret waits in Redis.                                   *)
OfferSecret(c) ==
  /\ line[c].pc = "checked" /\ line[c].kind = "setup"
  /\ generated < MaxSecrets /\ generated' = generated + 1
  /\ offered' = [offered EXCEPT ![line[c].admin] = generated + 1]
  /\ Respond(c, [line[c] EXCEPT !.secret = generated + 1, !.answer = "ok"])
  /\ UNCHANGED <<bound, admitted, browser>>

(* enableTotp: the code must be of the secret that waits, ...              *)
VerifyCode(c) ==
  LET e == line[c] IN
  /\ e.pc = "checked" /\ e.kind = "enable"
  /\ e.secret # 0 /\ offered[e.admin] = e.secret
  /\ Progress(c, "verified")
  /\ UNCHANGED <<factors, admitted, browser>>

(* Mutant: the secret that waits is read once more.                        *)
StoreWaitingSecret(c) ==
  /\ line[c].pc = "verified"
  /\ bound' = [bound EXCEPT ![line[c].admin] = offered[line[c].admin]]
  /\ Progress(c, "stored")
  /\ UNCHANGED <<offered, generated, admitted, browser>>

(* ... which is stored with the account ...                                *)
StoreSecret(c) ==
  /\ line[c].pc = "verified"
  /\ bound' = [bound EXCEPT ![line[c].admin] = line[c].secret]
  /\ Progress(c, "stored")
  /\ UNCHANGED <<offered, generated, admitted, browser>>

(* ... and waits no longer, nor does one offered since.                    *)
DropOffer(c) ==
  /\ line[c].pc = "stored"
  /\ offered' = [offered EXCEPT ![line[c].admin] = 0]
  /\ RespondWith(c, "ok")
  /\ UNCHANGED <<bound, generated, admitted, browser>>

(* login: the password and, once bound, a code; ...                        *)
CheckLogin(c) ==
  LET e == line[c] IN
  /\ e.pc = "sent" /\ e.kind = "login"
  /\ bound[e.admin] \in {0, e.secret}
  /\ line' = [line EXCEPT ![c].pc = "checked", ![c].totp = bound[e.admin] # 0]
  /\ UNCHANGED <<factors, admitted, browser>>

(* ... create of AdminSessionService.                                      *)
CreateSession(c) ==
  LET e == line[c] IN
  /\ e.pc = "checked" /\ e.kind = "login"
  /\ opened < MaxSessions /\ opened' = opened + 1
  /\ live' = live \cup {opened + 1}
  /\ signedIn' = [signedIn EXCEPT ![opened + 1] = e.admin]
  /\ Respond(c, [e EXCEPT !.token = opened + 1, !.answer = "ok"])
  /\ UNCHANGED <<factors, browser>>

(* The handler refuses what was asked, or fails; or the answer is lost.    *)
FailExchange(c) ==
  /\ line[c].pc # "free" /\ line[c].answer # "failed"
  /\ Respond(c, [line[c] EXCEPT !.answer = "failed", !.totp = FALSE])
  /\ UNCHANGED <<factors, admitted, browser>>

EndSession(s) ==
  /\ s \in live /\ live' = live \ {s}
  /\ UNCHANGED <<factors, opened, signedIn, browser, line>>

ExpireOffer(a) ==
  /\ offered[a] # 0 /\ offered' = [offered EXCEPT ![a] = 0]
  /\ UNCHANGED <<bound, generated, admitted, browser, line>>

-----------------------------------------------------------------------------
(* What a tab makes of an answer.                                          *)

Returned(c, kind, answers) ==
  line[c].pc = "answered" /\ line[c].kind = kind /\ line[c].answer \in answers

backend == <<factors, admitted, scanned, clicks>>

WithProfile(v, e) == [v EXCEPT !.profile = e.admin, !.totp = e.totp]
Cleared(v) == [v EXCEPT !.profile = Nobody, !.totp = FALSE]

(* redirectToLogin, redirectToTotpBind                                     *)
Redirect(w, to, token, c) ==
  IF window[w].page = to THEN Stay(w, window[w], c) ELSE Go(w, window[w], to, token, c)

(* handleBusinessError: the stored token goes, whichever it is by now; the *)
(* profile stays in the store.                                             *)
OnDenied(c) ==
  LET e == line[c] IN
  /\ Returned(c, e.kind, {"refused"}) /\ e.kind # "logout"
  /\ e.then \in {"show", "known", "enabled"}
  /\ ticket' = 0
  /\ Redirect(e.window, "login", 0, c)
  /\ UNCHANGED backend

OnUnbound(c) ==
  /\ Returned(c, "configs", {"unbound"})
  /\ Redirect(line[c].window, "bind", ticket, c)
  /\ UNCHANGED <<backend, ticket>>

(* The list is shown; the secret, if its page is there; or the error.      *)
OnShown(c) ==
  LET e == line[c]
      v == window[e.window]
  IN
  /\ \/ Returned(c, "setup", {"ok"}) /\ Stay(e.window, IF e.here THEN [v EXCEPT !.secret = e.secret] ELSE v, c)
     \/ /\ \/ Returned(c, "configs", {"ok"})
           \/ Returned(c, "enable", {"already"})
           \/ Returned(c, e.kind, {"failed"}) /\ e.kind \notin {"logout", "profile"}
           \/ Returned(c, "profile", {"failed"}) /\ e.then = "enabled"
        /\ Stay(e.window, v, c)
  /\ UNCHANGED <<backend, ticket>>

OnSignedIn(c) ==
  LET e == line[c] IN
  /\ Returned(c, "login", {"ok"})
  /\ ticket' = e.token
  /\ Go(e.window, WithProfile(window[e.window], e), IF e.totp THEN "home" ELSE "bind", e.token, c)
  /\ UNCHANGED backend

(* logout's finally                                                        *)
OnSignedOut(c) ==
  LET e == line[c] IN
  /\ Returned(c, "logout", {"ok", "refused", "failed"})
  /\ ticket' = 0
  /\ Go(e.window, Cleared(window[e.window]), "login", 0, c)
  /\ UNCHANGED backend

(* loadSecret and handleEnable go on with the profile.                     *)
OnBound(c) ==
  LET e == line[c] IN
  /\ Returned(c, "setup", {"already"}) \/ Returned(c, "enable", {"ok"})
  /\ line' = [line EXCEPT ![c] = [Requesting(e.window, "profile", IF e.kind = "setup" THEN "known" ELSE "enabled",
                                             "blank", ticket) EXCEPT !.here = e.here]]
  /\ UNCHANGED <<backend, ticket, window>>

(* beforeEach goes on with the profile: to where the navigation led, or    *)
(* once more from the start.  One that was overtaken has no say any more   *)
(* in where the tab is.                                                    *)
OnRouteProfile(c) ==
  LET e == line[c]
      v == WithProfile(window[e.window], e)
      new == At(v, e.to)
  IN
  /\ Returned(c, "profile", {"ok"}) /\ e.then \in {"route", "store"}
  /\ IF e.then = "store" THEN Stay(e.window, v, c)
     ELSE IF e.totp \/ e.to = "bind"
     THEN Arrive(e.window, v, new, Mounting(e.window, v.page, new.page, ticket), c)
     ELSE Go(e.window, v, "bind", ticket, c)
  /\ UNCHANGED <<backend, ticket>>

(* The binding page goes home, "known" without the profile too.            *)
OnBoundProfile(c) ==
  LET e == line[c]
      v == window[e.window]
  IN
  /\ \/ Returned(c, "profile", {"ok"}) /\ e.then \in {"known", "enabled"}
     \/ Returned(c, "profile", {"failed"}) /\ e.then = "known"
  /\ Go(e.window, IF e.answer = "ok" THEN WithProfile(v, e) ELSE v, "home", ticket, c)
  /\ UNCHANGED <<backend, ticket>>

(* beforeEach's catch, the refusal handled before: the store is cleared.   *)
OnProfileFailed(c) ==
  LET e == line[c]
      v == Cleared(window[e.window])
  IN
  /\ Returned(c, "profile", {"refused", "failed"}) /\ e.then \in {"route", "store"}
  /\ ticket' = 0
  /\ IF e.then = "store" /\ e.answer = "failed" THEN Stay(e.window, v, c)
     ELSE Go(e.window, v, "login", 0, c)
  /\ UNCHANGED backend

-----------------------------------------------------------------------------
ConsoleNext ==
  \/ \E w \in Window, c \in Line :
       \/ \E to \in Page \ {"blank"} : Load(w, to, c)
       \/ \E a \in Admin, code \in scanned \cup {0} : SubmitLogin(w, a, code, c)
       \/ \E code \in scanned : SubmitCode(w, code, c)
       \/ Regenerate(w, c) \/ ClickLogout(w, c)
  \/ \E w \in Window : Scan(w)
  \/ \E a \in Admin : Reset(a) \/ ExpireOffer(a)
  \/ \E s \in Session : EndSession(s)
  \/ \E c \in Line :
       \/ CheckAccess(c) \/ GetProfile(c) \/ RevokeSession(c)
       \/ FindUnbound(c) \/ OfferSecret(c) \/ VerifyCode(c) \/ StoreSecret(c) \/ DropOffer(c)
       \/ CheckLogin(c) \/ CreateSession(c) \/ FailExchange(c)
       \/ OnDenied(c) \/ OnUnbound(c) \/ OnShown(c) \/ OnSignedIn(c) \/ OnSignedOut(c) \/ OnBound(c)
       \/ OnRouteProfile(c) \/ OnBoundProfile(c) \/ OnProfileFailed(c)

ConsoleSpec == ConsoleInit /\ [][ConsoleNext]_console

-----------------------------------------------------------------------------
ConsoleTypeOK ==
  /\ bound \in [Admin -> Secret \cup {0}] /\ offered \in [Admin -> Secret \cup {0}]
  /\ opened \in 0..MaxSessions /\ live \subseteq Session /\ signedIn \in [Session -> Admin \cup {Nobody}]
  /\ generated \in 0..MaxSecrets /\ scanned \subseteq Secret /\ ticket \in Session \cup {0}
  /\ window \in [Window -> WindowState] /\ line \in [Line -> Exchange]
  /\ clicks \in 0..MaxClicks

(* admin-auth.service.ts:188 "避免「绑了一半」把管理员锁在门外": the secret *)
(* an account asks codes of is one an authenticator has, although new      *)
(* secrets are offered, by this tab or another one, while a code is being  *)
(* verified, and answers that bring a secret are lost.                     *)
NeverLockedOut == \A a \in Admin : bound[a] # 0 => bound[a] \in scanned
=============================================================================
