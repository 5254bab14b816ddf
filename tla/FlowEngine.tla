----------------------------- MODULE FlowEngine -----------------------------
(***************************************************************************)
(* Exported flows (flow_engine.rs): a request starts a run of a flow, or   *)
(* reads the stored run, walks the task graph from where the run stands    *)
(* until a screen or an action stops it, and stores the run it has in hand *)
(* over whatever is stored by then.  Several tabs may work on one run: one *)
(* polls while another opens the emailed link.                             *)
(*                                                                         *)
(* The graph is a parameter.                                               *)
(* An action is one step per store it visits whose state decides how calls *)
(* go on.  Codes, tokens and passkey ceremonies are secrets, each issued   *)
(* once.  Left out are what screens show, messages and URLs, the risk      *)
(* score, user properties, verified marks, sent links and login times, and *)
(* the expiry of ceremonies; a password matches or it does not, and its    *)
(* lockout is PasswordSignIn's matter.  Time is not kept: a run may expire *)
(* whenever another is saved.                                              *)
(***************************************************************************)
EXTENDS Naturals, Sequences, FiniteSets

CONSTANTS
  Flow,      \* task -> [type, action, rules, finish, conditions]
  StartTask,
  Uids, Logins,
  Lower,     \* the login ids that look like an email address, each in lower case
  Secrets,   \* codes, link tokens, SSO codes and ceremonies
  Runs,      \* ids of runs, each drawn once
  Reqs,      \* requests; one that was answered may serve another call
  None, Swept,
  MaxSteps,  \* MAX_STEPS
  MaxCalls,  \* bound of the model: calls served
  MaxChanges \* bound of the model: management calls and resets

Tasks == DOMAIN Flow

\* perform: the actions the engine runs, and those that wait for their own
\* finish step.
Actions ==
  {"noop", "passwordSignIn", "passwordReplace", "passwordUpdate", "sendCode",
   "signUpCode", "verifyCode", "sendLink", "updateLink", "verifyLink",
   "signUpStart", "signInStart", "updateStart", "signUpFinish", "signInFinish",
   "updateFinish", "ssoStart", "ssoExchange", "loggedIn"}
Waiting == {"signUpStart", "signInStart", "updateStart", "ssoStart"}

ASSUME FlowEngineAssumption ==
  /\ None \notin Uids \cup Logins \cup Secrets \cup Runs \cup Tasks
  /\ Swept # None
  /\ StartTask \in Tasks
  /\ DOMAIN Lower \subseteq Logins /\ \A l \in DOMAIN Lower : Lower[l] \in Logins
  /\ MaxSteps \in Nat \ {0} /\ MaxCalls \in Nat /\ MaxChanges \in Nat

\* The shape of a task.
ASSUME FlowAssumption ==
  \A t \in Tasks :
    /\ Flow[t].type \in {"screen", "condition", "automated"}
    /\ Flow[t].action \in IF Flow[t].type = "automated" THEN Actions ELSE {"none"}
    /\ Flow[t].finish \in Tasks \cup {None}
    /\ Flow[t].action \in Waiting => Flow[t].finish # None

VARIABLES
  owner,   \* UserStore.by_login_id: login id -> uid or None
  status,  \* uid -> "unused", "drawn", "enabled", "disabled" or "gone"
  keys,    \* WebAuthnStore.credentials: the uids that have a passkey
  secret,  \* what OtpStore, TokenStore and WebAuthnStore issued
  runs,    \* FlowStore.runs: run id -> run; None before it starts, Swept once it expired
  req,     \* request -> the call it serves
  resetPc, \* the store /emulator/reset empties next
  proved,  \* history: <<run, user>> pairs of which proof was shown
  replaced, \* history: of which password-replace signed the user in
  minted,  \* history: run -> sessions minted
  shared,  \* history: the runs two calls worked on at once
  calls, changes

users == <<owner, status>>
history == <<proved, replaced, minted, shared>>
bounds == <<calls, changes>>
vars == <<users, keys, secret, runs, req, resetPc, history, bounds>>

\* task: the task that waits for input.  screen: the last screen shown.
\* auth: who is signed in.  code: whose code was sent.  link: the token sent,
\* verified once it was opened.  last: the envelope kept for a tab that polls.
Run == [task : Tasks, screen : Tasks \cup {None},
        status : {"waiting", "completed", "failed"},
        login : Logins \cup {None}, auth : Uids \cup {None},
        code : Uids \cup {None}, link : Secrets \cup {None}, verified : BOOLEAN,
        last : {"none", "waiting", "screen", "completed", "failed"}]

ASSUME RunAssumption == None \notin Run /\ Swept \notin Run

NewRun(l) == [task |-> StartTask, screen |-> None, status |-> "waiting",
              login |-> l, auth |-> None, code |-> None, link |-> None,
              verified |-> FALSE, last |-> "none"]

\* pc: the next step.  x: the run's id, run: the copy in hand.  at: the task it
\* is at, fuel: how many more it may visit.  typed: the secret the call
\* brought, if any.  who: a user found on the way.  env: what it will answer.
\* session: whom it minted for.
Idle == [pc |-> "idle", x |-> None, run |-> NewRun(None),
         at |-> StartTask, fuel |-> 0, typed |-> None, who |-> None,
         env |-> "none", session |-> None]

NoSecret == [kind |-> "unused", uid |-> None, login |-> None, run |-> None,
             live |-> FALSE]

At(r, step) == req[r].pc = step
Becomes(r, c) == req' = [req EXCEPT ![r] = c]
Stored(u) == u # None /\ status[u] \in {"enabled", "disabled"}

\* UserStore.load: who registered the id, else anybody or nobody.  UserStore has
\* the rest of the chain, by email, by phone and by a bare name.
Loaded(l) ==
  IF l # None /\ owner[l] # None THEN {owner[l]}
  ELSE {None} \cup {u \in Uids : Stored(u)}

-----------------------------------------------------------------------------
(* Walking the task graph: what becomes of a call c with the run in hand *)

\* follow: an action's own finish step is reached by resuming, never by a rule.
Follow(t, choice) ==
  IF choice \in DOMAIN Flow[t].rules /\ Flow[t].rules[choice] # Flow[t].finish
  THEN Flow[t].rules[choice] ELSE None

\* Mutant of Remember: nothing is kept for the tab that polls.
RememberNothing(run, env) == run

\* remember: once the link was opened.
Remember(run, env) == IF run.verified THEN [run EXCEPT !.last = env] ELSE run

\* An envelope to answer with; the run in hand is saved first.
Answer(c, run, env) == [Idle EXCEPT !.pc = "save", !.x = c.x, !.run = run,
                                    !.env = env, !.session = c.session]

Stop(c, run, env) == Answer(c, Remember(run, env), env)

\* No task, no rule or no step left to go on with: the run stays as it is.
Lost(c, run) == Answer(c, run, "failed")

ShowScreen(c, run, t) == Stop(c, [run EXCEPT !.task = t, !.screen = t], "screen")

\* Mutant of OutOfSteps: the loop has no bound.
NeverOutOfSteps(c) == FALSE

OutOfSteps(c) == c.fuel = 0

\* drive: one more turn of its loop, at task t.
Enter(c, run, t) ==
  IF OutOfSteps(c) \/ t \notin Tasks THEN Lost(c, run)
  ELSE IF Flow[t].type = "screen" THEN ShowScreen(c, run, t)
  ELSE [c EXCEPT !.run = run, !.at = t, !.fuel = @ - 1,
                 !.pc = IF Flow[t].type = "automated" THEN Flow[t].action
                        ELSE Flow[t].type]

\* Outcome::Interaction
Proceed(c, run, choice) ==
  LET t == Follow(c.at, choice) IN
  IF t = None THEN Lost(c, run) ELSE Enter(c, run, t)

Succeed(c, run) == Proceed(c, run, "success")

\* Outcome::ScreenError: the last screen again.
ScreenError(c, run) ==
  IF run.screen = None THEN Lost(c, run)
  ELSE Stop(c, [run EXCEPT !.task = run.screen], "screen")

\* Outcome::Fail
Fail(c, run) == Stop(c, [run EXCEPT !.status = "failed"], "failed")

\* Outcome::Wait
Wait(c, run) == Stop(c, [run EXCEPT !.task = Flow[c.at].finish], "waiting")

\* handled_error
HandledError(c, run, choice) ==
  IF Follow(c.at, choice) # None THEN Proceed(c, run, choice)
  ELSE ScreenError(c, run)

\* Run::sign_in
SignIn(run, u) == [run EXCEPT !.auth = u]
SignInOnce(run, u) == IF run.auth = None THEN SignIn(run, u) ELSE run

\* target_user_id: the signed-in user, else the one the login id names.
Targets(run) == IF run.auth # None THEN {run.auth} ELSE Loaded(run.login)

-----------------------------------------------------------------------------
(* Calls *)

\* start.  What the start screen, which the widget draws by itself, was
\* answered with may come along.  The flows here begin at that screen, to which
\* the code's start_screen may walk a few rules from the start task.
Start(x, l, choice) ==
  LET c == [Idle EXCEPT !.x = x, !.fuel = MaxSteps]
  IN IF choice # "none" /\ Flow[StartTask].type = "screen"
     THEN Proceed(c, [NewRun(l) EXCEPT !.screen = StartTask], choice)
     ELSE Enter(c, NewRun(l), StartTask)

\* poll
Poll(c, run) ==
  IF ~run.verified THEN Answer(c, run, "waiting")
  ELSE IF run.last # "none" THEN Answer(c, run, run.last)
  ELSE Proceed(c, run, "polling")

\* next, on the run as it is stored now.  Whatever brings a token comes with
\* the automated step to go on at, as a link and an SSO round trip do; a screen
\* takes what was typed; another task that waits is driven again.
NextCall(x, op, l, choice, s, step) ==
  LET run == runs[x]
      c == [Idle EXCEPT !.x = x, !.run = run, !.at = run.task,
                        !.fuel = MaxSteps, !.typed = s]
  IN IF op = "poll" THEN Poll(c, run)
     ELSE IF run.status # "waiting" THEN Lost(c, run)
     ELSE IF op = "resume" THEN Enter(c, run, step)
     ELSE IF Flow[run.task].type = "screen"
     THEN Proceed(c, [run EXCEPT !.login = IF l = None THEN @ ELSE l], choice)
     ELSE Enter(c, run, run.task)

Serves(x) == {q \in Reqs : req[q].x = x}

\* The kinds of secrets an action reads.  The token store is one for all kinds.
Reads(action) ==
  CASE action = "verifyCode" -> {"code"}
    [] action = "verifyLink" -> {"link"}
    [] action = "ssoExchange" -> {"sso", "link"}
    [] action = "signUpFinish" -> {"signUp"}
    [] action = "signInFinish" -> {"signIn"}
    [] action = "updateFinish" -> {"update"}
    [] OTHER -> {}

\* What a call may bring, that the caller was sent or has from its browser.  The
\* form keeps a code that was typed before.
Brought(kinds) == {s \in Secrets : secret[s].kind \in kinds} \cup {None}

Arrive(r) ==
  /\ At(r, "idle") /\ calls < MaxCalls
  /\ calls' = calls + 1
  /\ \/ \E x \in Runs, l \in Logins \cup {None}, choice \in DOMAIN Flow[StartTask].rules \cup {"none"} :
          /\ runs[x] = None /\ Serves(x) = {}
          /\ Becomes(r, Start(x, l, choice))
          /\ UNCHANGED shared
     \/ \E x \in Runs :
          /\ runs[x] \notin {None, Swept}
          /\ shared' = IF Serves(x) = {} THEN shared ELSE shared \cup {x}
          /\ LET t == runs[x].task IN
             \/ Becomes(r, NextCall(x, "poll", None, "polling", None, None))
             \/ /\ Flow[t].type = "screen"
                /\ \E choice \in DOMAIN Flow[t].rules, l \in Logins \cup {None},
                      s \in Brought({"code"}) :
                     Becomes(r, NextCall(x, "submit", l, choice, s, None))
             \/ /\ Flow[t].type # "screen"
                /\ \E s \in Brought(Reads(Flow[t].action)) :
                     Becomes(r, NextCall(x, "submit", None, "none", s, None))
             \/ \E step \in {y \in Tasks : Flow[y].type = "automated"} :
                  \E s \in Brought(Reads(Flow[step].action)) :
                    Becomes(r, NextCall(x, "resume", None, "none", s, step))
  /\ UNCHANGED <<users, keys, secret, runs, resetPc, proved, replaced, minted, changes>>

\* sweep_expired: any stored run may be old enough by now.
Stale(x) == SUBSET {y \in Runs \ {x} : runs[y] \notin {None, Swept}}

\* save: over what another call stored since this one read the run, and over
\* the gap a sweep left.
Save(r) ==
  /\ At(r, "save")
  /\ LET x == req[r].x IN
     \E old \in Stale(x) :
       runs' = [y \in Runs |-> IF y = x THEN req[r].run
                               ELSE IF y \in old THEN Swept ELSE runs[y]]
  /\ Becomes(r, Idle)
  /\ UNCHANGED <<users, keys, secret, resetPc, proved, replaced, minted, shared, bounds>>

-----------------------------------------------------------------------------
(* Conditions and passwords *)

\* What conditions read live (full_context).
Holds(fact, run, named) ==
  \/ fact = "user has a passkey" /\ Stored(run.auth) /\ run.auth \in keys
  \/ fact = "login id is known" /\ named # None

\* evaluate_condition: the first that holds.
Condition(r) ==
  /\ At(r, "condition")
  /\ LET c == req[r]
         conditions == Flow[c.at].conditions
         holding(u) == {i \in DOMAIN conditions : Holds(conditions[i].fact, c.run, u)}
         choice(u) == IF holding(u) = {} THEN "ELSE"
                      ELSE conditions[CHOOSE i \in holding(u) :
                                        \A j \in holding(u) : i <= j].choice
     IN \E u \in Loaded(c.run.login) : Becomes(r, Proceed(c, c.run, choice(u)))
  /\ UNCHANGED <<users, keys, secret, runs, resetPc, history, bounds>>

\* risk, update-user-properties and scriptlet change nothing kept here.
Noop(r) ==
  /\ At(r, "noop")
  /\ Becomes(r, Succeed(req[r], req[r].run))
  /\ UNCHANGED <<users, keys, secret, runs, resetPc, history, bounds>>

\* password_sign_in
PasswordSignIn(r) ==
  /\ At(r, "passwordSignIn")
  /\ LET c == req[r] IN
        \/ \* switched off, locked out, wrong, or a disabled user
           /\ Becomes(r, ScreenError(c, c.run))
           /\ UNCHANGED proved
        \/ \* no such user, or one without a password
           /\ Becomes(r, HandledError(c, c.run, "UserDoesNotExists"))
           /\ UNCHANGED proved
        \/ \E u \in Loaded(c.run.login) :
             /\ u # None /\ status[u] = "enabled"
             /\ proved' = proved \cup {<<c.x, u>>}
             /\ Becomes(r, Succeed(c, SignIn(c.run, u)))
  /\ UNCHANGED <<users, keys, secret, runs, resetPc, replaced, minted, shared, bounds>>

\* password_replace finds its user; password_update has to have one.
PasswordTarget(r) ==
  /\ req[r].pc \in {"passwordReplace", "passwordUpdate"}
  /\ LET c == req[r] IN
     \E u \in IF At(r, "passwordReplace") THEN Targets(c.run) ELSE {c.run.auth} :
       Becomes(r, IF u = None THEN ScreenError(c, c.run)
                  ELSE [c EXCEPT !.who = u, !.pc = "setPassword"])
  /\ UNCHANGED <<users, keys, secret, runs, resetPc, history, bounds>>

\* set_password, and the sign-in of password_replace, saved or not.
SetPassword(r) ==
  /\ At(r, "setPassword")
  /\ LET c == req[r] run == SignInOnce(c.run, c.who) IN
     /\ Becomes(r, IF Stored(c.who) THEN Succeed(c, run) ELSE ScreenError(c, run))
     /\ replaced' = IF c.run.auth = None THEN replaced \cup {<<c.x, c.who>>} ELSE replaced
  /\ UNCHANGED <<users, keys, secret, runs, resetPc, proved, minted, shared, bounds>>

-----------------------------------------------------------------------------
(* Codes and links *)

Fresh(s) == secret[s].kind = "unused"

\* UserStore::insert refuses a login id that somebody registered.
Taken(l) == l # None /\ owner[l] # None

Insert(l, u) ==
  /\ owner' = IF l = None THEN owner ELSE [owner EXCEPT ![l] = u]
  /\ status' = [status EXCEPT ![u] = "enabled"]

\* may_sign_up, by email: an SMS action that may is sendCode here.
MaySignUp(c) == c.pc = "signUpCode" /\ c.run.login \in DOMAIN Lower

\* send_code: whom for.
CodeTarget(r) ==
  /\ req[r].pc \in {"sendCode", "signUpCode"}
  /\ LET c == req[r] IN
     \E u \in Targets(c.run) :
       Becomes(r, IF u # None THEN [c EXCEPT !.who = u, !.pc = "storeCode"]
                  ELSE IF MaySignUp(c) THEN [c EXCEPT !.pc = "insertUser"]
                  ELSE HandledError(c, c.run, "UserDoesNotExists"))
  /\ UNCHANGED <<users, keys, secret, runs, resetPc, history, bounds>>

\* send_code: the account of a first sign-in.
InsertUser(r, u) ==
  /\ At(r, "insertUser")
  /\ LET c == req[r] l == Lower[req[r].run.login] IN
     \/ Taken(l) /\ Becomes(r, ScreenError(c, c.run)) /\ UNCHANGED users
     \/ /\ ~Taken(l) /\ status[u] = "unused"
        /\ Insert(l, u)
        /\ Becomes(r, [c EXCEPT !.who = u, !.pc = "storeCode"])
  /\ UNCHANGED <<keys, secret, runs, resetPc, history, bounds>>

\* OtpStore::store: one code per user, in place of an older one.
StoreCode(r, s) ==
  /\ At(r, "storeCode") /\ Fresh(s)
  /\ LET c == req[r] IN
     /\ secret' = [t \in Secrets |->
          IF t = s THEN [NoSecret EXCEPT !.kind = "code", !.uid = c.who, !.live = TRUE]
          ELSE IF secret[t].kind = "code" /\ secret[t].uid = c.who
          THEN [secret[t] EXCEPT !.live = FALSE] ELSE secret[t]]
     /\ Becomes(r, Succeed(c, [c.run EXCEPT !.code = c.who]))
  /\ UNCHANGED <<users, keys, runs, resetPc, history, bounds>>

\* verify_code: of the user the code was sent for.
VerifyCode(r) ==
  /\ At(r, "verifyCode")
  /\ LET c == req[r] s == req[r].typed IN
     IF s # None /\ c.run.code # None /\ secret[s].live
        /\ secret[s].kind = "code" /\ secret[s].uid = c.run.code
     THEN /\ secret' = [secret EXCEPT ![s].live = FALSE]
          /\ proved' = proved \cup {<<c.x, secret[s].uid>>}
          /\ Becomes(r, Succeed(c, SignInOnce(c.run, c.run.code)))
     ELSE Becomes(r, ScreenError(c, c.run)) /\ UNCHANGED <<secret, proved>>
  /\ UNCHANGED <<users, keys, runs, resetPc, replaced, minted, shared, bounds>>

\* send_link: whom for.
LinkTarget(r) ==
  /\ req[r].pc \in {"sendLink", "updateLink"}
  /\ LET c == req[r] IN
     \E u \in IF At(r, "sendLink") THEN Targets(c.run) ELSE {c.run.auth} :
       Becomes(r, IF u = None THEN HandledError(c, c.run, "UserDoesNotExists")
                  ELSE [c EXCEPT !.who = u, !.pc = "issueLink"])
  /\ UNCHANGED <<users, keys, secret, runs, resetPc, history, bounds>>

IssueLink(r, s) ==
  /\ At(r, "issueLink") /\ Fresh(s)
  /\ LET c == req[r] IN
     /\ secret' = [secret EXCEPT ![s] = [NoSecret EXCEPT
                     !.kind = "link", !.uid = c.who, !.run = c.x, !.live = TRUE]]
     /\ Becomes(r, Succeed(c, [c.run EXCEPT !.link = s, !.verified = FALSE]))
  /\ UNCHANGED <<users, keys, runs, resetPc, history, bounds>>

\* Mutant of SentBy: any link will do.
SentByAny(run, s) == s # None /\ secret[s].kind = "link"

\* The run's own latest link.
SentBy(run, s) == s # None /\ run.link = s

\* verify_link
VerifyLink(r) ==
  /\ At(r, "verifyLink")
  /\ LET c == req[r] s == req[r].typed IN
     IF SentBy(c.run, s) /\ secret[s].live
     THEN /\ secret' = [secret EXCEPT ![s].live = FALSE]
          /\ proved' = proved \cup {<<secret[s].run, secret[s].uid>>}
          /\ Becomes(r, Succeed(c, SignInOnce([c.run EXCEPT !.verified = TRUE],
                                              secret[s].uid)))
     ELSE Becomes(r, Fail(c, c.run)) /\ UNCHANGED <<secret, proved>>
  /\ UNCHANGED <<users, keys, runs, resetPc, replaced, minted, shared, bounds>>

-----------------------------------------------------------------------------
(* Passkeys *)

\* passkey_start: what the ceremony is for.
PasskeyStart(r) ==
  /\ req[r].pc \in {"signUpStart", "signInStart", "updateStart"}
  /\ LET c == req[r]
         begin(u) == [c EXCEPT !.who = u, !.pc = "begin"]
     IN \/ /\ At(r, "signUpStart")
           /\ \E u \in Loaded(c.run.login) :
                Becomes(r, IF u # None THEN HandledError(c, c.run, "UserAlreadyExists")
                           ELSE begin(None))
        \/ /\ At(r, "signInStart")
           /\ \E u \in Loaded(c.run.login) :
                Becomes(r, IF u = None THEN HandledError(c, c.run, "UserDoesNotExists")
                           ELSE IF u \notin keys THEN ScreenError(c, c.run)
                           ELSE begin(u))
        \/ /\ At(r, "updateStart")
           /\ Becomes(r, IF Stored(c.run.auth) THEN begin(c.run.auth)
                         ELSE ScreenError(c, c.run))
  /\ UNCHANGED <<users, keys, secret, runs, resetPc, history, bounds>>

CeremonyOf(action) ==
  CASE action \in {"signUpStart", "signUpFinish"} -> "signUp"
    [] action \in {"signInStart", "signInFinish"} -> "signIn"
    [] action \in {"updateStart", "updateFinish"} -> "update"

\* WebAuthnStore::begin, and the wait at the finish step.
Begin(r, s) ==
  /\ At(r, "begin") /\ Fresh(s)
  /\ LET c == req[r] IN
     /\ secret' = [secret EXCEPT ![s] = [NoSecret EXCEPT
                     !.kind = CeremonyOf(Flow[c.at].action), !.uid = c.who,
                     !.login = c.run.login, !.live = TRUE]]
     /\ Becomes(r, Wait(c, c.run))
  /\ UNCHANGED <<users, keys, runs, resetPc, history, bounds>>

\* passkey_finish: the browser gave up, or take_transaction.
TakeCeremony(r) ==
  /\ req[r].pc \in {"signUpFinish", "signInFinish", "updateFinish"}
  /\ LET c == req[r] s == req[r].typed IN
     IF s # None /\ secret[s].live /\ secret[s].kind = CeremonyOf(c.pc)
     THEN /\ secret' = [secret EXCEPT ![s].live = FALSE]
          /\ Becomes(r, [c EXCEPT !.pc = secret[s].kind])
     ELSE Becomes(r, ScreenError(c, c.run)) /\ UNCHANGED secret
  /\ UNCHANGED <<users, keys, runs, resetPc, history, bounds>>

\* finish_assertion, against the passkeys of the ceremony's user.
AssertKey(r) ==
  /\ At(r, "signIn")
  /\ LET c == req[r] u == secret[req[r].typed].uid IN
     \/ Becomes(r, ScreenError(c, c.run)) /\ UNCHANGED proved
     \/ /\ u \in keys
        /\ proved' = proved \cup {<<c.x, u>>}
        /\ Becomes(r, Succeed(c, SignIn(c.run, u)))
  /\ UNCHANGED <<users, keys, secret, runs, resetPc, replaced, minted, shared, bounds>>

\* finish_registration for the signed-in user.
AddKey(r) ==
  /\ At(r, "update")
  /\ LET c == req[r] u == req[r].run.auth IN
     \/ Becomes(r, ScreenError(c, c.run)) /\ UNCHANGED keys
     \/ /\ u # None
        /\ keys' = keys \cup {u}
        /\ Becomes(r, Succeed(c, c.run))
  /\ UNCHANGED <<users, secret, runs, resetPc, history, bounds>>

\* finish_registration for a user that does not exist yet.
RegisterKey(r, u) ==
  /\ At(r, "signUp")
  /\ LET c == req[r] IN
     \/ Becomes(r, ScreenError(c, c.run)) /\ UNCHANGED <<status, keys>>
     \/ /\ status[u] = "unused"
        /\ status' = [status EXCEPT ![u] = "drawn"]
        /\ keys' = keys \cup {u}
        /\ Becomes(r, [c EXCEPT !.who = u, !.pc = "insertKeyUser"])
  /\ UNCHANGED <<owner, secret, runs, resetPc, history, bounds>>

InsertKeyUser(r) ==
  /\ At(r, "insertKeyUser")
  /\ LET c == req[r] l == secret[req[r].typed].login u == req[r].who IN
     \/ /\ l = None \/ Taken(l)
        /\ Becomes(r, ScreenError(c, c.run))
        /\ UNCHANGED <<users, proved>>
     \/ /\ ~Taken(l)
        /\ Insert(l, u)
        /\ proved' = proved \cup {<<c.x, u>>}
        /\ Becomes(r, Succeed(c, SignIn(c.run, u)))
  /\ UNCHANGED <<keys, secret, runs, resetPc, replaced, minted, shared, bounds>>

-----------------------------------------------------------------------------
(* SSO, and the end of a flow *)

\* sso_start: saml_start refuses, or names the URL to go to.
SsoStart(r) ==
  /\ At(r, "ssoStart")
  /\ LET c == req[r] IN Becomes(r, ScreenError(c, c.run)) \/ Becomes(r, Wait(c, c.run))
  /\ UNCHANGED <<users, keys, secret, runs, resetPc, history, bounds>>

\* The identity provider's answer: a code for a user, or for a tenant it knows
\* no user of.
Callback(s, u) ==
  /\ Fresh(s)
  /\ \E x \in Runs : runs[x] \notin {None, Swept} /\ Flow[runs[x].task].action = "ssoExchange"
  /\ u = None \/ Stored(u)
  /\ secret' = [secret EXCEPT ![s] = [NoSecret EXCEPT !.kind = "sso", !.uid = u,
                                                      !.live = TRUE]]
  /\ UNCHANGED <<users, keys, runs, req, resetPc, history, bounds>>

\* sso_exchange: consume takes a token of any kind.
SsoExchange(r) ==
  /\ At(r, "ssoExchange")
  /\ LET c == req[r] s == req[r].typed IN
     IF s # None /\ secret[s].live /\ secret[s].kind \in {"sso", "link"}
     THEN /\ secret' = [secret EXCEPT ![s].live = FALSE]
          /\ IF secret[s].uid = None THEN Becomes(r, Fail(c, c.run)) /\ UNCHANGED proved
             ELSE /\ proved' = proved \cup {<<c.x, secret[s].uid>>}
                  /\ Becomes(r, Succeed(c, SignIn(c.run, secret[s].uid)))
     ELSE Becomes(r, Fail(c, c.run)) /\ UNCHANGED <<secret, proved>>
  /\ UNCHANGED <<users, keys, runs, resetPc, replaced, minted, shared, bounds>>

\* logged_in: looked up, checked and minted for under one guard.
LoggedIn(r) ==
  /\ At(r, "loggedIn")
  /\ LET c == req[r] u == req[r].run.auth IN
     IF u # None /\ status[u] = "enabled"
     THEN /\ minted' = [minted EXCEPT ![c.x] = @ + 1]
          /\ Becomes(r, Stop([c EXCEPT !.session = u],
                             [c.run EXCEPT !.status = "completed"], "completed"))
     ELSE Becomes(r, Fail(c, c.run)) /\ UNCHANGED minted
  /\ UNCHANGED <<users, keys, secret, runs, resetPc, proved, replaced, shared, bounds>>

-----------------------------------------------------------------------------
(* Management and reset *)

Change == changes < MaxChanges /\ changes' = changes + 1

SetStatus(u, s) ==
  /\ Change /\ Stored(u) /\ status[u] # s
  /\ status' = [status EXCEPT ![u] = s]
  /\ UNCHANGED <<owner, keys, secret, runs, req, resetPc, history, calls>>

\* delete: the ids ls on the user's list go, one that another user registered
\* perhaps; the passkeys stay.
Delete(u, ls) ==
  /\ Change /\ Stored(u)
  /\ \A l \in Logins : owner[l] = u => l \in ls
  /\ status' = [status EXCEPT ![u] = "gone"]
  /\ owner' = [l \in Logins |-> IF l \in ls THEN None ELSE owner[l]]
  /\ UNCHANGED <<keys, secret, runs, req, resetPc, history, calls>>

\* reset_stores: users, codes, then passkeys and ceremonies; FlowStore::reset
\* keeps the runs, and the tokens are kept as well.
ResetUsers ==
  /\ Change
  /\ resetPc = "idle" /\ resetPc' = "otps"
  /\ status' = [u \in Uids |-> IF Stored(u) THEN "gone" ELSE status[u]]
  /\ owner' = [l \in Logins |-> None]
  /\ UNCHANGED <<keys, secret, runs, req, history, calls>>

Dead(kinds) ==
  [s \in Secrets |-> IF secret[s].kind \in kinds
                     THEN [secret[s] EXCEPT !.live = FALSE] ELSE secret[s]]

ResetOtps ==
  /\ resetPc = "otps" /\ resetPc' = "webauthn"
  /\ secret' = Dead({"code"})
  /\ UNCHANGED <<users, keys, runs, req, history, bounds>>

ResetWebAuthn ==
  /\ resetPc = "webauthn" /\ resetPc' = "idle"
  /\ secret' = Dead({"signUp", "signIn", "update"})
  /\ keys' = {}
  /\ UNCHANGED <<users, runs, req, history, bounds>>

-----------------------------------------------------------------------------
\* Any users may have signed up before, with or without passkeys.
Init ==
  /\ owner \in [Logins -> Uids \cup {None}]
  /\ \A l, m \in Logins : l # m /\ owner[l] # None => owner[l] # owner[m]
  /\ status = [u \in Uids |-> IF \E l \in Logins : owner[l] = u
                              THEN "enabled" ELSE "unused"]
  /\ keys \in SUBSET {u \in Uids : status[u] = "enabled"}
  /\ secret = [s \in Secrets |-> NoSecret]
  /\ runs = [x \in Runs |-> None]
  /\ req = [r \in Reqs |-> Idle]
  /\ resetPc = "idle"
  /\ proved = {} /\ replaced = {} /\ minted = [x \in Runs |-> 0] /\ shared = {}
  /\ calls = 0 /\ changes = 0

Serve(r) ==
  \/ Condition(r) \/ Noop(r)
  \/ PasswordSignIn(r) \/ PasswordTarget(r) \/ SetPassword(r)
  \/ CodeTarget(r) \/ VerifyCode(r) \/ LinkTarget(r) \/ VerifyLink(r)
  \/ \E u \in Uids : InsertUser(r, u) \/ RegisterKey(r, u)
  \/ \E s \in Secrets : StoreCode(r, s) \/ IssueLink(r, s) \/ Begin(r, s)
  \/ PasskeyStart(r) \/ TakeCeremony(r) \/ AssertKey(r) \/ AddKey(r) \/ InsertKeyUser(r)
  \/ SsoStart(r) \/ SsoExchange(r) \/ LoggedIn(r) \/ Save(r)

Manage ==
  \/ \E u \in Uids, ls \in SUBSET Logins : Delete(u, ls)
  \/ \E u \in Uids : SetStatus(u, "enabled") \/ SetStatus(u, "disabled")
  \/ ResetUsers \/ ResetOtps \/ ResetWebAuthn

Next ==
  \/ \E r \in Reqs : Arrive(r) \/ Serve(r)
  \/ \E s \in Secrets, u \in Uids \cup {None} : Callback(s, u)
  \/ Manage

Spec == Init /\ [][Next]_vars

-----------------------------------------------------------------------------
(* Properties *)

Call == [pc : Actions \cup {"idle", "save", "condition", "setPassword", "insertUser",
                            "storeCode", "issueLink", "begin", "signUp", "signIn",
                            "update", "insertKeyUser"},
         x : Runs \cup {None}, run : Run, at : Tasks, fuel : 0..MaxSteps,
         typed : Secrets \cup {None}, who : Uids \cup {None},
         env : {"none", "waiting", "screen", "completed", "failed"},
         session : Uids \cup {None}]

Secret == [kind : {"unused", "code", "link", "sso", "signUp", "signIn", "update"},
           uid : Uids \cup {None}, login : Logins \cup {None},
           run : Runs \cup {None}, live : BOOLEAN]

\* Every variable keeps its shape; in particular no call visits more tasks than
\* MAX_STEPS, in a flow whose tasks go round in a circle either.
TypeOK ==
  /\ owner \in [Logins -> Uids \cup {None}]
  /\ status \in [Uids -> {"unused", "drawn", "enabled", "disabled", "gone"}]
  /\ keys \in SUBSET Uids
  /\ secret \in [Secrets -> Secret]
  /\ runs \in [Runs -> Run \cup {None, Swept}]
  /\ req \in [Reqs -> Call]
  /\ resetPc \in {"idle", "otps", "webauthn"}
  /\ proved \in SUBSET (Runs \X Uids)
  /\ replaced \in SUBSET (Runs \X Uids)
  /\ minted \in [Runs -> Nat]
  /\ shared \in SUBSET Runs
  /\ calls \in Nat /\ changes \in Nat

\* However tabs overwrite each other's copies of a run, whatever login id the
\* last screen was sent with, at whichever step a call goes on, and whichever
\* links and codes are opened in which order, a run ends in a session only for a
\* user of whom proof was shown in it: a password, a code, an SSO code or a
\* passkey, or a link this run sent.  The exception is password-replace: while
\* nobody is signed in it signs in the user whose password it replaces.
SignsInProvedUser ==
  \A r \in Reqs : req[r].session # None
                    => <<req[r].x, req[r].session>> \in proved \cup replaced

\* A run that serves one call at a time ends in at most one session, however
\* often it is polled or submitted to afterwards.
OneSessionPerRun == \A x \in Runs \ shared : minted[x] <= 1
=============================================================================
