-------------------------- MODULE FlowEngineProofs --------------------------
(***************************************************************************)
(* Every run of every flow ends in a session only for a user of whom proof *)
(* was shown in it, or whose password it replaced while nobody was signed  *)
(* in, and a run that serves one call at a time ends in one session at     *)
(* most.  Every copy of a run, stored or in hand, carries what  *)
(* makes it so: who it has signed in has shown proof or had its password   *)
(* replaced (Cleared), and its link is one of its own (Sound).             *)
(* Copies overwrite each other, so the facts are about each copy and about *)
(* what only grows: who was cleared, and the secrets issued (Onward).      *)
(***************************************************************************)
EXTENDS FlowEngine, TLAPS

\* Who may be signed in, in which run.
Cleared == proved \cup replaced

\* The copy run of run x: pr is Cleared, sec is secret.
Sound(x, run, pr, sec) ==
  /\ run.auth # None => <<x, run.auth>> \in pr
  /\ run.link # None => sec[run.link].kind = "link" /\ sec[run.link].run = x

\* What the call q knows at its step.
Finds(q, pr, sec) ==
  /\ q.pc = "idle" => q.x = None
  /\ q.pc # "idle" => q.x \in Runs /\ Sound(q.x, q.run, pr, sec)
  /\ q.session # None => <<q.x, q.session>> \in pr
  /\ q.pc \in Actions => Flow[q.at].action = q.pc
  /\ q.pc = "begin" => Flow[q.at].action \in {"signUpStart", "signInStart", "updateStart"}
  /\ q.pc \in {"setPassword", "storeCode", "issueLink", "insertKeyUser"} => q.who \in Uids
  /\ q.pc \in {"signUp", "signIn", "insertKeyUser"} => q.typed \in Secrets

CallsInv == \A r \in Reqs : Finds(req[r], Cleared, secret)

RunsInv ==
  \A x \in Runs : runs[x] \notin {None, Swept} => Sound(x, runs[x], Cleared, secret)

SecretsInv ==
  \A s \in Secrets : /\ secret[s].kind \in {"code", "link"} => secret[s].uid \in Uids
                     /\ secret[s].kind = "link" => secret[s].run \in Runs

\* A copy that answers every later call without another session.
Ended(run) == run.status = "completed" /\ (run.verified => run.last # "none")

\* Run x, not shared, minted one session at most, and its latest copy has ended.
Once(x) ==
  /\ \A q, r \in Serves(x) : q = r
  /\ minted[x] <= 1
  /\ minted[x] # 0 =>
       /\ \A r \in Serves(x) : At(r, "save") /\ Ended(req[r].run)
       /\ Serves(x) = {} => runs[x] # None /\ (runs[x] # Swept => Ended(runs[x]))

MintedInv == \A x \in Runs \ shared : Once(x)

Inv == TypeOK /\ CallsInv /\ RunsInv /\ SecretsInv /\ MintedInv

-----------------------------------------------------------------------------
(* Walking the task graph *)

\* A call c at work, with the copy run.
Base(c, run, pr, sec) ==
  /\ c \in Call /\ c.x \in Runs
  /\ run \in Run /\ Sound(c.x, run, pr, sec)
  /\ c.session # None => <<c.x, c.session>> \in pr

\* What it may become: a call for the same run that knows what it should.
Good(c, n, pr, sec) ==
  n \in Call /\ n.x = c.x /\ n.pc # "idle" /\ Finds(n, pr, sec)

LEMMA IdleIsCall ==
  /\ NewRun(None) \in Run /\ Idle \in Call
  /\ \A l \in Logins \cup {None} : NewRun(l) \in Run
  /\ \A x, l, pr, sec : Sound(x, NewRun(l), pr, sec)
  /\ \A pr, sec : Finds(Idle, pr, sec)
<1>1. StartTask \in Tasks /\ MaxSteps \in Nat
  BY FlowEngineAssumption, FlowAssumption
<1>2. \A l \in Logins \cup {None} : NewRun(l) \in Run
  BY <1>1 DEF NewRun, Run
<1>3. NewRun(None) \in Run
  BY <1>2
<1>4. Idle \in Call
  BY <1>1, <1>3 DEF Idle, Call
<1>5. \A x, l, pr, sec : Sound(x, NewRun(l), pr, sec)
  BY <1>1 DEF NewRun, Sound
<1>6. \A pr, sec : Finds(Idle, pr, sec)
  BY DEF Idle, Finds, Actions
<1>7. QED BY <1>2, <1>3, <1>4, <1>5, <1>6

LEMMA AnswerGood ==
  ASSUME NEW c, NEW run, NEW pr, NEW sec, Base(c, run, pr, sec),
         NEW env \in {"waiting", "screen", "completed", "failed"}
  PROVE  /\ Good(c, Answer(c, run, env), pr, sec)
         /\ Answer(c, run, env).pc = "save" /\ Answer(c, run, env).run = run
<1> DEFINE n == Answer(c, run, env)
<1>1. /\ n.pc = "save" /\ n.x = c.x /\ n.run = run /\ n.session = c.session
      /\ n.at = Idle.at /\ n.fuel = Idle.fuel /\ n.typed = Idle.typed /\ n.who = Idle.who
      /\ n.env = env
  BY DEF Answer, Idle
<1>2. /\ c.x \in Runs /\ run \in Run /\ c.session \in Uids \cup {None} /\ Idle \in Call
  BY IdleIsCall DEF Base, Call
<1>3. n \in Call
  <2>1. \A d \in Call, x \in Runs, u \in Uids \cup {None} :
          [d EXCEPT !.pc = "save", !.x = x, !.run = run, !.env = env, !.session = u] \in Call
    BY <1>2 DEF Call
  <2>2. QED BY <1>2, <2>1 DEF Answer
<1> HIDE DEF n
<1>4. Finds(n, pr, sec)
  BY <1>1 DEF Base, Finds, Actions
<1>5. QED BY <1>1, <1>3, <1>4 DEF Good, n

LEMMA RememberGood ==
  ASSUME NEW c, NEW run, NEW pr, NEW sec, Base(c, run, pr, sec),
         NEW env \in {"waiting", "screen", "completed", "failed"}
  PROVE  /\ Base(c, Remember(run, env), pr, sec)
         /\ Remember(run, env).status = run.status
         /\ Remember(run, env).verified => Remember(run, env).last # "none"
<1>1. [run EXCEPT !.last = env] \in Run
  BY DEF Base, Run
<1>2. QED BY <1>1 DEF Base, Run, Sound, Remember

LEMMA StopGood ==
  ASSUME NEW c, NEW run, NEW pr, NEW sec, Base(c, run, pr, sec),
         NEW env \in {"waiting", "screen", "completed", "failed"}
  PROVE  /\ Good(c, Stop(c, run, env), pr, sec)
         /\ Stop(c, run, env).pc = "save"
         /\ run.status = "completed" => Ended(Stop(c, run, env).run)
BY RememberGood, AnswerGood DEF Stop, Ended

LEMMA LostGood ==
  ASSUME NEW c, NEW run, NEW pr, NEW sec, Base(c, run, pr, sec)
  PROVE  Good(c, Lost(c, run), pr, sec) /\ Lost(c, run).pc = "save" /\ Lost(c, run).run = run
BY AnswerGood DEF Lost

LEMMA FailGood ==
  ASSUME NEW c, NEW run, NEW pr, NEW sec, Base(c, run, pr, sec)
  PROVE  Good(c, Fail(c, run), pr, sec)
<1> DEFINE new == [run EXCEPT !.status = "failed"]
<1>1. Base(c, new, pr, sec)
  BY DEF Base, Run, Sound
<1> HIDE DEF new
<1>2. QED BY <1>1, StopGood DEF Fail, new

LEMMA ScreenErrorGood ==
  ASSUME NEW c, NEW run, NEW pr, NEW sec, Base(c, run, pr, sec)
  PROVE  Good(c, ScreenError(c, run), pr, sec)
<1> DEFINE new == [run EXCEPT !.task = run.screen]
<1>1. CASE run.screen = None
  BY <1>1, LostGood DEF ScreenError
<1>2. CASE run.screen # None
  <2>1. Base(c, new, pr, sec)
    BY <1>2 DEF Base, Run, Sound
  <2> HIDE DEF new
  <2>2. QED BY <1>2, <2>1, StopGood DEF ScreenError, new
<1>3. QED BY <1>1, <1>2

LEMMA WaitGood ==
  ASSUME NEW c, NEW run, NEW pr, NEW sec, Base(c, run, pr, sec),
         Flow[c.at].action \in Waiting
  PROVE  Good(c, Wait(c, run), pr, sec)
<1> DEFINE t == Flow[c.at].finish
           new == [run EXCEPT !.task = t]
<1>1. c.at \in Tasks
  BY DEF Base, Call
<1>2. t \in Tasks
  BY <1>1, FlowAssumption, FlowEngineAssumption
<1> HIDE DEF t
<1>3. Base(c, new, pr, sec)
  BY <1>2 DEF Base, Run, Sound
<1> HIDE DEF new
<1>4. QED BY <1>3, StopGood DEF Wait, new, t

\* drive, at the next task.
LEMMA EnterGood ==
  ASSUME NEW c, NEW run, NEW pr, NEW sec, Base(c, run, pr, sec), NEW t
  PROVE  Good(c, Enter(c, run, t), pr, sec)
<1>1. CASE OutOfSteps(c) \/ t \notin Tasks
  BY <1>1, LostGood DEF Enter
<1>2. CASE ~OutOfSteps(c) /\ t \in Tasks /\ Flow[t].type = "screen"
  <2> DEFINE new == [run EXCEPT !.task = t, !.screen = t]
  <2>1. Base(c, new, pr, sec)
    BY <1>2 DEF Base, Run, Sound
  <2> HIDE DEF new
  <2>2. QED BY <1>2, <2>1, StopGood DEF Enter, ShowScreen, new
<1>3. CASE ~OutOfSteps(c) /\ t \in Tasks /\ Flow[t].type # "screen"
  <2> DEFINE step == IF Flow[t].type = "automated" THEN Flow[t].action ELSE Flow[t].type
             n == [c EXCEPT !.run = run, !.at = t, !.fuel = c.fuel - 1, !.pc = step]
  <2>1. /\ step \in Actions \cup {"condition"}
        /\ step \in Actions => Flow[t].action = step
    BY <1>3, FlowAssumption DEF Actions
  <2>2. c.fuel - 1 \in 0..MaxSteps
    BY <1>3, FlowEngineAssumption DEF OutOfSteps, Base, Call
  <2> HIDE DEF step
  <2>3. step # "idle" /\ step # "save"
    BY <2>1 DEF Actions
  <2>4. n \in Call
    BY <1>3, <2>1, <2>2 DEF Base, Call
  <2>5. n.pc = step /\ n.x = c.x /\ n.run = run /\ n.at = t /\ n.session = c.session
    BY DEF Base, Call
  <2> HIDE DEF n
  <2>6. Finds(n, pr, sec)
    BY <2>1, <2>5 DEF Base, Finds, Actions
  <2>7. Good(c, n, pr, sec)
    BY <2>3, <2>4, <2>5, <2>6 DEF Good
  <2>8. Enter(c, run, t) = n
    BY <1>3 DEF Enter, n, step
  <2>9. QED BY <2>7, <2>8
<1>4. QED BY <1>1, <1>2, <1>3

LEMMA ProceedGood ==
  ASSUME NEW c, NEW run, NEW pr, NEW sec, Base(c, run, pr, sec), NEW choice
  PROVE  Good(c, Proceed(c, run, choice), pr, sec)
BY LostGood, EnterGood DEF Proceed

LEMMA HandledErrorGood ==
  ASSUME NEW c, NEW run, NEW pr, NEW sec, Base(c, run, pr, sec), NEW choice
  PROVE  Good(c, HandledError(c, run, choice), pr, sec)
BY ProceedGood, ScreenErrorGood DEF HandledError

LEMMA SucceedGood ==
  ASSUME NEW c, NEW run, NEW pr, NEW sec, Base(c, run, pr, sec)
  PROVE  Good(c, Succeed(c, run), pr, sec)
BY ProceedGood DEF Succeed

-----------------------------------------------------------------------------
(* What every step leaves true *)

\* Who was cleared stays so, and a secret that was issued stays what it is.
Onward ==
  /\ Cleared \subseteq Cleared'
  /\ \A s \in Secrets : ~Fresh(s) =>
       secret'[s].kind = secret[s].kind /\ secret'[s].run = secret[s].run

LEMMA SoundKept ==
  ASSUME Onward, NEW x, NEW run \in Run, Sound(x, run, Cleared, secret)
  PROVE  Sound(x, run, Cleared', secret')
BY DEF Onward, Sound, Run, Fresh

LEMMA FindsKept ==
  ASSUME Onward, NEW q \in Call, Finds(q, Cleared, secret)
  PROVE  Finds(q, Cleared', secret')
<1>1. q.pc # "idle" => q.x \in Runs /\ Sound(q.x, q.run, Cleared', secret')
  BY SoundKept DEF Finds, Call
<1>2. q.session # None => <<q.x, q.session>> \in Cleared'
  BY DEF Finds, Onward
<1>3. QED BY <1>1, <1>2 DEF Finds

\* The types of the variables other than req.
Rest ==
  /\ owner \in [Logins -> Uids \cup {None}]
  /\ status \in [Uids -> {"unused", "drawn", "enabled", "disabled", "gone"}]
  /\ keys \in SUBSET Uids
  /\ secret \in [Secrets -> Secret]
  /\ runs \in [Runs -> Run \cup {None, Swept}]
  /\ resetPc \in {"idle", "otps", "webauthn"}
  /\ proved \in SUBSET (Runs \X Uids)
  /\ replaced \in SUBSET (Runs \X Uids)
  /\ minted \in [Runs -> Nat]
  /\ shared \in SUBSET Runs
  /\ calls \in Nat /\ changes \in Nat

LEMMA TypeParts == TypeOK <=> Rest /\ req \in [Reqs -> Call]
BY DEF TypeOK, Rest

LEMMA TypePartsNext == TypeOK' <=> Rest' /\ req' \in [Reqs -> Call]
BY DEF TypeOK, Rest

\* A step of one request at most.
LEMMA CallsStep ==
  ASSUME Inv, Onward, NEW r, NEW n, n \in Call, Finds(n, Cleared', secret'),
         req' = [req EXCEPT ![r] = n]
  PROVE  CallsInv' /\ req' \in [Reqs -> Call]
<1>1. req \in [Reqs -> Call]
  BY DEF Inv, TypeOK
<1>2. req' \in [Reqs -> Call]
  BY <1>1
<1>3. ASSUME NEW q \in Reqs PROVE Finds(req'[q], Cleared', secret')
  <2>1. req'[q] = n \/ req'[q] = req[q]
    BY <1>1
  <2>2. req[q] \in Call /\ Finds(req[q], Cleared, secret)
    BY <1>1 DEF Inv, CallsInv
  <2>3. Finds(req[q], Cleared', secret')
    BY <2>2, FindsKept
  <2>4. QED BY <2>1, <2>3
<1>4. QED BY <1>2, <1>3 DEF CallsInv

LEMMA RunsStill ==
  ASSUME Inv, Onward, UNCHANGED runs
  PROVE  RunsInv'
<1>1. ASSUME NEW x \in Runs, runs[x] \notin {None, Swept}
      PROVE  Sound(x, runs[x], Cleared', secret')
  <2>1. runs[x] \in Run /\ Sound(x, runs[x], Cleared, secret)
    BY <1>1 DEF Inv, TypeOK, RunsInv
  <2>2. QED BY <2>1, SoundKept
<1>2. QED BY <1>1 DEF RunsInv

\* A step of a call that walks on.
LEMMA ServeStep ==
  ASSUME Inv, Onward, NEW r \in Reqs, NEW n, req[r].pc \notin {"idle", "save"},
         Good(req[r], n, Cleared', secret'), Becomes(r, n),
         UNCHANGED <<runs, minted, shared>>, SecretsInv', Rest'
  PROVE  Inv'
<1>1. req \in [Reqs -> Call] /\ req' = [req EXCEPT ![r] = n] /\ n.x = req[r].x
  BY DEF Inv, TypeOK, Becomes, Good
<1>2. CallsInv' /\ req' \in [Reqs -> Call]
  BY <1>1, CallsStep DEF Good
<1>3. ASSUME NEW x \in Runs \ shared PROVE Once(x)'
  <2>1. Once(x)
    BY <1>3 DEF Inv, MintedInv
  <2>2. Serves(x)' = Serves(x)
    BY <1>1 DEF Serves
  <2>3. CASE r \in Serves(x)
    <3>1. minted[x] = 0
      BY <2>1, <2>3 DEF Once, At
    <3>2. QED BY <2>1, <2>2, <3>1 DEF Once
  <2>4. CASE r \notin Serves(x)
    <3>1. \A q \in Serves(x) : req'[q] = req[q]
      BY <1>1, <2>4 DEF Serves
    <3>2. QED BY <2>1, <2>2, <3>1 DEF Once, At
  <2>5. QED BY <2>3, <2>4
<1>4. MintedInv'
  BY <1>3 DEF MintedInv
<1>5. QED BY <1>2, <1>4, RunsStill, TypePartsNext DEF Inv

\* One that changes nothing else.
LEMMA OwnStep ==
  ASSUME Inv, NEW r \in Reqs, NEW n, req[r].pc \notin {"idle", "save"},
         Good(req[r], n, Cleared, secret), Becomes(r, n), UNCHANGED <<secret, runs, history>>,
         Rest'
  PROVE  Inv'
<1>1. Cleared' = Cleared /\ secret' = secret /\ UNCHANGED <<minted, shared>>
  BY DEF history, Cleared
<1>2. Onward
  BY <1>1 DEF Onward, Cleared
<1>3. Good(req[r], n, Cleared', secret')
  BY <1>1
<1>4. SecretsInv'
  BY <1>1 DEF Inv, SecretsInv
<1>5. QED BY <1>1, <1>2, <1>3, <1>4, ServeStep

LEMMA RestStill ==
  ASSUME Inv, UNCHANGED <<users, keys, secret, runs, resetPc, history, bounds>>
  PROVE  Rest'
BY DEF Inv, TypeOK, Rest, users, history, bounds

\* A call at work, and once others have moved on.
LEMMA Before ==
  ASSUME Inv, NEW r \in Reqs, req[r].pc \notin {"idle", "save"}
  PROVE  /\ req[r] \in Call /\ Finds(req[r], Cleared, secret) /\ req[r].run \in Run
         /\ Base(req[r], req[r].run, Cleared, secret)
<1>1. req[r] \in Call /\ Finds(req[r], Cleared, secret)
  BY DEF Inv, TypeOK, CallsInv
<1>2. req[r].run \in Run
  BY <1>1 DEF Call
<1>3. QED BY <1>1, <1>2 DEF Finds, Base

LEMMA AtWork ==
  ASSUME Inv, Onward, NEW r \in Reqs, req[r].pc \notin {"idle", "save"}
  PROVE  /\ req[r] \in Call /\ Finds(req[r], Cleared, secret) /\ req[r].run \in Run
         /\ Base(req[r], req[r].run, Cleared, secret)
         /\ Base(req[r], req[r].run, Cleared', secret')
<1>1. req[r] \in Call /\ Finds(req[r], Cleared, secret)
  BY Before
<1>2. Finds(req[r], Cleared', secret')
  BY <1>1, FindsKept
<1>3. QED BY <1>2, Before DEF Finds, Base

LEMMA Still ==
  ASSUME UNCHANGED <<secret, history>>
  PROVE  Onward
BY DEF Onward, Cleared, history

\* A call that goes on to another step of its action, with what that has to know.
LEMMA GoOnGood ==
  ASSUME NEW c \in Call, NEW pr, NEW sec, Finds(c, pr, sec), c.pc \notin {"idle", "save"},
         NEW n \in Call, n.x = c.x, n.run = c.run, n.at = c.at, n.session = c.session,
         n.pc \in {"setPassword", "insertUser", "storeCode", "issueLink", "update", "begin",
                   "signUp", "signIn", "insertKeyUser"},
         n.pc = "begin" => Flow[c.at].action \in {"signUpStart", "signInStart", "updateStart"},
         n.pc \in {"setPassword", "storeCode", "issueLink", "insertKeyUser"} => n.who \in Uids,
         n.pc \in {"signUp", "signIn", "insertKeyUser"} => n.typed \in Secrets
  PROVE  Good(c, n, pr, sec)
<1>1. n.pc \notin Actions /\ n.pc # "idle"
  BY DEF Actions
<1>2. QED BY <1>1 DEF Finds, Good

\* A step that changes the call only, and what the call is before.
LEMMA PlainStep ==
  ASSUME Inv, NEW r \in Reqs, NEW n, req[r].pc \notin {"idle", "save"},
         Good(req[r], n, Cleared, secret), Becomes(r, n),
         UNCHANGED <<users, keys, secret, runs, resetPc, history, bounds>>
  PROVE  Inv'
BY OwnStep, RestStill

-----------------------------------------------------------------------------
(* Conditions and passwords *)

LEMMA ConditionStep ==
  ASSUME Inv, NEW r \in Reqs, Condition(r)
  PROVE  Inv'
<1> DEFINE c == req[r]
<1>1. c.pc = "condition" /\ UNCHANGED <<users, keys, secret, runs, resetPc, history, bounds>>
  BY DEF Condition, At
<1>2. PICK choice : Becomes(r, Proceed(c, c.run, choice))
  BY DEF Condition, Loaded
<1>3. Base(c, c.run, Cleared, secret)
  BY <1>1, Before DEF Finds
<1>4. Good(c, Proceed(c, c.run, choice), Cleared, secret)
  BY <1>3, ProceedGood
<1>5. QED BY <1>1, <1>2, <1>4, PlainStep

LEMMA NoopStep ==
  ASSUME Inv, NEW r \in Reqs, Noop(r)
  PROVE  Inv'
<1> DEFINE c == req[r]
<1>1. /\ c.pc = "noop" /\ UNCHANGED <<users, keys, secret, runs, resetPc, history, bounds>>
      /\ Becomes(r, Succeed(c, c.run))
  BY DEF Noop, At
<1>2. Base(c, c.run, Cleared, secret)
  BY <1>1, Before
<1>3. Good(c, Succeed(c, c.run), Cleared, secret)
  BY <1>2, SucceedGood
<1>4. QED BY <1>1, <1>3, PlainStep

\* A run that signs in a user of whom proof was shown in it.
LEMMA SignedInBase ==
  ASSUME NEW c, NEW run, NEW pr, NEW sec, Base(c, run, pr, sec), NEW u \in Uids,
         <<c.x, u>> \in pr
  PROVE  /\ Base(c, SignIn(run, u), pr, sec) /\ SignIn(run, u).auth # None
         /\ Base(c, SignInOnce(run, u), pr, sec) /\ SignInOnce(run, u).auth # None
<1>1. u # None
  BY FlowEngineAssumption
<1>2. Base(c, SignIn(run, u), pr, sec) /\ SignIn(run, u).auth = u
  BY <1>1 DEF Base, Run, Sound, SignIn
<1>3. QED BY <1>1, <1>2 DEF SignInOnce

\* Whom a lookup finds.
LEMMA LoadedIs ==
  ASSUME Inv, NEW l \in Logins \cup {None}, NEW u \in Loaded(l)
  PROVE  u \in Uids \cup {None}
BY DEF Inv, TypeOK, Loaded

LEMMA TargetIs ==
  ASSUME Inv, NEW run \in Run, NEW u \in Targets(run)
  PROVE  u \in Uids \cup {None}
BY LoadedIs DEF Targets, Run

LEMMA PasswordSignInStep ==
  ASSUME Inv, NEW r \in Reqs, PasswordSignIn(r)
  PROVE  Inv'
<1> DEFINE c == req[r]
<1>1. /\ c.pc = "passwordSignIn"
      /\ UNCHANGED <<users, keys, secret, runs, resetPc, replaced, minted, shared, bounds>>
  BY DEF PasswordSignIn, At
<1>2. Base(c, c.run, Cleared, secret)
  BY <1>1, Before
<1>3. CASE Becomes(r, ScreenError(c, c.run)) /\ UNCHANGED proved
  <2>1. Good(c, ScreenError(c, c.run), Cleared, secret)
    BY <1>2, ScreenErrorGood
  <2>2. QED BY <1>1, <1>3, <2>1, PlainStep DEF history
<1>4. CASE Becomes(r, HandledError(c, c.run, "UserDoesNotExists")) /\ UNCHANGED proved
  <2>1. Good(c, HandledError(c, c.run, "UserDoesNotExists"), Cleared, secret)
    BY <1>2, HandledErrorGood
  <2>2. QED BY <1>1, <1>4, <2>1, PlainStep DEF history
<1>5. ASSUME NEW u \in Loaded(c.run.login), u # None, proved' = proved \cup {<<c.x, u>>},
             Becomes(r, Succeed(c, SignIn(c.run, u)))
      PROVE  Inv'
  <2>1. c.x \in Runs /\ c.run.login \in Logins \cup {None}
    BY <1>2 DEF Base, Run
  <2>2. u \in Uids
    BY <1>5, <2>1, LoadedIs
  <2>3. Onward
    BY <1>1, <1>5 DEF Onward, Cleared
  <2>4. Base(c, c.run, Cleared', secret')
    BY <1>1, <2>3, AtWork
  <2>5. <<c.x, u>> \in Cleared'
    BY <1>5 DEF Cleared
  <2>6. Good(c, Succeed(c, SignIn(c.run, u)), Cleared', secret')
    BY <2>2, <2>4, <2>5, SignedInBase, SucceedGood
  <2>7. Rest'
    BY <1>1, <1>5, <2>1, <2>2 DEF Rest, Inv, TypeOK, users, bounds
  <2>8. SecretsInv'
    BY <1>1 DEF Inv, SecretsInv
  <2>9. QED BY <1>1, <1>5, <2>3, <2>6, <2>7, <2>8, ServeStep
<1>6. QED BY <1>3, <1>4, <1>5 DEF PasswordSignIn

\* A call that goes on for a user it found.
LEMMA ForUserGood ==
  ASSUME Inv, NEW r \in Reqs, req[r].pc \notin {"idle", "save"}, NEW u \in Uids,
         NEW step \in {"setPassword", "storeCode", "issueLink"}
  PROVE  Good(req[r], [req[r] EXCEPT !.who = u, !.pc = step], Cleared, secret)
<1> DEFINE c == req[r]
           n == [c EXCEPT !.who = u, !.pc = step]
<1>1. c \in Call /\ Finds(c, Cleared, secret)
  BY Before
<1>2. n \in Call /\ n.pc = step /\ n.who = u /\ n.x = c.x /\ n.run = c.run /\ n.at = c.at
      /\ n.session = c.session
  BY <1>1 DEF Call
<1> HIDE DEF n
<1>3. QED BY <1>1, <1>2, GoOnGood DEF n

LEMMA PasswordTargetStep ==
  ASSUME Inv, NEW r \in Reqs, PasswordTarget(r)
  PROVE  Inv'
<1> DEFINE c == req[r]
           n(u) == [c EXCEPT !.who = u, !.pc = "setPassword"]
<1>1. /\ c.pc \in {"passwordReplace", "passwordUpdate"}
      /\ UNCHANGED <<users, keys, secret, runs, resetPc, history, bounds>>
  BY DEF PasswordTarget
<1>2. PICK u \in IF At(r, "passwordReplace") THEN Targets(c.run) ELSE {c.run.auth} :
        Becomes(r, IF u = None THEN ScreenError(c, c.run) ELSE n(u))
  BY DEF PasswordTarget
<1>3. /\ c \in Call /\ Finds(c, Cleared, secret) /\ c.run \in Run
      /\ Base(c, c.run, Cleared, secret)
  BY <1>1, Before
<1>4. CASE u = None
  <2>1. Good(c, ScreenError(c, c.run), Cleared, secret)
    BY <1>3, ScreenErrorGood
  <2>2. QED BY <1>1, <1>2, <1>4, <2>1, PlainStep
<1>5. CASE u # None
  <2>1. u \in Uids
    BY <1>2, <1>3, <1>5, TargetIs DEF Run
  <2>2. Good(c, n(u), Cleared, secret)
    BY <1>1, <2>1, ForUserGood
  <2>3. Becomes(r, n(u))
    BY <1>2, <1>5
  <2> HIDE DEF n
  <2>4. QED BY <1>1, <2>2, <2>3, PlainStep
<1>6. QED BY <1>4, <1>5

LEMMA SetPasswordStep ==
  ASSUME Inv, NEW r \in Reqs, SetPassword(r)
  PROVE  Inv'
<1> DEFINE c == req[r]
           u == c.who
           run == SignInOnce(c.run, u)
<1>1. /\ c.pc = "setPassword"
      /\ UNCHANGED <<users, keys, secret, runs, resetPc, proved, minted, shared, bounds>>
      /\ Becomes(r, Succeed(c, run)) \/ Becomes(r, ScreenError(c, run))
      /\ replaced' = IF c.run.auth = None THEN replaced \cup {<<c.x, u>>} ELSE replaced
  BY DEF SetPassword, At
<1>2. c \in Call /\ Finds(c, Cleared, secret) /\ Base(c, c.run, Cleared, secret)
  BY <1>1, Before
<1>3. u \in Uids /\ c.x \in Runs
  BY <1>1, <1>2 DEF Finds, Base
<1>4. Onward
  BY <1>1 DEF Onward, Cleared
<1>5. Base(c, c.run, Cleared', secret')
  BY <1>1, <1>4, AtWork
<1>6. Base(c, run, Cleared', secret')
  <2>1. CASE c.run.auth = None
    <3>1. <<c.x, u>> \in Cleared'
      BY <1>1, <2>1 DEF Cleared
    <3>2. QED BY <1>3, <1>5, <3>1, SignedInBase
  <2>2. CASE c.run.auth # None
    BY <1>5, <2>2 DEF SignInOnce
  <2>3. QED BY <2>1, <2>2
<1> HIDE DEF run
<1>7. Good(c, Succeed(c, run), Cleared', secret') /\ Good(c, ScreenError(c, run), Cleared', secret')
  BY <1>6, SucceedGood, ScreenErrorGood
<1>8. Rest'
  BY <1>1, <1>3 DEF Rest, Inv, TypeOK, users, bounds
<1>9. SecretsInv'
  BY <1>1 DEF Inv, SecretsInv
<1>10. QED BY <1>1, <1>4, <1>7, <1>8, <1>9, ServeStep

-----------------------------------------------------------------------------
(* Codes and links *)

LEMMA CodeTargetStep ==
  ASSUME Inv, NEW r \in Reqs, CodeTarget(r)
  PROVE  Inv'
<1> DEFINE c == req[r]
           m(u) == [c EXCEPT !.who = u, !.pc = "storeCode"]
           n == [c EXCEPT !.pc = "insertUser"]
<1>1. /\ c.pc \in {"sendCode", "signUpCode"}
      /\ UNCHANGED <<users, keys, secret, runs, resetPc, history, bounds>>
  BY DEF CodeTarget
<1>2. PICK u \in Targets(c.run) :
        Becomes(r, IF u # None THEN m(u) ELSE IF MaySignUp(c) THEN n
                   ELSE HandledError(c, c.run, "UserDoesNotExists"))
  BY DEF CodeTarget
<1>3. /\ c \in Call /\ Finds(c, Cleared, secret) /\ c.run \in Run
      /\ Base(c, c.run, Cleared, secret)
  BY <1>1, Before
<1>4. CASE u # None
  <2>1. u \in Uids
    BY <1>3, <1>4, TargetIs
  <2>2. Good(c, m(u), Cleared, secret)
    BY <1>1, <2>1, ForUserGood
  <2>3. Becomes(r, m(u))
    BY <1>2, <1>4
  <2> HIDE DEF m
  <2>4. QED BY <1>1, <2>2, <2>3, PlainStep
<1>5. CASE Becomes(r, n)
  <2>1. n \in Call /\ n.pc = "insertUser" /\ n.x = c.x /\ n.run = c.run /\ n.at = c.at
        /\ n.session = c.session
    BY <1>3 DEF Call
  <2> HIDE DEF n
  <2>2. Good(c, n, Cleared, secret)
    BY <1>1, <1>3, <2>1, GoOnGood
  <2>3. QED BY <1>1, <1>5, <2>2, PlainStep
<1>6. CASE Becomes(r, HandledError(c, c.run, "UserDoesNotExists"))
  <2>1. Good(c, HandledError(c, c.run, "UserDoesNotExists"), Cleared, secret)
    BY <1>3, HandledErrorGood
  <2>2. QED BY <1>1, <1>6, <2>1, PlainStep
<1>7. QED BY <1>2, <1>4, <1>5, <1>6

\* A fresh user is stored.
LEMMA InsertRest ==
  ASSUME Inv, NEW l, NEW u \in Uids, Insert(l, u)
  PROVE  /\ owner' \in [Logins -> Uids \cup {None}]
         /\ status' \in [Uids -> {"unused", "drawn", "enabled", "disabled", "gone"}]
BY DEF Inv, TypeOK, Insert

LEMMA InsertUserStep ==
  ASSUME Inv, NEW r \in Reqs, NEW u \in Uids, InsertUser(r, u)
  PROVE  Inv'
<1> DEFINE c == req[r]
           l == Lower[c.run.login]
           n == [c EXCEPT !.who = u, !.pc = "storeCode"]
<1>1. c.pc = "insertUser" /\ UNCHANGED <<keys, secret, runs, resetPc, history, bounds>>
  BY DEF InsertUser, At
<1>2. /\ c \in Call /\ Finds(c, Cleared, secret) /\ c.run \in Run
      /\ Base(c, c.run, Cleared, secret)
  BY <1>1, Before
<1>3. CASE Becomes(r, ScreenError(c, c.run)) /\ UNCHANGED users
  <2>1. Good(c, ScreenError(c, c.run), Cleared, secret)
    BY <1>2, ScreenErrorGood
  <2>2. QED BY <1>1, <1>3, <2>1, PlainStep
<1>4. CASE ~Taken(l) /\ Insert(l, u) /\ Becomes(r, n)
  <2>1. owner' \in [Logins -> Uids \cup {None}]
        /\ status' \in [Uids -> {"unused", "drawn", "enabled", "disabled", "gone"}]
    BY <1>4, InsertRest
  <2>2. Good(c, n, Cleared, secret)
    BY <1>1, ForUserGood
  <2>3. Rest'
    BY <1>1, <2>1 DEF Rest, Inv, TypeOK, history, bounds
  <2>4. QED BY <1>1, <1>4, <2>2, <2>3, OwnStep
<1>5. QED BY <1>3, <1>4 DEF InsertUser

\* A secret that is issued for a call.
LEMMA IssueFacts ==
  ASSUME Inv, UNCHANGED history, NEW s \in Secrets, Fresh(s), NEW d \in Secret,
         d.kind \in {"code", "link"} => d.uid \in Uids, d.kind = "link" => d.run \in Runs,
         secret' \in [Secrets -> Secret], secret'[s] = d,
         \A t \in Secrets \ {s} : /\ secret'[t].kind = secret[t].kind
                                  /\ secret'[t].uid = secret[t].uid
                                  /\ secret'[t].run = secret[t].run
  PROVE  Onward /\ SecretsInv'
BY DEF Onward, Cleared, history, Fresh, Inv, SecretsInv

LEMMA StoreCodeStep ==
  ASSUME Inv, NEW r \in Reqs, NEW s \in Secrets, StoreCode(r, s)
  PROVE  Inv'
<1> DEFINE c == req[r]
           d == [NoSecret EXCEPT !.kind = "code", !.uid = c.who, !.live = TRUE]
           run == [c.run EXCEPT !.code = c.who]
<1>1. /\ c.pc = "storeCode" /\ Fresh(s) /\ Becomes(r, Succeed(c, run))
      /\ secret' = [t \in Secrets |->
           IF t = s THEN d
           ELSE IF secret[t].kind = "code" /\ secret[t].uid = c.who
                THEN [secret[t] EXCEPT !.live = FALSE] ELSE secret[t]]
      /\ UNCHANGED <<users, keys, runs, resetPc, history, bounds>>
  BY DEF StoreCode, At
<1>2. c \in Call /\ Finds(c, Cleared, secret) /\ c.run \in Run
  BY <1>1, Before
<1>3. c.who \in Uids
  BY <1>1, <1>2 DEF Finds
<1>4. d \in Secret /\ d.kind = "code" /\ d.uid = c.who
  BY <1>3 DEF NoSecret, Secret
<1> HIDE DEF d
<1>5. secret \in [Secrets -> Secret]
  BY DEF Inv, TypeOK
<1>6. \A e \in Secret : /\ [e EXCEPT !.live = FALSE] \in Secret
                        /\ [e EXCEPT !.live = FALSE].kind = e.kind
                        /\ [e EXCEPT !.live = FALSE].uid = e.uid
                        /\ [e EXCEPT !.live = FALSE].run = e.run
  BY DEF Secret
<1>7. /\ secret' \in [Secrets -> Secret] /\ secret'[s] = d
      /\ \A t \in Secrets \ {s} : /\ secret'[t].kind = secret[t].kind
                                  /\ secret'[t].uid = secret[t].uid
                                  /\ secret'[t].run = secret[t].run
  BY <1>1, <1>4, <1>5, <1>6
<1>8. Onward /\ SecretsInv'
  BY <1>1, <1>3, <1>4, <1>7, IssueFacts DEF history
<1>9. Base(c, c.run, Cleared', secret')
  BY <1>1, <1>8, AtWork
<1>10. Base(c, run, Cleared', secret')
  BY <1>3, <1>9 DEF Base, Run, Sound
<1> HIDE DEF run
<1>11. Good(c, Succeed(c, run), Cleared', secret')
  BY <1>3, <1>10, SucceedGood
<1>12. Rest'
  BY <1>1, <1>7 DEF Rest, Inv, TypeOK, users, history, bounds
<1>13. QED BY <1>1, <1>8, <1>11, <1>12, ServeStep DEF history

\* A secret that is used up.
LEMMA UseFacts ==
  ASSUME Inv, proved \subseteq proved', UNCHANGED replaced, NEW s \in Secrets,
         secret' = [secret EXCEPT ![s].live = FALSE]
  PROVE  Onward /\ SecretsInv' /\ secret' \in [Secrets -> Secret]
<1>1. secret \in [Secrets -> Secret]
  BY DEF Inv, TypeOK
<1>2. secret' \in [Secrets -> Secret]
  BY <1>1 DEF Secret
<1>3. \A t \in Secrets : /\ secret'[t].kind = secret[t].kind
                         /\ secret'[t].uid = secret[t].uid /\ secret'[t].run = secret[t].run
  BY <1>1 DEF Secret
<1>4. QED BY <1>2, <1>3 DEF Onward, Cleared, Fresh, Inv, SecretsInv

\* A call that used a secret, or not, and shows its screen again or fails.
LEMMA UsedStep ==
  ASSUME Inv, NEW r \in Reqs, NEW s \in Secrets, req[r].pc \notin {"idle", "save"},
         NEW n, Good(req[r], n, Cleared', secret'), Becomes(r, n),
         secret' = [secret EXCEPT ![s].live = FALSE],
         proved \subseteq proved', proved' \in SUBSET (Runs \X Uids),
         UNCHANGED <<users, keys, runs, resetPc, replaced, minted, shared, bounds>>
  PROVE  Inv'
<1>1. Onward /\ SecretsInv' /\ secret' \in [Secrets -> Secret]
  BY UseFacts
<1>2. Rest'
  BY <1>1 DEF Rest, Inv, TypeOK, users, bounds
<1>3. QED BY <1>1, <1>2, ServeStep

LEMMA VerifyCodeStep ==
  ASSUME Inv, NEW r \in Reqs, VerifyCode(r)
  PROVE  Inv'
<1> DEFINE c == req[r]
           s == c.typed
           u == c.run.code
<1>1. c.pc = "verifyCode" /\ UNCHANGED <<users, keys, runs, resetPc, replaced, minted, shared, bounds>>
  BY DEF VerifyCode, At
<1>2. c \in Call /\ c.run \in Run /\ Base(c, c.run, Cleared, secret)
  BY <1>1, Before
<1>3. CASE Becomes(r, ScreenError(c, c.run)) /\ UNCHANGED <<secret, proved>>
  <2>1. Good(c, ScreenError(c, c.run), Cleared, secret)
    BY <1>2, ScreenErrorGood
  <2>2. QED BY <1>1, <1>3, <2>1, PlainStep DEF history
<1>4. CASE /\ s # None /\ u # None /\ secret' = [secret EXCEPT ![s].live = FALSE]
           /\ proved' = proved \cup {<<c.x, u>>} /\ Becomes(r, Succeed(c, SignInOnce(c.run, u)))
  <2>1. s \in Secrets /\ u \in Uids /\ c.x \in Runs
    BY <1>2, <1>4 DEF Call, Run, Base
  <2>2. Onward
    BY <1>1, <1>4, <2>1, UseFacts
  <2>3. Base(c, c.run, Cleared', secret')
    BY <1>1, <2>2, AtWork
  <2> DEFINE run == SignInOnce(c.run, u)
  <2>4. <<c.x, u>> \in Cleared'
    BY <1>4 DEF Cleared
  <2>5. Base(c, run, Cleared', secret') /\ run.auth # None
    BY <2>1, <2>3, <2>4, SignedInBase
  <2> HIDE DEF run
  <2>6. Good(c, Succeed(c, run), Cleared', secret')
    BY <2>5, SucceedGood
  <2>7. proved' \in SUBSET (Runs \X Uids)
    BY <1>4, <2>1 DEF Inv, TypeOK
  <2>8. QED BY <1>1, <1>4, <2>1, <2>6, <2>7, UsedStep DEF run
<1>5. QED BY <1>3, <1>4 DEF VerifyCode

LEMMA LinkTargetStep ==
  ASSUME Inv, NEW r \in Reqs, LinkTarget(r)
  PROVE  Inv'
<1> DEFINE c == req[r]
           n(u) == [c EXCEPT !.who = u, !.pc = "issueLink"]
<1>1. /\ c.pc \in {"sendLink", "updateLink"}
      /\ UNCHANGED <<users, keys, secret, runs, resetPc, history, bounds>>
  BY DEF LinkTarget
<1>2. PICK u \in IF At(r, "sendLink") THEN Targets(c.run) ELSE {c.run.auth} :
        Becomes(r, IF u = None THEN HandledError(c, c.run, "UserDoesNotExists") ELSE n(u))
  BY DEF LinkTarget
<1>3. /\ c \in Call /\ Finds(c, Cleared, secret) /\ c.run \in Run
      /\ Base(c, c.run, Cleared, secret)
  BY <1>1, Before
<1>4. CASE u = None
  <2>1. Good(c, HandledError(c, c.run, "UserDoesNotExists"), Cleared, secret)
    BY <1>3, HandledErrorGood
  <2>2. QED BY <1>1, <1>2, <1>4, <2>1, PlainStep
<1>5. CASE u # None
  <2>1. u \in Uids
    BY <1>2, <1>3, <1>5, TargetIs DEF Run
  <2>2. Good(c, n(u), Cleared, secret)
    BY <1>1, <2>1, ForUserGood
  <2>3. Becomes(r, n(u))
    BY <1>2, <1>5
  <2> HIDE DEF n
  <2>4. QED BY <1>1, <2>2, <2>3, PlainStep
<1>6. QED BY <1>4, <1>5

LEMMA IssueLinkStep ==
  ASSUME Inv, NEW r \in Reqs, NEW s \in Secrets, IssueLink(r, s)
  PROVE  Inv'
<1> DEFINE c == req[r]
           d == [NoSecret EXCEPT !.kind = "link", !.uid = c.who, !.run = c.x, !.live = TRUE]
           run == [c.run EXCEPT !.link = s, !.verified = FALSE]
<1>1. /\ c.pc = "issueLink" /\ Fresh(s) /\ Becomes(r, Succeed(c, run))
      /\ secret' = [secret EXCEPT ![s] = d]
      /\ UNCHANGED <<users, keys, runs, resetPc, history, bounds>>
  BY DEF IssueLink, At
<1>2. c \in Call /\ Finds(c, Cleared, secret) /\ c.run \in Run
  BY <1>1, Before
<1>3. c.who \in Uids /\ c.x \in Runs
  BY <1>1, <1>2 DEF Finds
<1>4. d \in Secret /\ d.kind = "link" /\ d.uid = c.who /\ d.run = c.x
  BY <1>3 DEF NoSecret, Secret
<1> HIDE DEF d
<1>5. /\ secret' \in [Secrets -> Secret] /\ secret'[s] = d
      /\ \A t \in Secrets \ {s} : /\ secret'[t].kind = secret[t].kind
                                  /\ secret'[t].uid = secret[t].uid
                                  /\ secret'[t].run = secret[t].run
  BY <1>1, <1>4 DEF Inv, TypeOK
<1>6. Onward /\ SecretsInv'
  BY <1>1, <1>3, <1>4, <1>5, IssueFacts DEF history
<1>7. Base(c, c.run, Cleared', secret')
  BY <1>1, <1>6, AtWork
<1>8. Base(c, run, Cleared', secret')
  BY <1>4, <1>5, <1>7 DEF Base, Run, Sound
<1> HIDE DEF run
<1>9. Good(c, Succeed(c, run), Cleared', secret')
  BY <1>3, <1>8, SucceedGood
<1>10. Rest'
  BY <1>1, <1>5 DEF Rest, Inv, TypeOK, users, history, bounds
<1>11. QED BY <1>1, <1>6, <1>9, <1>10, ServeStep DEF history

LEMMA VerifyLinkStep ==
  ASSUME Inv, NEW r \in Reqs, VerifyLink(r)
  PROVE  Inv'
<1> DEFINE c == req[r]
           s == c.typed
           u == secret[s].uid
           opened == [c.run EXCEPT !.verified = TRUE]
<1>1. c.pc = "verifyLink" /\ UNCHANGED <<users, keys, runs, resetPc, replaced, minted, shared, bounds>>
  BY DEF VerifyLink, At
<1>2. c \in Call /\ c.run \in Run /\ Base(c, c.run, Cleared, secret)
  BY <1>1, Before
<1>3. CASE Becomes(r, Fail(c, c.run)) /\ UNCHANGED <<secret, proved>>
  <2>1. Good(c, Fail(c, c.run), Cleared, secret)
    BY <1>2, FailGood
  <2>2. QED BY <1>1, <1>3, <2>1, PlainStep DEF history
<1>4. CASE /\ SentBy(c.run, s) /\ secret' = [secret EXCEPT ![s].live = FALSE]
           /\ proved' = proved \cup {<<secret[s].run, u>>}
           /\ Becomes(r, Succeed(c, SignInOnce(opened, u)))
  <2>1. s \in Secrets /\ c.x \in Runs
    BY <1>2, <1>4 DEF SentBy, Call, Base
  <2>2. secret[s].kind = "link" /\ secret[s].run = c.x
    BY <1>2, <1>4 DEF SentBy, Base, Sound
  <2>3. u \in Uids
    BY <2>1, <2>2 DEF Inv, SecretsInv
  <2> HIDE DEF u
  <2>4. Onward
    BY <1>1, <1>4, <2>1, UseFacts
  <2>5. Base(c, c.run, Cleared', secret')
    BY <1>1, <2>4, AtWork
  <2>6. Base(c, opened, Cleared', secret')
    BY <2>5 DEF Base, Run, Sound
  <2>7. <<c.x, u>> \in Cleared' /\ proved' \in SUBSET (Runs \X Uids)
    BY <1>4, <2>1, <2>2, <2>3 DEF Cleared, Inv, TypeOK
  <2> HIDE DEF opened
  <2> DEFINE run == SignInOnce(opened, u)
  <2>8. Base(c, run, Cleared', secret') /\ run.auth # None
    BY <2>3, <2>6, <2>7, SignedInBase
  <2> HIDE DEF run
  <2>9. Good(c, Succeed(c, run), Cleared', secret')
    BY <2>8, SucceedGood
  <2>10. QED BY <1>1, <1>4, <2>1, <2>7, <2>9, UsedStep DEF run
<1>5. QED BY <1>3, <1>4 DEF VerifyLink

-----------------------------------------------------------------------------
(* Passkeys *)

LEMMA PasskeyStartStep ==
  ASSUME Inv, NEW r \in Reqs, PasskeyStart(r)
  PROVE  Inv'
<1> DEFINE c == req[r]
           n(u) == [c EXCEPT !.who = u, !.pc = "begin"]
<1>1. /\ c.pc \in {"signUpStart", "signInStart", "updateStart"}
      /\ UNCHANGED <<users, keys, secret, runs, resetPc, history, bounds>>
      /\ \/ Becomes(r, HandledError(c, c.run, "UserAlreadyExists"))
         \/ Becomes(r, HandledError(c, c.run, "UserDoesNotExists"))
         \/ Becomes(r, ScreenError(c, c.run))
         \/ \E u \in Loaded(c.run.login) \cup {None, c.run.auth} : Becomes(r, n(u))
  BY DEF PasskeyStart, At
<1>2. /\ c \in Call /\ Finds(c, Cleared, secret) /\ c.run \in Run
      /\ Base(c, c.run, Cleared, secret)
  BY <1>1, Before
<1>3. \A u \in Loaded(c.run.login) \cup {None, c.run.auth} : u \in Uids \cup {None}
  BY <1>2, LoadedIs DEF Run
<1>4. ASSUME NEW u \in Uids \cup {None} PROVE Good(c, n(u), Cleared, secret)
  <2> DEFINE m == n(u)
  <2>1. m \in Call /\ m.pc = "begin" /\ m.x = c.x /\ m.run = c.run /\ m.at = c.at
        /\ m.session = c.session
    BY <1>2 DEF Call
  <2>2. Flow[c.at].action \in {"signUpStart", "signInStart", "updateStart"}
    BY <1>1, <1>2 DEF Finds, Actions
  <2> HIDE DEF m
  <2>3. Good(c, m, Cleared, secret)
    BY <1>1, <1>2, <2>1, <2>2, GoOnGood
  <2>4. QED BY <2>3 DEF m
<1>5. /\ Good(c, HandledError(c, c.run, "UserAlreadyExists"), Cleared, secret)
      /\ Good(c, HandledError(c, c.run, "UserDoesNotExists"), Cleared, secret)
      /\ Good(c, ScreenError(c, c.run), Cleared, secret)
  BY <1>2, HandledErrorGood, ScreenErrorGood
<1> HIDE DEF n
<1>6. \A u \in Loaded(c.run.login) \cup {None, c.run.auth} : Good(c, n(u), Cleared, secret)
  BY <1>3, <1>4
<1>7. QED BY <1>1, <1>5, <1>6, PlainStep

LEMMA BeginStep ==
  ASSUME Inv, NEW r \in Reqs, NEW s \in Secrets, Begin(r, s)
  PROVE  Inv'
<1> DEFINE c == req[r]
           kind == CeremonyOf(Flow[c.at].action)
           d == [NoSecret EXCEPT !.kind = kind, !.uid = c.who, !.login = c.run.login, !.live = TRUE]
<1>1. /\ c.pc = "begin" /\ Fresh(s) /\ Becomes(r, Wait(c, c.run))
      /\ secret' = [secret EXCEPT ![s] = d]
      /\ UNCHANGED <<users, keys, runs, resetPc, history, bounds>>
  BY DEF Begin, At
<1>2. c \in Call /\ Finds(c, Cleared, secret) /\ c.run \in Run
  BY <1>1, Before
<1>3. Flow[c.at].action \in {"signUpStart", "signInStart", "updateStart"}
  BY <1>1, <1>2 DEF Finds
<1>4. kind \in {"signUp", "signIn", "update"}
  BY <1>3 DEF CeremonyOf
<1> HIDE DEF kind
<1>5. d \in Secret /\ d.kind = kind
  BY <1>2, <1>4 DEF NoSecret, Secret, Call, Run
<1> HIDE DEF d
<1>6. /\ secret' \in [Secrets -> Secret] /\ secret'[s] = d
      /\ \A t \in Secrets \ {s} : /\ secret'[t].kind = secret[t].kind
                                  /\ secret'[t].uid = secret[t].uid
                                  /\ secret'[t].run = secret[t].run
  BY <1>1, <1>5 DEF Inv, TypeOK
<1>7. Onward /\ SecretsInv'
  BY <1>1, <1>4, <1>5, <1>6, IssueFacts DEF history
<1>8. Base(c, c.run, Cleared', secret')
  BY <1>1, <1>7, AtWork
<1>9. Good(c, Wait(c, c.run), Cleared', secret')
  BY <1>3, <1>8, WaitGood DEF Waiting
<1>10. Rest'
  BY <1>1, <1>6 DEF Rest, Inv, TypeOK, users, history, bounds
<1>11. QED BY <1>1, <1>7, <1>9, <1>10, ServeStep DEF history

LEMMA TakeCeremonyStep ==
  ASSUME Inv, NEW r \in Reqs, TakeCeremony(r)
  PROVE  Inv'
<1> DEFINE c == req[r]
           s == c.typed
           step == secret[s].kind
           n == [c EXCEPT !.pc = step]
<1>1. /\ c.pc \in {"signUpFinish", "signInFinish", "updateFinish"}
      /\ UNCHANGED <<users, keys, runs, resetPc, history, bounds>>
  BY DEF TakeCeremony
<1>2. /\ c \in Call /\ Finds(c, Cleared, secret) /\ c.run \in Run
      /\ Base(c, c.run, Cleared, secret)
  BY <1>1, Before
<1>3. CASE Becomes(r, ScreenError(c, c.run)) /\ UNCHANGED secret
  <2>1. Good(c, ScreenError(c, c.run), Cleared, secret)
    BY <1>2, ScreenErrorGood
  <2>2. QED BY <1>1, <1>3, <2>1, PlainStep
<1>4. CASE /\ s # None /\ step = CeremonyOf(c.pc) /\ Becomes(r, n)
           /\ secret' = [secret EXCEPT ![s].live = FALSE]
  <2>1. s \in Secrets
    BY <1>2, <1>4 DEF Call
  <2>2. /\ step \in {"signUp", "signIn", "update"}
        /\ step = "update" => c.pc = "updateFinish"
    BY <1>1, <1>4 DEF CeremonyOf
  <2> HIDE DEF step
  <2>3. Onward
    BY <1>1, <1>4, <2>1, UseFacts DEF history
  <2>4. Finds(c, Cleared', secret')
    BY <1>2, <2>3, FindsKept
  <2>5. n \in Call /\ n.pc = step /\ n.x = c.x /\ n.run = c.run /\ n.at = c.at
        /\ n.session = c.session /\ n.typed = s
    BY <1>2, <2>2 DEF Call
  <2> HIDE DEF n
  <2>7. Good(c, n, Cleared', secret')
    BY <1>1, <1>2, <2>1, <2>2, <2>4, <2>5, GoOnGood
  <2>8. proved \subseteq proved' /\ proved' \in SUBSET (Runs \X Uids)
    BY <1>1 DEF Inv, TypeOK, history
  <2>9. QED BY <1>1, <1>4, <2>1, <2>7, <2>8, UsedStep DEF history
<1>5. QED BY <1>3, <1>4 DEF TakeCeremony

\* A call that shows proof of user u and signs it in.
LEMMA SignInStep ==
  ASSUME Inv, Onward, NEW r \in Reqs, req[r].pc \notin {"idle", "save"}, NEW u \in Uids,
         proved' = proved \cup {<<req[r].x, u>>},
         Becomes(r, Succeed(req[r], SignIn(req[r].run, u))),
         UNCHANGED <<runs, minted, shared>>, SecretsInv', Rest'
  PROVE  Inv'
<1> DEFINE c == req[r]
           run == SignIn(c.run, u)
<1>1. Base(c, c.run, Cleared', secret')
  BY AtWork
<1>2. <<c.x, u>> \in Cleared'
  BY DEF Cleared
<1>3. Base(c, run, Cleared', secret') /\ run.auth # None
  BY <1>1, <1>2, SignedInBase
<1>4. Becomes(r, Succeed(c, run))
  OBVIOUS
<1> HIDE DEF run
<1>5. Good(c, Succeed(c, run), Cleared', secret')
  BY <1>3, SucceedGood
<1>6. QED BY <1>4, <1>5, ServeStep

\* Proof alone.
LEMMA ProofFacts ==
  ASSUME Inv, NEW r \in Reqs, req[r].pc \notin {"idle", "save"}, NEW u \in Uids,
         proved' = proved \cup {<<req[r].x, u>>}, UNCHANGED <<secret, replaced>>
  PROVE  Onward /\ SecretsInv' /\ proved' \in SUBSET (Runs \X Uids)
<1>1. req[r].x \in Runs
  BY Before DEF Base
<1>2. QED BY <1>1 DEF Onward, Cleared, Inv, TypeOK, SecretsInv

LEMMA AssertKeyStep ==
  ASSUME Inv, NEW r \in Reqs, AssertKey(r)
  PROVE  Inv'
<1> DEFINE c == req[r]
           u == secret[c.typed].uid
<1>1. /\ c.pc = "signIn"
      /\ UNCHANGED <<users, keys, secret, runs, resetPc, replaced, minted, shared, bounds>>
  BY DEF AssertKey, At
<1>2. Base(c, c.run, Cleared, secret)
  BY <1>1, Before
<1>3. CASE Becomes(r, ScreenError(c, c.run)) /\ UNCHANGED proved
  <2>1. Good(c, ScreenError(c, c.run), Cleared, secret)
    BY <1>2, ScreenErrorGood
  <2>2. QED BY <1>1, <1>3, <2>1, PlainStep DEF history
<1>4. CASE /\ u \in keys /\ proved' = proved \cup {<<c.x, u>>}
           /\ Becomes(r, Succeed(c, SignIn(c.run, u)))
  <2>1. u \in Uids
    BY <1>4 DEF Inv, TypeOK
  <2> HIDE DEF u
  <2>2. Onward /\ SecretsInv' /\ proved' \in SUBSET (Runs \X Uids)
    BY <1>1, <1>4, <2>1, ProofFacts
  <2>3. Rest'
    BY <1>1, <2>2 DEF Rest, Inv, TypeOK, users, bounds
  <2>4. QED BY <1>1, <1>4, <2>1, <2>2, <2>3, SignInStep
<1>5. QED BY <1>3, <1>4 DEF AssertKey

LEMMA AddKeyStep ==
  ASSUME Inv, NEW r \in Reqs, AddKey(r)
  PROVE  Inv'
<1> DEFINE c == req[r]
           u == c.run.auth
<1>1. c.pc = "update" /\ UNCHANGED <<users, secret, runs, resetPc, history, bounds>>
  BY DEF AddKey, At
<1>2. /\ Base(c, c.run, Cleared, secret) /\ c.run \in Run
     
  BY <1>1, Before DEF Finds
<1>3. Good(c, ScreenError(c, c.run), Cleared, secret) /\ Good(c, Succeed(c, c.run), Cleared, secret)
  BY <1>2, ScreenErrorGood, SucceedGood
<1>4. /\ Becomes(r, ScreenError(c, c.run)) \/ Becomes(r, Succeed(c, c.run))
      /\ UNCHANGED keys \/ (u # None /\ keys' = keys \cup {u})
  BY DEF AddKey
<1>5. Rest'
  BY <1>1, <1>2, <1>4 DEF Rest, Inv, TypeOK, Run, users, history, bounds
<1>6. QED BY <1>1, <1>3, <1>4, <1>5, OwnStep

LEMMA RegisterKeyStep ==
  ASSUME Inv, NEW r \in Reqs, NEW u \in Uids, RegisterKey(r, u)
  PROVE  Inv'
<1> DEFINE c == req[r]
           n == [c EXCEPT !.who = u, !.pc = "insertKeyUser"]
<1>1. c.pc = "signUp" /\ UNCHANGED <<owner, secret, runs, resetPc, history, bounds>>
  BY DEF RegisterKey, At
<1>2. c \in Call /\ Finds(c, Cleared, secret) /\ Base(c, c.run, Cleared, secret)
  BY <1>1, Before
<1>3. /\ Becomes(r, ScreenError(c, c.run)) \/ Becomes(r, n)
      /\ \/ UNCHANGED <<status, keys>>
         \/ status' = [status EXCEPT ![u] = "drawn"] /\ keys' = keys \cup {u}
  BY DEF RegisterKey
<1>4. c.typed \in Secrets
  BY <1>1, <1>2 DEF Finds
<1>5. n \in Call /\ n.pc = "insertKeyUser" /\ n.x = c.x /\ n.run = c.run /\ n.at = c.at
      /\ n.session = c.session /\ n.typed = c.typed /\ n.who = u
  BY <1>2 DEF Call
<1> HIDE DEF n
<1>6. Good(c, n, Cleared, secret) /\ Good(c, ScreenError(c, c.run), Cleared, secret)
  BY <1>1, <1>2, <1>4, <1>5, GoOnGood, ScreenErrorGood
<1>7. Rest'
  BY <1>1, <1>3 DEF Rest, Inv, TypeOK, history, bounds
<1>8. QED BY <1>1, <1>3, <1>6, <1>7, OwnStep

LEMMA InsertKeyUserStep ==
  ASSUME Inv, NEW r \in Reqs, InsertKeyUser(r)
  PROVE  Inv'
<1> DEFINE c == req[r]
           l == secret[c.typed].login
           u == c.who
<1>1. c.pc = "insertKeyUser" /\ UNCHANGED <<keys, secret, runs, resetPc, replaced, minted, shared, bounds>>
  BY DEF InsertKeyUser, At
<1>2. c \in Call /\ Finds(c, Cleared, secret) /\ Base(c, c.run, Cleared, secret)
  BY <1>1, Before
<1>3. CASE Becomes(r, ScreenError(c, c.run)) /\ UNCHANGED <<users, proved>>
  <2>1. Good(c, ScreenError(c, c.run), Cleared, secret)
    BY <1>2, ScreenErrorGood
  <2>2. QED BY <1>1, <1>3, <2>1, PlainStep DEF history
<1>4. CASE /\ ~Taken(l) /\ Insert(l, u) /\ proved' = proved \cup {<<c.x, u>>}
           /\ Becomes(r, Succeed(c, SignIn(c.run, u)))
  <2>1. u \in Uids /\ c.typed \in Secrets
    BY <1>1, <1>2 DEF Finds
  <2>2. owner' \in [Logins -> Uids \cup {None}]
        /\ status' \in [Uids -> {"unused", "drawn", "enabled", "disabled", "gone"}]
    BY <1>4, <2>1, InsertRest
  <2>3. Onward /\ SecretsInv' /\ proved' \in SUBSET (Runs \X Uids)
    BY <1>1, <1>4, <2>1, ProofFacts
  <2>4. Rest'
    BY <1>1, <2>2, <2>3 DEF Rest, Inv, TypeOK, bounds
  <2>5. QED BY <1>1, <1>4, <2>1, <2>3, <2>4, SignInStep
<1>5. QED BY <1>3, <1>4 DEF InsertKeyUser

-----------------------------------------------------------------------------
(* SSO, and the end of a flow *)

LEMMA SsoStartStep ==
  ASSUME Inv, NEW r \in Reqs, SsoStart(r)
  PROVE  Inv'
<1> DEFINE c == req[r]
<1>1. c.pc = "ssoStart" /\ UNCHANGED <<users, keys, secret, runs, resetPc, history, bounds>>
  BY DEF SsoStart, At
<1>2. /\ Base(c, c.run, Cleared, secret)
      /\ Flow[c.at].action \in Waiting
  BY <1>1, Before DEF Finds, Actions, Waiting
<1>3. Good(c, ScreenError(c, c.run), Cleared, secret) /\ Good(c, Wait(c, c.run), Cleared, secret)
  BY <1>2, ScreenErrorGood, WaitGood
<1>4. QED BY <1>1, <1>3, PlainStep DEF SsoStart

LEMMA SsoExchangeStep ==
  ASSUME Inv, NEW r \in Reqs, SsoExchange(r)
  PROVE  Inv'
<1> DEFINE c == req[r]
           s == c.typed
           u == secret[s].uid
<1>1. /\ c.pc = "ssoExchange"
      /\ UNCHANGED <<users, keys, runs, resetPc, replaced, minted, shared, bounds>>
  BY DEF SsoExchange, At
<1>2. c \in Call /\ Base(c, c.run, Cleared, secret)
  BY <1>1, Before
<1>3. CASE Becomes(r, Fail(c, c.run)) /\ UNCHANGED <<secret, proved>>
  <2>1. Good(c, Fail(c, c.run), Cleared, secret)
    BY <1>2, FailGood
  <2>2. QED BY <1>1, <1>3, <2>1, PlainStep DEF history
<1>4. CASE /\ s # None /\ secret' = [secret EXCEPT ![s].live = FALSE]
           /\ Becomes(r, Fail(c, c.run)) /\ UNCHANGED proved
  <2>1. s \in Secrets
    BY <1>2, <1>4 DEF Call
  <2>2. Onward
    BY <1>1, <1>4, <2>1, UseFacts
  <2>3. Base(c, c.run, Cleared', secret')
    BY <1>1, <2>2, AtWork
  <2>4. Good(c, Fail(c, c.run), Cleared', secret')
    BY <2>3, FailGood
  <2>5. proved \subseteq proved' /\ proved' \in SUBSET (Runs \X Uids)
    BY <1>4 DEF Inv, TypeOK
  <2>6. QED BY <1>1, <1>4, <2>1, <2>4, <2>5, UsedStep
<1>5. CASE /\ s # None /\ secret' = [secret EXCEPT ![s].live = FALSE] /\ u # None
           /\ proved' = proved \cup {<<c.x, u>>} /\ Becomes(r, Succeed(c, SignIn(c.run, u)))
  <2>1. s \in Secrets /\ c.x \in Runs
    BY <1>2, <1>5 DEF Call, Base
  <2>2. u \in Uids
    BY <1>5, <2>1 DEF Inv, TypeOK, Secret
  <2> HIDE DEF u
  <2>3. Onward /\ SecretsInv' /\ secret' \in [Secrets -> Secret]
    BY <1>1, <1>5, <2>1, UseFacts
  <2>4. proved' \in SUBSET (Runs \X Uids)
    BY <1>5, <2>1, <2>2 DEF Inv, TypeOK
  <2>5. Rest'
    BY <1>1, <2>3, <2>4 DEF Rest, Inv, TypeOK, users, bounds
  <2>6. QED BY <1>1, <1>5, <2>2, <2>3, <2>5, SignInStep
<1>6. QED BY <1>3, <1>4, <1>5 DEF SsoExchange

LEMMA CallbackStep ==
  ASSUME Inv, NEW s \in Secrets, NEW u \in Uids \cup {None}, Callback(s, u)
  PROVE  Inv'
<1> DEFINE d == [NoSecret EXCEPT !.kind = "sso", !.uid = u, !.live = TRUE]
<1>1. /\ Fresh(s) /\ secret' = [secret EXCEPT ![s] = d]
      /\ UNCHANGED <<users, keys, runs, req, resetPc, history, bounds>>
  BY DEF Callback
<1>2. d \in Secret /\ d.kind = "sso"
  BY DEF NoSecret, Secret
<1> HIDE DEF d
<1>3. /\ secret' \in [Secrets -> Secret] /\ secret'[s] = d
      /\ \A t \in Secrets \ {s} : /\ secret'[t].kind = secret[t].kind
                                  /\ secret'[t].uid = secret[t].uid
                                  /\ secret'[t].run = secret[t].run
  BY <1>1, <1>2 DEF Inv, TypeOK
<1>4. Onward /\ SecretsInv'
  BY <1>1, <1>2, <1>3, IssueFacts DEF history
<1>5. CallsInv' /\ req' \in [Reqs -> Call]
  BY <1>1, <1>4, FindsKept DEF Inv, CallsInv, TypeOK
<1>6. MintedInv'
  BY <1>1 DEF Inv, MintedInv, Once, Serves, At, history
<1>7. Rest'
  BY <1>1, <1>3 DEF Rest, Inv, TypeOK, users, history, bounds
<1>8. RunsInv'
  BY <1>1, <1>4, RunsStill
<1>9. QED BY <1>4, <1>5, <1>6, <1>7, <1>8, TypePartsNext DEF Inv

LEMMA LoggedInStep ==
  ASSUME Inv, NEW r \in Reqs, LoggedIn(r)
  PROVE  Inv'
<1> DEFINE c == req[r]
           u == c.run.auth
           done == [c EXCEPT !.session = u]
           run == [c.run EXCEPT !.status = "completed"]
           n == Stop(done, run, "completed")
<1>1. c.pc = "loggedIn" /\ UNCHANGED <<users, keys, secret, runs, resetPc, proved, replaced, shared, bounds>>
  BY DEF LoggedIn, At
<1>2. c \in Call /\ Base(c, c.run, Cleared, secret)
  BY <1>1, Before
<1>3. CASE Becomes(r, Fail(c, c.run)) /\ UNCHANGED minted
  <2>1. Good(c, Fail(c, c.run), Cleared, secret)
    BY <1>2, FailGood
  <2>2. QED BY <1>1, <1>3, <2>1, PlainStep DEF history
<1>4. CASE u # None /\ minted' = [minted EXCEPT ![c.x] = @ + 1] /\ Becomes(r, n)
  <2>1. c.x \in Runs /\ u \in Uids /\ <<c.x, u>> \in Cleared
    BY <1>2, <1>4 DEF Base, Run, Sound
  <2>2. done \in Call /\ done.x = c.x /\ done.session = u
    BY <1>2, <2>1 DEF Call
  <2>3. run \in Run /\ Sound(c.x, run, Cleared, secret) /\ run.status = "completed"
    BY <1>2 DEF Base, Run, Sound
  <2> HIDE DEF done, run
  <2>4. Base(done, run, Cleared, secret)
    BY <2>1, <2>2, <2>3 DEF Base
  <2>5. Good(done, n, Cleared, secret) /\ n.pc = "save" /\ Ended(n.run)
    BY <2>3, <2>4, StopGood
  <2> HIDE DEF n
  <2>6. n \in Call /\ n.x = c.x /\ Finds(n, Cleared, secret)
    BY <2>2, <2>5 DEF Good
  <2>7. req \in [Reqs -> Call] /\ req' = [req EXCEPT ![r] = n] /\ minted \in [Runs -> Nat]
    BY <1>4 DEF Inv, TypeOK, Becomes
  <2>8. Onward
    BY <1>1 DEF Onward, Cleared
  <2>9. CallsInv' /\ req' \in [Reqs -> Call]
    <3>1. Finds(n, Cleared', secret')
      BY <1>1, <2>6 DEF Cleared
    <3>2. QED BY <2>6, <2>7, <2>8, <3>1, CallsStep
  <2>10. ASSUME NEW x \in Runs \ shared PROVE Once(x)'
    <3>1. Once(x) /\ runs' = runs /\ req'[r] = n
      BY <1>1, <2>7, <2>10 DEF Inv, MintedInv
    <3>2. Serves(x)' = Serves(x)
      BY <2>6, <2>7 DEF Serves
    <3>3. CASE x = c.x
      <4>1. r \in Serves(x) /\ \A q \in Serves(x) : q = r
        BY <3>1, <3>3 DEF Serves, Once
      <4>2. minted[x] = 0
        BY <1>1, <3>1, <4>1 DEF Once, At
      <4>3. minted'[x] = 1
        BY <1>4, <2>1, <2>7, <3>3, <4>2
      <4>4. QED BY <2>5, <3>1, <3>2, <4>1, <4>3 DEF Once, At
    <3>4. CASE x # c.x
      <4>1. minted'[x] = minted[x] /\ \A q \in Serves(x) : req'[q] = req[q]
        BY <1>4, <2>7, <3>4 DEF Serves
      <4>2. QED BY <3>1, <3>2, <4>1 DEF Once, At
    <3>5. QED BY <3>3, <3>4
  <2>11. MintedInv'
    BY <1>1, <2>10 DEF MintedInv
  <2>12. Rest'
    BY <1>1, <1>4, <2>1 DEF Rest, Inv, TypeOK, users, bounds
  <2>13. SecretsInv'
    BY <1>1 DEF Inv, SecretsInv
  <2>14. QED BY <1>1, <2>8, <2>9, <2>11, <2>12, <2>13, RunsStill, TypePartsNext DEF Inv
<1>5. QED BY <1>3, <1>4 DEF LoggedIn

-----------------------------------------------------------------------------
(* Calls *)

LEMMA SaveStep ==
  ASSUME Inv, NEW r \in Reqs, Save(r)
  PROVE  Inv'
<1> DEFINE c == req[r]
           z == c.x
<1>1. /\ c.pc = "save" /\ req' = [req EXCEPT ![r] = Idle]
      /\ UNCHANGED <<users, keys, secret, resetPc, proved, replaced, minted, shared, bounds>>
  BY DEF Save, At, Becomes
<1>2. PICK old \in Stale(z) :
        runs' = [y \in Runs |-> IF y = z THEN c.run ELSE IF y \in old THEN Swept ELSE runs[y]]
  BY DEF Save
<1>3. /\ c \in Call /\ Finds(c, Cleared, secret) /\ req \in [Reqs -> Call]
      /\ z \in Runs /\ c.run \in Run /\ Sound(z, c.run, Cleared, secret)
  BY <1>1 DEF Inv, TypeOK, CallsInv, Finds, Call
<1>4. Onward
  BY <1>1 DEF Onward, Cleared
<1>5. Idle \in Call /\ Finds(Idle, Cleared', secret') /\ Idle.x = None
  BY IdleIsCall DEF Idle
<1>6. CallsInv' /\ req' \in [Reqs -> Call]
  BY <1>1, <1>4, <1>5, CallsStep
<1>7. \A y \in Runs : \/ y = z /\ runs'[y] = c.run
                      \/ y # z /\ runs'[y] \in {runs[y], Swept}
  BY <1>2
<1>8. runs' \in [Runs -> Run \cup {None, Swept}]
  BY <1>2, <1>3 DEF Inv, TypeOK
<1>9. RunsInv'
  BY <1>1, <1>3, <1>7 DEF Cleared, Inv, RunsInv
<1>10. ASSUME NEW x \in Runs \ shared PROVE Once(x)'
  <2>1. Once(x) /\ minted'[x] = minted[x]
    BY <1>1, <1>10 DEF Inv, MintedInv
  <2>2. Serves(x)' = Serves(x) \ {r} /\ \A q \in Reqs \ {r} : req'[q] = req[q]
    <3>1. x # None
      BY FlowEngineAssumption
    <3>2. QED BY <1>1, <1>3, <1>5, <3>1 DEF Serves
  <2>3. CASE x = z
    <3>1. r \in Serves(x) /\ Serves(x)' = {}
      BY <2>1, <2>2, <2>3 DEF Serves, Once
    <3>2. runs'[x] = c.run /\ runs'[x] # None
      BY <1>3, <1>7, <2>3, RunAssumption
    <3>3. QED BY <2>1, <3>1, <3>2 DEF Once
  <2>4. CASE x # z
    <3>1. Serves(x)' = Serves(x) /\ r \notin Serves(x)
      BY <2>2, <2>4 DEF Serves
    <3>2. \A q \in Serves(x) : req'[q] = req[q]
      BY <2>2, <3>1 DEF Serves
    <3>3. runs'[x] = runs[x] \/ (runs'[x] = Swept /\ Swept # None)
      BY <1>7, <2>4, FlowEngineAssumption
    <3>4. QED BY <2>1, <3>1, <3>2, <3>3 DEF Once, At
  <2>5. QED BY <2>3, <2>4
<1>11. MintedInv'
  BY <1>1, <1>10 DEF MintedInv
<1>12. Rest'
  BY <1>1, <1>8 DEF Rest, Inv, TypeOK, users, bounds
<1>13. SecretsInv'
  BY <1>1 DEF Inv, SecretsInv
<1>14. QED BY <1>6, <1>9, <1>11, <1>12, <1>13, TypePartsNext DEF Inv

\* A call that arrives for run x, with what it is to know.
LEMMA ArriveFor ==
  ASSUME Inv, NEW r \in Reqs, At(r, "idle"), NEW x \in Runs,
         NEW n \in Call, n.x = x, n.pc # "idle", Finds(n, Cleared, secret), Becomes(r, n),
         shared' = IF Serves(x) = {} THEN shared ELSE shared \cup {x},
         x \notin shared /\ Serves(x) = {} /\ minted[x] # 0 => n.pc = "save" /\ Ended(n.run),
         UNCHANGED <<users, keys, secret, runs, resetPc, proved, replaced, minted, changes>>,
         calls' \in Nat
  PROVE  Inv'
<1>1. req \in [Reqs -> Call] /\ req' = [req EXCEPT ![r] = n] /\ req[r].x = None
  BY DEF Inv, TypeOK, Becomes, CallsInv, Finds, At
<1>2. Onward
  BY DEF Onward, Cleared
<1>3. CallsInv' /\ req' \in [Reqs -> Call]
  <2>1. Finds(n, Cleared', secret')
    BY DEF Cleared
  <2>2. QED BY <1>1, <1>2, <2>1, CallsStep
<1>4. ASSUME NEW y \in Runs \ shared' PROVE Once(y)'
  <2>1. y \in Runs \ shared /\ Once(y) /\ minted'[y] = minted[y] /\ runs'[y] = runs[y]
    BY <1>4 DEF Inv, MintedInv
  <2>2. r \notin Serves(y) /\ \A q \in Serves(y) : req'[q] = req[q]
    BY <1>1, FlowEngineAssumption DEF Serves
  <2>3. CASE y = x
    <3>1. Serves(x) = {}
      BY <1>4, <2>3
    <3>2. Serves(y)' = {r}
      BY <1>1, <2>3, <3>1 DEF Serves
    <3>3. req'[r] = n
      BY <1>1
    <3>4. QED BY <2>1, <2>3, <3>1, <3>2, <3>3 DEF Once, At
  <2>4. CASE y # x
    <3>1. Serves(y)' = Serves(y)
      BY <1>1, <2>2, <2>4 DEF Serves
    <3>2. QED BY <2>1, <2>2, <3>1 DEF Once, At
  <2>5. QED BY <2>3, <2>4
<1>5. MintedInv'
  BY <1>4 DEF MintedInv
<1>6. Rest'
  BY DEF Rest, Inv, TypeOK, users
<1>7. SecretsInv'
  BY DEF Inv, SecretsInv
<1>8. QED BY <1>2, <1>3, <1>5, <1>6, <1>7, RunsStill, TypePartsNext DEF Inv

LEMMA StartGood ==
  ASSUME NEW x \in Runs, NEW l \in Logins \cup {None}, NEW choice, NEW pr, NEW sec
  PROVE  LET n == Start(x, l, choice)
         IN n \in Call /\ n.x = x /\ n.pc # "idle" /\ Finds(n, pr, sec)
<1> DEFINE c == [Idle EXCEPT !.x = x, !.fuel = MaxSteps]
           seen == [NewRun(l) EXCEPT !.screen = StartTask]
<1>1. StartTask \in Tasks
  BY FlowEngineAssumption
<1>2. c \in Call
  <2>1. MaxSteps \in 0..MaxSteps
    BY FlowEngineAssumption
  <2>2. \A d \in Call : [d EXCEPT !.x = x, !.fuel = MaxSteps] \in Call
    BY <2>1 DEF Call
  <2>3. QED BY <2>2, IdleIsCall
<1>3. c.x = x /\ c.at = StartTask /\ c.session = None
  BY DEF Idle
<1>4. NewRun(l) \in Run /\ Sound(x, NewRun(l), pr, sec)
  BY IdleIsCall, FlowEngineAssumption, FlowAssumption
<1>5. seen \in Run /\ Sound(x, seen, pr, sec)
  BY <1>1, <1>4 DEF Run, Sound, NewRun
<1> HIDE DEF c, seen
<1>6. Base(c, NewRun(l), pr, sec) /\ Base(c, seen, pr, sec)
  BY <1>2, <1>3, <1>4, <1>5 DEF Base
<1>7. CASE choice # "none" /\ Flow[StartTask].type = "screen"
  <2>2. Good(c, Proceed(c, seen, choice), pr, sec)
    BY <1>6, ProceedGood
  <2>3. Start(x, l, choice) = Proceed(c, seen, choice)
    BY <1>7 DEF Start, c, seen
  <2>4. QED BY <1>3, <2>2, <2>3 DEF Good
<1>8. CASE ~(choice # "none" /\ Flow[StartTask].type = "screen")
  <2>1. Good(c, Enter(c, NewRun(l), StartTask), pr, sec)
    BY <1>6, EnterGood
  <2>2. Start(x, l, choice) = Enter(c, NewRun(l), StartTask)
    BY <1>8 DEF Start, c
  <2>3. QED BY <1>3, <2>1, <2>2 DEF Good
<1>9. QED BY <1>7, <1>8

LEMMA PollGood ==
  ASSUME NEW c, NEW run, NEW pr, NEW sec, Base(c, run, pr, sec), c.at = run.task
  PROVE  /\ Good(c, Poll(c, run), pr, sec)
         /\ Ended(run) => Poll(c, run).pc = "save" /\ Poll(c, run).run = run
<1>1. Good(c, Answer(c, run, "waiting"), pr, sec)
      /\ Answer(c, run, "waiting").pc = "save" /\ Answer(c, run, "waiting").run = run
  BY AnswerGood
<1>2. ASSUME run.last # "none"
      PROVE  Good(c, Answer(c, run, run.last), pr, sec)
             /\ Answer(c, run, run.last).pc = "save" /\ Answer(c, run, run.last).run = run
  <2>1. run.last \in {"waiting", "screen", "completed", "failed"}
    BY <1>2 DEF Base, Run
  <2>2. QED BY <2>1, AnswerGood
<1>3. Good(c, Proceed(c, run, "polling"), pr, sec)
  BY ProceedGood
<1>4. QED BY <1>1, <1>2, <1>3 DEF Poll, Ended

LEMMA NextGood ==
  ASSUME Inv, NEW x \in Runs, runs[x] \notin {None, Swept}, NEW op,
         NEW l \in Logins \cup {None}, NEW choice, NEW s \in Secrets \cup {None}, NEW step
  PROVE  LET n == NextCall(x, op, l, choice, s, step)
         IN /\ n \in Call /\ n.x = x /\ n.pc # "idle" /\ Finds(n, Cleared, secret)
            /\ Ended(runs[x]) => n.pc = "save" /\ Ended(n.run)
<1> DEFINE run == runs[x]
           c == [Idle EXCEPT !.x = x, !.run = run, !.at = run.task, !.fuel = MaxSteps, !.typed = s]
           new == [run EXCEPT !.login = IF l = None THEN run.login ELSE l]
           n == NextCall(x, op, l, choice, s, step)
<1>1. run \in Run /\ Sound(x, run, Cleared, secret)
  BY DEF Inv, TypeOK, RunsInv
<1>2. run.task \in Tasks /\ MaxSteps \in 0..MaxSteps /\ s \in Secrets \cup {None}
  BY <1>1, FlowEngineAssumption DEF Run
<1>3. c \in Call
  BY <1>1, <1>2, IdleIsCall DEF Call
<1>4. c.x = x /\ c.at = run.task /\ c.session = None
  BY DEF Idle
<1>5. new \in Run /\ new.auth = run.auth /\ new.link = run.link /\ new.task = run.task
      /\ new.screen = run.screen
  BY <1>1 DEF Run
<1>6. n = IF op = "poll" THEN Poll(c, run)
          ELSE IF run.status # "waiting" THEN Lost(c, run)
          ELSE IF op = "resume" THEN Enter(c, run, step)
          ELSE IF Flow[run.task].type = "screen" THEN Proceed(c, new, choice)
          ELSE Enter(c, run, run.task)
  BY DEF NextCall
<1> HIDE DEF c, new, n, run
<1>7. Base(c, run, Cleared, secret)
  BY <1>1, <1>3, <1>4 DEF Base
<1>8. Base(c, new, Cleared, secret)
  BY <1>5, <1>7 DEF Base, Sound
<1>9. CASE op = "poll"
  <2>1. n = Poll(c, run)
    BY <1>6, <1>9
  <2>2. Good(c, n, Cleared, secret) /\ (Ended(run) => n.pc = "save" /\ n.run = run)
    BY <1>4, <1>7, <2>1, PollGood
  <2>3. QED BY <1>4, <2>2 DEF Good, n, run
<1>10. CASE op # "poll" /\ run.status # "waiting"
  <2>1. n = Lost(c, run)
    BY <1>6, <1>10
  <2>2. Good(c, n, Cleared, secret) /\ n.pc = "save" /\ n.run = run
    BY <1>7, <2>1, LostGood
  <2>3. QED BY <1>4, <2>2 DEF Good, n, run
<1>11. CASE op # "poll" /\ run.status = "waiting"
  <2>1. ~Ended(run)
    BY <1>11 DEF Ended
  <2>2. ASSUME op = "resume" PROVE Good(c, Enter(c, run, step), Cleared, secret)
    BY <1>7, EnterGood
  <2>3. ASSUME Flow[run.task].type = "screen" PROVE Good(c, Proceed(c, new, choice), Cleared, secret)
    BY <1>8, ProceedGood
  <2>4. Good(c, Enter(c, run, run.task), Cleared, secret)
    BY <1>7, <1>8, EnterGood
  <2>5. Good(c, n, Cleared, secret)
    BY <1>6, <1>11, <2>2, <2>3, <2>4
  <2>6. QED BY <1>4, <2>1, <2>5 DEF Good, n, run
<1>12. QED BY <1>9, <1>10, <1>11

LEMMA ArriveStep ==
  ASSUME Inv, NEW r \in Reqs, Arrive(r)
  PROVE  Inv'
<1>1. /\ At(r, "idle") /\ calls' \in Nat
      /\ UNCHANGED <<users, keys, secret, runs, resetPc, proved, replaced, minted, changes>>
  BY DEF Arrive, Inv, TypeOK
<1>2. ASSUME NEW x \in Runs, NEW l \in Logins \cup {None}, NEW choice, runs[x] = None, Serves(x) = {},
             Becomes(r, Start(x, l, choice)), UNCHANGED shared
      PROVE  Inv'
  <2> DEFINE n == Start(x, l, choice)
  <2>1. n \in Call /\ n.x = x /\ n.pc # "idle" /\ Finds(n, Cleared, secret)
    BY StartGood
  <2>2. Becomes(r, n)
    BY <1>2
  <2> HIDE DEF n
  <2>3. x \notin shared => minted[x] = 0
    BY <1>2 DEF Inv, MintedInv, Once
  <2>4. QED BY <1>1, <1>2, <2>1, <2>2, <2>3, ArriveFor
<1>3. ASSUME NEW x \in Runs, runs[x] \notin {None, Swept},
             shared' = IF Serves(x) = {} THEN shared ELSE shared \cup {x},
             NEW op, NEW l \in Logins \cup {None}, NEW choice, NEW s \in Secrets \cup {None},
             NEW step,
             Becomes(r, NextCall(x, op, l, choice, s, step))
      PROVE  Inv'
  <2> DEFINE n == NextCall(x, op, l, choice, s, step)
  <2>1. /\ n \in Call /\ n.x = x /\ n.pc # "idle" /\ Finds(n, Cleared, secret)
        /\ Ended(runs[x]) => n.pc = "save" /\ Ended(n.run)
    BY <1>3, NextGood
  <2>2. Becomes(r, n)
    BY <1>3
  <2> HIDE DEF n
  <2>3. x \notin shared /\ Serves(x) = {} /\ minted[x] # 0 => Ended(runs[x])
    BY <1>3 DEF Inv, MintedInv, Once
  <2>4. QED BY <1>1, <1>3, <2>1, <2>2, <2>3, ArriveFor
<1>4. CASE \E x \in Runs, l \in Logins \cup {None}, choice \in DOMAIN Flow[StartTask].rules \cup {"none"} :
             /\ runs[x] = None /\ Serves(x) = {}
             /\ Becomes(r, Start(x, l, choice))
             /\ UNCHANGED shared
  BY <1>2, <1>4
<1>5. CASE \E x \in Runs : \E l \in Logins \cup {None}, s \in Secrets \cup {None} :
             \E op, choice, step :
               /\ runs[x] \notin {None, Swept}
               /\ shared' = IF Serves(x) = {} THEN shared ELSE shared \cup {x}
               /\ Becomes(r, NextCall(x, op, l, choice, s, step))
  BY <1>3, <1>5
<1>6. QED BY <1>4, <1>5 DEF Arrive, Brought

-----------------------------------------------------------------------------
(* Management, and the theorems *)

\* A step of no request at all, which leaves the runs alone.
LEMMA QuietStep ==
  ASSUME Inv, Onward, UNCHANGED <<runs, req, history>>, SecretsInv', Rest'
  PROVE  Inv'
<1>1. UNCHANGED <<runs, req, Cleared, minted, shared>>
  BY DEF history, Cleared
<1>2. CallsInv'
  <2>1. ASSUME NEW r \in Reqs PROVE Finds(req[r], Cleared', secret')
    <3>1. req[r] \in Call /\ Finds(req[r], Cleared, secret)
      BY DEF Inv, TypeOK, CallsInv
    <3>2. QED BY <3>1, FindsKept
  <2>2. QED BY <1>1, <2>1 DEF CallsInv
<1>3. RunsInv'
  BY <1>1, RunsStill
<1>4. MintedInv'
  BY <1>1 DEF Inv, MintedInv, Once, Serves, At
<1>5. req' \in [Reqs -> Call]
  BY <1>1 DEF Inv, TypeOK
<1>6. QED BY <1>2, <1>3, <1>4, <1>5, TypePartsNext DEF Inv

\* A store of secrets that is emptied: what they were issued for stays known.
LEMMA DeadFacts ==
  ASSUME Inv, NEW kinds, secret' = Dead(kinds), UNCHANGED history
  PROVE  Onward /\ SecretsInv' /\ secret' \in [Secrets -> Secret]
<1>1. secret \in [Secrets -> Secret]
  BY DEF Inv, TypeOK
<1>2. ASSUME NEW s \in Secrets
      PROVE  /\ secret'[s] \in Secret /\ secret'[s].kind = secret[s].kind
             /\ secret'[s].uid = secret[s].uid /\ secret'[s].run = secret[s].run
  <2>1. secret[s] \in Secret
    BY <1>1
  <2>2. secret'[s] = secret[s] \/ secret'[s] = [secret[s] EXCEPT !.live = FALSE]
    BY DEF Dead
  <2>3. [secret[s] EXCEPT !.live = FALSE] \in Secret
    BY <2>1 DEF Secret
  <2>4. QED BY <2>1, <2>2, <2>3 DEF Secret
<1>3. secret' \in [Secrets -> Secret]
  BY <1>2 DEF Dead
<1>4. Onward
  BY <1>2 DEF Onward, Cleared, history
<1>5. SecretsInv'
  BY <1>2 DEF Inv, SecretsInv
<1>6. QED BY <1>3, <1>4, <1>5

LEMMA ManageStep ==
  ASSUME Inv, Manage
  PROVE  Inv'
<1>1. ASSUME UNCHANGED <<secret, runs, req, history>>, UNCHANGED <<keys, calls>>,
             owner' \in [Logins -> Uids \cup {None}],
             status' \in [Uids -> {"unused", "drawn", "enabled", "disabled", "gone"}],
             resetPc' \in {"idle", "otps", "webauthn"}, changes' \in Nat
      PROVE  Inv'
  <2>1. Onward /\ SecretsInv'
    BY <1>1 DEF history, Onward, Cleared, Inv, SecretsInv
  <2>2. Rest'
    BY <1>1 DEF Rest, Inv, TypeOK, history
  <2>3. QED BY <1>1, <2>1, <2>2, QuietStep
<1>2. Change => changes' \in Nat
  BY DEF Change, Inv, TypeOK
<1>3. ASSUME NEW u \in Uids, NEW ls \in SUBSET Logins, Delete(u, ls) PROVE Inv'
  <2>1. owner' \in [Logins -> Uids \cup {None}]
    BY <1>3 DEF Delete, Inv, TypeOK
  <2>2. status' \in [Uids -> {"unused", "drawn", "enabled", "disabled", "gone"}]
    BY <1>3 DEF Delete, Inv, TypeOK
  <2>3. QED BY <1>1, <1>2, <1>3, <2>1, <2>2 DEF Delete, Inv, TypeOK
<1>4. ASSUME NEW u \in Uids, NEW s \in {"enabled", "disabled"}, SetStatus(u, s) PROVE Inv'
  <2>1. status' \in [Uids -> {"unused", "drawn", "enabled", "disabled", "gone"}]
    BY <1>4 DEF SetStatus, Inv, TypeOK
  <2>2. QED BY <1>1, <1>2, <1>4, <2>1 DEF SetStatus, Inv, TypeOK
<1>5. CASE ResetUsers
  <2>1. owner' \in [Logins -> Uids \cup {None}]
    BY <1>5 DEF ResetUsers
  <2>2. status' \in [Uids -> {"unused", "drawn", "enabled", "disabled", "gone"}]
    BY <1>5 DEF ResetUsers, Inv, TypeOK
  <2>3. QED BY <1>1, <1>2, <1>5, <2>1, <2>2 DEF ResetUsers
<1>6. CASE ResetOtps
  <2>1. Onward /\ SecretsInv' /\ secret' \in [Secrets -> Secret]
    BY <1>6, DeadFacts DEF ResetOtps, history
  <2>2. Rest'
    BY <1>6, <2>1 DEF ResetOtps, Rest, Inv, TypeOK, users, history, bounds
  <2>3. QED BY <1>6, <2>1, <2>2, QuietStep DEF ResetOtps
<1>7. CASE ResetWebAuthn
  <2>1. Onward /\ SecretsInv' /\ secret' \in [Secrets -> Secret]
    BY <1>7, DeadFacts DEF ResetWebAuthn, history
  <2>2. Rest'
    BY <1>7, <2>1 DEF ResetWebAuthn, Rest, Inv, TypeOK, users, history, bounds
  <2>3. QED BY <1>7, <2>1, <2>2, QuietStep DEF ResetWebAuthn
<1>8. QED BY <1>3, <1>4, <1>5, <1>6, <1>7 DEF Manage

LEMMA InitInv == Init => Inv
<1> SUFFICES ASSUME Init PROVE Inv
  OBVIOUS
<1>1. NoSecret \in Secret
  BY DEF NoSecret, Secret
<1>2. TypeOK
  BY <1>1, IdleIsCall DEF Init, TypeOK
<1>3. CallsInv
  BY IdleIsCall DEF Init, CallsInv
<1>4. RunsInv
  BY DEF Init, RunsInv
<1>5. SecretsInv
  BY DEF Init, SecretsInv, NoSecret
<1>6. MintedInv
  <2>1. \A x \in Runs : Serves(x) = {}
    BY FlowEngineAssumption DEF Init, Serves, Idle
  <2>2. QED BY <2>1 DEF Init, MintedInv, Once
<1>7. QED BY <1>2, <1>3, <1>4, <1>5, <1>6 DEF Inv

LEMMA ServesInv ==
  ASSUME Inv, NEW r \in Reqs, Serve(r)
  PROVE  Inv'
<1>1. CASE Condition(r) \/ Noop(r)
  BY <1>1, ConditionStep, NoopStep
<1>2. CASE PasswordSignIn(r) \/ PasswordTarget(r) \/ SetPassword(r)
  BY <1>2, PasswordSignInStep, PasswordTargetStep, SetPasswordStep
<1>3. CASE CodeTarget(r) \/ VerifyCode(r) \/ LinkTarget(r) \/ VerifyLink(r)
  BY <1>3, CodeTargetStep, VerifyCodeStep, LinkTargetStep, VerifyLinkStep
<1>4. CASE \E u \in Uids : InsertUser(r, u) \/ RegisterKey(r, u)
  BY <1>4, InsertUserStep, RegisterKeyStep
<1>5. CASE \E s \in Secrets : StoreCode(r, s) \/ IssueLink(r, s) \/ Begin(r, s)
  BY <1>5, StoreCodeStep, IssueLinkStep, BeginStep
<1>6. CASE \/ PasskeyStart(r) \/ TakeCeremony(r) \/ AssertKey(r) \/ AddKey(r)
           \/ InsertKeyUser(r)
  BY <1>6, PasskeyStartStep, TakeCeremonyStep, AssertKeyStep, AddKeyStep, InsertKeyUserStep
<1>7. CASE SsoStart(r) \/ SsoExchange(r) \/ LoggedIn(r) \/ Save(r)
  BY <1>7, SsoStartStep, SsoExchangeStep, LoggedInStep, SaveStep
<1>8. QED BY <1>1, <1>2, <1>3, <1>4, <1>5, <1>6, <1>7 DEF Serve

LEMMA NextInv == Inv /\ [Next]_vars => Inv'
<1> SUFFICES ASSUME Inv, [Next]_vars PROVE Inv'
  OBVIOUS
<1>1. ASSUME NEW r \in Reqs, Arrive(r) \/ Serve(r) PROVE Inv'
  BY <1>1, ArriveStep, ServesInv
<1>2. ASSUME NEW s \in Secrets, NEW u \in Uids \cup {None}, Callback(s, u) PROVE Inv'
  BY <1>2, CallbackStep
<1>3. CASE Manage
  BY <1>3, ManageStep
<1>4. CASE UNCHANGED vars
  <2>1. UNCHANGED <<secret, runs, req, history>> /\ Onward /\ SecretsInv'
    BY <1>4 DEF vars, history, Onward, Cleared, Inv, SecretsInv
  <2>2. Rest'
    BY <1>4 DEF vars, users, history, bounds, Rest, Inv, TypeOK
  <2>3. QED BY <2>1, <2>2, QuietStep
<1>5. QED BY <1>1, <1>2, <1>3, <1>4 DEF Next

LEMMA InvHolds == Spec => []Inv
BY InitInv, NextInv, PTL DEF Spec

\* Every variable keeps its shape; in particular no call visits more tasks than
\* MAX_STEPS (flow_engine.rs, drive), whatever flow is given.
THEOREM TypeCorrect == Spec => []TypeOK
<1>1. Inv => TypeOK
  BY DEF Inv
<1>2. QED BY <1>1, InvHolds, PTL

\* A run ends in a session only for a user of whom proof was shown in this run,
\* or whose password password-replace replaced while nobody was signed in
\* (flow_engine.rs, password_replace); in every flow, at whichever steps a caller
\* goes on (flow_engine.rs, next), and however many tabs overwrite each other's
\* copies of the run.
THEOREM SignsInProvedUserHolds == Spec => []SignsInProvedUser
<1>1. Inv => SignsInProvedUser
  BY DEF Inv, CallsInv, Finds, Cleared, SignsInProvedUser
<1>2. QED BY <1>1, InvHolds, PTL

\* A run that serves one call at a time ends in at most one session, however
\* often it is polled, submitted to or resumed afterwards.
THEOREM OneSessionPerRunHolds == Spec => []OneSessionPerRun
<1>1. Inv => OneSessionPerRun
  BY DEF Inv, MintedInv, Once, OneSessionPerRun
<1>2. QED BY <1>1, InvHolds, PTL
=============================================================================
