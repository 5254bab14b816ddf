---------------------------- MODULE MCFlowEngine ----------------------------
(* Small instances of FlowEngine for TLC: a sign-in flow with every kind of *)
(* action, in the manner of the exported flow of the scenario tests.        *)
EXTENDS FlowEngine, TLC

LowerCase == [l \in Logins |-> l]

NoRules == [c \in {} |-> StartTask]

Screen(rules) == [type |-> "screen", action |-> "none", rules |-> rules,
                  finish |-> None, conditions |-> <<>>]
Branch(conditions, rules) == [type |-> "condition", action |-> "none",
                  rules |-> rules, finish |-> None, conditions |-> conditions]
Act(action, rules) == [type |-> "automated", action |-> action, rules |-> rules,
                       finish |-> None, conditions |-> <<>>]
Resumed(action, finish, rules) == [Act(action, rules) EXCEPT !.finish = finish]

Success(t) == [success |-> t]

\* Screens, conditions and passwords.
PasswordTasks ==
  [ start |-> Screen([password |-> "pw", code |-> "code", link |-> "link",
                      passkey |-> "get", newPasskey |-> "create", sso |-> "sso",
                      round |-> "round"]),
    pw |-> Act("passwordSignIn", Success("ask")),
    ask |-> Branch(<<[fact |-> "user has a passkey", choice |-> "yes"]>>,
                   [yes |-> "done"] @@ [e \in {"ELSE"} |-> "promote"]),
    promote |-> Screen([skip |-> "done", add |-> "add", change |-> "change",
                        forgot |-> "reset"]),
    add |-> Resumed("updateStart", "added", Success("added")),
    added |-> Act("updateFinish", Success("done")),
    change |-> Act("passwordUpdate", Success("done")),
    reset |-> Act("passwordReplace", Success("done")),
    round |-> Branch(<<[fact |-> "login id is known", choice |-> "known"]>>,
                     [known |-> "round"] @@ [e \in {"ELSE"} |-> "start"]),
    done |-> Act("loggedIn", NoRules) ]

\* Codes and links.
LinkTasks ==
  [ code |-> Act("signUpCode", Success("typeCode")),
    typeCode |-> Screen([submit |-> "check", again |-> "resend"]),
    resend |-> Act("sendCode", Success("typeCode")),
    check |-> Act("verifyCode", Success("profile")),
    profile |-> Act("noop", Success("done")),
    link |-> Resumed("sendLink", "opened", Success("wait")),
    wait |-> Screen([polling |-> "done"]),
    opened |-> Act("verifyLink", Success("done")) ]

\* Passkeys and SSO.
PasskeyTasks ==
  [ get |-> Resumed("signInStart", "got", Success("got")),
    got |-> Act("signInFinish", Success("done")),
    create |-> Resumed("signUpStart", "created", Success("created")),
    created |-> Act("signUpFinish", Success("confirm")),
    confirm |-> Resumed("updateLink", "opened", Success("wait")),
    sso |-> Resumed("ssoStart", "back", Success("back")),
    back |-> Act("ssoExchange", Success("done")) ]

SignInFlow == PasswordTasks @@ LinkTasks @@ PasskeyTasks

FlowSymmetry ==
  Permutations(Uids) \cup Permutations(Secrets)
  \cup Permutations(Reqs) \cup Permutations(Runs)
=============================================================================
