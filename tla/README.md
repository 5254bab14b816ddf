# Rescope in TLA+

Rescope is an emulator of the Descope authentication API: an axum/tokio server
(`apps/api`) over in-memory stores (`libs/rescope-core`). Requests run
concurrently on a multi-threaded runtime, and parallel test shards share one
process, so what matters is what its handlers do to one another. This directory
models that in TLA+, checks it with TLC on small instances, and proves the most
important invariants with TLAPS for instances of every size.

## The system

| Component | State | Operations | What makes it correct |
|---|---|---|---|
| Sessions (`routes/auth/session.rs`, `routes/mgmt/jwt.rs`, `jwt/*`) | none of their own: revoked strings, per-user boundary, users | sign-in tail, refresh, logout, logout_all, me, validate, tenant_select, update, impersonate, stop_impersonation, force_logout | a JWT that was logged out opens nothing later; minting only for live users; impersonation is kept |
| Revocations (`store/revocation_store.rs`, `user_revocations`) | set of JWT strings; user -> second | revoke, is_revoked, move the boundary forward | boundaries only move forward |
| One-time tokens (`store/token_store.rs`) | map token -> owner, insertion queue, cap | insert with eviction, consume | one redeemer per token; eviction of the oldest only, at the cap |
| User store (`store/user_store.rs`) | users by id, indices by login id, email, phone | insert, update, patch, rename, delete, snapshot/restore, lookup with fallbacks | indices describe the users; restore loses nobody but to a phone registered in place |
| Locks (`state.rs`) | one tokio `RwLock` per store | read/write, nested inside handlers | wait cycles only where a handler breaks the lock order; every other request is answered |
| One-time passwords (`routes/auth/otp.rs`, `store/otp_store.rs`) | one code per user | store, peek, consume | a code signs in the user it was handed out for |
| Passwords, lockouts (`routes/auth/password.rs`, `auth_policy.rs`) | hash per user; failures per login id | signup, signin, replace, reset, update | lockout after five failures; no lost update |
| Hosted flows (`routes/auth/flow.rs`, `flow_engine.rs`) | executions with step and pending data | start, next | an execution completes once |
| Passkeys (`routes/auth/webauthn.rs`) | credentials, pending ceremonies | start, finish | a credential belongs to a user |
| Snapshot, reset (`routes/emulator/snapshot.rs`, `state.rs`) | all stores, keys | export, import, reset | an export is of one moment; import restores what the file lists |
| IdP emulators, JIT provisioning (`routes/emulator/idp_*.rs`, `sso_jit.rs`) | authorization codes, provisioned users | authorize, token, ACS | a code is exchanged once, by its client |
| Configuration (tenants, roles, permissions, templates, access keys, connectors, attributes) | maps behind one lock each | create, update, delete, load | names unique and equal to keys |

**How they interact.** A handler is an async function over `EmulatorState`. Each
store has its own lock; a handler takes a store's lock, works, and (mostly) drops
it before the next `.await`. So handlers interleave between stores: a status read
may be stale when tokens are minted, a token consumed by one request is gone for
the next, a reset empties one store after the other while requests run. The
exceptions are the mint blocks, which hold `users` (and `jwt_templates`, `roles`)
together, and the export, which holds every store it has listed until its file is done.

**What is hard.** The interleavings of those handlers; lock nesting; one-second
time stamps in JWTs without a random part; stale indices behind fallback lookups;
resets and imports in the middle of requests. Nothing is persisted and messages
are plain HTTP calls, so crashes, retries and message loss play no part beyond a
client that hangs up (`Abandon` in `Locks`). `PROJECT.json` lists each hazard at
its line.

## Modules

| Module | Models | Composition |
|---|---|---|
| `Sessions` | every session handler, one action per store it visits | inlines the status of users, both revocation stores, reset/import |
| `OneTimeTokens` | what a one-time token promises (abstract) | refined by `TokenStore` |
| `TokenStore` | the token store with issuing and redeeming requests over it | INSTANCEs `OneTimeTokens` |
| `Locks` | handlers as sequences of lock requests; the tokio lock | |
| `UserStore` | the user store and the handlers that edit it in place | |
| `Accounts` | whom a login id leads to, registered or by a fallback of `load`, and what insert, rename, edits, deletion and reset make of it | EXTENDed by `OtpSignIn`, `PasswordSignIn`, `Federation` |
| `OtpSignIn` | one-time passwords: handlers that provision or find a user and store a code, and handlers that exchange it | EXTENDS `Accounts` |
| `Lockouts` | the lockout record of a login id: a failure recorded, the window | |
| `PasswordSignIn` | password handlers and the built-in hosted flow | EXTENDS `Lockouts`, `Accounts` |
| `FlowEngine` | exported flows: runs, the walk through the task graph, polling, save | inlines users, codes, link tokens and ceremonies as secrets |
| `Passkeys` | WebAuthn ceremonies, transactions, credentials | inlines what they read of the user store |
| `Federation` | SSO over the OIDC and SAML emulators, just-in-time provisioning, codes | EXTENDS `Accounts`; inlines tenants, providers |
| `ProjectConfig` | the configuration stores, snapshot, reset, seed, the signing key | the other stores as lists of entries |
| `MC*` | constants and symmetry of the small instances | EXTEND the module |
| `SessionsProofs`, `LocksProofs`, `OtpSignInProofs`, `PasskeysProofs`, `PasswordSignInProofs`, `FederationProofs`, `FlowEngineProofs` | theorems and proofs of the module so named | EXTEND it and TLAPS |
| `StoreProofs` | theorems and proofs of the three stores | EXTENDS `UserStore`, `TokenStore`, `ProjectConfig`, TLAPS |

`StoreProofs` extends three state machines at once, so those share no name: the user store
has `UsersSpec`, `UsersInit`, `UsersNext`, `UsersTypeOK`, `userVars` and its value for
"nothing" is `Absent`; the token store has `TokensSpec` and so on, its redeeming requests are
`Redemptions` and its map holds the tokens `Held`. `ProjectConfig` keeps the plain names.

### Sessions

A request `r` runs one handler once; `pc[r]` names the next store it visits. The
checks of a handler are shared actions (`CheckRevocation`, `CheckJwt`,
`CheckBoundary`, `LoadUser`), and `FirstStep`, `AfterJwt`, `AfterLoad` say which
handler makes which and in what order, as read from the code: `tenant_select`
has no `CheckBoundary`, `me` makes it only for refresh JWTs, `validate` no
`LoadUser`. A JWT is its claims; `issued` collects those a client has seen, and
Start takes any of them. `status` is the part of the user store that sessions
read. Writers of `users` wait for requests in a mint block (`LockHolders`).
History variables (`loggedOut`, `forcedOut`, `marks`) record what had been
acknowledged when a request began, which is what the promises are about.

Abstracted: claims no property reads; the cookie and header a JWT comes in;
the JWT templates; passwords (a sign-in starts where the password was found
right). The signing key is fixed.

### TokenStore and OneTimeTokens

`entries` and `order` are the map and the queue, `InsertToken`, and `Consume` with
`Without`, the two operations. Issuers look an owner up and insert in a second step;
redeemers consume first and look at the user afterwards (`LoadUser`, `Mint`,
`RecordLogin`) or set a password. `OneTimeTokens` has no queue: tokens have
serial numbers, and at the cap the oldest live one is given up. `TokenStore`
implements it with `redeemers` read off the requests and `lost` read off the map. Some
handlers create the user for whom they issue (`SignUp`, then `IssueToken`); a reset keeps
the tokens, as `reset_stores` does on purpose.

### Locks

Each handler is the sequence of lock requests it makes and, with each, the guards
still alive when it makes it (`kept`), which is what scopes, `drop` and temporaries
in the Rust code come to. The lock itself is external: a FIFO queue in which
readers at the front share. `Program` has every handler that asks for a lock while it
holds another, and the writers that may queue between them. `Export` is one of them: the
guards of its struct expression live to the end, so it asks for `jwt_templates` while it
holds `roles`, where the mints hold `jwt_templates` and ask for `roles`. `OutOfOrder` are
the export and the five handlers that record the login under the templates' guard. Stores
that only the export holds, and that no handler asks for while it holds another, cannot
take part in a cycle and are left out.

### UserStore

Every operation is one step, because all run under the one lock. Lookup is the
code's fallback chain; where the code scans a hash map in no particular order,
the result is a set. `Restore` inserts a snapshot in any order and drops who clashes.
`Described` is whom a scan of the users would find, without any index; `LookupIsCurrent`
compares the two, where the email index is silent: an address that a user no longer has goes
on leading to it, in the code and in the model. `PhoneLogins` are the phones `update_phone`
may register in place; two users may come to share one, and then a restore keeps one of them.

### Accounts

`owner` is the login index. `alias` is whom the rest of `load`'s chain finds, by email, by
phone or by a bare name: any user, since the emails and phones are not kept here. An edit of
a user (`Edited`, `Realias`) may turn an id that nobody registered to that user or away from
it, and the removal of one (`Bereft`) may turn away ids of others, as `remove_by_uid` does.
`Behind` is what a lookup finds. A sign-up and a rename look at `owner` only (`Free`), as
`UserStore::insert` does: an id that leads to one user through the chain can be registered by
another. The sign-in modules mark the requests for which this happens, or whose id is moved by
management or a reset, and except them in the properties about whose session it is;
everything else that could go wrong between their lookups is left to the properties.

### OtpSignIn

A request runs one handler once, one action per visit to a store: look up or insert
the user (`Load`, `Insert`, `Stage`), then `Store`; or `Load`, `Consume`, `Patch`,
`Reload`, `Mint`. Because every visit looks the user up by login id again, the model
keeps the user first found (`who`) apart from the user a session is minted for
(`subject`). Renames, changed emails and phones, deletions, status changes and a reset run
in between; `moved` records the requests whose login id was made to lead elsewhere that way,
or by a sign-up over an id that led there without being registered, which the
properties about accounts except. The codes are drawn from a set of two, so that a
fresh code can equal an old one. `source`, `spent` and `staged` are history: who
stored, consumed and staged what. A user registers one login id here; import after a
reset is left out; how hosted flows use the same codes is in `FlowEngine`.

### PasswordSignIn and Lockouts

One action per visit: `Gate` (check_not_locked_out), `Verify` (the bcrypt run belongs to
the visit that reads the hash), `RecordFailure`, `ClearFailures`, `SetPassword`, `Mint`,
`RecordLogin`; the built-in flow adds `CreateExec`, `ReadStep`, `Advance`, `ReadLogin`,
`Complete`, in which the execution's step and its login id are read in separate scopes.
The user is found anew by login id at each visit. `Lockouts` keeps the age of the first
failure instead of its time, and lets it grow no further than the window, because every
age from there on is treated alike. `proved`, `session` and `moved` are history: whose
password was compared, set or signed up with, who got the session, and whether the
login id was made to lead elsewhere meanwhile.

### FlowEngine

A call copies the stored run (or makes one), walks the task graph with the copy - one
action per store an action visits, the screens and rules in between folded into the
step that leads to them (`Enter`, `Proceed`, `Stop`) - and stores the copy over whatever
is stored by then (`Save`). `fuel` is what is left of MAX_STEPS. The graph `Flow` is a
constant, so that the model is of the engine and not of one flow; the instance has a
flow with every kind of action, among them a condition that leads back to itself.
`FlowAssumption` is only the shape of a task. A call that brings a token or an exchange code
may name any automated task to go on at (`next`, `flow_engine.rs:481`), whatever the run is
waiting for; `Arrive` lets it. So it may go on at `password_replace` (`flow_engine.rs:1056`),
which signs in whoever the login id names, with no proof, if nobody is signed in yet:
`replaced` records whom, and `SignsInProvedUser` says that a session is for one of whom proof
was shown or whose password was so replaced. A login id that nobody registered leads to
anybody or nobody (`Loaded`), and a sign-up by code is refused for ids that are not emails
(`MaySignUp`) and registers the address in lower case (`Lower`). A code, a
link token, an SSO code and a passkey ceremony are each a `secret`, issued once. Time is
not kept: `sweep_expired` may find any other run expired. `proved` records the users of
whom proof was shown in a run, `minted` its sessions, `shared` the runs two calls worked
on at once.

### Passkeys

`start` is `Load`, `HasPasskey`, `Begin` (which sweeps old transactions and opens one);
`finish` is `Take` and then, by ceremony, `RegisterNew` and `Insert`, `AssertPasskey`,
or `AddPasskey`, and `Mint` and `RecordLogin`. `Take` removes the transaction, and puts it
back if the finish is of another kind. A finish may name any transaction, and answer the
challenge of another. A login id that nobody registered leads to anybody or nobody
(`Loaded`), as in `FlowEngine`. `txs[t].status` is "old" once its time to live is over. CBOR,
COSE and signatures are one accept-or-refuse choice (`challenge = None` fails).
`enrolled`, `finished`, `twice`, `wiped` and `asked` are history: an enrolment, a ceremony
finished, finished twice, a user whose passkeys a reset swept, whom a ceremony is for.

### Federation

One action per store the surfaces visit: `LoadTenant`, `LoadIdp`, `LoadAcsUrl`, `LookUp`,
`Exists`, `Insert`, `Reload`, `IssueCode`, `Redeem`, `RedeemedUser`, `Mint`,
`RecordLogin`; `op` says which surface it is (application, provisioning screen, OIDC
authorize, SAML sso, ACS, token endpoint, callback, exchange) and so what comes next.
What a handler copies of a tenant (`tenant`, `setting`) may be stale when it is used. `codes`
holds authorization codes and the SAML codes of the token store; what a browser carries from
one call to the next is an input, and the ACS takes any assertion.

### ProjectConfig

A store maps keys to entries; an entry has the name it would be restored under and one
bit of content (`flag`: the template is active, the key enabled, the description
changed). A management call is first admitted, by the access key it presents (`Admit`), and then
edits its store in one visit; creating or updating a tenant visits the store once more for
its SSO and for its provisioning settings (`FinishTenant`), and ends half done if the
tenant is gone by then. Export, import and reset are lists of steps (`ExportOrder`,
`ImportSteps`, `ResetSteps`, `SeedOrder`) executed one store at a time (`at`); `touched`
is history: what others wrote since. What an export has listed nobody writes before its file
is done (`HeldByExport`). An import leaves a store alone of which the file lists nothing, and
the methods of which it has none (`Restores`); of users that clash it keeps some (`Accepted`),
and which they are is `UserStore`'s matter. Files and the seed may list two active templates. The signing key has its tokio lock: readers
(`BeginRead`), and `swap_keys`, which takes the lock if it is free and otherwise spawns a
task (`spawned`, `PollSwap`, `queue`, `Swap`).

## Runs

| Run | Shows | Bounds |
|---|---|---|
| `sessions` | `LogoutIsFinal`, `ForceLogoutIsFinal`, `MintsOnlyForLiveUsers`, `ImpersonationSurvivesRefresh`, `BoundaryNeverMovesBack` over all eleven handlers | three requests, one user, seconds 0 and 1, one reset or import |
| `tokens` | map and queue agree, eviction is honest, tokens sign in their enabled owner, refinement of `OneTimeTokens` | cap 2, four tokens, two issuers, two redeemers, one reset |
| `locks` | requests wait in a circle only through the templates' lock and a handler that breaks the order (`DeadlocksNeedTemplates`); every request is answered unless such a circle closes (`AnsweredUnlessCircle`) | three requests at a time of a flow step, a SAML exchange and template edits |
| `locks_deadlock` | an OTP verification, a refresh and a template edit wait for ever (violation) | three requests |
| `users` | exact login index, lookups that agree with a scan of the users (`LookupIsCurrent`), restores that lose a user only to one with the same phone in place (`RestoreLosesOnlySharedPhones`) | two users, two cases of an email, its bare name, two phones, one of which may be registered in place |
| `users_phone_login` | a lookup of a phone added to login_ids finds another user that has the phone (violation) | the same, without symmetry |
| `otp` | `OneAccountPerLogin`, `CodeSignsInOnce`, `SignsInCodeOwner` over all six kinds of handlers | three requests, two users, two login ids, two codes, one change |
| `passwords` | `GuessesPerWindow`, `LockoutNotProlonged`, `SignsInPasswordOwner` over all password handlers and the built-in flow | two requests, three calls, two users, two login ids, two passwords, one execution, limit 1, window 2, one change underneath |
| `flows` | `SignsInProvedUser`, `OneSessionPerRun` over runs of a flow with every kind of action, resumed at any automated step | two requests, three calls, two runs, two secrets, two users, one login id or none, four tasks a call, one change |
| `passkeys` | `FinishedOnce`, `SignsInEnrolledUser`, `SignedUpHasPasskey` over the three ceremonies | two requests, four calls, two transactions, two passkeys, two users, two login ids, one change |
| `federation` | `SignsInAddressOwner`, `ProvisionsOnlyWhileOn` over every surface | two requests, three calls, two addresses, two tenants, a SAML and an OIDC provider, two codes, one change |
| `config` | `ExportIsOneMoment`, `ImportRestores`, `SwapLands`, and names that agree with keys (`TypeOK`) | two requests, one management call, two jobs (export, import, reset), two names, two signing keys |

Why the bounds are enough: three requests are the least in which a JWT is made, ended
and used; with two seconds a JWT can be older than, as old as, and newer than a
boundary. A cap of two with four tokens evicts, refills and evicts again. A cycle
over writer-preferring locks needs a holder, a queued writer and a waiter: three
tasks (the one the export closes needs four, and is checked by hand; the theorems are for any
number). With two users every kind of collision of identifiers occurs.
Three requests issue a code and present it twice, or race twice for one login id and
present the winner's code; two login ids let one change hands. Three calls on two
requests are two at once and one before or after them: two guesses against a limit of
one (the code's limit of five only takes more calls to reach; the theorem is for any),
a sign-in that straddles a lockout, two tabs on a run one of which started it, an
assertion, its code, and the exchange of it. Passkeys get a fourth call: two
ceremonies from start to finish, or a start and three finishes. One change underneath
(a rename, a changed email or phone, a deletion, a setting, or a reset, store by store) falls
between any two steps. One login id is enough for the flows: an id that nobody registered may
lead to any user there, and a run without one acts by whoever is signed in.
A call visits four tasks at most instead of MAX_STEPS (200): the flow's chains between
screens are shorter, but for the circle, which has to reach the limit. Two
jobs are an export and its import, an import and a reset, or two imports, with a
management call between their steps; two names let a restore meet an entry
it does not list.

Largest: `passkeys` with 2.4 million states; `federation`, `flows`, `otp` and `passwords` have
between 1.2 and 2.2 million, `config` 0.4 and `locks` and `users` 0.1 million, symmetric in
users, login ids, secrets and requests where those are interchangeable (not in `config` and
`locks`, which have liveness properties).

`CHECK_DEADLOCK FALSE` in `sessions`, `tokens` and `otp`: each request runs once and the
clock is bounded, so those instances end. So do `passwords`, `flows`, `passkeys`,
`federation` and `config`, once their calls, jobs and changes are used up and answered.
`locks` and `users` never end.

**Fairness.** `Locks` assumes `WF(Advance(t))` for each task, since tokio polls every task
that was woken and its lock wakes waiters in order: nobody is polled for ever without a turn, and
`AnsweredUnlessCircle` says that this is enough. `ProjectConfig` assumes `WF` of
`PollSwap` (a spawned task is polled), of `Swap` (its turn in the lock's queue comes) and
of `EndRead` (a read guard on the key lives for one expression). No fairness is assumed of clients: nobody owes the server a request or a hang-up.

## Proofs

All eight proof modules hold for every value of the constants that satisfies the
modules' named ASSUMEs. Between them they prove every invariant and every action property
that a passing run checks, and the refinement of `OneTimeTokens`; the runs show each of them
on a small instance.

| Property | Module | Theorem | Assumed beyond the module's ASSUMEs |
|---|---|---|---|
| `TypeOK` of `Sessions`, `LogoutIsFinal`, `ForceLogoutIsFinal`, `MintsOnlyForLiveUsers`, `BoundaryNeverMovesBack`, `ImpersonationSurvivesRefresh` | `SessionsProofs` | `TypeCorrect`, `...Holds` | |
| `UsersTypeOK` | `StoreProofs` | `UsersTypeCorrect` | |
| `LoginIndexExact`, `LookupIsCurrent`, `RestoreLosesOnlySharedPhones` | `StoreProofs` | `...Holds` | |
| `TokensTypeOK`, `QueueMatchesMap`, `LostOnlyUnderPressure`, `SignsInEnabledOwner` | `StoreProofs` | `TokensTypeCorrect`, `...Holds` | |
| `ImplementsOneTimeTokens`; `TokenOpensOnce` | `StoreProofs` | `StoreImplementsOneTimeTokens`, `TokenOpensOnceHolds` | |
| `TypeOK` of `ProjectConfig`, `ExportIsOneMoment`, `ImportRestores` | `StoreProofs` | `TypeCorrect`, `...Holds` | |
| `TypeOK` of `Locks`, `DeadlocksNeedTemplates` | `LocksProofs` | `TypeCorrect`, `DeadlocksNeedTemplatesHolds` | |
| `NoDeadlock` | `LocksProofs` | `NoDeadlockInOrder` | `Handlers \cap OutOfOrder = {}` |
| `TypeOK` of `OtpSignIn`, `OneAccountPerLogin`, `CodeSignsInOnce`, `SignsInCodeOwner` | `OtpSignInProofs` | `TypeCorrect`, `...Holds` | |
| `TypeOK` of `PasswordSignIn`, `GuessesPerWindow`, `LockoutNotProlonged`, `SignsInPasswordOwner` | `PasswordSignInProofs` | `TypeCorrect`, `...Holds` | |
| `TypeOK` of `Passkeys`, `FinishedOnce`, `SignsInEnrolledUser`, `SignedUpHasPasskey` | `PasskeysProofs` | `TypeCorrect`, `...Holds` | |
| `TypeOK` of `Federation`, `SignsInAddressOwner`, `ProvisionsOnlyWhileOn` | `FederationProofs` | `TypeCorrect`, `...Holds` | |
| `TypeOK` of `FlowEngine`, `SignsInProvedUser`, `OneSessionPerRun` | `FlowEngineProofs` | `TypeCorrect`, `...Holds` | |

### The inductive invariants

- `SessionsProofs`: `TypeCorrect`, then one inductive invariant per property.
  `LogoutIsFinal` needs that a JWT acknowledged as logged out is still in `revoked`
  (unless a reset is under way and has passed it), and that a request which began
  with such a JWT is still in front of, or refused at, its revocation check.
  `ForceLogoutIsFinal` needs the same of the boundary with the time of the request,
  `MintsOnlyForLiveUsers` that users are not written while a request is in a mint
  block, `ImpersonationSurvivesRefresh` that every plain JWT has its origin among the
  requests.
- `StoreProofs`, users: `LoginIndexExact` with the types is inductive, phones registered in
  place excepted (`users_phone_login` shows why); exactness means that two users clash only
  over such a phone, so restore skips nobody else, and a login id in the index
  always leads to its owner, which is what `LookupIsCurrent` needs of the index: the phone
  index is stale, but `PhoneHit` checks what it yields. The types alone (`UsersShape`) are
  inductive whatever the phones do, but a restore inserts the users of the snapshot, and of
  those that want one identifier the last is indexed. That a snapshot can list the users takes
  that they are finitely many, which is why the invariant says so; that there is a last one
  follows from the well-foundedness of `<` on the naturals (`LeastNatural`, `LastOf`).
- `StoreProofs`, tokens: the queue is a duplicate-free list of the stored tokens in order
  of serial number; from it `TokensTypeCorrect` (the cap), `QueueMatchesMapHolds`, and the
  refinement `StoreImplementsOneTimeTokens` step by step: the evicted head is the
  oldest live token. `TokenOpensOnceHolds` is proved of `OneTimeTokens` and carried over.
  `LostOnlyUnderPressureHolds` needs that the token at place i of the
  queue has seen as many issues as there are tokens behind it (`Aged`);
  `SignsInEnabledOwnerHolds` that users are not written while a request mints.
- `StoreProofs`, configuration: names agree with keys, in the stores and in every list on its
  way through an export or an import. `ExportIsOneMomentHolds` needs that what an export has
  listed of a store is what the store still holds, since nobody writes it meanwhile.
  `ImportRestoresHolds` adds `ImportsInv`: a store an import has restored, and
  nobody else has written since, is the file's list under its names (of users, those
  accepted), one it has only reset is empty (`Follows`), and no list has two entries of one
  name (`Listed`), or a restore would keep one of them. An export gives such lists because
  names agree with keys. The middle of an import has to be told apart (`HasReset`,
  `HasRestored`): what it reset and will not restore stays empty to the end. The file
  from elsewhere is assumed to have no two entries of one name in a list
  (`ListsAssumption`); which templates it makes active is up to it.
- `LocksProofs`: handlers other than those in `OutOfOrder` ask for locks in a rising order
  (`Rank`) with every kept guard below the one asked for, and read locks again only
  after letting go; so among waiting tasks the one that waits for the highest lock
  waits for a holder that does not wait (`NoDeadlockInOrder`). The out-of-order ones keep to
  that order too once the templates are set aside (`Sound`); a circle therefore has
  a task that waits for the templates and an out-of-order handler that holds up another
  (`DeadlocksNeedTemplatesHolds`, for any handlers). `locks_deadlock` and
  `MCLocksExport.cfg` show that such circles exist.
- `OtpSignInProofs`: the invariant says that a pending code was stored for its user by
  a request that has answered and that nobody consumed it (`PendingInv`), that a
  verification past `Consume` remembers a request that stored a code for the same
  user (`SpentInv`), and that the login id of a request still leads to the user it
  settled on unless it is in `moved` (`WhoInv`): an insert takes an id over only where it was
  not registered, and then every request that goes by it is marked. The three properties
  follow.
- `PasswordSignInProofs`: a request whose password was accepted still finds that user
  under its login id unless the login id was made to lead elsewhere (`Finds`); a login id whose
  window is open has room left for every request that passed the check and has not recorded
  its failure yet (`Room`). The bound itself is not inductive: it is what `Room`
  leaves when nobody is under way. `LockoutNotProlongedHolds` is a step property of
  `Recorded` and `Aged`.
- `PasskeysProofs`: what a call has found stays true while others run because of four
  facts about every step (`Onward`): a started transaction stays started and stays for the
  same user, enrolments are never withdrawn, and a user loses its passkeys only to a
  reset. A taken transaction leaves nothing (`TxsInv`), hence `FinishedOnceHolds`;
  `SignedUpHasPasskeyHolds` rests on `RegisterNew` coming before `Insert`.
- `FederationProofs`: a call that has its user, and a code that names one, agree with
  whoever the address leads to, unless the sign-in is marked as moved (`Owns`, in `CallsInv`
  and `CodesInv`); it survives because an address changes hands only in steps that mark
  every call and code for it, and is otherwise only ever given to a user when it has none
  (`Onward`). For `ProvisionsOnlyWhileOn`, a call on its way to a user allows every tenant
  that provisions at that moment, so that whichever copy of a tenant it takes along, it
  allows it.
- `FlowEngineProofs`: calls work on copies and copies overwrite each other, so the
  invariant is about each copy (`Sound`: whom it has signed in has shown proof in this run
  or had the password replaced in it, and its link was issued in this run), stored (`RunsInv`) or in hand (`Finds`, in `CallsInv`), and otherwise only about
  `proved`, `replaced` and `secret`, which do nothing but grow (`Onward`): an older copy is as sound as a newer
  one. A walk of the graph keeps to it (`EnterGood`, `ProceedGood`), step by step of `fuel`.
  For `OneSessionPerRun`, a run only one call ever worked on at a time has minted at
  most one session, and once it has, its latest copy answers every later call without
  another (`Once`, `Ended`).

### What is only model-checked

Liveness (`AnsweredUnlessCircle`, `SwapLands`), which is out of the prover's reach. There
is no induction over data and no recursive operator in the modules with theorems.
The bound of the walk of a flow is a counter (`fuel`) and no recursion.

## Findings

Two runs expect a violation; `PROJECT.json` quotes the document each contradicts.

1. `locks_deadlock`, `otp.rs:321` (also `password.rs:151`, `:223`, `saml.rs:238`) - three
   requests deadlock.
2. `users_phone_login`, `otp.rs:430` (also `magic_link.rs:498`) - a login id without an
   index entry: with two users that have the phone, its lookup may find the wrong one.

### Known divergences

Each of these has a configuration TLC finds a counterexample with, by hand
(`tlc -config X.cfg M`):

| Module, configuration | Shows |
|---|---|
| `MCSessions`, `MCSessionsLogoutAll.cfg` | `session.rs:319`: a sign-in within a second of logout_all gets the revoked JWT again |
| `MCSessions`, `MCSessionsForceLogout.cfg` | `session.rs:362`: tenant_select accepts a JWT from before a forced logout |
| `MCLocks`, `MCLocksExport.cfg` | `snapshot.rs:63`: a refresh, a role edit, an export and a template edit wait for one another for ever |
| `MCProjectConfig`, `MCProjectConfigReplaces.cfg` | `snapshot.rs:91`: roles that the file does not list survive the import, where `openspec/changes/archive/2026-03-16-emulator-admin-ui/specs/snapshot-export-import/spec.md:17` says "replace all in-memory stores with the contents" |
| `MCProjectConfig`, `MCProjectConfigTemplates.cfg` | `jwt_template_store.rs:266`: a file with two active templates leaves two, where `jwt_template_store.rs:50` has one; the seed likewise (`seed.rs:105`) |
| `MCOtpSignIn`, `MCOtpSignInPhone.cfg` | `otp.rs:350`: a verification marks a phone verified that was staged after its code was consumed |
| `MCPasswordSignIn`, `MCPasswordSignInDisabled.cfg` | a disabled user gets a session, where the emulator-completeness proposal (`openspec/changes/archive/2026-03-14-emulator-completeness/proposal.md:27`) blocks it |

These were met while modelling; the models have what the code does:

- `flow_engine.rs:481`: a call with a token goes on at any automated task it names, a
  `password_replace` before any sign-in included (`replaced` in `FlowEngine`).
- `user_store.rs:29`: a sign-up registers a login id that `load` had been answering with
  another user, by email, phone or bare name, and takes it over (`moved` in the sign-in
  modules).
- `flow_engine.rs:538`: `save` writes the copy a call worked on over what another stored in
  the meantime, so a tab that polls can undo the step of the tab that opened the link.
- `webauthn_store.rs:17`: the time to live of a ceremony is applied only when another
  one begins; `take_transaction` takes one that is past it.
- `idp_oidc.rs:349`: "Verify client_id and redirect_uri" compares the client id only, and
  does so after the code has been consumed.
- `README.md:231` says that an import restores an exported state. A list that is empty in
  the file leaves a configuration store as it is, and the reset that comes first empties
  only users, tenants, methods and providers (`ImportRestores` has both cases).
- `snapshot.rs:47`: keys absent or unreadable in a file leave the present key in place.
- `state.rs:112`: "not concurrent, try_write should always succeed": a read guard is enough
  to send the swap to a task of its own, and JWTs of the imported users fail until then
  (`SwapLands` says that it comes to an end).
- `auth_method_config.rs:420`: "NOT reset on emulator reset"; `reset_stores` and the seed
  file replace it.
- A role or permission whose new name is refused keeps its new description
  (`role_store.rs:101`).
- Deleting a tenant leaves its users' memberships; user search ignores page and limit
  (`mgmt/user.rs:310`).

## Plan

Done: 1 `Sessions`, 2 `TokenStore`, 3 `Locks`, 4 `UserStore`, 5 `OtpSignIn`,
6 `PasswordSignIn` and `FlowEngine`, 7 `ProjectConfig`, 8 `Passkeys` and `Federation`,
9 proofs of every safety property the runs check.

Left:

10. users' memberships of tenants and roles under the deletion of either;
11. abstract specifications of the one-time code and of the passkey ceremony in the manner
    of `OneTimeTokens`, and the refinements.

## Not modelled

- Routing, parsing and presentation: `server.rs`, extractors, cookies, `openapi.rs`,
  `request_log.rs`, the embedded UI, `main.rs`. Nothing reads them back into the state.
- `rescope-wasm`: a second router over the same stores in one thread, where nothing
  interleaves. Documentation, samples, the Playwright tests.
- The connector invoker: it posts to outside services and nothing reads the outcome.
- User search, paging, attributes and plain edits; what a role, permission, connector or template
  holds; evaluation of template claims; memberships of tenants and roles.
- What screens show, form schemas, template expressions and scriptlets of hosted flows.
- The documents of the identity providers (SAML XML, OIDC metadata, ID tokens), and all
  cryptography: a valid JWT is one that was issued, a signature is accepted or refused.
