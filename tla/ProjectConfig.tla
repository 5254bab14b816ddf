--------------------------- MODULE ProjectConfig ---------------------------
(***************************************************************************)
(* What the emulator holds besides sessions: the project's configuration   *)
(* (roles, permissions, JWT templates, connectors, attributes, access      *)
(* keys, auth methods, tenants, identity providers), edited through        *)
(* /v1/mgmt; the snapshot that exports and imports it                      *)
(* (routes/emulator/snapshot.rs) together with the users and the signing   *)
(* key; /emulator/reset with its seed file (state.rs, seed.rs).            *)
(*                                                                         *)
(* Each store is locked by itself, so an import or a reset is a series of  *)
(* visits and everybody else runs in between.  An export keeps every guard *)
(* it has taken until its file is complete.  A store maps a key to an      *)
(* entry; an entry keeps the name it is restored under and one bit of      *)
(* content.  The users' own indices are in UserStore, sessions and         *)
(* revocations in Sessions, tokens in TokenStore, who waits for whose      *)
(* guard in Locks.                                                         *)
(***************************************************************************)
EXTENDS Naturals, Sequences

CONSTANTS
  Keys,      \* names and ids of entries
  Pems,      \* signing keys
  FirstPem,  \* the key drawn at startup
  Seed,      \* the seed file, as far as it is a snapshot
  Elsewhere, \* a snapshot another process exported
  Reqs,      \* requests; one that was answered may serve another call
  None,
  MaxCalls,  \* bound of the model: management calls and sign-ups
  MaxJobs    \* bound of the model: exports, imports and resets

VARIABLES
  store,    \* store -> key -> entry or None
  files,    \* the snapshots that were exported
  req,      \* request -> the call it serves
  key,      \* EmulatorState.keys
  spawned,  \* key -> swap_keys tasks that were not polled yet
  queue,    \* the swap_keys tasks in line for the write lock, FIFO
  calls, jobs

keyVars == <<key, spawned, queue>>
vars == <<store, files, req, keyVars, calls, jobs>>

Stores == {"users", "tenants", "permissions", "roles", "methods", "templates",
           "connectors", "attributes", "accessKeys", "idps"}

\* flag: is_active of a template, Active of an access key, of the others whether
\* they were edited.
\* In "methods" the entries are the settings that differ from the defaults.
Entry == [name : Keys, flag : BOOLEAN]
Contents == [Keys -> Entry \cup {None}]
Empty == [k \in Keys |-> None]

\* methods: the file has auth methods at all, if only the defaults.  pem is None in
\* a file without a key, or with one nobody can read.
Snapshot == [lists : [Stores -> SUBSET Entry], methods : BOOLEAN, pem : Pems \cup {None}]
\* What an export starts from; it always has auth methods.
NoSnapshot == [lists |-> [s \in Stores |-> {}], methods |-> TRUE, pem |-> None]

ASSUME ProjectConfigAssumption ==
  /\ None \notin Pems \cup Entry \cup Reqs
  /\ FirstPem \in Pems
  /\ Seed \in Snapshot
  /\ Elsewhere \in Snapshot
  /\ MaxCalls \in Nat /\ MaxJobs \in Nat

\* A file that lists a name twice would be restored with one of the two; an export
\* never does.
NamedOnce(es) == \A e, f \in es : e.name = f.name => e = f

ASSUME ListsAssumption == \A s \in Stores : NamedOnce(Elsewhere.lists[s])

\* at: how many steps of its job a request has done; tenant: the one it creates
\* or updates; touched: history, the stores others wrote since an import did.
Call == [op : {"idle", "admitted", "tenant", "export", "import", "reset", "reading"},
         at : Nat, snap : Snapshot, tenant : Keys \cup {None},
         touched : SUBSET Stores]
Idle == [op |-> "idle", at |-> 0, snap |-> NoSnapshot, tenant |-> None, touched |-> {}]

At(r, o) == req[r].op = o
Answer(r) == req' = [req EXCEPT ![r] = Idle]

-----------------------------------------------------------------------------
(* Stores *)

Found(s, k) == store[s][k] # None
Entries(s) == {store[s][k] : k \in Keys} \ {None}

\* HashMap::insert of the entry f under its name.
Put(c, k, f) == [c EXCEPT ![k] = [name |-> k, flag |-> f]]
Remove(c, k) == [c EXCEPT ![k] = None]

\* restore: each entry of the file under its own name.
Keyed(es) == [k \in Keys |-> IF \E e \in es : e.name = k
                             THEN CHOOSE e \in es : e.name = k ELSE None]

\* Mutant of Renamed: the entry goes on under its old name.
RenamedByKey(c, k, j) ==
  [Remove(c, k) EXCEPT ![j] = [c[k] EXCEPT !.flag = TRUE]]

\* RoleStore::update, PermissionStore::update from name k to j (k itself if no new
\* name is given).  The content is in the entry before the new name is refused,
\* and stays there.
Renamed(c, k, j) ==
  LET entry == [c[k] EXCEPT !.flag = TRUE]
  IN IF j = k \/ c[j] # None THEN [c EXCEPT ![k] = entry]
     ELSE [Remove(c, k) EXCEPT ![j] = [entry EXCEPT !.name = j]]

\* deactivate_all
Deactivated(c) ==
  [k \in Keys |-> IF c[k] = None THEN None ELSE [c[k] EXCEPT !.flag = FALSE]]

\* The one template of the store that is active is k.
Activated(c, k) == Put(Deactivated(c), k, TRUE)

\* JwtTemplateStore: create and update.
Templated(c, k, f) == IF f THEN Activated(c, k) ELSE Put(c, k, FALSE)

ExportOrder == <<"users", "tenants", "permissions", "roles", "methods", "templates",
                 "connectors", "attributes", "accessKeys", "idps">>

\* Mutant of HeldByExport: every list is bound by a statement of its own, whose
\* guard is gone at its end.
HeldByExportNever(s) == FALSE

\* The file is one struct expression: the guards it has taken live until it ends.
HeldByExport(s) ==
  \E r \in Reqs : At(r, "export") /\ \E i \in 1..req[r].at : ExportOrder[i] = s

\* Request r writes c into store s and goes on as next.
Write(r, s, c, next) ==
  /\ ~HeldByExport(s)
  /\ store' = [store EXCEPT ![s] = c]
  /\ req' = [q \in Reqs |->
       IF q = r THEN next
       ELSE IF At(q, "import") THEN [req[q] EXCEPT !.touched = @ \cup {s}] ELSE req[q]]

-----------------------------------------------------------------------------
(* Management calls *)

\* validate: the key is there and active.  (One that has expired, or whose caller
\* comes from elsewhere, is not presented.)
Valid(k) == Found("accessKeys", k) /\ store["accessKeys"][k].flag

\* check_mgmt_auth_with_keys: no Authorization header, the bootstrap key, or an
\* access key that is valid when the store is asked.
Admit(r, k) ==
  /\ At(r, "idle") /\ calls < MaxCalls
  /\ k # None => Valid(k)
  /\ req' = [req EXCEPT ![r].op = "admitted"]
  /\ calls' = calls + 1
  /\ UNCHANGED <<store, files, keyVars, jobs>>

\* The handler's own visit to store s, which it leaves as c.
Edit(r, s, c) ==
  /\ At(r, "admitted")
  /\ Write(r, s, c, Idle)
  /\ UNCHANGED <<files, keyVars, calls, jobs>>

\* What the stores have in common: a name that is taken is refused, or the id is
\* new; what is not there can neither be updated nor deleted.
Create(r, s, k, f) == ~Found(s, k) /\ Edit(r, s, Put(store[s], k, f))
Update(r, s, k) == Found(s, k) /\ Edit(r, s, Put(store[s], k, TRUE))
Delete(r, s, k) == Found(s, k) /\ Edit(r, s, Remove(store[s], k))

\* load_all, load, active, search; not found, exists already, not valid.
AnswerOnly(r) ==
  /\ At(r, "admitted")
  /\ Answer(r)
  /\ UNCHANGED <<store, files, keyVars, calls, jobs>>

CreateRole(r, k) == Create(r, "roles", k, FALSE)
UpdateRole(r, k, j) ==
  Found("roles", k) /\ Edit(r, "roles", Renamed(store["roles"], k, j))
DeleteRole(r, k) == Delete(r, "roles", k)

CreatePermission(r, k) == Create(r, "permissions", k, FALSE)
UpdatePermission(r, k, j) ==
  Found("permissions", k) /\ Edit(r, "permissions", Renamed(store["permissions"], k, j))
DeletePermission(r, k) == Delete(r, "permissions", k)

CreateTemplate(r, k, f) ==
  ~Found("templates", k) /\ Edit(r, "templates", Templated(store["templates"], k, f))
UpdateTemplate(r, k, f) ==
  Found("templates", k) /\ Edit(r, "templates", Templated(store["templates"], k, f))
SetActiveTemplate(r, k) ==
  Found("templates", k) /\ Edit(r, "templates", Activated(store["templates"], k))
DeleteTemplate(r, k) == Delete(r, "templates", k)

CreateConnector(r, k) == Create(r, "connectors", k, FALSE)
UpdateConnector(r, k) == Update(r, "connectors", k)
DeleteConnector(r, k) == Delete(r, "connectors", k)

CreateAttribute(r, k) == Create(r, "attributes", k, FALSE)
DeleteAttribute(r, k) == Delete(r, "attributes", k)

CreateAccessKey(r, k) == Create(r, "accessKeys", k, TRUE)
\* disable; nothing but an import makes the key active again.
DisableAccessKey(r, k) ==
  Found("accessKeys", k) /\ Edit(r, "accessKeys", Put(store["accessKeys"], k, FALSE))
DeleteAccessKey(r, k) == Delete(r, "accessKeys", k)

CreateIdp(r, k) == Create(r, "idps", k, FALSE)
UpdateIdp(r, k) == Update(r, "idps", k)
DeleteIdp(r, k) == Delete(r, "idps", k)

\* replace
PutAuthMethods(r, k) == Edit(r, "methods", Put(Empty, k, TRUE))

\* create and update visit the store once for the tenant and once more for its SSO
\* and once for its JIT settings, as far as the call has any.
CreateTenant(r, k) ==
  /\ At(r, "admitted") /\ ~Found("tenants", k)
  /\ \E next \in {Idle, [req[r] EXCEPT !.op = "tenant", !.tenant = k]} :
       Write(r, "tenants", Put(store["tenants"], k, FALSE), next)
  /\ UNCHANGED <<files, keyVars, calls, jobs>>

UpdateTenant(r, k) ==
  /\ At(r, "admitted") /\ Found("tenants", k)
  /\ \E next \in {Idle, [req[r] EXCEPT !.op = "tenant", !.tenant = k]} :
       Write(r, "tenants", Put(store["tenants"], k, TRUE), next)
  /\ UNCHANGED <<files, keyVars, calls, jobs>>

\* The later visits find the tenant, or the call ends in an error half done.
FinishTenant(r) ==
  /\ At(r, "tenant")
  /\ LET k == req[r].tenant IN
     IF Found("tenants", k)
     THEN \E next \in {Idle, req[r]} : Write(r, "tenants", Put(store["tenants"], k, TRUE), next)
     ELSE Answer(r) /\ UNCHANGED store
  /\ UNCHANGED <<files, keyVars, calls, jobs>>

\* delete_tenant does not mind a tenant that is gone.
DeleteTenant(r, k) == Edit(r, "tenants", Remove(store["tenants"], k))

\* Any surface that creates a user, or changes one.
PutUser(k) ==
  /\ calls < MaxCalls /\ calls' = calls + 1
  /\ Write(None, "users", Put(store["users"], k, TRUE), Idle)
  /\ UNCHANGED <<files, keyVars, jobs>>

Manage(r) ==
  \/ \E k \in Keys \cup {None} : Admit(r, k)
  \/ AnswerOnly(r)
  \/ \E k \in Keys :
       \/ CreateRole(r, k) \/ DeleteRole(r, k)
       \/ CreatePermission(r, k) \/ DeletePermission(r, k)
       \/ \E j \in Keys : UpdateRole(r, k, j) \/ UpdatePermission(r, k, j)
       \/ \E f \in BOOLEAN : CreateTemplate(r, k, f) \/ UpdateTemplate(r, k, f)
       \/ SetActiveTemplate(r, k) \/ DeleteTemplate(r, k)
       \/ CreateConnector(r, k) \/ UpdateConnector(r, k) \/ DeleteConnector(r, k)
       \/ CreateAttribute(r, k) \/ DeleteAttribute(r, k)
       \/ CreateAccessKey(r, k) \/ DisableAccessKey(r, k) \/ DeleteAccessKey(r, k)
       \/ CreateIdp(r, k) \/ UpdateIdp(r, k) \/ DeleteIdp(r, k)
       \/ PutAuthMethods(r, k)
       \/ CreateTenant(r, k) \/ UpdateTenant(r, k) \/ DeleteTenant(r, k)
  \/ FinishTenant(r)

-----------------------------------------------------------------------------
(* Export, import, reset *)

\* reset_stores, of the stores modelled here; the configuration is not among them.
ResetOrder == <<"users", "tenants", "methods", "idps">>
SeedOrder == <<"permissions", "roles", "methods", "templates", "connectors",
               "tenants", "idps", "users">>

\* Mutant of ImportSteps: what was restored is reset.
ImportStepsMixed ==
  [i \in 1..Len(ExportOrder) |-> <<"restore", ExportOrder[i]>>]
  \o [i \in 1..Len(ResetOrder) |-> <<"reset", ResetOrder[i]>>]

\* import: reset_stores, then every list of the file.
ImportSteps ==
  [i \in 1..Len(ResetOrder) |-> <<"reset", ResetOrder[i]>>]
  \o [i \in 1..Len(ExportOrder) |-> <<"restore", ExportOrder[i]>>]

\* /emulator/reset: reset_stores, then the seed file.
ResetSteps ==
  [i \in 1..Len(ResetOrder) |-> <<"reset", ResetOrder[i]>>]
  \o [i \in 1..Len(SeedOrder) |-> <<"seed", SeedOrder[i]>>]

\* A job starts; an import with the file it was sent.
StartJob(r, o, snap) ==
  /\ At(r, "idle") /\ jobs < MaxJobs
  /\ req' = [req EXCEPT ![r] = [Idle EXCEPT !.op = o, !.snap = snap]]
  /\ jobs' = jobs + 1
  /\ UNCHANGED <<store, files, keyVars, calls>>

Done(r) == [req[r] EXCEPT !.at = @ + 1]

\* export: the next list, as the store is now.
ExportStep(r) ==
  /\ At(r, "export") /\ req[r].at < Len(ExportOrder)
  /\ LET s == ExportOrder[req[r].at + 1]
     IN req' = [req EXCEPT ![r] = [Done(r) EXCEPT !.snap.lists[s] = Entries(s)]]
  /\ UNCHANGED <<store, files, keyVars, calls, jobs>>

\* Mutant of MayRead: readers pass a writer that waits.
MayReadAlways == TRUE

\* The lock of the signing key: tokio's RwLock serves in order, and behind a writer
\* nobody gets in.
MayRead == queue = <<>>

\* The signing key comes last, and the file is out.
ExportKeys(r) ==
  /\ At(r, "export") /\ req[r].at = Len(ExportOrder) /\ MayRead
  /\ files' = files \cup {[req[r].snap EXCEPT !.pem = key]}
  /\ Answer(r)
  /\ UNCHANGED <<store, keyVars, calls, jobs>>

\* The step a job is at, <<what, store>>.
Step(r) ==
  LET steps == IF At(r, "import") THEN ImportSteps ELSE ResetSteps
  IN IF At(r, "import") \/ At(r, "reset")
     THEN IF req[r].at < Len(steps) THEN steps[req[r].at + 1] ELSE <<"end", None>>
     ELSE <<"none", None>>

ResetStep(r) ==
  /\ Step(r)[1] = "reset"
  /\ Write(r, Step(r)[2], Empty, Done(r))
  /\ UNCHANGED <<files, keyVars, calls, jobs>>

\* A list that is empty in the file leaves its store alone, as do auth methods that
\* the file does not have.
Restores(snap, s) == IF s = "methods" THEN snap.methods ELSE snap.lists[s] # {}

\* What becomes of the entries es: all are restored, except users that clash with
\* one restored before, whose insert is refused (which they are is UserStore's).
Accepted(s, es) ==
  IF s = "users" THEN {ds \in SUBSET es : es # {} => ds # {}} ELSE {es}

RestoreStep(r) ==
  /\ Step(r)[1] = "restore"
  /\ LET s == Step(r)[2]
     IN IF Restores(req[r].snap, s)
        THEN \E ds \in Accepted(s, req[r].snap.lists[s]) :
               Write(r, s, Keyed(ds), [Done(r) EXCEPT !.touched = @ \ {s}])
        ELSE req' = [req EXCEPT ![r] = Done(r)] /\ UNCHANGED store
  /\ UNCHANGED <<files, keyVars, calls, jobs>>

\* What seed::load makes of store s: it replaces the first five and adds to the
\* others.  A user that is known ends it, with those before in the store, and the
\* reset answers all the same.
Seeded(s) ==
  LET es == Seed.lists[s]
      added(ds) == [k \in Keys |-> IF \E e \in ds : e.name = k
                                   THEN Keyed(ds)[k] ELSE store[s][k]]
      fresh == {e \in es : ~Found(s, e.name)}
  IN CASE s \in {"tenants", "idps"} -> {added(es)}
       [] s = "users" -> {added(ds) : ds \in {ds \in SUBSET fresh : fresh = es => ds = es}}
       [] OTHER -> {Keyed(es)}

SeedStep(r) ==
  /\ Step(r)[1] = "seed"
  /\ LET s == Step(r)[2]
     IN IF Restores(Seed, s)
        THEN \E c \in Seeded(s) : Write(r, s, c, Done(r))
        ELSE req' = [req EXCEPT ![r] = Done(r)] /\ UNCHANGED store
  /\ UNCHANGED <<files, keyVars, calls, jobs>>

ResetDone(r) ==
  /\ At(r, "reset") /\ Step(r)[1] = "end"
  /\ Answer(r)
  /\ UNCHANGED <<store, files, keyVars, calls, jobs>>

\* The end of import.  A key that cannot be read fails the call, everything else
\* is in place by then.  swap_keys: try_write, or a task that waits to write.
ImportDone(r) ==
  /\ At(r, "import") /\ Step(r)[1] = "end"
  /\ LET p == req[r].snap.pem
         free == queue = <<>> /\ \A q \in Reqs : ~At(q, "reading")
     IN /\ key' = IF p # None /\ free THEN p ELSE key
        /\ spawned' = IF p # None /\ ~free THEN [spawned EXCEPT ![p] = @ + 1] ELSE spawned
  /\ Answer(r)
  /\ UNCHANGED <<store, files, queue, calls, jobs>>

Job(r) ==
  \/ StartJob(r, "export", NoSnapshot) \/ StartJob(r, "reset", NoSnapshot)
  \/ \E snap \in files \cup {Elsewhere} : StartJob(r, "import", snap)
  \/ ExportStep(r) \/ ExportKeys(r) \/ ImportDone(r) \/ ResetDone(r)
  \/ ResetStep(r) \/ RestoreStep(r) \/ SeedStep(r)

-----------------------------------------------------------------------------
(* The lock of the signing key, which every mint and validation reads *)

\* km(), in a call that mints or validates a JWT: it holds a read guard.
BeginRead(r) ==
  /\ At(r, "idle") /\ MayRead
  /\ req' = [req EXCEPT ![r].op = "reading"]
  /\ UNCHANGED <<store, files, keyVars, calls, jobs>>

EndRead(r) ==
  /\ At(r, "reading")
  /\ Answer(r)
  /\ UNCHANGED <<store, files, keyVars, calls, jobs>>

\* The spawned task is polled and asks for the lock.
PollSwap(p) ==
  /\ spawned[p] > 0
  /\ spawned' = [spawned EXCEPT ![p] = @ - 1]
  /\ queue' = Append(queue, p)
  /\ UNCHANGED <<store, files, req, key, calls, jobs>>

Swap ==
  /\ queue # <<>> /\ \A r \in Reqs : ~At(r, "reading")
  /\ key' = Head(queue) /\ queue' = Tail(queue)
  /\ UNCHANGED <<store, files, req, spawned, calls, jobs>>

-----------------------------------------------------------------------------
\* After startup: the seed file is loaded.
Init ==
  /\ store = [s \in Stores |-> Keyed(Seed.lists[s])]
  /\ files = {}
  /\ req = [r \in Reqs |-> Idle]
  /\ key = FirstPem
  /\ spawned = [p \in Pems |-> 0] /\ queue = <<>>
  /\ calls = 0 /\ jobs = 0

Next ==
  \/ \E r \in Reqs : Manage(r) \/ Job(r) \/ BeginRead(r) \/ EndRead(r)
  \/ \E k \in Keys : PutUser(k)
  \/ Swap
  \/ \E p \in Pems : PollSwap(p)

\* tokio polls every spawned task and every task whose lock is free; a read guard
\* on the key lives for one expression.
Fairness ==
  /\ \A r \in Reqs : WF_vars(EndRead(r))
  /\ \A p \in Pems : WF_vars(PollSwap(p))
  /\ WF_vars(Swap)

Spec == Init /\ [][Next]_vars /\ Fairness

-----------------------------------------------------------------------------
(* Properties *)

Shapes ==
  /\ store \in [Stores -> Contents]
  /\ files \subseteq Snapshot
  /\ req \in [Reqs -> Call]
  /\ key \in Pems
  /\ spawned \in [Pems -> Nat] /\ queue \in Seq(Pems)
  /\ calls \in Nat /\ jobs \in Nat

\* Every entry is found under the name it would be restored under, or an export
\* and its import would move or merge entries.
KeyedByName ==
  \A s \in Stores, k \in Keys : Found(s, k) => store[s][k].name = k

\* Every variable keeps its shape, and names and keys of the stores agree.
TypeOK == Shapes /\ KeyedByName

\* An export is a picture of one moment, for all that it visits ten stores and the
\* key one after the other: the file it answers with lists what every one of them
\* holds when it ends.
ExportIsOneMoment ==
  [][\A r \in Reqs :
       At(r, "export") /\ ~At(r, "export")' =>
         \E f \in files' : /\ \A s \in Stores : f.lists[s] = Entries(s)
                          /\ f.methods /\ f.pem = key]_vars

\* While an import runs, each store it is through with, and that nobody else wrote
\* since, holds what the file lists (of users that clash, those that were accepted);
\* or it is empty, if the file has nothing for it and reset_stores empties it.  Of
\* the six stores that are not emptied it says nothing where the file lists nothing:
\* there the import writes nothing, and they keep what they had.
ImportRestores ==
  \A r \in Reqs, i \in 1..Len(ExportOrder) :
    LET s == ExportOrder[i]
        snap == req[r].snap
    IN At(r, "import") /\ req[r].at >= Len(ResetOrder) + i /\ s \notin req[r].touched
       => /\ Restores(snap, s) => Entries(s) \in Accepted(s, snap.lists[s])
          /\ ~Restores(snap, s) /\ (\E j \in 1..Len(ResetOrder) : ResetOrder[j] = s)
             => Entries(s) = {}

\* "replace all in-memory stores with the contents" (snapshot-export-import/spec.md:17).
\* Not so: a store that is not reset keeps its entries if the file lists none.
ImportReplacesAll ==
  \A r \in Reqs, i \in 1..Len(ExportOrder) :
    LET s == ExportOrder[i]
    IN At(r, "import") /\ req[r].at >= Len(ResetOrder) + i /\ s \notin req[r].touched
       => Entries(s) \in Accepted(s, req[r].snap.lists[s])

\* "Only one template may be active at a time" (jwt_template_store.rs:50), or JWTs
\* have the claims of either.  Edits see to it; import, seed and reset take a file
\* that lists two active ones as it is.
OneActiveTemplate ==
  \A j, k \in Keys :
    /\ Found("templates", j) /\ store["templates"][j].flag
    /\ Found("templates", k) /\ store["templates"][k].flag
    => j = k

\* "Atomically replace the active key manager": an import that found the lock busy
\* leaves it to a task, and JWTs of the imported users verify once that task has
\* run.  It does, whoever goes on reading the key.
SwapLands == \A p \in Pems : spawned[p] > 0 ~> key = p
=============================================================================
