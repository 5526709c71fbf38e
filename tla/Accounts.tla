------------------------------ MODULE Accounts ------------------------------
(***************************************************************************)
(* User accounts: AuthManager::registerUser and the lookups of login,      *)
(* getProfile and requireAdmin over the users table (UserRepository,       *)
(* scripts/init.sql).                                                      *)
(*                                                                         *)
(* registerUser asks for the name in one statement and inserts in another, *)
(* hashing in between, so two registrations of a name can interleave.  The *)
(* INSERT says ON CONFLICT DO NOTHING, and execute() answers TRUE whether  *)
(* or not a row went in.                                                   *)
(*                                                                         *)
(* A password stands for itself and for its Argon2id hash.  Names and      *)
(* passwords that registerUser rejects outright (empty, shorter than 8)    *)
(* change nothing and are left out.  Whether a token still has a session   *)
(* is Sessions' business: here any token issued may be presented.          *)
(***************************************************************************)
EXTENDS PostgreSQLClient, Naturals

CONSTANTS Names,      \* usernames
          Passwords,
          Workers,    \* Drogon's threads
          Admin,      \* the username init.sql seeds,
          AdminPassword,
          MaxId       \* bound of the models: the last id the sequence gives

ASSUME SeedAssumption == Admin \in Names /\ AdminPassword \in Passwords
ASSUME MaxIdAssumption == MaxId \in Nat

Account == [id : Nat, name : Names, password : Passwords]

VARIABLES users,       \* the rows, without role
          admins,      \* the ids whose role is 1
          nextId,      \* the users_id_seq sequence
          worker,      \* what each thread is doing
          tokens,      \* history: the account each issued token was issued for
          registered   \* history: the <<name, password>> answered 201 and not
                       \* removed by an operator since

vars == <<pgLink, users, admins, nextId, worker, tokens, registered>>

table == <<users, admins, nextId>>

Idle == [pc |-> "idle"]

Inserting == [pc : {"insert"}, name : Names, password : Passwords]

\* A thread that answers from the row it read: a profile, or an admin page.
Answering == [pc : {"profile", "admin"}, tok : Account, row : Account]

TypeOK == /\ PgTypeOK
          /\ users \subseteq Account
          /\ admins \subseteq Nat
          /\ nextId \in Nat
          /\ worker \in [Workers -> {Idle} \cup Inserting \cup Answering]
          /\ tokens \subseteq Account
          /\ registered \subseteq Names \X Passwords

\* scripts/init.sql has seeded the admin account.
Init == /\ PgInit
        /\ users = {[id |-> 1, name |-> Admin, password |-> AdminPassword]}
        /\ admins = {1}
        /\ nextId = 2
        /\ worker = [w \in Workers |-> Idle]
        /\ tokens = {} /\ registered = {}

Goto(w, state) == worker' = [worker EXCEPT ![w] = state]

\* A SELECT: the rows when it succeeds, an exception when ok is FALSE.
Select(ok) == (IF ok THEN Committed ELSE RolledBack) /\ UNCHANGED table

----------------------------------------------------------------------------
(* AuthManager::registerUser                                               *)

\* findByUsername(): go on to hash and insert, or answer 400 (the name is
\* taken) or 500 (the query threw).
RegisterLookup(w, n, p) ==
  /\ worker[w] = Idle
  /\ \E ok \in BOOLEAN :
       /\ Select(ok)
       /\ IF ok /\ \A r \in users : r.name # n
          THEN Goto(w, [pc |-> "insert", name |-> n, password |-> p])
          ELSE UNCHANGED worker
  /\ UNCHANGED <<tokens, registered>>

\* Mutated form: a second registration takes the account over.
InsertUser_DoUpdate(n, p) ==
  /\ nextId' = nextId + 1
  /\ users' = IF \E r \in users : r.name = n
              THEN {IF r.name = n THEN [r EXCEPT !.password = p] ELSE r : r \in users}
              ELSE users \cup {[id |-> nextId, name |-> n, password |-> p]}

\* Mutated form: the first free id is used again.
InsertUser_ReusesIds(n, p) ==
  /\ nextId' = nextId + 1
  /\ users' = IF \E r \in users : r.name = n
              THEN users
              ELSE users \cup {[name |-> n, password |-> p,
                                id |-> CHOOSE i \in 1..nextId : \A r \in users : r.id # i]}

\* Mutated form: the name is not UNIQUE.
InsertUser_NotUnique(n, p) ==
  /\ nextId' = nextId + 1
  /\ users' = users \cup {[id |-> nextId, name |-> n, password |-> p]}

\* INSERT ... ON CONFLICT (username) DO NOTHING: the sequence advances even
\* when no row goes in.
InsertUser(n, p) ==
  /\ nextId' = nextId + 1
  /\ users' = IF \E r \in users : r.name = n
              THEN users
              ELSE users \cup {[id |-> nextId, name |-> n, password |-> p]}

\* Mutated form: the outcome of save() is not looked at.
Save_IgnoresFailure(n, p, ok) ==
  /\ nextId <= MaxId
  /\ \/ Committed /\ InsertUser(n, p)
     \/ InDoubt /\ InsertUser(n, p)
     \/ RolledBack /\ UNCHANGED users /\ nextId' \in {nextId, nextId + 1}

\* UserRepository::save(); ok is what execute() returns.  A statement rolled
\* back may still have used up an id.
Save(n, p, ok) ==
  /\ nextId <= MaxId
  /\ \/ (IF ok THEN Committed ELSE InDoubt) /\ InsertUser(n, p)
     \/ RolledBack /\ ~ok /\ UNCHANGED users /\ nextId' \in {nextId, nextId + 1}

\* hashPassword() and save(), and the answer: 201, or 400 "Failed to save
\* user" (or 500 when hashing throws, which leaves everything as it was).
RegisterInsert(w) ==
  /\ worker[w].pc = "insert"
  /\ LET n == worker[w].name
         p == worker[w].password
     IN \E ok \in BOOLEAN :
          /\ Save(n, p, ok)
          /\ registered' = IF ok THEN registered \cup {<<n, p>>} ELSE registered
  /\ Goto(w, Idle)
  /\ UNCHANGED <<admins, tokens>>

----------------------------------------------------------------------------
(* AuthManager::login, UserController::getProfile, requireAdmin            *)

\* findByUsername() and verifyPassword(): a token for the row's id.
Login(w, n, p) ==
  /\ worker[w] = Idle
  /\ Select(TRUE)
  /\ \E r \in users : /\ r.name = n /\ r.password = p
                      /\ tokens' = tokens \cup {r}
  /\ UNCHANGED <<worker, registered>>

\* findById(sub) for a token whose session is live: the profile is answered
\* from the row, or 404.
Profile(w, tok) ==
  /\ worker[w] = Idle
  /\ Select(TRUE)
  /\ \E r \in users : /\ r.id = tok.id
                      /\ Goto(w, [pc |-> "profile", tok |-> tok, row |-> r])
  /\ UNCHANGED <<tokens, registered>>

\* Mutated form: the role is not looked at.
AdminPage_AnyRole(w, tok) ==
  /\ worker[w] = Idle
  /\ Select(TRUE)
  /\ \E r \in users : /\ r.id = tok.id
                      /\ Goto(w, [pc |-> "admin", tok |-> tok, row |-> r])
  /\ UNCHANGED <<tokens, registered>>

\* requireAdmin(): findById(sub) and its role, or 403.
AdminPage(w, tok) ==
  /\ worker[w] = Idle
  /\ Select(TRUE)
  /\ \E r \in users : /\ r.id = tok.id /\ r.id \in admins
                      /\ Goto(w, [pc |-> "admin", tok |-> tok, row |-> r])
  /\ UNCHANGED <<tokens, registered>>

\* Mutated form: the row stays with the thread.
Answer_KeepsRow(w) ==
  /\ worker[w].pc \in {"profile", "admin"}
  /\ worker' = [worker EXCEPT ![w].pc = "idle"]
  /\ UNCHANGED <<pgLink, table, tokens, registered>>

Answer(w) ==
  /\ worker[w].pc \in {"profile", "admin"}
  /\ Goto(w, Idle)
  /\ UNCHANGED <<pgLink, table, tokens, registered>>

\* The query of a login, a profile or an admin page throws: 500.
LookupFails(w) == /\ worker[w] = Idle
                  /\ Select(FALSE)
                  /\ UNCHANGED <<worker, tokens, registered>>

----------------------------------------------------------------------------
(* The operator, who works on the table (UserRepository::setRole and       *)
(* remove have no caller in the API), and the process.                     *)

SetRole(n, role) ==
  /\ \E r \in users :
       /\ r.name = n
       /\ admins' = IF role = 1 THEN admins \cup {r.id} ELSE admins \ {r.id}
  /\ UNCHANGED <<pgLink, users, nextId, worker, tokens, registered>>

Remove(id) ==
  /\ \E r \in users :
       /\ r.id = id
       /\ users' = users \ {r}
       /\ registered' = {x \in registered : x[1] # r.name}
  /\ admins' = admins \ {id}
  /\ UNCHANGED <<pgLink, nextId, worker, tokens>>

\* The API process dies and is started again.
Restart == /\ PgConnect
           /\ worker' = [w \in Workers |-> Idle]
           /\ UNCHANGED <<table, tokens, registered>>

Next ==
  \/ \E w \in Workers :
       \/ \E n \in Names, p \in Passwords : RegisterLookup(w, n, p) \/ Login(w, n, p)
       \/ RegisterInsert(w)
       \/ \E tok \in tokens : Profile(w, tok) \/ AdminPage(w, tok)
       \/ LookupFails(w) \/ Answer(w)
  \/ \E n \in Names, role \in {0, 1} : SetRole(n, role)
  \/ \E id \in 1..MaxId : Remove(id)
  \/ Restart

Spec == Init /\ [][Next]_vars

----------------------------------------------------------------------------
(* Properties                                                              *)

\* The answer to an authenticated request is about the account its token was
\* issued for, never about one that came to have the same id or the same name
\* after an operator removed the first (findById with the token's sub).
AnswersAreOwn ==
  \A w \in Workers : worker[w].pc \in {"profile", "admin"} => worker[w].row = worker[w].tok

\* Whatever registrations overlap, the account of a name keeps the password
\* and the id of the registration that created it (ON CONFLICT DO NOTHING).
CredentialsAreStable ==
  [][\A r \in users, q \in users' : r.id = q.id \/ r.name = q.name => r = q]_vars

\* A name that was answered "User registered" has an account, however the
\* database failed during other requests (UserRepository::save).
RegisteredHasAccount ==
  \A x \in registered : \E r \in users : r.name = x[1]

\* static/js/index.js:73 says "Account created! Redirecting to login" after any
\* 201: then the name and the password of that registration log in.  Of two
\* registrations of a name that overlap, registerUser answers 201 to both.
RegisteredCanLogIn ==
  \A x \in registered : \E r \in users : r.name = x[1] /\ r.password = x[2]

\* What a thread is about to answer about an account.
Shown(w) ==
  IF worker[w].pc \in {"profile", "admin"}
  THEN [page |-> worker[w].pc, token |-> worker[w].tok, row |-> worker[w].row]
  ELSE Idle

Registry == INSTANCE AccountRegistry WITH
  First <- [id |-> 1, name |-> Admin, password |-> AdminPassword], Nothing <- Idle,
  accounts <- users, fresh <- nextId, issued <- tokens,
  confirmed <- {x[1] : x \in registered}, shown <- [w \in Workers |-> Shown(w)]

\* Registration in two statements, tokens that outlive their account and
\* statements that fail or stay in doubt look like requests that are one step
\* each: an account per name, 201 for a name that has one, and every page about
\* the account its token was issued for (registerUser, login, getProfile and
\* requireAdmin together).
ImplementsRegistry == Registry!Spec

----------------------------------------------------------------------------
(* What the properties rest on                                             *)

\* id is the primary key, username is unique.
OneRowPerAccount == \A r, q \in users : r.id = q.id \/ r.name = q.name => r = q

\* Ids come from the sequence and are not used twice: a token's id belongs to
\* the account it was issued for, or to none.
IdsAreSpent == \A r \in users \cup tokens : r.id < nextId

TokensKeepTheirAccount == \A t \in tokens, r \in users : t.id = r.id => t = r

\* The users table keeps its keys and its ids are not used twice, however
\* registrations, failed statements and removals interleave.
AccountsInv == OneRowPerAccount /\ IdsAreSpent /\ TokensKeepTheirAccount
=============================================================================
