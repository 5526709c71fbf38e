---------------------------- MODULE AccountsProof ----------------------------
(***************************************************************************)
(* Theorems about Accounts, for any names, passwords, threads and ids.     *)
(***************************************************************************)
EXTENDS Accounts, TLAPS

\* Everything the steps keep.
AllInv == /\ TypeOK
          /\ AccountsInv
          /\ AnswersAreOwn
          /\ RegisteredHasAccount

\* The thread that inserts holds a name and a password.
LEMMA InsertingType ==
  ASSUME TypeOK, NEW w \in Workers, worker[w].pc = "insert"
  PROVE  worker[w].name \in Names /\ worker[w].password \in Passwords
<1>1. worker[w] \in {Idle} \cup Inserting \cup Answering
  BY DEF TypeOK
<1>2. worker[w] \in Inserting
  BY <1>1 DEF Idle, Answering
<1> QED
  BY <1>2 DEF Inserting

\* The INSERT adds at most one row, under an id nothing refers to, for a name
\* that has none, and leaves the other rows alone.
LEMMA InsertUserAdds ==
  ASSUME TypeOK, AccountsInv, NEW n \in Names, NEW p \in Passwords, InsertUser(n, p)
  PROVE  /\ users' \subseteq Account
         /\ users \subseteq users'
         /\ nextId' \in Nat /\ nextId < nextId'
         /\ \A r \in users' \ users : /\ r.id = nextId
                                      /\ \A q \in users : q.name # r.name
                                      /\ \A q \in users' \ users : q = r
         /\ \E r \in users' : r.name = n
<1>1. nextId \in Nat /\ nextId' = nextId + 1
  BY DEF TypeOK, InsertUser
<1>2. CASE \E r \in users : r.name = n
  BY <1>1, <1>2 DEF InsertUser, TypeOK
<1>3. CASE \A r \in users : r.name # n
  <2>1. PICK x : x = [id |-> nextId, name |-> n, password |-> p]
    OBVIOUS
  <2>2. users' = users \cup {x}
    BY <1>3, <2>1 DEF InsertUser
  <2>3. x \in Account /\ x.id = nextId /\ x.name = n
    BY <1>1, <2>1 DEF Account
  <2> QED
    BY <1>1, <1>3, <2>2, <2>3 DEF TypeOK
<1> QED
  BY <1>2, <1>3

\* Rows may come in as InsertUser adds them, or go away; the properties of the
\* table and of the tokens are kept.
LEMMA TableStep ==
  ASSUME TypeOK, AccountsInv, UNCHANGED tokens, nextId' \in Nat, nextId <= nextId',
         users' \subseteq Account,
         \A r \in users' \ users : /\ r.id = nextId /\ nextId < nextId'
                                   /\ \A q \in users : q.name # r.name
                                   /\ \A q \in users' \ users : q = r
  PROVE  AccountsInv'
<1>1. /\ nextId \in Nat
      /\ users \subseteq Account /\ tokens \subseteq Account
      /\ \A r \in users \cup tokens : r.id \in Nat /\ r.id < nextId
  BY DEF TypeOK, Account, AccountsInv, IdsAreSpent
<1>2. OneRowPerAccount'
  BY <1>1 DEF AccountsInv, OneRowPerAccount
<1>3. IdsAreSpent'
  <2> SUFFICES ASSUME NEW r \in users' \cup tokens' PROVE r.id < nextId'
    BY DEF IdsAreSpent
  <2>1. CASE r \in users \cup tokens
    BY <1>1, <2>1
  <2>2. CASE r \in users' \ users
    BY <2>2
  <2> QED
    BY <2>1, <2>2
<1>4. TokensKeepTheirAccount'
  BY <1>1 DEF AccountsInv, TokensKeepTheirAccount
<1> QED
  BY <1>2, <1>3, <1>4 DEF AccountsInv

LEMMA InitAll == Init => AllInv
BY SeedAssumption DEF Init, PgInit, PgTypeOK, AllInv, TypeOK, Account, Idle, AccountsInv,
     OneRowPerAccount, IdsAreSpent, TokensKeepTheirAccount, AnswersAreOwn, RegisteredHasAccount

LEMMA RegisterLookupKeeps ==
  ASSUME AllInv, NEW w \in Workers, NEW n \in Names, NEW p \in Passwords, RegisterLookup(w, n, p)
  PROVE  AllInv'
<1> USE DEF AllInv
<1>1. /\ UNCHANGED <<users, admins, nextId, tokens, registered>>
      /\ pgLink' \in BOOLEAN
      /\ \/ UNCHANGED worker
         \/ worker' = [worker EXCEPT ![w] = [pc |-> "insert", name |-> n, password |-> p]]
  BY DEF RegisterLookup, Select, Committed, RolledBack, table, TypeOK, PgTypeOK, Goto
<1>2. TypeOK'
  BY <1>1 DEF TypeOK, PgTypeOK, Inserting
<1>3. AccountsInv' /\ RegisteredHasAccount'
  BY <1>1 DEF AccountsInv, OneRowPerAccount, IdsAreSpent, TokensKeepTheirAccount, RegisteredHasAccount
<1>4. AnswersAreOwn'
  BY <1>1 DEF AnswersAreOwn, TypeOK
<1> QED
  BY <1>2, <1>3, <1>4

LEMMA RegisterInsertKeeps ==
  ASSUME AllInv, NEW w \in Workers, RegisterInsert(w)
  PROVE  AllInv'
<1> USE DEF AllInv
<1>1. PICK n \in Names, p \in Passwords, ok \in BOOLEAN :
        /\ Save(n, p, ok)
        /\ registered' = IF ok THEN registered \cup {<<n, p>>} ELSE registered
  BY InsertingType DEF RegisterInsert
<1>2. /\ UNCHANGED <<admins, tokens>>
      /\ worker' = [worker EXCEPT ![w] = Idle]
  BY DEF RegisterInsert, Goto
<1>3. /\ pgLink' \in BOOLEAN
      /\ InsertUser(n, p) \/ (~ok /\ UNCHANGED users /\ nextId' \in {nextId, nextId + 1})
  BY <1>1 DEF Save, Committed, InDoubt, RolledBack, TypeOK, PgTypeOK
<1>4. /\ nextId' \in Nat /\ nextId <= nextId' /\ users' \subseteq Account
      /\ users \subseteq users'
      /\ ok => \E r \in users' : r.name = n
      /\ \A r \in users' \ users : /\ r.id = nextId /\ nextId < nextId'
                                   /\ \A q \in users : q.name # r.name
                                   /\ \A q \in users' \ users : q = r
  BY <1>3, InsertUserAdds DEF TypeOK
<1>5. TypeOK'
  BY <1>1, <1>2, <1>3, <1>4 DEF TypeOK, PgTypeOK
<1>6. AccountsInv'
  BY <1>2, <1>4, TableStep
<1>7. AnswersAreOwn'
  BY <1>2 DEF AnswersAreOwn, TypeOK, Idle
<1>8. RegisteredHasAccount'
  BY <1>1, <1>4 DEF RegisteredHasAccount
<1> QED
  BY <1>5, <1>6, <1>7, <1>8

LEMMA LoginKeeps ==
  ASSUME AllInv, NEW w \in Workers, NEW n \in Names, NEW p \in Passwords, Login(w, n, p)
  PROVE  AllInv'
<1> USE DEF AllInv
<1>1. PICK r \in users : tokens' = tokens \cup {r}
  BY DEF Login
<1>2. UNCHANGED <<pgLink, users, admins, nextId, worker, registered>>
  BY DEF Login, Select, Committed, table
<1>3. TypeOK'
  BY <1>1, <1>2 DEF TypeOK, PgTypeOK
<1>4. AccountsInv'
  BY <1>1, <1>2 DEF AccountsInv, OneRowPerAccount, IdsAreSpent, TokensKeepTheirAccount
<1>5. AnswersAreOwn' /\ RegisteredHasAccount'
  BY <1>2 DEF AnswersAreOwn, RegisteredHasAccount
<1> QED
  BY <1>3, <1>4, <1>5

\* A lookup by the token's id finds the token's own account or nothing.
LEMMA AnswerBeginKeeps ==
  ASSUME AllInv, NEW w \in Workers, NEW tok \in tokens, Profile(w, tok) \/ AdminPage(w, tok)
  PROVE  AllInv'
<1> USE DEF AllInv
<1>1. PICK r \in users, pc \in {"profile", "admin"} :
        /\ r.id = tok.id
        /\ worker' = [worker EXCEPT ![w] = [pc |-> pc, tok |-> tok, row |-> r]]
  BY DEF Profile, AdminPage, Goto
<1>2. UNCHANGED <<pgLink, users, admins, nextId, tokens, registered>>
  BY DEF Profile, AdminPage, Select, Committed, table
<1>3. r = tok /\ r \in Account /\ tok \in Account
  BY <1>1 DEF AccountsInv, TokensKeepTheirAccount, TypeOK
<1>4. TypeOK'
  BY <1>1, <1>2, <1>3 DEF TypeOK, PgTypeOK, Answering
<1>5. AccountsInv' /\ RegisteredHasAccount'
  BY <1>2 DEF AccountsInv, OneRowPerAccount, IdsAreSpent, TokensKeepTheirAccount, RegisteredHasAccount
<1>6. AnswersAreOwn'
  BY <1>1, <1>3 DEF AnswersAreOwn, TypeOK
<1> QED
  BY <1>4, <1>5, <1>6

\* The steps that only free threads, break or mend the connection, or change
\* roles.
LEMMA OtherStepsKeep ==
  ASSUME AllInv, UNCHANGED <<users, nextId, tokens, registered>>,
         pgLink' \in BOOLEAN, admins' \subseteq Nat,
         worker' \in [Workers -> {Idle} \cup Inserting \cup Answering],
         \A w \in Workers : worker'[w] \in {worker[w], Idle}
  PROVE  AllInv'
<1> USE DEF AllInv
<1>1. TypeOK'
  BY DEF TypeOK, PgTypeOK
<1>2. AccountsInv' /\ RegisteredHasAccount'
  BY DEF AccountsInv, OneRowPerAccount, IdsAreSpent, TokensKeepTheirAccount, RegisteredHasAccount
<1>3. AnswersAreOwn'
  BY DEF AnswersAreOwn, Idle
<1> QED
  BY <1>1, <1>2, <1>3

LEMMA RemoveKeeps ==
  ASSUME AllInv, NEW id \in 1..MaxId, Remove(id)
  PROVE  AllInv'
<1> USE DEF AllInv
<1>1. PICK r \in users : /\ users' = users \ {r}
                         /\ registered' = {x \in registered : x[1] # r.name}
  BY DEF Remove
<1>2. UNCHANGED <<pgLink, nextId, worker, tokens>> /\ admins' \subseteq admins
  BY DEF Remove
<1>3. TypeOK'
  BY <1>1, <1>2 DEF TypeOK, PgTypeOK
<1>4. AccountsInv'
  BY <1>1, <1>2, <1>3, TableStep DEF TypeOK
<1>5. AnswersAreOwn'
  BY <1>2 DEF AnswersAreOwn
<1>6. RegisteredHasAccount'
  BY <1>1 DEF RegisteredHasAccount
<1> QED
  BY <1>3, <1>4, <1>5, <1>6

LEMMA StepKeepsAll == AllInv /\ [Next]_vars => AllInv'
<1> SUFFICES ASSUME AllInv, [Next]_vars PROVE AllInv'
  OBVIOUS
<1>1. ASSUME NEW w \in Workers, NEW n \in Names, NEW p \in Passwords, RegisterLookup(w, n, p)
      PROVE  AllInv'
  BY <1>1, RegisterLookupKeeps
<1>2. ASSUME NEW w \in Workers, NEW n \in Names, NEW p \in Passwords, Login(w, n, p)
      PROVE  AllInv'
  BY <1>2, LoginKeeps
<1>3. ASSUME NEW w \in Workers, RegisterInsert(w)
      PROVE  AllInv'
  BY <1>3, RegisterInsertKeeps
<1>4. ASSUME NEW w \in Workers, NEW tok \in tokens, Profile(w, tok) \/ AdminPage(w, tok)
      PROVE  AllInv'
  BY <1>4, AnswerBeginKeeps
<1>5. ASSUME NEW w \in Workers, LookupFails(w) \/ Answer(w)
      PROVE  AllInv'
  BY <1>5, OtherStepsKeep DEF LookupFails, Answer, Select, RolledBack, Goto, table,
       AllInv, TypeOK, PgTypeOK
<1>6. ASSUME NEW n \in Names, NEW role \in {0, 1}, SetRole(n, role)
      PROVE  AllInv'
  BY <1>6, OtherStepsKeep DEF SetRole, AllInv, TypeOK, PgTypeOK, Account
<1>7. ASSUME NEW id \in 1..MaxId, Remove(id)
      PROVE  AllInv'
  BY <1>7, RemoveKeeps
<1>8. CASE Restart
  BY <1>8, OtherStepsKeep DEF Restart, PgConnect, table, AllInv, TypeOK, PgTypeOK
<1>9. CASE UNCHANGED vars
  BY <1>9, OtherStepsKeep DEF vars, AllInv, TypeOK, PgTypeOK
<1> QED
  BY <1>1, <1>2, <1>3, <1>4, <1>5, <1>6, <1>7, <1>8, <1>9 DEF Next

LEMMA AllHolds == Spec => []AllInv
BY InitAll, StepKeepsAll, PTL DEF Spec

\* Rows, tokens and threads are well formed in every reachable state.
THEOREM AccountsTypeCorrect == Spec => []TypeOK
BY AllHolds, PTL DEF AllInv

\* The users table keeps its keys and no id is used twice.
THEOREM KeysHold == Spec => []AccountsInv
BY AllHolds, PTL DEF AllInv

\* Profiles and admin pages are answered from the token's own account.
THEOREM AnswersHold == Spec => []AnswersAreOwn
BY AllHolds, PTL DEF AllInv

\* A name answered 201 has an account until an operator removes it.
THEOREM RegisteredHolds == Spec => []RegisteredHasAccount
BY AllHolds, PTL DEF AllInv

\* No step changes the credentials of an account or gives its name to another.
THEOREM CredentialsHold == Spec => CredentialsAreStable
<1>1. AllInv /\ AllInv' /\ [Next]_vars =>
        [\A r \in users, q \in users' : r.id = q.id \/ r.name = q.name => r = q]_vars
  <2> SUFFICES ASSUME AllInv, AllInv', Next, NEW r \in users, NEW q \in users',
                      r.id = q.id \/ r.name = q.name
               PROVE  r = q
    OBVIOUS
  <2>1. users \subseteq users' \/ users' \subseteq users
    <3>1. ASSUME NEW w \in Workers, RegisterInsert(w)
          PROVE  users \subseteq users'
      BY <3>1 DEF RegisterInsert, Save, InsertUser
    <3>2. ASSUME NEW id \in 1..MaxId, Remove(id)
          PROVE  users' \subseteq users
      BY <3>2 DEF Remove
    <3> QED
      BY <3>1, <3>2 DEF Next, RegisterLookup, Login, Profile, AdminPage, LookupFails,
           Select, Answer, SetRole, Restart, table
  <2> QED
    BY <2>1 DEF AllInv, AccountsInv, OneRowPerAccount
<1> QED
  BY <1>1, AllHolds, PTL DEF Spec, CredentialsAreStable

----------------------------------------------------------------------------
(* The registry                                                            *)

Confirmed == {x[1] : x \in registered}
Results == [w \in Workers |-> Shown(w)]

\* Threads that are freed, and nothing else.
LEMMA FreedOnRegistry ==
  ASSUME UNCHANGED <<users, admins, nextId, tokens, registered>>,
         \A w \in Workers : Shown(w)' \in {Shown(w), Idle}
  PROVE  [Registry!Next]_(Registry!vars)
<1> DEFINE W == {w \in Workers : Shown(w)' = Idle}
<1>1. [w \in Workers |-> Shown(w)]' =
        [w \in Workers |-> IF w \in W THEN Idle ELSE [v \in Workers |-> Shown(v)][w]]
  OBVIOUS
<1>2. Registry!Finish(W)
  BY <1>1 DEF Registry!Finish
<1> QED
  BY <1>2 DEF Registry!Next

LEMMA RegisterOnRegistry ==
  ASSUME AllInv, NEW w \in Workers, RegisterInsert(w)
  PROVE  [Registry!Next]_(Registry!vars)
<1>1. PICK n \in Names, p \in Passwords, ok \in BOOLEAN :
        /\ Save(n, p, ok)
        /\ registered' = IF ok THEN registered \cup {<<n, p>>} ELSE registered
  BY InsertingType DEF RegisterInsert, AllInv
<1>2. UNCHANGED <<admins, tokens>> /\ Results' = Results
  BY DEF RegisterInsert, Goto, Results, Shown, AllInv, TypeOK, Idle
<1>3. Confirmed' = IF ok THEN Confirmed \cup {n} ELSE Confirmed
  <2>0. PICK y : y = <<n, p>>
    OBVIOUS
  <2>1. y = <<n, p>> /\ y[1] = n
    BY <2>0
  <2>2. registered' = IF ok THEN registered \cup {y} ELSE registered
    BY <1>1, <2>1
  <2> QED
    BY <2>1, <2>2 DEF Confirmed
<1>4. CASE InsertUser(n, p)
  <2>1. Registry!Register(n, p)
    BY <1>2, <1>3, <1>4 DEF InsertUser, Registry!Register, Registry!Taken, Confirmed, Results
  <2> QED
    BY <2>1 DEF Registry!Next
<1>5. CASE ~ok /\ UNCHANGED users /\ nextId' \in {nextId, nextId + 1}
  <2>1. Registry!Skip \/ UNCHANGED Registry!vars
    BY <1>2, <1>3, <1>5 DEF Registry!Skip, Registry!vars, Confirmed, Results
  <2> QED
    BY <2>1 DEF Registry!Next
<1> QED
  BY <1>1, <1>4, <1>5 DEF Save

LEMMA LoginOnRegistry ==
  ASSUME NEW w \in Workers, NEW n \in Names, NEW p \in Passwords, Login(w, n, p)
  PROVE  [Registry!Next]_(Registry!vars)
<1>1. Registry!LogIn(n, p)
  BY DEF Login, Select, Committed, table, Registry!LogIn, Shown
<1> QED
  BY <1>1 DEF Registry!Next

\* The row that is shown is the account the token was issued for.
LEMMA PageOnRegistry ==
  ASSUME AllInv, NEW w \in Workers, NEW tok \in tokens, Profile(w, tok) \/ AdminPage(w, tok)
  PROVE  [Registry!Next]_(Registry!vars)
<1>1. PICK r \in users, pc \in {"profile", "admin"} :
        /\ r.id = tok.id
        /\ pc = "admin" => r.id \in admins
        /\ worker' = [worker EXCEPT ![w] = [pc |-> pc, tok |-> tok, row |-> r]]
  <2>1. CASE Profile(w, tok)
    BY <2>1 DEF Profile, Goto
  <2>2. CASE AdminPage(w, tok)
    BY <2>2 DEF AdminPage, Goto
  <2> QED
    BY <2>1, <2>2
<1>2. UNCHANGED <<users, admins, nextId, tokens, registered>>
  BY DEF Profile, AdminPage, Select, Committed, table
<1>3. r = tok /\ tok \in tokens \cap users
  BY <1>1 DEF AllInv, AccountsInv, TokensKeepTheirAccount
<1>4. Results' = [Results EXCEPT ![w] = [page |-> pc, token |-> tok, row |-> tok]]
  BY <1>1, <1>3 DEF Results, Shown, AllInv, TypeOK
<1>5. Registry!Show(w, pc)
  BY <1>1, <1>2, <1>3, <1>4 DEF Registry!Show, Results
<1> QED
  BY <1>5 DEF Registry!Next

LEMMA RemoveOnRegistry ==
  ASSUME NEW id \in 1..MaxId, Remove(id)
  PROVE  [Registry!Next]_(Registry!vars)
<1>1. PICK r \in users : /\ r.id = id /\ users' = users \ {r}
                         /\ registered' = {x \in registered : x[1] # r.name}
  BY DEF Remove
<1>2. Confirmed' = Confirmed \ {r.name}
  BY <1>1 DEF Confirmed
<1>3. UNCHANGED <<nextId, tokens, Results>> /\ admins' = admins \ {r.id}
  BY <1>1 DEF Remove, Results, Shown
<1>4. Registry!Remove
  BY <1>1, <1>2, <1>3 DEF Registry!Remove, Confirmed, Results
<1> QED
  BY <1>4 DEF Registry!Next

LEMMA StepOnRegistry == AllInv /\ [Next]_vars => [Registry!Next]_(Registry!vars)
<1> SUFFICES ASSUME AllInv, [Next]_vars PROVE [Registry!Next]_(Registry!vars)
  OBVIOUS
<1>1. ASSUME NEW w \in Workers, NEW n \in Names, NEW p \in Passwords, RegisterLookup(w, n, p)
      PROVE  [Registry!Next]_(Registry!vars)
  <2>1. UNCHANGED <<users, admins, nextId, tokens, registered>>
    BY <1>1 DEF RegisterLookup, Select, table
  <2>2. \A v \in Workers : Shown(v)' = Shown(v)
    BY <1>1 DEF RegisterLookup, Goto, Shown, Idle, AllInv, TypeOK
  <2> QED
    BY <2>1, <2>2, FreedOnRegistry
<1>2. ASSUME NEW w \in Workers, NEW n \in Names, NEW p \in Passwords, Login(w, n, p)
      PROVE  [Registry!Next]_(Registry!vars)
  BY <1>2, LoginOnRegistry
<1>3. ASSUME NEW w \in Workers, RegisterInsert(w)
      PROVE  [Registry!Next]_(Registry!vars)
  BY <1>3, RegisterOnRegistry
<1>4. ASSUME NEW w \in Workers, NEW tok \in tokens, Profile(w, tok) \/ AdminPage(w, tok)
      PROVE  [Registry!Next]_(Registry!vars)
  BY <1>4, PageOnRegistry
<1>5. CASE \/ \E w \in Workers : LookupFails(w) \/ Answer(w)
           \/ Restart \/ UNCHANGED vars
  <2>1. UNCHANGED <<users, admins, nextId, tokens, registered>>
    BY <1>5 DEF LookupFails, Answer, Restart, vars, Select, table
  <2>2. \A v \in Workers : worker'[v] \in {worker[v], Idle}
    BY <1>5 DEF LookupFails, Answer, Restart, vars, Goto, AllInv, TypeOK
  <2>3. \A v \in Workers : Shown(v)' \in {Shown(v), Idle}
    BY <2>2 DEF Shown, Idle
  <2> QED
    BY <2>1, <2>3, FreedOnRegistry
<1>6. ASSUME NEW n \in Names, NEW role \in {0, 1}, SetRole(n, role)
      PROVE  [Registry!Next]_(Registry!vars)
  <2>1. Registry!SetRole
    BY <1>6 DEF SetRole, Registry!SetRole, Shown
  <2> QED
    BY <2>1 DEF Registry!Next
<1>7. ASSUME NEW id \in 1..MaxId, Remove(id)
      PROVE  [Registry!Next]_(Registry!vars)
  BY <1>7, RemoveOnRegistry
<1> QED
  BY <1>1, <1>2, <1>3, <1>4, <1>5, <1>6, <1>7 DEF Next

\* Accounts behave as if every request about them were one step.
THEOREM AccountsRefineRegistry == Spec => ImplementsRegistry
<1>1. Init => Registry!Init
  BY DEF Init, Registry!Init, Shown, Idle
<1> QED
  BY <1>1, StepOnRegistry, AllHolds, PTL DEF Spec, Registry!Spec, ImplementsRegistry
=============================================================================
