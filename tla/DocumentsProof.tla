--------------------------- MODULE DocumentsProof ---------------------------
(***************************************************************************)
(* Theorems about Documents, for any users, files, threads and ids.        *)
(***************************************************************************)
EXTENDS Documents, TLAPS

Request == {Idle} \cup Saving \cup Checked \cup Found \cup Serving \cup Deleting

\* Everything the steps keep.
AllInv == TypeOK /\ DocumentsInv /\ ServedOwnDocument /\ AnsweredIsKept

\* What a thread holds, by where it is.
LEMMA RequestType ==
  ASSUME TypeOK, NEW w \in Workers
  PROVE  /\ worker[w].pc = "save" => worker[w] \in Saving
         /\ worker[w].pc \in {"find", "delete"} => worker[w] \in Checked
         /\ worker[w].pc = "data" => worker[w] \in Found
         /\ worker[w].pc = "serve" => worker[w] \in Serving
BY DEF TypeOK, Idle, Saving, Checked, Found, Serving, Deleting

\* A thread moves on and the tables stay: what it goes on with must satisfy
\* the invariant.
LEMMA MoveKeeps ==
  ASSUME AllInv, UNCHANGED <<accounts, docs, nextId, kept, deleted>>, pgLink' \in BOOLEAN,
         NEW w \in Workers, NEW s \in Request, Goto(w, s),
         s.pc = "serve" => s.meta = s.data /\ s.meta.owner = s.user,
         s.pc \in {"find", "delete", "data"} =>
           s.doc < nextId /\ \A r \in Row(s.doc) : r.owner = s.user,
         s.pc = "data" /\ s.meta # Nothing =>
           s.meta.id = s.doc /\ s.meta.owner = s.user /\ \A r \in Row(s.doc) : r = s.meta
  PROVE  AllInv'
<1> USE DEF AllInv
<1>1. /\ worker' \in [Workers -> Request]
      /\ worker'[w] = s
      /\ \A v \in Workers \ {w} : worker'[v] = worker[v]
  BY DEF Goto, TypeOK, Request
<1>2. TypeOK'
  BY <1>1 DEF TypeOK, PgTypeOK, Request
<1>3. \A id : Row(id)' = Row(id)
  BY DEF Row
<1>4. KeysHold' /\ IdsAreSpent' /\ AnsweredIsKept'
  BY DEF DocumentsInv, KeysHold, IdsAreSpent, AnsweredIsKept
<1>5. ChecksHold'
  <2> SUFFICES ASSUME NEW v \in Workers
               PROVE  /\ worker'[v].pc \in {"find", "delete", "data"} =>
                           /\ worker'[v].doc < nextId
                           /\ \A r \in Row(worker'[v].doc) : r.owner = worker'[v].user
                      /\ worker'[v].pc = "data" /\ worker'[v].meta # Nothing =>
                           /\ worker'[v].meta.id = worker'[v].doc
                           /\ worker'[v].meta.owner = worker'[v].user
                           /\ \A r \in Row(worker'[v].doc) : r = worker'[v].meta
    BY <1>3 DEF ChecksHold, Row
  <2>1. CASE v = w
    BY <1>1, <2>1
  <2>2. CASE v # w
    BY <1>1, <2>2 DEF DocumentsInv, ChecksHold
  <2> QED
    BY <2>1, <2>2
<1>6. ServedOwnDocument'
  BY <1>1 DEF ServedOwnDocument
<1> QED
  BY <1>2, <1>4, <1>5, <1>6 DEF DocumentsInv

LEMMA InitAll == Init => AllInv
BY DEF Init, PgInit, PgTypeOK, AllInv, TypeOK, Idle, DocumentsInv, KeysHold, IdsAreSpent,
     ChecksHold, ServedOwnDocument, AnsweredIsKept

LEMMA SignKeeps ==
  ASSUME AllInv, NEW w \in Workers, NEW u \in Users, NEW f \in Files, Sign(w, u, f)
  PROVE  AllInv'
<1> DEFINE s == [pc |-> "save", user |-> u, file |-> f]
<1>1. s \in Request /\ s.pc = "save"
  BY DEF Request, Saving
<1>2. Goto(w, s) /\ UNCHANGED <<pgLink, accounts, docs, nextId, kept, deleted>>
  BY DEF Sign, tables
<1> HIDE DEF s
<1> QED
  BY <1>1, <1>2, MoveKeeps DEF AllInv, TypeOK, PgTypeOK

LEMMA CheckOwnerKeeps ==
  ASSUME AllInv, NEW w \in Workers, NEW u \in Users, NEW id \in 1..MaxId,
         NEW next \in {"find", "delete"}, CheckOwner(w, u, id, next)
  PROVE  AllInv'
<1> DEFINE s == [pc |-> next, user |-> u, doc |-> id]
<1>1. s \in Request /\ s.pc = next /\ s.doc = id /\ s.user = u
  BY MaxIdAssumption DEF Request, Checked
<1>2. /\ Goto(w, s) /\ UNCHANGED <<pgLink, accounts, docs, nextId, kept, deleted>>
      /\ OwnedBy(id, u)
  BY DEF CheckOwner, Select, Committed, tables
<1>3. PICK r \in docs : r.id = id /\ r.owner = u
  BY <1>2 DEF OwnedBy, Row
<1>4. id < nextId /\ \A q \in Row(id) : q.owner = u
  BY <1>3 DEF AllInv, DocumentsInv, IdsAreSpent, KeysHold, Row
<1> HIDE DEF s
<1> QED
  BY <1>1, <1>2, <1>4, MoveKeeps DEF AllInv, TypeOK, PgTypeOK

LEMMA FindKeeps ==
  ASSUME AllInv, NEW w \in Workers, Find(w)
  PROVE  AllInv'
<1> USE DEF AllInv
<1>1. PICK u, id, m : /\ u = worker[w].user /\ id = worker[w].doc
                      /\ m \in (IF Row(id) = {} THEN {Nothing} ELSE Row(id))
                      /\ Goto(w, [pc |-> "data", user |-> u, doc |-> id, meta |-> m])
  BY DEF Find
<1>2. UNCHANGED <<pgLink, accounts, docs, nextId, kept, deleted>>
  BY DEF Find, Select, Committed, tables
<1>3. u \in Users /\ id \in Nat
  BY <1>1, RequestType DEF Find, Checked
<1>4. m \in Document \cup {Nothing}
  BY <1>1 DEF Row, TypeOK
<1>5. id < nextId /\ \A r \in Row(id) : r.owner = u
  BY <1>1 DEF Find, DocumentsInv, ChecksHold
<1>6. m # Nothing => m.id = id /\ m.owner = u /\ \A r \in Row(id) : r = m
  BY <1>1, <1>5 DEF Row, DocumentsInv, KeysHold
<1>7. PICK s : s = [pc |-> "data", user |-> u, doc |-> id, meta |-> m]
  OBVIOUS
<1>8. s \in Request /\ s.pc = "data" /\ s.user = u /\ s.doc = id /\ s.meta = m
  BY <1>3, <1>4, <1>7 DEF Request, Found
<1> QED
  BY <1>1, <1>2, <1>5, <1>6, <1>7, <1>8, MoveKeeps DEF TypeOK, PgTypeOK

\* Going idle is always fine.
LEMMA EndKeeps ==
  ASSUME AllInv, UNCHANGED <<accounts, docs, nextId, kept, deleted>>, pgLink' \in BOOLEAN,
         NEW w \in Workers, Goto(w, Idle)
  PROVE  AllInv'
<1>1. Idle \in Request /\ Idle.pc = "idle"
  BY DEF Request, Idle
<1> QED
  BY <1>1, MoveKeeps

\* The bytes read by getPdfData() belong to the row findById() read.
LEMMA DataKeeps ==
  ASSUME AllInv, NEW w \in Workers, Data(w)
  PROVE  AllInv'
<1> USE DEF AllInv
<1>1. UNCHANGED <<pgLink, accounts, docs, nextId, kept, deleted>>
  BY DEF Data, Select, Committed, tables
<1>2. CASE Goto(w, Idle)
  BY <1>1, <1>2, EndKeeps DEF TypeOK, PgTypeOK
<1>3. CASE worker[w].meta # Nothing /\ Row(worker[w].doc) # {}
  <2>1. PICK u, m, d : /\ u = worker[w].user /\ m = worker[w].meta
                       /\ d \in Row(worker[w].doc)
                       /\ Goto(w, [pc |-> "serve", user |-> u, meta |-> m, data |-> d])
    BY <1>3 DEF Data
  <2>2. u \in Users /\ m \in Document
    BY <1>3, <2>1, RequestType DEF Data, Found
  <2>3. d = m /\ m.owner = u
    BY <1>3, <2>1 DEF Data, DocumentsInv, ChecksHold
  <2>4. PICK s : s = [pc |-> "serve", user |-> u, meta |-> m, data |-> d]
    OBVIOUS
  <2>5. s \in Request /\ s.pc = "serve" /\ s.user = u /\ s.meta = m /\ s.data = d
    BY <2>2, <2>3, <2>4 DEF Request, Serving
  <2> QED
    BY <1>1, <2>1, <2>3, <2>4, <2>5, MoveKeeps DEF TypeOK, PgTypeOK
<1> QED
  BY <1>2, <1>3 DEF Data

\* Rows come in under the next id, for an account that exists.
LEMMA SaveDocumentKeeps ==
  ASSUME AllInv, NEW w \in Workers, SaveDocument(w)
  PROVE  AllInv'
<1> USE DEF AllInv
<1>1. PICK u \in Users, f \in Files, ok \in BOOLEAN :
        /\ Save(u, f, ok)
        /\ kept' = IF ok THEN kept \cup {[id |-> nextId, owner |-> u, file |-> f]} ELSE kept
  BY RequestType DEF SaveDocument, Saving
<1>2. worker' = [worker EXCEPT ![w] = Idle] /\ UNCHANGED <<accounts, deleted>>
  BY DEF SaveDocument, Goto
<1>3. PICK x : x = [id |-> nextId, owner |-> u, file |-> f]
  OBVIOUS
<1>4. /\ nextId \in Nat /\ x \in Document /\ x.id = nextId /\ x.owner = u
      /\ pgLink' \in BOOLEAN /\ nextId' \in {nextId, nextId + 1}
      /\ \/ docs' = docs \cup {x} /\ u \in accounts /\ nextId' = nextId + 1
         \/ docs' = docs /\ ~ok
  BY <1>1, <1>3 DEF Save, InsertDocument, Committed, InDoubt, RolledBack, TypeOK, PgTypeOK, Document
<1>5. /\ worker'[w].pc = "idle"
      /\ \A v \in Workers \ {w} : worker'[v] = worker[v]
  BY <1>2 DEF TypeOK, Idle
<1>6. TypeOK'
  BY <1>1, <1>2, <1>3, <1>4 DEF TypeOK, PgTypeOK
<1>7. \A r \in docs : r \in Document /\ r.id < nextId
  BY DEF TypeOK, DocumentsInv, IdsAreSpent
<1>8. KeysHold'
  BY <1>2, <1>4, <1>7 DEF DocumentsInv, KeysHold
<1>9. IdsAreSpent'
  BY <1>2, <1>4, <1>6 DEF TypeOK, DocumentsInv, IdsAreSpent, Document
<1>10. ChecksHold'
  <2> SUFFICES ASSUME NEW v \in Workers, v # w
               PROVE  /\ worker[v].pc \in {"find", "delete", "data"} =>
                           /\ worker[v].doc < nextId'
                           /\ \A r \in docs' : r.id = worker[v].doc => r.owner = worker[v].user
                      /\ worker[v].pc = "data" /\ worker[v].meta # Nothing =>
                           /\ worker[v].meta.id = worker[v].doc
                           /\ worker[v].meta.owner = worker[v].user
                           /\ \A r \in docs' : r.id = worker[v].doc => r = worker[v].meta
    BY <1>5 DEF ChecksHold, Row
  <2>1. worker[v].pc \in {"find", "delete", "data"} =>
          worker[v].doc \in Nat /\ worker[v].doc < nextId
    BY RequestType DEF DocumentsInv, ChecksHold, Checked, Found
  <2> QED
    BY <1>4, <2>1 DEF DocumentsInv, ChecksHold, Row
<1>11. ServedOwnDocument' /\ AnsweredIsKept'
  BY <1>1, <1>3, <1>4, <1>5 DEF ServedOwnDocument, AnsweredIsKept
<1> QED
  BY <1>6, <1>8, <1>9, <1>10, <1>11 DEF DocumentsInv

\* Rows may go, when no step brings one in.
LEMMA RemovalKeeps ==
  ASSUME AllInv, TypeOK', docs' \subseteq docs, UNCHANGED nextId,
         kept' \subseteq docs', accounts' \subseteq accounts,
         \A r \in docs' : r.owner \in accounts' /\ r.id \notin deleted',
         \A id \in deleted' : id < nextId,
         \A v \in Workers : worker'[v] = worker[v] \/ worker'[v].pc \in {"idle", "deleted"}
  PROVE  AllInv'
<1> USE DEF AllInv
<1>1. KeysHold' /\ IdsAreSpent'
  BY DEF DocumentsInv, KeysHold, IdsAreSpent
<1>2. \A id : Row(id)' \subseteq Row(id)
  BY DEF Row
<1>3. ChecksHold'
  BY <1>2 DEF DocumentsInv, ChecksHold, Row
<1>4. ServedOwnDocument' /\ AnsweredIsKept'
  BY DEF ServedOwnDocument, AnsweredIsKept
<1> QED
  BY <1>1, <1>3, <1>4 DEF DocumentsInv

LEMMA DeleteKeeps ==
  ASSUME AllInv, NEW w \in Workers, Delete(w)
  PROVE  AllInv'
<1> USE DEF AllInv
<1>0. PICK id : id = worker[w].doc
  OBVIOUS
<1>1. PICK ok \in BOOLEAN :
        /\ DeleteById(id, ok)
        /\ IF ok
           THEN Goto(w, [pc |-> "deleted", user |-> worker[w].user, doc |-> id])
           ELSE Goto(w, Idle)
        /\ deleted' = IF ok THEN deleted \cup {id} ELSE deleted
        /\ kept' = kept \ (docs \ docs')
  BY <1>0 DEF Delete
<1>2. id \in Nat /\ id < nextId /\ worker[w].user \in Users
  BY <1>0, RequestType DEF Delete, DocumentsInv, ChecksHold, Checked
<1>3. UNCHANGED <<accounts, nextId>> /\ pgLink' \in BOOLEAN
  BY <1>1 DEF Delete, DeleteById, Committed, InDoubt, RolledBack, TypeOK, PgTypeOK
<1>4. docs' = docs \ Row(id) \/ (docs' = docs /\ ~ok)
  BY <1>1 DEF DeleteById
<1>5. docs' \subseteq docs
  BY <1>4
<1>6. PICK s \in Request : /\ worker' = [worker EXCEPT ![w] = s]
                           /\ s.pc \in {"idle", "deleted"}
  <2>1. CASE ok
    <3>1. PICK s : s = [pc |-> "deleted", user |-> worker[w].user, doc |-> id]
      OBVIOUS
    <3>2. s \in Request /\ s.pc = "deleted"
      BY <1>2, <3>1 DEF Request, Deleting
    <3> QED
      BY <1>1, <2>1, <3>1, <3>2 DEF Goto
  <2>2. CASE ~ok
    <3>1. Idle \in Request /\ Idle.pc = "idle"
      BY DEF Request, Idle
    <3>2. worker' = [worker EXCEPT ![w] = Idle]
      BY <1>1, <2>2 DEF Goto
    <3> QED
      BY <3>1, <3>2
  <2> QED
    BY <2>1, <2>2
<1>7. worker' \in [Workers -> Request]
  BY <1>6 DEF TypeOK, Request
<1>8. TypeOK'
  BY <1>1, <1>2, <1>3, <1>5, <1>7 DEF TypeOK, PgTypeOK, Request
<1>9. \A r \in docs' : r.owner \in accounts' /\ r.id \notin deleted'
  BY <1>1, <1>3, <1>4 DEF DocumentsInv, KeysHold, IdsAreSpent, Row
<1>10. \A i \in deleted' : i < nextId
  BY <1>1, <1>2 DEF DocumentsInv, IdsAreSpent
<1>11. \A v \in Workers : worker'[v] = worker[v] \/ worker'[v].pc \in {"idle", "deleted"}
  BY <1>6 DEF TypeOK
<1>12. kept' \subseteq docs'
  BY <1>1 DEF AnsweredIsKept
<1> QED
  BY <1>3, <1>5, <1>8, <1>9, <1>10, <1>11, <1>12, RemovalKeeps

LEMMA RemoveAccountKeeps ==
  ASSUME AllInv, NEW u \in Users, RemoveAccount(u)
  PROVE  AllInv'
<1> USE DEF AllInv
<1>1. /\ accounts' = accounts \ {u}
      /\ docs' = {r \in docs : r.owner # u}
      /\ kept' = {r \in kept : r.owner # u}
      /\ UNCHANGED <<pgLink, nextId, worker, deleted>>
  BY DEF RemoveAccount
<1>2. TypeOK'
  BY <1>1 DEF TypeOK, PgTypeOK
<1>3. \A r \in docs' : r.owner \in accounts' /\ r.id \notin deleted'
  BY <1>1 DEF DocumentsInv, KeysHold, IdsAreSpent
<1>4. kept' \subseteq docs'
  BY <1>1 DEF AnsweredIsKept
<1> QED
  BY <1>1, <1>2, <1>3, <1>4, RemovalKeeps DEF DocumentsInv, IdsAreSpent

LEMMA StepKeepsAll == AllInv /\ [Next]_vars => AllInv'
<1> SUFFICES ASSUME AllInv, [Next]_vars PROVE AllInv'
  OBVIOUS
<1>1. ASSUME NEW w \in Workers, NEW u \in Users, NEW f \in Files, Sign(w, u, f)
      PROVE  AllInv'
  BY <1>1, SignKeeps
<1>2. ASSUME NEW w \in Workers, SaveDocument(w)
      PROVE  AllInv'
  BY <1>2, SaveDocumentKeeps
<1>3. ASSUME NEW w \in Workers, NEW u \in Users, NEW id \in 1..MaxId,
             NEW next \in {"find", "delete"}, CheckOwner(w, u, id, next)
      PROVE  AllInv'
  BY <1>3, CheckOwnerKeeps
<1>4. ASSUME NEW w \in Workers, Find(w)
      PROVE  AllInv'
  BY <1>4, FindKeeps
<1>5. ASSUME NEW w \in Workers, Data(w)
      PROVE  AllInv'
  BY <1>5, DataKeeps
<1>6. ASSUME NEW w \in Workers, Delete(w)
      PROVE  AllInv'
  BY <1>6, DeleteKeeps
<1>7. ASSUME NEW w \in Workers, Answer(w) \/ QueryFails(w)
      PROVE  AllInv'
  <2>1. /\ Goto(w, Idle) /\ UNCHANGED <<accounts, docs, nextId, kept, deleted>>
        /\ pgLink' \in BOOLEAN
    BY <1>7 DEF Answer, QueryFails, RolledBack, tables, AllInv, TypeOK, PgTypeOK
  <2> QED
    BY <2>1, EndKeeps
<1>8. ASSUME NEW u \in Users, RemoveAccount(u)
      PROVE  AllInv'
  BY <1>8, RemoveAccountKeeps
<1>9. CASE Restart \/ UNCHANGED vars
  <2>1. /\ UNCHANGED <<accounts, docs, nextId, kept, deleted>>
        /\ pgLink' \in BOOLEAN
        /\ worker' \in [Workers -> Request]
        /\ \A v \in Workers : worker'[v] = worker[v] \/ worker'[v].pc = "idle"
    <3>1. CASE Restart
      BY <3>1 DEF Restart, PgConnect, tables, Request, Idle
    <3>2. CASE UNCHANGED vars
      BY <3>2 DEF vars, AllInv, TypeOK, PgTypeOK, Request
    <3> QED
      BY <1>9, <3>1, <3>2
  <2>2. TypeOK'
    BY <2>1 DEF AllInv, TypeOK, PgTypeOK, Request
  <2> QED
    BY <2>1, <2>2, RemovalKeeps DEF AllInv, DocumentsInv, KeysHold, IdsAreSpent, AnsweredIsKept
<1> QED
  BY <1>1, <1>2, <1>3, <1>4, <1>5, <1>6, <1>7, <1>8, <1>9 DEF Next

LEMMA AllHolds == Spec => []AllInv
BY InitAll, StepKeepsAll, PTL DEF Spec

\* Rows and requests are well formed in every reachable state.
THEOREM DocumentsTypeCorrect == Spec => []TypeOK
BY AllHolds, PTL DEF AllInv

\* The owner check of download, verify and remove holds to the end of the
\* request, for any number of concurrent requests and account removals.
THEOREM ChecksStayValid == Spec => []DocumentsInv
BY AllHolds, PTL DEF AllInv

\* What is served is one document, whole, and the requester's own.
THEOREM OwnDocumentsOnly == Spec => []ServedOwnDocument
BY AllHolds, PTL DEF AllInv

\* A document answered 201 is in the table until it is deleted.
THEOREM AnsweredStays == Spec => []AnsweredIsKept
BY AllHolds, PTL DEF AllInv

\* Only remove and the removal of an account take rows out of the table.
LEMMA WhatTakesRows ==
  ASSUME [Next]_vars, NEW r \in docs \ docs'
  PROVE  \/ \E w \in Workers : Delete(w)
         \/ \E u \in Users : RemoveAccount(u)
<1>1. ASSUME NEW w \in Workers, SaveDocument(w)
      PROVE  docs \subseteq docs'
  BY <1>1 DEF SaveDocument, Save, InsertDocument
<1> QED
  BY <1>1 DEF Next, vars, tables, Sign, CheckOwner, Find, Data, Select, Answer, QueryFails, Restart

\* No interleaving makes a request delete a document of another user.
THEOREM OwnerDeletes == Spec => OnlyOwnerDeletes
<1>1. AllInv /\ [Next]_vars =>
        [\A r \in docs \ docs' :
           \/ r.owner \notin accounts'
           \/ \E w \in Workers : /\ worker[w].pc = "delete"
                                 /\ worker[w].user = r.owner /\ worker[w].doc = r.id]_vars
  <2> SUFFICES ASSUME AllInv, [Next]_vars, NEW r \in docs \ docs'
               PROVE  \/ r.owner \notin accounts'
                      \/ \E w \in Workers : /\ worker[w].pc = "delete"
                                            /\ worker[w].user = r.owner /\ worker[w].doc = r.id
    OBVIOUS
  <2>1. CASE \E u \in Users : RemoveAccount(u)
    BY <2>1 DEF RemoveAccount
  <2>2. ASSUME NEW w \in Workers, Delete(w)
        PROVE  /\ worker[w].pc = "delete"
               /\ worker[w].user = r.owner /\ worker[w].doc = r.id
    <3>1. r \in Row(worker[w].doc) /\ worker[w].pc = "delete"
      BY <2>2 DEF Delete, DeleteById
    <3> QED
      BY <3>1 DEF AllInv, DocumentsInv, ChecksHold, Row
  <2> QED
    BY <2>1, <2>2, WhatTakesRows
<1> QED
  BY <1>1, AllHolds, PTL DEF Spec, OnlyOwnerDeletes

\* Of the requests that delete a document, one is answered "deleted".
THEOREM DeletionOnce == Spec => DeletedOnce
<1>1. AllInv /\ [Next]_vars =>
        [\A w \in Workers : worker'[w].pc = "deleted" /\ worker[w].pc # "deleted" =>
           worker[w].doc \notin deleted]_vars
  <2> SUFFICES ASSUME AllInv, [Next]_vars, NEW w \in Workers,
                      worker'[w].pc = "deleted", worker[w].pc # "deleted"
               PROVE  worker[w].doc \notin deleted
    OBVIOUS
  <2>1. Delete(w)
    BY DEF Next, vars, tables, Sign, SaveDocument, CheckOwner, Find, Data, Delete, Answer,
           QueryFails, RemoveAccount, Restart, Goto, Idle, AllInv, TypeOK
  <2>2. Row(worker[w].doc) # {}
    BY <2>1 DEF Delete, DeleteById, Goto, Idle, AllInv, TypeOK
  <2> QED
    BY <2>2 DEF AllInv, DocumentsInv, IdsAreSpent, Row
<1> QED
  BY <1>1, AllHolds, PTL DEF Spec, DeletedOnce

----------------------------------------------------------------------------
(* Documents implements DocumentShelf.                                     *)

Results == [w \in Workers |-> Result(w)]

Silent == {"idle", "save", "find", "data", "delete"}

LEMMA InitShelf == Init => Shelf!Init
<1> SUFFICES ASSUME Init PROVE Shelf!Init
  OBVIOUS
<1>1. \A w \in Workers : Result(w) = Nothing
  BY DEF Init, Result, Idle
<1> QED
  BY <1>1 DEF Init, Shelf!Init

LEMMA SameResults ==
  ASSUME \A w \in Workers : Result(w)' = Result(w)
  PROVE  Results' = Results
BY DEF Results

\* A thread moves on: only its own result changes.
LEMMA ResultsMove ==
  ASSUME TypeOK, NEW w \in Workers, NEW s, Goto(w, s)
  PROVE  /\ worker'[w] = s
         /\ \A v \in Workers : v # w => Result(v)' = Result(v)
         /\ Results' = [Results EXCEPT ![w] = Result(w)']
<1>1. worker'[w] = s /\ \A v \in Workers : v # w => worker'[v] = worker[v]
  BY DEF Goto, TypeOK
<1>2. \A v \in Workers : v # w => Result(v)' = Result(v)
  BY <1>1 DEF Result
<1> QED
  BY <1>1, <1>2 DEF Results

\* Between statements that answer nothing, the results stay.
LEMMA SilentMove ==
  ASSUME TypeOK, NEW w \in Workers, NEW s, Goto(w, s),
         worker[w].pc \in Silent, s.pc \in Silent
  PROVE  Results' = Results
<1>1. worker'[w] = s /\ \A v \in Workers : v # w => Result(v)' = Result(v)
  BY ResultsMove
<1>2. Result(w)' = Result(w)
  BY <1>1 DEF Result, Silent
<1> QED
  BY <1>1, <1>2, SameResults

LEMMA StutterShelf ==
  ASSUME UNCHANGED <<docs, nextId>>, Results' = Results
  PROVE  UNCHANGED Shelf!vars
BY DEF Results, Shelf!vars

\* save() puts a document on the shelf, loses an id, or does nothing.
LEMMA SaveDocumentShelf ==
  ASSUME AllInv, NEW w \in Workers, SaveDocument(w)
  PROVE  Shelf!Next \/ UNCHANGED Shelf!vars
<1>1. Results' = Results
  BY SilentMove DEF SaveDocument, Idle, Silent, AllInv
<1>2. PICK u \in Users, f \in Files, ok \in BOOLEAN : Save(u, f, ok)
  BY RequestType DEF SaveDocument, Saving, AllInv
<1>3. CASE docs' = docs \cup {[id |-> nextId, owner |-> u, file |-> f]} /\ nextId' = nextId + 1
  <2>1. Shelf!Put
    BY <1>1, <1>3 DEF Shelf!Put, Results
  <2> QED
    BY <2>1 DEF Shelf!Next
<1>4. CASE docs' = docs /\ nextId' = nextId
  BY <1>1, <1>4, StutterShelf
<1>5. CASE docs' = docs /\ nextId' = nextId + 1
  <2>1. Shelf!Skip
    BY <1>1, <1>5 DEF Shelf!Skip, Results
  <2> QED
    BY <2>1 DEF Shelf!Next
<1> QED
  BY <1>2, <1>3, <1>4, <1>5 DEF Save, InsertDocument

\* At getPdfData() the document is there, and it is what findById() read.
LEMMA DataShelf ==
  ASSUME AllInv, NEW w \in Workers, Data(w)
  PROVE  Shelf!Next \/ UNCHANGED Shelf!vars
<1>1. UNCHANGED <<docs, nextId>>
  BY DEF Data, Select, tables
<1>2. CASE Goto(w, Idle)
  <2>1. Results' = Results
    BY <1>2, SilentMove DEF Data, Idle, Silent, AllInv
  <2> QED
    BY <1>1, <2>1, StutterShelf
<1>3. CASE worker[w].meta # Nothing /\ Row(worker[w].doc) # {}
  <2>1. PICK u, m, d : /\ u = worker[w].user /\ m = worker[w].meta
                       /\ d \in Row(worker[w].doc)
                       /\ Goto(w, [pc |-> "serve", user |-> u, meta |-> m, data |-> d])
    BY <1>3 DEF Data
  <2>2. d \in docs /\ d = m /\ d.owner = u
    BY <1>3, <2>1 DEF Data, AllInv, DocumentsInv, ChecksHold, Row
  <2>3. PICK s : s = [pc |-> "serve", user |-> u, meta |-> m, data |-> d]
    OBVIOUS
  <2>4. worker'[w] = s /\ Results' = [Results EXCEPT ![w] = Result(w)']
    BY <2>1, <2>3, ResultsMove DEF AllInv
  <2>5. Result(w)' = [op |-> "serve", user |-> d.owner, meta |-> d, data |-> d]
    BY <2>2, <2>3, <2>4 DEF Result
  <2>6. Shelf!Serve(w)
    BY <1>1, <2>2, <2>4, <2>5 DEF Shelf!Serve, Results
  <2> QED
    BY <2>6 DEF Shelf!Next
<1> QED
  BY <1>2, <1>3 DEF Data

\* deleteById() takes the one document its owner named from the shelf.
LEMMA DeleteShelf ==
  ASSUME AllInv, NEW w \in Workers, Delete(w)
  PROVE  Shelf!Next \/ UNCHANGED Shelf!vars
<1>0. PICK id, u : id = worker[w].doc /\ u = worker[w].user
  OBVIOUS
<1>1. PICK ok \in BOOLEAN :
        /\ DeleteById(id, ok)
        /\ IF ok THEN Goto(w, [pc |-> "deleted", user |-> u, doc |-> id]) ELSE Goto(w, Idle)
  BY <1>0 DEF Delete
<1>2. UNCHANGED nextId /\ worker[w].pc = "delete"
  BY DEF Delete
<1>3. ASSUME NEW d \in Row(id)
      PROVE  Row(id) = {d} /\ d \in docs /\ d.id = id /\ d.owner = u
  BY <1>0, <1>2, <1>3 DEF Row, AllInv, DocumentsInv, KeysHold, ChecksHold
<1>4. CASE ok
  <2>1. Row(id) # {} /\ docs' = docs \ Row(id)
    BY <1>1, <1>4 DEF DeleteById
  <2>2. PICK d : d \in Row(id)
    BY <2>1
  <2>3. PICK s : s = [pc |-> "deleted", user |-> u, doc |-> id]
    OBVIOUS
  <2>4. worker'[w] = s /\ Results' = [Results EXCEPT ![w] = Result(w)']
    BY <1>1, <1>4, <2>3, ResultsMove DEF AllInv
  <2>5. Result(w)' = [op |-> "deleted", user |-> d.owner, doc |-> d.id]
    BY <1>3, <2>2, <2>3, <2>4 DEF Result
  <2>6. docs' = docs \ {d} /\ d \in docs
    BY <1>3, <2>1, <2>2
  <2>7. Shelf!Delete(w)
    BY <1>2, <2>4, <2>5, <2>6 DEF Shelf!Delete, Results
  <2> QED
    BY <2>7 DEF Shelf!Next
<1>5. CASE ~ok
  <2>1. Results' = Results
    BY <1>1, <1>2, <1>5, SilentMove DEF Idle, Silent, AllInv
  <2>2. CASE docs' = docs
    BY <1>2, <2>1, <2>2, StutterShelf
  <2>3. CASE docs' # docs
    <3>1. PICK d : d \in Row(id) /\ docs' = docs \ Row(id)
      BY <1>1, <2>3 DEF DeleteById
    <3>2. Shelf!Withdraw
      BY <1>2, <1>3, <2>1, <3>1 DEF Shelf!Withdraw, Results
    <3> QED
      BY <3>2 DEF Shelf!Next
  <2> QED
    BY <2>2, <2>3
<1> QED
  BY <1>4, <1>5

LEMMA StepShelf ==
  AllInv /\ [Next]_vars => [Shelf!Next]_(Shelf!vars)
<1> SUFFICES ASSUME AllInv, [Next]_vars
             PROVE  Shelf!Next \/ UNCHANGED Shelf!vars
  OBVIOUS
<1>1. ASSUME NEW w \in Workers, NEW u \in Users, NEW f \in Files, Sign(w, u, f)
      PROVE  UNCHANGED Shelf!vars
  <2>1. Results' = Results
    BY <1>1, SilentMove DEF Sign, Idle, Silent, AllInv
  <2> QED
    BY <1>1, <2>1, StutterShelf DEF Sign, tables
<1>2. ASSUME NEW w \in Workers, SaveDocument(w)
      PROVE  Shelf!Next \/ UNCHANGED Shelf!vars
  BY <1>2, SaveDocumentShelf
<1>3. ASSUME NEW w \in Workers, NEW u \in Users, NEW id \in 1..MaxId,
             NEW next \in {"find", "delete"}, CheckOwner(w, u, id, next)
      PROVE  UNCHANGED Shelf!vars
  <2>1. Results' = Results
    BY <1>3, SilentMove DEF CheckOwner, Idle, Silent, AllInv
  <2> QED
    BY <1>3, <2>1, StutterShelf DEF CheckOwner, Select, tables
<1>4. ASSUME NEW w \in Workers, Find(w)
      PROVE  UNCHANGED Shelf!vars
  <2>1. Results' = Results
    BY <1>4, SilentMove DEF Find, Silent, AllInv
  <2> QED
    BY <1>4, <2>1, StutterShelf DEF Find, Select, tables
<1>5. ASSUME NEW w \in Workers, Data(w)
      PROVE  Shelf!Next \/ UNCHANGED Shelf!vars
  BY <1>5, DataShelf
<1>6. ASSUME NEW w \in Workers, Delete(w)
      PROVE  Shelf!Next \/ UNCHANGED Shelf!vars
  BY <1>6, DeleteShelf
<1>7. ASSUME NEW w \in Workers, Answer(w)
      PROVE  Shelf!Next
  <2>1. /\ worker'[w] = Idle
        /\ \A v \in Workers : v # w => Result(v)' = Result(v)
    BY <1>7, ResultsMove DEF Answer, AllInv
  <2>2. Result(w)' = Nothing
    BY <2>1 DEF Result, Idle
  <2>3. Shelf!Finish({w})
    BY <1>7, <2>1, <2>2 DEF Answer, tables, Shelf!Finish
  <2> QED
    BY <2>3 DEF Shelf!Next
<1>8. ASSUME NEW w \in Workers, QueryFails(w)
      PROVE  UNCHANGED Shelf!vars
  <2>1. Results' = Results
    BY <1>8, SilentMove DEF QueryFails, Idle, Silent, AllInv
  <2> QED
    BY <1>8, <2>1, StutterShelf DEF QueryFails, tables
<1>9. ASSUME NEW u \in Users, RemoveAccount(u)
      PROVE  Shelf!Next
  <2>1. Results' = Results
    BY <1>9 DEF RemoveAccount, Results, Result
  <2>2. Shelf!RemoveUser(u)
    BY <1>9, <2>1 DEF RemoveAccount, Shelf!RemoveUser, Results
  <2> QED
    BY <2>2 DEF Shelf!Next
<1>10. CASE Restart
  <2>1. \A w \in Workers : Result(w)' = Nothing
    BY <1>10 DEF Restart, Result, Idle
  <2>2. Shelf!Finish(Workers)
    BY <1>10, <2>1 DEF Restart, tables, Shelf!Finish
  <2> QED
    BY <2>2 DEF Shelf!Next
<1>11. CASE UNCHANGED vars
  <2>1. Results' = Results
    BY <1>11 DEF vars, Results, Result
  <2> QED
    BY <1>11, <2>1, StutterShelf DEF vars
<1> QED
  BY <1>1, <1>2, <1>3, <1>4, <1>5, <1>6, <1>7, <1>8, <1>9, <1>10, <1>11 DEF Next

\* sign, download, verify and remove, statement by statement with failures and
\* restarts, behave as if each were one transaction on the shelf.
THEOREM DocumentsRefineShelf == Spec => ImplementsShelf
<1>1. AllInv /\ [Next]_vars => [Shelf!Next]_(Shelf!vars)
  BY StepShelf
<1> QED
  BY <1>1, InitShelf, AllHolds, PTL DEF Spec, ImplementsShelf, Shelf!Spec
=============================================================================
