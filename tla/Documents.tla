------------------------------ MODULE Documents ------------------------------
(***************************************************************************)
(* Signed documents: the handlers of DocumentController over the documents *)
(* table (DocumentRepository, scripts/init.sql).                           *)
(*                                                                         *)
(* download, verify and remove put three or two statements together        *)
(* without a transaction: they ask who owns the document, and then read or *)
(* delete it by id alone.  Other requests of the same or another user, and *)
(* the removal of an account (ON DELETE CASCADE), come in between.         *)
(*                                                                         *)
(* A file stands for the name, the bytes and the hash of an uploaded PDF,  *)
(* and for the signature made over it.  An upload that is not a PDF, a     *)
(* request without a live session (Sessions), and list, which is a single  *)
(* SELECT, change nothing and are left out.                                *)
(***************************************************************************)
EXTENDS PostgreSQLClient, Naturals

CONSTANTS Users,    \* user ids, the sub of a verified token
          Files,
          Workers,  \* Drogon's threads
          Nothing,  \* an empty result
          MaxId     \* bound of the models: the last id the sequence gives

Document == [id : Nat, owner : Users, file : Files]

ASSUME NothingAssumption == Nothing \notin Document
ASSUME MaxIdAssumption == MaxId \in Nat

VARIABLES accounts,  \* the users whose row exists
          docs,      \* the rows of the documents table
          nextId,    \* the documents_id_seq sequence
          worker,    \* what each thread is doing
          kept,      \* history: rows answered 201 and not deleted since
          deleted    \* history: ids answered "deleted"

vars == <<pgLink, accounts, docs, nextId, worker, kept, deleted>>

tables == <<accounts, docs, nextId>>

Idle == [pc |-> "idle"]

Saving   == [pc : {"save"}, user : Users, file : Files]
Checked  == [pc : {"find", "delete"}, user : Users, doc : Nat]
Found    == [pc : {"data"}, user : Users, doc : Nat, meta : Document \cup {Nothing}]
Serving  == [pc : {"serve"}, user : Users, meta : Document, data : Document]
Deleting == [pc : {"deleted"}, user : Users, doc : Nat]

TypeOK == /\ PgTypeOK
          /\ accounts \subseteq Users
          /\ docs \subseteq Document
          /\ nextId \in Nat
          /\ worker \in [Workers -> {Idle} \cup Saving \cup Checked \cup Found
                                      \cup Serving \cup Deleting]
          /\ kept \subseteq Document
          /\ deleted \subseteq Nat

Init == /\ PgInit
        /\ accounts = Users
        /\ docs = {}
        /\ nextId = 1
        /\ worker = [w \in Workers |-> Idle]
        /\ kept = {} /\ deleted = {}

Goto(w, state) == worker' = [worker EXCEPT ![w] = state]

\* The rows with an id: one or none.
Row(id) == {r \in docs : r.id = id}

\* A SELECT, which changes nothing; it throws when the connection fails.
Select == Committed /\ UNCHANGED tables

\* A query under way throws: 500.
QueryFails(w) == /\ worker[w].pc \in {"idle", "find", "data"}
                 /\ RolledBack
                 /\ Goto(w, Idle)
                 /\ UNCHANGED <<tables, kept, deleted>>

----------------------------------------------------------------------------
(* DocumentController::sign                                                *)

\* The upload was accepted and signed.
Sign(w, u, f) == /\ worker[w] = Idle
                 /\ Goto(w, [pc |-> "save", user |-> u, file |-> f])
                 /\ UNCHANGED <<pgLink, tables, kept, deleted>>

\* Mutated form: the smallest free id is used again.
InsertDocument_ReusesIds(u, f) ==
  /\ u \in accounts
  /\ nextId' = nextId + 1
  /\ docs' = docs \cup {[owner |-> u, file |-> f,
                         id |-> CHOOSE i \in 1..nextId : Row(i) = {}]}

\* INSERT ... RETURNING id: the foreign key wants the owner's row.
InsertDocument(u, f) ==
  /\ u \in accounts
  /\ nextId' = nextId + 1
  /\ docs' = docs \cup {[id |-> nextId, owner |-> u, file |-> f]}

\* Mutated form: save() answers an id although the statement was rolled back.
Save_IgnoresFailure(u, f, ok) ==
  /\ nextId <= MaxId
  /\ \/ Committed /\ ok /\ InsertDocument(u, f)
     \/ RolledBack /\ UNCHANGED docs /\ nextId' = nextId + 1

\* DocumentRepository::save(); ok when it returns an id, not -1.  A statement
\* rolled back may still have used up an id.
Save(u, f, ok) ==
  /\ nextId <= MaxId
  /\ \/ (IF ok THEN Committed ELSE InDoubt) /\ InsertDocument(u, f)
     \/ RolledBack /\ ~ok /\ UNCHANGED docs /\ nextId' \in {nextId, nextId + 1}

\* save(), and the answer: 201 with the id, or 500.
SaveDocument(w) ==
  /\ worker[w].pc = "save"
  /\ LET u == worker[w].user
         f == worker[w].file
     IN \E ok \in BOOLEAN :
          /\ Save(u, f, ok)
          /\ kept' = IF ok THEN kept \cup {[id |-> nextId, owner |-> u, file |-> f]} ELSE kept
  /\ Goto(w, Idle)
  /\ UNCHANGED <<accounts, deleted>>

----------------------------------------------------------------------------
(* DocumentController::download and verify, which read alike               *)

\* Mutated form: the owner is not asked for.
OwnedBy_AnyUser(id, u) == Row(id) # {}

\* DocumentRepository::ownedBy()
OwnedBy(id, u) == \E r \in Row(id) : r.owner = u

\* ownedBy(), before reading (next is "find") or deleting (next is "delete");
\* otherwise 404.
CheckOwner(w, u, id, next) ==
  /\ worker[w] = Idle
  /\ Select
  /\ OwnedBy(id, u)
  /\ Goto(w, [pc |-> next, user |-> u, doc |-> id])
  /\ UNCHANGED <<kept, deleted>>

\* findById(): the name, the hash and the signature.
Find(w) ==
  /\ worker[w].pc = "find"
  /\ Select
  /\ \E m \in (IF Row(worker[w].doc) = {} THEN {Nothing} ELSE Row(worker[w].doc)) :
       Goto(w, [pc |-> "data", user |-> worker[w].user, doc |-> worker[w].doc, meta |-> m])
  /\ UNCHANGED <<kept, deleted>>

\* getPdfData(): the bytes.  With both, the document is served (download), or
\* its signature checked against its bytes (verify); else 404.
Data(w) ==
  /\ worker[w].pc = "data"
  /\ Select
  /\ IF worker[w].meta = Nothing \/ Row(worker[w].doc) = {}
     THEN Goto(w, Idle)
     ELSE \E d \in Row(worker[w].doc) :
            Goto(w, [pc |-> "serve", user |-> worker[w].user,
                     meta |-> worker[w].meta, data |-> d])
  /\ UNCHANGED <<kept, deleted>>

\* Mutated form: the document stays with the thread.
Answer_KeepsDocument(w) ==
  /\ worker[w].pc \in {"serve", "deleted"}
  /\ worker' = [worker EXCEPT ![w].pc = "idle"]
  /\ UNCHANGED <<pgLink, tables, kept, deleted>>

Answer(w) ==
  /\ worker[w].pc \in {"serve", "deleted"}
  /\ Goto(w, Idle)
  /\ UNCHANGED <<pgLink, tables, kept, deleted>>

----------------------------------------------------------------------------
(* DocumentController::remove                                              *)

\* Mutated form: whether a row was deleted is not looked at.
DeleteById_IgnoresEmpty(id, ok) ==
  \/ (IF ok THEN Committed ELSE InDoubt) /\ docs' = docs \ Row(id)
  \/ RolledBack /\ ~ok /\ UNCHANGED docs

\* DocumentRepository::deleteById(): DELETE ... WHERE id = $1 RETURNING id.
DeleteById(id, ok) ==
  \/ /\ IF ok THEN Committed /\ Row(id) # {}
        ELSE InDoubt \/ (Committed /\ Row(id) = {})
     /\ docs' = docs \ Row(id)
  \/ RolledBack /\ ~ok /\ UNCHANGED docs

\* deleteById(), and the answer: 200 "deleted", or 500.
Delete(w) ==
  /\ worker[w].pc = "delete"
  /\ LET id == worker[w].doc
     IN \E ok \in BOOLEAN :
          /\ DeleteById(id, ok)
          /\ IF ok
             THEN Goto(w, [pc |-> "deleted", user |-> worker[w].user, doc |-> id])
             ELSE Goto(w, Idle)
          /\ deleted' = IF ok THEN deleted \cup {id} ELSE deleted
          /\ kept' = kept \ (docs \ docs')
  /\ UNCHANGED <<accounts, nextId>>

----------------------------------------------------------------------------
(* The operator, and the process                                           *)

\* An account is removed, and its documents with it (ON DELETE CASCADE).
RemoveAccount(u) ==
  /\ u \in accounts
  /\ accounts' = accounts \ {u}
  /\ docs' = {r \in docs : r.owner # u}
  /\ kept' = {r \in kept : r.owner # u}
  /\ UNCHANGED <<pgLink, nextId, worker, deleted>>

\* The API process dies and is started again.
Restart == /\ PgConnect
           /\ worker' = [w \in Workers |-> Idle]
           /\ UNCHANGED <<tables, kept, deleted>>

Next ==
  \/ \E w \in Workers :
       \/ \E u \in Users, f \in Files : Sign(w, u, f)
       \/ SaveDocument(w)
       \/ \E u \in Users, id \in 1..MaxId, next \in {"find", "delete"} :
            CheckOwner(w, u, id, next)
       \/ Find(w) \/ Data(w) \/ Delete(w) \/ Answer(w) \/ QueryFails(w)
  \/ \E u \in Users : RemoveAccount(u)
  \/ Restart

Spec == Init /\ [][Next]_vars

----------------------------------------------------------------------------
(* Properties                                                              *)

\* README.md:169, "Users can only access their own documents": what download
\* serves and verify checks is one document, whole, and the user's own, though
\* its owner, its name and its bytes come from three statements.
ServedOwnDocument ==
  \A w \in Workers : worker[w].pc = "serve" =>
    /\ worker[w].meta = worker[w].data
    /\ worker[w].meta.owner = worker[w].user

\* A document leaves the table only with its owner's account or by a request
\* its owner made for it, although DELETE names the id alone.
OnlyOwnerDeletes ==
  [][\A r \in docs \ docs' :
       \/ r.owner \notin accounts'
       \/ \E w \in Workers : /\ worker[w].pc = "delete"
                             /\ worker[w].user = r.owner /\ worker[w].doc = r.id]_vars

\* "deleted" is answered once for a document, however requests to delete it
\* overlap, and it is final (deleteById looks at RETURNING).
DeletedOnce ==
  [][\A w \in Workers : worker'[w].pc = "deleted" /\ worker[w].pc # "deleted" =>
       worker[w].doc \notin deleted]_vars

\* A document answered 201 is in the table until it is deleted.
AnsweredIsKept == kept \subseteq docs

\* What a thread is about to answer about a document.
Result(w) ==
  CASE worker[w].pc = "serve" -> [op |-> "serve", user |-> worker[w].user,
                                  meta |-> worker[w].meta, data |-> worker[w].data]
    [] worker[w].pc = "deleted" -> [op |-> "deleted", user |-> worker[w].user,
                                    doc |-> worker[w].doc]
    [] OTHER -> Nothing

Shelf == INSTANCE DocumentShelf WITH
  shelf <- docs, fresh <- nextId, result <- [w \in Workers |-> Result(w)]

\* The handlers, made of two or three statements without a transaction, behave
\* as if each were one: what is answered was true of the table at one instant
\* of the request (sign, download, verify, remove and account removal together).
ImplementsShelf == Shelf!Spec

----------------------------------------------------------------------------
(* What the properties rest on                                             *)

\* id is the primary key, user_id a foreign key.
KeysHold == /\ \A r, q \in docs : r.id = q.id => r = q
            /\ \A r \in docs : r.owner \in accounts

\* The sequence runs ahead of every id in use, and a deleted id stays free.
IdsAreSpent == /\ \A r \in docs : r.id < nextId /\ r.id \notin deleted
               /\ \A id \in deleted : id < nextId

\* A request past its owner check still means the same document, if it is
\* there at all; what findById() read is that document as it was.
ChecksHold ==
  \A w \in Workers :
    /\ worker[w].pc \in {"find", "delete", "data"} =>
         /\ worker[w].doc < nextId
         /\ \A r \in Row(worker[w].doc) : r.owner = worker[w].user
    /\ worker[w].pc = "data" /\ worker[w].meta # Nothing =>
         /\ worker[w].meta.id = worker[w].doc
         /\ worker[w].meta.owner = worker[w].user
         /\ \A r \in Row(worker[w].doc) : r = worker[w].meta

\* The documents table keeps its keys, and the check of the owner holds to the
\* end of the request, because rows do not change and ids do not come back.
DocumentsInv == KeysHold /\ IdsAreSpent /\ ChecksHold
=============================================================================
