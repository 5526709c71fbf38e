--------------------------- MODULE DashboardProof ---------------------------
(***************************************************************************)
(* Theorems about Dashboard, for any number of requests under way, files   *)
(* and documents.                                                          *)
(***************************************************************************)
EXTENDS Dashboard, TLAPS

Base == TypeOK /\ KnownInv

\* What a call carries, by what it is.
LEMMA CallType ==
  ASSUME NEW s \in Call
  PROVE  /\ s.op \in {"delete", "verify"} => s.arg \in Document
         /\ s.op = "sign" => s.arg \in [file : Files]
         /\ s.op = "list" => s.arg \in SUBSET Document
         /\ s.pc = "answered" => s.answer \in Answers
         /\ s.pc = "sent" => \A a \in Answers :
              [op |-> s.op, pc |-> "answered", arg |-> s.arg, answer |-> a] \in Call
BY DEF Call, Request, Free

LEMMA SentType ==
  /\ \A T \in SUBSET Document : Sent("list", T) \in Call
  /\ Sent("logout", None) \in Call
  /\ \A d \in Document : Sent("delete", d) \in Call /\ Sent("verify", d) \in Call
  /\ \A f \in Files : Sent("sign", [file |-> f]) \in Call
BY DEF Sent, Call, Request

\* The documents a call knows.
Of(s) == (IF s.op \in {"delete", "verify"} THEN {s.arg} ELSE {})
           \cup (IF s.pc = "answered" THEN s.answer.list ELSE {})

LEMMA KnownIs ==
  Known = docs \cup UNION {Of(call[c]) : c \in Calls}
BY DEF Known, Of

LEMMA KnownType == TypeOK => Known \subseteq Document
<1> SUFFICES ASSUME TypeOK, NEW c \in Calls PROVE Of(call[c]) \subseteq Document
  BY KnownIs DEF TypeOK
<1>1. call[c] \in Call
  BY DEF TypeOK
<1> QED
  BY <1>1, CallType DEF Of, Answers

\* A request that is given up, at the server or not: nobody learns from it.
LEMMA GivenUpType ==
  ASSUME NEW s \in Call
  PROVE  /\ GivenUp(s) \in Call /\ Of(GivenUp(s)) \subseteq Of(s)
         /\ GivenUp(s).pc # "answered" /\ GivenUp(s).op \notin {"verify", "list"}
<1>1. CASE s.pc = "sent" /\ s.op \in {"delete", "sign"}
  <2>1. GivenUp(s) = Adrift(s)
    BY <1>1 DEF GivenUp
  <2>2. Adrift(s) \in Call
    BY <1>1, CallType DEF Adrift, Call
  <2> QED
    BY <1>1, <2>1, <2>2 DEF Adrift, Of
<1>2. CASE s.pc = "adrift"
  <2>1. GivenUp(s) = s
    BY <1>2 DEF GivenUp
  <2>2. s.op \in {"delete", "sign"}
    BY <1>2 DEF Call, Request, Free
  <2> QED
    BY <1>2, <2>1, <2>2
<1>3. CASE ~(s.pc = "sent" /\ s.op \in {"delete", "sign"}) /\ s.pc # "adrift"
  <2>1. GivenUp(s) = Free
    BY <1>3 DEF GivenUp
  <2> QED
    BY <2>1 DEF Free, Call, Of
<1> QED
  BY <1>1, <1>2, <1>3

\* A call is put down, and perhaps a list taken over: what is known afterwards
\* was known before or is in the call.
LEMMA PutKnows ==
  ASSUME TypeOK, NEW c \in Calls, NEW s \in Call, Put(c, s), docs' \subseteq Known
  PROVE  /\ call' \in [Calls -> Call]
         /\ Known' \subseteq Known \cup Of(s)
<1>1. /\ call' \in [Calls -> Call] /\ call'[c] = s
      /\ \A e \in Calls : e # c => call'[e] = call[e]
  BY DEF Put, TypeOK
<1>2. Known' = docs' \cup UNION {Of(call'[e]) : e \in Calls}
  BY DEF Known, Of
<1>3. \A e \in Calls : Of(call'[e]) \subseteq Known \cup Of(s)
  BY <1>1, KnownIs
<1> QED
  BY <1>1, <1>2, <1>3

\* Rows leave the server, or come under the next id, and the page learns only
\* of rows that are there.
LEMMA KnowingKeeps ==
  ASSUME Base, TypeOK', Known' \subseteq Known \cup rows,
         \/ rows' \subseteq rows /\ nextId' = nextId
         \/ \E f \in Files : InsertDocument(f)
  PROVE  KnownInv'
<1>1. \A d \in Known \cup rows : /\ d \in Document /\ d.id < nextId
                                 /\ \A r \in rows : r.id = d.id => r = d
  BY KnownType DEF Base, TypeOK, KnownInv
<1>2. \A d \in Document : d.id \in Nat
  BY DEF Document
<1>3. CASE rows' \subseteq rows /\ nextId' = nextId
  BY <1>1, <1>3 DEF KnownInv
<1>4. CASE \E f \in Files : InsertDocument(f)
  <2>1. PICK f \in Files : InsertDocument(f)
    BY <1>4
  <2>2. PICK x : x = [id |-> nextId, file |-> f]
    OBVIOUS
  <2>3. /\ rows' = rows \cup {x} /\ x.id = nextId /\ nextId' = nextId + 1 /\ nextId \in Nat
    BY <2>1, <2>2 DEF InsertDocument, Base, TypeOK
  <2>4. \A d \in Known \cup rows : d.id # nextId /\ d.id < nextId'
    BY <1>1, <1>2, <2>3
  <2> QED
    BY <1>1, <2>3, <2>4 DEF KnownInv
<1> QED
  BY <1>3, <1>4

\* The page goes on without learning of a document.
LEMMA PageKeeps ==
  ASSUME Base, TypeOK', Known' \subseteq Known, UNCHANGED <<rows, nextId>>
  PROVE  Base'
BY KnowingKeeps DEF Base

LEMMA InvBegins == Init => Base
<1> SUFFICES ASSUME Init PROVE Base
  OBVIOUS
<1>1. TypeOK
  <2>1. nextId \in Nat /\ choices \in 0..MaxFiles /\ chosen \in 0..MaxFiles
    BY BoundsAssumption DEF Init
  <2>2. call \in [Calls -> Call]
    BY DEF Init, Call
  <2> QED
    BY <2>1, <2>2, Zenon DEF Init, TypeOK
<1>2. Known = {}
  BY KnownIs DEF Init, Of, Free
<1> QED
  BY <1>1, <1>2 DEF Init, Base, KnownInv

\* What a request asks of the server.
LEMMA ServeKeeps ==
  ASSUME Base, NEW c \in Calls, Serve(c)
  PROVE  Base'
<1>1. call[c] \in Call /\ call[c].pc = "sent" /\ UNCHANGED <<choices, page>>
  BY DEF Serve, Base, TypeOK
<1>2. PICK ok \in BOOLEAN, list \in {{}, rows} : Respond(c, ok, list)
  BY DEF Serve
<1>3. PICK a \in Answers : a = [ok |-> ok, list |-> list]
  BY <1>2 DEF Answers, Base, TypeOK
<1>4. PICK s \in Call : s = [op |-> call[c].op, pc |-> "answered", arg |-> call[c].arg, answer |-> a]
  BY <1>1, CallType
<1>5. Put(c, s)
  BY <1>2, <1>3, <1>4 DEF Respond
<1>6. Of(s) \subseteq Known \cup rows
  <2>1. Of(call[c]) \subseteq Known
    BY KnownIs
  <2>2. s.op = call[c].op /\ s.arg = call[c].arg /\ s.answer.list = list /\ s.pc = "answered"
    BY <1>3, <1>4
  <2> QED
    BY <1>2, <2>1, <2>2 DEF Of
<1>7. call' \in [Calls -> Call] /\ Known' \subseteq Known \cup rows
  <2>1. TypeOK /\ docs' \subseteq Known
    BY <1>1, KnownIs DEF page, Base
  <2> QED
    BY <1>5, <1>6, <2>1, PutKnows
<1>8. \/ rows' \subseteq rows /\ nextId' = nextId
      \/ \E f \in Files : InsertDocument(f)
  <2>1. call[c].op = "sign" => call[c].arg.file \in Files
    BY <1>1, CallType
  <2> QED
    BY <2>1 DEF Serve, DeleteById
<1>9. rows' \subseteq Document /\ nextId' \in Nat
  BY <1>8 DEF Base, TypeOK, InsertDocument, Document
<1>10. TypeOK'
  BY <1>1, <1>7, <1>9 DEF Base, TypeOK, page
<1> QED
  BY <1>7, <1>8, <1>10, KnowingKeeps DEF Base

\* What the server does with a request that was given up.
LEMMA AdriftChanges ==
  ASSUME Base, NEW c \in Calls, ServeAdrift(c)
  PROVE  \/ rows' \subseteq rows /\ nextId' = nextId
         \/ \E f \in Files : InsertDocument(f)
<1>1. call[c] \in Call
  BY DEF Base, TypeOK
<1>2. call[c].op = "sign" => call[c].arg.file \in Files
  BY <1>1, CallType
<1> QED
  BY <1>2 DEF ServeAdrift, DeleteById

LEMMA AdriftKeeps ==
  ASSUME Base, NEW c \in Calls, ServeAdrift(c)
  PROVE  Base'
<1>1. Put(c, Free) /\ UNCHANGED <<choices, page>>
  BY DEF ServeAdrift
<1>2. call' \in [Calls -> Call] /\ Known' \subseteq Known
  <2>1. Free \in Call /\ Of(Free) = {}
    BY DEF Call, Of, Free
  <2>2. TypeOK /\ docs' \subseteq Known
    BY <1>1, KnownIs DEF page, Base
  <2> QED
    BY <1>1, <2>1, <2>2, PutKnows
<1>3. rows' \subseteq Document /\ nextId' \in Nat
  BY AdriftChanges DEF Base, TypeOK, InsertDocument, Document
<1>4. TypeOK'
  BY <1>1, <1>2, <1>3 DEF Base, TypeOK, page
<1> QED
  BY <1>2, <1>4, AdriftChanges, KnowingKeeps DEF Base

\* A click, with an argument the page knows.
LEMMA ClickKeeps ==
  ASSUME Base, NEW c \in Calls, NEW op, NEW arg, Click(c, op, arg), Sent(op, arg) \in Call,
         op \in {"delete", "verify"} => arg \in docs,
         UNCHANGED docs
  PROVE  /\ call' \in [Calls -> Call] /\ UNCHANGED <<rows, nextId>>
         /\ Known' \subseteq Known
<1>1. docs \subseteq Known
  BY KnownIs
<1>2. Of(Sent(op, arg)) \subseteq docs
  BY DEF Of, Sent
<1> QED
  BY <1>1, <1>2, PutKnows DEF Click, Base

LEMMA LeaveKeeps ==
  ASSUME Base, Leave, UNCHANGED <<rows, nextId, choices>>
  PROVE  Base'
<1>1. TypeOK'
  <2>1. choices' \in 0..MaxFiles /\ chosen' \in 0..MaxFiles
    BY BoundsAssumption DEF Leave, Base, TypeOK
  <2>2. call' \in [Calls -> Call]
    BY GivenUpType DEF Leave, Base, TypeOK
  <2> QED
    BY <2>1, <2>2, Zenon DEF Leave, Base, TypeOK
<1>2. Known' \subseteq Known
  <2>1. \A c \in Calls : call'[c] = GivenUp(call[c]) /\ call[c] \in Call
    BY DEF Leave, Base, TypeOK
  <2>2. Known' = UNION {Of(call'[c]) : c \in Calls}
    BY DEF Leave, Known, Of
  <2> QED
    BY <2>1, <2>2, GivenUpType, KnownIs
<1> QED
  BY <1>1, <1>2, PageKeeps

\* An answer reaches its handler.
LEMMA ArriveKeeps ==
  ASSUME Base, NEW c \in Calls, Arrive(c)
  PROVE  Base'
<1>1. /\ call[c] \in Call /\ call[c].pc = "answered"
      /\ UNCHANGED <<rows, nextId, choices>>
  BY DEF Arrive, Base, TypeOK
<1>2. /\ call[c].answer \in Answers /\ call[c].answer.list \subseteq Known
      /\ Of(Free) = {} /\ docs \subseteq Known /\ Known \subseteq Document /\ Free \in Call
      /\ told \subseteq Document
      /\ \A T : Of(Sent("list", T)) = {}
  <2>1. call[c].answer \in Answers /\ call[c].answer.list \subseteq Of(call[c])
    BY <1>1, CallType DEF Of
  <2>2. Of(Free) = {} /\ Free \in Call /\ \A T : Of(Sent("list", T)) = {}
    BY DEF Of, Free, Sent, Call
  <2> QED
    BY <2>1, <2>2, KnownIs, KnownType DEF Base, TypeOK
<1>3. CASE ListArrives(c)
  <2>1. docs' \subseteq Known /\ Put(c, Free)
    BY <1>2, <1>3 DEF ListArrives
  <2>2. call' \in [Calls -> Call] /\ Known' \subseteq Known
    BY <1>2, <2>1, PutKnows DEF Base
  <2>3. TypeOK'
    BY <1>1, <1>2, <1>3, <2>1, <2>2 DEF ListArrives, Base, TypeOK
  <2> QED
    BY <1>1, <2>2, <2>3, PageKeeps
<1>4. CASE DeleteArrives(c)
  <2>1. call[c].arg \in Document
    BY <1>1, <1>4, CallType DEF DeleteArrives
  <2>2. /\ docs' \subseteq Known /\ told' \in SUBSET Document
        /\ Put(c, Free) \/ Put(c, Sent("list", told'))
    BY <1>2, <1>4, <2>1 DEF DeleteArrives
  <2>3. call' \in [Calls -> Call] /\ Known' \subseteq Known
    BY <1>2, <2>2, PutKnows, SentType DEF Base
  <2>4. TypeOK'
    BY <1>1, <1>4, <2>1, <2>3 DEF DeleteArrives, Base, TypeOK
  <2> QED
    BY <1>1, <2>3, <2>4, PageKeeps
<1>5. CASE VerifyArrives(c)
  <2>1. call[c].arg \in Document
    BY <1>1, <1>5, CallType DEF VerifyArrives
  <2>2. call' \in [Calls -> Call] /\ Known' \subseteq Known
    BY <1>2, <1>5, PutKnows DEF VerifyArrives, Base
  <2>3. TypeOK'
    BY <1>1, <1>5, <2>1, <2>2 DEF VerifyArrives, Base, TypeOK
  <2> QED
    BY <1>1, <2>2, <2>3, PageKeeps
<1>6. CASE SignArrives(c)
  <2>1. docs' \subseteq Known /\ (Put(c, Free) \/ Put(c, Sent("list", told)))
    BY <1>2, <1>6 DEF SignArrives
  <2>2. call' \in [Calls -> Call] /\ Known' \subseteq Known
    BY <1>2, <2>1, PutKnows, SentType DEF Base
  <2>3. TypeOK'
    <3>1. choices' \in 0..MaxFiles /\ chosen' \in 0..MaxFiles
      BY <1>1, <1>6, BoundsAssumption DEF SignArrives, Base, TypeOK
    <3> QED
      BY <1>1, <1>6, <2>2, <3>1, Zenon DEF SignArrives, Base, TypeOK
  <2> QED
    BY <1>1, <2>2, <2>3, PageKeeps
<1>7. CASE Leave
  BY <1>1, <1>7, LeaveKeeps
<1> QED
  BY <1>3, <1>4, <1>5, <1>6, <1>7 DEF Arrive

\* The handlers a user starts.
LEMMA UserKeeps ==
  ASSUME Base, NEW c \in Calls,
         \/ \E d \in docs : DeleteDoc(c, d) \/ OpenVerify(c, d)
         \/ SignDocument(c) \/ Logout(c)
  PROVE  Base'
<1>1. docs \subseteq Document /\ chosen \in 0..MaxFiles
  BY DEF Base, TypeOK
<1>2. ASSUME NEW d \in docs, DeleteDoc(c, d)
      PROVE  Base'
  <2>1. call' \in [Calls -> Call] /\ UNCHANGED <<rows, nextId>> /\ Known' \subseteq Known
    BY <1>1, <1>2, SentType, ClickKeeps DEF DeleteDoc, page
  <2>2. TypeOK'
    BY <1>2, <2>1 DEF DeleteDoc, page, Base, TypeOK
  <2> QED
    BY <2>1, <2>2, PageKeeps
<1>3. ASSUME NEW d \in docs, OpenVerify(c, d)
      PROVE  Base'
  <2>1. call' \in [Calls -> Call] /\ UNCHANGED <<rows, nextId>> /\ Known' \subseteq Known
    BY <1>1, <1>3, SentType, ClickKeeps DEF OpenVerify
  <2>2. TypeOK'
    BY <1>1, <1>3, <2>1 DEF OpenVerify, Base, TypeOK
  <2> QED
    BY <2>1, <2>2, PageKeeps
<1>4. CASE SignDocument(c)
  <2>1. chosen \in Files
    BY <1>1, <1>4, BoundsAssumption DEF SignDocument, Files
  <2>2. call' \in [Calls -> Call] /\ UNCHANGED <<rows, nextId>> /\ Known' \subseteq Known
    BY <1>4, <2>1, SentType, ClickKeeps DEF SignDocument
  <2>3. TypeOK'
    BY <1>4, <2>2 DEF SignDocument, Base, TypeOK
  <2> QED
    BY <2>2, <2>3, PageKeeps
<1>5. CASE Logout(c)
  <2>1. call' \in [Calls -> Call] /\ UNCHANGED <<rows, nextId>> /\ Known' \subseteq Known
    BY <1>5, SentType, ClickKeeps DEF Logout, page
  <2>2. TypeOK'
    BY <1>5, <2>1 DEF Logout, page, Base, TypeOK
  <2> QED
    BY <2>1, <2>2, PageKeeps
<1> QED
  BY <1>2, <1>3, <1>4, <1>5

LEMMA StepKeeps == Base /\ [Next]_vars => Base'
<1> SUFFICES ASSUME Base, [Next]_vars PROVE Base'
  OBVIOUS
<1>0. Free \in Call /\ Of(Free) = {} /\ Of(Sent("list", told)) = {} /\ docs \subseteq Known
      /\ (Base => told \in SUBSET Document)
  BY KnownIs DEF Call, Of, Free, Sent, Base, TypeOK
<1>1. ASSUME NEW c \in Calls, Serve(c) \/ ServeAdrift(c)
      PROVE  Base'
  BY <1>1, ServeKeeps, AdriftKeeps
<1>2. ASSUME NEW c \in Calls, Arrive(c)
      PROVE  Base'
  BY <1>2, ArriveKeeps
<1>3. ASSUME NEW c \in Calls, Reject(c)
      PROVE  Base'
  <2>1. CASE Leave
    BY <1>3, <2>1, LeaveKeeps DEF Reject
  <2>2. CASE Put(c, GivenUp(call[c])) /\ UNCHANGED page
    <3>1. docs' = docs /\ UNCHANGED <<rows, nextId, choices>>
      BY <1>3, <2>2 DEF Reject, page
    <3>2. GivenUp(call[c]) \in Call /\ Of(GivenUp(call[c])) \subseteq Known
      BY GivenUpType, KnownIs DEF Base, TypeOK
    <3>3. call' \in [Calls -> Call] /\ Known' \subseteq Known
      BY <1>0, <2>2, <3>2, <3>1, PutKnows DEF Base
    <3>4. TypeOK'
      BY <2>2, <3>1, <3>3 DEF Base, TypeOK, page
    <3> QED
      BY <3>1, <3>3, <3>4, PageKeeps
  <2> QED
    BY <1>3, <2>1, <2>2 DEF Reject
<1>4. ASSUME NEW c \in Calls,
             \/ \E d \in docs : DeleteDoc(c, d) \/ OpenVerify(c, d)
             \/ SignDocument(c) \/ Logout(c)
      PROVE  Base'
  BY <1>4, UserKeeps
<1>5. ASSUME NEW c \in Calls, Load(c)
      PROVE  Base'
  <2>1. call' \in [Calls -> Call] /\ Known' \subseteq Known
    BY <1>0, <1>5, PutKnows, SentType DEF Load, Base
  <2>2. TypeOK'
    BY <1>5, <2>1 DEF Load, Base, TypeOK
  <2> QED
    BY <1>5, <2>1, <2>2, PageKeeps DEF Load
<1>6. CASE CloseVerify \/ SetFile \/ UNCHANGED vars
  <2>1. UNCHANGED <<rows, nextId, call, docs>>
    BY <1>6 DEF CloseVerify, SetFile, vars, page
  <2>2. Known' = Known
    BY <2>1 DEF Known
  <2>3. TypeOK'
    <3>1. choices' \in 0..MaxFiles /\ chosen' \in 0..MaxFiles
      BY <1>6, BoundsAssumption DEF CloseVerify, SetFile, vars, page, Base, TypeOK
    <3>2. CASE CloseVerify
      BY <2>1, <3>1, <3>2, Zenon DEF CloseVerify, Base, TypeOK
    <3>3. CASE SetFile
      BY <2>1, <3>1, <3>3, Zenon DEF SetFile, Base, TypeOK
    <3>4. CASE UNCHANGED vars
      BY <3>4 DEF vars, page, Base, TypeOK
    <3> QED
      BY <1>6, <3>2, <3>3, <3>4
  <2> QED
    BY <2>1, <2>2, <2>3, PageKeeps
<1> QED
  BY <1>1, <1>2, <1>3, <1>4, <1>5, <1>6 DEF Next

----------------------------------------------------------------------------
(* Deleted documents, and verdicts                                         *)

Inv == Base /\ DeletedInv /\ VerdictInv

\* What a step may do at the server.
RowsChange == \/ rows' \subseteq rows /\ nextId' = nextId
              \/ \E f \in Files : InsertDocument(f)

\* A document that is gone from the server does not come back to it.
LEMMA GoneStaysGone ==
  ASSUME Base, RowsChange, NEW d \in Document, d.id < nextId, d \notin rows
  PROVE  d \notin rows' /\ d.id < nextId'
<1>1. d.id \in Nat /\ nextId \in Nat
  BY DEF Document, Base, TypeOK
<1>2. CASE rows' \subseteq rows /\ nextId' = nextId
  BY <1>2
<1>3. ASSUME NEW f \in Files, InsertDocument(f) PROVE d \notin rows' /\ d.id < nextId'
  <2>1. d # [id |-> nextId, file |-> f]
    BY <1>1
  <2> QED
    BY <1>1, <1>3, <2>1 DEF InsertDocument
<1> QED
  BY <1>2, <1>3 DEF RowsChange

\* One call is put down, and the page may say of one document that it was
\* deleted.
LEMMA DeletedKeeps ==
  ASSUME Inv, RowsChange, NEW c \in Calls, NEW s \in Call, Put(c, s),
         CallKeepsOff(s, rows', told'),
         told' = told \/ \E d \in Known \ rows : told' = told \cup {d}
  PROVE  DeletedInv'
<1>1. /\ call'[c] = s /\ \A e \in Calls : e # c => call'[e] = call[e]
  BY DEF Put, Inv, Base, TypeOK
<1>2. /\ told \subseteq told'
      /\ \A d \in told' : d \in Document /\ d.id < nextId /\ d \notin rows
  BY KnownType DEF Inv, Base, KnownInv, DeletedInv, TypeOK
<1>3. told' \cap rows' = {} /\ \A d \in told' : d.id < nextId'
  BY <1>2, GoneStaysGone DEF Inv
<1>4. ASSUME NEW e \in Calls, e # c PROVE CallKeepsOff(call'[e], rows', told')
  <2>1. CallKeepsOff(call[e], rows, told) /\ call[e] \in Call /\ call'[e] = call[e]
    BY <1>1, <1>4 DEF Inv, DeletedInv, Base, TypeOK
  <2>2. call[e].op = "delete" => call[e].arg \in Known /\ call[e].arg \in Document
    BY <2>1, CallType DEF Known
  <2>3. call[e].op = "delete" /\ call[e].arg \notin rows => call[e].arg \notin rows'
    BY <2>2, GoneStaysGone DEF Inv, Base, KnownInv
  <2> QED
    BY <1>2, <2>1, <2>3 DEF CallKeepsOff
<1>5. \A e \in Calls : CallKeepsOff(call'[e], rows', told')
  BY <1>1, <1>4
<1> QED
  BY <1>3, <1>5 DEF DeletedInv

\* One call is put down, and the dialog shows the verdict of one that was made.
LEMMA VerdictKeeps ==
  ASSUME Inv, NEW c \in Calls, NEW s \in Call, Put(c, s), s.op # "verify" \/ s.arg = call[c].arg,
         s.op = "verify" => call[c].op = "verify",
         UNCHANGED <<title, crossed>>,
         \/ verdict' \in {verdict, Failed}
         \/ call[c].op = "verify" /\ verdict' = call[c].arg
  PROVE  VerdictInv'
<1>1. call'[c] = s /\ \A e \in Calls : e # c => call'[e] = call[e]
  BY DEF Put, Inv, Base, TypeOK
<1> QED
  BY <1>1 DEF Inv, VerdictInv

LEMMA FreeKeepsOff ==
  /\ \A R, T : CallKeepsOff(Free, R, T) /\ CallKeepsOff(Sent("list", T), R, T)
  /\ \A R, T, op, arg : op # "list" => CallKeepsOff(Sent(op, arg), R, T)
BY DEF CallKeepsOff, Free, Sent

LEMMA InvStarts == Init => Inv
<1> SUFFICES ASSUME Init PROVE Inv
  OBVIOUS
<1>1. Base
  BY InvBegins
<1>2. DeletedInv
  BY FreeKeepsOff DEF Init, DeletedInv
<1>3. VerdictInv
  BY DEF Init, VerdictInv, Free
<1> QED
  BY <1>1, <1>2, <1>3 DEF Inv

LEMMA LeaveKeepsOff ==
  ASSUME Inv, Leave, UNCHANGED <<rows, nextId, choices>>
  PROVE  (DeletedInv /\ VerdictInv)'
<1>1. \A c \in Calls : /\ call'[c].pc # "answered"
                       /\ call'[c].op \notin {"verify", "list"}
  <2>1. \A c \in Calls : call'[c] = GivenUp(call[c]) /\ call[c] \in Call
    BY DEF Leave, Inv, Base, TypeOK
  <2> QED
    BY <2>1, GivenUpType
<1>2. DeletedInv'
  BY <1>1 DEF Leave, Inv, DeletedInv, CallKeepsOff
<1>3. VerdictInv'
  BY <1>1 DEF Leave, VerdictInv
<1> QED
  BY <1>2, <1>3

\* What the server answers with: a list without what is gone, "deleted" for a
\* row that it has deleted.
LEMMA ServeKeepsOff ==
  ASSUME Inv, NEW c \in Calls, Serve(c)
  PROVE  (DeletedInv /\ VerdictInv)'
<1>1. /\ call[c] \in Call /\ call[c].pc = "sent" /\ UNCHANGED page
      /\ CallKeepsOff(call[c], rows, told)
  BY DEF Serve, Inv, Base, TypeOK, DeletedInv
<1>2. PICK ok \in BOOLEAN, list \in {{}, rows} :
        /\ Respond(c, ok, list)
        /\ list = rows => rows = {} \/ rows' = rows
        /\ call[c].op = "delete" /\ ok => DeleteById(call[c].arg.id)
  BY DEF Serve
<1>3. PICK a \in Answers : a = [ok |-> ok, list |-> list]
  BY <1>2 DEF Answers, Inv, Base, TypeOK
<1>4. PICK s \in Call : s = [op |-> call[c].op, pc |-> "answered", arg |-> call[c].arg, answer |-> a]
  BY <1>1, CallType
<1>5. Put(c, s)
  BY <1>2, <1>3, <1>4 DEF Respond
<1>6. RowsChange
  <2>1. call[c].op = "sign" => call[c].arg.file \in Files
    BY <1>1, CallType
  <2> QED
    BY <2>1 DEF Serve, DeleteById, RowsChange
<1>7. CallKeepsOff(s, rows', told')
  <2>1. s.op = call[c].op /\ s.arg = call[c].arg /\ s.answer.ok = ok /\ s.answer.list = list
    BY <1>3, <1>4
  <2>2. told' = told /\ told \cap rows = {}
    BY <1>1 DEF page, Inv, DeletedInv
  <2>3. s.op = "list" => s.arg \subseteq told'
    BY <1>1, <2>1, <2>2 DEF CallKeepsOff
  <2>4. s.op = "list" => s.answer.list \cap s.arg = {}
    BY <1>2, <2>1, <2>2, <2>3
  <2>5. s.op = "delete" /\ ok => s.arg \notin rows'
    <3>1. SUFFICES ASSUME s.op = "delete", ok PROVE s.arg \notin rows'
      OBVIOUS
    <3>2. PICK r \in rows : r.id = s.arg.id /\ rows' = rows \ {r}
      BY <1>2, <2>1, <3>1 DEF DeleteById
    <3>3. s.arg \in Known
      BY <2>1, <3>1 DEF Known
    <3> QED
      BY <3>2, <3>3 DEF Inv, Base, KnownInv
  <2> QED
    BY <2>1, <2>3, <2>4, <2>5 DEF CallKeepsOff
<1>8. DeletedInv'
  BY <1>1, <1>5, <1>6, <1>7, DeletedKeeps DEF page
<1>9. VerdictInv'
  BY <1>1, <1>4, <1>5, VerdictKeeps DEF page
<1> QED
  BY <1>8, <1>9

\* A request that was given up is executed, or not, and nobody is told.
LEMMA AdriftKeepsOff ==
  ASSUME Inv, NEW c \in Calls, ServeAdrift(c)
  PROVE  (DeletedInv /\ VerdictInv)'
<1>1. /\ Put(c, Free) /\ UNCHANGED <<told, title, verdict, crossed>>
      /\ Free \in Call /\ Free.op # "verify"
  BY DEF ServeAdrift, page, Free, Call
<1>2. RowsChange
  BY AdriftChanges DEF RowsChange, Inv
<1> QED
  BY <1>1, <1>2, FreeKeepsOff, DeletedKeeps, VerdictKeeps

\* What the handlers take from an answer.
LEMMA ArriveKeepsOff ==
  ASSUME Inv, NEW c \in Calls, Arrive(c)
  PROVE  (DeletedInv /\ VerdictInv)'
<1>1. /\ call[c] \in Call /\ call[c].pc = "answered" /\ UNCHANGED <<rows, nextId, choices>>
      /\ RowsChange /\ told \in SUBSET Document
      /\ CallKeepsOff(call[c], rows, told)
  BY DEF Arrive, Inv, Base, TypeOK, DeletedInv, RowsChange
<1>2. Free \in Call /\ Free.op # "verify" /\ \A T : Sent("list", T).op # "verify"
  BY DEF Free, Call, Sent
<1>3. CASE ListArrives(c)
  <2>1. Put(c, Free) /\ UNCHANGED <<told, title, verdict, crossed>>
    BY <1>3 DEF ListArrives
  <2> QED
    BY <1>1, <1>2, <2>1, FreeKeepsOff, DeletedKeeps, VerdictKeeps
<1>4. CASE DeleteArrives(c)
  <2>1. UNCHANGED <<title, verdict, crossed>> /\ call[c].arg \in Known /\ call[c].arg \in Document
    BY <1>1, <1>4, CallType DEF DeleteArrives, Known
  <2>2. \/ Put(c, Free) /\ told' = told
        \/ /\ Put(c, Sent("list", told')) /\ told' = told \cup {call[c].arg}
           /\ call[c].arg \notin rows
    BY <1>1, <1>4 DEF DeleteArrives, CallKeepsOff
  <2>3. told' \in SUBSET Document
    BY <1>1, <2>1, <2>2
  <2>4. Sent("list", told') \in Call
    BY <2>3, SentType
  <2>5. DeletedInv'
    BY <1>1, <1>2, <2>1, <2>2, <2>4, FreeKeepsOff, DeletedKeeps
  <2>6. VerdictInv'
    BY <1>2, <2>1, <2>2, <2>4, VerdictKeeps
  <2> QED
    BY <2>5, <2>6
<1>5. CASE VerifyArrives(c)
  <2>1. /\ Put(c, Free) /\ UNCHANGED <<told, title, crossed>>
        /\ call[c].op = "verify" /\ verdict' \in {call[c].arg, Failed}
    BY <1>5 DEF VerifyArrives
  <2> QED
    BY <1>1, <1>2, <2>1, FreeKeepsOff, DeletedKeeps, VerdictKeeps
<1>6. CASE SignArrives(c)
  <2>1. UNCHANGED <<told, title, verdict, crossed>> /\ Sent("list", told) \in Call
    BY <1>1, <1>6, SentType DEF SignArrives
  <2>2. Put(c, Free) \/ Put(c, Sent("list", told))
    BY <1>6 DEF SignArrives
  <2>3. DeletedInv'
    BY <1>1, <1>2, <2>1, <2>2, FreeKeepsOff, DeletedKeeps
  <2>4. VerdictInv'
    BY <1>2, <2>1, <2>2, VerdictKeeps
  <2> QED
    BY <2>3, <2>4
<1>7. CASE Leave
  BY <1>1, <1>7, LeaveKeepsOff
<1> QED
  BY <1>3, <1>4, <1>5, <1>6, <1>7 DEF Arrive

\* What the user starts: a verification is of the document named, and whether
\* others are under way is looked at.
LEMMA UserKeepsOff ==
  ASSUME Inv, NEW c \in Calls,
         \/ \E d \in docs : DeleteDoc(c, d) \/ OpenVerify(c, d)
         \/ SignDocument(c) \/ Logout(c) \/ Load(c)
  PROVE  (DeletedInv /\ VerdictInv)'
<1>1. /\ docs \subseteq Document /\ chosen \in 0..MaxFiles /\ told \in SUBSET Document
      /\ rows' = rows /\ nextId' = nextId /\ told' = told /\ RowsChange
  BY DEF Inv, Base, TypeOK, RowsChange, DeleteDoc, OpenVerify, SignDocument, Logout, Click, Load, page
<1>2. \A op, arg : Sent(op, arg).op = op /\ Sent(op, arg).arg = arg
  BY DEF Sent
<1>3. ASSUME NEW d \in docs, DeleteDoc(c, d) PROVE (DeletedInv /\ VerdictInv)'
  <2>1. Sent("delete", d) \in Call /\ Put(c, Sent("delete", d))
        /\ UNCHANGED <<title, verdict, crossed>>
    BY <1>1, <1>3, SentType DEF DeleteDoc, Click, page
  <2> QED
    BY <1>1, <1>2, <2>1, FreeKeepsOff, DeletedKeeps, VerdictKeeps
<1>4. ASSUME NEW d \in docs, OpenVerify(c, d) PROVE (DeletedInv /\ VerdictInv)'
  <2>1. Sent("verify", d) \in Call /\ Put(c, Sent("verify", d))
    BY <1>1, <1>4, SentType DEF OpenVerify, Click
  <2>2. DeletedInv'
    BY <1>1, <1>2, <2>1, FreeKeepsOff, DeletedKeeps
  <2>3. /\ call'[c] = Sent("verify", d) /\ \A e \in Calls : e # c => call'[e] = call[e]
        /\ title' = d /\ verdict' = None /\ crossed' = \E e \in Calls : call[e].op = "verify"
    BY <2>1, <1>4 DEF Put, OpenVerify, Inv, Base, TypeOK
  <2>4. VerdictInv'
    BY <1>2, <2>3 DEF VerdictInv
  <2> QED
    BY <2>2, <2>4
<1>5. CASE SignDocument(c) \/ Logout(c)
  <2>1. SignDocument(c) => chosen \in Files
    BY <1>1, BoundsAssumption DEF SignDocument, Files
  <2>2. UNCHANGED <<title, verdict, crossed>>
    BY <1>5 DEF SignDocument, Logout, page
  <2>3. PICK s \in Call : /\ Put(c, s)
                          /\ s = Sent("sign", [file |-> chosen]) \/ s = Sent("logout", None)
    BY <1>5, <2>1, SentType DEF SignDocument, Logout, Click
  <2> QED
    BY <1>1, <1>2, <2>2, <2>3, FreeKeepsOff, DeletedKeeps, VerdictKeeps
<1>6. CASE Load(c)
  <2>1. Sent("list", told) \in Call /\ Put(c, Sent("list", told))
        /\ UNCHANGED <<title, verdict, crossed>>
    BY <1>1, <1>6, SentType DEF Load
  <2> QED
    BY <1>1, <1>2, <2>1, FreeKeepsOff, DeletedKeeps, VerdictKeeps
<1> QED
  BY <1>3, <1>4, <1>5, <1>6

LEMMA StepKeepsInv == Inv /\ [Next]_vars => Inv'
<1> SUFFICES ASSUME Inv, [Next]_vars PROVE (DeletedInv /\ VerdictInv)'
  BY StepKeeps DEF Inv
<1>1. ASSUME NEW c \in Calls, Serve(c) \/ ServeAdrift(c) \/ Arrive(c)
      PROVE  (DeletedInv /\ VerdictInv)'
  BY <1>1, ServeKeepsOff, AdriftKeepsOff, ArriveKeepsOff
<1>2. ASSUME NEW c \in Calls, Reject(c) PROVE (DeletedInv /\ VerdictInv)'
  <2>1. CASE Leave
    BY <1>2, <2>1, LeaveKeepsOff DEF Reject
  <2>2. CASE Put(c, GivenUp(call[c])) /\ UNCHANGED page
    <3>1. UNCHANGED <<told, title, verdict, crossed, rows, nextId>> /\ RowsChange
      BY <1>2, <2>2 DEF Reject, page, RowsChange
    <3>2. /\ GivenUp(call[c]) \in Call /\ GivenUp(call[c]).op # "verify"
          /\ CallKeepsOff(GivenUp(call[c]), rows', told')
      BY GivenUpType DEF Inv, Base, TypeOK, CallKeepsOff
    <3> QED
      BY <2>2, <3>1, <3>2, DeletedKeeps, VerdictKeeps
  <2> QED
    BY <1>2, <2>1, <2>2 DEF Reject
<1>3. ASSUME NEW c \in Calls,
             \/ \E d \in docs : DeleteDoc(c, d) \/ OpenVerify(c, d)
             \/ SignDocument(c) \/ Logout(c) \/ Load(c)
      PROVE  (DeletedInv /\ VerdictInv)'
  BY <1>3, UserKeepsOff
<1>4. CASE CloseVerify \/ SetFile \/ UNCHANGED vars
  BY <1>4 DEF CloseVerify, SetFile, vars, page, Inv, DeletedInv, VerdictInv
<1> QED
  BY <1>1, <1>2, <1>3, <1>4 DEF Next

\* The fairness of the browser and the network adds nothing to safety.
LEMMA InvHolds == Spec => []Inv
BY InvStarts, StepKeepsInv, PTL DEF Spec, BrowserSpec

----------------------------------------------------------------------------
(* The shelf                                                               *)

\* The requests that are about to be answered something, and what.
Results == [c \in Calls |-> Outcome(call[c])]
Shown == {Kept(r) : r \in rows}

LEMMA OutcomeIs ==
  /\ Outcome(Free) = None /\ \A op, arg : Outcome(Sent(op, arg)) = None
  /\ \A s : s.pc # "answered" => Outcome(s) = None
BY DEF Outcome, Free, Sent

\* Calls of which some are put down unanswered, and nothing happens at the
\* server: those are finished.
LEMMA Unanswered ==
  ASSUME TypeOK, UNCHANGED <<rows, nextId>>, NEW W \in SUBSET Calls,
         call' \in [Calls -> Call],
         \A c \in Calls : IF c \in W THEN Outcome(call'[c]) = None ELSE call'[c] = call[c]
  PROVE  [Shelf!Next]_(Shelf!vars)
<1>1. Shelf!Finish(W)
  BY DEF Shelf!Finish
<1> QED
  BY <1>1 DEF Shelf!Next

\* An answer from the server is one the shelf gives.
LEMMA ServeOnShelf ==
  ASSUME Inv, NEW c \in Calls, Serve(c)
  PROVE  [Shelf!Next]_(Shelf!vars)
<1>1. call[c] \in Call /\ call[c].pc = "sent" /\ call \in [Calls -> Call]
      /\ Results[c] = None
  BY OutcomeIs DEF Serve, Inv, Base, TypeOK, Results
<1>2. PICK ok, list : ok \in BOOLEAN /\ Respond(c, ok, list) /\ (ok = FALSE => list = {})
  BY DEF Serve
<1>3. PICK s : s = [op |-> call[c].op, pc |-> "answered", arg |-> call[c].arg,
                    answer |-> [ok |-> ok, list |-> list]]
  OBVIOUS
<1>4. Results' = [Results EXCEPT ![c] = Outcome(s)]
  <2>1. call'[c] = s /\ \A e \in Calls : e # c => call'[e] = call[e]
    BY <1>1, <1>2, <1>3 DEF Respond, Put
  <2> QED
    BY <2>1 DEF Results
<1>5. CASE ok /\ s.op = "delete" /\ DeleteById(s.arg.id) /\ nextId' = nextId
  <2>1. PICK r \in rows : r.id = s.arg.id /\ rows' = rows \ {r}
    BY <1>5 DEF DeleteById
  <2>2. Outcome(s) = [op |-> "deleted", user |-> "user", doc |-> r.id]
    BY <1>3, <1>5, <2>1 DEF Outcome
  <2>3. Kept(r) \in Shown /\ Kept(r).owner = "user" /\ Kept(r).id = r.id
    BY DEF Kept, Shown
  <2>4. Shown' = Shown \ {Kept(r)}
    <3>1. \A q \in rows : q # r => Kept(q) # Kept(r)
      BY DEF Kept, Inv, Base, KnownInv
    <3> QED
      BY <2>1, <3>1 DEF Shown
  <2>5. Shelf!Delete(c)
    BY <1>4, <1>5, <2>2, <2>3, <2>4 DEF Shelf!Delete, Shown, Results
  <2> QED
    BY <2>5 DEF Shelf!Next
<1>6. CASE ok /\ s.op = "verify" /\ (\E r \in rows : r.id = s.arg.id) /\ UNCHANGED <<rows, nextId>>
  <2>1. s.arg \in rows
    <3>1. s.arg \in Known
      BY <1>3, <1>6 DEF Known
    <3> QED
      BY <1>6, <3>1 DEF Inv, Base, KnownInv
  <2>2. PICK d \in Shown : d = Kept(s.arg)
    BY <2>1 DEF Shown
  <2>3. d.owner = "user"
    BY <2>2 DEF Kept
  <2>4. Outcome(s) = [op |-> "serve", user |-> d.owner, meta |-> d, data |-> d]
    BY <1>3, <1>6, <2>2, <2>3 DEF Outcome
  <2>5. Shelf!Serve(c)
    BY <1>4, <1>6, <2>4 DEF Shelf!Serve, Shown, Results
  <2> QED
    BY <2>5 DEF Shelf!Next
<1>7. CASE Outcome(s) = None
  <2>1. Results' = Results
    BY <1>1, <1>4, <1>7 DEF Results
  <2>2. CASE UNCHANGED <<rows, nextId>>
    BY <2>1, <2>2 DEF Shelf!vars, Results
  <2>3. CASE call[c].op = "sign" /\ InsertDocument(call[c].arg.file)
    <3>1. PICK f \in Files : f = call[c].arg.file
      BY <1>1, <2>3, CallType
    <3>2. PICK x : x = [id |-> nextId, file |-> f]
      OBVIOUS
    <3>3. rows' = rows \cup {x} /\ nextId' = nextId + 1
      BY <2>3, <3>1, <3>2 DEF InsertDocument
    <3>4. Kept(x) = [id |-> nextId, owner |-> "user", file |-> f]
      BY <3>2 DEF Kept
    <3>5. Shown' = Shown \cup {Kept(x)}
      BY <3>3 DEF Shown
    <3>6. Shelf!Put
      BY <2>1, <3>3, <3>4, <3>5 DEF Shelf!Put, Shown, Results
    <3> QED
      BY <3>6 DEF Shelf!Next
  <2>4. CASE call[c].op = "delete" /\ DeleteById(call[c].arg.id) /\ nextId' = nextId
    <3>1. PICK r \in rows : rows' = rows \ {r}
      BY <2>4 DEF DeleteById
    <3>2. \A q \in rows : q # r => Kept(q) # Kept(r)
      BY DEF Kept, Inv, Base, KnownInv
    <3>3. Kept(r) \in Shown /\ Shown' = Shown \ {Kept(r)}
      BY <3>1, <3>2 DEF Shown
    <3>4. Shelf!Withdraw
      BY <2>1, <2>4, <3>3 DEF Shelf!Withdraw, Shown, Results
    <3> QED
      BY <3>4 DEF Shelf!Next
  <2> QED
    BY <2>2, <2>3, <2>4 DEF Serve
<1>8. \/ ok /\ s.op = "delete" /\ DeleteById(s.arg.id) /\ nextId' = nextId
      \/ ok /\ s.op = "verify" /\ (\E r \in rows : r.id = s.arg.id) /\ UNCHANGED <<rows, nextId>>
      \/ Outcome(s) = None
  <2>1. s.op = call[c].op /\ s.arg = call[c].arg /\ s.answer.ok = ok /\ s.pc = "answered"
    BY <1>3
  <2>2. CASE ok /\ s.op \in {"delete", "verify"}
    <3>1. ASSUME NEW o, NEW l, Respond(c, o, l) PROVE call'[c].answer.ok = o
      <4>1. call'[c] = [op |-> call[c].op, pc |-> "answered", arg |-> call[c].arg,
                        answer |-> [ok |-> o, list |-> l]]
        BY <1>1, <3>1 DEF Respond, Put
      <4> QED
        BY <4>1
    <3>2. \A l : ~Respond(c, FALSE, l)
      BY <1>2, <2>2, <3>1
    <3> QED
      BY <2>1, <2>2, <3>2 DEF Serve
  <2>3. CASE ~(ok /\ s.op \in {"delete", "verify"})
    BY <2>1, <2>3 DEF Outcome
  <2> QED
    BY <2>2, <2>3
<1> QED
  BY <1>5, <1>6, <1>7, <1>8

\* A late execution puts a document onto the shelf, withdraws one, or nothing.
LEMMA AdriftOnShelf ==
  ASSUME Inv, NEW c \in Calls, ServeAdrift(c)
  PROVE  [Shelf!Next]_(Shelf!vars)
<1>1. call[c] \in Call /\ call[c].pc = "adrift" /\ call \in [Calls -> Call] /\ Put(c, Free)
  BY DEF ServeAdrift, Inv, Base, TypeOK
<1>2. Results' = Results
  <2>1. call'[c] = Free /\ \A e \in Calls : e # c => call'[e] = call[e]
    BY <1>1 DEF Put
  <2> QED
    BY <1>1, <2>1, OutcomeIs DEF Results
<1>3. CASE UNCHANGED <<rows, nextId>>
  BY <1>2, <1>3 DEF Shelf!vars, Results
<1>4. CASE call[c].op = "sign" /\ InsertDocument(call[c].arg.file)
  <2>1. PICK f \in Files : f = call[c].arg.file
    BY <1>1, <1>4, CallType
  <2>2. PICK x : x = [id |-> nextId, file |-> f]
    OBVIOUS
  <2>3. rows' = rows \cup {x} /\ nextId' = nextId + 1
    BY <1>4, <2>1, <2>2 DEF InsertDocument
  <2>4. Kept(x) = [id |-> nextId, owner |-> "user", file |-> f]
    BY <2>2 DEF Kept
  <2>5. Shown' = Shown \cup {Kept(x)}
    BY <2>3 DEF Shown
  <2>6. Shelf!Put
    BY <1>2, <2>3, <2>4, <2>5 DEF Shelf!Put, Shown, Results
  <2> QED
    BY <2>6 DEF Shelf!Next
<1>5. CASE call[c].op = "delete" /\ DeleteById(call[c].arg.id) /\ nextId' = nextId
  <2>1. PICK r \in rows : rows' = rows \ {r}
    BY <1>5 DEF DeleteById
  <2>2. \A q \in rows : q # r => Kept(q) # Kept(r)
    BY DEF Kept, Inv, Base, KnownInv
  <2>3. Kept(r) \in Shown /\ Shown' = Shown \ {Kept(r)}
    BY <2>1, <2>2 DEF Shown
  <2>4. Shelf!Withdraw
    BY <1>2, <1>5, <2>3 DEF Shelf!Withdraw, Shown, Results
  <2> QED
    BY <2>4 DEF Shelf!Next
<1> QED
  BY <1>3, <1>4, <1>5 DEF ServeAdrift

\* Everything else happens at the page.
LEMMA PageOnShelf ==
  ASSUME Inv, Inv', [Next]_vars, \A c \in Calls : ~Serve(c) /\ ~ServeAdrift(c)
  PROVE  [Shelf!Next]_(Shelf!vars)
<1>1. UNCHANGED <<rows, nextId>> /\ TypeOK /\ call' \in [Calls -> Call]
  BY DEF Next, vars, Inv, Base, TypeOK, Arrive, Reject, DeleteDoc, OpenVerify, SignDocument,
         Logout, Click, Load, CloseVerify, SetFile
<1>2. ASSUME NEW c \in Calls, NEW s, Put(c, s), Outcome(s) = None
      PROVE  [Shelf!Next]_(Shelf!vars)
  <2>1. call'[c] = s /\ \A e \in Calls : e # c => call'[e] = call[e]
    BY <1>1, <1>2 DEF Put, TypeOK
  <2>2. {c} \in SUBSET Calls
    OBVIOUS
  <2>3. \A e \in Calls : IF e \in {c} THEN Outcome(call'[e]) = None ELSE call'[e] = call[e]
    BY <1>2, <2>1
  <2> QED
    BY <1>1, <2>2, <2>3, Unanswered
<1>3. CASE Leave
  <2>1. \A c \in Calls : Outcome(call'[c]) = None
    <3>1. \A c \in Calls : call'[c] = GivenUp(call[c]) /\ call[c] \in Call
      BY <1>1, <1>3 DEF Leave, TypeOK
    <3> QED
      BY <3>1, GivenUpType, OutcomeIs
  <2> QED
    BY <1>1, <2>1, Unanswered
<1>4. CASE UNCHANGED call
  BY <1>1, <1>4 DEF Shelf!vars
<1>5. \/ \E c \in Calls : \/ Put(c, Free) \/ Put(c, GivenUp(call[c]))
                          \/ \E op, arg : Put(c, Sent(op, arg))
      \/ Leave \/ UNCHANGED call
  BY DEF Next, vars, Arrive, ListArrives, DeleteArrives, VerifyArrives, SignArrives, Reject,
         DeleteDoc, OpenVerify, SignDocument, Logout, Click, Load, CloseVerify, SetFile
<1>6. \A c \in Calls : Outcome(GivenUp(call[c])) = None
  BY <1>1, GivenUpType, OutcomeIs DEF TypeOK
<1> QED
  BY <1>2, <1>3, <1>4, <1>5, <1>6, OutcomeIs

\* The page and the requests under way are well formed.
THEOREM DashboardTypeCorrect == Spec => []TypeOK
BY InvHolds, PTL DEF Inv, Base

\* What the page knows of a document stays true of its id at the server, what it
\* said was deleted is gone for good, and its verdict is of the document named
\* unless verifications have crossed.
THEOREM KnowledgeIsSafe == Spec => []DashboardInv
BY InvHolds, PTL DEF Inv, Base, DashboardInv

\* Out-of-date lists and late requests, those the browser has given up among them,
\* never delete a document other than the one the user confirmed.
THEOREM OnlyConfirmedDeleted == Spec => ConfirmedIsDeleted
<1>1. Inv /\ [Next]_vars =>
        [\A r \in rows \ rows' : \E c \in Calls : call[c].op = "delete" /\ call[c].arg = r]_vars
  <2> SUFFICES ASSUME Inv, [Next]_vars, NEW r \in rows \ rows'
               PROVE  \E c \in Calls : call[c].op = "delete" /\ call[c].arg = r
    OBVIOUS
  <2>1. PICK c \in Calls : call[c].op = "delete" /\ DeleteById(call[c].arg.id)
    <3>1. PICK c \in Calls : Serve(c) \/ ServeAdrift(c)
      BY DEF Next, vars, Arrive, Reject, DeleteDoc, OpenVerify, SignDocument, Logout,
             Click, Load, CloseVerify, SetFile
    <3> QED
      BY <3>1 DEF Serve, ServeAdrift, InsertDocument
  <2>2. r.id = call[c].arg.id
    BY <2>1 DEF DeleteById
  <2>3. call[c].arg \in Known
    BY <2>1 DEF Known
  <2> QED
    BY <2>1, <2>2, <2>3 DEF Inv, Base, KnownInv
<1> QED
  BY <1>1, InvHolds, PTL DEF Spec, BrowserSpec, ConfirmedIsDeleted

\* A document that the page said was deleted comes back only with a list that
\* was asked for before.
THEOREM BackOnlyWithOlderList == Spec => BackOnlyInOlderList
<1>1. Inv /\ [Next]_vars =>
        [\A d \in (docs' \ docs) \cap told :
           \E c \in Calls : call[c].op = "list" /\ d \notin call[c].arg]_vars
  <2> SUFFICES ASSUME Inv, [Next]_vars, NEW d \in docs' \ docs
               PROVE  \E c \in Calls : call[c].op = "list" /\ d \notin call[c].arg
    OBVIOUS
  <2>1. PICK c \in Calls : call[c].pc = "answered" /\ call[c].op = "list" /\ d \in call[c].answer.list
    BY DEF Next, vars, page, Serve, ServeAdrift, Arrive, ListArrives, DeleteArrives, VerifyArrives, SignArrives,
           Leave, Reject, DeleteDoc, OpenVerify, SignDocument, Logout, Click, Load, CloseVerify, SetFile
  <2>2. CallKeepsOff(call[c], rows, told)
    BY DEF Inv, DeletedInv
  <2> QED
    BY <2>1, <2>2 DEF CallKeepsOff
<1> QED
  BY <1>1, InvHolds, PTL DEF Spec, BrowserSpec, BackOnlyInOlderList

\* The verdict in the dialog is of the document it names, unless it was opened
\* while another verification was under way.
THEOREM VerdictsUncrossed == Spec => []VerdictUnlessCrossed
<1>1. Inv => VerdictUnlessCrossed
  BY DEF Inv, VerdictInv, VerdictUnlessCrossed
<1> QED
  BY <1>1, InvHolds, PTL

\* What the page is answered, the shelf answers.
THEOREM DashboardRefinesShelf == Spec => ImplementsShelf
<1>1. Init => Shelf!Init
  BY OutcomeIs DEF Init, Shelf!Init
<1>2. Inv /\ Inv' /\ [Next]_vars => [Shelf!Next]_(Shelf!vars)
  BY ServeOnShelf, AdriftOnShelf, PageOnShelf
<1> QED
  BY <1>1, <1>2, InvHolds, PTL DEF Spec, BrowserSpec, Shelf!Spec, ImplementsShelf
=============================================================================
