----------------------------- MODULE Dashboard -----------------------------
(***************************************************************************)
(* The dashboard page (static/js/dashboard.js, api.js): its handlers stop  *)
(* at every await, and what they do when the answer comes they do to a     *)
(* page that other handlers have changed meanwhile.  Requests overtake one *)
(* another on the way to the server and on the way back, and fetch() may   *)
(* reject at any time, whether the server has executed the request, does   *)
(* so much later, or never.                                                *)
(*                                                                         *)
(* The server is the documents of one user, each request one step (module  *)
(* Documents shows that this is what it looks like).  A file stands for    *)
(* one choice in the file dialog.  Downloads, toasts and the dialog that   *)
(* shows a new signature, which come from one answer each, are left out;   *)
(* while the verify dialog is open it covers the page.                     *)
(***************************************************************************)
EXTENDS Naturals

CONSTANTS Calls,     \* requests there may be under way, given up ones included
          MaxFiles,  \* bound: choices in the file dialog
          MaxId,     \* bound: documents ever signed
          None,      \* no document, no verdict
          Failed     \* the verdict of a verification that was not made

Files == 1..MaxFiles
Document == [id : Nat, file : Files]

ASSUME BoundsAssumption == MaxFiles \in Nat /\ MaxId \in Nat
ASSUME NoneAssumption == None \notin Document /\ Failed \notin Document

VARIABLES rows, nextId,    \* at the server: the user's documents, the sequence
          call,            \* the requests under way, and where
          docs,            \* the list the page shows
          title, verdict,  \* the verify dialog: the document named, and the one
          dialog,          \*   whose verdict is shown; whether it is open
          choices, chosen, \* files chosen so far; selectedFile, 0 for none
          button,          \* whether the Sign button can be clicked
          loggedIn,        \* whether the tab is on this page with a session
          told,            \* history: documents the page said were deleted
          crossed          \* history: a verification was under way when the
                           \*   dialog was opened for another one

page == <<docs, title, verdict, dialog, chosen, button, loggedIn, told, crossed>>
vars == <<rows, nextId, call, choices, page>>

Free == [op |-> "none", pc |-> "free"]
Sent(op, arg) == [op |-> op, pc |-> "sent", arg |-> arg]
Answers == [ok : BOOLEAN, list : SUBSET Document]

\* The argument of a list is history: what was told before it was asked for.
Request(ops, args) == [op : ops, pc : {"sent"}, arg : args]
                        \cup [op : ops, pc : {"answered"}, arg : args, answer : Answers]

\* What the server may still execute although the browser gave it up; the other
\* requests change nothing here.
Adrift(s) == [op |-> s.op, pc |-> "adrift", arg |-> s.arg]

Call == {Free} \cup [op : {"delete"}, pc : {"adrift"}, arg : Document]
               \cup [op : {"sign"}, pc : {"adrift"}, arg : [file : Files]]
               \cup Request({"delete", "verify"}, Document)
               \cup Request({"sign"}, [file : Files])
               \cup Request({"list"}, SUBSET Document)
               \cup Request({"logout"}, {None})

TypeOK == /\ rows \subseteq Document /\ nextId \in Nat
          /\ call \in [Calls -> Call]
          /\ docs \subseteq Document
          /\ title \in Document \cup {None}
          /\ verdict \in Document \cup {None, Failed}
          /\ dialog \in BOOLEAN /\ button \in BOOLEAN /\ loggedIn \in BOOLEAN
          /\ choices \in 0..MaxFiles /\ chosen \in 0..MaxFiles
          /\ told \subseteq Document /\ crossed \in BOOLEAN

Init == /\ rows = {} /\ nextId = 1
        /\ call = [c \in Calls |-> Free]
        /\ docs = {} /\ title = None /\ verdict = None /\ dialog = FALSE
        /\ choices = 0 /\ chosen = 0 /\ button = FALSE
        /\ loggedIn = FALSE /\ told = {} /\ crossed = FALSE

Put(c, state) == call' = [call EXCEPT ![c] = state]

----------------------------------------------------------------------------
(* The server, and the network                                             *)

Respond(c, ok, list) ==
  Put(c, [op |-> call[c].op, pc |-> "answered", arg |-> call[c].arg,
          answer |-> [ok |-> ok, list |-> list]])

\* Mutated form: the smallest free id is used again.
InsertDocument_ReusesIds(f) ==
  /\ nextId <= MaxId /\ nextId' = nextId + 1
  /\ LET free == {i \in 1..nextId : \A r \in rows : r.id # i}
     IN rows' = rows \cup {[id |-> CHOOSE i \in free : \A j \in free : i <= j, file |-> f]}

InsertDocument(f) == /\ nextId <= MaxId /\ nextId' = nextId + 1
                     /\ rows' = rows \cup {[id |-> nextId, file |-> f]}

\* Mutated form: whether a row was deleted is not looked at.
DeleteById_Blind(id) == rows' = {r \in rows : r.id # id}

\* DELETE ... WHERE id = $1 RETURNING id
DeleteById(id) == \E r \in rows : r.id = id /\ rows' = rows \ {r}

\* An error (401, 404, 500) may come although the statement was executed.
Serve(c) ==
  /\ call[c].pc = "sent"
  /\ \/ /\ call[c].op = "list" /\ Respond(c, TRUE, rows)
        /\ UNCHANGED <<rows, nextId>>
     \/ /\ call[c].op = "sign" /\ InsertDocument(call[c].arg.file)
        /\ \E ok \in BOOLEAN : Respond(c, ok, {})
     \/ /\ call[c].op = "delete" /\ DeleteById(call[c].arg.id)
        /\ \E ok \in BOOLEAN : Respond(c, ok, {})
        /\ UNCHANGED nextId
     \/ /\ call[c].op = "verify" /\ \E r \in rows : r.id = call[c].arg.id
        /\ Respond(c, TRUE, {})
        /\ UNCHANGED <<rows, nextId>>
     \/ /\ call[c].op = "logout" /\ Respond(c, TRUE, {})
        /\ UNCHANGED <<rows, nextId>>
     \/ Respond(c, FALSE, {}) /\ UNCHANGED <<rows, nextId>>
  /\ UNCHANGED <<choices, page>>

\* Nobody awaits the answer any more; the request may also have been lost.
ServeAdrift(c) ==
  /\ call[c].pc = "adrift"
  /\ \/ call[c].op = "sign" /\ InsertDocument(call[c].arg.file)
     \/ call[c].op = "delete" /\ DeleteById(call[c].arg.id) /\ UNCHANGED nextId
     \/ UNCHANGED <<rows, nextId>>
  /\ Put(c, Free) /\ UNCHANGED <<choices, page>>

----------------------------------------------------------------------------
(* What the user does                                                      *)

\* A click starts a handler, which runs to its await.
Click(c, op, arg) == /\ loggedIn /\ ~dialog
                     /\ call[c] = Free /\ Put(c, Sent(op, arg))
                     /\ UNCHANGED <<rows, nextId>>

\* deleteDoc(), confirmed.
DeleteDoc(c, d) == /\ d \in docs /\ Click(c, "delete", d)
                   /\ UNCHANGED <<choices, page>>

\* Mutated form: the dialog is not emptied.
OpenVerify_NotReset(c, d) ==
  /\ d \in docs /\ Click(c, "verify", d)
  /\ title' = d /\ dialog' = TRUE
  /\ crossed' = \E e \in Calls : call[e].op = "verify"
  /\ UNCHANGED <<choices, docs, verdict, chosen, button, loggedIn, told>>

OpenVerify(c, d) == /\ d \in docs /\ Click(c, "verify", d)
                    /\ title' = d /\ verdict' = None /\ dialog' = TRUE
                    /\ crossed' = \E e \in Calls : call[e].op = "verify"
                    /\ UNCHANGED <<choices, docs, chosen, button, loggedIn, told>>

CloseVerify == /\ dialog /\ dialog' = FALSE
               /\ UNCHANGED <<rows, nextId, call, choices, docs, title, verdict,
                              chosen, button, loggedIn, told, crossed>>

SetFile == /\ loggedIn /\ ~dialog
           /\ choices < MaxFiles /\ choices' = choices + 1
           /\ chosen' = choices + 1 /\ button' = TRUE
           /\ UNCHANGED <<rows, nextId, call, docs, title, verdict, dialog, loggedIn, told, crossed>>

SignDocument(c) == /\ button /\ chosen # 0 /\ Click(c, "sign", [file |-> chosen])
                   /\ button' = FALSE
                   /\ UNCHANGED <<choices, docs, title, verdict, dialog, chosen, loggedIn, told, crossed>>

Logout(c) == Click(c, "logout", None) /\ UNCHANGED <<choices, page>>

\* index.html has stored the session, and the page loads.
Load(c) == /\ ~loggedIn /\ loggedIn' = TRUE
           /\ call[c] = Free /\ Put(c, Sent("list", told))
           /\ UNCHANGED <<rows, nextId, choices, docs, title, verdict, dialog, chosen, button,
                          told, crossed>>

----------------------------------------------------------------------------
(* What the handlers do after their await                                  *)

\* What becomes of a request when its handler is gone or has been told to give up.
GivenUp(s) == CASE s.pc = "sent" /\ s.op \in {"delete", "sign"} -> Adrift(s)
                [] s.pc = "adrift" -> s
                [] OTHER -> Free

\* clearSession(), and off to index.html: the page is gone, and with it every
\* handler that still awaits something, though not what was sent.
Leave == /\ loggedIn' = FALSE /\ docs' = {} /\ title' = None /\ verdict' = None
         /\ dialog' = FALSE /\ chosen' = 0 /\ button' = FALSE /\ crossed' = FALSE
         /\ call' = [c \in Calls |-> GivenUp(call[c])]
         /\ UNCHANGED told

\* Mutated form: whether the answer is a list is not looked at.
ListArrives_Unchecked(c) ==
  /\ call[c].op = "list"
  /\ docs' = IF call[c].answer.ok THEN call[c].answer.list ELSE {None}
  /\ Put(c, Free)
  /\ UNCHANGED <<title, verdict, dialog, chosen, button, loggedIn, told, crossed>>

\* loadDocuments()
ListArrives(c) ==
  /\ call[c].op = "list"
  /\ docs' = IF call[c].answer.ok THEN call[c].answer.list ELSE docs
  /\ Put(c, Free)
  /\ UNCHANGED <<title, verdict, dialog, chosen, button, loggedIn, told, crossed>>

\* Mutated form: whether the answer is an error is not looked at.
DeleteArrives_Unchecked(c) ==
  /\ call[c].op = "delete"
  /\ told' = told \cup {call[c].arg} /\ Put(c, Sent("list", told'))
  /\ UNCHANGED <<docs, title, verdict, dialog, chosen, button, loggedIn, crossed>>

\* "Deleted: ...", and the list is asked for again.
DeleteArrives(c) ==
  /\ call[c].op = "delete"
  /\ IF call[c].answer.ok THEN told' = told \cup {call[c].arg} /\ Put(c, Sent("list", told'))
                          ELSE Put(c, Free) /\ UNCHANGED told
  /\ UNCHANGED <<docs, title, verdict, dialog, chosen, button, loggedIn, crossed>>

\* Into the one dialog, whatever it is about by now.
VerifyArrives(c) ==
  /\ call[c].op = "verify"
  /\ verdict' = IF call[c].answer.ok THEN call[c].arg ELSE Failed
  /\ Put(c, Free)
  /\ UNCHANGED <<docs, title, dialog, chosen, button, loggedIn, told, crossed>>

\* On success the selection is cleared, whichever file it is by now.
SignArrives(c) ==
  /\ call[c].op = "sign"
  /\ IF call[c].answer.ok
     THEN chosen' = 0 /\ button' = FALSE /\ Put(c, Sent("list", told))
     ELSE button' = TRUE /\ Put(c, Free) /\ UNCHANGED chosen
  /\ UNCHANGED <<docs, title, verdict, dialog, loggedIn, told, crossed>>

Arrive(c) == /\ call[c].pc = "answered"
             /\ \/ ListArrives(c) \/ DeleteArrives(c) \/ VerifyArrives(c) \/ SignArrives(c)
                \/ call[c].op = "logout" /\ Leave
             /\ UNCHANGED <<rows, nextId, choices>>

\* Mutated form: the logout handler has no catch.
Reject_Uncaught(c) == /\ call[c].pc \in {"sent", "answered"} /\ Put(c, GivenUp(call[c]))
                      /\ UNCHANGED <<rows, nextId, choices, page>>

\* fetch() rejects: only the logout handler catches it.
Reject(c) == /\ call[c].pc \in {"sent", "answered"}
             /\ IF call[c].op = "logout" THEN Leave ELSE Put(c, GivenUp(call[c])) /\ UNCHANGED page
             /\ UNCHANGED <<rows, nextId, choices>>

Next == \/ \E c \in Calls :
             \/ Serve(c) \/ ServeAdrift(c) \/ Arrive(c) \/ Reject(c)
             \/ \E d \in docs : DeleteDoc(c, d) \/ OpenVerify(c, d)
             \/ SignDocument(c) \/ Logout(c) \/ Load(c)
        \/ CloseVerify \/ SetFile

\* The event loop of the browser gets round to every answer.
Browser == \A c \in Calls : WF_vars(Arrive(c))

\* Every request ends: an answer, or a failure the browser notices.
Network == \A c \in Calls : WF_vars(Serve(c) \/ Reject(c))

BrowserSpec == Init /\ [][Next]_vars /\ Browser

Spec == BrowserSpec /\ Network

----------------------------------------------------------------------------
(* Properties                                                              *)

\* dashboard.js:73: what the server deletes is the document the user confirmed,
\* by its name, although the list it was chosen from may be out of date and the
\* request may be executed much later, when the browser has given it up and the
\* page is gone.
ConfirmedIsDeleted ==
  [][\A r \in rows \ rows' : \E c \in Calls : call[c].op = "delete" /\ call[c].arg = r]_vars

\* dashboard.js:193: whether the request for it succeeds or fails, a logout ends
\* with the session gone from the browser.
LogoutEnds == (\E c \in Calls : call[c].op = "logout") ~> ~loggedIn

\* dashboard.js:193-194, "so a failed/slow request never leaves the user stuck
\* on the dashboard": the same, however slow the server is.  LogoutEnds, under
\* BrowserSpec, which asks nothing of the server and the network.
LogoutNeverStuck == LogoutEnds

\* dashboard.html:99, "Verify: <filename>": the verdict shown is about the
\* document named above it.
VerdictUnderItsName == dialog /\ verdict \notin {None, Failed} => verdict = title

\* dashboard.js:80, "Deleted: ...": a document the page said was deleted does not
\* come back into its list.
DeletedStaysOff == [][(docs' \ docs) \cap told = {}]_vars

\* The most that can be said of it: what brings a deleted document back is a list
\* that was asked for before the page said so, dashboard.js:32 taking whichever
\* answer comes last; no list that was asked for later has it.
BackOnlyInOlderList ==
  [][\A d \in (docs' \ docs) \cap told :
       \E c \in Calls : call[c].op = "list" /\ d \notin call[c].arg]_vars

\* dashboard.js:94, the same of the verdict: it is about another document than
\* the one named above it only if the dialog was opened for that one while a
\* verification of another was still under way.
VerdictUnlessCrossed == verdict \notin {None, Failed, title} => crossed

\* The documents of one user, as the page sees them.
Kept(d) == [id |-> d.id, owner |-> "user", file |-> d.file]

\* What a request is answered with.
Outcome(s) ==
  CASE s.pc # "answered" -> None
    [] s.pc = "answered" /\ s.op = "delete" /\ s.answer.ok ->
         [op |-> "deleted", user |-> "user", doc |-> s.arg.id]
    [] s.pc = "answered" /\ s.op = "verify" /\ s.answer.ok ->
         [op |-> "serve", user |-> "user", meta |-> Kept(s.arg), data |-> Kept(s.arg)]
    [] OTHER -> None

Shelf == INSTANCE DocumentShelf WITH
  Users <- {"user"}, Workers <- Calls, Nothing <- None,
  shelf <- {Kept(r) : r \in rows}, fresh <- nextId,
  result <- [c \in Calls |-> Outcome(call[c])]

\* Through all the handlers that overlap and lists that are out of date, what
\* the page is answered about a document it names is what DocumentShelf, which
\* the server implements (Documents), would answer about that very document:
\* its verdict is its own and it is deleted once.
ImplementsShelf == Shelf!Spec

\* dashboard.js:150-151, the button is disabled while it says "Signing...": no
\* file is sent again while it is being signed.
SignedOnceAtATime ==
  \A c, e \in Calls :
    /\ c # e /\ call[c].op = "sign" /\ call[e].op = "sign"
    /\ "adrift" \notin {call[c].pc, call[e].pc}
    => call[c].arg # call[e].arg

----------------------------------------------------------------------------
(* What the properties rest on                                             *)

\* A document the page knows, from its list, a request or an answer, keeps its
\* id for itself at the server.
Known ==
  docs \cup {call[c].arg : c \in {e \in Calls : call[e].op \in {"delete", "verify"}}}
       \cup UNION {call[c].answer.list : c \in {e \in Calls : call[e].pc = "answered"}}

KnownInv ==
  /\ \A r, q \in rows : r.id = q.id => r = q
  /\ \A r \in rows : r.id < nextId
  /\ \A d \in Known : d.id < nextId /\ \A r \in rows : r.id = d.id => r = d

CallKeepsOff(s, there, gone) ==
  /\ s.op = "delete" /\ s.pc = "answered" /\ s.answer.ok => s.arg \notin there
  /\ s.op = "list" => s.arg \subseteq gone
  /\ s.op = "list" /\ s.pc = "answered" => s.answer.list \cap s.arg = {}

\* What was deleted, from the answer to what the page says of it, is not at the
\* server, nor in a list that was asked for later.
DeletedInv ==
  /\ told \cap rows = {}
  /\ \A d \in told : d.id < nextId
  /\ \A c \in Calls : CallKeepsOff(call[c], rows, told)

\* While nothing has crossed, all verifications are of the document named.
VerdictInv ==
  ~crossed => /\ verdict \in {None, Failed, title}
              /\ \A c \in Calls : call[c].op = "verify" => call[c].arg = title

DashboardInv == KnownInv /\ DeletedInv /\ VerdictInv
=============================================================================
