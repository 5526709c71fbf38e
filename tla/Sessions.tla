------------------------------ MODULE Sessions ------------------------------
(***************************************************************************)
(* Login sessions (src/src/auth/AuthManager.cpp with SessionRepository):   *)
(* login opens a session in Redis and hands out a signed token naming it,  *)
(* every authenticated request looks the session up, logout deletes it.    *)
(*                                                                         *)
(* Drogon runs a handler to its end on one of its threads, so at most one  *)
(* request per thread is under way; the steps of two requests interleave   *)
(* at their Redis commands.  The sid is 256 random bits: two logins never  *)
(* draw the same.  The HMAC makes a token a record only the server builds. *)
(* Whether the password was right is Accounts' business: here a login is   *)
(* one whose credentials were accepted.                                    *)
(***************************************************************************)
EXTENDS RedisClient

CONSTANTS Sids,            \* session ids; their number bounds the logins
          Users,           \* user ids
          Workers,         \* Drogon's threads
          NoToken,
          TicksPerSecond,  \* the resolution of the clock
          TokenTTL,        \* AuthManager::TOKEN_TTL_SECONDS, in ticks
          SessionTTL       \* SessionRepository's ttl_seconds, in ticks

ASSUME KeysAssumption == Keys = Sids /\ Values = Users

Token == [sub : Users, sid : Sids, exp : Nat]

ASSUME TokenAssumption == NoToken \notin Token

ASSUME TTLAssumption == /\ TicksPerSecond \in Nat \ {0}
                        /\ TokenTTL \in Nat
                        /\ SessionTTL \in Nat
                        /\ TokenTTL <= SessionTTL

VARIABLES used,       \* the session ids drawn so far
          worker,     \* what each thread is doing, and for which token
          tokens,     \* the tokens clients have been given
          confirmed,  \* history: sids whose SETEX was answered OK
          gone,       \* history: sids whose key DEL or an eviction removed
          loggedOut   \* history: tokens whose logout was answered "Logged out"

vars == <<clock, store, link, used, worker, tokens, confirmed, gone, loggedOut>>

history == <<confirmed, gone, loggedOut>>

Idle == [pc |-> "idle", tok |-> NoToken]

Busy == {"store", "issued", "get", "admitted", "del", "deleted"}

TypeOK == /\ RedisTypeOK
          /\ used \subseteq Sids
          /\ worker \in [Workers -> {Idle} \cup [pc : Busy, tok : Token]]
          /\ tokens \subseteq Token
          /\ confirmed \subseteq Sids
          /\ gone \subseteq Sids
          /\ loggedOut \subseteq Token

Init == /\ RedisInit
        /\ used = {}
        /\ worker = [w \in Workers |-> Idle]
        /\ tokens = {}
        /\ confirmed = {} /\ gone = {} /\ loggedOut = {}

\* Thread w goes on at pc, on the token it is handling.
Goto(w, pc) == worker' = [worker EXCEPT ![w].pc = pc]

Begin(w, pc, tok) == /\ worker[w] = Idle
                     /\ worker' = [worker EXCEPT ![w] = [pc |-> pc, tok |-> tok]]

\* to_time_t() drops the fraction of a second.
WholeSeconds(t) == t - (t % TicksPerSecond)

----------------------------------------------------------------------------
(* AuthManager::login                                                      *)

\* Mutated form: the expiry is rounded up to the next second.
BuildToken_RoundedUp(u, s) ==
  [sub |-> u, sid |-> s, exp |-> WholeSeconds(clock) + TicksPerSecond + TokenTTL]

\* buildToken(): the claims that matter.
BuildToken(u, s) == [sub |-> u, sid |-> s, exp |-> WholeSeconds(clock) + TokenTTL]

\* Mutated form: the client is answered before the session is stored.
LoginBegin_AnswersFirst(w, u) ==
  \E s \in Sids \ used :
    /\ Begin(w, "store", BuildToken(u, s))
    /\ used' = used \cup {s}
    /\ tokens' = tokens \cup {BuildToken(u, s)}
    /\ UNCHANGED <<clock, store, link, history>>

\* Mutated form: session ids that repeat.
LoginBegin_RepeatedSid(w, u) ==
  \E s \in Sids :
    /\ Begin(w, "store", BuildToken(u, s))
    /\ used' = used \cup {s}
    /\ UNCHANGED <<clock, store, link, tokens, history>>

\* The credentials of u were accepted: draw a sid and build the token.
LoginBegin(w, u) ==
  \E s \in Sids \ used :
    /\ Begin(w, "store", BuildToken(u, s))
    /\ used' = used \cup {s}
    /\ UNCHANGED <<clock, store, link, tokens, history>>

\* storeKey(); its result is not looked at.
LoginStore(w) ==
  /\ worker[w].pc = "store"
  /\ LET t == worker[w].tok
     IN \E ok \in BOOLEAN :
          /\ Set(t.sid, t.sub, SessionTTL, ok)
          /\ confirmed' = IF ok THEN confirmed \cup {t.sid} ELSE confirmed
  /\ Goto(w, "issued")
  /\ UNCHANGED <<clock, used, tokens, gone, loggedOut>>

\* 200 with the token.
LoginReply(w) ==
  /\ worker[w].pc = "issued"
  /\ tokens' = tokens \cup {worker[w].tok}
  /\ worker' = [worker EXCEPT ![w] = Idle]
  /\ UNCHANGED <<clock, store, link, used, history>>

----------------------------------------------------------------------------
(* AuthManager::verifyToken, which every authenticated handler calls first *)

\* parseToken() rejects a token whose exp lies before the current second.
Unexpired(tok) == tok.exp >= WholeSeconds(clock)

VerifyBegin(w, tok) ==
  /\ Unexpired(tok)
  /\ Begin(w, "get", tok)
  /\ UNCHANGED <<clock, store, link, used, tokens, history>>

\* Mutated form: without an answer from Redis the signature is enough.
VerifyGet_FailsOpen(w) ==
  /\ worker[w].pc = "get"
  /\ LET t == worker[w].tok
     IN \E hit \in BOOLEAN :
          /\ Get(t.sid, hit)
          /\ IF ~link' \/ (hit /\ store[t.sid].value = t.sub)
             THEN Goto(w, "admitted")
             ELSE worker' = [worker EXCEPT ![w] = Idle]
  /\ UNCHANGED <<clock, used, tokens, history>>

\* Mutated form: the rejected token stays with the thread.
VerifyGet_KeepsToken(w) ==
  /\ worker[w].pc = "get"
  /\ LET t == worker[w].tok
     IN \E hit \in BOOLEAN :
          /\ Get(t.sid, hit)
          /\ Goto(w, IF hit /\ store[t.sid].value = t.sub THEN "admitted" ELSE "idle")
  /\ UNCHANGED <<clock, used, tokens, history>>

\* getKey() and the owner check: the handler goes on in the name of tok.sub,
\* or answers 401.
VerifyGet(w) ==
  /\ worker[w].pc = "get"
  /\ LET t == worker[w].tok
     IN \E hit \in BOOLEAN :
          /\ Get(t.sid, hit)
          /\ IF hit /\ store[t.sid].value = t.sub
             THEN Goto(w, "admitted")
             ELSE worker' = [worker EXCEPT ![w] = Idle]
  /\ UNCHANGED <<clock, used, tokens, history>>

\* The rest of the handler, and its answer.
Finish(w) ==
  /\ worker[w].pc = "admitted"
  /\ worker' = [worker EXCEPT ![w] = Idle]
  /\ UNCHANGED <<clock, store, link, used, tokens, history>>

----------------------------------------------------------------------------
(* AuthManager::logout                                                     *)

LogoutBegin(w, tok) ==
  /\ Unexpired(tok)
  /\ Begin(w, "del", tok)
  /\ UNCHANGED <<clock, store, link, used, tokens, history>>

\* invalidate(); its result is not looked at.
LogoutDel(w) ==
  /\ worker[w].pc = "del"
  /\ LET s == worker[w].tok.sid
     IN /\ \E ok \in BOOLEAN : Del(s, ok)
        /\ gone' = IF store'[s] = Absent THEN gone \cup {s} ELSE gone
  /\ Goto(w, "deleted")
  /\ UNCHANGED <<clock, used, tokens, confirmed, loggedOut>>

\* 200 "Logged out".
LogoutReply(w) ==
  /\ worker[w].pc = "deleted"
  /\ loggedOut' = loggedOut \cup {worker[w].tok}
  /\ worker' = [worker EXCEPT ![w] = Idle]
  /\ UNCHANGED <<clock, store, link, used, tokens, confirmed, gone>>

----------------------------------------------------------------------------
(* The environment                                                         *)

Time == Tick /\ UNCHANGED <<used, worker, tokens, history>>

Eviction(s) == /\ Evict(s)
               /\ gone' = gone \cup {s}
               /\ UNCHANGED <<used, worker, tokens, confirmed, loggedOut>>

\* The API process dies at any point and is started again: the requests
\* under way are lost with their answers, the client tokens are not.
Restart == /\ Connect
           /\ worker' = [w \in Workers |-> Idle]
           /\ UNCHANGED <<used, tokens, history>>

Next ==
  \/ \E w \in Workers :
       \/ \E u \in Users : LoginBegin(w, u)
       \/ LoginStore(w) \/ LoginReply(w)
       \/ \E tok \in tokens : VerifyBegin(w, tok) \/ LogoutBegin(w, tok)
       \/ VerifyGet(w) \/ Finish(w)
       \/ LogoutDel(w) \/ LogoutReply(w)
  \/ Time \/ Restart
  \/ \E s \in Sids : Eviction(s)

Spec == Init /\ [][Next]_vars

----------------------------------------------------------------------------
(* Properties                                                              *)

Admitted(w) == worker[w].pc = "admitted"

Pending(w) == worker[w].pc = "store"

\* A request is never admitted for a session whose key was removed, however
\* logouts, evictions, slow logins and restarts interleave: no SETEX comes
\* after the DEL, because AuthManager::login stores before it answers.
NoAdmissionAfterRemoval ==
  [][\A w \in Workers : Admitted(w)' /\ ~Admitted(w) => worker[w].tok.sid \notin gone]_vars

\* A login whose SETEX Redis confirmed can be used until the token expires,
\* unless the session is removed: the session's time to live covers the
\* token's, although they start at different moments and one of them is cut
\* to whole seconds.
ConfirmedSessionUsable ==
  \A t \in tokens : t.sid \in confirmed \ gone /\ clock <= t.exp => Live(t.sid)

OpenSessions == {<<s, store[s].value>> : s \in {k \in Sids : Live(k)}}

PendingSids == {worker[w].tok.sid : w \in {v \in Workers : Pending(v)}}

ClosedSessions == {s \in used : ~Live(s)} \ PendingSids

AdmittedRequests ==
  {<<w, worker[w].tok.sid, worker[w].tok.sub>> : w \in {v \in Workers : Admitted(v)}}

Lifecycle == INSTANCE SessionLifecycle WITH
  open <- OpenSessions, closed <- ClosedSessions, acting <- AdmittedRequests

\* A session is opened once, for the user who logged in; requests are
\* admitted in that user's name and only while it is open; it never reopens
\* (login, verifyToken and logout together, with expiry, eviction, restart).
ImplementsLifecycle == Lifecycle!Spec

\* README.md:165 says that POST /users/logout revokes the session "so the
\* token stops working immediately": no request is admitted on a token whose
\* logout was answered "Logged out".  AuthManager::logout ignores a failed DEL.
LogoutRevokes ==
  [][\A w \in Workers : Admitted(w)' /\ ~Admitted(w) => worker[w].tok \notin loggedOut]_vars

\* README.md:152 says that the token POST /auth/login returns is "valid for one
\* hour": until then its session is in Redis, unless it was removed.
\* AuthManager::login ignores a failed SETEX.
TokenUsableUntilExpiry ==
  \A t \in tokens : t.sid \notin gone /\ clock <= t.exp => Live(t.sid)

----------------------------------------------------------------------------
(* The inductive invariant                                                 *)

\* The tokens that exist, in a client's hands or in a thread's.
Known == tokens \cup {worker[w].tok : w \in {v \in Workers : worker[v] # Idle}}

SidsWereDrawn == /\ \A t \in Known : t.sid \in used
                 /\ \A s \in Sids : store[s] # Absent => s \in used
                 /\ gone \cup confirmed \subseteq used

\* A sid names one token, and the key it names holds that token's subject.
OneTokenPerSid == \A t1, t2 \in Known : t1.sid = t2.sid => t1 = t2

OwnerIsSubject == \A t \in Known : store[t.sid] # Absent => store[t.sid].value = t.sub

\* While a login is about to store its session, nobody else knows the sid and
\* nothing has happened to the key.
StoredBeforeKnown ==
  \A w \in Workers : Pending(w) =>
    LET t == worker[w].tok
    IN /\ store[t.sid] = Absent
       /\ t.sid \notin gone \cup confirmed
       /\ t \notin tokens
       /\ \A v \in Workers \ {w} : worker[v].tok # t
       /\ t.exp <= clock + SessionTTL

RemovedStaysRemoved == \A s \in gone : store[s] = Absent

SessionOutlivesToken ==
  \A t \in Known : t.sid \in confirmed \ gone =>
    store[t.sid] # Absent /\ t.exp <= store[t.sid].expires

\* What makes login, verifyToken and logout safe together: the sid is private
\* to the login until its SETEX is over, so that a removed key stays removed.
SessionInv == /\ SidsWereDrawn
              /\ OneTokenPerSid
              /\ OwnerIsSubject
              /\ StoredBeforeKnown
              /\ RemovedStaysRemoved
              /\ SessionOutlivesToken
=============================================================================
