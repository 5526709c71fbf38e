---------------------------- MODULE SessionsProof ----------------------------
(***************************************************************************)
(* Theorems about Sessions, for any number of threads, users, sessions and *)
(* any times to live that satisfy TTLAssumption.                           *)
(***************************************************************************)
EXTENDS Sessions, TLAPS

USE KeysAssumption

WorkerState == {Idle} \cup [pc : Busy, tok : Token]

----------------------------------------------------------------------------
(* Types                                                                   *)

\* A thread past its first step handles a token.
LEMMA BusyHasToken ==
  ASSUME TypeOK, NEW w \in Workers, worker[w].pc # "idle"
  PROVE  worker[w] \in [pc : Busy, tok : Token]
BY DEF TypeOK, Idle

\* Going on to another step keeps the token.
LEMMA GotoKeepsType ==
  ASSUME TypeOK, NEW w \in Workers, worker[w].pc # "idle",
         NEW pc \in Busy, Goto(w, pc)
  PROVE  worker' \in [Workers -> WorkerState]
<1>1. worker[w] \in [pc : Busy, tok : Token]
  BY BusyHasToken
<1>2. [worker[w] EXCEPT !.pc = pc] \in [pc : Busy, tok : Token]
  BY <1>1
<1>3. worker' = [worker EXCEPT ![w] = [worker[w] EXCEPT !.pc = pc]]
  BY DEF Goto
<1> QED
  BY <1>2, <1>3 DEF TypeOK, WorkerState

\* Taking up a request records its token.
LEMMA BeginKeepsType ==
  ASSUME TypeOK, NEW w \in Workers, NEW pc \in Busy, NEW tok \in Token, Begin(w, pc, tok)
  PROVE  worker' \in [Workers -> WorkerState]
BY DEF TypeOK, Begin, WorkerState

\* Answering makes the thread free.
LEMMA EndKeepsType ==
  ASSUME TypeOK, NEW w \in Workers, worker' = [worker EXCEPT ![w] = Idle]
  PROVE  worker' \in [Workers -> WorkerState]
BY DEF TypeOK, WorkerState

\* The expiry in a token is a natural number no later than TokenTTL from now.
LEMMA BuildTokenType ==
  ASSUME TypeOK, NEW u \in Users, NEW s \in Sids
  PROVE  /\ BuildToken(u, s) \in Token
         /\ BuildToken(u, s).exp <= clock + TokenTTL
<1>1. clock \in Nat
  BY MaxClockAssumption DEF TypeOK, RedisTypeOK
<1>2. /\ clock % TicksPerSecond \in Nat
      /\ clock % TicksPerSecond <= clock
  BY <1>1, TTLAssumption
<1>3. WholeSeconds(clock) \in Nat /\ WholeSeconds(clock) <= clock
  BY <1>1, <1>2 DEF WholeSeconds
<1> QED
  BY <1>1, <1>3, TTLAssumption DEF BuildToken, Token

\* The commands keep the types of the store and of the link.
LEMMA SetKeepsType ==
  ASSUME RedisTypeOK, NEW k \in Keys, NEW v \in Values, NEW ttl \in Nat,
         NEW ok \in BOOLEAN, Set(k, v, ttl, ok), UNCHANGED clock
  PROVE  RedisTypeOK'
<1>1. [value |-> v, expires |-> clock + ttl] \in Entry
  BY MaxClockAssumption DEF RedisTypeOK, Entry
<1>2. link' \in BOOLEAN
  BY DEF RedisTypeOK, Set, Replied, ReplyLost, Refused
<1>3. store' \in [Keys -> Entry \cup {Absent}]
  BY <1>1 DEF RedisTypeOK, Set
<1> QED
  BY <1>2, <1>3 DEF RedisTypeOK

LEMMA GetKeepsType ==
  ASSUME RedisTypeOK, NEW k \in Keys, NEW hit \in BOOLEAN, Get(k, hit), UNCHANGED clock
  PROVE  RedisTypeOK'
BY DEF RedisTypeOK, Get, Replied, Refused

LEMMA DelKeepsType ==
  ASSUME RedisTypeOK, NEW k \in Keys, NEW ok \in BOOLEAN, Del(k, ok), UNCHANGED clock
  PROVE  RedisTypeOK'
<1>1. link' \in BOOLEAN
  BY DEF RedisTypeOK, Del, Replied, ReplyLost, Refused
<1>2. store' \in [Keys -> Entry \cup {Absent}]
  BY DEF RedisTypeOK, Del
<1> QED
  BY <1>1, <1>2 DEF RedisTypeOK

LEMMA InitType == Init => TypeOK
BY MaxClockAssumption DEF Init, RedisInit, TypeOK, RedisTypeOK

\* Every step keeps the types, one case per action.
LEMMA StepKeepsType == TypeOK /\ [Next]_vars => TypeOK'
<1> SUFFICES ASSUME TypeOK, [Next]_vars PROVE TypeOK'
  OBVIOUS
<1> USE DEF TypeOK
<1>1. ASSUME NEW w \in Workers, NEW u \in Users, LoginBegin(w, u)
      PROVE  TypeOK'
  <2>1. PICK s \in Sids \ used : /\ Begin(w, "store", BuildToken(u, s))
                                 /\ used' = used \cup {s}
    BY <1>1 DEF LoginBegin
  <2>2. worker' \in [Workers -> WorkerState]
    BY <2>1, BuildTokenType, BeginKeepsType DEF Busy
  <2> QED
    BY <1>1, <2>1, <2>2 DEF LoginBegin, WorkerState, RedisTypeOK, history
<1>2. ASSUME NEW w \in Workers, LoginStore(w)
      PROVE  TypeOK'
  <2>1. worker[w] \in [pc : Busy, tok : Token]
    BY <1>2, BusyHasToken DEF LoginStore
  <2>2. RedisTypeOK'
    BY <1>2, <2>1, SetKeepsType, TTLAssumption DEF LoginStore, Token
  <2>3. worker' \in [Workers -> WorkerState]
    BY <1>2, GotoKeepsType DEF LoginStore, Busy
  <2> QED
    BY <1>2, <2>1, <2>2, <2>3 DEF LoginStore, WorkerState, Token
<1>3. ASSUME NEW w \in Workers, LoginReply(w)
      PROVE  TypeOK'
  <2>1. worker[w] \in [pc : Busy, tok : Token]
    BY <1>3, BusyHasToken DEF LoginReply
  <2>2. worker' \in [Workers -> WorkerState]
    BY <1>3, EndKeepsType DEF LoginReply
  <2> QED
    BY <1>3, <2>1, <2>2 DEF LoginReply, WorkerState, RedisTypeOK, history
<1>4. ASSUME NEW w \in Workers, NEW tok \in tokens, VerifyBegin(w, tok) \/ LogoutBegin(w, tok)
      PROVE  TypeOK'
  <2>1. worker' \in [Workers -> WorkerState]
    BY <1>4, BeginKeepsType DEF VerifyBegin, LogoutBegin, Busy
  <2> QED
    BY <1>4, <2>1 DEF VerifyBegin, LogoutBegin, WorkerState, RedisTypeOK, history
<1>5. ASSUME NEW w \in Workers, VerifyGet(w)
      PROVE  TypeOK'
  <2>1. worker[w] \in [pc : Busy, tok : Token]
    BY <1>5, BusyHasToken DEF VerifyGet
  <2>2. RedisTypeOK'
    BY <1>5, <2>1, GetKeepsType DEF VerifyGet, Token
  <2>3. worker' \in [Workers -> WorkerState]
    BY <1>5, GotoKeepsType, EndKeepsType DEF VerifyGet, Busy
  <2> QED
    BY <1>5, <2>2, <2>3 DEF VerifyGet, WorkerState, history
<1>6. ASSUME NEW w \in Workers, Finish(w)
      PROVE  TypeOK'
  BY <1>6, EndKeepsType DEF Finish, WorkerState, RedisTypeOK, history
<1>7. ASSUME NEW w \in Workers, LogoutDel(w)
      PROVE  TypeOK'
  <2>1. worker[w] \in [pc : Busy, tok : Token]
    BY <1>7, BusyHasToken DEF LogoutDel
  <2>2. RedisTypeOK'
    BY <1>7, <2>1, DelKeepsType DEF LogoutDel, Token
  <2>3. worker' \in [Workers -> WorkerState]
    BY <1>7, GotoKeepsType DEF LogoutDel, Busy
  <2> QED
    BY <1>7, <2>1, <2>2, <2>3 DEF LogoutDel, WorkerState, Token
<1>8. ASSUME NEW w \in Workers, LogoutReply(w)
      PROVE  TypeOK'
  <2>1. worker[w] \in [pc : Busy, tok : Token]
    BY <1>8, BusyHasToken DEF LogoutReply
  <2>2. worker' \in [Workers -> WorkerState]
    BY <1>8, EndKeepsType DEF LogoutReply
  <2> QED
    BY <1>8, <2>1, <2>2 DEF LogoutReply, WorkerState, RedisTypeOK
<1>9. CASE Time
  BY <1>9, MaxClockAssumption DEF Time, Tick, RedisTypeOK, history
<1>10. CASE Restart
  BY <1>10 DEF Restart, Connect, RedisTypeOK, history
<1>11. ASSUME NEW s \in Sids, Eviction(s)
       PROVE  TypeOK'
  BY <1>11 DEF Eviction, Evict, RedisTypeOK
<1>12. CASE UNCHANGED vars
  BY <1>12 DEF vars, RedisTypeOK
<1> QED
  BY <1>1, <1>2, <1>3, <1>4, <1>5, <1>6, <1>7, <1>8, <1>9, <1>10, <1>11, <1>12 DEF Next

\* Sessions' variables keep their types: tokens, threads and Redis entries are
\* well formed in every reachable state.
THEOREM TypeCorrect == Spec => []TypeOK
BY InitType, StepKeepsType, PTL DEF Spec

----------------------------------------------------------------------------
(* The inductive invariant                                                 *)

\* The tokens in the threads' hands are known, and well formed.
LEMMA HeldTokenIsKnown ==
  ASSUME TypeOK, NEW w \in Workers, worker[w].pc # "idle"
  PROVE  worker[w].tok \in Known /\ worker[w].tok \in Token
<1>1. worker[w] \in [pc : Busy, tok : Token]
  BY BusyHasToken
<1>2. worker[w] # Idle
  BY DEF Idle
<1> QED
  BY <1>1, <1>2 DEF Known

LEMMA KnownType == TypeOK => Known \subseteq Token
<1> SUFFICES ASSUME TypeOK, NEW w \in Workers, worker[w] # Idle
             PROVE  worker[w].tok \in Token
  BY DEF Known, TypeOK
<1> QED
  BY DEF TypeOK

\* A step that leaves the keys and the sids alone, brings up no new token and
\* lets no thread touch the token of a pending login keeps the invariant.
LEMMA QuietStep ==
  ASSUME TypeOK, SessionInv, clock' \in Nat, clock <= clock',
         UNCHANGED <<store, used, confirmed, gone>>,
         Known' \subseteq Known,
         \A w \in Workers : Pending(w)' =>
           /\ Pending(w)
           /\ worker'[w] = worker[w]
           /\ worker[w].tok \notin tokens'
           /\ \A v \in Workers \ {w} : worker'[v].tok # worker[w].tok
  PROVE  SessionInv'
<1>1. SidsWereDrawn' /\ OneTokenPerSid' /\ OwnerIsSubject' /\ SessionOutlivesToken'
  BY DEF SessionInv, SidsWereDrawn, OneTokenPerSid, OwnerIsSubject, SessionOutlivesToken
<1>2. RemovedStaysRemoved'
  BY DEF SessionInv, RemovedStaysRemoved
<1>3. StoredBeforeKnown'
  <2> SUFFICES ASSUME NEW w \in Workers, Pending(w)'
               PROVE  LET t == worker'[w].tok
                      IN /\ store'[t.sid] = Absent
                         /\ t.sid \notin gone' \cup confirmed'
                         /\ t \notin tokens'
                         /\ \A v \in Workers \ {w} : worker'[v].tok # t
                         /\ t.exp <= clock' + SessionTTL
    BY DEF StoredBeforeKnown
  <2>1. Pending(w) /\ worker'[w] = worker[w]
    OBVIOUS
  <2>2. worker[w].tok.exp <= clock + SessionTTL
    BY <2>1 DEF SessionInv, StoredBeforeKnown
  <2>3. worker[w].tok.exp \in Nat /\ clock \in Nat
    BY <2>1, HeldTokenIsKnown, MaxClockAssumption DEF Pending, Token, TypeOK, RedisTypeOK
  <2> QED
    BY <2>1, <2>2, <2>3, TTLAssumption DEF SessionInv, StoredBeforeKnown
<1> QED
  BY <1>1, <1>2, <1>3 DEF SessionInv

LEMMA InitInv == Init => SessionInv
BY DEF Init, RedisInit, SessionInv, SidsWereDrawn, OneTokenPerSid, OwnerIsSubject,
       StoredBeforeKnown, RemovedStaysRemoved, SessionOutlivesToken, Known, Idle, Pending

\* Drawing a sid and building its token.
LEMMA LoginBeginKeepsInv ==
  ASSUME TypeOK, SessionInv, NEW w \in Workers, NEW u \in Users, LoginBegin(w, u)
  PROVE  SessionInv'
<1>1. PICK s \in Sids \ used : /\ Begin(w, "store", BuildToken(u, s))
                               /\ used' = used \cup {s}
  BY DEF LoginBegin
<1> DEFINE t == BuildToken(u, s)
<1>2. /\ UNCHANGED <<clock, store, link, tokens, confirmed, gone, loggedOut>>
      /\ worker[w] = Idle
      /\ worker' = [worker EXCEPT ![w] = [pc |-> "store", tok |-> t]]
  BY <1>1 DEF LoginBegin, Begin, history
<1>3. t \in Token /\ t.sid = s /\ t.sub = u /\ t.exp <= clock + TokenTTL
  BY BuildTokenType DEF BuildToken
<1> HIDE DEF t
<1>4. Known' = Known \cup {t}
  BY <1>2 DEF Known, TypeOK, Idle
<1>5. \A k \in Known : k.sid # s /\ k \in Token
  BY KnownType DEF SessionInv, SidsWereDrawn
<1>6. store[s] = Absent /\ s \notin gone \cup confirmed
  BY DEF SessionInv, SidsWereDrawn
<1>7. SidsWereDrawn'
  BY <1>1, <1>2, <1>3, <1>4 DEF SessionInv, SidsWereDrawn
<1>8. OneTokenPerSid'
  BY <1>3, <1>4, <1>5 DEF SessionInv, OneTokenPerSid
<1>9. OwnerIsSubject' /\ SessionOutlivesToken'
  BY <1>2, <1>3, <1>4, <1>6 DEF SessionInv, OwnerIsSubject, SessionOutlivesToken
<1>10. RemovedStaysRemoved'
  BY <1>2 DEF SessionInv, RemovedStaysRemoved
<1>11. StoredBeforeKnown'
  <2> SUFFICES ASSUME NEW x \in Workers, worker'[x].pc = "store"
               PROVE  LET k == worker'[x].tok
                      IN /\ store'[k.sid] = Absent
                         /\ k.sid \notin gone' \cup confirmed'
                         /\ k \notin tokens'
                         /\ \A v \in Workers \ {x} : worker'[v].tok # k
                         /\ k.exp <= clock' + SessionTTL
    BY DEF StoredBeforeKnown, Pending
  <2>1. \A v \in Workers \ {w} : worker'[v] = worker[v] /\ worker'[v].tok # t
    <3> SUFFICES ASSUME NEW v \in Workers \ {w}
                 PROVE  worker'[v] = worker[v] /\ worker'[v].tok # t
      OBVIOUS
    <3>1. worker'[v] = worker[v]
      BY <1>2 DEF TypeOK
    <3>2. CASE worker[v] = Idle
      BY <1>3, <3>1, <3>2, TokenAssumption DEF Idle
    <3>3. CASE worker[v] # Idle
      BY <1>3, <1>5, <3>1, <3>3 DEF Known
    <3> QED
      BY <3>1, <3>2, <3>3
  <2>2. CASE x = w
    <3>1. worker'[x].tok = t
      BY <1>2, <2>2 DEF TypeOK
    <3>2. t \notin tokens
      BY <1>3, <1>5 DEF Known
    <3>3. t.exp <= clock + SessionTTL
      BY <1>3, TTLAssumption, MaxClockAssumption DEF TypeOK, RedisTypeOK, Token
    <3> QED
      BY <1>2, <1>3, <1>6, <2>1, <2>2, <3>1, <3>2, <3>3
  <2>3. CASE x # w
    <3>1. worker'[x] = worker[x] /\ Pending(x)
      BY <2>1, <2>3 DEF Pending
    <3>2. worker'[w].tok # worker[x].tok
      BY <1>2, <2>1, <2>3 DEF TypeOK
    <3> QED
      BY <1>2, <2>1, <3>1, <3>2 DEF SessionInv, StoredBeforeKnown
  <2> QED
    BY <2>2, <2>3
<1> QED
  BY <1>7, <1>8, <1>9, <1>10, <1>11 DEF SessionInv

\* Storing the session of a login under its own sid.
LEMMA LoginStoreKeepsInv ==
  ASSUME TypeOK, SessionInv, NEW w \in Workers, LoginStore(w)
  PROVE  SessionInv'
<1> DEFINE t == worker[w].tok
<1>1. PICK ok \in BOOLEAN :
        /\ Set(t.sid, t.sub, SessionTTL, ok)
        /\ confirmed' = IF ok THEN confirmed \cup {t.sid} ELSE confirmed
  BY DEF LoginStore
<1>2. /\ Pending(w) /\ UNCHANGED <<clock, used, tokens, gone, loggedOut>>
      /\ worker' = [worker EXCEPT ![w].pc = "issued"]
  BY DEF LoginStore, Goto, Pending
<1>3. t \in Known /\ t \in Token
  BY <1>2, HeldTokenIsKnown DEF Pending
<1>4. /\ store[t.sid] = Absent
      /\ t.sid \notin gone \cup confirmed
      /\ t.exp <= clock + SessionTTL
      /\ \A v \in Workers \ {w} : worker[v].tok # t
  BY <1>2 DEF SessionInv, StoredBeforeKnown
<1> HIDE DEF t
<1>5. /\ \A s \in Sids : s # t.sid => store'[s] = store[s]
      /\ \/ store'[t.sid] = [value |-> t.sub, expires |-> clock + SessionTTL]
         \/ store'[t.sid] = Absent /\ ~ok
  BY <1>1, <1>3, <1>4 DEF Set, TypeOK, RedisTypeOK, Token
<1>6. /\ worker'[w].tok = t
      /\ worker'[w].pc = "issued"
      /\ \A v \in Workers \ {w} : worker'[v] = worker[v]
  BY <1>2, BusyHasToken DEF Pending, TypeOK, t
<1>7. Known' \subseteq Known
  BY <1>2, <1>3, <1>6 DEF Known
<1>8. SidsWereDrawn'
  BY <1>1, <1>2, <1>3, <1>5, <1>7 DEF SessionInv, SidsWereDrawn
<1>9. OneTokenPerSid'
  BY <1>7 DEF SessionInv, OneTokenPerSid
<1>10. \A k \in Known' : k \in Token /\ (k.sid = t.sid => k = t)
  BY <1>3, <1>7, KnownType DEF SessionInv, OneTokenPerSid
<1>11. OwnerIsSubject'
  BY <1>5, <1>7, <1>10 DEF SessionInv, OwnerIsSubject, Token
<1>12. RemovedStaysRemoved'
  BY <1>2, <1>4, <1>5 DEF SessionInv, RemovedStaysRemoved, TypeOK
<1>13. SessionOutlivesToken'
  <2> SUFFICES ASSUME NEW k \in Known', k.sid \in confirmed' \ gone'
               PROVE  store'[k.sid] # Absent /\ k.exp <= store'[k.sid].expires
    BY DEF SessionOutlivesToken
  <2>1. CASE k = t
    <3>1. ok
      BY <1>1, <1>4, <2>1
    <3>2. store'[t.sid] = [value |-> t.sub, expires |-> clock + SessionTTL]
      BY <1>5, <3>1
    <3>3. store'[t.sid] \in Entry
      BY <1>3, <3>2, TTLAssumption, MaxClockAssumption DEF Token, Entry, TypeOK, RedisTypeOK
    <3> QED
      BY <1>4, <2>1, <3>2, <3>3, AbsentAssumption
  <2>2. CASE k # t
    <3>1. k.sid # t.sid /\ k.sid \in Sids
      BY <1>10, <2>2 DEF Token
    <3>2. k.sid \in confirmed \ gone /\ store'[k.sid] = store[k.sid]
      BY <1>1, <1>2, <1>5, <3>1
    <3> QED
      BY <1>7, <3>2 DEF SessionInv, SessionOutlivesToken
  <2> QED
    BY <2>1, <2>2
<1>14. StoredBeforeKnown'
  <2> SUFFICES ASSUME NEW x \in Workers, worker'[x].pc = "store"
               PROVE  LET k == worker'[x].tok
                      IN /\ store'[k.sid] = Absent
                         /\ k.sid \notin gone' \cup confirmed'
                         /\ k \notin tokens'
                         /\ \A v \in Workers \ {x} : worker'[v].tok # k
                         /\ k.exp <= clock' + SessionTTL
    BY DEF StoredBeforeKnown, Pending
  <2>1. x # w /\ worker'[x] = worker[x] /\ Pending(x)
    BY <1>6 DEF Pending
  <2>2. worker[x].tok \in Known /\ worker[x].tok \in Token /\ worker[x].tok # t
    BY <1>4, <2>1, HeldTokenIsKnown DEF Pending
  <2>3. worker[x].tok.sid # t.sid
    BY <1>3, <2>2 DEF SessionInv, OneTokenPerSid
  <2>4. \A v \in Workers \ {x} : worker'[v].tok # worker[x].tok
    BY <1>6, <2>1, <2>2 DEF SessionInv, StoredBeforeKnown
  <2> QED
    BY <1>1, <1>2, <1>5, <2>1, <2>2, <2>3, <2>4 DEF SessionInv, StoredBeforeKnown, Token
<1> QED
  BY <1>8, <1>9, <1>11, <1>12, <1>13, <1>14 DEF SessionInv

\* Losing one key, to DEL or to an eviction, when no pending login owns it.
LEMMA RemovalKeepsInv ==
  ASSUME TypeOK, SessionInv, NEW s \in Sids,
         UNCHANGED <<clock, used, tokens, confirmed>>,
         store' = [store EXCEPT ![s] = Absent], gone' = gone \cup {s}, s \in used,
         \A w \in Workers : worker'[w].pc = "store" => worker'[w] = worker[w],
         \A w \in Workers : worker'[w].tok = worker[w].tok \/ worker'[w] = worker[w],
         \A w \in Workers : worker'[w] # Idle => worker[w] # Idle,
         \A w \in Workers : Pending(w) => worker[w].tok.sid # s
  PROVE  SessionInv'
<1>1. Known' \subseteq Known
  BY DEF Known
<1>2. \A k \in Sids : store'[k] = IF k = s THEN Absent ELSE store[k]
  BY DEF TypeOK, RedisTypeOK
<1>3. \A k \in Known : k.sid \in Sids
  BY KnownType DEF Token
<1>4. SidsWereDrawn' /\ OneTokenPerSid'
  BY <1>1, <1>2 DEF SessionInv, SidsWereDrawn, OneTokenPerSid
<1>5. OwnerIsSubject' /\ SessionOutlivesToken'
  BY <1>1, <1>2, <1>3 DEF SessionInv, OwnerIsSubject, SessionOutlivesToken
<1>6. RemovedStaysRemoved'
  BY <1>2 DEF SessionInv, RemovedStaysRemoved, TypeOK
<1>7. StoredBeforeKnown'
  <2> SUFFICES ASSUME NEW x \in Workers, worker'[x].pc = "store"
               PROVE  LET k == worker'[x].tok
                      IN /\ store'[k.sid] = Absent
                         /\ k.sid \notin gone' \cup confirmed'
                         /\ k \notin tokens'
                         /\ \A v \in Workers \ {x} : worker'[v].tok # k
                         /\ k.exp <= clock' + SessionTTL
    BY DEF StoredBeforeKnown, Pending
  <2>1. worker'[x] = worker[x] /\ Pending(x) /\ worker[x].tok.sid # s
    BY DEF Pending
  <2>2. worker[x].tok \in Token
    BY <2>1, HeldTokenIsKnown DEF Pending
  <2>3. \A v \in Workers \ {x} : worker'[v].tok # worker[x].tok
    BY <2>1 DEF SessionInv, StoredBeforeKnown
  <2> QED
    BY <1>2, <2>1, <2>2, <2>3 DEF SessionInv, StoredBeforeKnown, Token
<1> QED
  BY <1>4, <1>5, <1>6, <1>7 DEF SessionInv

\* Whether Redis executes the DEL of a logout or not, no other thread is
\* about to store that session.
LEMMA LogoutDelKeepsInv ==
  ASSUME TypeOK, TypeOK', SessionInv, NEW w \in Workers, LogoutDel(w)
  PROVE  SessionInv'
<1> DEFINE s == worker[w].tok.sid
<1>1. /\ worker[w].pc = "del"
      /\ worker' = [worker EXCEPT ![w].pc = "deleted"]
      /\ UNCHANGED <<clock, used, tokens, confirmed>>
      /\ gone' = IF store'[s] = Absent THEN gone \cup {s} ELSE gone
      /\ store' \in {[store EXCEPT ![s] = Absent], store}
  BY DEF LogoutDel, Goto, Del
<1>2. worker[w].tok \in Known /\ worker[w].tok \in Token
  BY <1>1, HeldTokenIsKnown
<1>3. /\ s \in Sids \cap used
      /\ worker'[w].tok = worker[w].tok
      /\ worker'[w].pc = "deleted"
      /\ \A v \in Workers \ {w} : worker'[v] = worker[v]
      /\ worker[w] # Idle
  BY <1>1, <1>2, BusyHasToken DEF SessionInv, SidsWereDrawn, TypeOK, Token, Idle
<1>4. \A x \in Workers : Pending(x) => worker[x].tok.sid # s
  <2> SUFFICES ASSUME NEW x \in Workers, Pending(x) PROVE worker[x].tok.sid # s
    OBVIOUS
  <2>1. x # w
    BY <1>1 DEF Pending
  <2>2. worker[x].tok \in Known /\ worker[w].tok # worker[x].tok
    BY <2>1, HeldTokenIsKnown DEF SessionInv, StoredBeforeKnown, Pending
  <2> QED
    BY <1>2, <2>2 DEF SessionInv, OneTokenPerSid
<1>5. CASE store' = [store EXCEPT ![s] = Absent]
  <2>1. store'[s] = Absent
    BY <1>3, <1>5 DEF TypeOK, RedisTypeOK
  <2> QED
    BY <1>1, <1>3, <1>4, <1>5, <2>1, RemovalKeepsInv
<1>6. CASE store' = store /\ store[s] = Absent
  <2>1. store' = [store EXCEPT ![s] = Absent]
    BY <1>6 DEF TypeOK, RedisTypeOK
  <2> QED
    BY <1>5, <2>1
<1>7. CASE store' = store /\ store[s] # Absent
  <2>1. Known' \subseteq Known
    BY <1>1, <1>2, <1>3 DEF Known
  <2>2. ASSUME NEW x \in Workers, Pending(x)'
        PROVE  /\ Pending(x)
               /\ worker'[x] = worker[x]
               /\ worker[x].tok \notin tokens'
               /\ \A v \in Workers \ {x} : worker'[v].tok # worker[x].tok
    BY <1>1, <1>3, <2>2 DEF Pending, SessionInv, StoredBeforeKnown
  <2>3. clock \in Nat
    BY MaxClockAssumption DEF TypeOK, RedisTypeOK
  <2> QED
    BY <1>1, <1>7, <2>1, <2>2, <2>3, QuietStep
<1> QED
  BY <1>1, <1>5, <1>6, <1>7

\* Every step keeps the invariant, one case per action.
LEMMA StepKeepsInv == TypeOK /\ TypeOK' /\ SessionInv /\ [Next]_vars => SessionInv'
<1> SUFFICES ASSUME TypeOK, TypeOK', SessionInv, [Next]_vars PROVE SessionInv'
  OBVIOUS
<1>n. clock \in Nat /\ clock' \in Nat
  BY MaxClockAssumption DEF TypeOK, RedisTypeOK
<1>1. ASSUME NEW w \in Workers, NEW u \in Users, LoginBegin(w, u)
      PROVE  SessionInv'
  BY <1>1, LoginBeginKeepsInv
<1>2. ASSUME NEW w \in Workers, LoginStore(w)
      PROVE  SessionInv'
  BY <1>2, LoginStoreKeepsInv
<1>3. ASSUME NEW w \in Workers,
             LoginReply(w) \/ VerifyGet(w) \/ Finish(w) \/ LogoutReply(w)
      PROVE  SessionInv'
  <2>1. /\ worker[w].pc \in Busy \ {"store"}
        /\ UNCHANGED <<clock, store, used, confirmed, gone>>
        /\ tokens' \subseteq tokens \cup {worker[w].tok}
    BY <1>3 DEF LoginReply, VerifyGet, Finish, LogoutReply, Get, Busy, history
  <2>2. /\ \A v \in Workers \ {w} : worker'[v] = worker[v]
        /\ worker'[w] = Idle \/ (worker'[w].tok = worker[w].tok /\ worker'[w].pc = "admitted")
    <3>1. worker[w] \in [pc : Busy, tok : Token]
      BY <2>1, BusyHasToken DEF Busy
    <3> QED
      BY <1>3, <3>1 DEF LoginReply, VerifyGet, Finish, LogoutReply, Goto, TypeOK
  <2>3. worker[w].tok \in Known /\ worker[w].tok \in Token
    BY <2>1, HeldTokenIsKnown DEF Busy
  <2>4. Known' \subseteq Known
    BY <2>1, <2>2, <2>3 DEF Known
  <2>5. ASSUME NEW x \in Workers, Pending(x)'
        PROVE  /\ Pending(x)
               /\ worker'[x] = worker[x]
               /\ worker[x].tok \notin tokens'
               /\ \A v \in Workers \ {x} : worker'[v].tok # worker[x].tok
    <3>1. x # w /\ worker'[x] = worker[x] /\ Pending(x)
      BY <2>2, <2>5 DEF Pending, Idle
    <3>2. worker[x].tok \in Token
      BY <3>1, HeldTokenIsKnown DEF Pending
    <3> QED
      BY <2>1, <2>2, <3>1, <3>2, TokenAssumption DEF SessionInv, StoredBeforeKnown, Idle
  <2> QED
    BY <1>n, <2>1, <2>4, <2>5, QuietStep
<1>4. ASSUME NEW w \in Workers, NEW k \in tokens, VerifyBegin(w, k) \/ LogoutBegin(w, k)
      PROVE  SessionInv'
  <2>1. /\ UNCHANGED <<clock, store, used, tokens, confirmed, gone>>
        /\ worker'[w].tok = k /\ worker'[w].pc # "store"
        /\ \A v \in Workers \ {w} : worker'[v] = worker[v]
    BY <1>4 DEF VerifyBegin, LogoutBegin, Begin, history, TypeOK
  <2>2. Known' \subseteq Known
    BY <2>1 DEF Known
  <2>3. ASSUME NEW x \in Workers, Pending(x)'
        PROVE  /\ Pending(x)
               /\ worker'[x] = worker[x]
               /\ worker[x].tok \notin tokens'
               /\ \A v \in Workers \ {x} : worker'[v].tok # worker[x].tok
    BY <2>1, <2>3 DEF SessionInv, StoredBeforeKnown, Pending
  <2> QED
    BY <1>n, <2>1, <2>2, <2>3, QuietStep
<1>5. ASSUME NEW w \in Workers, LogoutDel(w)
      PROVE  SessionInv'
  BY <1>5, LogoutDelKeepsInv
<1>6. CASE Time \/ UNCHANGED vars
  <2>1. UNCHANGED <<store, used, worker, tokens, confirmed, gone>> /\ clock <= clock'
    BY <1>6, <1>n DEF Time, Tick, history, vars
  <2>2. Known' = Known
    BY <2>1 DEF Known
  <2> QED
    BY <1>n, <2>1, <2>2, QuietStep DEF SessionInv, StoredBeforeKnown, Pending
<1>7. CASE Restart
  <2>1. /\ UNCHANGED <<clock, store, used, tokens, confirmed, gone>>
        /\ \A x \in Workers : worker'[x] = Idle
    BY <1>7 DEF Restart, Connect, history
  <2>2. Known' \subseteq Known
    BY <2>1 DEF Known
  <2>3. \A x \in Workers : ~Pending(x)'
    BY <2>1 DEF Pending, Idle
  <2> QED
    BY <1>n, <2>1, <2>2, <2>3, QuietStep
<1>8. ASSUME NEW s \in Sids, Eviction(s)
      PROVE  SessionInv'
  <2>1. /\ store[s] # Absent /\ store' = [store EXCEPT ![s] = Absent] /\ gone' = gone \cup {s}
        /\ UNCHANGED <<clock, used, worker, tokens, confirmed>>
    BY <1>8 DEF Eviction, Evict
  <2>2. \A x \in Workers : Pending(x) => worker[x].tok.sid # s
    BY <2>1 DEF SessionInv, StoredBeforeKnown
  <2>3. s \in used
    BY <2>1 DEF SessionInv, SidsWereDrawn
  <2> QED
    BY <2>1, <2>2, <2>3, RemovalKeepsInv
<1> QED
  BY <1>1, <1>2, <1>3, <1>4, <1>5, <1>6, <1>7, <1>8 DEF Next

\* The sid of a login is private to it until its SETEX is over, so that a
\* removed session key stays removed and a confirmed one outlives its token.
THEOREM SessionInvariant == Spec => [](TypeOK /\ SessionInv)
<1>1. Init => TypeOK /\ SessionInv
  BY InitType, InitInv
<1>2. TypeOK /\ SessionInv /\ [Next]_vars => (TypeOK /\ SessionInv)'
  BY StepKeepsType, StepKeepsInv
<1> QED
  BY <1>1, <1>2, PTL DEF Spec

----------------------------------------------------------------------------
(* The properties                                                          *)

\* The token a client holds finds its session, once confirmed and unless
\* removed, until the token expires.
THEOREM ConfirmedUsable == Spec => []ConfirmedSessionUsable
<1>1. TypeOK /\ SessionInv => ConfirmedSessionUsable
  <2> SUFFICES ASSUME TypeOK, SessionInv, NEW t \in tokens,
                      t.sid \in confirmed \ gone, clock <= t.exp
               PROVE  Live(t.sid)
    BY DEF ConfirmedSessionUsable
  <2>1. /\ t \in Token
        /\ store[t.sid] # Absent
        /\ t.exp <= store[t.sid].expires
    BY DEF TypeOK, SessionInv, SessionOutlivesToken, Known
  <2>2. store[t.sid] \in Entry
    BY <2>1 DEF TypeOK, RedisTypeOK, Token
  <2> QED
    BY <2>1, <2>2, MaxClockAssumption DEF Live, Token, Entry, TypeOK, RedisTypeOK
<1> QED
  BY <1>1, SessionInvariant, PTL

\* Only verifyToken's GET admits a request, and it found the session live.
LEMMA AdmissionNeedsLiveSession ==
  ASSUME TypeOK, [Next]_vars, NEW w \in Workers, Admitted(w)', ~Admitted(w)
  PROVE  VerifyGet(w) /\ Live(worker[w].tok.sid)
<1>1. VerifyGet(w)
  BY DEF Next, vars, LoginBegin, LoginStore, LoginReply, VerifyBegin, VerifyGet, Finish,
         LogoutBegin, LogoutDel, LogoutReply, Time, Restart, Eviction, Begin, Goto,
         Admitted, Idle, TypeOK
<1> QED
  BY <1>1 DEF VerifyGet, Get, Admitted, Idle, TypeOK

\* No request is admitted for a session whose key DEL or an eviction removed.
THEOREM RemovalIsFinal == Spec => NoAdmissionAfterRemoval
<1>1. TypeOK /\ SessionInv /\ [Next]_vars =>
        [\A w \in Workers : Admitted(w)' /\ ~Admitted(w) => worker[w].tok.sid \notin gone]_vars
  BY AdmissionNeedsLiveSession DEF SessionInv, RemovedStaysRemoved, Live
<1> QED
  BY <1>1, SessionInvariant, PTL DEF Spec, NoAdmissionAfterRemoval

----------------------------------------------------------------------------
(* Sessions implements SessionLifecycle                                    *)

\* Membership in the three sets the refinement mapping builds.
LEMMA MappedSets ==
  /\ \A s, u : <<s, u>> \in OpenSessions <=> s \in Sids /\ Live(s) /\ u = store[s].value
  /\ \A p \in OpenSessions : p = <<p[1], p[2]>>
  /\ \A s : s \in PendingSids <=> \E w \in Workers : Pending(w) /\ s = worker[w].tok.sid
  /\ \A w, s, u : <<w, s, u>> \in AdmittedRequests
       <=> w \in Workers /\ Admitted(w) /\ s = worker[w].tok.sid /\ u = worker[w].tok.sub
  /\ \A a \in AdmittedRequests : a = <<a[1], a[2], a[3]>>
  /\ \A s : s \in Lifecycle!Opened <=> s \in Sids /\ Live(s)
<1>1. \A s, u : <<s, u>> \in OpenSessions <=> s \in Sids /\ Live(s) /\ u = store[s].value
  BY DEF OpenSessions
<1>2. \A p \in OpenSessions : p = <<p[1], p[2]>>
  BY DEF OpenSessions
<1>3. \A s : s \in PendingSids <=> \E w \in Workers : Pending(w) /\ s = worker[w].tok.sid
  BY DEF PendingSids
<1>4. \A w, s, u : <<w, s, u>> \in AdmittedRequests
        <=> w \in Workers /\ Admitted(w) /\ s = worker[w].tok.sid /\ u = worker[w].tok.sub
  BY DEF AdmittedRequests
<1>5. \A a \in AdmittedRequests : a = <<a[1], a[2], a[3]>>
  BY DEF AdmittedRequests
<1>6. \A s : s \in Lifecycle!Opened <=> s \in Sids /\ Live(s)
  <2>1. ASSUME NEW s \in Sids, Live(s)
        PROVE  s \in Lifecycle!Opened
    <3>1. <<s, store[s].value>> \in OpenSessions
      BY <1>1, <2>1
    <3>2. <<s, store[s].value>>[1] = s
      OBVIOUS
    <3> QED
      BY <3>1, <3>2 DEF Lifecycle!Opened
  <2>2. ASSUME NEW s, s \in Lifecycle!Opened
        PROVE  s \in Sids /\ Live(s)
    <3>1. PICK p \in OpenSessions : s = p[1]
      BY <2>2 DEF Lifecycle!Opened
    <3>2. <<s, p[2]>> \in OpenSessions
      BY <1>2, <3>1
    <3> QED
      BY <1>1, <3>2
  <2> QED
    BY <2>1, <2>2
<1> QED
  BY <1>1, <1>2, <1>3, <1>4, <1>5, <1>6

\* Threads that stay on their side of admission change no admitted request.
LEMMA SameAdmitted ==
  ASSUME \A w \in Workers : \/ worker'[w] = worker[w]
                            \/ ~Admitted(w) /\ ~Admitted(w)'
  PROVE  AdmittedRequests' = AdmittedRequests
BY DEF AdmittedRequests, Admitted

\* Neither do keys that stay as they are, at the same time, change the open
\* sessions.
LEMMA SameOpen ==
  ASSUME UNCHANGED <<store, clock>>
  PROVE  OpenSessions' = OpenSessions
BY DEF OpenSessions, Live

\* When a set S of sids ends and no thread enters or leaves the handlers.
LEMMA ClosesSessions ==
  ASSUME NEW S \in SUBSET Sids,
         \A s \in Sids : Live(s)' <=> Live(s) /\ s \notin S,
         \A s \in Sids : Live(s)' => store'[s] = store[s],
         used \subseteq Sids, used' = used, S \subseteq used,
         PendingSids' = PendingSids \ S, PendingSids' \cap S = {},
         \A s \in PendingSids : ~Live(s) /\ s \in used,
         AdmittedRequests' = AdmittedRequests
  PROVE  Lifecycle!Close(S)
<1>1. OpenSessions' = {p \in OpenSessions : p[1] \notin S}
  BY DEF OpenSessions
<1>2. ClosedSessions' = ClosedSessions \cup S
  BY DEF ClosedSessions
<1> QED
  BY <1>1, <1>2 DEF Lifecycle!Close

LEMMA InitRefines == Init => Lifecycle!Init
BY DEF Init, RedisInit, Lifecycle!Init, OpenSessions, ClosedSessions, AdmittedRequests,
       Live, Admitted, Idle

\* A session about to be stored is drawn, and not open.
LEMMA PendingIsNotOpen ==
  ASSUME TypeOK, SessionInv, NEW s \in PendingSids
  PROVE  s \in Sids /\ s \in used /\ ~Live(s) /\ store[s] = Absent
<1>1. PICK w \in Workers : Pending(w) /\ s = worker[w].tok.sid
  BY MappedSets
<1>2. worker[w].tok \in Known /\ worker[w].tok \in Token
  BY <1>1, HeldTokenIsKnown DEF Pending
<1> QED
  BY <1>1, <1>2 DEF SessionInv, SidsWereDrawn, StoredBeforeKnown, Live, Token

\* The steps that neither open nor close a session nor admit a request.
LEMMA StutterRefines ==
  ASSUME UNCHANGED <<store, clock, used>>, PendingSids' = PendingSids,
         AdmittedRequests' = AdmittedRequests
  PROVE  UNCHANGED Lifecycle!vars
BY SameOpen DEF ClosedSessions, Live, Lifecycle!vars

LEMMA LoginBeginRefines ==
  ASSUME TypeOK, SessionInv, NEW w \in Workers, NEW u \in Users, LoginBegin(w, u)
  PROVE  UNCHANGED Lifecycle!vars
<1>1. PICK s \in Sids \ used : /\ Begin(w, "store", BuildToken(u, s))
                               /\ used' = used \cup {s}
  BY DEF LoginBegin
<1>2. /\ UNCHANGED <<clock, store>>
      /\ worker[w] = Idle
      /\ worker'[w].pc = "store" /\ worker'[w].tok.sid = s
      /\ \A v \in Workers \ {w} : worker'[v] = worker[v]
  BY <1>1 DEF LoginBegin, Begin, BuildToken, TypeOK
<1>3. AdmittedRequests' = AdmittedRequests
  BY <1>2, SameAdmitted DEF Admitted, Idle
<1>4. PendingSids' = PendingSids \cup {s}
  BY <1>2 DEF PendingSids, Pending, Idle
<1>5. ClosedSessions' = ClosedSessions
  BY <1>1, <1>2, <1>4 DEF ClosedSessions, Live
<1> QED
  BY <1>2, <1>3, <1>5, SameOpen DEF Lifecycle!vars

\* A stored session opens; one whose SETEX failed never will.
LEMMA LoginStoreRefines ==
  ASSUME TypeOK, SessionInv, NEW w \in Workers, LoginStore(w)
  PROVE  Lifecycle!Next
<1>0. PICK t \in Token : t = worker[w].tok
  BY HeldTokenIsKnown DEF LoginStore
<1> DEFINE s == t.sid
<1>1. PICK ok \in BOOLEAN : Set(t.sid, t.sub, SessionTTL, ok)
  BY <1>0 DEF LoginStore
<1>2. /\ Pending(w) /\ UNCHANGED <<clock, used>>
      /\ worker' = [worker EXCEPT ![w].pc = "issued"]
  BY DEF LoginStore, Goto, Pending
<1>3. t \in Known /\ t \in Token /\ s \in Sids /\ t.sub \in Users
  BY <1>0, <1>2, HeldTokenIsKnown DEF Pending, Token
<1>4. /\ worker'[w].pc = "issued"
      /\ \A v \in Workers \ {w} : worker'[v] = worker[v]
  BY <1>2, BusyHasToken DEF Pending, TypeOK
<1>5. s \in PendingSids /\ s \in used /\ store[s] = Absent /\ ~Live(s)
  BY <1>0, <1>2, MappedSets, PendingIsNotOpen
<1>6. PendingSids' = PendingSids \ {s}
  <2>1. \A v \in Workers \ {w} : Pending(v) => worker[v].tok.sid # s
    BY <1>0, <1>2, <1>3, HeldTokenIsKnown DEF SessionInv, StoredBeforeKnown, OneTokenPerSid, Pending
  <2> QED
    BY <1>0, <1>2, <1>4, <2>1 DEF PendingSids, Pending
<1>7. AdmittedRequests' = AdmittedRequests
  BY <1>2, <1>4, SameAdmitted DEF Admitted, Pending
<1>8. CASE store' = [store EXCEPT ![s] = [value |-> t.sub, expires |-> clock + SessionTTL]]
  <2>1. /\ store'[s].value = t.sub /\ store'[s].expires = clock + SessionTTL
        /\ store'[s] \in Entry
        /\ \A k \in Sids \ {s} : store'[k] = store[k]
    BY <1>3, <1>8, TTLAssumption, MaxClockAssumption DEF TypeOK, RedisTypeOK, Entry
  <2>2. Live(s)' /\ \A k \in Sids \ {s} : Live(k)' <=> Live(k)
    BY <1>2, <2>1, TTLAssumption, MaxClockAssumption, AbsentAssumption
       DEF Live, TypeOK, RedisTypeOK
  <2>3. OpenSessions' = OpenSessions \cup {<<s, t.sub>>}
    <3>1. /\ \A k \in Sids : Live(k)' <=> Live(k) \/ k = s
          /\ \A k \in Sids : Live(k) => store'[k] = store[k]
      BY <1>5, <2>1, <2>2
    <3>2. /\ OpenSessions' = {<<k, store'[k].value>> : k \in {j \in Sids : Live(j)'}}
          /\ OpenSessions = {<<k, store'[k].value>> : k \in {j \in Sids : Live(j)}}
      BY <3>1 DEF OpenSessions
    <3>3. {j \in Sids : Live(j)'} = {j \in Sids : Live(j)} \cup {s}
      BY <1>3, <3>1
    <3> QED
      BY <2>1, <3>2, <3>3
  <2>4. ClosedSessions' = ClosedSessions
    <3>1. used \subseteq Sids
      BY DEF TypeOK
    <3> QED
      BY <1>2, <1>5, <1>6, <2>2, <3>1 DEF ClosedSessions
  <2>5. s \notin Lifecycle!Opened \cup ClosedSessions
    BY <1>5, MappedSets DEF ClosedSessions
  <2>6. Lifecycle!Open(s, t.sub)
    BY <1>7, <2>3, <2>4, <2>5 DEF Lifecycle!Open
  <2> QED
    BY <1>3, <2>6 DEF Lifecycle!Next
<1>9. CASE UNCHANGED store
  <2>1. \A k \in PendingSids : ~Live(k) /\ k \in used
    BY PendingIsNotOpen
  <2>2. \A k \in Sids : Live(k)' <=> Live(k)
    BY <1>2, <1>9 DEF Live
  <2>3. {s} \in SUBSET Sids /\ {s} \subseteq used /\ used \subseteq Sids
    BY <1>3, <1>5 DEF TypeOK
  <2>4. Lifecycle!Close({s})
    BY <1>2, <1>5, <1>6, <1>7, <1>9, <2>1, <2>2, <2>3, ClosesSessions
  <2> QED
    BY <2>3, <2>4 DEF Lifecycle!Next
<1> QED
  BY <1>1, <1>8, <1>9 DEF Set

\* The GET that finds the session admits the request, in its owner's name.
LEMMA VerifyGetRefines ==
  ASSUME TypeOK, NEW w \in Workers, VerifyGet(w)
  PROVE  Lifecycle!Next \/ UNCHANGED Lifecycle!vars
<1>0. PICK t \in Token : t = worker[w].tok
  BY HeldTokenIsKnown DEF VerifyGet
<1>1. PICK hit \in BOOLEAN :
        /\ Get(t.sid, hit)
        /\ IF hit /\ store[t.sid].value = t.sub
           THEN Goto(w, "admitted")
           ELSE worker' = [worker EXCEPT ![w] = Idle]
  BY <1>0 DEF VerifyGet
<1>2. /\ worker[w].pc = "get"
      /\ UNCHANGED <<store, clock, used>>
      /\ \A v \in Workers \ {w} : worker'[v] = worker[v]
      /\ worker'[w].pc # "store"
  BY <1>1 DEF VerifyGet, Get, Goto, TypeOK, Idle
<1>3. PendingSids' = PendingSids
  BY <1>2 DEF PendingSids, Pending
<1>4. CASE hit /\ store[t.sid].value = t.sub
  <2>1. worker'[w].pc = "admitted" /\ worker'[w].tok = t
    BY <1>0, <1>1, <1>2, <1>4, BusyHasToken DEF Goto, TypeOK
  <2>2. <<t.sid, t.sub>> \in OpenSessions
    BY <1>1, <1>4, MappedSets DEF Get, Token
  <2>3. AdmittedRequests' = AdmittedRequests \cup {<<w, t.sid, t.sub>>}
    BY <1>2, <2>1 DEF AdmittedRequests, Admitted
  <2>4. OpenSessions' = OpenSessions /\ ClosedSessions' = ClosedSessions
    BY <1>2, <1>3, SameOpen DEF ClosedSessions, Live
  <2>5. Lifecycle!Admit(w, t.sid, t.sub)
    BY <2>2, <2>3, <2>4 DEF Lifecycle!Admit
  <2> QED
    BY <2>5 DEF Lifecycle!Next, Token
<1>5. CASE worker' = [worker EXCEPT ![w] = Idle]
  <2>1. AdmittedRequests' = AdmittedRequests
    BY <1>2, <1>5, SameAdmitted DEF Admitted, Idle, TypeOK
  <2> QED
    BY <1>2, <1>3, <2>1, StutterRefines
<1> QED
  BY <1>1, <1>4, <1>5

LEMMA FinishRefines ==
  ASSUME TypeOK, NEW w \in Workers, Finish(w)
  PROVE  Lifecycle!Next
<1>1. /\ UNCHANGED <<store, clock, used>> /\ Admitted(w) /\ worker'[w] = Idle
      /\ \A v \in Workers \ {w} : worker'[v] = worker[v]
  BY DEF Finish, TypeOK, Admitted
<1>2. PendingSids' = PendingSids
  BY <1>1 DEF PendingSids, Pending, Admitted, Idle
<1>3. OpenSessions' = OpenSessions /\ ClosedSessions' = ClosedSessions
  BY <1>1, <1>2, SameOpen DEF ClosedSessions, Live
<1>4. AdmittedRequests' = {a \in AdmittedRequests : a[1] # w}
  <2>1. \A v \in Workers : Admitted(v)' <=> Admitted(v) /\ v # w
    BY <1>1 DEF Admitted, Idle
  <2>2. ASSUME NEW a \in AdmittedRequests' PROVE a \in AdmittedRequests /\ a[1] # w
    BY <1>1, <2>1 DEF AdmittedRequests
  <2>3. ASSUME NEW a \in AdmittedRequests, a[1] # w PROVE a \in AdmittedRequests'
    BY <1>1, <2>1, <2>3 DEF AdmittedRequests
  <2> QED
    BY <2>2, <2>3
<1> QED
  BY <1>3, <1>4 DEF Lifecycle!Next, Lifecycle!Release

\* A key removed by DEL or by an eviction closes its session.
LEMMA RemovalCloses ==
  ASSUME TypeOK, SessionInv, NEW s \in used, s \notin PendingSids,
         UNCHANGED <<clock, used>>, store' = [store EXCEPT ![s] = Absent],
         PendingSids' = PendingSids, AdmittedRequests' = AdmittedRequests
  PROVE  Lifecycle!Next
<1>1. \A k \in Sids : store'[k] = IF k = s THEN Absent ELSE store[k]
  BY DEF TypeOK, RedisTypeOK
<1>2. \A k \in Sids : Live(k)' <=> Live(k) /\ k \notin {s}
  BY <1>1 DEF Live
<1>3. \A k \in Sids : Live(k)' => store'[k] = store[k]
  BY <1>1, <1>2
<1>4. {s} \in SUBSET Sids /\ {s} \subseteq used /\ used \subseteq Sids
  BY DEF TypeOK
<1>5. \A k \in PendingSids : ~Live(k) /\ k \in used
  BY PendingIsNotOpen
<1>6. Lifecycle!Close({s})
  BY <1>2, <1>3, <1>4, <1>5, ClosesSessions
<1> QED
  BY <1>4, <1>6 DEF Lifecycle!Next

LEMMA LogoutDelRefines ==
  ASSUME TypeOK, SessionInv, NEW w \in Workers, LogoutDel(w)
  PROVE  Lifecycle!Next \/ UNCHANGED Lifecycle!vars
<1>0. PICK t \in Token : t = worker[w].tok
  BY HeldTokenIsKnown DEF LogoutDel
<1> DEFINE s == t.sid
<1>1. /\ worker[w].pc = "del"
      /\ worker' = [worker EXCEPT ![w].pc = "deleted"]
      /\ UNCHANGED <<clock, used>>
      /\ store' = [store EXCEPT ![s] = Absent] \/ UNCHANGED store
  BY <1>0 DEF LogoutDel, Goto, Del
<1>2. /\ worker'[w].pc = "deleted"
      /\ \A v \in Workers \ {w} : worker'[v] = worker[v]
  BY <1>1, BusyHasToken DEF TypeOK
<1>3. PendingSids' = PendingSids /\ AdmittedRequests' = AdmittedRequests
  <2>1. PendingSids' = PendingSids
    BY <1>1, <1>2 DEF PendingSids, Pending
  <2> QED
    BY <1>1, <1>2, <2>1, SameAdmitted DEF Admitted
<1>4. s \in used /\ s \notin PendingSids
  <2>1. t \in Known
    BY <1>0, <1>1, HeldTokenIsKnown
  <2>2. ASSUME NEW x \in Workers, Pending(x) PROVE worker[x].tok.sid # s
    <3>1. worker[x].tok \in Known /\ worker[x].tok # t
      BY <1>0, <1>1, <2>2, HeldTokenIsKnown DEF SessionInv, StoredBeforeKnown, Pending
    <3> QED
      BY <2>1, <3>1 DEF SessionInv, OneTokenPerSid
  <2> QED
    BY <2>1, <2>2, MappedSets DEF SessionInv, SidsWereDrawn
<1> QED
  BY <1>1, <1>3, <1>4, RemovalCloses, StutterRefines

\* Time closes the sessions whose time to live passes.
LEMMA TimeRefines ==
  ASSUME TypeOK, SessionInv, Time
  PROVE  Lifecycle!Next
<1>1. /\ clock \in Nat /\ clock' = clock + 1
      /\ UNCHANGED <<store, used, worker>>
  BY MaxClockAssumption DEF Time, Tick, TypeOK, RedisTypeOK
<1>2. PICK S : S = {s \in Sids : Live(s) /\ ~Live(s)'}
  OBVIOUS
<1>3. \A s \in Sids : Live(s)' => Live(s)
  BY <1>1, AbsentAssumption DEF Live, TypeOK, RedisTypeOK, Entry
<1>4. PendingSids' = PendingSids /\ AdmittedRequests' = AdmittedRequests
  BY <1>1, SameAdmitted DEF PendingSids, Pending
<1>5. \A s \in PendingSids : ~Live(s) /\ s \in used
  BY PendingIsNotOpen
<1>6. S \in SUBSET Sids /\ S \subseteq used /\ used \subseteq Sids
  BY <1>2 DEF SessionInv, SidsWereDrawn, Live, TypeOK
<1>7. /\ \A s \in Sids : Live(s)' <=> Live(s) /\ s \notin S
      /\ PendingSids' = PendingSids \ S /\ PendingSids' \cap S = {}
  BY <1>2, <1>3, <1>4, <1>5
<1>8. Lifecycle!Close(S)
  BY <1>1, <1>4, <1>5, <1>6, <1>7, ClosesSessions
<1> QED
  BY <1>6, <1>8 DEF Lifecycle!Next

\* A restart ends the requests under way; the logins among them close.
LEMMA RestartRefines ==
  ASSUME TypeOK, SessionInv, Restart
  PROVE  Lifecycle!Next
<1>1. /\ UNCHANGED <<store, clock, used>>
      /\ \A w \in Workers : worker'[w] = Idle
  BY DEF Restart, Connect
<1>2. PICK S : S = PendingSids
  OBVIOUS
<1>3. PendingSids' = {} /\ AdmittedRequests' = {}
  BY <1>1 DEF PendingSids, Pending, AdmittedRequests, Admitted, Idle
<1>4. \A s \in S : s \in Sids /\ s \in used /\ ~Live(s)
  BY <1>2, PendingIsNotOpen
<1>5. ClosedSessions' = ClosedSessions \cup S
  <2>1. \A s : Live(s)' <=> Live(s)
    BY <1>1 DEF Live
  <2> QED
    BY <1>1, <1>2, <1>3, <1>4, <2>1 DEF ClosedSessions
<1>6. S \cap Lifecycle!Opened = {}
  BY <1>4, MappedSets
<1>7. Lifecycle!Crash(S)
  BY <1>1, <1>3, <1>5, <1>6, SameOpen DEF Lifecycle!Crash
<1> QED
  BY <1>4, <1>7 DEF Lifecycle!Next

LEMMA StepRefines ==
  TypeOK /\ SessionInv /\ [Next]_vars => [Lifecycle!Next]_(Lifecycle!vars)
<1> SUFFICES ASSUME TypeOK, SessionInv, [Next]_vars
             PROVE  Lifecycle!Next \/ UNCHANGED Lifecycle!vars
  OBVIOUS
<1>1. ASSUME NEW w \in Workers, NEW u \in Users, LoginBegin(w, u)
      PROVE  UNCHANGED Lifecycle!vars
  BY <1>1, LoginBeginRefines
<1>2. ASSUME NEW w \in Workers, LoginStore(w)
      PROVE  Lifecycle!Next
  BY <1>2, LoginStoreRefines
<1>3. ASSUME NEW w \in Workers, LoginReply(w) \/ LogoutReply(w)
      PROVE  UNCHANGED Lifecycle!vars
  <2>1. /\ UNCHANGED <<store, clock, used>>
        /\ worker[w].pc \in {"issued", "deleted"} /\ worker'[w] = Idle
        /\ \A v \in Workers \ {w} : worker'[v] = worker[v]
    BY <1>3 DEF LoginReply, LogoutReply, TypeOK
  <2>2. PendingSids' = PendingSids
    BY <2>1 DEF PendingSids, Pending, Idle
  <2>3. AdmittedRequests' = AdmittedRequests
    BY <2>1, SameAdmitted DEF Admitted, Idle
  <2> QED
    BY <2>1, <2>2, <2>3, StutterRefines
<1>4. ASSUME NEW w \in Workers, NEW k \in tokens, VerifyBegin(w, k) \/ LogoutBegin(w, k)
      PROVE  UNCHANGED Lifecycle!vars
  <2>1. /\ UNCHANGED <<store, clock, used>>
        /\ worker[w] = Idle /\ worker'[w].pc \in {"get", "del"}
        /\ \A v \in Workers \ {w} : worker'[v] = worker[v]
    BY <1>4 DEF VerifyBegin, LogoutBegin, Begin, TypeOK
  <2>2. PendingSids' = PendingSids
    BY <2>1 DEF PendingSids, Pending, Idle
  <2>3. AdmittedRequests' = AdmittedRequests
    BY <2>1, SameAdmitted DEF Admitted, Idle
  <2> QED
    BY <2>1, <2>2, <2>3, StutterRefines
<1>5. ASSUME NEW w \in Workers, VerifyGet(w)
      PROVE  Lifecycle!Next \/ UNCHANGED Lifecycle!vars
  BY <1>5, VerifyGetRefines
<1>6. ASSUME NEW w \in Workers, Finish(w)
      PROVE  Lifecycle!Next
  BY <1>6, FinishRefines
<1>7. ASSUME NEW w \in Workers, LogoutDel(w)
      PROVE  Lifecycle!Next \/ UNCHANGED Lifecycle!vars
  BY <1>7, LogoutDelRefines
<1>8. CASE Time
  BY <1>8, TimeRefines
<1>9. CASE Restart
  BY <1>9, RestartRefines
<1>10. ASSUME NEW s \in Sids, Eviction(s)
       PROVE  Lifecycle!Next
  <2>1. /\ store[s] # Absent /\ store' = [store EXCEPT ![s] = Absent]
        /\ UNCHANGED <<clock, used, worker>>
    BY <1>10 DEF Eviction, Evict
  <2>2. PendingSids' = PendingSids /\ AdmittedRequests' = AdmittedRequests
    BY <2>1, SameAdmitted DEF PendingSids, Pending
  <2>3. s \in used /\ s \notin PendingSids
    BY <2>1, PendingIsNotOpen DEF SessionInv, SidsWereDrawn
  <2> QED
    BY <2>1, <2>2, <2>3, RemovalCloses
<1>11. CASE UNCHANGED vars
  <2>1. UNCHANGED <<store, clock, used, worker>>
    BY <1>11 DEF vars
  <2>2. PendingSids' = PendingSids /\ AdmittedRequests' = AdmittedRequests
    BY <2>1, SameAdmitted DEF PendingSids, Pending
  <2> QED
    BY <2>1, <2>2, StutterRefines
<1> QED
  BY <1>1, <1>2, <1>3, <1>4, <1>5, <1>6, <1>7, <1>8, <1>9, <1>10, <1>11 DEF Next

\* AuthManager's handlers, with tokens, Redis, time and failures, behave as
\* sessions that open once, admit only while open and never reopen.
THEOREM SessionsRefineLifecycle == Spec => ImplementsLifecycle
<1>1. TypeOK /\ SessionInv /\ [Next]_vars => [Lifecycle!Next]_(Lifecycle!vars)
  BY StepRefines
<1> QED
  BY <1>1, InitRefines, SessionInvariant, PTL DEF Spec, ImplementsLifecycle, Lifecycle!Spec
=============================================================================
