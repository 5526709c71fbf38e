---------------------------- MODULE ThreadsProof ----------------------------
(* Mutual exclusion on the two sockets, for any number of threads. *)
EXTENDS Threads, TLAPS

Inv == TypeOK /\ ThreadsInv /\ ReplyIsOwn

\* The empty sequence, and what is left of a handler after a call.
LEMMA Sequences ==
  ASSUME NEW S
  PROVE  <<>> \in Seq(S) /\ \A r \in Seq(S) : r # <<>> => Tail(r) \in Seq(S) /\ Head(r) \in S
OBVIOUS

LEMMA HandlersCallStores == Handlers \subseteq Seq(Store)
BY DEF Handlers, Store

LEMMA ThreadsBegin == Init => Inv
<1> SUFFICES ASSUME Init PROVE Inv
  OBVIOUS
<1>1. <<>> \in Seq(Store) /\ <<>> \in Seq(Threads)
  BY Sequences
<1>2. TypeOK
  BY <1>1 DEF Init, TypeOK
<1>3. ThreadsInv /\ ReplyIsOwn
  BY NobodyAssumption DEF Init, ThreadsInv, MutexInv, SocketInv, BrokenIsEmpty, ReplyIsOwn
<1>4. QED BY <1>2, <1>3 DEF Inv

\* One step of a thread.
LEMMA ThreadPreserves ==
  ASSUME Inv, NEW t \in Threads, Arrive(t) \/ Step(t) \/ Answer(t)
  PROVE  Inv'
<1> USE NobodyAssumption DEF Inv, ThreadsInv, ReplyIsOwn, BrokenIsEmpty
<1>1. CASE Arrive(t)
  <2>1. PICK h \in Handlers : todo' = [todo EXCEPT ![t] = h]
    BY <1>1 DEF Arrive
  <2>2. at[t] = "idle" /\ at' = [at EXCEPT ![t] = "run"]
        /\ UNCHANGED <<lock, sent, replies, broken, hung, quiet, got>>
    BY <1>1 DEF Arrive, sockets
  <2>3. TypeOK'
    BY <2>1, <2>2, HandlersCallStores DEF TypeOK
  <2>4. MutexInv'
    BY <2>1, <2>2 DEF TypeOK, MutexInv, Target
  <2>5. SocketInv'
    BY <2>2 DEF TypeOK, SocketInv
  <2>6. QED BY <2>2, <2>3, <2>4, <2>5
<1>2. CASE Acquire(t)
  <2>1. todo[t] # <<>> /\ Target(t) \in Store
    BY <1>2, Sequences DEF Acquire, TypeOK, Target
  <2>2. /\ at[t] = "run" /\ at' = [at EXCEPT ![t] = "locked"]
        /\ lock[Target(t)] = Nobody /\ lock' = [lock EXCEPT ![Target(t)] = t]
        /\ UNCHANGED <<todo, sent, replies, broken, hung, quiet, got>>
    BY <1>2 DEF Acquire, sockets
  <2>3. TypeOK'
    BY <2>1, <2>2 DEF TypeOK
  <2>4. MutexInv'
    BY <2>1, <2>2 DEF TypeOK, MutexInv, Target
  <2>5. SocketInv'
    BY <2>1, <2>2 DEF TypeOK, SocketInv
  <2>6. QED BY <2>2, <2>3, <2>4, <2>5
<1>3. CASE Send(t)
  <2>1. todo[t] # <<>> /\ lock[Target(t)] = t /\ Target(t) \in Store
    BY <1>3, Sequences DEF Send, MutexInv, Target, TypeOK
  <2>2. sent[Target(t)] = <<>> /\ replies[Target(t)] = <<>>
    BY <1>3, <2>1 DEF Send, SocketInv
  <2>3. /\ at[t] = "locked" /\ at' = [at EXCEPT ![t] = "sent"]
        /\ sent' = [sent EXCEPT ![Target(t)] = <<t>>]
        /\ UNCHANGED <<todo, lock, replies, broken, hung, quiet, got>>
    BY <1>3, <2>1, <2>2 DEF Send, TypeOK
  <2>4. TypeOK'
    BY <2>1, <2>3 DEF TypeOK
  <2>5. MutexInv'
    BY <2>3 DEF TypeOK, MutexInv, Target
  <2>6. SocketInv' /\ BrokenIsEmpty'
    <3>1. SocketInv'
      BY <2>1, <2>2, <2>3 DEF TypeOK, SocketInv
    <3>2. Target(t) \notin broken
      BY <1>3 DEF Send
    <3>3. BrokenIsEmpty'
      BY <2>1, <2>3, <3>2 DEF TypeOK
    <3>4. QED BY <3>1, <3>3
  <2>7. QED BY <2>3, <2>4, <2>5, <2>6
<1>4. CASE Receive(t)
  <2> DEFINE s == Target(t)
  <2>1. todo[t] # <<>> /\ lock[s] = t /\ s \in Store /\ Tail(todo[t]) \in Seq(Store)
    BY <1>4, Sequences DEF Receive, MutexInv, Target, TypeOK
  <2>2. sent[s] = <<>> /\ replies[s] = <<t>>
    BY <1>4, <2>1 DEF Receive, SocketInv
  <2>3. /\ at[t] = "sent" /\ at' = [at EXCEPT ![t] = "run"]
        /\ got' = [got EXCEPT ![t] = t]
        /\ replies' = [replies EXCEPT ![s] = <<>>]
        /\ lock' = [lock EXCEPT ![s] = Nobody]
        /\ todo' = [todo EXCEPT ![t] = Tail(todo[t])]
        /\ UNCHANGED <<sent, broken, hung, quiet>>
    BY <1>4, <2>1, <2>2 DEF Receive, Unlock, TypeOK
  <2>4. TypeOK'
    BY <2>1, <2>3 DEF TypeOK
  <2>5. MutexInv'
    BY <2>1, <2>3 DEF TypeOK, MutexInv, Target
  <2>6. SocketInv' /\ BrokenIsEmpty'
    <3>1. ASSUME NEW x \in Store, x # s, lock[x] # Nobody PROVE lock[x] # t
      BY <3>1 DEF MutexInv
    <3>2. QED BY <2>1, <2>2, <2>3, <3>1 DEF TypeOK, SocketInv
  <2>7. ReplyIsOwn'
    BY <2>3 DEF TypeOK
  <2>8. QED BY <2>4, <2>5, <2>6, <2>7
<1>5. CASE Fail(t)
  <2> DEFINE s == Target(t)
  <2>1. todo[t] # <<>> /\ lock[s] = t /\ s \in Store /\ <<>> \in Seq(Store)
    BY <1>5, Sequences DEF Fail, MutexInv, Target, TypeOK
  <2>2. /\ at[t] \in {"locked", "sent"} /\ s \in broken /\ at' = [at EXCEPT ![t] = "run"]
        /\ lock' = [lock EXCEPT ![s] = Nobody]
        /\ todo' = [todo EXCEPT ![t] = <<>>]
        /\ UNCHANGED <<sent, replies, broken, hung, quiet, got>>
    BY <1>5 DEF Fail, Unlock, sockets
  <2>3. sent[s] = <<>> /\ replies[s] = <<>>
    BY <2>1, <2>2 DEF BrokenIsEmpty
  <2>4. TypeOK'
    BY <2>1, <2>2 DEF TypeOK
  <2>5. MutexInv'
    <3>1. ASSUME NEW u \in Threads, u # t, at[u] \in {"locked", "sent"}
          PROVE  Target(u) # s /\ lock'[Target(u)] = u /\ Target(u)' = Target(u) /\ todo'[u] # <<>>
      BY <2>1, <2>2, <3>1, Sequences DEF TypeOK, MutexInv, Target
    <3>2. \A u \in Threads : u # t => at'[u] = at[u]
      BY <2>2 DEF TypeOK
    <3>3. at'[t] = "run" /\ lock'[s] = Nobody
      BY <2>1, <2>2 DEF TypeOK
    <3>4. ASSUME NEW x \in Store, lock'[x] # Nobody
          PROVE  lock'[x] \in Threads /\ lock'[x] # t /\ x = Target(lock'[x])
                 /\ at[lock'[x]] \in {"locked", "sent"}
      BY <2>1, <2>2, <3>3, <3>4 DEF TypeOK, MutexInv, Target
    <3>5. ASSUME NEW x \in Store, lock'[x] # Nobody
          PROVE  at'[lock'[x]] \in {"locked", "sent"} /\ todo'[lock'[x]] # <<>>
                 /\ Head(todo'[lock'[x]]) = x
      BY <3>1, <3>2, <3>4, <3>5 DEF Target
    <3>6. ASSUME NEW u \in Threads, at'[u] \in {"locked", "sent"}
          PROVE  todo'[u] # <<>> /\ lock'[Head(todo'[u])] = u
      BY <3>1, <3>2, <3>3, <3>6 DEF Target
    <3>7. QED BY <3>5, <3>6 DEF MutexInv, Target
  <2>6. SocketInv'
    <3>1. ASSUME NEW x \in Store, x # s, lock[x] # Nobody PROVE lock[x] # t
      BY <3>1 DEF MutexInv
    <3>2. QED BY <2>1, <2>2, <2>3, <3>1 DEF TypeOK, SocketInv
  <2>7. QED BY <2>2, <2>4, <2>5, <2>6
<1>6. CASE Answer(t)
  <2>1. /\ at[t] = "run" /\ at' = [at EXCEPT ![t] = "idle"]
        /\ todo' = [todo EXCEPT ![t] = <<>>] /\ <<>> \in Seq(Store)
        /\ UNCHANGED <<lock, sent, replies, broken, hung, quiet, got>>
    BY <1>6, Sequences DEF Answer, sockets
  <2>2. TypeOK'
    BY <2>1 DEF TypeOK
  <2>3. MutexInv'
    BY <2>1 DEF TypeOK, MutexInv, Target
  <2>4. SocketInv'
    BY <2>1 DEF TypeOK, SocketInv
  <2>5. QED BY <2>1, <2>2, <2>3, <2>4
<1>7. QED BY <1>1, <1>2, <1>3, <1>4, <1>5, <1>6 DEF Step

\* One step of the stores or of the clients.
LEMMA OthersPreserve ==
  ASSUME Inv, (\E s \in Store : Reply(s) \/ Hang(s) \/ Break(s)) \/ Quiet \/ UNCHANGED vars
  PROVE  Inv'
<1> USE NobodyAssumption DEF Inv, ThreadsInv, ReplyIsOwn, BrokenIsEmpty
<1>1. ASSUME NEW s \in Store, Reply(s) PROVE Inv'
  <2>1. /\ lock[s] # Nobody /\ at[lock[s]] = "sent"
        /\ sent[s] = <<lock[s]>> /\ replies[s] = <<>> /\ lock[s] \in Threads
    BY <1>1 DEF Reply, SocketInv, TypeOK
  <2>2. /\ sent' = [sent EXCEPT ![s] = <<>>]
        /\ replies' = [replies EXCEPT ![s] = <<lock[s]>>]
        /\ s \notin broken
        /\ UNCHANGED <<at, todo, lock, broken, hung, quiet, got>>
    BY <1>1, <2>1 DEF Reply, TypeOK
  <2>3. TypeOK'
    BY <2>1, <2>2 DEF TypeOK
  <2>4. MutexInv'
    BY <2>2 DEF MutexInv, Target
  <2>5. SocketInv' /\ BrokenIsEmpty'
    BY <2>1, <2>2 DEF TypeOK, SocketInv
  <2>6. QED BY <2>2, <2>3, <2>4, <2>5
<1>2. ASSUME NEW s \in Store, Break(s) PROVE Inv'
  <2>1. TypeOK'
    BY <1>2 DEF Break, TypeOK
  <2>2. MutexInv'
    BY <1>2 DEF Break, MutexInv, Target
  <2>3. SocketInv' /\ BrokenIsEmpty'
    BY <1>2 DEF Break, TypeOK, SocketInv
  <2>4. QED BY <1>2, <2>1, <2>2, <2>3 DEF Break
<1>3. CASE \E s \in Store : Hang(s)
  BY <1>3 DEF Hang, sockets, TypeOK, MutexInv, SocketInv, Target
<1>4. CASE Quiet
  BY <1>4 DEF Quiet, sockets, TypeOK, MutexInv, SocketInv, Target
<1>5. CASE UNCHANGED vars
  BY <1>5 DEF vars, sockets, TypeOK, MutexInv, SocketInv, Target
<1>6. QED BY <1>1, <1>2, <1>3, <1>4, <1>5

\* What a thread does to a store is a step of AtomicCommands, or nothing.
LEMMA ThreadCommands ==
  ASSUME Inv, NEW t \in Threads, Arrive(t) \/ Step(t) \/ Answer(t)
  PROVE  [Commands!Next]_(Commands!vars)
<1> USE NobodyAssumption DEF Inv, ThreadsInv, Commands!Next, Commands!vars
<1>1. CASE Arrive(t) \/ Answer(t) \/ Send(t)
  BY <1>1 DEF Arrive, Answer, Send, sockets, Executed
<1>2. CASE Acquire(t)
  <2>1. todo[t] # <<>> /\ Target(t) \in Store /\ \A r \in Store : lock[r] # t
    BY <1>2, Sequences DEF Acquire, TypeOK, MutexInv, Target
  <2>2. Commands!Call(t, Target(t))
    BY <1>2, <2>1 DEF Acquire, sockets, Executed, Commands!Call
  <2> QED
    BY <2>1, <2>2
<1>3. CASE Receive(t)
  <2> DEFINE s == Target(t)
  <2>1. todo[t] # <<>> /\ lock[s] = t /\ s \in Store
    BY <1>3, Sequences DEF Receive, MutexInv, Target, TypeOK
  <2>2. replies[s] = <<t>>
    BY <1>3, <2>1 DEF Receive, SocketInv
  <2>3. /\ got' = [got EXCEPT ![t] = t] /\ lock' = [lock EXCEPT ![s] = Nobody]
        /\ replies' = [replies EXCEPT ![s] = <<>>] /\ UNCHANGED broken
    BY <1>3, <2>2 DEF Receive, Unlock
  <2>4. s \in Executed /\ Executed' = Executed \ {s}
    <3>1. replies[s] # <<>>
      BY <2>2
    <3>2. replies'[s] = <<>> /\ \A r \in Store : r # s => replies'[r] = replies[r]
      BY <2>1, <2>3 DEF TypeOK
    <3> HIDE DEF s
    <3> QED
      BY <2>1, <3>1, <3>2 DEF Executed
  <2>5. Commands!Return(t, s)
    BY <2>1, <2>3, <2>4 DEF Commands!Return
  <2> QED
    BY <2>1, <2>5
<1>4. CASE Fail(t)
  <2>1. todo[t] # <<>> /\ lock[Target(t)] = t /\ Target(t) \in Store
    BY <1>4, Sequences DEF Fail, MutexInv, Target, TypeOK
  <2>2. Commands!GiveUp(t, Target(t))
    BY <1>4, <2>1 DEF Fail, Unlock, sockets, Executed, Commands!GiveUp
  <2> QED
    BY <2>1, <2>2
<1> QED
  BY <1>1, <1>2, <1>3, <1>4 DEF Step

\* The same of what the stores and the clients do.
LEMMA OtherCommands ==
  ASSUME Inv, (\E s \in Store : Reply(s) \/ Hang(s) \/ Break(s)) \/ Quiet \/ UNCHANGED vars
  PROVE  [Commands!Next]_(Commands!vars)
<1> USE NobodyAssumption DEF Inv, ThreadsInv, Commands!Next, Commands!vars
<1>1. ASSUME NEW s \in Store, Reply(s) PROVE [Commands!Next]_(Commands!vars)
  <2>1. lock[s] # Nobody /\ replies[s] = <<>> /\ s \notin broken
    BY <1>1 DEF Reply, SocketInv
  <2>2. replies' = [replies EXCEPT ![s] = <<Head(sent[s])>>]
    BY <1>1, <2>1 DEF Reply
  <2>3. s \notin Executed /\ Executed' = Executed \cup {s}
    BY <2>1, <2>2 DEF Executed, TypeOK
  <2>4. Commands!Execute(s)
    BY <1>1, <2>1, <2>3 DEF Reply, Commands!Execute
  <2> QED
    BY <2>4
<1>2. ASSUME NEW s \in Store, Break(s) PROVE [Commands!Next]_(Commands!vars)
  <2>1. Executed' = Executed \ {s}
    BY <1>2 DEF Break, Executed, TypeOK
  <2>2. Commands!Lose(s)
    BY <1>2, <2>1 DEF Break, Commands!Lose
  <2> QED
    BY <2>2
<1>3. CASE (\E s \in Store : Hang(s)) \/ Quiet \/ UNCHANGED vars
  BY <1>3 DEF Hang, Quiet, vars, sockets, Executed
<1> QED
  BY <1>1, <1>2, <1>3

LEMMA ThreadsAlways == Spec => []Inv
<1>1. Inv /\ [Next]_vars => Inv'
  BY ThreadPreserves, OthersPreserve DEF Next
<1>2. QED BY <1>1, ThreadsBegin, PTL DEF Spec

\* The variables keep their types.
THEOREM ThreadsTypeCorrect == Spec => []TypeOK
BY ThreadsAlways, PTL DEF Inv

\* One thread at a time is between a lock_guard and the end of its scope, and
\* only its command or reply can be in the socket.
THEOREM MutualExclusion == Spec => []ThreadsInv
BY ThreadsAlways, PTL DEF Inv

\* A command reads its own reply (RedisClient, PostgreSQLClient).
THEOREM RepliesAreOwn == Spec => []ReplyIsOwn
BY ThreadsAlways, PTL DEF Inv

\* To its handler a command on a store is one step, executed at most once and
\* answered to the thread that called.
THEOREM CommandsAreAtomic == Spec => ImplementsCommands
<1>1. Init => Commands!Init
  BY DEF Init, Commands!Init, Executed
<1>2. Inv /\ [Next]_vars => [Commands!Next]_(Commands!vars)
  BY ThreadCommands, OtherCommands DEF Next
<1> QED
  BY <1>1, <1>2, ThreadsAlways, PTL DEF Spec, Commands!Spec, ImplementsCommands
=============================================================================
