------------------------------ MODULE Threads ------------------------------
(***************************************************************************)
(* The event-loop threads of the server on the two connections they share. *)
(* A handler runs to its end on its thread and calls the stores one        *)
(* command at a time; RedisClient and PostgreSQLClient each own one socket *)
(* and one mutex, which is held from before the command is written until   *)
(* its reply is read.  There is no time limit on a command.                *)
(*                                                                         *)
(* What the commands do to the stores is the subject of Sessions, Accounts *)
(* and Documents, in which a command is one step; this module shows why it *)
(* may be one.                                                             *)
(***************************************************************************)
EXTENDS Sequences

CONSTANTS Threads, Nobody

ASSUME NobodyAssumption == Nobody \notin Threads

VARIABLES at,      \* where each thread is in its request
          todo,    \* the stores its handler still has to call
          lock,    \* who holds the mutex of each store
          sent,    \* whose commands are in each socket, in order
          replies, \* whose replies are in each socket, in order
          broken,  \* the connections with a recorded error
          hung,    \* the stores that do not answer any more
          quiet,   \* the clients have stopped sending requests
          got      \* whose reply the last command of each thread read

sockets == <<sent, replies, broken>>
vars == <<at, todo, lock, sockets, hung, quiet, got>>

Store == {"redis", "postgres"}

\* Which stores the handlers call, in order: verifyToken, then the statements.
Handlers == { <<>>,                                   \* health, publicKey, verifyExternal
              <<"redis">>,                            \* logout
              <<"redis", "postgres">>,                \* getProfile, Admin health, sign, list
              <<"redis", "postgres", "postgres">>,    \* remove
              <<"redis", "postgres", "postgres", "postgres">>, \* download, verify
              <<"postgres", "redis">>,                \* login
              <<"postgres", "postgres">> }            \* registerUser

TypeOK == /\ at \in [Threads -> {"idle", "run", "locked", "sent"}]
          /\ todo \in [Threads -> Seq(Store)]
          /\ lock \in [Store -> Threads \cup {Nobody}]
          /\ sent \in [Store -> Seq(Threads)] /\ replies \in [Store -> Seq(Threads)]
          /\ broken \subseteq Store /\ hung \subseteq Store /\ quiet \in BOOLEAN
          /\ got \in [Threads -> Threads \cup {Nobody}]
          /\ \A t \in Threads : at[t] = "idle" => todo[t] = <<>>

Init == /\ at = [t \in Threads |-> "idle"] /\ todo = [t \in Threads |-> <<>>]
        /\ lock = [s \in Store |-> Nobody]
        /\ sent = [s \in Store |-> <<>>] /\ replies = [s \in Store |-> <<>>]
        /\ broken = {} /\ hung = {} /\ quiet = FALSE
        /\ got = [t \in Threads |-> Nobody]

\* The store that thread t calls next, or is calling.
Target(t) == Head(todo[t])

----------------------------------------------------------------------------
(* A thread                                                                *)

\* A client's request is read by the thread of its connection.
Arrive(t) == /\ at[t] = "idle" /\ ~quiet
             /\ \E h \in Handlers : todo' = [todo EXCEPT ![t] = h]
             /\ at' = [at EXCEPT ![t] = "run"]
             /\ UNCHANGED <<lock, sockets, hung, quiet, got>>

\* Mutated form: no mutex.
Acquire_NoMutex(t) ==
  /\ at[t] = "run" /\ todo[t] # <<>>
  /\ lock' = [lock EXCEPT ![Target(t)] = t]
  /\ at' = [at EXCEPT ![t] = "locked"]
  /\ UNCHANGED <<todo, sockets, hung, quiet, got>>

\* std::lock_guard
Acquire(t) == /\ at[t] = "run" /\ todo[t] # <<>>
              /\ lock[Target(t)] = Nobody
              /\ lock' = [lock EXCEPT ![Target(t)] = t]
              /\ at' = [at EXCEPT ![t] = "locked"]
              /\ UNCHANGED <<todo, sockets, hung, quiet, got>>

\* Mutated form: the mutex is kept to the end of the request.
Unlock_Late(t) == UNCHANGED lock

\* The lock_guard goes out of scope, on every way out.
Unlock(t) == lock' = [lock EXCEPT ![Target(t)] = Nobody]

\* redisCommand(), pqxx::work: the command is written to the socket.
Send(t) == /\ at[t] = "locked" /\ Target(t) \notin broken
           /\ sent' = [sent EXCEPT ![Target(t)] = Append(@, t)]
           /\ at' = [at EXCEPT ![t] = "sent"]
           /\ UNCHANGED <<todo, lock, replies, broken, hung, quiet, got>>

\* The next reply in the socket is read, and the handler goes on.
Receive(t) == LET s == Target(t) IN
              /\ at[t] = "sent" /\ replies[s] # <<>>
              /\ got' = [got EXCEPT ![t] = Head(replies[s])]
              /\ replies' = [replies EXCEPT ![s] = Tail(@)]
              /\ Unlock(t)
              /\ todo' = [todo EXCEPT ![t] = Tail(@)]
              /\ at' = [at EXCEPT ![t] = "run"]
              /\ UNCHANGED <<sent, broken, hung, quiet>>

\* Mutated form: an early return without the unlock.
Fail_KeepsMutex(t) == /\ at[t] \in {"locked", "sent"} /\ Target(t) \in broken
                      /\ todo' = [todo EXCEPT ![t] = <<>>]
                      /\ at' = [at EXCEPT ![t] = "run"]
                      /\ UNCHANGED <<lock, sockets, hung, quiet, got>>

\* The connection is broken: there is no reply, and the handler gives up.
Fail(t) == /\ at[t] \in {"locked", "sent"} /\ Target(t) \in broken
           /\ Unlock(t)
           /\ todo' = [todo EXCEPT ![t] = <<>>]
           /\ at' = [at EXCEPT ![t] = "run"]
           /\ UNCHANGED <<sockets, hung, quiet, got>>

\* Mutated form: the handler answers an error and does not return.
Answer_NoReturn(t) == /\ at[t] = "run"
                      /\ at' = [at EXCEPT ![t] = "idle"]
                      /\ UNCHANGED <<todo, lock, sockets, hung, quiet, got>>

\* The handler answers: after its last command, or as soon as what it has
\* read, or the request itself, calls for an error.
Answer(t) == /\ at[t] = "run"
             /\ at' = [at EXCEPT ![t] = "idle"]
             /\ todo' = [todo EXCEPT ![t] = <<>>]
             /\ UNCHANGED <<lock, sockets, hung, quiet, got>>

\* A handler with calls left may always go on with them instead.
Step(t) == \/ Acquire(t) \/ Send(t) \/ Receive(t) \/ Fail(t)
           \/ todo[t] = <<>> /\ Answer(t)

----------------------------------------------------------------------------
(* The stores and the clients                                              *)

\* A store executes the next command of its connection and replies.
Reply(s) == /\ s \notin hung /\ s \notin broken /\ sent[s] # <<>>
            /\ replies' = [replies EXCEPT ![s] = Append(@, Head(sent[s]))]
            /\ sent' = [sent EXCEPT ![s] = Tail(@)]
            /\ UNCHANGED <<at, todo, lock, broken, hung, quiet, got>>

\* A store stops answering, and its connection stays open.
Hang(s) == hung' = hung \cup {s} /\ UNCHANGED <<at, todo, lock, sockets, quiet, got>>

\* A connection is lost for good: neither client connects again.
Break(s) == /\ s \notin broken
            /\ broken' = broken \cup {s}
            /\ sent' = [sent EXCEPT ![s] = <<>>] /\ replies' = [replies EXCEPT ![s] = <<>>]
            /\ UNCHANGED <<at, todo, lock, hung, quiet, got>>

Quiet == quiet' = TRUE /\ UNCHANGED <<at, todo, lock, sockets, hung, got>>

Next == \/ \E t \in Threads : Arrive(t) \/ Step(t) \/ Answer(t)
        \/ \E s \in Store : Reply(s) \/ Hang(s) \/ Break(s)
        \/ Quiet

\* The operating system runs every thread that can run, and a store that is
\* not hung replies.  A mutex is given to anybody who waits: no fairness there.
Fairness == /\ \A t \in Threads : WF_vars(Step(t))
            /\ \A s \in Store : WF_vars(Reply(s))

Spec == Init /\ [][Next]_vars /\ Fairness

----------------------------------------------------------------------------
(* Properties                                                              *)

\* src/include/persistence/RedisClient.h:31-32, "concurrent commands interleave on
\* the socket and read each other's replies": they do not, also when replies
\* are slow or a connection breaks under a command.
ReplyIsOwn == \A t \in Threads : got[t] \in {Nobody, t}

Executed == {s \in Store : replies[s] # <<>>}

Commands == INSTANCE AtomicCommands WITH
  Stores <- Store, caller <- lock, executed <- Executed, lost <- broken, answer <- got

\* RedisClient.h:31-32 and PostgreSQLClient.h:38-39, what the mutexes are for: each
\* command is one step for its handler, executed at most once, while its thread
\* waits, and answered to that thread or given up.  This is what lets Sessions,
\* Accounts and Documents make a command one step.
ImplementsCommands == Commands!Spec

\* Once the clients have stopped, a thread is busy for ever only if it waits
\* for a store that hangs, or for the mutex of one that does: nobody waits for
\* a mutex in a circle, or behind a store that it did not call.
StuckOnlyAtHungStore ==
  <>[]quiet => <>[](\A t \in Threads : at[t] # "idle" =>
                      todo[t] # <<>> /\ Target(t) \in hung \ broken)

\* Under any load, requests keep being answered while the stores answer, even
\* though a mutex may be unfair to a thread and connections break.
KeepsAnswering == <>[](hung = {}) => []<>(\E t \in Threads : at[t] = "idle")

\* A mutex is held by the thread that is between Acquire and Unlock, and only
\* its command or reply can be in the socket.
MutexInv ==
  /\ \A t \in Threads : at[t] \in {"locked", "sent"} => todo[t] # <<>> /\ lock[Target(t)] = t
  /\ \A s \in Store : lock[s] # Nobody =>
       /\ at[lock[s]] \in {"locked", "sent"} /\ todo[lock[s]] # <<>> /\ Target(lock[s]) = s

SocketInv == \A s \in Store :
  \/ sent[s] = <<>> /\ replies[s] = <<>>
  \/ /\ lock[s] # Nobody /\ at[lock[s]] = "sent"
     /\ \/ sent[s] = <<lock[s]>> /\ replies[s] = <<>>
        \/ sent[s] = <<>> /\ replies[s] = <<lock[s]>>

\* Nothing is in a broken socket.
BrokenIsEmpty == \A s \in broken : sent[s] = <<>> /\ replies[s] = <<>>

ThreadsInv == MutexInv /\ SocketInv /\ BrokenIsEmpty
=============================================================================
