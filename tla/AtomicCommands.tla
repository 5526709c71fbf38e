--------------------------- MODULE AtomicCommands ---------------------------
(***************************************************************************)
(* What the mutex of RedisClient and PostgreSQLClient promises a handler:  *)
(* a store has the command of one thread at a time, executes it at most    *)
(* once and only while that thread waits, and the thread either returns    *)
(* with the answer to that command or gives up on a lost connection.       *)
(***************************************************************************)
CONSTANTS Threads, Stores, Nobody

VARIABLES caller,   \* whose command a store has
          executed, \* the stores that have executed it, its answer not read yet
          lost,     \* the stores whose connection is gone
          answer    \* whose command the last answer each thread read is about

vars == <<caller, executed, lost, answer>>

Init == /\ caller = [s \in Stores |-> Nobody]
        /\ executed = {} /\ lost = {}
        /\ answer = [t \in Threads |-> Nobody]

\* A thread has one command under way.
Call(t, s) == /\ caller[s] = Nobody
              /\ \A r \in Stores : caller[r] # t
              /\ caller' = [caller EXCEPT ![s] = t]
              /\ UNCHANGED <<executed, lost, answer>>

Execute(s) == /\ caller[s] # Nobody /\ s \notin executed \cup lost
              /\ executed' = executed \cup {s}
              /\ UNCHANGED <<caller, lost, answer>>

Return(t, s) == /\ caller[s] = t /\ s \in executed
                /\ caller' = [caller EXCEPT ![s] = Nobody]
                /\ executed' = executed \ {s}
                /\ answer' = [answer EXCEPT ![t] = t]
                /\ UNCHANGED lost

\* Whether the command was executed is not known.
GiveUp(t, s) == /\ caller[s] = t /\ s \in lost
                /\ caller' = [caller EXCEPT ![s] = Nobody]
                /\ UNCHANGED <<executed, lost, answer>>

Lose(s) == /\ lost' = lost \cup {s} /\ executed' = executed \ {s}
           /\ UNCHANGED <<caller, answer>>

Next == \E s \in Stores :
          \/ Execute(s) \/ Lose(s)
          \/ \E t \in Threads : Call(t, s) \/ Return(t, s) \/ GiveUp(t, s)

Spec == Init /\ [][Next]_vars
=============================================================================
