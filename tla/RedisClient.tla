---------------------------- MODULE RedisClient ----------------------------
(***************************************************************************)
(* The session store: one Redis connection of the API process              *)
(* (src/src/persistence/RedisClient.cpp) and the keys Redis holds behind   *)
(* it.  Every command runs under RedisClient's mutex, so a command is one  *)
(* atomic operator here; what the caller makes of its answer is the        *)
(* caller's business.                                                      *)
(*                                                                         *)
(* hiredis keeps an I/O error in its context and fails every later command *)
(* at once, and RedisClient never reconnects: `link` goes down for good,   *)
(* until the process is started again.                                     *)
(***************************************************************************)
EXTENDS Naturals

CONSTANTS Keys,      \* the keys the API ever writes: "session:" \o sid
          Values,    \* what it stores under them: user ids
          Absent,    \* the state of a key Redis does not hold
          MaxClock   \* bound of the models: the clock stops there

Entry == [value : Values, expires : Nat]

ASSUME AbsentAssumption == Absent \notin Entry
ASSUME MaxClockAssumption == MaxClock \in Nat

VARIABLES clock,     \* time, in ticks; the API and Redis share it
          store,     \* what Redis holds under each key
          link       \* TRUE until the hiredis context records an error

redisVars == <<clock, store, link>>

RedisTypeOK == /\ clock \in 0..MaxClock
               /\ store \in [Keys -> Entry \cup {Absent}]
               /\ link \in BOOLEAN

RedisInit == /\ clock = 0
             /\ store = [k \in Keys |-> Absent]
             /\ link = TRUE

\* Redis answers for a key until its time to live has passed; when it
\* reclaims the memory of an expired key cannot be observed.
Live(k) == store[k] # Absent /\ clock <= store[k].expires

----------------------------------------------------------------------------
(* What can become of one redisCommand().                                  *)

\* Redis executed it and the reply arrived.
Replied == link /\ UNCHANGED link

\* Redis executed it, the connection broke before the reply: NULL.
ReplyLost == link /\ link' = FALSE

\* Redis did not execute it: an error reply (the link stays as it is), or
\* the context is, or becomes, broken (NULL).
Refused == link' \in {link, FALSE}

\* SETEX with the time to live in ticks; ok is what set() returns.
Set(k, v, ttl, ok) ==
  \/ /\ IF ok THEN Replied ELSE ReplyLost
     /\ store' = [store EXCEPT ![k] = [value |-> v, expires |-> clock + ttl]]
  \/ Refused /\ ~ok /\ UNCHANGED store

\* GET; hit says whether get() returns the value or std::nullopt.
Get(k, hit) ==
  /\ \/ Replied /\ hit = Live(k)
     \/ Refused /\ ~hit
  /\ UNCHANGED store

\* DEL; ok is what del() returns: TRUE when a live key was removed.
Del(k, ok) ==
  \/ /\ \/ Replied /\ ok = Live(k)
        \/ ReplyLost /\ ~ok
     /\ store' = [store EXCEPT ![k] = Absent]
  \/ Refused /\ ~ok /\ UNCHANGED store

----------------------------------------------------------------------------
(* What happens to the store without the API.                              *)

Tick == /\ clock < MaxClock
        /\ clock' = clock + 1
        /\ UNCHANGED <<store, link>>

\* maxmemory with allkeys-lru: Redis may drop any key it holds.
Evict(k) == /\ store[k] # Absent
            /\ store' = [store EXCEPT ![k] = Absent]
            /\ UNCHANGED <<clock, link>>

\* A new RedisClient of a restarted process: a fresh context, the same keys
\* (Redis runs in its own container, with appendonly yes).
Connect == link' = TRUE /\ UNCHANGED <<clock, store>>
============================================================================
