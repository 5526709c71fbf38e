-------------------------- MODULE SessionLifecycle --------------------------
(***************************************************************************)
(* What AuthManager promises about login sessions, without tokens, Redis,  *)
(* time or failures: a session is opened at most once, for one user; while *)
(* it is open, requests may be admitted in that user's name; once closed   *)
(* (logout, expiry, eviction, a login that came to nothing) it stays so.   *)
(***************************************************************************)
CONSTANTS Sids, Users, Workers

VARIABLES open,      \* the open sessions, as <<session, user>>
          closed,    \* the sessions that are over
          acting     \* admitted requests being served, as <<worker, session, user>>

vars == <<open, closed, acting>>

Opened == {p[1] : p \in open}

Init == open = {} /\ closed = {} /\ acting = {}

Open(s, u) == /\ s \notin Opened \cup closed
              /\ open' = open \cup {<<s, u>>}
              /\ UNCHANGED <<closed, acting>>

\* Sessions that are open, or were never opened, end.
Close(S) == /\ open' = {p \in open : p[1] \notin S}
            /\ closed' = closed \cup S
            /\ UNCHANGED acting

Admit(w, s, u) == /\ <<s, u>> \in open
                  /\ acting' = acting \cup {<<w, s, u>>}
                  /\ UNCHANGED <<open, closed>>

Release(w) == /\ acting' = {a \in acting : a[1] # w}
              /\ UNCHANGED <<open, closed>>

\* The process dies: every request is dropped, logins under way come to
\* nothing.
Crash(S) == /\ acting' = {}
            /\ S \cap Opened = {}
            /\ closed' = closed \cup S
            /\ UNCHANGED open

Next == \/ \E s \in Sids, u \in Users : Open(s, u)
        \/ \E S \in SUBSET Sids : Close(S) \/ Crash(S)
        \/ \E w \in Workers, s \in Sids, u \in Users : Admit(w, s, u)
        \/ \E w \in Workers : Release(w)

Spec == Init /\ [][Next]_vars
=============================================================================
