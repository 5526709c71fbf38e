------------------------------- MODULE Health -------------------------------
(***************************************************************************)
(* The administrator's health page: what AdminController::health says of   *)
(* the certificate the process loaded when it started, as time passes,     *)
(* generate_certs.sh writes a new certificate and the server is restarted. *)
(*                                                                         *)
(* The page compares the end of the certificate with the clock twice:      *)
(* OpenSSL does it in UTC (isExpired), the handler on a std::time_t that   *)
(* getNotAfter() makes with mktime(), which takes the fields for local     *)
(* time.  Who may see the page is in Accounts (AdminPage).                 *)
(***************************************************************************)
EXTENDS Integers

CONSTANTS Life,     \* how long a new certificate is valid (DAYS)
          Warning,  \* the 7 days
          Zone,     \* local time minus UTC on the host
          MaxTime,  \* bound of the models: the last instant
          None      \* no answer yet

ASSUME TimesAssumption == /\ Life \in Nat /\ Warning \in Nat /\ MaxTime \in Nat
                          /\ Zone \in Int
ASSUME NoneAssumption == None \notin Nat

VARIABLES now,
          file,  \* when the certificate on disk ends
          cert,  \* when the certificate the process holds ends
          page,  \* the process's last answer
          up     \* when it last answered UP

vars == <<now, file, cert, page, up>>

Rank == [UP |-> 0, DEGRADED |-> 1, DOWN |-> 2]
Status == DOMAIN Rank

Page == [status : Status, at : Nat]

TypeOK == /\ now \in Nat /\ file \in Nat /\ cert \in Nat
          /\ page \in Page \cup {None}
          /\ up \in Nat \cup {None}

Init == now = 0 /\ file = Life /\ cert = Life /\ page = None /\ up = None

\* Certificate::isExpired(): X509_cmp_current_time() < 0, which is also so at
\* the last second.
IsExpired == cert <= now

\* Mutated form: corrected for the zone, in the wrong direction.
GetNotAfter_WrongSign == cert - Zone - Zone

\* Certificate::getNotAfter()
GetNotAfter == cert - Zone

\* Mutated form: how far the end is from now, on either side.
TlsStatus_Distance ==
  IF IsExpired /\ now - cert < Warning THEN "DOWN"
  ELSE IF GetNotAfter - now <= Warning /\ now - GetNotAfter <= Warning THEN "DEGRADED" ELSE "UP"

TlsStatus == IF IsExpired THEN "DOWN"
             ELSE IF GetNotAfter - now <= Warning THEN "DEGRADED" ELSE "UP"

ApiStatus == "UP"

\* Mutated form: an end that has passed gets a word of its own.
Overall_Expired == IF IsExpired THEN "EXPIRED" ELSE TlsStatus

\* The worst of the components.
Overall == IF Rank[ApiStatus] > Rank[TlsStatus] THEN ApiStatus ELSE TlsStatus

\* AdminController::health, for an administrator.
Ask == /\ page' = [status |-> Overall, at |-> now]
       /\ up' = IF Overall = "UP" THEN now ELSE up
       /\ UNCHANGED <<now, file, cert>>

\* Mutated form: the certificate is read again while the server runs.
Renew_Reloads == /\ file' = now + Life /\ cert' = now + Life
                 /\ UNCHANGED <<now, page, up>>

\* scripts/generate_certs.sh
Renew == /\ file' = now + Life
         /\ UNCHANGED <<now, cert, page, up>>

\* The end of a certificate does not matter to main(): see Startup.
Restart == /\ cert' = file /\ page' = None /\ up' = None
           /\ UNCHANGED <<now, file>>

Tick == now < MaxTime /\ now' = now + 1 /\ UNCHANGED <<file, cert, page, up>>

Next == Ask \/ Renew \/ Restart \/ Tick

Spec == Init /\ [][Next]_vars

----------------------------------------------------------------------------
(* Properties                                                              *)

\* No process answers DOWN within Warning (corrected by the time zone, for
\* mktime) of having answered UP: an administrator who asks that often is told
\* DEGRADED before DOWN, although the two answers come from two comparisons.
DownIsAnnounced ==
  page # None /\ up # None => (page.status = "DOWN" => page.at - up > Warning + Zone)

\* While one process runs its answers only get worse: a certificate renewed on
\* disk, which the listener does not present either, never turns the page green.
OnlyRestartImproves ==
  [][page # None /\ page' # None => Rank[page'.status] >= Rank[page.status]]_vars

----------------------------------------------------------------------------
(* What the properties rest on                                             *)

\* The last answer was computed for its instant, UP by the handler's comparison
\* and DOWN by OpenSSL's.
HealthInv ==
  /\ up # None => up <= now /\ up + Warning + Zone < cert
  /\ page # None =>
       /\ page.at <= now
       /\ page.status = "DOWN" => cert <= page.at
       /\ page.status = "DEGRADED" => cert - Zone - page.at <= Warning
=============================================================================
