-------------------------- MODULE PostgreSQLClient --------------------------
(***************************************************************************)
(* The database connection (src/src/persistence/PostgreSQLClient.cpp): one *)
(* pqxx connection, one mutex, one transaction per statement.  A statement *)
(* is therefore one atomic step of whoever calls query() or execute().     *)
(*                                                                         *)
(* libpqxx does not reconnect and neither does PostgreSQLClient: once      *)
(* broken, the connection fails every statement until the process is       *)
(* started again.                                                          *)
(***************************************************************************)

VARIABLE pgLink  \* TRUE while the connection works

PgTypeOK == pgLink \in BOOLEAN

PgInit == pgLink = TRUE

----------------------------------------------------------------------------
(* What can become of one statement.                                       *)

\* Committed, and the caller knows: query() returns, execute() is TRUE.
Committed == pgLink /\ UNCHANGED pgLink

\* Committed, but the connection broke before the server's answer to COMMIT:
\* query() throws and execute() is FALSE.
InDoubt == pgLink /\ pgLink' = FALSE

\* Not committed: an error of the server's, or a broken connection.
RolledBack == pgLink' \in {pgLink, FALSE}

\* The connection of a restarted process.
PgConnect == pgLink' = TRUE
=============================================================================
