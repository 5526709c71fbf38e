------------------------------ MODULE Startup ------------------------------
(***************************************************************************)
(* How the server comes up: main() loads the providers, reads and checks   *)
(* the certificate, asks the OCSP responder, connects to the stores,       *)
(* checks the JWT secret, gets its signing key (module SigningKey) and     *)
(* listens.  Every failure ends the process, and docker compose starts it  *)
(* again.                                                                  *)
(*                                                                         *)
(* Meanwhile an operator may run scripts/generate_certs.sh, which writes   *)
(* the files the server reads one after the other, may revoke a            *)
(* certificate, and the other containers come and go.                      *)
(***************************************************************************)
EXTENDS Naturals

CONSTANTS Runs,     \* bound: runs of generate_certs.sh
          Crashes,  \* bound: crashes of the server
          Partial   \* what is in a file that was truncated and not yet filled

ASSUME BoundsAssumption == Runs \in Nat /\ Crashes \in Nat
ASSUME PartialAssumption == Partial \notin Nat

VARIABLES file,     \* the certificate files: the run that wrote each, 0 for none
          run,      \* the last run of the script
          step,     \* the file the script is about, 0 when it does not run
          revoked,  \* the revoked certificates, by the run that issued them
          services, \* the containers that answer
          config,   \* what is right about the image and its environment
          pc,       \* where main() is
          ca, cert, \* the certificates main() holds, 0 for none
          status,   \* what the revocation check returned
          served,   \* the certificate the listener presents, 0 for none
          crashes   \* crashes so far

disk == <<file, run, step>>
world == <<revoked, services, config>>
process == <<pc, ca, cert, status, served>>
vars == <<disk, world, process, crashes>>

\* The order in which the script writes what the server reads.
Order == <<"ca.crt", "server.key", "server.crt">>
File == {"ca.crt", "server.key", "server.crt"}
Stores == {"postgres", "redis"}
Settings == {"providers", "secret", "mldsa"}
CertStatus == {"Good", "Revoked", "Unknown", "Error"}
Stopped == {"new", "down"}
Steps == {"providers", "ca", "cert", "chain", "ocsp", "postgres", "redis",
          "secret", "mldsa", "listen", "up"}

TypeOK == /\ file \in [File -> 0..Runs \cup {Partial}]
          /\ run \in 0..Runs /\ step \in 0..3
          /\ revoked \subseteq 1..Runs
          /\ services \subseteq Stores \cup {"ocsp"} /\ config \subseteq Settings
          /\ pc \in Stopped \cup Steps
          /\ ca \in 0..Runs /\ cert \in 0..Runs /\ served \in 0..Runs
          /\ status \in CertStatus \cup {"none"}
          /\ crashes \in 0..Crashes

Init == /\ file = [f \in File |-> 0] /\ run = 0 /\ step = 0
        /\ revoked = {} /\ services = {} /\ config \in SUBSET Settings
        /\ pc = "new" /\ ca = 0 /\ cert = 0 /\ status = "none" /\ served = 0
        /\ crashes = 0

----------------------------------------------------------------------------
(* scripts/generate_certs.sh, one at a time; openssl -out truncates a file *)
(* and then fills it.                                                      *)

RunScript == /\ step = 0 /\ run < Runs
             /\ run' = run + 1 /\ step' = 1
             /\ UNCHANGED file

Truncate == /\ step # 0 /\ file[Order[step]] # Partial
            /\ file' = [file EXCEPT ![Order[step]] = Partial]
            /\ UNCHANGED <<run, step>>

Fill == /\ step # 0 /\ file[Order[step]] = Partial
        /\ file' = [file EXCEPT ![Order[step]] = run]
        /\ step' = (step + 1) % 4
        /\ UNCHANGED run

\* set -e, or the operator's ^C.
Abort == step # 0 /\ step' = 0 /\ UNCHANGED <<file, run>>

Script == /\ RunScript \/ Truncate \/ Fill \/ Abort
          /\ UNCHANGED <<world, process, crashes>>

----------------------------------------------------------------------------
(* The operator and the other containers                                   *)

Revoke == \E n \in 1..run : revoked' = revoked \cup {n} /\ UNCHANGED services

ServiceChanges == \E s \in Stores \cup {"ocsp"} :
  /\ services' = IF s \in services THEN services \ {s} ELSE services \cup {s}
  /\ UNCHANGED revoked

World == /\ Revoke \/ ServiceChanges
         /\ UNCHANGED <<config, disk, process, crashes>>

----------------------------------------------------------------------------
(* main()                                                                  *)

\* return 1, an exception nobody catches, or a crash: what the process held
\* is gone.
Exit == /\ pc' = "down" /\ ca' = 0 /\ cert' = 0 /\ status' = "none" /\ served' = 0

Keep == UNCHANGED <<ca, cert, status, served>>

\* One step of main(): on to the next one if ok, or the process ends.
Continue(at, ok, next) == /\ pc = at
                          /\ IF ok THEN pc' = next /\ Keep ELSE Exit

\* Mutated form: no restart policy.
Start_Once == pc = "new" /\ Stores \subseteq services /\ pc' = "providers" /\ Keep

\* depends_on waits for healthy stores the first time only; then the restart
\* policy starts the container again whenever it has ended.
Start == /\ pc \in Stopped /\ (pc = "new" => Stores \subseteq services)
         /\ pc' = "providers" /\ Keep

LoadProviders == Continue("providers", "providers" \in config, "ca")

\* Mutated form: a file that cannot be parsed is not noticed.
LoadCA_Unparsed == /\ pc = "ca"
                   /\ IF file["ca.crt"] # 0
                      THEN pc' = "cert" /\ ca' = file["ca.crt"] /\ UNCHANGED <<cert, status, served>>
                      ELSE Exit

\* Certificate::loadFromPEM() of the CA, then of the server.
LoadCA == /\ pc = "ca"
          /\ IF file["ca.crt"] \in 1..Runs
             THEN pc' = "cert" /\ ca' = file["ca.crt"] /\ UNCHANGED <<cert, status, served>>
             ELSE Exit

LoadCert == /\ pc = "cert"
            /\ IF file["server.crt"] \in 1..Runs
               THEN pc' = "chain" /\ cert' = file["server.crt"] /\ UNCHANGED <<ca, status, served>>
               ELSE Exit

\* Mutated form: the result is not looked at.
VerifySignature_Ignored == Continue("chain", TRUE, "ocsp")

\* Certificate::verifySignature(): a run signs with its own CA.
VerifySignature == Continue("chain", cert = ca, "ocsp")

\* The responder reads index.txt on its own schedule: it may not know a
\* certificate or its revocation yet.
Responses == {"good", "unknown", "empty"} \cup (IF cert \in revoked THEN {"revoked"} ELSE {})

\* OCSPClient::parseResponse(): a response without an entry passes for good,
\* cert_status being 0 to begin with.
Parse(response) == CASE response \in {"good", "empty"} -> "Good"
                     [] response = "revoked" -> "Revoked"
                     [] OTHER -> "Unknown"

\* OCSPClient::checkStatus(): Error when no request can be built, when nobody
\* answers within the timeout or what comes is not a successful response.
CheckStatus == {"Error"} \cup (IF "ocsp" \in services THEN {Parse(r) : r \in Responses} ELSE {})

\* Mutated form: the request has no timeout, and waits for the responder.
CheckCert_Waits ==
  /\ pc = "ocsp" /\ "ocsp" \in services
  /\ \E s \in CheckStatus :
       IF s = "Revoked" THEN Exit
       ELSE pc' = "postgres" /\ status' = s /\ UNCHANGED <<ca, cert, served>>

\* RevocationChecker::checkCert(), whose cache is empty at this one call; only
\* Revoked ends the process.
CheckCert ==
  /\ pc = "ocsp"
  /\ \E s \in CheckStatus :
       IF s = "Revoked" THEN Exit
       ELSE pc' = "postgres" /\ status' = s /\ UNCHANGED <<ca, cert, served>>

\* The constructors of PostgreSQLClient and RedisClient throw.
Connect == \/ Continue("postgres", "postgres" \in services, "redis")
           \/ Continue("redis", "redis" \in services, "secret")

CheckSecret == Continue("secret", "secret" \in config, "mldsa")

\* The signing key is loaded or generated; see module SigningKey.
GetSigningKey == Continue("mldsa", "mldsa" \in config, "listen")

\* The listener reads the files again, and throws unless they fit together.
Listen == /\ pc = "listen"
          /\ IF file["server.crt"] \in 1..Runs /\ file["server.key"] = file["server.crt"]
             THEN pc' = "up" /\ served' = file["server.crt"] /\ UNCHANGED <<ca, cert, status>>
             ELSE Exit

Boot == \/ Start \/ LoadProviders \/ LoadCA \/ LoadCert \/ VerifySignature
        \/ CheckCert \/ Connect \/ CheckSecret \/ GetSigningKey \/ Listen

Server == Boot /\ UNCHANGED <<disk, world, crashes>>

Crash == /\ pc \notin Stopped /\ crashes < Crashes
         /\ Exit /\ crashes' = crashes + 1
         /\ UNCHANGED <<disk, world>>

Next == Script \/ World \/ Server \/ Crash

\* A process that can take a step takes it, and docker starts one that ended.
Spec == Init /\ [][Next]_vars /\ WF_vars(Server)

----------------------------------------------------------------------------
(* Properties                                                              *)

\* The steps after the chain is verified.
Checked == {"ocsp", "postgres", "redis", "secret", "mldsa", "listen", "up"}

\* What main() knows when it is past a step: the certificate it holds was issued
\* by the CA it holds, and neither was half written.
Validated ==
  /\ pc \in {"cert", "chain"} \cup Checked => ca \in 1..Runs
  /\ pc \in {"chain"} \cup Checked => cert \in 1..Runs
  /\ pc \in Checked => cert = ca
  /\ status # "Revoked"

\* The listener presents the certificate main() validated, or one a later run of
\* the script wrote in the meantime; never an older one.
ServedNotOlder == /\ (served # 0) <=> (pc = "up")
                  /\ served # 0 => cert <= served

\* The script only writes forward.
FilesGrow == /\ \A f \in File : file[f] # Partial => file[f] <= run
             /\ cert <= run
             /\ file["server.crt"] # Partial => cert <= file["server.crt"]

\* Whatever happens to the files and the containers while main() runs, what it
\* validated stays valid of what it holds, and bounds what the listener reads
\* from the files again later (main.cpp:79-99 and 190-193).
StartupInv == Validated /\ ServedNotOlder /\ FilesGrow

\* Once the script has finished, its certificate is not revoked, the stores
\* answer and the image and its environment are right, the server comes up and
\* stays up, whether or not the OCSP responder answers, and however many
\* starts failed before (main.cpp:94, docker-compose.yml:42).
Settled == /\ step = 0 /\ run # 0 /\ file = [f \in File |-> run] /\ run \notin revoked
           /\ Stores \subseteq services /\ config = Settings

ServesEventually == <>[]Settled => <>[](pc = "up")

\* src/main.cpp:75, "Validate server cert against CA (revocation check at
\* startup)": the certificate that clients get is the one that was validated.
ServedIsValidated == pc = "up" => served = cert

\* src/include/pki/RevocationChecker.h:18-19, "Called during handshake setup and
\* periodically": a server stops presenting a revoked certificate.
RevocationNoticed == \A n \in 1..Runs : (served = n /\ n \in revoked) ~> (served # n)
=============================================================================
