# TLA+ models of the PQC API

Specifications, TLC model checks and TLAPS proofs for the PQC API: a Drogon
(C++) service that signs PDF documents with ML-DSA-65, with accounts in
PostgreSQL, login sessions in Redis, a signing key in a file and a small
JavaScript frontend. Paths below are relative to the repository, line numbers
refer to the version the models were translated from.

    tlc -workers 2 -config MCSessions.cfg MCSessions.tla     # one run
    tlapm SessionsProof.tla                                  # one set of proofs

`PROJECT.json` holds the same information as data: the parts, the runs, the
source lines behind every definition, the hazards and the theorems.

## The system

| Part | State | Operations | Correct when |
|---|---|---|---|
| Login sessions (`AuthManager`, `SessionRepository`) | `session:<sid>` -> user id in Redis, with a TTL; tokens in clients' hands | login, verifyToken (first thing in every authenticated handler), logout | a request is admitted only for an open session, in its owner's name; a closed session stays closed; a session lasts as long as its token |
| Redis connection (`RedisClient`) | one hiredis context, one mutex | set, get, del (expire, exists: no caller) | the caller learns no more than what happened; an error is never taken for an answer |
| Accounts (`AuthManager::registerUser`, `UserRepository`, `AuthController`, `UserController`, `requireAdmin`) | table `users`: id, name, hash, role | register, lookups by name and id; role and removal by an operator | one account per name, ids never mean another account, 201 means there is an account |
| PostgreSQL connection (`PostgreSQLClient`) | one pqxx connection, one mutex | query, execute (withTransaction: no caller) | a statement is one transaction; what is reported as done is done |
| Signed documents (`DocumentController`, `DocumentRepository`) | table `documents` | sign, list, download, verify, remove | users reach only their own documents; what is served is one document; 201 means it is kept |
| Signing key (`main`, `DilithiumSigner`, `generate_certs.sh`) | the file at `MLDSA_KEY_PATH`; the key in memory | load, generate, write once; create by script | a key is never replaced; documents verify after restarts, unless the server warned or saved an empty text |
| Public verification (`publicKey`, `verifyExternal`) | none of its own: the signing key | export, verify | a positive answer means that a server signed the document; servers that did not warn agree in their answers, over restarts |
| Certificate and revocation (`Certificate`, `OCSPClient`, `RevocationChecker`) | the CA and server certificates `main()` read; a cache of OCSP answers | load, verifySignature, checkCert, once at start-up | a certificate that does not belong to the CA or is known to be revoked stops the start; a responder that does not answer does not |
| Health (`HealthController`, `AdminController`) | the certificate read at start, the clock | check, health | the state is the worst of the components; DOWN is announced by DEGRADED |
| Start-up (`main.cpp`, `OQSProvider`, the restart policy) | where `main()` is, what it holds | a sequence of checks, each of which may end the process | no service without a secret, a checked certificate and a key; service once all is right |
| Frontend (`static/js`) | token, user and role in sessionStorage; document list, selected file and modals in the page | asynchronous event handlers | what is shown belongs to what was asked |

How they interact: Drogon runs a handler to its end on one of four threads
(`main.cpp:196`). A handler of an authenticated route calls
`AuthManager::verifyToken`, that is one GET in Redis, and then one or several
SQL statements. All threads share one `RedisClient`, one `PostgreSQLClient` and
one `DilithiumSigner`; each client serialises its commands under a mutex, so a
*command* is atomic and a *handler* is not. `docker-compose.yml` restarts a
process that dies; Redis runs with `allkeys-lru` and may drop any session.
`generate_certs.sh` runs outside the service and shares the certificate
directory with it. Browsers call the API through `static/js/api.js`.

What is hard in it: two handlers interleaving between their commands; a lost
reply, after which the caller does not know whether the command ran and the
connection answers nothing any more; expiry, eviction and logout of a session
while requests use it; commits in doubt; results nobody looks at
(`AuthManager.cpp:118`, `:150`); ownership checked in one statement and used in
the next; a key file that is created and then filled, perhaps with
nothing; requests that are executed after the browser has given them up.
`PROJECT.json` lists each of these at its line, with the property that covers it.

## Modules

| Module | Role |
|---|---|
| `RedisClient` | the Redis connection and the keys behind it: what can become of SETEX, GET and DEL, time, eviction |
| `Sessions` | login, verifyToken, logout over `RedisClient` |
| `SessionLifecycle` | the abstract specification `Sessions` implements |
| `PostgreSQLClient` | the outcomes of one SQL statement |
| `Accounts`, `Documents` | the users table and the documents table with the handlers on them, over `PostgreSQLClient` |
| `AccountRegistry` | the abstract specification `Accounts` implements |
| `DocumentShelf` | the abstract specification `Documents` implements, and the page as far as it names documents (`Dashboard`) |
| `SigningKey` | the key file between `main()` and `generate_certs.sh` |
| `PublicVerification` | signatures given out and verified by anybody, over `SigningKey` |
| `SigningAuthority` | the abstract specification `PublicVerification` implements |
| `Startup` | `main()` from its first line to the listener, with its restarts |
| `Threads` | the event-loop threads, the two mutexes and the two sockets |
| `AtomicCommands` | the abstract specification `Threads` implements |
| `Health` | the administrator's health page over the life of a certificate |
| `Dashboard` | the handlers of `dashboard.js` and their requests |
| `MC*` | instances for TLC |
| `*Proof` | the theorems |

### RedisClient, Sessions, SessionLifecycle

A command is one operator whose second half says what the caller is told.
`Set`, `Get` and `Del` may be executed and answered (`Replied`), executed
without an answer arriving (`ReplyLost`), or not executed (`Refused`). The last
two take `link` down, because hiredis keeps an I/O error in its context and
`RedisClient` never reconnects; only `Restart` brings it up again. A key carries
the time it expires; `Live` says whether Redis still answers for it. When Redis
reclaims the memory of an expired key cannot be observed and is not modelled.

`Sessions` has a program counter per thread. `LoginBegin` draws a sid and builds
the token (`buildToken`: the expiry is cut to whole seconds, `WholeSeconds`);
`LoginStore` is `storeKey`, whose result the code ignores; `LoginReply` puts the
token into a client's hands. `VerifyBegin`/`VerifyGet` are `parseToken` and the
lookup with the owner check, `Finish` the rest of any handler.
`LogoutBegin`/`LogoutDel`/`LogoutReply` are `logout`. `confirmed`, `gone` and
`loggedOut` are history variables: no guard reads them.

`SessionLifecycle` has no tokens, time, Redis or failures: a session is opened
at most once for one user, requests are admitted while it is open, and closed
is final. The refinement mapping takes the live keys for `open`, the sids that
were drawn, are not live and are not about to be stored for `closed`, and the
admitted threads for `acting`.

Idealised: a sid is 256 random bits, so two logins never draw the same one; the
HMAC makes a token a record that only the server can build, so the tokens that
can be presented are those that were issued. The API and Redis read the same
clock. A command that Redis executes only after the API has seen an error for
it, and a Redis host that loses the last second of its append-only file, are
left out.

### PostgreSQLClient, Accounts, Documents and what they implement

Each repository call is one statement in one transaction, and one atomic step.
`Committed` and `RolledBack` are the two ends the caller is told about;
`InDoubt` is a commit whose answer was lost, reported as a failure.

`Accounts`: `RegisterLookup` and `RegisterInsert` are the two statements of
`registerUser`, with the Argon2id hash in between. `InsertUser` is the SQL text:
`ON CONFLICT (username) DO NOTHING` uses up an id and inserts nothing.
`Login`, `Profile` and `AdminPage` are the lookups; `SetRole` and `Remove` are
methods of `UserRepository` without a caller in the API, so they are an
operator's steps. A token remembers the account it was issued for (history),
so that the answers can be compared with it. A password stands for its hash.

`AccountRegistry` is `Accounts` without statements, failures and threads that
overlap: a request is one step. It registers a name that is taken without an
effect, loses ids, and shows a page only about the account the token was issued
for, which is there at that step and, for an admin page, an administrator's
(`Controllers.cpp:198`: the role is resolved on every request). Between a
registration's lookup and its insert nothing happens in it; the refinement
mapping takes the rows, the sequence, the names answered 201 and what each
thread is about to answer.

`Documents`: `CheckOwner` is `ownedBy`, the first statement of download, verify
and remove; `Find` and `Data` are `findById` and `getPdfData`; `Delete` is
`deleteById` and looks at `RETURNING`. `RemoveAccount` is the cascade of
`scripts/init.sql`. A file stands for the name, bytes, hash and signature of an
upload. `list` is a single SELECT that changes nothing.

`DocumentShelf` is what a user may believe: every request is one transaction. A
document comes onto the shelf under a fresh id, is served whole to its owner, is
deleted once. The refinement mapping takes the rows for the shelf and what a
thread is about to answer for the result; serving happens at the last of the
three statements of `download` and `verify`, deleting at the second of `remove`.

### SigningKey

The server and the script have a program counter each and share the file, which
is missing, partial or holds a key. `Create` is `fopen(path, "wx")`, `Write` is
`fwrite` and `fclose`, which may fail with any part of the key written. It may
also succeed with nothing written: `exportPrivateKeyPEM()` answers its own
failure with an empty text, neither caller looks at it (`main.cpp:60`, `:141`),
and an empty file counts as saved. `blank` records that the server did so; no
guard reads it. `Crash` may come at any point. `Check` is the script's `[ -f ]`.
`signed` records which key signed and whether that server had warned that it
could not persist its key. Operators who delete or edit the file, and a host
that loses flushed data, are left out. Under `docker-compose.yml` the server
sees the directory read-only (`ReadOnly = TRUE`); the run takes `FALSE`, which
has more behaviours, and the proofs hold for both.

### PublicVerification

Composes `SigningKey` with the two public endpoints. `SignPdf` is `sign`, which
gives a signature away; a `Form` is any combination of document, signature and
key a caller may send: keys of servers, an ML-DSA-65 key of somebody else, a key
of another algorithm, text that is neither. `Refused` is status 400,
`VerifyExternal` the answer, `IsOwnPublicKey` the comparison with the key of the
running process. `failing` is what OpenSSL cannot do for one request, for want
of memory say: the verification, the export of the caller's key, the export of
the server's own, which also stands for a server without a public key because
the copy in `generateKeyPair()` failed. An export that fails gives an empty PEM:
`PublicKey` then answers 500, and two of them compare equal in `IsOwnPublicKey`.
`Ask` keeps one answer of a server that has not warned, given while nothing
failed, so that it can be compared with what later servers would say. ML-DSA-65
is idealised: a signature is the pair of a key and a document.

`SigningAuthority` has no files, processes or warnings: the service gets one key
and keeps it, publishes it or not, and calls a signature its own exactly if that
signature is on record for that document. The refinement mapping takes the key
in the file for `kept`, the key of a server that is up and did not warn for
`public`, and what was signed with the kept key for the record. A server that
warned publishes something else and is not part of the promise. Nor is a server
that saved an empty text, which is just what it does not tell: `kept` then stays
empty for ever and the promise is kept by promising nothing. What is left in
that case is in `UnwarnedRecognised` and `AnswersStayTrue`, whose parts about
servers that are up hold without exception, because such a server is the last
that does not warn: the next finds a file it cannot load (`BlankIsFinal`).

### Startup

One action per step of `main()` in its order; `Continue` is a check that goes on
or ends the process, `Exit` the end, by `return 1` or by an exception nobody
catches, `Start` docker's restart (`depends_on` holds for the first start only).
`CheckStatus` has every outcome of the OCSP request: `Error` when nobody answers
within the timeout, and what `parseResponse` makes of the answers. Only `Revoked`
ends the process. `RunScript`, `Truncate`, `Fill` and `Abort` are
`generate_certs.sh`, which rewrites the files one after the other; a run signs
with its own CA, so a file is represented by the run that wrote it. The other
containers come and go (`ServiceChanges`), the operator revokes certificates.
The cache of `RevocationChecker` is empty at its only call and is left out.

### Threads

A request is the sequence of stores its handler calls (`Handlers`, from the
controllers' method lists and bodies); `login` calls PostgreSQL first, the
authenticated handlers Redis first. `Acquire` is the `lock_guard`, `Send` and
`Receive` the two halves of a command, `Unlock` the end of the guard's scope.
`Hang` is a store that keeps its connection open and never replies (there is no
command timeout), `Break` a lost connection, which neither client opens again.
There is no reentrancy and no thread takes two mutexes: both follow from the
code and are what `StuckOnlyAtHungStore` would notice.

`AtomicCommands` is what the other modules take for granted of a command: it is
called, executed at most once, and only while its own thread waits, and returned
or given up; a thread has one at a time. The refinement mapping takes the owners
of the mutexes for the callers and a reply in the socket for the execution, so
that a command is one atomic step of the store.

### Health

`IsExpired` compares in UTC, `GetNotAfter` is off by the zone of the host, because
`mktime()` takes UTC fields for local time. `TlsStatus` and `Overall` are
`AdminController::health`. `Renew` writes another certificate to disk, `Restart`
loads it. In the image the zone is UTC; the run takes a host west of it and the
theorem any zone, which says what the mistake costs.

### Dashboard

A call is a request under way: sent, or answered and not yet looked at, or
adrift, that is given up by the browser and perhaps still on its way to the
server. The server's step (`Serve`), the handler's second half (`Arrive`) and a
failed `fetch()` (`Reject`) are independent, so requests overtake one another,
are executed without an answer, and fail before or after they are executed. The
actions of the user are the first halves of the handlers. `Leave` is the
navigation to `index.html`, which throws away the page and the handlers that
still await something. After a `Reject` or a `Leave`, an upload or a DELETE that
was sent is adrift (`GivenUp`): `ServeAdrift` executes it later or never, also
after the next login, and nobody gets its answer. The other requests change
nothing at the server, so they are forgotten. The verify dialog covers the page
while it is open. The server is reduced to the documents of one user, one step
per request, which `DocumentShelf` justifies; `ImplementsShelf` says that what
comes back to the page about a document it named is `DocumentShelf`'s answer
about that document.

Two things that go wrong on the page are bounded rather than denied.
`BackOnlyInOlderList`: what brings a deleted document back is a list that was
asked for before the page said that it was deleted. `VerdictUnlessCrossed`: a
verdict stands under another document's name only if that dialog was opened
while another verification was under way. `crossed`, `told` and the `arg` of a
request for the list record this and are read by no guard.

## What is checked

| Run | Instance | Shows |
|---|---|---|
| `sessions` | 2 sids, 2 users, 2 threads, a clock of 5 ticks, 2 ticks per second, both TTLs 1 s | `SessionInv`, `ConfirmedSessionUsable`, `NoAdmissionAfterRemoval`, `ImplementsLifecycle` |
| `accounts` | 2 names, 2 passwords, 2 threads, ids up to 4 | `AccountsInv`, `AnswersAreOwn`, `RegisteredHasAccount`, `CredentialsAreStable`, `ImplementsRegistry` |
| `documents` | 2 users, 2 files, 2 threads, ids up to 3 | `DocumentsInv`, `ServedOwnDocument`, `AnsweredIsKept`, `OnlyOwnerDeletes`, `DeletedOnce`, `ImplementsShelf` |
| `signing_key` | 3 key pairs, 2 documents, any form, any failure in OpenSSL | `KeyIsNeverReplaced`, `PositiveMeansIssued`, `UnwarnedRecognised`, `AnswersStayTrue`, `ImplementsAuthority` |
| `startup` | 2 runs of the script, 1 crash | `StartupInv`, `ServesEventually` |
| `threads` | 2 threads, 2 stores | `ImplementsCommands`, `StuckOnlyAtHungStore`, `KeepsAnswering` |
| `health` | a certificate of 5 units, warning 2, zone -1, 10 instants | `DownIsAnnounced`, `OnlyRestartImproves` |
| `dashboard` | 2 requests under way or given up, 2 files, 2 ids | `ConfirmedIsDeleted`, `BackOnlyInOlderList`, `VerdictUnlessCrossed`, `ImplementsShelf`, `LogoutEnds` |

Every run also checks the type invariant of its module (`PublicTypeOK` for
`signing_key`). `ThreadsInv`, `HealthInv`, `KeyInv`, `KeysAreFresh`, `PublicInv`
and `DashboardInv` are what the proofs of the properties above rest on. They hold on
the same instances, are theorems or lemmas of the `*Proof` modules, and are not
among the runs' properties: a violation shows in the properties they are for.

Why the bounds are enough: every hazard above needs two requests, so two
threads; two users or names, to confuse them; two sids, so that a second login
overlaps the first; ids up to 3 or 4, so that an id can be used up by a failed
statement, freed by a removal and come round again if the code let it. The clock
has half seconds, so that cutting to whole seconds makes a difference, and runs
past the expiry of a token drawn at its second tick. Three key pairs are one for
each process and one for a later start (four in `script_creates_key`); two
documents, to take the signature of one for the other. Two runs of the script
give files of two generations beside each other, and a crash is one more restart
than the failures cause. Two threads hold both mutexes, and take them in both
orders. The certificate lives longer than the warning time and less long than
the clock, so that all three answers occur and a renewed one outlives it. Two
requests overtake each other, and two ids and files are enough to take one for
the other. The bounds are `MaxClock`, `MaxId`, `Sids`, `Keys`, `Runs`,
`Crashes`, `MaxTime`, `Calls` and `MaxFiles`; each stops an action that would go
beyond it and nothing else. Users, threads, sids, files and keys are symmetric;
the runs with a liveness property use no symmetry.

Every run checks deadlock; a process can always be restarted, so this says
little.

### Fairness

Three runs have liveness properties, all with weak fairness only.

* `Startup`: WF of the steps of `main()` and of docker's restart. Each step of
  `main()` ends: the connects fail or succeed, and the OCSP request has a timeout
  (`OCSPClient.cpp:49`). `ServesEventually` says nothing while the script runs,
  a store is down or the configuration is wrong; it does not need the responder.
* `Threads`: WF of every thread's next step and of the replies of a store that is
  not hung. A mutex is not fair: `KeepsAnswering` is about the server, not about
  each request, and `StuckOnlyAtHungStore` about what remains when clients have
  stopped.
* `Dashboard`: WF of the browser's event loop (`Browser`) and, as an assumption
  about the surroundings and not about the code, that every request is answered
  or fails (`Network`). Without the assumption a logout may wait for ever, see
  below.

No other property needs fairness; all of them are safety properties.

### Where the code and its documentation disagree

Four runs end in a counterexample, each a property taken from a text of the
repository:

* `logout_revokes`: README.md:165 says that a logout revokes the session "so the
  token stops working immediately". `AuthManager::logout` ignores a failed DEL
  (its header calls this best-effort) and the API answers "Logged out".
* `token_usable`: README.md:152 says that a login's token is "valid for one
  hour". `AuthManager::login` ignores a failed SETEX and hands out a token that
  no request accepts.
* `registered_can_log_in`: the login page says "Account created!" after a 201
  (`static/js/index.js:73`). Of two overlapping registrations of a name both get
  201, because `ON CONFLICT DO NOTHING` counts as success; the second user has
  no account.
* `script_creates_key`: the warning of `main.cpp:144-146` says "Run
  scripts/generate_certs.sh to create the key". If the failed write has left a
  truncated file, or an empty text was saved before, the script keeps the file.

Nine more configurations give counterexamples to what the repository says.
They are kept to be run by hand and are not among the runs of `PROJECT.json`:

* `MCServedIsValidated.cfg` (`Startup`): main.cpp:75 says "Validate server cert
  against CA (revocation check at startup)". The listener reads the files again
  (main.cpp:193) and may present a certificate written after the validation.
* `MCRevocationNoticed.cfg` (`Startup`): RevocationChecker.h:18-19 says "Called
  during handshake setup and periodically". There is one call, at the start; a
  certificate revoked later is presented as long as the process runs.
* `MCServerKeyTellsSigner.cfg` (`MCPublicVerification`): Controllers.cpp:489-490
  says of `server_key` "whether this server signed it". A signature of a server
  that warned that it could not persist its key is not recognised after its
  restart.
* `MCSavedIsInFile.cfg` (`MCSigningKey`): main.cpp:142 says "ML-DSA-65 key saved
  to ...". An export that fails gives an empty text, and an empty file is what
  was saved.
* `MCPositiveAlways.cfg` (`MCPublicVerification`): the same words of
  Controllers.cpp:489-490, read the other way. If both exports fail for one
  request, a foreign key is called the server's.
* `MCLogoutNeverStuck.cfg` (`Dashboard`): dashboard.js:193-194 says that "a
  failed/slow request never leaves the user stuck on the dashboard". The handler
  awaits a request without a timeout.
* `MCVerdictUnderItsName.cfg` (`Dashboard`): dashboard.html:99 heads the dialog
  "Verify: <filename>". A verdict that comes late is shown in the dialog of the
  next document.
* `MCDeletedStaysOff.cfg` (`Dashboard`): dashboard.js:80 says "Deleted: ...". A
  list asked for earlier may arrive later and bring the document back.
* `MCSignedOnceAtATime.cfg` (`Dashboard`): dashboard.js:150-151 disables the
  button while it says "Signing...". The first of two overlapping signings
  enables it again, and the second file can be sent twice.

Seen while reading, without a run: `tests/main.go:400` accepts 409 for a name
that exists, the API answers 400. The logout of `admin.js:107` has no `catch`, so a
failed request leaves the session in the browser, unlike the dashboard's.

## What is proved

Each theorem holds for all values of the constants that meet the named
assumptions of the component's module.

* `SessionsProof`: `SessionInv` is inductive together with `TypeOK`. Its core is
  `StoredBeforeKnown`: from the draw of a sid until its SETEX is over, no other
  thread and no client knows it and its key is absent. Hence no SETEX follows a
  DEL of the same key, a removed key stays removed (`RemovalIsFinal`), and the
  session that SETEX starts outlives the token (`ConfirmedUsable`), which needs
  `TokenTTL <= SessionTTL` (3600 and 3600 in the code). The same invariant gives
  the refinement (`SessionsRefineLifecycle`), one lemma per action.
  `NoAdmissionAfterRemoval` alone is not inductive: it says nothing of the
  logins under way.
* `AccountsProof`: `AccountsInv` (keys unique, the sequence ahead of all ids in
  rows and tokens, a token's id belongs to its account or to none) is inductive;
  the answers and the stability of credentials follow. The same invariant gives
  the refinement of `AccountRegistry` (`AccountsRefineRegistry`): the lookup of a
  registration is no step of the registry, its insert is `Register` or `Skip`, and
  a page is shown at the SELECT, where the id finds the token's own account.
* `DocumentsProof`: `ChecksHold` carries an ownership check over the statements
  that follow it: the row with that id has not changed, or is gone for good.
  This is what makes several statements without a transaction safe, and it rests
  on rows never being updated and ids never coming back. `DocumentsRefineShelf`
  turns it into the refinement, one lemma per action.
* `SigningKeyProof`: `KeyInv` says that whoever writes has created the file, and
  that an unwarned server's key, and the key of every unwarned signature, is the
  one in the file, unless a server saved an empty text. That server is then the
  last that does not warn (`BlankIsFinal`): the file stays partial for good, so
  every later server fails to load it and every script leaves it. Hence
  `SignaturesSurvive`, without that exception for the servers that are up: no
  unwarned server has another key than an unwarned signature.

  `PositivesAreIssued`, `UnwarnedAreRecognised` and `VerdictsAreStable` carry this
  over to `PublicVerification`: its steps are steps of `SigningKey` or leave its
  variables alone, and a kept answer names the key in the file, or that
  of the server that saved nothing.
  `KeyRefinesAuthority` is the refinement of `SigningAuthority`. It needs one thing
  more, `KeysAreFresh`: a key that is still to be written was never used to sign
  and is in nobody else's hands, so the record is empty when the key is kept. The
  rest follows from what holds before and after a step of the two processes.
* `StartupProof`: `StartupInv`, what has been checked holds to the end of the
  process, because `main()` works on what it has read and not on the files
  (`Validated`). The listener reads the files again; `ServedNotOlder` says that it
  presents the certificate that was validated or one of a later run of the script,
  which needs `FilesGrow`: the script's runs never put an older file back. This is
  what can be said for the counterexample of `ServedIsValidated`.
* `ThreadsProof`: `ThreadsInv`, for any number of threads: a socket holds at most
  one command or reply, that of the thread that holds the mutex. `ReplyIsOwn`
  follows, and `CommandsAreAtomic`, that `Threads` implements `AtomicCommands`:
  `Acquire`, `Reply`, `Receive`, `Fail` and `Break` map to `Call`, `Execute`,
  `Return`, `GiveUp` and `Lose`, every other step to a stutter. Without
  the invariant a reply in the socket could be about a command of somebody else.
* `HealthProof`: `HealthInv` bounds the end of the certificate by the last UP
  answer from below and by a DOWN answer from above; `DownComesAnnounced` is their
  difference, for any validity, warning time and zone. `AnswersOnlyWorsen` follows
  because only `Restart` changes `cert` and time does not go back.
* `DashboardProof`: `DashboardInv` has three parts. `KnownInv`: every document
  the page knows, from its list, a request or an answer, keeps its id for
  itself; hence a DELETE that names an id hits what was confirmed, also when the
  browser has given it up long ago (`OnlyConfirmedDeleted`), and the page is
  answered about the document it named (`DashboardRefinesShelf`). `DeletedInv`:
  what was deleted is not at the server from the answer on, nor in a list that
  was asked for after the page said so (`BackOnlyWithOlderList`). `VerdictInv`:
  without a crossing all verifications under way are about the document named in
  the dialog (`VerdictsUncrossed`).

`SessionLifecycle`, `AccountRegistry`, `DocumentShelf`, `SigningAuthority` and
`AtomicCommands` are thus each implemented for any number of threads, users, ids
and keys.

Only model-checked: the liveness properties (`ServesEventually`,
`StuckOnlyAtHungStore`, `KeepsAnswering`, `LogoutEnds`) and the counterexamples.
All safety properties of the runs that end without a counterexample are also proved.

## What is not modelled

Cryptography (ML-DSA-65, HMAC, Argon2id, base64) is idealised. How a filename
gets into a header (`contentDisposition`) and into the page (`escHtml`) is
formatting. The cache of `RevocationChecker` has one caller, which finds it
empty; several callers would race in it, but there are none. Of the frontend, the
login, admin and external-verification pages make one request at a time, and
downloads and the dialog of a new signature show one answer each. TLS
handshakes, Drogon, libcurl, OpenSSL and oqs-provider are libraries. Stylesheets,
pages, build files and the benchmark client carry no logic of the service.

## Plan

Done, in the order of importance: sessions and their abstract specification,
accounts, documents and theirs, the signing key and what anybody may verify with
it, the threads, the start-up, the dashboard, the health page, each with its
proofs.

Next:

1. A composition of `Sessions` and `Accounts`: login, account removal and a
   session that outlives its account. Today each has the half it needs: tokens
   are issued to accounts in `Accounts`, and users are constants in `Sessions`.
2. Proofs: the counterexamples' repaired forms, should the code change.
3. `RevocationChecker` with its cache, as soon as the server calls it while it
   runs.
