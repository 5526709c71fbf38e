----------------------------- MODULE SigningKey -----------------------------
(***************************************************************************)
(* The ML-DSA-65 key that signs documents: main() loads it from a file at  *)
(* every start, and generates and tries to persist one when it cannot;     *)
(* scripts/generate_certs.sh creates the same file from outside.  A        *)
(* document verifies after a restart only under the key that signed it.    *)
(*                                                                         *)
(* The server and the script may run at the same time, either may die at   *)
(* any point, and a file is first created and then filled.                 *)
(***************************************************************************)

CONSTANTS Keys,      \* key pairs; their number bounds the generations
          Missing,   \* no file at MLDSA_KEY_PATH
          Partial,   \* a file that is empty, truncated or still being written
          ReadOnly   \* whether the server sees the directory read-only

ASSUME FileAssumption == Missing \notin Keys /\ Partial \notin Keys /\ Missing # Partial
ASSUME ReadOnlyAssumption == ReadOnly \in BOOLEAN

VARIABLES file,    \* what is at MLDSA_KEY_PATH
          used,    \* the key pairs generated so far
          pc,      \* where the server and the script are
          key,     \* the key pair each holds in memory
          warned,  \* the server said that it could not persist its key
          signed,  \* the stored documents: which key signed, and whether the
                   \* server that signed had warned
          blank    \* history: a server has written an empty text as its key
                   \* and called it saved

vars == <<file, used, pc, key, warned, signed, blank>>

Process == {"server", "script"}

TypeOK == /\ file \in Keys \cup {Missing, Partial}
          /\ used \subseteq Keys
          /\ pc \in [Process -> {"stopped", "start", "create", "write", "up", "done"}]
          /\ key \in [Process -> Keys \cup {Missing}]
          /\ warned \in BOOLEAN
          /\ signed \subseteq [key : Keys, warned : BOOLEAN]
          /\ blank \in BOOLEAN

Init == /\ file = Missing
        /\ used = {}
        /\ pc = [p \in Process |-> "stopped"]
        /\ key = [p \in Process |-> Missing]
        /\ warned = FALSE
        /\ signed = {}
        /\ blank = FALSE

Goto(p, l) == pc' = [pc EXCEPT ![p] = l]

----------------------------------------------------------------------------
(* Both: DilithiumSigner::generateKeyPair() and writePrivateKeyFile().     *)

Start(p) == /\ pc[p] \in {"stopped", "done"}
            /\ Goto(p, "start")
            /\ key' = [key EXCEPT ![p] = Missing]
            /\ UNCHANGED <<file, used, warned, signed, blank>>

\* A new key pair, never seen before; on failure the process ends.  (When the
\* copy that is its public key fails, the server holds none and signs all the
\* same; what it then answers is what PublicVerification's "own" failing is.)
Generate(p) ==
  \/ \E k \in Keys \ used : /\ used' = used \cup {k}
                            /\ key' = [key EXCEPT ![p] = k]
                            /\ Goto(p, "create")
  \/ Goto(p, "stopped") /\ UNCHANGED <<used, key>>

\* The key is not persisted: the server warns and serves all the same, the
\* script fails.
NotPersisted(p) == /\ Goto(p, IF p = "server" THEN "up" ELSE "stopped")
                   /\ warned' = (warned \/ p = "server")

\* The key is persisted.
Persisted(p) == /\ Goto(p, IF p = "server" THEN "up" ELSE "done")
                /\ warned' = (warned /\ p # "server")

\* Mutated form: fopen(path, "w"), which truncates an existing file.
Create_Truncates(p) ==
  /\ pc[p] = "create"
  /\ \/ /\ ~(p = "server" /\ ReadOnly)
        /\ file' = Partial
        /\ Goto(p, "write") /\ UNCHANGED warned
     \/ NotPersisted(p) /\ UNCHANGED file
  /\ UNCHANGED <<used, key, signed, blank>>

\* fopen(path, "wx"): creates the file, and fails when it exists, when the
\* directory is read-only, or for another reason.
Create(p) ==
  /\ pc[p] = "create"
  /\ \/ /\ file = Missing /\ ~(p = "server" /\ ReadOnly)
        /\ file' = Partial
        /\ Goto(p, "write") /\ UNCHANGED warned
     \/ NotPersisted(p) /\ UNCHANGED file
  /\ UNCHANGED <<used, key, signed, blank>>

\* Mutated form: the results of fwrite() and fclose() are not looked at.
Write_IgnoresFailure(p) ==
  /\ pc[p] = "write"
  /\ file' \in {Partial, key[p]} /\ Persisted(p)
  /\ UNCHANGED <<used, key, signed, blank>>

\* fwrite() and fclose(): an error leaves the file behind, filled or not.  The
\* text may be empty, because exportPrivateKeyPEM() answers its own failure with
\* "", which nobody looks at: an empty file counts as a key that was saved.
Write(p) ==
  /\ pc[p] = "write"
  /\ \/ file' = key[p] /\ Persisted(p) /\ UNCHANGED blank
     \/ file' = Partial /\ Persisted(p) /\ blank' = (blank \/ p = "server")
     \/ file' \in {Partial, key[p]} /\ NotPersisted(p) /\ UNCHANGED blank
  /\ UNCHANGED <<used, key, signed>>

\* The process dies; what it was writing may or may not have reached the disk.
Crash(p) ==
  /\ pc[p] \notin {"stopped", "done"}
  /\ IF pc[p] = "write" THEN file' \in {Partial, key[p]} ELSE UNCHANGED file
  /\ Goto(p, "stopped")
  /\ UNCHANGED <<used, key, warned, signed, blank>>

----------------------------------------------------------------------------
(* The server: main()                                                      *)

\* Mutated form: the result of PEM_read_PrivateKey() is not looked at.
Load_Unparsed == /\ pc["server"] = "start"
                 /\ file # Missing
                 /\ key' = [key EXCEPT !["server"] = file]
                 /\ warned' = FALSE
                 /\ Goto("server", "up")
                 /\ UNCHANGED <<file, used, signed, blank>>

\* loadPrivateKey() succeeds.
Load == /\ pc["server"] = "start"
        /\ file \in Keys
        /\ key' = [key EXCEPT !["server"] = file]
        /\ warned' = FALSE
        /\ Goto("server", "up")
        /\ UNCHANGED <<file, used, signed, blank>>

\* loadPrivateKey() fails, because there is no key in the file or the file
\* cannot be read.
LoadFails == /\ pc["server"] = "start"
             /\ Generate("server")
             /\ warned' = FALSE
             /\ UNCHANGED <<file, signed, blank>>

\* DocumentController::sign, as far as the key goes.
Sign == /\ pc["server"] = "up"
        /\ signed' = signed \cup {[key |-> key["server"], warned |-> warned]}
        /\ UNCHANGED <<file, used, pc, key, warned, blank>>

----------------------------------------------------------------------------
(* scripts/generate_certs.sh                                               *)

\* [ -f mldsa_server.key ]: an existing file is kept, or the API's image is
\* run to generate one.
Check == /\ pc["script"] = "start"
         /\ IF file = Missing
            THEN Generate("script")
            ELSE Goto("script", "done") /\ UNCHANGED <<used, key>>
         /\ UNCHANGED <<file, warned, signed, blank>>

\* Everything but a signature.
KeyStep == \/ \E p \in Process : Start(p) \/ Create(p) \/ Write(p) \/ Crash(p)
           \/ Load \/ LoadFails
           \/ Check

Next == KeyStep \/ Sign

Spec == Init /\ [][Next]_vars

----------------------------------------------------------------------------
(* Properties                                                              *)

\* src/main.cpp:29, "Refuses to overwrite an existing file": once a key is in
\* the file it stays, whoever else was about to write one.
KeyIsNeverReplaced == [][(file \in Keys) => (file' = file)]_vars

\* A document signed by a server that did not warn: every server that is up and
\* did not warn holds its key, whatever crashed, raced or was saved empty; and
\* its key is in the file for good, unless a server saved an empty text
\* (DilithiumSigner::verify after main() has loaded or generated the key).
UnwarnedSignaturesVerify ==
  \A s \in signed : ~s.warned =>
    /\ file = s.key \/ blank
    /\ pc["server"] = "up" /\ ~warned => key["server"] = s.key

\* src/main.cpp:144 tells the operator of a server that could not persist its key
\* to run scripts/generate_certs.sh "to create the key"; once the script is done
\* there is a key in the file.  An empty or truncated file stays as it is.
ScriptCreatesKey ==
  pc["server"] = "up" /\ warned /\ pc["script"] = "done" => file \in Keys

\* Who is writing has created the file, alone, and holds the key to write.
WriterOwnsFile ==
  /\ \A p \in Process : pc[p] = "write" => file = Partial
  /\ \A p \in Process : pc[p] \in {"create", "write"} => key[p] \in Keys
  /\ ~(pc["server"] = "write" /\ pc["script"] = "write")

\* src/main.cpp:142, "ML-DSA-65 key saved to": a server that did not warn has
\* its key in the file.  An empty text is saved as well.
SavedIsInFile == pc["server"] = "up" /\ ~warned => file = key["server"]

\* A server that is up holds a key; if it did not warn, the one in the file,
\* or it saved an empty text.
ServerKeyPersisted == pc["server"] = "up" => /\ key["server"] \in Keys
                                             /\ warned \/ file = key["server"] \/ blank

\* What was signed without a warning was signed with the key in the file, or
\* with that of the server that saved an empty text.
SignaturesPersisted == \A s \in signed : s.warned \/ file = s.key \/ blank

\* A server that saved an empty text is the last one that does not warn: the
\* empty file stays and nobody can create another.  While it is up, what was
\* signed without a warning is its own.
BlankIsFinal == blank =>
  /\ file = Partial
  /\ \A p \in Process : pc[p] # "write"
  /\ pc["server"] = "up" /\ ~warned =>
       \A s \in signed : s.warned \/ s.key = key["server"]

\* A key that is still to be written is nobody else's, and nothing was signed
\* with it: generateKeyPair() is called before the file is there.
KeysAreFresh ==
  /\ \A s \in signed : s.key \in used
  /\ file \in Keys => file \in used
  /\ \A p \in Process : key[p] # Missing => key[p] \in used
  /\ \A p \in Process : pc[p] \in {"create", "write"} =>
       /\ file # key[p]
       /\ \A s \in signed : s.key # key[p]
       /\ \A q \in Process \ {p} : key[q] # key[p]

\* What the two processes keep between them (writePrivateKeyFile() in both).
KeyInv == /\ WriterOwnsFile
          /\ ServerKeyPersisted
          /\ SignaturesPersisted
          /\ BlankIsFinal
=============================================================================
