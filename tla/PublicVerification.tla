------------------------- MODULE PublicVerification -------------------------
(***************************************************************************)
(* What anybody may ask of the server about a signature, composed with the *)
(* life of its key (SigningKey): GET /api/documents/public-key hands out   *)
(* the public key, POST /api/documents/verify takes a PDF, a signature and *)
(* a public key and says whether the signature is valid under that key and *)
(* whether the key is the server's.                                        *)
(*                                                                         *)
(* ML-DSA-65 is idealised: a signature is the pair of a key and what it    *)
(* signed.  A key pair and the PEM of its public key are one value.        *)
(***************************************************************************)
EXTENDS SigningKey

CONSTANTS Pdfs,      \* documents
          Foreign,   \* an ML-DSA-65 key that no server holds
          OtherType, \* a public key of another algorithm
          Text,      \* a field that is not base64, or not a PEM
          Junk,      \* base64 of something that is no signature
          Absent     \* a field that is not in the form, a PEM that is empty

ASSUME FormAssumption ==
  /\ {Foreign, OtherType, Text, Absent} \cap Keys = {}
  /\ Foreign \notin {OtherType, Text, Absent}
  /\ OtherType \notin {Text, Absent}
  /\ Absent \notin Pdfs /\ Junk \notin {Text, Absent}
ASSUME NoSignatureAssumption ==
  {Junk, Text, Absent} \cap [key : Keys \cup {Foreign, OtherType}, pdf : Pdfs] = {}

VARIABLES issued,  \* the signatures servers have given out: of which document,
                   \* with which key, and whether the server had warned
          told     \* an answer that somebody keeps

publicVars == <<issued, told, vars>>

SignaturesOver(keys) == [key : keys, pdf : Pdfs]

\* The signatures that there are: those of the servers, and any of others.
Signatures == {[key |-> i.key, pdf |-> i.pdf] : i \in issued}
              \cup SignaturesOver({Foreign, OtherType})

\* The forms of verifyExternal that can be sent now.
Form == [pdf : Pdfs \cup {Absent}, signature : Signatures \cup {Junk, Text, Absent},
         public_key : Keys \cup {Foreign, OtherType, Text, Absent}]

Up == pc["server"] = "up"

\* What may fail in OpenSSL, for want of memory say, while a request is answered:
\* the verification, the export of the caller's key and that of the server's own.
Failures == SUBSET {"verify", "theirs", "own"}

----------------------------------------------------------------------------
(* The handlers                                                            *)

\* Mutated form: any key is as good as an ML-DSA-65 key.
IsMlDsa65_Any(k) == k \in Keys \cup {Foreign, OtherType}

\* The key is of the type ML-DSA-65 and not of another one.
IsMlDsa65(k) == k \in Keys \cup {Foreign}

\* EVP_DigestVerify()
DigestVerify(k, pdf, signature) == signature = [key |-> k, pdf |-> pdf]

\* The PEM that exportKeyPEM() makes of a key: empty when that fails.
Pem(k, fails) == IF fails THEN Absent ELSE k

\* Mutated form: the PEM is compared by its type.
IsOwnPublicKey_SameType(k, failing) == IsMlDsa65(k)

\* DilithiumSigner::isOwnPublicKey(), with the key that main() got at start: two
\* PEMs are compared, and two empty ones are equal.  A key that cannot be read
\* once more, or a server without a public key, is as if one export failed.
IsOwnPublicKey(k, failing) ==
  Pem(k, "theirs" \in failing) = Pem(key["server"], "own" \in failing)

\* Status 400: a field is missing, the signature does not decode, or
\* verifyWithPEM() throws because the key is no ML-DSA-65 key.  (Without memory
\* to read the key it answers "not valid" instead, to good keys as to others.)
Refused(form) == \/ form.pdf = Absent
                 \/ form.signature \in {Absent, Text}
                 \/ ~IsMlDsa65(form.public_key)

VerifyExternal(form, failing) ==
  [valid      |-> /\ "verify" \notin failing
                  /\ DigestVerify(form.public_key, form.pdf, form.signature),
   server_key |-> IsOwnPublicKey(form.public_key, failing)]

\* Status 500 when the PEM is empty.
PublicKey(failing) == Pem(key["server"], "own" \in failing)

----------------------------------------------------------------------------
(* The system                                                              *)

PublicInit == Init /\ issued = {} /\ told = Absent

\* DocumentController::sign answers with the signature.
SignPdf == /\ Sign
           /\ \E pdf \in Pdfs : issued' = issued \cup
                {[pdf |-> pdf, key |-> key["server"], warned |-> warned]}
           /\ UNCHANGED told

\* Somebody asks about a signature, and keeps the answer of a server that has not
\* warned; no answer is kept when something failed.
Ask == /\ Up /\ told = Absent
       /\ \E form \in Form, failing \in Failures :
            /\ ~Refused(form)
            /\ told' = IF warned \/ failing # {} THEN Absent
                       ELSE [form |-> form, answer |-> VerifyExternal(form, failing)]
       /\ UNCHANGED <<issued, vars>>

PublicNext == \/ KeyStep /\ UNCHANGED <<issued, told>>
              \/ SignPdf
              \/ Ask

PublicSpec == PublicInit /\ [][PublicNext]_publicVars

\* A form that is not refused.
GoodForm == [pdf : Pdfs, signature : SignaturesOver(Keys \cup {Foreign, OtherType}) \cup {Junk},
             public_key : Keys \cup {Foreign}]
Answer == [valid : BOOLEAN, server_key : BOOLEAN]

PublicTypeOK ==
  /\ TypeOK
  /\ issued \subseteq [pdf : Pdfs, key : Keys, warned : BOOLEAN]
  /\ told \in [form : GoodForm, answer : Answer] \cup {Absent}

----------------------------------------------------------------------------
(* Properties                                                              *)

\* A "valid" signature of the "server's key" was made by a server over that
\* document, although the caller chooses all three fields and holds keys of
\* other types, and whatever fails but both exports at once
\* (Controllers.cpp:487-491, DilithiumSigner.cpp:176).
PositiveMeansIssued ==
  Up => \A form \in Form, failing \in Failures :
          ~Refused(form) /\ ~({"theirs", "own"} \subseteq failing) =>
            LET v == VerifyExternal(form, failing) IN
            v.valid /\ v.server_key =>
              \E i \in issued : i.pdf = form.pdf /\ i.key = form.public_key

\* A signature handed out by a server that did not warn is recognised, with the
\* key that any server that did not warn publishes, whatever crashed or raced in
\* between; and it was made with the key in the file, which the next server
\* loads, unless a server saved an empty text (main.cpp:130-148,
\* Controllers.cpp:433).
UnwarnedRecognised ==
  \A i \in issued : ~i.warned =>
    /\ file = i.key \/ blank
    /\ Up /\ ~warned =>
         LET form == [pdf |-> i.pdf, signature |-> [key |-> i.key, pdf |-> i.pdf],
                      public_key |-> PublicKey({})]
         IN ~Refused(form) /\ VerifyExternal(form, {}) = [valid |-> TRUE, server_key |-> TRUE]

\* An answer of a server that did not warn is the answer every later server
\* that did not warn would give: restarts and the script change no verdict.
AnswersStayTrue ==
  told # Absent /\ Up /\ ~warned => VerifyExternal(told.form, {}) = told.answer

Kept == IF file \in Keys THEN file ELSE Missing

\* What a server shows that saved an empty text, or that warned, is not promised.
Authority == INSTANCE SigningAuthority WITH
  None <- Missing, Forms <- GoodForm,
  kept <- Kept,
  public <- IF Up /\ ~warned /\ ~blank THEN key["server"] ELSE Missing,
  endorsed <- {[key |-> i.key, pdf |-> i.pdf] : i \in {j \in issued : j.key = Kept}},
  verdict <- IF told = Absent \/ blank THEN Missing
             ELSE [form |-> told.form, own |-> told.answer.valid /\ told.answer.server_key]

\* Through restarts, crashes and the race for the file, those who verify see one
\* key for good, published by every server that did not warn, and an answer is
\* "valid" and "the server's" exactly for what was signed with it, unless a server
\* saved an empty text (main.cpp:130-148, sign, publicKey and verifyExternal
\* together).
ImplementsAuthority == Authority!Spec

\* src/src/api/Controllers.cpp:490, "whether that key is the server's, i.e.
\* whether this server signed it": a valid signature whose key is not called
\* the server's was made by somebody else.
ServerKeyTellsSigner ==
  Up => \A i \in issued :
    VerifyExternal([pdf |-> i.pdf, signature |-> [key |-> i.key, pdf |-> i.pdf],
                    public_key |-> i.key], {}).server_key

\* Two exports that fail for one request make a foreign key the server's: with
\* them a "valid" signature of the "server's key" need not be the server's.
PositiveAlwaysMeansIssued ==
  Up => \A form \in Form, failing \in Failures : ~Refused(form) =>
          LET v == VerifyExternal(form, failing) IN
          v.valid /\ v.server_key =>
            \E i \in issued : i.pdf = form.pdf /\ i.key = form.public_key

\* A kept answer: the key it called the server's is the one in the file, or that
\* of the server that saved an empty text.
ToldInv == told # Absent =>
  \/ /\ file \in Keys
     /\ told.answer = [valid |-> DigestVerify(told.form.public_key, told.form.pdf, told.form.signature),
                       server_key |-> told.form.public_key = file]
  \/ /\ blank
     /\ Up /\ ~warned => VerifyExternal(told.form, {}) = told.answer

\* Every signature given out is one that SigningKey knows of.
IssuedInv == \A i \in issued : [key |-> i.key, warned |-> i.warned] \in signed

\* What the proofs need beside KeyInv.
PublicInv == ToldInv /\ IssuedInv
=============================================================================
