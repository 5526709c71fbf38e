-------------------------- MODULE SigningKeyProof --------------------------
(***************************************************************************)
(* Theorems about SigningKey and PublicVerification, for every number of   *)
(* key pairs and for a directory the server may or may not write to.       *)
(***************************************************************************)
EXTENDS PublicVerification, TLAPS

LEMMA InitInv == Init => TypeOK /\ KeyInv
BY FileAssumption DEF Init, TypeOK, KeyInv, WriterOwnsFile, ServerKeyPersisted,
  SignaturesPersisted, BlankIsFinal, Process

\* One step of either process.  Write needs most: the file it fills is its
\* own, so no unwarned signature was made with what was there before, and none
\* was made yet when it saves an empty text.
LEMMA StepInv == TypeOK /\ KeyInv /\ [Next]_vars => TypeOK' /\ KeyInv'
<1> SUFFICES ASSUME TypeOK, KeyInv, [Next]_vars
             PROVE  TypeOK' /\ KeyInv'
  OBVIOUS
<1> USE FileAssumption
    DEF TypeOK, KeyInv, WriterOwnsFile, ServerKeyPersisted, SignaturesPersisted,
        BlankIsFinal, Process, Goto
<1>1. ASSUME NEW p \in Process, Start(p) PROVE TypeOK' /\ KeyInv'
  BY <1>1 DEF Start
<1>2. ASSUME NEW p \in Process, Create(p) PROVE TypeOK' /\ KeyInv'
  <2>1. CASE file' = Partial /\ Goto(p, "write") /\ UNCHANGED warned /\ file = Missing
    BY <1>2, <2>1 DEF Create
  <2>2. CASE NotPersisted(p) /\ UNCHANGED file
    BY <1>2, <2>2 DEF Create, NotPersisted
  <2> QED
    BY <1>2, <2>1, <2>2 DEF Create
<1>3. ASSUME NEW p \in Process, Write(p) PROVE TypeOK' /\ KeyInv'
  <2>1. /\ file = Partial /\ key[p] \in Keys /\ ~blank
        /\ \A s \in signed : s.warned
    BY <1>3 DEF Write
  <2>2. CASE file' = key[p] /\ Persisted(p) /\ UNCHANGED blank
    BY <1>3, <2>1, <2>2 DEF Write, Persisted
  <2>3. CASE file' = Partial /\ Persisted(p) /\ blank' = (blank \/ p = "server")
    BY <1>3, <2>1, <2>3 DEF Write, Persisted
  <2>4. CASE file' \in {Partial, key[p]} /\ NotPersisted(p) /\ UNCHANGED blank
    BY <1>3, <2>1, <2>4 DEF Write, NotPersisted
  <2> QED
    BY <1>3, <2>2, <2>3, <2>4 DEF Write
<1>4. ASSUME NEW p \in Process, Crash(p) PROVE TypeOK' /\ KeyInv'
  <2>1. CASE pc[p] = "write"
    <3>1. file = Partial /\ key[p] \in Keys /\ ~blank /\ \A s \in signed : s.warned
      BY <2>1
    <3> QED
      BY <1>4, <2>1, <3>1 DEF Crash
  <2>2. CASE pc[p] # "write"
    BY <1>4, <2>2 DEF Crash
  <2> QED
    BY <2>1, <2>2
<1>5. CASE Load
  BY <1>5 DEF Load
<1>6. CASE LoadFails
  BY <1>6 DEF LoadFails, Generate
<1>7. CASE Check
  BY <1>7 DEF Check, Generate
<1>8. CASE Sign
  BY <1>8 DEF Sign
<1>9. CASE UNCHANGED vars
  BY <1>9 DEF vars
<1> QED
  BY <1>1, <1>2, <1>3, <1>4, <1>5, <1>6, <1>7, <1>8, <1>9 DEF Next, KeyStep

LEMMA AlwaysInv == Spec => [](TypeOK /\ KeyInv)
BY InitInv, StepInv, PTL DEF Spec

\* The variables of main(), the script and the file keep their types.
THEOREM SigningKeyTypeCorrect == Spec => []TypeOK
BY AlwaysInv, PTL

\* One writer at a time; an unwarned server's key is in the file, and so is the
\* key of every unwarned signature, unless a server saved an empty text, which is
\* then the last that does not warn (main(), writePrivateKeyFile()).
THEOREM KeyInvariant == Spec => []KeyInv
BY AlwaysInv, PTL

\* Signatures of a server that did not warn survive restarts, crashes of either
\* process and the race between them: no unwarned server has another key, and the
\* key is in the file unless what was saved was empty.
THEOREM SignaturesSurvive == Spec => []UnwarnedSignaturesVerify
<1>1. TypeOK /\ KeyInv => UnwarnedSignaturesVerify
  BY DEF KeyInv, ServerKeyPersisted, SignaturesPersisted, BlankIsFinal,
         UnwarnedSignaturesVerify
<1> QED
  BY <1>1, AlwaysInv, PTL

\* One step leaves a key in the file where it is: a writer has found the file
\* missing, and it is partial until the writer is done.
LEMMA KeyStepKeepsKey ==
  ASSUME TypeOK, KeyInv, [Next]_vars PROVE (file \in Keys) => (file' = file)
<1> SUFFICES ASSUME Next, file \in Keys
             PROVE  file' = file
  BY DEF vars
<1> USE FileAssumption DEF KeyInv, WriterOwnsFile, Process
<1>1. \A p \in Process : Start(p) \/ Create(p) \/ Write(p) \/ Crash(p) => file' = file
  BY DEF Start, Create, Write, Crash
<1>2. Load \/ LoadFails \/ Sign \/ Check => file' = file
  BY DEF Load, LoadFails, Sign, Check
<1> QED
  BY <1>1, <1>2 DEF Next, KeyStep

\* A key in the file is never overwritten (writePrivateKeyFile()'s "wx").
THEOREM KeyStays == Spec => KeyIsNeverReplaced
<1>1. TypeOK /\ KeyInv /\ [Next]_vars => [(file \in Keys) => (file' = file)]_vars
  BY KeyStepKeepsKey
<1> QED
  BY <1>1, AlwaysInv, PTL DEF Spec, KeyIsNeverReplaced

----------------------------------------------------------------------------
(* PublicVerification                                                      *)

Inv == PublicTypeOK /\ PublicInv /\ KeyInv

LEMMA PublicBegins == PublicInit => Inv
BY InitInv DEF PublicInit, Inv, PublicTypeOK, PublicInv, ToldInv, IssuedInv

\* A step of the public model is a step of SigningKey or leaves it alone.
LEMMA KeyPart ==
  ASSUME Inv, [PublicNext]_publicVars
  PROVE  TypeOK' /\ KeyInv' /\ ((file \in Keys) => (file' = file))
<1>1. [Next]_vars
  BY DEF PublicNext, SignPdf, Ask, publicVars, Next, vars
<1>2. TypeOK /\ KeyInv
  BY DEF Inv, PublicTypeOK
<1>3. QED BY <1>1, <1>2, StepInv, KeyStepKeepsKey

\* Keys signed with are only added.
LEMMA KeyStepKeepsSigned == KeyStep => signed' = signed
BY DEF KeyStep, Start, Create, Write, Crash, Load, LoadFails, Check

\* What is answered while nothing fails.
LEMMA NothingFails ==
  ASSUME NEW form
  PROVE  VerifyExternal(form, {}) =
           [valid |-> DigestVerify(form.public_key, form.pdf, form.signature),
            server_key |-> form.public_key = key["server"]]
<1>1. IsOwnPublicKey(form.public_key, {}) = (form.public_key = key["server"])
  BY DEF IsOwnPublicKey, Pem
<1>2. QED BY <1>1 DEF VerifyExternal, DigestVerify

\* No unwarned server comes up any more once a server has saved an empty text;
\* the one that did keeps its key.
LEMMA BlankServerStays ==
  ASSUME Inv, KeyStep, blank, (Up /\ ~warned)'
  PROVE  Up /\ ~warned /\ key'["server"] = key["server"]
<1> USE FileAssumption
    DEF Inv, KeyInv, WriterOwnsFile, BlankIsFinal, PublicTypeOK, TypeOK, Process, Goto, Up
<1>1. file = Partial /\ \A p \in Process : pc[p] # "write"
  OBVIOUS
<1>2. ASSUME NEW p \in Process, Start(p) \/ Create(p) \/ Write(p) \/ Crash(p)
      PROVE  Up /\ ~warned /\ key'["server"] = key["server"]
  <2>1. CASE Start(p)
    BY <2>1 DEF Start
  <2>2. CASE Create(p)
    BY <1>1, <2>2 DEF Create, NotPersisted
  <2>3. CASE Crash(p)
    BY <2>3 DEF Crash
  <2>4. CASE Write(p)
    BY <1>1, <2>4 DEF Write
  <2> QED
    BY <1>2, <2>1, <2>2, <2>3, <2>4
<1>3. ~Load
  BY <1>1 DEF Load
<1>4. ~LoadFails
  BY DEF LoadFails, Generate
<1>5. ASSUME Check PROVE Up /\ ~warned /\ key'["server"] = key["server"]
  BY <1>5 DEF Check, Generate
<1> QED
  BY <1>2, <1>3, <1>4, <1>5 DEF KeyStep

\* The flag stays.
LEMMA BlankStays == ASSUME [PublicNext]_publicVars, blank PROVE blank'
BY DEF PublicNext, KeyStep, Start, Create, Write, Crash, Load, LoadFails, Check,
   SignPdf, Sign, Ask, publicVars, vars

\* A kept answer stays in step with the file: a key in it stays, and an
\* unwarned server holds it when it answers, or is the one that saved an empty
\* text.
LEMMA ToldPreserved ==
  ASSUME Inv, [PublicNext]_publicVars PROVE ToldInv'
<1>1. (file \in Keys) => (file' = file)
  BY KeyPart
<1>2. CASE told' = told
  <2> SUFFICES ASSUME told # Absent
               PROVE  ToldInv'
    BY <1>2 DEF ToldInv
  <2>1. CASE /\ file \in Keys
             /\ told.answer = [valid |-> DigestVerify(told.form.public_key, told.form.pdf, told.form.signature),
                               server_key |-> told.form.public_key = file]
    BY <1>1, <1>2, <2>1 DEF ToldInv, DigestVerify
  <2>2. CASE blank /\ (Up /\ ~warned => VerifyExternal(told.form, {}) = told.answer)
    <3>1. blank'
      BY <2>2, BlankStays
    <3>2. ASSUME (Up /\ ~warned)'
          PROVE  Up /\ ~warned /\ key'["server"] = key["server"]
      <4>1. CASE KeyStep
        BY <2>2, <3>2, <4>1, BlankServerStays
      <4>2. CASE UNCHANGED <<pc, key, warned>>
        BY <3>2, <4>2 DEF Up
      <4> QED
        BY <4>1, <4>2 DEF PublicNext, SignPdf, Sign, Ask, publicVars, vars
    <3>3. (Up /\ ~warned => VerifyExternal(told.form, {}) = told.answer)'
      BY <1>2, <2>2, <3>2 DEF VerifyExternal, IsOwnPublicKey, Pem, DigestVerify
    <3> QED
      BY <3>1, <3>3 DEF ToldInv
  <2> QED
    BY <2>1, <2>2 DEF Inv, PublicInv, ToldInv
<1>3. CASE Ask
  <2>1. PICK form \in Form, failing \in Failures :
          told' = IF warned \/ failing # {} THEN Absent
                  ELSE [form |-> form, answer |-> VerifyExternal(form, failing)]
    BY <1>3 DEF Ask
  <2>2. UNCHANGED <<file, pc, key, warned, blank>> /\ Up
    BY <1>3 DEF Ask, vars
  <2>3. CASE warned \/ failing # {}
    BY <2>1, <2>3 DEF ToldInv
  <2>4. CASE ~warned /\ failing = {}
    <3>1. told'.form = form /\ told'.answer = VerifyExternal(form, {})
      BY <2>1, <2>4
    <3>2. CASE ~blank
      <4>1. file \in Keys /\ key["server"] = file
        BY <2>2, <2>4, <3>2 DEF Up, Inv, KeyInv, ServerKeyPersisted
      <4>2. told'.answer = [valid |-> DigestVerify(form.public_key, form.pdf, form.signature),
                            server_key |-> form.public_key = file]
        BY <3>1, <4>1, NothingFails
      <4> QED
        BY <2>2, <3>1, <4>1, <4>2 DEF ToldInv, DigestVerify
    <3>3. CASE blank
      <4>1. (VerifyExternal(told.form, {}) = told.answer)'
        BY <2>2, <3>1 DEF VerifyExternal, IsOwnPublicKey, Pem, DigestVerify
      <4> QED
        BY <2>2, <3>3, <4>1 DEF ToldInv
    <3> QED
      BY <3>2, <3>3
  <2> QED
    BY <2>3, <2>4
<1>4. QED BY <1>2, <1>3 DEF PublicNext, SignPdf, publicVars

\* A form that is accepted is well-formed.
LEMMA AcceptedForms ==
  ASSUME PublicTypeOK, NEW form \in Form, ~Refused(form) PROVE form \in GoodForm
<1>1. Signatures \subseteq SignaturesOver(Keys \cup {Foreign, OtherType})
  BY DEF Signatures, SignaturesOver, PublicTypeOK
<1>2. QED BY <1>1 DEF Form, GoodForm, Refused, IsMlDsa65

\* One step preserves the types and what was given out.
LEMMA PublicSteps ==
  ASSUME Inv, [PublicNext]_publicVars PROVE Inv'
<1>1. TypeOK' /\ KeyInv' /\ ToldInv'
  BY KeyPart, ToldPreserved
<1>2. CASE UNCHANGED issued /\ UNCHANGED told /\ signed' = signed
  BY <1>1, <1>2 DEF Inv, PublicTypeOK, PublicInv, IssuedInv
<1>3. CASE SignPdf
  <2>1. PICK pdf \in Pdfs :
          issued' = issued \cup {[pdf |-> pdf, key |-> key["server"], warned |-> warned]}
    BY <1>3 DEF SignPdf
  <2>2. key["server"] \in Keys /\ warned \in BOOLEAN
    BY <1>3 DEF SignPdf, Sign, Inv, KeyInv, ServerKeyPersisted, PublicTypeOK, TypeOK
  <2>3. signed' = signed \cup {[key |-> key["server"], warned |-> warned]}
    BY <1>3 DEF SignPdf, Sign
  <2>4. UNCHANGED told
    BY <1>3 DEF SignPdf
  <2>5. IssuedInv'
    <3> SUFFICES ASSUME NEW i \in issued'
                 PROVE  [key |-> i.key, warned |-> i.warned] \in signed'
      BY DEF IssuedInv
    <3>1. CASE i \in issued
      BY <2>3, <3>1 DEF Inv, PublicInv, IssuedInv
    <3>2. CASE i = [pdf |-> pdf, key |-> key["server"], warned |-> warned]
      BY <2>3, <3>2
    <3>3. QED BY <2>1, <3>1, <3>2
  <2>6. QED BY <1>1, <2>1, <2>2, <2>4, <2>5 DEF Inv, PublicTypeOK, PublicInv
<1>4. CASE Ask
  <2>1. PICK form \in Form, failing \in Failures :
          /\ ~Refused(form)
          /\ told' = IF warned \/ failing # {} THEN Absent
                     ELSE [form |-> form, answer |-> VerifyExternal(form, failing)]
    BY <1>4 DEF Ask
  <2>2. form \in GoodForm /\ VerifyExternal(form, failing) \in Answer
    BY <2>1, AcceptedForms DEF Inv, VerifyExternal, Answer, DigestVerify, IsOwnPublicKey
  <2>3. issued' = issued /\ signed' = signed
    BY <1>4 DEF Ask, vars
  <2>4. QED BY <1>1, <2>1, <2>2, <2>3 DEF Inv, PublicTypeOK, PublicInv, IssuedInv
<1>5. CASE KeyStep /\ UNCHANGED <<issued, told>>
  BY <1>2, <1>5, KeyStepKeepsSigned
<1>6. CASE UNCHANGED publicVars
  BY <1>2, <1>6 DEF publicVars, vars
<1>7. QED BY <1>3, <1>4, <1>5, <1>6 DEF PublicNext

LEMMA PublicAlways == PublicSpec => []Inv
BY PublicBegins, PublicSteps, PTL DEF PublicSpec

\* The variables keep their types: only answers to good forms are kept.
THEOREM PublicTypeCorrect == PublicSpec => []PublicTypeOK
BY PublicAlways, PTL DEF Inv

\* What was given out was signed, and kept answers are about the key in the
\* file (DocumentController::sign and verifyExternal).
THEOREM PublicInvariant == PublicSpec => []PublicInv
BY PublicAlways, PTL DEF Inv

\* A signature that is valid under a key that is the server's was issued, whatever
\* fails but both exports.
THEOREM PositivesAreIssued == PublicSpec => []PositiveMeansIssued
<1>1. Inv => PositiveMeansIssued
  <2> SUFFICES ASSUME Inv, Up, NEW form \in Form, NEW failing \in Failures, ~Refused(form),
                      ~({"theirs", "own"} \subseteq failing),
                      VerifyExternal(form, failing).valid,
                      VerifyExternal(form, failing).server_key
               PROVE  \E i \in issued : i.pdf = form.pdf /\ i.key = form.public_key
    BY DEF PositiveMeansIssued
  <2>1. form.signature = [key |-> form.public_key, pdf |-> form.pdf]
    BY DEF VerifyExternal, DigestVerify
  <2>2. form.public_key = key["server"] /\ form.public_key \in Keys
    <3>1. Pem(form.public_key, "theirs" \in failing) = Pem(key["server"], "own" \in failing)
      BY DEF VerifyExternal, IsOwnPublicKey
    <3>2. key["server"] \in Keys /\ form.public_key \in Keys \cup {Foreign}
      BY DEF Up, Inv, KeyInv, ServerKeyPersisted, Refused, IsMlDsa65
    <3>3. key["server"] # Absent /\ form.public_key # Absent
      BY <3>2, FormAssumption
    <3>4. "theirs" \notin failing /\ "own" \notin failing
      BY <3>1, <3>3 DEF Pem
    <3> QED
      BY <3>1, <3>2, <3>4 DEF Pem
  <2>3. form \in GoodForm
    BY AcceptedForms DEF Inv
  <2>4. form.signature \in [key : Keys \cup {Foreign, OtherType}, pdf : Pdfs]
    BY <2>1, <2>2, <2>3 DEF GoodForm
  <2>5. form.signature \in Signatures
    BY <2>4, NoSignatureAssumption DEF Form
  <2>6. form.signature.key \notin {Foreign, OtherType}
    BY <2>1, <2>2, FormAssumption
  <2>7. \E i \in issued : form.signature = [key |-> i.key, pdf |-> i.pdf]
    BY <2>5, <2>6 DEF Signatures, SignaturesOver
  <2>8. QED BY <2>1, <2>7
<1>2. QED BY <1>1, PublicAlways, PTL

\* What an unwarned server signed, every unwarned server recognises; it was signed
\* with the key in the file, unless a server saved an empty text.
THEOREM UnwarnedAreRecognised == PublicSpec => []UnwarnedRecognised
<1>1. Inv => UnwarnedRecognised
  <2> SUFFICES ASSUME Inv, NEW i \in issued, ~i.warned
               PROVE  /\ file = i.key \/ blank
                      /\ Up /\ ~warned =>
                           LET form == [pdf |-> i.pdf, signature |-> [key |-> i.key, pdf |-> i.pdf],
                                        public_key |-> PublicKey({})]
                           IN /\ ~Refused(form)
                              /\ VerifyExternal(form, {}) = [valid |-> TRUE, server_key |-> TRUE]
    BY DEF UnwarnedRecognised
  <2>1. PICK s \in signed : s = [key |-> i.key, warned |-> i.warned]
    BY DEF Inv, PublicInv, IssuedInv
  <2>2. s.key = i.key /\ ~s.warned
    BY <2>1
  <2>3. file = i.key \/ blank
    BY <2>2 DEF Inv, KeyInv, SignaturesPersisted
  <2>4. ASSUME Up, ~warned
        PROVE  LET form == [pdf |-> i.pdf, signature |-> [key |-> i.key, pdf |-> i.pdf],
                            public_key |-> PublicKey({})]
               IN ~Refused(form) /\ VerifyExternal(form, {}) = [valid |-> TRUE, server_key |-> TRUE]
    <3>1. key["server"] \in Keys
      BY <2>4 DEF Up, Inv, KeyInv, ServerKeyPersisted
    <3>2. key["server"] = i.key
      <4>1. CASE blank
        BY <2>2, <2>4, <4>1 DEF Up, Inv, KeyInv, BlankIsFinal
      <4>2. CASE ~blank
        BY <2>3, <2>4, <4>2 DEF Up, Inv, KeyInv, ServerKeyPersisted
      <4> QED
        BY <4>1, <4>2
    <3>3. i.pdf \in Pdfs
      BY DEF Inv, PublicTypeOK
    <3>4. [key |-> i.key, pdf |-> i.pdf] \notin {Absent, Text}
      BY <3>1, <3>2, <3>3, NoSignatureAssumption
    <3> QED
      BY <3>1, <3>2, <3>3, <3>4, FormAssumption DEF Refused, IsMlDsa65, PublicKey, Pem,
         VerifyExternal, DigestVerify, IsOwnPublicKey
  <2> QED
    BY <2>3, <2>4
<1>2. QED BY <1>1, PublicAlways, PTL

\* No restart, crash or race over the key file changes an unwarned verdict.
THEOREM VerdictsAreStable == PublicSpec => []AnswersStayTrue
<1>1. Inv => AnswersStayTrue
  <2> SUFFICES ASSUME Inv, told # Absent, Up, ~warned
               PROVE  VerifyExternal(told.form, {}) = told.answer
    BY DEF AnswersStayTrue
  <2>1. CASE blank /\ (Up /\ ~warned => VerifyExternal(told.form, {}) = told.answer)
    BY <2>1
  <2>2. CASE /\ file \in Keys
             /\ told.answer = [valid |-> DigestVerify(told.form.public_key, told.form.pdf, told.form.signature),
                               server_key |-> told.form.public_key = file]
    <3>1. key["server"] = file
      BY <2>2, FileAssumption DEF Up, Inv, KeyInv, ServerKeyPersisted, BlankIsFinal
    <3> QED
      BY <2>2, <3>1, NothingFails
  <2> QED
    BY <2>1, <2>2 DEF Inv, PublicInv, ToldInv
<1>2. QED BY <1>1, PublicAlways, PTL

----------------------------------------------------------------------------
(* SigningAuthority                                                        *)

LEMMA FreshBegins == Init => KeysAreFresh
BY FileAssumption DEF Init, KeysAreFresh, Process

\* A generated key differs from all that there were, and only its process
\* writes it; what is loaded or kept is no key still to be written.
LEMMA FreshSteps ==
  ASSUME TypeOK, KeyInv, KeysAreFresh, [Next]_vars PROVE KeysAreFresh'
<1> USE FileAssumption DEF TypeOK, KeysAreFresh, Process, Goto
<1>1. ASSUME NEW p \in Process, Start(p) PROVE KeysAreFresh'
  BY <1>1 DEF Start, KeyInv, WriterOwnsFile
<1>2. ASSUME NEW p \in Process, Create(p) PROVE KeysAreFresh'
  <2>1. CASE file' = Partial /\ Goto(p, "write")
    BY <1>2, <2>1 DEF Create, KeyInv, WriterOwnsFile
  <2>2. CASE NotPersisted(p) /\ UNCHANGED file
    BY <1>2, <2>2 DEF Create, NotPersisted
  <2> QED
    BY <1>2, <2>1, <2>2 DEF Create
<1>3. ASSUME NEW p \in Process, Write(p) \/ Crash(p) PROVE KeysAreFresh'
  <2>1. UNCHANGED <<used, key, signed>>
    BY <1>3 DEF Write, Crash
  <2>2. pc'[p] \notin {"create", "write"} /\ \A q \in Process \ {p} : pc'[q] = pc[q]
    BY <1>3 DEF Write, Crash, Persisted, NotPersisted
  <2>3. \/ file' = file
        \/ pc[p] = "write" /\ file' \in {Partial, key[p]} /\ key[p] \in Keys
    BY <1>3 DEF Write, Crash, KeyInv, WriterOwnsFile
  <2> QED
    BY <2>1, <2>2, <2>3 DEF KeyInv, WriterOwnsFile
<1>5. CASE Load
  BY <1>5 DEF Load
<1>6. CASE LoadFails
  BY <1>6 DEF LoadFails, Generate
<1>7. CASE Check
  BY <1>7 DEF Check, Generate
<1>8. CASE Sign
  BY <1>8 DEF Sign, KeyInv, ServerKeyPersisted
<1>9. CASE UNCHANGED vars
  BY <1>9 DEF vars
<1> QED
  BY <1>1, <1>2, <1>3, <1>5, <1>6, <1>7, <1>8, <1>9 DEF Next, KeyStep

Held == Inv /\ KeysAreFresh

LEMMA HeldAlways == PublicSpec => []Held
<1>1. PublicInit => Held
  BY PublicBegins, FreshBegins DEF PublicInit, Held
<1>2. Held /\ [PublicNext]_publicVars => Held'
  <2> SUFFICES ASSUME Held, [PublicNext]_publicVars PROVE Held'
    OBVIOUS
  <2>1. [Next]_vars
    BY DEF PublicNext, SignPdf, Ask, publicVars, Next, vars
  <2> QED
    BY <2>1, PublicSteps, FreshSteps DEF Held, Inv, PublicTypeOK
<1> QED
  BY <1>1, <1>2, PTL DEF PublicSpec

Public == IF Up /\ ~warned /\ ~blank THEN key["server"] ELSE Missing
OfKept == {j \in issued : j.key = Kept}
Endorsed == {[key |-> i.key, pdf |-> i.pdf] : i \in OfKept}
Verdict == IF told = Absent \/ blank THEN Missing
           ELSE [form |-> told.form, own |-> told.answer.valid /\ told.answer.server_key]

\* Only the kept key is published.
LEMMA PublicIsKept == Inv => /\ Public \in {Missing, Kept}
                             /\ Public # Missing => Kept \in Keys
BY DEF Inv, KeyInv, ServerKeyPersisted, Public, Kept, Up

\* A key comes into the file from the process that is writing it.
LEMMA KeyComesFromWriter ==
  ASSUME KeyStep, file' # file, file' \in Keys
  PROVE  \E p \in Process : pc[p] = "write" /\ file' = key[p]
BY FileAssumption DEF KeyStep, Start, Create, Write, Crash, Load, LoadFails, Check

\* The life of the key: it is kept once, and published or not.
LEMMA KeyStepOnAuthority ==
  ASSUME Held, Inv', KeyStep, UNCHANGED <<issued, told>>
  PROVE  [Authority!Next]_(Authority!vars)
<1>1. Verdict' = Verdict
  <2>1. CASE blank' = blank
    BY <2>1 DEF Verdict
  <2>2. CASE blank' # blank
    <3>1. ~blank /\ blank' /\ file = Partial
      BY <2>2, BlankStays DEF KeyStep, Start, Create, Write, Crash, Load, LoadFails, Check,
         Held, Inv, KeyInv, WriterOwnsFile, PublicTypeOK, TypeOK
    <3>2. told = Absent
      BY <3>1, FileAssumption DEF Held, Inv, PublicInv, ToldInv
    <3> QED
      BY <3>1, <3>2 DEF Verdict
  <2> QED
    BY <2>1, <2>2
<1>2. /\ Public \in {Missing, Kept} /\ Public' \in {Missing, Kept'}
      /\ Public' # Missing => Kept' \in Keys
  <2>1. /\ Public \in {Missing, Kept}
        /\ Public # Missing => Kept \in Keys
    BY PublicIsKept DEF Held
  <2>2. /\ Public' \in {Missing, Kept'}
        /\ Public' # Missing => Kept' \in Keys
    BY DEF Inv, KeyInv, ServerKeyPersisted, Public, Kept, Up
  <2> QED
    BY <2>1, <2>2
<1>3. Missing \notin Keys /\ (file \in Keys => file' = file)
  BY FileAssumption, KeyPart DEF Held, PublicNext
<1>4. CASE Kept' = Kept
  <2>1. Endorsed' = Endorsed
    BY <1>4 DEF Endorsed, OfKept
  <2>2. CASE Public' = Missing
    <3>1. Authority!Close
      BY <1>1, <1>4, <2>1, <2>2 DEF Authority!Close, Public, Endorsed, OfKept, Verdict
    <3> QED
      BY <3>1 DEF Authority!Next
  <2>3. CASE Public' = Kept /\ Public = Missing /\ Kept # Missing
    <3>1. Authority!Open
      BY <1>1, <1>4, <2>1, <2>3 DEF Authority!Open, Public, Endorsed, OfKept, Verdict
    <3> QED
      BY <3>1 DEF Authority!Next
  <2>4. CASE Public' = Public
    BY <1>1, <1>4, <2>1, <2>4 DEF Authority!vars, Public, Endorsed, OfKept, Verdict
  <2> QED
    BY <1>2, <1>3, <1>4, <2>2, <2>3, <2>4
<1>5. CASE Kept' # Kept
  <2>1. /\ Kept = Missing /\ Kept' = file' /\ file' \in Keys /\ file' # file
        /\ Public = Missing
    BY <1>2, <1>3, <1>5 DEF Kept
  <2>2. \A s \in signed : s.key # file'
    BY <2>1, KeyComesFromWriter DEF Held, KeysAreFresh
  <2>3. \A i \in issued : i.key \in Keys /\ i.key # file'
    <3> SUFFICES ASSUME NEW i \in issued PROVE i.key \in Keys /\ i.key # file'
      OBVIOUS
    <3>1. PICK s \in signed : s = [key |-> i.key, warned |-> i.warned]
      BY DEF Held, Inv, PublicInv, IssuedInv
    <3> QED
      BY <2>2, <3>1 DEF Held, Inv, PublicTypeOK
  <2>4. OfKept = {} /\ OfKept' = {}
    BY <1>3, <2>1, <2>3 DEF OfKept
  <2>5. Endorsed' = Endorsed
    BY <2>4 DEF Endorsed
  <2>6. Authority!Keep(file')
    BY <1>1, <1>2, <2>1, <2>5 DEF Authority!Keep, Public, Endorsed, OfKept, Verdict
  <2> QED
    BY <2>1, <2>6 DEF Authority!Next
<1> QED
  BY <1>4, <1>5

\* A signature with the kept key goes on record, any other does not.
LEMMA SignOnAuthority ==
  ASSUME Held, SignPdf
  PROVE  [Authority!Next]_(Authority!vars)
<1>1. UNCHANGED <<file, pc, key, warned, blank, told>>
  BY DEF SignPdf, Sign
<1>2. Kept' = Kept /\ Public' = Public /\ Verdict' = Verdict
  BY <1>1 DEF Kept, Public, Up, Verdict
<1>3. PICK pdf \in Pdfs :
        issued' = issued \cup {[pdf |-> pdf, key |-> key["server"], warned |-> warned]}
  BY DEF SignPdf
<1>4. PICK x : x = [pdf |-> pdf, key |-> key["server"], warned |-> warned]
  OBVIOUS
<1>5. x.pdf = pdf /\ x.key = key["server"] /\ issued' = issued \cup {x}
  BY <1>3, <1>4
<1>6. key["server"] \in Keys
  BY DEF SignPdf, Sign, Held, Inv, KeyInv, ServerKeyPersisted
<1>7. CASE key["server"] = Kept
  <2>1. OfKept' = OfKept \cup {x}
    BY <1>2, <1>5, <1>7 DEF OfKept
  <2>2. Endorsed' = Endorsed \cup {[key |-> Kept, pdf |-> pdf]}
    BY <1>5, <1>7, <2>1 DEF Endorsed
  <2>3. Authority!Sign(pdf)
    BY <1>2, <1>6, <1>7, <2>2, FileAssumption
       DEF Authority!Sign, Public, Endorsed, OfKept, Verdict
  <2> QED
    BY <2>3 DEF Authority!Next
<1>8. CASE key["server"] # Kept
  <2>1. OfKept' = OfKept
    BY <1>2, <1>5, <1>8 DEF OfKept
  <2>2. Endorsed' = Endorsed
    BY <2>1 DEF Endorsed
  <2> QED
    BY <1>2, <2>2 DEF Authority!vars, Public, Endorsed, OfKept, Verdict
<1> QED
  BY <1>7, <1>8

\* An answer of a server that did not warn is the one on record.
LEMMA AskOnAuthority ==
  ASSUME Held, Ask
  PROVE  [Authority!Next]_(Authority!vars)
<1>1. UNCHANGED <<file, pc, key, warned, blank, issued>> /\ told = Absent
  BY DEF Ask, vars
<1>2. Kept' = Kept /\ Public' = Public /\ Endorsed' = Endorsed
  BY <1>1 DEF Kept, Public, Up, OfKept, Endorsed
<1>3. PICK form \in Form, failing \in Failures :
        /\ ~Refused(form)
        /\ told' = IF warned \/ failing # {} THEN Absent
                   ELSE [form |-> form, answer |-> VerifyExternal(form, failing)]
  BY DEF Ask
<1>4. told' # Absent => /\ ~warned /\ failing = {}
                        /\ told'.form = form
                        /\ told'.answer = VerifyExternal(form, failing)
  BY <1>3
<1>5. Verdict = Missing
  BY <1>1 DEF Verdict
<1>6. CASE blank \/ told' = Absent
  <2>1. Verdict' = Verdict
    BY <1>1, <1>5, <1>6 DEF Verdict
  <2> QED
    BY <1>2, <2>1 DEF Authority!vars, Public, Endorsed, OfKept, Verdict
<1>7. CASE ~blank /\ told' # Absent
  <2>1. /\ key["server"] = Kept /\ Public = Kept /\ Kept \in Keys /\ Public # Missing
        /\ failing = {}
    BY <1>4, <1>7, FileAssumption DEF Ask, Up, Public, Kept, Held, Inv, KeyInv, ServerKeyPersisted
  <2>2. /\ told'.answer.valid = DigestVerify(form.public_key, form.pdf, form.signature)
        /\ told'.answer.server_key = (form.public_key = Kept)
    BY <1>4, <1>7, <2>1, NothingFails
  <2>3. form \in GoodForm
    BY <1>3, AcceptedForms DEF Held, Inv
  <2>4. (told'.answer.valid /\ told'.answer.server_key) =
          (/\ form.public_key = Kept
           /\ form.signature \in {e \in Endorsed : e.pdf = form.pdf})
    <3>1. ASSUME form.public_key = Kept, form.signature = [key |-> Kept, pdf |-> form.pdf]
          PROVE  form.signature \in {e \in Endorsed : e.pdf = form.pdf}
      <4>1. form.pdf \in Pdfs
        BY <2>3 DEF GoodForm
      <4>2. form.signature \in [key : Keys \cup {Foreign, OtherType}, pdf : Pdfs]
        BY <2>1, <3>1, <4>1
      <4>3. form.signature \in Signatures
        BY <4>2, NoSignatureAssumption DEF Form
      <4>4. form.signature.key = Kept /\ form.signature.pdf = form.pdf
        BY <3>1
      <4>5. form.signature.key \notin {Foreign, OtherType}
        BY <2>1, <4>4, FormAssumption
      <4>6. PICK i \in issued : form.signature = [key |-> i.key, pdf |-> i.pdf]
        BY <4>3, <4>5 DEF Signatures, SignaturesOver
      <4>7. i \in OfKept
        BY <4>4, <4>6 DEF OfKept
      <4> QED
        BY <4>4, <4>6, <4>7 DEF Endorsed
    <3>2. ASSUME form.signature \in {e \in Endorsed : e.pdf = form.pdf}
          PROVE  form.signature = [key |-> Kept, pdf |-> form.pdf]
      <4>1. PICK i \in OfKept : form.signature = [key |-> i.key, pdf |-> i.pdf]
        BY <3>2 DEF Endorsed
      <4> QED
        BY <3>2, <4>1 DEF OfKept
    <3> QED
      BY <2>1, <2>2, <3>1, <3>2 DEF DigestVerify
  <2>5. Verdict' = [form |-> form,
                    own  |-> /\ form.public_key = Public
                             /\ form.signature \in {e \in Endorsed : e.pdf = form.pdf}]
    BY <1>1, <1>4, <1>7, <2>1, <2>4 DEF Verdict
  <2>6. Authority!Verify(form)
    BY <1>2, <1>5, <2>1, <2>5 DEF Authority!Verify, Public, Endorsed, OfKept, Verdict
  <2> QED
    BY <2>3, <2>6 DEF Authority!Next
<1> QED
  BY <1>6, <1>7

\* Through restarts, crashes and races the service has one key, publishes it, and
\* calls its own exactly what was signed with it (main(), the script, sign,
\* publicKey and verifyExternal together).
THEOREM KeyRefinesAuthority == PublicSpec => ImplementsAuthority
<1>1. PublicInit => Authority!Init
  <2> SUFFICES ASSUME PublicInit PROVE Authority!Init
    OBVIOUS
  <2>1. OfKept = {}
    BY DEF PublicInit, OfKept
  <2>2. Endorsed = {}
    BY <2>1 DEF Endorsed
  <2>3. Kept = Missing /\ Public = Missing /\ Verdict = Missing
    BY FileAssumption DEF PublicInit, Init, Kept, Public, Up, Process, Verdict
  <2> QED
    BY <2>2, <2>3 DEF Authority!Init, Public, Endorsed, OfKept, Verdict
<1>2. Held /\ Held' /\ [PublicNext]_publicVars => [Authority!Next]_(Authority!vars)
  <2> SUFFICES ASSUME Held, Held', [PublicNext]_publicVars
               PROVE  [Authority!Next]_(Authority!vars)
    OBVIOUS
  <2>1. CASE KeyStep /\ UNCHANGED <<issued, told>>
    BY <2>1, KeyStepOnAuthority DEF Held
  <2>2. CASE SignPdf
    BY <2>2, SignOnAuthority
  <2>3. CASE Ask
    BY <2>3, AskOnAuthority
  <2>4. CASE UNCHANGED publicVars
    BY <2>4 DEF publicVars, vars, Authority!vars, Kept, Up
  <2> QED
    BY <2>1, <2>2, <2>3, <2>4 DEF PublicNext
<1> QED
  BY <1>1, <1>2, HeldAlways, PTL DEF PublicSpec, ImplementsAuthority, Authority!Spec
=============================================================================
