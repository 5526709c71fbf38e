---------------------------- MODULE HealthProof ----------------------------
(***************************************************************************)
(* Theorems about Health, for every validity, warning and time zone.       *)
(***************************************************************************)
EXTENDS Health, TLAPS

Inv == TypeOK /\ HealthInv

LEMMA InvBegins == Init => Inv
BY TimesAssumption, NoneAssumption DEF Init, Inv, TypeOK, HealthInv

\* An answer, and what the comparisons it was made of mean.
LEMMA AnswerMeans ==
  ASSUME TypeOK
  PROVE  /\ Overall \in Status
         /\ Overall = "UP" => cert > now /\ now + Warning + Zone < cert
         /\ Overall = "DOWN" => cert <= now
         /\ Overall = "DEGRADED" => cert > now /\ cert - Zone - now <= Warning
BY TimesAssumption
   DEF TypeOK, Overall, TlsStatus, ApiStatus, IsExpired, GetNotAfter, Rank, Status

LEMMA AskKeeps == Inv /\ Ask => Inv'
<1> SUFFICES ASSUME Inv, Ask PROVE Inv'
  OBVIOUS
<1>1. PICK p : p = [status |-> Overall, at |-> now]
  OBVIOUS
<1>2. /\ page' = p /\ p.status = Overall /\ p.at = now /\ p \in Page
      /\ up' = IF Overall = "UP" THEN now ELSE up
      /\ UNCHANGED <<now, file, cert>>
  BY <1>1, AnswerMeans DEF Ask, Page, Inv, TypeOK
<1>3. TypeOK'
  BY <1>2 DEF Inv, TypeOK
<1>4. HealthInv'
  BY <1>2, AnswerMeans DEF Inv, TypeOK, HealthInv
<1> QED
  BY <1>3, <1>4 DEF Inv

LEMMA StepKeeps == Inv /\ [Next]_vars => Inv'
<1> SUFFICES ASSUME Inv, [Next]_vars PROVE Inv'
  OBVIOUS
<1>1. CASE Ask
  BY <1>1, AskKeeps
<1>2. CASE Renew
  BY <1>2, TimesAssumption DEF Renew, Inv, TypeOK, HealthInv
<1>3. CASE Restart
  BY <1>3 DEF Restart, Inv, TypeOK, HealthInv
<1>4. CASE Tick
  BY <1>4 DEF Tick, Inv, TypeOK, HealthInv, Page
<1>5. CASE UNCHANGED vars
  BY <1>5 DEF vars, Inv, TypeOK, HealthInv
<1> QED
  BY <1>1, <1>2, <1>3, <1>4, <1>5 DEF Next

LEMMA InvHolds == Spec => []Inv
BY InvBegins, StepKeeps, PTL DEF Spec

\* The times and answers keep their types.
THEOREM HealthTypeCorrect == Spec => []TypeOK
BY InvHolds, PTL DEF Inv

\* Each answer stays true of the certificate it was given about.
THEOREM HealthInvariant == Spec => []HealthInv
BY InvHolds, PTL DEF Inv

\* Between UP and DOWN of one process lies the warning, off by the time zone,
\* for any validity, warning and zone.
THEOREM DownComesAnnounced == Spec => []DownIsAnnounced
<1>1. Inv => DownIsAnnounced
  <2> SUFFICES ASSUME Inv, page # None, up # None, page.status = "DOWN"
               PROVE  page.at - up > Warning + Zone
    BY DEF DownIsAnnounced
  <2>1. page.at \in Nat /\ cert <= page.at
    BY DEF Inv, TypeOK, HealthInv, Page
  <2>2. up \in Nat /\ cert \in Nat /\ up + Warning + Zone < cert
    BY DEF Inv, TypeOK, HealthInv
  <2> QED
    BY <2>1, <2>2, TimesAssumption
<1> QED
  BY <1>1, InvHolds, PTL

\* No answer of a process is better than an earlier one.
THEOREM AnswersOnlyWorsen == Spec => OnlyRestartImproves
<1>1. Inv /\ [Next]_vars =>
        [page # None /\ page' # None => Rank[page'.status] >= Rank[page.status]]_vars
  <2> SUFFICES ASSUME Inv, [Next]_vars, page # None, page' # None
               PROVE  Rank[page'.status] >= Rank[page.status]
    OBVIOUS
  <2>1. page.status \in Status /\ \A s \in Status : Rank[s] \in 0..2
    BY DEF Inv, TypeOK, Page, Status, Rank
  <2>2. CASE page' = page
    BY <2>1, <2>2
  <2>3. CASE Ask
    <3>1. page'.status = Overall
      BY <2>3 DEF Ask
    <3>2. /\ page.status = "DOWN" => Overall = "DOWN"
          /\ page.status = "DEGRADED" => Overall # "UP"
      <4>1. /\ now \in Nat /\ cert \in Nat /\ page.at \in Nat /\ page.at <= now
            /\ page.status = "DOWN" => cert <= page.at
            /\ page.status = "DEGRADED" => cert - Zone - page.at <= Warning
        BY DEF Inv, TypeOK, HealthInv, Page
      <4>2. Overall \in {"UP", "DEGRADED", "DOWN"}
        BY AnswerMeans DEF Inv, Status, Rank
      <4> QED
        BY <4>1, <4>2, AnswerMeans, TimesAssumption DEF Inv
    <3> QED
      BY <2>1, <3>1, <3>2, AnswerMeans DEF Inv, Status, Rank
  <2> QED
    BY <2>2, <2>3 DEF Next, Renew, Restart, Tick, vars
<1> QED
  BY <1>1, InvHolds, PTL DEF Spec, OnlyRestartImproves
=============================================================================
