---------------------------- MODULE StartupProof ----------------------------
(* Safety of Startup for any number of script runs and crashes. *)
EXTENDS Startup, TLAPS

\* The initial state satisfies the invariants.
LEMMA StartupBegins == Init => TypeOK /\ StartupInv
  BY BoundsAssumption, PartialAssumption DEF Init, TypeOK, StartupInv, Validated,
     ServedNotOlder, FilesGrow, File, Settings, Stores,
     Stopped, Steps, Checked, CertStatus

\* The script, the operator and the containers leave the server's memory alone.
LEMMA OthersPreserve ==
  ASSUME TypeOK, StartupInv, Script \/ World
  PROVE  TypeOK' /\ StartupInv'
<1> USE PartialAssumption, BoundsAssumption
<1>1. StartupInv'
  <2>1. (Validated /\ ServedNotOlder)' /\ cert' = cert /\ cert \in Nat /\ cert <= run
    BY DEF Script, World, process, StartupInv, Validated, ServedNotOlder, FilesGrow, TypeOK
  <2>2. /\ run' \in Nat /\ run <= run'
        /\ \A f \in File : file'[f] # Partial =>
             \/ file'[f] = run'
             \/ file[f] # Partial /\ file'[f] = file[f] /\ file[f] \in Nat
    <3>1. run \in Nat /\ \A f \in File : file[f] # Partial => file[f] \in Nat
      BY DEF TypeOK
    <3>2. CASE RunScript \/ Abort
      BY <3>1, <3>2 DEF RunScript, Abort
    <3>3. CASE Truncate \/ Fill
      <4>1. run' = run /\ \A f \in File : file'[f] \in {file[f], Partial, run}
        BY <3>3 DEF Truncate, Fill, TypeOK
      <4>2. run' \in Nat /\ run <= run'
        BY <3>1, <4>1
      <4>3. ASSUME NEW f \in File, file'[f] # Partial
            PROVE  \/ file'[f] = run'
                   \/ file[f] # Partial /\ file'[f] = file[f] /\ file[f] \in Nat
        BY <3>1, <4>1, <4>3, Zenon
      <4> QED
        BY <4>2, <4>3
    <3>4. CASE World
      BY <3>1, <3>4 DEF World, disk
    <3> QED
      BY <3>2, <3>3, <3>4 DEF Script
  <2>3. cert <= run' /\ run \in Nat
    BY <2>1, <2>2 DEF TypeOK
  <2>4. FilesGrow'
    <3>1. \A f \in File : file'[f] # Partial => file'[f] <= run'
      BY <2>2, <2>3 DEF StartupInv, FilesGrow
    <3>2. file'["server.crt"] # Partial => cert <= file'["server.crt"]
      BY <2>2, <2>3 DEF StartupInv, FilesGrow, File
    <3> QED
      BY <2>1, <2>3, <3>1, <3>2 DEF FilesGrow
  <2> QED
    BY <2>1, <2>4 DEF StartupInv
<1>2. CASE Script
  <2>1. UNCHANGED <<revoked, services, config, pc, ca, cert, status, served, crashes>>
    BY <1>2 DEF Script, world, process
  <2>2. file' \in [File -> 0..Runs \cup {Partial}] /\ run' \in 0..Runs /\ step' \in 0..3
    <3>1. CASE RunScript
      BY <3>1, BoundsAssumption DEF RunScript, TypeOK
    <3>2. CASE Truncate
      BY <3>2 DEF Truncate, TypeOK
    <3>3. CASE Fill
      <4>1. step' \in 0..3
        BY <3>3 DEF Fill, TypeOK
      <4>2. file' \in [File -> 0..Runs \cup {Partial}] /\ run' = run
        BY <3>3 DEF Fill, TypeOK
      <4>3. QED BY <4>1, <4>2 DEF TypeOK
    <3>4. CASE Abort
      BY <3>4 DEF Abort, TypeOK
    <3>5. QED BY <1>2, <3>1, <3>2, <3>3, <3>4 DEF Script
  <2>3. QED BY <1>1, <2>1, <2>2 DEF TypeOK
<1>3. CASE World
  <2>1. UNCHANGED <<file, run, step, config, pc, ca, cert, status, served, crashes>>
    BY <1>3 DEF World, disk, process
  <2>2. revoked' \subseteq 1..Runs
    <3>1. CASE Revoke
      <4>1. PICK n \in 1..run : revoked' = revoked \cup {n}
        BY <3>1 DEF Revoke
      <4>2. n \in 1..Runs
        BY <4>1, BoundsAssumption DEF TypeOK
      <4>3. QED BY <4>1, <4>2 DEF TypeOK
    <3>2. CASE ServiceChanges
      BY <3>2 DEF ServiceChanges, TypeOK
    <3>3. QED BY <1>3, <3>1, <3>2 DEF World
  <2>3. services' \subseteq Stores \cup {"ocsp"}
    BY <1>3 DEF World, Revoke, ServiceChanges, TypeOK
  <2>4. QED BY <1>1, <2>1, <2>2, <2>3 DEF TypeOK
<1>4. QED BY <1>2, <1>3

\* What an action of main() has to establish.
ProcessOK == /\ pc \in Stopped \cup Steps
             /\ ca \in 0..Runs /\ cert \in 0..Runs /\ served \in 0..Runs
             /\ status \in CertStatus \cup {"none"}

\* A process that ends has nothing left to be wrong about.
LEMMA ExitPreserves ==
  ASSUME TypeOK, StartupInv, Exit, UNCHANGED disk PROVE ProcessOK' /\ StartupInv'
<1>1. ProcessOK' /\ (Validated /\ ServedNotOlder)'
  BY BoundsAssumption DEF Exit, ProcessOK, Validated, ServedNotOlder, Checked, Stopped, Steps, CertStatus
<1>2. /\ run \in Nat /\ 0 <= run /\ cert' = 0
      /\ \A f \in File : file[f] # Partial => 0 <= file[f]
  BY BoundsAssumption DEF Exit, TypeOK
<1>3. FilesGrow'
  BY <1>2 DEF StartupInv, FilesGrow, disk, File
<1> QED
  BY <1>1, <1>3 DEF StartupInv

\* Files and certificate are as they were.
LEMMA FilesStay ==
  ASSUME FilesGrow, UNCHANGED <<disk, cert>> PROVE FilesGrow'
  BY DEF FilesGrow, disk

\* The steps of main() that only look at something and go on or end.
LEMMA ContinuePreserves ==
  ASSUME TypeOK, StartupInv, UNCHANGED disk, NEW at, NEW ok, NEW next, Continue(at, ok, next),
         <<at, next>> \in {<<"providers", "ca">>, <<"postgres", "redis">>,
           <<"redis", "secret">>, <<"secret", "mldsa">>, <<"mldsa", "listen">>}
           \/ (at = "chain" /\ next = "ocsp" /\ ok = (cert = ca))
  PROVE  ProcessOK' /\ StartupInv'
<1>1. CASE Exit
  BY <1>1, ExitPreserves
<1>2. CASE ok /\ pc = at /\ pc' = next /\ Keep
  <2>1. ca' = ca /\ cert' = cert /\ status' = status /\ served' = served
    BY <1>2 DEF Keep
  <2>2. QED BY <1>2, <2>1, FilesStay DEF TypeOK, StartupInv, Validated, ServedNotOlder, ProcessOK,
             Checked, Stopped, Steps
<1>3. QED BY <1>1, <1>2 DEF Continue

\* One step of main().
LEMMA BootPreserves ==
  ASSUME TypeOK, StartupInv, UNCHANGED disk, Boot PROVE ProcessOK' /\ StartupInv'
<1>1. CASE Start
  BY <1>1, FilesStay DEF Start, Keep, TypeOK, StartupInv, Validated, ServedNotOlder, ProcessOK, Checked, Stopped, Steps
<1>2. CASE LoadProviders
  BY <1>2, ContinuePreserves DEF LoadProviders
<1>3. CASE LoadCA
  BY <1>3, ExitPreserves, FilesStay DEF LoadCA, TypeOK, StartupInv, Validated, ServedNotOlder, ProcessOK, Checked, Stopped, Steps
<1>4. CASE LoadCert
  <2>1. CASE Exit
    BY <2>1, ExitPreserves
  <2>2. CASE /\ pc = "cert" /\ file["server.crt"] \in 1..Runs /\ pc' = "chain"
             /\ cert' = file["server.crt"] /\ UNCHANGED <<ca, status, served>>
    <3>1. FilesGrow'
      BY <2>2, PartialAssumption, BoundsAssumption DEF StartupInv, FilesGrow, disk, File
    <3>2. ProcessOK' /\ (Validated /\ ServedNotOlder)'
      BY <2>2 DEF TypeOK, StartupInv, Validated, ServedNotOlder, ProcessOK, Checked, Stopped, Steps
    <3> QED
      BY <3>1, <3>2 DEF StartupInv
  <2>3. QED BY <1>4, <2>1, <2>2 DEF LoadCert
<1>5. CASE VerifySignature
  BY <1>5, ContinuePreserves DEF VerifySignature
<1>6. CASE CheckCert
  <2>1. CheckStatus \subseteq CertStatus
    BY DEF CheckStatus, Parse, CertStatus
  <2>2. QED BY <1>6, <2>1, ExitPreserves, FilesStay DEF CheckCert, TypeOK, StartupInv, Validated, ServedNotOlder, ProcessOK,
             Checked, Stopped, Steps, CertStatus
<1>7. CASE Connect
  BY <1>7, ContinuePreserves DEF Connect
<1>8. CASE CheckSecret
  BY <1>8, ContinuePreserves DEF CheckSecret
<1>9. CASE GetSigningKey
  BY <1>9, ContinuePreserves DEF GetSigningKey
<1>10. CASE Listen
  <2>1. CASE Exit
    BY <2>1, ExitPreserves
  <2>2. CASE /\ pc = "listen" /\ file["server.crt"] \in 1..Runs /\ pc' = "up"
             /\ served' = file["server.crt"] /\ UNCHANGED <<ca, cert, status>>
    <3>1. cert <= file["server.crt"]
      BY <2>2, PartialAssumption DEF StartupInv, FilesGrow
    <3>2. ProcessOK' /\ (Validated /\ ServedNotOlder)'
      BY <2>2, <3>1, BoundsAssumption DEF TypeOK, StartupInv, Validated, ServedNotOlder, ProcessOK,
         Checked, Stopped, Steps
    <3> QED
      BY <2>2, <3>2, FilesStay DEF StartupInv
  <2>3. QED BY <1>10, <2>1, <2>2 DEF Listen
<1>11. QED BY <1>1, <1>2, <1>3, <1>4, <1>5, <1>6, <1>7, <1>8, <1>9, <1>10 DEF Boot

\* Every step of the system preserves the invariants.
LEMMA StartupSteps ==
  ASSUME TypeOK, StartupInv, [Next]_vars PROVE TypeOK' /\ StartupInv'
<1>1. CASE Script \/ World
  BY <1>1, OthersPreserve
<1>2. CASE Server
  <2>1. ProcessOK' /\ StartupInv'
    BY <1>2, BootPreserves DEF Server, disk
  <2>2. QED BY <1>2, <2>1 DEF Server, disk, world, TypeOK, ProcessOK
<1>3. CASE Crash
  <2>1. ProcessOK' /\ StartupInv'
    BY <1>3, ExitPreserves DEF Crash, disk
  <2>2. crashes' \in 0..Crashes
    BY <1>3, BoundsAssumption DEF Crash, TypeOK
  <2>3. QED BY <1>3, <2>1, <2>2 DEF Crash, disk, world, TypeOK, ProcessOK
<1>4. CASE UNCHANGED vars
  BY <1>4 DEF vars, disk, world, process, TypeOK, StartupInv, Validated, ServedNotOlder, FilesGrow
<1>5. QED BY <1>1, <1>2, <1>3, <1>4 DEF Next

\* The variables of the start-up keep their types.
THEOREM StartupTypeCorrect == Spec => []TypeOK
<1>1. Init /\ [][Next]_vars => [](TypeOK /\ StartupInv)
  BY StartupBegins, StartupSteps, PTL
<1>2. QED BY <1>1, PTL DEF Spec

\* What main() has checked stays true of what it holds, whatever is written
\* to the files it read, and what the listener presents is that or newer.
THEOREM CheckedStaysChecked == Spec => []StartupInv
<1>1. Init /\ [][Next]_vars => [](TypeOK /\ StartupInv)
  BY StartupBegins, StartupSteps, PTL
<1>2. QED BY <1>1, PTL DEF Spec
=============================================================================
