-------------------------- MODULE SigningAuthority --------------------------
(***************************************************************************)
(* What the signing key promises those who verify documents with it, as if *)
(* key and signatures were in one place that does not fail: the service    *)
(* gets one key and keeps it; while a server that keeps it is up, that key *)
(* is published, and a signature is called the server's own exactly if it  *)
(* is on record, for that document.                                        *)
(***************************************************************************)
CONSTANTS Keys, Pdfs,
          Forms,  \* what may be asked: a document, a signature and a public key
          None

VARIABLES kept,      \* the key of the service, once it has one
          public,    \* the key that is published, while it is
          endorsed,  \* the signatures made with the kept key
          verdict    \* an answer that somebody keeps

vars == <<kept, public, endorsed, verdict>>

Init == kept = None /\ public = None /\ endorsed = {} /\ verdict = None

\* No signature was made with the key before it was kept.
Keep(k) == /\ kept = None /\ kept' = k
           /\ public' \in {None, k}
           /\ UNCHANGED <<endorsed, verdict>>

Open == /\ kept # None /\ public = None
        /\ public' = kept
        /\ UNCHANGED <<kept, endorsed, verdict>>

Close == public' = None /\ UNCHANGED <<kept, endorsed, verdict>>

Sign(pdf) == /\ kept # None
             /\ endorsed' = endorsed \cup {[key |-> kept, pdf |-> pdf]}
             /\ UNCHANGED <<kept, public, verdict>>

Verify(form) ==
  /\ public # None /\ verdict = None
  /\ verdict' = [form |-> form,
                 own  |-> /\ form.public_key = public
                          /\ form.signature \in {e \in endorsed : e.pdf = form.pdf}]
  /\ UNCHANGED <<kept, public, endorsed>>

Next == \/ \E k \in Keys : Keep(k)
        \/ Open \/ Close
        \/ \E pdf \in Pdfs : Sign(pdf)
        \/ \E form \in Forms : Verify(form)

Spec == Init /\ [][Next]_vars
=============================================================================
