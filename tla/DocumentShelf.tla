--------------------------- MODULE DocumentShelf ---------------------------
(***************************************************************************)
(* What DocumentController promises about stored documents, as if every    *)
(* request were one transaction: a document comes onto the shelf under an  *)
(* id that was never used, is served whole to its owner while it is there, *)
(* and is deleted once, for its owner.                                     *)
(***************************************************************************)
EXTENDS Naturals

CONSTANTS Users, Files, Workers, Nothing

VARIABLES shelf,   \* the documents
          fresh,   \* no id from here on was ever used
          result   \* what each thread is about to answer

vars == <<shelf, fresh, result>>

Init == shelf = {} /\ fresh = 1 /\ result = [w \in Workers |-> Nothing]

Put == /\ \E u \in Users, f \in Files :
            shelf' = shelf \cup {[id |-> fresh, owner |-> u, file |-> f]}
       /\ fresh' = fresh + 1
       /\ UNCHANGED result

\* An id is lost with a statement that was rolled back.
Skip == fresh' = fresh + 1 /\ UNCHANGED <<shelf, result>>

\* Download, or verify, for the owner: its data and its bytes at one instant.
Serve(w) == /\ \E d \in shelf :
                 result' = [result EXCEPT ![w] =
                              [op |-> "serve", user |-> d.owner, meta |-> d, data |-> d]]
            /\ UNCHANGED <<shelf, fresh>>

Delete(w) == /\ \E d \in shelf :
                  /\ shelf' = shelf \ {d}
                  /\ result' = [result EXCEPT ![w] =
                                  [op |-> "deleted", user |-> d.owner, doc |-> d.id]]
             /\ UNCHANGED fresh

\* A deletion whose answer is an error, the commit being in doubt.
Withdraw == /\ \E d \in shelf : shelf' = shelf \ {d}
            /\ UNCHANGED <<fresh, result>>

RemoveUser(u) == shelf' = {d \in shelf : d.owner # u} /\ UNCHANGED <<fresh, result>>

Finish(W) == /\ result' = [w \in Workers |-> IF w \in W THEN Nothing ELSE result[w]]
             /\ UNCHANGED <<shelf, fresh>>

Next == \/ Put \/ Skip \/ Withdraw
        \/ \E w \in Workers : Serve(w) \/ Delete(w)
        \/ \E u \in Users : RemoveUser(u)
        \/ \E W \in SUBSET Workers : Finish(W)

Spec == Init /\ [][Next]_vars
=============================================================================
