-------------------------- MODULE AccountRegistry --------------------------
(***************************************************************************)
(* What AuthManager, UserController and requireAdmin promise about         *)
(* accounts, as if every request were one transaction and nothing failed:  *)
(* a name gets an account once, under an id that was never used; a 201     *)
(* means that the name has one; a token is issued for the account of that  *)
(* name and password, and shows that very account, or nothing.             *)
(***************************************************************************)
EXTENDS Naturals

CONSTANTS Names, Passwords, Workers, First, Nothing

VARIABLES accounts,  \* the accounts there are
          admins,    \* the ids of those that are administrators
          fresh,     \* no id from here on was ever used
          issued,    \* the accounts tokens were issued for
          confirmed, \* the names that were answered 201, and not removed since
          shown      \* what each thread is about to answer

vars == <<accounts, admins, fresh, issued, confirmed, shown>>

\* The account that is there from the beginning is an administrator's.
Init == /\ accounts = {First} /\ admins = {First.id} /\ fresh = First.id + 1
        /\ issued = {} /\ confirmed = {}
        /\ shown = [w \in Workers |-> Nothing]

Taken(n) == \E a \in accounts : a.name = n

Register(n, p) ==
  /\ \/ Taken(n) /\ UNCHANGED accounts
     \/ ~Taken(n) /\ accounts' = accounts \cup {[id |-> fresh, name |-> n, password |-> p]}
  /\ fresh' = fresh + 1
  /\ confirmed' \in {confirmed, confirmed \cup {n}}
  /\ UNCHANGED <<admins, issued, shown>>

\* An id is lost with a statement that was rolled back.
Skip == fresh' = fresh + 1 /\ UNCHANGED <<accounts, admins, issued, confirmed, shown>>

LogIn(n, p) == /\ \E a \in accounts : /\ a.name = n /\ a.password = p
                                      /\ issued' = issued \cup {a}
               /\ UNCHANGED <<accounts, admins, fresh, confirmed, shown>>

Show(w, page) ==
  /\ \E a \in issued \cap accounts :
       /\ page = "admin" => a.id \in admins
       /\ shown' = [shown EXCEPT ![w] = [page |-> page, token |-> a, row |-> a]]
  /\ UNCHANGED <<accounts, admins, fresh, issued, confirmed>>

Finish(W) == /\ shown' = [w \in Workers |-> IF w \in W THEN Nothing ELSE shown[w]]
             /\ UNCHANGED <<accounts, admins, fresh, issued, confirmed>>

SetRole == /\ \E a \in accounts : admins' \in {admins \cup {a.id}, admins \ {a.id}}
           /\ UNCHANGED <<accounts, fresh, issued, confirmed, shown>>

Remove == /\ \E a \in accounts : /\ accounts' = accounts \ {a}
                                 /\ admins' = admins \ {a.id}
                                 /\ confirmed' = confirmed \ {a.name}
          /\ UNCHANGED <<fresh, issued, shown>>

Next == \/ \E n \in Names, p \in Passwords : Register(n, p) \/ LogIn(n, p)
        \/ Skip \/ SetRole \/ Remove
        \/ \E w \in Workers, page \in {"profile", "admin"} : Show(w, page)
        \/ \E W \in SUBSET Workers : Finish(W)

Spec == Init /\ [][Next]_vars
=============================================================================
