----------------------------- MODULE UserStore -----------------------------
(***************************************************************************)
(* What the account requests may do to the users table, whatever their     *)
(* number and their interleaving.  It starts empty, and while it is empty  *)
(* the default credentials open the first login.  From then on one step    *)
(* adds a user under a new name or puts one user in the place of all       *)
(* others: names stay unique, and the table is never empty again.          *)
(***************************************************************************)
CONSTANTS Rows,        \* the possible users, records with a name
          SameName(_, _)  \* two users that the database holds for one name

VARIABLE users

Init == users = {}

Add(u) == /\ \A v \in users : ~SameName(u, v)
          /\ users' = users \cup {u}

Replace(u) == users' = {u}

Next == \E u \in Rows : Add(u) \/ Replace(u)

Spec == Init /\ [][Next]_users
=============================================================================
