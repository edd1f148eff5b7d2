----------------------------- MODULE Accounts ------------------------------
(***************************************************************************)
(* The account requests of the backend: register, login and                *)
(* change_credentials of api.py, on the users table of initdb.sql.         *)
(*                                                                         *)
(* Flask runs each request in a thread of its own and each opens its own   *)
(* connection.  PyMySQL leaves autocommit off, so the statements of a      *)
(* request are one transaction at InnoDB's default level, REPEATABLE READ: *)
(* a SELECT reads the committed table as it was at the request's first     *)
(* SELECT and takes no lock, INSERT and DELETE work on the table as it is  *)
(* and wait for the locks of others, and closing the connection rolls back *)
(* what was not committed.  at says which statement a request comes to:    *)
(*   "idle" "received" "lookup" "delete" "insert" "commit" "answered"      *)
(*                                                                         *)
(* Of InnoDB's locks these matter: the new row of an INSERT is locked for  *)
(* all others; DELETE FROM users locks every row and every gap, so that    *)
(* nobody else inserts; on an empty table there is only a gap, and gap     *)
(* locks do not exclude one another, so that two requests may hold it and  *)
(* then wait for each other's INSERT: InnoDB rolls one of them back.       *)
(***************************************************************************)
EXTENDS Naturals

CONSTANTS Requests,          \* numbers for the requests: a bound for TLC
          Names, Passwords,  \* what a form holds
          None,              \* a field that is missing or empty
          Admin,             \* the word of the default credentials
          Collate,           \* what a word is to the database's comparison
          Inputs,            \* the requests that are made, with their bodies
          DbFaults           \* whether statements may fail for other reasons

Ops == {"register", "login", "change"}
Bodies == [name : Names \cup {None}, password : Passwords \cup {None}]

ASSUME AccountsAssumption ==
    /\ Requests \subseteq Nat \ {0}
    /\ Admin \in Names \cap Passwords
    /\ None \notin Names \cup Passwords
    /\ DOMAIN Collate = Names \cup Passwords
    /\ Inputs \subseteq Ops \X Bodies
    /\ DbFaults \in BOOLEAN

VARIABLES users,     \* the committed rows of the table
          at,        \* the statement each request comes to
          op, body,  \* what each request asks
          view,      \* the table as a login's first SELECT read it
          gone,      \* the rows a change has deleted and not yet committed
          answer,    \* what each request was answered
          during,    \* history: the tables there were during each request
          effect     \* history: the requests whose commit took effect

requestVars == <<at, op, body, view, gone, answer>>
accountVars == <<users, at, op, body, view, gone, answer, during, effect>>

Rows == [name : Names, password : Passwords]

Nothing == [name |-> None, password |-> None]

Same(a, b) == Collate[a] = Collate[b]
SameName(u, v) == Same(u.name, v.name)
NameTaken(table, u) == \E v \in table : SameName(u, v)
Matches(table, u) == \E v \in table : SameName(u, v) /\ Same(u.password, v.password)
IsDefault(u) == u.name = Admin /\ u.password = Admin

(* The HTTP status of each answer: an exception is answered with 200. *)
Status == [accepted |-> 200, must_change |-> 200, refused |-> 401,
           registered |-> 201, changed |-> 200, exists |-> 400,
           missing |-> 400, error |-> 200]

(* Requests that hold the lock on a new row, on all rows and gaps. *)
Inserted == {r \in Requests : at[r] = "commit"}
Swept == {r \in Requests : op[r] = "change" /\ at[r] \in {"insert", "commit"}}

AccountsInit == /\ users = {}
                /\ at = [r \in Requests |-> "idle"]
                /\ op = [r \in Requests |-> "login"]
                /\ body = [r \in Requests |-> Nothing]
                /\ view = [r \in Requests |-> {}]
                /\ gone = [r \in Requests |-> {}]
                /\ answer = [r \in Requests |-> "none"]
                /\ during = [r \in Requests |-> {}]
                /\ effect = {}
-----------------------------------------------------------------------------
(* The steps of one request. *)

Goto(r, from, to) == at[r] = from /\ at' = [at EXCEPT ![r] = to]

Answer(r, from, what) == /\ Goto(r, from, "answered")
                         /\ answer' = [answer EXCEPT ![r] = what]

(* Requests are numbered in the order in which they come. *)
Receive(r, o, b) == /\ <<o, b>> \in Inputs
                    /\ \A s \in Requests : s < r => at[s] # "idle"
                    /\ Goto(r, "idle", "received")
                    /\ op' = [op EXCEPT ![r] = o]
                    /\ body' = [body EXCEPT ![r] = b]
                    /\ during' = [during EXCEPT ![r] = {users}]
                    /\ UNCHANGED <<users, view, gone, answer, effect>>

Complete(b) == b.name # None /\ b.password # None

RefuseIncomplete(r) ==
    /\ ~Complete(body[r])
    /\ Answer(r, "received", "missing")
    /\ UNCHANGED <<users, op, body, view, gone, during, effect>>

(* Mutant: the default credentials stay good after the first login. *)
CountUsers_Always(r) ==
    /\ op[r] = "login"
    /\ Complete(body[r])
    /\ view' = [view EXCEPT ![r] = users]
    /\ \/ /\ IsDefault(body[r])
          /\ Answer(r, "received", "must_change")
       \/ /\ ~IsDefault(body[r])
          /\ Goto(r, "received", "lookup")
          /\ answer' = answer
    /\ UNCHANGED <<users, op, body, gone, during, effect>>

(* login: SELECT COUNT( * ), and on an empty table the default credentials. *)
CountUsers(r) ==
    /\ op[r] = "login"
    /\ Complete(body[r])
    /\ view' = [view EXCEPT ![r] = users]
    /\ \/ /\ users = {}
          /\ Answer(r, "received",
                    IF IsDefault(body[r]) THEN "must_change" ELSE "refused")
       \/ /\ users # {}
          /\ Goto(r, "received", "lookup")
          /\ answer' = answer
    /\ UNCHANGED <<users, op, body, gone, during, effect>>

LookupUser(r) ==
    /\ Answer(r, "lookup",
              IF Matches(view[r], body[r]) THEN "accepted" ELSE "refused")
    /\ UNCHANGED <<users, op, body, view, gone, during, effect>>

(* register and change_credentials: is the name in use? *)
CheckName(r) ==
    /\ op[r] # "login"
    /\ Complete(body[r])
    /\ \/ /\ NameTaken(users, body[r])
          /\ Answer(r, "received", "exists")
       \/ /\ ~NameTaken(users, body[r])
          /\ Goto(r, "received", IF op[r] = "change" THEN "delete" ELSE "insert")
          /\ answer' = answer
    /\ UNCHANGED <<users, op, body, view, gone, during, effect>>

(* Mutant: each statement commits by itself. *)
DeleteUsers_Commits(r) ==
    /\ Inserted \ {r} = {}
    /\ users # {} => Swept \ {r} = {}
    /\ Goto(r, "delete", "insert")
    /\ users' = {}
    /\ UNCHANGED <<op, body, view, gone, answer, during, effect>>

(* change_credentials: DELETE FROM users. *)
DeleteUsers(r) ==
    /\ Inserted \ {r} = {}
    /\ users # {} => Swept \ {r} = {}
    /\ Goto(r, "delete", "insert")
    /\ gone' = [gone EXCEPT ![r] = users]
    /\ UNCHANGED <<users, op, body, view, answer, during, effect>>

(* INSERT INTO users: the name is checked against the rows that are there,
   those the request itself deleted excepted. *)
CanInsert(r) == /\ at[r] = "insert"
                /\ Swept \ {r} = {}
                /\ \A s \in Inserted \ {r} : ~SameName(body[r], body[s])

InsertUser(r) ==
    /\ CanInsert(r)
    /\ ~NameTaken(users \ gone[r], body[r])
    /\ Goto(r, "insert", "commit")
    /\ UNCHANGED <<users, op, body, view, gone, answer, during, effect>>

Rollback(r) == gone' = [gone EXCEPT ![r] = {}]

(* The constraint UNIQUE refuses the row. *)
DuplicateName(r) ==
    /\ CanInsert(r)
    /\ NameTaken(users \ gone[r], body[r])
    /\ Answer(r, "insert", "error")
    /\ Rollback(r)
    /\ UNCHANGED <<users, op, body, view, during, effect>>

(* Both wait for the gap lock of the other, and InnoDB picks a victim. *)
Deadlocked(r) == /\ r \in Swept
                 /\ \E s \in Swept \ {r} : at[s] = "insert"

(* Mutant: a request that was rolled back starts again. *)
Victim_Retries(r) ==
    /\ Deadlocked(r)
    /\ Goto(r, "insert", "received")
    /\ Rollback(r)
    /\ UNCHANGED <<users, op, body, view, answer, during, effect>>

Victim(r) ==
    /\ Deadlocked(r)
    /\ Answer(r, "insert", "error")
    /\ Rollback(r)
    /\ UNCHANGED <<users, op, body, view, during, effect>>

(* What is committed becomes the table that requests in progress may see. *)
Publish(r) ==
    /\ users' = (users \ gone[r]) \cup {body[r]}
    /\ Rollback(r)
    /\ effect' = effect \cup {r}
    /\ during' = [s \in Requests |-> IF at[s] \in {"idle", "answered"}
                                        THEN during[s]
                                        ELSE during[s] \cup {users'}]

Commit(r) ==
    /\ Publish(r)
    /\ Answer(r, "commit", IF op[r] = "change" THEN "changed" ELSE "registered")
    /\ UNCHANGED <<op, body, view>>

(* A statement fails: no connection, a lock wait that timed out. *)
StatementFails(r) ==
    /\ DbFaults
    /\ at[r] \notin {"idle", "answered"}
    /\ at[r] = "received" => Complete(body[r])
    /\ Answer(r, at[r], "error")
    /\ Rollback(r)
    /\ UNCHANGED <<users, op, body, view, during, effect>>

(* The commit is done, and its confirmation is lost. *)
CommitUnconfirmed(r) ==
    /\ DbFaults
    /\ Publish(r)
    /\ Answer(r, "commit", "error")
    /\ UNCHANGED <<op, body, view>>
-----------------------------------------------------------------------------
Serve(r) == \/ RefuseIncomplete(r) \/ CountUsers(r) \/ LookupUser(r) \/ CheckName(r)
            \/ DeleteUsers(r) \/ InsertUser(r) \/ DuplicateName(r) \/ Victim(r)
            \/ Commit(r)

Fail(r) == StatementFails(r) \/ CommitUnconfirmed(r)

AccountsNext == \E r \in Requests :
                   \/ \E o \in Ops, b \in Bodies : Receive(r, o, b)
                   \/ Serve(r) \/ Fail(r)

AccountsSpec == AccountsInit /\ [][AccountsNext]_accountVars
-----------------------------------------------------------------------------
Statements == {"idle", "received", "lookup", "delete", "insert", "commit", "answered"}

AccountsTypeOK ==
    /\ users \in SUBSET Rows
    /\ at \in [Requests -> Statements]
    /\ op \in [Requests -> Ops]
    /\ body \in [Requests -> Bodies]
    /\ view \in [Requests -> SUBSET Rows]
    /\ gone \in [Requests -> SUBSET Rows]
    /\ answer \in [Requests -> DOMAIN Status \cup {"none"}]
    /\ during \in [Requests -> SUBSET SUBSET Rows]
    /\ effect \in SUBSET Requests

(* The right answer to a login on a given table. *)
LoginAnswer(table, u) ==
    IF table = {} THEN IF IsDefault(u) THEN "must_change" ELSE "refused"
                  ELSE IF Matches(table, u) THEN "accepted" ELSE "refused"

(* Every answer is right for the table at some moment between the request and
   the answer, and a success is reported exactly for what was committed; only
   after an error it is open whether the request took effect.  api.py reads
   the table, works on it and answers in separate steps. *)
Truthful(r) ==
    CASE answer[r] \in {"accepted", "refused", "must_change"} ->
            /\ r \notin effect
            /\ \E table \in during[r] : answer[r] = LoginAnswer(table, body[r])
      [] answer[r] = "exists" ->
            /\ r \notin effect
            /\ \E table \in during[r] : NameTaken(table, body[r])
      [] answer[r] \in {"registered", "changed"} -> r \in effect
      [] answer[r] = "error" -> TRUE
      [] OTHER -> r \notin effect

AnswersTruthful == \A r \in Requests : Truthful(r)

(* The statements of register and change_credentials amount to one step each
   on the users table.  In particular a change leaves exactly the new user
   ("Delete any existing users", "Insert new admin user"), and no
   interleaving empties the table and opens the default login again. *)
Store == INSTANCE UserStore
ImplementsStore == Store!Spec

(* Every request is answered: no two of them wait for each other for good. *)
EveryRequestAnswered == \A r \in Requests : at[r] = "received" ~> at[r] = "answered"
=============================================================================
