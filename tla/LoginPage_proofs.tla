------------------------- MODULE LoginPage_proofs -------------------------
(***************************************************************************)
(* Proofs about the account requests and the login page, for any number of *)
(* browsers, requests and users.                                           *)
(*                                                                         *)
(* First the accounts: the statements of the requests amount to steps of   *)
(* UserStore.  The argument is about InnoDB's locks.  A request that has   *)
(* deleted all rows keeps others from inserting, and one that has inserted *)
(* its row keeps others from deleting, so that the table does not change   *)
(* between the DELETE and the commit of a change (SweptInv), and a new     *)
(* name cannot be taken between its INSERT and its commit (InsertedInv).   *)
(*                                                                         *)
(* Then the pages.  Each of their steps is a step of Accounts or leaves    *)
(* the accounts alone (AccountsMove), so that what is proved of the        *)
(* requests carries over.  A page that shows the dashboard knows the       *)
(* request that led it there, and the answer to a request is final         *)
(* (CameInv); what is left is to say which answers a login can have at all *)
(* (LoginAnswers).                                                         *)
(***************************************************************************)
EXTENDS LoginPage, TLAPS

(* Which statement belongs to which kind of request. *)
StatementInv ==
    \A r \in Requests :
       /\ at[r] = "lookup" => op[r] = "login"
       /\ at[r] = "delete" => op[r] = "change"
       /\ at[r] \in {"insert", "commit"} => op[r] # "login"
       /\ at[r] \in {"delete", "insert", "commit"} => body[r] \in Rows

SweptInv ==
    \A r \in Requests :
       /\ r \in Swept => gone[r] = users
       /\ r \notin Swept => gone[r] = {}

InsertedInv ==
    \A r \in Inserted :
       /\ ~NameTaken(users \ gone[r], body[r])
       /\ \A s \in Swept : s = r
       /\ \A s \in Inserted \ {r} : ~SameName(body[r], body[s])

LockInv == StatementInv /\ SweptInv /\ InsertedInv

IInv == AccountsTypeOK /\ LockInv
-----------------------------------------------------------------------------
LEMMA SameNameSymmetric ==
    ASSUME NEW u, NEW v, SameName(u, v)
    PROVE  SameName(v, u)
  BY DEF SameName, Same

LEMMA InitInv == AccountsInit => IInv
<1> SUFFICES ASSUME AccountsInit PROVE IInv
  OBVIOUS
<1> USE AccountsAssumption
<1>1. AccountsTypeOK
  BY DEF AccountsInit, AccountsTypeOK, Statements, Ops, Bodies, Nothing
<1>2. LockInv
  BY DEF AccountsInit, LockInv, StatementInv, SweptInv, InsertedInv, Inserted, Swept
<1> QED
  BY <1>1, <1>2 DEF IInv

(* What a commit writes, confirmed or not. *)
LEMMA PublishTypes ==
    ASSUME AccountsTypeOK, StatementInv, NEW r \in Requests, at[r] = "commit", Publish(r)
    PROVE  /\ users' \in SUBSET Rows
           /\ gone' \in [Requests -> SUBSET Rows]
           /\ during' \in [Requests -> SUBSET SUBSET Rows]
           /\ effect' \in SUBSET Requests
<1>1. users' \in SUBSET Rows
  BY DEF AccountsTypeOK, StatementInv, Publish
<1>2. gone' \in [Requests -> SUBSET Rows]
  BY DEF AccountsTypeOK, Publish, Rollback
<1>3. during' \in [Requests -> SUBSET SUBSET Rows]
  BY <1>1 DEF AccountsTypeOK, Publish
<1>4. effect' \in SUBSET Requests
  BY DEF AccountsTypeOK, Publish
<1> QED
  BY <1>1, <1>2, <1>3, <1>4

(* The types, one step per action. *)
LEMMA TypeStep == IInv /\ [AccountsNext]_accountVars => AccountsTypeOK'
<1> SUFFICES ASSUME AccountsTypeOK, StatementInv, [AccountsNext]_accountVars
             PROVE  AccountsTypeOK'
  BY DEF IInv, LockInv
<1> USE AccountsAssumption
<1> USE DEF AccountsTypeOK, Statements, Goto, Answer, Rollback
<1>1. ASSUME NEW r \in Requests, NEW o \in Ops, NEW b \in Bodies, Receive(r, o, b)
      PROVE  AccountsTypeOK'
  <2> users \in SUBSET Rows => {users} \in SUBSET SUBSET Rows
    OBVIOUS
  <2> QED
    BY <1>1 DEF Receive
<1>2. ASSUME NEW r \in Requests, RefuseIncomplete(r) PROVE AccountsTypeOK'
  BY <1>2 DEF RefuseIncomplete, Status
<1>3. ASSUME NEW r \in Requests, CountUsers(r) PROVE AccountsTypeOK'
  BY <1>3 DEF CountUsers, Status
<1>4. ASSUME NEW r \in Requests, LookupUser(r) PROVE AccountsTypeOK'
  BY <1>4 DEF LookupUser, Status
<1>5. ASSUME NEW r \in Requests, CheckName(r) PROVE AccountsTypeOK'
  BY <1>5 DEF CheckName, Status
<1>6. ASSUME NEW r \in Requests, DeleteUsers(r) PROVE AccountsTypeOK'
  BY <1>6 DEF DeleteUsers
<1>7. ASSUME NEW r \in Requests, InsertUser(r) PROVE AccountsTypeOK'
  BY <1>7 DEF InsertUser
<1>8. ASSUME NEW r \in Requests, DuplicateName(r) PROVE AccountsTypeOK'
  BY <1>8 DEF DuplicateName, Status
<1>9. ASSUME NEW r \in Requests, Victim(r) PROVE AccountsTypeOK'
  BY <1>9 DEF Victim, Status
<1>10. ASSUME NEW r \in Requests, StatementFails(r) PROVE AccountsTypeOK'
  BY <1>10 DEF StatementFails, Status
<1>11. ASSUME NEW r \in Requests, Commit(r) PROVE AccountsTypeOK'
  BY <1>11, PublishTypes DEF Commit, Status
<1>12. ASSUME NEW r \in Requests, CommitUnconfirmed(r) PROVE AccountsTypeOK'
  BY <1>12, PublishTypes DEF CommitUnconfirmed, Status
<1>13. CASE UNCHANGED accountVars
  BY <1>13 DEF accountVars
<1> QED
  BY <1>1, <1>2, <1>3, <1>4, <1>5, <1>6, <1>7, <1>8, <1>9, <1>10, <1>11, <1>12, <1>13
  DEF AccountsNext, Serve, Fail
-----------------------------------------------------------------------------
(* Statements follow one another as the code has them. *)
LEMMA StatementStep == IInv /\ [AccountsNext]_accountVars => StatementInv'
<1> SUFFICES ASSUME AccountsTypeOK, StatementInv, [AccountsNext]_accountVars
             PROVE  StatementInv'
  BY DEF IInv, LockInv
<1> USE DEF AccountsTypeOK, StatementInv, Goto, Answer
<1>1. ASSUME NEW r \in Requests, NEW o \in Ops, NEW b \in Bodies, Receive(r, o, b)
      PROVE  StatementInv'
  BY <1>1 DEF Receive
<1>2. ASSUME NEW r \in Requests, RefuseIncomplete(r) \/ LookupUser(r) \/ DuplicateName(r)
                                   \/ Victim(r) \/ StatementFails(r)
      PROVE  StatementInv'
  BY <1>2 DEF RefuseIncomplete, LookupUser, DuplicateName, Victim, StatementFails
<1>3. ASSUME NEW r \in Requests, CountUsers(r) PROVE StatementInv'
  BY <1>3 DEF CountUsers
<1>4. ASSUME NEW r \in Requests, CheckName(r) PROVE StatementInv'
  BY <1>4 DEF CheckName, Complete, Bodies, Rows
<1>5. ASSUME NEW r \in Requests, DeleteUsers(r) \/ InsertUser(r) PROVE StatementInv'
  BY <1>5 DEF DeleteUsers, InsertUser
<1>6. ASSUME NEW r \in Requests, Commit(r) \/ CommitUnconfirmed(r) PROVE StatementInv'
  BY <1>6 DEF Commit, CommitUnconfirmed
<1>7. CASE UNCHANGED accountVars
  BY <1>7 DEF accountVars
<1> QED
  BY <1>1, <1>2, <1>3, <1>4, <1>5, <1>6, <1>7
  DEF AccountsNext, Serve, Fail
-----------------------------------------------------------------------------
(* A step that leaves the table and the locks as they are. *)
LEMMA QuietStep ==
    ASSUME AccountsTypeOK, LockInv, UNCHANGED <<users, gone>>,
           Swept' = Swept, Inserted' = Inserted,
           \A s \in Inserted : body'[s] = body[s]
    PROVE  SweptInv' /\ InsertedInv'
<1>1. SweptInv'
  BY DEF LockInv, SweptInv
<1>2. InsertedInv'
  BY DEF LockInv, InsertedInv, NameTaken, SameName, Same
<1> QED
  BY <1>1, <1>2

(* A request that gives up its locks and is rolled back. *)
LEMMA ReleaseStep ==
    ASSUME AccountsTypeOK, LockInv, NEW r \in Requests, UNCHANGED <<users, op, body>>,
           at' = [at EXCEPT ![r] = "answered"], Rollback(r)
    PROVE  SweptInv' /\ InsertedInv'
<1>1. Swept' = Swept \ {r} /\ Inserted' = Inserted \ {r}
  BY DEF AccountsTypeOK, Swept, Inserted
<1>2. \A s \in Requests : gone'[s] = IF s = r THEN {} ELSE gone[s]
  BY DEF AccountsTypeOK, Rollback
<1>3. SweptInv'
  BY <1>1, <1>2 DEF LockInv, SweptInv
<1>4. InsertedInv'
  <2> SUFFICES ASSUME NEW s \in Inserted, s # r
               PROVE  /\ ~NameTaken(users \ gone[s], body[s])'
                      /\ \A t \in Swept' : t = s
                      /\ \A t \in Inserted' \ {s} : ~SameName(body[s], body[t])'
    BY <1>1 DEF InsertedInv
  <2>1. gone'[s] = gone[s]
    BY <1>2 DEF Inserted
  <2> QED
    BY <1>1, <2>1 DEF LockInv, InsertedInv, NameTaken, SameName, Same
<1> QED
  BY <1>3, <1>4

(* A commit: nobody else has deleted the rows, and whoever else has inserted a
   row has done so under another name. *)
LEMMA PublishStep ==
    ASSUME AccountsTypeOK, LockInv, NEW r \in Requests, UNCHANGED <<op, body>>,
           at[r] = "commit", at' = [at EXCEPT ![r] = "answered"], Publish(r)
    PROVE  SweptInv' /\ InsertedInv'
<1>1. Swept' = Swept \ {r} /\ Inserted' = Inserted \ {r} /\ r \in Inserted
  BY DEF AccountsTypeOK, Swept, Inserted
<1>2. \A s \in Requests : gone'[s] = IF s = r THEN {} ELSE gone[s]
  BY DEF AccountsTypeOK, Publish, Rollback
<1>3. Swept' = {}
  BY <1>1 DEF LockInv, InsertedInv
<1>4. SweptInv'
  <2> SUFFICES ASSUME NEW s \in Requests PROVE gone'[s] = {}
    BY <1>3 DEF SweptInv
  <2> QED
    BY <1>1, <1>2, <1>3 DEF LockInv, SweptInv
<1>5. InsertedInv'
  <2> SUFFICES ASSUME NEW s \in Inserted, s # r
               PROVE  /\ ~NameTaken(users' \ gone'[s], body[s])
                      /\ \A t \in Inserted \ {s} : ~SameName(body[s], body[t])
    BY <1>1, <1>3 DEF InsertedInv, NameTaken, SameName, Same
  <2>1. s \in Requests /\ s \notin Swept /\ r \notin Swept
    BY <1>1 DEF LockInv, InsertedInv, Inserted
  <2>2. gone[s] = {} /\ gone[r] = {}
    BY <2>1 DEF LockInv, SweptInv
  <2>3. users' = users \cup {body[r]} /\ gone'[s] = {}
    BY <1>2, <2>1, <2>2 DEF Publish
  <2>4. ~NameTaken(users, body[s]) /\ \A t \in Inserted \ {s} : ~SameName(body[s], body[t])
    BY <2>2 DEF LockInv, InsertedInv
  <2>5. ~SameName(body[s], body[r])
    BY <1>1, <2>4
  <2> QED
    BY <2>3, <2>4, <2>5 DEF NameTaken
<1> QED
  BY <1>4, <1>5
-----------------------------------------------------------------------------
(* The locks, one step per action. *)
LEMMA LockStep == IInv /\ [AccountsNext]_accountVars => SweptInv' /\ InsertedInv'
<1> SUFFICES ASSUME AccountsTypeOK, LockInv, [AccountsNext]_accountVars
             PROVE  SweptInv' /\ InsertedInv'
  BY DEF IInv
<1>1. ASSUME NEW r \in Requests, NEW o \in Ops, NEW b \in Bodies, Receive(r, o, b)
      PROVE  SweptInv' /\ InsertedInv'
  <2>1. Swept' = Swept /\ Inserted' = Inserted
    BY <1>1 DEF AccountsTypeOK, Receive, Goto, Swept, Inserted
  <2>2. \A s \in Inserted : body'[s] = body[s]
    BY <1>1 DEF AccountsTypeOK, Receive, Goto, Inserted
  <2> QED
    BY <1>1, <2>1, <2>2, QuietStep DEF Receive
<1>2. ASSUME NEW r \in Requests,
             RefuseIncomplete(r) \/ CountUsers(r) \/ LookupUser(r) \/ CheckName(r)
      PROVE  SweptInv' /\ InsertedInv'
  <2>1. Swept' = Swept
    BY <1>2 DEF AccountsTypeOK, LockInv, StatementInv, RefuseIncomplete, CountUsers,
                LookupUser, CheckName, Answer, Goto, Swept
  <2>2. Inserted' = Inserted
    BY <1>2 DEF AccountsTypeOK, RefuseIncomplete, CountUsers, LookupUser, CheckName,
                Answer, Goto, Inserted
  <2>3. UNCHANGED <<users, gone, body>>
    BY <1>2 DEF RefuseIncomplete, CountUsers, LookupUser, CheckName
  <2> QED
    BY <2>1, <2>2, <2>3, QuietStep
<1>3. ASSUME NEW r \in Requests, DeleteUsers(r) PROVE SweptInv' /\ InsertedInv'
  <2>1. Inserted = {} /\ Inserted' = {}
    BY <1>3 DEF AccountsTypeOK, DeleteUsers, Goto, Inserted
  <2>2. Swept' = Swept \cup {r}
    BY <1>3 DEF AccountsTypeOK, LockInv, StatementInv, DeleteUsers, Goto, Swept
  <2>3. \A s \in Requests : gone'[s] = IF s = r THEN users ELSE gone[s]
    BY <1>3 DEF AccountsTypeOK, DeleteUsers
  <2>4. users' = users
    BY <1>3 DEF DeleteUsers
  <2>5. SweptInv'
    BY <2>2, <2>3, <2>4 DEF LockInv, SweptInv
  <2> QED
    BY <2>1, <2>5 DEF InsertedInv
<1>4. ASSUME NEW r \in Requests, InsertUser(r) PROVE SweptInv' /\ InsertedInv'
  <2>1. Swept' = Swept /\ Swept \subseteq {r}
    BY <1>4 DEF AccountsTypeOK, InsertUser, CanInsert, Goto, Swept
  <2>2. Inserted' = Inserted \cup {r}
    BY <1>4 DEF AccountsTypeOK, InsertUser, Goto, Inserted
  <2>3. UNCHANGED <<users, gone, body>>
    BY <1>4 DEF InsertUser
  <2>4. SweptInv'
    BY <2>1, <2>3 DEF LockInv, SweptInv
  <2>5. ~NameTaken(users \ gone[r], body[r])
    BY <1>4 DEF InsertUser
  <2>6. \A s \in Inserted \ {r} : ~SameName(body[r], body[s]) /\ ~SameName(body[s], body[r])
    BY <1>4, SameNameSymmetric DEF InsertUser, CanInsert
  <2>7. \A s \in Inserted : \A t \in Swept : t = s
    BY DEF LockInv, InsertedInv
  <2>8. InsertedInv'
    <3> SUFFICES ASSUME NEW s \in Inserted \cup {r}
                 PROVE  /\ ~NameTaken(users \ gone[s], body[s])
                        /\ \A t \in Swept : t = s
                        /\ \A t \in (Inserted \cup {r}) \ {s} : ~SameName(body[s], body[t])
      BY <2>1, <2>2, <2>3 DEF InsertedInv, NameTaken, SameName, Same
    <3> QED
      BY <2>1, <2>5, <2>6, <2>7 DEF LockInv, InsertedInv
  <2> QED
    BY <2>4, <2>8
<1>5. ASSUME NEW r \in Requests, DuplicateName(r) \/ Victim(r) \/ StatementFails(r)
      PROVE  SweptInv' /\ InsertedInv'
  <2>1. /\ UNCHANGED <<users, op, body>>
        /\ at' = [at EXCEPT ![r] = "answered"]
        /\ Rollback(r)
    BY <1>5 DEF DuplicateName, Victim, StatementFails, Answer, Goto
  <2> QED
    BY <2>1, ReleaseStep
<1>6. ASSUME NEW r \in Requests, Commit(r) \/ CommitUnconfirmed(r)
      PROVE  SweptInv' /\ InsertedInv'
  <2>1. /\ UNCHANGED <<op, body>>
        /\ at[r] = "commit"
        /\ at' = [at EXCEPT ![r] = "answered"]
        /\ Publish(r)
    BY <1>6 DEF Commit, CommitUnconfirmed, Answer, Goto
  <2> QED
    BY <2>1, PublishStep
<1>7. CASE UNCHANGED accountVars
  <2>1. UNCHANGED <<users, gone, body>> /\ Swept' = Swept /\ Inserted' = Inserted
    BY <1>7 DEF accountVars, Swept, Inserted
  <2> QED
    BY <2>1, QuietStep
<1> QED
  BY <1>1, <1>2, <1>3, <1>4, <1>5, <1>6, <1>7 DEF AccountsNext, Serve, Fail

LEMMA InductiveStep == IInv /\ [AccountsNext]_accountVars => IInv'
  BY TypeStep, StatementStep, LockStep DEF IInv, LockInv

LEMMA Invariance == AccountsSpec => []IInv
  BY InitInv, InductiveStep, PTL DEF AccountsSpec
-----------------------------------------------------------------------------
(* Every variable of the account requests keeps its type: no interleaving of
   register, login and change_credentials leads outside of what api.py and the
   users table hold. *)
THEOREM AccountsTypeCorrect == AccountsSpec => []AccountsTypeOK
  BY Invariance, PTL DEF IInv

(* A commit is one step of the store: register adds a user whose name is free,
   change_credentials puts its user in the place of all others. *)
LEMMA PublishImplements ==
    ASSUME IInv, NEW r \in Requests, at[r] = "commit", Publish(r)
    PROVE  Store!Next
<1>1. r \in Inserted /\ body[r] \in Rows /\ users' = (users \ gone[r]) \cup {body[r]}
  BY DEF IInv, LockInv, StatementInv, Inserted, Publish
<1>2. CASE r \in Swept
  <2>1. users' = {body[r]}
    BY <1>1, <1>2 DEF IInv, LockInv, SweptInv
  <2> QED
    BY <1>1, <2>1 DEF Store!Next, Store!Replace
<1>3. CASE r \notin Swept
  <2>1. gone[r] = {}
    BY <1>3 DEF IInv, LockInv, SweptInv
  <2>2. \A v \in users : ~SameName(body[r], v)
    BY <1>1, <2>1 DEF IInv, LockInv, InsertedInv, NameTaken
  <2> QED
    BY <1>1, <2>1, <2>2 DEF Store!Next, Store!Add
<1> QED
  BY <1>2, <1>3

LEMMA StoreStep == IInv /\ [AccountsNext]_accountVars => [Store!Next]_users
<1> SUFFICES ASSUME IInv, [AccountsNext]_accountVars, users' # users
             PROVE  Store!Next
  OBVIOUS
<1>1. \E r \in Requests : Commit(r) \/ CommitUnconfirmed(r)
  BY DEF AccountsNext, Serve, Fail, accountVars, Receive, RefuseIncomplete,
         CountUsers, LookupUser, CheckName, DeleteUsers, InsertUser, DuplicateName,
         Victim, StatementFails
<1>2. \E r \in Requests : at[r] = "commit" /\ Publish(r)
  BY <1>1 DEF Commit, CommitUnconfirmed, Answer, Goto
<1> QED
  BY <1>2, PublishImplements

(* The transactions of register and change_credentials, in any number and any
   interleaving, with failing statements and unconfirmed commits, implement the
   atomic store: names stay unique, a change leaves exactly its user, and the
   table is never empty again, so that the default login stays closed. *)
THEOREM AccountsImplementStore == AccountsSpec => ImplementsStore
<1>1. AccountsInit => Store!Init
  BY DEF AccountsInit, Store!Init
<1> QED
  BY <1>1, StoreStep, Invariance, PTL DEF AccountsSpec, ImplementsStore, Store!Spec

(* For the database no name has two users. *)
NamesUnique == \A u, v \in users : SameName(u, v) => u = v

(* No two requests, whatever they do at the same time, give one name to two
   users, in any spelling that the collation takes for the same. *)
THEOREM UsersNamedOnce == AccountsSpec => []NamesUnique
<1>1. AccountsInit => NamesUnique
  BY DEF AccountsInit, NamesUnique
<1>2. NamesUnique /\ [Store!Next]_users => NamesUnique'
  <2> SUFFICES ASSUME NamesUnique, [Store!Next]_users PROVE NamesUnique'
    OBVIOUS
  <2>1. CASE users' = users
    BY <2>1 DEF NamesUnique, SameName, Same
  <2>2. ASSUME NEW u \in Rows, Store!Add(u) PROVE NamesUnique'
    <3>1. /\ users' = users \cup {u}
          /\ \A v \in users : ~SameName(u, v) /\ ~SameName(v, u)
      BY <2>2, SameNameSymmetric DEF Store!Add
    <3>2. \A v, w \in users' : SameName(v, w) => v = w
      BY <3>1 DEF NamesUnique
    <3> QED
      BY <3>2 DEF NamesUnique, SameName, Same
  <2>3. ASSUME NEW u \in Rows, Store!Replace(u) PROVE NamesUnique'
    BY <2>3 DEF Store!Replace, NamesUnique
  <2> QED
    BY <2>1, <2>2, <2>3 DEF Store!Next
<1> QED
  BY <1>1, <1>2, StoreStep, Invariance, PTL DEF AccountsSpec

(* From the first user on there is always one: nobody is locked out by a change
   of credentials that fails half way or meets another, and the default login
   is not opened again. *)
THEOREM UsersNeverGone == AccountsSpec => [][users # {} => users' # {}]_users
<1>1. [Store!Next]_users => [users # {} => users' # {}]_users
  BY DEF Store!Next, Store!Add, Store!Replace
<1> QED
  BY <1>1, StoreStep, Invariance, PTL DEF AccountsSpec
-----------------------------------------------------------------------------
(* The tables a request has seen come to pass, and what it has not done yet. *)
HistoryInv ==
    \A r \in Requests :
       /\ at[r] \notin {"idle", "answered"} => users \in during[r]
       /\ at[r] = "lookup" => view[r] # {} /\ view[r] \in during[r]
       /\ at[r] # "answered" => answer[r] = "none" /\ r \notin effect

(* A request keeps a true answer while it sees the same tables. *)
LEMMA TruthKept ==
    ASSUME NEW s, Truthful(s), answer'[s] = answer[s], body'[s] = body[s],
           during'[s] = during[s], s \in effect' <=> s \in effect
    PROVE  Truthful(s)'
  BY DEF Truthful, LoginAnswer, Matches, NameTaken, SameName, Same, IsDefault

LEMMA NoAnswerTruthful ==
    ASSUME NEW s, answer'[s] = "none", s \notin effect'
    PROVE  Truthful(s)'
  BY DEF Truthful

(* A step of r that writes nothing: the others keep what they have. *)
LEMMA AnswerStep ==
    ASSUME AccountsTypeOK, HistoryInv, AnswersTruthful, NEW r \in Requests,
           NEW from \in Statements \ {"idle", "answered"}, NEW what, Answer(r, from, what),
           UNCHANGED <<users, body, during, effect>>,
           \A s \in Requests : s # r => view'[s] = view[s],
           Truthful(r)'
    PROVE  HistoryInv' /\ AnswersTruthful'
<1>1. \A s \in Requests : s # r => at'[s] = at[s] /\ answer'[s] = answer[s]
  BY DEF AccountsTypeOK, Answer, Goto
<1>2. at'[r] = "answered"
  BY DEF AccountsTypeOK, Answer, Goto
<1>3. HistoryInv'
  BY <1>1, <1>2 DEF HistoryInv
<1>4. \A s \in Requests : s # r => Truthful(s)'
  BY <1>1, TruthKept DEF AnswersTruthful
<1> QED
  BY <1>3, <1>4 DEF AnswersTruthful

(* A step of r to another statement, without an answer. *)
LEMMA ProgressStep ==
    ASSUME AccountsTypeOK, HistoryInv, AnswersTruthful, NEW r \in Requests,
           NEW from \in Statements \ {"idle", "answered"},
           NEW to \in Statements \ {"idle", "answered"}, Goto(r, from, to),
           UNCHANGED <<users, body, during, effect, answer>>,
           \A s \in Requests : s # r => view'[s] = view[s],
           to = "lookup" => view'[r] # {} /\ view'[r] \in during[r]
    PROVE  HistoryInv' /\ AnswersTruthful'
<1>1. \A s \in Requests : s # r => at'[s] = at[s]
  BY DEF AccountsTypeOK, Goto
<1>2. at[r] = from /\ at'[r] = to
  BY DEF AccountsTypeOK, Goto
<1>3. HistoryInv'
  BY <1>1, <1>2 DEF HistoryInv
<1>4. \A s \in Requests : Truthful(s)'
  BY TruthKept DEF AnswersTruthful
<1> QED
  BY <1>3, <1>4 DEF AnswersTruthful

(* A commit of r: the others in progress see one table more. *)
LEMMA PublishTruthStep ==
    ASSUME AccountsTypeOK, HistoryInv, AnswersTruthful, NEW r \in Requests, NEW what,
           Answer(r, "commit", what), Publish(r), UNCHANGED <<body, view>>,
           what \in {"registered", "changed", "error"}
    PROVE  HistoryInv' /\ AnswersTruthful'
<1>1. \A s \in Requests : s # r => at'[s] = at[s] /\ answer'[s] = answer[s]
  BY DEF AccountsTypeOK, Answer, Goto
<1>2. at'[r] = "answered" /\ answer'[r] = what
  BY DEF AccountsTypeOK, Answer, Goto
<1>3. effect' = effect \cup {r}
  BY DEF Publish
<1>4. \A s \in Requests : during'[s] = IF at[s] \in {"idle", "answered"}
                                          THEN during[s] ELSE during[s] \cup {users'}
  BY DEF Publish
<1>5. HistoryInv'
  BY <1>1, <1>2, <1>3, <1>4 DEF HistoryInv
<1>6. Truthful(r)'
  BY <1>2, <1>3 DEF Truthful
<1>7. ASSUME NEW s \in Requests, s # r PROVE Truthful(s)'
  <2>1. CASE at[s] = "answered"
    BY <1>1, <1>3, <1>4, <1>7, <2>1, TruthKept DEF AnswersTruthful
  <2>2. CASE at[s] # "answered"
    BY <1>1, <1>3, <1>7, <2>2, NoAnswerTruthful DEF HistoryInv
  <2> QED
    BY <2>1, <2>2
<1> QED
  BY <1>5, <1>6, <1>7 DEF AnswersTruthful

(* What a request finds in the table it reads makes its answer true. *)
LEMMA ReadAnswerTruthful ==
    ASSUME AccountsTypeOK, HistoryInv, NEW r \in Requests, NEW table \in during[r],
           r \notin effect, UNCHANGED <<body, during, effect>>,
           \/ /\ answer'[r] \in {"accepted", "refused", "must_change"}
              /\ answer'[r] = LoginAnswer(table, body[r])
           \/ answer'[r] = "exists" /\ NameTaken(table, body[r])
    PROVE  Truthful(r)'
  BY DEF Truthful, LoginAnswer, Matches, NameTaken, SameName, Same, IsDefault

LEMMA ReceiveTruth ==
    ASSUME AccountsTypeOK, HistoryInv, AnswersTruthful, NEW r \in Requests,
           NEW o \in Ops, NEW b \in Bodies, Receive(r, o, b)
    PROVE  HistoryInv' /\ AnswersTruthful'
<1>1. \A s \in Requests : s # r => /\ at'[s] = at[s] /\ body'[s] = body[s]
                                  /\ during'[s] = during[s]
  BY DEF AccountsTypeOK, Receive, Goto
<1>2. at[r] = "idle" /\ at'[r] = "received" /\ users \in during'[r]
  BY DEF AccountsTypeOK, Receive, Goto
<1>3. UNCHANGED <<users, view, answer, effect>>
  BY DEF Receive
<1>4. HistoryInv'
  BY <1>1, <1>2, <1>3 DEF HistoryInv
<1>5. Truthful(r)'
  BY <1>2, <1>3, NoAnswerTruthful DEF HistoryInv
<1>6. \A s \in Requests : s # r => Truthful(s)'
  BY <1>1, <1>3, TruthKept DEF AnswersTruthful
<1> QED
  BY <1>4, <1>5, <1>6 DEF AnswersTruthful

LEMMA LoginTruth ==
    ASSUME AccountsTypeOK, HistoryInv, AnswersTruthful, NEW r \in Requests,
           CountUsers(r) \/ LookupUser(r)
    PROVE  HistoryInv' /\ AnswersTruthful'
<1>1. CASE CountUsers(r) /\ users = {}
  <2> DEFINE what == IF IsDefault(body[r]) THEN "must_change" ELSE "refused"
  <2>1. Answer(r, "received", what) /\ UNCHANGED <<users, body, during, effect>>
    BY <1>1 DEF CountUsers
  <2>2. \A s \in Requests : s # r => view'[s] = view[s]
    BY <1>1 DEF CountUsers, AccountsTypeOK
  <2>3. users \in during[r] /\ r \notin effect /\ answer'[r] = what
    BY <2>1 DEF HistoryInv, AccountsTypeOK, Answer, Goto
  <2>4. Truthful(r)'
    BY <1>1, <2>1, <2>3, ReadAnswerTruthful DEF LoginAnswer
  <2> HIDE DEF what
  <2> QED
    BY <2>1, <2>2, <2>4, AnswerStep DEF Statements
<1>2. CASE CountUsers(r) /\ users # {}
  <2>1. /\ Goto(r, "received", "lookup")
        /\ UNCHANGED <<users, body, during, effect, answer>>
        /\ view' = [view EXCEPT ![r] = users]
    BY <1>2 DEF CountUsers
  <2>2. view'[r] = users /\ \A s \in Requests : s # r => view'[s] = view[s]
    BY <2>1 DEF AccountsTypeOK
  <2>3. users \in during[r]
    BY <2>1 DEF HistoryInv, Goto
  <2> QED
    BY <1>2, <2>1, <2>2, <2>3, ProgressStep DEF Statements
<1>3. CASE LookupUser(r)
  <2> DEFINE what == IF Matches(view[r], body[r]) THEN "accepted" ELSE "refused"
  <2>1. Answer(r, "lookup", what) /\ UNCHANGED <<users, body, view, during, effect>>
    BY <1>3 DEF LookupUser
  <2>2. /\ view[r] # {} /\ view[r] \in during[r] /\ r \notin effect
        /\ answer'[r] = what
    BY <2>1 DEF HistoryInv, AccountsTypeOK, Answer, Goto
  <2>3. Truthful(r)'
    BY <2>1, <2>2, ReadAnswerTruthful DEF LoginAnswer
  <2> HIDE DEF what
  <2> QED
    BY <2>1, <2>3, AnswerStep DEF Statements
<1> QED
  BY <1>1, <1>2, <1>3

LEMMA ChangeTruth ==
    ASSUME AccountsTypeOK, HistoryInv, AnswersTruthful, NEW r \in Requests,
           CheckName(r) \/ DeleteUsers(r) \/ InsertUser(r)
    PROVE  HistoryInv' /\ AnswersTruthful'
<1>1. CASE CheckName(r) /\ NameTaken(users, body[r])
  <2>1. Answer(r, "received", "exists") /\ UNCHANGED <<users, body, view, during, effect>>
    BY <1>1 DEF CheckName
  <2>2. users \in during[r] /\ r \notin effect /\ answer'[r] = "exists"
    BY <2>1 DEF HistoryInv, AccountsTypeOK, Answer, Goto
  <2>3. Truthful(r)'
    BY <1>1, <2>1, <2>2, ReadAnswerTruthful
  <2> QED
    BY <2>1, <2>3, AnswerStep DEF Statements
<1>2. CASE CheckName(r) /\ ~NameTaken(users, body[r])
  <2>1. PICK to \in {"delete", "insert"} :
           /\ Goto(r, "received", to)
           /\ UNCHANGED <<users, body, view, during, effect, answer>>
    BY <1>2 DEF CheckName
  <2> QED
    BY <2>1, ProgressStep DEF Statements
<1>3. CASE DeleteUsers(r)
  <2>1. /\ Goto(r, "delete", "insert")
        /\ UNCHANGED <<users, body, view, during, effect, answer>>
    BY <1>3 DEF DeleteUsers
  <2> QED
    BY <2>1, ProgressStep DEF Statements
<1>4. CASE InsertUser(r)
  <2>1. /\ Goto(r, "insert", "commit")
        /\ UNCHANGED <<users, body, view, during, effect, answer>>
    BY <1>4 DEF InsertUser
  <2> QED
    BY <2>1, ProgressStep DEF Statements
<1> QED
  BY <1>1, <1>2, <1>3, <1>4

LEMMA RefusalTruth ==
    ASSUME AccountsTypeOK, HistoryInv, AnswersTruthful, NEW r \in Requests,
           RefuseIncomplete(r) \/ DuplicateName(r) \/ Victim(r) \/ StatementFails(r)
    PROVE  HistoryInv' /\ AnswersTruthful'
<1>1. PICK from \in Statements \ {"idle", "answered"}, what \in {"missing", "error"} :
         Answer(r, from, what) /\ UNCHANGED <<users, body, view, during, effect>>
  <2>1. CASE RefuseIncomplete(r)
    BY <2>1 DEF RefuseIncomplete, Statements
  <2>2. CASE DuplicateName(r) \/ Victim(r)
    BY <2>2 DEF DuplicateName, Victim, Statements
  <2>3. CASE StatementFails(r)
    BY <2>3 DEF StatementFails, AccountsTypeOK
  <2> QED
    BY <2>1, <2>2, <2>3
<1>2. r \notin effect /\ answer'[r] = what
  BY <1>1 DEF HistoryInv, AccountsTypeOK, Answer, Goto
<1>3. Truthful(r)'
  BY <1>1, <1>2 DEF Truthful
<1> QED
  BY <1>1, <1>3, AnswerStep

LEMMA CommitTruth ==
    ASSUME AccountsTypeOK, HistoryInv, AnswersTruthful, NEW r \in Requests,
           Commit(r) \/ CommitUnconfirmed(r)
    PROVE  HistoryInv' /\ AnswersTruthful'
<1>1. PICK what \in {"registered", "changed", "error"} :
         Answer(r, "commit", what) /\ Publish(r) /\ UNCHANGED <<body, view>>
  BY DEF Commit, CommitUnconfirmed
<1> QED
  BY <1>1, PublishTruthStep

LEMMA TruthStep ==
    ASSUME AccountsTypeOK, HistoryInv, AnswersTruthful, [AccountsNext]_accountVars
    PROVE  HistoryInv' /\ AnswersTruthful'
<1>1. CASE UNCHANGED accountVars
  <2>1. HistoryInv'
    BY <1>1 DEF accountVars, HistoryInv
  <2>2. \A s \in Requests : Truthful(s)'
    BY <1>1, TruthKept DEF accountVars, AnswersTruthful
  <2> QED
    BY <2>1, <2>2 DEF AnswersTruthful
<1>2. CASE AccountsNext
  BY <1>1, <1>2, ReceiveTruth, LoginTruth, ChangeTruth, RefusalTruth, CommitTruth
  DEF AccountsNext, Serve, Fail
<1> QED
  BY <1>1, <1>2

(* No answer is wrong for every table there was during its request, whatever
   commits between the statements of the request and before its answer, and
   success is reported exactly for what was committed. *)
THEOREM AccountsAnswerTruthfully == AccountsSpec => []AnswersTruthful
<1>1. AccountsInit => HistoryInv /\ AnswersTruthful
  BY DEF AccountsInit, HistoryInv, AnswersTruthful, Truthful
<1>2. AccountsTypeOK /\ HistoryInv /\ AnswersTruthful /\ [AccountsNext]_accountVars
      => HistoryInv' /\ AnswersTruthful'
  BY TruthStep
<1> QED
  BY <1>1, <1>2, AccountsTypeCorrect, PTL DEF AccountsSpec
-----------------------------------------------------------------------------
(* The pages. *)

PageTypes == /\ shown \in [Pages -> {"login", "change", "dashboard"}]
             /\ loading \in [Pages -> BOOLEAN]
             /\ error \in [Pages -> BOOLEAN]
             /\ waiting \in [Pages -> Requests \cup {NoRequest}]
             /\ left \in [Pages -> SUBSET Requests]
             /\ came \in [Pages -> Requests \cup {NoRequest}]

Opened(r) == /\ r \in Requests
             /\ at[r] = "answered"
             /\ Ok(r)
             /\ answer[r] # "must_change"

CameInv == \A p \in Pages : shown[p] = "dashboard" => Opened(came[p])

LoginAnswers ==
    \A r \in Requests :
       op[r] = "login" /\ at[r] = "answered" =>
          answer[r] \in {"accepted", "must_change", "refused", "missing"}
                        \cup (IF DbFaults THEN {"error"} ELSE {})

AccountInv == IInv /\ HistoryInv /\ AnswersTruthful /\ LoginAnswers

PageInv == AccountInv /\ PageTypes /\ CameInv
-----------------------------------------------------------------------------
(* The accounts. *)

LEMMA AccountsMove ==
  ASSUME [Next]_vars
  PROVE  [AccountsNext]_accountVars
<1>1. CASE UNCHANGED vars
  BY <1>1 DEF vars, accountVars
<1>2. CASE \E r \in Requests : Serve(r) \/ Fail(r)
  BY <1>2 DEF AccountsNext
<1>3. ASSUME NEW p \in Pages, handleLogin(p) \/ handleCredentialChange(p)
      PROVE  AccountsNext
  <2>1. PICK o \in Ops, b \in Rows, r \in Requests : Receive(r, o, b)
    BY <1>3 DEF handleLogin, handleCredentialChange, Submit, Ask, Ops
  <2>2. b \in Bodies
    BY <2>1 DEF Rows, Bodies
  <2> QED
    BY <2>1, <2>2 DEF AccountsNext
<1>5. ASSUME NEW r \in Requests, ApiCall(r) PROVE AccountsNext
  <2>1. PICK o \in Ops, b \in Bodies : Receive(r, o, b)
    BY <1>5, AccountsAssumption, PagesAssumption DEF ApiCall
  <2> QED
    BY <2>1 DEF AccountsNext
<1>4. ASSUME NEW p \in Pages,
             \/ FormIncomplete(p) \/ NetworkFails(p) \/ Settle(p) \/ LateDashboard(p)
             \/ Reload(p) \/ Navigate(p)
      PROVE  UNCHANGED accountVars
  BY <1>4 DEF FormIncomplete, NetworkFails, Settle, ShowError, ShowChange, ShowDashboard,
              Answered, LateDashboard, Reload, Navigate, NewPage
<1> QED
  BY <1>1, <1>2, <1>3, <1>4, <1>5 DEF Next

(* The answer to a request is final. *)
LEMMA AnswersFinal ==
  ASSUME AccountsTypeOK, [AccountsNext]_accountVars, NEW r \in Requests, at[r] = "answered"
  PROVE  at'[r] = "answered" /\ answer'[r] = answer[r] /\ op'[r] = op[r]
<1>1. CASE UNCHANGED accountVars
  BY <1>1 DEF accountVars
<1>2. ASSUME NEW s \in Requests, NEW o \in Ops, NEW b \in Bodies, Receive(s, o, b)
      PROVE  at'[r] = "answered" /\ answer'[r] = answer[r] /\ op'[r] = op[r]
  BY <1>2 DEF Receive, Goto, AccountsTypeOK
<1>3. ASSUME NEW s \in Requests, Serve(s) \/ Fail(s)
      PROVE  at'[r] = "answered" /\ answer'[r] = answer[r] /\ op'[r] = op[r]
  BY <1>3 DEF Serve, Fail, RefuseIncomplete, CountUsers, LookupUser, CheckName, DeleteUsers,
              InsertUser, DuplicateName, Victim, Commit, StatementFails, CommitUnconfirmed,
              Answer, Goto, CanInsert, AccountsTypeOK
<1> QED
  BY <1>1, <1>2, <1>3 DEF AccountsNext

LEMMA LoginAnswersStep ==
  ASSUME AccountInv, [AccountsNext]_accountVars
  PROVE  LoginAnswers'
<1> DEFINE Right == {"accepted", "must_change", "refused", "missing"}
                    \cup (IF DbFaults THEN {"error"} ELSE {})
<1>0. AccountsTypeOK /\ StatementInv /\ LoginAnswers
  BY DEF AccountInv, IInv, LockInv
<1>1. SUFFICES ASSUME NEW r \in Requests, op'[r] = "login", at'[r] = "answered"
               PROVE  answer'[r] \in Right
  BY DEF LoginAnswers
<1>2. CASE at[r] = "answered"
  BY <1>0, <1>1, <1>2, AnswersFinal DEF LoginAnswers
<1>3. CASE at[r] # "answered"
  <2>1. AccountsNext
    BY <1>1, <1>3 DEF accountVars
  <2>2. ~(\E s \in Requests, o \in Ops, b \in Bodies : Receive(s, o, b))
    BY <1>0, <1>1, <1>3 DEF Receive, Goto, AccountsTypeOK
  <2>3. PICK s \in Requests : Serve(s) \/ Fail(s)
    BY <2>1, <2>2 DEF AccountsNext
  <2>4. s = r /\ op[r] = "login"
    BY <1>0, <1>1, <1>3, <2>3
       DEF Serve, Fail, RefuseIncomplete, CountUsers, LookupUser, CheckName, DeleteUsers,
           InsertUser, DuplicateName, Victim, Commit, StatementFails, CommitUnconfirmed,
           Answer, Goto, CanInsert, AccountsTypeOK
  <2>5. at[r] \notin {"delete", "insert", "commit"}
    BY <1>0, <2>4 DEF StatementInv
  <2>6. RefuseIncomplete(r) \/ CountUsers(r) \/ LookupUser(r) \/ StatementFails(r)
    BY <2>3, <2>4, <2>5 DEF Serve, Fail, CheckName, DeleteUsers, InsertUser, DuplicateName,
                            Victim, Commit, CommitUnconfirmed, Answer, Goto, CanInsert
  <2>8. CASE RefuseIncomplete(r)
    BY <1>0, <2>8 DEF RefuseIncomplete, Answer, Goto, AccountsTypeOK
  <2>9. CASE CountUsers(r)
    BY <1>0, <1>1, <2>9 DEF CountUsers, Answer, Goto, AccountsTypeOK
  <2>10. CASE LookupUser(r)
    BY <1>0, <2>10 DEF LookupUser, Answer, Goto, AccountsTypeOK
  <2>11. CASE StatementFails(r)
    BY <1>0, <2>11 DEF StatementFails, Answer, Goto, AccountsTypeOK
  <2> QED
    BY <2>6, <2>8, <2>9, <2>10, <2>11
<1> QED
  BY <1>2, <1>3

LEMMA AccountStep ==
  ASSUME AccountInv, [Next]_vars
  PROVE  /\ AccountInv'
         /\ \A r : Opened(r) => Opened(r)'
<1>1. [AccountsNext]_accountVars
  BY AccountsMove
<1>2. AccountInv'
  BY <1>1, InductiveStep, TruthStep, LoginAnswersStep DEF AccountInv, IInv
<1>3. \A r : Opened(r) => Opened(r)'
  BY <1>1, AnswersFinal DEF Opened, Ok, AccountInv, IInv
<1> QED
  BY <1>2, <1>3
-----------------------------------------------------------------------------
(* The pages. *)

LEMMA InitPage == Init => PageInv
<1> SUFFICES ASSUME Init PROVE PageInv
  OBVIOUS
<1>1. AccountsInit
  BY DEF Init
<1>2. AccountInv
  BY <1>1, InitInv DEF AccountsInit, AccountInv, HistoryInv, AnswersTruthful, Truthful,
                       LoginAnswers
<1>3. PageTypes
  <2>1. /\ shown = [p \in Pages |-> "login"] /\ left = [p \in Pages |-> {}]
        /\ waiting = [p \in Pages |-> NoRequest] /\ came = [p \in Pages |-> NoRequest]
    BY DEF Init, Fresh
  <2>2. loading \in [Pages -> BOOLEAN] /\ error \in [Pages -> BOOLEAN]
    BY DEF Init
  <2> QED
    BY <2>1, <2>2 DEF PageTypes
<1>4. CameInv
  BY DEF Init, CameInv
<1> QED
  BY <1>2, <1>3, <1>4 DEF PageInv

(* What a page keeps while it shows what it shows. *)
LEMMA CameKept ==
  ASSUME PageInv, [Next]_vars, NEW p \in Pages,
         \A q \in Pages : q # p => shown'[q] = shown[q] /\ came'[q] = came[q],
         shown'[p] = "dashboard" =>
            \/ shown[p] = "dashboard" /\ came'[p] = came[p]
            \/ Opened(came'[p])
  PROVE  CameInv'
<1>1. \A r : Opened(r) => Opened(r)'
  BY AccountStep DEF PageInv
<1> QED
  BY <1>1 DEF PageInv, CameInv, Opened, Ok

LEMMA PageTypesParts ==
  ASSUME PageTypes
  PROVE  /\ shown \in [Pages -> {"login", "change", "dashboard"}]
         /\ waiting \in [Pages -> Requests \cup {NoRequest}]
         /\ left \in [Pages -> SUBSET Requests]
         /\ came \in [Pages -> Requests \cup {NoRequest}]
  BY DEF PageTypes

(* The flags, apart from the rest: each step sets them for one page. *)
LEMMA FlagsStep ==
  ASSUME PageTypes, NEW p \in Pages,
         \/ loading' = loading
         \/ \E x \in BOOLEAN : loading' = [loading EXCEPT ![p] = x],
         \/ error' = error
         \/ \E x \in BOOLEAN : error' = [error EXCEPT ![p] = x]
  PROVE  loading' \in [Pages -> BOOLEAN] /\ error' \in [Pages -> BOOLEAN]
  BY DEF PageTypes

LEMMA SubmitStep ==
  ASSUME PageInv, [Next]_vars, NEW p \in Pages, NEW form \in {"login", "change"},
         NEW o \in Ops, Submit(p, form, o)
  PROVE  PageTypes' /\ CameInv'
<1>1. PICK r \in Requests : waiting' = [waiting EXCEPT ![p] = r]
  BY DEF Submit, Ask
<1>2. /\ UNCHANGED <<shown, left, came>>
      /\ loading' = [loading EXCEPT ![p] = TRUE] /\ error' = [error EXCEPT ![p] = FALSE]
  BY DEF Submit
<1>3. CameInv'
  BY <1>2, CameKept
<1>4. loading' \in [Pages -> BOOLEAN] /\ error' \in [Pages -> BOOLEAN]
  BY <1>2, FlagsStep DEF PageInv
<1>5. waiting' \in [Pages -> Requests \cup {NoRequest}]
  BY <1>1, PageTypesParts DEF PageInv
<1> QED
  BY <1>2, <1>3, <1>4, <1>5, Zenon DEF PageInv, PageTypes

LEMMA HandledStep ==
  ASSUME PageInv, [Next]_vars, NEW p \in Pages,
         FormIncomplete(p) \/ NetworkFails(p) \/ Settle(p)
  PROVE  PageTypes' /\ CameInv'
<1>1. left' = left
  BY DEF FormIncomplete, NetworkFails, Settle, ShowError, ShowChange, ShowDashboard, Answered
<1>2. waiting' \in [Pages -> Requests \cup {NoRequest}]
  <2>1. waiting' = waiting \/ waiting' = [waiting EXCEPT ![p] = NoRequest]
    BY DEF FormIncomplete, NetworkFails, Settle, ShowError, ShowChange, ShowDashboard, Answered
  <2> QED
    BY <2>1, PageTypesParts DEF PageInv
<1>3. loading' \in [Pages -> BOOLEAN] /\ error' \in [Pages -> BOOLEAN]
  <2>1. /\ \/ loading' = loading
           \/ \E x \in BOOLEAN : loading' = [loading EXCEPT ![p] = x]
        /\ \/ error' = error
           \/ \E x \in BOOLEAN : error' = [error EXCEPT ![p] = x]
    BY Zenon DEF FormIncomplete, NetworkFails, Settle, ShowError, ShowChange, ShowDashboard
  <2> QED
    BY <2>1, FlagsStep DEF PageInv
<1>4. CASE UNCHANGED <<shown, came>>
  <2>1. CameInv'
    BY <1>4, CameKept
  <2> QED
    BY <1>1, <1>2, <1>3, <1>4, <2>1, Zenon DEF PageInv, PageTypes
<1>5. CASE ShowChange(p)
  <2>1. shown' = [shown EXCEPT ![p] = "change"] /\ came' = came
    BY <1>5 DEF ShowChange
  <2>2. shown' \in [Pages -> {"login", "change", "dashboard"}]
    BY <2>1, PageTypesParts DEF PageInv
  <2>3. CameInv'
    <3>1. shown'[p] = "change" /\ \A q \in Pages : q # p => shown'[q] = shown[q]
      BY <2>1, PageTypesParts DEF PageInv
    <3> QED
      BY <2>1, <3>1, CameKept
  <2> QED
    BY <1>1, <1>2, <1>3, <2>1, <2>2, <2>3, Zenon DEF PageInv, PageTypes
<1>6. CASE ShowDashboard(p)
  <2>1. /\ shown' = [shown EXCEPT ![p] = "dashboard"]
        /\ came' = [came EXCEPT ![p] = waiting[p]]
        /\ waiting[p] # NoRequest /\ at[waiting[p]] = "answered"
        /\ Ok(waiting[p]) /\ answer[waiting[p]] # "must_change"
        /\ UNCHANGED accountVars
    BY <1>6 DEF ShowDashboard, Answered
  <2>2. /\ waiting[p] \in Requests
        /\ shown' \in [Pages -> {"login", "change", "dashboard"}]
        /\ came' \in [Pages -> Requests \cup {NoRequest}]
        /\ came'[p] = waiting[p]
        /\ \A q \in Pages : q # p => shown'[q] = shown[q] /\ came'[q] = came[q]
    BY <2>1, PageTypesParts DEF PageInv
  <2>3. Opened(came'[p])
    BY <2>1, <2>2 DEF Opened
  <2>4. CameInv'
    BY <2>2, <2>3, CameKept
  <2> QED
    BY <1>1, <1>2, <1>3, <2>2, <2>4, Zenon DEF PageInv, PageTypes
<1> QED
  BY <1>4, <1>5, <1>6 DEF FormIncomplete, NetworkFails, Settle, ShowError

LEMMA LateStep ==
  ASSUME PageInv, [Next]_vars, NEW p \in Pages, LateDashboard(p)
  PROVE  PageTypes' /\ CameInv'
<1>1. PICK r \in left[p] :
         /\ at[r] = "answered" /\ Ok(r) /\ answer[r] # "must_change"
         /\ shown' = [shown EXCEPT ![p] = "dashboard"]
         /\ came' = [came EXCEPT ![p] = r]
         /\ left' = [left EXCEPT ![p] = (left[p] \cup Awaited(p)) \ {r}]
         /\ waiting' = [waiting EXCEPT ![p] = NoRequest]
         /\ UNCHANGED <<accountVars, loading, error>>
  BY DEF LateDashboard
<1>2. r \in Requests /\ Awaited(p) \subseteq Requests
  BY PageTypesParts DEF PageInv, Awaited
<1>3. /\ shown' \in [Pages -> {"login", "change", "dashboard"}]
      /\ came' \in [Pages -> Requests \cup {NoRequest}]
      /\ waiting' \in [Pages -> Requests \cup {NoRequest}]
      /\ came'[p] = r
      /\ \A q \in Pages : q # p => shown'[q] = shown[q] /\ came'[q] = came[q]
  BY <1>1, <1>2, PageTypesParts DEF PageInv
<1>4. left' \in [Pages -> SUBSET Requests]
  BY <1>1, <1>2, PageTypesParts DEF PageInv
<1>5. Opened(came'[p])
  BY <1>1, <1>2, <1>3 DEF Opened
<1>6. CameInv'
  BY <1>3, <1>5, CameKept
<1> QED
  BY <1>1, <1>3, <1>4, <1>6, Zenon DEF PageInv, PageTypes

LEMMA NewPageStep ==
  ASSUME PageInv, [Next]_vars, NEW p \in Pages, Reload(p) \/ Navigate(p)
  PROVE  PageTypes' /\ CameInv'
<1>1. /\ shown' = [shown EXCEPT ![p] = "login"] /\ came' = [came EXCEPT ![p] = NoRequest]
      /\ waiting' = [waiting EXCEPT ![p] = NoRequest]
      /\ loading' = [loading EXCEPT ![p] = FALSE] /\ error' = [error EXCEPT ![p] = FALSE]
  BY DEF Reload, Navigate, NewPage
<1>2. /\ shown' \in [Pages -> {"login", "change", "dashboard"}]
      /\ came' \in [Pages -> Requests \cup {NoRequest}]
      /\ waiting' \in [Pages -> Requests \cup {NoRequest}]
      /\ shown'[p] = "login"
      /\ \A q \in Pages : q # p => shown'[q] = shown[q] /\ came'[q] = came[q]
  BY <1>1, PageTypesParts DEF PageInv
<1>3. left' \in [Pages -> SUBSET Requests]
  <2>1. Awaited(p) \subseteq Requests
    BY PageTypesParts DEF PageInv, Awaited
  <2>2. left' = [left EXCEPT ![p] = {}] \/ left' = [left EXCEPT ![p] = left[p] \cup Awaited(p)]
    BY DEF Reload, Navigate
  <2> QED
    BY <2>1, <2>2, PageTypesParts DEF PageInv
<1>4. loading' \in [Pages -> BOOLEAN] /\ error' \in [Pages -> BOOLEAN]
  BY <1>1, FlagsStep DEF PageInv
<1>5. CameInv'
  BY <1>2, CameKept
<1> QED
  BY <1>2, <1>3, <1>4, <1>5, Zenon DEF PageTypes
-----------------------------------------------------------------------------
(* Every step. *)

LEMMA NextPage == PageInv /\ [Next]_vars => PageInv'
<1> SUFFICES ASSUME PageInv, [Next]_vars PROVE PageTypes' /\ CameInv'
  BY AccountStep DEF PageInv
<1>1. ASSUME NEW p \in Pages, handleLogin(p) \/ handleCredentialChange(p)
      PROVE  PageTypes' /\ CameInv'
  <2>1. "login" \in Ops /\ "change" \in Ops
    BY DEF Ops
  <2> QED
    BY <1>1, <2>1, SubmitStep DEF handleLogin, handleCredentialChange
<1>2. ASSUME NEW p \in Pages, FormIncomplete(p) \/ NetworkFails(p) \/ Settle(p)
      PROVE  PageTypes' /\ CameInv'
  BY <1>2, HandledStep
<1>3. ASSUME NEW p \in Pages, LateDashboard(p)
      PROVE  PageTypes' /\ CameInv'
  BY <1>3, LateStep
<1>4. ASSUME NEW p \in Pages, Reload(p) \/ Navigate(p)
      PROVE  PageTypes' /\ CameInv'
  BY <1>4, NewPageStep
<1>5. CASE UNCHANGED pageVars
  <2>1. \A r : Opened(r) => Opened(r)'
    BY AccountStep DEF PageInv
  <2>2. CameInv'
    BY <1>5, <2>1 DEF PageInv, CameInv, pageVars, Opened, Ok
  <2>3. PageTypes'
    BY <1>5, Zenon DEF PageInv, PageTypes, pageVars
  <2> QED
    BY <2>2, <2>3
<1>6. UNCHANGED vars \/ (\E r \in Requests : ApiCall(r)) => UNCHANGED pageVars
  BY DEF vars, pageVars, ApiCall
<1> QED
  BY <1>1, <1>2, <1>3, <1>4, <1>5, <1>6, Zenon DEF Next

LEMMA PageInvariance == Spec => []PageInv
  BY InitPage, NextPage, PTL DEF Spec

(* Every variable of the pages and of the account requests behind them keeps
   its type.  login/page.js. *)
THEOREM PageTypeCorrect == Spec => []PageTypeOK
<1>1. PageInv => PageTypeOK
  BY Zenon DEF PageInv, AccountInv, IInv, PageTypes, PageTypeOK
<1> QED
  BY <1>1, PageInvariance, PTL

(* A login that leads to the dashboard was accepted, for users that were in the
   table while it was made, whatever forms were left meanwhile; the only other
   one is a login of which a statement failed, since the backend answers that
   with 200 and neither the route nor the page look any further.
   login/page.js: handleLogin; api/login; api.py: login. *)
THEOREM LoginsEarned == Spec => []LoginEarnedOrFailed
<1>1. ASSUME PageInv PROVE LoginEarnedOrFailed
  <2> SUFFICES ASSUME NEW p \in Pages, shown[p] = "dashboard", op[came[p]] = "login",
                      ~(DbFaults /\ answer[came[p]] = "error")
               PROVE  /\ answer[came[p]] = "accepted"
                      /\ \E table \in during[came[p]] : Matches(table, body[came[p]])
    BY DEF LoginEarnedOrFailed
  <2> DEFINE r == came[p]
  <2>1. r \in Requests /\ at[r] = "answered" /\ Ok(r) /\ answer[r] # "must_change"
    BY <1>1 DEF PageInv, CameInv, Opened
  <2>2. answer[r] \in {"accepted", "refused", "missing"}
    BY <1>1, <2>1 DEF PageInv, AccountInv, LoginAnswers
  <2>3. answer[r] = "accepted"
    BY <2>1, <2>2 DEF Ok, Status
  <2>4. Truthful(r)
    BY <1>1, <2>1 DEF PageInv, AccountInv, AnswersTruthful
  <2>5. PICK table \in during[r] : answer[r] = LoginAnswer(table, body[r])
    BY <2>3, <2>4 DEF Truthful
  <2>6. Matches(table, body[r])
    BY <2>3, <2>5 DEF LoginAnswer
  <2> QED
    BY <2>3, <2>6
<1> QED
  BY <1>1, PageInvariance, PTL
=============================================================================
