-------------------------- MODULE Endpoints_proofs --------------------------
(***************************************************************************)
(* Proofs about the endpoints table and the pages that use it, for any     *)
(* number of requests, pages and names.                                    *)
(*                                                                         *)
(* The numbers of the committed rows are 1 to their count.  A creation     *)
(* that reads the table before others commit works out a number that may   *)
(* be taken by the time of its INSERT, and fails then; if it does not, its *)
(* number is one more than the count, and it is the only one between       *)
(* INSERT and commit (NumberInv, SoleInsert).  So its commit adds the next *)
(* number to the table, as EndpointRegistry says.                          *)
(***************************************************************************)
EXTENDS Endpoints, FiniteSetTheorems, TLAPS

Entries == {[id |-> e.id, key |-> e.key] : e \in endpoints}

Size == Cardinality(endpoints)

Statements == {"idle", "received", "insert", "commit", "answered"}

TableTypes == /\ endpoints \in SUBSET Rows
              /\ at \in [Requests -> Statements]
              /\ op \in [Requests -> {"create", "count"}]
              /\ name \in [Requests -> Names \cup {None}]
              /\ new_id \in [Requests -> Nat]

Numbered == /\ IsFiniteSet(endpoints)
            /\ EndpointIds = 1..Size
            /\ \A e \in endpoints : at[e.key] = "answered"

NumberInv(r) == /\ at[r] = "insert" => new_id[r] \in 1..(Size + 1)
                /\ at[r] = "commit" => new_id[r] = Size + 1
                /\ at[r] \in {"insert", "commit"} => op[r] = "create" /\ name[r] \in Names

SoleInsert == \A r, s \in Requests : at[r] = "commit" /\ at[s] = "commit" => r = s

TableInv == /\ TableTypes
            /\ Numbered
            /\ \A r \in Requests : NumberInv(r)
            /\ SoleInsert
-----------------------------------------------------------------------------
(* The table. *)

LEMMA Sizes == ASSUME TableInv PROVE Size \in Nat
  BY FS_CardinalityType DEF TableInv, Numbered, Size

LEMMA NextNumber == ASSUME TableInv PROVE MaxId = Size
<1>1. Size \in Nat /\ EndpointIds = 1..Size /\ IsFiniteSet(endpoints)
  BY Sizes DEF TableInv, Numbered
<1>2. CASE endpoints = {}
  BY <1>2, FS_EmptySet DEF MaxId, Size
<1>3. CASE endpoints # {}
  <2>1. Size # 0
    BY <1>1, <1>3, FS_EmptySet DEF Size
  <2>2. Size \in 1..Size /\ \A j \in 1..Size : j <= Size
    BY <1>1, <2>1
  <2>3. \A i \in 1..Size : (\A j \in 1..Size : j <= i) => i = Size
    BY <1>1, <2>2
  <2>4. MaxId = CHOOSE i \in 1..Size : \A j \in 1..Size : j <= i
    BY <1>1, <1>3 DEF MaxId
  <2> QED
    BY <2>2, <2>3, <2>4
<1> QED
  BY <1>2, <1>3

(* A request moves on and the table stays. *)
LEMMA StayStep ==
  ASSUME TableInv, NEW r \in Requests, NEW to \in Statements,
         endpoints' = endpoints, at' = [at EXCEPT ![r] = to],
         op' \in [Requests -> {"create", "count"}],
         name' \in [Requests -> Names \cup {None}],
         new_id' \in [Requests -> Nat],
         \A s \in Requests \ {r} : /\ op'[s] = op[s] /\ name'[s] = name[s]
                                   /\ new_id'[s] = new_id[s],
         at[r] # "answered", NumberInv(r)',
         to = "commit" => \A s \in Requests \ {r} : at[s] # "commit"
  PROVE  TableInv' /\ Size' = Size
<1>1. TableTypes' /\ Size' = Size
  BY DEF TableInv, TableTypes, Size
<1>2. \A s \in Requests : at'[s] = IF s = r THEN to ELSE at[s]
  BY DEF TableInv, TableTypes
<1>3. Numbered'
  <2>1. Entries' = Entries /\ EndpointIds' = EndpointIds
    BY DEF Entries, EndpointIds
  <2>2. \A e \in endpoints : e.key \in Requests \ {r}
    BY DEF TableInv, TableTypes, Numbered, Rows
  <2> QED
    BY <1>1, <1>2, <2>1, <2>2 DEF TableInv, Numbered
<1>4. \A s \in Requests : NumberInv(s)'
  BY <1>1, <1>2 DEF TableInv, NumberInv
<1>5. SoleInsert'
  BY <1>2 DEF TableInv, SoleInsert
<1> QED
  BY <1>1, <1>3, <1>4, <1>5 DEF TableInv

(* A commit adds the next number. *)
LEMMA PublishStep ==
  ASSUME TableInv, NEW r \in Requests, at[r] = "commit",
         at' = [at EXCEPT ![r] = "answered"], Publish(r), UNCHANGED <<op, name, new_id>>
  PROVE  /\ TableInv' /\ Size' = Size + 1
         /\ endpoints \subseteq endpoints' /\ Row(new_id[r], r)' \in endpoints'
         /\ Registry!Next
<1> DEFINE row == Row(new_id[r], r)
           entry == [id |-> Size + 1, key |-> r]
<1>1. /\ Size \in Nat /\ new_id[r] = Size + 1 /\ name[r] \in Names
      /\ IsFiniteSet(endpoints) /\ EndpointIds = 1..Size
      /\ \A e \in endpoints : at[e.key] = "answered" /\ e \in Rows
  BY Sizes DEF TableInv, TableTypes, Numbered, NumberInv
<1>2. /\ row \in Rows /\ row.id = Size + 1 /\ row.key = r
      /\ endpoints' = endpoints \cup {row}
  BY <1>1 DEF Row, auth_key, Publish, Rows
<1> HIDE DEF row
<1>3. row \notin endpoints /\ \A e \in endpoints : e.key # r
  <2>1. Size + 1 \notin EndpointIds
    BY <1>1
  <2> QED
    BY <1>1, <1>2, <2>1 DEF EndpointIds
<1>4. Size' = Size + 1 /\ IsFiniteSet(endpoints')
  BY <1>1, <1>2, <1>3, FS_AddElement DEF Size
<1>5. Entries' = Entries \cup {entry}
  BY <1>2 DEF Entries
<1>7. EndpointIds' = 1..Size'
  <2>1. EndpointIds' = EndpointIds \cup {Size + 1}
    BY <1>2 DEF EndpointIds
  <2> QED
    BY <1>1, <1>4, <2>1
<1>8. \A s \in Requests : at'[s] = IF s = r THEN "answered" ELSE at[s]
  BY DEF TableInv, TableTypes
<1>9. TableTypes'
  BY <1>2 DEF TableInv, TableTypes, Statements
<1>10. Numbered'
  <2>1. \A e \in endpoints' : at'[e.key] = "answered"
    BY <1>1, <1>2, <1>8 DEF Rows
  <2> QED
    BY <1>4, <1>7, <2>1 DEF Numbered
<1>11. \A s \in Requests : NumberInv(s)'
  BY <1>1, <1>4, <1>8 DEF TableInv, NumberInv, SoleInsert
<1>12. SoleInsert'
  BY <1>8 DEF TableInv, SoleInsert
<1>13. Registry!Next
  <2>1. \A e \in Entries : e.key # r
    BY <1>3 DEF Entries
  <2>2. {e.id : e \in Entries} = 1..Size
    <3>1. \A e \in endpoints : [id |-> e.id, key |-> e.key].id = e.id
      OBVIOUS
    <3>2. \A e \in endpoints : [id |-> e.id, key |-> e.key] \in Entries
      BY Zenon DEF Entries
    <3>3. \A x \in Entries : \E e \in endpoints : x = [id |-> e.id, key |-> e.key]
      BY Zenon DEF Entries
    <3>4. ASSUME NEW x PROVE x \in {e.id : e \in Entries} <=> x \in EndpointIds
      BY <3>1, <3>2, <3>3 DEF EndpointIds
    <3>5. {e.id : e \in Entries} = EndpointIds
      BY <3>4
    <3> QED
      BY <1>1, <3>5
  <2>3. Size \in {e.id : e \in Entries} \cup {0}
    BY <1>1, <2>2
  <2>4. Registry!Register(r)
    BY <1>5, <2>1, <2>2, <2>3, Zenon DEF Registry!Register, Registry!Numbers, Entries
  <2> QED
    BY <2>4, Zenon DEF Registry!Next
<1>14. Row(new_id[r], r)' = row
  BY DEF row, Row, auth_key
<1> QED
  BY <1>2, <1>4, <1>9, <1>10, <1>11, <1>12, <1>13, <1>14 DEF TableInv
-----------------------------------------------------------------------------
(* The answers and the pages. *)

AnswerInv(r) ==
    IF at[r] # "answered" THEN answer[r] = NoAnswer
    ELSE \/ \E status \in {400, 500} : answer[r] = Failed(status)
         \/ /\ op[r] = "create"
            /\ answer[r] = Created(new_id[r], r)
            /\ Row(new_id[r], r) \in endpoints
         \/ /\ op[r] = "count"
            /\ \E n \in Nat : n <= Size /\ answer[r] = Counted(n)

AnswersInv == /\ answer \in [Requests -> Answers]
              /\ \A r \in Requests : AnswerInv(r)

PageTypes == /\ waiting \in [Pages -> SUBSET Requests]
             /\ form \in [Pages -> Requests \cup {None}]
             /\ total \in [Pages -> Nat \cup {None}]
             /\ opened \in [Pages -> Nat]

(* The count that a page awaits is taken after it was opened. *)
Fresh(p) == /\ opened[p] <= Size
            /\ total[p] # None => opened[p] <= total[p] /\ total[p] <= Size
            /\ form[p] # None =>
                  /\ at[form[p]] # "idle"
                  /\ \A n \in Nat : answer[form[p]] = Counted(n) => opened[p] <= n

PagesInv == PageTypes /\ \A p \in Pages : Fresh(p)

EndpointsInv == TableInv /\ AnswersInv /\ PagesInv /\ ConfigsRegistered

LEMMA AnswerForms ==
  /\ \A status \in {0, 400, 500} : Failed(status) \in Answers
  /\ \A n \in Nat : Counted(n) \in Answers
  /\ \A id, r : Row(id, r) \in Rows => Created(id, r) \in Answers
  BY DEF Failed, Counted, Created, Answers

LEMMA CountsDiffer ==
  /\ \A n, m : Counted(n) = Counted(m) => n = m
  /\ \A n : \A status \in {0, 400, 500} : Counted(n) # Failed(status)
  /\ \A n, id, r : Counted(n) # Created(id, r)
<1>1. ASSUME NEW n, NEW m, Counted(n) = Counted(m) PROVE n = m
  <2>1. Counted(n).count = n /\ Counted(m).count = m
    BY DEF Counted
  <2> QED
    BY <1>1, <2>1
<1>2. ASSUME NEW n, NEW status \in {0, 400, 500} PROVE Counted(n) # Failed(status)
  <2>1. Counted(n).status = 200 /\ Failed(status).status = status
    BY DEF Counted, Failed
  <2> QED
    BY <2>1
<1>3. ASSUME NEW n, NEW id, NEW r PROVE Counted(n) # Created(id, r)
  <2>1. Counted(n).status = 200 /\ Created(id, r).status = 201
    BY DEF Counted, Created
  <2> QED
    BY <2>1
<1> QED
  BY <1>1, <1>2, <1>3

(* What a page may read off an answer. *)
LEMMA AnswerRead ==
  ASSUME EndpointsInv, NEW r \in Requests, at[r] = "answered", ResponseOk(r)
  PROVE  /\ op[r] = "create" => answer[r].config \in endpoints
         /\ op[r] = "count" => \E n \in Nat : /\ n <= Size
                                              /\ answer[r] = Counted(n)
                                              /\ answer[r].count = n
<1>1. AnswerInv(r)
  BY DEF EndpointsInv, AnswersInv
<1>2. \A status \in {400, 500} : answer[r] # Failed(status)
  <2>1. \A status \in {400, 500} : Failed(status).status = status
    BY DEF Failed
  <2>2. answer[r].status \in 200..299
    BY DEF ResponseOk
  <2> QED
    BY <2>1, <2>2
<1>3. CASE answer[r] = Created(new_id[r], r) /\ op[r] = "create" /\ Row(new_id[r], r) \in endpoints
  BY <1>3 DEF Created
<1>4. CASE op[r] = "count" /\ \E n \in Nat : n <= Size /\ answer[r] = Counted(n)
  BY <1>4 DEF Counted
<1> QED
  BY <1>1, <1>2, <1>3, <1>4 DEF AnswerInv
-----------------------------------------------------------------------------
(* The steps of the backend. *)

Still(r) == /\ at'[r] = at[r] /\ op'[r] = op[r] /\ name'[r] = name[r]
            /\ new_id'[r] = new_id[r] /\ answer'[r] = answer[r]

LEMMA AnswersStep ==
  ASSUME EndpointsInv, NEW r \in Requests, endpoints \subseteq endpoints',
         Size' \in Nat, Size <= Size',
         answer' \in [Requests -> Answers],
         \A s \in Requests \ {r} : Still(s),
         AnswerInv(r)'
  PROVE  AnswersInv'
<1>2. Size \in Nat
  BY Sizes DEF EndpointsInv
<1>3. ASSUME NEW s \in Requests, s # r PROVE AnswerInv(s)'
  <2>1. AnswerInv(s)
    BY DEF EndpointsInv, AnswersInv
  <2>2. /\ at'[s] = at[s] /\ op'[s] = op[s] /\ name'[s] = name[s]
        /\ new_id'[s] = new_id[s] /\ answer'[s] = answer[s]
    BY <1>3 DEF Still
  <2>3. Row(new_id[s], s)' = Row(new_id[s], s) /\ Created(new_id[s], s)' = Created(new_id[s], s)
    BY <2>2 DEF Row, Created, auth_key
  <2>4. \A n \in Nat : n <= Size => n <= Size'
    BY <1>2
  <2> QED
    BY <2>1, <2>2, <2>3, <2>4 DEF AnswerInv
<1> QED
  BY <1>3 DEF AnswersInv

LEMMA PagesStep ==
  ASSUME EndpointsInv, NEW r \in Requests, endpoints \subseteq endpoints',
         Size' \in Nat, Size <= Size', UNCHANGED pageVars,
         \A s \in Requests \ {r} : Still(s), at'[r] # "idle",
         \/ answer'[r] = answer[r]
         \/ answer'[r] = Counted(Size)
         \/ \A n : answer'[r] # Counted(n)
  PROVE  PagesInv' /\ ConfigsRegistered'
<1>1. \A s \in Requests \ {r} : at'[s] = at[s] /\ answer'[s] = answer[s]
  BY DEF Still
<1>2. Size \in Nat
  BY Sizes DEF EndpointsInv
<1>3. ASSUME NEW p \in Pages PROVE Fresh(p)'
  <2>1. /\ Fresh(p) /\ opened[p] \in Nat /\ total[p] \in Nat \cup {None}
        /\ form[p] \in Requests \cup {None}
    BY DEF EndpointsInv, PagesInv, PageTypes
  <2>2. opened'[p] = opened[p] /\ total'[p] = total[p] /\ form'[p] = form[p]
    BY DEF pageVars
  <2>3. opened[p] <= Size' /\ (total[p] # None => opened[p] <= total[p] /\ total[p] <= Size')
    BY <1>2, <2>1 DEF Fresh
  <2>4. ASSUME form[p] # None, NEW n \in Nat, answer'[form[p]] = Counted(n)
        PROVE  opened[p] <= n
    BY <1>1, <2>1, <2>4, CountsDiffer DEF Fresh
  <2>5. form[p] # None => at'[form[p]] # "idle"
    BY <1>1, <2>1 DEF Fresh
  <2> QED
    BY <2>2, <2>3, <2>4, <2>5 DEF Fresh
<1>4. PageTypes'
  BY DEF EndpointsInv, PagesInv, PageTypes, pageVars
<1>5. ConfigsRegistered'
  BY DEF EndpointsInv, ConfigsRegistered, pageVars
<1> QED
  BY <1>3, <1>4, <1>5 DEF PagesInv

(* A request is answered without touching the table. *)
LEMMA ReplyStep ==
  ASSUME EndpointsInv, NEW r \in Requests, NEW from \in Statements \ {"answered"}, NEW what,
         Answer(r, from, what), UNCHANGED <<endpoints, op, name, new_id>>, UNCHANGED pageVars,
         \/ \E status \in {400, 500} : what = Failed(status)
         \/ op[r] = "count" /\ what = Counted(Size)
  PROVE  EndpointsInv'
<1>1. /\ at[r] = from /\ at' = [at EXCEPT ![r] = "answered"]
      /\ answer' = [answer EXCEPT ![r] = what]
  BY DEF Answer, Goto
<1>2. TableTypes /\ answer \in [Requests -> Answers] /\ Size \in Nat
  BY Sizes DEF EndpointsInv, TableInv, AnswersInv
<1>3. at'[r] = "answered"
  BY <1>1, <1>2 DEF TableTypes
<1>4. TableInv' /\ Size' = Size
  <2>1. NumberInv(r)'
    BY <1>3 DEF NumberInv
  <2> QED
    BY <1>1, <1>2, <2>1, StayStep DEF EndpointsInv, TableTypes, Statements
<1>5. answer' \in [Requests -> Answers] /\ answer'[r] = what
  BY <1>1, <1>2, AnswerForms
<1>6. AnswerInv(r)'
  BY <1>2, <1>3, <1>4, <1>5 DEF AnswerInv
<1>7. /\ \A s \in Requests \ {r} : Still(s)
      /\ endpoints \subseteq endpoints' /\ Size' \in Nat /\ Size <= Size'
  BY <1>1, <1>2, <1>4 DEF Still, TableTypes
<1>8. AnswersInv'
  BY <1>5, <1>6, <1>7, AnswersStep
<1>9. PagesInv' /\ ConfigsRegistered'
  <2>1. answer'[r] = Counted(Size) \/ \A n : answer'[r] # Counted(n)
    BY <1>5, CountsDiffer
  <2>2. at'[r] # "idle"
    BY <1>3
  <2> QED
    BY <1>7, <2>1, <2>2, PagesStep
<1> QED
  BY <1>4, <1>8, <1>9 DEF EndpointsInv

(* A creation goes on to its next statement. *)
LEMMA MoveStep ==
  ASSUME EndpointsInv, NEW r \in Requests, NEW to \in {"insert", "commit"},
         at[r] \notin {"idle", "answered"}, at' = [at EXCEPT ![r] = to],
         UNCHANGED <<endpoints, op, name, answer>>, UNCHANGED pageVars,
         new_id' \in [Requests -> Nat],
         \A s \in Requests \ {r} : new_id'[s] = new_id[s],
         NumberInv(r)', to = "commit" => \A s \in Requests \ {r} : at[s] # "commit"
  PROVE  EndpointsInv'
<1>1. TableTypes /\ answer \in [Requests -> Answers] /\ Size \in Nat
  BY Sizes DEF EndpointsInv, TableInv, AnswersInv
<1>2. TableInv' /\ Size' = Size
  BY <1>1, StayStep DEF EndpointsInv, TableTypes, Statements
<1>3. AnswerInv(r)'
  BY <1>1 DEF EndpointsInv, AnswersInv, AnswerInv, TableTypes
<1>4. /\ \A s \in Requests \ {r} : Still(s)
      /\ endpoints \subseteq endpoints' /\ Size' \in Nat /\ Size <= Size'
      /\ answer' = answer /\ at'[r] # "idle"
  BY <1>1, <1>2 DEF Still, TableTypes
<1>5. AnswersInv'
  BY <1>1, <1>3, <1>4, AnswersStep
<1>6. PagesInv' /\ ConfigsRegistered'
  BY <1>4, PagesStep
<1> QED
  BY <1>2, <1>5, <1>6 DEF EndpointsInv

LEMMA SelectStep ==
  ASSUME EndpointsInv, NEW r \in Requests, SelectNewId(r), UNCHANGED pageVars
  PROVE  EndpointsInv'
<1>1. /\ op[r] = "create" /\ name[r] # None /\ at[r] = "received"
      /\ at' = [at EXCEPT ![r] = "insert"] /\ new_id' = [new_id EXCEPT ![r] = Size + 1]
      /\ UNCHANGED <<endpoints, op, name, answer>>
  BY NextNumber DEF SelectNewId, Goto, EndpointsInv
<1>2. TableTypes /\ Size \in Nat /\ Size' = Size
  BY <1>1, Sizes DEF EndpointsInv, TableInv, Size
<1>3. NumberInv(r)'
  BY <1>1, <1>2 DEF NumberInv, TableTypes
<1>4. /\ new_id' \in [Requests -> Nat]
      /\ \A s \in Requests \ {r} : new_id'[s] = new_id[s]
  BY <1>1, <1>2 DEF TableTypes
<1> QED
  BY <1>1, <1>3, <1>4, MoveStep

LEMMA InsertStep ==
  ASSUME EndpointsInv, NEW r \in Requests, InsertEndpoint(r), UNCHANGED pageVars
  PROVE  EndpointsInv'
<1>1. /\ ~Locked(r) /\ new_id[r] \notin EndpointIds /\ at[r] = "insert"
      /\ at' = [at EXCEPT ![r] = "commit"] /\ UNCHANGED <<endpoints, op, name, new_id, answer>>
  BY DEF InsertEndpoint, Goto
<1>2. TableTypes /\ Size \in Nat /\ Size' = Size
  BY <1>1, Sizes DEF EndpointsInv, TableInv, Size
<1>3. new_id[r] = Size + 1 /\ op[r] = "create" /\ name[r] \in Names
  BY <1>1, <1>2 DEF EndpointsInv, TableInv, Numbered, NumberInv
<1>4. NumberInv(r)'
  BY <1>1, <1>2, <1>3 DEF NumberInv, TableTypes
<1>5. \A s \in Requests \ {r} : at[s] # "commit"
  BY <1>1, <1>3 DEF EndpointsInv, TableInv, NumberInv, Locked
<1>6. new_id' \in [Requests -> Nat]
  BY <1>1, <1>2 DEF TableTypes
<1> QED
  BY <1>1, <1>4, <1>5, <1>6, MoveStep

LEMMA CommitStep ==
  ASSUME EndpointsInv, NEW r \in Requests, Commit(r) \/ CommitUnconfirmed(r),
         UNCHANGED pageVars
  PROVE  EndpointsInv' /\ Registry!Next
<1>1. /\ at[r] = "commit" /\ at' = [at EXCEPT ![r] = "answered"] /\ Publish(r)
      /\ UNCHANGED <<op, name, new_id>>
      /\ \/ answer' = [answer EXCEPT ![r] = Created(new_id[r], r)]
         \/ answer' = [answer EXCEPT ![r] = Failed(500)]
  BY DEF Commit, CommitUnconfirmed, Answer, Goto
<1>2. TableTypes /\ answer \in [Requests -> Answers] /\ Size \in Nat
  BY Sizes DEF EndpointsInv, TableInv, AnswersInv
<1>3. /\ TableInv' /\ Size' = Size + 1 /\ endpoints \subseteq endpoints'
      /\ Row(new_id[r], r)' \in endpoints' /\ Registry!Next
  BY <1>1, PublishStep DEF EndpointsInv
<1>4. /\ Row(new_id[r], r)' = Row(new_id[r], r)
      /\ Created(new_id[r], r)' = Created(new_id[r], r)
  BY <1>1 DEF Row, Created, auth_key
<1>5. op[r] = "create" /\ Row(new_id[r], r) \in Rows
  BY <1>1, <1>3, <1>4 DEF EndpointsInv, TableInv, NumberInv, TableTypes
<1>6. /\ answer' \in [Requests -> Answers]
      /\ answer'[r] = Created(new_id[r], r) \/ answer'[r] = Failed(500)
      /\ \A s \in Requests \ {r} : answer'[s] = answer[s]
  BY <1>1, <1>2, <1>5, AnswerForms
<1>7. AnswerInv(r)'
  BY <1>1, <1>2, <1>3, <1>4, <1>5, <1>6 DEF AnswerInv, TableTypes
<1>8. /\ \A s \in Requests \ {r} : Still(s)
      /\ Size' \in Nat /\ Size <= Size' /\ at'[r] # "idle"
  BY <1>1, <1>2, <1>3, <1>6 DEF Still, TableTypes
<1>9. AnswersInv'
  BY <1>3, <1>6, <1>7, <1>8, AnswersStep
<1>10. PagesInv' /\ ConfigsRegistered'
  <2>1. \A n : answer'[r] # Counted(n)
    BY <1>6, CountsDiffer
  <2> QED
    BY <1>3, <1>8, <2>1, PagesStep
<1> QED
  BY <1>3, <1>9, <1>10 DEF EndpointsInv

LEMMA BackendStep ==
  ASSUME EndpointsInv, NEW r \in Requests, Serve(r) \/ Fail(r), UNCHANGED pageVars
  PROVE  EndpointsInv' /\ (Registry!Next \/ endpoints' = endpoints)
<1>1. CASE RefuseNoName(r) \/ InsertRefused(r) \/ CountEndpoints(r) \/ StatementFails(r)
  <2>1. PICK from \in Statements \ {"answered"} :
           \/ \E status \in {400, 500} : Answer(r, from, Failed(status))
           \/ op[r] = "count" /\ Answer(r, from, Counted(Size))
    BY <1>1 DEF RefuseNoName, InsertRefused, CountEndpoints, StatementFails, Statements, Size
  <2>2. UNCHANGED <<endpoints, op, name, new_id>>
    BY <1>1 DEF RefuseNoName, InsertRefused, CountEndpoints, StatementFails
  <2> QED
    BY <2>1, <2>2, ReplyStep
<1>2. CASE SelectNewId(r)
  BY <1>2, SelectStep DEF SelectNewId
<1>3. CASE InsertEndpoint(r)
  BY <1>3, InsertStep DEF InsertEndpoint
<1>4. CASE Commit(r) \/ CommitUnconfirmed(r)
  BY <1>4, CommitStep
<1> QED
  BY <1>1, <1>2, <1>3, <1>4 DEF Serve, Fail
-----------------------------------------------------------------------------
(* The steps of the pages. *)

LEMMA InitEndpoints == Init => EndpointsInv /\ Registry!Init
<1> SUFFICES ASSUME Init PROVE EndpointsInv /\ Registry!Init
  OBVIOUS
<1>1. Size = 0 /\ IsFiniteSet(endpoints) /\ EndpointIds = {}
  BY FS_EmptySet DEF Init, Size, EndpointIds
<1>2. TableTypes
  BY DEF Init, TableTypes, Statements, Rows
<1>3. TableInv
  BY <1>1, <1>2 DEF Init, TableInv, Numbered, NumberInv, SoleInsert
<1>4. AnswersInv
  BY AnswerForms DEF Init, AnswersInv, AnswerInv, NoAnswer
<1>5. PagesInv
  <2>1. PageTypes
    BY DEF Init, PageTypes
  <2> QED
    BY <1>1, <2>1 DEF Init, PagesInv, Fresh
<1>6. ConfigsRegistered /\ Registry!Init
  BY DEF Init, ConfigsRegistered, Registry!Init
<1> QED
  BY <1>3, <1>4, <1>5, <1>6 DEF EndpointsInv

(* A page or another client makes a request. *)
LEMMA AskStep ==
  ASSUME EndpointsInv, NEW r \in Requests, NEW o \in {"create", "count"},
         NEW n \in Names \cup {None}, Ask(r, o, n)
  PROVE  /\ TableInv' /\ AnswersInv' /\ ConfigsRegistered'
         /\ Size \in Nat /\ Size' = Size /\ answer' = answer /\ endpoints' = endpoints
         /\ \A s \in Requests : at[s] # "idle" => at'[s] # "idle"
         /\ at'[r] # "idle" /\ answer'[r] = NoAnswer
<1>1. /\ at[r] = "idle" /\ at' = [at EXCEPT ![r] = "received"]
      /\ op' = [op EXCEPT ![r] = o] /\ name' = [name EXCEPT ![r] = n]
      /\ UNCHANGED <<endpoints, new_id, answer, downloads>>
  BY DEF Ask, Goto
<1>2. TableTypes /\ answer \in [Requests -> Answers] /\ Size \in Nat /\ AnswerInv(r)
  BY Sizes DEF EndpointsInv, TableInv, AnswersInv
<1>3. at'[r] = "received" /\ \A s \in Requests \ {r} : at'[s] = at[s]
  BY <1>1, <1>2 DEF TableTypes
<1>4. TableInv' /\ Size' = Size
  <2>1. NumberInv(r)'
    BY <1>3 DEF NumberInv
  <2>2. /\ op' \in [Requests -> {"create", "count"}]
        /\ name' \in [Requests -> Names \cup {None}]
        /\ new_id' \in [Requests -> Nat]
        /\ \A s \in Requests \ {r} : /\ op'[s] = op[s] /\ name'[s] = name[s]
                                     /\ new_id'[s] = new_id[s]
    BY <1>1, <1>2 DEF TableTypes
  <2>3. "received" \in Statements /\ at[r] # "answered" /\ "received" # "commit"
    BY <1>1 DEF Statements
  <2> QED
    BY <1>1, <2>1, <2>2, <2>3, StayStep DEF EndpointsInv
<1>5. answer'[r] = NoAnswer /\ AnswerInv(r)'
  BY <1>1, <1>2, <1>3 DEF AnswerInv
<1>6. /\ \A s \in Requests \ {r} : Still(s)
      /\ endpoints \subseteq endpoints' /\ Size' \in Nat /\ Size <= Size'
  BY <1>1, <1>2, <1>3, <1>4 DEF Still, TableTypes
<1>7. AnswersInv'
  BY <1>1, <1>2, <1>5, <1>6, AnswersStep
<1>8. ConfigsRegistered'
  BY <1>1 DEF EndpointsInv, ConfigsRegistered
<1> QED
  BY <1>1, <1>2, <1>3, <1>4, <1>5, <1>7, <1>8

LEMMA FreshKept ==
  ASSUME PagesInv, NEW p \in Pages, Size' = Size, answer' = answer,
         \A s \in Requests : at[s] # "idle" => at'[s] # "idle",
         opened'[p] = opened[p], total'[p] = total[p] \/ total'[p] = None,
         form'[p] = form[p] \/ form'[p] = None
  PROVE  Fresh(p)'
<1>1. Fresh(p) /\ form[p] \in Requests \cup {None}
  BY DEF PagesInv, PageTypes
<1> QED
  BY <1>1 DEF Fresh

(* A page makes a request, and awaits its answer. *)
LEMMA AwaitStep ==
  ASSUME EndpointsInv, NEW p \in Pages, NEW r \in Requests,
         handleSubmit(p, r) \/ OpenOverview(p, r)
  PROVE  EndpointsInv' /\ endpoints' = endpoints
<1>1. PICK o \in {"create", "count"}, n \in Names \cup {None} : Ask(r, o, n)
  BY DEF handleSubmit, OpenOverview
<1>2. /\ TableInv' /\ AnswersInv' /\ ConfigsRegistered'
      /\ Size \in Nat /\ Size' = Size /\ answer' = answer /\ endpoints' = endpoints
      /\ \A s \in Requests : at[s] # "idle" => at'[s] # "idle"
      /\ at'[r] # "idle" /\ answer'[r] = NoAnswer
  BY <1>1, AskStep
<1>3. PageTypes /\ PagesInv
  BY DEF EndpointsInv, PagesInv
<1>4. /\ waiting' = [waiting EXCEPT ![p] = @ \cup {r}]
      /\ form' = [form EXCEPT ![p] = r]
      /\ \/ UNCHANGED <<total, opened>>
         \/ /\ total' = [total EXCEPT ![p] = None]
            /\ opened' = [opened EXCEPT ![p] = Size]
  BY DEF handleSubmit, OpenOverview, Size
<1>5. PageTypes'
  BY <1>2, <1>3, <1>4 DEF PageTypes
<1>6. ASSUME NEW q \in Pages, q # p PROVE Fresh(q)'
  <2>1. opened'[q] = opened[q] /\ total'[q] = total[q] /\ form'[q] = form[q]
    BY <1>3, <1>4, <1>6 DEF PageTypes
  <2> QED
    BY <1>2, <1>3, <2>1, FreshKept
<1>7. Fresh(p)'
  <2>1. form'[p] = r /\ \A m \in Nat : answer'[form'[p]] # Counted(m)
    BY <1>2, <1>3, <1>4, CountsDiffer DEF PageTypes, NoAnswer
  <2>2. /\ opened'[p] <= Size'
        /\ total'[p] # None => opened'[p] <= total'[p] /\ total'[p] <= Size'
    BY <1>2, <1>3, <1>4 DEF PageTypes, PagesInv, Fresh
  <2> QED
    BY <1>2, <2>1, <2>2 DEF Fresh
<1> QED
  BY <1>2, <1>5, <1>6, <1>7 DEF EndpointsInv, PagesInv

LEMMA ApiStep ==
  ASSUME EndpointsInv, NEW r \in Requests, ApiCall(r)
  PROVE  EndpointsInv' /\ endpoints' = endpoints
<1>1. Ask(r, "create", None) /\ UNCHANGED <<waiting, form, total, opened>>
  BY DEF ApiCall
<1>2. /\ TableInv' /\ AnswersInv' /\ ConfigsRegistered'
      /\ Size' = Size /\ answer' = answer /\ endpoints' = endpoints
      /\ \A s \in Requests : at[s] # "idle" => at'[s] # "idle"
  BY <1>1, AskStep
<1>3. PagesInv /\ PageTypes'
  BY <1>1 DEF EndpointsInv, PagesInv, PageTypes
<1>4. \A p \in Pages : Fresh(p)'
  BY <1>1, <1>2, <1>3, FreshKept
<1> QED
  BY <1>2, <1>3, <1>4 DEF EndpointsInv, PagesInv

(* What a page does by itself leaves the table and the answers alone. *)
LEMMA LocalStep ==
  ASSUME EndpointsInv, UNCHANGED tableVars, answer' = answer, PageTypes',
         \A p \in Pages : Fresh(p)', downloads' \subseteq endpoints
  PROVE  EndpointsInv' /\ endpoints' = endpoints
<1>1. /\ endpoints' = endpoints /\ at' = at /\ op' = op /\ name' = name
      /\ new_id' = new_id /\ Size' = Size /\ EndpointIds' = EndpointIds
  BY DEF tableVars, Size, EndpointIds
<1>2. TableTypes' /\ Numbered' /\ SoleInsert'
  BY <1>1 DEF EndpointsInv, TableInv, TableTypes, Numbered, SoleInsert
<1>3. \A r \in Requests : NumberInv(r)'
  BY <1>1 DEF EndpointsInv, TableInv, NumberInv
<1>4. ASSUME NEW r \in Requests PROVE AnswerInv(r)'
  <2>1. Row(new_id[r], r)' = Row(new_id[r], r) /\ Created(new_id[r], r)' = Created(new_id[r], r)
    BY <1>1 DEF Row, Created, auth_key
  <2>2. AnswerInv(r)
    BY DEF EndpointsInv, AnswersInv
  <2> QED
    BY <1>1, <2>1, <2>2 DEF AnswerInv
<1>5. AnswersInv'
  BY <1>4 DEF EndpointsInv, AnswersInv
<1>6. ConfigsRegistered'
  BY <1>1 DEF ConfigsRegistered
<1> QED
  BY <1>1, <1>2, <1>3, <1>5, <1>6 DEF EndpointsInv, TableInv, PagesInv

LEMMA BrowseStep ==
  ASSUME EndpointsInv, NEW p \in Pages, NEW r \in Requests,
         NetworkFails(p, r) \/ OpenForm(p) \/ Reload(p) \/ Download(p, r) \/ ShowError(p, r)
  PROVE  EndpointsInv' /\ endpoints' = endpoints
<1>1. PageTypes /\ PagesInv /\ downloads \subseteq endpoints
  BY DEF EndpointsInv, PagesInv, ConfigsRegistered
<1>2. /\ UNCHANGED tableVars /\ answer' = answer /\ opened' = opened
      /\ total' = total \/ total' = [total EXCEPT ![p] = None]
      /\ form' = [form EXCEPT ![p] = None] \/ form' = form
      /\ waiting' = waiting \/ \E rest \in SUBSET Requests : waiting' = [waiting EXCEPT ![p] = rest]
  BY <1>1 DEF NetworkFails, OpenForm, Reload, Download, ShowError, Arrives, PageTypes
<1>3. PageTypes'
  BY <1>1, <1>2 DEF PageTypes
<1>4. Size' = Size /\ at' = at
  BY <1>2 DEF Size, tableVars
<1>5. ASSUME NEW q \in Pages PROVE Fresh(q)'
  <2>1. /\ opened'[q] = opened[q]
        /\ total'[q] = total[q] \/ total'[q] = None
        /\ form'[q] = form[q] \/ form'[q] = None
    BY <1>1, <1>2 DEF PageTypes
  <2> QED
    BY <1>1, <1>2, <1>4, <2>1, FreshKept
<1>6. downloads' \subseteq endpoints
  <2>1. CASE Download(p, r)
    <3>1. answer[r].config \in endpoints
      BY <2>1, AnswerRead DEF Download, Arrives
    <3> QED
      BY <1>1, <2>1, <3>1 DEF Download
  <2>2. CASE NetworkFails(p, r) \/ OpenForm(p) \/ Reload(p) \/ ShowError(p, r)
    BY <1>1, <2>2 DEF NetworkFails, OpenForm, Reload, ShowError
  <2> QED
    BY <2>1, <2>2
<1> QED
  BY <1>2, <1>3, <1>5, <1>6, LocalStep

LEMMA ShowTotalStep ==
  ASSUME EndpointsInv, NEW p \in Pages, NEW r \in Requests, ShowTotal(p, r)
  PROVE  EndpointsInv' /\ endpoints' = endpoints
<1>1. PageTypes /\ PagesInv /\ downloads \subseteq endpoints
  BY DEF EndpointsInv, PagesInv, ConfigsRegistered
<1>2. /\ UNCHANGED tableVars /\ answer' = answer /\ opened' = opened /\ downloads' = downloads
      /\ form' = [form EXCEPT ![p] = IF @ = r THEN None ELSE @]
      /\ waiting' = [waiting EXCEPT ![p] = @ \ {r}]
      /\ total' = IF form[p] = r THEN [total EXCEPT ![p] = answer[r].count] ELSE total
  BY DEF ShowTotal, Arrives
<1>3. PICK n \in Nat : n <= Size /\ answer[r] = Counted(n) /\ answer[r].count = n
  BY AnswerRead DEF ShowTotal, Arrives
<1>4. PageTypes'
  BY <1>1, <1>2, <1>3 DEF PageTypes
<1>5. Size' = Size /\ at' = at
  BY <1>2 DEF Size, tableVars
<1>6. ASSUME NEW q \in Pages PROVE Fresh(q)'
  <2>1. CASE q = p /\ form[p] = r
    <3>1. opened[p] <= n /\ opened[p] <= Size
      <4>1. Fresh(p) /\ form[p] # None
        BY <1>1, <2>1, EndpointsAssumption DEF PagesInv
      <4> QED
        BY <1>3, <2>1, <4>1 DEF Fresh
    <3>2. form'[q] = None /\ total'[q] = n /\ opened'[q] = opened[p]
      BY <1>1, <1>2, <1>3, <2>1 DEF PageTypes
    <3> QED
      BY <1>3, <1>5, <3>1, <3>2 DEF Fresh
  <2>2. CASE ~(q = p /\ form[p] = r)
    <3>1. /\ opened'[q] = opened[q] /\ total'[q] = total[q]
          /\ form'[q] = form[q]
      BY <1>1, <1>2, <2>2 DEF PageTypes
    <3> QED
      BY <1>1, <1>2, <1>5, <3>1, FreshKept
  <2> QED
    BY <2>1, <2>2
<1> QED
  BY <1>1, <1>2, <1>4, <1>6, LocalStep
-----------------------------------------------------------------------------
LEMMA NextEndpoints ==
  EndpointsInv /\ [Next]_vars => EndpointsInv' /\ (Registry!Next \/ endpoints' = endpoints)
<1> SUFFICES ASSUME EndpointsInv, [Next]_vars
             PROVE  EndpointsInv' /\ (Registry!Next \/ endpoints' = endpoints)
  OBVIOUS
<1>1. CASE UNCHANGED vars
  <2>1. PageTypes' /\ downloads' \subseteq endpoints
    BY <1>1 DEF vars, EndpointsInv, PagesInv, PageTypes, ConfigsRegistered
  <2>2. \A p \in Pages : Fresh(p)'
    BY <1>1, FreshKept DEF vars, EndpointsInv, Size
  <2> QED
    BY <1>1, <2>1, <2>2, LocalStep DEF vars, tableVars
<1>2. ASSUME NEW p \in Pages, NEW r \in Requests,
             handleSubmit(p, r) \/ OpenOverview(p, r)
      PROVE  EndpointsInv' /\ endpoints' = endpoints
  BY <1>2, AwaitStep
<1>3. ASSUME NEW p \in Pages, NEW r \in Requests, Handle(p, r) \/ NetworkFails(p, r)
      PROVE  EndpointsInv' /\ endpoints' = endpoints
  BY <1>3, BrowseStep, ShowTotalStep DEF Handle
<1>4. ASSUME NEW p \in Pages, OpenForm(p) \/ Reload(p)
      PROVE  EndpointsInv' /\ endpoints' = endpoints
  <2>1. CASE Requests # {}
    BY <1>4, <2>1, BrowseStep
  <2>2. CASE Requests = {}
    <3>1. PageTypes /\ PagesInv
      BY DEF EndpointsInv, PagesInv
    <3>2. PageTypes'
      BY <1>4, <3>1 DEF OpenForm, Reload, PageTypes
    <3>3. \A q \in Pages : Fresh(q)'
      BY <1>4, <2>2, <3>1 DEF OpenForm, Reload, PageTypes, PagesInv, Fresh, tableVars, Size
    <3> QED
      BY <1>4, <3>2, <3>3, LocalStep DEF OpenForm, Reload, EndpointsInv, ConfigsRegistered
  <2> QED
    BY <2>1, <2>2
<1>5. ASSUME NEW r \in Requests, ApiCall(r)
      PROVE  EndpointsInv' /\ endpoints' = endpoints
  BY <1>5, ApiStep
<1>6. ASSUME NEW r \in Requests, (Serve(r) \/ Fail(r)) /\ UNCHANGED pageVars
      PROVE  EndpointsInv' /\ (Registry!Next \/ endpoints' = endpoints)
  BY <1>6, BackendStep
<1> QED
  BY <1>1, <1>2, <1>3, <1>4, <1>5, <1>6 DEF Next

LEMMA Invariance == Spec => []EndpointsInv
<1>1. Init => EndpointsInv
  BY InitEndpoints
<1>2. EndpointsInv /\ [Next]_vars => EndpointsInv'
  BY NextEndpoints
<1> QED
  BY <1>1, <1>2, PTL DEF Spec

(* Rows, requests and pages keep their types; a row has a number from 1 on, the
   key of a creation and a name. *)
THEOREM EndpointsTypeCorrect == Spec => []TypeOK
<1>1. EndpointsInv => TypeOK
  <2> SUFFICES ASSUME EndpointsInv PROVE TypeOK
    OBVIOUS
  <2>1. TableTypes /\ PageTypes /\ answer \in [Requests -> Answers]
    BY DEF EndpointsInv, TableInv, PagesInv, AnswersInv
  <2>2. downloads \in SUBSET Rows
    BY <2>1 DEF EndpointsInv, ConfigsRegistered, TableTypes
  <2> QED
    BY <2>1, <2>2, Zenon DEF TypeOK, TableTypes, PageTypes, Statements
<1> QED
  BY <1>1, Invariance, PTL

(* Every configuration file that was handed out names the number and the key of
   a row that is in the table to stay, whatever statements fail and whatever
   answers are lost. *)
THEOREM ConfigsAreRegistered == Spec => []ConfigsRegistered
<1>1. EndpointsInv => ConfigsRegistered
  BY DEF EndpointsInv
<1> QED
  BY <1>1, Invariance, PTL

(* The overview never shows a number of endpoints from before it was opened, or
   one that the table has not reached. *)
THEOREM TotalIsRight == Spec => []TotalRight
<1>1. EndpointsInv => TotalRight
  <2> SUFFICES ASSUME EndpointsInv, NEW p \in Pages, total[p] # None
               PROVE  total[p] \in opened[p]..Cardinality(endpoints)
    BY DEF TotalRight
  <2>1. Size \in Nat /\ Fresh(p) /\ total[p] \in Nat /\ opened[p] \in Nat
    BY Sizes DEF EndpointsInv, PagesInv, PageTypes
  <2> QED
    BY <2>1 DEF Fresh, Size
<1> QED
  BY <1>1, Invariance, PTL

(* However the statements of creations interleave, and whichever of them fail,
   the endpoints table goes through the states of a registry that numbers its
   endpoints without a gap, each under a key of its own. *)
THEOREM EndpointsImplementRegistry == Spec => ImplementsRegistry
<1>1. Init => Registry!Init
  BY InitEndpoints
<1>2. EndpointsInv /\ [Next]_vars => [Registry!Next]_Entries
  <2> SUFFICES ASSUME EndpointsInv, [Next]_vars PROVE Registry!Next \/ Entries' = Entries
    OBVIOUS
  <2>1. endpoints' = endpoints => Entries' = Entries
    BY DEF Entries
  <2> QED
    BY <2>1, NextEndpoints
<1>3. EndpointsInv /\ [Next]_vars
      => [Registry!Next]_{[id |-> e.id, key |-> e.key] : e \in endpoints}
  BY <1>2 DEF Entries
<1> QED
  BY <1>1, <1>3, Invariance, PTL DEF Spec, ImplementsRegistry, Registry!Spec
-----------------------------------------------------------------------------
(* What the numbers and keys are for. *)

LEMMA TableStep ==
  [Next]_vars => \/ endpoints' = endpoints
                 \/ \E r \in Requests : at[r] = "commit" /\ Publish(r)
<1> SUFFICES ASSUME [Next]_vars, endpoints' # endpoints
             PROVE  \E r \in Requests : at[r] = "commit" /\ Publish(r)
  OBVIOUS
<1>1. Next
  BY DEF vars
<1>2. \A p \in Pages, r \in Requests :
         ~(handleSubmit(p, r) \/ OpenOverview(p, r) \/ Handle(p, r) \/ NetworkFails(p, r))
  BY DEF handleSubmit, OpenOverview, Handle, NetworkFails, Ask, Download, ShowError,
         ShowTotal, Arrives, tableVars
<1>3. \A p \in Pages : ~(OpenForm(p) \/ Reload(p))
  BY DEF OpenForm, Reload, tableVars
<1>4. \A r \in Requests : ~ApiCall(r)
  BY DEF ApiCall, Ask
<1>5. PICK r \in Requests : Serve(r) \/ Fail(r)
  BY <1>1, <1>2, <1>3, <1>4 DEF Next
<1>6. Commit(r) \/ CommitUnconfirmed(r)
  BY <1>5 DEF Serve, Fail, RefuseNoName, SelectNewId, InsertEndpoint, InsertRefused,
              CountEndpoints, StatementFails
<1> QED
  BY <1>6 DEF Commit, CommitUnconfirmed, Answer, Goto

(* No two rows of a set share a number or a key. *)
Identified(rows) == \A e, f \in rows : e.id = f.id \/ e.key = f.key => e = f

LEMMA IdentifiedStep ==
  EndpointsInv /\ Identified(endpoints) /\ [Next]_vars => Identified(endpoints)'
<1> SUFFICES ASSUME EndpointsInv, Identified(endpoints), [Next]_vars
             PROVE  Identified(endpoints)'
  OBVIOUS
<1>1. CASE endpoints' = endpoints
  BY <1>1 DEF Identified
<1>2. ASSUME NEW r \in Requests, at[r] = "commit", Publish(r)
      PROVE  Identified(endpoints)'
  <2>1. PICK row : row = Row(new_id[r], r)
    OBVIOUS
  <2>2. row.id = new_id[r] /\ row.key = r /\ endpoints' = endpoints \cup {row}
    BY <1>2, <2>1 DEF Row, auth_key, Publish
  <2>3. new_id[r] = Size + 1 /\ Size \in Nat /\ EndpointIds = 1..Size
    BY <1>2, Sizes DEF EndpointsInv, TableInv, NumberInv, Numbered
  <2>4. \A e \in endpoints : at[e.key] = "answered"
    BY DEF EndpointsInv, TableInv, Numbered
  <2>5. ASSUME NEW e \in endpoints PROVE e.id # row.id /\ e.key # row.key
    <3>1. e.id \in 1..Size
      BY <2>3 DEF EndpointIds
    <3>2. e.id # row.id
      BY <2>2, <2>3, <3>1
    <3>3. e.key # row.key
      BY <1>2, <2>2, <2>4
    <3> QED
      BY <3>2, <3>3
  <2> QED
    BY <2>2, <2>5 DEF Identified
<1> QED
  BY <1>1, <1>2, TableStep

(* An endpoint is known by its number and by its key alone, and so is what a
   configuration file says: no two files that were ever handed out share
   either without being the same. *)
THEOREM EndpointsIdentified ==
  Spec => [](Identified(endpoints) /\ Identified(downloads))
<1>1. Init => Identified(endpoints)
  BY DEF Init, Identified
<1>2. EndpointsInv /\ Identified(endpoints) /\ [Next]_vars => Identified(endpoints)'
  BY IdentifiedStep
<1>3. EndpointsInv /\ Identified(endpoints) => Identified(downloads)
  BY DEF EndpointsInv, ConfigsRegistered, Identified
<1> QED
  BY <1>1, <1>2, <1>3, Invariance, PTL DEF Spec

(* No request removes or changes an endpoint that was registered: its number,
   key and name stay as its user was told. *)
THEOREM EndpointsStay == Spec => [][endpoints \subseteq endpoints']_endpoints
<1>1. [Next]_vars => [endpoints \subseteq endpoints']_endpoints
  BY TableStep DEF Publish
<1> QED
  BY <1>1, PTL DEF Spec
=============================================================================
