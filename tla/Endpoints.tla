----------------------------- MODULE Endpoints -----------------------------
(***************************************************************************)
(* Adding endpoints and counting them: create_endpoint and                 *)
(* get_endpoints_count of api.py, the routes before them, and the pages    *)
(* dashboard/endpoints and dashboard (the overview) in several browsers.   *)
(*                                                                         *)
(* As in Accounts a request is one transaction and its SELECT reads the    *)
(* committed table.  An INSERT whose number is that of another's           *)
(* uncommitted row waits for it, and fails when that row is committed: the *)
(* number is the primary key.  at says which statement a request comes to: *)
(*   "idle" "received" "insert" "commit" "answered"                        *)
(***************************************************************************)
EXTENDS Naturals, FiniteSets

CONSTANTS Requests,   \* every request is made once: a bound for TLC
          Pages,
          Names,      \* endpoint names, None for a missing or empty one
          TooLong,    \* the names that do not fit VARCHAR(64)
          None,
          DbFaults,   \* whether statements may fail for other reasons
          NetFaults   \* whether a page's request or its answer may be lost

ASSUME EndpointsAssumption == /\ TooLong \subseteq Names
                              /\ None \notin Names \cup Requests
                              /\ DbFaults \in BOOLEAN /\ NetFaults \in BOOLEAN

VARIABLES endpoints,  \* the committed rows
          at, op, name,
          new_id,     \* the number a creation has worked out
          answer,     \* what each request was answered
          waiting,    \* the requests of each browser, until it has the answer
          form,       \* the request the mounted page awaits: isLoading
          total,      \* the number the overview shows, None before it has one
          downloads,  \* the configuration files users have
          opened      \* history: the endpoints there were when it was opened

tableVars == <<endpoints, at, op, name, new_id>>
pageVars == <<waiting, form, total, downloads, opened>>
vars == <<endpoints, at, op, name, new_id, answer,
          waiting, form, total, downloads, opened>>

(* secrets.token_urlsafe(32): a key of its own for each creation. *)
auth_key(r) == r

Row(id, r) == [id |-> id, key |-> auth_key(r), name |-> name[r]]
EndpointIds == {e.id : e \in endpoints}
MaxId == IF endpoints = {} THEN 0
         ELSE CHOOSE i \in EndpointIds : \A j \in EndpointIds : j <= i

(* The answers, with their status. *)
Created(id, r) == [status |-> 201, config |-> Row(id, r)]
Counted(n) == [status |-> 200, count |-> n]
Failed(status) == [status |-> status]
NoAnswer == Failed(0)

Init == /\ endpoints = {}
        /\ at = [r \in Requests |-> "idle"]
        /\ op = [r \in Requests |-> "count"]
        /\ name = [r \in Requests |-> None]
        /\ new_id = [r \in Requests |-> 0]
        /\ answer = [r \in Requests |-> NoAnswer]
        /\ waiting = [p \in Pages |-> {}]
        /\ form = [p \in Pages |-> None]
        /\ total = [p \in Pages |-> None]
        /\ downloads = {}
        /\ opened = [p \in Pages |-> 0]
-----------------------------------------------------------------------------
(* The backend. *)

Goto(r, from, to) == at[r] = from /\ at' = [at EXCEPT ![r] = to]

Answer(r, from, what) == /\ Goto(r, from, "answered")
                         /\ answer' = [answer EXCEPT ![r] = what]

RefuseNoName(r) ==
    /\ op[r] = "create"
    /\ name[r] = None
    /\ Answer(r, "received", Failed(400))
    /\ UNCHANGED <<endpoints, op, name, new_id>>

(* Mutant: the number is the number of endpoints. *)
SelectNewId_Count(r) ==
    /\ op[r] = "create"
    /\ name[r] # None
    /\ Goto(r, "received", "insert")
    /\ new_id' = [new_id EXCEPT ![r] = Cardinality(endpoints)]
    /\ UNCHANGED <<endpoints, op, name, answer>>

SelectNewId(r) ==
    /\ op[r] = "create"
    /\ name[r] # None
    /\ Goto(r, "received", "insert")
    /\ new_id' = [new_id EXCEPT ![r] = MaxId + 1]
    /\ UNCHANGED <<endpoints, op, name, answer>>

(* Another request has inserted the number and not committed it yet. *)
Locked(r) == \E s \in Requests \ {r} : at[s] = "commit" /\ new_id[s] = new_id[r]

InsertEndpoint(r) ==
    /\ ~Locked(r)
    /\ new_id[r] \notin EndpointIds
    /\ name[r] \notin TooLong
    /\ Goto(r, "insert", "commit")
    /\ UNCHANGED <<endpoints, op, name, new_id, answer>>

InsertRefused(r) ==
    /\ ~Locked(r)
    /\ new_id[r] \in EndpointIds \/ name[r] \in TooLong
    /\ Answer(r, "insert", Failed(500))
    /\ UNCHANGED <<endpoints, op, name, new_id>>

Publish(r) == endpoints' = endpoints \cup {Row(new_id[r], r)}

(* Mutant: connection.commit() is forgotten, as it is in submit_logs. *)
Commit_Forgotten(r) ==
    /\ Answer(r, "commit", Created(new_id[r], r))
    /\ UNCHANGED <<endpoints, op, name, new_id>>

Commit(r) ==
    /\ Answer(r, "commit", Created(new_id[r], r))
    /\ Publish(r)
    /\ UNCHANGED <<op, name, new_id>>

CountEndpoints(r) ==
    /\ op[r] = "count"
    /\ Answer(r, "received", Counted(Cardinality(endpoints)))
    /\ UNCHANGED <<endpoints, op, name, new_id>>

StatementFails(r) ==
    /\ DbFaults
    /\ at[r] \in {"received", "insert", "commit"}
    /\ Answer(r, at[r], Failed(500))
    /\ UNCHANGED <<endpoints, op, name, new_id>>

(* The commit is done, and its confirmation is lost. *)
CommitUnconfirmed(r) ==
    /\ DbFaults
    /\ Answer(r, "commit", Failed(500))
    /\ Publish(r)
    /\ UNCHANGED <<op, name, new_id>>
-----------------------------------------------------------------------------
(* The pages.  A browser shows one page.  The handlers of a page that was left
   for another run on, and still save the file when the answer comes, but what
   they set on the page itself is gone; a reload forgets them. *)

Ask(r, o, n) == /\ Goto(r, "idle", "received")
                /\ op' = [op EXCEPT ![r] = o]
                /\ name' = [name EXCEPT ![r] = n]
                /\ UNCHANGED <<endpoints, new_id, answer, downloads>>

(* The button is disabled while the name is blank or a request is pending. *)
handleSubmit(p, r) ==
    /\ form[p] = None
    /\ \E n \in Names : Ask(r, "create", n)
    /\ waiting' = [waiting EXCEPT ![p] = @ \cup {r}]
    /\ form' = [form EXCEPT ![p] = r]
    /\ UNCHANGED <<total, opened>>

OpenOverview(p, r) ==
    /\ Ask(r, "count", None)
    /\ waiting' = [waiting EXCEPT ![p] = @ \cup {r}]
    /\ form' = [form EXCEPT ![p] = r]
    /\ total' = [total EXCEPT ![p] = None]
    /\ opened' = [opened EXCEPT ![p] = Cardinality(endpoints)]

(* Some other client of the API, which no page keeps from leaving the name
   out; nobody looks at the answer. *)
ApiCall(r) == /\ Ask(r, "create", None)
              /\ UNCHANGED <<waiting, form, total, opened>>

(* The handler of r has its answer, and is done. *)
Arrives(p, r) == /\ r \in waiting[p]
                 /\ at[r] = "answered"
                 /\ waiting' = [waiting EXCEPT ![p] = @ \ {r}]
                 /\ form' = [form EXCEPT ![p] = IF @ = r THEN None ELSE @]
                 /\ UNCHANGED <<tableVars, answer, opened>>

ResponseOk(r) == answer[r].status \in 200..299

(* Save the file. *)
Download(p, r) == /\ Arrives(p, r)
                  /\ op[r] = "create" /\ ResponseOk(r)
                  /\ downloads' = downloads \cup {answer[r].config}
                  /\ total' = total

(* Mutant: the error path leaves isLoading as it is. *)
ShowError_Loading(p, r) == /\ r \in waiting[p]
                           /\ at[r] = "answered"
                           /\ waiting' = [waiting EXCEPT ![p] = @ \ {r}]
                           /\ ~ResponseOk(r)
                           /\ UNCHANGED <<tableVars, answer, form, downloads, total, opened>>

ShowError(p, r) == /\ Arrives(p, r)
                   /\ ~ResponseOk(r)
                   /\ UNCHANGED <<downloads, total>>

(* Mutant: an answer is shown whatever page has asked for it. *)
ShowTotal_Late(p, r) ==
    /\ Arrives(p, r)
    /\ op[r] = "count" /\ ResponseOk(r)
    /\ total' = [total EXCEPT ![p] = answer[r].count]
    /\ downloads' = downloads

ShowTotal(p, r) ==
    /\ Arrives(p, r)
    /\ op[r] = "count" /\ ResponseOk(r)
    /\ total' = IF form[p] = r THEN [total EXCEPT ![p] = answer[r].count] ELSE total
    /\ downloads' = downloads

NetworkFails(p, r) ==
    /\ NetFaults
    /\ r \in waiting[p]
    /\ waiting' = [waiting EXCEPT ![p] = @ \ {r}]
    /\ form' = [form EXCEPT ![p] = IF @ = r THEN None ELSE @]
    /\ UNCHANGED <<tableVars, answer, downloads, total, opened>>

OpenForm(p) == /\ form' = [form EXCEPT ![p] = None]
               /\ total' = [total EXCEPT ![p] = None]
               /\ UNCHANGED <<tableVars, answer, downloads, waiting, opened>>

Reload(p) == /\ waiting' = [waiting EXCEPT ![p] = {}]
             /\ form' = [form EXCEPT ![p] = None]
             /\ total' = [total EXCEPT ![p] = None]
             /\ UNCHANGED <<tableVars, answer, downloads, opened>>
-----------------------------------------------------------------------------
Serve(r) == \/ RefuseNoName(r) \/ SelectNewId(r) \/ InsertEndpoint(r)
            \/ InsertRefused(r) \/ Commit(r) \/ CountEndpoints(r)

Fail(r) == StatementFails(r) \/ CommitUnconfirmed(r)

Handle(p, r) == Download(p, r) \/ ShowError(p, r) \/ ShowTotal(p, r)

Next == \/ \E p \in Pages, r \in Requests :
              \/ handleSubmit(p, r) \/ OpenOverview(p, r)
              \/ Handle(p, r) \/ NetworkFails(p, r)
        \/ \E p \in Pages : OpenForm(p) \/ Reload(p)
        \/ \E r \in Requests : \/ ApiCall(r)
                               \/ (Serve(r) \/ Fail(r)) /\ UNCHANGED pageVars

Spec == Init /\ [][Next]_vars

(* Threads and database serve the requests, and answers that arrive are
   handled. *)
FairSpec == /\ Spec
            /\ \A r \in Requests : WF_vars(Serve(r) /\ UNCHANGED pageVars)
            /\ \A p \in Pages, r \in Requests : WF_vars(Handle(p, r))
-----------------------------------------------------------------------------
Rows == [id : Nat \ {0}, key : Requests, name : Names]

Answers == [status : {201}, config : Rows] \cup [status : {200}, count : Nat]
           \cup [status : {0, 400, 500}]

TypeOK == /\ endpoints \in SUBSET Rows
          /\ at \in [Requests -> {"idle", "received", "insert", "commit", "answered"}]
          /\ op \in [Requests -> {"create", "count"}]
          /\ name \in [Requests -> Names \cup {None}]
          /\ new_id \in [Requests -> Nat]
          /\ answer \in [Requests -> Answers]
          /\ waiting \in [Pages -> SUBSET Requests]
          /\ form \in [Pages -> Requests \cup {None}]
          /\ total \in [Pages -> Nat \cup {None}]
          /\ downloads \in SUBSET Rows
          /\ opened \in [Pages -> Nat]

(* The statements of create_endpoint amount to one step on the table, and
   however they interleave the numbers have no gap and no key comes twice. *)
Registry == INSTANCE EndpointRegistry
               WITH Keys <- Requests,
                    registry <- {[id |-> e.id, key |-> e.key] : e \in endpoints}
ImplementsRegistry == Registry!Spec

(* "The id must be set to the id associated with the authentication key": every
   configuration file that was handed out names the number and the key of a
   row that is in the table to stay. *)
ConfigsRegistered == downloads \subseteq endpoints

(* The overview shows a number of endpoints that was right at some moment since
   it was opened, never the late answer to an earlier visit. *)
TotalRight == \A p \in Pages :
                 total[p] # None => total[p] \in opened[p]..Cardinality(endpoints)

(* isLoading ends: every request of a page is answered or given up. *)
LoadingEnds == \A p \in Pages, r \in Requests : form[p] = r ~> form[p] # r
=============================================================================
