---------------------------- MODULE LogIngress -----------------------------
(***************************************************************************)
(* The log ingress of the backend: submit_logs of api.py, on the events    *)
(* table of initdb.sql.                                                    *)
(*                                                                         *)
(* Each request runs in a thread of its own.  Its loop over the events     *)
(* returns in the first turn, whatever happens, and the transaction of the *)
(* INSERT is not committed: PyMySQL leaves autocommit off, and closing the *)
(* connection rolls it back.  at says what a request comes to:             *)
(*   "idle" "received" "connected" "inserted" "answered"                   *)
(***************************************************************************)
EXTENDS Naturals, Sequences, FiniteSets

CONSTANTS Requests,        \* every request is made once: a bound for TLC
          Events,          \* the events that are reported
          Refused,         \* those whose INSERT the database refuses
          MaxBatch,        \* bound on the events of a request
          MaxConnections   \* max_connections of the database

VARIABLES events,      \* the events in the table
          at, posted,  \* the events of each request, in their order
          wrote,       \* the events a transaction has inserted
          connection,  \* the Python variable: "unbound", "open" or "closed"
          answer       \* the HTTP status

ingressVars == <<events, at, posted, wrote, connection, answer>>

Elems(s) == {s[i] : i \in DOMAIN s}
Open == {r \in Requests : connection[r] = "open"}

Init == /\ events = {}
        /\ at = [r \in Requests |-> "idle"]
        /\ posted = [r \in Requests |-> <<>>]
        /\ wrote = [r \in Requests |-> {}]
        /\ connection = [r \in Requests |-> "unbound"]
        /\ answer = [r \in Requests |-> 0]
-----------------------------------------------------------------------------
Goto(r, from, to) == at[r] = from /\ at' = [at EXCEPT ![r] = to]

Receive(r, batch) == /\ Goto(r, "idle", "received")
                     /\ posted' = [posted EXCEPT ![r] = batch]
                     /\ UNCHANGED <<events, wrote, connection, answer>>

Answer(r, from, status) == /\ Goto(r, from, "answered")
                           /\ answer' = [answer EXCEPT ![r] = status]
                           /\ UNCHANGED <<events, posted>>

(* The loop has no turn and the function returns None: no answer to Flask. *)
NoEvents(r) == /\ posted[r] = <<>>
               /\ Answer(r, "received", 500)
               /\ UNCHANGED <<wrote, connection>>

Connect(r) == /\ posted[r] # <<>>
              /\ Cardinality(Open) < MaxConnections
              /\ Goto(r, "received", "connected")
              /\ connection' = [connection EXCEPT ![r] = "open"]
              /\ UNCHANGED <<events, posted, wrote, answer>>

(* connection is not bound, and the finally clause fails on it after the
   answer 400 was made: Flask answers 500. *)
ConnectFails(r) == /\ posted[r] # <<>>
                   /\ Answer(r, "received", 500)
                   /\ UNCHANGED <<wrote, connection>>

(* Mutant: the loop runs to its end, and the last event is the one inserted. *)
Insert_Last(r) == /\ Goto(r, "connected", "inserted")
                  /\ posted[r][Len(posted[r])] \notin Refused
                  /\ wrote' = [wrote EXCEPT ![r] = {posted[r][Len(posted[r])]}]
                  /\ UNCHANGED <<events, posted, connection, answer>>

(* Only the first event is looked at. *)
Insert(r) == /\ Goto(r, "connected", "inserted")
             /\ Head(posted[r]) \notin Refused
             /\ wrote' = [wrote EXCEPT ![r] = {Head(posted[r])}]
             /\ UNCHANGED <<events, posted, connection, answer>>

(* connection.close(): what is not committed is rolled back. *)
Close(r) == /\ connection' = [connection EXCEPT ![r] = "closed"]
            /\ wrote' = [wrote EXCEPT ![r] = {}]

(* Mutant: no finally clause. *)
InsertFails_Leaks(r) == /\ Answer(r, "connected", 400)
                        /\ UNCHANGED <<wrote, connection>>

(* The statement is refused, or the database is gone. *)
InsertFails(r) == Answer(r, "connected", 400) /\ Close(r)

Return(r) == Answer(r, "inserted", 200) /\ Close(r)
-----------------------------------------------------------------------------
Batches == UNION {[1..n -> Events] : n \in 0..MaxBatch}

Serve(r) == \/ NoEvents(r) \/ Connect(r) \/ ConnectFails(r)
            \/ Insert(r) \/ InsertFails(r) \/ Return(r)

Finished == /\ \A r \in Requests : at[r] \in {"idle", "answered"}
            /\ UNCHANGED ingressVars

Next == \/ \E r \in Requests : \/ \E batch \in Batches : Receive(r, batch)
                               \/ Serve(r)
        \/ Finished

Spec == Init /\ [][Next]_ingressVars

IngressTypeOK ==
    /\ events \in SUBSET Events
    /\ at \in [Requests -> {"idle", "received", "connected", "inserted", "answered"}]
    /\ posted \in [Requests -> Seq(Events)]
    /\ wrote \in [Requests -> SUBSET Events]
    /\ \A r \in Requests : \A e \in wrote[r] : posted[r] # <<>> /\ e = Head(posted[r])
    /\ connection \in [Requests -> {"unbound", "open", "closed"}]
    /\ answer \in [Requests -> {0, 200, 400, 500}]

(* "Receives and parses raw logs from endpoints, then writes the processed
   data to the database": the events of a request that was answered with
   success are in the table. *)
LogsStored == \A r \in Requests :
                 answer[r] = 200 => Elems(posted[r]) \subseteq events

(* An answered request holds no connection, and no lock on a row, whatever
   went wrong; so never are there more than requests in progress. *)
NoConnectionLeft == \A r \in Requests :
                       at[r] = "answered" => connection[r] # "open" /\ wrote[r] = {}
=============================================================================
