----------------------- MODULE EndpointSecuritySystem -----------------------
(***************************************************************************)
(* An agent, the network and the log ingress of the server together: the   *)
(* processes of MonitoringAgent and of LogIngress, joined by the POST of   *)
(* submit_events.                                                          *)
(*                                                                         *)
(* MonitoringAgent decides by itself whether a request was received; here  *)
(* it is received when a thread of the server takes it off the wire.  What *)
(* MonitoringAgent cannot say is said here: the agent may give a request   *)
(* up (an error of curl, or the death of the process) while it is on the   *)
(* wire or being served, and go on to the next one.  A request given up on *)
(* the wire counts as lost for the agent and may still arrive.             *)
(*                                                                         *)
(* Requests are numbered in the order in which they are sent.  curl opens  *)
(* a new connection for each, as each has its own handle, so that nothing  *)
(* keeps two of them in order but the agent itself.  Their number is       *)
(* bounded, so the traffic without end stays with MonitoringAgent.         *)
(***************************************************************************)
EXTENDS MonitoringAgent

CONSTANTS MaxRequests,     \* bound on the requests, never too small
          OtherRequests,   \* requests of other clients, by further numbers
          MaxConnections   \* max_connections of the database

ASSUME SystemAssumption == /\ MaxRequests \in Nat
                           /\ OtherRequests \cap (1..MaxRequests) = {}
                           /\ MaxConnections \in Nat
                           /\ Endless = {}

VARIABLES sent,      \* the body of each request that was sent
          wire,      \* the requests between the agent and the server
          request,   \* the request of the running POST, 0 if not yet sent
          given_up,  \* the requests the agent ended without an answer
          events, at, received, wrote, connection, answer  \* as in LogIngress

Requests == 1..MaxRequests

Ingress == INSTANCE LogIngress WITH Requests <- Requests \cup OtherRequests,
                                    posted <- received,
                                    Events <- 0..MaxSyscalls,
                                    Refused <- {},
                                    MaxBatch <- batch_size

serverVars == <<events, at, received, wrote, connection, answer>>
netVars == <<sent, wire, request, given_up>>
systemVars == <<vars, netVars, serverVars>>

SystemInit == /\ Init
              /\ Ingress!Init
              /\ sent = <<>>
              /\ wire = {}
              /\ request = 0
              /\ given_up = {}
-----------------------------------------------------------------------------
(* curl_easy_perform, once its system calls are made. *)

Send == /\ pc = "perform" /\ calls = <<>> /\ hook[Agent] = "idle"
        /\ request = 0
        /\ Len(sent) < MaxRequests
        /\ sent' = Append(sent, event_buffer)
        /\ request' = Len(sent')
        /\ wire' = wire \cup {request'}
        /\ UNCHANGED <<vars, given_up, serverVars>>

(* Mutant: the agent does not wait for the answer. *)
Answered_Early == /\ request # 0
                  /\ PostReceived
                  /\ request' = 0
                  /\ UNCHANGED <<sent, wire, given_up, serverVars>>

Answered == /\ request # 0
            /\ at[request] = "answered"
            /\ PostReceived
            /\ request' = 0
            /\ UNCHANGED <<sent, wire, given_up, serverVars>>

IsReceived == request # 0 /\ at[request] # "idle"

Forget == /\ request' = 0
          /\ given_up' = given_up \cup ({request} \ {0})
          /\ UNCHANGED <<sent, wire, serverVars>>

(* curl reports an error, before or after the request was sent; submit_events
   makes no difference. *)
GiveUp == /\ IF IsReceived THEN "post" \in Faults /\ PostReceived
                           ELSE PostFails
          /\ Forget

Killed == /\ Crash
          /\ posted' = posted \cup (IF IsReceived THEN Ids(Elems(event_buffer)) ELSE {})
          /\ Forget

(* All other steps of the agent and of the kernel. *)
AgentAlone == \/ Startup \/ Loop \/ Collect \/ Submit \/ PerformCall
KernelAlone == \E t \in Hooked : Hook(t)
OthersAlone == \/ SubmitFails \/ Interrupted \/ Sigterm \/ Restart
               \/ \E t \in Tasks : Syscall(t)

Alone(A) == A /\ UNCHANGED <<netVars, serverVars>>
-----------------------------------------------------------------------------
(* The network and the threads of the server. *)

Arrive(r) == /\ r \in wire
             /\ wire' = wire \ {r}
             /\ Ingress!Receive(r, sent[r])
             /\ UNCHANGED <<vars, sent, request, given_up>>

(* Another client, with events of its own or with none. *)
ArriveOther(r) == /\ \E batch \in {<<>>, <<Uncounted>>} : Ingress!Receive(r, batch)
                  /\ UNCHANGED <<vars, netVars>>

Vanish(r) == /\ "post" \in Faults
             /\ r \in wire
             /\ wire' = wire \ {r}
             /\ UNCHANGED <<vars, sent, request, given_up, serverVars>>

Serve(r) == /\ Ingress!Serve(r)
            /\ UNCHANGED <<vars, netVars>>

Quiet == /\ Down /\ wire = {}
         /\ \A r \in DOMAIN at : at[r] \in {"idle", "answered"}
         /\ UNCHANGED systemVars

SystemNext == \/ Alone(AgentAlone) \/ Alone(KernelAlone) \/ Alone(OthersAlone)
              \/ Send \/ Answered \/ GiveUp \/ Killed
              \/ \E r \in Requests : Arrive(r) \/ Vanish(r)
              \/ \E r \in OtherRequests : ArriveOther(r)
              \/ \E r \in Requests \cup OtherRequests : Serve(r)
              \/ Quiet

(* The request of the running POST can no longer be answered. *)
Broken == request # 0 /\ request \notin wire /\ at[request] = "idle"

(* The processes run, handlers finish and the network carries or loses what
   is on it.  TCP reports a connection that broke.  Nothing is assumed of how
   long a POST takes: it returns because the server answers. *)
SystemFairness ==
    /\ WF_systemVars(Alone(AgentAlone) \/ Send \/ Answered)
    /\ WF_systemVars(Broken /\ GiveUp)
    /\ \A t \in Hooked : WF_systemVars(Alone(Hook(t)))
    /\ WF_systemVars(Alone(Restart))
    /\ \A r \in Requests : /\ WF_systemVars(Arrive(r) \/ Vanish(r))
                           /\ WF_systemVars(Serve(r))

SystemSpec == SystemInit /\ [][SystemNext]_systemVars /\ SystemFairness
-----------------------------------------------------------------------------
Events(r) == Ids(Elems(received[r]))

(* The server is given an event at most once, whatever fails and whoever
   gives up, and an event that it has is no longer in the agent unless it is
   in the POST that runs: no retry, and the buffer is emptied in any case. *)
ReceivedOnce ==
    \A r \in Requests :
       /\ \A s \in Requests : r # s => Events(r) \cap Events(s) = {}
       /\ Events(r) \cap InAgent # {} => r = request

(* Requests are served one by one and in the order of their events, although
   each comes on its own connection to its own thread: a request overtakes
   another, or is served beside it, only after the agent gave that one up. *)
OnlyGivenUpOvertaken ==
    \A r, s \in Requests :
       r < s /\ at[s] # "idle" => at[r] = "answered" \/ r \in given_up

(* The agent's account of its events agrees with the server: what it counts as
   posted was received, and what was received of its requests is posted, unless
   the request is the one that runs or was given up and arrived all the same.
   submit_events takes every return of curl for a success. *)
PostedIsReceived ==
    /\ \A e \in posted : \E r \in Requests : e \in Events(r)
    /\ \A r \in Requests :
          Events(r) \subseteq posted \/ r = request \/ r \in given_up

IngressTypeOK == Ingress!IngressTypeOK

NoConnectionLeft == Ingress!NoConnectionLeft
=============================================================================
