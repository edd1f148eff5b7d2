-------------------- MODULE EndpointSecuritySystem_proofs --------------------
(***************************************************************************)
(* Proofs about the agent, the network and the log ingress together, for   *)
(* any number of tasks, requests and clients and for any sizes.            *)
(*                                                                         *)
(* Every step of the whole is a step of MonitoringAgent or leaves the      *)
(* agent alone (AgentSteps), so that the agent's invariants and its being  *)
(* an EventFeed carry over.  That an event is received once is then a      *)
(* matter of the bodies that were sent: they share no event, and the only  *)
(* one whose events the agent still has is that of the POST that runs      *)
(* (SentInv).  MonitoringAgent's own count of what was posted is of no use *)
(* here, as a request that was given up may arrive after all.              *)
(***************************************************************************)
EXTENDS EndpointSecuritySystem, MonitoringAgent_proofs

Served == Requests \cup OtherRequests

SentIds(r) == Ids(Elems(sent[r]))

NetTypeOK == /\ sent \in Seq(Seq(0..MaxSyscalls))
             /\ Len(sent) <= MaxRequests
             /\ wire \subseteq DOMAIN sent
             /\ request \in {0, Len(sent)}

SentInv == \A r \in DOMAIN sent :
              /\ SentIds(r) \subseteq 1..issued
              /\ \A s \in DOMAIN sent : r # s => SentIds(r) \cap SentIds(s) = {}
              /\ r # request => SentIds(r) \cap InAgent = {}

BodyInv == request # 0 => /\ pc = "perform" /\ calls = <<>>
                          /\ sent[request] = event_buffer

ArrivedInv == \A r \in Requests :
                 /\ at[r] = "idle" => received[r] = <<>>
                 /\ at[r] # "idle" => r \in DOMAIN sent /\ received[r] = sent[r]

EndedInv == \A r \in DOMAIN sent : r = request \/ at[r] = "answered" \/ r \in given_up

(* A request outside its transaction holds nothing. *)
Resting(r) == at[r] \notin {"connected", "inserted"} =>
                 connection[r] # "open" /\ wrote[r] = {}

IngressInv == /\ IngressTypeOK
              /\ \A r \in Served :
                    /\ Resting(r)
                    /\ at[r] = "connected" => received[r] # <<>>

AgentInv == Inv /\ FlowInv /\ issued <= MaxSyscalls

NetInv == NetTypeOK /\ SentInv /\ BodyInv /\ ArrivedInv /\ EndedInv

SystemInv == AgentInv /\ IngressInv /\ NetInv
-----------------------------------------------------------------------------
(* The agent's part. *)

LEMMA IssuedBounded ==
  ASSUME [Next]_vars, issued \in Nat, issued <= MaxSyscalls
  PROVE  issued' <= MaxSyscalls
<1>1. MaxSyscalls \in Nat
  BY HooksAssumption
<1>2. CASE \E t \in Tasks : Syscall(t)
  BY <1>1, <1>2 DEF Syscall, Traced, Enter, handle_sendto, handle_socket, handle_open,
                    handle_execve
<1>3. CASE UNCHANGED vars
  BY <1>3 DEF vars
<1>4. CASE Startup
  BY <1>4 DEF Startup, Configure, ConfigureFails, OpenAndLoad, OpenAndLoadFails,
              AttachHook, AttachFails, NewRing, NewRingFails, hookVars, Attach, Release
<1>5. CASE Loop
  BY <1>5 DEF Loop, PollAgain, LeaveLoop, Wake, Timeout, Skip, DrainEnds, Close,
              hookVars, SkipDiscarded, Release
<1>6. CASE Callback \/ SubmitFails \/ PostFails
  BY <1>6 DEF Callback, Collect, Submit, PerformCall, PostReceived, SubmitFails, PostFails,
              HandleEvent, PerformReturns, UncountedCall
<1>7. CASE Interrupted \/ Sigterm \/ Crash \/ Restart \/ StayDown
  BY <1>7 DEF Interrupted, Sigterm, Crash, Restart, StayDown, hookVars, vars, Release
<1>8. CASE \E t \in Hooked : Hook(t)
  BY <1>8 DEF Hook, Finish, bpf_ringbuf_submit, bpf_ringbuf_discard
<1>9. CASE \E t \in Endless : Traffic(t)
  BY <1>9, SystemAssumption
<1> QED
  BY <1>2, <1>3, <1>4, <1>5, <1>6, <1>7, <1>8, <1>9 DEF Next

LEMMA AgentInvNext ==
  ASSUME AgentInv, [Next]_vars
  PROVE  /\ AgentInv'
         /\ \/ issued' = issued /\ InAgent' \subseteq InAgent
            \/ issued' = issued + 1 /\ InAgent' \subseteq InAgent \cup {issued + 1}
<1>1. Inv' /\ FlowInv' /\ [Feed!Next]_(Feed!feedVars)
  BY NextInv, NextFlow DEF AgentInv
<1>2. issued \in Nat
  BY DEF AgentInv, Inv, HooksInv, HooksTypeOK
<1>3. AgentInv'
  BY <1>1, <1>2, IssuedBounded DEF AgentInv
<1>4. CASE UNCHANGED Feed!feedVars
  BY <1>3, <1>4 DEF Feed!feedVars
<1>5. CASE Feed!Next
  BY <1>3, <1>5 DEF Feed!Next, Feed!Issue, Feed!Deliver, Feed!Lose, Feed!DeliverAndLose
<1> QED
  BY <1>1, <1>3, <1>4, <1>5

(* A POST that ends leaves none of its events in the agent. *)
LEMMA PostOver ==
  ASSUME AgentInv, AgentInv',
         \/ Buf \subseteq posted' \cup lost'
         \/ event_buffer' = <<>> /\ ring' = <<>>
  PROVE  Buf \cap InAgent' = {}
<1>1. CASE Buf \subseteq posted' \cup lost'
  <2>1. InAgent' \cap (posted' \cup lost') = {}
    BY DEF AgentInv, FlowInv, Accounting, InAgent
  <2> QED
    BY <1>1, <2>1
<1>2. CASE event_buffer' = <<>> /\ ring' = <<>>
  <2>1. Unread' = <<>>
    BY <1>2 DEF Unread
  <2> QED
    BY <1>2, <2>1 DEF InAgent, Ids, Elems, InRing
<1> QED
  BY <1>1, <1>2

LEMMA AgentSteps ==
  ASSUME \/ AgentAlone \/ KernelAlone \/ OthersAlone
         \/ PostReceived \/ PostFails \/ Crash \/ UNCHANGED vars
  PROVE  [Next]_vars
  BY DEF AgentAlone, KernelAlone, OthersAlone, Next, Callback

(* While a request is out, the agent does nothing but wait for it. *)
LEMMA AloneWaits ==
  ASSUME AgentAlone \/ KernelAlone \/ OthersAlone, pc = "perform", calls = <<>>
  PROVE  UNCHANGED <<pc, calls, event_buffer>>
<1>1. ~Startup /\ ~Loop
  BY DEF Startup, Configure, ConfigureFails, OpenAndLoad, OpenAndLoadFails,
         AttachHook, AttachFails, NewRing, NewRingFails, Goto,
         Loop, PollAgain, LeaveLoop, Wake, Timeout, Skip, DrainEnds, Close
<1>2. ~Collect /\ ~Submit /\ ~SubmitFails /\ ~PerformCall /\ ~Interrupted /\ ~Restart
  BY DEF Collect, Submit, SubmitFails, HandleEvent, PerformCall, Interrupted, Restart, Goto
<1> QED
  BY <1>1, <1>2 DEF AgentAlone, KernelAlone, OthersAlone, Hook, Syscall, agentVars, Sigterm
-----------------------------------------------------------------------------
(* The server's part. *)

Statuses == {"idle", "received", "connected", "inserted", "answered"}

(* A transaction inserts nothing but the first event of its request. *)
FirstOnly(r) == \A e \in wrote[r] : received[r] # <<>> /\ e = Head(received[r])

ServerTypes == /\ events \in SUBSET (0..MaxSyscalls)
               /\ at \in [Served -> Statuses]
               /\ received \in [Served -> Seq(0..MaxSyscalls)]
               /\ wrote \in [Served -> SUBSET (0..MaxSyscalls)]
               /\ connection \in [Served -> {"unbound", "open", "closed"}]
               /\ answer \in [Served -> {0, 200, 400, 500}]

RequestInv(r) == /\ FirstOnly(r)
                 /\ Resting(r)
                 /\ at[r] = "connected" => received[r] # <<>>

Same(r) == /\ at'[r] = at[r]
           /\ received'[r] = received[r]
           /\ wrote'[r] = wrote[r]
           /\ connection'[r] = connection[r]

LEMMA IngressParts == IngressInv <=> ServerTypes /\ \A r \in Served : RequestInv(r)
  BY DEF IngressInv, IngressTypeOK, Ingress!IngressTypeOK, Served, Statuses, ServerTypes,
         RequestInv, FirstOnly

(* A step of the server touches one request. *)
LEMMA ServerStep ==
  ASSUME IngressInv, NEW r \in Served, ServerTypes', RequestInv(r)',
         \A s \in Served \ {r} : Same(s)
  PROVE  IngressInv'
<1>1. ASSUME NEW s \in Served
      PROVE  RequestInv(s)'
  <2>1. CASE s # r
    BY <2>1, IngressParts DEF RequestInv, FirstOnly, Resting, Same
  <2> QED
    BY <2>1
<1> QED
  BY <1>1 DEF IngressInv, IngressTypeOK, Ingress!IngressTypeOK, Served, Statuses,
              ServerTypes, RequestInv, FirstOnly

LEMMA ReceiveInv ==
  ASSUME IngressInv, NEW r \in Served, NEW batch \in Seq(0..MaxSyscalls),
         Ingress!Receive(r, batch)
  PROVE  /\ IngressInv'
         /\ at[r] = "idle" /\ at' = [at EXCEPT ![r] = "received"]
         /\ received' = [received EXCEPT ![r] = batch]
<1>1. /\ at[r] = "idle" /\ at' = [at EXCEPT ![r] = "received"]
      /\ received' = [received EXCEPT ![r] = batch]
      /\ UNCHANGED <<events, wrote, connection, answer>>
  BY DEF Ingress!Receive, Ingress!Goto
<1>2. ServerTypes /\ RequestInv(r)
  BY IngressParts
<1>3. ServerTypes'
  BY <1>1, <1>2 DEF ServerTypes, Statuses
<1>4. RequestInv(r)' /\ \A s \in Served \ {r} : Same(s)
  BY <1>1, <1>2 DEF ServerTypes, RequestInv, FirstOnly, Resting, Same
<1> QED
  BY <1>1, <1>3, <1>4, ServerStep

LEMMA HeadIn ==
  ASSUME NEW S, NEW q \in Seq(S), q # <<>>
  PROVE  Head(q) \in S
  OBVIOUS

(* Serving a request: it does not become idle, and an answer is final. *)
LEMMA ServeInv ==
  ASSUME IngressInv, NEW r \in Served, Ingress!Serve(r)
  PROVE  /\ IngressInv' /\ received' = received
         /\ \A s \in Served : /\ at'[s] = "idle" <=> at[s] = "idle"
                              /\ at[s] = "answered" => at'[s] = "answered"
<1>0. ServerTypes /\ RequestInv(r)
  BY IngressParts
<1>1. /\ received' = received /\ events' = events
      /\ at[r] \notin {"idle", "answered"}
      /\ \E to \in Statuses \ {"idle"} : at' = [at EXCEPT ![r] = to]
  BY DEF Ingress!Serve, Ingress!NoEvents, Ingress!Connect, Ingress!ConnectFails,
     Ingress!Insert, Ingress!InsertFails, Ingress!Return, Ingress!Answer, Ingress!Goto,
     Statuses
<1>2. /\ at' \in [Served -> Statuses]
      /\ \A s \in Served : /\ at'[s] = "idle" <=> at[s] = "idle"
                           /\ at[s] = "answered" => at'[s] = "answered"
      /\ \A s \in Served \ {r} : at'[s] = at[s]
  BY <1>0, <1>1 DEF ServerTypes
<1>3. SUFFICES ASSUME at' \in [Served -> Statuses], received' = received, events' = events,
                      \A s \in Served \ {r} : at'[s] = at[s]
               PROVE  IngressInv'
  BY <1>1, <1>2
<1>4. CASE Ingress!NoEvents(r) \/ Ingress!ConnectFails(r)
  <2>1. /\ at[r] = "received" /\ answer' = [answer EXCEPT ![r] = 500]
        /\ UNCHANGED <<wrote, connection>>
    BY <1>4 DEF Ingress!NoEvents, Ingress!ConnectFails, Ingress!Answer, Ingress!Goto
  <2>2. at'[r] = "answered"
    BY <1>0, <1>4 DEF Ingress!NoEvents, Ingress!ConnectFails, Ingress!Answer, Ingress!Goto,
                      ServerTypes
  <2>3. ServerTypes'
    BY <1>0, <1>3, <2>1 DEF ServerTypes
  <2>4. RequestInv(r)' /\ \A s \in Served \ {r} : Same(s)
    BY <1>0, <1>3, <2>1, <2>2 DEF ServerTypes, RequestInv, FirstOnly, Resting, Same
  <2> QED
    BY <2>3, <2>4, ServerStep
<1>5. CASE Ingress!Connect(r)
  <2>1. /\ connection' = [connection EXCEPT ![r] = "open"]
        /\ UNCHANGED <<wrote, answer>> /\ received[r] # <<>> /\ at[r] = "received"
    BY <1>5 DEF Ingress!Connect, Ingress!Goto
  <2>2. at'[r] = "connected"
    BY <1>0, <1>5 DEF Ingress!Connect, Ingress!Goto, ServerTypes
  <2>3. ServerTypes'
    BY <1>0, <1>3, <2>1 DEF ServerTypes
  <2>4. RequestInv(r)' /\ \A s \in Served \ {r} : Same(s)
    BY <1>0, <1>3, <2>1, <2>2 DEF ServerTypes, RequestInv, FirstOnly, Resting, Same
  <2> QED
    BY <2>3, <2>4, ServerStep
<1>6. CASE Ingress!Insert(r)
  <2>1. /\ wrote' = [wrote EXCEPT ![r] = {Head(received[r])}]
        /\ UNCHANGED <<connection, answer>> /\ at[r] = "connected"
    BY <1>6 DEF Ingress!Insert, Ingress!Goto
  <2>2. at'[r] = "inserted"
    BY <1>0, <1>6 DEF Ingress!Insert, Ingress!Goto, ServerTypes
  <2>3. received[r] # <<>> /\ received[r] \in Seq(0..MaxSyscalls)
    BY <1>0, <2>1 DEF ServerTypes, RequestInv
  <2>4. Head(received[r]) \in 0..MaxSyscalls
    BY <2>3, HeadIn
  <2>5. ServerTypes'
    BY <1>0, <1>3, <2>1, <2>4 DEF ServerTypes
  <2>6. wrote'[r] = {Head(received[r])}
    BY <1>0, <2>1 DEF ServerTypes
  <2>7. RequestInv(r)'
    BY <1>3, <2>2, <2>3, <2>6 DEF RequestInv, FirstOnly, Resting
  <2>8. \A s \in Served \ {r} : Same(s)
    BY <1>0, <1>3, <2>1 DEF ServerTypes, Same
  <2> QED
    BY <2>5, <2>7, <2>8, ServerStep
<1>7. CASE Ingress!InsertFails(r) \/ Ingress!Return(r)
  <2>1. /\ wrote' = [wrote EXCEPT ![r] = {}]
        /\ connection' = [connection EXCEPT ![r] = "closed"]
        /\ \E status \in {200, 400} : answer' = [answer EXCEPT ![r] = status]
    BY <1>7 DEF Ingress!InsertFails, Ingress!Return, Ingress!Answer, Ingress!Close
  <2>2. at'[r] = "answered"
    BY <1>0, <1>7 DEF Ingress!InsertFails, Ingress!Return, Ingress!Answer, Ingress!Goto,
                      ServerTypes
  <2>3. ServerTypes'
    BY <1>0, <1>3, <2>1 DEF ServerTypes
  <2>4. RequestInv(r)' /\ \A s \in Served \ {r} : Same(s)
    BY <1>0, <1>3, <2>1, <2>2 DEF ServerTypes, RequestInv, FirstOnly, Resting, Same
  <2> QED
    BY <2>3, <2>4, ServerStep
<1> QED
  BY <1>4, <1>5, <1>6, <1>7 DEF Ingress!Serve
-----------------------------------------------------------------------------
(* Init. *)

LEMMA InitSystem == SystemInit => SystemInv
<1> SUFFICES ASSUME SystemInit PROVE SystemInv
  OBVIOUS
<1>1. AgentInv
  <2>1. Inv /\ FlowInv
    BY InitInv, InitFlow DEF SystemInit
  <2>2. issued = 0 /\ MaxSyscalls \in Nat
    BY HooksAssumption DEF SystemInit, Init, HooksInit
  <2> QED
    BY <2>1, <2>2 DEF AgentInv
<1>2. IngressInv
  <2>1. /\ events = {} /\ at = [r \in Served |-> "idle"]
        /\ received = [r \in Served |-> <<>>] /\ wrote = [r \in Served |-> {}]
        /\ connection = [r \in Served |-> "unbound"] /\ answer = [r \in Served |-> 0]
    BY DEF SystemInit, Ingress!Init, Served
  <2>2. ServerTypes
    BY <2>1 DEF ServerTypes, Statuses
  <2>3. \A r \in Served : RequestInv(r)
    BY <2>1 DEF RequestInv, FirstOnly, Resting
  <2> QED
    BY <2>2, <2>3, IngressParts
<1>3. sent = <<>> /\ wire = {} /\ request = 0
  BY DEF SystemInit
<1>4. NetTypeOK /\ SentInv /\ BodyInv /\ EndedInv
  <2>1. DOMAIN sent = {} /\ Len(sent) = 0 /\ sent \in Seq(Seq(0..MaxSyscalls))
    BY <1>3
  <2> QED
    BY <1>3, <2>1, SystemAssumption DEF NetTypeOK, SentInv, BodyInv, EndedInv
<1>5. ArrivedInv
  BY DEF SystemInit, Ingress!Init, ArrivedInv
<1> QED
  BY <1>1, <1>2, <1>4, <1>5 DEF SystemInv, NetInv
-----------------------------------------------------------------------------
(* The bodies of the requests. *)

(* Nothing is sent: the events that were sent do not come back. *)
LEMMA NothingSent ==
  ASSUME SystemInv, [Next]_vars, UNCHANGED sent,
         \/ request' = request
         \/ request' = 0 /\ (request # 0 => Buf \cap InAgent' = {})
  PROVE  SentInv'
<1>1. /\ issued \in Nat
      /\ \/ issued' = issued /\ InAgent' \subseteq InAgent
         \/ issued' = issued + 1 /\ InAgent' \subseteq InAgent \cup {issued + 1}
  BY AgentInvNext DEF SystemInv, AgentInv, Inv, HooksInv, HooksTypeOK
<1>2. \A r \in DOMAIN sent : SentIds(r)' = SentIds(r)
  BY DEF SentIds
<1>3. ASSUME NEW r \in DOMAIN sent'
      PROVE  /\ SentIds(r)' \subseteq 1..issued'
             /\ \A s \in DOMAIN sent' : r # s => SentIds(r)' \cap SentIds(s)' = {}
             /\ r # request' => SentIds(r)' \cap InAgent' = {}
  <2>1. /\ SentIds(r) \subseteq 1..issued
        /\ \A s \in DOMAIN sent : r # s => SentIds(r) \cap SentIds(s) = {}
        /\ r # request => SentIds(r) \cap InAgent = {}
    BY <1>3 DEF SystemInv, NetInv, SentInv
  <2>2. SentIds(r)' \subseteq 1..issued'
    BY <1>1, <1>2, <1>3, <2>1
  <2>3. ASSUME r # request' PROVE SentIds(r)' \cap InAgent' = {}
    <3>1. CASE r # request
      <4>1. SentIds(r) \cap InAgent = {} /\ issued + 1 \notin SentIds(r)
        BY <1>1, <2>1, <3>1
      <4> QED
        BY <1>1, <1>2, <1>3, <4>1
    <3>2. CASE r = request
      <4>1. request # 0
        BY <1>3, <3>2 DEF SystemInv, NetInv, NetTypeOK
      <4>2. SentIds(r) = Buf
        BY <3>2, <4>1 DEF SystemInv, NetInv, BodyInv, SentIds, Buf
      <4> QED
        BY <1>2, <1>3, <2>3, <3>2, <4>1, <4>2
    <3> QED
      BY <3>1, <3>2
  <2> QED
    BY <1>2, <1>3, <2>1, <2>2, <2>3
<1> QED
  BY <1>3 DEF SentInv

LEMMA SeqIn ==
  ASSUME NEW q \in Seq(Nat), NEW S, \A i \in 1..Len(q) : q[i] \in S
  PROVE  q \in Seq(S)
<1>1. Len(q) \in Nat /\ q \in [1..Len(q) -> S]
  OBVIOUS
<1> QED
  BY <1>1

LEMMA BufferTyped ==
  ASSUME AgentInv
  PROVE  event_buffer \in Seq(0..MaxSyscalls) /\ Buf \subseteq 1..issued
<1>1. /\ event_buffer \in Seq(Nat) /\ issued \in Nat /\ issued <= MaxSyscalls
      /\ \A i \in DOMAIN event_buffer : event_buffer[i] <= issued
  BY DEF AgentInv, Inv, AgentTypeOK, BufferIssued, HooksInv, HooksTypeOK
<1>2. MaxSyscalls \in Nat
  BY HooksAssumption
<1>3. \A i \in 1..Len(event_buffer) : event_buffer[i] \in 0..MaxSyscalls
  BY <1>1, <1>2
<1>4. event_buffer \in Seq(0..MaxSyscalls)
  BY <1>1, <1>3, SeqIn
<1> QED
  BY <1>4, AgentEvents DEF AgentInv

(* The other parts, when nothing is sent and no request is received. *)
LEMMA NetKept ==
  ASSUME SystemInv, UNCHANGED <<sent, received>>, request' \in {request, 0},
         wire' \subseteq wire,
         \A r \in Served : /\ at'[r] = "idle" <=> at[r] = "idle"
                           /\ at[r] = "answered" => at'[r] = "answered",
         given_up \subseteq given_up',
         request' # request => at[request] = "answered" \/ request \in given_up'
  PROVE  NetTypeOK' /\ ArrivedInv' /\ EndedInv'
<1>1. NetTypeOK'
  BY DEF SystemInv, NetInv, NetTypeOK
<1>2. ArrivedInv'
  BY DEF SystemInv, NetInv, ArrivedInv, Served
<1>3. DOMAIN sent \subseteq Served
  BY SystemAssumption DEF SystemInv, NetInv, NetTypeOK, Served, Requests
<1>4. EndedInv'
  BY <1>3 DEF SystemInv, NetInv, EndedInv
<1> QED
  BY <1>1, <1>2, <1>4

LEMMA ServerKept ==
  ASSUME IngressInv, UNCHANGED serverVars
  PROVE  IngressInv'
  BY DEF serverVars, IngressInv, IngressTypeOK, Ingress!IngressTypeOK, Resting

(* A POST ends, one way or another. *)
LEMMA EndsInv ==
  ASSUME SystemInv, PostReceived \/ PostFails \/ Crash, request' = 0, request # 0 =>
            at[request] = "answered" \/ request \in given_up',
         given_up \subseteq given_up', UNCHANGED <<sent, wire, serverVars>>
  PROVE  SystemInv'
<1>1. [Next]_vars
  BY AgentSteps
<1>2. AgentInv'
  BY <1>1, AgentInvNext DEF SystemInv
<1>3. Buf \cap InAgent' = {}
  <2>1. CASE PostReceived \/ PostFails
    <3>1. Buf \subseteq posted' \cup lost'
      BY <2>1 DEF PostReceived, PostFails, Buf
    <3> QED
      BY <1>2, <3>1, PostOver DEF SystemInv
  <2>2. CASE Crash
    <3>1. event_buffer' = <<>> /\ ring' = <<>>
      BY <2>2 DEF Crash, Release
    <3> QED
      BY <1>2, <3>1, PostOver DEF SystemInv
  <2> QED
    BY <2>1, <2>2
<1>4. SentInv'
  BY <1>1, <1>3, NothingSent
<1>5. BodyInv'
  BY DEF BodyInv
<1>6. NetTypeOK' /\ ArrivedInv' /\ EndedInv'
  <2>1. request = 0 => request' = request
    OBVIOUS
  <2> QED
    BY <2>1, NetKept DEF serverVars
<1>7. IngressInv'
  BY ServerKept DEF SystemInv
<1> QED
  BY <1>2, <1>4, <1>5, <1>6, <1>7 DEF SystemInv, NetInv

LEMMA AloneInv ==
  ASSUME SystemInv, AgentAlone \/ KernelAlone \/ OthersAlone,
         UNCHANGED <<netVars, serverVars>>
  PROVE  SystemInv'
<1>1. [Next]_vars
  BY AgentSteps
<1>2. AgentInv' /\ SentInv'
  BY <1>1, AgentInvNext, NothingSent DEF SystemInv, netVars
<1>3. BodyInv'
  BY AloneWaits DEF SystemInv, NetInv, BodyInv, netVars
<1>4. NetTypeOK' /\ ArrivedInv' /\ EndedInv'
  BY NetKept DEF serverVars, netVars
<1>5. IngressInv'
  BY ServerKept DEF SystemInv
<1> QED
  BY <1>2, <1>3, <1>4, <1>5 DEF SystemInv, NetInv

LEMMA SendInv ==
  ASSUME SystemInv, Send
  PROVE  SystemInv'
<1>1. /\ pc = "perform" /\ calls = <<>> /\ request = 0 /\ Len(sent) < MaxRequests
      /\ sent' = Append(sent, event_buffer) /\ request' = Len(sent')
      /\ wire' = wire \cup {request'} /\ UNCHANGED <<vars, given_up, serverVars>>
  BY DEF Send
<1>2. AgentInv' /\ UNCHANGED <<issued, event_buffer, pc, calls>> /\ InAgent' = InAgent
  <2>1. [Next]_vars
    BY <1>1
  <2>2. AgentInv'
    BY <2>1, AgentInvNext DEF SystemInv
  <2> QED
    BY <1>1, <2>2 DEF vars, InAgent, Unread
<1>3. /\ event_buffer \in Seq(0..MaxSyscalls) /\ Buf \subseteq 1..issued
      /\ Buf \subseteq InAgent
  BY BufferTyped DEF SystemInv, InAgent, Buf
<1>4. /\ sent \in Seq(Seq(0..MaxSyscalls)) /\ MaxRequests \in Nat
      /\ wire \subseteq DOMAIN sent
  BY SystemAssumption DEF SystemInv, NetInv, NetTypeOK
<1>n. PICK n \in Nat : n = Len(sent) + 1
  BY <1>4
<1>5. /\ sent' \in Seq(Seq(0..MaxSyscalls)) /\ Len(sent') = n
      /\ DOMAIN sent' = DOMAIN sent \cup {n} /\ n \notin DOMAIN sent
      /\ \A r \in DOMAIN sent : sent'[r] = sent[r]
      /\ sent'[n] = event_buffer
      /\ n \in Nat \ {0}
  BY <1>n, <1>1, <1>3, <1>4
<1>6. request' = n
  BY <1>1, <1>5
<1>7. NetTypeOK'
  <2>1. n <= MaxRequests
    BY <1>n, <1>1, <1>4
  <2> QED
    BY <1>1, <1>4, <1>5, <1>6, <2>1 DEF NetTypeOK
<1>8. /\ SentIds(n)' = Buf
      /\ \A r \in DOMAIN sent : SentIds(r)' = SentIds(r)
  BY <1>5 DEF SentIds, Buf
<1>9. SentInv'
  <2>1. \A r \in DOMAIN sent : /\ SentIds(r) \subseteq 1..issued
                               /\ \A s \in DOMAIN sent : r # s => SentIds(r) \cap SentIds(s) = {}
                               /\ SentIds(r) \cap InAgent = {}
    <3>1. 0 \notin DOMAIN sent
      BY <1>4
    <3> QED
      BY <1>1, <3>1 DEF SystemInv, NetInv, SentInv
  <2>2. ASSUME NEW r \in DOMAIN sent
        PROVE  /\ SentIds(r)' \subseteq 1..issued'
               /\ \A s \in DOMAIN sent : r # s => SentIds(r)' \cap SentIds(s)' = {}
               /\ SentIds(r)' \cap SentIds(n)' = {}
               /\ SentIds(r)' \cap InAgent' = {}
    BY <1>2, <1>3, <1>8, <2>1
  <2>3. SentIds(n)' \subseteq 1..issued'
    BY <1>2, <1>3, <1>8
  <2> QED
    BY <1>5, <1>6, <2>2, <2>3 DEF SentInv
<1>10. BodyInv'
  BY <1>1, <1>2, <1>5, <1>6 DEF BodyInv
<1>11. ArrivedInv'
  BY <1>1, <1>5 DEF SystemInv, NetInv, ArrivedInv, serverVars
<1>12. EndedInv'
  <2>1. 0 \notin DOMAIN sent
    BY <1>4
  <2> QED
    BY <1>1, <1>5, <1>6, <2>1 DEF SystemInv, NetInv, EndedInv, serverVars
<1>13. IngressInv'
  BY <1>1, ServerKept DEF SystemInv
<1> QED
  BY <1>2, <1>7, <1>9, <1>10, <1>11, <1>12, <1>13 DEF SystemInv, NetInv
-----------------------------------------------------------------------------
(* The network and the server move; the agent does not. *)

LEMMA AgentStill ==
  ASSUME SystemInv, UNCHANGED <<vars, sent, request>>
  PROVE  AgentInv' /\ SentInv' /\ BodyInv'
<1>1. [Next]_vars
  OBVIOUS
<1>2. AgentInv' /\ SentInv'
  BY <1>1, AgentInvNext, NothingSent DEF SystemInv
<1>3. BodyInv'
  BY DEF SystemInv, NetInv, BodyInv, vars
<1> QED
  BY <1>2, <1>3

LEMMA ArriveInv ==
  ASSUME SystemInv, NEW r \in Requests, Arrive(r)
  PROVE  SystemInv'
<1>1. /\ r \in wire /\ wire' = wire \ {r} /\ Ingress!Receive(r, sent[r])
      /\ UNCHANGED <<vars, sent, request, given_up>>
  BY DEF Arrive
<1>2. AgentInv' /\ SentInv' /\ BodyInv'
  BY <1>1, AgentStill
<1>3. r \in DOMAIN sent /\ sent[r] \in Seq(0..MaxSyscalls)
  BY <1>1 DEF SystemInv, NetInv, NetTypeOK
<1>4. /\ IngressInv' /\ at[r] = "idle" /\ at' = [at EXCEPT ![r] = "received"]
      /\ received' = [received EXCEPT ![r] = sent[r]]
  BY <1>1, <1>3, ReceiveInv DEF SystemInv, Served
<1>5. ServerTypes
  BY IngressParts DEF SystemInv
<1>6. NetTypeOK'
  BY <1>1 DEF SystemInv, NetInv, NetTypeOK
<1>7. ArrivedInv'
  BY <1>1, <1>3, <1>4, <1>5 DEF SystemInv, NetInv, ArrivedInv, ServerTypes, Served
<1>8. EndedInv'
  BY <1>1, <1>4, <1>5 DEF SystemInv, NetInv, EndedInv, ServerTypes
<1> QED
  BY <1>2, <1>4, <1>6, <1>7, <1>8 DEF SystemInv, NetInv

LEMMA ArriveOtherInv ==
  ASSUME SystemInv, NEW r \in OtherRequests, ArriveOther(r)
  PROVE  SystemInv'
<1>1. PICK batch \in {<<>>, <<Uncounted>>} : Ingress!Receive(r, batch)
  BY DEF ArriveOther
<1>2. AgentInv' /\ SentInv' /\ BodyInv' /\ UNCHANGED <<sent, wire, request, given_up>>
  BY AgentStill DEF ArriveOther, netVars
<1>3. batch \in Seq(0..MaxSyscalls)
  <2>1. Uncounted \in 0..MaxSyscalls
    BY HooksAssumption DEF Uncounted
  <2>2. CASE batch = <<>>
    BY <2>2
  <2>3. CASE batch = <<Uncounted>>
    BY <2>1, <2>3
  <2> QED
    BY <1>1, <2>2, <2>3
<1>4. /\ IngressInv' /\ at[r] = "idle" /\ at' = [at EXCEPT ![r] = "received"]
      /\ received' = [received EXCEPT ![r] = batch]
  BY <1>1, <1>3, ReceiveInv DEF SystemInv, Served
<1>5. ServerTypes /\ r \notin Requests
  BY IngressParts, SystemAssumption DEF SystemInv, Requests
<1>6. NetTypeOK'
  BY <1>2 DEF SystemInv, NetInv, NetTypeOK
<1>7. ArrivedInv'
  BY <1>2, <1>4, <1>5 DEF SystemInv, NetInv, ArrivedInv, ServerTypes, Served
<1>8. EndedInv'
  BY <1>2, <1>4, <1>5 DEF SystemInv, NetInv, EndedInv, ServerTypes
<1> QED
  BY <1>2, <1>4, <1>6, <1>7, <1>8 DEF SystemInv, NetInv

LEMMA VanishInv ==
  ASSUME SystemInv, NEW r \in Requests, Vanish(r)
  PROVE  SystemInv'
<1>1. wire' \subseteq wire /\ UNCHANGED <<vars, sent, request, given_up, serverVars>>
  BY DEF Vanish
<1>2. AgentInv' /\ SentInv' /\ BodyInv'
  BY <1>1, AgentStill
<1>3. NetTypeOK' /\ ArrivedInv' /\ EndedInv'
  BY <1>1, NetKept DEF serverVars
<1>4. IngressInv'
  BY <1>1, ServerKept DEF SystemInv
<1> QED
  BY <1>2, <1>3, <1>4 DEF SystemInv, NetInv

LEMMA ServedInv ==
  ASSUME SystemInv, NEW r \in Served, Serve(r)
  PROVE  SystemInv'
<1>1. Ingress!Serve(r) /\ UNCHANGED <<vars, sent, wire, request, given_up>>
  BY DEF Serve, netVars
<1>2. AgentInv' /\ SentInv' /\ BodyInv'
  BY <1>1, AgentStill
<1>3. /\ IngressInv' /\ received' = received
      /\ \A s \in Served : /\ at'[s] = "idle" <=> at[s] = "idle"
                           /\ at[s] = "answered" => at'[s] = "answered"
  BY <1>1, ServeInv DEF SystemInv
<1>4. NetTypeOK' /\ ArrivedInv' /\ EndedInv'
  BY <1>1, <1>3, NetKept
<1> QED
  BY <1>2, <1>3, <1>4 DEF SystemInv, NetInv
-----------------------------------------------------------------------------
(* Every step. *)

LEMMA NextSystem == SystemInv /\ [SystemNext]_systemVars => SystemInv'
<1> SUFFICES ASSUME SystemInv, [SystemNext]_systemVars PROVE SystemInv'
  OBVIOUS
<1>1. CASE Alone(AgentAlone) \/ Alone(KernelAlone) \/ Alone(OthersAlone)
  BY <1>1, AloneInv DEF Alone
<1>2. CASE Send
  BY <1>2, SendInv
<1>3. CASE Answered
  BY <1>3, EndsInv DEF Answered
<1>4. CASE GiveUp
  <2>1. PostReceived \/ PostFails
    BY <1>4 DEF GiveUp
  <2>2. /\ request' = 0 /\ given_up' = given_up \cup ({request} \ {0})
        /\ UNCHANGED <<sent, wire, serverVars>>
    BY <1>4 DEF GiveUp, Forget
  <2> QED
    BY <2>1, <2>2, EndsInv
<1>5. CASE Killed
  <2>1. /\ Crash /\ request' = 0 /\ given_up' = given_up \cup ({request} \ {0})
        /\ UNCHANGED <<sent, wire, serverVars>>
    BY <1>5 DEF Killed, Forget
  <2> QED
    BY <2>1, EndsInv
<1>6. CASE \E r \in Requests : Arrive(r) \/ Vanish(r)
  BY <1>6, ArriveInv, VanishInv
<1>7. CASE \E r \in OtherRequests : ArriveOther(r)
  BY <1>7, ArriveOtherInv
<1>8. CASE \E r \in Requests \cup OtherRequests : Serve(r)
  BY <1>8, ServedInv DEF Served
<1>9. CASE Quiet \/ UNCHANGED systemVars
  <2>0. UNCHANGED systemVars
    BY <1>9 DEF Quiet
  <2>1. UNCHANGED <<vars, sent, wire, request, given_up, serverVars>>
    BY <2>0 DEF systemVars, netVars
  <2>2. AgentInv' /\ SentInv' /\ BodyInv'
    BY <2>1, AgentStill
  <2>3. NetTypeOK' /\ ArrivedInv' /\ EndedInv'
    BY <2>1, NetKept DEF serverVars
  <2>4. IngressInv'
    BY <2>1, ServerKept DEF SystemInv
  <2> QED
    BY <2>2, <2>3, <2>4 DEF SystemInv, NetInv
<1> QED
  BY <1>1, <1>2, <1>3, <1>4, <1>5, <1>6, <1>7, <1>8, <1>9, Zenon DEF SystemNext

LEMMA SystemInvariance == SystemSpec => []SystemInv
  BY InitSystem, NextSystem, PTL DEF SystemSpec

(* The server is given an event at most once, whatever fails and whoever gives
   a request up.  submit_events: no retry, and handle_event empties the buffer
   in any case. *)
THEOREM EventsReceivedOnce == SystemSpec => []ReceivedOnce
<1>1. SystemInv => ReceivedOnce
  <2> SUFFICES ASSUME SystemInv, NEW r \in Requests
               PROVE  /\ \A s \in Requests : r # s => Events(r) \cap Events(s) = {}
                      /\ Events(r) \cap InAgent # {} => r = request
    BY DEF ReceivedOnce
  <2>1. \A s \in Requests :
           \/ Events(s) = {}
           \/ s \in DOMAIN sent /\ Events(s) = SentIds(s)
    BY DEF SystemInv, NetInv, ArrivedInv, Events, SentIds, Ids, Elems
  <2> QED
    BY <2>1 DEF SystemInv, NetInv, SentInv
<1> QED
  BY <1>1, SystemInvariance, PTL

(* A request overtakes another, or is served beside it, only after the agent
   gave that one up: submit_events waits for the answer. *)
THEOREM OvertakenOnlyIfGivenUp == SystemSpec => []OnlyGivenUpOvertaken
<1>1. SystemInv => OnlyGivenUpOvertaken
  <2> SUFFICES ASSUME SystemInv, NEW r \in Requests, NEW s \in Requests, r < s,
                      at[s] # "idle"
               PROVE  at[r] = "answered" \/ r \in given_up
    BY DEF OnlyGivenUpOvertaken
  <2>1. /\ s \in DOMAIN sent /\ sent \in Seq(Seq(0..MaxSyscalls))
        /\ request \in {0, Len(sent)}
    BY DEF SystemInv, NetInv, NetTypeOK, ArrivedInv
  <2>2. r \in DOMAIN sent /\ r # request
    BY <2>1 DEF Requests
  <2> QED
    BY <2>2 DEF SystemInv, NetInv, EndedInv
<1> QED
  BY <1>1, SystemInvariance, PTL

(* Every variable of the log ingress keeps its type, and a transaction inserts
   nothing but the first event of its request.  submit_logs. *)
THEOREM IngressTypeCorrect == SystemSpec => []IngressTypeOK
<1>1. SystemInv => IngressTypeOK
  BY DEF SystemInv, IngressInv
<1> QED
  BY <1>1, SystemInvariance, PTL

(* An answered request holds no connection and no lock on a row, whatever went
   wrong.  submit_logs: the finally clause. *)
THEOREM ConnectionsReturned == SystemSpec => []NoConnectionLeft
<1>1. SystemInv => NoConnectionLeft
  BY DEF SystemInv, IngressInv, NoConnectionLeft, Ingress!NoConnectionLeft, Served, Resting
<1> QED
  BY <1>1, SystemInvariance, PTL

(* The agent of the whole system posts exactly one batch at a time, although
   its POST now ends when the server answers it.  handle_event. *)
THEOREM SystemPostsExactBatches == SystemSpec => []ExactBatch
<1>1. SystemInv => ExactBatch
  BY BatchIsExact DEF SystemInv, AgentInv
<1> QED
  BY <1>1, SystemInvariance, PTL
-----------------------------------------------------------------------------
(* The order of what is sent. *)

Before(S, T) == \A e \in S, f \in T : e < f

(* A body is in order, comes before those of later requests, and before all
   that the agent holds besides it. *)
SentOrdered ==
    \A r \in DOMAIN sent :
       /\ \A i, j \in DOMAIN sent[r] :
             i < j /\ sent[r][i] # Uncounted /\ sent[r][j] # Uncounted => sent[r][i] < sent[r][j]
       /\ \A s \in DOMAIN sent : r < s => Before(SentIds(r), SentIds(s))
       /\ Before(SentIds(r), InAgent \ SentIds(r))

(* Every step but Send is one of the agent, or leaves it alone. *)
LEMMA SystemSteps ==
  ASSUME [SystemNext]_systemVars
  PROVE  /\ [Next]_vars
         /\ Send \/ UNCHANGED sent
<1>1. CASE Alone(AgentAlone) \/ Alone(KernelAlone) \/ Alone(OthersAlone)
  BY <1>1, AgentSteps DEF Alone, netVars
<1>2. CASE Send
  BY <1>2 DEF Send
<1>3. CASE Answered
  BY <1>3, AgentSteps DEF Answered
<1>4. CASE GiveUp
  BY <1>4, AgentSteps DEF GiveUp, Forget
<1>5. CASE Killed
  BY <1>5, AgentSteps DEF Killed, Forget
<1>6. CASE \E r \in Requests : Arrive(r) \/ Vanish(r)
  BY <1>6 DEF Arrive, Vanish
<1>7. CASE \E r \in OtherRequests : ArriveOther(r)
  BY <1>7 DEF ArriveOther, netVars
<1>8. CASE \E r \in Requests \cup OtherRequests : Serve(r)
  BY <1>8 DEF Serve, netVars
<1>9. CASE Quiet \/ UNCHANGED systemVars
  BY <1>9 DEF Quiet, systemVars, netVars
<1> QED
  BY <1>1, <1>2, <1>3, <1>4, <1>5, <1>6, <1>7, <1>8, <1>9, Zenon DEF SystemNext

(* What comes into the agent is younger than all that was sent. *)
LEMMA OrderKept ==
  ASSUME SystemInv, SentOrdered, [Next]_vars, UNCHANGED sent
  PROVE  SentOrdered'
<1>1. /\ issued \in Nat
      /\ \/ issued' = issued /\ InAgent' \subseteq InAgent
         \/ issued' = issued + 1 /\ InAgent' \subseteq InAgent \cup {issued + 1}
  BY AgentInvNext DEF SystemInv, AgentInv, Inv, HooksInv, HooksTypeOK
<1>2. \A r \in DOMAIN sent : SentIds(r)' = SentIds(r)
  BY DEF SentIds
<1>3. ASSUME NEW r \in DOMAIN sent PROVE Before(SentIds(r), InAgent' \ SentIds(r))
  <2>1. SentIds(r) \subseteq 1..issued
    BY DEF SystemInv, NetInv, SentInv
  <2>2. \A e \in SentIds(r) : \A f \in InAgent \ SentIds(r) : e < f
    BY DEF SentOrdered, Before
  <2>3. \A e \in SentIds(r) : e < issued + 1
    BY <1>1, <2>1
  <2>4. \A f \in InAgent' \ SentIds(r) : f \in InAgent \ SentIds(r) \/ f = issued + 1
    BY <1>1
  <2> QED
    BY <2>2, <2>3, <2>4 DEF Before
<1> QED
  BY <1>2, <1>3 DEF SentOrdered, Before

(* The buffer is sent when all that was sent before has left the agent. *)
LEMMA OrderSend ==
  ASSUME SystemInv, SentOrdered, Send
  PROVE  SentOrdered'
<1>1. /\ request = 0 /\ sent' = Append(sent, event_buffer) /\ UNCHANGED vars
      /\ sent \in Seq(Seq(0..MaxSyscalls)) /\ Len(sent) \in Nat
      /\ event_buffer \in Seq(0..MaxSyscalls)
  BY BufferTyped DEF Send, SystemInv, NetInv, NetTypeOK
<1>n. PICK n \in Nat : n = Len(sent) + 1
  BY <1>1
<1>2. /\ DOMAIN sent = 1..(n - 1) /\ DOMAIN sent' = DOMAIN sent \cup {n}
      /\ \A r \in DOMAIN sent : sent'[r] = sent[r] /\ r < n /\ r # 0
      /\ sent'[n] = event_buffer
  BY <1>n, <1>1
<1>3. SentIds(n)' = Buf /\ \A r \in DOMAIN sent : SentIds(r)' = SentIds(r)
  BY <1>2 DEF SentIds, Buf
<1>4. InAgent' = InAgent /\ InAgent = Buf \cup Pending
  BY <1>1, AgentEvents DEF vars, InAgent, Unread, SystemInv, AgentInv
<1>5. BufferOrdered /\ BufferFirst
  BY InOrderParts DEF SystemInv, AgentInv, FlowInv
<1>6. ASSUME NEW r \in DOMAIN sent PROVE Before(SentIds(r), InAgent)
  <2>1. SentIds(r) \cap InAgent = {}
    BY <1>1, <1>2 DEF SystemInv, NetInv, SentInv
  <2>2. Before(SentIds(r), InAgent \ SentIds(r))
    BY DEF SentOrdered
  <2> QED
    BY <2>1, <2>2 DEF Before
<1>7. ASSUME NEW r \in DOMAIN sent'
      PROVE  \A i, j \in DOMAIN sent'[r] :
                i < j /\ sent'[r][i] # Uncounted /\ sent'[r][j] # Uncounted
                => sent'[r][i] < sent'[r][j]
  <2>1. CASE r \in DOMAIN sent
    BY <1>2, <2>1 DEF SentOrdered
  <2>2. CASE r = n
    BY <1>2, <1>5, <2>2 DEF BufferOrdered
  <2> QED
    BY <1>2, <2>1, <2>2
<1>8. ASSUME NEW r \in DOMAIN sent', NEW s \in DOMAIN sent', r < s
      PROVE  Before(SentIds(r)', SentIds(s)')
  <2>1. r \in DOMAIN sent
    BY <1>2, <1>8
  <2>2. CASE s \in DOMAIN sent
    BY <1>3, <1>8, <2>1, <2>2 DEF SentOrdered
  <2>3. CASE s = n
    BY <1>3, <1>4, <1>6, <2>1, <2>3 DEF Before
  <2> QED
    BY <1>2, <2>2, <2>3
<1>9. ASSUME NEW r \in DOMAIN sent' PROVE Before(SentIds(r)', InAgent' \ SentIds(r)')
  <2>1. CASE r \in DOMAIN sent
    BY <1>3, <1>4, <1>6, <2>1 DEF Before
  <2>2. CASE r = n
    BY <1>3, <1>4, <1>5, <2>2 DEF Before, BufferFirst
  <2> QED
    BY <1>2, <2>1, <2>2
<1> QED
  BY <1>7, <1>8, <1>9 DEF SentOrdered, Before

LEMMA OrderInvariance == SystemSpec => [](SystemInv /\ SentOrdered)
<1>1. SystemInit => SentOrdered
  <2>1. sent = <<>> => DOMAIN sent = {}
    OBVIOUS
  <2> QED
    BY <2>1 DEF SystemInit, SentOrdered
<1>2. SystemInv /\ SentOrdered /\ [SystemNext]_systemVars => SentOrdered'
  BY SystemSteps, OrderKept, OrderSend
<1> QED
  BY <1>1, <1>2, SystemInvariance, PTL DEF SystemSpec

(* Requests carry the events of the agent in the order of their system calls,
   within a body and from one body to the next: a server that is given two
   requests of the agent can put their events in order by the number of the
   request, in whatever order the two arrived and whatever was given up. *)
THEOREM RequestsInOrder ==
  SystemSpec => []\A r, s \in Requests :
                     /\ r < s => Before(Events(r), Events(s))
                     /\ \A i, j \in DOMAIN received[r] :
                           i < j /\ received[r][i] # Uncounted /\ received[r][j] # Uncounted
                           => received[r][i] < received[r][j]
<1>1. SystemInv /\ SentOrdered =>
        \A r, s \in Requests :
           /\ r < s => Before(Events(r), Events(s))
           /\ \A i, j \in DOMAIN received[r] :
                 i < j /\ received[r][i] # Uncounted /\ received[r][j] # Uncounted
                 => received[r][i] < received[r][j]
  <2> SUFFICES ASSUME SystemInv, SentOrdered, NEW r \in Requests, NEW s \in Requests
               PROVE  /\ r < s => Before(Events(r), Events(s))
                      /\ \A i, j \in DOMAIN received[r] :
                            i < j /\ received[r][i] # Uncounted /\ received[r][j] # Uncounted
                            => received[r][i] < received[r][j]
    OBVIOUS
  <2>1. \A q \in Requests :
           \/ received[q] = <<>> /\ Events(q) = {}
           \/ q \in DOMAIN sent /\ received[q] = sent[q] /\ Events(q) = SentIds(q)
    BY DEF SystemInv, NetInv, ArrivedInv, Events, SentIds, Ids, Elems
  <2>2. r < s => Before(Events(r), Events(s))
    BY <2>1 DEF SentOrdered, Before
  <2>3. DOMAIN <<>> = {}
    OBVIOUS
  <2> QED
    BY <2>1, <2>2, <2>3 DEF SentOrdered
<1> QED
  BY <1>1, OrderInvariance, PTL

-----------------------------------------------------------------------------
(* The agent's account and the server's. *)

PostedInv ==
    /\ \A e \in posted : \E r \in Requests : e \in Events(r)
    /\ \A r \in DOMAIN sent :
          SentIds(r) \subseteq posted \/ r = request \/ r \in given_up

(* A step that leaves the agent's account and its requests alone. *)
LEMMA AccountKept ==
  ASSUME PostedInv, UNCHANGED <<posted, sent, request, given_up>>,
         \A r \in Requests : Events(r) \subseteq Events(r)'
  PROVE  PostedInv'
<1>1. \A r \in DOMAIN sent : SentIds(r)' = SentIds(r)
  BY DEF SentIds
<1> QED
  BY <1>1 DEF PostedInv

(* The agent by itself posts nothing. *)
LEMMA AloneAccount ==
  ASSUME AgentAlone \/ KernelAlone \/ OthersAlone
  PROVE  posted' = posted
<1>1. CASE Startup
  BY <1>1 DEF Startup, Configure, ConfigureFails, OpenAndLoad, OpenAndLoadFails,
              AttachHook, AttachFails, NewRing, NewRingFails, agentVars
<1>2. CASE Loop
  BY <1>2 DEF Loop, PollAgain, LeaveLoop, Wake, Timeout, Skip, DrainEnds, Close, agentVars
<1>3. CASE Collect \/ Submit \/ PerformCall \/ SubmitFails
  BY <1>3 DEF Collect, Submit, PerformCall, SubmitFails, HandleEvent
<1>4. CASE KernelAlone \/ Interrupted \/ Sigterm \/ Restart \/ \E t \in Tasks : Syscall(t)
  BY <1>4 DEF KernelAlone, Hook, Interrupted, Sigterm, Restart, Syscall, agentVars
<1> QED
  BY <1>1, <1>2, <1>3, <1>4 DEF AgentAlone, OthersAlone

(* A POST ends: it is counted only if the server has it. *)
LEMMA EndsAccount ==
  ASSUME SystemInv, PostedInv, UNCHANGED <<sent, received>>, request' = 0,
         \/ /\ request # 0 /\ at[request] # "idle"
            /\ posted' = posted \cup Buf
         \/ posted' = posted /\ given_up' = given_up \cup ({request} \ {0}),
         \/ given_up' = given_up /\ posted' = posted \cup Buf
         \/ given_up' = given_up \cup ({request} \ {0})
  PROVE  PostedInv'
<1>1. (\A r \in DOMAIN sent : SentIds(r)' = SentIds(r)) /\ \A r \in Requests : Events(r)' = Events(r)
  BY DEF SentIds, Events
<1>2. sent \in Seq(Seq(0..MaxSyscalls)) /\ request \in {0, Len(sent)} /\ Len(sent) <= MaxRequests
  BY DEF SystemInv, NetInv, NetTypeOK
<1>3. request # 0 => request \in DOMAIN sent /\ request \in Requests /\ SentIds(request) = Buf
  BY <1>2, SystemAssumption DEF SystemInv, NetInv, BodyInv, SentIds, Buf, Requests
<1>4. ASSUME request # 0, at[request] # "idle" PROVE Events(request) = Buf
  BY <1>3, <1>4 DEF SystemInv, NetInv, ArrivedInv, Events, SentIds
<1>5. \A e \in posted' : \E r \in Requests : e \in Events(r)'
  BY <1>1, <1>3, <1>4 DEF PostedInv
<1>6. ASSUME NEW r \in DOMAIN sent
      PROVE  SentIds(r)' \subseteq posted' \/ r \in given_up'
  <2>1. CASE r = request
    BY <1>1, <1>2, <1>3, <2>1
  <2>2. CASE r # request
    BY <1>1, <2>2 DEF PostedInv
  <2> QED
    BY <2>1, <2>2
<1> QED
  BY <1>5, <1>6 DEF PostedInv

LEMMA SendAccount ==
  ASSUME SystemInv, PostedInv, Send
  PROVE  PostedInv'
<1>1. /\ request = 0 /\ sent' = Append(sent, event_buffer) /\ request' = Len(sent')
      /\ UNCHANGED <<posted, given_up, received>>
      /\ sent \in Seq(Seq(0..MaxSyscalls)) /\ event_buffer \in Seq(0..MaxSyscalls)
  BY BufferTyped DEF Send, SystemInv, NetInv, NetTypeOK, vars, serverVars
<1>2. /\ DOMAIN sent' = DOMAIN sent \cup {request'}
      /\ \A r \in DOMAIN sent : sent'[r] = sent[r] /\ r # 0
  BY <1>1
<1>3. (\A r \in DOMAIN sent : SentIds(r)' = SentIds(r)) /\ \A r \in Requests : Events(r)' = Events(r)
  BY <1>1, <1>2 DEF SentIds, Events
<1> QED
  BY <1>1, <1>2, <1>3 DEF PostedInv

LEMMA NextAccount ==
  ASSUME SystemInv, PostedInv, [SystemNext]_systemVars
  PROVE  PostedInv'
<1>1. CASE Alone(AgentAlone) \/ Alone(KernelAlone) \/ Alone(OthersAlone)
  <2>1. posted' = posted /\ UNCHANGED <<sent, request, given_up, received>>
    BY <1>1, AloneAccount DEF Alone, netVars, serverVars
  <2> QED
    BY <2>1, AccountKept DEF Events
<1>2. CASE Send
  BY <1>2, SendAccount
<1>3. CASE Answered
  BY <1>3, EndsAccount DEF Answered, PostReceived, serverVars, Buf
<1>4. CASE GiveUp
  <2>1. /\ request' = 0 /\ given_up' = given_up \cup ({request} \ {0})
        /\ UNCHANGED <<sent, received>>
    BY <1>4 DEF GiveUp, Forget, serverVars
  <2>2. \/ IsReceived /\ posted' = posted \cup Buf
        \/ posted' = posted
    BY <1>4 DEF GiveUp, PostReceived, PostFails, Buf
  <2> QED
    BY <2>1, <2>2, EndsAccount DEF IsReceived
<1>5. CASE Killed
  <2>1. /\ request' = 0 /\ given_up' = given_up \cup ({request} \ {0})
        /\ UNCHANGED <<sent, received>>
    BY <1>5 DEF Killed, Forget, serverVars
  <2>2. \/ IsReceived /\ posted' = posted \cup Buf
        \/ posted' = posted
    BY <1>5 DEF Killed, Buf
  <2> QED
    BY <2>1, <2>2, EndsAccount DEF IsReceived
<1>6. ASSUME NEW q \in Requests, Arrive(q) PROVE PostedInv'
  <2>1. UNCHANGED <<posted, sent, request, given_up>> /\ at[q] = "idle"
        /\ received' = [received EXCEPT ![q] = sent[q]]
    BY <1>6 DEF Arrive, Ingress!Receive, Ingress!Goto, vars
  <2>2. received \in [Served -> Seq(0..MaxSyscalls)] /\ received[q] = <<>>
    BY <2>1, IngressParts DEF SystemInv, ServerTypes, NetInv, ArrivedInv
  <2>3. \A r \in Requests : Events(r) = {} \/ Events(r)' = Events(r)
    BY <2>1, <2>2 DEF Events, Ids, Elems, Served
  <2> QED
    BY <2>1, <2>3, AccountKept
<1>7. ASSUME NEW q \in Requests, Vanish(q) PROVE PostedInv'
  <2>1. UNCHANGED <<posted, sent, request, given_up, received>>
    BY <1>7 DEF Vanish, vars, serverVars
  <2> QED
    BY <2>1, AccountKept DEF Events
<1>8. ASSUME NEW q \in OtherRequests, ArriveOther(q) PROVE PostedInv'
  <2>1. UNCHANGED <<posted, sent, request, given_up>>
        /\ \E b : received' = [received EXCEPT ![q] = b]
    BY <1>8 DEF ArriveOther, Ingress!Receive, Ingress!Goto, vars, netVars
  <2>2. received \in [Served -> Seq(0..MaxSyscalls)] /\ q \notin Requests
    BY IngressParts, SystemAssumption DEF SystemInv, ServerTypes, Requests
  <2>3. \A r \in Requests : Events(r)' = Events(r)
    BY <2>1, <2>2 DEF Events, Served
  <2> QED
    BY <2>1, <2>3, AccountKept
<1>9. ASSUME NEW q \in Served, Serve(q) PROVE PostedInv'
  <2>1. UNCHANGED <<posted, sent, request, given_up, received>>
    BY <1>9, ServeInv DEF Serve, vars, netVars, SystemInv
  <2> QED
    BY <2>1, AccountKept DEF Events
<1>10. CASE Quiet \/ UNCHANGED systemVars
  <2>1. UNCHANGED <<posted, sent, request, given_up, received>>
    BY <1>10 DEF Quiet, systemVars, vars, netVars, serverVars
  <2> QED
    BY <2>1, AccountKept DEF Events
<1> QED
  BY <1>1, <1>2, <1>3, <1>4, <1>5, <1>6, <1>7, <1>8, <1>9, <1>10, Zenon DEF SystemNext, Served

(* What the agent counts as posted was received by the server, and all that the
   server received is counted so, but for the request that runs and those that
   were given up, which may arrive and be counted as lost. *)
THEOREM PostedWasReceived == SystemSpec => []PostedIsReceived
<1>1. SystemInit => PostedInv
  <2>1. sent = <<>> => DOMAIN sent = {}
    OBVIOUS
  <2> QED
    BY <2>1 DEF SystemInit, Init, PostedInv
<1>2. SystemInv /\ PostedInv => PostedIsReceived
  <2> SUFFICES ASSUME SystemInv, PostedInv, NEW r \in Requests
               PROVE  Events(r) \subseteq posted \/ r = request \/ r \in given_up
    BY DEF PostedIsReceived, PostedInv
  <2>1. Events(r) = {} \/ (r \in DOMAIN sent /\ Events(r) = SentIds(r))
    BY DEF SystemInv, NetInv, ArrivedInv, Events, SentIds, Ids, Elems
  <2> QED
    BY <2>1 DEF PostedInv
<1> QED
  BY <1>1, <1>2, NextAccount, SystemInvariance, PTL DEF SystemSpec
=============================================================================
