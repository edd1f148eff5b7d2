------------------------ MODULE MonitoringAgent_proofs ------------------------
(***************************************************************************)
(* The safety of the monitoring agent, for any number of tasks, any size   *)
(* of ring and buffer, any batch size and any set of faults.               *)
(*                                                                         *)
(* The inductive invariant Inv adds to the properties: the numbers in the  *)
(* buffer are those of system calls (what makes lost a set of them when    *)
(* the process dies), the head of the ring is a ready record during a POST *)
(* (what libbpf then moves past is not held by a handler), a buffer        *)
(* without curl faults is below one batch outside a POST, and a process    *)
(* that has not opened the ring yet has an empty buffer.                   *)
(***************************************************************************)
EXTENDS MonitoringAgent, KernelHooks_proofs, TLAPS
-----------------------------------------------------------------------------
(* The process. *)

Stopped == {"start", "configured", "exited", "failed"}

AgentTypeOK == /\ pc \in States
               /\ event_buffer \in Seq(Nat)
               /\ exit_flag \in BOOLEAN
               /\ calls \in Seq(Calls)
               /\ posted \in SUBSET (1..issued)

BufferIssued == \A i \in DOMAIN event_buffer : event_buffer[i] <= issued

HeadReady == pc = "perform" => HeadIs("ready")

BatchInv == "curl_init" \notin Faults =>
               IF pc = "perform" THEN event_count = batch_size
                                 ELSE event_count < batch_size

EmptyAtStart == pc = "loaded" => event_buffer = <<>>

(* handle_event stores one entry past the end at most. *)
BufferBound == event_count <= buffer_size + 1

BufferInv == BufferBound /\ BatchInv

Inv == /\ HooksInv
       /\ AgentTypeOK
       /\ BufferIssued
       /\ HeadReady
       /\ BufferInv
       /\ NothingLeft
       /\ EmptyAtStart
-----------------------------------------------------------------------------
(* Initially, and what the invariant says of each part of the state. *)

LEMMA InitInv == Init => Inv
<1> SUFFICES ASSUME Init PROVE Inv
  OBVIOUS
<1> USE DEF Init
<1>1. HooksInv
  BY HooksInitInv
<1>2. event_buffer \in Seq(Nat) /\ calls \in Seq(Calls) /\ Len(event_buffer) = 0
  OBVIOUS
<1>3. AgentTypeOK
  BY <1>2 DEF AgentTypeOK, States, HooksInit
<1>4. BufferIssued /\ HeadReady /\ EmptyAtStart
  BY <1>2 DEF BufferIssued, HeadReady, EmptyAtStart
<1>5. BufferInv
  BY <1>2, AgentAssumption
     DEF BufferInv, BufferBound, BatchInv, event_count
<1>6. NothingLeft
  BY DEF NothingLeft, HooksInit
<1> QED
  BY <1>1, <1>3, <1>4, <1>5, <1>6 DEF Inv

(* The first record of a ring that has one. *)
LEMMA HeadRecord ==
  ASSUME Inv, ring # <<>>
  PROVE  /\ 1 \in DOMAIN ring
         /\ Head(ring) = ring[1]
         /\ Head(ring).id \in Nat
         /\ Head(ring).id <= issued
         /\ Ids({Head(ring).id}) \subseteq 1..issued
<1>1. /\ ring \in Seq(Record)
      /\ issued \in Nat
      /\ IdsIssued
  BY DEF Inv, HooksInv, HooksTypeOK
<1>2. 1 \in DOMAIN ring /\ Head(ring) = ring[1]
  BY <1>1
<1>3. Head(ring).id \in Nat /\ Head(ring).id <= issued
  BY <1>1, <1>2, RecordFields DEF IdsIssued
<1> DEFINE n == Head(ring).id
<1> HIDE DEF n
<1>4. Ids({n}) \subseteq 1..issued
  BY <1>1, <1>3 DEF Ids, Uncounted, n
<1> QED
  BY <1>2, <1>3, <1>4 DEF n

(* The events in the agent are numbers of system calls. *)
LEMMA BufferIds ==
  ASSUME Inv
  PROVE  Ids(Elems(event_buffer)) \subseteq 1..issued
<1> SUFFICES ASSUME NEW x \in Ids(Elems(event_buffer)) PROVE x \in 1..issued
  OBVIOUS
<1>1. PICK i \in DOMAIN event_buffer : x = event_buffer[i] /\ x # 0
  BY DEF Ids, Elems, Uncounted
<1>2. x \in Nat /\ x <= issued /\ issued \in Nat
  BY <1>1 DEF Inv, AgentTypeOK, BufferIssued, HooksInv, HooksTypeOK
<1> QED
  BY <1>1, <1>2

LEMMA RingIds ==
  ASSUME Inv
  PROVE  InRing(ring) \subseteq 1..issued
<1>1. ring \in Seq(Record) /\ issued \in Nat /\ \A i \in DOMAIN ring : ring[i].id <= issued
  BY DEF Inv, HooksInv, HooksTypeOK, IdsIssued
<1> QED
  BY <1>1, InRingIssued

LEMMA InAgentIds ==
  ASSUME Inv
  PROVE  InAgent \subseteq 1..issued
<1>1. CASE pc # "perform"
  BY <1>1, BufferIds, RingIds DEF InAgent, Unread
<1>2. CASE pc = "perform"
  <2>1. ring \in Seq(Record) /\ ring # <<>> /\ issued \in Nat
    BY <1>2 DEF Inv, HooksInv, HooksTypeOK, HeadReady, HeadIs
  <2>2. /\ Tail(ring) \in Seq(Record)
        /\ \A i \in DOMAIN Tail(ring) : i + 1 \in DOMAIN ring /\ Tail(ring)[i] = ring[i + 1]
    BY <2>1
  <2>3. \A i \in DOMAIN Tail(ring) : Tail(ring)[i].id <= issued
    BY <2>2 DEF Inv, HooksInv, IdsIssued
  <2>4. InRing(Tail(ring)) \subseteq 1..issued
    BY <2>1, <2>2, <2>3, InRingIssued
  <2> QED
    BY <1>2, <2>4, BufferIds DEF InAgent, Unread
<1> QED
  BY <1>1, <1>2
-----------------------------------------------------------------------------
(* Steps that move nothing: only pc, exit_flag and attached change. *)

StillRing == UNCHANGED <<ring, hook, issued, lost, event_buffer, calls, posted>>

LEMMA StillRingInv ==
  ASSUME Inv, StillRing,
         attached' \in 0..Len(Handlers), exit_flag' \in BOOLEAN, pc' \in States,
         (pc' # "perform" /\ pc # "perform") \/ pc' = pc,
         pc' \in Stopped => pc \in Stopped /\ attached' = 0,
         pc' = "loaded" => pc \in Stopped \cup {"loaded"}
  PROVE  Inv'
<1> USE DEF Inv, StillRing
<1>1. HooksInv'
  BY UnchangedHooksInv DEF HooksInv, HooksTypeOK
<1>2. AgentTypeOK' /\ BufferIssued'
  BY DEF AgentTypeOK, BufferIssued
<1>3. HeadReady'
  BY DEF HeadReady, HeadIs
<1>4. BufferInv'
  BY DEF BufferInv, BufferBound, BatchInv, event_count
<1>5. NothingLeft' /\ EmptyAtStart'
  BY DEF NothingLeft, EmptyAtStart, Stopped
<1> QED
  BY <1>1, <1>2, <1>3, <1>4, <1>5

(* Steps of the handlers: the agent's memory is not touched, and the head of
   the ring stays as it is once it is ready. *)
LEMMA HookInv ==
  ASSUME Inv, HooksInv', issued' \in Nat, issued' >= issued,
         HeadIs("ready") => HeadIs("ready")',
         pc \notin Stopped, UNCHANGED <<pc, event_buffer, exit_flag, posted>>,
         calls' \in Seq(Calls)
  PROVE  Inv'
<1> USE DEF Inv
<1>1. issued \in Nat
  BY DEF HooksInv, HooksTypeOK
<1>2. AgentTypeOK'
  BY <1>1 DEF AgentTypeOK
<1>3. BufferIssued'
  BY <1>1 DEF BufferIssued, AgentTypeOK
<1>4. HeadReady'
  BY DEF HeadReady
<1>5. BufferInv'
  BY DEF BufferInv, BufferBound, BatchInv, event_count
<1>6. NothingLeft' /\ EmptyAtStart'
  BY DEF NothingLeft, EmptyAtStart, Stopped
<1> QED
  BY <1>2, <1>3, <1>4, <1>5, <1>6

LEMMA RunningTasks ==
  ASSUME Inv, NEW t \in Hooked, attached # 0 \/ hook[t] # "idle"
  PROVE  pc \notin Stopped
  BY DEF Inv, NothingLeft, Stopped

(* A call is traced once its handler is attached. *)
LEMMA AttachedCall ==
  ASSUME Inv, NEW call \in InPlace
  PROVE  attached # 0
  BY DEF InPlace, Inv, HooksInv, HooksTypeOK

(* Reserving a record does not change the head of the ring. *)
LEMMA ReserveHead ==
  ASSUME Inv, NEW t, NEW call, NEW id \in Nat, t \in Hooked,
         Reserve(t, call, id) \/ ReserveFails(t, call, id), HeadIs("ready")
  PROVE  HeadIs("ready")'
<1>1. ring \in Seq(Record) /\ ring # <<>>
  BY DEF Inv, HooksInv, HooksTypeOK, HeadIs
<1>2. CASE Reserve(t, call, id)
  <2> DEFINE r == [task |-> t, id |-> id, state |-> "busy"]
  <2>1. r \in Record
    BY DEF Record
  <2>2. ring' = Append(ring, r)
    BY <1>2 DEF Reserve
  <2> HIDE DEF r
  <2>3. ring' # <<>> /\ Head(ring') = Head(ring)
    BY <1>1, <2>1, <2>2
  <2> QED
    BY <2>3 DEF HeadIs
<1>3. CASE ReserveFails(t, call, id)
  BY <1>3 DEF ReserveFails, HeadIs
<1> QED
  BY <1>2, <1>3

(* A handler that finishes frees its own record, which was busy. *)
LEMMA FinishHead ==
  ASSUME Inv, NEW t \in Hooked, Finish(t), HeadIs("ready")
  PROVE  HeadIs("ready")'
<1>1. hook[t] # "idle" /\ HooksInv
  BY DEF Finish, bpf_ringbuf_submit, bpf_ringbuf_discard, Calls, Inv
<1>2. PICK m \in {"ready", "discarded"} : ring' = Marked(t, m)
  BY DEF Finish, bpf_ringbuf_submit, bpf_ringbuf_discard
<1>3. /\ ring' \in Seq(Record)
      /\ Len(ring') = Len(ring)
      /\ \A j \in DOMAIN ring : j # Held(t) => ring'[j] = ring[j]
  BY <1>1, <1>2, MarkedRing
<1>4. ring[Held(t)].state = "busy"
  BY <1>1, HeldBusy
<1>5. 1 \in DOMAIN ring /\ ring[1].state = "ready" /\ ring \in Seq(Record)
  BY HeadRecord DEF HeadIs, Inv, HooksInv, HooksTypeOK
<1>6. ring'[1].state = "ready"
  BY <1>3, <1>4, <1>5
<1>7. ring' # <<>> /\ Head(ring') = ring'[1]
  BY <1>3, <1>5
<1> QED
  BY <1>6, <1>7 DEF HeadIs
-----------------------------------------------------------------------------
(* The handlers' steps. *)

LEMMA SyscallInv ==
  ASSUME Inv, NEW t \in Tasks, Syscall(t)
  PROVE  Inv'
<1>1. PICK call \in Calls : Enter(t, call)
  BY DEF Syscall, Traced, Calls, handle_sendto, handle_socket, handle_open, handle_execve
<1>2. t \in Hooked /\ issued \in Nat /\ HooksInv
  BY DEF Hooked, Inv, HooksInv, HooksTypeOK
<1>3. HooksInv'
  BY <1>2, TracedInv DEF Syscall
<1>4. HeadIs("ready") => HeadIs("ready")'
  BY <1>1, <1>2, ReserveHead DEF Enter
<1>5. pc \notin Stopped
  BY <1>1, <1>2, AttachedCall, RunningTasks DEF Enter, Reserve, ReserveFails
<1>6. issued' \in Nat /\ issued' >= issued
  BY <1>1, <1>2 DEF Enter
<1>7. UNCHANGED <<pc, event_buffer, exit_flag, posted>> /\ calls' \in Seq(Calls)
  BY DEF Syscall, agentVars, Inv, AgentTypeOK
<1> QED
  BY <1>3, <1>4, <1>5, <1>6, <1>7, HookInv

LEMMA UncountedInv ==
  ASSUME Inv, NEW t \in Hooked, NEW call \in Calls, UncountedCall(t, call),
         UNCHANGED <<pc, event_buffer, exit_flag, posted>>, calls' \in Seq(Calls)
  PROVE  Inv'
<1>1. HooksInv /\ issued \in Nat /\ issued' = issued
  BY DEF UncountedCall, Inv, HooksInv, HooksTypeOK
<1>2. HooksInv'
  BY <1>1, UncountedCallInv
<1>3. HeadIs("ready") => HeadIs("ready")'
  BY ReserveHead DEF UncountedCall, Uncounted
<1>4. pc \notin Stopped
  BY AttachedCall, RunningTasks DEF UncountedCall, Reserve, ReserveFails
<1> QED
  BY <1>1, <1>2, <1>3, <1>4, HookInv

LEMMA TrafficInv ==
  ASSUME Inv, NEW t \in Endless, Traffic(t)
  PROVE  Inv'
<1>1. PICK call \in Calls : UncountedCall(t, call)
  BY DEF Traffic
<1>2. t \in Hooked /\ UNCHANGED agentVars /\ calls \in Seq(Calls)
  BY AgentAssumption DEF Hooked, Traffic, Inv, AgentTypeOK
<1> QED
  BY <1>1, <1>2, UncountedInv DEF agentVars

LEMMA HandlerInv ==
  ASSUME Inv, NEW t \in Hooked, Hook(t)
  PROVE  Inv'
<1>1. HooksInv /\ issued \in Nat
  BY DEF Inv, HooksInv, HooksTypeOK
<1>2. HooksInv'
  BY <1>1, FinishInv DEF Hook
<1>3. HeadIs("ready") => HeadIs("ready")'
  BY FinishHead DEF Hook
<1>4. pc \notin Stopped /\ issued' = issued
  BY RunningTasks DEF Hook, Finish, bpf_ringbuf_submit, bpf_ringbuf_discard, Calls
<1>5. UNCHANGED <<pc, event_buffer, exit_flag, posted>> /\ calls' \in Seq(Calls)
  BY DEF Hook, agentVars, Inv, AgentTypeOK
<1> QED
  BY <1>1, <1>2, <1>3, <1>4, <1>5, HookInv

LEMMA PerformCallInv ==
  ASSUME Inv, PerformCall
  PROVE  Inv'
<1>1. calls \in Seq(Calls) /\ calls # <<>> /\ Agent \in Hooked
  BY DEF PerformCall, Inv, AgentTypeOK, Hooked
<1>2. Head(calls) \in Calls /\ Tail(calls) \in Seq(Calls)
  BY <1>1
<1> QED
  BY <1>1, <1>2, UncountedInv DEF PerformCall
-----------------------------------------------------------------------------
(* The steps that only move pc. *)

LEMMA LoopInv ==
  ASSUME Inv,
         \/ Configure \/ ConfigureFails \/ OpenAndLoad \/ OpenAndLoadFails
         \/ NewRing \/ PollAgain \/ LeaveLoop
         \/ Wake \/ Timeout \/ DrainEnds \/ Interrupted \/ Restart
  PROVE  Inv'
<1>1. StillRing /\ attached' = attached /\ exit_flag' = exit_flag
  BY DEF StillRing, hookVars, Configure, ConfigureFails, OpenAndLoad, OpenAndLoadFails,
         NewRing, PollAgain, LeaveLoop, Wake, Timeout, DrainEnds, Interrupted, Restart
<1>2. /\ attached' \in 0..Len(Handlers) /\ exit_flag' \in BOOLEAN
      /\ pc \in Stopped => attached = 0
  BY <1>1 DEF Inv, HooksInv, HooksTypeOK, AgentTypeOK, NothingLeft, Stopped
<1>3. /\ pc' \in States
      /\ pc' # "perform" /\ pc # "perform"
      /\ pc' \in Stopped => pc \in Stopped
      /\ pc' = "loaded" => pc \in Stopped
  BY DEF Goto, Stopped, States, Configure, ConfigureFails, OpenAndLoad, OpenAndLoadFails,
         NewRing, PollAgain, LeaveLoop, Wake, Timeout, DrainEnds, Interrupted, Restart
<1> QED
  BY <1>1, <1>2, <1>3, StillRingInv

LEMMA AttachHookInv ==
  ASSUME Inv, AttachHook
  PROVE  Inv'
<1>1. StillRing /\ exit_flag' \in BOOLEAN /\ pc' = "loaded" /\ pc = "loaded"
  BY DEF StillRing, AttachHook, Attach, agentVars, Inv, AgentTypeOK
<1>2. attached' \in 0..Len(Handlers)
  BY HandlersLength DEF AttachHook, Attach, Inv, HooksInv, HooksTypeOK
<1> QED
  BY <1>1, <1>2, StillRingInv DEF Stopped, States

LEMMA SigtermInv ==
  ASSUME Inv, Sigterm
  PROVE  Inv'
<1>1. StillRing /\ attached' = attached /\ exit_flag' \in BOOLEAN
  BY DEF StillRing, hookVars, Sigterm
<1>2. attached' \in 0..Len(Handlers) /\ (pc \in Stopped => attached = 0) /\ pc \in States
  BY <1>1 DEF Inv, HooksInv, HooksTypeOK, AgentTypeOK, NothingLeft, Stopped
<1>3. pc' = pc \/ (pc = "start" /\ pc' = "exited")
  BY DEF Sigterm
<1> QED
  BY <1>1, <1>2, <1>3, StillRingInv DEF Stopped, States
-----------------------------------------------------------------------------
(* The steps that release the ring and end the process. *)

LEMMA EndInv ==
  ASSUME Inv, NEW gone \in SUBSET (1..issued), Release(gone),
         pc' \in Stopped, event_buffer' = <<>>, calls' \in Seq(Calls),
         exit_flag' \in BOOLEAN, posted' \in SUBSET (1..issued)
  PROVE  Inv'
<1>1. HooksInv'
  BY ReleaseInv DEF Inv
<1>2. event_buffer' \in Seq(Nat) /\ Len(event_buffer') = 0
  OBVIOUS
<1>3. pc' \in States /\ pc' # "perform" /\ pc' # "loaded"
  BY DEF Stopped, States
<1>4. AgentTypeOK'
  BY <1>2, <1>3 DEF AgentTypeOK, Release
<1>5. BufferIssued' /\ HeadReady' /\ EmptyAtStart'
  BY <1>2, <1>3 DEF BufferIssued, HeadReady, EmptyAtStart
<1>6. BufferInv'
  BY <1>2, <1>3, AgentAssumption
     DEF BufferInv, BufferBound, BatchInv, event_count
<1>7. NothingLeft'
  BY DEF NothingLeft, Release
<1> QED
  BY <1>1, <1>4, <1>5, <1>6, <1>7 DEF Inv

LEMMA StartFailsInv ==
  ASSUME Inv, AttachFails \/ NewRingFails
  PROVE  Inv'
<1>1. event_buffer' = <<>>
  BY DEF AttachFails, NewRingFails, Goto, Inv, EmptyAtStart
<1>2. pc' \in Stopped /\ Release(InRing(ring)) /\ InRing(ring) \in SUBSET (1..issued)
  BY RingIds DEF AttachFails, NewRingFails, Goto, Stopped
<1>3. calls' \in Seq(Calls) /\ exit_flag' \in BOOLEAN /\ posted' \in SUBSET (1..issued)
  BY DEF AttachFails, NewRingFails, Inv, AgentTypeOK
<1> QED
  BY <1>1, <1>2, <1>3, EndInv

LEMMA CloseInv ==
  ASSUME Inv, Close
  PROVE  Inv'
<1>1. pc' \in Stopped /\ Release(InAgent) /\ InAgent \in SUBSET (1..issued)
  BY InAgentIds DEF Close, Goto, Stopped
<1>2. /\ calls' \in Seq(Calls) /\ exit_flag' \in BOOLEAN
      /\ posted' \in SUBSET (1..issued) /\ event_buffer' = <<>>
  BY DEF Close, Inv, AgentTypeOK
<1> QED
  BY <1>1, <1>2, EndInv

LEMMA CrashInv ==
  ASSUME Inv, Crash
  PROVE  Inv'
<1>1. PICK reached \in {{}, Ids(Elems(event_buffer))} :
         posted' = posted \cup reached /\ Release(InAgent \ reached)
  BY DEF Crash
<1>2. reached \subseteq 1..issued
  BY BufferIds
<1>3. InAgent \ reached \in SUBSET (1..issued)
  BY InAgentIds
<1>4. /\ pc' \in Stopped /\ calls' \in Seq(Calls) /\ exit_flag' \in BOOLEAN
      /\ event_buffer' = <<>>
  BY DEF Crash, Stopped, Inv, AgentTypeOK
<1>5. posted' \in SUBSET (1..issued)
  BY <1>1, <1>2 DEF Inv, AgentTypeOK
<1> QED
  BY <1>1, <1>3, <1>4, <1>5, EndInv
-----------------------------------------------------------------------------
(* The steps that take a record off the ring. *)

LEMMA SkipInv ==
  ASSUME Inv, Skip
  PROVE  Inv'
<1>1. HooksInv' /\ issued' = issued /\ issued \in Nat
  <2>1. /\ HooksInv /\ ring # <<>> /\ Head(ring).state # "busy"
        /\ ring' = Tail(ring) /\ UNCHANGED <<attached, hook, issued>>
        /\ lost' \in SUBSET (1..issued) /\ issued \in Nat
    BY DEF Skip, SkipDiscarded, HeadIs, Inv, HooksInv, HooksTypeOK
  <2> QED
    BY <2>1, TailInv
<1>2. pc = "drain" /\ UNCHANGED agentVars
  BY DEF Skip
<1> USE DEF Inv, agentVars
<1>3. AgentTypeOK' /\ BufferIssued'
  BY <1>1, <1>2 DEF AgentTypeOK, BufferIssued
<1>4. HeadReady' /\ NothingLeft' /\ EmptyAtStart'
  BY <1>2 DEF HeadReady, NothingLeft, EmptyAtStart
<1>5. BufferInv'
  BY <1>2 DEF BufferInv, BufferBound, BatchInv, event_count
<1> QED
  BY <1>1, <1>3, <1>4, <1>5

(* The buffer after the first half of handle_event. *)
LEMMA BufferedFacts ==
  ASSUME Inv, ring # <<>>
  PROVE  /\ Buffered \in Seq(Nat)
         /\ \A i \in DOMAIN Buffered : Buffered[i] <= issued
         /\ Len(Buffered) <= buffer_size + 1
         /\ event_count <= batch_size => Len(Buffered) = event_count + 1
         /\ Dropped \in SUBSET (1..issued)
<1>1. /\ event_buffer \in Seq(Nat) /\ issued \in Nat
      /\ \A i \in DOMAIN event_buffer : event_buffer[i] <= issued
      /\ Len(event_buffer) <= buffer_size + 1
  BY DEF Inv, AgentTypeOK, BufferIssued, BufferInv, BufferBound, event_count,
         HooksInv, HooksTypeOK
<1>2. Head(ring).id \in Nat /\ Head(ring).id <= issued
  BY HeadRecord
<1>3. Dropped \in SUBSET (1..issued)
  BY HeadRecord DEF Dropped
<1>4. CASE BufferFull
  BY <1>1, <1>3, <1>4, AgentAssumption DEF Buffered, BufferFull, event_count
<1>5. CASE ~BufferFull
  <2> DEFINE n == Head(ring).id
  <2>1. Buffered = Append(event_buffer, n)
    BY <1>5 DEF Buffered
  <2> HIDE DEF n
  <2>2. n \in Nat /\ n <= issued
    BY <1>2 DEF n
  <2>3. /\ Buffered \in Seq(Nat)
        /\ Len(Buffered) = Len(event_buffer) + 1
        /\ \A i \in DOMAIN Buffered : i \in DOMAIN event_buffer \/ i = Len(event_buffer) + 1
        /\ \A i \in DOMAIN event_buffer : Buffered[i] = event_buffer[i]
        /\ Buffered[Len(event_buffer) + 1] = n
    BY <1>1, <2>1, <2>2
  <2>4. Len(event_buffer) <= buffer_size
    BY <1>1, <1>5, AgentAssumption DEF BufferFull, event_count
  <2>5. \A i \in DOMAIN Buffered : Buffered[i] <= issued
    BY <1>1, <2>2, <2>3
  <2> QED
    BY <1>1, <1>3, <2>3, <2>4, <2>5, AgentAssumption DEF event_count
<1> QED
  BY <1>4, <1>5

(* What every outcome of handle_event's first half keeps. *)
LEMMA HandleEventFacts ==
  ASSUME Inv, HandleEvent
  PROVE  /\ HooksInv
         /\ ring # <<>> /\ Head(ring).state = "ready"
         /\ UNCHANGED <<attached, hook, issued>> /\ issued \in Nat
         /\ lost' \in SUBSET (1..issued)
         /\ event_buffer' \in Seq(Nat)
         /\ BufferIssued' /\ BufferBound'
         /\ pc = "drain" /\ exit_flag' \in BOOLEAN /\ posted' \in SUBSET (1..issued')
<1>1. /\ HooksInv /\ issued \in Nat /\ lost \in SUBSET (1..issued)
      /\ exit_flag \in BOOLEAN /\ posted \in SUBSET (1..issued)
  BY DEF Inv, HooksInv, HooksTypeOK, AgentTypeOK
<1>2. /\ ring # <<>> /\ Head(ring).state = "ready" /\ pc = "drain"
      /\ UNCHANGED <<attached, hook, issued, exit_flag, posted>>
      /\ event_buffer' = Buffered /\ lost' = lost \cup Dropped
  BY DEF HandleEvent, HeadIs
<1> QED
  BY <1>1, <1>2, BufferedFacts DEF BufferIssued, BufferBound, event_count

LEMMA CollectInv ==
  ASSUME Inv, Collect \/ SubmitFails
  PROVE  Inv'
<1>1. HandleEvent /\ ring' = Tail(ring) /\ pc' = pc /\ calls' = calls
  BY DEF Collect, SubmitFails
<1>2. HooksInv'
  BY <1>1, HandleEventFacts, TailInv
<1>3. pc' = "drain"
  BY <1>1, HandleEventFacts
<1>4. AgentTypeOK'
  BY <1>1, HandleEventFacts DEF AgentTypeOK, States, Inv
<1>5. BatchInv'
  BY <1>1, <1>3
     DEF BatchInv, event_count, Collect, SubmitFails, HandleEvent
<1>6. HeadReady' /\ NothingLeft' /\ EmptyAtStart'
  BY <1>3 DEF HeadReady, NothingLeft, EmptyAtStart
<1> QED
  BY <1>1, <1>2, <1>4, <1>5, <1>6, HandleEventFacts DEF Inv, BufferInv

LEMMA SubmitInv ==
  ASSUME Inv, Submit
  PROVE  Inv'
<1>1. /\ HandleEvent /\ ring' = ring /\ pc' = "perform" /\ calls' = SelfCalls
      /\ Len(Buffered) >= batch_size
  BY DEF Submit
<1>2. HooksInv'
  BY <1>1, HandleEventFacts, UnchangedHooksInv DEF HooksInv, HooksTypeOK
<1>3. AgentTypeOK'
  BY <1>1, HandleEventFacts, AgentAssumption DEF AgentTypeOK, States
<1>4. HeadReady'
  BY <1>1, HandleEventFacts DEF HeadReady, HeadIs
<1>5. event_count' = Len(Buffered)
  BY <1>1 DEF HandleEvent, event_count
<1>6. BatchInv'
  <2> SUFFICES ASSUME "curl_init" \notin Faults PROVE event_count' = batch_size
    BY <1>1 DEF BatchInv
  <2>1. event_count < batch_size
    BY <1>1, HandleEventFacts DEF Inv, BufferInv, BatchInv
  <2>2. event_count \in Nat
    BY DEF Inv, AgentTypeOK, event_count
  <2>3. Len(Buffered) = event_count + 1
    BY <1>1, <2>1, <2>2, AgentAssumption, BufferedFacts, HandleEventFacts
  <2> QED
    BY <1>1, <1>5, <2>1, <2>2, <2>3, AgentAssumption
<1>7. NothingLeft' /\ EmptyAtStart'
  BY <1>1 DEF NothingLeft, EmptyAtStart
<1> QED
  BY <1>1, <1>2, <1>3, <1>4, <1>6, <1>7, HandleEventFacts DEF Inv, BufferInv

LEMMA PostInv ==
  ASSUME Inv, PostReceived \/ PostFails
  PROVE  Inv'
<1>1. /\ pc = "perform" /\ pc' = "drain" /\ calls' = <<>> /\ event_buffer' = <<>>
      /\ ring' = Tail(ring) /\ UNCHANGED <<attached, hook, issued, exit_flag>>
  BY DEF PostReceived, PostFails, PerformReturns, Goto
<1>2. /\ HooksInv /\ issued \in Nat /\ lost \in SUBSET (1..issued)
      /\ exit_flag \in BOOLEAN /\ posted \in SUBSET (1..issued)
  BY DEF Inv, HooksInv, HooksTypeOK, AgentTypeOK
<1>3. lost' \in SUBSET (1..issued) /\ posted' \in SUBSET (1..issued)
  BY <1>2, BufferIds DEF PostReceived, PostFails
<1>4. ring # <<>> /\ Head(ring).state # "busy"
  BY <1>1 DEF Inv, HeadReady, HeadIs
<1>5. HooksInv'
  BY <1>1, <1>2, <1>3, <1>4, TailInv
<1>6. event_buffer' \in Seq(Nat) /\ Len(event_buffer') = 0 /\ calls' \in Seq(Calls)
  BY <1>1
<1>7. AgentTypeOK' /\ BufferIssued'
  BY <1>1, <1>2, <1>3, <1>6 DEF AgentTypeOK, BufferIssued, States
<1>8. BufferInv'
  BY <1>1, <1>6, AgentAssumption
     DEF BufferInv, BufferBound, BatchInv, event_count
<1>9. HeadReady' /\ NothingLeft' /\ EmptyAtStart'
  BY <1>1 DEF HeadReady, NothingLeft, EmptyAtStart
<1> QED
  BY <1>5, <1>7, <1>8, <1>9 DEF Inv
-----------------------------------------------------------------------------
LEMMA StutterInv == Inv /\ UNCHANGED vars => Inv'
<1> SUFFICES ASSUME Inv, UNCHANGED vars PROVE Inv'
  OBVIOUS
<1>1. /\ StillRing /\ UNCHANGED <<attached, exit_flag, pc>>
      /\ attached' \in 0..Len(Handlers) /\ exit_flag' \in BOOLEAN /\ pc' \in States
      /\ (pc \in Stopped => attached = 0)
  BY DEF vars, StillRing, Inv, HooksInv, HooksTypeOK, AgentTypeOK, NothingLeft, Stopped
<1> QED
  BY <1>1, StillRingInv

LEMMA NextInv == Inv /\ [Next]_vars => Inv'
<1> SUFFICES ASSUME Inv, [Next]_vars PROVE Inv'
  OBVIOUS
<1>1. CASE Startup
  BY <1>1, LoopInv, AttachHookInv, StartFailsInv DEF Startup
<1>2. CASE Loop
  BY <1>2, LoopInv, SkipInv, CloseInv DEF Loop
<1>3. CASE Callback
  BY <1>3, CollectInv, SubmitInv, PerformCallInv, PostInv DEF Callback
<1>4. CASE SubmitFails \/ PostFails
  BY <1>4, CollectInv, PostInv
<1>5. CASE Interrupted \/ Sigterm \/ Crash \/ Restart
  BY <1>5, LoopInv, SigtermInv, CrashInv
<1>6. CASE StayDown
  BY <1>6, StutterInv DEF StayDown
<1>7. CASE \E t \in Hooked : Hook(t)
  BY <1>7, HandlerInv
<1>8. CASE \E t \in Tasks : Syscall(t)
  BY <1>8, SyscallInv
<1>9. CASE \E t \in Endless : Traffic(t)
  BY <1>9, TrafficInv
<1>10. CASE UNCHANGED vars
  BY <1>10, StutterInv
<1> QED
  BY <1>1, <1>2, <1>3, <1>4, <1>5, <1>6, <1>7, <1>8, <1>9, <1>10 DEF Next

LEMMA Invariance == Spec => []Inv
  BY InitInv, NextInv, PTL DEF Spec
-----------------------------------------------------------------------------
(* The variables of the handlers and of the agent keep their types; the ring
   never holds more than it has room for. *)
THEOREM TypeCorrect == Spec => []TypeOK
<1>1. Inv => TypeOK
  BY DEF Inv, HooksInv, AgentTypeOK, TypeOK
<1> QED
  BY <1>1, Invariance, PTL

(* Reserved records and running handlers match one to one: no reservation is
   forgotten and none is given back twice (the four handlers of bpf.c). *)
THEOREM OneHolderAlways == Spec => []OneHolder
<1>1. Inv => OneHolder
  BY DEF Inv, HooksInv
<1> QED
  BY <1>1, Invariance, PTL

(* handle_event writes at most one event past the end of event_buffer. *)
THEOREM BufferBounded == Spec => [](event_count <= buffer_size + 1)
<1>1. Inv => event_count <= buffer_size + 1
  BY DEF Inv, BufferInv, BufferBound
<1> QED
  BY <1>1, Invariance, PTL

LEMMA BatchIsExact == Inv => ExactBatch
<1> SUFFICES ASSUME Inv, "curl_init" \notin Faults
             PROVE  /\ event_count <= batch_size
                    /\ pc = "perform" <=> event_count = batch_size
  BY DEF ExactBatch
<1>1. event_count \in Nat /\ batch_size \in Nat
  BY AgentAssumption DEF Inv, AgentTypeOK, event_count
<1> QED
  BY <1>1 DEF Inv, BufferInv, BatchInv

(* Without failures of curl_easy_init a POST carries exactly batch_size events
   and the buffer never holds more: the store of handle_event stays inside it. *)
THEOREM PostsExactBatches == Spec => []ExactBatch
  BY BatchIsExact, Invariance, PTL

(* handle_event stores at event_buffer[event_count] before it counts: as long
   as curl_easy_init works, that is an entry of the array, whatever else fails. *)
THEOREM StoreInArray ==
  ASSUME "curl_init" \notin Faults
  PROVE  Spec => [](event_count < buffer_size)
<1>1. Inv => event_count < buffer_size
  <2> SUFFICES ASSUME Inv PROVE event_count < buffer_size
    OBVIOUS
  <2>1. event_count <= batch_size
    BY BatchIsExact DEF ExactBatch
  <2>2. event_count \in Nat
    BY DEF Inv, AgentTypeOK, event_count
  <2> QED
    BY <2>1, <2>2, AgentAssumption
<1> QED
  BY <1>1, Invariance, PTL

(* The process leaves no handler attached and no record behind when it is not
   running, whichever way it ended: also when only some of the handlers could be
   attached and those have filled the ring (the clean-up of main, and the
   kernel's). *)
THEOREM NothingLeftBehind == Spec => []NothingLeft
<1>1. Inv => NothingLeft
  BY DEF Inv
<1> QED
  BY <1>1, Invariance, PTL
-----------------------------------------------------------------------------
(***************************************************************************)
(* The agent is an EventFeed: no event is unaccounted for, and events      *)
(* leave in the order of their system calls, each at most once.            *)
(*                                                                         *)
(* The argument is about three sets: the events in the buffer, those in    *)
(* the ring that the callback has not seen (Pending below), and those that *)
(* were posted.  Every step either adds the next number to the ring or to  *)
(* the losses, or moves some events one place on (MoveStep); and each of   *)
(* the three sets is older than the one before it on the way.              *)
(***************************************************************************)

Buf == Ids(Elems(event_buffer))
Pending == InRing(Unread)

BufferOrdered == \A i, j \in DOMAIN event_buffer :
                    /\ i < j
                    /\ event_buffer[i] # Uncounted
                    /\ event_buffer[j] # Uncounted
                    => event_buffer[i] < event_buffer[j]

BufferFirst == \A b \in Buf, r \in Pending : b < r

PostedFirst == \A p \in posted : \A r \in InAgent : p < r

FlowInv == Accounting /\ InOrder

LEMMA InOrderParts ==
  InOrder <=> RingOrdered /\ BufferOrdered /\ BufferFirst /\ PostedFirst
  BY DEF InOrder, BufferOrdered, BufferFirst, PostedFirst, Buf, Pending
-----------------------------------------------------------------------------
(* Events on their way. *)

LEMMA AgentEvents ==
  ASSUME Inv
  PROVE  /\ InAgent = Buf \cup Pending
         /\ InAgent \subseteq 1..issued
         /\ posted \subseteq 1..issued /\ lost \subseteq 1..issued
         /\ issued \in Nat
  BY InAgentIds DEF InAgent, Buf, Pending, Inv, HooksInv, HooksTypeOK, AgentTypeOK

(* Some events are delivered and some are lost, the rest stays in the agent. *)
LEMMA MoveStep ==
  ASSUME Inv, FlowInv, NEW S \in SUBSET Buf, NEW L \in SUBSET InAgent, S \cap L = {},
         InAgent' = InAgent \ (S \cup L),
         S = {} \/ InAgent' \subseteq Pending,
         posted' = posted \cup S, lost' = lost \cup L, issued' = issued,
         RingOrdered', BufferOrdered', BufferFirst'
  PROVE  FlowInv' /\ [Feed!Next]_(Feed!feedVars)
<1> DEFINE B == Buf
           P == Pending
<1>0. /\ InAgent = B \cup P /\ issued \in Nat
      /\ InAgent \subseteq 1..issued /\ posted \subseteq 1..issued /\ lost \subseteq 1..issued
  BY AgentEvents
<1>1. /\ 1..issued = B \cup P \cup posted \cup lost
      /\ B \cap P = {} /\ (B \cup P) \cap (posted \cup lost) = {} /\ posted \cap lost = {}
  BY DEF FlowInv, Accounting, Buf, Pending
<1>2. /\ \A b \in B, r \in P : b < r
      /\ \A p \in posted : \A r \in InAgent : p < r
  BY InOrderParts DEF FlowInv, BufferFirst, PostedFirst
<1>3. InAgent' = B' \cup P'
  BY DEF InAgent, Buf, Pending
<1>4. \A b \in B', r \in P' : b < r
  BY DEF BufferFirst
<1>5. InAgent' \subseteq 1..issued
  BY <1>0
<1>6. B' \cap P' = {}
  BY <1>0, <1>3, <1>4, <1>5
<1> HIDE DEF B, P
<1>7. Accounting'
  <2>1. /\ 1..issued' = B' \cup P' \cup posted' \cup lost'
        /\ B' \cap P' = {} /\ (B' \cup P') \cap (posted' \cup lost') = {}
        /\ posted' \cap lost' = {}
    BY <1>0, <1>1, <1>3, <1>6 DEF B
  <2> QED
    BY <2>1 DEF Accounting, B, P, Buf, Pending
<1>8. \A s \in S, r \in P : s < r
  BY <1>2 DEF B
<1>9. PostedFirst'
  BY <1>0, <1>2, <1>8 DEF PostedFirst, P
<1>10. InOrder'
  BY <1>9, InOrderParts DEF InOrder, BufferOrdered, BufferFirst, PostedFirst, Buf, Pending
<1>11. [Feed!Next]_(Feed!feedVars)
  <2>1. \A p \in posted, s \in S : p < s
    BY <1>0, <1>2 DEF B
  <2>2. CASE S = {} /\ L = {}
    BY <2>2 DEF Feed!feedVars
  <2>3. CASE S # {} /\ L = {}
    <3>1. Feed!Deliver(S)
      BY <2>1, <2>3 DEF Feed!Deliver, Feed!InOrder
    <3> QED
      BY <3>1, <1>0 DEF Feed!Next, B
  <2>4. CASE S = {} /\ L # {}
    <3>1. Feed!Lose(L)
      BY <2>4 DEF Feed!Lose
    <3> QED
      BY <3>1 DEF Feed!Next
  <2>5. CASE S # {} /\ L # {}
    <3>1. Feed!DeliverAndLose(S, L)
      BY <2>1, <2>5 DEF Feed!DeliverAndLose, Feed!InOrder
    <3> QED
      BY <3>1, <1>0 DEF Feed!Next, B
  <2> QED
    BY <2>2, <2>3, <2>4, <2>5
<1> QED
  BY <1>7, <1>10, <1>11 DEF FlowInv

(* A system call of another task: the next number comes to the ring, or is
   lost. *)
LEMMA IssueStep ==
  ASSUME Inv, FlowInv, issued' = issued + 1,
         UNCHANGED <<event_buffer, posted>>,
         \/ Pending' = Pending \cup {issued + 1} /\ lost' = lost
         \/ Pending' = Pending /\ lost' = lost \cup {issued + 1},
         RingOrdered'
  PROVE  FlowInv' /\ [Feed!Next]_(Feed!feedVars)
<1> DEFINE B == Buf
           P == Pending
<1>0. /\ InAgent = B \cup P /\ issued \in Nat
      /\ InAgent \subseteq 1..issued /\ posted \subseteq 1..issued /\ lost \subseteq 1..issued
  BY AgentEvents
<1>1. /\ 1..issued = B \cup P \cup posted \cup lost
      /\ B \cap P = {} /\ (B \cup P) \cap (posted \cup lost) = {} /\ posted \cap lost = {}
  BY DEF FlowInv, Accounting, Buf, Pending
<1>2. /\ \A b \in B, r \in P : b < r
      /\ \A p \in posted : \A r \in InAgent : p < r
      /\ BufferOrdered
  BY InOrderParts DEF FlowInv, BufferFirst, PostedFirst
<1>3. B' = B /\ InAgent' = B' \cup P'
  BY DEF InAgent, Buf, Pending
<1>4. 1..issued' = 1..issued \cup {issued + 1} /\ issued + 1 \notin 1..issued
  BY <1>0
<1>5. \A x \in 1..issued : x < issued + 1
  BY <1>0
<1> HIDE DEF B, P
<1>6. Accounting'
  <2>1. /\ 1..issued' = B' \cup P' \cup posted' \cup lost'
        /\ B' \cap P' = {} /\ (B' \cup P') \cap (posted' \cup lost') = {}
        /\ posted' \cap lost' = {}
    BY <1>0, <1>1, <1>3, <1>4 DEF P
  <2> QED
    BY <2>1 DEF Accounting, B, P, Buf, Pending
<1>7. PostedFirst' /\ BufferFirst' /\ BufferOrdered'
  <2>1. \A b \in B', r \in P' : b < r
    BY <1>0, <1>2, <1>3, <1>5 DEF P
  <2>2. \A p \in posted' : \A r \in InAgent' : p < r
    BY <1>0, <1>2, <1>3, <1>5 DEF P
  <2> QED
    BY <2>1, <2>2, <1>2 DEF PostedFirst, BufferFirst, BufferOrdered, B, P
<1>8. InOrder'
  BY <1>7 DEF InOrder, BufferOrdered, BufferFirst, PostedFirst, Buf, Pending
<1>9. Feed!Issue
  BY <1>0, <1>3 DEF Feed!Issue, P
<1> QED
  BY <1>6, <1>8, <1>9 DEF FlowInv, Feed!Next
-----------------------------------------------------------------------------
(* Sequences of records: what their first and their last element add. *)

Ordered(s) == \A i, j \in DOMAIN s :
                 /\ i < j
                 /\ s[i].id # Uncounted
                 /\ s[j].id # Uncounted
                 => s[i].id < s[j].id

(* The event of a record the consumer will be given. *)
EventOf(r) == IF r.state = "discarded" THEN {} ELSE Ids({r.id})

LEMMA InRingMember ==
  ASSUME NEW s, NEW x
  PROVE  x \in InRing(s) <=> \E i \in DOMAIN s : x \in EventOf(s[i])
  BY DEF InRing, Ids, EventOf

LEMMA HeadEvent ==
  ASSUME NEW s \in Seq(Record), s # <<>>
  PROVE  InRing(s) = EventOf(Head(s)) \cup InRing(Tail(s))
<1>1. /\ 1 \in DOMAIN s /\ Head(s) = s[1]
      /\ \A i \in DOMAIN Tail(s) : i + 1 \in DOMAIN s /\ Tail(s)[i] = s[i + 1]
      /\ \A i \in DOMAIN s : i # 1 => i - 1 \in DOMAIN Tail(s) /\ Tail(s)[i - 1] = s[i]
  OBVIOUS
<1>2. ASSUME NEW x
      PROVE  x \in InRing(s) <=> x \in EventOf(s[1]) \/ x \in InRing(Tail(s))
  <2>1. ASSUME NEW i \in DOMAIN s, x \in EventOf(s[i]), i # 1
        PROVE  x \in InRing(Tail(s))
    BY <1>1, <2>1, InRingMember
  <2>2. ASSUME NEW i \in DOMAIN Tail(s), x \in EventOf(Tail(s)[i])
        PROVE  x \in InRing(s)
    BY <1>1, <2>2, InRingMember
  <2> QED
    BY <1>1, <2>1, <2>2, InRingMember
<1> QED
  BY <1>1, <1>2

LEMMA HeadFirst ==
  ASSUME NEW s \in Seq(Record), s # <<>>, Ordered(s)
  PROVE  /\ Ordered(Tail(s))
         /\ \A e \in EventOf(Head(s)), x \in InRing(Tail(s)) : e < x
<1>1. /\ 1 \in DOMAIN s /\ Head(s) = s[1] /\ DOMAIN s \subseteq Nat
      /\ DOMAIN Tail(s) \subseteq Nat \ {0}
      /\ \A i \in DOMAIN Tail(s) : i + 1 \in DOMAIN s /\ Tail(s)[i] = s[i + 1]
  OBVIOUS
<1>2. Ordered(Tail(s))
  <2> SUFFICES ASSUME NEW i \in DOMAIN Tail(s), NEW j \in DOMAIN Tail(s), i < j,
                      Tail(s)[i].id # Uncounted, Tail(s)[j].id # Uncounted
               PROVE  Tail(s)[i].id < Tail(s)[j].id
    BY DEF Ordered
  <2>1. i + 1 < j + 1
    BY <1>1
  <2> QED
    BY <1>1, <2>1 DEF Ordered
<1>3. ASSUME NEW e \in EventOf(Head(s)), NEW x \in InRing(Tail(s))
      PROVE  e < x
  <2>1. PICK i \in DOMAIN Tail(s) : x \in EventOf(Tail(s)[i])
    BY InRingMember
  <2>2. e = s[1].id /\ e # Uncounted /\ x = s[i + 1].id /\ x # Uncounted
    BY <1>1, <2>1 DEF EventOf, Ids
  <2>3. 1 < i + 1
    BY <1>1
  <2> QED
    BY <1>1, <2>2, <2>3 DEF Ordered
<1> QED
  BY <1>2, <1>3

LEMMA LastEvent ==
  ASSUME NEW s \in Seq(Record), NEW r \in Record
  PROVE  /\ InRing(Append(s, r)) = InRing(s) \cup EventOf(r)
         /\ Ordered(s) /\ (\A i \in DOMAIN s : s[i].id < r.id \/ r.id = Uncounted)
            => Ordered(Append(s, r))
<1> DEFINE u == Append(s, r)
           n == Len(s) + 1
<1>1. /\ \A i \in DOMAIN s : i \in DOMAIN u /\ u[i] = s[i] /\ i < n
      /\ \A i \in DOMAIN u : i \in DOMAIN s \/ i = n
      /\ n \in DOMAIN u /\ u[n] = r /\ n \in Nat /\ DOMAIN s \subseteq Nat
  OBVIOUS
<1> HIDE DEF u, n
<1>2. ASSUME NEW x
      PROVE  x \in InRing(u) <=> x \in InRing(s) \/ x \in EventOf(r)
  BY <1>1, InRingMember
<1>3. ASSUME Ordered(s), \A i \in DOMAIN s : s[i].id < r.id \/ r.id = Uncounted
      PROVE  Ordered(u)
  <2> SUFFICES ASSUME NEW i \in DOMAIN u, NEW j \in DOMAIN u, i < j,
                      u[i].id # Uncounted, u[j].id # Uncounted
               PROVE  u[i].id < u[j].id
    BY DEF Ordered
  <2>1. CASE j \in DOMAIN s
    <3>1. i \in DOMAIN s
      BY <1>1, <2>1
    <3> QED
      BY <1>1, <1>3, <2>1, <3>1 DEF Ordered
  <2>2. CASE j = n
    <3>1. i \in DOMAIN s
      BY <1>1, <2>2
    <3> QED
      BY <1>1, <1>3, <2>2, <3>1
  <2> QED
    BY <1>1, <2>1, <2>2
<1>4. InRing(u) = InRing(s) \cup EventOf(r)
  BY <1>2
<1> QED
  BY <1>3, <1>4 DEF u

(* One record changes its state. *)
LEMMA MarkedEvent ==
  ASSUME NEW s, NEW u, NEW h \in DOMAIN s, DOMAIN u = DOMAIN s, Ordered(s),
         DOMAIN s \subseteq Nat,
         \A j \in DOMAIN s : s[j].id \in Nat /\ u[j].id = s[j].id,
         \A j \in DOMAIN s : j # h => u[j] = s[j],
         s[h].state # "discarded"
  PROVE  /\ Ordered(u)
         /\ u[h].state # "discarded" => InRing(u) = InRing(s)
         /\ u[h].state = "discarded" => InRing(u) = InRing(s) \ EventOf(s[h])
<1>1. Ordered(u)
  BY DEF Ordered
<1>2. ASSUME NEW x, NEW i \in DOMAIN s, i # h, x \in EventOf(s[i])
      PROVE  x \in EventOf(u[i]) /\ x # s[h].id
  <2>1. s[i].id # Uncounted /\ x = s[i].id
    BY <1>2 DEF EventOf, Ids
  <2>2. s[i].id # s[h].id
    <3> SUFFICES ASSUME s[i].id = s[h].id PROVE FALSE
      OBVIOUS
    <3>1. i < h \/ h < i
      BY <1>2
    <3>2. s[i].id < s[h].id \/ s[h].id < s[i].id
      BY <2>1, <3>1 DEF Ordered
    <3> QED
      BY <3>2
  <2> QED
    BY <1>2, <2>1, <2>2
<1>3. EventOf(s[h]) = Ids({s[h].id})
  BY DEF EventOf
<1>4. CASE u[h].state # "discarded"
  <2>1. EventOf(u[h]) = EventOf(s[h])
    BY <1>4 DEF EventOf
  <2>2. \A x : x \in InRing(u) <=> x \in InRing(s)
    BY <2>1, InRingMember
  <2> QED
    BY <1>1, <1>4, <2>2
<1>5. CASE u[h].state = "discarded"
  <2>1. EventOf(u[h]) = {}
    BY <1>5 DEF EventOf
  <2>2. \A x : x \in InRing(u) <=> x \in InRing(s) /\ x \notin EventOf(s[h])
    <3> SUFFICES ASSUME NEW x
                 PROVE  x \in InRing(u) <=> x \in InRing(s) /\ x \notin EventOf(s[h])
      OBVIOUS
    <3>1. ASSUME NEW i \in DOMAIN u, x \in EventOf(u[i])
          PROVE  x \in InRing(s) /\ x \notin EventOf(s[h])
      <4>1. i # h /\ u[i] = s[i]
        BY <2>1, <3>1
      <4>2. x # s[h].id
        BY <1>2, <3>1, <4>1
      <4>3. x \notin EventOf(s[h])
        BY <1>3, <4>2 DEF Ids
      <4> QED
        BY <3>1, <4>1, <4>3, InRingMember
    <3>2. ASSUME NEW i \in DOMAIN s, x \in EventOf(s[i]), x \notin EventOf(s[h])
          PROVE  x \in InRing(u)
      <4>1. i # h
        BY <3>2
      <4> QED
        BY <1>2, <3>2, <4>1, InRingMember
    <3> QED
      BY <3>1, <3>2, InRingMember
  <2> QED
    BY <1>1, <1>5, <2>2
<1> QED
  BY <1>4, <1>5
-----------------------------------------------------------------------------
(* The ring and its unread part. *)

LEMMA RingParts ==
  ASSUME Inv, FlowInv
  PROVE  /\ ring \in Seq(Record) /\ Unread \in Seq(Record) /\ issued \in Nat
         /\ Ordered(ring) /\ Ordered(Unread)
         /\ pc = "perform" => ring # <<>> /\ Head(ring).state = "ready"
<1>1. ring \in Seq(Record) /\ issued \in Nat
  BY DEF Inv, HooksInv, HooksTypeOK
<1>2. Ordered(ring)
  BY DEF FlowInv, InOrder, RingOrdered, Ordered
<1>3. pc = "perform" => ring # <<>> /\ Head(ring).state = "ready"
  BY DEF Inv, HeadReady, HeadIs
<1>4. CASE pc = "perform"
  BY <1>1, <1>2, <1>3, <1>4, HeadFirst DEF Unread
<1>5. CASE pc # "perform"
  BY <1>1, <1>2, <1>5 DEF Unread
<1> QED
  BY <1>1, <1>2, <1>3, <1>4, <1>5

LEMMA OrderedRing == Ordered(ring) <=> RingOrdered
  BY DEF Ordered, RingOrdered

(* Unread events are lost, or nothing moves (L is empty). *)
LEMMA LoseStep ==
  ASSUME Inv, FlowInv, NEW L \in SUBSET Pending,
         Pending' = Pending \ L, lost' = lost \cup L,
         UNCHANGED <<event_buffer, posted, issued>>,
         RingOrdered'
  PROVE  FlowInv' /\ [Feed!Next]_(Feed!feedVars)
<1>1. Buf' = Buf /\ InAgent' = Buf' \cup Pending' /\ InAgent = Buf \cup Pending
  BY DEF InAgent, Buf, Pending
<1>2. Buf \cap Pending = {}
  BY DEF FlowInv, Accounting, Buf, Pending
<1>3. InAgent' = InAgent \ ({} \cup L)
  BY <1>1, <1>2
<1>4. BufferFirst /\ BufferOrdered
  BY InOrderParts DEF FlowInv
<1>5. BufferFirst' /\ BufferOrdered'
  BY <1>1, <1>4 DEF BufferFirst, BufferOrdered
<1>6. L \in SUBSET InAgent /\ {} \in SUBSET Buf /\ {} \cap L = {} /\ posted' = posted \cup {}
  BY <1>1
<1> QED
  BY <1>3, <1>5, <1>6, MoveStep

(* Everything ends with the process, S with the server. *)
LEMMA EndStep ==
  ASSUME Inv, FlowInv, NEW S \in SUBSET Buf, Release(InAgent \ S),
         pc' # "perform", event_buffer' = <<>>, posted' = posted \cup S
  PROVE  FlowInv' /\ [Feed!Next]_(Feed!feedVars)
<1>1. /\ lost' = lost \cup (InAgent \ S) /\ issued' = issued
      /\ ring' = <<>> /\ Unread' = <<>>
  BY DEF Release, Unread
<1>2. Buf' = {} /\ Pending' = {}
  BY <1>1 DEF Buf, Pending, Ids, Elems, InRing
<1>3. InAgent' = InAgent \ (S \cup (InAgent \ S)) /\ InAgent' \subseteq Pending
  BY <1>2 DEF InAgent, Buf, Pending
<1>4. RingOrdered' /\ BufferOrdered' /\ BufferFirst'
  BY <1>1, <1>2 DEF RingOrdered, BufferOrdered, BufferFirst
<1> QED
  BY <1>1, <1>3, <1>4, MoveStep
-----------------------------------------------------------------------------
(* The handlers. *)

(* A record is appended behind the unread ones. *)
LEMMA ReserveRing ==
  ASSUME Inv, FlowInv, NEW t \in Hooked, NEW call, NEW id \in Nat,
         Reserve(t, call, id), pc' = pc, id = Uncounted \/ id > issued
  PROVE  Pending' = Pending \cup Ids({id}) /\ RingOrdered'
<1> DEFINE r == [task |-> t, id |-> id, state |-> "busy"]
<1>1. r \in Record /\ r.id = id /\ EventOf(r) = Ids({id})
  BY DEF Record, EventOf
<1>2. ring' = Append(ring, r)
  BY DEF Reserve
<1> HIDE DEF r
<1>3. Unread' = Append(Unread, r)
  BY <1>1, <1>2, RingParts DEF Unread
<1>4. \A i \in DOMAIN ring : ring[i].id < r.id \/ r.id = Uncounted
  BY <1>1, RingParts, RecordFields DEF Inv, HooksInv, IdsIssued
<1>5. Ordered(ring')
  BY <1>1, <1>2, <1>4, RingParts, LastEvent
<1> QED
  BY <1>1, <1>3, <1>5, RingParts, LastEvent DEF Pending, Ordered, RingOrdered

LEMMA SyscallFlow ==
  ASSUME Inv, FlowInv, NEW t \in Tasks, Syscall(t)
  PROVE  FlowInv' /\ [Feed!Next]_(Feed!feedVars)
<1>1. PICK call \in Calls : Enter(t, call)
  BY DEF Syscall, Traced, Calls, handle_sendto, handle_socket, handle_open, handle_execve
<1>2. t \in Hooked /\ issued \in Nat /\ pc' = pc /\ UNCHANGED <<event_buffer, posted>>
  BY RingParts DEF Hooked, Syscall, agentVars
<1> DEFINE n == issued + 1
<1>3. n \in Nat /\ n > issued /\ Ids({n}) = {n} /\ issued' = n
  BY <1>1, <1>2 DEF Ids, Uncounted, Enter
<1>4. CASE Reserve(t, call, n)
  <2>1. Pending' = Pending \cup {n} /\ RingOrdered'
    BY <1>2, <1>3, <1>4, ReserveRing
  <2> QED
    BY <1>2, <1>3, <1>4, <2>1, IssueStep DEF Reserve
<1>5. CASE ReserveFails(t, call, n)
  <2>1. lost' = lost \cup {n} /\ ring' = ring
    BY <1>3, <1>5 DEF ReserveFails
  <2>2. Pending' = Pending /\ RingOrdered'
    BY <1>2, <2>1 DEF Pending, Unread, RingOrdered, FlowInv, InOrder
  <2> QED
    BY <1>2, <1>3, <2>1, <2>2, IssueStep
<1> QED
  BY <1>1, <1>4, <1>5 DEF Enter

LEMMA UncountedFlow ==
  ASSUME Inv, FlowInv, NEW t \in Hooked, NEW call \in Calls, UncountedCall(t, call),
         UNCHANGED <<pc, event_buffer, posted>>
  PROVE  FlowInv' /\ [Feed!Next]_(Feed!feedVars)
<1>1. issued' = issued /\ Ids({Uncounted}) = {} /\ Uncounted \in Nat
  BY DEF UncountedCall, Ids, Uncounted
<1>2. Pending' = Pending /\ RingOrdered' /\ lost' = lost
  <2>1. CASE Reserve(t, call, Uncounted)
    BY <1>1, <2>1, ReserveRing DEF Reserve
  <2>2. CASE ReserveFails(t, call, Uncounted)
    BY <1>1, <2>2
       DEF ReserveFails, Pending, Unread, RingOrdered, FlowInv, InOrder
  <2> QED
    BY <2>1, <2>2 DEF UncountedCall
<1>3. {} \in SUBSET Pending /\ Pending' = Pending \ {} /\ lost' = lost \cup {}
  BY <1>2
<1> QED
  BY <1>1, <1>2, <1>3, LoseStep

LEMMA PerformCallFlow ==
  ASSUME Inv, FlowInv, PerformCall
  PROVE  FlowInv' /\ [Feed!Next]_(Feed!feedVars)
<1>1. /\ calls \in Seq(Calls) /\ calls # <<>> /\ Agent \in Hooked
      /\ UNCHANGED <<pc, event_buffer, posted>>
  BY DEF PerformCall, Inv, AgentTypeOK, Hooked
<1>2. Head(calls) \in Calls /\ UncountedCall(Agent, Head(calls))
  BY <1>1 DEF PerformCall
<1> QED
  BY <1>1, <1>2, UncountedFlow

LEMMA TrafficFlow ==
  ASSUME Inv, FlowInv, NEW t \in Endless, Traffic(t)
  PROVE  FlowInv' /\ [Feed!Next]_(Feed!feedVars)
<1>1. PICK call \in Calls : UncountedCall(t, call)
  BY DEF Traffic
<1>2. t \in Hooked /\ UNCHANGED agentVars
  BY AgentAssumption DEF Hooked, Traffic
<1> QED
  BY <1>1, <1>2, UncountedFlow DEF agentVars

(* A handler gives its record back: to the consumer, or to nobody. *)
LEMMA MarkedFlow ==
  ASSUME Inv, FlowInv, NEW t \in Hooked, hook[t] # "idle",
         NEW m \in {"ready", "discarded"},
         ring' = Marked(t, m), pc' = pc
  PROVE  /\ RingOrdered'
         /\ m = "ready" => Pending' = Pending
         /\ m = "discarded" => /\ Ids({ring[Held(t)].id}) \subseteq Pending
                               /\ Pending' = Pending \ Ids({ring[Held(t)].id})
<1> DEFINE h == Held(t)
<1>0. HooksInv
  BY DEF Inv
<1>1. h \in DOMAIN ring /\ ring[h].state = "busy"
  BY <1>0, HeldBusy
<1>2. /\ ring' \in Seq(Record) /\ Len(ring') = Len(ring) /\ DOMAIN ring' = DOMAIN ring
      /\ \A j \in DOMAIN ring : ring'[j].id = ring[j].id /\ (j # h => ring'[j] = ring[j])
      /\ ring'[h].state = m
  BY <1>0, MarkedRing
<1>3. /\ ring \in Seq(Record) /\ Ordered(ring) /\ DOMAIN ring \subseteq Nat
      /\ \A j \in DOMAIN ring : ring[j].id \in Nat
  BY RingParts, RecordFields
<1> DEFINE e == EventOf(ring[h])
<1>e. e = Ids({ring[Held(t)].id})
  BY <1>1 DEF EventOf
<1> HIDE DEF h
<1>4. /\ Ordered(ring')
      /\ m = "ready" => InRing(ring') = InRing(ring)
      /\ m = "discarded" => InRing(ring') = InRing(ring) \ e
  <2>1. ring[h].state # "discarded"
    BY <1>1
  <2> DEFINE u == ring'
  <2>2. /\ DOMAIN u = DOMAIN ring /\ u[h].state = m
        /\ \A j \in DOMAIN ring : ring[j].id \in Nat /\ u[j].id = ring[j].id
        /\ \A j \in DOMAIN ring : j # h => u[j] = ring[j]
    BY <1>2, <1>3
  <2> HIDE DEF u
  <2>3. /\ Ordered(u)
        /\ u[h].state # "discarded" => InRing(u) = InRing(ring)
        /\ u[h].state = "discarded" => InRing(u) = InRing(ring) \ EventOf(ring[h])
    BY <1>1, <1>3, <2>1, <2>2, MarkedEvent
  <2> QED
    BY <2>2, <2>3 DEF u
<1>5. RingOrdered'
  BY <1>4 DEF Ordered, RingOrdered
<1>6. CASE pc # "perform"
  <2>1. Pending = InRing(ring) /\ Pending' = InRing(ring')
    BY <1>6 DEF Pending, Unread
  <2>2. e \subseteq Pending
    BY <1>1, <2>1, InRingMember
  <2> QED
    BY <1>e, <1>4, <1>5, <2>1, <2>2
<1>7. CASE pc = "perform"
  <2>1. /\ ring # <<>> /\ h # 1 /\ ring' # <<>>
        /\ Pending = InRing(Tail(ring)) /\ Pending' = InRing(Tail(ring'))
    BY <1>1, <1>2, <1>3, <1>7, RingParts DEF Pending, Unread
  <2> DEFINE s == Tail(ring)
             u == Tail(ring')
  <2>2. /\ s \in Seq(Record) /\ DOMAIN u = DOMAIN s /\ DOMAIN s \subseteq Nat
        /\ \A j \in DOMAIN s : j + 1 \in DOMAIN ring /\ s[j] = ring[j + 1] /\ u[j] = ring'[j + 1]
        /\ h - 1 \in DOMAIN s /\ h \in Nat
    BY <1>1, <1>2, <1>3, <2>1
  <2>3. Ordered(s)
    BY <1>3, <2>1, HeadFirst
  <2> HIDE DEF s, u
  <2>4. s[h - 1] = ring[h] /\ u[h - 1] = ring'[h]
    <3>1. (h - 1) + 1 = h
      BY <2>2
    <3> QED
      BY <2>2, <3>1
  <2>5. \A j \in DOMAIN s : j # h - 1 => u[j] = s[j]
    <3> SUFFICES ASSUME NEW j \in DOMAIN s, j # h - 1 PROVE u[j] = s[j]
      OBVIOUS
    <3>1. j + 1 # h /\ j + 1 \in DOMAIN ring
      BY <2>2
    <3> QED
      BY <1>2, <2>2, <3>1
  <2>6. \A j \in DOMAIN s : s[j].id \in Nat /\ u[j].id = s[j].id
    BY <1>2, <1>3, <2>2
  <2>7. /\ u[h - 1].state # "discarded" => InRing(u) = InRing(s)
        /\ u[h - 1].state = "discarded" => InRing(u) = InRing(s) \ EventOf(s[h - 1])
    <3>1. s[h - 1].state # "discarded"
      BY <1>1, <2>4
    <3> QED
      BY <2>2, <2>3, <2>5, <2>6, <3>1, MarkedEvent
  <2>8. e \subseteq InRing(s)
    BY <2>2, <2>4, InRingMember
  <2>9. /\ m = "ready" => InRing(u) = InRing(s)
        /\ m = "discarded" => InRing(u) = InRing(s) \ e
    BY <1>2, <2>4, <2>7
  <2> QED
    BY <1>e, <1>5, <2>1, <2>8, <2>9 DEF s, u
<1> QED
  BY <1>6, <1>7

LEMMA HookFlow ==
  ASSUME Inv, FlowInv, NEW t \in Hooked, Hook(t)
  PROVE  FlowInv' /\ [Feed!Next]_(Feed!feedVars)
<1>1. /\ hook[t] # "idle" /\ pc' = pc /\ UNCHANGED <<event_buffer, posted, issued>>
      /\ bpf_ringbuf_submit(t) \/ bpf_ringbuf_discard(t)
  BY DEF Hook, agentVars, Finish, bpf_ringbuf_submit, bpf_ringbuf_discard, Calls
<1>2. CASE bpf_ringbuf_submit(t)
  <2>1. ring' = Marked(t, "ready") /\ lost' = lost
    BY <1>2 DEF bpf_ringbuf_submit
  <2>2. RingOrdered' /\ Pending' = Pending
    BY <1>1, <2>1, MarkedFlow
  <2>3. {} \in SUBSET Pending /\ Pending' = Pending \ {} /\ lost' = lost \cup {}
    BY <2>1, <2>2
  <2> QED
    BY <1>1, <2>2, <2>3, LoseStep
<1>3. CASE bpf_ringbuf_discard(t)
  <2>1. ring' = Marked(t, "discarded") /\ lost' = lost \cup Ids({ring[Held(t)].id})
    BY <1>3 DEF bpf_ringbuf_discard
  <2>2. /\ RingOrdered'
        /\ Ids({ring[Held(t)].id}) \subseteq Pending
        /\ Pending' = Pending \ Ids({ring[Held(t)].id})
    BY <1>1, <2>1, MarkedFlow
  <2> QED
    BY <1>1, <2>1, <2>2, LoseStep
<1> QED
  BY <1>1, <1>2, <1>3
-----------------------------------------------------------------------------
(* Steps that move no event. *)

LEMMA StillFlow ==
  ASSUME Inv, FlowInv, UNCHANGED <<ring, issued, lost, event_buffer, posted>>,
         pc' = "perform" <=> pc = "perform"
  PROVE  FlowInv' /\ [Feed!Next]_(Feed!feedVars)
<1>1. Pending' = Pending /\ RingOrdered'
  BY DEF Pending, Unread, RingOrdered, FlowInv, InOrder
<1>2. {} \in SUBSET Pending /\ Pending' = Pending \ {} /\ lost' = lost \cup {}
  BY <1>1
<1> QED
  BY <1>1, <1>2, LoseStep

LEMMA LoopFlow ==
  ASSUME Inv, FlowInv,
         \/ Configure \/ ConfigureFails \/ OpenAndLoad \/ OpenAndLoadFails
         \/ AttachHook \/ NewRing
         \/ PollAgain \/ LeaveLoop \/ Wake \/ Timeout \/ DrainEnds
         \/ Interrupted \/ Sigterm \/ Restart \/ UNCHANGED vars
  PROVE  FlowInv' /\ [Feed!Next]_(Feed!feedVars)
<1>1. /\ UNCHANGED <<ring, issued, lost, event_buffer, posted>>
      /\ pc' = "perform" <=> pc = "perform"
  BY DEF Goto, hookVars, vars, agentVars, Attach, Configure, ConfigureFails, OpenAndLoad,
         OpenAndLoadFails, AttachHook, NewRing, PollAgain, LeaveLoop, Wake, Timeout, DrainEnds, Interrupted, Sigterm, Restart
<1> QED
  BY <1>1, StillFlow
-----------------------------------------------------------------------------
(* The consumer: a record is taken off the ring, and handed to handle_event
   unless it was discarded. *)

LEMMA SkipFlow ==
  ASSUME Inv, FlowInv, Skip
  PROVE  FlowInv' /\ [Feed!Next]_(Feed!feedVars)
<1>1. /\ ring # <<>> /\ Head(ring).state = "discarded" /\ ring' = Tail(ring)
      /\ pc = "drain" /\ pc' = pc
      /\ UNCHANGED <<event_buffer, posted, issued, lost>>
  BY DEF Skip, SkipDiscarded, HeadIs, agentVars
<1>2. Pending' = Pending
  BY <1>1, RingParts, HeadEvent DEF Pending, Unread, EventOf
<1>3. RingOrdered'
  BY <1>1, RingParts, HeadFirst DEF Ordered, RingOrdered
<1>4. {} \in SUBSET Pending /\ Pending' = Pending \ {} /\ lost' = lost \cup {}
  BY <1>1, <1>2
<1> QED
  BY <1>1, <1>3, <1>4, LoseStep

LEMMA HandleEventFlow ==
  ASSUME Inv, FlowInv, HandleEvent,
         \/ ring' = Tail(ring) /\ pc' = "drain"
         \/ ring' = ring /\ pc' = "perform"
  PROVE  FlowInv' /\ [Feed!Next]_(Feed!feedVars)
<1> DEFINE n == Head(ring).id
           e == Ids({n})
<1>1. /\ ring # <<>> /\ Head(ring).state = "ready" /\ pc = "drain"
      /\ event_buffer' = Buffered /\ lost' = lost \cup Dropped
      /\ UNCHANGED <<posted, issued>>
      /\ ring \in Seq(Record) /\ Ordered(ring)
  BY RingParts DEF HandleEvent, HeadIs
<1>2. Unread = ring /\ Unread' = Tail(ring)
  BY <1>1 DEF Unread
<1>e. e = EventOf(Head(ring)) /\ n \in Nat
  BY <1>1, HeadRecord DEF EventOf
<1> HIDE DEF n
<1>3. Pending = e \cup Pending' /\ \A x \in e, y \in Pending' : x < y
  BY <1>1, <1>2, <1>e, HeadEvent, HeadFirst DEF Pending
<1>4. RingOrdered'
  BY <1>1, HeadFirst DEF Ordered, RingOrdered
<1>5. /\ Buf \subseteq Nat /\ e \subseteq Nat /\ Buf \cap Pending = {}
      /\ BufferOrdered /\ BufferFirst
  BY <1>e, AgentEvents, InOrderParts DEF FlowInv, Accounting, Buf, Pending, Ids
<1>6. CASE BufferFull
  <2>1. event_buffer' = event_buffer /\ lost' = lost \cup e
    BY <1>1, <1>6 DEF Buffered, Dropped, n
  <2>2. \A x \in e : x \notin Pending'
    <3> SUFFICES ASSUME NEW x \in e, x \in Pending' PROVE FALSE
      OBVIOUS
    <3>1. x < x /\ x \in Nat
      BY <1>3, <1>5
    <3> QED
      BY <3>1
  <2> HIDE DEF e
  <2>3. e \in SUBSET Pending /\ Pending' = Pending \ e
    BY <1>3, <2>2
  <2> QED
    BY <1>1, <1>4, <2>1, <2>3, LoseStep
<1>7. CASE ~BufferFull
  <2>1. /\ event_buffer' = Append(event_buffer, n) /\ lost' = lost
        /\ event_buffer \in Seq(Nat)
    BY <1>1, <1>7 DEF Buffered, Dropped, n, Inv, AgentTypeOK
  <2> DEFINE k == Len(event_buffer) + 1
  <2>2. /\ \A i \in DOMAIN event_buffer :
              i \in DOMAIN event_buffer' /\ event_buffer'[i] = event_buffer[i] /\ i < k
        /\ \A i \in DOMAIN event_buffer' : i \in DOMAIN event_buffer \/ i = k
        /\ k \in DOMAIN event_buffer' /\ event_buffer'[k] = n
        /\ k \in Nat /\ DOMAIN event_buffer \subseteq Nat
    BY <1>e, <2>1
  <2> HIDE DEF k
  <2>3. Buf' = Buf \cup e
    BY <2>2 DEF Buf, Ids, Elems
  <2>4. InAgent' = InAgent
    BY <1>3, <2>3 DEF InAgent, Buf, Pending
  <2>5. BufferFirst'
    BY <1>3, <1>5, <2>3 DEF BufferFirst
  <2>6. BufferOrdered'
    <3> SUFFICES ASSUME NEW i \in DOMAIN event_buffer', NEW j \in DOMAIN event_buffer',
                        i < j, event_buffer'[i] # Uncounted, event_buffer'[j] # Uncounted
                 PROVE  event_buffer'[i] < event_buffer'[j]
      BY DEF BufferOrdered
    <3>1. i \in DOMAIN event_buffer
      BY <2>2
    <3>2. CASE j \in DOMAIN event_buffer
      BY <1>5, <2>2, <3>1, <3>2 DEF BufferOrdered
    <3>3. CASE j = k
      <4>1. event_buffer'[i] \in Buf /\ event_buffer'[j] \in e
        BY <2>2, <3>1, <3>3 DEF Buf, Ids, Elems
      <4> QED
        BY <1>3, <1>5, <4>1 DEF BufferFirst
    <3> QED
      BY <2>2, <3>2, <3>3
  <2>7. /\ {} \in SUBSET Buf /\ {} \in SUBSET InAgent /\ {} \cap {} = {}
        /\ InAgent' = InAgent \ ({} \cup {})
        /\ posted' = posted \cup {} /\ lost' = lost \cup {}
    BY <1>1, <2>1, <2>4
  <2> QED
    BY <1>1, <1>4, <2>5, <2>6, <2>7, MoveStep
<1> QED
  BY <1>6, <1>7

LEMMA CallbackFlow ==
  ASSUME Inv, FlowInv, Collect \/ SubmitFails \/ Submit
  PROVE  FlowInv' /\ [Feed!Next]_(Feed!feedVars)
<1>1. HandleEvent /\ pc = "drain"
  BY DEF Collect, SubmitFails, Submit, HandleEvent
<1>2. \/ ring' = Tail(ring) /\ pc' = "drain"
      \/ ring' = ring /\ pc' = "perform"
  BY <1>1 DEF Collect, SubmitFails, Submit
<1> QED
  BY <1>1, <1>2, HandleEventFlow

(* The POST returns: the whole buffer is posted, or lost. *)
LEMMA PostFlow ==
  ASSUME Inv, FlowInv, PostReceived \/ PostFails
  PROVE  FlowInv' /\ [Feed!Next]_(Feed!feedVars)
<1>1. /\ pc = "perform" /\ pc' = "drain" /\ event_buffer' = <<>>
      /\ ring' = Tail(ring) /\ issued' = issued
  BY DEF PostReceived, PostFails, PerformReturns, Goto
<1>2. PICK S \in {{}, Buf} : /\ posted' = posted \cup S
                             /\ lost' = lost \cup (Buf \ S)
  <2>1. CASE PostReceived
    BY <2>1 DEF PostReceived, Buf
  <2>2. CASE PostFails
    BY <2>2 DEF PostFails, Buf
  <2> QED
    BY <2>1, <2>2
<1>3. Buf' = {} /\ Pending' = Pending
  BY <1>1 DEF Buf, Pending, Unread, Ids, Elems
<1>4. InAgent = Buf \cup Pending /\ InAgent' = Pending /\ Buf \cap Pending = {}
  BY <1>3 DEF InAgent, Buf, Pending, FlowInv, Accounting
<1>5. RingOrdered'
  BY <1>1, RingParts, HeadFirst DEF Ordered, RingOrdered
<1>6. BufferOrdered' /\ BufferFirst'
  BY <1>1, <1>3 DEF BufferOrdered, BufferFirst
<1>7. InAgent' = InAgent \ (S \cup (Buf \ S)) /\ Buf \ S \in SUBSET InAgent
  BY <1>4
<1>8. InAgent' \subseteq Pending /\ S \in SUBSET Buf /\ S \cap (Buf \ S) = {}
  BY <1>2, <1>4
<1> QED
  BY <1>1, <1>2, <1>5, <1>6, <1>7, <1>8, MoveStep
-----------------------------------------------------------------------------
(* The end of the process. *)

LEMMA EndFlow ==
  ASSUME Inv, FlowInv, AttachFails \/ NewRingFails \/ Close \/ Crash
  PROVE  FlowInv' /\ [Feed!Next]_(Feed!feedVars)
<1>1. CASE AttachFails \/ NewRingFails
  <2>1. event_buffer = <<>> /\ pc = "loaded"
    BY <1>1 DEF AttachFails, NewRingFails, Goto, Inv, EmptyAtStart
  <2>2. InAgent \ {} = InRing(ring)
    BY <2>1 DEF InAgent, Unread, Ids, Elems
  <2>3. /\ {} \in SUBSET Buf /\ Release(InAgent \ {}) /\ pc' # "perform"
        /\ event_buffer' = <<>> /\ posted' = posted \cup {}
    BY <1>1, <2>1, <2>2 DEF AttachFails, NewRingFails, Goto
  <2> QED
    BY <2>3, EndStep
<1>2. CASE Close
  <2>1. /\ {} \in SUBSET Buf /\ Release(InAgent \ {}) /\ pc' # "perform"
        /\ event_buffer' = <<>> /\ posted' = posted \cup {}
    <3>1. InAgent \ {} = InAgent
      OBVIOUS
    <3> QED
      BY <1>2, <3>1 DEF Close, Goto
  <2> QED
    BY <2>1, EndStep
<1>3. CASE Crash
  <2>1. PICK S \in {{}, Buf} : posted' = posted \cup S /\ Release(InAgent \ S)
    BY <1>3 DEF Crash, Buf
  <2>2. S \in SUBSET Buf /\ pc' # "perform" /\ event_buffer' = <<>>
    BY <1>3 DEF Crash
  <2> QED
    BY <2>1, <2>2, EndStep
<1> QED
  BY <1>1, <1>2, <1>3
-----------------------------------------------------------------------------
(* Every step, and what follows for every behaviour. *)

LEMMA InitFlow == Init => FlowInv /\ Feed!Init
<1> SUFFICES ASSUME Init PROVE FlowInv /\ Feed!Init
  OBVIOUS
<1>1. /\ ring = <<>> /\ issued = 0 /\ lost = {} /\ event_buffer = <<>>
      /\ posted = {} /\ Unread = <<>>
  BY DEF Init, HooksInit, Unread
<1>2. Buf = {} /\ Pending = {} /\ InAgent = {}
  BY <1>1 DEF Buf, Pending, InAgent, Ids, Elems, InRing
<1>3. Accounting
  <2>1. 1..issued = {}
    BY <1>1
  <2> QED
    BY <1>1, <1>2, <2>1 DEF Accounting, Buf, Pending
<1>4. InOrder
  BY <1>1, <1>2, InOrderParts DEF RingOrdered, BufferOrdered, BufferFirst, PostedFirst
<1>5. Feed!Init
  BY <1>1, <1>2 DEF Feed!Init
<1> QED
  BY <1>3, <1>4, <1>5 DEF FlowInv

LEMMA NextFlow ==
  Inv /\ FlowInv /\ [Next]_vars => FlowInv' /\ [Feed!Next]_(Feed!feedVars)
<1> SUFFICES ASSUME Inv, FlowInv, [Next]_vars
             PROVE  FlowInv' /\ [Feed!Next]_(Feed!feedVars)
  OBVIOUS
<1>1. CASE Startup
  BY <1>1, LoopFlow, EndFlow DEF Startup
<1>2. CASE Loop
  BY <1>2, LoopFlow, SkipFlow, EndFlow DEF Loop
<1>3. CASE Callback \/ SubmitFails \/ PostFails
  BY <1>3, CallbackFlow, PerformCallFlow, PostFlow DEF Callback
<1>4. CASE Interrupted \/ Sigterm \/ Crash \/ Restart \/ StayDown
  BY <1>4, LoopFlow, EndFlow DEF StayDown
<1>5. CASE \E t \in Hooked : Hook(t)
  BY <1>5, HookFlow
<1>6. CASE \E t \in Tasks : Syscall(t)
  BY <1>6, SyscallFlow
<1>7. CASE \E t \in Endless : Traffic(t)
  BY <1>7, TrafficFlow
<1>8. CASE UNCHANGED vars
  BY <1>8, LoopFlow
<1> QED
  BY <1>1, <1>2, <1>3, <1>4, <1>5, <1>6, <1>7, <1>8 DEF Next

LEMMA FlowInvariance == Spec => [](Inv /\ FlowInv)
<1>1. Init => FlowInv
  BY InitFlow
<1>2. Inv /\ FlowInv /\ [Next]_vars => FlowInv'
  BY NextFlow
<1> QED
  BY <1>1, <1>2, InitInv, NextInv, PTL DEF Spec

(* No event is unaccounted for and none is in two places: each is in the
   buffer, unread in the ring, posted or lost (handle_event copies a record
   before libbpf frees it, submit_events gives a batch away once). *)
THEOREM EventsAccounted == Spec => []Accounting
<1>1. FlowInv => Accounting
  BY DEF FlowInv
<1> QED
  BY <1>1, FlowInvariance, PTL

(* Events are buffered and posted in the order of their system calls, whatever
   the order in which the handlers of bpf.c finish. *)
THEOREM EventsInOrder == Spec => []InOrder
<1>1. FlowInv => InOrder
  BY DEF FlowInv
<1> QED
  BY <1>1, FlowInvariance, PTL

(* The agent is an EventFeed: whatever fails, an event reaches the server at
   most once and never after a later one. *)
THEOREM AgentImplementsFeed == Spec => ImplementsFeed
<1>1. Init => Feed!Init
  BY InitFlow
<1>2. Inv /\ FlowInv /\ [Next]_vars => [Feed!Next]_(Feed!feedVars)
  BY NextFlow
<1> QED
  BY <1>1, <1>2, FlowInvariance, PTL DEF Spec, ImplementsFeed, Feed!Spec
=============================================================================
