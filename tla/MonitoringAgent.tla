-------------------------- MODULE MonitoringAgent --------------------------
(***************************************************************************)
(* The monitoring agent: main, handle_event and submit_events of           *)
(* monitoringAgent.c, on top of the handlers of KernelHooks, with systemd  *)
(* starting the process and restarting it when it fails.                   *)
(*                                                                         *)
(* The process is single threaded.  pc says where it is:                   *)
(*   "start"       main, before the signal handlers are installed          *)
(*   "configured"  they are, and the BPF skeleton is not loaded yet        *)
(*   "loaded"      it is; the tracepoint handlers are attached one by one, *)
(*                 and those that are fill the ring, which nobody reads    *)
(*   "loop"        at the test of exit_flag                                *)
(*   "wait"        in epoll_wait, inside ring_buffer__poll                 *)
(*   "drain"       in ring_buffer__poll, taking records off the ring       *)
(*   "perform"     in curl_easy_perform, inside the callback handle_event  *)
(*   "closing"     after the loop                                          *)
(*   "exited"      main returned 0, or the process was stopped             *)
(*   "failed"      main returned -1, or the process was killed             *)
(*                                                                         *)
(* libbpf's drain loop reads on until it finds the ring empty or a busy    *)
(* record at its head, and moves the consumer position past a record only  *)
(* after the callback returned: during a POST the record whose event       *)
(* completed the batch still takes up its place in the ring.               *)
(***************************************************************************)
EXTENDS KernelHooks

CONSTANTS buffer_size, batch_size,  \* as load_config leaves them
          SelfCalls,                \* the hooked calls one POST makes, in order
          Endless,                  \* tasks that make calls without end
          Faults                    \* what may go wrong, a subset of FaultKinds

FaultKinds == {"startup", "curl_init", "post", "interrupt", "crash"}

(* What load_config and validate_config establish (absent overflow), except
   that sizes below the smallest accepted ones are allowed. *)
ASSUME AgentAssumption ==
    /\ buffer_size \in Nat /\ batch_size \in Nat
    /\ batch_size > 1
    /\ buffer_size >= 2 * batch_size
    /\ SelfCalls \in Seq(Calls)
    /\ Endless \subseteq Tasks
    /\ Faults \subseteq FaultKinds

VARIABLES pc,
          event_buffer,  \* the events buffered; its length is event_count
          exit_flag,     \* SIGINT or SIGTERM was received: stop
          calls,         \* the hooked calls this POST has still to make
          posted         \* events in the body of a request the server received

agentVars == <<pc, event_buffer, exit_flag, calls, posted>>
vars == <<attached, ring, hook, issued, lost,
          pc, event_buffer, exit_flag, calls, posted>>

event_count == Len(event_buffer)

Init == /\ HooksInit
        /\ pc = "start"
        /\ event_buffer = <<>>
        /\ exit_flag = FALSE
        /\ calls = <<>>
        /\ posted = {}
-----------------------------------------------------------------------------
(* main, up to the loop.  Every failure returns -1. *)

Goto(from, to) == pc = from /\ pc' = to

(* load_config, the event buffer, and signal() twice. *)
Configure == /\ Goto("start", "configured")
             /\ UNCHANGED <<hookVars, event_buffer, exit_flag, calls, posted>>

ConfigureFails == /\ "startup" \in Faults
                  /\ Goto("start", "failed")
                  /\ UNCHANGED <<hookVars, event_buffer, exit_flag, calls, posted>>

OpenAndLoad == /\ Goto("configured", "loaded")
               /\ UNCHANGED <<hookVars, event_buffer, exit_flag, calls, posted>>

OpenAndLoadFails == /\ "startup" \in Faults
                    /\ Goto("configured", "failed")
                    /\ UNCHANGED <<hookVars, event_buffer, exit_flag, calls, posted>>

(* monitoringAgent_bpf__attach, one handler. *)
AttachHook == /\ pc = "loaded"
              /\ Attach
              /\ UNCHANGED agentVars

(* Mutant: the skeleton is not destroyed when a handler cannot be attached. *)
AttachFails_Leaks == /\ "startup" \in Faults
                     /\ attached < Len(Handlers)
                     /\ Goto("loaded", "failed")
                     /\ UNCHANGED <<hookVars, event_buffer, exit_flag, calls, posted>>

(* The handlers attached so far are detached again, and what they have put into
   the ring goes with it. *)
AttachFails == /\ "startup" \in Faults
               /\ attached < Len(Handlers)
               /\ Goto("loaded", "failed")
               /\ Release(InRing(ring))
               /\ UNCHANGED <<event_buffer, exit_flag, calls, posted>>

NewRing == /\ attached = Len(Handlers)
           /\ Goto("loaded", "loop")
           /\ UNCHANGED <<hookVars, event_buffer, exit_flag, calls, posted>>

NewRingFails == /\ "startup" \in Faults
                /\ attached = Len(Handlers)
                /\ Goto("loaded", "failed")
                /\ Release(InRing(ring))
                /\ UNCHANGED <<event_buffer, exit_flag, calls, posted>>
-----------------------------------------------------------------------------
(* The loop: while (!exit_flag) ring_buffer__poll(rb, 1000). *)

(* Mutant: while (1). *)
PollAgain_Forever == /\ Goto("loop", "wait")
                     /\ UNCHANGED <<hookVars, event_buffer, exit_flag, calls, posted>>

PollAgain == /\ ~exit_flag
             /\ Goto("loop", "wait")
             /\ UNCHANGED <<hookVars, event_buffer, exit_flag, calls, posted>>

LeaveLoop == /\ exit_flag
             /\ Goto("loop", "closing")
             /\ UNCHANGED <<hookVars, event_buffer, exit_flag, calls, posted>>

(* epoll_wait is level triggered: the ring is readable while it holds any
   record, a busy one included. *)
Wake == /\ ring # <<>>
        /\ Goto("wait", "drain")
        /\ UNCHANGED <<hookVars, event_buffer, exit_flag, calls, posted>>

Timeout == /\ ring = <<>>
           /\ Goto("wait", "loop")
           /\ UNCHANGED <<hookVars, event_buffer, exit_flag, calls, posted>>

(* epoll_wait returns EINTR, for SIGTERM or because the process was stopped
   and continued: poll returns an error and the loop is left either way. *)
Interrupted == /\ exit_flag \/ "interrupt" \in Faults
               /\ ring = <<>>
               /\ Goto("wait", "closing")
               /\ UNCHANGED <<hookVars, event_buffer, exit_flag, calls, posted>>

(* Skipping a discarded record, and the end of the drain. *)
Skip == /\ pc = "drain"
        /\ SkipDiscarded
        /\ UNCHANGED agentVars

DrainEnds == /\ ring = <<>> \/ HeadIs("busy")
             /\ Goto("drain", "loop")
             /\ UNCHANGED <<hookVars, event_buffer, exit_flag, calls, posted>>
-----------------------------------------------------------------------------
(* handle_event, the callback for the record at the head of the ring. *)

BufferFull == event_count > buffer_size

(* Mutant: the new event goes in front. *)
Buffered_Reversed == IF BufferFull THEN event_buffer
                                   ELSE <<Head(ring).id>> \o event_buffer

(* The buffer and the losses after the first half of handle_event. *)
Buffered == IF BufferFull THEN event_buffer
                          ELSE Append(event_buffer, Head(ring).id)
Dropped == IF BufferFull THEN Ids({Head(ring).id}) ELSE {}

HandleEvent == /\ pc = "drain"
               /\ HeadIs("ready")
               /\ event_buffer' = Buffered
               /\ lost' = lost \cup Dropped
               /\ UNCHANGED <<attached, hook, issued, exit_flag, posted>>

(* The batch is not complete: nothing to submit. *)
Collect == /\ HandleEvent
           /\ Len(Buffered) < batch_size
           /\ ring' = Tail(ring)
           /\ UNCHANGED <<pc, calls>>

(* submit_events returns -1 before it sends anything: the buffer is kept. *)
SubmitFails == /\ "curl_init" \in Faults
               /\ HandleEvent
               /\ Len(Buffered) >= batch_size
               /\ ring' = Tail(ring)
               /\ UNCHANGED <<pc, calls>>

Submit == /\ HandleEvent
          /\ Len(Buffered) >= batch_size
          /\ pc' = "perform"
          /\ calls' = SelfCalls
          /\ ring' = ring
-----------------------------------------------------------------------------
(* curl_easy_perform: it makes system calls, which are traced like any
   other, and returns.  submit_events returns 0 whatever the result, so
   handle_event empties the buffer, and libbpf moves past the record. *)

PerformCall == /\ pc = "perform"
               /\ calls # <<>>
               /\ UncountedCall(Agent, Head(calls))
               /\ calls' = Tail(calls)
               /\ UNCHANGED <<pc, event_buffer, exit_flag, posted>>

PerformReturns == /\ Goto("perform", "drain")
                  /\ hook[Agent] = "idle"
                  /\ calls' = <<>>
                  /\ event_buffer' = <<>>
                  /\ ring' = Tail(ring)
                  /\ UNCHANGED <<attached, hook, issued, exit_flag>>

(* Mutants: the buffer is kept after the request was received, after it
   failed. *)
KeepBuffer == /\ Goto("perform", "drain")
              /\ hook[Agent] = "idle"
              /\ calls' = <<>>
              /\ ring' = Tail(ring)
              /\ UNCHANGED <<attached, hook, issued, exit_flag, event_buffer>>
PostReceived_Kept == /\ calls = <<>>
                     /\ KeepBuffer
                     /\ posted' = posted \cup Ids(Elems(event_buffer))
                     /\ lost' = lost
PostFails_Kept == /\ "post" \in Faults
                  /\ KeepBuffer
                  /\ UNCHANGED <<posted, lost>>

(* The server answered, with whatever HTTP status, or received the request
   but its answer was lost. *)
PostReceived == /\ calls = <<>>
                /\ PerformReturns
                /\ posted' = posted \cup Ids(Elems(event_buffer))
                /\ lost' = lost

(* No connection, or it broke before the request was complete. *)
PostFails == /\ "post" \in Faults
             /\ PerformReturns
             /\ lost' = lost \cup Ids(Elems(event_buffer))
             /\ posted' = posted
-----------------------------------------------------------------------------
(* The end of the process. *)

(* The records for which the callback was not called yet. *)
Unread == IF pc = "perform" THEN Tail(ring) ELSE ring

(* The events the process and its ring still hold. *)
InAgent == Ids(Elems(event_buffer)) \cup InRing(Unread)

(* main after the loop: nothing that is buffered is submitted. *)
Close == /\ Goto("closing", "exited")
         /\ Release(InAgent)
         /\ event_buffer' = <<>>
         /\ UNCHANGED <<exit_flag, calls, posted>>

(* SIGTERM, sent once.  Before the handler is installed it ends the process;
   from then on it sets the flag, which the start does not look at. *)
Sigterm == /\ ~exit_flag
           /\ pc # "exited"
           /\ exit_flag' = TRUE
           /\ pc' = IF pc = "start" THEN "exited" ELSE pc
           /\ UNCHANGED <<hookVars, event_buffer, calls, posted>>

(* The process is killed; a POST it was making may have reached the server. *)
Crash == /\ "crash" \in Faults
         /\ pc \notin {"exited", "failed"}
         /\ pc' = "failed"
         /\ \E reached \in {{}, Ids(Elems(event_buffer))} :
               /\ reached # {} => pc = "perform" /\ calls = <<>>
               /\ posted' = posted \cup reached
               /\ Release(InAgent \ reached)
         /\ event_buffer' = <<>>
         /\ calls' = <<>>
         /\ exit_flag' = exit_flag

(* systemd: Restart=on-failure, unless the service was told to stop. *)
Restart == /\ ~exit_flag
           /\ Goto("failed", "start")
           /\ UNCHANGED <<hookVars, event_buffer, exit_flag, calls, posted>>

(* The service is down for good. *)
Down == pc = "exited" \/ (pc = "failed" /\ exit_flag)
StayDown == Down /\ UNCHANGED vars
-----------------------------------------------------------------------------
Startup == \/ Configure \/ ConfigureFails \/ OpenAndLoad \/ OpenAndLoadFails
           \/ AttachHook \/ AttachFails \/ NewRing \/ NewRingFails

Loop == PollAgain \/ LeaveLoop \/ Wake \/ Timeout \/ Skip \/ DrainEnds \/ Close

Callback == Collect \/ Submit \/ PerformCall \/ PostReceived

(* One step of a handler, in the task it runs in. *)
Hook(t) == Finish(t) /\ UNCHANGED agentVars

Syscall(t) == Traced(t) /\ UNCHANGED agentVars

(* A call of a task that never stops making them. *)
Traffic(t) == /\ \E call \in Calls : UncountedCall(t, call)
              /\ UNCHANGED agentVars

Next == \/ Startup \/ Loop \/ Callback
        \/ SubmitFails \/ PostFails
        \/ Interrupted \/ Sigterm \/ Crash \/ Restart \/ StayDown
        \/ \E t \in Hooked : Hook(t)
        \/ \E t \in Tasks : Syscall(t)
        \/ \E t \in Endless : Traffic(t)

Spec == Init /\ [][Next]_vars

(* The process runs whenever it can, handlers finish, a POST eventually
   returns (curl sets no timeout: this is an assumption on the network), and
   systemd restarts a failed service.  Nothing forces a task to make a system
   call, a fault to happen or a signal to be sent. *)
Fairness == /\ WF_vars(Startup \/ Loop \/ Callback)
            /\ \A t \in Hooked : WF_vars(Hook(t))
            /\ WF_vars(Restart)

FairSpec == Spec /\ Fairness
-----------------------------------------------------------------------------
States == {"start", "configured", "loaded", "loop", "wait", "drain", "perform",
           "closing", "exited", "failed"}

TypeOK == /\ HooksTypeOK
          /\ pc \in States
          /\ event_buffer \in Seq(Nat)
          /\ exit_flag \in BOOLEAN
          /\ calls \in Seq(Calls)
          /\ posted \in SUBSET (1..issued)

(* Every system call that was issued is accounted for: its event is in the
   ring, in the buffer, posted or lost, and in one of them only.  handle_event
   copies the record, submit_events and the reset of event_count come between
   the copy and the moment libbpf frees the record. *)
Accounting ==
    LET buffered == Ids(Elems(event_buffer))
        unread   == InRing(Unread)
    IN  /\ 1..issued = buffered \cup unread \cup posted \cup lost
        /\ buffered \cap unread = {}
        /\ (buffered \cup unread) \cap (posted \cup lost) = {}
        /\ posted \cap lost = {}

(* The events leave in the order in which their records were reserved: whatever
   was posted is older than what is buffered, the buffer is in order, and it is
   older than what is unread in the ring. *)
InOrder ==
    /\ RingOrdered
    /\ \A i, j \in DOMAIN event_buffer :
          /\ i < j
          /\ event_buffer[i] # Uncounted
          /\ event_buffer[j] # Uncounted
          => event_buffer[i] < event_buffer[j]
    /\ \A b \in Ids(Elems(event_buffer)), r \in InRing(Unread) : b < r
    /\ \A p \in posted : \A r \in InAgent : p < r

(* "max size of event buffer": handle_event writes inside the array.  Its guard
   has > where >= is meant. *)
BufferInArray == event_count <= buffer_size

(* "The batch_size defines the number of logs sent in a single submission":
   true as long as curl_easy_init works, and the buffer then never holds more
   than one batch. *)
ExactBatch == "curl_init" \notin Faults =>
                  /\ event_count <= batch_size
                  /\ (pc = "perform" <=> event_count = batch_size)

(* A process that does not run, or has not come to the attaching, has nothing
   in the kernel: no handler attached, no record reserved.  It is the cleanup
   after each step of the start that may fail, with handlers running beside it,
   and after the loop. *)
NothingLeft == pc \in {"start", "configured", "exited", "failed"} =>
                  /\ attached = 0
                  /\ ring = <<>>
                  /\ event_buffer = <<>>
                  /\ \A t \in Hooked : hook[t] = "idle"

(* The events in the agent are the pending ones, and a request received by
   the server delivers them. *)
Feed == INSTANCE EventFeed WITH pending <- InAgent, delivered <- posted

(* From the system call to the server the agent is an EventFeed: an event is
   posted at most once, never after a later one, and not after it was lost.
   submit_events and handle_event: no retry, and the buffer is emptied whatever
   the outcome of the request. *)
ImplementsFeed == Feed!Spec

(* "signal to stop all threads". *)
StopsOnSignal == exit_flag ~> Down

(* The signal stops the agent unless other tasks make traced calls without end:
   a poll returns only when it finds no record to read, and exit_flag is looked
   at between two polls.  With the agent's own calls alone the drain ends if a POST
   makes fewer of them than a batch has events. *)
StopsWhenQuiet == \/ StopsOnSignal
                  \/ []<><<\E t \in Endless : Traffic(t)>>_vars

(* Every record that enters the ring leaves it, handled, skipped or released
   with the process. *)
RecordsConsumed == \A id \in 1..MaxSyscalls :
                      id \in InRing(ring) ~> id \notin InRing(ring)
=============================================================================
