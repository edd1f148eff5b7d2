---------------------------- MODULE KernelHooks ----------------------------
(***************************************************************************)
(* The kernel half of the monitoring agent: the four tracepoint handlers   *)
(* of monitoringAgent.bpf.c and the BPF ring buffer they share.            *)
(*                                                                         *)
(* A handler runs in the task that makes the system call, so handlers of   *)
(* different tasks interleave.  It takes two atomic steps that others can  *)
(* see: bpf_ringbuf_reserve, which appends a busy record or fails, and     *)
(* bpf_ringbuf_submit or _discard, which frees the record for the          *)
(* consumer.  What it writes in between is private to it.  The consumer    *)
(* takes records in the order in which they were reserved and stops at the *)
(* first busy one.                                                         *)
(*                                                                         *)
(* The events that the properties follow are numbered in the order of      *)
(* their reserves; what a handler does before (handle_execve looks up the  *)
(* parent) does not count.  The others carry the number Uncounted: those   *)
(* of the agent, itself a task that makes system calls, and the traffic    *)
(* that goes on without end.  (The early return of handle_execve for a     *)
(* null task never happens, a running task has a task struct, and is left  *)
(* out.)                                                                   *)
(*                                                                         *)
(* The handlers are attached one after another: while the later ones are   *)
(* not, the earlier ones run already.                                      *)
(***************************************************************************)
EXTENDS Naturals, Sequences

CONSTANTS Tasks,       \* the traced tasks, the agent not included
          Agent,       \* the task of the monitoring agent
          RingSlots,   \* records that fit in the ring buffer (4809 in 16 MB)
          MaxSyscalls  \* bound on the numbered system calls

ASSUME HooksAssumption == /\ Agent \notin Tasks
                          /\ RingSlots \in Nat \ {0}
                          /\ MaxSyscalls \in Nat

VARIABLES attached,  \* how many of the handlers are attached
          ring,      \* records between the consumer and the producer position
          hook,      \* the handler that holds a record, for each task
          issued,    \* the number of numbered system calls so far
          lost       \* the events that can no longer be delivered

hookVars == <<attached, ring, hook, issued, lost>>

Calls == {"execve", "openat", "socket", "sendto"}

(* The handlers in the order in which the skeleton attaches them, and the calls
   whose handler is attached. *)
Handlers == <<"sendto", "socket", "openat", "execve">>
InPlace == {Handlers[i] : i \in 1..attached}

Hooked == Tasks \cup {Agent}
Uncounted == 0

Record == [task : Hooked, id : Nat, state : {"busy", "ready", "discarded"}]

(* The numbers of a set of records or of a buffer. *)
Ids(S) == S \ {Uncounted}
Elems(s) == {s[i] : i \in DOMAIN s}

(* The events in the ring that the consumer will still be given. *)
InRing(r) == Ids({r[i].id : i \in {j \in DOMAIN r : r[j].state # "discarded"}})
-----------------------------------------------------------------------------
(* The handlers, up to bpf_ringbuf_reserve. *)

(* Mutant: room for one record more than there is. *)
Reserve_NoRoom(t, call, id) ==
    /\ call \in InPlace
    /\ hook[t] = "idle"
    /\ Len(ring) <= RingSlots
    /\ ring' = Append(ring, [task |-> t, id |-> id, state |-> "busy"])
    /\ hook' = [hook EXCEPT ![t] = call]
    /\ UNCHANGED <<attached, lost>>

Reserve(t, call, id) ==
    /\ call \in InPlace
    /\ hook[t] = "idle"
    /\ Len(ring) < RingSlots
    /\ ring' = Append(ring, [task |-> t, id |-> id, state |-> "busy"])
    /\ hook' = [hook EXCEPT ![t] = call]
    /\ UNCHANGED <<attached, lost>>

(* No room: the handler returns at once and nobody hears of the event. *)
ReserveFails(t, call, id) ==
    /\ call \in InPlace
    /\ hook[t] = "idle"
    /\ Len(ring) >= RingSlots
    /\ lost' = lost \cup Ids({id})
    /\ UNCHANGED <<attached, ring, hook>>

Enter(t, call) ==
    /\ issued < MaxSyscalls
    /\ issued' = issued + 1
    /\ Reserve(t, call, issued + 1) \/ ReserveFails(t, call, issued + 1)

handle_sendto(t) == Enter(t, "sendto")
handle_socket(t) == Enter(t, "socket")
handle_open(t)   == Enter(t, "openat")
handle_execve(t) == Enter(t, "execve")

(* The same handlers for a call that is not numbered. *)
UncountedCall(t, call) ==
    /\ Reserve(t, call, Uncounted) \/ ReserveFails(t, call, Uncounted)
    /\ issued' = issued
-----------------------------------------------------------------------------
(* The handlers, from bpf_ringbuf_reserve to the end. *)

Held(t) == CHOOSE i \in DOMAIN ring : /\ ring[i].task = t
                                      /\ ring[i].state = "busy"

(* The ring after the record of t changed its state. *)
Marked(t, state) ==
    [ring EXCEPT ![Held(t)] = [task |-> t, id |-> ring[Held(t)].id, state |-> state]]

bpf_ringbuf_submit(t) ==
    /\ hook[t] \in Calls \ {"openat"}
    /\ ring' = Marked(t, "ready")
    /\ hook' = [hook EXCEPT ![t] = "idle"]
    /\ UNCHANGED <<attached, issued, lost>>

(* Mutant: the handler returns without giving its record back. *)
bpf_ringbuf_discard_Forgotten(t) ==
    /\ hook[t] = "openat"
    /\ hook' = [hook EXCEPT ![t] = "idle"]
    /\ UNCHANGED <<attached, ring, issued, lost>>

(* handle_open fills its record in and then throws it away. *)
bpf_ringbuf_discard(t) ==
    /\ hook[t] = "openat"
    /\ ring' = Marked(t, "discarded")
    /\ hook' = [hook EXCEPT ![t] = "idle"]
    /\ lost' = lost \cup Ids({ring[Held(t)].id})
    /\ UNCHANGED <<attached, issued>>

Traced(t) == \/ handle_sendto(t) \/ handle_socket(t)
             \/ handle_open(t)   \/ handle_execve(t)

Finish(t) == bpf_ringbuf_submit(t) \/ bpf_ringbuf_discard(t)
-----------------------------------------------------------------------------
(* The consumer's side of the ring, as libbpf reads it. *)

HeadIs(state) == ring # <<>> /\ Head(ring).state = state

SkipDiscarded ==
    /\ HeadIs("discarded")
    /\ ring' = Tail(ring)
    /\ UNCHANGED <<attached, hook, issued, lost>>

(* The next handler is attached. *)
Attach == /\ attached < Len(Handlers)
          /\ attached' = attached + 1
          /\ UNCHANGED <<ring, hook, issued, lost>>

(* The handlers are detached and the map is freed with all it holds; gone are
   the events that die with it, those of the process's own memory included. *)
Release(gone) == /\ attached' = 0
                 /\ ring' = <<>>
                 /\ hook' = [t \in Hooked |-> "idle"]
                 /\ lost' = lost \cup gone
                 /\ issued' = issued
-----------------------------------------------------------------------------
HooksInit == /\ attached = 0
             /\ ring = <<>>
             /\ hook = [t \in Hooked |-> "idle"]
             /\ issued = 0
             /\ lost = {}

HooksTypeOK == /\ attached \in 0..Len(Handlers)
               /\ ring \in Seq(Record)
               /\ Len(ring) <= RingSlots
               /\ hook \in [Hooked -> Calls \cup {"idle"}]
               /\ issued \in Nat
               /\ lost \in SUBSET (1..issued)

(* No task holds two records. *)
SoleHolder == \A i, j \in DOMAIN ring :
                 /\ ring[i].state = "busy"
                 /\ ring[j].state = "busy"
                 /\ ring[i].task = ring[j].task
                 => i = j

(* Reservations and running handlers match: a task whose handler is running
   holds exactly one busy record, and every busy record is held by a running
   handler (nothing is reserved and forgotten, which would block the consumer
   forever: it stops at the first busy record).  bpf.c: reserve ... submit. *)
OneHolder == /\ SoleHolder
             /\ \A t \in Hooked :
                   hook[t] # "idle" <=> \E i \in DOMAIN ring :
                                           /\ ring[i].task = t
                                           /\ ring[i].state = "busy"

(* The ring keeps the order of the reserves, whatever the order in which the
   handlers finish. *)
RingOrdered == \A i, j \in DOMAIN ring :
                  /\ i < j
                  /\ ring[i].id # Uncounted
                  /\ ring[j].id # Uncounted
                  => ring[i].id < ring[j].id
=============================================================================
