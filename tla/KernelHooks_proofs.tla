-------------------------- MODULE KernelHooks_proofs --------------------------
(***************************************************************************)
(* What the steps of the hooks and of the ring's consumer keep: the types, *)
(* the matching of running handlers with busy records, and that no record  *)
(* is numbered ahead of the system calls.  MonitoringAgent and EventRecord *)
(* are built from these steps, their proofs from these lemmas.             *)
(***************************************************************************)
EXTENDS KernelHooks, TLAPS

(* What the lemmas need besides the type and the matching of reservations and
   handlers: no record is numbered ahead of the system calls. *)
IdsIssued == \A i \in DOMAIN ring : ring[i].id <= issued

HooksInv == HooksTypeOK /\ OneHolder /\ IdsIssued

(* The elements of a sequence of records have the fields of a record. *)
LEMMA RecordFields ==
  ASSUME NEW s \in Seq(Record), NEW i \in DOMAIN s
  PROVE  /\ s[i] \in Record
         /\ s[i].task \in Hooked
         /\ s[i].id \in Nat
         /\ s[i].state \in {"busy", "ready", "discarded"}
<1>1. s[i] \in Record
  OBVIOUS
<1> QED
  BY <1>1 DEF Record

(* The empty ring. *)
LEMMA EmptyRing == /\ <<>> \in Seq(Record)
                   /\ Len(<<>>) = 0
                   /\ DOMAIN <<>> = {}
  OBVIOUS

LEMMA HandlersLength == Len(Handlers) = 4 /\ 0 \in 0..Len(Handlers)
  BY DEF Handlers

LEMMA HooksInitInv == HooksInit => HooksInv
<1> SUFFICES ASSUME HooksInit PROVE HooksInv
  OBVIOUS
<1> USE HooksAssumption DEF HooksInit
<1>1. HooksTypeOK
  <2>1. ring \in Seq(Record) /\ Len(ring) <= RingSlots
    BY EmptyRing
  <2>2. hook \in [Hooked -> Calls \cup {"idle"}]
    OBVIOUS
  <2>3. lost \in SUBSET (1..issued) /\ issued \in Nat /\ attached \in 0..Len(Handlers)
    BY HandlersLength
  <2> QED
    BY <2>1, <2>2, <2>3 DEF HooksTypeOK
<1>2. OneHolder
  BY DEF OneHolder, SoleHolder
<1>3. IdsIssued
  BY DEF IdsIssued
<1> QED
  BY <1>1, <1>2, <1>3 DEF HooksInv

(* A running handler holds a busy record. *)
LEMMA HeldBusy ==
  ASSUME HooksInv, NEW t \in Hooked, hook[t] # "idle"
  PROVE  /\ Held(t) \in DOMAIN ring
         /\ ring[Held(t)].task = t
         /\ ring[Held(t)].state = "busy"
  BY DEF HooksInv, OneHolder, Held

(* Freeing a record changes its state and nothing else in the ring. *)
LEMMA MarkedRing ==
  ASSUME HooksInv, NEW t \in Hooked, hook[t] # "idle",
         NEW m \in {"ready", "discarded"}
  PROVE  /\ Marked(t, m) \in Seq(Record)
         /\ Len(Marked(t, m)) = Len(ring)
         /\ DOMAIN Marked(t, m) = DOMAIN ring
         /\ \A j \in DOMAIN ring : /\ Marked(t, m)[j].task = ring[j].task
                                   /\ Marked(t, m)[j].id = ring[j].id
                                   /\ j # Held(t) => Marked(t, m)[j] = ring[j]
         /\ Marked(t, m)[Held(t)].state = m
<1> DEFINE h == Held(t)
<1>1. h \in DOMAIN ring /\ ring[h].task = t /\ ring \in Seq(Record)
  BY HeldBusy DEF HooksInv, HooksTypeOK
<1> HIDE DEF h
<1> DEFINE r == [task |-> t, id |-> ring[h].id, state |-> m]
<1>2. r \in Record /\ r.task = t /\ r.id = ring[h].id /\ r.state = m
  BY <1>1, RecordFields DEF Record
<1> HIDE DEF r
<1> DEFINE u == [ring EXCEPT ![h] = r]
<1>3. /\ u \in Seq(Record)
      /\ Len(u) = Len(ring)
      /\ DOMAIN u = DOMAIN ring
      /\ u[h] = r
      /\ \A j \in DOMAIN ring : j # h => u[j] = ring[j]
  BY <1>1, <1>2
<1>4. u = Marked(t, m)
  BY DEF u, r, h, Marked
<1> HIDE DEF u
<1> QED
  BY <1>1, <1>2, <1>3, <1>4 DEF h

LEMMA ReserveInv ==
  ASSUME HooksInv, NEW t \in Hooked, NEW call \in Calls, NEW id \in Nat,
         Reserve(t, call, id), issued' \in Nat, issued' >= issued, id <= issued'
  PROVE  HooksInv'
<1> USE HooksAssumption DEF HooksInv
<1> DEFINE r == [task |-> t, id |-> id, state |-> "busy"]
<1>1. r \in Record
  BY DEF Record
<1>2. /\ ring' = Append(ring, r)
      /\ ring' \in Seq(Record)
      /\ Len(ring') = Len(ring) + 1
      /\ \A i \in DOMAIN ring' : i \in DOMAIN ring \/ i = Len(ring) + 1
      /\ \A i \in DOMAIN ring : i \in DOMAIN ring' /\ ring'[i] = ring[i]
      /\ Len(ring) + 1 \in DOMAIN ring'
      /\ ring'[Len(ring) + 1] = r
  BY <1>1 DEF Reserve, HooksTypeOK
<1>3. HooksTypeOK'
  BY <1>2 DEF HooksTypeOK, Reserve
<1>4. \A i \in DOMAIN ring : ring[i].state = "busy" => ring[i].task # t
  BY DEF OneHolder, Reserve, HooksTypeOK
<1>5. SoleHolder'
  BY <1>2, <1>4 DEF OneHolder, SoleHolder
<1>6. \A u \in Hooked : hook'[u] # "idle" <=> \E i \in DOMAIN ring' :
                           ring'[i].task = u /\ ring'[i].state = "busy"
  BY <1>2, <1>4 DEF OneHolder, Reserve, HooksTypeOK, Calls
<1>7. IdsIssued'
  <2> SUFFICES ASSUME NEW i \in DOMAIN ring' PROVE ring'[i].id <= issued'
    BY DEF IdsIssued
  <2>1. CASE i \in DOMAIN ring
    BY <1>2, <2>1, RecordFields DEF IdsIssued, HooksTypeOK
  <2>2. CASE i = Len(ring) + 1
    BY <1>2, <2>2
  <2> QED
    BY <1>2, <2>1, <2>2
<1> QED
  BY <1>3, <1>5, <1>6, <1>7 DEF OneHolder

LEMMA ReserveFailsInv ==
  ASSUME HooksInv, NEW t \in Hooked, NEW call \in Calls, NEW id \in Nat,
         ReserveFails(t, call, id), issued' \in Nat, issued' >= issued, id <= issued'
  PROVE  HooksInv'
<1> USE DEF HooksInv, ReserveFails
<1>1. HooksTypeOK'
  BY DEF HooksTypeOK, Ids, Uncounted
<1>2. OneHolder'
  BY DEF OneHolder, SoleHolder
<1>3. IdsIssued'
  BY RecordFields DEF IdsIssued, HooksTypeOK
<1> QED
  BY <1>1, <1>2, <1>3

LEMMA TracedInv ==
  ASSUME HooksInv, NEW t \in Tasks, Traced(t)
  PROVE  HooksInv'
<1>1. PICK call \in Calls : Enter(t, call)
  BY DEF Traced, Calls, handle_sendto, handle_socket, handle_open, handle_execve
<1>2. /\ issued' = issued + 1
      /\ issued' \in Nat
      /\ issued' >= issued
      /\ t \in Hooked
  BY <1>1 DEF Enter, HooksInv, HooksTypeOK, Hooked
<1>3. CASE Reserve(t, call, issued + 1)
  BY <1>2, <1>3, ReserveInv
<1>4. CASE ReserveFails(t, call, issued + 1)
  BY <1>2, <1>4, ReserveFailsInv
<1> QED
  BY <1>1, <1>3, <1>4 DEF Enter

LEMMA UncountedCallInv ==
  ASSUME HooksInv, NEW t \in Hooked, NEW call \in Calls, UncountedCall(t, call)
  PROVE  HooksInv'
<1>1. /\ Uncounted \in Nat
      /\ issued' = issued
      /\ issued' \in Nat
      /\ Uncounted <= issued'
  BY DEF UncountedCall, HooksInv, HooksTypeOK, Uncounted
<1>2. CASE Reserve(t, call, Uncounted)
  BY <1>1, <1>2, ReserveInv
<1>3. CASE ReserveFails(t, call, Uncounted)
  BY <1>1, <1>3, ReserveFailsInv
<1> QED
  BY <1>2, <1>3 DEF UncountedCall

(* The common part of submit and discard: the record is no longer busy and the
   handler has returned. *)
LEMMA UnholdInv ==
  ASSUME HooksInv, NEW t \in Hooked, hook[t] # "idle",
         NEW m \in {"ready", "discarded"},
         ring' = Marked(t, m),
         hook' = [hook EXCEPT ![t] = "idle"],
         UNCHANGED <<attached, issued>>,
         lost' \in SUBSET (1..issued)
  PROVE  HooksInv'
<1> USE DEF HooksInv
<1> DEFINE h == Held(t)
<1>1. h \in DOMAIN ring /\ ring[h].task = t /\ ring[h].state = "busy"
  BY HeldBusy
<1>2. /\ ring' \in Seq(Record)
      /\ Len(ring') = Len(ring)
      /\ DOMAIN ring' = DOMAIN ring
      /\ \A j \in DOMAIN ring : /\ ring'[j].task = ring[j].task
                                /\ ring'[j].id = ring[j].id
                                /\ j # h => ring'[j] = ring[j]
      /\ ring'[h].state = m
  BY MarkedRing
<1> HIDE DEF h
<1>3. HooksTypeOK'
  BY <1>2 DEF HooksTypeOK
<1>4. SoleHolder'
  BY <1>1, <1>2 DEF OneHolder, SoleHolder
<1>5. \A u \in Hooked : hook'[u] # "idle" <=> \E i \in DOMAIN ring' :
                           ring'[i].task = u /\ ring'[i].state = "busy"
  <2> SUFFICES ASSUME NEW u \in Hooked
               PROVE  hook'[u] # "idle" <=> \E i \in DOMAIN ring' :
                           ring'[i].task = u /\ ring'[i].state = "busy"
    OBVIOUS
  <2>1. CASE u = t
    BY <2>1, <1>1, <1>2 DEF HooksTypeOK, OneHolder, SoleHolder
  <2>2. CASE u # t
    <3>1. hook'[u] = hook[u]
      BY <2>2 DEF HooksTypeOK
    <3>2. \A i \in DOMAIN ring : ring[i].task = u =>
             (ring'[i].state = "busy" <=> ring[i].state = "busy")
      BY <2>2, <1>1, <1>2
    <3> QED
      BY <3>1, <3>2, <1>2 DEF OneHolder
  <2> QED
    BY <2>1, <2>2
<1>6. IdsIssued'
  BY <1>2 DEF IdsIssued
<1> QED
  BY <1>3, <1>4, <1>5, <1>6 DEF OneHolder

LEMMA FinishInv ==
  ASSUME HooksInv, NEW t \in Hooked, Finish(t)
  PROVE  HooksInv'
<1>1. hook[t] # "idle"
  BY DEF Finish, bpf_ringbuf_submit, bpf_ringbuf_discard, Calls
<1>2. CASE bpf_ringbuf_submit(t)
  BY <1>1, <1>2, UnholdInv DEF bpf_ringbuf_submit, HooksInv, HooksTypeOK
<1>3. CASE bpf_ringbuf_discard(t)
  <2>1. Ids({ring[Held(t)].id}) \subseteq 1..issued
    <3> DEFINE n == ring[Held(t)].id
    <3>1. n \in Nat /\ n <= issued /\ issued \in Nat
      BY <1>1, HeldBusy, RecordFields DEF HooksInv, HooksTypeOK, IdsIssued
    <3> HIDE DEF n
    <3>2. Ids({n}) \subseteq 1..issued
      BY <3>1 DEF Ids, Uncounted
    <3> QED
      BY <3>2 DEF n
  <2> QED
    BY <2>1, <1>1, <1>3, UnholdInv DEF bpf_ringbuf_discard, HooksInv, HooksTypeOK
<1> QED
  BY <1>2, <1>3 DEF Finish

(* The consumer moves past a record that is not busy. *)
LEMMA TailInv ==
  ASSUME HooksInv, ring # <<>>, Head(ring).state # "busy", ring' = Tail(ring),
         UNCHANGED <<attached, hook, issued>>, lost' \in SUBSET (1..issued)
  PROVE  HooksInv'
<1> USE DEF HooksInv
<1>1. /\ ring' \in Seq(Record)
      /\ Len(ring') = Len(ring) - 1
      /\ ring[1].state # "busy"
      /\ DOMAIN ring = 1..Len(ring)
      /\ DOMAIN ring' = 1..(Len(ring) - 1)
      /\ \A i \in DOMAIN ring' : ring'[i] = ring[i + 1]
      /\ Len(ring) \in Nat
  <2>1. ring \in Seq(Record) /\ ring # <<>>
    BY DEF HooksTypeOK
  <2> QED
    BY <2>1
<1>2. HooksTypeOK'
  BY <1>1, HooksAssumption DEF HooksTypeOK
<1>3. \A i \in DOMAIN ring' : i + 1 \in DOMAIN ring /\ i \in Nat
  BY <1>1
<1>4. \A i \in DOMAIN ring : i # 1 => i - 1 \in DOMAIN ring' /\ ring'[i - 1] = ring[i]
  BY <1>1
<1>5. SoleHolder'
  <2> SUFFICES ASSUME NEW i \in DOMAIN ring', NEW j \in DOMAIN ring',
                      ring'[i].state = "busy", ring'[j].state = "busy",
                      ring'[i].task = ring'[j].task
               PROVE  i = j
    BY DEF SoleHolder
  <2>1. i + 1 = j + 1
    BY <1>1, <1>3 DEF OneHolder, SoleHolder
  <2> QED
    BY <2>1, <1>3
<1>6. ASSUME NEW u \in Hooked
      PROVE  (\E i \in DOMAIN ring : ring[i].task = u /\ ring[i].state = "busy")
             <=> (\E i \in DOMAIN ring' : ring'[i].task = u /\ ring'[i].state = "busy")
  <2>1. ASSUME NEW i \in DOMAIN ring, ring[i].task = u, ring[i].state = "busy"
        PROVE  \E j \in DOMAIN ring' : ring'[j].task = u /\ ring'[j].state = "busy"
    <3>1. i # 1
      BY <2>1, <1>1
    <3> QED
      BY <2>1, <3>1, <1>4
  <2>2. ASSUME NEW i \in DOMAIN ring', ring'[i].task = u, ring'[i].state = "busy"
        PROVE  \E j \in DOMAIN ring : ring[j].task = u /\ ring[j].state = "busy"
    BY <2>2, <1>1, <1>3
  <2> QED
    BY <2>1, <2>2
<1>7. IdsIssued'
  BY <1>1, <1>3 DEF IdsIssued
<1> QED
  BY <1>2, <1>5, <1>6, <1>7 DEF OneHolder

LEMMA ReleaseInv ==
  ASSUME HooksInv, NEW gone \in SUBSET (1..issued), Release(gone)
  PROVE  HooksInv'
<1> USE HooksAssumption DEF HooksInv, Release
<1>1. HooksTypeOK'
  <2>1. ring' \in Seq(Record) /\ Len(ring') <= RingSlots
    BY EmptyRing
  <2>2. hook' \in [Hooked -> Calls \cup {"idle"}]
    OBVIOUS
  <2>3. lost' \in SUBSET (1..issued') /\ issued' \in Nat /\ attached' \in 0..Len(Handlers)
    BY HandlersLength DEF HooksTypeOK
  <2> QED
    BY <2>1, <2>2, <2>3 DEF HooksTypeOK
<1>2. OneHolder'
  BY DEF OneHolder, SoleHolder
<1>3. IdsIssued'
  BY DEF IdsIssued
<1> QED
  BY <1>1, <1>2, <1>3

LEMMA UnchangedHooksInv ==
  ASSUME HooksInv, UNCHANGED <<ring, hook, issued>>, attached' \in 0..Len(Handlers),
         lost' \in SUBSET (1..issued)
  PROVE  HooksInv'
  BY DEF HooksInv, HooksTypeOK, OneHolder, SoleHolder, IdsIssued

(* The numbers of the records in the ring are numbers of system calls. *)
LEMMA InRingIssued ==
  ASSUME NEW s \in Seq(Record), NEW n \in Nat, \A i \in DOMAIN s : s[i].id <= n
  PROVE  InRing(s) \subseteq 1..n
<1> SUFFICES ASSUME NEW x \in InRing(s) PROVE x \in 1..n
  OBVIOUS
<1>1. PICK i \in DOMAIN s : x = s[i].id /\ x # 0
  BY DEF InRing, Ids, Uncounted
<1>2. x \in Nat
  BY <1>1, RecordFields
<1> QED
  BY <1>1, <1>2
=============================================================================
