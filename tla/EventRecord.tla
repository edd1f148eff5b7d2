---------------------------- MODULE EventRecord ----------------------------
(***************************************************************************)
(* What a record of the ring holds: the memory of the ring buffer under    *)
(* the handlers of KernelHooks, and the time stamps in it.                 *)
(*                                                                         *)
(* bpf_ringbuf_reserve does not clear the bytes it hands out.  A handler   *)
(* sets some fields of its record and leaves the others as they are, and   *)
(* the size of a record does not divide the size of the ring, so that on   *)
(* the next lap of the producer a field lies on other fields of the        *)
(* records before.  handle_execve adds to argc, which it never sets.       *)
(*                                                                         *)
(* Memory is a circle of words, one for each field that matters: pid and   *)
(* ppid are one word, a text is one word that fills its field (a shorter   *)
(* text leaves the rest of the field as it was).  Positions grow without   *)
(* end and are taken modulo the size, as in the kernel.  The clock is that *)
(* of bpf_ktime_get_ns.  The agent's own calls are like those of others    *)
(* and are left out.                                                       *)
(***************************************************************************)
EXTENDS KernelHooks

CONSTANTS MAX_ARGS,
          RingWords,   \* the size of the ring; RingSlots records fit in it
          Texts,       \* words of the texts that programs pass, as numbers
          Programs,    \* the arguments of the programs that are executed
          Pid,         \* the pid of each task
          Boot,        \* CLOCK_REALTIME at the time of boot
          Second,      \* clock units in a second
          MaxTime      \* bound on the clock

(* The words of a record: the kernel's header and struct event. *)
Header == 0
Timestamp == 1
PidWord == 2
Call == 3
Filename == 4
Argc == 5
Argv(j) == 5 + j  \* j = 1, 2, ...
RecordWords == 6 + MAX_ARGS

ASSUME RecordAssumption ==
    /\ MAX_ARGS \in Nat /\ MAX_ARGS >= 3
    /\ RingWords \in Nat
    /\ RingSlots = (RingWords - 1) \div RecordWords
    /\ Texts \subseteq Nat
    /\ Programs \subseteq Seq(Texts)
    /\ Pid \in [Hooked -> Nat]
    /\ Boot \in Nat /\ Second \in Nat \ {0} /\ MaxTime \in Nat

VARIABLES memory,    \* the words of the ring
          consumer,  \* the consumer's position
          now,       \* the clock
          filled,    \* the tasks whose handler has written its record
          event,     \* what handle_event copied last
          written,   \* history: what the handler of each event meant to write
          seen,      \* history: the time stamp of each event handle_event copied
          overlap    \* history: pairs of events whose handlers ran together

recordVars == <<memory, consumer, now, filled, event, written, seen, overlap>>
vars == <<attached, ring, hook, issued, lost,
          memory, consumer, now, filled, event, written, seen, overlap>>

NoEvent == [id |-> Uncounted]

Init == /\ HooksInit
        /\ memory = [a \in 0..(RingWords - 1) |-> 0]
        /\ consumer = 0
        /\ now = 0
        /\ filled = {}
        /\ event = NoEvent
        /\ written = <<>>
        /\ seen = <<>>
        /\ overlap = {}

(* The position of the i-th record of the ring, the address of one of its
   words, and whether nobody had the memory before. *)
Position(i) == consumer + (i - 1) * RecordWords
Address(i, word) == (Position(i) + word) % RingWords
FirstLap(i) == Position(i) + RecordWords <= RingWords

(* The entries of f and, where it has none, those of g. *)
Merge(f, g) == [x \in DOMAIN f \cup DOMAIN g |-> IF x \in DOMAIN f THEN f[x] ELSE g[x]]

(* Memory after some words of the i-th record were set. *)
Set(i, words) ==
    [a \in DOMAIN memory |->
        IF \E w \in DOMAIN words : a = Address(i, w)
        THEN words[CHOOSE w \in DOMAIN words : a = Address(i, w)]
        ELSE memory[a]]

Word(i, word) == memory[Address(i, word)]
-----------------------------------------------------------------------------
Load == /\ Attach
        /\ UNCHANGED recordVars

(* A handler up to the reserve.  The kernel writes the header. *)
Begin(t) ==
    /\ Traced(t)
    /\ memory' = IF ring' = ring THEN memory
                 ELSE Set(Len(ring) + 1, [w \in {Header} |-> RecordWords])
    /\ overlap' = IF ring' = ring THEN overlap
                  ELSE overlap \cup {<<ring[Held(u)].id, issued'>> :
                                        u \in {v \in Tasks : hook[v] # "idle"}}
    /\ UNCHANGED <<consumer, now, filled, event, written, seen>>

(* enum syscalls *)
Number == [execve |-> 0, openat |-> 1, socket |-> 2, sendto |-> 3]

(* What every handler sets. *)
Common(t) == [w \in {Timestamp, PidWord, Call} |-> CASE w = Timestamp -> now
                                                   [] w = PidWord -> Pid[t]
                                                   [] w = Call -> Number[hook[t]]]

(* A handler from the reserve to the submit; args is the number of arguments
   of the event, for the history. *)
Fill(t, words, args) ==
    LET i == Held(t)
    IN  /\ hook[t] # "idle"
        /\ t \notin filled
        /\ memory' = Set(i, Merge(words, Common(t)))
        /\ filled' = filled \cup {t}
        /\ written' = Merge(written, [id \in {ring[i].id} |->
                                         [words |-> Merge(words, Common(t)), args |-> args]])
        /\ UNCHANGED <<hookVars, consumer, now, event, seen, overlap>>

(* Three arguments are announced and none is written. *)
FillSocket(t) == /\ hook[t] \in {"socket", "sendto"}
                 /\ Fill(t, [w \in {Argc} |-> 3], 3)

(* argv[0][0] = 'X' makes another text of what was there. *)
FillOpen(t) == /\ hook[t] = "openat"
               /\ \E name \in Texts, other \in Texts :
                     Fill(t, [w \in {Filename, Argc, Argv(1)} |->
                                CASE w = Filename -> name
                                  [] w = Argc -> 1
                                  [] w = Argv(1) -> other], 1)

(* What handle_execve writes of n arguments. *)
ExecveWords(name, program, n, argc) ==
    [w \in {Filename, Argc} \cup {Argv(j) : j \in 1..n} |->
       CASE w = Filename -> name
         [] w = Argc -> argc
         [] w > Argc -> program[w - Argc]]

(* Mutant: the argument that could not be read is counted as well. *)
FillExecve_Counts(t) ==
    /\ hook[t] = "execve"
    /\ \E name \in Texts, program \in Programs :
       \E n \in {m \in 0..MAX_ARGS : m <= Len(program)} :
          Fill(t, ExecveWords(name, program, n, Word(Held(t), Argc) + n + 1), n)

(* The arguments up to the first that cannot be read, MAX_ARGS at most. *)
FillExecve(t) ==
    /\ hook[t] = "execve"
    /\ \E name \in Texts, program \in Programs :
       \E n \in {m \in 0..MAX_ARGS : m <= Len(program)} :
          Fill(t, ExecveWords(name, program, n, Word(Held(t), Argc) + n), n)

(* Submit or discard. *)
End(t) == /\ t \in filled
          /\ Finish(t)
          /\ filled' = filled \ {t}
          /\ UNCHANGED <<memory, consumer, now, event, written, seen, overlap>>
-----------------------------------------------------------------------------
(* The consumer. *)

Skip == /\ SkipDiscarded
        /\ consumer' = consumer + RecordWords
        /\ UNCHANGED <<memory, now, filled, event, written, seen, overlap>>

(* Mutant: the record is given back before it is copied, and the one behind it
   is in its place. *)
handle_event_Late ==
    /\ HeadIs("ready")
    /\ event' = [id |-> Head(ring).id, first_lap |-> FirstLap(1),
                 words |-> [w \in 0..(RecordWords - 1) |-> Word(2, w)]]
    /\ seen' = Merge(seen, [id \in {Head(ring).id} |-> Word(2, Timestamp)])
    /\ ring' = Tail(ring)
    /\ consumer' = consumer + RecordWords
    /\ UNCHANGED <<attached, hook, issued, lost, memory, now, filled, written, overlap>>

(* event_buffer[event_count++] = *e; the record is given back after that. *)
handle_event ==
    /\ HeadIs("ready")
    /\ event' = [id |-> Head(ring).id, first_lap |-> FirstLap(1),
                 words |-> [w \in 0..(RecordWords - 1) |-> Word(1, w)]]
    /\ seen' = Merge(seen, [id \in {Head(ring).id} |-> Word(1, Timestamp)])
    /\ ring' = Tail(ring)
    /\ consumer' = consumer + RecordWords
    /\ UNCHANGED <<attached, hook, issued, lost, memory, now, filled, written, overlap>>

Tick == /\ now < MaxTime
        /\ now' = now + 1
        /\ UNCHANGED <<hookVars, memory, consumer, filled, event, written, seen, overlap>>

(* What submit_events makes of a time stamp when it is called. *)
convert_ns_to_unix(ns) == ((Boot + now) - ns) \div Second

Done == /\ issued = MaxSyscalls /\ ring = <<>> /\ now = MaxTime
        /\ UNCHANGED vars

Next == \/ Load \/ Skip \/ handle_event \/ Tick \/ Done
        \/ \E t \in Tasks : \/ Begin(t) \/ End(t)
                            \/ FillSocket(t) \/ FillOpen(t) \/ FillExecve(t)

Spec == Init /\ [][Next]_vars
-----------------------------------------------------------------------------
Records == [id : 1..issued, first_lap : BOOLEAN, words : [0..(RecordWords - 1) -> Nat]]

RecordTypeOK ==
    /\ HooksTypeOK
    /\ memory \in [0..(RingWords - 1) -> Nat]
    /\ consumer \in Nat
    /\ consumer + RecordWords * Len(ring) <= issued * RecordWords
    /\ now \in 0..MaxTime
    /\ filled \subseteq {t \in Tasks : hook[t] # "idle"}
    /\ event = NoEvent \/ event \in Records
    /\ DOMAIN written \subseteq 1..issued
    /\ DOMAIN seen \subseteq DOMAIN written
    /\ overlap \subseteq (1..issued) \X (1..issued)

(* handle_event gets what the handler of that event wrote, word for word,
   whatever handlers run meanwhile and however often the memory was used:
   a record is neither overwritten nor moved before it is copied. *)
WordsOwned ==
    event # NoEvent =>
       \A w \in DOMAIN written[event.id].words :
          event.words[w] = written[event.id].words[w]

(* argc is the number of arguments of the event: always for the handlers that
   set it, and for handle_execve, which counts them from what it finds in the
   memory, in memory that nobody had before.  So submit_events, which reads
   argv[j] for all j < argc, is led past the array only by the program
   executions of later laps. *)
ArgcRight ==
    event # NoEvent /\ (event.first_lap \/ event.words[Call] # Number["execve"]) =>
       /\ event.words[Argc] = written[event.id].args
       /\ event.words[Argc] <= MAX_ARGS

(* Events are in the order of their reserves, their stamps are later ones: the
   two orders differ only between handlers that ran at the same time. *)
DisorderIsOverlap ==
    \A i, j \in DOMAIN seen :
       i < j /\ seen[i] > seen[j] => <<i, j>> \in overlap

(* "convert nanoseconds since boot to Unix timestamp" *)
StampIsEventTime ==
    event # NoEvent =>
       convert_ns_to_unix(event.words[Timestamp]) = (Boot + event.words[Timestamp]) \div Second
=============================================================================
