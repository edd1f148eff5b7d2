-------------------------- MODULE EventRecord_proofs --------------------------
(***************************************************************************)
(* Proofs about EventRecord, for any ring, any number of arguments and any *)
(* number of tasks: a record reaches handle_event as its handler wrote it, *)
(* argc is right where the memory allows it, and time stamps are out of    *)
(* order only between handlers that ran together.                          *)
(*                                                                         *)
(* The argument about the words is one about addresses: the records        *)
(* between the consumer and the producer are fewer words than the ring     *)
(* has, so that no two of their words share an address (AddressDistinct)   *)
(* and a handler changes no record but its own (SetWord).  What the ring   *)
(* holds of a record then stays what its handler wrote (Kept), and memory  *)
(* ahead of the producer that was never used is zero (ZeroAhead, Blank).   *)
(* The argument about the stamps is that a record that is not filled yet   *)
(* has been together with every later one (Together).                      *)
(***************************************************************************)
EXTENDS EventRecord, KernelHooks_proofs, Integers, TLAPS

Addresses == 0..(RingWords - 1)
Words == 0..(RecordWords - 1)

(* The handler of the i-th record has written it. *)
Filled(i) == ring[i].state = "busy" => ring[i].task \in filled

(* Only the traced tasks have records, and these lie behind each other in the
   order of their events. *)
Numbered == /\ \A i \in DOMAIN ring : ring[i].task \in Tasks /\ ring[i].id \in 1..issued
            /\ \A i, j \in DOMAIN ring : i < j => ring[i].id < ring[j].id

(* What the history says of an event. *)
Entry(e) == /\ DOMAIN e.words \subseteq Words \ {Header}
            /\ {Timestamp, PidWord, Call, Argc} \subseteq DOMAIN e.words
            /\ \A w \in DOMAIN e.words : e.words[w] \in Nat
            /\ e.args \in 0..MAX_ARGS

Entries == \A k \in DOMAIN written : Entry(written[k])

(* A record that is filled has an entry, whose words are in its memory. *)
Kept == \A i \in DOMAIN ring :
           /\ Filled(i) <=> ring[i].id \in DOMAIN written
           /\ Filled(i) => \A w \in DOMAIN written[ring[i].id].words :
                              Word(i, w) = written[ring[i].id].words[w]

EventKept == event # NoEvent => event.id \in DOMAIN written /\ WordsOwned

(* Nobody had the memory from the producer's position to the end of the ring
   on the first lap, and argc is zero in a record there until it is filled. *)
ZeroAhead == \A a \in Addresses :
                a >= consumer + RecordWords * Len(ring) => memory[a] = 0

Blank == \A i \in DOMAIN ring : FirstLap(i) /\ ~Filled(i) => Word(i, Argc) = 0

Counted(e, first_lap) == first_lap \/ e.words[Call] # Number["execve"] =>
                            e.words[Argc] = e.args

RingCounted == \A i \in DOMAIN ring : Filled(i) => Counted(written[ring[i].id], FirstLap(i))

Stamp(k) == written[k].words[Timestamp]

Stamped == /\ \A k \in DOMAIN written : Stamp(k) <= now
           /\ \A k \in DOMAIN seen : seen[k] = Stamp(k)

(* A record that is not filled yet was there when each later one came. *)
Together == \A i \in DOMAIN ring : ~Filled(i) =>
               /\ \A j \in DOMAIN ring : i < j => <<ring[i].id, ring[j].id>> \in overlap
               /\ \A k \in DOMAIN written : ring[i].id < k => <<ring[i].id, k>> \in overlap

Disordered == \A k, l \in DOMAIN written :
                 k < l /\ Stamp(k) > Stamp(l) => <<k, l>> \in overlap

LayoutInv == Numbered /\ Entries /\ Kept /\ EventKept
ArgcInv == ZeroAhead /\ Blank /\ RingCounted /\ ArgcRight
StampInv == Stamped /\ Together /\ Disordered

IInv == HooksInv /\ RecordTypeOK /\ LayoutInv /\ ArgcInv /\ StampInv
-----------------------------------------------------------------------------
(* Addresses. *)

LEMMA Sizes == /\ RecordWords \in Nat /\ RecordWords > Argc
               /\ RingWords \in Nat /\ RingWords > 0
               /\ RingSlots \in Nat
               /\ RingSlots * RecordWords < RingWords
               /\ {Header, Timestamp, PidWord, Call, Filename, Argc} \subseteq Words
<1> USE RecordAssumption, HooksAssumption
<1>1. RecordWords \in Nat /\ RecordWords > Argc
  BY DEF RecordWords, Argc
<1>2. {Header, Timestamp, PidWord, Call, Filename, Argc} \subseteq Words
  BY DEF RecordWords, Words, Header, Timestamp, PidWord, Call, Filename, Argc
<1>3. RecordWords > 0
  BY <1>1 DEF Argc
<1>4. ASSUME NEW n \in Int, NEW d \in Nat, d > 0 PROVE (n \div d) * d <= n
  BY <1>4
<1>5. RingSlots * RecordWords <= RingWords - 1
  BY <1>1, <1>3, <1>4
<1>6. RingSlots * RecordWords >= 0
  BY <1>1
<1> QED
  BY <1>1, <1>2, <1>5, <1>6

LEMMA ProductNat == \A a, b \in Nat : a * b \in Nat
  OBVIOUS

LEMMA ModBound ==
  ASSUME NEW n \in Nat, n > 0, NEW a \in Nat
  PROVE  /\ a % n \in Nat
         /\ a % n <= a
         /\ a < n => a % n = a
<1>1. a % n \in Nat /\ a % n < n
  OBVIOUS
<1>2. a < n => a % n = a
  OBVIOUS
<1> QED
  BY <1>1, <1>2

(* Remainders tell numbers apart that are closer than the divisor. *)
LEMMA ModDistinct ==
  ASSUME NEW n \in Nat, n > 0, NEW a \in Nat, NEW b \in Nat, a < b, b - a < n
  PROVE  a % n # b % n
<1> SUFFICES ASSUME a % n = b % n PROVE FALSE
  OBVIOUS
<1> DEFINE p == a \div n
           q == b \div n
<1>1. p \in Int /\ q \in Int
  OBVIOUS
<1>2. a = p * n + (a % n) /\ b = q * n + (b % n)
  OBVIOUS
<1>3. a % n \in Int /\ b % n \in Int
  OBVIOUS
<1> HIDE DEF p, q
<1>4. b - a = q * n - p * n
  BY <1>1, <1>2, <1>3
<1>5. b - a = (q - p) * n
  BY <1>1, <1>4
<1>6. CASE q - p <= 0
  <2>1. ASSUME NEW d \in Int, d <= 0 PROVE d * n <= 0
    BY <2>1
  <2> QED
    BY <1>1, <1>5, <1>6, <2>1
<1>7. CASE q - p >= 1
  <2>1. ASSUME NEW d \in Int, d >= 1 PROVE d * n >= n
    BY <2>1
  <2> QED
    BY <1>1, <1>5, <1>7, <2>1
<1> QED
  BY <1>1, <1>6, <1>7

(* The words of the records that fit, counted from the consumer. *)
Offset(i, w) == (i - 1) * RecordWords + w

LEMMA OffsetFits ==
  ASSUME NEW i \in 1..RingSlots, NEW w \in Words
  PROVE  Offset(i, w) \in 0..(RingWords - 1)
<1>1. /\ RecordWords \in Nat /\ RingSlots \in Nat /\ RingWords \in Nat
      /\ RingSlots * RecordWords < RingWords
  BY Sizes
<1>2. i - 1 \in Nat /\ RingSlots - i \in Nat
  BY <1>1
<1>3. (i - 1) * RecordWords \in Nat /\ (RingSlots - i) * RecordWords \in Nat
  BY <1>1, <1>2
<1>4. RingSlots * RecordWords = (i - 1) * RecordWords + RecordWords
                                  + (RingSlots - i) * RecordWords
  BY <1>1
<1>5. w \in Nat /\ w < RecordWords
  BY <1>1 DEF Words
<1> QED
  BY <1>1, <1>3, <1>4, <1>5 DEF Offset

LEMMA OffsetRising ==
  ASSUME NEW i \in 1..RingSlots, NEW j \in 1..RingSlots, i < j,
         NEW w \in Words, NEW v \in Words
  PROVE  Offset(i, w) < Offset(j, v)
<1>1. RecordWords \in Nat /\ RingSlots \in Nat
  BY Sizes
<1>2. j - i - 1 \in Nat /\ i - 1 \in Nat
  BY <1>1
<1>3. (j - i - 1) * RecordWords \in Nat /\ (i - 1) * RecordWords \in Nat
  BY <1>1, <1>2
<1>4. (j - 1) * RecordWords = (i - 1) * RecordWords + RecordWords
                                + (j - i - 1) * RecordWords
  BY <1>1
<1>5. w \in Nat /\ w < RecordWords /\ v \in Nat
  BY <1>1 DEF Words
<1> QED
  BY <1>3, <1>4, <1>5, <1>1 DEF Offset

LEMMA OffsetAddress ==
  ASSUME consumer \in Nat, NEW i \in Nat, NEW w \in Nat
  PROVE  Address(i, w) = (consumer + Offset(i, w)) % RingWords
  <1>1. (i - 1) * RecordWords \in Int
    BY Sizes
  <1> QED
    BY <1>1 DEF Address, Position, Offset

LEMMA AddressFits ==
  ASSUME consumer \in Nat, NEW i \in 1..RingSlots, NEW w \in Words
  PROVE  Address(i, w) \in Addresses
<1>1. i \in Nat /\ w \in Nat /\ RingWords \in Nat /\ RingWords > 0
  BY Sizes DEF Words
<1>2. Offset(i, w) \in Nat
  BY <1>1, OffsetFits
<1> DEFINE a == consumer + Offset(i, w)
<1>3. a \in Nat
  BY <1>2
<1> HIDE DEF a
<1>4. a % RingWords \in 0..(RingWords - 1)
  BY <1>1, <1>3
<1> QED
  BY <1>1, <1>4, OffsetAddress DEF a, Addresses

(* No two words of the records that fit have the same address. *)
LEMMA AddressDistinct ==
  ASSUME consumer \in Nat,
         NEW i \in 1..RingSlots, NEW j \in 1..RingSlots,
         NEW w \in Words, NEW v \in Words,
         Address(i, w) = Address(j, v)
  PROVE  i = j /\ w = v
<1> DEFINE o == Offset(i, w)
           u == Offset(j, v)
<1>1. o \in 0..(RingWords - 1) /\ u \in 0..(RingWords - 1)
  BY OffsetFits
<1>2. i \in Nat /\ j \in Nat /\ w \in Nat /\ v \in Nat
      /\ RingWords \in Nat /\ RingWords > 0 /\ RecordWords \in Nat
  BY Sizes DEF Words
<1>3. (consumer + o) % RingWords = (consumer + u) % RingWords
  BY <1>2, OffsetAddress
<1>4. i > j => u < o
  BY <1>2, OffsetRising
<1>5. i < j => o < u
  BY <1>2, OffsetRising
<1>6. i = j /\ w < v => o < u
  BY <1>2 DEF Offset
<1>7. i = j /\ v < w => u < o
  BY <1>2 DEF Offset
<1> HIDE DEF o, u
<1>8. ~(o < u)
  <2> SUFFICES ASSUME o < u PROVE FALSE
    OBVIOUS
  <2>1. /\ consumer + o \in Nat /\ consumer + u \in Nat
        /\ consumer + o < consumer + u
        /\ (consumer + u) - (consumer + o) < RingWords
    BY <1>1, <1>2
  <2> QED
    BY <2>1, <1>2, <1>3, ModDistinct
<1>9. ~(u < o)
  <2> SUFFICES ASSUME u < o PROVE FALSE
    OBVIOUS
  <2>1. /\ consumer + o \in Nat /\ consumer + u \in Nat
        /\ consumer + u < consumer + o
        /\ (consumer + o) - (consumer + u) < RingWords
    BY <1>1, <1>2
  <2> QED
    BY <2>1, <1>2, <1>3, ModDistinct
<1> QED
  BY <1>2, <1>4, <1>5, <1>6, <1>7, <1>8, <1>9

(* What a handler sets is read back, and nothing else of the records that fit
   is changed. *)
LEMMA SetWord ==
  ASSUME consumer \in Nat, memory \in [Addresses -> Nat],
         NEW i \in 1..RingSlots, NEW words, DOMAIN words \subseteq Words,
         \A w \in DOMAIN words : words[w] \in Nat
  PROVE  /\ Set(i, words) \in [Addresses -> Nat]
         /\ \A v \in DOMAIN words : Set(i, words)[Address(i, v)] = words[v]
         /\ \A j \in 1..RingSlots, v \in Words :
               j # i \/ v \notin DOMAIN words =>
                  Set(i, words)[Address(j, v)] = memory[Address(j, v)]
         /\ \A a \in Addresses : (\A w \in DOMAIN words : a # Address(i, w)) =>
                  Set(i, words)[a] = memory[a]
<1>1. DOMAIN memory = Addresses
  OBVIOUS
<1>2. ASSUME NEW a \in Addresses, \A w \in DOMAIN words : a # Address(i, w)
      PROVE  Set(i, words)[a] = memory[a]
  BY <1>1, <1>2 DEF Set
<1>3. ASSUME NEW v \in DOMAIN words
      PROVE  Set(i, words)[Address(i, v)] = words[v]
  <2>1. Address(i, v) \in Addresses
    BY AddressFits
  <2>2. \A w \in DOMAIN words : Address(i, v) = Address(i, w) => w = v
    BY AddressDistinct
  <2>3. (CHOOSE w \in DOMAIN words : Address(i, v) = Address(i, w)) = v
    BY <2>2
  <2> QED
    BY <1>1, <2>1, <2>3 DEF Set
<1>4. ASSUME NEW j \in 1..RingSlots, NEW v \in Words, j # i \/ v \notin DOMAIN words
      PROVE  Set(i, words)[Address(j, v)] = memory[Address(j, v)]
  <2>1. Address(j, v) \in Addresses
    BY AddressFits
  <2>2. \A w \in DOMAIN words : Address(j, v) # Address(i, w)
    BY <1>4, AddressDistinct
  <2> QED
    BY <1>2, <2>1, <2>2
<1>5. Set(i, words) \in [Addresses -> Nat]
  <2>1. ASSUME NEW a \in Addresses PROVE Set(i, words)[a] \in Nat
    <3>1. CASE \E w \in DOMAIN words : a = Address(i, w)
      BY <1>3, <3>1
    <3>2. CASE \A w \in DOMAIN words : a # Address(i, w)
      BY <1>2, <3>2
    <3> QED
      BY <3>1, <3>2
  <2>2. Set(i, words) = [a \in Addresses |-> Set(i, words)[a]]
    BY <1>1 DEF Set
  <2> QED
    BY <2>1, <2>2
<1> QED
  BY <1>2, <1>3, <1>4, <1>5
-----------------------------------------------------------------------------
(* What the handlers write. *)

LEMMA Numbers == /\ \A c \in Calls : Number[c] \in Nat
                 /\ \A c \in Calls : Number[c] = Number["execve"] => c = "execve"
<1>1. /\ Number["execve"] = 0 /\ Number["openat"] = 1
      /\ Number["socket"] = 2 /\ Number["sendto"] = 3
  BY DEF Number
<1> QED
  BY <1>1 DEF Calls

(* A handler of t writes the entry e. *)
Writes(t, e) ==
    /\ Entry(e)
    /\ e.words[Timestamp] = now
    /\ e.words[Call] = Number[hook[t]]
    /\ hook[t] # "execve" => e.words[Argc] = e.args
    /\ hook[t] = "execve" => e.words[Argc] = Word(Held(t), Argc) + e.args
    /\ hook[t] \in Calls
    /\ t \notin filled
    /\ memory' = Set(Held(t), e.words)
    /\ filled' = filled \cup {t}
    /\ written' = Merge(written, [id \in {ring[Held(t)].id} |-> e])
    /\ UNCHANGED <<hookVars, consumer, now, event, seen, overlap>>

(* The words a handler adds to the common ones. *)
Added(words) == /\ DOMAIN words \subseteq Words \ {Header, Timestamp, PidWord, Call}
                    /\ Argc \in DOMAIN words
                    /\ \A w \in DOMAIN words : words[w] \in Nat

LEMMA FillWrites ==
  ASSUME HooksInv, RecordTypeOK, NEW t \in Tasks, NEW words, NEW args \in 0..MAX_ARGS,
         hook[t] \in Calls, Added(words),
         hook[t] # "execve" => words[Argc] = args,
         hook[t] = "execve" => words[Argc] = Word(Held(t), Argc) + args,
         Fill(t, words, args)
  PROVE  \E e : Writes(t, e)
<1> DEFINE all == Merge(words, Common(t))
           e == [words |-> all, args |-> args]
<1>1. /\ Timestamp \notin DOMAIN words /\ PidWord \notin DOMAIN words
      /\ Call \notin DOMAIN words /\ Argc \in DOMAIN words
  BY DEF Added
<1>2. DOMAIN Common(t) = {Timestamp, PidWord, Call}
  BY DEF Common
<1>3. /\ DOMAIN all = DOMAIN words \cup {Timestamp, PidWord, Call}
      /\ \A w \in DOMAIN words : all[w] = words[w]
      /\ \A w \in {Timestamp, PidWord, Call} : all[w] = Common(t)[w]
  BY <1>1, <1>2 DEF Merge
<1>4. /\ Common(t)[Timestamp] = now
      /\ Common(t)[PidWord] = Pid[t]
      /\ Common(t)[Call] = Number[hook[t]]
  BY DEF Common, Timestamp, PidWord, Call
<1>5. now \in Nat /\ Pid[t] \in Nat /\ Number[hook[t]] \in Nat
  BY Numbers, RecordAssumption DEF RecordTypeOK, Hooked
<1> HIDE DEF all
<1>6. e.words = all /\ e.args = args
  OBVIOUS
<1>7. Entry(e)
  <2>1. DOMAIN all \subseteq Words \ {Header}
    <3>1. {Timestamp, PidWord, Call} \subseteq Words \ {Header}
      BY Sizes DEF Timestamp, PidWord, Call, Header
    <3> QED
      BY <1>3, <3>1 DEF Added
  <2>2. \A w \in DOMAIN all : all[w] \in Nat
    BY <1>3, <1>4, <1>5 DEF Added
  <2>3. {Timestamp, PidWord, Call, Argc} \subseteq DOMAIN all
    BY <1>1, <1>3
  <2> HIDE DEF e
  <2> QED
    BY <1>6, <2>1, <2>2, <2>3 DEF Entry
<1>8. /\ t \notin filled
      /\ memory' = Set(Held(t), all)
      /\ filled' = filled \cup {t}
      /\ written' = Merge(written, [id \in {ring[Held(t)].id} |-> e])
      /\ UNCHANGED <<hookVars, consumer, now, event, seen, overlap>>
  BY DEF Fill, all
<1> HIDE DEF e
<1>9. /\ e.words[Timestamp] = now
      /\ e.words[Call] = Number[hook[t]]
      /\ e.words[Argc] = words[Argc]
  BY <1>1, <1>3, <1>4, <1>6
<1>10. Writes(t, e)
  BY <1>6, <1>7, <1>8, <1>9 DEF Writes
<1> QED
  BY <1>10

LEMMA HandlerWrites ==
  ASSUME HooksInv, RecordTypeOK, NEW t \in Tasks,
         FillSocket(t) \/ FillOpen(t) \/ FillExecve(t)
  PROVE  \E e : Writes(t, e)
<1>1. /\ MAX_ARGS \in Nat /\ MAX_ARGS >= 3 /\ Texts \subseteq Nat
      /\ Programs \subseteq Seq(Texts)
  BY RecordAssumption
<1>2. CASE FillSocket(t)
  <2> DEFINE words == [w \in {Argc} |-> 3]
  <2>1. Added(words)
    BY Sizes DEF Added, Argc, Header, Timestamp, PidWord, Call
  <2>2. words[Argc] = 3 /\ 3 \in 0..MAX_ARGS
    BY <1>1
  <2>3. hook[t] \in Calls /\ hook[t] # "execve" /\ Fill(t, words, 3)
    BY <1>2 DEF FillSocket, Calls
  <2> HIDE DEF words
  <2> QED
    BY <2>1, <2>2, <2>3, FillWrites
<1>3. CASE FillOpen(t)
  <2>1. PICK name \in Texts, other \in Texts :
           Fill(t, [w \in {Filename, Argc, Argv(1)} |->
                      CASE w = Filename -> name
                        [] w = Argc -> 1
                        [] w = Argv(1) -> other], 1)
    BY <1>3 DEF FillOpen
  <2> DEFINE words == [w \in {Filename, Argc, Argv(1)} |->
                         CASE w = Filename -> name
                           [] w = Argc -> 1
                           [] w = Argv(1) -> other]
  <2>2. DOMAIN words = {4, 5, 6} /\ words[4] = name /\ words[5] = 1 /\ words[6] = other
    BY DEF Filename, Argc, Argv
  <2> HIDE DEF words
  <2>3. {4, 5, 6} \subseteq Words \ {Header, Timestamp, PidWord, Call}
    BY <1>1 DEF Words, RecordWords, Header, Timestamp, PidWord, Call
  <2>4. Added(words)
    BY <1>1, <2>2, <2>3 DEF Added, Argc
  <2>5. words[Argc] = 1 /\ 1 \in 0..MAX_ARGS
    BY <1>1, <2>2 DEF Argc
  <2>6. hook[t] \in Calls /\ hook[t] # "execve"
    BY <1>3 DEF FillOpen, Calls
  <2>7. Fill(t, words, 1)
    BY <2>1 DEF words
  <2> QED
    BY <2>4, <2>5, <2>6, <2>7, FillWrites
<1>4. CASE FillExecve(t)
  <2>1. PICK name \in Texts, program \in Programs :
        \E n \in {m \in 0..MAX_ARGS : m <= Len(program)} :
           Fill(t, ExecveWords(name, program, n, Word(Held(t), Argc) + n), n)
    BY <1>4 DEF FillExecve
  <2>2. PICK n \in {m \in 0..MAX_ARGS : m <= Len(program)} :
           Fill(t, ExecveWords(name, program, n, Word(Held(t), Argc) + n), n)
    BY <2>1
  <2> DEFINE argc == Word(Held(t), Argc) + n
             words == ExecveWords(name, program, n, argc)
  <2>3. hook[t] = "execve" /\ hook[t] \in Calls
    BY <1>4 DEF FillExecve, Calls
  <2>4. argc \in Nat
    <3>1. t \in Hooked /\ hook[t] # "idle"
      BY <2>3 DEF Hooked
    <3>2. Held(t) \in DOMAIN ring
      BY <3>1, HeldBusy
    <3>3. Held(t) \in 1..RingSlots
      BY <3>2, HooksAssumption DEF HooksInv, HooksTypeOK
    <3>4. Address(Held(t), Argc) \in Addresses
      BY <3>3, AddressFits, Sizes DEF RecordTypeOK
    <3> QED
      BY <3>4 DEF Word, RecordTypeOK, Addresses
  <2>5. n \in 0..MAX_ARGS /\ name \in Nat /\ \A j \in 1..n : program[j] \in Nat
    <3>1. program \in Seq(Texts) /\ n \in Nat /\ n <= Len(program)
      BY <1>1
    <3>2. \A j \in 1..n : program[j] \in Texts
      BY <3>1
    <3> QED
      BY <1>1, <3>2
  <2> HIDE DEF argc
  <2>6. /\ DOMAIN words = {Filename, Argc} \cup {Argv(j) : j \in 1..n}
        /\ words[Argc] = argc
        /\ \A w \in DOMAIN words : words[w] \in Nat
    <3>1. words[Argc] = argc /\ words[Filename] = name
      BY DEF ExecveWords, Filename, Argc
    <3>2. ASSUME NEW j \in 1..n PROVE words[Argv(j)] \in Nat
      <4>1. Argv(j) # Filename /\ Argv(j) # Argc /\ Argv(j) > Argc /\ Argv(j) - Argc = j
        BY <2>5 DEF Argv, Argc, Filename
      <4>2. words[Argv(j)] = program[Argv(j) - Argc]
        BY <4>1 DEF ExecveWords
      <4> QED
        BY <2>5, <4>1, <4>2
    <3>3. DOMAIN words = {Filename, Argc} \cup {Argv(j) : j \in 1..n}
      BY DEF ExecveWords
    <3> QED
      BY <2>4, <2>5, <3>1, <3>2, <3>3
  <2>7. Fill(t, words, n)
    BY <2>2 DEF argc
  <2> HIDE DEF words
  <2>8. DOMAIN words \subseteq Words \ {Header, Timestamp, PidWord, Call}
    BY <1>1, <2>5, <2>6 DEF Words, RecordWords, Argv, Argc, Filename,
                            Header, Timestamp, PidWord, Call
  <2>9. Added(words)
    BY <2>6, <2>8 DEF Added
  <2>10. hook[t] = "execve" => words[Argc] = Word(Held(t), Argc) + n
    BY <2>6 DEF argc
  <2> QED
    BY <2>3, <2>5, <2>7, <2>9, <2>10, FillWrites
<1> QED
  BY <1>2, <1>3, <1>4
-----------------------------------------------------------------------------
(* Steps that leave the places of the records, their memory and the histories
   alone. *)

LEMMA RingIndex ==
  ASSUME HooksInv
  PROVE  /\ Len(ring) \in Nat /\ DOMAIN ring = 1..Len(ring)
         /\ DOMAIN ring \subseteq 1..RingSlots
         /\ issued \in Nat
  BY HooksAssumption DEF HooksInv, HooksTypeOK

LEMMA StillStep ==
  ASSUME IInv, HooksInv',
         UNCHANGED <<memory, consumer, event, written, seen, overlap>>,
         Len(ring') = Len(ring), DOMAIN ring' = DOMAIN ring,
         \A i \in DOMAIN ring :
            ring'[i].id = ring[i].id /\ ring'[i].task = ring[i].task,
         \A i \in DOMAIN ring : Filled(i)' <=> Filled(i),
         filled' \subseteq {t \in Tasks : hook'[t] # "idle"},
         issued' \in Nat, issued' >= issued, now' \in 0..MaxTime, now' >= now
  PROVE  IInv'
<1>1. HooksInv /\ RecordTypeOK /\ LayoutInv /\ ArgcInv /\ StampInv
  BY DEF IInv
<1>2. \A i : FirstLap(i)' <=> FirstLap(i)
  BY DEF FirstLap, Position
<1>3. \A i, w : Word(i, w)' = Word(i, w)
  BY DEF Word, Address, Position
<1>4. RecordTypeOK'
  <2>1. HooksTypeOK'
    BY DEF HooksInv
  <2>2. consumer + RecordWords * Len(ring) <= issued' * RecordWords
    <3>1. RecordWords \in Nat /\ Len(ring) \in Nat /\ issued \in Nat
      BY <1>1, RingIndex, Sizes
    <3>2. RecordWords * Len(ring) \in Nat /\ issued * RecordWords \in Nat
          /\ issued' * RecordWords \in Nat
      BY <3>1, ProductNat
    <3>3. issued * RecordWords <= issued' * RecordWords
      <4>1. \A a, b, c \in Nat : a <= b => a * c <= b * c
        OBVIOUS
      <4> QED
        BY <3>1, <4>1
    <3>4. consumer \in Nat /\ consumer + RecordWords * Len(ring) <= issued * RecordWords
      BY <1>1 DEF RecordTypeOK
    <3> QED
      BY <3>2, <3>3, <3>4
  <2>3. 1..issued \subseteq 1..issued'
    BY <1>1, RingIndex
  <2>4. event' = NoEvent \/ event' \in Records'
    BY <1>1, <2>3 DEF RecordTypeOK, Records
  <2>5. /\ DOMAIN written' \subseteq 1..issued'
        /\ DOMAIN seen' \subseteq DOMAIN written'
        /\ overlap' \subseteq (1..issued') \X (1..issued')
    BY <1>1, <2>3 DEF RecordTypeOK
  <2> QED
    BY <1>1, <2>1, <2>2, <2>4, <2>5 DEF RecordTypeOK
<1>5. LayoutInv'
  <2>1. Numbered'
    <3>1. \A i \in DOMAIN ring : ring[i].task \in Tasks /\ ring[i].id \in 1..issued
      BY <1>1 DEF LayoutInv, Numbered
    <3>2. \A i, j \in DOMAIN ring : i < j => ring[i].id < ring[j].id
      BY <1>1 DEF LayoutInv, Numbered
    <3>3. 1..issued \subseteq 1..issued'
      BY <1>1, RingIndex
    <3>4. \A i \in DOMAIN ring' : ring'[i].task \in Tasks /\ ring'[i].id \in 1..issued'
      BY <3>1, <3>3
    <3>5. \A i, j \in DOMAIN ring' : i < j => ring'[i].id < ring'[j].id
      BY <3>2
    <3> QED
      BY <3>4, <3>5 DEF Numbered
  <2>2. Entries'
    BY <1>1 DEF LayoutInv, Entries, Entry
  <2>3. Kept'
    <3> SUFFICES ASSUME NEW i \in DOMAIN ring
                 PROVE  /\ Filled(i)' <=> ring'[i].id \in DOMAIN written
                        /\ Filled(i)' => \A w \in DOMAIN written[ring'[i].id].words :
                                           Word(i, w)' = written[ring'[i].id].words[w]
      BY DEF Kept
    <3>1. ring'[i].id = ring[i].id /\ (Filled(i)' <=> Filled(i))
      OBVIOUS
    <3>2. /\ Filled(i) <=> ring[i].id \in DOMAIN written
          /\ Filled(i) => \A w \in DOMAIN written[ring[i].id].words :
                             Word(i, w) = written[ring[i].id].words[w]
      BY <1>1 DEF LayoutInv, Kept
    <3> QED
      BY <1>3, <3>1, <3>2
  <2>4. EventKept'
    BY <1>1 DEF LayoutInv, EventKept, WordsOwned
  <2> QED
    BY <2>1, <2>2, <2>3, <2>4 DEF LayoutInv
<1>6. ArgcInv'
  <2>1. ZeroAhead' /\ ArgcRight'
    BY <1>1 DEF ArgcInv, ZeroAhead, ArgcRight
  <2>2. Blank'
    BY <1>1, <1>2, <1>3 DEF ArgcInv, Blank
  <2>3. RingCounted'
    <3> SUFFICES ASSUME NEW i \in DOMAIN ring, Filled(i)'
                 PROVE  Counted(written[ring'[i].id], FirstLap(i)')
      BY DEF RingCounted, Counted
    <3>1. ring'[i].id = ring[i].id /\ Filled(i)
      OBVIOUS
    <3> QED
      BY <1>1, <1>2, <3>1 DEF ArgcInv, RingCounted, Counted
  <2> QED
    BY <2>1, <2>2, <2>3 DEF ArgcInv
<1>7. StampInv'
  <2>1. Stamped'
    <3>1. \A k \in DOMAIN written : Stamp(k) \in Nat
      BY <1>1 DEF LayoutInv, Entries, Entry, Stamp
    <3>2. now \in Nat /\ now' \in Nat
      BY <1>1, RecordAssumption DEF RecordTypeOK
    <3> QED
      BY <1>1, <3>1, <3>2 DEF StampInv, Stamped, Stamp
  <2>2. Together'
    <3> SUFFICES ASSUME NEW i \in DOMAIN ring, ~Filled(i)'
                 PROVE  /\ \A j \in DOMAIN ring : i < j =>
                              <<ring'[i].id, ring'[j].id>> \in overlap
                        /\ \A k \in DOMAIN written : ring'[i].id < k =>
                              <<ring'[i].id, k>> \in overlap
      BY DEF Together
    <3>1. ~Filled(i) /\ \A j \in DOMAIN ring : ring'[j].id = ring[j].id
      OBVIOUS
    <3>2. /\ \A j \in DOMAIN ring : i < j => <<ring[i].id, ring[j].id>> \in overlap
          /\ \A k \in DOMAIN written : ring[i].id < k => <<ring[i].id, k>> \in overlap
      BY <1>1, <3>1 DEF StampInv, Together
    <3> QED
      BY <3>1, <3>2
  <2>3. Disordered'
    BY <1>1 DEF StampInv, Disordered, Stamp
  <2> QED
    BY <2>1, <2>2, <2>3 DEF StampInv
<1> QED
  BY <1>4, <1>5, <1>6, <1>7 DEF IInv
-----------------------------------------------------------------------------
(* A handler gets a record: it is the youngest, nobody wrote it yet, and the
   others that run were there before. *)

(* The part of a reserve that matters here. *)
Reserved(t) ==
    /\ hook[t] = "idle"
    /\ Len(ring) < RingSlots
    /\ ring' = Append(ring, [task |-> t, id |-> issued + 1, state |-> "busy"])
    /\ \A u \in Tasks : hook[u] # "idle" => hook'[u] # "idle"
    /\ issued' = issued + 1
    /\ memory' = Set(Len(ring) + 1, [w \in {Header} |-> RecordWords])
    /\ overlap' = overlap \cup {<<ring[Held(u)].id, issued'>> :
                                   u \in {v \in Tasks : hook[v] # "idle"}}
    /\ UNCHANGED <<consumer, now, filled, event, written, seen>>

LEMMA ReserveRing ==
  ASSUME HooksInv, NEW t \in Tasks, Reserved(t)
  PROVE  /\ Len(ring') = Len(ring) + 1
         /\ DOMAIN ring' = DOMAIN ring \cup {Len(ring) + 1}
         /\ Len(ring) + 1 \notin DOMAIN ring
         /\ \A i \in DOMAIN ring : ring'[i] = ring[i]
         /\ ring'[Len(ring) + 1].task = t
         /\ ring'[Len(ring) + 1].id = issued + 1
         /\ ring'[Len(ring) + 1].state = "busy"
         /\ Len(ring) + 1 \in 1..RingSlots
<1> DEFINE r == [task |-> t, id |-> issued + 1, state |-> "busy"]
<1>1. ring \in Seq(Record) /\ Len(ring) < RingSlots /\ RingSlots \in Nat
  BY HooksAssumption DEF HooksInv, HooksTypeOK, Reserved
<1>2. r.task = t /\ r.id = issued + 1 /\ r.state = "busy"
  OBVIOUS
<1>3. ring' = Append(ring, r)
  BY DEF Reserved
<1> HIDE DEF r
<1>4. /\ Len(ring') = Len(ring) + 1
      /\ DOMAIN ring' = DOMAIN ring \cup {Len(ring) + 1}
      /\ Len(ring) + 1 \notin DOMAIN ring
      /\ \A i \in DOMAIN ring : ring'[i] = ring[i]
      /\ ring'[Len(ring) + 1] = r
      /\ Len(ring) + 1 \in 1..RingSlots
  BY <1>1, <1>3
<1> QED
  BY <1>2, <1>4

(* The header is the only word that changes. *)
LEMMA ReserveMemory ==
  ASSUME HooksInv, RecordTypeOK, NEW t \in Tasks, Reserved(t)
  PROVE  /\ memory' \in [Addresses -> Nat]
         /\ \A i \in 1..RingSlots, w \in Words \ {Header} : Word(i, w)' = Word(i, w)
         /\ \A a \in Addresses : a # Address(Len(ring) + 1, Header) => memory'[a] = memory[a]
<1> DEFINE words == [w \in {Header} |-> RecordWords]
<1>1. DOMAIN words = {Header} /\ words[Header] = RecordWords
  OBVIOUS
<1>2. memory' = Set(Len(ring) + 1, words)
  BY DEF Reserved
<1> HIDE DEF words
<1>3. DOMAIN words \subseteq Words /\ \A w \in DOMAIN words : words[w] \in Nat
  BY <1>1, Sizes
<1>4. Len(ring) + 1 \in 1..RingSlots
  BY ReserveRing
<1>5. consumer \in Nat /\ memory \in [Addresses -> Nat] /\ consumer' = consumer
  BY DEF RecordTypeOK, Addresses, Reserved
<1>6. /\ memory' \in [Addresses -> Nat]
      /\ \A j \in 1..RingSlots, v \in Words :
            j # Len(ring) + 1 \/ v \notin DOMAIN words =>
               memory'[Address(j, v)] = memory[Address(j, v)]
      /\ \A a \in Addresses : (\A w \in DOMAIN words : a # Address(Len(ring) + 1, w)) =>
            memory'[a] = memory[a]
  BY <1>2, <1>3, <1>4, <1>5, SetWord
<1>7. \A i, w : Word(i, w)' = memory'[Address(i, w)]
  BY <1>5 DEF Word, Address, Position
<1> QED
  BY <1>1, <1>6, <1>7 DEF Word

LEMMA ReserveTypes ==
  ASSUME IInv, HooksInv', NEW t \in Tasks, Reserved(t)
  PROVE  RecordTypeOK'
<1> USE DEF IInv
<1>1. HooksTypeOK'
  BY DEF HooksInv
<1>2. consumer' + RecordWords * Len(ring') <= issued' * RecordWords
  <2>1. /\ RecordWords * (Len(ring) + 1) = RecordWords * Len(ring) + RecordWords
        /\ (issued + 1) * RecordWords = issued * RecordWords + RecordWords
        /\ RecordWords * Len(ring) \in Nat /\ issued * RecordWords \in Nat
        /\ consumer \in Nat /\ RecordWords \in Nat
    BY RingIndex, Sizes DEF RecordTypeOK
  <2>2. consumer + RecordWords * Len(ring) <= issued * RecordWords
    BY DEF RecordTypeOK
  <2> HIDE DEF IInv
  <2>3. Len(ring') = Len(ring) + 1 /\ issued' = issued + 1 /\ consumer' = consumer
    BY ReserveRing DEF Reserved, IInv
  <2> QED
    BY <2>1, <2>2, <2>3
<1>3. 1..issued \subseteq 1..issued' /\ issued' \in 1..issued'
  BY RingIndex DEF Reserved
<1>4. event' = NoEvent \/ event' \in Records'
  BY <1>3 DEF RecordTypeOK, Records, Reserved
<1>5. filled' \subseteq {u \in Tasks : hook'[u] # "idle"}
  BY DEF RecordTypeOK, Reserved
<1>6. DOMAIN written' \subseteq 1..issued' /\ DOMAIN seen' \subseteq DOMAIN written'
  BY <1>3 DEF RecordTypeOK, Reserved
<1>7. overlap' \subseteq (1..issued') \X (1..issued')
  <2>1. overlap \subseteq (1..issued') \X (1..issued')
    BY <1>3 DEF RecordTypeOK
  <2>2. ASSUME NEW u \in Tasks, hook[u] # "idle"
        PROVE  ring[Held(u)].id \in 1..issued'
    BY <1>3, <2>2, HeldBusy DEF LayoutInv, Numbered, Hooked
  <2> QED
    BY <1>3, <2>1, <2>2 DEF Reserved
<1>8. memory' \in [0..(RingWords - 1) -> Nat] /\ consumer' \in Nat /\ now' \in 0..MaxTime
  BY ReserveMemory DEF Addresses, RecordTypeOK, Reserved
<1> QED
  BY <1>1, <1>2, <1>4, <1>5, <1>6, <1>7, <1>8 DEF RecordTypeOK

(* Nothing is filled or emptied by a reserve. *)
LEMMA ReserveFilled ==
  ASSUME IInv, NEW t \in Tasks, Reserved(t)
  PROVE  /\ \A i \in DOMAIN ring' : Filled(i)' <=> i \in DOMAIN ring /\ Filled(i)
         /\ issued + 1 \notin DOMAIN written
<1>1. HooksInv /\ RecordTypeOK
  BY DEF IInv
<1>2. filled' = filled /\ t \notin filled
  BY <1>1 DEF RecordTypeOK, Reserved
<1>3. /\ DOMAIN ring' = DOMAIN ring \cup {Len(ring) + 1}
      /\ Len(ring) + 1 \notin DOMAIN ring
      /\ \A i \in DOMAIN ring : ring'[i] = ring[i]
      /\ ring'[Len(ring) + 1].task = t
      /\ ring'[Len(ring) + 1].state = "busy"
  BY <1>1, ReserveRing
<1>4. issued \in Nat /\ DOMAIN written \subseteq 1..issued
  BY <1>1, RingIndex DEF RecordTypeOK
<1>5. issued + 1 \notin DOMAIN written
  BY <1>4
<1> QED
  BY <1>2, <1>3, <1>5 DEF Filled

LEMMA ReserveLayout ==
  ASSUME IInv, NEW t \in Tasks, Reserved(t)
  PROVE  LayoutInv'
<1>1. HooksInv /\ RecordTypeOK /\ LayoutInv
  BY DEF IInv
<1> DEFINE n == Len(ring) + 1
<1>2. /\ DOMAIN ring' = DOMAIN ring \cup {n}
      /\ \A i \in DOMAIN ring : ring'[i] = ring[i]
      /\ ring'[n].task = t
      /\ ring'[n].id = issued + 1
  BY <1>1, ReserveRing
<1>3. /\ \A i \in DOMAIN ring : i \in Nat /\ i < n
      /\ n \in Nat /\ issued \in Nat
  BY <1>1, RingIndex
<1>4. issued' = issued + 1 /\ written' = written /\ event' = event
  BY DEF Reserved
<1>5. /\ \A i \in DOMAIN ring' : Filled(i)' <=> i \in DOMAIN ring /\ Filled(i)
      /\ issued + 1 \notin DOMAIN written
  BY ReserveFilled
<1> HIDE DEF n
<1>6. Numbered'
  <2>1. \A i \in DOMAIN ring' : ring'[i].task \in Tasks /\ ring'[i].id \in 1..issued'
    BY <1>1, <1>2, <1>3, <1>4 DEF LayoutInv, Numbered
  <2>2. ASSUME NEW i \in DOMAIN ring', NEW j \in DOMAIN ring', i < j
        PROVE  ring'[i].id < ring'[j].id
    <3>1. CASE j \in DOMAIN ring
      <4>1. i \in DOMAIN ring
        BY <3>1, <2>2, <1>2, <1>3
      <4> QED
        BY <4>1, <3>1, <2>2, <1>1, <1>2 DEF LayoutInv, Numbered
    <3>2. CASE j = n
      <4>1. i \in DOMAIN ring
        BY <3>2, <2>2, <1>2, <1>3
      <4>2. ring[i].id \in 1..issued
        BY <4>1, <1>1 DEF LayoutInv, Numbered
      <4> QED
        BY <4>1, <4>2, <3>2, <1>2, <1>3
    <3> QED
      BY <3>1, <3>2, <1>2
  <2> QED
    BY <2>1, <2>2 DEF Numbered
<1>7. Entries'
  BY <1>1, <1>4 DEF LayoutInv, Entries, Entry
<1>8. Kept'
  <2> SUFFICES ASSUME NEW i \in DOMAIN ring'
               PROVE  /\ Filled(i)' <=> ring'[i].id \in DOMAIN written
                      /\ Filled(i)' => \A w \in DOMAIN written[ring'[i].id].words :
                                         Word(i, w)' = written[ring'[i].id].words[w]
    BY <1>4 DEF Kept
  <2>1. CASE i = n
    BY <2>1, <1>2, <1>3, <1>5
  <2>2. CASE i \in DOMAIN ring
    <3>1. ring'[i].id = ring[i].id /\ (Filled(i)' <=> Filled(i))
      BY <2>2, <1>2, <1>5
    <3>2. Filled(i) <=> ring[i].id \in DOMAIN written
      BY <2>2, <1>1 DEF LayoutInv, Kept
    <3>3. ASSUME Filled(i), NEW w \in DOMAIN written[ring[i].id].words
          PROVE  Word(i, w)' = written[ring[i].id].words[w]
      <4>1. w \in Words \ {Header}
        BY <3>2, <3>3, <1>1 DEF LayoutInv, Entries, Entry
      <4>2. Word(i, w) = written[ring[i].id].words[w]
        BY <3>3, <2>2, <1>1 DEF LayoutInv, Kept
      <4>3. i \in 1..RingSlots
        BY <2>2, <1>1, RingIndex
      <4> QED
        BY <4>1, <4>2, <4>3, <1>1, ReserveMemory
    <3> QED
      BY <3>1, <3>2, <3>3
  <2> QED
    BY <2>1, <2>2, <1>2
<1>9. EventKept'
  BY <1>1, <1>4 DEF LayoutInv, EventKept, WordsOwned
<1> QED
  BY <1>6, <1>7, <1>8, <1>9 DEF LayoutInv

(* The new record lies where ZeroAhead says the memory is zero, if it lies on
   the first lap. *)
LEMMA NextRecord ==
  ASSUME HooksInv, consumer \in Nat, NEW w \in Words
  PROVE  /\ Position(Len(ring) + 1) = consumer + RecordWords * Len(ring)
         /\ Address(Len(ring) + 1, w) \in Nat
         /\ Address(Len(ring) + 1, w) <= consumer + RecordWords * Len(ring) + w
         /\ FirstLap(Len(ring) + 1) =>
               Address(Len(ring) + 1, w) = consumer + RecordWords * Len(ring) + w
<1> DEFINE p == consumer + RecordWords * Len(ring)
<1>1. Len(ring) \in Nat /\ RecordWords \in Nat /\ RingWords \in Nat /\ RingWords > 0
  BY RingIndex, Sizes
<1>2. w \in Nat /\ w < RecordWords
  BY <1>1 DEF Words
<1>3. p \in Nat
  BY <1>1, ProductNat
<1>4. Position(Len(ring) + 1) = p
  BY <1>1 DEF Position
<1> HIDE DEF p
<1>5. Address(Len(ring) + 1, w) = (p + w) % RingWords
  BY <1>4 DEF Address
<1> DEFINE m == p + w
<1>6. m \in Nat
  BY <1>2, <1>3
<1>7. FirstLap(Len(ring) + 1) => m < RingWords
  BY <1>1, <1>2, <1>3, <1>4 DEF FirstLap
<1> HIDE DEF m
<1>8. /\ m % RingWords \in Nat
      /\ m % RingWords <= m
      /\ m < RingWords => m % RingWords = m
  BY <1>1, <1>6, ModBound
<1> QED
  BY <1>4, <1>5, <1>7, <1>8 DEF m, p

LEMMA ReserveArgc ==
  ASSUME IInv, NEW t \in Tasks, Reserved(t)
  PROVE  ArgcInv'
<1>1. HooksInv /\ RecordTypeOK /\ LayoutInv /\ ArgcInv
  BY DEF IInv
<1> DEFINE n == Len(ring) + 1
<1>2. /\ Len(ring') = n
      /\ DOMAIN ring' = DOMAIN ring \cup {n}
      /\ \A i \in DOMAIN ring : ring'[i] = ring[i]
      /\ n \in 1..RingSlots
  BY <1>1, ReserveRing
<1>3. consumer' = consumer /\ written' = written /\ event' = event
  BY DEF Reserved
<1>4. \A i \in DOMAIN ring' : Filled(i)' <=> i \in DOMAIN ring /\ Filled(i)
  BY ReserveFilled
<1>5. \A i : FirstLap(i)' <=> FirstLap(i)
  BY <1>3 DEF FirstLap, Position
<1>6. Argc \in Words \ {Header} /\ Header \in Words /\ Header = 0
  BY Sizes DEF Argc, Header
<1>7. consumer \in Nat /\ RecordWords \in Nat /\ RecordWords > Argc /\ Len(ring) \in Nat
  BY <1>1, Sizes, RingIndex DEF RecordTypeOK
<1>8. /\ \A i \in 1..RingSlots : Word(i, Argc)' = Word(i, Argc)
      /\ \A a \in Addresses : a # Address(n, Header) => memory'[a] = memory[a]
  BY <1>1, <1>6, ReserveMemory
<1>9. \A a \in Addresses : a >= consumer + RecordWords * Len(ring) => memory[a] = 0
  BY <1>1 DEF ArgcInv, ZeroAhead
<1>10. RecordWords * Len(ring) \in Nat
  BY <1>7, ProductNat
<1>11. RecordWords * n = RecordWords * Len(ring) + RecordWords
  BY <1>7
<1>12. Address(n, Header) <= consumer + RecordWords * Len(ring) /\ Address(n, Header) \in Nat
  BY <1>1, <1>6, <1>7, <1>10, NextRecord
<1>13. FirstLap(n) => Address(n, Argc) = consumer + RecordWords * Len(ring) + Argc
  BY <1>1, <1>6, <1>7, NextRecord
<1>14. Address(n, Argc) \in Addresses
  BY <1>2, <1>6, <1>7, AddressFits
<1> HIDE DEF n
<1>15. ZeroAhead'
  <2> SUFFICES ASSUME NEW a \in Addresses, a >= consumer + RecordWords * n
               PROVE  memory'[a] = 0
    BY <1>2, <1>3 DEF ZeroAhead
  <2>1. a \in Nat
    BY Sizes DEF Addresses
  <2>2. a > consumer + RecordWords * Len(ring)
    BY <2>1, <1>7, <1>10, <1>11 DEF Argc
  <2>3. a # Address(n, Header)
    BY <2>1, <2>2, <1>7, <1>10, <1>12
  <2> QED
    BY <2>1, <2>2, <2>3, <1>7, <1>8, <1>9, <1>10
<1>16. Blank'
  <2> SUFFICES ASSUME NEW i \in DOMAIN ring', FirstLap(i)', ~Filled(i)'
               PROVE  Word(i, Argc)' = 0
    BY DEF Blank
  <2>1. CASE i \in DOMAIN ring
    <3>1. i \in 1..RingSlots
      BY <2>1, <1>1, RingIndex
    <3>2. Word(i, Argc) = 0
      BY <2>1, <1>1, <1>4, <1>5 DEF ArgcInv, Blank
    <3> QED
      BY <3>1, <3>2, <1>8
  <2>2. CASE i = n
    <3>1. Address(n, Argc) >= consumer + RecordWords * Len(ring)
      BY <2>2, <1>5, <1>7, <1>10, <1>13 DEF Argc
    <3>2. Word(n, Argc) = 0
      BY <3>1, <1>9, <1>14 DEF Word
    <3> QED
      BY <2>2, <3>2, <1>2, <1>8
  <2> QED
    BY <2>1, <2>2, <1>2
<1>17. RingCounted'
  <2> SUFFICES ASSUME NEW i \in DOMAIN ring', Filled(i)'
               PROVE  Counted(written[ring'[i].id], FirstLap(i)')
    BY <1>3 DEF RingCounted, Counted
  <2>1. i \in DOMAIN ring /\ ring'[i] = ring[i] /\ Filled(i)
    BY <1>2, <1>4
  <2> QED
    BY <2>1, <1>1, <1>5 DEF ArgcInv, RingCounted, Counted
<1>18. ArgcRight'
  BY <1>1, <1>3 DEF ArgcInv, ArgcRight
<1> QED
  BY <1>15, <1>16, <1>17, <1>18 DEF ArgcInv

(* A busy record is the one that its task holds. *)
LEMMA HeldIndex ==
  ASSUME HooksInv, NEW i \in DOMAIN ring, ring[i].state = "busy"
  PROVE  /\ ring[i].task \in Hooked
         /\ hook[ring[i].task] # "idle"
         /\ Held(ring[i].task) = i
<1>1. ring[i].task \in Hooked
  BY RecordFields DEF HooksInv, HooksTypeOK
<1>2. hook[ring[i].task] # "idle"
  BY <1>1 DEF HooksInv, OneHolder
<1>3. /\ Held(ring[i].task) \in DOMAIN ring
      /\ ring[Held(ring[i].task)].task = ring[i].task
      /\ ring[Held(ring[i].task)].state = "busy"
  BY <1>1, <1>2, HeldBusy
<1> QED
  BY <1>1, <1>2, <1>3 DEF HooksInv, OneHolder, SoleHolder

LEMMA ReserveStamps ==
  ASSUME IInv, NEW t \in Tasks, Reserved(t)
  PROVE  StampInv'
<1>1. HooksInv /\ RecordTypeOK /\ LayoutInv /\ StampInv
  BY DEF IInv
<1> DEFINE n == Len(ring) + 1
<1>2. /\ DOMAIN ring' = DOMAIN ring \cup {n}
      /\ \A i \in DOMAIN ring : ring'[i] = ring[i]
      /\ ring'[n].id = issued + 1
  BY <1>1, ReserveRing
<1>3. written' = written /\ seen' = seen /\ now' = now /\ issued' = issued + 1
      /\ overlap \subseteq overlap'
  BY DEF Reserved
<1>4. \A i \in DOMAIN ring' : Filled(i)' <=> i \in DOMAIN ring /\ Filled(i)
  BY ReserveFilled
<1>5. \A i \in DOMAIN ring : i \in Nat /\ i < n
  BY <1>1, RingIndex
<1>6. n \in Nat /\ issued \in Nat /\ DOMAIN written \subseteq 1..issued
  BY <1>1, RingIndex DEF RecordTypeOK
<1>7. ASSUME NEW i \in DOMAIN ring, ~Filled(i)
      PROVE  <<ring[i].id, issued + 1>> \in overlap'
  <2>1. ring[i].state = "busy"
    BY <1>7 DEF Filled
  <2>2. ring[i].task \in Tasks /\ hook[ring[i].task] # "idle" /\ Held(ring[i].task) = i
    BY <2>1, <1>1, HeldIndex DEF LayoutInv, Numbered
  <2> QED
    BY <2>2, <1>3 DEF Reserved
<1> HIDE DEF n
<1>8. Stamped' /\ Disordered'
  BY <1>1, <1>3 DEF StampInv, Stamped, Disordered, Stamp
<1>9. Together'
  <2> SUFFICES ASSUME NEW i \in DOMAIN ring', ~Filled(i)'
               PROVE  /\ \A j \in DOMAIN ring' : i < j =>
                            <<ring'[i].id, ring'[j].id>> \in overlap'
                      /\ \A k \in DOMAIN written : ring'[i].id < k =>
                            <<ring'[i].id, k>> \in overlap'
    BY <1>3 DEF Together
  <2>1. CASE i = n
    <3>1. \A j \in DOMAIN ring' : ~(n < j)
      BY <1>2, <1>5, <1>6
    <3>2. \A k \in DOMAIN written : ~(issued + 1 < k)
      BY <1>6
    <3> QED
      BY <2>1, <3>1, <3>2, <1>2
  <2>2. CASE i \in DOMAIN ring
    <3>1. ~Filled(i) /\ ring'[i] = ring[i]
      BY <2>2, <1>2, <1>4
    <3>2. /\ \A j \in DOMAIN ring : i < j => <<ring[i].id, ring[j].id>> \in overlap'
          /\ \A k \in DOMAIN written : ring[i].id < k => <<ring[i].id, k>> \in overlap'
      BY <2>2, <3>1, <1>1, <1>3 DEF StampInv, Together
    <3>3. <<ring[i].id, issued + 1>> \in overlap'
      BY <2>2, <3>1, <1>7
    <3> QED
      BY <2>2, <3>1, <3>2, <3>3, <1>2
  <2> QED
    BY <2>1, <2>2, <1>2
<1> QED
  BY <1>8, <1>9 DEF StampInv

LEMMA ReserveStep ==
  ASSUME IInv, HooksInv', NEW t \in Tasks, Reserved(t)
  PROVE  IInv'
  BY ReserveTypes, ReserveLayout, ReserveArgc, ReserveStamps DEF IInv
-----------------------------------------------------------------------------
(* A handler writes its record. *)

(* Its record h gets the entry, the others keep their memory. *)
WrittenAt(t, e, h) ==
    /\ h = Held(t)
    /\ ~Filled(h)
    /\ ring[h].id \notin DOMAIN written
    /\ DOMAIN written' = DOMAIN written \cup {ring[h].id}
    /\ written'[ring[h].id] = e
    /\ \A k \in DOMAIN written : written'[k] = written[k]
    /\ \A i \in DOMAIN ring : Filled(i)' <=> i = h \/ Filled(i)
    /\ memory' \in [Addresses -> Nat]
    /\ \A w \in DOMAIN e.words : Word(h, w)' = e.words[w]
    /\ \A i \in DOMAIN ring, w \in Words : i # h => Word(i, w)' = Word(i, w)
    /\ \A a \in Addresses :
          (\A w \in DOMAIN e.words : a # Address(h, w)) => memory'[a] = memory[a]

LEMMA WriteFacts ==
  ASSUME IInv, NEW t \in Tasks, NEW e, Writes(t, e)
  PROVE  \E h \in DOMAIN ring : WrittenAt(t, e, h)
<1> PICK h : h = Held(t)
  OBVIOUS
<1>1. HooksInv /\ RecordTypeOK /\ LayoutInv
  BY DEF IInv
<1>2. t \in Hooked /\ hook[t] # "idle"
  BY DEF Hooked, Writes, Calls
<1>3. h \in DOMAIN ring /\ ring[h].task = t /\ ring[h].state = "busy"
  BY <1>1, <1>2, HeldBusy
<1>4. t \notin filled /\ filled' = filled \cup {t} /\ ring' = ring /\ consumer' = consumer
  BY DEF Writes, hookVars
<1>5. ~Filled(h)
  BY <1>3, <1>4 DEF Filled
<1>6. ring[h].id \notin DOMAIN written
  BY <1>1, <1>3, <1>5 DEF LayoutInv, Kept
<1>7. /\ DOMAIN written' = DOMAIN written \cup {ring[h].id}
      /\ written'[ring[h].id] = e
      /\ \A k \in DOMAIN written : written'[k] = written[k]
  <2>1. written' = Merge(written, [id \in {ring[h].id} |-> e])
    BY DEF Writes
  <2> QED
    BY <2>1, <1>6 DEF Merge
<1>8. ASSUME NEW i \in DOMAIN ring PROVE Filled(i)' <=> i = h \/ Filled(i)
  <2>1. i # h => ~(ring[i].state = "busy" /\ ring[i].task = t)
    BY <1>1, <1>3 DEF HooksInv, OneHolder, SoleHolder
  <2> QED
    BY <2>1, <1>3, <1>4 DEF Filled
<1>9. h \in 1..RingSlots /\ \A i \in DOMAIN ring : i \in 1..RingSlots
  BY <1>1, <1>3, RingIndex
<1>10. DOMAIN e.words \subseteq Words /\ \A w \in DOMAIN e.words : e.words[w] \in Nat
  BY DEF Writes, Entry
<1>11. consumer \in Nat /\ memory \in [Addresses -> Nat] /\ memory' = Set(h, e.words)
  BY <1>1 DEF RecordTypeOK, Addresses, Writes
<1>12. /\ memory' \in [Addresses -> Nat]
       /\ \A w \in DOMAIN e.words : memory'[Address(h, w)] = e.words[w]
       /\ \A i \in 1..RingSlots, w \in Words :
             i # h \/ w \notin DOMAIN e.words => memory'[Address(i, w)] = memory[Address(i, w)]
       /\ \A a \in Addresses :
             (\A w \in DOMAIN e.words : a # Address(h, w)) => memory'[a] = memory[a]
  <2> DEFINE words == e.words
  <2>1. DOMAIN words \subseteq Words /\ (\A w \in DOMAIN words : words[w] \in Nat)
        /\ memory' = Set(h, words)
    BY <1>10, <1>11
  <2> HIDE DEF words
  <2>2. /\ memory' \in [Addresses -> Nat]
        /\ \A w \in DOMAIN words : memory'[Address(h, w)] = words[w]
        /\ \A i \in 1..RingSlots, w \in Words :
             i # h \/ w \notin DOMAIN words => memory'[Address(i, w)] = memory[Address(i, w)]
        /\ \A a \in Addresses :
             (\A w \in DOMAIN words : a # Address(h, w)) => memory'[a] = memory[a]
    <3>1. consumer \in Nat /\ memory \in [Addresses -> Nat] /\ h \in 1..RingSlots
      BY <1>9, <1>11
    <3>2. DOMAIN words \subseteq Words /\ \A w \in DOMAIN words : words[w] \in Nat
      BY <2>1
    <3>3. /\ Set(h, words) \in [Addresses -> Nat]
          /\ \A w \in DOMAIN words : Set(h, words)[Address(h, w)] = words[w]
          /\ \A i \in 1..RingSlots, w \in Words :
               i # h \/ w \notin DOMAIN words =>
                  Set(h, words)[Address(i, w)] = memory[Address(i, w)]
          /\ \A a \in Addresses :
               (\A w \in DOMAIN words : a # Address(h, w)) => Set(h, words)[a] = memory[a]
      BY <3>1, <3>2, SetWord
    <3> QED
      BY <2>1, <3>3
  <2> QED
    BY <2>2 DEF words
<1>13. \A i, w : Word(i, w)' = memory'[Address(i, w)]
  BY <1>4 DEF Word, Address, Position
<1>14. /\ \A w \in DOMAIN e.words : Word(h, w)' = e.words[w]
       /\ \A i \in DOMAIN ring, w \in Words : i # h => Word(i, w)' = Word(i, w)
  BY <1>9, <1>12, <1>13 DEF Word
<1> QED
  BY <1>3, <1>5, <1>6, <1>7, <1>8, <1>12, <1>14 DEF WrittenAt

LEMMA WriteTypes ==
  ASSUME IInv, HooksInv', NEW t \in Tasks, NEW e, Writes(t, e)
  PROVE  RecordTypeOK'
<1>1. HooksInv /\ RecordTypeOK /\ LayoutInv
  BY DEF IInv
<1> PICK h \in DOMAIN ring : WrittenAt(t, e, h)
  BY WriteFacts
<1>2. /\ DOMAIN written' = DOMAIN written \cup {ring[h].id}
      /\ memory' \in [Addresses -> Nat]
  BY DEF WrittenAt
<1>3. /\ UNCHANGED <<ring, hook, issued, consumer, now, event, seen, overlap>>
      /\ filled' = filled \cup {t}
      /\ hook[t] # "idle"
  BY DEF Writes, hookVars, Calls
<1>4. ring[h].id \in 1..issued
  BY <1>1, <1>2 DEF LayoutInv, Numbered
<1>5. HooksTypeOK'
  BY DEF HooksInv
<1>6. event' = NoEvent \/ event' \in Records'
  BY <1>1, <1>3 DEF RecordTypeOK, Records
<1>7. DOMAIN written' \subseteq 1..issued' /\ DOMAIN seen' \subseteq DOMAIN written'
  BY <1>1, <1>2, <1>3, <1>4 DEF RecordTypeOK
<1>8. filled' \subseteq {u \in Tasks : hook'[u] # "idle"}
  BY <1>1, <1>3 DEF RecordTypeOK
<1>9. memory' \in [0..(RingWords - 1) -> Nat]
  BY <1>2 DEF Addresses
<1> QED
  BY <1>1, <1>3, <1>5, <1>6, <1>7, <1>8, <1>9 DEF RecordTypeOK

LEMMA WriteLayout ==
  ASSUME IInv, NEW t \in Tasks, NEW e, Writes(t, e)
  PROVE  LayoutInv'
<1>1. HooksInv /\ RecordTypeOK /\ LayoutInv
  BY DEF IInv
<1> PICK h \in DOMAIN ring : WrittenAt(t, e, h)
  BY WriteFacts
<1>2. /\ ring[h].id \notin DOMAIN written
      /\ DOMAIN written' = DOMAIN written \cup {ring[h].id}
      /\ written'[ring[h].id] = e
      /\ \A k \in DOMAIN written : written'[k] = written[k]
      /\ \A i \in DOMAIN ring : Filled(i)' <=> i = h \/ Filled(i)
      /\ \A w \in DOMAIN e.words : Word(h, w)' = e.words[w]
      /\ \A i \in DOMAIN ring, w \in Words : i # h => Word(i, w)' = Word(i, w)
  BY DEF WrittenAt
<1>3. UNCHANGED <<ring, issued, event>> /\ Entry(e)
  BY DEF Writes, hookVars
<1>4. Numbered'
  BY <1>1, <1>3 DEF LayoutInv, Numbered
<1>5. Entries'
  <2>1. \A k \in DOMAIN written' : Entry(written'[k])
    BY <1>1, <1>2, <1>3 DEF LayoutInv, Entries
  <2> QED
    BY <2>1 DEF Entries, Entry
<1>6. \A i \in DOMAIN ring : ring[i].id = ring[h].id => i = h
  BY <1>1, <1>2, RingIndex DEF LayoutInv, Numbered
<1>7. Kept'
  <2> SUFFICES ASSUME NEW i \in DOMAIN ring
               PROVE  /\ Filled(i)' <=> ring[i].id \in DOMAIN written'
                      /\ Filled(i)' => \A w \in DOMAIN written'[ring[i].id].words :
                                         Word(i, w)' = written'[ring[i].id].words[w]
    BY <1>3 DEF Kept
  <2>1. CASE i = h
    BY <2>1, <1>2
  <2>2. CASE i # h
    <3>1. Filled(i)' <=> Filled(i)
      BY <2>2, <1>2
    <3>2. Filled(i) <=> ring[i].id \in DOMAIN written
      BY <1>1 DEF LayoutInv, Kept
    <3>3. ring[i].id # ring[h].id
      BY <2>2, <1>6
    <3>4. ASSUME Filled(i), NEW w \in DOMAIN written[ring[i].id].words
          PROVE  Word(i, w)' = written[ring[i].id].words[w]
      <4>1. w \in Words
        BY <3>2, <3>4, <1>1 DEF LayoutInv, Entries, Entry
      <4>2. Word(i, w) = written[ring[i].id].words[w]
        BY <3>4, <1>1 DEF LayoutInv, Kept
      <4> QED
        BY <2>2, <4>1, <4>2, <1>2
    <3> QED
      BY <3>1, <3>2, <3>3, <3>4, <1>2
  <2> QED
    BY <2>1, <2>2
<1>8. EventKept'
  BY <1>1, <1>2, <1>3 DEF LayoutInv, EventKept, WordsOwned
<1> QED
  BY <1>4, <1>5, <1>7, <1>8 DEF LayoutInv

(* The words of the records in the ring lie before the producer's position. *)
LEMMA AddressBehind ==
  ASSUME HooksInv, consumer \in Nat, NEW i \in DOMAIN ring, NEW w \in Words
  PROVE  Address(i, w) \in Nat /\ Address(i, w) < consumer + RecordWords * Len(ring)
<1>1. /\ Len(ring) \in Nat /\ i \in 1..Len(ring)
      /\ RecordWords \in Nat /\ RingWords \in Nat /\ RingWords > 0
  BY RingIndex, Sizes
<1>2. w \in Nat /\ w < RecordWords
  BY <1>1 DEF Words
<1>3. i - 1 \in Nat /\ Len(ring) - i \in Nat
  BY <1>1
<1>4. (i - 1) * RecordWords \in Nat /\ (Len(ring) - i) * RecordWords \in Nat
  BY <1>1, <1>3, ProductNat
<1>5. RecordWords * Len(ring) = (i - 1) * RecordWords + RecordWords
                                  + (Len(ring) - i) * RecordWords
  BY <1>1
<1> DEFINE p == Position(i) + w
<1>6. p \in Nat /\ p < consumer + RecordWords * Len(ring)
  <2> DEFINE before == (i - 1) * RecordWords
             after == (Len(ring) - i) * RecordWords
             all == RecordWords * Len(ring)
  <2>1. p = consumer + before + w
    BY DEF Position
  <2>2. before \in Nat /\ after \in Nat /\ all = before + RecordWords + after
    BY <1>4, <1>5
  <2> HIDE DEF before, after, all, p
  <2>3. p \in Nat /\ p < consumer + all
    BY <1>1, <1>2, <2>1, <2>2
  <2> QED
    BY <2>3 DEF all
<1> HIDE DEF p
<1>7. p % RingWords \in Nat /\ p % RingWords <= p
  BY <1>1, <1>6, ModBound
<1>8. consumer + RecordWords * Len(ring) \in Nat
  BY <1>1, ProductNat
<1> QED
  BY <1>6, <1>7, <1>8 DEF p, Address

LEMMA WriteArgc ==
  ASSUME IInv, NEW t \in Tasks, NEW e, Writes(t, e)
  PROVE  ArgcInv'
<1>1. HooksInv /\ RecordTypeOK /\ LayoutInv /\ ArgcInv
  BY DEF IInv
<1> PICK h \in DOMAIN ring : WrittenAt(t, e, h)
  BY WriteFacts
<1>2. /\ h = Held(t)
      /\ ~Filled(h)
      /\ written'[ring[h].id] = e
      /\ \A k \in DOMAIN written : written'[k] = written[k]
      /\ \A i \in DOMAIN ring : Filled(i)' <=> i = h \/ Filled(i)
      /\ \A i \in DOMAIN ring, w \in Words : i # h => Word(i, w)' = Word(i, w)
      /\ \A a \in Addresses :
            (\A w \in DOMAIN e.words : a # Address(h, w)) => memory'[a] = memory[a]
  BY DEF WrittenAt
<1>3. UNCHANGED <<ring, consumer, event>>
  BY DEF Writes, hookVars
<1>4. \A i : FirstLap(i)' <=> FirstLap(i)
  BY <1>3 DEF FirstLap, Position
<1>5. ZeroAhead'
  <2> SUFFICES ASSUME NEW a \in Addresses, a >= consumer + RecordWords * Len(ring)
               PROVE  memory'[a] = 0
    BY <1>3 DEF ZeroAhead
  <2>1. memory[a] = 0
    BY <1>1 DEF ArgcInv, ZeroAhead
  <2>2. ASSUME NEW w \in DOMAIN e.words PROVE a # Address(h, w)
    <3>1. w \in Words
      BY DEF Writes, Entry
    <3>2. consumer \in Nat
      BY <1>1 DEF RecordTypeOK
    <3>3. Address(h, w) \in Nat /\ Address(h, w) < consumer + RecordWords * Len(ring)
      BY <1>1, <3>1, <3>2, AddressBehind
    <3>4. consumer + RecordWords * Len(ring) \in Nat
      BY <1>1, <3>2, RingIndex, Sizes, ProductNat
    <3> QED
      BY <3>3, <3>4
  <2> QED
    BY <1>2, <2>1, <2>2
<1>6. Blank'
  <2> SUFFICES ASSUME NEW i \in DOMAIN ring, FirstLap(i), ~Filled(i)'
               PROVE  Word(i, Argc)' = 0
    BY <1>3, <1>4 DEF Blank
  <2>1. i # h /\ ~Filled(i)
    BY <1>2
  <2>2. Word(i, Argc) = 0
    BY <1>1, <2>1 DEF ArgcInv, Blank
  <2>3. Argc \in Words
    BY Sizes
  <2> QED
    BY <1>2, <2>1, <2>2, <2>3
<1>7. RingCounted'
  <2> SUFFICES ASSUME NEW i \in DOMAIN ring, Filled(i)'
               PROVE  Counted(written'[ring[i].id], FirstLap(i))
    BY <1>3, <1>4 DEF RingCounted, Counted
  <2>1. CASE i = h
    <3> SUFFICES ASSUME FirstLap(h) \/ e.words[Call] # Number["execve"]
                 PROVE  e.words[Argc] = e.args
      BY <2>1, <1>2 DEF Counted
    <3>1. CASE hook[t] = "execve"
      <4>1. FirstLap(h)
        BY <3>1 DEF Writes
      <4>2. Word(h, Argc) = 0
        BY <4>1, <1>1, <1>2 DEF ArgcInv, Blank
      <4>3. e.args \in Nat /\ e.words[Argc] = Word(h, Argc) + e.args
        <5>1. e.args \in 0..MAX_ARGS
          BY DEF Writes, Entry
        <5>2. e.args \in Nat
          BY <5>1, RecordAssumption
        <5> QED
          BY <5>2, <3>1, <1>2 DEF Writes
      <4> QED
        BY <4>2, <4>3
    <3>2. CASE hook[t] # "execve"
      BY <3>2 DEF Writes
    <3> QED
      BY <3>1, <3>2
  <2>2. CASE i # h
    <3>1. Filled(i) /\ ring[i].id \in DOMAIN written
      BY <2>2, <1>1, <1>2 DEF LayoutInv, Kept
    <3> QED
      BY <3>1, <1>1, <1>2 DEF ArgcInv, RingCounted
  <2> QED
    BY <2>1, <2>2
<1>8. ArgcRight'
  BY <1>1, <1>2, <1>3 DEF ArgcInv, ArgcRight, LayoutInv, EventKept
<1> QED
  BY <1>5, <1>6, <1>7, <1>8 DEF ArgcInv

LEMMA WriteStamps ==
  ASSUME IInv, NEW t \in Tasks, NEW e, Writes(t, e)
  PROVE  StampInv'
<1>1. HooksInv /\ RecordTypeOK /\ LayoutInv /\ StampInv
  BY DEF IInv
<1> PICK h \in DOMAIN ring : WrittenAt(t, e, h)
  BY WriteFacts
<1>2. /\ ~Filled(h)
      /\ ring[h].id \notin DOMAIN written
      /\ DOMAIN written' = DOMAIN written \cup {ring[h].id}
      /\ written'[ring[h].id] = e
      /\ \A k \in DOMAIN written : written'[k] = written[k]
      /\ \A i \in DOMAIN ring : Filled(i)' <=> i = h \/ Filled(i)
  BY DEF WrittenAt
<1>3. UNCHANGED <<ring, now, seen, overlap>> /\ e.words[Timestamp] = now
  BY DEF Writes, hookVars
<1>4. now \in Nat
  BY <1>1, RecordAssumption DEF RecordTypeOK
<1>5. /\ \A k : k = ring[h].id => Stamp(k)' = now
      /\ \A k \in DOMAIN written : Stamp(k)' = Stamp(k) /\ Stamp(k) <= now
                                   /\ Stamp(k) \in Nat
  <2>1. written'[ring[h].id].words[Timestamp] = now
    BY <1>2, <1>3
  <2>2. \A k \in DOMAIN written : Stamp(k)' = Stamp(k)
    BY <1>2 DEF Stamp
  <2>3. \A k \in DOMAIN written : Stamp(k) <= now
    BY <1>1 DEF StampInv, Stamped
  <2>4. \A k \in DOMAIN written : Stamp(k) \in Nat
    BY <1>1 DEF LayoutInv, Entries, Entry, Stamp
  <2> QED
    BY <2>1, <2>2, <2>3, <2>4, <1>3 DEF Stamp
<1>6. \A i \in DOMAIN ring : /\ ring[i].id \in Nat /\ i \in Nat
                             /\ ring[i].id < ring[h].id => i < h
  <2>1. \A i \in DOMAIN ring : i \in Nat /\ ring[i].id \in Nat
    BY <1>1, RingIndex DEF LayoutInv, Numbered
  <2>2. \A i, j \in DOMAIN ring : i < j => ring[i].id < ring[j].id
    BY <1>1 DEF LayoutInv, Numbered
  <2> QED
    BY <2>1, <2>2
<1>7. Stamped'
  <2>1. \A k \in DOMAIN written' : Stamp(k)' <= now
    BY <1>2, <1>3, <1>4, <1>5
  <2>2. \A k \in DOMAIN seen : seen[k] = Stamp(k)'
    BY <1>1, <1>5 DEF StampInv, Stamped, RecordTypeOK
  <2> QED
    BY <2>1, <2>2, <1>3 DEF Stamped
<1>8. Together'
  <2> SUFFICES ASSUME NEW i \in DOMAIN ring, ~Filled(i)'
               PROVE  /\ \A j \in DOMAIN ring : i < j => <<ring[i].id, ring[j].id>> \in overlap
                      /\ \A k \in DOMAIN written' : ring[i].id < k => <<ring[i].id, k>> \in overlap
    BY <1>3 DEF Together
  <2>1. ~Filled(i)
    BY <1>2
  <2>2. /\ \A j \in DOMAIN ring : i < j => <<ring[i].id, ring[j].id>> \in overlap
        /\ \A k \in DOMAIN written : ring[i].id < k => <<ring[i].id, k>> \in overlap
    BY <2>1, <1>1 DEF StampInv, Together
  <2>3. ring[i].id < ring[h].id => <<ring[i].id, ring[h].id>> \in overlap
    BY <2>2, <1>2, <1>6
  <2> QED
    BY <2>2, <2>3, <1>2
<1>9. Disordered'
  <2> SUFFICES ASSUME NEW k \in DOMAIN written', NEW l \in DOMAIN written',
                      k < l, Stamp(k)' > Stamp(l)'
               PROVE  <<k, l>> \in overlap
    BY <1>3 DEF Disordered
  <2>1. CASE l = ring[h].id
    <3>1. k \in DOMAIN written
      BY <2>1, <1>2, <1>6
    <3> QED
      BY <2>1, <3>1, <1>4, <1>5
  <2>2. CASE k = ring[h].id /\ l \in DOMAIN written
    BY <2>2, <1>1, <1>2 DEF StampInv, Together
  <2>3. CASE k \in DOMAIN written /\ l \in DOMAIN written
    BY <2>3, <1>1, <1>5 DEF StampInv, Disordered
  <2> QED
    BY <2>1, <2>2, <2>3, <1>2
<1> QED
  BY <1>7, <1>8, <1>9 DEF StampInv

LEMMA WriteStep ==
  ASSUME IInv, HooksInv', NEW t \in Tasks, NEW e, Writes(t, e)
  PROVE  IInv'
  BY WriteTypes, WriteLayout, WriteArgc, WriteStamps DEF IInv
-----------------------------------------------------------------------------
(* A handler ends: its record was filled and stays so. *)

LEMMA EndStep ==
  ASSUME IInv, HooksInv', NEW t \in Tasks, End(t)
  PROVE  IInv'
<1>1. HooksInv /\ RecordTypeOK
  BY DEF IInv
<1>2. /\ t \in filled /\ t \in Hooked /\ hook[t] # "idle"
      /\ filled' = filled \ {t}
      /\ UNCHANGED <<memory, consumer, now, event, written, seen, overlap>>
  BY <1>1 DEF End, RecordTypeOK, Hooked
<1>3. PICK m \in {"ready", "discarded"} : ring' = Marked(t, m)
  BY DEF End, Finish, bpf_ringbuf_submit, bpf_ringbuf_discard
<1>4. hook' = [hook EXCEPT ![t] = "idle"] /\ issued' = issued
  BY DEF End, Finish, bpf_ringbuf_submit, bpf_ringbuf_discard
<1> PICK h : h = Held(t)
  OBVIOUS
<1>5. /\ Len(ring') = Len(ring)
      /\ DOMAIN ring' = DOMAIN ring
      /\ \A i \in DOMAIN ring : /\ ring'[i].task = ring[i].task
                                /\ ring'[i].id = ring[i].id
                                /\ i # h => ring'[i] = ring[i]
      /\ ring'[h].state = m
  BY <1>1, <1>2, <1>3, MarkedRing
<1>6. h \in DOMAIN ring /\ ring[h].task = t /\ ring[h].state = "busy"
  BY <1>1, <1>2, HeldBusy
<1>7. ASSUME NEW i \in DOMAIN ring PROVE Filled(i)' <=> Filled(i)
  <2>1. CASE i = h
    <3>1. ring'[h].state # "busy"
      BY <1>5
    <3> QED
      BY <2>1, <3>1, <1>2, <1>6 DEF Filled
  <2>2. CASE i # h
    <3>1. ~(ring[i].state = "busy" /\ ring[i].task = t)
      BY <2>2, <1>1, <1>6 DEF HooksInv, OneHolder, SoleHolder
    <3>2. ring'[i] = ring[i]
      BY <2>2, <1>5
    <3> QED
      BY <3>1, <3>2, <1>2 DEF Filled
  <2> QED
    BY <2>1, <2>2
<1>8. filled' \subseteq {u \in Tasks : hook'[u] # "idle"}
  BY <1>1, <1>2, <1>4 DEF RecordTypeOK, HooksInv, HooksTypeOK, Hooked
<1>9. issued' \in Nat /\ issued' >= issued /\ now' \in 0..MaxTime /\ now' >= now
  BY <1>1, <1>2, <1>4, RingIndex, RecordAssumption DEF RecordTypeOK
<1> QED
  BY <1>2, <1>5, <1>7, <1>8, <1>9, StillStep
-----------------------------------------------------------------------------
(* The consumer takes the first record: the others move up, each with its
   memory. *)

Taken == /\ ring # <<>>
         /\ Head(ring).state # "busy"
         /\ ring' = Tail(ring)
         /\ consumer' = consumer + RecordWords
         /\ UNCHANGED <<hook, issued, memory, now, filled, written, overlap>>

Copied == /\ event'.id = ring[1].id
          /\ event'.first_lap = FirstLap(1)
          /\ event'.words = [w \in Words |-> Word(1, w)]
          /\ event' \in [id : 1..issued, first_lap : BOOLEAN, words : [Words -> Nat]]
          /\ DOMAIN seen' = DOMAIN seen \cup {ring[1].id}
          /\ \A k \in DOMAIN seen : seen'[k] = seen[k]
          /\ ring[1].id \notin DOMAIN seen => seen'[ring[1].id] = Word(1, Timestamp)

LEMMA TakenFacts ==
  ASSUME IInv, Taken
  PROVE  /\ 1 \in DOMAIN ring
         /\ ring[1] = Head(ring)
         /\ Filled(1)
         /\ Len(ring') = Len(ring) - 1
         /\ \A i \in DOMAIN ring' : /\ i \in Nat
                                    /\ i + 1 \in DOMAIN ring
                                    /\ ring'[i] = ring[i + 1]
                                    /\ Filled(i)' <=> Filled(i + 1)
                                    /\ FirstLap(i)' <=> FirstLap(i + 1)
                                    /\ \A w \in Words : Word(i, w)' = Word(i + 1, w)
         /\ consumer' + RecordWords * Len(ring') = consumer + RecordWords * Len(ring)
         /\ consumer' \in Nat
<1>1. HooksInv /\ RecordTypeOK
  BY DEF IInv
<1>2. ring \in Seq(Record) /\ ring # <<>> /\ ring' = Tail(ring)
  BY <1>1 DEF HooksInv, HooksTypeOK, Taken
<1>3. /\ 1 \in DOMAIN ring /\ ring[1] = Head(ring)
      /\ Len(ring') = Len(ring) - 1
      /\ \A i \in DOMAIN ring' : i \in Nat /\ i + 1 \in DOMAIN ring /\ ring'[i] = ring[i + 1]
  BY <1>2
<1>4. Filled(1)
  BY <1>3 DEF Filled, Taken
<1>5. consumer \in Nat /\ RecordWords \in Nat /\ Len(ring) \in Nat
  BY <1>1, RingIndex, Sizes DEF RecordTypeOK
<1>6. consumer' = consumer + RecordWords /\ memory' = memory /\ filled' = filled
  BY DEF Taken
<1>7. consumer' + RecordWords * Len(ring') = consumer + RecordWords * Len(ring)
      /\ consumer' \in Nat
  BY <1>3, <1>5, <1>6
<1>8. ASSUME NEW i \in Nat PROVE Position(i)' = Position(i + 1)
  <2>1. (i + 1 - 1) * RecordWords = (i - 1) * RecordWords + RecordWords
    BY <1>5
  <2>2. (i - 1) * RecordWords \in Int
    BY <1>5
  <2> QED
    BY <2>1, <2>2, <1>5, <1>6 DEF Position
<1>9. \A i \in Nat : FirstLap(i)' <=> FirstLap(i + 1)
  BY <1>8 DEF FirstLap
<1>10. \A i \in Nat, w \in Words : Word(i, w)' = Word(i + 1, w)
  BY <1>6, <1>8 DEF Word, Address
<1>11. \A i \in DOMAIN ring' : Filled(i)' <=> Filled(i + 1)
  BY <1>3, <1>6 DEF Filled
<1> QED
  BY <1>3, <1>4, <1>7, <1>9, <1>10, <1>11

(* What handle_event copies is the entry of the event. *)
LEMMA HeadKept ==
  ASSUME IInv, Taken
  PROVE  /\ ring[1].id \in DOMAIN written
         /\ ring[1].id \in 1..issued
         /\ Entry(written[ring[1].id])
         /\ \A w \in DOMAIN written[ring[1].id].words :
               w \in Words /\ Word(1, w) = written[ring[1].id].words[w]
         /\ Counted(written[ring[1].id], FirstLap(1))
<1>1. LayoutInv /\ ArgcInv
  BY DEF IInv
<1>2. 1 \in DOMAIN ring /\ Filled(1)
  BY TakenFacts
<1>3. ring[1].id \in DOMAIN written /\ ring[1].id \in 1..issued
  BY <1>1, <1>2 DEF LayoutInv, Kept, Numbered
<1>4. Entry(written[ring[1].id])
  BY <1>1, <1>3 DEF LayoutInv, Entries
<1>5. \A w \in DOMAIN written[ring[1].id].words : Word(1, w) = written[ring[1].id].words[w]
  BY <1>1, <1>2 DEF LayoutInv, Kept
<1>6. Counted(written[ring[1].id], FirstLap(1))
  BY <1>1, <1>2 DEF ArgcInv, RingCounted
<1> QED
  BY <1>3, <1>4, <1>5, <1>6 DEF Entry

(* What the step does to the event and to the stamps seen: nothing, or the
   first record is copied. *)
Delivered == \/ Copied
             \/ event' = event /\ seen' = seen

LEMMA TakeTypes ==
  ASSUME IInv, HooksInv', Taken, Delivered
  PROVE  RecordTypeOK'
<1>1. HooksInv /\ RecordTypeOK
  BY DEF IInv
<1>2. UNCHANGED <<hook, issued, memory, now, filled, written, overlap>>
  BY DEF Taken
<1>3. ring[1].id \in DOMAIN written
  BY HeadKept
<1>4. HooksTypeOK'
  BY DEF HooksInv
<1>5. consumer' \in Nat /\ consumer' + RecordWords * Len(ring') <= issued' * RecordWords
  <2>1. consumer + RecordWords * Len(ring) <= issued * RecordWords
    BY <1>1 DEF RecordTypeOK
  <2> QED
    BY <2>1, <1>2, TakenFacts
<1>6. event' = NoEvent \/ event' \in Records'
  <2>1. Records' = Records
    BY <1>2 DEF Records
  <2>2. Copied => event' \in Records
    BY DEF Copied, Records, Words
  <2> QED
    BY <1>1, <2>1, <2>2 DEF Delivered, RecordTypeOK
<1>7. DOMAIN seen' \subseteq DOMAIN written
  BY <1>1, <1>3 DEF Delivered, Copied, RecordTypeOK
<1> QED
  BY <1>1, <1>2, <1>4, <1>5, <1>6, <1>7 DEF RecordTypeOK

LEMMA TakeLayout ==
  ASSUME IInv, Taken, Delivered
  PROVE  LayoutInv'
<1>1. LayoutInv
  BY DEF IInv
<1>2. issued' = issued /\ written' = written
  BY DEF Taken
<1>3. \A i \in DOMAIN ring' : /\ i \in Nat
                              /\ i + 1 \in DOMAIN ring
                              /\ ring'[i] = ring[i + 1]
                              /\ Filled(i)' <=> Filled(i + 1)
                              /\ \A w \in Words : Word(i, w)' = Word(i + 1, w)
  BY TakenFacts
<1>4. Numbered'
  <2>1. \A i \in DOMAIN ring' : ring'[i].task \in Tasks /\ ring'[i].id \in 1..issued'
    BY <1>1, <1>2, <1>3 DEF LayoutInv, Numbered
  <2>2. ASSUME NEW i \in DOMAIN ring', NEW j \in DOMAIN ring', i < j
        PROVE  ring'[i].id < ring'[j].id
    <3>1. i + 1 \in DOMAIN ring /\ j + 1 \in DOMAIN ring /\ i + 1 < j + 1
      BY <2>2, <1>3
    <3>2. ring[i + 1].id < ring[j + 1].id
      BY <3>1, <1>1 DEF LayoutInv, Numbered
    <3> QED
      BY <3>2, <1>3
  <2> QED
    BY <2>1, <2>2 DEF Numbered
<1>5. Entries'
  BY <1>1, <1>2 DEF LayoutInv, Entries, Entry
<1>6. Kept'
  <2> SUFFICES ASSUME NEW i \in DOMAIN ring'
               PROVE  /\ Filled(i)' <=> ring'[i].id \in DOMAIN written
                      /\ Filled(i)' => \A w \in DOMAIN written[ring'[i].id].words :
                                         Word(i, w)' = written[ring'[i].id].words[w]
    BY <1>2 DEF Kept
  <2>1. /\ i + 1 \in DOMAIN ring /\ ring'[i] = ring[i + 1]
        /\ Filled(i)' <=> Filled(i + 1)
        /\ \A w \in Words : Word(i, w)' = Word(i + 1, w)
    BY <1>3
  <2>2. /\ Filled(i + 1) <=> ring[i + 1].id \in DOMAIN written
        /\ Filled(i + 1) => \A w \in DOMAIN written[ring[i + 1].id].words :
                               Word(i + 1, w) = written[ring[i + 1].id].words[w]
    BY <2>1, <1>1 DEF LayoutInv, Kept
  <2>3. Filled(i + 1) => DOMAIN written[ring[i + 1].id].words \subseteq Words
    BY <2>2, <1>1 DEF LayoutInv, Entries, Entry
  <2> QED
    BY <2>1, <2>2, <2>3
<1>7. EventKept'
  <2>1. CASE Copied
    <3>1. /\ event'.id = ring[1].id
          /\ event'.words = [w \in Words |-> Word(1, w)]
      BY <2>1 DEF Copied
    <3>2. /\ ring[1].id \in DOMAIN written
          /\ \A w \in DOMAIN written[ring[1].id].words :
                w \in Words /\ Word(1, w) = written[ring[1].id].words[w]
      BY HeadKept
    <3>3. \A w \in DOMAIN written[ring[1].id].words :
             event'.words[w] = written[ring[1].id].words[w]
      BY <3>1, <3>2
    <3> QED
      BY <3>1, <3>2, <3>3, <1>2 DEF EventKept, WordsOwned
  <2>2. CASE event' = event
    BY <2>2, <1>1, <1>2 DEF LayoutInv, EventKept, WordsOwned
  <2> QED
    BY <2>1, <2>2 DEF Delivered
<1> QED
  BY <1>4, <1>5, <1>6, <1>7 DEF LayoutInv

LEMMA TakeArgc ==
  ASSUME IInv, Taken, Delivered
  PROVE  ArgcInv'
<1>1. LayoutInv /\ ArgcInv
  BY DEF IInv
<1>2. written' = written /\ memory' = memory
  BY DEF Taken
<1>3. \A i \in DOMAIN ring' : /\ i \in Nat
                              /\ i + 1 \in DOMAIN ring
                              /\ ring'[i] = ring[i + 1]
                              /\ Filled(i)' <=> Filled(i + 1)
                              /\ FirstLap(i)' <=> FirstLap(i + 1)
                              /\ \A w \in Words : Word(i, w)' = Word(i + 1, w)
  BY TakenFacts
<1>4. ZeroAhead'
  <2>1. consumer' + RecordWords * Len(ring') = consumer + RecordWords * Len(ring)
    BY TakenFacts
  <2> QED
    BY <2>1, <1>1, <1>2 DEF ArgcInv, ZeroAhead
<1>5. Blank'
  <2> SUFFICES ASSUME NEW i \in DOMAIN ring', FirstLap(i)', ~Filled(i)'
               PROVE  Word(i, Argc)' = 0
    BY DEF Blank
  <2>1. i + 1 \in DOMAIN ring /\ FirstLap(i + 1) /\ ~Filled(i + 1)
    BY <1>3
  <2>2. Word(i + 1, Argc) = 0
    BY <2>1, <1>1 DEF ArgcInv, Blank
  <2> QED
    BY <2>2, <1>3, Sizes
<1>6. RingCounted'
  <2> SUFFICES ASSUME NEW i \in DOMAIN ring', Filled(i)'
               PROVE  Counted(written[ring'[i].id], FirstLap(i)')
    BY <1>2 DEF RingCounted, Counted
  <2>1. /\ i + 1 \in DOMAIN ring /\ ring'[i] = ring[i + 1] /\ Filled(i + 1)
        /\ FirstLap(i)' <=> FirstLap(i + 1)
    BY <1>3
  <2>2. Counted(written[ring[i + 1].id], FirstLap(i + 1))
    BY <2>1, <1>1 DEF ArgcInv, RingCounted
  <2> QED
    BY <2>1, <2>2 DEF Counted
<1>7. ArgcRight'
  <2>1. CASE Copied
    <3>1. /\ event'.id = ring[1].id
          /\ event'.first_lap = FirstLap(1)
          /\ event'.words = [w \in Words |-> Word(1, w)]
      BY <2>1 DEF Copied
    <3>2. /\ Entry(written[ring[1].id])
          /\ \A w \in DOMAIN written[ring[1].id].words :
                w \in Words /\ Word(1, w) = written[ring[1].id].words[w]
          /\ Counted(written[ring[1].id], FirstLap(1))
      BY HeadKept
    <3>3. Call \in DOMAIN written[ring[1].id].words /\ Argc \in DOMAIN written[ring[1].id].words
      BY <3>2 DEF Entry
    <3>4. /\ event'.words[Call] = written[ring[1].id].words[Call]
          /\ event'.words[Argc] = written[ring[1].id].words[Argc]
      BY <3>1, <3>2, <3>3
    <3>5. written[ring[1].id].args <= MAX_ARGS
      BY <3>2, RecordAssumption DEF Entry
    <3>6. FirstLap(1) \/ event'.words[Call] # Number["execve"] =>
             event'.words[Argc] = written[ring[1].id].args
      BY <3>2, <3>4 DEF Counted
    <3> QED
      BY <3>1, <3>5, <3>6, <1>2 DEF ArgcRight
  <2>2. CASE event' = event
    BY <2>2, <1>1, <1>2 DEF ArgcInv, ArgcRight
  <2> QED
    BY <2>1, <2>2 DEF Delivered
<1> QED
  BY <1>4, <1>5, <1>6, <1>7 DEF ArgcInv

LEMMA TakeStamps ==
  ASSUME IInv, Taken, Delivered
  PROVE  StampInv'
<1>1. StampInv
  BY DEF IInv
<1>2. written' = written /\ now' = now /\ overlap' = overlap
  BY DEF Taken
<1>3. \A k : Stamp(k)' = Stamp(k)
  BY <1>2 DEF Stamp
<1>4. Stamped'
  <2>1. \A k \in DOMAIN seen' : seen'[k] = Stamp(k)
    <3>1. CASE Copied
      <4>1. Word(1, Timestamp) = Stamp(ring[1].id)
        BY HeadKept DEF Entry, Stamp
      <4> QED
        BY <3>1, <4>1, <1>1 DEF Copied, StampInv, Stamped
    <3>2. CASE seen' = seen
      BY <3>2, <1>1 DEF StampInv, Stamped
    <3> QED
      BY <3>1, <3>2 DEF Delivered
  <2>2. \A k \in DOMAIN written : Stamp(k) <= now
    BY <1>1 DEF StampInv, Stamped
  <2> QED
    BY <2>1, <2>2, <1>2, <1>3 DEF Stamped
<1>5. Disordered'
  BY <1>1, <1>2, <1>3 DEF StampInv, Disordered
<1>6. Together'
  <2> SUFFICES ASSUME NEW i \in DOMAIN ring', ~Filled(i)'
               PROVE  /\ \A j \in DOMAIN ring' : i < j =>
                            <<ring'[i].id, ring'[j].id>> \in overlap
                      /\ \A k \in DOMAIN written : ring'[i].id < k =>
                            <<ring'[i].id, k>> \in overlap
    BY <1>2 DEF Together
  <2>1. \A j \in DOMAIN ring' : /\ j \in Nat /\ j + 1 \in DOMAIN ring
                                /\ ring'[j] = ring[j + 1]
    BY TakenFacts
  <2>2. ~Filled(i + 1)
    BY TakenFacts
  <2>3. /\ \A j \in DOMAIN ring : i + 1 < j => <<ring[i + 1].id, ring[j].id>> \in overlap
        /\ \A k \in DOMAIN written : ring[i + 1].id < k => <<ring[i + 1].id, k>> \in overlap
    BY <2>1, <2>2, <1>1 DEF StampInv, Together
  <2>4. ASSUME NEW j \in DOMAIN ring', i < j PROVE <<ring'[i].id, ring'[j].id>> \in overlap
    <3>1. i + 1 < j + 1 /\ j + 1 \in DOMAIN ring
      BY <2>1, <2>4
    <3> QED
      BY <3>1, <2>1, <2>3
  <2> QED
    BY <2>1, <2>3, <2>4
<1> QED
  BY <1>4, <1>5, <1>6 DEF StampInv

LEMMA TakeStep ==
  ASSUME IInv, HooksInv', Taken, Delivered
  PROVE  IInv'
  BY TakeTypes, TakeLayout, TakeArgc, TakeStamps DEF IInv
-----------------------------------------------------------------------------
(* The induction. *)

LEMMA InitInv == Init => IInv
<1> SUFFICES ASSUME Init PROVE IInv
  OBVIOUS
<1>1. HooksInv
  BY HooksInitInv DEF Init
<1>2. ring = <<>> /\ issued = 0 /\ DOMAIN ring = {} /\ Len(ring) = 0
  BY EmptyRing DEF Init, HooksInit
<1>3. /\ written = <<>> /\ seen = <<>> /\ filled = {} /\ overlap = {}
      /\ event = NoEvent /\ consumer = 0 /\ now = 0
      /\ memory = [a \in 0..(RingWords - 1) |-> 0]
  BY DEF Init
<1>4. DOMAIN written = {} /\ DOMAIN seen = {}
  BY <1>3
<1>5. RecordTypeOK
  <2>1. memory \in [0..(RingWords - 1) -> Nat]
    BY <1>3
  <2>2. consumer + RecordWords * Len(ring) <= issued * RecordWords
    BY <1>2, <1>3, Sizes
  <2>3. now \in 0..MaxTime
    BY <1>3, RecordAssumption
  <2>4. HooksTypeOK
    BY <1>1 DEF HooksInv
  <2> QED
    BY <1>3, <1>4, <2>1, <2>2, <2>3, <2>4 DEF RecordTypeOK
<1>6. LayoutInv
  BY <1>2, <1>3, <1>4 DEF LayoutInv, Numbered, Entries, Kept, EventKept
<1>7. ArgcInv
  <2>1. ZeroAhead
    BY <1>3 DEF ZeroAhead, Addresses
  <2> QED
    BY <1>2, <1>3, <2>1 DEF ArgcInv, Blank, RingCounted, ArgcRight
<1>8. StampInv
  BY <1>2, <1>4 DEF StampInv, Stamped, Together, Disordered
<1> QED
  BY <1>1, <1>5, <1>6, <1>7, <1>8 DEF IInv

(* A step that changes nothing but attached, issued, lost and the clock. *)
LEMMA QuietStep ==
  ASSUME IInv, HooksInv',
         UNCHANGED <<ring, hook, memory, consumer, filled, event, written, seen, overlap>>,
         issued' \in Nat, issued' >= issued, now' \in 0..MaxTime, now' >= now
  PROVE  IInv'
<1>1. \A i \in DOMAIN ring : Filled(i)' <=> Filled(i)
  BY DEF Filled
<1>2. filled' \subseteq {t \in Tasks : hook'[t] # "idle"}
  BY DEF IInv, RecordTypeOK
<1> QED
  BY <1>1, <1>2, StillStep

LEMMA ClockKept == IInv => /\ issued \in Nat /\ issued >= issued
                           /\ now \in 0..MaxTime /\ now >= now
  BY RingIndex, RecordAssumption DEF IInv, RecordTypeOK

LEMMA LoadStep == IInv /\ Load => IInv'
<1> SUFFICES ASSUME IInv, Load PROVE IInv'
  OBVIOUS
<1>1. /\ UNCHANGED <<ring, hook, issued, lost>> /\ attached' \in 0..Len(Handlers)
      /\ UNCHANGED <<memory, consumer, now, filled, event, written, seen, overlap>>
  BY HandlersLength DEF Load, Attach, recordVars, IInv, HooksInv, HooksTypeOK
<1>2. HooksInv'
  BY <1>1, UnchangedHooksInv DEF IInv, HooksInv, HooksTypeOK
<1> QED
  BY <1>1, <1>2, QuietStep, ClockKept

LEMMA TickStep == IInv /\ Tick => IInv'
<1> SUFFICES ASSUME IInv, Tick PROVE IInv'
  OBVIOUS
<1>1. /\ UNCHANGED <<attached, ring, hook, issued, lost>>
      /\ UNCHANGED <<memory, consumer, filled, event, written, seen, overlap>>
      /\ now' = now + 1 /\ now < MaxTime
  BY DEF Tick, hookVars
<1>2. HooksInv'
  BY <1>1, UnchangedHooksInv DEF IInv, HooksInv, HooksTypeOK
<1>3. now' \in 0..MaxTime /\ now' >= now
  BY <1>1, ClockKept, RecordAssumption
<1> QED
  BY <1>1, <1>2, <1>3, QuietStep, ClockKept

LEMMA BeginStep == ASSUME IInv, NEW t \in Tasks, Begin(t) PROVE IInv'
<1>1. HooksInv
  BY DEF IInv
<1>2. HooksInv'
  BY <1>1, TracedInv DEF Begin
<1>3. PICK call \in Calls : Enter(t, call)
  BY DEF Begin, Traced, Calls, handle_sendto, handle_socket, handle_open, handle_execve
<1>4. issued' = issued + 1 /\ issued \in Nat
  BY <1>1, <1>3, RingIndex DEF Enter
<1>5. CASE Reserve(t, call, issued + 1)
  <2>1. ring' # ring
    <3>1. ring' = Append(ring, [task |-> t, id |-> issued + 1, state |-> "busy"])
          /\ ring \in Seq(Record)
      BY <1>1, <1>5 DEF Reserve, HooksInv, HooksTypeOK
    <3>2. Len(ring') = Len(ring) + 1 /\ Len(ring) \in Nat
      BY <3>1
    <3> QED
      BY <3>2
  <2>2. \A u \in Tasks : hook[u] # "idle" => hook'[u] # "idle"
    BY <1>1, <1>5 DEF Reserve, HooksInv, HooksTypeOK, Hooked, Calls
  <2>3. Reserved(t)
    BY <1>4, <1>5, <2>1, <2>2 DEF Reserved, Reserve, Begin
  <2> QED
    BY <1>2, <2>3, ReserveStep
<1>6. CASE ReserveFails(t, call, issued + 1)
  <2>1. UNCHANGED <<ring, hook, memory, consumer, now, filled, event, written, seen, overlap>>
    BY <1>6 DEF ReserveFails, Begin
  <2> QED
    BY <1>2, <1>4, <2>1, QuietStep, ClockKept
<1> QED
  BY <1>3, <1>5, <1>6 DEF Enter

LEMMA FillStep ==
  ASSUME IInv, NEW t \in Tasks, FillSocket(t) \/ FillOpen(t) \/ FillExecve(t)
  PROVE  IInv'
<1>1. HooksInv /\ RecordTypeOK
  BY DEF IInv
<1>2. PICK e : Writes(t, e)
  BY <1>1, HandlerWrites
<1>3. UNCHANGED <<attached, ring, hook, issued, lost>>
  BY <1>2 DEF Writes, hookVars
<1>4. HooksInv'
  BY <1>1, <1>3, UnchangedHooksInv DEF HooksInv, HooksTypeOK
<1> QED
  BY <1>2, <1>4, WriteStep

LEMMA SkipStep == IInv /\ Skip => IInv'
<1> SUFFICES ASSUME IInv, Skip PROVE IInv'
  OBVIOUS
<1>1. Taken /\ Delivered /\ UNCHANGED <<attached, lost>>
  BY DEF Skip, SkipDiscarded, HeadIs, Taken, Delivered
<1>2. HooksInv'
  BY <1>1, TailInv DEF Taken, IInv, HooksInv, HooksTypeOK
<1> QED
  BY <1>1, <1>2, TakeStep

LEMMA HandleEventStep == IInv /\ handle_event => IInv'
<1> SUFFICES ASSUME IInv, handle_event PROVE IInv'
  OBVIOUS
<1>1. Taken /\ UNCHANGED <<attached, lost>>
  BY DEF handle_event, HeadIs, Taken
<1>2. HooksInv'
  BY <1>1, TailInv DEF Taken, IInv, HooksInv, HooksTypeOK
<1>3. Copied
  <2>1. ring[1] = Head(ring) /\ ring[1].id \in 1..issued
    BY <1>1, TakenFacts, HeadKept
  <2>2. event' = [id |-> ring[1].id, first_lap |-> FirstLap(1),
                  words |-> [w \in Words |-> Word(1, w)]]
    BY <2>1 DEF handle_event, Words
  <2>3. FirstLap(1) \in BOOLEAN
    BY DEF FirstLap
  <2>4. [w \in Words |-> Word(1, w)] \in [Words -> Nat]
    <3>1. /\ consumer \in Nat /\ memory \in [Addresses -> Nat]
          /\ 1 \in 1..RingSlots
      BY <1>1, TakenFacts, RingIndex DEF IInv, RecordTypeOK, Addresses
    <3>2. \A w \in Words : Word(1, w) \in Nat
      BY <3>1, AddressFits DEF Word
    <3> QED
      BY <3>2
  <2>5. /\ DOMAIN seen' = DOMAIN seen \cup {ring[1].id}
        /\ \A k \in DOMAIN seen : seen'[k] = seen[k]
        /\ ring[1].id \notin DOMAIN seen => seen'[ring[1].id] = Word(1, Timestamp)
    <3>1. seen' = Merge(seen, [id \in {ring[1].id} |-> Word(1, Timestamp)])
      BY <2>1 DEF handle_event
    <3> QED
      BY <3>1 DEF Merge
  <2> DEFINE words == [w \in Words |-> Word(1, w)]
             lap == FirstLap(1)
  <2>6. /\ event' = [id |-> ring[1].id, first_lap |-> lap, words |-> words]
        /\ words \in [Words -> Nat] /\ lap \in BOOLEAN
    BY <2>2, <2>3, <2>4
  <2> HIDE DEF words, lap
  <2>7. /\ event'.id = ring[1].id /\ event'.first_lap = lap /\ event'.words = words
        /\ event' \in [id : 1..issued, first_lap : BOOLEAN, words : [Words -> Nat]]
    BY <2>1, <2>6
  <2> QED
    BY <2>5, <2>7 DEF Copied, words, lap
<1> QED
  BY <1>1, <1>2, <1>3, TakeStep DEF Delivered

LEMMA StutterStep == IInv /\ UNCHANGED vars => IInv'
<1> SUFFICES ASSUME IInv, UNCHANGED vars PROVE IInv'
  OBVIOUS
<1>1. UNCHANGED <<attached, ring, hook, issued, lost>>
      /\ UNCHANGED <<memory, consumer, now, filled, event, written, seen, overlap>>
  BY DEF vars
<1>2. HooksInv'
  BY <1>1, UnchangedHooksInv DEF IInv, HooksInv, HooksTypeOK
<1> QED
  BY <1>1, <1>2, QuietStep, ClockKept

LEMMA InductiveStep == IInv /\ [Next]_vars => IInv'
<1> SUFFICES ASSUME IInv, [Next]_vars PROVE IInv'
  OBVIOUS
<1>1. CASE Load \/ Skip \/ handle_event \/ Tick
  BY <1>1, LoadStep, SkipStep, HandleEventStep, TickStep
<1>2. CASE Done \/ UNCHANGED vars
  BY <1>2, StutterStep DEF Done
<1>3. ASSUME NEW t \in Tasks, Begin(t) PROVE IInv'
  BY <1>3, BeginStep
<1>4. ASSUME NEW t \in Tasks, End(t) PROVE IInv'
  <2>1. HooksInv'
    BY <1>4, FinishInv DEF End, IInv, Hooked
  <2> QED
    BY <1>4, <2>1, EndStep
<1>5. ASSUME NEW t \in Tasks, FillSocket(t) \/ FillOpen(t) \/ FillExecve(t) PROVE IInv'
  BY <1>5, FillStep
<1> QED
  BY <1>1, <1>2, <1>3, <1>4, <1>5 DEF Next

LEMMA Invariance == Spec => []IInv
  BY InitInv, InductiveStep, PTL DEF Spec
-----------------------------------------------------------------------------
(* The memory of the ring, the positions and the histories keep their types,
   and the consumer never gets ahead of what was reserved. *)
THEOREM RecordTypeCorrect == Spec => []RecordTypeOK
  BY Invariance, PTL DEF IInv

(* A record reaches handle_event word for word as the handler of that event
   wrote it, for any size of ring and any interleaving of handlers: none
   writes into the record of another and none moves before it is copied. *)
THEOREM EventsCopiedIntact == Spec => []WordsOwned
<1>1. IInv => WordsOwned
  BY DEF IInv, LayoutInv, EventKept, WordsOwned
<1> QED
  BY <1>1, Invariance, PTL

(* argc is the number of arguments of the event and at most MAX_ARGS, except
   for a program execution in memory that held a record before:
   handle_execve adds to what it finds there. *)
THEOREM ArgcIsRight == Spec => []ArgcRight
  BY Invariance, PTL DEF IInv, ArgcInv

(* A record of the first RingSlots events lies on the first lap. *)
Early == event # NoEvent => event.first_lap \/ issued > RingSlots

LEMMA EarlyStep == IInv /\ Early /\ [Next]_vars => Early'
<1> SUFFICES ASSUME IInv, Early, [Next]_vars PROVE Early'
  OBVIOUS
<1>1. issued \in Nat /\ RingSlots \in Nat
  BY RingIndex, Sizes DEF IInv
<1>2. issued' = issued \/ issued' = issued + 1
  <2>1. ASSUME NEW t \in Tasks, Begin(t) PROVE issued' = issued + 1
    BY <2>1 DEF Begin, Traced, handle_sendto, handle_socket, handle_open, handle_execve,
                Enter
  <2>2. ASSUME NEW t \in Tasks, End(t) PROVE issued' = issued
    BY <2>2 DEF End, Finish, bpf_ringbuf_submit, bpf_ringbuf_discard
  <2>3. ASSUME NEW t \in Tasks, FillSocket(t) \/ FillOpen(t) \/ FillExecve(t)
        PROVE  issued' = issued
    BY <2>3 DEF FillSocket, FillOpen, FillExecve, Fill, hookVars
  <2>4. CASE Load \/ Skip \/ handle_event \/ Tick \/ Done \/ UNCHANGED vars
    BY <2>4 DEF Load, Attach, Skip, SkipDiscarded, handle_event, Tick, Done, hookVars, vars
  <2> QED
    BY <2>1, <2>2, <2>3, <2>4 DEF Next
<1>3. CASE event' = event
  BY <1>1, <1>2, <1>3 DEF Early
<1>4. CASE handle_event
  <2> SUFFICES ASSUME issued <= RingSlots PROVE event'.first_lap
    BY <1>1, <1>2 DEF Early
  <2>1. Taken
    BY <1>4 DEF handle_event, HeadIs, Taken
  <2>2. /\ consumer \in Nat /\ RecordWords \in Nat /\ RingWords \in Nat
        /\ RingSlots * RecordWords < RingWords
        /\ Len(ring) \in Nat /\ Len(ring) >= 1
        /\ consumer + RecordWords * Len(ring) <= issued * RecordWords
    <3>1. consumer \in Nat /\ consumer + RecordWords * Len(ring) <= issued * RecordWords
      BY DEF IInv, RecordTypeOK
    <3>2. 1 \in DOMAIN ring /\ DOMAIN ring = 1..Len(ring) /\ Len(ring) \in Nat
      BY <2>1, TakenFacts, RingIndex DEF IInv
    <3>3. Len(ring) >= 1
      BY <3>2
    <3> QED
      BY <3>1, <3>2, <3>3, Sizes
  <2>3. /\ RecordWords <= RecordWords * Len(ring)
        /\ issued * RecordWords <= RingSlots * RecordWords
    <3>1. \A a, b, c \in Nat : a <= b => a * c <= b * c
      OBVIOUS
    <3>2. 1 * RecordWords <= Len(ring) * RecordWords
      BY <2>2, <3>1
    <3>3. Len(ring) * RecordWords = RecordWords * Len(ring) /\ 1 * RecordWords = RecordWords
      BY <2>2
    <3> QED
      BY <1>1, <2>2, <3>1, <3>2, <3>3
  <2>4. /\ RecordWords * Len(ring) \in Nat /\ issued * RecordWords \in Nat
        /\ RingSlots * RecordWords \in Nat
    BY <1>1, <2>2, ProductNat
  <2>5. consumer + RecordWords <= RingWords
    BY <2>2, <2>3, <2>4
  <2>6. FirstLap(1)
    <3>1. Position(1) = consumer
      BY <2>2 DEF Position
    <3> QED
      BY <2>5, <3>1 DEF FirstLap
  <2>7. event'.first_lap = FirstLap(1)
    BY <1>4 DEF handle_event
  <2> QED
    BY <2>6, <2>7
<1>5. event' = event \/ handle_event
  BY DEF Next, vars, Load, recordVars, Begin, End, FillSocket, FillOpen, FillExecve, Fill,
         Skip, Tick, Done
<1> QED
  BY <1>3, <1>4, <1>5

(* Until the ring has been filled once, argc is right for every event, so that
   submit_events reads no argument that is not there: the defect shows only
   after RingSlots events (4809 in the ring of the agent). *)
THEOREM ArgcIsRightAtFirst ==
  Spec => [](event # NoEvent /\ issued <= RingSlots =>
                /\ event.words[Argc] = written[event.id].args
                /\ event.words[Argc] <= MAX_ARGS)
<1>1. Init => Early
  BY DEF Init, Early
<1>2. IInv /\ Early => (event # NoEvent /\ issued <= RingSlots =>
                           /\ event.words[Argc] = written[event.id].args
                           /\ event.words[Argc] <= MAX_ARGS)
  <2> SUFFICES ASSUME IInv, Early, event # NoEvent, issued <= RingSlots
               PROVE  /\ event.words[Argc] = written[event.id].args
                      /\ event.words[Argc] <= MAX_ARGS
    OBVIOUS
  <2>1. issued \in Nat /\ RingSlots \in Nat
    BY RingIndex, Sizes DEF IInv
  <2>2. event.first_lap
    BY <2>1 DEF Early
  <2> QED
    BY <2>2 DEF IInv, ArgcInv, ArgcRight
<1> QED
  BY <1>1, <1>2, EarlyStep, Invariance, PTL DEF Spec

(* The stamps that handle_event sees are in another order than the events only
   for two whose handlers were both between reserve and submit. *)
THEOREM DisorderOnlyByOverlap == Spec => []DisorderIsOverlap
<1>1. IInv => DisorderIsOverlap
  <2> SUFFICES ASSUME IInv, NEW i \in DOMAIN seen, NEW j \in DOMAIN seen,
                      i < j, seen[i] > seen[j]
               PROVE  <<i, j>> \in overlap
    BY DEF DisorderIsOverlap
  <2>1. i \in DOMAIN written /\ j \in DOMAIN written
    BY DEF IInv, RecordTypeOK
  <2>2. seen[i] = Stamp(i) /\ seen[j] = Stamp(j)
    BY DEF IInv, StampInv, Stamped
  <2> QED
    BY <2>1, <2>2 DEF IInv, StampInv, Disordered
<1> QED
  BY <1>1, Invariance, PTL
=============================================================================
