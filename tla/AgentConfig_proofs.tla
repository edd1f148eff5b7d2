------------------------- MODULE AgentConfig_proofs -------------------------
(***************************************************************************)
(* Proofs about the configuration of the agent, for files of any length    *)
(* with any texts and numbers, and any size of int from 8 bits on.         *)
(*                                                                         *)
(* The invariant says where each option comes from: its value is that of   *)
(* the last line before the present one that sets it, and an option that   *)
(* no line has set is as at the start (Read).  After the last line this is *)
(* what the whole file says.                                               *)
(***************************************************************************)
EXTENDS AgentConfig, TLAPS

(* The last of the lines before n that sets o is i. *)
SetBefore(n, i, o) == /\ i \in DOMAIN file /\ i < n /\ file[i].option = o
                      /\ \A j \in DOMAIN file : i < j /\ j < n => file[j].option # o

Read(o) == \/ config[o] = Unset[o] /\ \A j \in DOMAIN file : j < line => file[j].option # o
           \/ \E i \in DOMAIN file : /\ SetBefore(line, i, o)
                                     /\ config[o] = Value(o, file[i].value)

ReadInv == pc = "reading" => \A o \in Options : Read(o)

ConfigInv == ConfigTypeOK /\ ReadInv
-----------------------------------------------------------------------------
(* Numbers and texts. *)

LEMMA Wraps ==
  /\ \A n \in Int : Wrap(n) \in Ints
  /\ \A n \in Ints : Wrap(n) = n
<1> DEFINE M == 2 * (IntMax + 1)
<1>1. M \in Nat /\ M > 0 /\ IntMax \in Nat
  BY ConfigAssumption
<1>2. ASSUME NEW n \in Int PROVE Wrap(n) \in Ints
  <2> DEFINE m == n + IntMax + 1
  <2>1. m \in Int
    BY <1>1
  <2> HIDE DEF M, m
  <2>2. m % M \in 0..(M - 1)
    BY <1>1, <2>1, SMT
  <2>3. Wrap(n) = (m % M) - (IntMax + 1)
    BY DEF Wrap, M, m
  <2> QED
    BY <1>1, <2>2, <2>3 DEF Ints, M
<1>3. ASSUME NEW n \in Ints PROVE Wrap(n) = n
  <2> DEFINE m == n + IntMax + 1
  <2>1. m \in 0..(M - 1)
    BY <1>1 DEF Ints
  <2> HIDE DEF M, m
  <2>2. m % M = m
    BY <1>1, <2>1, SMT
  <2>3. Wrap(n) = (m % M) - (IntMax + 1)
    BY DEF Wrap, M, m
  <2> QED
    BY <1>1, <2>2, <2>3 DEF Ints, m
<1> QED
  BY <1>2, <1>3

LEMMA Sizes == \A o \in StringOptions : Size[o] \in Nat /\ Size[o] >= 64
  BY DEF StringOptions, Size

LEMMA StoredFits ==
  ASSUME NEW o \in StringOptions, NEW v \in Text
  PROVE  /\ Fits(o, Stored(o, v))
         /\ Stored(o, v).length # 0 =>
               /\ Stored(o, v).text = v.text
               /\ Stored(o, v).length = v.length \/ Stored(o, v).length = Size[o] - 1
         /\ v.length > 0 => Stored(o, v).length # 0
<1>1. Size[o] \in Nat /\ Size[o] >= 64 /\ v.length \in Nat
  BY Sizes DEF Text
<1>2. CASE v.length = 0
  BY <1>1, <1>2 DEF Stored, Fits
<1>3. CASE v.length # 0 /\ v.length >= Size[o]
  <2>1. Stored(o, v) = [v EXCEPT !.length = Size[o] - 1]
    BY <1>3 DEF Stored
  <2>2. /\ Stored(o, v) \in Text /\ Stored(o, v).text = v.text
        /\ Stored(o, v).length = Size[o] - 1
    BY <1>1, <2>1 DEF Text
  <2> QED
    BY <1>1, <2>2 DEF Fits
<1>4. CASE v.length # 0 /\ ~(v.length >= Size[o])
  <2>1. Stored(o, v) = v
    BY <1>4 DEF Stored
  <2> QED
    BY <1>1, <1>4, <2>1 DEF Fits
<1> QED
  BY <1>2, <1>3, <1>4

LEMMA ClampedInts ==
  ASSUME NEW o \in NumberOptions, NEW n \in Ints
  PROVE  Clamped(o, n) \in Ints /\ Clamped(o, n) >= n /\ Clamped(o, n) >= 1
         /\ (Clamped(o, n) > 1 /\ o = "batch_size" => Clamped(o, n) = n)
  BY ConfigAssumption DEF Clamped, AtLeast, Ints, NumberOptions

(* What a line that sets an option holds. *)
LEMMA LineForms ==
  ASSUME NEW l \in Line
  PROVE  /\ l.option \in Options \cup {"other"}
         /\ l.option \in StringOptions => l.value \in Text
         /\ l.option \in NumberOptions => l.value \in Int
  BY DEF Line, Options, StringOptions, NumberOptions
-----------------------------------------------------------------------------
LEMMA InitConfig == Init => ConfigInv
<1> SUFFICES ASSUME Init PROVE ConfigInv
  OBVIOUS
<1>1. file \in Seq(Line) /\ line = 1 /\ pc = "reading" /\ config = Unset
  BY ConfigAssumption DEF Init
<1>2. DOMAIN config = Options
  BY <1>1 DEF Unset
<1>3. \A o \in StringOptions : Fits(o, config[o])
  BY <1>1 DEF Unset, Options, Fits
<1>4. \A o \in NumberOptions : config[o] \in Ints
  BY <1>1, ConfigAssumption DEF Unset, Options, NumberOptions, StringOptions, Ints
<1>5. ConfigTypeOK
  BY <1>1, <1>2, <1>3, <1>4 DEF ConfigTypeOK
<1>6. ReadInv
  BY <1>1 DEF ReadInv, Read
<1> QED
  BY <1>5, <1>6 DEF ConfigInv

LEMMA SkipStep == ASSUME ConfigInv, SkipLine PROVE ConfigInv'
<1>1. /\ pc = "reading" /\ line \in DOMAIN file /\ line' = line + 1
      /\ pc' = pc /\ file' = file /\ config' = config /\ file[line].option = "other"
  BY DEF SkipLine, ReadLine
<1>2. file \in Seq(Line) /\ line \in 1..(Len(file) + 1) /\ DOMAIN file = 1..Len(file)
  BY DEF ConfigInv, ConfigTypeOK
<1>3. ConfigTypeOK'
  BY <1>1, <1>2 DEF ConfigInv, ConfigTypeOK
<1>4. ASSUME NEW o \in Options PROVE Read(o)'
  <2>1. Read(o) /\ file[line].option # o
    BY <1>1 DEF ConfigInv, ReadInv, Options, StringOptions, NumberOptions
  <2>2. \A j \in DOMAIN file : j < line' => j < line \/ j = line
    BY <1>1, <1>2
  <2>3. \A i \in DOMAIN file : i < line => i < line'
    BY <1>1, <1>2
  <2> QED
    BY <1>1, <2>1, <2>2, <2>3 DEF Read, SetBefore
<1> QED
  BY <1>3, <1>4 DEF ConfigInv, ReadInv

LEMMA SetStep == ASSUME ConfigInv, SetOption PROVE ConfigInv'
<1> DEFINE new == file[line].option
           value == Value(new, file[line].value)
<1>1. /\ pc = "reading" /\ line \in DOMAIN file /\ line' = line + 1
      /\ pc' = pc /\ file' = file /\ new # "other"
      /\ config' = [config EXCEPT ![new] = value]
  BY DEF SetOption, ReadLine
<1>2. file \in Seq(Line) /\ line \in 1..(Len(file) + 1) /\ DOMAIN file = 1..Len(file)
  BY DEF ConfigInv, ConfigTypeOK
<1>3. file[line] \in Line
  BY <1>1, <1>2
<1>4. /\ new \in Options
      /\ new \in StringOptions => Fits(new, value)
      /\ new \in NumberOptions => value \in Ints
  <2>1. /\ new \in StringOptions => file[line].value \in Text
        /\ new \in NumberOptions => file[line].value \in Int
        /\ new \in Options
    BY <1>1, <1>3, LineForms
  <2>2. CASE new \in StringOptions
    <3>1. value = Stored(new, file[line].value) /\ new \notin NumberOptions
      BY <2>2 DEF Value, StringOptions, NumberOptions
    <3> QED
      BY <2>1, <2>2, <3>1, StoredFits
  <2>3. CASE new \in NumberOptions
    <3>1. value = Clamped(new, Wrap(file[line].value)) /\ new \notin StringOptions
      BY <2>3 DEF Value, StringOptions, NumberOptions
    <3> QED
      BY <2>1, <2>3, <3>1, Wraps, ClampedInts
  <2> QED
    BY <2>1, <2>2, <2>3 DEF Options
<1>5. /\ DOMAIN config = Options /\ config'[new] = value
      /\ \A o \in Options \ {new} : config'[o] = config[o]
  BY <1>1, <1>4 DEF ConfigInv, ConfigTypeOK
<1> HIDE DEF value
<1>6. ConfigTypeOK'
  <2>1. DOMAIN config' = Options /\ line' \in 1..(Len(file') + 1)
    BY <1>1, <1>2, <1>5
  <2>2. \A o \in StringOptions : Fits(o, config'[o])
    BY <1>4, <1>5 DEF ConfigInv, ConfigTypeOK, Options
  <2>3. \A o \in NumberOptions : config'[o] \in Ints
    BY <1>4, <1>5 DEF ConfigInv, ConfigTypeOK, Options
  <2> QED
    BY <1>1, <1>2, <2>1, <2>2, <2>3 DEF ConfigTypeOK
<1>7. ASSUME NEW o \in Options PROVE Read(o)'
  <2>1. \A j \in DOMAIN file : j < line' => j < line \/ j = line
    BY <1>1, <1>2
  <2>2. \A i \in DOMAIN file : i < line => i < line'
    BY <1>1, <1>2
  <2>3. CASE o = new
    <3>1. line < line' /\ \A j \in DOMAIN file : ~(line < j /\ j < line')
      BY <1>1, <1>2
    <3> QED
      BY <1>1, <1>5, <2>3, <3>1 DEF Read, SetBefore, value
  <2>4. CASE o # new
    <3>1. Read(o)
      BY <1>1 DEF ConfigInv, ReadInv
    <3> QED
      BY <1>1, <1>5, <2>1, <2>2, <2>4, <3>1 DEF Read, SetBefore
  <2> QED
    BY <2>3, <2>4
<1> QED
  BY <1>6, <1>7 DEF ConfigInv, ReadInv
-----------------------------------------------------------------------------
(* After the last line. *)

Results == AcceptedFits /\ FollowsFile /\ GeneratedWorks

(* What Finish makes of the two sizes. *)
LEMMA EnlargedConfig ==
  ASSUME ConfigTypeOK, NEW c, c = Enlarged(config)
  PROVE  /\ DOMAIN c = Options
         /\ \A o \in Options \ {"buffer_size"} : c[o] = config[o]
         /\ config.buffer_size \in Ints /\ config.batch_size \in Ints
         /\ c.buffer_size = AtLeast(TwoBatches(config), config.buffer_size)
         /\ TwoBatches(config) \in Ints
         /\ 2 * config.batch_size \in Ints => TwoBatches(config) = 2 * config.batch_size
<1>1. /\ DOMAIN config = Options /\ {"buffer_size", "batch_size"} \subseteq Options
      /\ config.buffer_size \in Ints /\ config.batch_size \in Ints
  BY DEF ConfigTypeOK, Options, NumberOptions
<1>2. config.batch_size * 2 \in Int
  BY <1>1, ConfigAssumption DEF Ints
<1>3. /\ TwoBatches(config) \in Ints
      /\ 2 * config.batch_size \in Ints => TwoBatches(config) = 2 * config.batch_size
  BY <1>1, <1>2, Wraps, ConfigAssumption DEF TwoBatches, Ints
<1>4. c = [config EXCEPT !["buffer_size"] = AtLeast(TwoBatches(config), config["buffer_size"])]
  BY DEF Enlarged
<1> QED
  BY <1>1, <1>3, <1>4

LEMMA AtLeastBoth ==
  ASSUME NEW m \in Ints, NEW n \in Ints
  PROVE  AtLeast(m, n) \in Ints /\ AtLeast(m, n) >= m /\ AtLeast(m, n) >= n
  BY ConfigAssumption DEF AtLeast, Ints

(* When all lines are read the last setting of an option is that of the file. *)
LEMMA WholeFile ==
  ASSUME ConfigInv, pc = "reading", line \notin DOMAIN file, NEW o \in Options
  PROVE  \/ config[o] = Unset[o] /\ \A j \in DOMAIN file : file[j].option # o
         \/ \E i \in DOMAIN file : /\ LastSetting(i, o)
                                   /\ config[o] = Value(o, file[i].value)
<1>1. DOMAIN file = 1..Len(file) /\ Len(file) \in Nat /\ line = Len(file) + 1
  BY DEF ConfigInv, ConfigTypeOK
<1>2. \A j \in DOMAIN file : j < line
  BY <1>1
<1>3. Read(o)
  BY DEF ConfigInv, ReadInv
<1> QED
  BY <1>1, <1>2, <1>3 DEF Read, SetBefore, LastSetting

LEMMA FinishFits == ASSUME ConfigInv, Finish PROVE AcceptedFits'
<1>1. config' = Enlarged(config) /\ (pc' = "accepted" => Valid(config'))
  BY DEF Finish
<1>2. ASSUME pc' = "accepted", 2 * config'.batch_size <= IntMax
      PROVE  config'.batch_size > 1 /\ config'.buffer_size >= 2 * config'.batch_size
  <2>1. /\ config'.batch_size = config.batch_size
        /\ config.buffer_size \in Ints /\ config.batch_size \in Ints
        /\ config'.buffer_size = AtLeast(TwoBatches(config), config.buffer_size)
        /\ TwoBatches(config) \in Ints
        /\ 2 * config.batch_size \in Ints => TwoBatches(config) = 2 * config.batch_size
    BY <1>1, EnlargedConfig DEF ConfigInv, Options, NumberOptions
  <2>2. config.batch_size > 1
    BY <1>1, <1>2, <2>1 DEF Valid
  <2>3. 2 * config.batch_size \in Ints
    BY <1>2, <2>1, <2>2, ConfigAssumption DEF Ints
  <2> QED
    BY <2>1, <2>2, <2>3, AtLeastBoth
<1> QED
  BY <1>2 DEF AcceptedFits

LEMMA FinishFollows == ASSUME ConfigInv, Finish PROVE FollowsFile'
<1>1. /\ pc = "reading" /\ line \notin DOMAIN file /\ file' = file
      /\ config' = Enlarged(config) /\ (pc' = "accepted" => Valid(config'))
  BY DEF Finish
<1>2. /\ \A o \in Options \ {"buffer_size"} : config'[o] = config[o]
      /\ config.buffer_size \in Ints /\ config.batch_size \in Ints
      /\ config'.buffer_size = AtLeast(TwoBatches(config), config.buffer_size)
      /\ TwoBatches(config) \in Ints
  BY <1>1, EnlargedConfig DEF ConfigInv
<1>3. \A i \in DOMAIN file : file[i] \in Line
  BY DEF ConfigInv, ConfigTypeOK
<1>4. ASSUME pc' = "accepted", NEW o \in StringOptions
      PROVE  \E i \in DOMAIN file :
                /\ LastSetting(i, o)
                /\ config'[o].text = file[i].value.text
                /\ config'[o].length = file[i].value.length \/ config'[o].length = Size[o] - 1
  <2>1. o \in Options /\ config'[o] = config[o] /\ config[o].length # 0
    BY <1>1, <1>2, <1>4 DEF Options, StringOptions, Valid
  <2>2. Unset[o].length = 0
    BY <2>1 DEF Unset
  <2>3. PICK i \in DOMAIN file : LastSetting(i, o) /\ config[o] = Value(o, file[i].value)
    BY <1>1, <2>1, <2>2, WholeFile
  <2>4. file[i].value \in Text
    BY <1>3, <2>3, LineForms DEF LastSetting
  <2>5. config[o] = Stored(o, file[i].value)
    BY <2>3 DEF Value
  <2> QED
    BY <2>1, <2>3, <2>4, <2>5, StoredFits
<1>5. ASSUME pc' = "accepted"
      PROVE  \E i \in DOMAIN file :
                /\ LastSetting(i, "batch_size")
                /\ file[i].value \in Ints => config'.batch_size = file[i].value
  <2>1. /\ "batch_size" \in Options /\ "batch_size" \in NumberOptions
        /\ "batch_size" \notin StringOptions
    BY DEF Options, NumberOptions, StringOptions
  <2>2. config'.batch_size = config.batch_size /\ config.batch_size > 1
    BY <1>1, <1>2, <1>5, <2>1 DEF Valid
  <2>3. Unset["batch_size"] = 0
    BY <2>1 DEF Unset
  <2>4. PICK i \in DOMAIN file : /\ LastSetting(i, "batch_size")
                                 /\ config["batch_size"] = Value("batch_size", file[i].value)
    BY <1>1, <2>1, <2>2, <2>3, WholeFile
  <2>5. config.batch_size = Clamped("batch_size", Wrap(file[i].value))
    BY <2>1, <2>4 DEF Value
  <2>6. file[i].value \in Ints /\ Clamped("batch_size", file[i].value) > 1
        => Clamped("batch_size", file[i].value) = file[i].value
    BY <2>1, ClampedInts
  <2>7. file[i].value \in Ints => Wrap(file[i].value) = file[i].value
    BY Wraps
  <2> QED
    BY <2>2, <2>4, <2>5, <2>6, <2>7
<1>6. ASSUME NEW i \in DOMAIN file, LastSetting(i, "buffer_size"), file[i].value <= IntMax
      PROVE  config'.buffer_size >= file[i].value
  <2>1. /\ "buffer_size" \in Options /\ "buffer_size" \in NumberOptions
        /\ "buffer_size" \notin StringOptions
    BY DEF Options, NumberOptions, StringOptions
  <2>2. PICK k \in DOMAIN file : /\ LastSetting(k, "buffer_size")
                                 /\ config["buffer_size"] = Value("buffer_size", file[k].value)
    BY <1>1, <1>6, <2>1, WholeFile DEF LastSetting
  <2>3. k = i
    <3>1. i \in Nat /\ k \in Nat
      BY DEF ConfigInv, ConfigTypeOK
    <3>2. ~(k < i) /\ ~(i < k)
      BY <1>6, <2>2 DEF LastSetting
    <3> QED
      BY <3>1, <3>2
  <2>4. config.buffer_size = Clamped("buffer_size", Wrap(file[i].value))
    BY <2>1, <2>2, <2>3 DEF Value
  <2>5. file[i].value \in Int
    BY <1>3, <1>6, <2>1, LineForms DEF LastSetting
  <2>6. config.buffer_size >= Wrap(file[i].value)
    BY <2>1, <2>4, <2>5, Wraps, ClampedInts
  <2>7. config'.buffer_size \in Ints /\ config'.buffer_size >= config.buffer_size
    BY <1>2, AtLeastBoth
  <2>8. CASE file[i].value \in Ints
    <3>1. Wrap(file[i].value) = file[i].value
      BY <2>8, Wraps
    <3> QED
      BY <1>2, <2>5, <2>6, <2>7, <3>1, ConfigAssumption DEF Ints
  <2>9. CASE file[i].value \notin Ints
    BY <1>6, <2>5, <2>7, <2>9, ConfigAssumption DEF Ints
  <2> QED
    BY <2>8, <2>9
<1>8. ASSUME pc' = "accepted", \A i \in DOMAIN file : file[i].option # "buffer_size"
      PROVE  config'.buffer_size = TwoBatches(config')
  <2>1. /\ "buffer_size" \in Options /\ "batch_size" \in Options
        /\ Unset["buffer_size"] = 0
    BY DEF Options, NumberOptions, StringOptions, Unset
  <2>2. config.buffer_size = 0
    BY <1>1, <1>8, <2>1, WholeFile DEF LastSetting
  <2>3. TwoBatches(config') = TwoBatches(config)
    BY <1>2, <2>1 DEF TwoBatches
  <2>4. config'.buffer_size > 16
    BY <1>1, <1>8 DEF Valid
  <2> QED
    BY <1>2, <2>2, <2>3, <2>4, ConfigAssumption DEF AtLeast, Ints
<1>7. \A i, o : LastSetting(i, o)' <=> LastSetting(i, o)
  BY <1>1 DEF LastSetting
<1> QED
  BY <1>1, <1>4, <1>5, <1>6, <1>8 DEF FollowsFile, LastSetting, Ints

LEMMA FinishGenerated ==
  ASSUME ConfigInv, Finish, Generated(file)
  PROVE  /\ file[4].value.length > 0 => /\ pc' = "accepted"
                                        /\ config'.buffer_size = 65
                                        /\ config'.batch_size = 25
         /\ ~(file[4].value.length > 0) => pc' = "refused"
<1>1. /\ pc = "reading" /\ line \notin DOMAIN file
      /\ config' = Enlarged(config) /\ pc' = IF Valid(config') THEN "accepted" ELSE "refused"
  BY DEF Finish
<1>2. /\ file[1].option = "other" /\ file[2].option = "api" /\ file[3].option = "key"
      /\ file[4].option = "name" /\ file[5].option = "id"
      /\ file[6].option = "buffer_size" /\ file[7].option = "batch_size"
  <2> DEFINE options == [i \in 1..7 |-> file[i].option]
  <2>1. options = <<"other", "api", "key", "name", "id", "buffer_size", "batch_size">>
    BY DEF Generated
  <2>2. \A i \in 1..7 : options[i] = file[i].option
    OBVIOUS
  <2> HIDE DEF options
  <2>3. /\ options[1] = "other" /\ options[2] = "api" /\ options[3] = "key"
        /\ options[4] = "name" /\ options[5] = "id"
        /\ options[6] = "buffer_size" /\ options[7] = "batch_size"
    BY <2>1
  <2> QED
    BY <2>2, <2>3
<1>3. DOMAIN file = 1..7 /\ \A i \in 1..7 : file[i] \in Line
  <2>1. file \in Seq(Line) /\ Len(file) = 7
    BY DEF ConfigInv, ConfigTypeOK, Generated
  <2>2. DOMAIN file = 1..Len(file)
    BY <2>1
  <2>3. \A i \in DOMAIN file : file[i] \in Line
    BY DEF ConfigInv, ConfigTypeOK
  <2> QED
    BY <2>1, <2>2, <2>3
<1>4. ASSUME NEW o \in Options
      PROVE  \E i \in 2..7 : file[i].option = o /\ config[o] = Value(o, file[i].value)
  <2>1. \E j \in DOMAIN file : file[j].option = o
    BY <1>2, <1>3, <1>4 DEF Options, StringOptions, NumberOptions
  <2>2. PICK i \in DOMAIN file : LastSetting(i, o) /\ config[o] = Value(o, file[i].value)
    BY <1>1, <2>1, WholeFile
  <2>3. i # 1 /\ file[i].option = o
    BY <1>2, <2>2 DEF LastSetting, Options, StringOptions, NumberOptions
  <2> QED
    BY <1>3, <2>2, <2>3
<1>5. ASSUME NEW o \in StringOptions, o # "name" \/ file[4].value.length > 0
      PROVE  config[o].length # 0
  <2>1. PICK i \in 2..7 : file[i].option = o /\ config[o] = Value(o, file[i].value)
    BY <1>4 DEF Options
  <2>2. i \in {2, 3, 5} \/ (i = 4 /\ o = "name")
    BY <1>2, <2>1 DEF StringOptions
  <2>3. file[i].value.length > 0 /\ file[i].value \in Text
    BY <1>3, <1>5, <2>1, <2>2, LineForms DEF Generated
  <2>4. config[o] = Stored(o, file[i].value)
    BY <2>1 DEF Value
  <2> QED
    BY <2>3, <2>4, StoredFits
<1>6. config.buffer_size = 65 /\ config.batch_size = 25
  <2>1. /\ {"buffer_size", "batch_size"} \subseteq Options
        /\ "buffer_size" \notin StringOptions /\ "batch_size" \notin StringOptions
    BY DEF Options, NumberOptions, StringOptions
  <2>2. PICK i \in 2..7 : /\ file[i].option = "buffer_size"
                          /\ config["buffer_size"] = Value("buffer_size", file[i].value)
    BY <1>4, <2>1
  <2>3. PICK k \in 2..7 : /\ file[k].option = "batch_size"
                          /\ config["batch_size"] = Value("batch_size", file[k].value)
    BY <1>4, <2>1
  <2>4. i = 6 /\ k = 7
    BY <1>2, <2>2, <2>3
  <2>5. file[6].value = 65 /\ file[7].value = 25
    BY DEF Generated
  <2>6. Wrap(65) = 65 /\ Wrap(25) = 25
    <3>1. 65 \in Ints /\ 25 \in Ints
      BY ConfigAssumption DEF Ints
    <3> QED
      BY <3>1, Wraps
  <2>7. Clamped("buffer_size", 65) = 65 /\ Clamped("batch_size", 25) = 25
    BY DEF Clamped, AtLeast
  <2> QED
    BY <2>1, <2>2, <2>3, <2>4, <2>5, <2>6, <2>7 DEF Value
<1>7. /\ \A o \in Options \ {"buffer_size"} : config'[o] = config[o]
      /\ config'.buffer_size = AtLeast(TwoBatches(config), config.buffer_size)
      /\ 2 * config.batch_size \in Ints => TwoBatches(config) = 2 * config.batch_size
  BY <1>1, EnlargedConfig DEF ConfigInv
<1>8. config'.buffer_size = 65 /\ config'.batch_size = 25
  <2>1. TwoBatches(config) = 50
    BY <1>6, <1>7, ConfigAssumption DEF Ints
  <2>2. AtLeast(50, 65) = 65
    BY DEF AtLeast
  <2>3. config'.batch_size = config.batch_size
    BY <1>7 DEF Options, NumberOptions
  <2> QED
    BY <1>6, <1>7, <2>1, <2>2, <2>3
<1>9. ASSUME file[4].value.length > 0 PROVE Valid(config')
  <2>1. \A o \in StringOptions : config'[o].length # 0
    BY <1>5, <1>7, <1>9 DEF Options, StringOptions
  <2> QED
    BY <1>8, <2>1 DEF Valid
<1>10. ASSUME ~(file[4].value.length > 0) PROVE ~Valid(config')
  <2>1. "name" \in StringOptions /\ "name" \in Options
    BY DEF StringOptions, Options
  <2>2. PICK i \in 2..7 : file[i].option = "name" /\ config["name"] = Value("name", file[i].value)
    BY <1>4, <2>1
  <2>3. i = 4
    BY <1>2, <2>2
  <2>4. file[4].value \in Text
    BY <1>2, <1>3, <2>1, LineForms
  <2>5. file[4].value.length = 0
    BY <1>10, <2>4 DEF Text
  <2>6. config["name"].length = 0
    <3>1. config["name"] = Stored("name", file[4].value)
      BY <2>1, <2>2, <2>3 DEF Value
    <3>2. Size["name"] \in Nat /\ Size["name"] >= 64
      BY <2>1, Sizes
    <3>3. Stored("name", file[4].value) = [length |-> 0]
      BY <2>5, <3>2 DEF Stored
    <3> QED
      BY <3>1, <3>3
  <2>7. config'["name"].length = 0
    BY <1>7, <2>1, <2>6
  <2> QED
    BY <2>1, <2>7 DEF Valid
<1> QED
  BY <1>1, <1>8, <1>9, <1>10

LEMMA FinishStep == ASSUME ConfigInv, Finish PROVE ConfigInv' /\ Results'
<1>1. /\ file' = file /\ line' = line /\ pc' \in {"accepted", "refused"}
      /\ config' = Enlarged(config)
  BY DEF Finish
<1>2. /\ DOMAIN config' = Options
      /\ \A o \in Options \ {"buffer_size"} : config'[o] = config[o]
      /\ config.buffer_size \in Ints
      /\ config'.buffer_size = AtLeast(TwoBatches(config), config.buffer_size)
      /\ TwoBatches(config) \in Ints
  BY <1>1, EnlargedConfig DEF ConfigInv
<1>3. config'["buffer_size"] \in Ints
  BY <1>2, AtLeastBoth
<1>4. \A o \in StringOptions : Fits(o, config'[o])
  BY <1>2 DEF ConfigInv, ConfigTypeOK, Options, StringOptions
<1>5. \A o \in NumberOptions : config'[o] \in Ints
  BY <1>2, <1>3 DEF ConfigInv, ConfigTypeOK, Options
<1>6. ConfigInv'
  BY <1>1, <1>2, <1>4, <1>5 DEF ConfigInv, ConfigTypeOK, ReadInv
<1>7. GeneratedWorks'
  <2>1. Generated(file)' <=> Generated(file)
    BY <1>1 DEF Generated
  <2> QED
    BY <1>1, <2>1, FinishGenerated DEF GeneratedWorks
<1> QED
  BY <1>6, <1>7, FinishFits, FinishFollows DEF Results
-----------------------------------------------------------------------------
LEMMA ConfigNext == ConfigInv /\ Results /\ [Next]_configVars => ConfigInv' /\ Results'
<1> SUFFICES ASSUME ConfigInv, Results, [Next]_configVars PROVE ConfigInv' /\ Results'
  OBVIOUS
<1>1. ASSUME pc' = "reading" PROVE Results'
  BY <1>1 DEF Results, AcceptedFits, FollowsFile, GeneratedWorks
<1>2. CASE SkipLine
  BY <1>1, <1>2, SkipStep DEF SkipLine, ReadLine
<1>3. CASE SetOption
  BY <1>1, <1>3, SetStep DEF SetOption, ReadLine
<1>4. CASE Finish
  BY <1>4, FinishStep
<1>5. CASE NoFile
  <2>1. pc' = "refused" /\ line' = 1 /\ file' = file /\ config' = config /\ line = 1
    BY <1>5 DEF NoFile
  <2>2. ConfigInv'
    BY <2>1 DEF ConfigInv, ConfigTypeOK, ReadInv
  <2>3. Results'
    BY <2>1 DEF Results, AcceptedFits, FollowsFile, GeneratedWorks
  <2> QED
    BY <2>2, <2>3
<1>6. CASE UNCHANGED configVars
  <2>1. pc' = pc /\ file' = file /\ line' = line /\ config' = config
    BY <1>6 DEF configVars
  <2>2. ConfigInv'
    BY <2>1 DEF ConfigInv, ConfigTypeOK, ReadInv, Read, SetBefore
  <2>3. Results'
    BY <2>1 DEF Results, AcceptedFits, FollowsFile, LastSetting, GeneratedWorks, Generated
  <2> QED
    BY <2>2, <2>3
<1> QED
  BY <1>2, <1>3, <1>4, <1>5, <1>6 DEF Next

LEMMA ConfigInvariance == Spec => [](ConfigInv /\ Results)
<1>1. Init => ConfigInv /\ Results
  BY InitConfig DEF Init, Results, AcceptedFits, FollowsFile, GeneratedWorks
<1>2. ConfigInv /\ Results /\ [Next]_configVars => ConfigInv' /\ Results'
  BY ConfigNext
<1> QED
  BY <1>1, <1>2, PTL DEF Spec

(* Every text fits its field with its terminator and every number is an int,
   at every line of any file. *)
THEOREM ConfigTypeCorrect == Spec => []ConfigTypeOK
<1>1. ConfigInv => ConfigTypeOK
  BY DEF ConfigInv
<1> QED
  BY <1>1, ConfigInvariance, PTL

(* A configuration that is accepted has batches of at least two events and room
   for two of them, unless the double of the batch size is no int: what module
   MonitoringAgent assumes of its sizes.  agent.c: validate_config. *)
THEOREM AcceptedConfigFits == Spec => []AcceptedFits
<1>1. Results => AcceptedFits
  BY DEF Results
<1> QED
  BY <1>1, ConfigInvariance, PTL

(* The agent runs with what its file says last, in whatever order the lines
   come and however often an option comes. *)
THEOREM ConfigFollowsFile == Spec => []FollowsFile
<1>1. Results => FollowsFile
  BY DEF Results
<1> QED
  BY <1>1, ConfigInvariance, PTL

(* A file as create_endpoint writes it is accepted, with the sizes it names, if
   the name in it is not blank, and refused if it is. *)
THEOREM GeneratedFileWorks == Spec => []GeneratedWorks
<1>1. Results => GeneratedWorks
  BY DEF Results
<1> QED
  BY <1>1, ConfigInvariance, PTL
=============================================================================
