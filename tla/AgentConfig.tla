---------------------------- MODULE AgentConfig ----------------------------
(***************************************************************************)
(* The configuration of the monitoring agent: load_config and              *)
(* validate_config of monitoringAgent.c, and the file that create_endpoint *)
(* of api.py writes for it.                                                *)
(*                                                                         *)
(* A line sets an option, or it is skipped: it is blank, a comment, starts *)
(* with a blank, has no '=', or its text before the '=' is no option (an   *)
(* option followed by a blank is none).  A text is an identity with a      *)
(* length, cut where the field ends; a number is an integer, of which an   *)
(* int keeps the value modulo its range: atoi returns the lower half of a  *)
(* long, and gcc -O2 makes batch_size * 2 an addition that wraps.          *)
(*                                                                         *)
(* On a blank line trim runs past the beginning of the line and reads the  *)
(* byte before the buffer, which is undefined.  In the build it is the     *)
(* highest byte of the size that malloc keeps in front of its memory,      *)
(* which is zero: trim ends there and leaves an empty line, which is       *)
(* skipped.                                                                *)
(***************************************************************************)
EXTENDS Integers, Sequences

CONSTANTS Files,   \* the configuration files, sequences of lines
          Texts,   \* what a text may be
          IntMax   \* INT_MAX: 2147483647, less for TLC

StringOptions == {"api", "key", "name", "id"}
NumberOptions == {"buffer_size", "batch_size"}
Options == StringOptions \cup NumberOptions

Text == [text : Texts, length : Nat]
Line == [option : StringOptions, value : Text]
        \cup [option : NumberOptions, value : Int]
        \cup [option : {"other"}]

ASSUME ConfigAssumption == /\ IntMax \in Nat /\ IntMax > 65
                           /\ Files \subseteq Seq(Line)

VARIABLES pc,      \* "reading", then "accepted" or "refused"
          file,
          line,    \* the next line
          config

configVars == <<pc, file, line, config>>

(* The sizes of the fields: api[256], key[128], name[64], id[64]. *)
Size == [api |-> 256, key |-> 128, name |-> 64, id |-> 64]

(* The static config: empty strings and zeros. *)
Unset == [o \in Options |-> IF o \in StringOptions THEN [length |-> 0] ELSE 0]

Init == /\ pc = "reading"
        /\ file \in Files
        /\ line = 1
        /\ config = Unset
-----------------------------------------------------------------------------
Ints == -(IntMax + 1)..IntMax

(* What an int makes of a number. *)
Wrap(n) == ((n + IntMax + 1) % (2 * (IntMax + 1))) - (IntMax + 1)

(* Mutant: no room is left for the terminator. *)
Stored_Full(o, v) ==
    CASE v.length = 0        -> [length |-> 0]
      [] v.length >= Size[o] -> [v EXCEPT !.length = Size[o]]
      [] OTHER               -> v

(* strncpy to the field; an empty text is the same whatever it was. *)
Stored(o, v) ==
    CASE v.length = 0        -> [length |-> 0]
      [] v.length >= Size[o] -> [v EXCEPT !.length = Size[o] - 1]
      [] OTHER               -> v

AtLeast(least, n) == IF n < least THEN least ELSE n
Clamped(o, n) == AtLeast(IF o = "buffer_size" THEN 32 ELSE 1, n)

Value(o, v) == IF o \in StringOptions THEN Stored(o, v) ELSE Clamped(o, Wrap(v))

ReadLine == /\ pc = "reading"
            /\ line \in DOMAIN file
            /\ line' = line + 1
            /\ UNCHANGED <<pc, file>>

(* Mutant: a line that sets nothing is taken for an error. *)
SkipLine_Refuses == /\ pc = "reading"
                    /\ line \in DOMAIN file
                    /\ file[line].option = "other"
                    /\ pc' = "refused"
                    /\ line' = line + 1
                    /\ UNCHANGED <<file, config>>

SkipLine == /\ ReadLine
            /\ file[line].option = "other"
            /\ config' = config

(* Mutant: the first line that sets an option wins. *)
SetOption_First == /\ ReadLine
                   /\ LET o == file[line].option
                      IN  /\ o # "other"
                          /\ config' = IF config[o] # Unset[o] THEN config
                                       ELSE [config EXCEPT ![o] = Value(o, file[line].value)]

SetOption == /\ ReadLine
             /\ LET o == file[line].option
                IN  /\ o # "other"
                    /\ config' = [config EXCEPT ![o] = Value(o, file[line].value)]
-----------------------------------------------------------------------------
(* After the last line: the buffer is to hold two batches. *)
TwoBatches(c) == Wrap(c.batch_size * 2)

(* Mutant: the buffer is as large as one batch. *)
Enlarged_Once(c) == [c EXCEPT !.buffer_size = AtLeast(c.batch_size, @)]

Enlarged(c) == [c EXCEPT !.buffer_size = AtLeast(TwoBatches(c), @)]

(* validate_config *)
Valid(c) == /\ \A o \in StringOptions : c[o].length # 0
            /\ c.buffer_size > 16
            /\ c.batch_size > 1

Finish == /\ pc = "reading"
          /\ line \notin DOMAIN file
          /\ config' = Enlarged(config)
          /\ pc' = IF Valid(config') THEN "accepted" ELSE "refused"
          /\ UNCHANGED <<file, line>>

(* fopen fails. *)
NoFile == /\ pc = "reading"
          /\ line = 1
          /\ pc' = "refused"
          /\ UNCHANGED <<file, line, config>>
-----------------------------------------------------------------------------
Next == SkipLine \/ SetOption \/ Finish \/ NoFile

Spec == Init /\ [][Next]_configVars

Fits(o, v) == v.length = 0 \/ (v \in Text /\ v.length \in 1..(Size[o] - 1))

ConfigTypeOK ==
    /\ pc \in {"reading", "accepted", "refused"}
    /\ file \in Seq(Line)
    /\ line \in 1..(Len(file) + 1)
    /\ DOMAIN config = Options
    /\ \A o \in StringOptions : Fits(o, config[o])
    /\ \A o \in NumberOptions : config[o] \in Ints

(* "ensure the buffer is large enough": a configuration the agent accepts is
   one it can run with, as module MonitoringAgent assumes; unless the double of
   the batch size is more than an int holds, which nothing looks at. *)
AcceptedFits == pc = "accepted" /\ 2 * config.batch_size <= IntMax =>
                   /\ config.batch_size > 1
                   /\ config.buffer_size >= 2 * config.batch_size

LastSetting(i, o) ==
    /\ file[i].option = o
    /\ \A j \in DOMAIN file : j > i => file[j].option # o

(* What the agent runs with is what the file says last, whatever the order of
   the lines: each text up to the end of its field, the batch size itself if it
   is an int, and no smaller a buffer than asked for.  All options must be set
   but buffer_size: without it the buffer holds two batches.  (README.md says
   that six options are required, and that buffer_size is not implemented: the
   code does neither.) *)
FollowsFile ==
    pc = "accepted" =>
        /\ \A o \in StringOptions : \E i \in DOMAIN file :
              /\ LastSetting(i, o)
              /\ config[o].text = file[i].value.text
              /\ config[o].length = file[i].value.length \/ config[o].length = Size[o] - 1
        /\ \E i \in DOMAIN file :
              /\ LastSetting(i, "batch_size")
              /\ file[i].value \in Ints => config.batch_size = file[i].value
        /\ \A i \in DOMAIN file :
              LastSetting(i, "buffer_size") /\ file[i].value <= IntMax =>
                 config.buffer_size >= file[i].value
        /\ (\A i \in DOMAIN file : file[i].option # "buffer_size") =>
              config.buffer_size = TwoBatches(config)

(* A file as create_endpoint writes it, for a name without a line break.  The
   name it is asked for must not be empty, but may consist of blanks, and then
   trim leaves nothing of it. *)
Generated(f) ==
    /\ Len(f) = 7
    /\ [i \in 1..7 |-> f[i].option] =
          <<"other", "api", "key", "name", "id", "buffer_size", "batch_size">>
    /\ \A i \in {2, 3, 5} : f[i].value.length > 0
    /\ f[6].value = 65
    /\ f[7].value = 25

(* An agent accepts the file that was generated for it, and runs with its
   sizes, exactly if the endpoint's name is not blank: create_endpoint takes a
   blank name, and validate_config refuses the file written for it. *)
GeneratedWorks ==
    Generated(file) /\ line > 1 =>
       IF file[4].value.length > 0
          THEN /\ pc # "refused"
               /\ pc = "accepted" => /\ config.buffer_size = 65
                                     /\ config.batch_size = 25
          ELSE pc # "accepted"
=============================================================================
