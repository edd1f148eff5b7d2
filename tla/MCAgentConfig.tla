--------------------------- MODULE MCAgentConfig ---------------------------
(* An instance of AgentConfig for TLC, with an int of 8 bits: files that set
   the texts and then up to three times a number, or skip a line. *)
EXTENDS AgentConfig

CONSTANTS url, key, office, one

T(t, n) == [text |-> t, length |-> n]
Set(o, v) == [option |-> o, value |-> v]
Other == [option |-> "other"]

Url == Set("api", T(url, 33))
Key == Set("key", T(key, 43))
Id == Set("id", T(one, 1))
Name(n) == Set("name", T(office, n))

TextParts ==
    { <<Url, Key, Name(6), Id>>, <<Id, Name(63), Other, Key, Url>>,
      <<Url, Key, Name(64), Id>>, <<Url, Key, Name(0), Id>>,
      <<Url, Name(70), Key, Name(6), Id>>, <<Url, Key, Name(6)>>,
      <<Name(6), Id, Name(0), Url, Key>> }

Numbers == {Set("buffer_size", n) : n \in {-1, 17, 100, 300}}
           \cup {Set("batch_size", n) : n \in {-252, 0, 2, 9, 25, 63, 64, 127, 258}}
           \cup {Other}

Generated7(n) == <<Other, Url, Key, Name(n), Id,
                   Set("buffer_size", 65), Set("batch_size", 25)>>

SomeFiles == {t \o s : t \in TextParts, s \in UNION {[1..n -> Numbers] : n \in 0..3}}
             \cup {Generated7(n) : n \in {0, 6, 64}}
=============================================================================
