---------------------------- MODULE MCDroPlayer -----------------------------
(* Instances of DroPlayer for TLC: bytes of three bits, and the headers of the *)
(* four formats before every body over a few bytes.                           *)
EXTENDS DroPlayer

CONSTANTS
  MaxBody,     \* bytes after the header of a DRO file
  Dro1Letter,  \* the bytes DRO 1 bodies are made of
  Dro2Letter,  \* the bytes DRO 2 bodies are made of
  ImfCommand,  \* the commands of IMF files
  ImfStart,    \* the first bytes of IMF files
  ImfRest      \* what may be left of a last command

MCSignature == <<3, 1, 2, 3, 4, 5, 6, 7>>
MCImfCommand == {<<3, 1, 0, 0>>, <<5, 7, 2, 0>>, <<3, 0, 7, 7>>, <<2, 2, 0, 1>>}
\* Type 0; type 1; type 1 whose length begins like the signature.
MCImfStart == {<<0, 0, 0, 0>>, <<4, 0>>, <<3, 1>>}
MCImfRest == {<<>>, <<1>>, <<1, 2, 3>>}

Bodies(S, n) == UNION {[1 .. k -> S] : k \in 0 .. n}
Zeros(n) == [i \in 1 .. n |-> 0]

Dro1Header == MCSignature \o Version1 \o Zeros(9)     \* the older revision ends here
Dro2Header(size) == MCSignature \o Version2 \o Zeros(11) \o <<6, 7, size>>

Refused ==
  {<<>>, <<1>>, <<3, 1>>, MCSignature, MCSignature \o <<0>>, MCSignature \o <<1, 0, 0, 0, 5>>,
   Dro1Header \o <<0, 0>>, MCSignature \o Version2 \o Zeros(9),
   MCSignature \o Version2 \o Zeros(9) \o <<1, 0, 6, 7, 0, 5, 5>>, Dro2Header(3) \o <<5, 4>>}

MCFiles ==
  Refused
    \cup {Dro1Header \o Zeros(3) \o b : b \in Bodies(Dro1Letter, MaxBody)}
    \cup {Dro1Header \o b : b \in Bodies(Dro1Letter \ {0}, MaxBody)}
    \cup {Dro2Header(3) \o <<5, 2, 4>> \o b : b \in Bodies(Dro2Letter, MaxBody)}
    \cup {s \o FlattenSeq(c) \o t : s \in ImfStart, c \in Bodies(ImfCommand, 2), t \in ImfRest}
=============================================================================
