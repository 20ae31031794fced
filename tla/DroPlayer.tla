------------------------------ MODULE DroPlayer ------------------------------
(* The song player of the firmware, imfplay.c, with the file compiled into it  *)
(* (mfs_filesys.c).  It is one thread: an action is one call of the functions  *)
(* of imfplay.c.  Bytes have ByteSize values; the code has 256.                *)
(* The port gives opl2_out no second bank (imfplay.c 123) and never mutes a    *)
(* channel (mute_toggle is not called), so neither is a variable.              *)
EXTENDS Naturals, SequencesExt

CONSTANTS
  ByteSize,   \* values of a byte (256)
  Signature,  \* the eight bytes that begin a DRO file
  Files       \* the files that may be compiled into the firmware

Byte == 0 .. ByteSize - 1
Half == ByteSize \div 2        \* bit 7 of a byte
Word16 == ByteSize * ByteSize  \* values of an unsigned short

ASSUME ByteSizeAssumption == ByteSize \in {2 ^ k : k \in 3 .. 8}
ASSUME FilesAssumption ==
  /\ Len(Signature) = 8 /\ Signature[1] # 0
  /\ \A f \in Files : f \in Seq(Byte)

VARIABLES
  file,       \* gMfsFile
  offset,     \* gCurrentOffset
  pc,         \* the call imfplay is about to make
  type,       \* f.type; "junk" is a value outside the enumeration
  accepted,   \* the result of file_open, which imfplay ignores
  delaycodes, \* dro2_delaycodes
  codetable,  \* dro2_codetable
  high,       \* dro1_high is set
  res, cmd,   \* the last result of read_next_cmd and its command
  nextEvent,  \* next_event
  opl,        \* the registers of the synthesiser
  rested,     \* history: milliseconds of the last wait
  played      \* history: notes and waits so far, of a file that was accepted

vars == <<file, offset, pc, type, accepted, delaycodes, codetable, high, res, cmd,
          nextEvent, opl, rested, played>>
parse == <<type, accepted, delaycodes, codetable>>
sound == <<opl, nextEvent, rested, played>>

FileType == {"IMF0", "IMF1", "DRO1", "DRO2"}
NoCmd == [reg |-> 0, data |-> 0, delay |-> 0]

Init ==
  /\ file \in Files /\ offset = 0 /\ pc = "open"
  /\ type = "junk" /\ accepted = FALSE
  /\ delaycodes = <<0, 0>> /\ codetable = [i \in Byte |-> 0] /\ high = FALSE
  /\ res = "NULL" /\ cmd \in {NoCmd, [NoCmd EXCEPT !.delay = 1]}  \* an automatic variable
  /\ nextEvent = 0 /\ opl \in {[r \in Byte |-> 0], [r \in Byte |-> 1]}
  /\ rested = 0 /\ played = 0

-----------------------------------------------------------------------------
(* mfs_filesys.c and the registers.                                           *)

Has(o, n) == o + n <= Len(file)               \* mfs_file_read returns n
At(o, i) == file[o + i + 1]                   \* rb[i] after a read at o
Chunk(o, n) == SubSeq(file, o + 1, o + n)
Least(a, b) == IF a < b THEN a ELSE b
SeekSet(o, from) == IF o <= Len(file) THEN o ELSE from   \* mfs_file_lseek

Opl2Out(regs, reg, data) == [regs EXCEPT ![reg % ByteSize] = data]
Cleared == Opl2Out([r \in Byte |-> 0], 2, 1)

-----------------------------------------------------------------------------
(* file_open: each action is one way through it.                              *)

Opening == /\ pc = "open" /\ pc' = "clear"
           /\ opl' = Opl2Out(opl, 2, 1)
           /\ UNCHANGED <<file, high, res, cmd, nextEvent, rested, played>>

IsDro == Has(0, 8) /\ Chunk(0, 8) = Signature
Version == Chunk(8, 4)
Version1 == <<0, 0, 1, 0>>
Version2 == <<2, 0, 0, 0>>

\* A refused file leaves the type as the stack had it and the offset where it is.
Refuse(o) == /\ accepted' = FALSE /\ offset' = Least(o, Len(file))
             /\ type' \in FileType \cup {"junk"}
Accept(t, o) == accepted' = TRUE /\ offset' = o /\ type' = t

OpenShort ==
  /\ Opening /\ ~Has(0, 2) /\ Refuse(2)
  /\ UNCHANGED <<delaycodes, codetable>>

OpenImf ==
  /\ Opening /\ Has(0, 2) /\ ~IsDro
  /\ LET read == IF Chunk(0, 2) = SubSeq(Signature, 1, 2) THEN Least(8, Len(file)) ELSE 2 IN
     IF At(0, 0) = 0 /\ At(0, 1) = 0
     THEN Accept("IMF0", SeekSet(0, read))
     ELSE Accept("IMF1", SeekSet(2, read))
  /\ UNCHANGED <<delaycodes, codetable>>

\* Wrong: the header of the older revision is taken for the newer one.
OpenDro1Fixed ==
  /\ Opening /\ IsDro /\ Has(8, 4) /\ Version = Version1
  /\ IF Has(12, 12) THEN Accept("DRO1", 24) ELSE Refuse(24)
  /\ UNCHANGED <<delaycodes, codetable>>

OpenDro1 ==
  /\ Opening /\ IsDro /\ Has(8, 4) /\ Version = Version1
  /\ IF ~Has(12, 12) THEN Refuse(24)
     ELSE Accept("DRO1", IF Chunk(21, 3) # <<0, 0, 0>> THEN SeekSet(21, 24) ELSE 24)
  /\ UNCHANGED <<delaycodes, codetable>>

OpenDro2 ==
  /\ Opening /\ IsDro /\ Has(8, 4) /\ Version = Version2
  /\ IF ~Has(12, 14) \/ Chunk(21, 2) # <<0, 0>>
     THEN Refuse(26) /\ UNCHANGED <<delaycodes, codetable>>
     ELSE LET want == At(12, 13)
              got == Least(want, Len(file) - 26)
          IN /\ delaycodes' = Chunk(23, 2)
             /\ codetable' = [i \in Byte |-> IF i < got THEN At(26, i) ELSE codetable[i]]
             /\ IF got = want THEN Accept("DRO2", 26 + want) ELSE Refuse(26 + got)

OpenUnknown ==
  /\ Opening /\ IsDro /\ (Has(8, 4) => Version \notin {Version1, Version2}) /\ Refuse(12)
  /\ UNCHANGED <<delaycodes, codetable>>

Open == OpenShort \/ OpenImf \/ OpenDro1 \/ OpenDro2 \/ OpenUnknown

Clear == /\ pc = "clear" /\ pc' = "wait"
         /\ opl' = Cleared /\ nextEvent' = 0
         /\ UNCHANGED <<file, offset, parse, high, res, cmd, rested, played>>

-----------------------------------------------------------------------------
(* read_next_cmd: each action is one way through its switch.                  *)

Reading == pc = "read" /\ pc' = "apply" /\ UNCHANGED <<file, parse, sound>>

\* Wrong: a short read advances by what was asked for.
EofPast == res' = "EOF" /\ offset' = offset + 4

\* A read that fails takes what is left of the file.
Eof == res' = "EOF" /\ offset' = Len(file)
Got(r, used, reg, data, delay) ==
  /\ res' = r /\ offset' = offset + used
  /\ cmd' = [reg |-> reg, data |-> data, delay |-> delay % Word16]

ReadImf ==
  /\ Reading /\ type \in {"IMF0", "IMF1"} /\ UNCHANGED high
  /\ IF Has(offset, 4)
     THEN Got("FULL", 4, At(offset, 0), At(offset, 1), At(offset, 2) + ByteSize * At(offset, 3))
     ELSE Eof /\ UNCHANGED cmd

\* The DRO 2 parser, also reached from DRO 1: skip is what has been read before.
Dro2Cmd(skip) ==
  LET o == offset + skip IN
  IF Has(o, 2)
  THEN LET code == At(o, 0)
           arg == At(o, 1)
       IN IF code = delaycodes[1] THEN Got("DELAY", skip + 2, 0, 0, arg + 1)
          ELSE IF code = delaycodes[2] THEN Got("DELAY", skip + 2, 0, 0, ByteSize * (arg + 1))
          ELSE Got("FULL", skip + 2,
                   codetable[code % Half] + (IF code >= Half THEN ByteSize ELSE 0), arg, 0)
  ELSE Eof /\ cmd' = NoCmd   \* the rest of cmd is not looked at after the end

Dro1Code == At(offset, 0)

ReadDro1Delay ==
  /\ Reading /\ type = "DRO1" /\ Has(offset, 1) /\ Dro1Code \in {0, 1} /\ UNCHANGED high
  /\ LET size == Dro1Code + 2 IN
     IF ~Has(offset, size) THEN Eof /\ cmd' = NoCmd
     ELSE Got("DELAY", size, 0, 0,
              1 + At(offset, 1) + (IF Dro1Code = 1 THEN ByteSize * At(offset, 2) ELSE 0))

\* The break of the chip select leaves the inner switch only.
ReadDro1Chip ==
  /\ Reading /\ type = "DRO1" /\ Has(offset, 1) /\ Dro1Code \in {2, 3}
  /\ high' = (Dro1Code = 3)
  /\ Dro2Cmd(1)

ReadDro1Escape ==
  /\ Reading /\ type = "DRO1" /\ Has(offset, 1) /\ Dro1Code = 4 /\ UNCHANGED high
  /\ Got("NULL", 1, 0, 0, 0)

ReadDro1Write ==
  /\ Reading /\ type = "DRO1" /\ Has(offset, 1) /\ Dro1Code > 4 /\ UNCHANGED high
  /\ IF ~Has(offset, 2) THEN Eof /\ cmd' = NoCmd
     ELSE Got("FULL", 2, Dro1Code + (IF high THEN ByteSize ELSE 0), At(offset, 1), 0)

\* Wrong: the end of the file is taken for a command that does nothing.
ReadDro1EndNull ==
  /\ Reading /\ type = "DRO1" /\ ~Has(offset, 1) /\ UNCHANGED high
  /\ Got("NULL", 0, 0, 0, 0)

ReadDro1End ==
  /\ Reading /\ type = "DRO1" /\ ~Has(offset, 1) /\ UNCHANGED high
  /\ Eof /\ cmd' = NoCmd

ReadDro2 == Reading /\ type = "DRO2" /\ UNCHANGED high /\ Dro2Cmd(0)

\* No case of the switch: 0 is returned and the command is what it was.
ReadJunk == Reading /\ type = "junk" /\ res' = "NULL" /\ UNCHANGED <<offset, high, cmd>>

ReadNextCmd ==
  \/ ReadImf \/ ReadDro1Delay \/ ReadDro1Chip \/ ReadDro1Escape \/ ReadDro1Write
  \/ ReadDro1End \/ ReadDro2 \/ ReadJunk

-----------------------------------------------------------------------------
(* imfplay's loop.                                                            *)

Count == played' = IF accepted THEN played + 1 ELSE played

\* for (clock_ticks < next_event) TimerDelay(1000): a wait of next_event ms.
Wait == /\ pc = "wait" /\ pc' = "read"
        /\ IF nextEvent > 0
           THEN rested' = nextEvent /\ Count
           ELSE UNCHANGED <<rested, played>>
        /\ UNCHANGED <<file, offset, parse, high, res, cmd, nextEvent, opl>>

\* A command without delay is followed by a pause of one microsecond.
Apply == /\ pc = "apply" /\ res # "EOF" /\ pc' = "wait"
         /\ IF res = "FULL"
            THEN opl' = Opl2Out(opl, cmd.reg, cmd.data) /\ Count
            ELSE UNCHANGED <<opl, played>>
         /\ nextEvent' = cmd.delay
         /\ UNCHANGED <<file, offset, parse, high, res, cmd, rested>>

Stop == /\ pc = "apply" /\ res = "EOF" /\ pc' = "over"
        /\ opl' = Cleared
        /\ UNCHANGED <<file, offset, parse, high, res, cmd, nextEvent, rested, played>>

\* main spins after imfplay has returned (main.c 42).
Over == pc = "over" /\ UNCHANGED vars

Next == Open \/ Clear \/ Wait \/ ReadNextCmd \/ Apply \/ Stop \/ Over
Spec == Init /\ [][Next]_vars /\ WF_vars(Next)

-----------------------------------------------------------------------------
(* What a file means, and the properties.                                     *)

Note(r, v) == [kind |-> "note", reg |-> r, val |-> v]
Pause(n) == [kind |-> "rest", ms |-> n]

\* The bytes from o on, cut into commands of n bytes; an unfinished one is dropped.
Commands(o, n) == [i \in 1 .. (Len(file) - o) \div n |-> Chunk(o + n * (i - 1), n)]

ImfItems(c) ==
  LET wait == c[3] + ByteSize * c[4] IN
  IF wait = 0 THEN <<Note(c[1], c[2])>> ELSE <<Note(c[1], c[2]), Pause(wait)>>

Dro2Item(c) ==
  IF c[1] = delaycodes[1] THEN Pause(c[2] + 1)
  ELSE IF c[1] = delaycodes[2] THEN Pause(ByteSize * (c[2] + 1))
  ELSE Note(codetable[c[1]], c[2])

\* The commands of a DRO 1 song have two bytes, or three for a long wait.
Dro1Size(o) == IF At(o, 0) = 1 THEN 3 ELSE 2
Dro1Cut[o \in 0 .. Len(file)] ==
  IF ~Has(o, 1) \/ ~Has(o, Dro1Size(o)) THEN <<>>
  ELSE <<Chunk(o, Dro1Size(o))>> \o Dro1Cut[o + Dro1Size(o)]
Dro1Cuts == Dro1Cut[IF Chunk(21, 3) = <<0, 0, 0>> THEN 24 ELSE 21]
Dro1Item(c) ==
  IF c[1] = 0 THEN Pause(c[2] + 1)
  ELSE IF c[1] = 1 THEN Pause(c[2] + ByteSize * c[3] + 1)
  ELSE Note(c[1], c[2])

Dro2Song == Commands(26 + At(25, 0), 2)

Score ==
  CASE type = "DRO1" -> [i \in DOMAIN Dro1Cuts |-> Dro1Item(Dro1Cuts[i])]
    [] type = "DRO2" -> [i \in DOMAIN Dro2Song |-> Dro2Item(Dro2Song[i])]
    [] type = "IMF0" -> FlattenSeq([i \in DOMAIN Commands(0, 4) |-> ImfItems(Commands(0, 4)[i])])
    [] type = "IMF1" -> FlattenSeq([i \in DOMAIN Commands(2, 4) |-> ImfItems(Commands(2, 4)[i])])

\* A song for one OPL2, with waits that fit the 16 bits of cmd.delay.
Opl2Song ==
  /\ accepted
  /\ \A i \in DOMAIN Score : Score[i].kind = "rest" => Score[i].ms < Word16
  /\ type = "DRO1" => \A i \in DOMAIN Dro1Cuts : Dro1Cuts[i][1] \notin {2, 3, 4}
  /\ type = "DRO2" => \A i \in DOMAIN Dro2Song :
                          Dro2Song[i][1] \in Range(delaycodes) \cup 0 .. Half - 1

TypeOK ==
  /\ offset \in 0 .. Len(file)
  /\ pc \in {"open", "clear", "wait", "read", "apply", "over"}
  /\ type \in FileType \cup {"junk"} /\ accepted \in BOOLEAN /\ (accepted => type # "junk")
  /\ delaycodes \in Byte \X Byte /\ codetable \in [Byte -> Byte] /\ high \in BOOLEAN
  /\ res \in {"EOF", "NULL", "FULL", "DELAY"}
  /\ cmd \in [reg : 0 .. 2 * ByteSize - 1, data : Byte, delay : 0 .. Word16 - 1]
  /\ {nextEvent, rested} \subseteq 0 .. Word16 - 1
  /\ opl \in [Byte -> Byte] /\ played \in Nat

Song == INSTANCE SongPlayer WITH
  Silent <- Cleared, score <- IF pc = "open" THEN <<>> ELSE Score, regs <- opl,
  begun <- pc \notin {"open", "clear"}, over <- pc = "over"

\* Whatever the format, the player of an OPL2 song strikes every note of the file
\* once and in order, on cleared registers, waits as long as each delay says and
\* is silent afterwards: no byte is skipped or read twice by the parser
\* (imfplay.c 177-274, 359-480).
PlaysScore ==
  [][pc # "open" /\ Opl2Song => [Song!Next]_(Song!songVars)]_vars

\* Playing ends, also in a file with chip selects, escapes or a command cut short, and
\* in one that file_open has refused half way, of which imfplay plays the rest as
\* whatever type the stack held, if it is one at all (imfplay.c 369, 430-468).
Finishes == type # "junk" ~> pc = "over"
=============================================================================
