------------------------------ MODULE Firmware ------------------------------
(* From a reset to the end of the song: the boot loader, then the main program *)
(* it has copied (main.c 27-99, audio.c), which sets up the codec and plays.   *)
(* The song itself is DroPlayer's; here it is one step.                        *)
EXTENDS BootLoader, I2cMaster

VARIABLES
  entry,  \* idx of audio_init
  lines   \* history: the lines the player has begun, each a sequence of characters

firmwareVars == <<termVars, flashVars, bootVars, script, i2cVars, entry, lines>>

\* audio_registers: the addresses and values of the codec's registers.
AudioRegisters ==
  << <<2, 120>>, <<3, 256 + 120>>, <<5, 0>>, <<7, 16 + 3>>, <<8, 1>>, <<10, 255>>,
     <<11, 256 + 255>>, <<12, 64 + 15>>, <<13, 15>>, <<16, 0>>, <<23, 256 + 192 + 48 + 1>>,
     <<24, 64 + 16>>, <<25, 192>>, <<26, 256 + 248>>, <<27, 0>>, <<34, 256>>, <<35, 256>>,
     <<36, 256>>, <<37, 256>>, <<38, 0>>, <<39, 0>>, <<40, 120>>, <<41, 256 + 120>>, <<42, 0>> >>

Init == BootInit /\ I2cInit /\ entry = 1 /\ lines = <<>>

Load == (LoaderStep \/ LoaderCall) /\ UNCHANGED <<i2cVars, entry, lines>>

-----------------------------------------------------------------------------
(* The player: scripts of characters and line operations.                     *)

Alog(text) == [i \in DOMAIN text |-> <<"alog", text[i]>>]

\* A character is appended to the line it belongs to.
Written(ls, c) ==
  IF c = NL THEN Append(ls, <<>>) ELSE [ls EXCEPT ![Len(ls)] = Append(@, c)]

Log == /\ script # <<>> /\ Head(script)[1] \in {"alog", "elog"}
       /\ LogPutc(Head(script)[2], Head(script)[1] = "alog")
       /\ lines' = Written(lines, Head(script)[2]) /\ script' = Tail(script)
       /\ UNCHANGED <<flashVars, bootVars, i2cVars, entry>>

Wire == /\ script # <<>> /\ Head(script)[1] \in I2cOps
        /\ I2cOp(Head(script)) /\ script' = I2cRest(script)
        /\ UNCHANGED <<termVars, flashVars, bootVars, entry, lines>>

Calls(p, q, ops) ==
  /\ pc = p /\ script = <<>> /\ pc' = q /\ script' = ops
  /\ UNCHANGED <<flashVars, bits, verify, block, word, ddr, faults>>

Compiled == <<"i", "m", "f", NL>>
Calling == <<"c", "a", "l", "l", NL>>
Returned == <<"r", "e", "t", " ", "0", NL>>
Captured == <<"0", " ", "s", NL>>

\* The application starts with its own gCrtRow and an empty bss.
PlayerMain ==
  /\ Calls("jump", "audio", Alog(Compiled))
  /\ leds' = "red" /\ player' = PlayerHome /\ lines' = <<<<>>>>
  /\ UNCHANGED <<vram, loader, serial, i2cVars, entry>>

AudioInit ==
  /\ Calls("audio", "codec", I2cSetup) /\ entry' = 1
  /\ UNCHANGED <<termVars, leds, i2cVars, lines>>

RegisterBytes(e) == <<2 * e[1] + e[2] \div 256, e[2] % 256>>

\* Wrong: a refused register does not end the set-up.
AudioWriteOn ==
  /\ entry \in DOMAIN AudioRegisters
  /\ LET b == RegisterBytes(AudioRegisters[entry])
     IN Calls("codec", "codec", I2cWriteReg(DeviceAddress, b[1], b[2]))
  /\ entry' = entry + 1 /\ UNCHANGED <<termVars, leds, i2cVars, lines>>

AudioWrite ==
  /\ entry \in DOMAIN AudioRegisters /\ acked
  /\ LET b == RegisterBytes(AudioRegisters[entry])
     IN Calls("codec", "codec", I2cWriteReg(DeviceAddress, b[1], b[2]))
  /\ entry' = entry + 1 /\ UNCHANGED <<termVars, leds, i2cVars, lines>>

WriteFailed == <<"f", "a", "i", "l", NL>>

AudioFails ==
  /\ ~acked /\ Calls("codec", "play", Elog(WriteFailed) \o Alog(Calling))
  /\ UNCHANGED <<termVars, leds, i2cVars, entry, lines>>

AudioDone ==
  /\ acked /\ entry \notin DOMAIN AudioRegisters /\ Calls("codec", "play", Alog(Calling))
  /\ UNCHANGED <<termVars, leds, i2cVars, entry, lines>>

Play == /\ Calls("play", "over", Alog(Returned \o Captured))
        /\ UNCHANGED <<termVars, leds, i2cVars, entry, lines>>

PlayerEnds == /\ Calls("over", "spin", <<>>) /\ leds' = "green"
              /\ UNCHANGED <<termVars, i2cVars, entry, lines>>

\* for( ; ; ): the wrong flash, a failed memory test, the end of the player.
Spin == /\ pc \in {"badid", "memfail", "spin"} /\ script = <<>>
        /\ UNCHANGED firmwareVars

Next ==
  \/ Load \/ Log \/ Wire \/ PlayerMain \/ AudioInit \/ AudioWrite \/ AudioFails \/ AudioDone
  \/ Play \/ PlayerEnds \/ Spin
Spec == Init /\ [][Next]_firmwareVars /\ WF_firmwareVars(Next)

-----------------------------------------------------------------------------
Loads == {"reset", "id", "badid", "block", "word", "memtest", "fill", "check", "memfail", "jump"}
Plays == {"audio", "codec", "play", "over", "spin"}

TypeOK ==
  /\ pc \in Loads \cup Plays
  /\ {csn, clk, mosi, miso, scl, sda} \subseteq {0, 1} /\ clocks \in Nat /\ head \in 0 .. 2 ^ 27
  /\ bits \in Seq({0, 1}) /\ verify \in BOOLEAN /\ block \in 0 .. DdrKb /\ word \in 0 .. Words
  /\ leds \in {"off", "green", "red"} /\ faults \in 0 .. MaxFaults
  /\ device.n \in 0 .. 9 /\ device.stretch \in 0 .. MaxStretch /\ acked \in BOOLEAN
  /\ entry \in 1 .. Len(AudioRegisters) + 1

ImageWord(a) == [k \in 1 .. 4 |-> FlashByte(AppBase + 4 * a + k - 1)]

\* Whatever words the LPDDR has stored wrongly, in the copy or in a memory test, and
\* however often the copy was repeated: what the CPU jumps to is the image in the flash,
\* every byte at its place (bootloader.c 240-335).
RunsVerifiedImage ==
  pc \in {"jump"} \cup Plays => \A a \in 0 .. Blocks * Words - 1 : ddr[a] = ImageWord(a)

\* The codec takes whole registers only, those of the table in their order, none
\* twice and none skipped; the first one it refuses ends the set-up; and the song
\* begins with both lines released (i2c.c 15-191, audio.c 138-154).
CodecTransfers ==
  /\ DOMAIN taken \subseteq DOMAIN AudioRegisters
  /\ \A i \in DOMAIN taken :
       LET whole == RegisterBytes(AudioRegisters[i])
       IN \/ taken[i] = whole
          \/ i = Len(taken) /\ ~acked /\ taken[i] \in {<<>>, <<whole[1]>>}
  /\ pc \in {"play", "over", "spin"} /\ acked => Len(taken) = Len(AudioRegisters)
  /\ pc \in {"over", "spin"} => BusIdle

\* As long as the loader succeeded at once, the first line of the player is the one
\* below the loader's last, and every line stays on the screen until the rows are used
\* up: the row the player starts in is fixed, the loader's return value is ignored
\* (main.c 14, 57-79; bootloader.c 306-335).
LineKept(i) ==
  LET r == (PlayerHome.row + i - 1) % Rows
  IN \A k \in DOMAIN lines[i] : vram[r * Cols + k - 1] = lines[i][k]
Recent == {i \in DOMAIN lines : i > Len(lines) - Rows}
ConsoleKept ==
  /\ faults = 0 /\ pc = "jump" /\ script = <<>> => loader = PlayerHome
  /\ pc \in Plays => \A i \in Recent : LineKept(i)
  /\ CursorKept

\* The machine ends up in one of its loops, the right one: it plays unless the flash is
\* not the expected one or the memory test has failed, which takes a fault of the memory;
\* a fault of the copy alone costs a retry (bootloader.c 240-335, main.c 27-99).
Settled ==
  /\ script = <<>>
  /\ pc \in IF flashId # M20P80 THEN {"badid"}
             ELSE IF faults = 0 THEN {"spin"} ELSE {"memfail", "spin"}
Settles == pc = "reset" ~> Settled
=============================================================================
