------------------------------ MODULE Terminal ------------------------------
(* The text screen of the firmware and its two writers: the boot loader        *)
(* (bootloader.c 40-136) and the player (main.c 14-99), each with its cursor.  *)
(* A character is a string of length one.                                      *)
EXTENDS Integers, SequencesExt

CONSTANTS Cols, Rows  \* SCREEN_X and SCREEN_Y

\* Room for the longest line that is printed (the loader's second), and for the lines
\* that the player assumes above its own.
ASSUME ScreenAssumption == Cols \in Nat /\ Cols >= 14 /\ Rows \in Nat /\ Rows >= 4

VARIABLES
  vram,    \* the cells of the screen
  loader,  \* gVRAM, gCrtRow and gCrtCol of the boot loader
  player,  \* gVram, gCrtRow and gCrtCol of the player
  serial   \* history: what the player has sent to the UART

termVars == <<vram, loader, player, serial>>

NL == "\n"
CR == "\r"
Cells == 0 .. Cols * Rows - 1
At(r, c) == [ptr |-> c + r * Cols, row |-> r, col |-> c]  \* SetVRAMPtr
Home == At(0, 0)
PlayerHome == At(3, 0)   \* the player assumes three lines above it

TermInit ==
  /\ vram \in [Cells -> {"?"}] /\ loader = Home /\ player = PlayerHome /\ serial = <<>>

TermClear == vram' = [i \in Cells |-> " "] /\ loader' = Home /\ UNCHANGED <<player, serial>>

-----------------------------------------------------------------------------
(* One character.                                                             *)

\* Wrong: the row is not reset at the bottom of the screen.
NewLineRuns(k) == At(k.row + 1, 0)
NewLine(k) == At(IF k.row + 1 >= Rows THEN 0 ELSE k.row + 1, 0)
Return(k) == At(k.row, 0)

\* The loader counts columns and wraps; the player only advances its pointer.
LoaderTyped(k) ==
  IF k.col + 1 >= Cols THEN NewLine(k) ELSE [k EXCEPT !.ptr = @ + 1, !.col = @ + 1]
PlayerTyped(k) == [k EXCEPT !.ptr = @ + 1]

Control(k, c) == IF c = NL THEN NewLine(k) ELSE Return(k)
Drawn(k, c) == IF c \in {NL, CR} THEN vram ELSE [vram EXCEPT ![k.ptr] = c]

TermPutchar(c) ==
  /\ vram' = Drawn(loader, c)
  /\ loader' = IF c \in {NL, CR} THEN Control(loader, c) ELSE LoaderTyped(loader)
  /\ UNCHANGED <<player, serial>>

\* LogPutc: to the monitor, and to the UART for a file with LOG_TO_BOTH.
LogPutc(c, both) ==
  /\ vram' = Drawn(player, c)
  /\ player' = IF c \in {NL, CR} THEN Control(player, c) ELSE PlayerTyped(player)
  /\ serial' = IF both THEN Append(serial, c) ELSE serial
  /\ UNCHANGED loader

-----------------------------------------------------------------------------
(* Numbers.                                                                   *)

Digits == <<"0", "1", "2", "3", "4", "5", "6", "7", "8", "9", "a", "b", "c", "d", "e", "f">>

\* term_print_hex: digits i = 7 .. 0; a zero is left out until one has been printed
\* or i is below the number of digits asked for.
Hex(v, digits) ==
  LET D(i) == (v \div 16 ^ i) % 16
      shown == Min({n \in digits .. 8 : \A i \in n .. 7 : D(i) = 0})
  IN [k \in 1 .. shown |-> Digits[D(shown - k) + 1]]

\* term_print_dec: for each place the first of 9, 8, .. 1 that fits what is left.
Dec(v) ==
  LET Fits(place) == {d \in 1 .. 9 : d * place <= v % (10 * place)}
      Digit(place) == Digits[Cardinality(Fits(place)) + 1]
  IN IF v >= 100000 THEN <<">", "=", "1", "0", "0", "0", "0", "0">>
     ELSE [k \in 1 .. 5 |-> Digit(10 ^ (5 - k))]

-----------------------------------------------------------------------------
\* Both cursors are inside the screen, so that nothing is written beside it, and the
\* loader's pointer, row and column never drift apart, although each is stepped on its
\* own (bootloader.c 57-84).
InScreen(k) == k.row \in 0 .. Rows - 1 /\ k.col \in 0 .. Cols - 1 /\ k.ptr \in Cells
CursorKept ==
  /\ InScreen(loader) /\ loader.ptr = loader.col + loader.row * Cols
  /\ InScreen(player) /\ DOMAIN vram = Cells
=============================================================================
