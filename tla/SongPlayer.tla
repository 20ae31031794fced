----------------------------- MODULE SongPlayer ------------------------------
(* What a song player promises: the notes of a score are struck in their order *)
(* on silent registers, every rest lasts as long as it is written, and nothing *)
(* is heard after the end.                                                     *)
EXTENDS Naturals, Sequences

CONSTANT Silent  \* the contents of the registers after a clear

VARIABLES
  score,   \* the song: [note, reg, val] and [rest, ms] items, never changed
  played,  \* how many items have been played
  regs,    \* the registers of the synthesiser
  rested,  \* milliseconds of the last rest
  begun,   \* the song has begun
  over     \* the player has returned

songVars == <<score, played, regs, rested, begun, over>>

\* Before it begins the player may do what it likes, and leaves silence.
Prelude == /\ ~begun /\ begun' \in BOOLEAN
           /\ begun' => regs' = Silent
           /\ UNCHANGED <<score, played, rested, over>>

Strike == /\ begun /\ ~over /\ played < Len(score)
          /\ score[played + 1].kind = "note"
          /\ regs' = [regs EXCEPT ![score[played + 1].reg] = score[played + 1].val]
          /\ played' = played + 1
          /\ UNCHANGED <<score, rested, begun, over>>

Rest == /\ begun /\ ~over /\ played < Len(score)
        /\ score[played + 1].kind = "rest"
        /\ rested' = score[played + 1].ms
        /\ played' = played + 1
        /\ UNCHANGED <<score, regs, begun, over>>

Finish == /\ begun /\ ~over /\ played = Len(score)
          /\ regs' = Silent /\ over' = TRUE
          /\ UNCHANGED <<score, played, rested, begun>>

Next == Prelude \/ Strike \/ Rest \/ Finish
=============================================================================
