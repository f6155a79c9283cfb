---------------------------- MODULE MCAsyncLogger ----------------------------
(* The instance of AsyncLogger that TLC explores: numbers of 8 bits.         *)
EXTENDS AsyncLogger

MCInts == -128..127
MCNumbers == <<0, -128, 127, -10>>
=============================================================================
