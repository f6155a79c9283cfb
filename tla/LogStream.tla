------------------------------ MODULE LogStream ------------------------------
(***************************************************************************)
(* base/src/LogStream.cpp and Logger.cpp: a line of the log is put         *)
(* together in a buffer of fixed size, which drops what does not fit.      *)
(* These are operators on the contents of the buffer, a sequence of        *)
(* characters; "*" stands for any character of a text.                     *)
(***************************************************************************)
EXTENDS Integers, Sequences, SequencesExt

CONSTANTS kBufferSize,      \* characters a line may have
          kMaxNumericSize,  \* characters that must be free for a number
          Ints              \* the values of the integer type: -m..(m - 1)

-----------------------------------------------------------------------------
(* FixedBuffer.                                                            *)

available(buffer) == kBufferSize - Len(buffer)

(* FixedBuffer::append *)
Appended(buffer, data) ==
    IF Len(data) > available(buffer) THEN buffer ELSE buffer \o data

-----------------------------------------------------------------------------
(* Integers: convert().                                                    *)

digits == <<"9", "8", "7", "6", "5", "4", "3", "2", "1",
            "0", "1", "2", "3", "4", "5", "6", "7", "8", "9">>

(* zero points into the middle of digits: the remainder may be negative. *)
zero(lsd) == digits[10 + lsd]

(* C's division cuts towards zero. *)
Quotient(i) == IF i < 0 THEN -((-i) \div 10) ELSE i \div 10
Remainder(i) == i - 10 * Quotient(i)

(* The digits, last first. *)
LowDigits[i \in Ints] ==
    <<zero(Remainder(i))>> \o IF Quotient(i) = 0 THEN <<>> ELSE LowDigits[Quotient(i)]

(* A mutant of Convert: the value is made positive first, at the width it   *)
(* has, and the digits are taken while it is.                               *)
ConvertPositive(value) ==
    IF value >= 0 THEN Reverse(LowDigits[value])
    ELSE <<"-">> \o IF -value \in Ints THEN Reverse(LowDigits[-value])
                    ELSE <<zero(Remainder(value))>>

Convert(value) == Reverse(LowDigits[value] \o IF value < 0 THEN <<"-">> ELSE <<>>)

(* LogStream::formatInteger *)
WithInteger(buffer, value) ==
    IF available(buffer) < kMaxNumericSize THEN buffer ELSE buffer \o Convert(value)

-----------------------------------------------------------------------------
(* Logger.                                                                 *)

Text(n) == [i \in 1..n |-> "*"]

formatTime(buffer) == Appended(buffer, Text(1))

(* The constructor: time, level and file, the number of the source line, a  *)
(* space; the line number of the program's text is 42 here.                 *)
Header == Appended(WithInteger(Appended(formatTime(<<>>), Text(2)), 42), Text(1))

(* LOG_... << text << value << '\n', as the destructor hands it to output_. *)
Line(n, value) == Appended(WithInteger(Appended(Header, Text(n)), value), <<"\n">>)

-----------------------------------------------------------------------------
(* What a reader makes of a number. *)
ValueOf(text) ==
    LET Magnitude(s) == FoldLeft(LAMBDA m, d :
            10 * m + (CHOOSE k \in 0..9 : zero(k) = d), 0, s)
    IN  IF text[1] = "-" THEN -Magnitude(Tail(text)) ELSE Magnitude(text)

(* Division ends, and no number is too long for the room it is given, with  *)
(* the zero that convert() puts behind it: 64 bits have 20 characters.      *)
ASSUME LogStreamAssumption ==
    /\ kBufferSize \in Nat /\ kMaxNumericSize \in Nat
    /\ Ints \subseteq Int /\ 42 \in Ints /\ \A i \in Ints : Quotient(i) \in Ints
    /\ \A i \in Ints : Len(Convert(i)) < kMaxNumericSize
=============================================================================
