------------------------------ MODULE LogStream ------------------------------
(***************************************************************************)
(* base/log: one Logger after another formats a line into the FixedBuffer  *)
(* of its LogStream and outputs it.  Integers have W bits in two's         *)
(* complement; a character is its code.  Of a text only the length is      *)
(* kept, of a number also what formatInteger makes of it.                  *)
(***************************************************************************)
EXTENDS Integers, Sequences, SequencesExt

CONSTANTS
    W,                \* bits of an integer and of a pointer
    SIZE,             \* of the FixedBuffer (kSmallBuffer)
    kMaxNumericSize,
    MaxDouble,        \* longest text of "%.12g"
    MaxText,          \* bound on the length of a text in one operator<<
    TimeLen, NameLen, \* lengths of the time and of a level's name
    FileNameLen

MinInt == 0 - 2^(W - 1)
MaxInt == 2^(W - 1) - 1
Unsigned == 0..(2^W - 1)

ASSUME LogAssumption ==
    /\ {W, SIZE, kMaxNumericSize, MaxDouble, MaxText, TimeLen, NameLen, FileNameLen} \subseteq Nat
    /\ W > 0 /\ SIZE > 0 /\ MaxDouble < kMaxNumericSize
    /\ {2^(W - 1), 2^W} \subseteq Nat \ {0} /\ 0..MaxInt \subseteq MinInt..(2^W - 1)

VARIABLES
    level,    \* of the Logger at work, or "none"
    length,   \* cur_ - data_
    written,  \* the end of the furthest byte written, the final '\0' included
    number    \* the last number streamed: its kind, value, and text or <<>> if dropped

vars == <<level, length, written, number>>

Init ==
    /\ level = "none" /\ length = 0 /\ written = 0
    /\ number = [kind |-> "integer", v |-> 0, text |-> <<>>]
-----------------------------------------------------------------------------
(* FixedBuffer and the numbers.                                            *)

\* append(): all or nothing.
Appended(len, n) == IF SIZE - len > n THEN len + n ELSE len

\* The digits of v, least significant first, as the loop of formatInteger
\* writes them; % and / of C truncate, and the loop is left when v <= 0.
Rest(v) == IF v < 0 THEN 0 - ((0 - v) \div 10) ELSE v \div 10
Generated[v \in MinInt..(2^W - 1)] ==
    <<v - 10 * Rest(v) + 48>> \o (IF Rest(v) > 0 THEN Generated[Rest(v)] ELSE <<>>)

\* -v wraps for the most negative value (undefined in C++; what compilers do).
Negated(v) == IF v = MinInt THEN v ELSE 0 - v

FormatInteger_unreversed(v) ==
    IF v < 0 THEN <<45>> \o Generated[Negated(v)] ELSE Generated[v]
FormatInteger(v) ==
    Reverse(IF v < 0 THEN Generated[Negated(v)] \o <<45>> ELSE Generated[v])

HexGenerated[v \in Unsigned] ==
    <<(v % 16) + (IF v % 16 < 10 THEN 48 ELSE 55)>>
      \o (IF v \div 16 > 0 THEN HexGenerated[v \div 16] ELSE <<>>)

FormatPointer(v) == <<48, 120>> \o Reverse(HexGenerated[v])

\* kMaxNumericSize (32 in the code, for W = 64) has room for a sign and the
\* decimal digits of a number of W bits, for "0x" and its hexadecimal digits, and
\* for a '\0'.  The first two conjuncts are laws of powers.
ASSUME NumbersAssumption ==
    /\ \A b \in {10, 16} : b^0 = 1
    /\ \A b \in {10, 16}, k \in 0..kMaxNumericSize : b^k \in Nat /\ b^(k + 1) = b * b^k
    /\ kMaxNumericSize > 3
    /\ 2^W <= 10^(kMaxNumericSize - 2) /\ 2^W <= 16^(kMaxNumericSize - 3)

\* A number is written in place when kMaxNumericSize bytes are left.
Fits_text(len, n) == SIZE - len >= n
Fits(len, n) == SIZE - len >= kMaxNumericSize
WithNumber(len, n) == IF Fits(len, n) THEN len + n ELSE len
Touched(len, n) == IF Fits(len, n) /\ len + n + 1 > written THEN len + n + 1 ELSE written

-----------------------------------------------------------------------------
(* Logger.                                                                 *)

Levels == {"TRACE", "DEBUG", "INFO", "WARN", "ERROR", "FATAL"}

\* The constructors: time, level, then n characters: the name of the function,
\* or the text of an errno, which its number follows in parentheses.
Construct(l, n, errno) ==
    LET named == Appended(Appended(Appended(0, TimeLen), NameLen), n)
        opened == Appended(named, 2)
        numbered == WithNumber(opened, Len(FormatInteger(errno)))
    IN
    /\ level = "none" /\ level' = l
    /\ errno # 0 => l \in {"ERROR", "FATAL"}
    /\ length' = IF errno = 0 THEN named ELSE Appended(numbered, 2)
    /\ written' = IF errno # 0 /\ numbered > opened THEN numbered + 1 ELSE 0
    /\ UNCHANGED number

Streaming == level \in Levels

\* operator<< of a text, a char or a bool.
StreamText(n) ==
    /\ Streaming
    /\ length' = Appended(length, n)
    /\ UNCHANGED <<level, written, number>>

StreamNumber(kind, v, text) ==
    /\ Streaming
    /\ number' = [kind |-> kind, v |-> v, text |-> IF Fits(length, Len(text)) THEN text ELSE <<>>]
    /\ length' = WithNumber(length, Len(text))
    /\ written' = Touched(length, Len(text))
    /\ UNCHANGED level

StreamInteger(v) == StreamNumber("integer", v, FormatInteger(v))
StreamPointer(v) == StreamNumber("pointer", v, FormatPointer(v))

StreamDouble(n) ==
    /\ Streaming
    /\ length' = WithNumber(length, n)
    /\ written' = Touched(length, n)
    /\ UNCHANGED <<level, number>>

\* ~Logger: " - ", the file, ':', the line and '\n'; output, and abort() if it
\* is FATAL.
Destruct(line) ==
    LET file == Appended(Appended(Appended(length, 3), FileNameLen), 1)
        digits == Len(FormatInteger(line))
    IN
    /\ Streaming
    /\ length' = Appended(WithNumber(file, digits), 1)
    /\ written' = Touched(file, digits)
    /\ level' = IF level = "FATAL" THEN "aborted" ELSE "none"
    /\ UNCHANGED number

Next ==
    \/ \E l \in Levels, n \in 0..MaxText, errno \in 0..MaxInt : Construct(l, n, errno)
    \/ \E n \in 0..MaxText : StreamText(n)
    \/ \E v \in MinInt..(2^W - 1) : StreamInteger(v)
    \/ \E v \in Unsigned : StreamPointer(v)
    \/ \E n \in 1..MaxDouble : StreamDouble(n)
    \/ \E line \in 1..MaxInt : Destruct(line)

Spec == Init /\ [][Next]_vars
-----------------------------------------------------------------------------
(* Properties.                                                             *)

\* What a string of digits to the base b denotes: a reference definition, one
\* digit after the other from the left; Values is of all its beginnings.
Digit(c) == c - (IF c >= 65 THEN 55 ELSE 48)
Values(b, digits) ==
    LET value[i \in 0..Len(digits)] ==
            IF i = 0 THEN 0 ELSE b * value[i - 1] + Digit(digits[i])
    IN  value
Denotes(b, digits, v) ==
    /\ digits # <<>> /\ (Len(digits) > 1 => digits[1] # 48)
    /\ \A i \in DOMAIN digits : Digit(digits[i]) \in 0..(b - 1)
    /\ Values(b, digits)[Len(digits)] = v

\* A number that is not dropped stands in the line as its usual notation: no
\* leading zero, digits in order, the sign in front.  The most negative value
\* of a signed type is left out: formatInteger negates it.
FormatsExactly ==
    LET text == number.text
        from(i) == SubSeq(text, i, Len(text))
    IN  \/ text = <<>> \/ number.v = MinInt
        \/ number.kind = "pointer" /\ from(1) = <<48, 120>> \o from(3) /\ Denotes(16, from(3), number.v)
        \/ number.kind = "integer" /\ number.v >= 0 /\ Denotes(10, text, number.v)
        \/ number.kind = "integer" /\ number.v < 0 /\ Head(text) = 45 /\ Denotes(10, from(2), 0 - number.v)

\* However a line is put together, cur_ stays inside the buffer and so does
\* every byte that the number formats write past it.
StaysInside == length < SIZE /\ written <= SIZE
=============================================================================
