------------------------------ MODULE ByteQueue ------------------------------
(***************************************************************************)
(* What a Buffer promises: a queue of bytes that is written at the end,    *)
(* read at the front, and may be extended at the front as well.  Nothing   *)
(* is said of capacities or of where the bytes are.                        *)
(***************************************************************************)
EXTENDS Naturals, Sequences

CONSTANTS Names,    \* the buffers of the program
          Strings,  \* the strings of bytes it may write
          Newline   \* a byte

VARIABLES contents,  \* the bytes of each buffer, oldest first
          result     \* the last call and the string it returned

Init == contents = [x \in Names |-> <<>>] /\ result = <<"none", <<>>>>

Returns(call, string) == result' = <<call, string>>

Write(x, s) == contents' = [contents EXCEPT ![x] = @ \o s] /\ Returns("write", <<>>)

Prepend(x, s) == contents' = [contents EXCEPT ![x] = s \o @] /\ Returns("prepend", <<>>)

Take(call, x, n) ==
    /\ Returns(call, SubSeq(contents[x], 1, n))
    /\ contents' = [contents EXCEPT ![x] = SubSeq(@, n + 1, Len(@))]

Read(x) == \E n \in 0..Len(contents[x]) : Take("retrieve", x, n)

\* A line ends with its first newline; without one nothing is taken.
ReadLine(x) ==
    \E n \in 0..Len(contents[x]) :
        /\ \A i \in 1..Len(contents[x]) : contents[x][i] = Newline => n \in 1..i
        /\ n > 0 => contents[x][n] = Newline
        /\ Take("getLine", x, n)

Copy(x, y) == contents' = [contents EXCEPT ![x] = contents[y]] /\ Returns("copy", <<>>)

Swap(x, y) ==
    /\ contents' = [z \in Names |-> IF z = x THEN contents[y]
                                    ELSE IF z = y THEN contents[x] ELSE contents[z]]
    /\ Returns("swap", <<>>)

\* Moving a buffer to another one empties it; to itself, it does nothing.
Move(x, y) ==
    /\ contents' = [z \in Names |-> IF z = x THEN contents[y]
                                    ELSE IF z = y THEN <<>> ELSE contents[z]]
    /\ Returns("move", <<>>)

Next ==
    \E x \in Names :
        \/ Read(x) \/ ReadLine(x)
        \/ \E s \in Strings : Write(x, s) \/ Prepend(x, s)
        \/ \E y \in Names : Copy(x, y) \/ Swap(x, y) \/ Move(x, y)

Spec == Init /\ [][Next]_<<contents, result>>
=============================================================================
