------------------------------- MODULE MCRam -------------------------------
(***************************************************************************)
(* Constants for the model checking of Ram: two words of memory, images of *)
(* no bytes to more than fit, whole words or not, read a word at a time.   *)
(***************************************************************************)
EXTENDS Ram

CONSTANTS x, y

MCByte == {x, y}

\* Bytes that distinguish every two places of a word, and the words.
Patterns == {<<x, x, x, y, y, x, y, y>>, <<y, x, x, x, x, y, x, x>>}
MCFiles ==
    {[i \in 1 .. n |-> p[((i - 1) % 8) + 1]] : n \in {0, 3, 4, 6, 8, 9, 12}, p \in Patterns}
=============================================================================
