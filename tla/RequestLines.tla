---------------------------- MODULE RequestLines ----------------------------
(* What the lines of a request are, said of all its bytes at once: the     *)
(* reference for the parsers that see them in pieces.  "r" is CR, "n" LF.  *)
EXTENDS Naturals, Sequences, SequencesExt

(* buffer[i], counted from 0 *)
Byte(b, i) == b[i + 1]

(* Where a CR has no LF after it or an LF no CR before it *)
Stray(b) ==
    {i \in 1 .. Len(b) : \/ b[i] = "r" /\ i < Len(b) /\ b[i + 1] # "n"
                         \/ b[i] = "n" /\ (i = 1 \/ b[i - 1] # "r")}

WellFormed(b) == IF Stray(b) = {} THEN b ELSE SubSeq(b, 1, Min(Stray(b)) - 1)

(* The elements of a finite set of numbers, in order: the k-th is the one  *)
(* that k of them do not exceed.                                           *)
InOrder(S) ==
    [k \in 1 .. Cardinality(S) |-> CHOOSE i \in S : Cardinality({j \in S : j <= i}) = k]

(* The positions of the LFs that end a line, in order, and the lines *)
Ends(b) == InOrder({i \in 2 .. Len(b) : b[i] = "n"})

SplitLines(b) ==
    LET e == Ends(b)
    IN  [k \in DOMAIN e |-> SubSeq(b, IF k = 1 THEN 1 ELSE e[k - 1] + 1, e[k] - 2)]
=============================================================================
