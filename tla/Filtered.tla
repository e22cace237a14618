------------------------------- MODULE Filtered -------------------------------
(* A Python list comprehension that leaves elements out, as a loop: unlike   *)
(* SelectSeq, a function that can be reasoned about by induction.            *)
EXTENDS Integers, Sequences

\* What the loop has kept after the first i elements.
KeptUpTo(s, dropped) ==
  LET kept[i \in 0..Len(s)] ==
        IF i = 0 THEN <<>>
        ELSE IF s[i] \in dropped THEN kept[i - 1] ELSE Append(kept[i - 1], s[i])
  IN  kept

\* The elements of s that are not in dropped, in their order.
Without(s, dropped) == KeptUpTo(s, dropped)[Len(s)]
=============================================================================
