--------------------------------- MODULE Lists ---------------------------------
(* A loop over a list, as a function of the number of turns it has made.   *)
EXTENDS Integers, Sequences

(* The elements of s that are not in K, in their order.                    *)
Without(s, K) ==
  LET kept[n \in 0..Len(s)] ==
        IF n = 0 THEN <<>>
        ELSE IF s[n] \in K THEN kept[n - 1] ELSE Append(kept[n - 1], s[n])
  IN  kept[Len(s)]
================================================================================
