---------------------------- MODULE Subsequences ----------------------------
(* Selections from a sequence and sums over one, as recursive functions.    *)
EXTENDS Integers, Sequences

\* The entries of s at the places in I, in their order.
Selected(s, I) ==
  LET pick[n \in 0..Len(s)] ==
        IF n = 0 THEN <<>>
        ELSE IF n \in I THEN Append(pick[n - 1], s[n]) ELSE pick[n - 1]
  IN pick[Len(s)]

\* The sizes of the entries of s, added up.
Bytes(s) ==
  LET sum[n \in 0..Len(s)] == IF n = 0 THEN 0 ELSE sum[n - 1] + s[n].size
  IN sum[Len(s)]
=============================================================================
