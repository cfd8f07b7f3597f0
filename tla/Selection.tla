------------------------------- MODULE Selection -------------------------------
(***************************************************************************)
(* The loops of the code that collect, in their order, those elements of a *)
(* slice that pass a test, and powers of two.  Both are recursive          *)
(* functions, about which TLAPS can reason, unlike SelectSeq and ^.        *)
(***************************************************************************)
EXTENDS Integers, Sequences

\* The elements of s that are in S, in the order of s.
Select(s, S) ==
  LET upTo[n \in 0 .. Len(s)] ==
        IF n = 0 THEN <<>>
        ELSE IF s[n] \in S THEN Append(upTo[n - 1], s[n]) ELSE upTo[n - 1]
  IN  upTo[Len(s)]

\* 2 to the powers 0 .. n.
PowersOfTwo(n) ==
  LET power[k \in 0 .. n] == IF k = 0 THEN 1 ELSE 2 * power[k - 1]
  IN  power

================================================================================
