-------------------------------- MODULE Lists --------------------------------
(***************************************************************************)
(* Loops over lists, as recursive functions.                               *)
(***************************************************************************)
EXTENDS Integers, Sequences

\* What a loop over the list s makes of x, one step Op(x, element) at a time.
Each(Op(_, _), x, s) ==
  LET after[i \in 0 .. Len(s)] == IF i = 0 THEN x ELSE Op(after[i - 1], s[i])
  IN  after[Len(s)]

\* The list s without the elements of K.
Without(s, K) == Each(LAMBDA kept, k : IF k \in K THEN kept ELSE Append(kept, k), <<>>, s)
=============================================================================
