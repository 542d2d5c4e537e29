-------------------------------- MODULE Lists --------------------------------
(* Array.prototype.filter as a recursive function, which can be reasoned about. *)
EXTENDS Naturals, Sequences

\* The members of S in the sequence s, in order.
Among(s, S) ==
    LET upTo[n \in 0..Len(s)] ==
          IF n = 0 THEN <<>>
          ELSE IF s[n] \in S THEN Append(upTo[n - 1], s[n])
          ELSE upTo[n - 1]
    IN  upTo[Len(s)]
=============================================================================
