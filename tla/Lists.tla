-------------------------------- MODULE Lists --------------------------------
(***************************************************************************)
(* The intrusive linked lists of the kernel, as sequences of their         *)
(* elements from the head on.  An element is in a list at most once: its   *)
(* links are members of the element itself.                                *)
(***************************************************************************)
EXTENDS Integers, Sequences

In(x, s) == \E i \in 1 .. Len(s) : s[i] = x
Distinct(s) == \A i, j \in 1 .. Len(s) : s[i] = s[j] => i = j

\* The list s after every element outside K has been unlinked.
Keep(s, K) ==
    LET kept[i \in 0 .. Len(s)] ==
            IF i = 0 THEN <<>>
            ELSE IF s[i] \in K THEN Append(kept[i - 1], s[i]) ELSE kept[i - 1]
    IN  kept[Len(s)]

=============================================================================
