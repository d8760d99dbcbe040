-------------------------------- MODULE Filters --------------------------------
(***************************************************************************)
(* A list comprehension with a condition, [x for x in xs if ...], as the   *)
(* code filters elements, pages, links, calls and report rows.             *)
(***************************************************************************)
EXTENDS Naturals, Sequences, SequencesExt

\* A list, whatever is in it.
IsSequence(s) == s \in Seq(ToSet(s))

\* The elements of a sequence that are in the set, in their order.
Among(seq, set) ==
    LET among[n \in 0 .. Len(seq)] ==
            IF n = 0 THEN <<>>
            ELSE IF seq[n] \in set THEN Append(among[n - 1], seq[n]) ELSE among[n - 1]
    IN  among[Len(seq)]
================================================================================
