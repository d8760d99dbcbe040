----------------------------- MODULE Comparison -----------------------------
(***************************************************************************)
(* DataComparator (database/utilities/comparison.py): what it means that   *)
(* two payloads agree.  Numbers are integers and percentages exact; a text *)
(* is its words and a form, the case and the blanks that comparing ignores. *)
(***************************************************************************)
EXTENDS Integers

Null == [kind |-> "null"]
Number(n) == [kind |-> "number", n |-> n]
Flag(b) == [kind |-> "flag", n |-> IF b THEN 1 ELSE 0]
Text(words, form) == [kind |-> "text", words |-> words, form |-> form]

\* Case and blanks of a text do not count, and a Python bool equals 0 or 1.
Normalize(value) ==
    CASE value.kind = "text" -> [value EXCEPT !.form = 0]
      [] value.kind = "flag" -> Number(value.n)
      [] OTHER -> value

\* A tolerance has at most one percentage and at most one absolute margin.
Percentage(p) == [percentage |-> {p}, absolute |-> {}]
Absolute(m) == [percentage |-> {}, absolute |-> {m}]
Either(p, m) == [percentage |-> {p}, absolute |-> {m}]

Distance(a, b) == IF a < b THEN b - a ELSE a - b

\* Mutant of WithinTolerance: the percentage is of the actual value.
WithinActual(expected, actual, tolerance) ==
    \/ \E p \in tolerance.percentage :
          100 * Distance(actual, expected) <= p * Distance(actual, 0)
    \/ \E m \in tolerance.absolute : Distance(actual, expected) <= m

\* Either margin will do; a percentage of zero is zero.
WithinTolerance(expected, actual, tolerance) ==
    \/ \E p \in tolerance.percentage :
          100 * Distance(actual, expected) <= p * Distance(expected, 0)
    \/ \E m \in tolerance.absolute : Distance(actual, expected) <= m

\* tolerances: the one that was given, or none.  Only two numbers have one.
FieldMatches(expected, actual, tolerances) ==
    IF expected = Null \/ actual = Null THEN expected = actual
    ELSE IF tolerances # {} /\ expected.kind = "number" /\ actual.kind = "number"
    THEN \A tolerance \in tolerances : WithinTolerance(expected.n, actual.n, tolerance)
    ELSE Normalize(expected) = Normalize(actual)

\* A payload is a function from fields to values; a missing field is null.
FieldOf(payload, f) == IF f \in DOMAIN payload THEN payload[f] ELSE Null

\* What is compared when no fields are given.
CommonFields(left, right) == DOMAIN left \cap DOMAIN right

Diffs(left, right, fields, tolerances) ==
    {f \in fields : ~FieldMatches(FieldOf(left, f), FieldOf(right, f), tolerances)}

Matched(left, right, fields, tolerances) == Diffs(left, right, fields, tolerances) = {}

\* compare_all: UI and API, API and database, UI and database.
AllAgree(ui, api, db, fields, tolerances) ==
    /\ Matched(ui, api, fields, tolerances)
    /\ Matched(api, db, fields, tolerances)
    /\ Matched(ui, db, fields, tolerances)
=============================================================================
