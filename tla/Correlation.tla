----------------------------- MODULE Correlation -----------------------------
(***************************************************************************)
(* framework/extension/correlation.py: which capability of the existing    *)
(* framework a discovered call could use.  A capability is a record        *)
(* [category, name, method, pattern, table, titles]: pattern is the        *)
(* endpoint pattern as a sequence of segments, or NoPattern; table the     *)
(* name of a table:<name> capability, or ""; titles the page titles that   *)
(* the capability's name contains.  A catalog is a sequence of them.       *)
(***************************************************************************)
EXTENDS Integers, Sequences, FiniteSets

CONSTANTS
    Numbers,    \* the path segments that are numbers
    Singular    \* a plural segment -> the segment without its last "s"

ASSUME SingularAssumption == \A s \in DOMAIN Singular : s \notin Numbers

NoPattern == <<>>
NoCapability == ""

\* {param} stands for any one segment.
EndpointMatches(capability, path) ==
    LET pattern == capability.pattern
    IN  /\ pattern # NoPattern
        /\ Len(pattern) = Len(path.segs)
        /\ \A i \in DOMAIN pattern : pattern[i] \in {"{param}", path.segs[i]}

TableCandidates(path) ==
    LET literal == {path.segs[i] : i \in DOMAIN path.segs} \ Numbers
    IN  literal \cup {Singular[s] : s \in literal \cap DOMAIN Singular}

Correlated(call, status, capability, confidence) ==
    [call |-> call, status |-> status, capability |-> capability,
     confidence |-> confidence]

\* One match is reusable, several are a question for a person.
CorrelateCall(call, catalog) ==
    LET onPath == {i \in DOMAIN catalog : /\ catalog[i].category = "API_CLIENT"
                                          /\ EndpointMatches(catalog[i], call.path)}
        exact == {i \in onPath : catalog[i].method = call.method}
        Only(set) == catalog[CHOOSE i \in set : TRUE]
    IN  CASE Cardinality(exact) = 1 ->
               Correlated(call, "LIKELY_REUSABLE", Only(exact).name,
                          IF Only(exact).pattern = call.path.segs THEN 100 ELSE 90)
          [] exact = {} /\ Cardinality(onPath) = 1 ->
               Correlated(call, "POSSIBLY_REUSABLE", Only(onPath).name, 55)
          [] onPath = {} -> Correlated(call, "NOT_FOUND", NoCapability, 85)
          [] OTHER -> Correlated(call, "MANUAL_REVIEW", NoCapability, 30)

CorrelateCalls(calls, catalog) ==
    [n \in 1 .. Len(calls) |-> CorrelateCall(calls[n], catalog)]

\* Of two capabilities for a table the later one counts.
CorrelateDatabase(calls, catalog) ==
    LET OfTable(name) ==
            {i \in DOMAIN catalog : /\ catalog[i].category = "DATABASE_UTILITY"
                                    /\ catalog[i].table = name}
        Last(name) == CHOOSE i \in OfTable(name) : \A k \in OfTable(name) : k <= i
        Tables(call) == {name \in TableCandidates(call.path) : OfTable(name) # {}}
        One(call) ==
            CASE Tables(call) = {} -> Correlated(call, "NOT_FOUND", NoCapability, 85)
              [] Cardinality(Tables(call)) = 1 ->
                   Correlated(call, "POSSIBLY_REUSABLE",
                              catalog[Last(CHOOSE name \in Tables(call) : TRUE)].name, 50)
              [] OTHER -> Correlated(call, "MANUAL_REVIEW", NoCapability, 30)
    IN  [n \in 1 .. Len(calls) |-> One(calls[n])]
=============================================================================
