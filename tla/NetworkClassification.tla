------------------------ MODULE NetworkClassification ------------------------
(***************************************************************************)
(* framework/extension/network_classification.py: what the network calls   *)
(* of a discovered UI are.  A call is a record [method, path, status,      *)
(* host, query, body]: path is [segs, hints], hints being the groups of    *)
(* hint strings and suffixes of this module that the path contains, and    *)
(* query and body the sets of parameter and JSON key names.                *)
(***************************************************************************)
EXTENDS Filters, FiniteSets, SequencesExt

CONSTANT AnalyticsHosts     \* hosts that contain one of _ANALYTICS_HOST_HINTS

Classes == {"AUTHENTICATION", "FRAMEWORK_ASSET", "STATIC_ASSET", "DOCUMENT",
            "ANALYTICS", "THIRD_PARTY", "APPLICATION_API", "UNKNOWN"}

\* Same origin: a body, or a path that does not end in a file name.
LooksLikeApi(call) == call.body # {} \/ "dotted" \notin call.path.hints

\* The rule chain of _classify_one, most specific first.
Rules(call, pageHost) ==
    LET hints == call.path.hints
        host == call.host
    IN  << <<"auth" \in hints, "AUTHENTICATION">>,
           <<"framework" \in hints, "FRAMEWORK_ASSET">>,
           <<"static" \in hints, "STATIC_ASSET">>,
           <<"document" \in hints, "DOCUMENT">>,
           <<host \in AnalyticsHosts, "ANALYTICS">>,
           <<host # "" /\ pageHost # "" /\ host # pageHost, "THIRD_PARTY">>,
           <<LooksLikeApi(call), "APPLICATION_API">>,
           <<TRUE, "UNKNOWN">> >>

ClassOf(call, pageHost) ==
    LET rules == Rules(call, pageHost)
    IN  rules[CHOOSE i \in DOMAIN rules :
                  rules[i][1] /\ \A k \in 1 .. (i - 1) : ~rules[k][1]][2]

\* The host is not part of the key.
DedupKey(call) == <<call.method, call.path, call.query, call.body>>

\* deduped and duplicate_counts: the first call of each key stands for all.
Classified(calls, pageHost) ==
    LET firsts == Among([i \in 1 .. Len(calls) |-> i],
                        {i \in DOMAIN calls :
                            \A k \in 1 .. (i - 1) : DedupKey(calls[k]) # DedupKey(calls[i])})
    IN  [n \in 1 .. Len(firsts) |->
            LET call == calls[firsts[n]]
            IN  [call |-> call,
                 class |-> ClassOf(call, pageHost),
                 count |-> Cardinality({k \in DOMAIN calls :
                                           DedupKey(calls[k]) = DedupKey(call)})]]

Summary(calls, classified) ==
    LET Count(classes) ==
            Cardinality({n \in DOMAIN classified : classified[n].class \in classes})
    IN  [raw |-> Len(calls),
         duplicates |-> Len(calls) - Len(classified),
         ignored |-> Count({"STATIC_ASSET", "FRAMEWORK_ASSET", "ANALYTICS",
                            "THIRD_PARTY", "DOCUMENT"}),
         authentication |-> Count({"AUTHENTICATION"}),
         application |-> Count({"APPLICATION_API"}),
         unknown |-> Count({"UNKNOWN"})]

\* NetworkClassificationResult.application_and_auth_calls
KeptCalls(classified) ==
    LET kept == Among(classified, {entry \in ToSet(classified) :
                                      entry.class \in {"APPLICATION_API", "AUTHENTICATION"}})
    IN  [n \in 1 .. Len(kept) |-> kept[n].call]
=============================================================================
