----------------------------- MODULE MCDiscovery -----------------------------
(***************************************************************************)
(* Three applications: one that is longer than the crawl, with links in    *)
(* circles, named twice, elsewhere, and a redirect to another origin whose *)
(* page links back; a short one whose page has every kind of element; and  *)
(* one with a page that does not load.  Two of the tables have classes of  *)
(* one name but for case.                                                  *)
(***************************************************************************)
EXTENDS Discovery

Site(links, lands, broken, elements) ==
    [start |-> "a", links |-> links, lands |-> lands, broken |-> broken, elements |-> elements]
LinksOf(ofA, ofB, ofC, ofX) ==
    [u \in Urls |-> CASE u = "a" -> ofA [] u = "b" -> ofB [] u = "c" -> ofC
                      [] u = "x" -> ofX [] OTHER -> <<>>]
Direct == [u \in Urls |-> u]
Plain == [u \in Urls |-> {}]
Various ==
    [u \in Urls |->
        IF u # "b" THEN {}
        ELSE {raw \in [tag : DOMAIN ImplicitRoles, type : {Empty, "checkbox", "hidden", "multiple"},
                       testid : {Empty, "test"}, testattr : {"data-testid", "data-test-id"},
                       role : {Empty, "button", "combobox", "checkbox"}, aria : {Empty, "aria"},
                       labelledby : {Empty, "labelledby"}, text : {Empty, "text"}, id : {Empty, "#id"},
                       name : {Empty, "name"}, label : {Empty, "label"}, odd : SUBSET {"id", "name"}] :
                /\ IsElement(raw)
                /\ raw.type # Empty => raw.tag = IF raw.type = "multiple" THEN "select" ELSE "input"
                /\ raw.testid = Empty => raw.testattr = "data-testid"}]

MCOffers == [t \in {"one", "two"} |->
    IF t = "one" THEN {"crawl", "generate", "api"} ELSE {"ui", "db", "recommend"}]
MCOrigin == [u \in {"a", "b", "c", "d", "e", "x", "y"} |-> IF u \in {"x", "y"} THEN "other" ELSE "own"]
MCSites ==
    "long" :> Site(LinksOf(<<"a", "b", "x", "b", "c">>, <<"d", "a">>, <<"b">>, <<"e", "y">>),
                   [Direct EXCEPT !["c"] = "x"], {}, Plain)
    @@ "short" :> Site(LinksOf(<<"b", "y">>, <<"b", "a">>, <<>>, <<>>), Direct, {}, Various)
    @@ "broken" :> Site(LinksOf(<<"b", "c">>, <<"d">>, <<"a">>, <<>>), Direct, {"c"}, Plain)
MCSchema == <<<<"user", "role">>, <<"userrole">>, <<"tenant">>>>
MCEndpoints == <<"GET /users">>

\* What the theorem on the generated files asks of the names, for reports of at
\* most three entries.
ASSUME NamesAssumption ==
    LET rendered == {e \in Entries : e.kind \in {"page", "table"}}
    IN  \A entries \in UNION {[1 .. n -> rendered] : n \in 1 .. 3} :
            \A i, k \in DOMAIN entries :
                entries[i].kind = "page" /\ FileOf(entries, i) = FileOf(entries, k) => i = k
=============================================================================
