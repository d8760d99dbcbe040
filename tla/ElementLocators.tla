--------------------------- MODULE ElementLocators ---------------------------
(***************************************************************************)
(* Which locator discovery records for an element of a page, and which     *)
(* elements that locator finds when a test uses it (discovery/             *)
(* ui_discovery.py, locators/locator_strategy.py).  Of an element only     *)
(* what tells locators apart is kept: an attribute or a text has one value *)
(* of its own, or is Empty.                                                *)
(***************************************************************************)
EXTENDS Integers, Sequences, SequencesExt

Empty == ""
Locator(strategy, value, name) == [strategy |-> strategy, value |-> value, name |-> name]
NoLocator == Locator("none", Empty, Empty)
Or(first, second) == IF first # Empty THEN first ELSE second

ImplicitRoles ==
    [tag \in {"a", "button", "select", "textarea", "input", "div"} |->
        CASE tag = "a" -> "link"
          [] tag = "select" -> "combobox"
          [] tag \in {"textarea", "input"} -> "textbox"
          [] tag = "button" -> "button"
          [] tag = "div" -> Empty]
\* What a page makes of an element: any other tag is a div and there for its
\* role; type is that of an input, or "multiple"; odd are the attributes that
\* mean something else inside a selector: an id that is no identifier (one with
\* a dot, a colon or a digit in front), a name with a quote or a backslash.
InputTypes == {Empty, "text", "email", "checkbox", "radio", "submit", "button", "number", "hidden"}
IsElement(raw) ==
    /\ raw.tag \in DOMAIN ImplicitRoles
    /\ raw.tag = "div" => raw.role # Empty
    /\ raw.type \in InputTypes \cup {"multiple"}
    /\ raw.tag = "input" => raw.type \in InputTypes /\ raw.text = Empty
    /\ raw.testattr \in {"data-testid", "data-test-id"}
    /\ raw.odd \subseteq {"id", "name"}
RoleOf(raw) == Or(raw.role, ImplicitRoles[raw.tag])

\* Mutant of AccessibleName: every element's text counts.
TextOrLabel(raw) == Or(raw.aria, raw.text)

\* The text inside a form control is not its name.
AccessibleName(raw) ==
    Or(raw.aria, IF raw.tag \in {"button", "a"} \/ RoleOf(raw) \in {"button", "link"}
                   THEN raw.text ELSE Empty)

\* The first that applies.  A css locator stands for the selector #id or
\* tag[name="name"], into which the attribute goes as it is.
BestLocator(raw) ==
    LET name == AccessibleName(raw)
        candidates ==
            << Locator("test_id", raw.testid, Empty),
               Locator("role", IF name # Empty THEN RoleOf(raw) ELSE Empty, name),
               Locator("label", raw.label, Empty),
               Locator("css", raw.id, Empty),
               Locator("css", raw.name, raw.tag) >>
        first == SelectInSeq(candidates, LAMBDA l : l.value # Empty)
    IN  IF first = 0 THEN NoLocator ELSE candidates[first]

-----------------------------------------------------------------------------
(* The browser: roles and names are those of the accessibility tree.       *)

InputRole(type) ==
    CASE type \in {Empty, "text", "email"} -> "textbox"
      [] type \in {"checkbox", "radio"} -> type
      [] type \in {"submit", "button"} -> "button"
      [] type = "number" -> "spinbutton"
      [] type = "hidden" -> Empty
BrowserRole(raw) ==
    CASE raw.role # Empty -> raw.role
      [] raw.role = Empty /\ raw.tag = "input" -> InputRole(raw.type)
      [] raw.role = Empty /\ raw.tag = "select" /\ raw.type = "multiple" -> "listbox"
      [] OTHER -> ImplicitRoles[raw.tag]

\* A label counts for form controls only.
LabelOf(raw) ==
    IF raw.tag \in {"button", "input", "select", "textarea"} /\ raw.type # "hidden"
    THEN raw.label ELSE Empty
NamedByContent ==
    {"button", "cell", "checkbox", "columnheader", "gridcell", "heading", "link", "menuitem",
     "menuitemcheckbox", "menuitemradio", "option", "radio", "row", "rowheader", "switch", "tab",
     "tooltip", "treeitem"}
BrowserLabel(raw) == Or(raw.labelledby, Or(raw.aria, LabelOf(raw)))
BrowserName(raw) ==
    Or(BrowserLabel(raw), IF BrowserRole(raw) \in NamedByContent THEN raw.text ELSE Empty)

\* get_by_test_id looks at data-testid, as nothing sets another attribute.
Finds(locator, raw) ==
    \/ locator.strategy = "test_id" /\ raw.testattr = "data-testid" /\ locator.value = raw.testid
    \/ /\ locator.strategy = "role"
       /\ locator.value = BrowserRole(raw) /\ locator.name = BrowserName(raw)
    \/ locator.strategy = "label" /\ locator.value = BrowserLabel(raw)
    \/ /\ locator.strategy = "css"
       /\ \/ "id" \notin raw.odd /\ <<locator.value, locator.name>> = <<raw.id, Empty>>
          \/ "name" \notin raw.odd /\ <<locator.value, locator.name>> = <<raw.name, raw.tag>>

-----------------------------------------------------------------------------
(* Which elements get a locator that does not find them, by what stands in *)
(* the page.                                                               *)

\* Recorded by role and name: the script read a label or the text.
Named(raw) ==
    \/ raw.aria # Empty
    \/ raw.text # Empty /\ (raw.tag \in {"a", "button"} \/ raw.role \in {"button", "link"})

\* An input or a list that is no textbox or combobox, and whose role is not said.
OtherRole(raw) ==
    /\ raw.role = Empty
    /\ \/ raw.tag = "input" /\ raw.type \notin {Empty, "text", "email"}
       \/ raw.tag = "select" /\ raw.type = "multiple"

\* The name is another element's text; or a label comes before the text, or the
\* text does not count.
OtherName(raw) ==
    \/ raw.labelledby # Empty
    \/ raw.aria = Empty /\ LabelOf(raw) # Empty
    \/ raw.aria = Empty /\ BrowserRole(raw) \notin NamedByContent

Misses(raw) ==
    \/ raw.testid # Empty /\ raw.testattr = "data-test-id"
    \/ /\ raw.testid = Empty
       /\ \/ Named(raw) /\ (OtherRole(raw) \/ OtherName(raw))
          \/ /\ ~Named(raw)
             /\ \/ raw.label # Empty /\ (raw.labelledby # Empty \/ LabelOf(raw) = Empty)
                \/ raw.label = Empty /\ raw.id # Empty /\ "id" \in raw.odd
                \/ raw.label = Empty /\ raw.id = Empty /\ raw.name # Empty /\ "name" \in raw.odd

\* What names an element is said in different words.
NamesDiffer(raw) ==
    /\ raw.labelledby = Empty \/ raw.labelledby \notin {raw.aria, raw.label, raw.text}
    /\ raw.label = Empty \/ raw.label # raw.text
=============================================================================
