------------------------ MODULE DescendantExclusion ------------------------
(***************************************************************************)
(* The gates that forbid what lies below an element: the descendants an    *)
(* element excludes, tools/c/view0_conformance/g03_r3a.c, and the elements *)
(* that allow no content at all, g03_r4a.c.  Both run after the            *)
(* element-context gate and pass over what that one has reported.          *)
(***************************************************************************)
EXTENDS HtmlDocument

CONSTANT MaxDepth           \* G03_R3A_MAX_DEPTH, 4097 in the code

(* A restriction is named for an element that activates it. *)
Restrictions ==
    {"caption", "form", "dt", "header", "address", "option", "video", "legend", "dfn", "button",
     "meter", "progress", "label", "ruby", "a", "canvas"}

Blank(tag) ==
    [tag |-> tag, parentTag |-> None, node |-> NoNode, authored |-> TRUE, attrs |-> {},
     inDatalist |-> FALSE, activated |-> {}, text |-> FALSE, element |-> FALSE]

(* owned: what the element-context gate has reported. *)
Begin(owned) ==
    [frames |-> [d \in 0..MaxDepth |-> Blank(None)], depth |-> 0, found |-> <<>>,
     active |-> [r \in Restrictions |-> 0], owned |-> owned, deferred |-> {}, failed |-> FALSE]

Frame(e) == e.frames[e.depth]

-----------------------------------------------------------------------------
(* What an element with its attributes is, and what it activates.          *)

Labelable == {"button", "input", "meter", "output", "progress", "select", "textarea"}

Interactive(f) ==
    \/ f.tag \in {"button", "details", "embed", "iframe", "label", "select", "textarea"}
    \/ f.tag = "a" /\ "href" \in f.attrs
    \/ f.tag \in {"audio", "video"} /\ "controls" \in f.attrs
    \/ f.tag = "img" /\ f.attrs \cap {"usemap", "controls"} # {}
    \/ f.tag = "input" /\ "type-hidden" \notin f.attrs

(* type-checkbox stands for the six kinds of input a canvas may hold. *)
AllowedInCanvas(f) ==
    \/ f.tag \in {"a", "button"}
    \/ f.tag = "img" /\ "usemap" \in f.attrs
    \/ f.tag = "input" /\ "type-checkbox" \in f.attrs
    \/ f.tag = "select" /\ f.attrs \cap {"multiple", "size-2"} # {}

(* activate_parent_restriction *)
Activates(f) ==
    LET kind == CASE f.tag = "th" -> "dt"
                  [] f.tag = "footer" -> "header"
                  [] f.tag = "audio" -> "video"
                  [] OTHER -> f.tag
        applies == CASE kind = "option" -> "label" \notin f.attrs /\ ~f.inDatalist
                     [] kind = "legend" -> f.parentTag = "optgroup"
                     [] OTHER -> TRUE
    IN IF f.authored /\ applies THEN {kind} \cap Restrictions ELSE {}

BarredTags(r) ==
    CASE r = "caption" -> {"table"}
      [] r = "dt" -> {"header", "footer", "hgroup"} \cup Headings \cup Sectioning
      [] r = "header" -> {"header", "footer"}
      [] r = "address" -> {"header", "footer", "hgroup", "address"} \cup Headings \cup Sectioning
      [] r = "option" -> {"datalist", "object"}
      [] r = "video" -> {"video", "audio"}
      [] r \in {"form", "dfn", "meter", "progress", "label", "a"} -> {r}
      [] OTHER -> {}

(* count: how many times r is active where f stands. *)
Barred(r, f, count) ==
    \/ f.tag \in BarredTags(r)
    \/ r \in {"option", "legend", "button", "a"} /\ (Interactive(f) \/ "tabindex" \in f.attrs)
    \/ r = "canvas" /\ Interactive(f) /\ ~AllowedInCanvas(f)
    \/ r = "ruby" /\ f.tag = "ruby" /\ ~(f.parentTag = "ruby" /\ count = 1)

-----------------------------------------------------------------------------
(* The callbacks of g03_r3a. *)

Enter(e, o) ==
    IF o.depth > MaxDepth THEN [e EXCEPT !.failed = TRUE]
    ELSE [e EXCEPT
            !.depth = o.depth,
            !.frames[o.depth] = [Blank(o.tag) EXCEPT
                !.parentTag = o.parentTag, !.node = o.node, !.authored = o.authored,
                !.inDatalist = "datalist" \in o.above]]

Attributes(e, attrs) == [e EXCEPT !.frames[e.depth].attrs = attrs]

Complete(e) ==
    LET f == Frame(e)
        forbidden == \E r \in Restrictions : e.active[r] # 0 /\ Barred(r, f, e.active[r])
        on == Activates(f)
        labeled == f.authored /\ e.active["label"] # 0 /\ f.tag \in Labelable
    IN [e EXCEPT
          !.found = IF f.authored /\ forbidden /\ f.node \notin e.owned THEN Append(@, f.node)
                    ELSE @,
          !.deferred = @ \cup IF labeled THEN {"labeled control"} ELSE {},
          !.active = [r \in Restrictions |-> IF r \in on THEN @[r] + 1 ELSE @[r]],
          !.frames[e.depth].activated = on]

Leave(e, o) ==
    LET off == e.frames[o.depth].activated
    IN [e EXCEPT !.depth = IF o.depth = 0 THEN 0 ELSE o.depth - 1,
                 !.active = [r \in Restrictions |-> IF r \in off THEN @[r] - 1 ELSE @[r]]]

-----------------------------------------------------------------------------
(* The callbacks of g03_r4a; it enters an element as above, but for its    *)
(* own flag.                                                               *)

AllowsNothing(f) ==
    /\ f.authored
    /\ \/ f.tag = "iframe"
       \/ f.tag = "option" /\ {"label", "value"} \subseteq f.attrs
       \/ f.tag = "colgroup" /\ "span" \in f.attrs

EnterNothing(e, o) ==
    LET entered == Enter(e, o)
        copied == o.authored /\ o.tag = "selectedcontent" /\ ~entered.failed
    IN IF copied THEN [entered EXCEPT !.deferred = @ \cup {"selectedcontent"}] ELSE entered

ChildOfNothing(e, c) ==
    IF ~AllowsNothing(Frame(e)) THEN e
    ELSE [e EXCEPT
            !.frames[e.depth].text = @ \/ c.tag = "#text",
            !.frames[e.depth].element = @ \/ (IsElement(c.tag) /\ c.node \notin e.owned)]

LeaveNothing(e, o) ==
    LET f == e.frames[o.depth]
    IN [e EXCEPT !.depth = IF o.depth = 0 THEN 0 ELSE o.depth - 1,
                 !.found = IF AllowsNothing(f) /\ (f.text \/ f.element) THEN Append(@, f.node)
                           ELSE @]

-----------------------------------------------------------------------------
(* What the walk must find, said of the whole document.                    *)

Element(doc, n) ==
    [Blank(doc[n].tag) EXCEPT
        !.parentTag = TagOf(doc, Parent(doc, n)), !.node = n, !.attrs = doc[n].attrs,
        !.authored = doc[n].authored, !.inDatalist = "datalist" \in AncestorTags(doc, n)]

Activators(doc, n, r) ==
    {a \in ToSet(PathUp(doc, Parent(doc, n))) : r \in Activates(Element(doc, a))}

Excluded(doc) ==
    {n \in DOMAIN doc :
        /\ IsElement(doc[n].tag) /\ doc[n].authored
        /\ \E r \in Restrictions :
              LET above == Activators(doc, n, r)
              IN above # {} /\ Barred(r, Element(doc, n), Cardinality(above))}

(* Elements that hold something where nothing is allowed, not counting the *)
(* elements in owned.                                                      *)
Overfull(doc, owned) ==
    {n \in DOMAIN doc :
        /\ IsElement(doc[n].tag) /\ AllowsNothing(Element(doc, n))
        /\ \E m \in DOMAIN doc :
              doc[m].parent = n /\ Meaningful(doc[m].tag) /\ m \notin owned}
=============================================================================
