-------------------------- MODULE PalpableContent --------------------------
(***************************************************************************)
(* The palpable-content gate, tools/c/view0_conformance/g03_r7a.c: does an *)
(* element that should show something have a child that does?  Whether a   *)
(* child shows is known only when the child is left, from its attributes   *)
(* and its own children.                                                   *)
(***************************************************************************)
EXTENDS HtmlDocument

CONSTANT MaxDepth           \* G03_R7A_MAX_DEPTH, 4097 in the code

StableSubjects ==
    {"body", "article", "section", "nav", "aside", "header", "footer", "address", "p", "pre",
     "blockquote", "li", "dt", "dd", "figure", "figcaption", "main", "search", "em", "strong",
     "small", "s", "cite", "q", "dfn", "abbr", "rt", "data", "code", "var", "samp", "kbd", "sub",
     "sup", "i", "b", "u", "mark", "bdi", "bdo", "span", "caption", "td", "th", "form", "label",
     "button", "datalist", "output", "progress", "meter", "fieldset", "legend", "details",
     "summary", "dialog"} \cup Headings

AlwaysPalpable ==
    {"a", "abbr", "address", "article", "aside", "b", "bdi", "bdo", "blockquote", "button",
     "canvas", "cite", "code", "data", "del", "details", "dfn", "div", "em", "embed", "fieldset",
     "figure", "footer", "form", "header", "hgroup", "i", "iframe", "img", "ins", "kbd", "label",
     "main", "map", "mark", "meter", "nav", "object", "output", "p", "picture", "pre", "progress",
     "q", "ruby", "s", "samp", "search", "section", "select", "small", "span", "strong", "sub",
     "sup", "table", "textarea", "time", "u", "var", "video"} \cup Headings

Blank(tag) ==
    [tag |-> tag, parentTag |-> None, node |-> NoNode, authored |-> TRUE, attrs |-> {},
     inDatalist |-> FALSE, term |-> FALSE, satisfied |-> FALSE, unknown |-> FALSE, li |-> FALSE,
     group |-> FALSE]

Begin ==
    [frames |-> [d \in 0..MaxDepth |-> Blank(None)], depth |-> 0, found |-> <<>>,
     deferred |-> 0, failed |-> FALSE]

Frame(e) == e.frames[e.depth]

-----------------------------------------------------------------------------

Palpable(f) ==
    /\ "hidden" \notin f.attrs
    /\ \/ f.tag \in AlwaysPalpable \cup {"svg"}
       \/ f.tag = "audio" /\ "controls" \in f.attrs
       \/ f.tag = "input" /\ "type-hidden" \notin f.attrs
       \/ f.tag = "dl" /\ f.group
       \/ f.tag \in {"menu", "ol", "ul"} /\ f.li

(* An autonomous custom element may show anything. *)
MayBePalpable(f) == f.tag = "x-y" /\ "hidden" \notin f.attrs

(* An option shows its own content when no label replaces it. *)
ShowsContent(option) == "label" \notin option.attrs /\ ~option.inDatalist

(* above: the frames from the root to the parent.  The nearest element of  *)
(* a select decides for a div in it.                                       *)
IsSubject(f, above) ==
    LET family == {k \in DOMAIN above : above[k].tag \in SelectFamily}
        nearest == above[Max(family)]
    IN /\ f.authored
       /\ \/ f.tag \in StableSubjects
          \/ /\ f.tag = "div" /\ f.parentTag # "dl"
             /\ family # {} => nearest.tag = "option" /\ ShowsContent(nearest)
          \/ f.tag = "time" /\ "datetime" \in f.attrs
          \/ f.tag = "option" /\ ShowsContent(f)

-----------------------------------------------------------------------------
(* The callbacks of the walk. *)

Enter(e, o) ==
    IF o.depth > MaxDepth THEN [e EXCEPT !.failed = TRUE]
    ELSE [e EXCEPT
            !.depth = o.depth,
            !.frames[o.depth] = [Blank(o.tag) EXCEPT
                !.parentTag = o.parentTag, !.node = o.node, !.authored = o.authored,
                !.inDatalist = "datalist" \in o.above]]

Attributes(e, attrs) == [e EXCEPT !.frames[e.depth].attrs = attrs]

(* A group of a dl is a term and a description after it; scripts between   *)
(* them do not count.                                                      *)
UpdateNameValueState(p, tag) ==
    CASE tag \in ScriptSupporting -> p
      [] tag = "dt" -> [p EXCEPT !.term = TRUE]
      [] tag = "dd" -> [p EXCEPT !.group = @ \/ p.term]
      [] OTHER -> [p EXCEPT !.term = FALSE]

Child(e, c) ==
    LET p == Frame(e)
    IN [e EXCEPT !.frames[e.depth] =
          CASE c.tag = "#blank" -> p
            [] c.tag = "#text" -> [p EXCEPT !.satisfied = TRUE]
            [] OTHER -> UpdateNameValueState([p EXCEPT !.li = @ \/ c.tag = "li"], c.tag)]

Leave(e, o) ==
    LET f == e.frames[o.depth]
        above == [k \in 1..o.depth |-> e.frames[k - 1]]
        bare == IsSubject(f, above) /\ ~f.satisfied /\ ~f.unknown
        custom == (IF f.authored /\ f.tag = "x-y" THEN 1 ELSE 0)
                  + (IF o.depth > 0 /\ MayBePalpable(f) THEN 1 ELSE 0)
        told == [e EXCEPT !.found = IF bare THEN Append(@, f.node) ELSE @,
                          !.deferred = @ + custom]
    IN IF o.depth = 0 THEN told
       ELSE [told EXCEPT
               !.depth = o.depth - 1,
               !.frames[o.depth - 1] = [@ EXCEPT
                   !.group = @ \/ (e.frames[o.depth - 1].tag = "dl" /\ f.tag = "div" /\ f.group),
                   !.satisfied = @ \/ Palpable(f),
                   !.unknown = @ \/ MayBePalpable(f)]]

-----------------------------------------------------------------------------
(* What the walk must find, said of the whole document.                    *)

(* A term and its description with only their like and scripts between. *)
HasGroup(doc, n) ==
    LET kids == ElementChildren(doc, n)
        tags == [k \in DOMAIN kids |-> doc[kids[k]].tag]
    IN \E i, j \in DOMAIN tags :
          /\ i < j /\ tags[i] = "dt" /\ tags[j] = "dd"
          /\ \A k \in i..j : tags[k] \in {"dt", "dd"} \cup ScriptSupporting

Kids(doc, n) == {m \in DOMAIN doc : doc[m].parent = n}

Element(doc, n) ==
    [Blank(doc[n].tag) EXCEPT
        !.parentTag = TagOf(doc, Parent(doc, n)), !.attrs = doc[n].attrs,
        !.authored = doc[n].authored, !.inDatalist = "datalist" \in AncestorTags(doc, n),
        !.li = \E m \in Kids(doc, n) : doc[m].tag = "li",
        !.group = \/ HasGroup(doc, n)
                  \/ doc[n].tag = "dl" /\ \E m \in Kids(doc, n) :
                                             doc[m].tag = "div" /\ HasGroup(doc, m)]

Shows(doc, m) ==
    \/ doc[m].tag = "#text"
    \/ IsElement(doc[m].tag) /\ (Palpable(Element(doc, m)) \/ MayBePalpable(Element(doc, m)))

Bare(doc) ==
    {n \in DOMAIN doc :
        LET up == PathUp(doc, Parent(doc, n))
            above == [k \in DOMAIN up |-> Element(doc, up[Len(up) + 1 - k])]
        IN /\ IsElement(doc[n].tag) /\ IsSubject(Element(doc, n), above)
           /\ ~\E m \in Kids(doc, n) : Shows(doc, m)}
=============================================================================
