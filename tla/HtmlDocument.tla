---------------------------- MODULE HtmlDocument ----------------------------
(***************************************************************************)
(* A parsed HTML document as the gates of tools/c/view0_conformance see    *)
(* it, and the tables of elements they share.                              *)
(*                                                                         *)
(* A document is the sequence of its nodes in document order; the index of *)
(* a node stands for its offset in the source.  A text node is "#text" or, *)
(* when it is only white space between elements, "#blank".  "x-y" stands   *)
(* for any element with a hyphen in its name, "unknown" for any other that *)
(* is not among the 113 standard ones, "svg" for a foreign element.        *)
(***************************************************************************)
EXTENDS Integers, Sequences, FiniteSets, SequencesExt

Node(tag, parent, attrs, authored) ==
    [tag |-> tag, parent |-> parent, attrs |-> attrs, authored |-> authored]

(* What stands for the parent of the root, of element id NONE. *)
NoNode == 0
None == "none"

Unclassified == {None, "x-y", "unknown", "svg"}

IsText(tag) == tag \in {"#text", "#blank"}
IsElement(tag) == ~IsText(tag)
IsHtml(tag) == IsElement(tag) /\ tag # "svg"

(* A child that counts: any element, or text that is not blank. *)
Meaningful(tag) == tag # "#blank"

TagOf(doc, n) == IF n = NoNode THEN None ELSE doc[n].tag
Parent(doc, n) == IF n = NoNode THEN NoNode ELSE doc[n].parent

ChildrenOf(doc, n) == SelectSeq([i \in DOMAIN doc |-> i], LAMBDA i : doc[i].parent = n)
ElementsIn(doc, nodes) == SelectSeq(nodes, LAMBDA i : IsElement(doc[i].tag))
ElementChildren(doc, n) == ElementsIn(doc, ChildrenOf(doc, n))

(* The nodes from n up to the root, n first. *)
PathUp(doc, n) ==
    LET up[k \in 0..Len(doc)] == IF k = NoNode THEN <<>> ELSE <<k>> \o up[doc[k].parent]
    IN up[n]
AncestorTags(doc, n) == {doc[a].tag : a \in ToSet(PathUp(doc, Parent(doc, n)))}

Before(doc, n) == {m \in 1..n - 1 : doc[m].parent = doc[n].parent}
After(doc, n) == {m \in n + 1..Len(doc) : doc[m].parent = doc[n].parent}

-----------------------------------------------------------------------------
(* g03_element_categories, by category. *)

Headings == {"h1", "h2", "h3", "h4", "h5", "h6"}
Sectioning == {"article", "section", "nav", "aside"}
Embedded == {"picture", "img", "iframe", "embed", "object", "video", "audio", "canvas"}
ScriptSupporting == {"script", "template"}
Metadata == {"title", "base", "style", "link", "meta", "noscript"} \cup ScriptSupporting
Phrasing ==
    {"a", "em", "strong", "small", "s", "cite", "q", "dfn", "abbr", "ruby", "data", "time",
     "code", "var", "samp", "kbd", "sub", "sup", "i", "b", "u", "mark", "bdi", "bdo", "span",
     "br", "wbr", "ins", "del", "map", "area", "label", "input", "button", "select", "datalist",
     "textarea", "output", "progress", "meter", "slot", "link", "meta", "noscript",
     "selectedcontent"} \cup Embedded \cup ScriptSupporting
Flow ==
    {"header", "footer", "address", "p", "hr", "pre", "blockquote", "ol", "ul", "menu", "dl",
     "figure", "main", "search", "div", "table", "form", "fieldset", "details", "dialog",
     "hgroup"} \cup Headings \cup Sectioning \cup (Phrasing \ {"selectedcontent"})

Members ==
    [flow |-> Flow, phrasing |-> Phrasing, metadata |-> Metadata,
     heading |-> Headings \cup {"hgroup"}, sectioning |-> Sectioning,
     embedded |-> Embedded, script |-> ScriptSupporting]

Categories(tag) == {c \in DOMAIN Members : tag \in Members[c]}

-----------------------------------------------------------------------------
(* What the content of an element is expected to be. *)

FlowParents ==
    {"body", "article", "section", "nav", "aside", "header", "footer", "address", "blockquote",
     "li", "dt", "dd", "figure", "figcaption", "main", "search", "caption", "td", "th", "form",
     "fieldset", "details", "dialog"}
PhrasingParents ==
    Headings \cup
    {"p", "pre", "em", "strong", "small", "s", "cite", "q", "dfn", "abbr", "ruby", "rt", "data",
     "code", "var", "samp", "kbd", "sub", "sup", "i", "b", "u", "mark", "bdi", "bdo", "span",
     "label", "button", "output", "progress", "meter"}
ScriptParents ==
    {"hgroup", "ol", "ul", "menu", "dl", "picture", "table", "tbody", "thead", "tfoot", "tr",
     "select", "optgroup"}
Transparent == {"a", "ins", "del", "object", "video", "audio", "map", "slot", "canvas"}
SelectFamily == {"select", "optgroup", "option"}
=============================================================================
