---------------------------- MODULE ContentModel ----------------------------
(***************************************************************************)
(* The content-model gate, tools/c/view0_conformance/g03_r2a.c: do the     *)
(* children of an element, taken together, make up what it may contain?    *)
(* An element is reported when it is left, at most once.                   *)
(*                                                                         *)
(* The gate leaves to the element-context gate what that one reports: a    *)
(* ruby with an rp out of place is not reported here as well.              *)
(***************************************************************************)
EXTENDS HtmlDocument

CONSTANT MaxDepth           \* G03_R2A_MAX_DEPTH, 4097 in the code

Counted == {"summary", "heading", "img", "figcaption", "selectedcontent"}

Blank(tag) ==
    [tag |-> tag, parentTag |-> None, node |-> NoNode, authored |-> TRUE, attrs |-> {},
     above |-> {}, meaningful |-> 0, text |-> FALSE, count |-> [k \in Counted |-> 0],
     firstCaption |-> -1, lastCaption |-> -1, branches |-> {}, firstButton |-> FALSE,
     admitted |-> FALSE, violation |-> FALSE, ruby |-> "need base", rp |-> FALSE,
     rpAfterRt |-> FALSE, previous |-> None, rubyWrong |-> FALSE, rpWrong |-> FALSE]

Begin ==
    [frames |-> [d \in 0..MaxDepth |-> Blank(None)], depth |-> 0, found |-> <<>>,
     deferred |-> {}, failed |-> FALSE]

Frame(e) == e.frames[e.depth]
TagsTo(e, d) == {e.frames[k].tag : k \in 0..d}
SelectDiv(p) == p.tag = "div" /\ p.above \cap SelectFamily # {}
IsPhrasing(tag) == "phrasing" \in Categories(tag)

-----------------------------------------------------------------------------
(* Ruby: base text, then an rt, or an rp and its rt and rp.                *)

RubySettleRp(f, nextTag) ==
    [f EXCEPT !.rp = FALSE, !.rpAfterRt = FALSE,
              !.rpWrong = @ \/ (f.rp /\ ~f.rpAfterRt /\ nextTag # "rt")]

RubyBase(f) ==
    CASE f.ruby = "rp need rp" -> [f EXCEPT !.rubyWrong = TRUE]
      [] f.ruby = "rp need rt" -> [f EXCEPT !.rpWrong = TRUE]
      [] OTHER -> [f EXCEPT !.ruby = "base"]

RubyRt(f) ==
    CASE f.ruby = "base" -> [f EXCEPT !.ruby = "rt"]
      [] f.ruby = "rt" -> f
      [] f.ruby \in {"rp need rt", "rp complete"} -> [f EXCEPT !.ruby = "rp need rp"]
      [] OTHER -> [f EXCEPT !.rubyWrong = TRUE]

RubyRp(f) ==
    LET pending == [f EXCEPT !.rp = TRUE, !.rpAfterRt = f.previous = "rt"]
    IN CASE f.ruby = "base" -> [pending EXCEPT !.ruby = "rp need rt"]
         [] f.ruby = "rp need rp" -> [pending EXCEPT !.ruby = "rp complete"]
         [] f.ruby = "need base" -> [pending EXCEPT !.ruby = "rp need rt", !.rubyWrong = TRUE]
         [] f.ruby = "rt" -> [pending EXCEPT !.rubyWrong = TRUE]
         [] OTHER -> pending

RubyConsume(f, tag) ==
    LET g == RubySettleRp(f, tag)
        past(h) == [h EXCEPT !.previous = IF IsText(tag) THEN None ELSE tag]
    IN CASE tag \in Unclassified -> g
         [] IsText(tag) \/ IsPhrasing(tag) -> past(RubyBase(g))
         [] tag = "rt" -> past(RubyRt(g))
         [] tag = "rp" -> past(RubyRp(g))
         [] OTHER -> past(g)

FinalizeRuby(f) ==
    LET g == RubySettleRp(f, None)
        wrong == g.rubyWrong \/ g.ruby \in {"need base", "base", "rp need rp"}
        owned == g.rpWrong \/ g.ruby = "rp need rt"
    IN wrong /\ ~owned

-----------------------------------------------------------------------------
(* A child that the element-context gate lets in for an ancestor, but that *)
(* this very parent does not contain.                                      *)

(* above: the tags from the root to p. *)
Residual(above, p, tag) ==
    LET lists == {"ol", "ul", "menu"}
    IN CASE tag = "li" -> above \cap lists # {} /\ p.tag \notin lists
         [] tag = "optgroup" -> "select" \in above /\ p.tag # "select" /\ ~SelectDiv(p)
         [] tag = "option" ->
                /\ above \cap {"datalist", "select", "optgroup"} # {}
                /\ p.tag \notin {"datalist", "select", "optgroup"} /\ ~SelectDiv(p)
         [] tag = "div" ->
                /\ above \cap SelectFamily # {}
                /\ p.tag \notin SelectFamily \cup FlowParents /\ ~SelectDiv(p)
         [] tag = "hr" ->
                /\ "select" \in above /\ p.tag # "select" /\ ~SelectDiv(p)
                /\ "flow" \notin Categories(p.tag)
                /\ p.tag \in {"option", "optgroup"} \/ IsPhrasing(p.tag)
         [] OTHER -> FALSE

-----------------------------------------------------------------------------
(* What an option contains depends on its attributes. *)

OptionMixes(p) == "label" \notin p.attrs /\ "datalist" \notin p.above
OptionNothing(p) == {"label", "value"} \subseteq p.attrs
OptionTextOnly(p) ==
    IF "label" \in p.attrs THEN "value" \notin p.attrs ELSE "datalist" \in p.above

OptionChild(p, tag) ==
    LET branch == IF ~OptionMixes(p) THEN {}
                  ELSE IF tag = "div" THEN {"div"}
                  ELSE IF IsPhrasing(tag) THEN {"phrasing"} ELSE {}
        mixed == OptionMixes(p) /\ {"div", "phrasing"} \subseteq p.branches \cup branch
        refused == {"hr", "option", "optgroup"} \cup IF OptionTextOnly(p) THEN {"div"} ELSE {}
    IN [p EXCEPT !.branches = @ \cup branch,
                 !.violation = @ \/ mixed \/ (~OptionNothing(p) /\ tag \in refused)]

Branch(p, tag) ==
    CASE p.tag = "dl" /\ tag = "div" -> {"div"}
      [] p.tag = "dl" /\ tag \in {"dt", "dd"} -> {"terms"}
      [] p.tag = "div" /\ p.parentTag = "dl" /\ tag \in {"dt", "dd"} -> {"terms"}
      [] p.tag = "datalist" /\ tag = "option" -> {"option"}
      [] p.tag = "datalist" /\ tag \notin ScriptSupporting /\ IsPhrasing(tag) -> {"phrasing"}
      [] OTHER -> {}

Counts(p, tag) ==
    CASE p.tag = "details" /\ tag = "summary" -> {"summary"}
      [] p.tag = "hgroup" /\ tag \in Headings -> {"heading"}
      [] p.tag = "picture" /\ tag = "img" -> {"img"}
      [] p.tag = "figure" /\ tag = "figcaption" -> {"figcaption"}
      [] OTHER -> {}

ElementChild(e, p, tag) ==
    LET counts == Counts(p, tag)
        caption == "figcaption" \in counts
        q == [p EXCEPT
                !.branches = @ \cup Branch(p, tag),
                !.count = [k \in Counted |-> IF k \in counts THEN @[k] + 1 ELSE @[k]],
                !.firstCaption = IF caption /\ @ = -1 THEN p.meaningful ELSE @,
                !.lastCaption = IF caption THEN p.meaningful ELSE @,
                !.firstButton = @ \/ (p.tag = "select" /\ p.meaningful = 0 /\ tag = "button"),
                !.violation = \/ @ \/ Residual(TagsTo(e, e.depth), p, tag)
                              \/ p.tag = "optgroup" /\ tag \in {"hr", "optgroup"}]
    IN IF p.tag = "option" THEN OptionChild(q, tag) ELSE q

TextChild(p) ==
    [p EXCEPT !.text = TRUE,
              !.branches = @ \cup IF p.tag = "datalist" \/ (p.tag = "option" /\ OptionMixes(p))
                                  THEN {"phrasing"} ELSE {}]

-----------------------------------------------------------------------------
(* What is known when an element is left. *)

DisplaySize(f) ==
    CASE f.authored /\ "size-1" \in f.attrs -> 1
      [] f.authored /\ "size-2" \in f.attrs -> 2
      [] OTHER -> IF "multiple" \in f.attrs THEN 4 ELSE 1

TextFree ==
    {"table", "ol", "ul", "menu", "tr", "tbody", "thead", "tfoot", "optgroup", "hgroup",
     "picture", "select", "dl"}

(* finalize_parent *)
Incomplete(f) ==
    \/ f.tag \in TextFree /\ f.text
    \/ f.tag = "dl" /\ {"terms", "div"} \subseteq f.branches
    \/ f.tag = "div" /\ f.parentTag = "dl" /\ (f.text \/ "terms" \notin f.branches)
    \/ /\ f.tag = "figure" /\ f.count["figcaption"] = 2
       /\ f.firstCaption = 0 /\ f.lastCaption + 1 = f.meaningful
    \/ f.tag = "datalist" /\ {"phrasing", "option"} \subseteq f.branches
    \/ f.tag = "colgroup" /\ "span" \notin f.attrs /\ f.text
    \/ f.tag = "details" /\ f.count["summary"] = 0
    \/ f.tag = "button" /\ f.admitted /\ f.count["selectedcontent"] > 1
    \/ f.tag = "title" /\ ~f.text
    \/ f.tag = "hgroup" /\ f.count["heading"] # 1
    \/ f.tag = "picture" /\ f.count["img"] # 1
    \/ f.tag = "select" /\ f.firstButton /\ DisplaySize(f) # 1
    \/ f.tag = "ruby" /\ FinalizeRuby(f)

-----------------------------------------------------------------------------
(* The callbacks of the walk. *)

Defer(e, kinds) == [e EXCEPT !.deferred = @ \cup kinds]

(* The nearest admitted button above counts a selectedcontent. *)
AdmittedAbove(e, depth) ==
    {d \in 0..depth - 1 : e.frames[d].tag = "button" /\ e.frames[d].admitted}

Enter(e, o) ==
    IF o.depth > MaxDepth THEN [e EXCEPT !.failed = TRUE]
    ELSE
    LET admitted == /\ o.tag = "button" /\ o.depth # 0
                    /\ e.frames[o.depth - 1].tag = "select" /\ e.frames[o.depth - 1].firstButton
        fresh == [Blank(o.tag) EXCEPT
                    !.parentTag = o.parentTag, !.node = o.node, !.authored = o.authored,
                    !.above = TagsTo(e, o.depth - 1), !.admitted = admitted]
        buttons == IF o.tag = "selectedcontent" THEN AdmittedAbove(e, o.depth) ELSE {}
        nearest == CHOOSE d \in buttons : \A b \in buttons : b <= d
        entered == [e EXCEPT !.depth = o.depth, !.frames[o.depth] = fresh]
        counted == IF buttons = {} THEN entered
                   ELSE [entered EXCEPT !.frames[nearest].count["selectedcontent"] = @ + 1]
    IN Defer(counted, IF o.authored THEN {o.tag} \cap {"style", "script"} ELSE {})

Attributes(e, attrs) == [e EXCEPT !.frames[e.depth].attrs = attrs]

Child(e, c) ==
    LET f == Frame(e)
        p == IF f.tag = "ruby" THEN RubyConsume(f, c.tag) ELSE f
        q == CASE c.tag \in Unclassified \cup {"#blank"} -> p
               [] c.tag = "#text" -> TextChild(p)
               [] OTHER -> ElementChild(e, p, c.tag)
        unknown == c.tag \in Unclassified /\ (f.authored \/ f.tag = "ruby")
        after == [q EXCEPT !.meaningful = IF Meaningful(c.tag) THEN @ + 1 ELSE @]
    IN Defer([e EXCEPT !.frames[e.depth] = after], IF unknown THEN {"unclassified"} ELSE {})

Leave(e, o) ==
    LET f == e.frames[o.depth]
        platform == /\ f.authored /\ f.tag = "select" /\ f.firstButton /\ DisplaySize(f) = 1
                    /\ "multiple" \in f.attrs
        wrong == f.authored /\ (f.violation \/ Incomplete(f))
        left == [e EXCEPT !.depth = IF o.depth = 0 THEN 0 ELSE o.depth - 1,
                          !.found = IF wrong THEN Append(@, f.node) ELSE @]
    IN Defer(left, IF platform THEN {"select platform"} ELSE {})

-----------------------------------------------------------------------------
(* What the walk must find, said of the children of an element at once.    *)

Descendants(doc, n) == {m \in DOMAIN doc : n \in ToSet(PathUp(doc, Parent(doc, m)))}

(* rt alone, or rt in parentheses. *)
Annotation(s) ==
    /\ s # <<>>
    /\ \/ ToSet(s) = {"rt"}
       \/ /\ Len(s) > 2 /\ Len(s) % 2 = 1
          /\ \A k \in DOMAIN s : s[k] = IF k % 2 = 1 THEN "rp" ELSE "rt"

RubyMatches(tags) ==
    LET base(k) == tags[k] \notin {"rt", "rp"}
    IN /\ tags # <<>> /\ base(1) /\ ~base(Len(tags))
       /\ \A i, j \in DOMAIN tags :
            (/\ i <= j /\ \A k \in i..j : ~base(k)
             /\ i = 1 \/ base(i - 1)
             /\ j = Len(tags) \/ base(j + 1))
                => Annotation(SubSeq(tags, i, j))

OptionMatches(p, tags) ==
    /\ OptionMixes(p) => ~("div" \in tags /\ \E t \in tags : t = "#text" \/ IsPhrasing(t))
    /\ OptionNothing(p) \/ tags \cap {"hr", "option", "optgroup"} = {}
    /\ (OptionTextOnly(p) /\ ~OptionNothing(p)) => "div" \notin tags

MeaningfulIn(doc, n) == SelectSeq(ChildrenOf(doc, n), LAMBDA m : Meaningful(doc[m].tag))
FirstTag(doc, n) ==
    LET kids == MeaningfulIn(doc, n) IN IF kids = <<>> THEN None ELSE doc[kids[1]].tag

(* The frame of n when all of its children are known. *)
Whole(doc, n) ==
    LET kids == MeaningfulIn(doc, n)
        tags == {doc[kids[k]].tag : k \in DOMAIN kids}
        p == [Blank(doc[n].tag) EXCEPT !.parentTag = TagOf(doc, Parent(doc, n)),
                                       !.attrs = doc[n].attrs, !.above = AncestorTags(doc, n)]
        of(tag) == {k \in DOMAIN kids : tag \in Counts(p, doc[kids[k]].tag)}
    IN [p EXCEPT
          !.meaningful = Len(kids), !.text = "#text" \in tags,
          !.branches = UNION {Branch(p, t) : t \in tags}
                       \cup IF p.tag = "datalist" /\ "#text" \in tags THEN {"phrasing"} ELSE {},
          !.count = [k \in Counted |->
                        IF k = "selectedcontent"
                        THEN Cardinality({m \in Descendants(doc, n) : doc[m].tag = k})
                        ELSE Cardinality(of(k))],
          !.firstCaption = IF of("figcaption") = {} THEN -1 ELSE Min(of("figcaption")) - 1,
          !.lastCaption = IF of("figcaption") = {} THEN -1 ELSE Max(of("figcaption")) - 1,
          !.firstButton = p.tag = "select" /\ FirstTag(doc, n) = "button",
          !.admitted = p.parentTag = "select" /\ FirstTag(doc, doc[n].parent) = "button"]

KidTags(doc, n) == LET kids == ChildrenOf(doc, n) IN {doc[kids[k]].tag : k \in DOMAIN kids}
IsKnown(tag) == IsElement(tag) /\ tag \notin Unclassified

(* tags: the children of n, or those of them that are looked at. *)
MatchesWith(doc, n, tags) ==
    LET f == Whole(doc, n)
        known == {t \in tags : IsKnown(t)}
    IN /\ f.tag # "ruby" => ~Incomplete(f)
       /\ f.tag = "option" => OptionMatches(f, tags)
       /\ f.tag = "optgroup" => known \cap {"hr", "optgroup"} = {}
       /\ \A t \in known : ~Residual(f.above \cup {f.tag}, f, t)

Matches(doc, n) == MatchesWith(doc, n, KidTags(doc, n))

Authored(doc) == {n \in DOMAIN doc : IsElement(doc[n].tag) /\ doc[n].authored}

Mismatched(doc) == {n \in Authored(doc) : doc[n].tag # "ruby" /\ ~Matches(doc, n)}

(* An option that mixes a div with text, and nothing else is wrong with it,*)
(* when no known element follows the text: its branches are compared only  *)
(* when such an element arrives.                                           *)
TextLast(doc, n) ==
    LET kids == ChildrenOf(doc, n)
    IN \A i, k \in DOMAIN kids :
          IsText(doc[kids[i]].tag) /\ IsKnown(doc[kids[k]].tag) => k < i
LateText(doc) ==
    {n \in Mismatched(doc) : /\ doc[n].tag = "option" /\ TextLast(doc, n)
                             /\ MatchesWith(doc, n, KidTags(doc, n) \ {"#text"})}

BadRubies(doc) ==
    {n \in Authored(doc) : doc[n].tag = "ruby" /\
        LET kids == ChildrenOf(doc, n) IN ~RubyMatches([k \in DOMAIN kids |-> doc[kids[k]].tag])}
=============================================================================
