--------------------------- MODULE ElementContext ---------------------------
(***************************************************************************)
(* The element-context gate, tools/c/view0_conformance/g03_r1a.c: is every *)
(* element of the document where HTML allows it?                           *)
(*                                                                         *)
(* The gate sees the document once, in document order, and keeps one frame *)
(* for each level of depth; a frame is reused by the next element of its   *)
(* level.  What cannot be judged yet - an rp before its rt, a dt before    *)
(* its dd, a tfoot before the last tbody, a figcaption before the last     *)
(* child - is pending in the frame of the parent.                          *)
(***************************************************************************)
EXTENDS HtmlDocument

CONSTANT MaxDepth           \* G03_R1A_MAX_DEPTH, 4097 in the code

Nothing == NoNode           \* nothing pending
NoText == -1                \* no text that is not blank

Blank(tag) ==
    [tag |-> tag, parentTag |-> None, attrs |-> {}, node |-> NoNode,
     authored |-> TRUE, above |-> {}, inherited |-> {}, seen |-> {}, meaningful |-> FALSE,
     elements |-> 0, textAt |-> NoText, previous |-> None, left |-> 0, media |-> {},
     rp |-> Nothing, rpAfterRt |-> FALSE, figcaption |-> Nothing, dt |-> Nothing,
     tfoot |-> Nothing]

Begin ==
    [frames |-> [d \in 0..MaxDepth |-> Blank(None)], depth |-> 0, found |-> <<>>,
     deferred |-> 0, failed |-> FALSE]

Report(e, n) == [e EXCEPT !.found = Append(@, n)]
Frame(e) == e.frames[e.depth]
ParentFrame(e) == e.frames[e.depth - 1]
PathOf(e) == [k \in 1..e.depth + 1 |-> e.frames[k - 1]]

-----------------------------------------------------------------------------
(* The content a frame expects, and where it places a child. *)

Expected(f) ==
    CASE f.tag = "head" -> {"metadata"}
      [] f.tag \in FlowParents -> {"flow"}
      [] f.tag \in PhrasingParents -> {"phrasing"}
      [] f.tag = "time" -> IF "datetime" \in f.attrs THEN {"phrasing"} ELSE {}
      [] f.tag \in ScriptParents -> {"script"}
      [] f.tag = "datalist" -> {"phrasing", "script"}
      [] f.tag = "div" -> IF f.parentTag = "dl" THEN {"script"}
                          ELSE IF f.above \cap SelectFamily # {} THEN f.inherited
                          ELSE {"flow"}
      [] f.tag \in Transparent \cup Unclassified -> f.inherited
      [] f.tag = "noscript" -> IF f.parentTag = "head" THEN {} ELSE f.inherited
      [] f.tag = "option" -> IF "datalist" \in f.above \/ "label" \in f.attrs THEN {}
                             ELSE IF f.inherited = {} THEN {"phrasing"}
                             ELSE f.inherited
      [] f.tag \in {"legend", "summary"} -> {"phrasing", "heading"}
      [] OTHER -> {}

(* path: the frames from the root to the parent. *)
TagsOn(path) == {path[k].tag : k \in DOMAIN path}

Placement(tag, path) ==
    IF path = <<>> THEN {}
    ELSE LET expected == Expected(Last(path))
             placed == expected \cap Categories(tag)
         IN IF \/ tag \in Unclassified
               \/ /\ placed = {} /\ tag \in {"div", "noscript"}
                  /\ TagsOn(path) \cap SelectFamily # {}
            THEN expected
            ELSE placed

(* A main element allows only these around it. *)
PlainContainer(f) == f.tag \in {"html", "body", "div", "form", "x-y"}
Named(f) == f.attrs \cap {"aria-label", "title"} # {}
MainIsDeferred(path) == \E k \in DOMAIN path : path[k].tag = "form" /\ Named(path[k])

(* A div in a dl groups its terms. *)
GroupsTerms(f) == f.tag = "dl" \/ (f.tag = "div" /\ f.parentTag = "dl")

Delayed == {"link", "meta", "rp", "source", "track", "figcaption"}

(* Is the element the parent is being asked about in its place?  index is  *)
(* its position among the elements; p has seen what precedes it.           *)
InPlace(tag, path, index) ==
    LET p == Last(path)
        above == TagsOn(path)
        generic == Expected(p) \cap Categories(tag) # {}
        openTable == p.tag = "table" /\ "tr" \notin p.seen
        inHead == p.tag = "noscript" /\ p.parentTag = "head"
    IN CASE tag = "html" -> FALSE
         [] tag = "head" -> p.tag = "html" /\ index = 0
         [] tag = "body" -> p.tag = "html" /\ index = 1
         [] tag \in {"title", "base"} -> p.tag = "head"
         [] tag = "style" -> generic \/ inHead
         [] tag \in Headings \cup {"p"} -> generic \/ p.tag = "hgroup"
         [] tag = "li" -> above \cap {"ul", "ol", "menu"} # {}
         [] tag = "dt" -> GroupsTerms(p)
         [] tag = "dd" -> GroupsTerms(p) /\ p.seen \cap {"dt", "dd"} # {}
         [] tag = "div" -> generic \/ p.tag = "dl" \/ above \cap SelectFamily # {}
         [] tag = "rt" -> p.tag = "ruby"
         [] tag = "img" -> generic \/ p.tag = "picture"
         [] tag = "area" -> generic /\ "map" \in above
         [] tag = "caption" -> p.tag = "table" /\ index = 0
         [] tag \in {"colgroup", "thead"} ->
                openTable /\ p.seen \cap {"thead", "tbody", "tfoot"} = {}
         [] tag = "col" -> p.tag = "colgroup" /\ "span" \notin p.attrs
         [] tag = "tbody" -> openTable
         [] tag = "tfoot" -> p.tag = "table" /\ "tfoot" \notin p.seen
         [] tag = "tr" -> \/ p.tag \in {"tbody", "thead", "tfoot"}
                          \/ p.tag = "table" /\ "tbody" \notin p.seen
         [] tag \in {"td", "th"} -> p.tag = "tr"
         [] tag = "button" -> generic \/ (p.tag = "select" /\ ~p.meaningful)
         [] tag = "optgroup" -> "select" \in above
         [] tag = "option" -> above \cap {"datalist", "select", "optgroup"} # {}
         [] tag = "legend" -> p.tag \in {"fieldset", "optgroup"} /\ ~p.meaningful
         [] tag = "selectedcontent" ->
                \E k \in 2..Len(path) : path[k].tag = "button" /\ path[k - 1].tag = "select"
         [] tag = "summary" -> p.tag = "details" /\ ~p.meaningful
         [] tag = "noscript" ->
                /\ "noscript" \notin above
                /\ generic \/ p.tag = "head" \/ above \cap {"select", "optgroup"} # {}
         [] tag = "template" -> generic \/ (p.tag = "colgroup" /\ "span" \notin p.attrs)
         [] tag = "hr" -> generic \/ "select" \in above
         [] tag = "main" -> generic /\ \A k \in DOMAIN path : PlainContainer(path[k])
         [] OTHER -> generic

-----------------------------------------------------------------------------
(* Links and meta elements are judged when their attributes are known. *)

BodyLink(attrs) == "itemprop" \in attrs \/ "rel-body-ok" \in attrs

LinkInPlace(attrs, p) ==
    \/ "metadata" \in Expected(p)
    \/ p.tag = "noscript" /\ p.parentTag = "head"
    \/ BodyLink(attrs) /\ Expected(p) \cap {"flow", "phrasing"} # {}

MetaInPlace(attrs, p) ==
    \/ attrs \cap {"charset", "http-equiv-content-type"} # {} /\ p.tag = "head"
    \/ /\ "http-equiv" \in attrs
       /\ p.tag = "head" \/ (p.tag = "noscript" /\ p.parentTag = "head")
    \/ "name" \in attrs /\ "metadata" \in Expected(p)
    \/ "itemprop" \in attrs /\ Expected(p) \cap {"metadata", "flow", "phrasing"} # {}

IsMedia(tag) == tag \in {"video", "audio"}

IsFlowContent(tag, attrs) ==
    CASE tag = "link" -> BodyLink(attrs)
      [] tag = "meta" -> "itemprop" \in attrs
      [] OTHER -> "flow" \in Categories(tag)

(* Source and track: what p has already been left behind, text first. *)
ResourceInPlace(tag, p, textBefore) ==
    \/ tag = "source" /\ p.tag = "picture" /\ "img" \notin p.media
    \/ /\ IsMedia(p.tag) /\ "flow" \notin p.media /\ ~textBefore
       /\ tag = "source" => "track" \notin p.media

-----------------------------------------------------------------------------
(* The callbacks of the walk. *)

Enter(e, o) ==
    IF o.depth > MaxDepth THEN [e EXCEPT !.failed = TRUE]
    ELSE
    LET path == [k \in 1..o.depth |-> e.frames[k - 1]]
        fresh == [Blank(o.tag) EXCEPT
                    !.parentTag = o.parentTag, !.node = o.node,
                    !.authored = o.authored, !.above = TagsOn(path),
                    !.inherited = Placement(o.tag, path)]
        entered == [e EXCEPT !.depth = o.depth, !.frames[o.depth] = fresh]
        textBefore == Last(path).textAt # NoText /\ Last(path).textAt <= Last(path).left
        misplaced == \/ o.tag = "html" /\ o.depth # 0
                     \/ /\ o.tag \in {"source", "track"} /\ o.depth # 0
                        /\ ~ResourceInPlace(o.tag, Last(path), textBefore)
    IN IF o.authored /\ misplaced THEN Report(entered, o.node) ELSE entered

Attributes(e, attrs) == [e EXCEPT !.frames[e.depth].attrs = attrs]

(* An rp stands between an rt before it and an rt after it; one will do. *)
FinalizeRp(e, nextTag) ==
    LET p == Frame(e)
        done == [e EXCEPT !.frames[e.depth].rp = Nothing, !.frames[e.depth].rpAfterRt = FALSE]
    IN IF p.rp # Nothing /\ ~p.rpAfterRt /\ nextTag # "rt" THEN Report(done, p.rp) ELSE done

FinalizeFigcaption(e, tag) ==
    IF Frame(e).figcaption = Nothing \/ ~Meaningful(tag) THEN e
    ELSE Report([e EXCEPT !.frames[e.depth].figcaption = Nothing], Frame(e).figcaption)

SettleDt(e, tag) ==
    IF tag \in {"dt", "dd"} THEN [e EXCEPT !.frames[e.depth].dt = Nothing] ELSE e

(* As SettleTfoot, but the tfoot stays pending. *)
SettleTfootAgain(e, tag) ==
    IF Frame(e).tfoot # Nothing /\ tag \in {"tbody", "tr"} THEN Report(e, Frame(e).tfoot) ELSE e

SettleTfoot(e, tag) ==
    IF Frame(e).tfoot # Nothing /\ tag \in {"tbody", "tr"}
    THEN Report([e EXCEPT !.frames[e.depth].tfoot = Nothing], Frame(e).tfoot)
    ELSE e

JudgeFigcaption(e, c) ==
    IF Frame(e).tag # "figure" THEN Report(e, c.node)
    ELSE IF Frame(e).meaningful THEN [e EXCEPT !.frames[e.depth].figcaption = c.node]
    ELSE e

JudgeRp(e, c) ==
    IF Frame(e).tag # "ruby" THEN Report(e, c.node)
    ELSE [e EXCEPT !.frames[e.depth].rp = c.node,
                   !.frames[e.depth].rpAfterRt = Frame(e).previous = "rt"]

JudgeElement(e, c) ==
    IF ~InPlace(c.tag, PathOf(e), Frame(e).elements) THEN Report(e, c.node)
    ELSE CASE c.tag = "dt" -> [e EXCEPT !.frames[e.depth].dt = c.node]
           [] c.tag = "tfoot" -> [e EXCEPT !.frames[e.depth].tfoot = c.node]
           [] c.tag = "main" /\ MainIsDeferred(PathOf(e)) -> [e EXCEPT !.deferred = @ + 1]
           [] OTHER -> e

Judge(e, c) ==
    CASE ~c.authored \/ IsText(c.tag) \/ c.tag \in Unclassified -> e
      [] c.tag = "figcaption" -> JudgeFigcaption(e, c)
      [] c.tag = "rp" -> JudgeRp(e, c)
      [] c.tag \in Delayed \ {"figcaption", "rp"} -> e
      [] OTHER -> JudgeElement(e, c)

(* update_parent_prefix *)
Prefix(e, tag) ==
    LET p == Frame(e)
        text == [p EXCEPT !.meaningful = @ \/ Meaningful(tag), !.previous = None,
                          !.textAt = IF @ = NoText /\ Meaningful(tag) THEN p.elements ELSE @]
        element == [p EXCEPT !.meaningful = TRUE, !.previous = tag, !.elements = @ + 1,
                             !.seen = @ \cup {tag}]
    IN [e EXCEPT !.frames[e.depth] = IF IsText(tag) THEN text ELSE element]

Child(e, c) ==
    LET settled == SettleTfoot(SettleDt(FinalizeFigcaption(FinalizeRp(e, c.tag), c.tag), c.tag),
                               c.tag)
    IN Prefix(Judge(settled, c), c.tag)

Complete(e) ==
    LET noRp == FinalizeRp(e, None)
        noDt == IF Frame(e).dt = Nothing THEN noRp
                ELSE Report([noRp EXCEPT !.frames[e.depth].dt = Nothing], Frame(e).dt)
        f == Frame(e)
        misplaced == \/ f.tag = "link" /\ ~LinkInPlace(f.attrs, ParentFrame(e))
                     \/ f.tag = "meta" /\ ~MetaInPlace(f.attrs, ParentFrame(e))
        complete == [noDt EXCEPT !.frames[e.depth].figcaption = Nothing]
    IN IF f.authored /\ misplaced THEN Report(complete, f.node) ELSE complete

(* The element is behind: its parent remembers what media must know. *)
Leave(e, o) ==
    LET f == e.frames[o.depth]
        kinds == {k \in {"track", "flow"} :
                    CASE k = "track" -> f.tag = "track"
                      [] k = "flow" -> IsFlowContent(f.tag, f.attrs)}
        left(p) == [p EXCEPT !.left = @ + 1,
                      !.media = @ \cup IF IsMedia(p.tag) THEN kinds
                                       ELSE IF p.tag = "picture" THEN {f.tag} \cap {"img"}
                                       ELSE {}]
    IN IF o.depth = 0 THEN [e EXCEPT !.depth = 0]
       ELSE [e EXCEPT !.frames[o.depth - 1] = left(@), !.depth = o.depth - 1]

-----------------------------------------------------------------------------
(* What the walk must find, said of the whole document at once.            *)

(* The frames from the root to n, were each level to keep its own. *)
Frames(doc) ==
    LET to[n \in 0..Len(doc)] ==
            IF n = NoNode THEN <<>>
            ELSE LET up == to[doc[n].parent]
                 IN Append(up, [Blank(doc[n].tag) EXCEPT
                                  !.parentTag = TagOf(doc, Parent(doc, n)),
                                  !.attrs = doc[n].attrs, !.above = TagsOn(up),
                                  !.inherited = Placement(doc[n].tag, up)])
    IN to

Tags(doc, nodes) == {doc[m].tag : m \in nodes}
ElementTags(doc, nodes) == {t \in Tags(doc, nodes) : IsElement(t)}
SomeMeaningful(doc, nodes) == \E m \in nodes : Meaningful(doc[m].tag)

(* The tag next to n on one side. *)
TagBefore(doc, n) ==
    IF Before(doc, n) = {} THEN None
    ELSE doc[CHOOSE m \in Before(doc, n) : \A k \in Before(doc, n) : k <= m].tag
TagAfter(doc, n) ==
    IF After(doc, n) = {} THEN None
    ELSE doc[CHOOSE m \in After(doc, n) : \A k \in After(doc, n) : m <= k].tag

(* The source or track n, after all that precedes it. *)
ResourceAllowed(doc, n, p) ==
    LET before == Before(doc, n)
        flow == {m \in before : IsFlowContent(doc[m].tag, doc[m].attrs)}
        tags == Tags(doc, before)
    IN \/ doc[n].tag = "source" /\ p.tag = "picture" /\ "img" \notin tags
       \/ /\ IsMedia(p.tag) /\ flow = {} /\ "#text" \notin tags
          /\ doc[n].tag = "source" => "track" \notin tags

Allowed(doc, n) ==
    LET tag == doc[n].tag
        path == Frames(doc)[doc[n].parent]
        p == Last(path)
        before == Before(doc, n)
        after == After(doc, n)
        known == [p EXCEPT !.seen = ElementTags(doc, before),
                           !.meaningful = SomeMeaningful(doc, before)]
        index == Cardinality({m \in before : IsElement(doc[m].tag)})
        inPlace == InPlace(tag, Append(Front(path), known), index)
    IN CASE tag \in Unclassified -> TRUE
         [] tag = "html" -> doc[n].parent = NoNode
         [] tag = "link" -> LinkInPlace(doc[n].attrs, p)
         [] tag = "meta" -> MetaInPlace(doc[n].attrs, p)
         [] tag \in {"source", "track"} -> ResourceAllowed(doc, n, p)
         [] tag = "rp" -> p.tag = "ruby" /\ "rt" \in {TagBefore(doc, n), TagAfter(doc, n)}
         [] tag = "figcaption" ->
                /\ p.tag = "figure"
                /\ ~SomeMeaningful(doc, before) \/ ~SomeMeaningful(doc, after)
         [] tag = "dt" -> inPlace /\ Tags(doc, after) \cap {"dt", "dd"} # {}
         [] tag = "tfoot" -> inPlace /\ Tags(doc, after) \cap {"tbody", "tr"} = {}
         [] OTHER -> inPlace

Misplaced(doc) ==
    {n \in DOMAIN doc : IsElement(doc[n].tag) /\ doc[n].authored /\ ~Allowed(doc, n)}
=============================================================================
