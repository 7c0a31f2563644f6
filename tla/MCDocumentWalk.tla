--------------------------- MODULE MCDocumentWalk ---------------------------
(* Documents for DocumentWalk: a wrapper, and in it every sequence of a few *)
(* children out of those that matter to it.                                 *)
EXTENDS DocumentWalk

(* A tree is a tag, attributes, and trees below it. *)
With(tag, attrs, kids) == [tag |-> tag, attrs |-> attrs, kids |-> kids, authored |-> TRUE]
Tree(tag, kids) == With(tag, {}, kids)
Leaf(tag) == Tree(tag, <<>>)
Made(tag, kids) == [Tree(tag, kids) EXCEPT !.authored = FALSE]

(* The nodes of a tree in document order, the first at place + 1. *)
RECURSIVE Flat(_, _, _)
Flat(t, parent, place) ==
    FoldLeft(LAMBDA nodes, kid : nodes \o Flat(kid, place + 1, place + Len(nodes)),
             <<Node(t.tag, parent, t.attrs, t.authored)>>, t.kids)

Page(head, body) == Flat(Made("html", <<Made("head", head), Made("body", body)>>), NoNode, 0)

UpTo(S, n) == UNION {[1..k -> S] : k \in 0..n}
Pages(Wrap(_), kids, n) == {Page(<<>>, <<Wrap(k)>>) : k \in UpTo(kids, n)}
Leaves(tags) == {Leaf(t) : t \in tags}

Ruby(k) == Tree("ruby", k)
Video(k) == Tree("video", k)
Picture(k) == Tree("picture", k)
Table(k) == Tree("table", k)
List(k) == Tree("dl", k)
Figure(k) == Tree("figure", k)

RubyPages == Pages(Ruby, Leaves({"#text", "#blank", "rt", "rp"}), 4)
MediaPages == <<
    Pages(Video, Leaves({"#text", "#blank", "source", "track", "span", "x-y"})
                 \cup {With("link", {"rel-body-ok"}, <<>>), With("meta", {"itemprop"}, <<>>)}, 3),
    Pages(Picture, Leaves({"#text", "source", "track", "img", "script"}), 3)>>
TablePages ==
    Pages(Table, Leaves({"caption", "colgroup", "thead", "tfoot"})
                 \cup {Tree("tbody", <<Leaf("tr")>>), Made("tbody", <<Leaf("tr")>>)}, 4)
ListPages ==
    Pages(List, Leaves({"dt", "dd", "script", "#text"})
                \cup {Tree("div", k) : k \in UpTo(Leaves({"dt", "dd"}), 2)}, 3)
FigurePages == Pages(Figure, Leaves({"figcaption", "#text", "#blank", "img"}), 4)

FirstPages ==
    LET family == <<
        <<"fieldset", {"legend", "#text", "#blank", "input"}>>,
        <<"details", {"summary", "#text", "#blank", "p"}>>,
        <<"hgroup", {"h1", "p", "#text"}>>,
        <<"optgroup", {"legend", "option", "hr", "#text"}>>,
        <<"ul", {"li", "#text", "div"}>>,
        <<"div", {"rp", "rt", "source", "figcaption", "tr", "li", "p"}>>>>
    IN [f \in 1..6 |->
          {Page(<<>>, <<Tree(family[f][1], k)>>) : k \in UpTo(Leaves(family[f][2]), 3)}]

HeadKids ==
    Leaves({"title", "base", "style", "script", "p"})
    \cup {Tree("title", <<Leaf("#text")>>)}
    \cup {With("link", a, <<>>) : a \in {{}, {"rel-body-ok"}}}
    \cup {With("meta", a, <<>>) : a \in
            {{}, {"charset"}, {"http-equiv"}, {"http-equiv-content-type"}, {"name"}, {"itemprop"}}}
HeadPages == <<
    {Page(k, <<>>) : k \in UpTo(HeadKids, 1) \cup {<<Tree("noscript", k)>> : k \in UpTo(HeadKids, 1)}},
    {Page(<<>>, <<Tree(w, k)>>) : w \in {"p", "noscript"}, k \in UpTo(HeadKids, 1)}>>

RECURSIVE Nest(_, _)
Nest(tag, k) == IF k = 0 THEN Leaf(tag) ELSE Tree(tag, <<Nest(tag, k - 1)>>)
TooDeep == Page(<<>>, <<Nest("ins", MaxDepth)>>)

(* One element in another, three deep. *)
Links ==
    Leaves({"a", "noscript", "select", "optgroup", "option", "div", "main", "datalist", "button",
            "selectedcontent", "hr", "map", "area", "x-y"})
    \cup {With("form", {"title"}, <<>>), With("form", {}, <<>>), With("option", {"label"}, <<>>)}
Chain(w, x, y) ==
    Page(<<>>, <<[w EXCEPT !.kids = <<[x EXCEPT !.kids = <<y>>]>>]>>)
SelectLinks == {t \in Links : t.tag \in SelectFamily
                    \cup {"div", "datalist", "button", "selectedcontent", "hr", "noscript", "a"}}
Chains == <<{Chain(w, x, y) : w, x, y \in Links}, {TooDeep}>>

SelectKids ==
    Leaves({"#text", "hr", "div"})
    \cup {Tree("button", k) : k \in UpTo({Leaf("selectedcontent")}, 2)}
    \cup {With("option", a, <<k>>) :
            a \in SUBSET {"label", "value"}, k \in Leaves({"#text", "div", "option"})}
    \cup {Tree("option", k) : k \in
            UpTo(Leaves({"#text", "div", "span"}), 2)}
SelectPages == <<
    {Page(<<>>, <<With("select", a, k)>>) : a \in {{}, {"multiple"}, {"size-2"}, {"multiple", "size-1"}},
                                            k \in UpTo(SelectKids, 2)},
    {Page(<<>>, <<Tree("datalist", k)>>) : k \in UpTo(SelectKids \cup Leaves({"span"}), 2)}>>

ContentPages ==
    <<RubyPages, TablePages, ListPages, FigurePages>> \o MediaPages \o FirstPages

(* What excludes in what excludes, and below it what may be excluded. *)
Excluding ==
    Leaves({"caption", "form", "th", "header", "address", "option", "audio", "dfn", "button",
            "meter", "progress", "label", "ruby", "canvas", "datalist", "div"})
    \cup {Made("form", <<>>), With("a", {"href"}, <<>>), With("option", {"label"}, <<>>)}
ExcludedOnes ==
    Leaves({"table", "form", "footer", "h1", "nav", "address", "datalist", "object", "video",
            "dfn", "meter", "progress", "label", "ruby", "a", "span", "x-y", "svg"})
    \cup {With("a", {"href"}, <<>>), With("span", {"tabindex"}, <<>>), Leaf("img"),
          With("img", {"usemap"}, <<>>), With("video", {"controls"}, <<>>)}
    \cup {With("input", a, <<>>) : a \in {{}, {"type-hidden"}, {"type-checkbox"}}}
    \cup {With("select", a, <<>>) : a \in {{}, {"multiple"}, {"size-1"}, {"size-2"}}}
Beside(w, x, y) == Page(<<>>, <<[w EXCEPT !.kids = <<x, y>>]>>)
ExclusionPages ==
    LET last == Leaves({"table", "video", "ruby", "input"})
    IN << {Chain(w, x, y) : w \in Excluding, y \in ExcludedOnes,
                            x \in Leaves({"div", "label", "ruby"}) \cup {With("a", {"href"}, <<>>)}},
          {Chain(w, x, y) : w, x \in Excluding, y \in last},
          {Beside(w, x, y) : w, x \in Excluding, y \in last},
          {Chain(Leaf("optgroup"), Leaf("legend"), y) : y \in ExcludedOnes} >>

Empty ==
    {Leaf("iframe"), Made("iframe", <<>>)}
    \cup {With("option", a, <<>>) : a \in SUBSET {"label", "value"}}
    \cup {With("colgroup", a, <<>>) : a \in {{}, {"span"}}}
NothingPages ==
    {Page(<<>>, <<Tree(w, <<[x EXCEPT !.kids = k]>>)>>) :
        w \in {"select", "table", "div"}, x \in Empty,
        k \in UpTo(Leaves({"#text", "#blank", "col", "span", "div", "selectedcontent"}), 2)}

(* Things that show and things that do not, in what ought to show something. *)
Faint ==
    Leaves({"#text", "#blank", "span", "br", "script", "x-y", "unknown", "svg"})
    \cup {With("div", {"hidden"}, <<>>), With("x-y", {"hidden"}, <<>>)}
    \cup {With("input", {"type-hidden"}, <<>>), Leaf("input"), Leaf("audio"),
          With("audio", {"controls"}, <<>>), Tree("ul", <<Leaf("li")>>), Leaf("ol")}
Subjects ==
    Leaves({"p", "time", "div", "option", "x-y", "li"})
    \cup {With("time", {"datetime"}, <<>>), With("option", {"label"}, <<>>), Made("p", <<>>)}
DlKids ==
    Leaves({"dt", "dd", "script", "p"})
    \cup {Tree("div", k) : k \in UpTo(Leaves({"dt", "dd"}), 2)}
PalpablePages == <<
    {Page(<<>>, <<[w EXCEPT !.kids = k]>>) : w \in Subjects, k \in UpTo(Faint, 2)},
    {Page(<<>>, <<Tree("section", <<Tree("dl", k)>>)>>) : k \in UpTo(DlKids, 3)},
    {Chain(w, x, y) : w \in Leaves({"select", "optgroup", "datalist", "dl"}),
                      x \in Subjects, y \in Leaves({"div", "p", "br"})},
    {Page(<<>>, <<Tree("select", <<Tree("div", <<[x EXCEPT !.kids = <<Leaf("div")>>]>>)>>)>>) :
        x \in Subjects} >>

(* Tables: cells of all sizes in two rows, the rows in one section or in two. *)
Cell(tag, attrs) == With(tag, attrs, <<>>)
Row(k) == Tree("tr", k)
Sized == {Cell("td", a) : a \in {{}, {"colspan-2"}, {"rowspan-2"}, {"rowspan-0"},
                                 {"rowspan-3", "colspan-2"}}}
Sectioned(r, q) ==
    {<<Made("tbody", <<r, q>>)>>, <<Tree("tbody", <<r, q>>)>>,
     <<Tree("tfoot", <<r>>), Tree("tbody", <<q>>)>>, <<Tree("thead", <<r>>), Made("tbody", <<q>>)>>}
SizePages == <<
    {Page(<<>>, <<Table(k)>>) :
        k \in UNION {Sectioned(Row(r), Row(q)) : r, q \in UpTo(Sized, 2)}},
    {Page(<<>>, <<Table(<<Tree("tfoot", <<Row(<<c>>)>>), Tree("tbody", <<Row(<<d>>), Row(<<e>>)>>),
                         Tree("tfoot", <<Row(<<c, c>>)>>)>>)>>) : c, d, e \in Sized} >>

RowTable(k) == Table(<<Tree("tbody", <<Row(k)>>)>>)

(* Cells that name each other, across tables too. *)
Naming ==
    {Cell("th", a) : a \in {{"id-a"}, {"id-b", "headers-a"}, {"id-a", "headers-b"},
                            {"id-a", "headers-a"}, {"headers-ab"}}}
    \cup {Cell("td", a) : a \in {{"id-a"}, {"headers-aa"}, {"headers-none"}, {"rowspan-bad"},
                                 {"colspan-out", "rowspan-out"}}}
NamingPages == <<
    Pages(RowTable, Naming, 3),
    {Page(<<>>, <<RowTable(<<c, d>>), RowTable(<<e>>)>>) : c, d, e \in Naming},
    {Page(<<>>, <<With("p", {"id-a"}, <<>>), RowTable(<<c>>)>>) : c \in Naming},
    {Page(<<>>, <<RowTable(<<Tree("td", <<RowTable(<<c>>)>>), d>>)>>) : c, d \in Naming \cup Sized} >>

(* Headers and the cells they head. *)
HeaderCell(a) == With("th", a, <<Leaf("#text")>>)
Heading ==
    {HeaderCell(a) : a \in {{}, {"scope-row"}, {"scope-col"}}} \cup {Leaf("th"), Leaf("td")}
Grouping ==
    {HeaderCell(a) : a \in {{"scope-rowgroup"}, {"scope-colgroup"}, {"colspan-2"}, {"rowspan-2"}}}
    \cup {Leaf("td")}
HeadingPages == <<
    Pages(RowTable, {HeaderCell({}), HeaderCell({"scope-row"}), Leaf("td")}, 5),
    {Page(<<>>, <<Table(<<Tree("tbody", <<Row(<<b, c>>), Row(<<d, e>>)>>)>>)>>) :
        b, c, d, e \in Heading},
    {Page(<<>>, <<Table(k)>>) :
            k \in UNION {Sectioned(Row(<<c>>), Row(<<d, e>>)) : c, d, e \in Grouping}},
    {Page(<<>>, <<Table(<<Tree("tbody", [i \in 1..3 |-> Row(<<k[i], k[i + 3]>>)])>>)>>) :
        k \in [1..6 -> {HeaderCell({}), Leaf("td")}]} >>

Columns ==
    {With("colgroup", a, k) : a \in {{}, {"span-2"}, {"span-out"}, {"span-bad"}},
        k \in UpTo({With("col", a, <<>>) : a \in {{}, {"span-2"}, {"span-out"}, {"span-bad"}}}, 2)}
ColumnPages == <<
    {Page(<<>>, <<Table(k \o <<Tree("tbody", <<Row(r)>>)>>)>>) :
        k \in {<<c>> : c \in Columns} \cup {<<c, With("colgroup", {"span-2"}, <<>>)>> : c \in Columns},
        r \in {<<>>, <<HeaderCell({"scope-colgroup"}), HeaderCell({"scope-bad"})>>,
               <<HeaderCell({"scope-colgroup", "colspan-2"}), Leaf("td"), HeaderCell({"scope-colgroup"})>>}},
    Pages(Table, {Leaf("caption"), Tree("caption", <<Leaf("caption")>>), Leaf("col"),
                       Tree("tbody", <<Leaf("td")>>)}, 3) >>

MCDocuments ==
    [g03_r1a |-> ContentPages \o HeadPages \o Chains,
     g03_r2a |-> ContentPages \o SelectPages \o <<{Chain(w, x, y) : w, x, y \in SelectLinks}>>,
     g03_r3a |-> ExclusionPages,
     g03_r4a |-> <<NothingPages>>,
     g03_r7a |-> PalpablePages,
     g09 |-> SizePages \o NamingPages \o HeadingPages \o ColumnPages \o <<{TooDeep}>>]

(* What a select and a datalist hold, options above all, for one gate.     *)
OptionDocuments == [g \in Gates |-> IF g = "g03_r2a" THEN SelectPages ELSE <<>>]
=============================================================================
