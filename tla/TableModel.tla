----------------------------- MODULE TableModel -----------------------------
(***************************************************************************)
(* The table gate, tools/c/view0_conformance/g09.c.  The walk collects the *)
(* tables with their column groups, row groups, rows and cells; when the   *)
(* root is left each table is laid out on its grid and judged.  A finding  *)
(* is a rule, 1 to 6, and the node it is reported at.                      *)
(***************************************************************************)
EXTENDS HtmlDocument

CONSTANT MaxDepth           \* one less than V1N2_G09_MAX_DEPTH, 511 in the code

Nowhere == 0                \* a null pointer to a table, group, row or cell

Blank(tag) ==
    [tag |-> tag, parentTag |-> None, attrs |-> {}, table |-> Nowhere, group |-> Nowhere,
     row |-> Nowhere, cell |-> Nowhere, colgroup |-> Nowhere, col |-> Nowhere]

Begin ==
    [frames |-> [d \in 0..MaxDepth |-> Blank(None)], depth |-> 0, tables |-> <<>>, ids |-> <<>>,
     found |-> <<>>, associations |-> 0, suppressed |-> 0, failed |-> FALSE]

Frame(e) == e.frames[e.depth]

-----------------------------------------------------------------------------
(* Attributes, each one token: no digits ("bad"), a number out of range    *)
(* ("out") or a number in range.  Names in a headers attribute are kept in *)
(* order; a name given twice stays twice.                                  *)

Spans == [span |-> {1, 2}, colspan |-> {1, 2}, rowspan |-> {0, 1, 2, 3}]

SpanOf(name, attrs) ==
    LET given == {n \in Spans[name] : (name \o "-" \o ToString(n)) \in attrs}
    IN IF given = {} THEN 1 ELSE Min(given)
BadSpan(name, attrs) == (name \o "-bad") \in attrs
OutOfRange(name, attrs) == (name \o "-out") \in attrs
HasSpan(attrs) == attrs \cap {"span-1", "span-2", "span-bad", "span-out"} # {}

Headers ==
    [none |-> <<>>, a |-> <<"a">>, b |-> <<"b">>, ab |-> <<"a", "b">>, aa |-> <<"a", "a">>]
HeadersGiven(attrs) == {h \in DOMAIN Headers : ("headers-" \o h) \in attrs}
HeaderNames(attrs) == Headers[CHOOSE h \in HeadersGiven(attrs) : TRUE]

Ids(attrs) == {i \in {"a", "b"} : ("id-" \o i) \in attrs}

Scopes == {"row", "col", "rowgroup", "colgroup"}
ScopeOf(attrs) ==
    LET given == {s \in Scopes : ("scope-" \o s) \in attrs}
    IN IF given = {} THEN "auto" ELSE CHOOSE s \in given : TRUE

-----------------------------------------------------------------------------
(* The walk: what is below a table belongs to it until another table.      *)

Sections == {"thead", "tbody", "tfoot"}
Cells == {"td", "th"}

NewTable(n) ==
    [node |-> n, captions |-> 0, width |-> 0, height |-> 0, colgroups |-> <<>>, groups |-> <<>>,
     rows |-> <<>>]
NewCell(o) ==
    [node |-> o.node, header |-> o.tag = "th", attrs |-> {}, empty |-> TRUE, x0 |-> 0, x1 |-> 0,
     y0 |-> 0, y1 |-> 0]

(* append_table, append_group, append_row, append_cell, append_col *)
AppendPart(e, o) ==
    LET f == Frame(e)
        t == f.table
        here == e.tables[t]
        frame(g) == [e EXCEPT !.frames[e.depth] = g]
    IN CASE o.tag = "table" ->
                [frame([f EXCEPT !.table = Len(e.tables) + 1, !.group = Nowhere,
                                 !.row = Nowhere, !.colgroup = Nowhere])
                    EXCEPT !.tables = Append(@, NewTable(o.node))]
         [] o.tag \in Sections /\ (t = Nowhere \/ ~o.authored) ->
                frame([f EXCEPT !.group = Nowhere, !.row = Nowhere])
         [] o.tag \in Sections /\ t # Nowhere /\ o.authored ->
                [frame([f EXCEPT !.group = Len(here.groups) + 1, !.row = Nowhere])
                    EXCEPT !.tables[t].groups = Append(@, [node |-> o.node, tag |-> o.tag])]
         [] o.tag = "tr" /\ t # Nowhere ->
                [frame([f EXCEPT !.row = Len(here.rows) + 1])
                    EXCEPT !.tables[t].rows =
                        Append(@, [node |-> o.node, group |-> f.group, cells |-> <<>>])]
         [] o.tag \in Cells /\ f.row # Nowhere ->
                [frame([f EXCEPT !.cell = Len(here.rows[f.row].cells) + 1])
                    EXCEPT !.tables[t].rows[f.row].cells = Append(@, NewCell(o))]
         [] o.tag = "colgroup" /\ t # Nowhere ->
                [frame([f EXCEPT !.colgroup = Len(here.colgroups) + 1])
                    EXCEPT !.tables[t].colgroups =
                        Append(@, [node |-> o.node, attrs |-> {}, cols |-> <<>>])]
         [] o.tag = "col" /\ f.colgroup # Nowhere ->
                [frame([f EXCEPT !.col = Len(here.colgroups[f.colgroup].cols) + 1])
                    EXCEPT !.tables[t].colgroups[f.colgroup].cols =
                        Append(@, [node |-> o.node, attrs |-> {}])]
         [] OTHER -> e

Enter(e, o) ==
    IF o.depth > MaxDepth THEN [e EXCEPT !.failed = TRUE]
    ELSE
    LET above == IF o.depth = 0 THEN Blank(None) ELSE e.frames[o.depth - 1]
        fresh == [above EXCEPT !.tag = o.tag, !.parentTag = o.parentTag, !.attrs = {},
                               !.cell = Nowhere, !.col = Nowhere]
    IN AppendPart([e EXCEPT !.depth = o.depth, !.frames[o.depth] = fresh], o)

Attributes(e, attrs) == [e EXCEPT !.frames[e.depth].attrs = attrs]

Child(e, c) ==
    LET f == Frame(e)
    IN IF f.cell = Nowhere \/ ~Meaningful(c.tag) THEN e
       ELSE [e EXCEPT !.tables[f.table].rows[f.row].cells[f.cell].empty = FALSE]

(* The first element with a name has it, in a table or not. *)
AppendFirstIds(e) ==
    LET f == Frame(e)
        known == {e.ids[k].name : k \in DOMAIN e.ids}
        cell == IF f.cell = Nowhere THEN NoNode
                ELSE e.tables[f.table].rows[f.row].cells[f.cell].node
        new == SetToSeq({[name |-> i, table |-> f.table, cell |-> cell] :
                            i \in Ids(f.attrs) \ known})
    IN [e EXCEPT !.ids = @ \o new]

BadSpans(names, attrs) == Cardinality({n \in names : BadSpan(n, attrs)})

Complete(e) ==
    LET f == Frame(e)
        t == f.table
        named == AppendFirstIds(e)
    IN CASE f.cell # Nowhere ->
                [named EXCEPT !.tables[t].rows[f.row].cells[f.cell].attrs = f.attrs,
                              !.suppressed = @ + BadSpans({"colspan", "rowspan"}, f.attrs)]
         [] f.tag = "caption" /\ t # Nowhere /\ f.parentTag = "table" ->
                [named EXCEPT !.tables[t].captions = @ + 1]
         [] f.tag = "colgroup" /\ f.colgroup # Nowhere ->
                [named EXCEPT !.tables[t].colgroups[f.colgroup].attrs = f.attrs,
                              !.suppressed = @ + BadSpans({"span"}, f.attrs)]
         [] f.col # Nowhere ->
                [named EXCEPT !.tables[t].colgroups[f.colgroup].cols[f.col].attrs = f.attrs,
                              !.suppressed = @ + BadSpans({"span"}, f.attrs)]
         [] OTHER -> named

-----------------------------------------------------------------------------
(* Column groups lie side by side from the left. *)

SumOf(s) == FoldLeft(+, 0, s)
WidthOf(cg) ==
    IF cg.cols = <<>> THEN SpanOf("span", cg.attrs)
    ELSE SumOf([k \in DOMAIN cg.cols |-> SpanOf("span", cg.cols[k].attrs)])

LeftOf(t, g) == SumOf([k \in 1..g - 1 |-> WidthOf(t.colgroups[k])])

(* The column group of column x, Nowhere when there is none. *)
ColumnGroupAt(t, x) ==
    LET at == {g \in DOMAIN t.colgroups :
                 LeftOf(t, g) <= x /\ x < LeftOf(t, g) + WidthOf(t.colgroups[g])}
    IN IF at = {} THEN Nowhere ELSE Min(at)

ColumnGroupFindings(cg) ==
    LET cols == SelectSeq(cg.cols, LAMBDA col : OutOfRange("span", col.attrs))
        wrong == OutOfRange("span", cg.attrs) \/ (cg.cols # <<>> /\ HasSpan(cg.attrs))
    IN [k \in DOMAIN cols |-> <<3, cols[k].node>>] \o IF wrong THEN <<<<3, cg.node>>>> ELSE <<>>

BuildColumnGroups(t) ==
    [t EXCEPT !.width = LeftOf(t, Len(t.colgroups) + 1)]

-----------------------------------------------------------------------------
(* Rows and cells. *)

Deferred(t, r) == t.rows[r].group # Nowhere /\ t.groups[t.rows[r].group].tag = "tfoot"

(* As RowOrder, but a tfoot stays where it is written. *)
RowOrderAsWritten(t) == [r \in DOMAIN t.rows |-> r]

(* The rows of a tfoot come last, wherever it is. *)
RowOrder(t) ==
    LET rows == [r \in DOMAIN t.rows |-> r]
    IN SelectSeq(rows, LAMBDA r : ~Deferred(t, r)) \o SelectSeq(rows, LAMBDA r : Deferred(t, r))
RowAt(t, r) == (CHOOSE k \in DOMAIN t.rows : RowOrder(t)[k] = r) - 1
GroupEnd(t, g) == 1 + Max({RowAt(t, r) : r \in {k \in DOMAIN t.rows : t.rows[k].group = g}})

Covers(c, x, y) == c.x0 <= x /\ x < c.x1 /\ c.y0 <= y /\ y < c.y1
Intersects(c, d) == c.x0 < d.x1 /\ d.x0 < c.x1 /\ c.y0 < d.y1 /\ d.y0 < c.y1

(* The first column from x on that no cell reaches into row y. *)
RECURSIVE Advance(_, _, _)
Advance(placed, x, y) ==
    LET over == {placed[k].x1 : k \in {j \in DOMAIN placed : Covers(placed[j], x, y)}}
    IN IF over = {} THEN x ELSE Advance(placed, Max(over), y)

RangeFindings(c) ==
    (IF OutOfRange("colspan", c.attrs) THEN <<<<6, c.node>>>> ELSE <<>>)
    \o (IF OutOfRange("rowspan", c.attrs) THEN <<<<6, c.node>>>> ELSE <<>>)

(* s: the cells placed so far, in s.placed, and the cursor x of the row.   *)
PlaceCell(s, r, k) ==
    LET t == s.table
        g == t.rows[r].group
        c == t.rows[r].cells[k]
        y == RowAt(t, r)
        x == Advance(s.placed, IF k = 1 THEN 0 ELSE s.x, y)
        span == SpanOf("rowspan", c.attrs)
        bottom == IF span # 0 THEN y + span
                  ELSE IF g # Nowhere THEN GroupEnd(t, g) ELSE t.height
        here == [c EXCEPT !.x0 = x, !.x1 = x + SpanOf("colspan", c.attrs),
                          !.y0 = y, !.y1 = bottom]
        overlap == \E j \in DOMAIN s.placed : Intersects(s.placed[j], here)
        crossing == g # Nowhere /\ bottom > GroupEnd(t, g)
    IN [s EXCEPT
          !.x = here.x1,
          !.placed = Append(@, here),
          !.table.rows[r].cells[k] = here,
          !.table.width = Max({@, here.x1}),
          !.table.height = IF g = Nowhere THEN Max({@, bottom}) ELSE @,
          !.found = @ \o RangeFindings(c)
                      \o (IF overlap THEN <<<<1, c.node>>, <<6, c.node>>>> ELSE <<>>)
                      \o (IF crossing THEN <<<<1, c.node>>, <<6, c.node>>, <<4, c.node>>>>
                          ELSE <<>>)]

PlaceRow(s, r) == FoldLeft(LAMBDA u, k : PlaceCell(u, r, k), s,
                           [k \in DOMAIN s.table.rows[r].cells |-> k])

PlaceCells(t) ==
    FoldLeft(PlaceRow,
             [table |-> [t EXCEPT !.height = Len(t.rows)], placed |-> <<>>, x |-> 0, found |-> <<>>],
             RowOrder(t))

CellsOf(t) == FoldLeft(LAMBDA all, row : all \o row.cells, <<>>, t.rows)
CellSet(t) == ToSet(CellsOf(t))

(* How far the cells that fill the band from y0 to y1 reach without a gap. *)
RECURSIVE Reach(_, _, _, _)
Reach(cells, covered, y0, y1) ==
    LET further == {c.x1 : c \in {d \in cells : d.y0 <= y0 /\ y1 <= d.y1
                                                 /\ d.x0 <= covered /\ covered < d.x1}}
    IN IF further = {} THEN covered ELSE Reach(cells, Max(further), y0, y1)

(* The rows between two edges of cells are alike. *)
VerifySparseCoverage(t) ==
    LET cells == CellSet(t)
        isEdge(y) == y \in {0, t.height} \cup UNION {{c.y0, c.y1} : c \in cells}
        edges == SelectSeq([i \in 1..t.height + 1 |-> i - 1], isEdge)
        anchor(y) == IF y < Len(t.rows) THEN t.rows[RowOrder(t)[y + 1]].node ELSE t.node
        gaps == SelectSeq([i \in 1..Len(edges) - 1 |-> i],
                          LAMBDA i : Reach(cells, 0, edges[i], edges[i + 1]) < t.width)
    IN IF t.width = 0 \/ t.height = 0 THEN <<>>
       ELSE [k \in DOMAIN gaps |-> <<1, anchor(edges[gaps[k]])>>]

-----------------------------------------------------------------------------
(* Explicit headers are edges between cells; i is the index of t. *)

NodeOfId(e, i, name) ==
    LET at == {k \in DOMAIN e.ids : e.ids[k].name = name /\ e.ids[k].table = i}
    IN IF at = {} THEN NoNode ELSE e.ids[CHOOSE k \in at : TRUE].cell

IsHeader(t, n) == \E c \in CellSet(t) : c.node = n /\ c.header

(* The target of each name in the headers of c, NoNode for a wrong one. *)
EdgesOf(e, i, c) ==
    IF HeadersGiven(c.attrs) = {} THEN <<>>
    ELSE LET names == HeaderNames(c.attrs)
         IN [k \in DOMAIN names |->
                LET n == NodeOfId(e, i, names[k])
                    again == \E j \in 1..k - 1 : names[j] = names[k]
                IN IF ~again /\ n # c.node /\ IsHeader(e.tables[i], n) THEN n ELSE NoNode]

Graph(e, i) ==
    LET t == e.tables[i]
        cellAt(n) == CHOOSE c \in CellSet(t) : c.node = n
    IN [n \in {c.node : c \in CellSet(t)} |-> EdgesOf(e, i, cellAt(n))]

EdgeFindings(edges, n) ==
    LET wrong == SelectSeq(edges[n], LAMBDA m : m = NoNode)
    IN [k \in DOMAIN wrong |-> <<6, n>>]

(* detect_explicit_cycles: depth first; 1 is on the way down, 2 is done. *)
RECURSIVE Explore(_, _, _)
Explore(edges, s, n) ==
    LET step(u, m) ==
            CASE m = NoNode \/ (m # NoNode /\ u.color[m] = 2) -> u
              [] m # NoNode /\ u.color[m] = 1 -> [u EXCEPT !.cycle = TRUE]
              [] OTHER -> Explore(edges, u, m)
        after == FoldLeft(step, [s EXCEPT !.color[n] = 1], edges[n])
    IN [after EXCEPT !.color[n] = 2]

CycleFindings(edges, order) ==
    LET visit(s, n) ==
            IF s.color[n] # 0 \/ edges[n] = <<>> THEN s
            ELSE LET u == Explore(edges, [s EXCEPT !.cycle = FALSE], n)
                 IN IF u.cycle THEN [u EXCEPT !.found = Append(@, <<6, n>>)] ELSE u
        start == [color |-> [n \in DOMAIN edges |-> 0], cycle |-> FALSE, found |-> <<>>]
    IN FoldLeft(visit, start, order).found

-----------------------------------------------------------------------------
(* Scopes, and the headers a cell has without naming them. *)

ScopeKind(c) == ScopeOf(c.attrs)

IsColumnHeader(t, c) ==
    \/ ScopeKind(c) = "col"
    \/ ScopeKind(c) = "auto"
       /\ ~\E d \in CellSet(t) : ~d.header /\ d.y0 < c.y1 /\ c.y0 < d.y1
IsRowHeader(t, c) ==
    \/ ScopeKind(c) = "row"
    \/ ScopeKind(c) = "auto" /\ ~IsColumnHeader(t, c)
       /\ ~\E d \in CellSet(t) : ~d.header /\ d.x0 < c.x1 /\ c.x0 < d.x1

(* A cell turned so that to look up is to look left. *)
Turned(c) == [c EXCEPT !.x0 = c.y0, !.x1 = c.y1, !.y0 = c.x0, !.y1 = c.x1]

(* scan_headers: from the principal cell along one line, from cell to      *)
(* cell.  The headers of a block that is over hide their like.             *)
RECURSIVE Scan(_, _, _, _, _)
Scan(cells, heading, line, boundary, s) ==
    LET near == SelectSeq(cells, LAMBDA c : c.x1 <= boundary /\ c.y0 <= line /\ line < c.y1)
        end == Max({near[k].x1 : k \in DOMAIN near})
        current == SelectSeq(near, LAMBDA c : c.x1 = end)[1]
        hidden == \E o \in s.opaque :
                    o.y0 = current.y0 /\ o.y1 - o.y0 = current.y1 - current.y0
        next == CASE current.header ->
                        [s EXCEPT !.inBlock = TRUE, !.pending = @ \cup {current},
                                  !.headers = IF ~hidden /\ current \in heading
                                              THEN @ \cup {current.node} ELSE @]
                  [] ~current.header /\ s.inBlock ->
                        [s EXCEPT !.inBlock = FALSE, !.opaque = @ \cup s.pending, !.pending = {}]
                  [] OTHER -> s
    IN IF boundary = 0 \/ near = <<>> THEN s.headers
       ELSE Scan(cells, heading, line, current.x0, next)

ScanFrom(c) ==
    [inBlock |-> c.header, pending |-> IF c.header THEN {c} ELSE {}, opaque |-> {}, headers |-> {}]

GroupOf(t, c) ==
    LET at == {r \in DOMAIN t.rows : \E k \in DOMAIN t.rows[r].cells : t.rows[r].cells[k] = c}
    IN t.rows[CHOOSE r \in at : TRUE].group

(* implicit_associations *)
GroupHeaders(t, c) ==
    {h.node : h \in {d \in CellSet(t) :
        /\ d.header /\ d.x0 < c.x1 /\ d.y0 < c.y1
        /\ \/ /\ ScopeKind(d) = "rowgroup" /\ GroupOf(t, c) # Nowhere
              /\ GroupOf(t, d) = GroupOf(t, c)
           \/ /\ ScopeKind(d) = "colgroup" /\ ColumnGroupAt(t, c.x0) # Nowhere
              /\ ColumnGroupAt(t, d.x0) = ColumnGroupAt(t, c.x0)}}

HeadersOf(t, c) ==
    LET cells == CellsOf(t)
        turned == [k \in DOMAIN cells |-> Turned(cells[k])]
        asRow == {h \in CellSet(t) : IsRowHeader(t, h)}
        asColumn == {Turned(h) : h \in {d \in CellSet(t) : IsColumnHeader(t, d)}}
        across == UNION {Scan(cells, asRow, y, c.x0, ScanFrom(c)) : y \in c.y0..c.y1 - 1}
        down == UNION {Scan(turned, asColumn, x, c.y0, ScanFrom(Turned(c))) :
                          x \in c.x0..c.x1 - 1}
        visible == {d.node : d \in {h \in CellSet(t) : ~h.empty}}
    IN ((across \cup down \cup GroupHeaders(t, c)) \cap visible) \ {c.node}

ScopeFindings(t, c) ==
    IF c.header /\ \/ ScopeKind(c) = "rowgroup" /\ GroupOf(t, c) = Nowhere
                   \/ ScopeKind(c) = "colgroup" /\ ColumnGroupAt(t, c.x0) = Nowhere
    THEN <<<<5, c.node>>>> ELSE <<>>

UnknownScope(c) == c.header /\ "scope-bad" \in c.attrs

-----------------------------------------------------------------------------

Concat(f(_), s) == FoldLeft(LAMBDA all, x : all \o f(x), <<>>, s)

EvaluateTable(e, i) ==
    LET t == e.tables[i]
        p == PlaceCells(BuildColumnGroups(t))
        laid == p.table
        cells == CellsOf(laid)
        order == [k \in DOMAIN cells |-> cells[k].node]
        edges == Graph(e, i)
        edgeFindings(n) == EdgeFindings(edges, n)
        scopeFindings(c) == ScopeFindings(laid, c)
        unnamed == SelectSeq(cells, LAMBDA c : HeadersGiven(c.attrs) = {})
    IN [e EXCEPT
          !.tables[i] = laid,
          !.found = @ \o (IF t.captions > 1 THEN <<<<2, t.node>>>> ELSE <<>>)
                      \o Concat(ColumnGroupFindings, t.colgroups)
                      \o p.found \o VerifySparseCoverage(laid)
                      \o Concat(edgeFindings, order) \o CycleFindings(edges, order)
                      \o Concat(scopeFindings, cells),
          !.suppressed = @ + Len(SelectSeq(cells, UnknownScope)),
          !.associations =
              @ + SumOf([k \in DOMAIN unnamed |-> Cardinality(HeadersOf(laid, unnamed[k]))])]

(* Every table is judged when the root is left. *)
Leave(e, o) ==
    LET left == [e EXCEPT !.depth = IF o.depth = 0 THEN 0 ELSE o.depth - 1]
    IN IF o.depth = 0 /\ o.tag = "html"
       THEN FoldLeft(EvaluateTable, left, [i \in DOMAIN e.tables |-> i])
       ELSE left
=============================================================================
