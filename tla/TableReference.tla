--------------------------- MODULE TableReference ---------------------------
(***************************************************************************)
(* What the table gate must find, said of the slots of the grid: TableModel*)
(* lays cells out and scans from cell to cell, HTML speaks of slots.       *)
(***************************************************************************)
EXTENDS TableModel

Slots(c) == (c.x0..c.x1 - 1) \X (c.y0..c.y1 - 1)
Times(p) == IF p THEN 1 ELSE 0

(* The nearest element above n among tags. *)
Nearest(doc, n, tags) ==
    LET up == SelectSeq(PathUp(doc, Parent(doc, n)), LAMBDA m : doc[m].tag \in tags)
    IN IF up = <<>> THEN NoNode ELSE up[1]
Within(doc, n) == Nearest(doc, n, {"table"})

RowNodes(doc, n) == {m \in DOMAIN doc : doc[m].tag = "tr" /\ Within(doc, m) = n}
CellNodes(doc, n) ==
    {m \in DOMAIN doc : /\ doc[m].tag \in Cells
                        /\ Nearest(doc, m, {"tr", "table"} \cup Sections) \in RowNodes(doc, n)}

(* The row group of a row, for the code: a section that was written.       *)
SectionOf(doc, m) ==
    LET s == Nearest(doc, m, {"table"} \cup Sections)
    IN IF doc[s].tag \in Sections /\ doc[s].authored THEN s ELSE NoNode

Earlier(t, c) == {d \in CellSet(t) : d.y0 < c.y0 \/ (d.y0 = c.y0 /\ d.node < c.node)}
Taken(cells, slot) == \E d \in cells : slot \in Slots(d)

(* Rows of a tfoot come last; a cell goes to the first free slot of its row*)
(* and is as wide and as high as it says, whatever is there.  One that says*)
(* it has zero rows ends with its row group, or, in no group, where the    *)
(* table ended when it was placed: cells in no group may have stretched it.*)
LaidOut(doc, t) ==
    LET rows == RowNodes(doc, t.node)
        last(m) == SectionOf(doc, m) # NoNode /\ doc[SectionOf(doc, m)].tag = "tfoot"
        before(m) == {k \in rows : IF last(k) = last(m) THEN k < m ELSE last(m)}
        at(m) == Cardinality(before(m))
        y(c) == at(Nearest(doc, c.node, {"tr"}))
        group(c) == SectionOf(doc, c.node)
        endOfGroup(c) == 1 + Max({at(m) : m \in {k \in rows : SectionOf(doc, k) = group(c)}})
        stretched(c) == {d.y1 : d \in {b \in Earlier(t, c) : group(b) = NoNode}}
        bottom(c) == CASE SpanOf("rowspan", doc[c.node].attrs) # 0 ->
                              c.y0 + SpanOf("rowspan", doc[c.node].attrs)
                       [] group(c) # NoNode -> endOfGroup(c)
                       [] OTHER -> Max({Cardinality(rows)} \cup stretched(c))
        left(c) == {d \in CellSet(t) : d.y0 = c.y0 /\ d.node < c.node}
        from(c) == IF left(c) = {} THEN 0 ELSE Max({d.x1 : d \in left(c)})
    IN /\ {c.node : c \in CellSet(t)} = CellNodes(doc, t.node)
       /\ \A c \in CellSet(t) :
            /\ c.y0 = y(c)
            /\ c.x1 - c.x0 = SpanOf("colspan", doc[c.node].attrs)
            /\ c.y1 = bottom(c)
            /\ ~Taken(Earlier(t, c), <<c.x0, c.y0>>)
            /\ \A x \in from(c)..c.x0 - 1 : Taken(Earlier(t, c), <<x, c.y0>>)
            /\ c.x0 >= from(c)

Overlaps(t, c) == \E d \in Earlier(t, c) : Slots(c) \cap Slots(d) # {}

(* A cell that reaches below the last row of its row group. *)
Crosses(doc, t, c) ==
    LET group == SectionOf(doc, c.node)
        rows == {r \in ToSet(t.rows) : SectionOf(doc, r.node) = group}
    IN group # NoNode /\ Cardinality(rows) < c.y1 - Min({RowAt(t, k) :
            k \in {j \in DOMAIN t.rows : t.rows[j] \in rows}})

(* Rows with a free slot, reported once for every band of like rows. *)
Holes(t) ==
    {y \in 0..t.height - 1 : \E x \in 0..t.width - 1 : ~Taken(CellSet(t), <<x, y>>)}
BandStarts(t) == {0} \cup UNION {{c.y0, c.y1} : c \in CellSet(t)}
HolesAt(t, n) ==
    {y \in Holes(t) \cap BandStarts(t) :
        IF y < Len(t.rows) THEN \E r \in DOMAIN t.rows : RowAt(t, r) = y /\ t.rows[r].node = n
        ELSE n = t.node}

-----------------------------------------------------------------------------

(* The th that a name in the headers of cell n stands for. *)
Named(doc, n, name) ==
    LET bearers == {m \in DOMAIN doc : name \in Ids(doc[m].attrs)}
        m == Min(bearers)
    IN IF /\ bearers # {} /\ m # n
          /\ m \in CellNodes(doc, Within(doc, n)) /\ doc[m].tag = "th"
       THEN m ELSE NoNode

NamesOf(doc, n) ==
    IF HeadersGiven(doc[n].attrs) = {} THEN <<>> ELSE HeaderNames(doc[n].attrs)
Pointless(doc, n) ==
    LET names == NamesOf(doc, n)
    IN {k \in DOMAIN names : Named(doc, n, names[k]) = NoNode
                             \/ \E j \in 1..k - 1 : names[j] = names[k]}

Points(doc, n) == {Named(doc, n, name) : name \in ToSet(NamesOf(doc, n))} \ {NoNode}

(* Everything that is reached from the nodes in from over their headers.   *)
Reached(doc, from) ==
    LET more(nodes, k) == nodes \cup UNION {Points(doc, m) : m \in nodes}
    IN FoldLeft(more, from, [k \in DOMAIN doc |-> k])

(* A cycle is reported at the first cell that leads to it. *)
LeadsToCycle(doc, t, n) ==
    LET first == {m \in CellNodes(doc, t.node) : NamesOf(doc, m) # <<>> /\ m < n}
        old == Reached(doc, first)
    IN /\ n \notin old
       /\ \E m \in Reached(doc, {n}) : m \notin old /\ m \in Reached(doc, Points(doc, m))

-----------------------------------------------------------------------------

(* How often rule is to be reported at node n of table t. *)
TimesDue(doc, t, rule, n) ==
    LET attrs == doc[n].attrs
        isCell == n \in CellNodes(doc, t.node)
        c == CHOOSE d \in CellSet(t) : d.node = n
        inTable == Within(doc, n) = t.node
        group == IF doc[n].tag = "colgroup" THEN n ELSE Nearest(doc, n, {"colgroup"})
        cols == {m \in DOMAIN doc : doc[m].tag = "col" /\ Nearest(doc, m, {"colgroup"}) = n}
        captions == {m \in DOMAIN doc : doc[m].tag = "caption" /\ doc[m].parent = n}
    IN CASE rule = 1 /\ isCell -> Times(Overlaps(t, c)) + Times(Crosses(doc, t, c))
         [] rule = 1 /\ ~isCell -> Cardinality(HolesAt(t, n))
         [] rule = 2 -> Times(n = t.node /\ Cardinality(captions) > 1)
         [] rule = 3 /\ inTable /\ doc[n].tag = "col" ->
                Times("span-out" \in attrs /\ group # NoNode)
         [] rule = 3 /\ inTable /\ doc[n].tag = "colgroup" ->
                Times("span-out" \in attrs \/ (cols # {} /\ HasSpan(attrs)))
         [] rule = 4 /\ isCell -> Times(Crosses(doc, t, c))
         [] rule = 5 /\ isCell /\ doc[n].tag = "th" ->
                Times(\/ "scope-rowgroup" \in attrs /\ SectionOf(doc, n) = NoNode
                      \/ "scope-colgroup" \in attrs /\ ColumnGroupAt(t, c.x0) = Nowhere)
         [] rule = 6 /\ isCell ->
                Cardinality(attrs \cap {"colspan-out", "rowspan-out"})
                + Times(Overlaps(t, c)) + Times(Crosses(doc, t, c))
                + Cardinality(Pointless(doc, n)) + Times(LeadsToCycle(doc, t, n))
         [] OTHER -> 0

(* The headers of c along one line, all cells on it in cells: a header that*)
(* judges accepts and that no closer header of its extent, beyond a data   *)
(* cell, hides.                                                            *)
OnLine(cells, judges(_), c, line) ==
    LET on == {d \in cells : d.x1 <= c.x0 /\ d.y0 <= line /\ line < d.y1}
        closer == {o \in on \cup {c} : o.header}
        hidden(h) == \E o \in closer, d \in on :
                        /\ ~d.header /\ h.x1 <= d.x0 /\ d.x1 <= o.x0
                        /\ o.y0 = h.y0 /\ o.y1 = h.y1
    IN {h.node : h \in {g \in on : g.header /\ judges(g) /\ ~hidden(g)}}

HeadersDue(t, c) ==
    LET cells == CellSet(t)
        turned == {Turned(d) : d \in cells}
        asRow(h) == IsRowHeader(t, h)
        asColumn(h) == IsColumnHeader(t, Turned(h))
        visible == {h.node : h \in {d \in cells : ~d.empty}}
    IN (UNION {OnLine(cells, asRow, c, y) : y \in c.y0..c.y1 - 1}
        \cup UNION {OnLine(turned, asColumn, Turned(c), x) : x \in c.x0..c.x1 - 1}
        \cup GroupHeaders(t, c)) \cap (visible \ {c.node})

AssociationsDue(doc, t) ==
    FoldSet(LAMBDA c, sum : sum + Cardinality(HeadersDue(t, c)), 0,
            {d \in CellSet(t) : HeadersGiven(doc[d.node].attrs) = {}})

(* The gate has laid out every table of the document, reported what is due *)
(* and nothing else, and associated every cell with the headers it has.    *)
(* The associations are one number for the document; it is not compared    *)
(* when cells of a table overlap: the scan goes from the edge of one cell  *)
(* to the next and passes over a cell that shares columns with the one it  *)
(* is at, and OnLine passes over none.                                     *)
TablesAreJudged(doc, e) ==
    LET times(rule, n) == Cardinality({k \in DOMAIN e.found : e.found[k] = <<rule, n>>})
        due(rule, n) == SumOf([i \in DOMAIN e.tables |-> TimesDue(doc, e.tables[i], rule, n)])
        tangled == \E t \in ToSet(e.tables) : \E c \in CellSet(t) : Overlaps(t, c)
    IN /\ {t.node : t \in ToSet(e.tables)} = {n \in DOMAIN doc : doc[n].tag = "table"}
       /\ \A t \in ToSet(e.tables) : LaidOut(doc, t)
       /\ \A rule \in 1..6, n \in DOMAIN doc : times(rule, n) = due(rule, n)
       /\ tangled \/ e.associations =
                       SumOf([i \in DOMAIN e.tables |-> AssociationsDue(doc, e.tables[i])])
=============================================================================
