------------------------- MODULE MCConformanceCheck -------------------------
(* Documents of five bytes with at most one of everything a report can go    *)
(* wrong over, and the gates that find something in them.                    *)
EXTENDS ConformanceCheck, TLC

MCFindings(gate, doc) == IF gate \in DOMAIN doc.found THEN doc.found[gate] ELSE <<>>

Rule(gate) == 300 + CHOOSE i \in 1..Len(Gates \o <<"g04_r2a">> \o Groups) :
                        (Gates \o <<"g04_r2a">> \o Groups)[i] = gate
Found(gate, offset) == [offset |-> offset, rule |-> Rule(gate), severity |-> Error]

Plain ==
    [badByte |-> None, length |-> 5, newlines |-> {1, 2}, depth |-> 1,
     tokenizerErrors |-> <<>>, treeErrors |-> <<>>,
     doctypes |-> 1, doctypeIssue |-> None, legacyId |-> None,
     titleChildren |-> 1, titleTags |-> <<3>>, baseChildren |-> 0, baseTags |-> <<>>,
     bodies |-> 1, bodyTags |-> <<>>, found |-> <<>>]

FoundSets ==
    {<<>>,
     "g03_r2a" :> <<Found("g03_r2a", 3), Found("g03_r2a", 0)>>,
     "g11" :> <<Found("g11", 1)>>,
     "g03_r1a" :> <<Found("g03_r1a", 5)>> @@ "g15" :> <<Found("g15", 1), Found("g15", 1)>>,
     "g04_r2a" :> <<Found("g04_r2a", 4)>> @@ "g12" :> <<Found("g12", 0)>>,
     "g10" :> <<Found("g10", 2)>> @@ "g16" :> <<Found("g16", 3)>>
        @@ "g04_r2a" :> <<Found("g04_r2a", 2), Found("g04_r2a", 0)>>}

Heads ==
    {Plain,
     [Plain EXCEPT !.doctypes = 0],
     [Plain EXCEPT !.doctypeIssue = 2, !.legacyId = 3],
     [Plain EXCEPT !.legacyId = 3, !.bodyTags = <<1, 4>>],
     [Plain EXCEPT !.titleChildren = 0, !.baseChildren = 2, !.baseTags = <<1, 2>>],
     [Plain EXCEPT !.titleChildren = 2, !.titleTags = <<1>>],
     [Plain EXCEPT !.titleChildren = 2, !.titleTags = <<1, 4>>, !.bodies = 0],
     [Plain EXCEPT !.badByte = 3],
     [Plain EXCEPT !.length = 0, !.newlines = {}, !.titleTags = <<>>],
     [Plain EXCEPT !.depth = 3]}

MCDocuments ==
    {d \in {[head EXCEPT !.tokenizerErrors = errors[1], !.treeErrors = errors[2], !.found = found] :
              head \in Heads, found \in FoundSets,
              errors \in {<< <<>>, <<>> >>, << <<4>>, <<2, 1>> >>}} :
        d.length = 0 => d.found = <<>> /\ d.tokenizerErrors = <<>>}
=============================================================================
