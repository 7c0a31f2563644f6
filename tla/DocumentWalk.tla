---------------------------- MODULE DocumentWalk ----------------------------
(***************************************************************************)
(* The walk over the parsed document that feeds the gates, observe_document*)
(* of tools/c/view0_conformance/lexbor_adapter.c, with the gates that ride *)
(* on it.  A gate walks the document on its own; one that must not repeat  *)
(* what the element-context gate reports runs that gate first.             *)
(***************************************************************************)
EXTENDS HtmlDocument, Bags

Gates == {"g03_r1a", "g03_r2a", "g03_r3a", "g03_r4a", "g03_r7a", "g09"}

CONSTANTS Documents,        \* for each gate the families of documents it is given
          MaxDepth

ASSUME DepthAssumption == MaxDepth \in Nat

VARIABLES doc,              \* the document: its nodes in document order
          gate,             \* the gate that was called
          walking,          \* the gate that is walking now
          pc,               \* "observe" node, "leave" node, "done" or "failed"
          node, depth,
          counters,         \* ancestor_counters: a bag of element names
          state             \* what the walking gate keeps

vars == <<doc, gate, walking, pc, node, depth, counters, state>>

Context == INSTANCE ElementContext
Content == INSTANCE ContentModel
Exclusion == INSTANCE DescendantExclusion
PalpableGate == INSTANCE PalpableContent
Tables == INSTANCE TableReference

(* Every node follows its parent, the root first; text has no children. *)
Document(d) ==
    /\ Len(d) > 0
    /\ \A n \in DOMAIN d :
        /\ d[n].parent \in 0..n - 1
        /\ d[n].parent = NoNode <=> n = 1
        /\ n > 1 => IsElement(d[d[n].parent].tag)

ASSUME DocumentsAssumption ==
    \A g \in Gates : \A k \in DOMAIN Documents[g] : \A d \in Documents[g][k] : Document(d)

Counted(tag) == IF tag \in Unclassified THEN EmptyBag ELSE SetToBag({tag})

-----------------------------------------------------------------------------
(* The observers of the gates. *)

BuildsOnContext == {"g03_r3a", "g03_r4a"}

Begin(g, owned) ==
    CASE g = "g03_r1a" -> Context!Begin
      [] g = "g03_r2a" -> Content!Begin
      [] g = "g03_r7a" -> PalpableGate!Begin
      [] g = "g09" -> Tables!Begin
      [] OTHER -> Exclusion!Begin(owned)

EnterOf(s, o) ==
    CASE walking = "g03_r1a" -> Context!Enter(s, o)
      [] walking = "g03_r2a" -> Content!Enter(s, o)
      [] walking = "g03_r3a" -> Exclusion!Enter(s, o)
      [] walking = "g03_r4a" -> Exclusion!EnterNothing(s, o)
      [] walking = "g03_r7a" -> PalpableGate!Enter(s, o)
      [] walking = "g09" -> Tables!Enter(s, o)

AttributesOf(s, attrs) ==
    CASE walking = "g03_r1a" -> Context!Attributes(s, attrs)
      [] walking = "g03_r2a" -> Content!Attributes(s, attrs)
      [] walking = "g03_r7a" -> PalpableGate!Attributes(s, attrs)
      [] walking = "g09" -> Tables!Attributes(s, attrs)
      [] OTHER -> Exclusion!Attributes(s, attrs)

ChildOf(s, c) ==
    CASE walking = "g03_r1a" -> Context!Child(s, c)
      [] walking = "g03_r2a" -> Content!Child(s, c)
      [] walking = "g03_r3a" -> s
      [] walking = "g03_r4a" -> Exclusion!ChildOfNothing(s, c)
      [] walking = "g03_r7a" -> PalpableGate!Child(s, c)
      [] walking = "g09" -> Tables!Child(s, c)

CompleteOf(s) ==
    CASE walking = "g03_r1a" -> Context!Complete(s)
      [] walking = "g03_r3a" -> Exclusion!Complete(s)
      [] walking = "g09" -> Tables!Complete(s)
      [] OTHER -> s

LeaveOf(s, o) ==
    CASE walking = "g03_r1a" -> Context!Leave(s, o)
      [] walking = "g03_r2a" -> Content!Leave(s, o)
      [] walking = "g03_r3a" -> Exclusion!Leave(s, o)
      [] walking = "g03_r4a" -> Exclusion!LeaveNothing(s, o)
      [] walking = "g03_r7a" -> PalpableGate!Leave(s, o)
      [] walking = "g09" -> Tables!Leave(s, o)

-----------------------------------------------------------------------------

Init ==
    /\ gate \in Gates
    /\ \E k \in DOMAIN Documents[gate] : doc \in Documents[gate][k]
    /\ walking = IF gate \in BuildsOnContext THEN "g03_r1a" ELSE gate
    /\ pc = "observe" /\ node = 1 /\ depth = 0
    /\ counters = EmptyBag
    /\ state = Begin(walking, {})

(* build_element_observation *)
Observation(n, bag) ==
    [node |-> n, tag |-> doc[n].tag, depth |-> depth, authored |-> doc[n].authored,
     parentTag |-> TagOf(doc, Parent(doc, n)),
     grandTag |-> TagOf(doc, Parent(doc, Parent(doc, n))),
     above |-> BagToSet(bag)]

(* emit_direct_child_observations *)
DirectChildren(n) ==
    LET children == ChildrenOf(doc, n)
    IN [k \in DOMAIN children |->
            [node |-> children[k], tag |-> doc[children[k]].tag,
             authored |-> doc[children[k]].authored]]

(* observe_one_element, and the way down. *)
Observe ==
    /\ pc = "observe"
    /\ LET entered == EnterOf(state, Observation(node, counters))
           elements == ElementChildren(doc, node)
       IN IF entered.failed
          THEN pc' = "failed" /\ UNCHANGED <<node, depth, counters, state>>
          ELSE /\ state' = CompleteOf(FoldLeft(ChildOf, AttributesOf(entered, doc[node].attrs),
                                               DirectChildren(node)))
               /\ counters' = counters (+) Counted(doc[node].tag)
               /\ IF elements # <<>>
                  THEN node' = elements[1] /\ depth' = depth + 1 /\ pc' = "observe"
                  ELSE pc' = "leave" /\ UNCHANGED <<node, depth>>
    /\ UNCHANGED <<doc, gate, walking>>

NextSiblings(n) ==
    SelectSeq(ElementChildren(doc, Parent(doc, n)), LAMBDA m : m > n)

(* observe_element_leave, and on to the sibling or up to the parent. *)
Leave ==
    /\ pc = "leave"
    /\ counters' = counters (-) Counted(doc[node].tag)
    /\ state' = LeaveOf(state, Observation(node, counters'))
    /\ LET siblings == NextSiblings(node)
       IN CASE siblings # <<>> ->
                   node' = siblings[1] /\ pc' = "observe" /\ UNCHANGED depth
            [] siblings = <<>> /\ doc[node].parent # NoNode ->
                   node' = doc[node].parent /\ depth' = depth - 1 /\ UNCHANGED pc
            [] OTHER ->
                   pc' = "done" /\ UNCHANGED <<node, depth>>
    /\ UNCHANGED <<doc, gate, walking>>

(* The element-context gate is done: the gate that was called walks in its *)
(* turn and is told what was reported.                                     *)
WalkAgain ==
    /\ pc = "done" /\ walking # gate
    /\ walking' = gate
    /\ pc' = "observe" /\ node' = 1 /\ depth' = 0
    /\ counters' = EmptyBag
    /\ state' = Begin(gate, ToSet(state.found))
    /\ UNCHANGED <<doc, gate>>

Done == (pc = "failed" \/ (pc = "done" /\ walking = gate)) /\ UNCHANGED vars

Next == Observe \/ Leave \/ WalkAgain \/ Done

Spec == Init /\ [][Next]_vars

-----------------------------------------------------------------------------

Finished(g) == pc = "done" /\ walking = g
Reported(nodes) == ToSet(state.found) = nodes /\ IsInjective(state.found)

(* One pass with a frame for each level finds exactly the elements that    *)
(* are misplaced in the whole document, and each of them once: nothing     *)
(* pending is lost or settled twice, and no frame shows its last user.     *)
MisplacedAreFound == Finished("g03_r1a") => Reported(Context!Misplaced(doc))

(* The restrictions that are active when an element is judged are those of *)
(* its ancestors, with their attributes and no others, and the two gates   *)
(* report what is left when the element-context gate has had its say.      *)
ExcludedAreFound ==
    /\ Finished("g03_r3a") => Reported(Exclusion!Excluded(doc) \ Context!Misplaced(doc))
    /\ Finished("g03_r4a") => Reported(Exclusion!Overfull(doc, Context!Misplaced(doc)))

(* Whether a child shows anything is settled when it is left and reaches   *)
(* its parent in time, through a dl and its div as well: exactly the       *)
(* elements none of whose children may show are reported.                  *)
BareAreFound == Finished("g03_r7a") => Reported(PalpableGate!Bare(doc))

(* The flags and counters of the content-model gate, kept child by child,  *)
(* tell in the end what the children are together, whatever their order,   *)
(* but for an option: its text is missed when only a div came before it    *)
(* and no element after it (MixedOptionsAreFound).  A ruby is reported only*)
(* when its children are wrong and no rp among them is reported by the     *)
(* element-context gate, which owns that mistake.                          *)
Rubies(nodes) == {n \in nodes : doc[n].tag = "ruby"}
RubiesWithBadRp ==
    {doc[n].parent : n \in {m \in Context!Misplaced(doc) : doc[m].tag = "rp"}}

MismatchedAreFound ==
    Finished("g03_r2a") =>
        LET found == ToSet(state.found)
        IN /\ found \ Rubies(found) = Content!Mismatched(doc) \ Content!LateText(doc)
           /\ Rubies(found) \subseteq Content!BadRubies(doc) \ RubiesWithBadRp
           /\ IsInjective(state.found)

(* An option that may hold a div, or phrasing, and holds both is reported. *)
(* docs/VIEW_CORE_VIEW0.md:1289: A no-label, non-datalist option admits    *)
(* zero or more div elements or phrasing content;                          *)
(* tests/c/view0_v1n1_g03_r2a_content_model_test.c:124: an option with a   *)
(* div and then a span is one error.                                       *)
MixedOptionsAreFound ==
    Finished("g03_r2a") =>
        {n \in Content!Mismatched(doc) : doc[n].tag = "option"} \subseteq ToSet(state.found)

(* One pass with a frame for each level, fed by a walk that keeps its own  *)
(* depth and bag of ancestors, finds in the end exactly what is wrong with *)
(* the document as a whole, and each of it once, gate by gate: all of it   *)
(* but the late text of an option.                                         *)
FindingsAreExact ==
    MisplacedAreFound /\ MismatchedAreFound /\ ExcludedAreFound /\ BareAreFound

(* Laying the tables out when the root is left, cell by cell, and scanning *)
(* from cell to cell tells what the slots of the grid tell: which rules are*)
(* broken where and how often, and which header belongs to which cell.     *)
TablesAreFound == Finished("g09") => Tables!TablesAreJudged(doc, state)
=============================================================================
