------------------------------ MODULE JsonDom -------------------------------
(***************************************************************************)
(* The callback that builds a tree out of the parser's events              *)
(* (json_parser_dom_callback of json.c) with the tree of jsonlint.c.       *)
(*                                                                         *)
(* On the stack are the structures that are open, outermost first, each    *)
(* with the key read last in it.  A structure is kept as what print_tree   *)
(* would make of it: its kind and the events of its elements.  A key is    *)
(* a null pointer, an allocation, or an allocation that was freed: the     *)
(* callback frees the key and leaves the pointer.                          *)
(*                                                                         *)
(* `memory' says which allocations succeed: `push' the stack's in          *)
(* dom_push, `append' those tree_append makes for the structure that ends, *)
(* `copy' that of an element's key.  Nobody hears of these three; the      *)
(* allocations that create an element and append a scalar fail the         *)
(* callback, and are among the events an environment refuses.              *)
(***************************************************************************)
EXTENDS Naturals, Sequences, SequencesExt

CONSTANTS DomStack,     \* elements of the stack json_parser_dom_init allocates
          ElemSize      \* sizeof(struct stack_elem)

ASSUME DomAssumption == {DomStack, ElemSize} \subseteq Nat \ {0}

NullKey  == [at |-> "null", name |-> <<>>]
KeyOf(name) == [at |-> "live", name |-> name]

\* json_parser_dom_init; `sound' says that no call has left the memory it owns,
\* `lost' that an element or its key did not get into the tree.
NewDom == [stack |-> <<>>, room |-> DomStack, root |-> <<>>, sound |-> TRUE, lost |-> FALSE]

Mark(type) == [type |-> type, data |-> <<>>]
Whole(node) ==
  IF node.kind = "object" THEN <<Mark("OBJECT_BEGIN")>> \o node.items \o <<Mark("OBJECT_END")>>
  ELSE <<Mark("ARRAY_BEGIN")>> \o node.items \o <<Mark("ARRAY_END")>>

\* dom_push: the new size is in elements, and is given to realloc as bytes.  If
\* realloc fails nothing is pushed, which nobody hears of.
DomPush(dom, memory, kind) ==
  LET full == Len(dom.stack) = dom.room
      room == IF full THEN 2 * dom.room ELSE dom.room
      held == IF full THEN (2 * dom.room) \div ElemSize ELSE dom.room
  IN IF full /\ ~memory.push THEN dom
     ELSE [dom EXCEPT !.room = room,
                      !.sound = @ /\ Len(dom.stack) < held,
                      !.stack = Append(@, [kind |-> kind, items |-> <<>>, key |-> NullKey])]

\* Faulty: the key is not freed with its element.
AttachUnfreed(dom, memory, kept, items) ==
  LET top   == Last(dom.stack)
      named == IF top.key.at = "null" THEN items
               ELSE <<[type |-> "KEY", data |-> top.key.name]>> \o items
  IN IF kept THEN [dom EXCEPT !.stack = Append(Front(@), [top EXCEPT !.items = @ \o named])] ELSE dom

\* tree_append, and the free of the key behind it.  Whether the parent is an
\* object is read off the key; the copy of the key is not tested.  An element
\* that is not `kept' found no room in its parent, and the key is freed all
\* the same.
Attach(dom, memory, kept, items) ==
  LET top   == Last(dom.stack)
      keyed == top.key.at # "null"
      name  == IF memory.copy THEN top.key.name ELSE <<>>
      named == IF keyed THEN <<[type |-> "KEY", data |-> name]>> \o items ELSE items
      node  == [top EXCEPT !.items = IF kept THEN @ \o named ELSE @,
                           !.key = IF keyed THEN [@ EXCEPT !.at = "freed"] ELSE @]
  IN [dom EXCEPT !.stack = Append(Front(@), node),
                 !.lost = @ \/ ~kept \/ (keyed /\ ~memory.copy),
                 !.sound = @ /\ top.key.at = (IF top.kind = "object" THEN "live" ELSE "null")]

\* The end of a structure: whether append succeeded is not looked at.
DomPop(dom, memory) ==
  LET rest == [dom EXCEPT !.stack = Front(@)]
      top  == Last(dom.stack)
  IN IF rest.stack = <<>> THEN [rest EXCEPT !.root = Whole(top)]
     ELSE Attach(rest, memory, memory.append, Whole(top))

\* json_parser_dom_callback.  An event that needs an open structure indexes
\* the stack without looking.
DomCallback(dom, memory, event) ==
  CASE event.type = "ARRAY_BEGIN" -> DomPush(dom, memory, "array")
    [] event.type = "OBJECT_BEGIN" -> DomPush(dom, memory, "object")
    [] event.type \notin {"ARRAY_BEGIN", "OBJECT_BEGIN"} /\ dom.stack = <<>>
         -> [dom EXCEPT !.sound = FALSE]
    [] event.type \in {"ARRAY_END", "OBJECT_END"} /\ dom.stack # <<>> -> DomPop(dom, memory)
    [] event.type = "KEY" /\ dom.stack # <<>>
         -> [dom EXCEPT !.stack = Append(Front(@), [Last(@) EXCEPT !.key = KeyOf(event.data)])]
    [] OTHER -> Attach(dom, memory, TRUE, <<event>>)

\* What is in the tree so far, read in the order of the document.
Unfinished(node) ==
  SubSeq(Whole(node), 1, Len(node.items) + 1)
  \o (IF node.key.at = "live" THEN <<[type |-> "KEY", data |-> node.key.name]>> ELSE <<>>)

TreeEvents(dom) ==
  IF dom.stack = <<>> THEN dom.root
  ELSE FoldLeft(LAMBDA all, node : all \o Unfinished(node), <<>>, dom.stack)

=============================================================================
