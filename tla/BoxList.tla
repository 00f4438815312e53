-------------------------------- MODULE BoxList --------------------------------
(***************************************************************************)
(* The linked list of boxes of protocol.c, which the broker keeps and with *)
(* which a manager sorts what it was sent.  A list is a record with head   *)
(* and tail; boxes gives the structure at each address, of which the       *)
(* operations use box_name, next and allocated.  Free memory keeps what it *)
(* held.                                                                   *)
(***************************************************************************)
EXTENDS Naturals, FiniteSets, SequencesExt

CONSTANTS Addresses, NULL

\* At most all addresses are in a list, and NULL is at its end.
Positions == 1 .. Cardinality(Addresses) + 1

\* The n-th address from list.head on, and NULL after the last one.
Nodes(list, boxes) ==
    LET node[n \in Positions] ==
            IF n = 1 THEN list.head
            ELSE IF node[n - 1] = NULL THEN NULL ELSE boxes[node[n - 1]].next
    IN  node

Chain(list, boxes) ==
    LET node == Nodes(list, boxes)
    IN  [n \in 1 .. Cardinality({m \in Positions : node[m] # NULL}) |-> node[n]]

FindBox(list, boxes, name) ==
    LET node == Nodes(list, boxes)
        named == {n \in Positions : node[n] \in Addresses /\ boxes[node[n]].box_name = name}
    IN  IF named = {} THEN NULL ELSE node[Min(named)]

\* insert_at_beginning, of a box for which malloc returned address a.
ListWith(list, a) == [list EXCEPT !.head = a, !.tail = IF @ = NULL THEN a ELSE @]
BoxesWith(list, boxes, a, box) == [boxes EXCEPT ![a] = [box EXCEPT !.next = list.head]]

\* delete_box: the first box of that name, if there is one.  The tail moves
\* with the box before it, and stays where it is when the head is deleted.
Before(list, boxes, a) == CHOOSE p \in ToSet(Chain(list, boxes)) : boxes[p].next = a

ListWithout(list, boxes, name) ==
    LET found == FindBox(list, boxes, name)
    IN  CASE found = NULL -> list
          [] found # NULL /\ found = list.head -> [list EXCEPT !.head = boxes[found].next]
          [] found # NULL /\ found # list.head ->
                [list EXCEPT !.tail = IF @ = found THEN Before(list, boxes, found) ELSE @]

BoxesWithout(list, boxes, name) ==
    LET found == FindBox(list, boxes, name)
        freed == [boxes EXCEPT ![found].allocated = FALSE]
    IN  CASE found = NULL -> boxes
          [] found # NULL /\ found = list.head -> freed
          [] found # NULL /\ found # list.head ->
                [freed EXCEPT ![Before(list, boxes, found)].next = boxes[found].next]

------------------------------------------------------------------------------
(* merge_sort_boxdata_list, on what is in the list: records with a box_name. *)

Response == [box_name : Nat, last : BOOLEAN]
Listing == Seq(Response)

\* What is on the left and on the right; of two equal names the one on the right
\* goes first.
merge[sides \in Listing \X Listing] ==
    LET left == sides[1]
        right == sides[2]
    IN  IF left = << >> THEN right
        ELSE IF right = << >> THEN left
        ELSE IF Head(left).box_name < Head(right).box_name
               THEN <<Head(left)>> \o merge[<<Tail(left), right>>]
               ELSE <<Head(right)>> \o merge[<<left, Tail(right)>>]

\* The list is cut after its middle node, at which slow is when fast is through.
merge_sort[list \in Listing] ==
    IF Len(list) < 2 THEN list
    ELSE LET half == (Len(list) + 1) \div 2
         IN  merge[<<merge_sort[SubSeq(list, 1, half)],
                     merge_sort[SubSeq(list, half + 1, Len(list))]>>]
==============================================================================
