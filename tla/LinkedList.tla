------------------------------ MODULE LinkedList ------------------------------
(***************************************************************************)
(* List.cpp, the doubly linked list that holds the keywords: the nodes of  *)
(* the heap and what every operation does to their links.                  *)
(***************************************************************************)
EXTENDS Integers, Sequences, FiniteSets, SequencesExt

CONSTANTS Nodes,    \* the nodes calloc can return, positive numbers
          Values    \* what a program keeps in a list

ASSUME ListAssumption == Nodes \subseteq Nat \ {0} /\ IsFiniteSet(Nodes)

VARIABLES node,     \* the nodes in use, with next, prev and value
          first, last,
          frees,    \* what List_destroy has handed to free()
          pasted,   \* history: "no"; "yes" once List_paste has put a node into
                    \* the middle; "spoilt" once a removal or another such
                    \* paste has used the links it left
          contents  \* history: the sequence of values a user has in mind

listVars == <<node, first, last, frees, pasted, contents>>

NULL == 0
Alive == DOMAIN node
Size == Cardinality(Alive)                             \* list->count
FreshNode == CHOOSE n \in Nodes \ Alive : \A m \in Nodes \ Alive : n <= m

(* Count nodes from one end of the list along a link (LIST_FOREACH).        *)
Walk(from, link) ==
    LET step(n) == IF n \in Alive THEN node[n][link] ELSE NULL
        walk[i \in 1 .. Size] == IF i = 1 THEN from ELSE step(walk[i - 1])
    IN  walk
Forward == Walk(first, "next")
Backward == Walk(last, "prev")
NodeAt(rc) == Forward[rc + 1]       \* for(i=0; i<rc; i++) node = node->next

List_query(rc) == IF rc >= Size THEN NULL ELSE node[NodeAt(rc)].value

ListInit ==
    /\ node = <<>> /\ first = NULL /\ last = NULL
    /\ frees = <<>> /\ pasted = "no" /\ contents = <<>>

Link(f, n, l, to) == IF n = NULL THEN f ELSE [f EXCEPT ![n][l] = to]
With(f, n, next, prev, v) ==
    [m \in Alive \cup {n} |-> IF m = n THEN [next |-> next, prev |-> prev, value |-> v] ELSE f[m]]

-----------------------------------------------------------------------------
(* Operations on a list that is not spoilt.                                 *)

Usable == frees = <<>> /\ pasted # "spoilt" /\ UNCHANGED frees

Push(v) ==
    /\ node' = With(Link(node, last, "next", FreshNode), FreshNode, NULL, last, v)
    /\ first' = (IF last = NULL THEN FreshNode ELSE first) /\ last' = FreshNode
    /\ contents' = Append(contents, v) /\ UNCHANGED pasted

Unshift(v) ==
    /\ node' = With(Link(node, first, "prev", FreshNode), FreshNode, first, NULL, v)
    /\ last' = (IF first = NULL THEN FreshNode ELSE last) /\ first' = FreshNode
    /\ contents' = <<v>> \o contents /\ UNCHANGED pasted

List_push(v) == Usable /\ Alive # Nodes /\ Push(v)
List_unshift(v) == Usable /\ Alive # Nodes /\ Unshift(v)

Unhook_oneway(n) ==
    LET linked == Link(Link(node, node[n].prev, "next", node[n].next), NULL, "prev", NULL)
    IN  /\ first' = (IF n = first THEN node[n].next ELSE first)
        /\ last' = (IF n = last THEN node[n].prev ELSE last)
        /\ node' = [m \in Alive \ {n} |-> linked[m]]

Unhook(n) ==
    LET next == node[n].next
        prev == node[n].prev
        linked == CASE n = first /\ n = last -> node
                    [] n = first /\ n # last -> Link(node, next, "prev", NULL)
                    [] n # first /\ n = last -> Link(node, prev, "next", NULL)
                    [] OTHER -> Link(Link(node, next, "prev", prev), prev, "next", next)
    IN  /\ first' = (IF n # first THEN first ELSE IF n = last THEN NULL ELSE next)
        /\ last' = (IF n # last THEN last ELSE IF n = first THEN NULL ELSE prev)
        /\ node' = [m \in Alive \ {n} |-> linked[m]]

List_remove(n, position) ==
    /\ Usable /\ Unhook(n)
    /\ pasted' = (IF pasted = "no" THEN "no" ELSE "spoilt")
    /\ contents' = RemoveAt(contents, position)

List_shift == first # NULL /\ List_remove(first, 1)
List_pop == last # NULL /\ List_remove(last, Size)
List_clip(rc) == rc < Size /\ List_remove(NodeAt(rc), rc + 1)      \* and List_delete

(* In front of the element at rc; at the end if there is none.  Within the  *)
(* list the node at rc keeps its prev.                                      *)

PasteBefore(here, v) ==
    LET before == node[here].prev
    IN  /\ node' = With(Link(node, before, "next", FreshNode), FreshNode, node[before].next, before, v)
        /\ pasted' = (IF pasted = "no" THEN "yes" ELSE "spoilt") /\ UNCHANGED <<first, last>>

List_paste(rc, v) ==
    /\ Usable /\ Alive # Nodes
    /\ IF rc >= Size THEN Push(v)
       ELSE IF node[NodeAt(rc)].prev = NULL THEN Unshift(v)
       ELSE PasteBefore(NodeAt(rc), v) /\ contents' = InsertAt(contents, rc + 1, v)

(* It frees the prev of every node it meets, then the last one.             *)

Destroyed ==
    LET prev(i) == node[Forward[i]].prev
        freed[i \in 0 .. Size] ==
            IF i = 0 THEN <<>>
            ELSE IF prev(i) = NULL THEN freed[i - 1] ELSE Append(freed[i - 1], prev(i))
    IN  Append(freed[Size], last)

List_destroy ==
    /\ frees = <<>> /\ pasted # "spoilt" /\ first # NULL
    /\ frees' = Destroyed
    /\ UNCHANGED <<node, first, last, pasted, contents>>

List_create ==
    /\ frees # <<>> /\ frees' = <<>> /\ node' = <<>> /\ first' = NULL /\ last' = NULL
    /\ pasted' = "no" /\ contents' = <<>>

ListNext ==
    \/ \E v \in Values : List_push(v) \/ List_unshift(v) \/ \E rc \in 0 .. Size : List_paste(rc, v)
    \/ List_shift \/ List_pop \/ \E rc \in 0 .. Size : List_clip(rc)
    \/ List_destroy \/ List_create
ListSpec == ListInit /\ [][ListNext]_listVars

-----------------------------------------------------------------------------
(* Properties.                                                              *)

(* Reading the list by index gives the sequence the operations describe,    *)
(* until the prev that List_paste has left uncorrected is used.             *)
ListIsSequence ==
    pasted # "spoilt" =>
        /\ Size = Len(contents)
        /\ \A rc \in 0 .. Size - 1 : List_query(rc) = contents[rc + 1]

(* Both directions meet the same nodes as long as nothing was pasted into   *)
(* the middle: List_remove depends on it.                                   *)
BothWays ==
    pasted = "no" => \A i \in 1 .. Size : Backward[i] = Forward[Size + 1 - i]

(* List_destroy frees every node once, if nothing was pasted into the       *)
(* middle since the list was created.                                       *)
FreedOnce ==
    frees # <<>> /\ pasted = "no" => Len(frees) = Size /\ ToSet(frees) = Alive

(* List_paste promises no less than List_push: the sequence stays right     *)
(* whatever is removed later.                                               *)
ListAlwaysSequence == [i \in 1 .. Len(contents) |-> List_query(i - 1)] = contents

(* List_destroy promises the same whatever was pasted before.  It does not: *)
(* it frees the prev of each node, and after a paste into the middle two    *)
(* nodes have the same one, which is freed twice, and the new node is never *)
(* freed.                                                                   *)
AlwaysFreedOnce == frees # <<>> => Len(frees) = Size /\ ToSet(frees) = Alive

(* What every sequence of calls of List.cpp keeps.                          *)
ListSound == ListIsSequence /\ BothWays /\ FreedOnce

=============================================================================
