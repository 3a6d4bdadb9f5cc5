------------------------------- MODULE UVHeap -------------------------------
(***************************************************************************)
(* The binary heap of heap-inl.h that holds the timers of a loop: nodes    *)
(* with three pointers each, of which a swap moves up to six.  A node is   *)
(* its key: timer_less_than puts any two timers in order.  One step is one *)
(* turn of a loop of heap_insert or heap_remove; nobody looks at the heap  *)
(* before they return.                                                     *)
(***************************************************************************)
EXTENDS Naturals, FiniteSets

CONSTANTS Nodes, None

VARIABLES
  root,                 \* heap->min
  nelts,                \* heap->nelts
  left, right, parent,  \* of the nodes
  inside,               \* the nodes the callers have in the heap
  moving,               \* the node on its way, or None
  way                   \* "down" or "up"; "still" when nothing moves

links == <<root, left, right, parent>>
vars == <<links, nelts, inside, moving, way>>

Init == /\ root = None /\ nelts = 0 /\ inside = {}
        /\ left = [n \in Nodes |-> None]
        /\ right = [n \in Nodes |-> None]
        /\ parent = [n \in Nodes |-> None]
        /\ moving = None /\ way = "still"

(* The k-th node, row by row: the bits of k after the first are its path   *)
(* from the root.                                                          *)
NodeAt[k \in 1..Cardinality(Nodes)] ==
  CASE k = 1 -> root
    [] k > 1 /\ k % 2 = 1 -> right[NodeAt[k \div 2]]
    [] OTHER -> left[NodeAt[k \div 2]]

Less(n, m) == m # None /\ n < m

-----------------------------------------------------------------------------
(* heap_node_swap: the child c takes the place of its parent p.            *)
Swap(p, c) ==
  LET above == parent[p]
      onLeft == left[p] = c
      sibling == IF onLeft THEN right[p] ELSE left[p]
      l == [left EXCEPT ![p] = left[c], ![c] = IF onLeft THEN p ELSE left[p]]
      r == [right EXCEPT ![p] = right[c], ![c] = IF onLeft THEN right[p] ELSE p]
      turn(f) == IF above # None /\ f[above] = p
                 THEN [f EXCEPT ![above] = c] ELSE f
  IN /\ left' = turn(l) /\ right' = turn(r)
     /\ parent' = [n \in Nodes |->
                     CASE n = c -> above [] n \in {p, sibling} -> c
                       [] n \in {left[c], right[c]} -> p [] OTHER -> parent[n]]
     /\ root' = IF above = None THEN c ELSE root

(* The pointer to a node of parent p (the heap's when p is None) becomes n.*)
Hang(p, onLeft, n) ==
  /\ root' = IF p = None THEN n ELSE root
  /\ left' = IF p # None /\ onLeft THEN [left EXCEPT ![p] = n] ELSE left
  /\ right' = IF p # None /\ ~onLeft THEN [right EXCEPT ![p] = n] ELSE right

-----------------------------------------------------------------------------
(* heap_insert: the node is hung into the last row, and moves up.  (It     *)
(* clears the old pointers of the node, which heap_remove has left; here   *)
(* a node that is not inside has none.)                                    *)
Insert(n) ==
  /\ way = "still" /\ n \notin inside
  /\ LET p == IF nelts = 0 THEN None ELSE NodeAt[(nelts + 1) \div 2]
     IN /\ Hang(p, (nelts + 1) % 2 = 0, n)
        /\ parent' = [parent EXCEPT ![n] = p]
  /\ nelts' = nelts + 1 /\ inside' = inside \cup {n}
  /\ moving' = n /\ way' = "up"

(* heap_remove: the last node is unlinked, and takes the place of n; or it *)
(* was n.                                                                  *)
RemoveLast(n) ==
  /\ way = "still" /\ n \in inside /\ n = NodeAt[nelts]
  /\ Hang(parent[n], nelts % 2 = 0, None)
  /\ parent' = [parent EXCEPT ![n] = None]
  /\ nelts' = nelts - 1 /\ inside' = inside \ {n}
  /\ UNCHANGED <<moving, way>>

RemoveInner(n) ==
  /\ way = "still" /\ n \in inside /\ n # NodeAt[nelts]
  /\ LET last == NodeAt[nelts]
         free(f) == [m \in Nodes |-> IF f[m] = last THEN None ELSE f[m]]
         l == free(left)
         r == free(right)
         above == parent[n]
         put(f) == [m \in Nodes |-> CASE m = n -> None
                                      [] m = last -> f[n]
                                      [] m = above /\ f[m] = n -> last
                                      [] OTHER -> f[m]]
     IN /\ left' = put(l) /\ right' = put(r)
        /\ parent' = [m \in Nodes |->
                        CASE m = n -> None [] m = last -> above
                          [] m \in {l[n], r[n]} -> last [] OTHER -> parent[m]]
        /\ root' = IF above = None THEN last ELSE root
        /\ moving' = last /\ way' = "down"
  /\ nelts' = nelts - 1 /\ inside' = inside \ {n}

(* The smallest of the moving node and its children.                       *)
Smallest ==
  CHOOSE n \in {moving, left[moving], right[moving]} \ {None} :
    \A m \in {moving, left[moving], right[moving]} \ {None} : n <= m

Down == /\ way = "down" /\ Smallest # moving
        /\ Swap(moving, Smallest)
        /\ UNCHANGED <<nelts, inside, moving, way>>

(* Variant of DownEnds: what cannot go down is in its place.               *)
DownSettles == /\ way = "down" /\ Smallest = moving
               /\ moving' = None /\ way' = "still"
               /\ UNCHANGED <<links, nelts, inside>>

DownEnds == /\ way = "down" /\ Smallest = moving
            /\ way' = "up"
            /\ UNCHANGED <<links, nelts, inside, moving>>

Up == /\ way = "up" /\ Less(moving, parent[moving])
      /\ Swap(parent[moving], moving)
      /\ UNCHANGED <<nelts, inside, moving, way>>

UpEnds == /\ way = "up" /\ ~Less(moving, parent[moving])
          /\ moving' = None /\ way' = "still"
          /\ UNCHANGED <<links, nelts, inside>>

Turn == Down \/ DownEnds \/ Up \/ UpEnds
Next == \/ Turn
        \/ \E n \in Nodes : Insert(n) \/ RemoveLast(n) \/ RemoveInner(n)

Spec == Init /\ [][Next]_vars

-----------------------------------------------------------------------------
(* Properties.                                                             *)

TypeOK == /\ root \in Nodes \cup {None} /\ moving \in Nodes \cup {None}
          /\ nelts \in 0..Cardinality(Nodes)
          /\ {left, right, parent} \subseteq [Nodes -> Nodes \cup {None}]
          /\ inside \subseteq Nodes
          /\ way \in {"still", "down", "up"}

(* Up and down pointers agree, after every swap: the walks of              *)
(* heap_node_swap and heap_remove use both.                                *)
LinksMirror ==
  \A n \in inside :
    /\ parent[n] = None <=> n = root
    /\ parent[n] # None => n \in {left[parent[n]], right[parent[n]]}
    /\ \A m \in {left[n], right[n]} \ {None} : m \in inside /\ parent[m] = n
    /\ left[n] = None \/ left[n] # right[n]

(* The path of every number up to nelts ends at a node, and these are the  *)
(* nodes inserted and not removed: no timer is lost with a subtree.        *)
Complete == /\ {NodeAt[k] : k \in 1..nelts} = inside
            /\ Cardinality(inside) = nelts

(* No child is smaller than its parent when insert and remove return, so   *)
(* the root is the timer that is due first.                                *)
HeapOrdered ==
  way = "still" =>
    /\ \A n \in inside \ {root} : Less(parent[n], n)
    /\ \A n \in inside : root <= n
=============================================================================
