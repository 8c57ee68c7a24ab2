------------------------------ MODULE LocalDLList ------------------------------
(***************************************************************************)
(* The intrusive doubly linked list of fumio-utils/src/local_dl_list.rs at *)
(* the level of its pointers.  Every LocalDLHead (a list head or the link  *)
(* embedded in an element) has prev and next, null while unlinked; a list  *)
(* is a ring through its head.  Each function of LocalDLHead is a pure     *)
(* operator on a record L = [next, prev]; the actions are the methods the  *)
(* local_dl_list! macro generates for the head and link types.  The list   *)
(* is single-threaded (Cell, not Sync), so each call is one step.          *)
(***************************************************************************)
EXTENDS Sequences, FiniteSets, SequencesExt

CONSTANTS Heads,   \* list heads ($head_name)
          Elems,   \* elements, each with one embedded link ($link_name)
          Null

Nodes == Heads \cup Elems

ASSUME Null \notin Nodes /\ Heads \cap Elems = {}

VARIABLES next, prev

vars == <<next, prev>>

L == [next |-> next, prev |-> prev]

\* LocalDLHead::new: both pointers null.
Init ==
  /\ next = [x \in Nodes |-> Null]
  /\ prev = [x \in Nodes |-> Null]

\* LocalDLHead::is_unlinked: next is null or points back to the node.
IsUnlinked(M, x) == M.next[x] = Null \/ M.next[x] = x

\* LocalDLHead::init: a head with null pointers becomes an empty ring.
InitRing(M, s) ==
  IF M.next[s] = Null
  THEN [next |-> [M.next EXCEPT ![s] = s], prev |-> [M.prev EXCEPT ![s] = s]]
  ELSE M

\* Mutant of Unlink: the successor's prev is not repaired.
UnlinkKeepsBack(M, x) ==
  LET M1 == IF IsUnlinked(M, x) THEN M
            ELSE [M EXCEPT !.next = [@ EXCEPT ![M.prev[x]] = M.next[x]]]
  IN  [next |-> [M1.next EXCEPT ![x] = Null],
       prev |-> [M1.prev EXCEPT ![x] = Null]]

\* LocalDLHead::unlink: bridge the neighbours if linked, then null both.
Unlink(M, x) ==
  LET M1 == IF IsUnlinked(M, x) THEN M
            ELSE [next |-> [M.next EXCEPT ![M.prev[x]] = M.next[x]],
                  prev |-> [M.prev EXCEPT ![M.next[x]] = M.prev[x]]]
  IN  [next |-> [M1.next EXCEPT ![x] = Null],
       prev |-> [M1.prev EXCEPT ![x] = Null]]

\* LocalDLHead::insert_after(self = s, node = n), its four stores in order.
InsertAfter(M, s, n) ==
  LET M0 == InitRing(M, s)
      n1 == [M0.next EXCEPT ![n] = M0.next[s]]
      p1 == [M0.prev EXCEPT ![n] = s]
      p2 == [p1 EXCEPT ![n1[n]] = n]
      n2 == [n1 EXCEPT ![s] = n]
  IN  [next |-> n2, prev |-> p2]

\* LocalDLHead::insert_before(self = s, node = n), its four stores in order.
InsertBefore(M, s, n) ==
  LET M0 == InitRing(M, s)
      n1 == [M0.next EXCEPT ![n] = s]
      p1 == [M0.prev EXCEPT ![n] = M0.prev[s]]
      n2 == [n1 EXCEPT ![p1[n]] = n]
      p2 == [p1 EXCEPT ![s] = n]
  IN  [next |-> n2, prev |-> p2]

\* Mutant of TakeFrom: the old head is left in the ring.
TakeFromKeepsOther(M, s, o) ==
  IF IsUnlinked(M, o) THEN M ELSE InsertAfter(M, o, s)

\* LocalDLHead::take_from: splice self in after the other head, then unlink
\* the other head, which leaves self heading the ring.
TakeFrom(M, s, o) ==
  IF IsUnlinked(M, o) THEN M ELSE Unlink(InsertAfter(M, o, s), o)

Apply(M) == next' = M.next /\ prev' = M.prev

(***************************************************************************)
(* The generated methods.  The debug_assert!(node.is_unlinked()) of the    *)
(* inserts and take_from is the caller's obligation (the methods are       *)
(* unsafe), so calls that break it are not enumerated.                     *)
(***************************************************************************)

\* $head_name::prepend: insert_after the head.
prepend(h, e) == IsUnlinked(L, e) /\ Apply(InsertAfter(L, h, e))

\* $head_name::append: insert_before the head.
append(h, e) == IsUnlinked(L, e) /\ Apply(InsertBefore(L, h, e))

\* $head_name::pop_front / pop_back: None on an empty list, otherwise unlink
\* the first / last element.
pop_front(h) == ~IsUnlinked(L, h) /\ Apply(Unlink(L, next[h]))
pop_back(h)  == ~IsUnlinked(L, h) /\ Apply(Unlink(L, prev[h]))

\* $link_name::unlink, on an element wherever it is.
unlink(e) == Apply(Unlink(L, e))

\* $head_name::take_from(&mut self, other).
take_from(h, o) == h # o /\ IsUnlinked(L, h) /\ Apply(TakeFrom(L, h, o))

Next ==
  \/ \E h \in Heads, e \in Elems : prepend(h, e) \/ append(h, e)
  \/ \E h \in Heads : pop_front(h) \/ pop_back(h)
  \/ \E e \in Elems : unlink(e)
  \/ \E h, o \in Heads : take_from(h, o)

Spec == Init /\ [][Next]_vars

(***************************************************************************)
(* The list of head h, read by walking next from h back to h.              *)
(***************************************************************************)
RECURSIVE WalkFrom(_, _, _)
WalkFrom(h, x, fuel) ==
  IF fuel = 0 \/ x = h \/ x = Null THEN <<>>
  ELSE <<x>> \o WalkFrom(h, next[x], fuel - 1)

ListOf(h) == WalkFrom(h, next[h], Cardinality(Nodes))

AbsLists == INSTANCE ListSpec WITH lists <- [h \in Heads |-> ListOf(h)]

(***************************************************************************)
(* Properties                                                              *)
(***************************************************************************)

\* The pointers of every node agree with its neighbours' (unlink and the
\* inserts each make several stores, and a missed one leaves a node whose
\* neighbour does not point back), and a node is either fully unlinked or
\* fully linked.
PointersConsistent ==
  \A x \in Nodes :
    /\ next[x] = Null <=> prev[x] = Null
    /\ next[x] # Null => prev[next[x]] = x /\ next[prev[x]] = x

\* Refinement: with each head read as the sequence its ring spells, every
\* step of the pointer-level list is a step of ListSpec (append, prepend,
\* pop, unlink or take_from on sequences, an element on at most one list).
ImplementsListSpec == AbsLists!Spec
=============================================================================
