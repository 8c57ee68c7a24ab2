------------------------------- MODULE ListSpec -------------------------------
(***************************************************************************)
(* What the intrusive list heads of fumio-utils/src/local_dl_list.rs       *)
(* promise: each head holds a sequence of elements, an element is on at    *)
(* most one list, and the operations of the local_dl_list! head and link   *)
(* types act on those sequences.  LocalDLList is checked to implement it.  *)
(***************************************************************************)
EXTENDS Sequences, SequencesExt

CONSTANTS Heads, Elems

VARIABLE lists

Listed(e) == \E h \in Heads : Contains(lists[h], e)

Init == lists = [h \in Heads |-> <<>>]

AppendElem(h, e) ==
  /\ ~Listed(e)
  /\ lists' = [lists EXCEPT ![h] = Append(@, e)]

PrependElem(h, e) ==
  /\ ~Listed(e)
  /\ lists' = [lists EXCEPT ![h] = <<e>> \o @]

PopFront(h) ==
  /\ lists[h] # <<>>
  /\ lists' = [lists EXCEPT ![h] = Tail(@)]

PopBack(h) ==
  /\ lists[h] # <<>>
  /\ lists' = [lists EXCEPT ![h] = Front(@)]

\* Unlinking an element removes it from the list it is on, if any.
RemoveElem(e) ==
  lists' = [h \in Heads |-> SelectSeq(lists[h], LAMBDA x : x # e)]

\* take_from moves the whole list of o to the empty head h.
TakeFrom(h, o) ==
  /\ h # o
  /\ lists[h] = <<>>
  /\ lists' = [lists EXCEPT ![h] = lists[o], ![o] = <<>>]

Next ==
  \/ \E h \in Heads, e \in Elems : AppendElem(h, e) \/ PrependElem(h, e)
  \/ \E h \in Heads : PopFront(h) \/ PopBack(h)
  \/ \E e \in Elems : RemoveElem(e)
  \/ \E h, o \in Heads : TakeFrom(h, o)

Spec == Init /\ [][Next]_lists
=============================================================================
