-------------------------------- MODULE Deque --------------------------------
(***************************************************************************)
(* What RedisMock's lists promise: named sequences that grow and shrink by *)
(* one value at either end.  A pop of an empty or unknown list changes     *)
(* nothing and says so.                                                    *)
(***************************************************************************)
EXTENDS Naturals, Sequences, SequencesExt

CONSTANTS Queues, Values, NoValue

VARIABLES
  items,  \* the values of a list, from its front to its end
  result  \* what the last pop returned

vars == <<items, result>>

Nothing == [value |-> NoValue, ok |-> FALSE]
Popped(v) == [value |-> v, ok |-> TRUE]

Init ==
  /\ items = [q \in Queues |-> <<>>]
  /\ result = Nothing

PushFront(q, v) ==
  /\ items' = [items EXCEPT ![q] = <<v>> \o @]
  /\ UNCHANGED result

PushBack(q, v) ==
  /\ items' = [items EXCEPT ![q] = Append(@, v)]
  /\ UNCHANGED result

PopFront(q) ==
  /\ items[q] # <<>>
  /\ items' = [items EXCEPT ![q] = Tail(@)]
  /\ result' = Popped(Head(items[q]))

PopBack(q) ==
  /\ items[q] # <<>>
  /\ items' = [items EXCEPT ![q] = Front(@)]
  /\ result' = Popped(Last(items[q]))

PopEmpty(q) ==
  /\ items[q] = <<>>
  /\ result' = Nothing
  /\ UNCHANGED items

Next ==
  \E q \in Queues : \/ \E v \in Values : PushFront(q, v) \/ PushBack(q, v)
                    \/ PopFront(q) \/ PopBack(q) \/ PopEmpty(q)

Spec == Init /\ [][Next]_vars

=============================================================================
