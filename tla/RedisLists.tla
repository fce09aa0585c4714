----------------------------- MODULE RedisLists -----------------------------
(***************************************************************************)
(* The lists of RedisMock, under its mutex one call after the other.  A    *)
(* list is a Go slice: a window on an array that may be longer, in which   *)
(* popped values stay and which append writes to before it takes a new     *)
(* one.                                                                    *)
(***************************************************************************)
EXTENDS Naturals, Sequences, SequencesExt

CONSTANTS
  Queues, Values,
  NoValue,  \* the empty string: what a pop of an empty list returns
  MaxLen,   \* bound: values in a list
  MaxCap    \* bound: capacity of an array

ASSUME RedisListsAssumption ==
  NoValue \notin Values /\ MaxLen \in Nat /\ MaxCap \in Nat /\ MaxLen <= MaxCap

VARIABLES
  slices,  \* the map of lists; a missing key reads as Nil
  result   \* what the last pop returned

listVars == <<slices, result>>

Nil == [array |-> <<>>, from |-> 0, len |-> 0]
Items(s) == SubSeq(s.array, s.from + 1, s.from + s.len)

Nothing == [value |-> NoValue, ok |-> FALSE]
Popped(v) == [value |-> v, ok |-> TRUE]

Slice == [array : Seq(Values \cup {NoValue}), from : Nat, len : Nat]

(* Every slice is a window within its array, on values that were pushed.    *)
ListsTypeOK ==
  /\ slices \in [Queues -> Slice]
  /\ \A q \in Queues : /\ slices[q].from + slices[q].len <= Len(slices[q].array)
                       /\ Items(slices[q]) \in Seq(Values)
  /\ result \in {Nothing} \cup {Popped(v) : v \in Values}

ListsInit ==
  /\ slices = [q \in Queues |-> Nil]
  /\ result = Nothing

(* A new array for these values, with or without room behind them.          *)
Allocate(values) ==
  {[array |-> values \o [i \in 1..n |-> NoValue], from |-> 0, len |-> Len(values)] :
     n \in 0..(MaxCap - Len(values))}

(* Mistake: the start of the window is forgotten.                           *)
AppendFromStart(s, v) ==
  IF s.from + s.len < Len(s.array)
  THEN {[s EXCEPT !.array[s.len + 1] = v, !.len = @ + 1]}
  ELSE Allocate(Append(Items(s), v))

(* append(s, v)                                                             *)
AppendTo(s, v) ==
  IF s.from + s.len < Len(s.array)
  THEN {[s EXCEPT !.array[s.from + s.len + 1] = v, !.len = @ + 1]}
  ELSE Allocate(Append(Items(s), v))

HasRoom(q) == slices[q].len < MaxLen

(* append([]string{value}, list...): no growth if there is nothing to add.  *)
LPush(q, v) ==
  /\ HasRoom(q)
  /\ \E s \in IF slices[q].len = 0
              THEN {[array |-> <<v>>, from |-> 0, len |-> 1]}
              ELSE Allocate(<<v>> \o Items(slices[q])) :
       slices' = [slices EXCEPT ![q] = s]
  /\ UNCHANGED result

RPush(q, v) ==
  /\ HasRoom(q)
  /\ \E s \in AppendTo(slices[q], v) : slices' = [slices EXCEPT ![q] = s]
  /\ UNCHANGED result

PopNothing(q) ==
  /\ slices[q].len = 0
  /\ result' = Nothing
  /\ UNCHANGED slices

(* items[1:]                                                                *)
LPop(q) ==
  \/ PopNothing(q)
  \/ /\ slices[q].len > 0
     /\ result' = Popped(Head(Items(slices[q])))
     /\ slices' = [slices EXCEPT ![q].from = @ + 1, ![q].len = @ - 1]

(* items[:len(items)-1]                                                     *)
RPop(q) ==
  \/ PopNothing(q)
  \/ /\ slices[q].len > 0
     /\ result' = Popped(Last(Items(slices[q])))
     /\ slices' = [slices EXCEPT ![q].len = @ - 1]

ListsNext ==
  \E q \in Queues : \/ \E v \in Values : LPush(q, v) \/ RPush(q, v)
                    \/ LPop(q) \/ RPop(q)

=============================================================================
