-------------------------- MODULE RedisLists_proofs --------------------------
(***************************************************************************)
(* The slices of RedisLists as sequences: what append, and a window that   *)
(* shrinks at either end, do to the values a slice holds, whatever the     *)
(* array behind it still has in it.                                        *)
(***************************************************************************)
EXTENDS RedisLists, SequenceTheorems, TLAPS

Window(s) == /\ s \in Slice
             /\ s.from + s.len <= Len(s.array)

(* Every position of a window is one of its array.                          *)
LEMMA ItemsProperties ==
  ASSUME NEW s, Window(s)
  PROVE  /\ Items(s) \in Seq(Values \cup {NoValue})
         /\ Len(Items(s)) = s.len
         /\ \A i \in 1..s.len : Items(s)[i] = s.array[s.from + i]
<1> DEFINE V == Values \cup {NoValue}
           m == s.from + 1
           n == s.from + s.len
<1>1. /\ s.array \in Seq(V) /\ s.from \in Nat /\ s.len \in Nat
      /\ m \in Int /\ n \in Int /\ n <= Len(s.array)
  BY DEF Window, Slice
<1>2. \A i \in m..n : s.array[i] \in V
  BY <1>1, ElementOfSeq
<1>3. Items(s) = SubSeq(s.array, m, n)
  BY DEF Items
<1> HIDE DEF V
<1>4. /\ Items(s) \in Seq(V)
      /\ Len(Items(s)) = IF m <= n THEN n - m + 1 ELSE 0
      /\ \A i \in 1..(n - m + 1) : Items(s)[i] = s.array[m + i - 1]
  <2> HIDE DEF m, n
  <2> QED
    BY <1>1, <1>2, <1>3, SubSeqProperties
<1>5. /\ n - m + 1 = s.len
      /\ (IF m <= n THEN n - m + 1 ELSE 0) = s.len
      /\ \A i \in 1..s.len : m + i - 1 = s.from + i
  <2>1. \A f, l \in Nat :
          /\ (f + l) - (f + 1) + 1 = l
          /\ (IF f + 1 <= f + l THEN (f + l) - (f + 1) + 1 ELSE 0) = l
          /\ \A i \in 1..l : (f + 1) + i - 1 = f + i
    OBVIOUS
  <2> QED
    BY <1>1, <2>1
<1>6. \A i \in 1..s.len : Items(s)[i] = s.array[s.from + i]
  <2> HIDE DEF m, n
  <2> QED
    BY <1>4, <1>5
<1>7. Len(Items(s)) = s.len
  BY <1>4, <1>5
<1> QED
  BY <1>4, <1>6, <1>7 DEF V

(* A window is known by its length and its positions.                       *)
LEMMA ItemsEqual ==
  ASSUME NEW s, Window(s), NEW t \in Seq(Values), Len(t) = s.len,
         \A i \in 1..s.len : s.array[s.from + i] = t[i]
  PROVE  Items(s) = t
<1>1. t \in Seq(Values \cup {NoValue})
  BY SeqMonotonic
<1> QED
  BY <1>1, ItemsProperties, SeqEqual

(* A new array holds the values it is made for.                             *)
LEMMA AllocateEffect ==
  ASSUME NEW values \in Seq(Values), NEW s \in Allocate(values)
  PROVE  Window(s) /\ Items(s) = values
<1> DEFINE V == Values \cup {NoValue}
<1>1. PICK n \in 0..(MaxCap - Len(values)) :
        s = [array |-> values \o [i \in 1..n |-> NoValue], from |-> 0,
             len |-> Len(values)]
  BY DEF Allocate
<1> DEFINE pad == [i \in 1..n |-> NoValue]
<1>2. Len(values) \in Nat /\ n \in Nat
  BY <1>1, LenProperties, RedisListsAssumption
<1>3. pad \in Seq(V) /\ values \in Seq(V)
  BY <1>2, SeqMonotonic
<1> HIDE DEF pad, V
<1>4. /\ values \o pad \in Seq(V)
      /\ Len(values \o pad) = Len(values) + Len(pad) /\ Len(pad) \in Nat
      /\ \A i \in 1..(Len(values) + Len(pad)) :
           (values \o pad)[i] = IF i <= Len(values) THEN values[i]
                                ELSE pad[i - Len(values)]
  BY <1>3, ConcatProperties, LenProperties
<1>5. /\ s.array = values \o pad /\ s.from = 0 /\ s.len = Len(values)
      /\ s \in Slice
  BY <1>1, <1>2, <1>4 DEF Slice, pad, V
<1>6. Window(s)
  BY <1>2, <1>4, <1>5 DEF Window
<1>7. \A i \in 1..s.len : s.array[s.from + i] = values[i]
  BY <1>2, <1>4, <1>5
<1> QED
  BY <1>5, <1>6, <1>7, ItemsEqual

(* append(s, v): in the array, behind the window, or in a new one.          *)
LEMMA AppendEffect ==
  ASSUME NEW s, Window(s), Items(s) \in Seq(Values), NEW v \in Values,
         NEW t \in AppendTo(s, v)
  PROVE  Window(t) /\ Items(t) = Append(Items(s), v)
<1> DEFINE V == Values \cup {NoValue}
           k == s.from + s.len + 1
<1>0. /\ s.array \in Seq(V) /\ s.from \in Nat /\ s.len \in Nat
      /\ s.from + s.len <= Len(s.array) /\ Len(s.array) \in Nat /\ v \in V
      /\ s = [array |-> s.array, from |-> s.from, len |-> s.len]
  BY LenProperties DEF Window, Slice
<1>1. /\ Append(Items(s), v) \in Seq(Values)
      /\ Len(Append(Items(s), v)) = s.len + 1
      /\ \A i \in 1..s.len : Append(Items(s), v)[i] = s.array[s.from + i]
      /\ Append(Items(s), v)[s.len + 1] = v
  BY ItemsProperties, AppendProperties
<1>2. CASE s.from + s.len < Len(s.array)
  <2>1. t = [array |-> [s.array EXCEPT ![k] = v], from |-> s.from, len |-> s.len + 1]
    BY <1>0, <1>2 DEF AppendTo
  <2>2. k \in 1..Len(s.array)
    BY <1>0, <1>2
  <2> HIDE DEF V, k
  <2>3. /\ [s.array EXCEPT ![k] = v] \in Seq(V)
        /\ Len([s.array EXCEPT ![k] = v]) = Len(s.array)
        /\ \A j \in 1..Len(s.array) :
             [s.array EXCEPT ![k] = v][j] = IF j = k THEN v ELSE s.array[j]
    BY <1>0, <2>2, ExceptSeq
  <2>4. /\ t.array = [s.array EXCEPT ![k] = v] /\ t.from = s.from
        /\ t.len = s.len + 1 /\ t \in Slice
    BY <1>0, <2>1, <2>3 DEF Slice, V
  <2>5. Window(t)
    BY <1>0, <1>2, <2>3, <2>4 DEF Window
  <2>6. \A i \in 1..t.len : t.array[t.from + i] = Append(Items(s), v)[i]
    BY <1>0, <1>1, <1>2, <2>3, <2>4 DEF k
  <2> QED
    BY <1>1, <2>4, <2>5, <2>6, ItemsEqual
<1>3. CASE ~(s.from + s.len < Len(s.array))
  BY <1>1, <1>3, AllocateEffect DEF AppendTo
<1> QED
  BY <1>2, <1>3

(* append([]string{v}, s...)                                                *)
LEMMA PrependEffect ==
  ASSUME NEW s, Window(s), Items(s) \in Seq(Values), NEW v \in Values,
         NEW t \in IF s.len = 0 THEN {[array |-> <<v>>, from |-> 0, len |-> 1]}
                   ELSE Allocate(<<v>> \o Items(s))
  PROVE  Window(t) /\ Items(t) = <<v>> \o Items(s)
<1>0. <<v>> \in Seq(Values) /\ Len(<<v>>) = 1
  OBVIOUS
<1>1. CASE s.len = 0
  <2>1. t = [array |-> <<v>>, from |-> 0, len |-> 1]
    BY <1>1
  <2>2. Window(t)
    BY <2>1 DEF Window, Slice
  <2>3. Items(t) = <<v>>
    <3> DEFINE one == <<v>>
    <3>1. one \in Seq(Values) /\ Len(one) = t.len
      BY <1>0, <2>1
    <3>2. \A i \in 1..t.len : t.array[t.from + i] = one[i]
      BY <2>1
    <3> HIDE DEF one
    <3>3. Items(t) = one
      BY <2>2, <3>1, <3>2, ItemsEqual
    <3> QED
      BY <3>3 DEF one
  <2>4. Items(s) = <<>>
    BY <1>1, ItemsProperties, EmptySeq
  <2> QED
    BY <1>0, <2>2, <2>3, <2>4, ConcatEmptySeq
<1>2. CASE s.len # 0
  BY <1>0, <1>2, ConcatProperties, AllocateEffect
<1> QED
  BY <1>1, <1>2

(* items[1:]                                                                *)
LEMMA PopFrontEffect ==
  ASSUME NEW s, Window(s), Items(s) \in Seq(Values), s.len > 0,
         NEW t, t = [array |-> s.array, from |-> s.from + 1, len |-> s.len - 1]
  PROVE  /\ Window(t) /\ Items(s) # <<>> /\ Items(t) = Tail(Items(s))
         /\ Head(Items(s)) \in Values
<1>0. /\ s.array \in Seq(Values \cup {NoValue}) /\ s.from \in Nat /\ s.len \in Nat
      /\ s.from + s.len <= Len(s.array) /\ Len(s.array) \in Nat
  BY LenProperties DEF Window, Slice
<1>1. Window(t)
  BY <1>0 DEF Window, Slice
<1>2. Items(s) # <<>>
  BY <1>0, ItemsProperties, EmptySeq
<1>3. /\ Tail(Items(s)) \in Seq(Values) /\ Len(Tail(Items(s))) = s.len - 1
      /\ \A i \in 1..(s.len - 1) : Tail(Items(s))[i] = Items(s)[i + 1]
      /\ Head(Items(s)) \in Values
  BY <1>2, ItemsProperties, HeadTailProperties
<1>4. \A i \in 1..t.len : t.array[t.from + i] = Tail(Items(s))[i]
  <2>1. \A l, f \in Nat : \A i \in 1..(l - 1) : i + 1 \in 1..l /\ f + (i + 1) = f + 1 + i
    OBVIOUS
  <2>2. \A i \in 1..(s.len - 1) : i + 1 \in 1..s.len
                                  /\ s.from + (i + 1) = s.from + 1 + i
    BY <1>0, <2>1
  <2>3. ASSUME NEW i \in 1..(s.len - 1)
        PROVE  s.array[s.from + 1 + i] = Tail(Items(s))[i]
    BY <1>3, <2>2, ItemsProperties
  <2> QED
    BY <2>3
<1> QED
  BY <1>1, <1>2, <1>3, <1>4, ItemsEqual

(* items[:len(items)-1]                                                     *)
LEMMA PopBackEffect ==
  ASSUME NEW s, Window(s), Items(s) \in Seq(Values), s.len > 0,
         NEW t, t = [array |-> s.array, from |-> s.from, len |-> s.len - 1]
  PROVE  /\ Window(t) /\ Items(s) # <<>> /\ Items(t) = Front(Items(s))
         /\ Last(Items(s)) \in Values /\ Items(t) \in Seq(Values)
<1>0. /\ s.array \in Seq(Values \cup {NoValue}) /\ s.from \in Nat /\ s.len \in Nat
      /\ s.from + s.len <= Len(s.array) /\ Len(s.array) \in Nat
  BY LenProperties DEF Window, Slice
<1>1. Window(t)
  BY <1>0 DEF Window, Slice
<1>2. Items(s) # <<>> /\ Len(Items(s)) = s.len
  BY <1>0, ItemsProperties, EmptySeq
<1>3. \A i \in 1..(s.len - 1) : Items(s)[i] \in Values
  BY <1>0, <1>2, ElementOfSeq
<1>4. /\ Front(Items(s)) \in Seq(Values) /\ Len(Front(Items(s))) = s.len - 1
      /\ \A i \in 1..(s.len - 1) : Front(Items(s))[i] = Items(s)[i]
  <2>1. Front(Items(s)) = SubSeq(Items(s), 1, s.len - 1)
    BY <1>2 DEF Front
  <2>2. /\ Front(Items(s)) \in Seq(Values)
        /\ Len(Front(Items(s))) = IF 1 <= s.len - 1 THEN s.len - 1 - 1 + 1 ELSE 0
        /\ \A i \in 1..(s.len - 1 - 1 + 1) : Front(Items(s))[i] = Items(s)[1 + i - 1]
    <3> DEFINE n == s.len - 1
    <3>1. n \in Int /\ 1 \in Int /\ \A i \in 1..n : Items(s)[i] \in Values
      BY <1>0, <1>3
    <3>2. Front(Items(s)) = SubSeq(Items(s), 1, n)
      BY <2>1
    <3> HIDE DEF n
    <3>3. /\ Front(Items(s)) \in Seq(Values)
          /\ Len(Front(Items(s))) = IF 1 <= n THEN n - 1 + 1 ELSE 0
          /\ \A i \in 1..(n - 1 + 1) : Front(Items(s))[i] = Items(s)[1 + i - 1]
      BY <3>1, <3>2, SubSeqProperties
    <3> QED
      BY <3>3 DEF n
  <2> QED
    BY <1>0, <2>2
<1>5. \A i \in 1..t.len : t.array[t.from + i] = Front(Items(s))[i]
  BY <1>0, <1>4, ItemsProperties
<1>6. Last(Items(s)) \in Values
  BY <1>0, <1>2, ElementOfSeq DEF Last
<1> QED
  BY <1>1, <1>2, <1>4, <1>5, <1>6, ItemsEqual

-----------------------------------------------------------------------------
(* The lists as sequences, and what each call does to them.                 *)
AllItems == [q \in Queues |-> Items(slices[q])]

(* The slice of each list is a window into its array and holds values only. *)
LEMMA ListsWindows ==
  ASSUME ListsTypeOK, NEW q \in Queues
  PROVE  /\ Window(slices[q]) /\ Items(slices[q]) \in Seq(Values)
         /\ slices[q] = [array |-> slices[q].array, from |-> slices[q].from,
                         len |-> slices[q].len]
         /\ slices[q].len \in Nat
         /\ AllItems[q] = Items(slices[q])
  BY DEF ListsTypeOK, Window, Slice, AllItems

(* One list is replaced, the others stay.                                   *)
LEMMA ReplaceSlice ==
  ASSUME ListsTypeOK, NEW q \in Queues, NEW t, Window(t), Items(t) \in Seq(Values),
         slices' = [slices EXCEPT ![q] = t],
         result' \in {Nothing} \cup {Popped(v) : v \in Values}
  PROVE  ListsTypeOK' /\ AllItems' = [AllItems EXCEPT ![q] = Items(t)]
<1>1. t \in Slice /\ t.from + t.len <= Len(t.array)
  BY DEF Window
<1>2. slices' \in [Queues -> Slice]
  BY <1>1 DEF ListsTypeOK
<1>3. \A p \in Queues : slices'[p] = IF p = q THEN t ELSE slices[p]
  BY DEF ListsTypeOK
<1>4. \A p \in Queues : /\ slices'[p].from + slices'[p].len <= Len(slices'[p].array)
                        /\ Items(slices'[p]) \in Seq(Values)
  BY <1>1, <1>3 DEF ListsTypeOK
<1>5. ListsTypeOK'
  BY <1>2, <1>4 DEF ListsTypeOK, Items, Nothing, Popped
<1>6. AllItems' = [p \in Queues |-> Items(slices'[p])]
  BY DEF AllItems, Items
<1>7. AllItems' = [AllItems EXCEPT ![q] = Items(t)]
  <2>1. \A p \in Queues : Items(slices'[p]) = IF p = q THEN Items(t) ELSE Items(slices[p])
    BY <1>3
  <2>2. AllItems = [p \in Queues |-> Items(slices[p])]
    BY DEF AllItems
  <2> QED
    BY <1>6, <2>1, <2>2
<1> QED
  BY <1>5, <1>7

(* A push puts its value at its end of the list.                            *)
LEMMA LPushStep ==
  ASSUME ListsTypeOK, NEW q \in Queues, NEW v \in Values, LPush(q, v)
  PROVE  /\ ListsTypeOK' /\ UNCHANGED result
         /\ AllItems' = [AllItems EXCEPT ![q] = <<v>> \o AllItems[q]]
<1>1. PICK t \in IF slices[q].len = 0
                 THEN {[array |-> <<v>>, from |-> 0, len |-> 1]}
                 ELSE Allocate(<<v>> \o Items(slices[q])) :
        slices' = [slices EXCEPT ![q] = t]
  BY DEF LPush
<1>2. Window(t) /\ Items(t) = <<v>> \o Items(slices[q])
  BY <1>1, ListsWindows, PrependEffect
<1> DEFINE one == <<v>>
<1>2a. one \in Seq(Values)
  OBVIOUS
<1>2b. Items(t) = one \o Items(slices[q])
  BY <1>2
<1> HIDE DEF one
<1>3. Items(t) \in Seq(Values)
  BY <1>2a, <1>2b, ListsWindows, ConcatProperties
<1>4. UNCHANGED result /\ result' \in {Nothing} \cup {Popped(x) : x \in Values}
  BY DEF LPush, ListsTypeOK
<1>5. ListsTypeOK' /\ AllItems' = [AllItems EXCEPT ![q] = Items(t)]
  BY <1>1, <1>2, <1>3, <1>4, ReplaceSlice
<1>6. AllItems' = [AllItems EXCEPT ![q] = one \o AllItems[q]]
  BY <1>5, <1>2b, ListsWindows
<1> QED
  BY <1>4, <1>5, <1>6 DEF one

(* RPush (redis.go:36) appends to one list, whether or not its slice has to
   grow into a new array. *)
LEMMA RPushStep ==
  ASSUME ListsTypeOK, NEW q \in Queues, NEW v \in Values, RPush(q, v)
  PROVE  /\ ListsTypeOK' /\ UNCHANGED result
         /\ AllItems' = [AllItems EXCEPT ![q] = Append(AllItems[q], v)]
<1>1. PICK t \in AppendTo(slices[q], v) : slices' = [slices EXCEPT ![q] = t]
  BY DEF RPush
<1>2. Window(t) /\ Items(t) = Append(Items(slices[q]), v)
  BY <1>1, ListsWindows, AppendEffect
<1>3. Items(t) \in Seq(Values)
  BY <1>2, ListsWindows, AppendProperties
<1>4. UNCHANGED result /\ result' \in {Nothing} \cup {Popped(x) : x \in Values}
  BY DEF RPush, ListsTypeOK
<1> QED
  BY <1>1, <1>2, <1>3, <1>4, ListsWindows, ReplaceSlice

(* A pop takes the value at its end, or finds the list empty.               *)
LEMMA PopNothingStep ==
  ASSUME ListsTypeOK, NEW q \in Queues, PopNothing(q)
  PROVE  /\ ListsTypeOK' /\ result' = Nothing /\ AllItems[q] = <<>>
         /\ AllItems' = AllItems
<1>1. AllItems[q] = <<>>
  BY ListsWindows, ItemsProperties, EmptySeq DEF PopNothing
<1> QED
  BY <1>1 DEF PopNothing, ListsTypeOK, Nothing, Popped, AllItems, Items

(* LPop returns and drops the head of one list, or finds it empty. *)
LEMMA LPopStep ==
  ASSUME ListsTypeOK, NEW q \in Queues, LPop(q)
  PROVE  /\ ListsTypeOK'
         /\ \/ /\ AllItems[q] = <<>> /\ result' = Nothing /\ AllItems' = AllItems
            \/ /\ AllItems[q] # <<>> /\ result' = Popped(Head(AllItems[q]))
               /\ Head(AllItems[q]) \in Values
               /\ AllItems' = [AllItems EXCEPT ![q] = Tail(AllItems[q])]
<1>1. CASE PopNothing(q)
  BY <1>1, PopNothingStep
<1>2. CASE ~PopNothing(q)
  <2> DEFINE s == slices[q]
             t == [array |-> s.array, from |-> s.from + 1, len |-> s.len - 1]
  <2>1. /\ s.len > 0 /\ result' = Popped(Head(Items(s)))
        /\ slices' = [slices EXCEPT ![q].from = @ + 1, ![q].len = @ - 1]
    BY <1>2 DEF LPop
  <2>2. slices' = [slices EXCEPT ![q] = t]
    BY <2>1, ListsWindows DEF ListsTypeOK
  <2>3. Window(s) /\ Items(s) \in Seq(Values) /\ AllItems[q] = Items(s)
    BY ListsWindows
  <2>4. /\ Window(t) /\ Items(s) # <<>> /\ Items(t) = Tail(Items(s))
        /\ Head(Items(s)) \in Values
    BY <2>1, <2>3, PopFrontEffect
  <2> HIDE DEF s, t
  <2>5. Items(t) \in Seq(Values)
    BY <2>3, <2>4, HeadTailProperties
  <2>6. result' \in {Nothing} \cup {Popped(x) : x \in Values}
    BY <2>1, <2>4
  <2>7. ListsTypeOK' /\ AllItems' = [AllItems EXCEPT ![q] = Items(t)]
    BY <2>2, <2>4, <2>5, <2>6, ReplaceSlice
  <2> QED
    BY <2>1, <2>3, <2>4, <2>7
<1> QED
  BY <1>1, <1>2

(* RPop returns and drops the last value of one list, or finds it empty. *)
LEMMA RPopStep ==
  ASSUME ListsTypeOK, NEW q \in Queues, RPop(q)
  PROVE  /\ ListsTypeOK'
         /\ \/ /\ AllItems[q] = <<>> /\ result' = Nothing /\ AllItems' = AllItems
            \/ /\ AllItems[q] # <<>> /\ result' = Popped(Last(AllItems[q]))
               /\ AllItems' = [AllItems EXCEPT ![q] = Front(AllItems[q])]
<1>1. CASE PopNothing(q)
  BY <1>1, PopNothingStep
<1>2. CASE ~PopNothing(q)
  <2> DEFINE s == slices[q]
             t == [array |-> s.array, from |-> s.from, len |-> s.len - 1]
  <2>1. /\ s.len > 0 /\ result' = Popped(Last(Items(s)))
        /\ slices' = [slices EXCEPT ![q].len = @ - 1]
    BY <1>2 DEF RPop
  <2>2. slices' = [slices EXCEPT ![q] = t]
    <3>1. s \in Slice /\ s.len - 1 \in Nat
      <4>1. s \in Slice /\ s.len \in Nat
        BY ListsWindows DEF Window
      <4>2. \A n \in Nat : n > 0 => n - 1 \in Nat
        OBVIOUS
      <4> HIDE DEF s
      <4> QED
        BY <2>1, <4>1, <4>2
    <3>2. \A x \in Slice, n \in Nat :
            [x EXCEPT !.len = n] = [array |-> x.array, from |-> x.from, len |-> n]
      BY DEF Slice
    <3>3. [s EXCEPT !.len = s.len - 1] = t
      BY <3>1, <3>2
    <3>4. slices' = [slices EXCEPT ![q] = [s EXCEPT !.len = s.len - 1]]
      BY <2>1
    <3> QED
      BY <3>3, <3>4
  <2>3. Window(s) /\ Items(s) \in Seq(Values) /\ AllItems[q] = Items(s)
    BY ListsWindows
  <2>4. /\ Window(t) /\ Items(s) # <<>> /\ Items(t) = Front(Items(s))
        /\ Last(Items(s)) \in Values /\ Items(t) \in Seq(Values)
    BY <2>1, <2>3, PopBackEffect
  <2> HIDE DEF s, t
  <2>5. result' \in {Nothing} \cup {Popped(x) : x \in Values}
    BY <2>1, <2>4
  <2>6. ListsTypeOK' /\ AllItems' = [AllItems EXCEPT ![q] = Items(t)]
    BY <2>2, <2>4, <2>5, ReplaceSlice
  <2> QED
    BY <2>1, <2>3, <2>4, <2>6
<1> QED
  BY <1>1, <1>2

(* The lists start empty.                                                   *)
LEMMA ListsInitType ==
  ASSUME ListsInit
  PROVE  ListsTypeOK /\ AllItems = [q \in Queues |-> <<>>]
<1>1. Nil \in Slice /\ Window(Nil)
  BY EmptySeq DEF Nil, Slice, Window
<1>2. Items(Nil) = <<>>
  BY <1>1, ItemsProperties, EmptySeq DEF Nil
<1> QED
  BY <1>1, <1>2 DEF ListsInit, ListsTypeOK, AllItems, Window

=============================================================================
