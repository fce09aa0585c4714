-------------------------- MODULE MockQueue_proofs ---------------------------
(***************************************************************************)
(* The queues of the shop for any queues, events and capacities: no event  *)
(* is lost, repeated or overtaken between Publish and the callback.        *)
(***************************************************************************)
EXTENDS MockQueue, SequenceTheorems, TLAPS

(* The lemmas about the lists of RedisMock, of this module's lists.         *)
L == INSTANCE RedisLists_proofs WITH Values <- Events, NoValue <- NoEvent

IInv == TypeOK /\ HandledInOrder

-----------------------------------------------------------------------------
(* Concatenation associates, for sequences of events.                       *)
LEMMA Associative ==
  \A a, b, c \in Seq(Events) : (a \o b) \o c = a \o (b \o c)
BY ConcatAssociative

(* Events on their way from a list over the goroutine to those done with.   *)
LEMMA PassOn ==
  ASSUME NEW d \in Seq(Events), NEW s \in Seq(Events), NEW e \in Events
  PROVE  Append(d, e) \o <<>> \o s = d \o <<e>> \o s
<1> DEFINE one == <<e>>
<1>1. one \in Seq(Events)
  OBVIOUS
<1>2. Append(d, e) = d \o one
  BY AppendIsConcat
<1> HIDE DEF one
<1>3. d \o one \in Seq(Events)
  BY <1>1, ConcatProperties
<1>4. (d \o one) \o <<>> = d \o one
  BY <1>3, ConcatEmptySeq
<1> QED
  BY <1>2, <1>4 DEF one

(* An event handed to a callback joins those in hand and leaves its list: what
   was handled, is in hand and waits, read as one sequence, does not change. *)
LEMMA TakeOff ==
  ASSUME NEW d \in Seq(Events), NEW s \in Seq(Events), s # <<>>
  PROVE  d \o <<Head(s)>> \o Tail(s) = d \o <<>> \o s
<1> DEFINE one == <<Head(s)>>
<1>1. one \in Seq(Events) /\ Tail(s) \in Seq(Events) /\ Len(one) = 1
      /\ Len(s) \in Nat \ {0} /\ Len(Tail(s)) = Len(s) - 1
      /\ \A i \in 1..(Len(s) - 1) : Tail(s)[i] = s[i + 1]
  BY HeadTailProperties, EmptySeq
<1>2. one[1] = s[1]
  OBVIOUS
<1> HIDE DEF one
<1>3. one \o Tail(s) = s
  <2>1. /\ one \o Tail(s) \in Seq(Events)
        /\ Len(one \o Tail(s)) = Len(one) + Len(Tail(s))
        /\ \A i \in 1..(Len(one) + Len(Tail(s))) :
             (one \o Tail(s))[i] = IF i <= Len(one) THEN one[i] ELSE Tail(s)[i - Len(one)]
    BY <1>1, ConcatProperties
  <2>2. Len(one \o Tail(s)) = Len(s)
    BY <1>1, <2>1
  <2>3. ASSUME NEW i \in 1..Len(s) PROVE (one \o Tail(s))[i] = s[i]
    <3>1. CASE i = 1
      BY <1>1, <1>2, <2>1, <3>1
    <3>2. CASE i # 1
      <4>1. i - 1 \in 1..(Len(s) - 1) /\ (i - 1) + 1 = i
        BY <1>1, <3>2
      <4> QED
        BY <1>1, <2>1, <3>2, <4>1
    <3> QED
      BY <3>1, <3>2
  <2> QED
    BY <2>1, <2>2, <2>3, SeqEqual
<1>4. (d \o one) \o Tail(s) = d \o (one \o Tail(s)) /\ d \o <<>> = d
  BY <1>1, ConcatAssociative, ConcatEmptySeq
<1> QED
  BY <1>3, <1>4 DEF one

(* An event published goes behind everything handled, in hand or waiting. *)
LEMMA PutBehind ==
  ASSUME NEW d \in Seq(Events), NEW h \in Seq(Events), NEW s \in Seq(Events),
         NEW e \in Events
  PROVE  d \o h \o Append(s, e) = Append(d \o h \o s, e)
<1> DEFINE one == <<e>>
           dh == d \o h
<1>1. one \in Seq(Events)
  OBVIOUS
<1>2. dh \in Seq(Events)
  BY ConcatProperties
<1> HIDE DEF dh
<1>3. dh \o s \in Seq(Events)
  BY <1>2, ConcatProperties
<1>4. Append(s, e) = s \o one /\ Append(dh \o s, e) = (dh \o s) \o one
  BY <1>3, AppendIsConcat
<1> HIDE DEF one
<1>5. dh \o (s \o one) = (dh \o s) \o one
  BY <1>1, <1>2, Associative
<1> QED
  BY <1>4, <1>5 DEF dh

-----------------------------------------------------------------------------
(* What the lists do, from RedisLists_proofs.                               *)
LEMMA ListsHere ==
  ASSUME R!ListsTypeOK
  PROVE  /\ L!RedisListsAssumption /\ L!ListsTypeOK
         /\ \A q \in Queues : /\ R!Items(slices[q]) \in Seq(Events)
                              /\ L!AllItems[q] = R!Items(slices[q])
BY MockQueueAssumption
   DEF L!RedisListsAssumption, R!ListsTypeOK, L!ListsTypeOK, R!Items, L!Items,
       R!Slice, L!Slice, R!Popped, L!Popped, R!Nothing, L!Nothing, L!AllItems

(* The lists and their windows are the same read through R, whose results are
   the polls, and through L, of RedisLists_proofs, in the next state as well. *)
LEMMA ListsAfter ==
  ASSUME L!ListsTypeOK'
  PROVE  R!ListsTypeOK' /\ \A q \in Queues : L!AllItems'[q] = R!Items(slices'[q])
BY DEF R!ListsTypeOK, L!ListsTypeOK, R!Items, L!Items, R!Slice, L!Slice,
       R!Popped, L!Popped, R!Nothing, L!Nothing, L!AllItems

(* Publish pushes to the right of one list (queue.go:23) and leaves the
   others as they were. *)
LEMMA PublishList ==
  ASSUME R!ListsTypeOK, NEW q \in Queues, NEW e \in Events, R!RPush(q, e)
  PROVE  /\ R!ListsTypeOK'
         /\ \A p \in Queues : R!Items(slices'[p]) =
              IF p = q THEN Append(R!Items(slices[p]), e) ELSE R!Items(slices[p])
<1>1. L!RPush(q, e)
  BY DEF R!RPush, L!RPush, R!HasRoom, L!HasRoom, R!AppendTo, L!AppendTo,
         R!Allocate, L!Allocate, R!Items, L!Items
<1>2. L!ListsTypeOK' /\ L!AllItems' = [L!AllItems EXCEPT ![q] = Append(L!AllItems[q], e)]
  BY <1>1, ListsHere, L!RPushStep
<1>3. \A p \in Queues : L!AllItems'[p] =
        IF p = q THEN Append(L!AllItems[p], e) ELSE L!AllItems[p]
  BY <1>2 DEF L!AllItems
<1> QED
  BY <1>2, <1>3, ListsHere, ListsAfter

(* A poll pops the head of its list, or finds it empty (queue.go:29). *)
LEMMA PollList ==
  ASSUME R!ListsTypeOK, NEW q \in Queues, R!LPop(q)
  PROVE  /\ R!ListsTypeOK'
         /\ LET s == R!Items(slices[q])
            IN  \/ /\ result' = R!Nothing
                   /\ \A p \in Queues : R!Items(slices'[p]) = R!Items(slices[p])
                \/ /\ s # <<>> /\ Head(s) \in Events /\ result' = R!Popped(Head(s))
                   /\ \A p \in Queues : R!Items(slices'[p]) =
                        IF p = q THEN Tail(s) ELSE R!Items(slices[p])
<1> DEFINE s == L!AllItems[q]
<1>1. L!LPop(q)
  BY DEF R!LPop, L!LPop, R!PopNothing, L!PopNothing, R!Items, L!Items,
         R!Popped, L!Popped, R!Nothing, L!Nothing
<1>2. /\ L!ListsTypeOK'
      /\ \/ result' = L!Nothing /\ L!AllItems' = L!AllItems
         \/ /\ s # <<>> /\ Head(s) \in Events /\ result' = L!Popped(Head(s))
            /\ L!AllItems' = [L!AllItems EXCEPT ![q] = Tail(s)]
  BY <1>1, ListsHere, L!LPopStep
<1>3. CASE result' = L!Nothing /\ L!AllItems' = L!AllItems
  BY <1>2, <1>3, ListsHere, ListsAfter DEF L!Nothing, R!Nothing
<1>4. CASE /\ s # <<>> /\ Head(s) \in Events /\ result' = L!Popped(Head(s))
           /\ L!AllItems' = [L!AllItems EXCEPT ![q] = Tail(s)]
  <2>1. \A p \in Queues : L!AllItems'[p] = IF p = q THEN Tail(s) ELSE L!AllItems[p]
    BY <1>4 DEF L!AllItems
  <2>2. s = R!Items(slices[q]) /\ result' = R!Popped(Head(s))
    BY <1>4, ListsHere DEF L!Popped, R!Popped
  <2> HIDE DEF s
  <2> QED
    BY <1>2, <1>4, <2>1, <2>2, ListsHere, ListsAfter
<1> QED
  BY <1>2, <1>3, <1>4

-----------------------------------------------------------------------------
(* Empty lists, nothing published, nothing in hand. *)
LEMMA InitInv ==
  ASSUME Init
  PROVE  IInv
<1>1. L!ListsInit
  BY DEF Init, R!ListsInit, L!ListsInit, R!Nil, L!Nil, R!Nothing, L!Nothing
<1>2. L!ListsTypeOK /\ L!AllItems = [q \in Queues |-> <<>>]
  <2>1. L!RedisListsAssumption
    BY MockQueueAssumption DEF L!RedisListsAssumption
  <2> QED
    BY <1>1, <2>1, L!ListsInitType
<1>3. R!ListsTypeOK
  BY <1>2 DEF R!ListsTypeOK, L!ListsTypeOK, R!Items, L!Items, R!Slice, L!Slice,
              R!Popped, L!Popped, R!Nothing, L!Nothing
<1>4. TypeOK
  BY <1>3, EmptySeq DEF Init, TypeOK
<1>5. ASSUME NEW q \in Queues
      PROVE  /\ done[q] \o InHand(q) \o R!Items(slices[q]) = published[q]
             /\ poller[q].stage = "handling" => poller[q].event \notin Malformed
  <2>1. R!Items(slices[q]) = <<>>
    BY <1>2, <1>3, ListsHere
  <2>2. done[q] = <<>> /\ published[q] = <<>> /\ poller[q].stage # "handling"
    BY DEF Init, Polling
  <2>3. InHand(q) = <<>>
    BY <2>2 DEF InHand
  <2>4. <<>> \o <<>> \o <<>> = <<>>
    BY EmptySeq, ConcatEmptySeq
  <2> QED
    BY <2>1, <2>2, <2>3, <2>4
<1> QED
  BY <1>4, <1>5 DEF IInv, HandledInOrder

(* The parts of one queue, and that they are sequences of events.           *)
LEMMA Parts ==
  ASSUME IInv, NEW q \in Queues
  PROVE  /\ done[q] \in Seq(Events) /\ published[q] \in Seq(Events)
         /\ R!Items(slices[q]) \in Seq(Events) /\ InHand(q) \in Seq(Events)
         /\ done[q] \o InHand(q) \o R!Items(slices[q]) = published[q]
         /\ \/ poller[q] = Polling /\ InHand(q) = <<>>
            \/ poller[q] = Asleep /\ InHand(q) = <<>>
            \/ /\ poller[q].event \in Events /\ poller[q].event \notin Malformed
               /\ poller[q] = Handling(poller[q].event)
               /\ InHand(q) = <<poller[q].event>>
<1>1. \/ poller[q] \in {Polling, Asleep}
      \/ \E e \in Events : poller[q] = Handling(e)
  BY DEF IInv, TypeOK
<1>2. CASE poller[q] \in {Polling, Asleep}
  <2>1. InHand(q) = <<>>
    BY <1>2 DEF InHand, Polling, Asleep
  <2> QED
    BY <1>2, <2>1, ListsHere, EmptySeq DEF IInv, TypeOK, HandledInOrder
<1>3. CASE \E e \in Events : poller[q] = Handling(e)
  <2>1. PICK e \in Events : poller[q] = Handling(e)
    BY <1>3
  <2>2. poller[q].stage = "handling" /\ poller[q].event = e
    BY <2>1 DEF Handling
  <2>3. InHand(q) = <<e>> /\ <<e>> \in Seq(Events)
    BY <2>2 DEF InHand
  <2> QED
    BY <2>1, <2>2, <2>3, ListsHere DEF IInv, TypeOK, HandledInOrder
<1> QED
  BY <1>1, <1>2, <1>3

(* It is enough to follow the queue of the step.                            *)
LEMMA OneQueue ==
  ASSUME IInv, NEW q \in Queues, R!ListsTypeOK',
         NEW w \in {Polling, Asleep} \cup {Handling(e) : e \in Events \ Malformed},
         NEW d \in Seq(Events), NEW pub \in Seq(Events),
         poller' = [poller EXCEPT ![q] = w], done' = [done EXCEPT ![q] = d],
         published' = [published EXCEPT ![q] = pub],
         \A p \in Queues \ {q} : R!Items(slices'[p]) = R!Items(slices[p]),
         NEW hand, hand = IF w.stage = "handling" THEN <<w.event>> ELSE <<>>,
         d \o hand \o R!Items(slices'[q]) = pub
  PROVE  IInv'
<1>1. TypeOK'
  BY DEF IInv, TypeOK
<1>2. ASSUME NEW p \in Queues
      PROVE  /\ done'[p] \o (IF poller'[p].stage = "handling"
                             THEN <<poller'[p].event>> ELSE <<>>)
                  \o R!Items(slices'[p]) = published'[p]
             /\ poller'[p].stage = "handling" => poller'[p].event \notin Malformed
  <2>1. CASE p = q
    <3>1. done'[p] = d /\ published'[p] = pub /\ poller'[p] = w
      BY <2>1 DEF IInv, TypeOK
    <3>2. w.stage = "handling" => w.event \notin Malformed
      BY DEF Polling, Asleep, Handling
    <3> QED
      BY <2>1, <3>1, <3>2
  <2>2. CASE p # q
    <3>1. done'[p] = done[p] /\ published'[p] = published[p] /\ poller'[p] = poller[p]
          /\ R!Items(slices'[p]) = R!Items(slices[p])
      BY <2>2 DEF IInv, TypeOK
    <3>2. /\ done[p] \o InHand(p) \o R!Items(slices[p]) = published[p]
          /\ poller[p].stage = "handling" => poller[p].event \notin Malformed
      BY DEF IInv, HandledInOrder
    <3> QED
      BY <3>1, <3>2 DEF InHand
  <2> QED
    BY <2>1, <2>2
<1>3. HandledInOrder'
  BY <1>2 DEF HandledInOrder, InHand, R!Items
<1> QED
  BY <1>1, <1>3 DEF IInv

(* The event goes behind all that are published before.                     *)
LEMMA PublishStep ==
  ASSUME IInv, NEW q \in Queues, NEW e \in Events, Publish(q, e)
  PROVE  IInv'
<1> DEFINE s == R!Items(slices[q])
           w == poller[q]
<1>0. R!ListsTypeOK
  BY DEF IInv, TypeOK
<1>1. /\ R!ListsTypeOK'
      /\ \A p \in Queues : R!Items(slices'[p]) =
           IF p = q THEN Append(R!Items(slices[p]), e) ELSE R!Items(slices[p])
  BY <1>0, PublishList DEF Publish
<1>2. /\ published' = [published EXCEPT ![q] = Append(published[q], e)]
      /\ poller' = [poller EXCEPT ![q] = w] /\ done' = [done EXCEPT ![q] = done[q]]
  BY DEF Publish, IInv, TypeOK
<1>3. Append(published[q], e) \in Seq(Events)
  BY Parts, AppendProperties
<1>4. done[q] \o InHand(q) \o Append(s, e) = Append(published[q], e)
  <2>1. /\ done[q] \in Seq(Events) /\ InHand(q) \in Seq(Events) /\ s \in Seq(Events)
        /\ done[q] \o InHand(q) \o s = published[q]
    BY Parts
  <2> HIDE DEF s
  <2>2. done[q] \o InHand(q) \o Append(s, e) = Append(done[q] \o InHand(q) \o s, e)
    BY <2>1, PutBehind
  <2> QED
    BY <2>1, <2>2
<1>5. w \in {Polling, Asleep} \cup {Handling(x) : x \in Events \ Malformed}
  BY Parts
<1>6. InHand(q) = IF w.stage = "handling" THEN <<w.event>> ELSE <<>>
  BY DEF InHand
<1>7. R!Items(slices'[q]) = Append(s, e)
  BY <1>1
<1> HIDE DEF s, w
<1> QED
  BY <1>1, <1>2, <1>3, <1>4, <1>5, <1>6, <1>7, Parts, OneQueue

(* The first event of the list is in hand, or done with.                    *)
LEMMA PollStep ==
  ASSUME IInv, NEW q \in Queues, Poll(q)
  PROVE  IInv'
<1> DEFINE s == R!Items(slices[q])
           d == done[q]
<1>0. /\ R!ListsTypeOK /\ poller[q] = Polling /\ R!LPop(q)
      /\ d \in Seq(Events) /\ s \in Seq(Events) /\ published[q] \in Seq(Events)
      /\ d \o <<>> \o s = published[q]
  <2>1. poller[q].stage # "handling"
    BY DEF Poll, Polling
  <2>2. InHand(q) = <<>>
    BY <2>1 DEF InHand
  <2> QED
    BY <2>2, Parts DEF Poll, IInv, TypeOK
<1>1. /\ poller' = [poller EXCEPT ![q] = AfterPoll(result')]
      /\ done' = IF result'.value \in Malformed
                 THEN [done EXCEPT ![q] = Append(d, result'.value)] ELSE done
      /\ published' = [published EXCEPT ![q] = published[q]]
      /\ done = [done EXCEPT ![q] = d]
  BY DEF Poll, IInv, TypeOK
<1>2. /\ R!ListsTypeOK'
      /\ \/ /\ result' = R!Nothing
            /\ \A p \in Queues : R!Items(slices'[p]) = R!Items(slices[p])
         \/ /\ s # <<>> /\ Head(s) \in Events /\ result' = R!Popped(Head(s))
            /\ \A p \in Queues : R!Items(slices'[p]) =
                 IF p = q THEN Tail(s) ELSE R!Items(slices[p])
  BY <1>0, PollList
<1>3. CASE /\ result' = R!Nothing
           /\ \A p \in Queues : R!Items(slices'[p]) = R!Items(slices[p])
  <2>1. AfterPoll(result') = Asleep /\ result'.value \notin Malformed
    BY <1>3, MockQueueAssumption DEF AfterPoll, R!Nothing
  <2>2. poller' = [poller EXCEPT ![q] = Asleep] /\ done' = [done EXCEPT ![q] = d]
    BY <1>1, <2>1
  <2>3. /\ R!Items(slices'[q]) = s
        /\ <<>> = IF Asleep.stage = "handling" THEN <<Asleep.event>> ELSE <<>>
    BY <1>3 DEF Asleep
  <2>4. \A p \in Queues \ {q} : R!Items(slices'[p]) = R!Items(slices[p])
    BY <1>3
  <2>5. /\ published' = [published EXCEPT ![q] = published[q]]
        /\ R!ListsTypeOK'
        /\ d \in Seq(Events) /\ published[q] \in Seq(Events)
        /\ Asleep \in {Polling, Asleep} \cup {Handling(x) : x \in Events \ Malformed}
    BY <1>0, <1>1, <1>2
  <2>6. d \o <<>> \o R!Items(slices'[q]) = published[q]
    BY <1>0, <2>3
  <2> HIDE DEF s, d
  <2> QED
    BY <2>2, <2>3, <2>4, <2>5, <2>6, OneQueue
<1>4. CASE /\ s # <<>> /\ Head(s) \in Events /\ result' = R!Popped(Head(s))
           /\ \A p \in Queues : R!Items(slices'[p]) =
                IF p = q THEN Tail(s) ELSE R!Items(slices[p])
  <2> DEFINE e == Head(s)
  <2>0. /\ e \in Events /\ s # <<>> /\ R!Items(slices'[q]) = Tail(s)
        /\ result'.value = e /\ result'.ok = TRUE
        /\ \A p \in Queues \ {q} : R!Items(slices'[p]) = R!Items(slices[p])
    BY <1>4 DEF R!Popped
  <2>1. d \o <<e>> \o Tail(s) = published[q]
    BY <1>0, <2>0, TakeOff
  <2>2. CASE e \in Malformed
    <3>1. poller' = [poller EXCEPT ![q] = Polling]
          /\ done' = [done EXCEPT ![q] = Append(d, e)]
      BY <1>1, <2>0, <2>2 DEF AfterPoll
    <3>2. Append(d, e) \in Seq(Events) /\ Tail(s) \in Seq(Events)
      BY <1>0, <2>0, AppendProperties, HeadTailProperties
    <3>3. Append(d, e) \o <<>> \o Tail(s) = published[q]
      BY <1>0, <2>0, <2>1, <3>2, PassOn
    <3>4. <<>> = IF Polling.stage = "handling" THEN <<Polling.event>> ELSE <<>>
      BY DEF Polling
    <3>5. R!ListsTypeOK'
      BY <1>2
    <3>6. /\ published' = [published EXCEPT ![q] = published[q]]
          /\ published[q] \in Seq(Events)
          /\ Polling \in {Polling, Asleep} \cup {Handling(x) : x \in Events \ Malformed}
          /\ Append(d, e) \o <<>> \o R!Items(slices'[q]) = published[q]
      BY <1>0, <1>1, <2>0, <3>3
    <3>7. \A p \in Queues \ {q} : R!Items(slices'[p]) = R!Items(slices[p])
      BY <2>0
    <3> HIDE DEF s, d, e
    <3> QED
      BY <3>1, <3>2, <3>4, <3>5, <3>6, <3>7, OneQueue
  <2>3. CASE e \notin Malformed
    <3>1. poller' = [poller EXCEPT ![q] = Handling(e)]
          /\ done' = [done EXCEPT ![q] = d]
      BY <1>1, <2>0, <2>3 DEF AfterPoll
    <3>2. <<e>> = IF Handling(e).stage = "handling" THEN <<Handling(e).event>> ELSE <<>>
      BY DEF Handling
    <3>4. R!ListsTypeOK'
      BY <1>2
    <3> HIDE DEF s, d, e
    <3>3. Handling(e) \in {Polling, Asleep} \cup {Handling(x) : x \in Events \ Malformed}
      BY <2>0, <2>3
    <3>5. /\ published' = [published EXCEPT ![q] = published[q]]
          /\ published[q] \in Seq(Events) /\ d \in Seq(Events)
          /\ d \o <<e>> \o R!Items(slices'[q]) = published[q]
      BY <1>0, <1>1, <2>0, <2>1
    <3>6. \A p \in Queues \ {q} : R!Items(slices'[p]) = R!Items(slices[p])
      BY <2>0
    <3> QED
      BY <3>1, <3>2, <3>3, <3>4, <3>5, <3>6, OneQueue
  <2> QED
    BY <2>2, <2>3
<1> QED
  BY <1>2, <1>3, <1>4

(* The event in hand is done with.                                          *)
LEMMA ReturnStep ==
  ASSUME IInv, NEW q \in Queues, Return(q)
  PROVE  IInv'
<1> DEFINE s == R!Items(slices[q])
           d == done[q]
           e == poller[q].event
<1>1. /\ e \in Events /\ d \in Seq(Events) /\ s \in Seq(Events)
      /\ published[q] \in Seq(Events)
      /\ d \o <<e>> \o s = published[q]
  <2>1. poller[q].stage = "handling"
    BY DEF Return
  <2>2. poller[q] # Polling /\ poller[q] # Asleep
    BY <2>1 DEF Polling, Asleep
  <2> QED
    BY <2>2, Parts
<1>2. /\ R!ListsTypeOK'
      /\ \A p \in Queues : R!Items(slices'[p]) = R!Items(slices[p])
  BY DEF Return, IInv, TypeOK, R!ListsTypeOK, R!Items
<1>3. /\ poller' = [poller EXCEPT ![q] = Polling]
      /\ done' = [done EXCEPT ![q] = Append(d, e)]
      /\ published' = [published EXCEPT ![q] = published[q]]
  BY DEF Return, IInv, TypeOK
<1>4. Append(d, e) \in Seq(Events)
  BY <1>1, AppendProperties
<1>5. Append(d, e) \o <<>> \o s = published[q]
  BY <1>1, PassOn
<1>6. /\ <<>> = IF Polling.stage = "handling" THEN <<Polling.event>> ELSE <<>>
      /\ R!Items(slices'[q]) = s
  BY <1>2 DEF Polling
<1> HIDE DEF s, d, e
<1> QED
  BY <1>1, <1>2, <1>3, <1>4, <1>5, <1>6, OneQueue

(* Nothing moves while a goroutine sleeps.                                  *)
LEMMA WakeStep ==
  ASSUME IInv, NEW q \in Queues, Wake(q)
  PROVE  IInv'
<1>1. TypeOK'
  BY DEF Wake, IInv, TypeOK, R!ListsTypeOK
<1>2. \A p \in Queues : (poller'[p] = poller[p]) \/ (p = q /\ poller'[p] = Polling)
  BY DEF Wake, IInv, TypeOK
<1>3. poller[q].stage # "handling" /\ Polling.stage # "handling"
  BY DEF Wake, Asleep, Polling
<1>4. HandledInOrder'
  BY <1>2, <1>3 DEF Wake, IInv, HandledInOrder, InHand, R!Items
<1> QED
  BY <1>1, <1>4 DEF IInv

(* Every publish, poll and callback keeps the invariant. *)
LEMMA NextInv ==
  ASSUME IInv, [Next]_vars
  PROVE  IInv'
<1>1. CASE UNCHANGED vars
  BY <1>1 DEF vars, IInv, TypeOK, HandledInOrder, InHand, R!ListsTypeOK, R!Items
<1> QED
  BY <1>1, PublishStep, PollStep, ReturnStep, WakeStep DEF Next, PollEvents

(* What each queue has published is done with, in hand or in its list.      *)
THEOREM Invariance == Spec => []IInv
<1>1. Init => IInv
  BY InitInv
<1>2. IInv /\ [Next]_vars => IInv'
  BY NextInv
<1> QED
  BY <1>1, <1>2, PTL DEF Spec

(* Lists, goroutines and histories keep their types.                        *)
THEOREM TypeCorrect == Spec => []TypeOK
<1>1. IInv => TypeOK
  BY DEF IInv
<1> QED
  BY <1>1, Invariance, PTL

(* No event is lost, repeated or overtaken.                                 *)
THEOREM EventsInOrder == Spec => []HandledInOrder
<1>1. IInv => HandledInOrder
  BY DEF IInv
<1> QED
  BY <1>1, Invariance, PTL

=============================================================================
