------------------------------ MODULE RedisMock ------------------------------
(***************************************************************************)
(* RedisMock: lists and locks under one mutex, which makes every call one  *)
(* step, whoever makes it.                                                 *)
(***************************************************************************)
EXTENDS RedisLists, RedisLocks

vars == <<listVars, lockVars>>

TypeOK == ListsTypeOK /\ LocksTypeOK

Init == ListsInit /\ LocksInit

Next ==
  \/ ListsNext /\ UNCHANGED lockVars
  \/ LocksNext /\ UNCHANGED listVars

Spec == Init /\ [][Next]_vars

-----------------------------------------------------------------------------
(* The slices behave as sequences, call by call: no push overwrites a      *)
(* value that is still in a list, no popped value comes back out of an     *)
(* array, and each end keeps its order.                                    *)
Lists == INSTANCE Deque WITH items <- [q \in Queues |-> Items(slices[q])]

ImplementsDeque ==
  /\ Lists!Spec
  /\ [][\A q \in Queues :
          /\ \A v \in Values : /\ LPush(q, v) => Lists!PushFront(q, v)
                               /\ RPush(q, v) => Lists!PushBack(q, v)
          /\ LPop(q) => Lists!PopFront(q) \/ Lists!PopEmpty(q)
          /\ RPop(q) => Lists!PopBack(q) \/ Lists!PopEmpty(q)]_vars

=============================================================================
