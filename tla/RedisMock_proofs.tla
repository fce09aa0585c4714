-------------------------- MODULE RedisMock_proofs ---------------------------
(***************************************************************************)
(* RedisMock for any keys, clients and times to live, any queues, values   *)
(* and capacities: a running lease is always the lock in the map, so no    *)
(* two run at once; and the slices are lists, whatever is left in their    *)
(* arrays.                                                                 *)
(***************************************************************************)
EXTENDS RedisMock, RedisLists_proofs

IInv == LocksTypeOK /\ LeaseRecorded

(* No lock and no lease at the start. *)
LEMMA InitInv == LocksInit => IInv
<1> SUFFICES ASSUME LocksInit PROVE IInv
  OBVIOUS
<1>1. LocksTypeOK
  BY RedisLocksAssumption DEF LocksInit, LocksTypeOK, Lock
<1>2. \A c \in Clients, k \in Keys : lease[<<c, k>>] = 0
  BY DEF LocksInit
<1>3. LeaseRecorded
  BY <1>2 DEF LocksInit, LeaseRecorded
<1> QED
  BY <1>1, <1>3 DEF IInv

(* SetLock refuses a key whose lease runs; otherwise it records the new lease,
   and no other of that key runs. *)
LEMMA SetLockInv ==
  ASSUME IInv, NEW c \in Clients, NEW k \in Keys, NEW ttl \in TTLs, SetLock(c, k, ttl)
  PROVE  IInv'
<1> USE RedisLocksAssumption DEF IInv
<1>1. CASE Exists(k) /\ Running(k)
  BY <1>1 DEF SetLock, LocksTypeOK, LeaseRecorded
<1>2. CASE ~(Exists(k) /\ Running(k))
  <2>1. LocksTypeOK'
    BY <1>2 DEF SetLock, LocksTypeOK, Lock
  <2>2. \A d \in Clients : ~(now < lease[<<d, k>>])
    BY <1>2 DEF Exists, Running, LeaseRecorded, NoLock, LocksTypeOK, Lock
  <2>3. LeaseRecorded'
    BY <1>2, <2>2 DEF SetLock, LeaseRecorded, LocksTypeOK, Lock
  <2> QED
    BY <2>1, <2>3
<1> QED
  BY <1>1, <1>2

(* GetLock deletes only a lock that has expired. *)
LEMMA GetLockInv ==
  ASSUME IInv, NEW k \in Keys, GetLock(k)
  PROVE  IInv'
<1>1. LocksTypeOK'
  BY DEF IInv, GetLock, LocksTypeOK, Lock
<1>2. LeaseRecorded'
  BY DEF IInv, GetLock, Expired, LeaseRecorded, LocksTypeOK, Lock
<1> QED
  BY <1>1, <1>2 DEF IInv

(* A client that releases its lock ends its own lease, the only one of the key. *)
LEMMA ReleaseInv ==
  ASSUME IInv, NEW c \in Clients, NEW k \in Keys, Release(c, k)
  PROVE  IInv'
<1>1. LocksTypeOK'
  BY DEF IInv, Release, DeleteLock, LocksTypeOK, Lock
<1>2. \A d \in Clients : now < lease[<<d, k>>] => d = c
  BY DEF IInv, Release, LeaseRecorded, LocksTypeOK, Lock
<1>3. LeaseRecorded'
  BY <1>2 DEF IInv, Release, DeleteLock, LeaseRecorded, LocksTypeOK, Lock
<1> QED
  BY <1>1, <1>3 DEF IInv

(* Time passing ends leases and starts none. *)
LEMMA TickInv ==
  ASSUME IInv, Tick
  PROVE  IInv'
BY RedisLocksAssumption DEF IInv, Tick, LocksTypeOK, Lock, LeaseRecorded

(* Every operation on locks and lists, and the clock, keep the invariant. *)
LEMMA NextInv == IInv /\ [Next]_vars => IInv'
<1> SUFFICES ASSUME IInv, [Next]_vars PROVE IInv'
  OBVIOUS
<1>1. CASE \E c \in Clients, k \in Keys, ttl \in TTLs : SetLock(c, k, ttl)
  BY <1>1, SetLockInv
<1>2. CASE \E c \in Clients, k \in Keys : Release(c, k)
  BY <1>2, ReleaseInv
<1>3. CASE \E k \in Keys : GetLock(k)
  BY <1>3, GetLockInv
<1>4. CASE Tick
  BY <1>4, TickInv
<1>5. CASE LocksNext
  BY <1>1, <1>2, <1>3, <1>4, <1>5 DEF LocksNext
<1>6. CASE UNCHANGED lockVars
  BY <1>6 DEF lockVars, IInv, LocksTypeOK, LeaseRecorded
<1> QED
  BY <1>5, <1>6 DEF Next, vars

(* The map of locks keeps its type, and a lease that runs is in it.         *)
THEOREM LocksInvariance == Spec => []IInv
<1>1. Init => IInv
  BY InitInv DEF Init
<1> QED
  BY <1>1, NextInv, PTL DEF Spec

(* No two clients ever hold the same key: a lock is granted again only     *)
(* when nobody's lease of it runs.                                         *)
THEOREM MutualExclusion == Spec => []LeaseExclusive
<1>1. IInv => LeaseExclusive
  <2> SUFFICES ASSUME IInv, NEW c \in Clients, NEW d \in Clients, NEW k \in Keys,
                      now < lease[<<c, k>>], now < lease[<<d, k>>]
               PROVE  c = d
    BY DEF LeaseExclusive
  <2>1. /\ locks[k] = [value |-> c, expiresAt |-> lease[<<c, k>>]]
        /\ locks[k] = [value |-> d, expiresAt |-> lease[<<d, k>>]]
    BY DEF IInv, LeaseRecorded
  <2>2. locks[k].value = c
    BY <2>1
  <2>3. locks[k].value = d
    BY <2>1
  <2> QED
    BY <2>2, <2>3
<1> QED
  BY <1>1, LocksInvariance, PTL

(* A running lease is the lock in the map.                                  *)
THEOREM LeasesAreRecorded == Spec => []LeaseRecorded
<1>1. IInv => LeaseRecorded
  BY DEF IInv
<1> QED
  BY <1>1, LocksInvariance, PTL

-----------------------------------------------------------------------------
(* The lists.                                                               *)

(* Every call on a list is the call of the deque, and keeps the slices      *)
(* windows on values that were pushed.                                      *)
LEMMA ListsCalls ==
  ASSUME ListsTypeOK, NEW q \in Queues
  PROVE  /\ \A v \in Values :
              /\ LPush(q, v) => ListsTypeOK' /\ Lists!PushFront(q, v)
              /\ RPush(q, v) => ListsTypeOK' /\ Lists!PushBack(q, v)
         /\ LPop(q) => ListsTypeOK' /\ (Lists!PopFront(q) \/ Lists!PopEmpty(q))
         /\ RPop(q) => ListsTypeOK' /\ (Lists!PopBack(q) \/ Lists!PopEmpty(q))
<1>1. ASSUME NEW v \in Values, LPush(q, v)
      PROVE  ListsTypeOK' /\ Lists!PushFront(q, v)
  BY <1>1, LPushStep DEF AllItems, Lists!PushFront
<1>2. ASSUME NEW v \in Values, RPush(q, v)
      PROVE  ListsTypeOK' /\ Lists!PushBack(q, v)
  BY <1>2, RPushStep DEF AllItems, Lists!PushBack
<1>3. ASSUME LPop(q)
      PROVE  ListsTypeOK' /\ (Lists!PopFront(q) \/ Lists!PopEmpty(q))
  BY <1>3, LPopStep
     DEF AllItems, Lists!PopFront, Lists!PopEmpty, Nothing, Popped,
         Lists!Nothing, Lists!Popped
<1>4. ASSUME RPop(q)
      PROVE  ListsTypeOK' /\ (Lists!PopBack(q) \/ Lists!PopEmpty(q))
  BY <1>4, RPopStep
     DEF AllItems, Lists!PopBack, Lists!PopEmpty, Nothing, Popped,
         Lists!Nothing, Lists!Popped, Front, Last, Lists!Front, Lists!Last
<1> QED
  BY <1>1, <1>2, <1>3, <1>4

(* So is every step of RedisMock, unless it is one of the locks.            *)
LEMMA ListsStep ==
  ASSUME ListsTypeOK, [Next]_vars
  PROVE  ListsTypeOK' /\ [Lists!Next]_(Lists!vars)
<1>1. CASE ListsNext
  BY <1>1, ListsCalls DEF ListsNext, Lists!Next
<1>2. CASE UNCHANGED listVars
  BY <1>2 DEF listVars, ListsTypeOK, Lists!vars, Items
<1> QED
  BY <1>1, <1>2 DEF Next, vars

(* The slices are windows on values that were pushed.                       *)
THEOREM ListsTypeCorrect == Spec => []ListsTypeOK
<1>1. Init => ListsTypeOK
  BY ListsInitType DEF Init
<1>2. ListsTypeOK /\ [Next]_vars => ListsTypeOK'
  BY ListsStep
<1> QED
  BY <1>1, <1>2, PTL DEF Spec

(* Lists and locks keep their types.                                        *)
THEOREM TypeCorrect == Spec => []TypeOK
<1>1. ListsTypeOK /\ IInv => TypeOK
  BY DEF IInv, TypeOK
<1> QED
  BY <1>1, ListsTypeCorrect, LocksInvariance, PTL

(* The slices implement the deques of module Deque, call by call.           *)
THEOREM Refinement == Spec => ImplementsDeque
<1> DEFINE Calls ==
      \A q \in Queues :
        /\ \A v \in Values : /\ LPush(q, v) => Lists!PushFront(q, v)
                             /\ RPush(q, v) => Lists!PushBack(q, v)
        /\ LPop(q) => Lists!PopFront(q) \/ Lists!PopEmpty(q)
        /\ RPop(q) => Lists!PopBack(q) \/ Lists!PopEmpty(q)
<1>1. Init => Lists!Init
  BY ListsInitType DEF Init, ListsInit, AllItems, Lists!Init, Nothing, Lists!Nothing
<1>2. ListsTypeOK /\ [Next]_vars => [Lists!Next]_(Lists!vars)
  BY ListsStep
<1>3. ListsTypeOK /\ [Next]_vars => [Calls]_vars
  BY ListsCalls
<1> HIDE DEF Calls
<1>4. Spec => Lists!Spec
  BY <1>1, <1>2, ListsTypeCorrect, PTL DEF Spec, Lists!Spec
<1>5. Spec => [][Calls]_vars
  BY <1>3, ListsTypeCorrect, PTL DEF Spec
<1> QED
  BY <1>4, <1>5 DEF ImplementsDeque, Calls

=============================================================================
