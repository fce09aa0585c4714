---------------------------- MODULE Store_proofs ----------------------------
(***************************************************************************)
(* Lemmas about the operations of Store that the proofs of the components  *)
(* rest on.                                                                *)
(***************************************************************************)
EXTENDS Store, FiniteSetTheorems, FunctionTheorems, SequenceTheorems, TLAPS

(* There are finitely many orders.                                          *)
LEMMA OrderIDFinite == IsFiniteSet(OrderID)
  BY StoreAssumption, FS_Product DEF OrderID

(* A snapshot of an existing order is a queue event.                        *)
LEMMA SnapshotType ==
  ASSUME orderStatus \in [OrderID -> OrderStatus \cup {"absent"}],
         NEW o \in OrderID, orderStatus[o] # "absent"
  PROVE  Snapshot(o) \in OrderEvent
  BY DEF Snapshot, OrderEvent

(* A SELECT without ORDER BY yields a sequence of what it reads, one row of *)
(* every order selected.                                                    *)
LEMMA RowsInSomeOrder ==
  ASSUME NEW S \in SUBSET OrderID, NEW T, NEW row \in Surjection(S, T),
         NEW f \in SetToSeqs(T)
  PROVE  f \in Seq(T)
<1>1. IsFiniteSet(S)
  BY OrderIDFinite, FS_Subset
<1>2. Cardinality(T) \in Nat
  BY <1>1, FS_Surjection, FS_CardinalityType
<1>3. f \in [1..Cardinality(T) -> T]
  BY DEF SetToSeqs
<1> QED
  BY <1>2, <1>3

(* The snapshots of the selected orders.                                    *)
LEMMA ListingType ==
  ASSUME NEW S \in SUBSET OrderID, NEW f \in Listing(S)
  PROVE  f \in Seq({Snapshot(o) : o \in S})
<1> DEFINE T == {Snapshot(o) : o \in S}
           sn == [o \in S |-> Snapshot(o)]
<1>1. sn \in Surjection(S, T)
  BY DEF Surjection
<1>2. f \in SetToSeqs(T)
  BY DEF Listing
<1> HIDE DEF T, sn
<1>3. f \in Seq(T)
  BY <1>1, <1>2, RowsInSomeOrder
<1> QED
  BY <1>3 DEF T

(* Typing of the row operations.                                            *)
LEMMA UpdateStatusType ==
  ASSUME NEW K, NEW V, NEW table \in [K -> V], NEW k \in K, NEW old, NEW new \in V
  PROVE  UpdateStatus(table, k, old, new) \in [K -> V]
  BY DEF UpdateStatus

(* Inserting a row that may exist keeps the number of rows a number.        *)
LEMMA CreateOrIgnoreType ==
  ASSUME NEW K, NEW table \in [K -> Nat], NEW k \in K
  PROVE  CreateOrIgnore(table, k) \in [K -> Nat]
  BY DEF CreateOrIgnore

(* The listing of a recovery request has the type of queue events.          *)
LEMMA StartRecoveryType ==
  ASSUME StoreTypeOK, NEW h \in Recoveries, StartRecovery(h)
  PROVE  recovering' \in [Recoveries -> Seq(OrderEvent)]
<1>1. PICK S \in RecoveryCandidates : \E listed \in Listing(S) :
        recovering' = [recovering EXCEPT ![h] = listed]
  BY DEF StartRecovery
<1>2. /\ S \in SUBSET OrderID
      /\ \A o \in S : orderStatus[o] \in RecoveredStatus \cup {"created"}
  BY <1>1 DEF RecoveryCandidates, Recoverable
<1>3. {Snapshot(o) : o \in S} \subseteq OrderEvent
  BY <1>2, SnapshotType DEF StoreTypeOK, RecoveredStatus
<1>4. \A listed \in Listing(S) : listed \in Seq(OrderEvent)
  BY <1>2, <1>3, ListingType, SeqMonotonic
<1> QED
  BY <1>1, <1>4 DEF StoreTypeOK

(* A step of the recovery request, and a crash, keep the store well-typed.  *)
LEMMA RecoverOrderType ==
  ASSUME StoreTypeOK, NEW h \in Recoveries, RecoverOrder(h)
  PROVE  StoreTypeOK'
<1> DEFINE e == Head(recovering[h])
<1>1. /\ e \in OrderEvent /\ Tail(recovering[h]) \in Seq(OrderEvent)
  BY HeadTailProperties DEF StoreTypeOK, RecoverOrder
<1>2. initQueue' = initQueue
  BY DEF RecoverOrder, InitRecoverable, PaymentPaid
<1>3. paidQueue' \in Seq(OrderEvent)
  BY <1>1, AppendProperties DEF StoreTypeOK, RecoverOrder
<1> QED
  BY <1>1, <1>2, <1>3 DEF StoreTypeOK, RecoverOrder, rows

(* A crash keeps the types.                                                 *)
LEMMA CrashStoreType ==
  ASSUME StoreTypeOK, CrashStore
  PROVE  StoreTypeOK'
  BY DEF StoreTypeOK, CrashStore, InjectFault, rows

=============================================================================
