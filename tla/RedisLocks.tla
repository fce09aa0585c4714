----------------------------- MODULE RedisLocks -----------------------------
(***************************************************************************)
(* The locks of RedisMock: a key is held with a value until it expires or  *)
(* is deleted; expired locks stay in the map until somebody looks.  No     *)
(* component of the shop takes a lock yet: the clients are those the       *)
(* operations are made for, each knowing until when its own lock lasts.    *)
(***************************************************************************)
EXTENDS Naturals

CONSTANTS
  Keys,
  Clients,  \* each sets its locks with a value of its own
  NoClient,
  TTLs,     \* ttl, in ticks of the clock; 0 among them
  MaxTime   \* bound: the clock

ASSUME RedisLocksAssumption ==
  NoClient \notin Clients /\ TTLs \subseteq Nat /\ MaxTime \in Nat

VARIABLES
  now,    \* time.Now()
  locks,  \* the map of locks
  lease   \* external: until when a client has been granted a key

lockVars == <<now, locks, lease>>

NoLock == [value |-> NoClient, expiresAt |-> 0]
Lock == {NoLock} \cup [value : Clients, expiresAt : Nat]

LocksTypeOK ==
  /\ now \in 0..MaxTime
  /\ locks \in [Keys -> Lock]
  /\ lease \in [Clients \X Keys -> Nat]

LocksInit ==
  /\ now = 0
  /\ locks = [k \in Keys |-> NoLock]
  /\ lease = [x \in Clients \X Keys |-> 0]

Exists(k) == locks[k] # NoLock

(* Mistake: a lock is taken for expired a tick too early.                   *)
ExpiredEarly(k) == now + 1 >= locks[k].expiresAt

(* time.Now().After(expiresAt)                                              *)
Expired(k) == now > locks[k].expiresAt

(* time.Now().Before(expiresAt): when a lock ends, SetLock takes it for     *)
(* free while GetLock takes it, for that one tick, for held.                *)
Running(k) == now < locks[k].expiresAt

(* Mistake: a lock that ends at once is granted without a look at the map.  *)
SetLockUnread(c, k, ttl) ==
  /\ IF Exists(k) /\ Running(k) /\ ttl # 0
     THEN UNCHANGED <<locks, lease>>
     ELSE /\ locks' = [locks EXCEPT ![k] = [value |-> c, expiresAt |-> now + ttl]]
          /\ lease' = [lease EXCEPT ![<<c, k>>] = now + ttl]
  /\ UNCHANGED now

SetLock(c, k, ttl) ==
  /\ IF Exists(k) /\ Running(k)
     THEN UNCHANGED <<locks, lease>>
     ELSE /\ locks' = [locks EXCEPT ![k] = [value |-> c, expiresAt |-> now + ttl]]
          /\ lease' = [lease EXCEPT ![<<c, k>>] = now + ttl]
  /\ UNCHANGED now

GetLock(k) ==
  /\ IF Exists(k) /\ Expired(k)
     THEN locks' = [locks EXCEPT ![k] = NoLock]
     ELSE UNCHANGED locks
  /\ UNCHANGED <<now, lease>>

(* Mistake: the entry stays, with no value.                                 *)
DeleteValue(k) == locks' = [locks EXCEPT ![k].value = NoClient]

DeleteLock(k) == locks' = [locks EXCEPT ![k] = NoLock]

(* A rule for clients, which no code enforces: DeleteLock removes the lock *)
(* of anybody, so a client calls it only while its own lock still runs.    *)
Release(c, k) ==
  /\ now < lease[<<c, k>>]
  /\ DeleteLock(k)
  /\ lease' = [lease EXCEPT ![<<c, k>>] = 0]
  /\ UNCHANGED now

Tick ==
  /\ now < MaxTime
  /\ now' = now + 1
  /\ UNCHANGED <<locks, lease>>

LocksNext ==
  \/ \E c \in Clients, k \in Keys : \/ \E ttl \in TTLs : SetLock(c, k, ttl)
                                    \/ Release(c, k)
  \/ \E k \in Keys : GetLock(k)
  \/ Tick

-----------------------------------------------------------------------------
(* Properties.                                                              *)

(* Among clients that keep to Release, a running lease is the lock in the  *)
(* map, with its own expiry: neither a lookup that clears expired locks,   *)
(* nor an expired lock overwritten takes it away.                          *)
LeaseRecorded ==
  \A c \in Clients, k \in Keys :
    now < lease[<<c, k>>] =>
      locks[k] = [value |-> c, expiresAt |-> lease[<<c, k>>]]

(* Nor have two such clients ever a running lease of one key, across       *)
(* expiries, lazy clearing, releases and locks set again.                  *)
LeaseExclusive ==
  \A c, d \in Clients, k \in Keys :
    now < lease[<<c, k>>] /\ now < lease[<<d, k>>] => c = d

=============================================================================
