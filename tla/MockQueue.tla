------------------------------ MODULE MockQueue ------------------------------
(***************************************************************************)
(* Events between the shop's components: Publish and PollEvents over the   *)
(* lists of RedisMock.  Any handler publishes to any queue at any time;    *)
(* each queue has one goroutine that polls it and runs the callback.       *)
(***************************************************************************)
EXTENDS Naturals, Sequences, SequencesExt, FiniteSets

CONSTANTS
  Queues, Events, NoEvent, MaxLen, MaxCap,  \* of RedisLists
  Malformed,  \* events that are not JSON of the type the callback takes
  Hanging     \* queues with a callback that may never return

ASSUME MockQueueAssumption ==
  /\ Malformed \subseteq Events /\ Hanging \subseteq Queues
  /\ NoEvent \notin Events
  /\ MaxLen \in Nat /\ MaxCap \in Nat /\ MaxLen <= MaxCap

VARIABLES
  slices, result,  \* of RedisLists
  poller,          \* the goroutine of a queue
  published,       \* history: events published to a queue
  done             \* history: events whose callback has returned, or skipped

R == INSTANCE RedisLists WITH Values <- Events, NoValue <- NoEvent

vars == <<slices, result, poller, published, done>>

Polling == [stage |-> "polling"]
Asleep == [stage |-> "asleep"]
Handling(e) == [stage |-> "handling", event |-> e]

TypeOK ==
  /\ R!ListsTypeOK
  /\ poller \in [Queues -> {Polling, Asleep} \cup {Handling(e) : e \in Events}]
  /\ published \in [Queues -> Seq(Events)]
  /\ done \in [Queues -> Seq(Events)]

Init ==
  /\ R!ListsInit
  /\ poller = [q \in Queues |-> Polling]
  /\ published = [q \in Queues |-> <<>>]
  /\ done = [q \in Queues |-> <<>>]

-----------------------------------------------------------------------------
Unpublished(e) == \A q \in Queues : e \notin Range(published[q])

(* Mistake: the event is pushed to the end that is popped.                  *)
PublishFront(q, e) ==
  /\ Unpublished(e)
  /\ R!LPush(q, e)
  /\ published' = [published EXCEPT ![q] = Append(@, e)]
  /\ UNCHANGED <<poller, done>>

(* Every event is told apart from the others: it is published once.         *)
Publish(q, e) ==
  /\ Unpublished(e)
  /\ R!RPush(q, e)
  /\ published' = [published EXCEPT ![q] = Append(@, e)]
  /\ UNCHANGED <<poller, done>>

(* Mistakes: the goroutine ends when there is nothing to do, or when an    *)
(* event cannot be read.                                                   *)
Ended == [stage |-> "ended"]
AfterPollNoSkip(res) ==
  IF ~res.ok THEN Asleep
  ELSE IF res.value \in Malformed THEN Ended ELSE Handling(res.value)

AfterPoll(res) ==
  IF ~res.ok THEN Asleep
  ELSE IF res.value \in Malformed THEN Polling ELSE Handling(res.value)

Poll(q) ==
  /\ poller[q] = Polling
  /\ R!LPop(q)
  /\ poller' = [poller EXCEPT ![q] = AfterPoll(result')]
  /\ done' = IF result'.value \in Malformed
             THEN [done EXCEPT ![q] = Append(@, result'.value)] ELSE done
  /\ UNCHANGED published

(* pollInterval is over.                                                    *)
Wake(q) ==
  /\ poller[q] = Asleep
  /\ poller' = [poller EXCEPT ![q] = Polling]
  /\ UNCHANGED <<slices, result, published, done>>

(* The callback returns, with an error or without: the event is done with. *)
Return(q) ==
  /\ poller[q].stage = "handling"
  /\ done' = [done EXCEPT ![q] = Append(@, poller[q].event)]
  /\ poller' = [poller EXCEPT ![q] = Polling]
  /\ UNCHANGED <<slices, result, published>>

PollEvents(q) == Poll(q) \/ Wake(q) \/ Return(q)

Next == \E q \in Queues : (\E e \in Events : Publish(q, e)) \/ PollEvents(q)

(* A goroutine goes on as long as its callbacks return.                     *)
Fairness ==
  /\ \A q \in Queues : WF_vars(Poll(q) \/ Wake(q))
  /\ \A q \in Queues \ Hanging : WF_vars(Return(q))

Spec == Init /\ [][Next]_vars /\ Fairness

-----------------------------------------------------------------------------
(* Properties.                                                              *)

InHand(q) == IF poller[q].stage = "handling" THEN <<poller[q].event>> ELSE <<>>

(* No event is lost, handled twice, handled beside another of its queue or *)
(* overtaken by a later one, and none that cannot be read is handled:      *)
(* those done with, the one in hand and those in the list are what was     *)
(* published, in that order.                                               *)
HandledInOrder ==
  \A q \in Queues :
    /\ done[q] \o InHand(q) \o R!Items(slices[q]) = published[q]
    /\ poller[q].stage = "handling" => poller[q].event \notin Malformed

(* Every readable event is handled in the end, after sleeping pollers,     *)
(* unreadable events and failed callbacks, and whatever hangs in the       *)
(* goroutine of another queue.                                             *)
EveryEventHandled ==
  \A q \in Queues \ Hanging, e \in Events \ Malformed :
    e \in Range(published[q]) ~> e \in Range(done[q])

=============================================================================
