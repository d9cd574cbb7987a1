---------------------------- MODULE PubSubTopic ----------------------------
(***************************************************************************)
(* One Salesforce Pub/Sub topic as a subscription sees it: a stream of     *)
(* replay IDs of which the newest `head` have been assigned and those      *)
(* below `oldest` are outside the retention window.                        *)
(*                                                                         *)
(* Replay IDs are the numbers 1, 2, 3, ...  The IDs of a topic have holes: *)
(* EventType[i] = Foreign says that ID i is not an event of this topic, so *)
(* the newest ID a keepalive reports can lie beyond the topic's last event.*)
(* The service itself is not part of the repository; what is written here  *)
(* is what the collector relies on and what internal/mocksf/pubsub.go      *)
(* reproduces for the tests.                                               *)
(***************************************************************************)
EXTENDS Integers, FiniteSets

CONSTANTS MaxHead,    \* bound: replay IDs ever assigned
          EventType,  \* EventType[i]: the event type of replay ID i, or Foreign
          Foreign,    \* the replay ID belongs to no event of this topic
          MaxExpired  \* bound: replay IDs that may leave the retention window

ASSUME TopicAssumption == MaxHead \in Nat /\ MaxExpired \in Nat

VARIABLES head, oldest

topicVars == <<head, oldest>>

(* The topic's events after replay ID `from`, up to and including `to`.    *)
EventsAfter(from, to) == {e \in (from + 1)..to : EventType[e] # Foreign}

First(S) == CHOOSE e \in S : \A f \in S : e <= f
Last(S)  == CHOOSE e \in S : \A f \in S : f <= e

TopicInit == head = 0 /\ oldest = 1

Publish ==
    /\ head < MaxHead
    /\ head' = head + 1
    /\ UNCHANGED oldest

(* An ID can only leave the retention window after it was assigned.        *)
Expire ==
    /\ oldest <= head
    /\ oldest <= MaxExpired
    /\ oldest' = oldest + 1
    /\ UNCHANGED head

(* Mutant: the start of the window is counted off by one.                   *)
StartTooEarly == oldest - 2

(* Where a new subscription may start: the last ID it counts as consumed.  *)
StartEarliest     == oldest - 1
StartLatest       == head
CanResumeAt(id)   == oldest <= id + 1 /\ id <= head

=============================================================================
