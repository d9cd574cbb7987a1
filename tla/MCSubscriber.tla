---------------------------- MODULE MCSubscriber ----------------------------
(* Subscriber for TLC: two event types, so that a flush writes two objects, *)
(* and one replay ID that is no event of the topic.                         *)
EXTENDS Subscriber, TLC

CONSTANTS c1, c2

MCEventType == <<"login", "logout", "foreign", "login">>
MCSymmetry  == Permutations({c1, c2})
=============================================================================
