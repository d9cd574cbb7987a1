---------------------------- MODULE AtLeastOnce ----------------------------
(***************************************************************************)
(* What the stream collector promises, without processes, leases or        *)
(* failures: an archive that only grows and a cursor that may only be      *)
(* placed where every event since the start is archived.  The start is     *)
(* chosen when there is no cursor (bootstrap) and never moves while there  *)
(* is one; only an operator may drop the cursor.                           *)
(***************************************************************************)
EXTENDS Integers

CONSTANTS EventType, Foreign

VARIABLES stored,  \* archived events
          cursor,  \* replay ID up to which the archive is complete, -1 for none
          start    \* replay ID after which it is

NoCursor == -1

Events(from, to) == {e \in (from + 1)..to : EventType[e] # Foreign}

Init == stored = {} /\ cursor = NoCursor /\ start = 0

(* Some events are archived, again or for the first time.                  *)
Store ==
    /\ stored \subseteq stored'
    /\ UNCHANGED <<cursor, start>>

(* The cursor is placed where the archive is complete.                     *)
Advance ==
    /\ cursor' # NoCursor
    /\ cursor # NoCursor => start' = start
    /\ Events(start', cursor') \subseteq stored
    /\ UNCHANGED stored

(* The operator gives the position up.                                     *)
Reset ==
    /\ cursor' = NoCursor
    /\ UNCHANGED <<stored, start>>

Next == Store \/ Advance \/ Reset

Spec == Init /\ [][Next]_<<stored, cursor, start>>
=============================================================================
