----------------------------- MODULE Watermark -----------------------------
(***************************************************************************)
(* The clock and one watermark of the event log collector                  *)
(* (internal/integration/eventlog/collector.go): the point in Salesforce   *)
(* time a poll starts reading from.  It is a cache key without expiry that *)
(* several polls may read and write: a scheduled -once task that overlaps  *)
(* the next one, or the old and the new task of a deployment (the event    *)
(* log collector takes no lease).                                          *)
(*                                                                         *)
(* Time is counted in ticks, Second ticks to a second: CreatedDate and the *)
(* watermark are finer than the seconds a SOQL query can name.  The        *)
(* collector's and Salesforce's clocks agree.                              *)
(*                                                                         *)
(* `floor` is a history variable: where the first window began that the    *)
(* stored watermark goes back to.  The code does not store it.             *)
(***************************************************************************)
EXTENDS Integers

CONSTANTS MaxClock,            \* bound: the last tick
          Second,              \* ticks per second
          Overlap,             \* watermarkOverlapMinutes
          InitialTimeInterval  \* initialTimeInterval

ASSUME WatermarkAssumption ==
    /\ MaxClock \in Nat
    /\ Second \in Nat \ {0}
    /\ Overlap \in Nat \ {0}
    /\ InitialTimeInterval \in Nat \ {0}

VARIABLES now, watermark, floor

watermarkVars == <<watermark, floor>>

NoWatermark == -1

(* A time as a SOQL query writes it, and the upper bound of every window.  *)
Truncate(t) == (t \div Second) * Second

(* Where the next poll starts to read: watermark minus overlap, or the     *)
(* initial interval when there is no watermark.                            *)
Since ==
    Truncate(IF watermark = NoWatermark THEN now - InitialTimeInterval
                                        ELSE watermark - Overlap)

(* The start of the range a poll that reads the watermark now answers for. *)
Base == IF watermark = NoWatermark THEN Since ELSE floor

(* Mutant: what is stored is where the next query starts, not the watermark. *)
SetWatermarkToSince(t, base, stored) ==
    IF stored THEN watermark' = Truncate(t - Overlap) /\ floor' = base
              ELSE UNCHANGED watermarkVars

(* setWatermark: an error is logged and ignored (`stored` is FALSE).       *)
SetWatermark(t, base, stored) ==
    IF stored THEN watermark' = t /\ floor' = base
              ELSE UNCHANGED watermarkVars
=============================================================================
