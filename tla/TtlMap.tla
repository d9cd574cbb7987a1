------------------------------- MODULE TtlMap -------------------------------
(***************************************************************************)
(* What the collectors expect of a cache, and Redis provides: a key holds  *)
(* the last value set until it is deleted or its time is over, a value set *)
(* without expiry stays, and a call that fails changes nothing.            *)
(***************************************************************************)
EXTENDS Integers

CONSTANTS Keys, Values, TTL, NoEntry

Never == 0

VARIABLES now,    \* the time
          data,   \* what each key holds: a value and the time it ends, or NoEntry
          reply   \* the answer to the last call

vars == <<now, data, reply>>

Live(e, t) == e # NoEntry /\ (e.until = Never \/ t < e.until)

Init ==
    /\ now \in Nat \ {0}
    /\ data = [k \in Keys |-> NoEntry]
    /\ reply = "done"

Get(k) ==
    /\ reply' = IF data[k] = NoEntry THEN "missing" ELSE data[k].val
    /\ UNCHANGED <<now, data>>

(* A lifetime of zero is none.                                             *)
Set(k, v, ttl) ==
    /\ data' = [data EXCEPT ![k] = [val |-> v, until |-> IF ttl > 0 THEN now + ttl ELSE Never]]
    /\ reply' = "done" /\ UNCHANGED now

Del(k) ==
    /\ data' = [data EXCEPT ![k] = NoEntry]
    /\ reply' = "done" /\ UNCHANGED now

Clear ==
    /\ data' = [k \in Keys |-> NoEntry]
    /\ reply' = "done" /\ UNCHANGED now

Fail == reply' = "failed" /\ UNCHANGED <<now, data>>

Tick ==
    /\ now' = now + 1
    /\ data' = [k \in Keys |-> IF Live(data[k], now + 1) THEN data[k] ELSE NoEntry]
    /\ UNCHANGED reply

Next ==
    \/ \E k \in Keys : Get(k) \/ Del(k) \/ \E v \in Values, ttl \in {0, TTL} : Set(k, v, ttl)
    \/ Clear \/ Fail \/ Tick

Spec == Init /\ [][Next]_vars

=============================================================================
