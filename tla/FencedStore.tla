---------------------------- MODULE FencedStore ----------------------------
(***************************************************************************)
(* What the package comment of internal/checkpoint promises of any Store,  *)
(* for one key: a lease with at most one holder, and a replay position     *)
(* that only the current holder moves and that never expires.              *)
(***************************************************************************)
CONSTANTS Owners,   \* owner tokens
          Replays,  \* replay IDs
          NoOwner, Nil

VARIABLES holder,  \* who has the lease, or NoOwner
          stored,  \* the stored position, or Nil
          author   \* who moved the position last, or NoOwner

fenceVars == <<holder, stored, author>>

Init == holder = NoOwner /\ stored \in Replays \union {Nil} /\ author = NoOwner

Grant(o) ==
    /\ holder \in {NoOwner, o}
    /\ holder' = o
    /\ UNCHANGED <<stored, author>>

(* The lease is released or runs out.                                      *)
Lapse == holder' = NoOwner /\ UNCHANGED <<stored, author>>

(* The holder stores a position, or deletes it (r = Nil).                  *)
Move(o, r) ==
    /\ holder = o
    /\ stored' = r
    /\ author' = o
    /\ UNCHANGED holder

Next ==
    \/ Lapse
    \/ \E o \in Owners : Grant(o) \/ \E r \in Replays \union {Nil} : Move(o, r)

Spec == Init /\ [][Next]_fenceVars

=============================================================================
