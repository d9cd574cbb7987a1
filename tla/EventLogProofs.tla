--------------------------- MODULE EventLogProofs ---------------------------
(***************************************************************************)
(* Proofs about EventLogFiles, for every set of pollers and files, every   *)
(* clock resolution, overlap and number of attempts.                       *)
(*                                                                         *)
(* NoFileSkipped is not inductive: the watermark that is stored was worked *)
(* out by a poll that may have begun long before, while others moved the   *)
(* stored one.  IInv adds what each poll knows: everything before its      *)
(* window was accounted for when it began, everything of the window that   *)
(* it has passed is, and a file it was not given was created too late to   *)
(* be left behind.                                                         *)
(***************************************************************************)
EXTENDS EventLogFiles, TLAPS

(* Every file created (according to c) in [a, b) is in A.                  *)
Passed(c, A, a, b) ==
    \A f \in Files : c[f] # NotYet /\ a <= c[f] /\ c[f] < b => f \in A

(* f comes first among the files of S.                                     *)
FirstOf(c, S, f) ==
    f \in S /\ \A g \in S : c[f] < c[g] \/ (c[f] = c[g] /\ f <= g)

(* What holds at time t of a poll with state q, c being the creation times, *)
(* A the files accounted for and F the failures.                            *)
PollOK(q, t, c, A, F) ==
    q.pc # "idle" =>
       /\ q.since <= t /\ q.until <= t /\ q.new <= t
       /\ Passed(c, A, q.base, q.since)
       /\ q.new # NoWatermark => Passed(c, A, q.base, Truncate(q.new - Overlap))
       /\ \A f \in q.todo : c[f] # NotYet /\ c[f] <= q.until
       /\ q.pc \in {"next", "archive", "failing", "mark"} =>
             Passed(c, A \cup q.todo, q.since, q.until - Overlap)
       /\ q.pc = "mark" => \A f \in q.todo : FirstOf(c, q.todo, f) => f \in A
       /\ q.pc = "failing" => \A f \in q.todo : FirstOf(c, q.todo, f) => q.attempts <= F[f]

(* What holds of a stored watermark w that goes back to b.                  *)
MarkOK(w, b, t, c, A) ==
    /\ w <= t
    /\ w # NoWatermark => Passed(c, A, b, Truncate(w - Overlap))

ClockOK ==
    \A f \in Files :
       /\ created[f] <= now
       /\ f \in visible => created[f] # NotYet
       /\ f \notin visible /\ created[f] # NotYet => now <= created[f] + MaxDelay

CountOK ==
    \A f \in Files : badCount[f] < Attempts(f) /\ badCount[f] <= failures[f]

(* Archive, cache and history.                                              *)
SharedOK ==
    /\ archived \subseteq Files /\ quarantined \subseteq Files /\ tombstoned \subseteq Files
    /\ processed \subseteq Files /\ listed \subseteq Files
    /\ badCount \in [Files -> Nat] /\ failures \in [Files -> Nat]
    /\ faults \in Nat
    /\ processed \subseteq Accounted
    /\ CountOK
    /\ GivenUpLate

IInv ==
    /\ TypeOK
    /\ ClockOK
    /\ MarkOK(watermark, floor, now, created, Accounted)
    /\ SharedOK
    /\ \A p \in Pollers : PollOK(poll[p], now, created, Accounted, failures)

-----------------------------------------------------------------------------
(* Lemmas about the operators.                                             *)

(* A truncated time is a time, and no later.                               *)
LEMMA TruncateBelow ==
  ASSUME NEW t \in Int
  PROVE  Truncate(t) \in Int /\ Truncate(t) <= t
<1>1. Second \in Nat /\ Second > 0
  BY WatermarkAssumption
<1>2. /\ t \div Second \in Int /\ t % Second \in 0..(Second - 1)
      /\ t = Second * (t \div Second) + (t % Second)
  BY <1>1
<1> QED BY <1>1, <1>2 DEF Truncate

(* A time that is not negative stays so.                                   *)
LEMMA TruncateNat ==
  ASSUME NEW t \in Nat
  PROVE  Truncate(t) \in Nat
<1>1. Second \in Nat /\ Second > 0
  BY WatermarkAssumption
<1>2. t \div Second \in Nat
  BY <1>1
<1> QED BY <1>1, <1>2 DEF Truncate

(* Files created later than b and more files in A keep a range passed.     *)
LEMMA PassedMonotone ==
  ASSUME NEW c, NEW c2, NEW A, NEW A2, NEW a \in Int, NEW b \in Int,
         c \in [Files -> Nat \cup {NotYet}], c2 \in [Files -> Nat \cup {NotYet}],
         A \subseteq A2,
         \A f \in Files : c2[f] = c[f] \/ (c[f] = NotYet /\ b <= c2[f]),
         Passed(c, A, a, b)
  PROVE  Passed(c2, A2, a, b)
BY DEF Passed, NotYet

(* What holds of a stored watermark survives time, new files and growth of *)
(* the archive.                                                            *)
LEMMA MarkMonotone ==
  ASSUME NEW w \in Nat \cup {NoWatermark}, NEW b \in Int, NEW t \in Nat, NEW t2 \in Nat,
         NEW c, NEW c2, NEW A, NEW A2,
         c \in [Files -> Nat \cup {NotYet}], c2 \in [Files -> Nat \cup {NotYet}],
         A \subseteq A2, t <= t2,
         \A f \in Files : c2[f] = c[f] \/ (c[f] = NotYet /\ t <= c2[f]),
         MarkOK(w, b, t, c, A)
  PROVE  MarkOK(w, b, t2, c2, A2)
<1>1. w <= t /\ w <= t2
  BY DEF MarkOK, NoWatermark
<1>2. ASSUME w # NoWatermark
      PROVE  Passed(c2, A2, b, Truncate(w - Overlap))
  <2>1. w - Overlap \in Int /\ w - Overlap <= t
    BY <1>1, WatermarkAssumption DEF NoWatermark
  <2>2. Truncate(w - Overlap) \in Int /\ Truncate(w - Overlap) <= t
    BY <2>1, TruncateBelow
  <2>3. \A f \in Files : c2[f] = c[f] \/ (c[f] = NotYet /\ Truncate(w - Overlap) <= c2[f])
    BY <2>2 DEF NotYet
  <2> QED BY <1>2, <2>2, <2>3, PassedMonotone DEF MarkOK
<1> QED BY <1>1, <1>2 DEF MarkOK

(* So does what holds of a poll.                                           *)
LEMMA PollMonotone ==
  ASSUME NEW q \in PollState, NEW t \in Nat, NEW t2 \in Nat,
         NEW c, NEW c2, NEW A, NEW A2, NEW F, NEW F2,
         c \in [Files -> Nat \cup {NotYet}], c2 \in [Files -> Nat \cup {NotYet}],
         F \in [Files -> Nat], F2 \in [Files -> Nat],
         A \subseteq A2, t <= t2, \A f \in Files : F[f] <= F2[f],
         \A f \in Files : c2[f] = c[f] \/ (c[f] = NotYet /\ t <= c2[f]),
         PollOK(q, t, c, A, F)
  PROVE  PollOK(q, t2, c2, A2, F2)
<1> SUFFICES ASSUME q.pc # "idle" PROVE PollOK(q, t2, c2, A2, F2)
  BY DEF PollOK
<1>1. /\ q.since \in Int /\ q.until \in Int /\ q.base \in Int /\ q.attempts \in Nat
      /\ q.new \in Nat \cup {NoWatermark} /\ q.todo \subseteq Files
  BY DEF PollState
<1>2. q.since <= t /\ q.until <= t /\ q.new <= t
  BY DEF PollOK
<1>3. q.since <= t2 /\ q.until <= t2 /\ q.new <= t2
  BY <1>1, <1>2 DEF NoWatermark
<1>4. Passed(c2, A2, q.base, q.since)
  <2>1. \A f \in Files : c2[f] = c[f] \/ (c[f] = NotYet /\ q.since <= c2[f])
    BY <1>1, <1>2 DEF NotYet
  <2>2. Passed(c, A, q.base, q.since)
    BY DEF PollOK
  <2> QED BY <1>1, <2>1, <2>2, PassedMonotone
<1>5. q.new # NoWatermark => Passed(c2, A2, q.base, Truncate(q.new - Overlap))
  <2>1. MarkOK(q.new, q.base, t, c, A)
    BY <1>2 DEF PollOK, MarkOK
  <2>2. MarkOK(q.new, q.base, t2, c2, A2)
    BY <1>1, <2>1, MarkMonotone
  <2> QED BY <2>2 DEF MarkOK
<1>6. \A f \in q.todo : c2[f] = c[f]
  BY <1>1 DEF PollOK
<1>7. \A f \in q.todo : c2[f] # NotYet /\ c2[f] <= q.until
  BY <1>6 DEF PollOK
<1>8. ASSUME q.pc \in {"next", "archive", "failing", "mark"}
      PROVE  Passed(c2, A2 \cup q.todo, q.since, q.until - Overlap)
  <2>1. q.until - Overlap \in Int /\ q.until - Overlap <= t
    BY <1>1, <1>2, WatermarkAssumption
  <2>2. \A f \in Files : c2[f] = c[f] \/ (c[f] = NotYet /\ q.until - Overlap <= c2[f])
    BY <2>1 DEF NotYet
  <2>3. Passed(c, A \cup q.todo, q.since, q.until - Overlap)
    BY <1>8 DEF PollOK
  <2>4. A \cup q.todo \subseteq A2 \cup q.todo
    OBVIOUS
  <2> QED BY <1>1, <2>1, <2>2, <2>3, <2>4, PassedMonotone
<1>9. \A f \in q.todo : FirstOf(c2, q.todo, f) => FirstOf(c, q.todo, f)
  BY <1>6 DEF FirstOf
<1>10. q.pc = "mark" => \A f \in q.todo : FirstOf(c2, q.todo, f) => f \in A2
  BY <1>9 DEF PollOK
<1>11. q.pc = "failing" => \A f \in q.todo : FirstOf(c2, q.todo, f) => q.attempts <= F2[f]
  <2> SUFFICES ASSUME q.pc = "failing", NEW f \in q.todo, FirstOf(c2, q.todo, f)
               PROVE  q.attempts <= F2[f]
    OBVIOUS
  <2>1. q.attempts <= F[f]
    BY <1>9 DEF PollOK
  <2>2. F[f] \in Nat /\ F2[f] \in Nat /\ F[f] <= F2[f]
    BY <1>1
  <2> QED BY <1>1, <2>1, <2>2
<1> QED BY <1>3, <1>4, <1>5, <1>7, <1>8, <1>10, <1>11 DEF PollOK

(* Two files cannot both come first.                                       *)
LEMMA FirstUnique ==
  ASSUME NEW c, NEW S, NEW f \in S, NEW g \in S, S \subseteq Files,
         c \in [Files -> Nat \cup {NotYet}],
         FirstOf(c, S, f), FirstOf(c, S, g)
  PROVE  f = g
<1>1. f \in Nat /\ g \in Nat /\ c[f] \in Int /\ c[g] \in Int
  BY EventLogAssumption DEF NotYet
<1> QED BY <1>1 DEF FirstOf

(* The current file of a poll is the first of its records.                 *)
LEMMA CurrentIsFirst ==
  ASSUME NEW p, NEW f
  PROVE  IsCurrent(p, f) <=> FirstOf(created, poll[p].todo, f)
BY DEF IsCurrent, FirstOf, Before

(* A fault leaves a natural number of faults.                              *)
LEMMA FaultsLeft ==
  ASSUME faults \in Nat, Fault \/ NoFault
  PROVE  faults' \in Nat
<1>1. CASE Fault
  BY <1>1 DEF Fault
<1>2. CASE NoFault
  BY <1>2 DEF NoFault
<1> QED BY <1>1, <1>2

-----------------------------------------------------------------------------
(* What a step has to establish.                                           *)

(* A step in which poller p becomes q while Salesforce stands still.       *)
LEMMA PollerStep ==
  ASSUME IInv, NEW p \in Pollers, NEW q \in PollState,
         Become(p, q), UNCHANGED saasVars,
         watermark' \in Nat \cup {NoWatermark}, floor' \in Int,
         SharedOK', Accounted \subseteq Accounted',
         \A f \in Files : failures[f] <= failures'[f],
         MarkOK(watermark', floor', now, created, Accounted'),
         PollOK(q, now, created, Accounted', failures')
  PROVE  IInv'
<1>1. poll' \in [Pollers -> PollState]
  BY DEF IInv, TypeOK, Become
<1>2. TypeOK'
  BY <1>1 DEF IInv, TypeOK, SharedOK, saasVars
<1>3. ClockOK'
  BY DEF IInv, ClockOK, saasVars
<1>4. ASSUME NEW r \in Pollers
      PROVE  PollOK(poll'[r], now, created, Accounted', failures')
  <2>1. CASE r = p
    BY <2>1 DEF Become, IInv, TypeOK
  <2>2. CASE r # p
    <3>1. poll'[r] = poll[r] /\ poll[r] \in PollState
      BY <2>2 DEF Become, IInv, TypeOK
    <3>2. /\ now \in Nat /\ created \in [Files -> Nat \cup {NotYet}]
          /\ failures \in [Files -> Nat] /\ failures' \in [Files -> Nat]
      BY DEF IInv, TypeOK, SharedOK
    <3>3. PollOK(poll[r], now, created, Accounted, failures)
      BY DEF IInv
    <3>4. now <= now
      BY <3>2
    <3>5. PollOK(poll[r], now, created, Accounted', failures')
      BY <3>1, <3>2, <3>3, <3>4, PollMonotone
    <3> QED BY <3>1, <3>5
  <2> QED BY <2>1, <2>2
<1> QED BY <1>2, <1>3, <1>4 DEF IInv, saasVars

(* A step that changes nothing but poller p.                               *)
LEMMA LocalStep ==
  ASSUME IInv, NEW p \in Pollers, NEW q \in PollState, Become(p, q),
         UNCHANGED <<saasVars, watermarkVars, archiveVars, cacheVars, history>>,
         Fault \/ NoFault,
         PollOK(q, now, created, Accounted, failures)
  PROVE  IInv'
<1>1. faults' \in Nat
  BY FaultsLeft DEF IInv, TypeOK
<1>2. Accounted' = Accounted /\ failures' = failures
  BY DEF Accounted, archiveVars, history
<1>3. SharedOK'
  BY <1>1, <1>2 DEF IInv, SharedOK, CountOK, GivenUpLate, archiveVars, cacheVars, history
<1>4. /\ watermark' \in Nat \cup {NoWatermark} /\ floor' \in Int
      /\ MarkOK(watermark', floor', now, created, Accounted')
  BY <1>2 DEF IInv, TypeOK, watermarkVars
<1>5. \A f \in Files : failures[f] <= failures'[f]
  BY <1>2 DEF IInv, TypeOK
<1>6. PollOK(q, now, created, Accounted', failures')
  BY <1>2
<1>7. UNCHANGED saasVars /\ Accounted \subseteq Accounted'
  BY <1>2
<1> QED BY <1>3, <1>4, <1>5, <1>6, <1>7, PollerStep

(* The types of a poll's fields.                                           *)
LEMMA PollTypes ==
  ASSUME IInv, NEW p \in Pollers
  PROVE  /\ poll[p] \in PollState
         /\ poll[p].since \in Int /\ poll[p].until \in Int /\ poll[p].base \in Int
         /\ poll[p].new \in Nat \cup {NoWatermark} /\ poll[p].attempts \in Nat
         /\ poll[p].todo \subseteq Files
         /\ now \in Nat /\ created \in [Files -> Nat \cup {NotYet}]
         /\ PollOK(poll[p], now, created, Accounted, failures)
BY DEF IInv, TypeOK, PollState

(* A poller that does nothing.                                             *)
LEMMA IdleOK ==
  ASSUME NEW t, NEW c, NEW A, NEW F
  PROVE  Idle \in PollState /\ PollOK(Idle, t, c, A, F)
BY DEF Idle, PollState, PollOK, NoWatermark

(* A poll that stops, or is through, keeps the watermark it has reached.   *)
LEMMA StoppedOK ==
  ASSUME IInv, NEW p \in Pollers, poll[p].pc # "idle",
         NEW q, q = [poll[p] EXCEPT !.pc = "end", !.todo = {}, !.attempts = 0]
  PROVE  q \in PollState /\ PollOK(q, now, created, Accounted, failures)
<1>1. q \in PollState
  BY PollTypes DEF PollState
<1>2. /\ q.since = poll[p].since /\ q.until = poll[p].until /\ q.base = poll[p].base
      /\ q.new = poll[p].new /\ q.todo = {} /\ q.pc = "end"
  BY PollTypes DEF PollState
<1> QED BY <1>1, <1>2, PollTypes DEF PollOK

(* Passing the first file, which is accounted for: the watermark moves to  *)
(* it, and everything an overlap before it is accounted for.               *)
LEMMA PassedByOK ==
  ASSUME IInv, NEW p \in Pollers, poll[p].pc \in {"next", "mark"},
         NEW f, FirstOf(created, poll[p].todo, f), f \in Accounted
  PROVE  /\ PassedBy(p, f) \in PollState
         /\ PollOK(PassedBy(p, f), now, created, Accounted, failures)
<1> DEFINE q == PassedBy(p, f)
<1>1. f \in poll[p].todo /\ f \in Files /\ created[f] \in Nat /\ created[f] <= poll[p].until
  BY PollTypes DEF FirstOf, PollOK, NotYet
<1>2. q \in PollState
  BY <1>1, PollTypes DEF PassedBy, PollState
<1>3. /\ q.since = poll[p].since /\ q.until = poll[p].until /\ q.base = poll[p].base
      /\ q.todo = poll[p].todo \ {f} /\ q.pc = "next"
      /\ q.new = IF created[f] > poll[p].new THEN created[f] ELSE poll[p].new
  BY PollTypes DEF PassedBy, PollState
<1>4. /\ poll[p].since <= now /\ poll[p].until <= now /\ poll[p].new <= now
      /\ Passed(created, Accounted, poll[p].base, poll[p].since)
      /\ poll[p].new # NoWatermark =>
            Passed(created, Accounted, poll[p].base, Truncate(poll[p].new - Overlap))
      /\ \A g \in poll[p].todo : created[g] # NotYet /\ created[g] <= poll[p].until
      /\ Passed(created, Accounted \cup poll[p].todo, poll[p].since, poll[p].until - Overlap)
  BY PollTypes DEF PollOK
<1>5. q.new <= now
  BY <1>1, <1>3, <1>4, PollTypes
<1>6. Passed(created, Accounted \cup q.todo, q.since, q.until - Overlap)
  BY <1>3, <1>4 DEF Passed
<1>7. ASSUME q.new # NoWatermark
      PROVE  Passed(created, Accounted, q.base, Truncate(q.new - Overlap))
  <2>1. CASE q.new = poll[p].new
    BY <1>3, <1>4, <1>7, <2>1
  <2>2. CASE q.new = created[f]
    <3>1. /\ Truncate(created[f] - Overlap) \in Int
          /\ Truncate(created[f] - Overlap) <= created[f] - Overlap
          /\ Overlap \in Nat \ {0}
      BY <1>1, TruncateBelow, WatermarkAssumption
    <3> SUFFICES ASSUME NEW g \in Files, created[g] # NotYet,
                        poll[p].base <= created[g],
                        created[g] < Truncate(created[f] - Overlap)
                 PROVE  g \in Accounted
      BY <1>3, <2>2 DEF Passed
    <3>2. created[g] \in Int
      BY PollTypes DEF NotYet
    <3>3. created[g] < created[f] /\ created[g] < poll[p].until - Overlap
      BY <1>1, <3>1, <3>2, PollTypes
    <3>4. g \notin poll[p].todo
      BY <1>1, <3>2, <3>3 DEF FirstOf
    <3>5. CASE created[g] < poll[p].since
      BY <1>4, <3>5 DEF Passed
    <3>6. CASE poll[p].since <= created[g]
      BY <1>4, <3>3, <3>4, <3>6 DEF Passed
    <3> QED BY <3>2, <3>5, <3>6, PollTypes
  <2> QED BY <1>3, <2>1, <2>2
<1>8. q.since <= now /\ q.until <= now /\ Passed(created, Accounted, q.base, q.since)
  BY <1>3, <1>4
<1>9. \A g \in q.todo : created[g] # NotYet /\ created[g] <= q.until
  BY <1>3, <1>4
<1>10. q.pc # "mark" /\ q.pc # "failing"
  BY <1>3
<1>11. PollOK(q, now, created, Accounted, failures)
  BY <1>5, <1>6, <1>7, <1>8, <1>9, <1>10 DEF PollOK
<1> QED BY <1>2, <1>11

-----------------------------------------------------------------------------
(* One lemma per action.                                                   *)

(* The invariant holds initially: nothing exists and no poll is running.   *)
LEMMA InitOK == Init => IInv
<1> SUFFICES ASSUME Init PROVE IInv
  OBVIOUS
<1> USE DEF Init
<1>1. TypeOK
  BY IdleOK, EventLogAssumption DEF TypeOK, NoWatermark, NotYet
<1>2. ClockOK
  BY DEF ClockOK, NotYet
<1>3. MarkOK(watermark, floor, now, created, Accounted)
  BY DEF MarkOK, NoWatermark
<1>4. SharedOK
  <2>1. \A f \in Files : Attempts(f) > 0
    BY EventLogAssumption DEF Attempts
  <2> QED BY <1>1, <2>1 DEF SharedOK, CountOK, GivenUpLate, TypeOK
<1>5. \A p \in Pollers : PollOK(poll[p], now, created, Accounted, failures)
  BY IdleOK
<1> QED BY <1>1, <1>2, <1>3, <1>4, <1>5 DEF IInv

(* A step of Salesforce (time, a new file, a file that appears): creation  *)
(* times do not change once given, and new ones are not in the past.       *)
LEMMA SaasStep ==
  ASSUME IInv, now' \in Nat, now <= now',
         created' \in [Files -> Nat \cup {NotYet}], visible' \subseteq Files,
         \A f \in Files : created'[f] = created[f] \/ (created[f] = NotYet /\ now <= created'[f]),
         ClockOK',
         UNCHANGED <<watermarkVars, archiveVars, cacheVars, history, poll, faults>>
  PROVE  IInv'
<1>1. Accounted' = Accounted /\ failures' = failures /\ poll' = poll
  BY DEF Accounted, archiveVars, history
<1>2. TypeOK'
  BY DEF IInv, TypeOK, watermarkVars, archiveVars, cacheVars, history
<1>3. SharedOK'
  BY <1>1 DEF IInv, SharedOK, CountOK, GivenUpLate, archiveVars, cacheVars, history
<1>4. /\ now \in Nat /\ created \in [Files -> Nat \cup {NotYet}]
      /\ failures \in [Files -> Nat] /\ watermark \in Nat \cup {NoWatermark} /\ floor \in Int
  BY DEF IInv, TypeOK
<1>5. MarkOK(watermark, floor, now', created', Accounted)
  <2>1. MarkOK(watermark, floor, now, created, Accounted)
    BY DEF IInv
  <2> QED BY <1>4, <2>1, MarkMonotone
<1>6. MarkOK(watermark', floor', now', created', Accounted')
  BY <1>1, <1>5 DEF watermarkVars
<1>7. ASSUME NEW p \in Pollers
      PROVE  PollOK(poll'[p], now', created', Accounted', failures')
  <2>1. PollOK(poll[p], now, created, Accounted, failures) /\ poll[p] \in PollState
    BY PollTypes
  <2>2. \A f \in Files : failures[f] <= failures[f]
    BY <1>4
  <2>3. PollOK(poll[p], now', created', Accounted, failures)
    BY <1>4, <2>1, <2>2, PollMonotone
  <2> QED BY <1>1, <2>3
<1> QED BY <1>2, <1>3, <1>6, <1>7 DEF IInv

(* Time passes.                                                            *)
LEMMA TickOK == IInv /\ Tick => IInv'
<1> SUFFICES ASSUME IInv, Tick PROVE IInv'
  OBVIOUS
<1>1. now \in Nat /\ created \in [Files -> Nat \cup {NotYet}] /\ visible \subseteq Files
  BY DEF IInv, TypeOK
<1>2. now' = now + 1 /\ created' = created /\ visible' = visible
  BY DEF Tick
<1>3. ClockOK'
  <2> SUFFICES ASSUME NEW f \in Files
               PROVE  /\ created[f] <= now + 1
                      /\ f \in visible => created[f] # NotYet
                      /\ f \notin visible /\ created[f] # NotYet => now + 1 <= created[f] + MaxDelay
    BY <1>2 DEF ClockOK
  <2>1. created[f] \in Int /\ MaxDelay \in Nat
    BY <1>1, EventLogAssumption DEF NotYet
  <2> QED BY <1>1, <2>1 DEF Tick, IInv, ClockOK
<1>4. UNCHANGED <<watermarkVars, archiveVars, cacheVars, history, poll, faults>>
  BY DEF Tick
<1> QED BY <1>1, <1>2, <1>3, <1>4, SaasStep

(* Salesforce creates a file, at this moment.                              *)
LEMMA CreateFileOK ==
  ASSUME IInv, NEW f \in Files, CreateFile(f)
  PROVE  IInv'
<1>1. now \in Nat /\ created \in [Files -> Nat \cup {NotYet}] /\ visible \subseteq Files
  BY DEF IInv, TypeOK
<1>2. /\ now' = now /\ visible' = visible /\ created[f] = NotYet
      /\ created' = [created EXCEPT ![f] = now]
  BY DEF CreateFile
<1>3. created' \in [Files -> Nat \cup {NotYet}]
  BY <1>1, <1>2
<1>4. \A g \in Files : created'[g] = created[g] \/ (created[g] = NotYet /\ now <= created'[g])
  BY <1>1, <1>2
<1>5. ClockOK'
  <2> SUFFICES ASSUME NEW g \in Files
               PROVE  /\ created'[g] <= now
                      /\ g \in visible => created'[g] # NotYet
                      /\ g \notin visible /\ created'[g] # NotYet => now <= created'[g] + MaxDelay
    BY <1>2 DEF ClockOK
  <2>1. CASE g = f
    BY <1>1, <1>2, <2>1, EventLogAssumption DEF NotYet
  <2>2. CASE g # f
    BY <1>1, <1>2, <2>2 DEF IInv, ClockOK
  <2> QED BY <2>1, <2>2
<1>6. UNCHANGED <<watermarkVars, archiveVars, cacheVars, history, poll, faults>>
  BY DEF CreateFile
<1>7. now <= now'
  BY <1>1, <1>2
<1> QED BY <1>1, <1>2, <1>3, <1>4, <1>5, <1>6, <1>7, SaasStep

(* A file shows up in query results.                                       *)
LEMMA ShowFileOK ==
  ASSUME IInv, NEW f \in Files, ShowFile(f)
  PROVE  IInv'
<1>1. now \in Nat /\ created \in [Files -> Nat \cup {NotYet}] /\ visible \subseteq Files
  BY DEF IInv, TypeOK
<1>2. /\ now' = now /\ created' = created /\ visible' = visible \cup {f} /\ created[f] # NotYet
  BY DEF ShowFile
<1>3. ClockOK'
  BY <1>2 DEF IInv, ClockOK
<1>4. UNCHANGED <<watermarkVars, archiveVars, cacheVars, history, poll, faults>>
  BY DEF ShowFile
<1>5. now <= now' /\ visible' \subseteq Files
  BY <1>1, <1>2
<1> QED BY <1>1, <1>2, <1>3, <1>4, <1>5, SaasStep

(* A poll begins with the watermark it reads: what the watermark promises  *)
(* is what the poll may rely on.                                           *)
LEMMA BeginPollOK ==
  ASSUME IInv, NEW p \in Pollers, BeginPoll(p)
  PROVE  IInv'
<1> DEFINE q == [Idle EXCEPT !.pc = "list", !.since = Since, !.until = Truncate(now),
                             !.base = Base, !.new = watermark]
<1>1. now \in Nat /\ watermark \in Nat \cup {NoWatermark} /\ floor \in Int
  BY DEF IInv, TypeOK
<1>2. MarkOK(watermark, floor, now, created, Accounted)
  BY DEF IInv
<1>3. Truncate(now) \in Int /\ Truncate(now) <= now
  BY <1>1, TruncateBelow
<1>4. Since \in Int /\ Since <= now
  <2> DEFINE t == IF watermark = NoWatermark THEN now - InitialTimeInterval ELSE watermark - Overlap
  <2>1. t \in Int /\ t <= now
    BY <1>1, <1>2, WatermarkAssumption DEF MarkOK, NoWatermark
  <2>2. Truncate(t) \in Int /\ Truncate(t) <= t
    BY <2>1, TruncateBelow
  <2>3. Since = Truncate(t)
    BY DEF Since
  <2> QED BY <1>1, <2>1, <2>2, <2>3
<1>5. Base \in Int
  BY <1>1, <1>4 DEF Base
<1>6. q \in PollState
  BY <1>1, <1>3, <1>4, <1>5 DEF PollState, Idle
<1>7. Passed(created, Accounted, Base, Since)
  <2>1. CASE watermark = NoWatermark
    <3>1. Base = Since
      BY <2>1 DEF Base
    <3>2. \A f \in Files : created[f] \in Int
      BY DEF IInv, TypeOK, NotYet
    <3> QED BY <1>4, <3>1, <3>2 DEF Passed
  <2>2. CASE watermark # NoWatermark
    BY <1>2, <2>2 DEF Base, Since, MarkOK
  <2> QED BY <2>1, <2>2
<1>8. watermark # NoWatermark => Passed(created, Accounted, Base, Truncate(watermark - Overlap))
  BY <1>2 DEF MarkOK, Base
<1>9. /\ q.since = Since /\ q.until = Truncate(now) /\ q.base = Base /\ q.new = watermark
      /\ q.todo = {} /\ q.pc = "list"
  BY DEF Idle
<1>10. PollOK(q, now, created, Accounted, failures)
  BY <1>2, <1>3, <1>4, <1>7, <1>8, <1>9 DEF PollOK, MarkOK
<1>11. /\ Become(p, q) /\ NoFault
       /\ UNCHANGED <<saasVars, watermarkVars, archiveVars, cacheVars, history>>
  BY DEF BeginPoll, NoFault
<1> QED BY <1>6, <1>10, <1>11, LocalStep

(* The query's answer: a file of the window that is missing from it was    *)
(* created within the overlap.                                             *)
LEMMA ListOK ==
  ASSUME IInv, NEW p \in Pollers, List(p)
  PROVE  IInv'
<1> DEFINE records == {f \in visible : InWindow(p, f)}
           q == [poll[p] EXCEPT !.pc = "next", !.todo = records]
<1>1. visible \subseteq Files /\ records \subseteq Files /\ faults \in Nat
  BY DEF IInv, TypeOK
<1>2. q \in PollState
  BY <1>1, PollTypes DEF PollState
<1>3. /\ q.since = poll[p].since /\ q.until = poll[p].until /\ q.base = poll[p].base
      /\ q.new = poll[p].new /\ q.todo = records /\ q.pc = "next"
  BY PollTypes DEF PollState
<1>4. /\ poll[p].since <= now /\ poll[p].until <= now /\ poll[p].new <= now
      /\ Passed(created, Accounted, poll[p].base, poll[p].since)
      /\ poll[p].new # NoWatermark =>
            Passed(created, Accounted, poll[p].base, Truncate(poll[p].new - Overlap))
  BY PollTypes DEF List, PollOK
<1>5. \A f \in records : created[f] # NotYet /\ created[f] <= poll[p].until
  BY <1>1 DEF InWindow, IInv, ClockOK
<1>6. Passed(created, Accounted \cup records, poll[p].since, poll[p].until - Overlap)
  <2> SUFFICES ASSUME NEW f \in Files, created[f] # NotYet, poll[p].since <= created[f],
                      created[f] < poll[p].until - Overlap
               PROVE  f \in records
    BY DEF Passed
  <2>1. created[f] \in Int /\ Overlap \in Nat /\ MaxDelay \in Nat /\ MaxDelay <= Overlap
    BY PollTypes, WatermarkAssumption, EventLogAssumption DEF NotYet
  <2>2. created[f] <= poll[p].until /\ ~(now <= created[f] + MaxDelay)
    BY <1>4, <2>1, PollTypes
  <2>3. f \in visible
    BY <2>2 DEF IInv, ClockOK
  <2> QED BY <2>2, <2>3, <2>1, PollTypes DEF InWindow
<1>7. PollOK(q, now, created, Accounted, failures)
  BY <1>3, <1>4, <1>5, <1>6 DEF PollOK
<1>8. /\ Become(p, q) /\ UNCHANGED saasVars /\ UNCHANGED watermarkVars
      /\ UNCHANGED archiveVars /\ UNCHANGED cacheVars
      /\ failures' = failures /\ listed' = listed \cup records /\ faults' = faults
  BY DEF List
<1>9. Accounted' = Accounted
  BY <1>8 DEF Accounted, archiveVars
<1>10. SharedOK'
  BY <1>1, <1>8, <1>9 DEF IInv, SharedOK, CountOK, GivenUpLate, archiveVars, cacheVars
<1>11. /\ watermark' \in Nat \cup {NoWatermark} /\ floor' \in Int
       /\ MarkOK(watermark', floor', now, created, Accounted')
  BY <1>8, <1>9 DEF IInv, TypeOK, watermarkVars
<1>12. \A f \in Files : failures[f] <= failures'[f]
  BY <1>8 DEF IInv, TypeOK
<1>13. PollOK(q, now, created, Accounted', failures')
  BY <1>7, <1>8, <1>9
<1>14. Accounted \subseteq Accounted'
  BY <1>9
<1> QED BY <1>2, <1>8, <1>10, <1>11, <1>12, <1>13, <1>14, PollerStep

(* A file with a processed marker is passed: it is accounted for.          *)
LEMMA SkipProcessedOK ==
  ASSUME IInv, NEW p \in Pollers, SkipProcessed(p)
  PROVE  IInv'
<1>1. PICK f \in processed : IsCurrent(p, f) /\ Become(p, PassedBy(p, f))
  BY DEF SkipProcessed
<1>2. f \in Accounted /\ poll[p].pc = "next"
  BY <1>1 DEF IInv, SharedOK, SkipProcessed
<1>3. FirstOf(created, poll[p].todo, f)
  BY <1>1, CurrentIsFirst
<1>4. /\ PassedBy(p, f) \in PollState
      /\ PollOK(PassedBy(p, f), now, created, Accounted, failures)
  BY <1>2, <1>3, PassedByOK
<1>5. UNCHANGED <<saasVars, watermarkVars, archiveVars, cacheVars, history>> /\ NoFault
  BY DEF SkipProcessed, NoFault
<1> QED BY <1>1, <1>4, <1>5, LocalStep

(* A file without a marker, or whose marker was not read, is taken up.     *)
LEMMA TakeFileOK ==
  ASSUME IInv, NEW p \in Pollers, TakeFile(p)
  PROVE  IInv'
<1> DEFINE q == [poll[p] EXCEPT !.pc = "archive"]
<1>1. q \in PollState
  BY PollTypes DEF PollState
<1>2. /\ q.since = poll[p].since /\ q.until = poll[p].until /\ q.base = poll[p].base
      /\ q.new = poll[p].new /\ q.todo = poll[p].todo /\ q.pc = "archive"
  BY PollTypes DEF PollState
<1>3. PollOK(q, now, created, Accounted, failures)
  BY <1>2, PollTypes DEF PollOK, TakeFile
<1>4. /\ Become(p, q) /\ (Fault \/ NoFault)
      /\ UNCHANGED <<saasVars, watermarkVars, archiveVars, cacheVars, history>>
  BY DEF TakeFile
<1> QED BY <1>1, <1>3, <1>4, LocalStep

(* A step in which the poll p, at its current file, may add to the archive *)
(* and to the counters and markers; the watermark stays.                   *)
LEMMA FileStep ==
  ASSUME IInv, NEW p \in Pollers, NEW q \in PollState,
         Become(p, q), UNCHANGED <<saasVars, watermarkVars>>,
         SharedOK', Accounted \subseteq Accounted',
         \A f \in Files : failures[f] <= failures'[f],
         PollOK(q, now, created, Accounted', failures')
  PROVE  IInv'
<1>1. /\ now \in Nat /\ created \in [Files -> Nat \cup {NotYet}]
      /\ watermark \in Nat \cup {NoWatermark} /\ floor \in Int
      /\ MarkOK(watermark, floor, now, created, Accounted)
  BY DEF IInv, TypeOK
<1>2. now <= now
  BY <1>1
<1>3. MarkOK(watermark, floor, now, created, Accounted')
  BY <1>1, <1>2, MarkMonotone
<1>4. /\ watermark' = watermark /\ floor' = floor /\ UNCHANGED saasVars
  BY DEF watermarkVars
<1> QED BY <1>1, <1>3, <1>4, PollerStep

(* A poll whose first file has been accounted for goes on to mark it.      *)
LEMMA MarkingOK ==
  ASSUME IInv, NEW p \in Pollers, poll[p].pc \in {"archive", "failing"},
         NEW f, FirstOf(created, poll[p].todo, f),
         NEW A, Accounted \subseteq A, f \in A,
         NEW q, q = [poll[p] EXCEPT !.pc = "mark"]
  PROVE  q \in PollState /\ PollOK(q, now, created, A, failures)
<1>1. q \in PollState
  BY PollTypes DEF PollState
<1>2. /\ q.since = poll[p].since /\ q.until = poll[p].until /\ q.base = poll[p].base
      /\ q.new = poll[p].new /\ q.todo = poll[p].todo /\ q.pc = "mark"
  BY PollTypes DEF PollState
<1>3. failures \in [Files -> Nat] /\ now <= now /\ \A g \in Files : failures[g] <= failures[g]
  BY DEF IInv, TypeOK
<1>4. PollOK(poll[p], now, created, A, failures)
  BY <1>3, PollTypes, PollMonotone
<1>5. \A g \in poll[p].todo : FirstOf(created, poll[p].todo, g) => g \in A
  <2> SUFFICES ASSUME NEW g \in poll[p].todo, FirstOf(created, poll[p].todo, g)
               PROVE  g \in A
    OBVIOUS
  <2>1. f \in poll[p].todo
    BY DEF FirstOf
  <2>2. f = g
    BY <2>1, PollTypes, FirstUnique
  <2> QED BY <2>2
<1>6. PollOK(q, now, created, A, failures)
  BY <1>2, <1>4, <1>5 DEF PollOK
<1> QED BY <1>1, <1>6

(* The object of a good file is stored.                                    *)
LEMMA ArchiveOK ==
  ASSUME IInv, NEW p \in Pollers, Archive(p)
  PROVE  IInv'
<1> DEFINE q == [poll[p] EXCEPT !.pc = "mark"]
<1>1. PICK f \in poll[p].todo : IsCurrent(p, f) /\ archived' = archived \cup {f}
  BY DEF Archive
<1>2. f \in Files /\ FirstOf(created, poll[p].todo, f) /\ poll[p].pc = "archive"
  BY <1>1, PollTypes, CurrentIsFirst DEF Archive
<1>3. /\ UNCHANGED <<saasVars, watermarkVars>> /\ quarantined' = quarantined
      /\ tombstoned' = tombstoned /\ processed' = processed /\ badCount' = badCount
      /\ failures' = failures /\ listed' = listed /\ faults' = faults /\ Become(p, q)
  BY DEF Archive, cacheVars, history
<1>4. Accounted \subseteq Accounted' /\ f \in Accounted'
  BY <1>1, <1>3 DEF Accounted
<1>5. SharedOK'
  BY <1>1, <1>2, <1>3, <1>4 DEF IInv, SharedOK, CountOK, GivenUpLate
<1>6. q \in PollState /\ PollOK(q, now, created, Accounted', failures)
  BY <1>2, <1>4, MarkingOK
<1>7. \A g \in Files : failures[g] <= failures'[g]
  BY <1>3 DEF IInv, TypeOK
<1>8. PollOK(q, now, created, Accounted', failures')
  BY <1>3, <1>6
<1> QED BY <1>3, <1>4, <1>5, <1>6, <1>7, <1>8, FileStep

(* A poll that stops at its file keeps the invariant, whatever it added.   *)
LEMMA StopStep ==
  ASSUME IInv, NEW p \in Pollers, poll[p].pc # "idle", StopPoll(p),
         UNCHANGED <<saasVars, watermarkVars>>,
         SharedOK', Accounted \subseteq Accounted', failures' = failures
  PROVE  IInv'
<1> DEFINE q == [poll[p] EXCEPT !.pc = "end", !.todo = {}, !.attempts = 0]
<1>1. q \in PollState /\ PollOK(q, now, created, Accounted, failures)
  BY StoppedOK
<1>2. /\ failures \in [Files -> Nat] /\ now \in Nat /\ now <= now
      /\ created \in [Files -> Nat \cup {NotYet}] /\ \A g \in Files : failures[g] <= failures[g]
  BY DEF IInv, TypeOK
<1>3. PollOK(q, now, created, Accounted', failures)
  BY <1>1, <1>2, PollMonotone
<1>4. PollOK(q, now, created, Accounted', failures') /\ \A g \in Files : failures[g] <= failures'[g]
  BY <1>2, <1>3
<1>5. Become(p, q)
  BY DEF StopPoll
<1> QED BY <1>1, <1>4, <1>5, FileStep

(* A download or an upload fails and the poll stops.                       *)
LEMMA ArchiveFailsOK ==
  ASSUME IInv, NEW p \in Pollers, ArchiveFails(p)
  PROVE  IInv'
<1>1. PICK f \in poll[p].todo : UNCHANGED archived \/ archived' = archived \cup {f}
  BY DEF ArchiveFails
<1>2. f \in Files
  BY PollTypes
<1>3. /\ UNCHANGED <<saasVars, watermarkVars>> /\ quarantined' = quarantined
      /\ tombstoned' = tombstoned /\ processed' = processed /\ badCount' = badCount
      /\ failures' = failures /\ listed' = listed
      /\ poll[p].pc # "idle" /\ StopPoll(p)
  BY DEF ArchiveFails, cacheVars, history
<1>4. faults' \in Nat
  BY FaultsLeft DEF ArchiveFails, IInv, TypeOK
<1>5. Accounted \subseteq Accounted'
  BY <1>1, <1>3 DEF Accounted
<1>6. SharedOK'
  BY <1>1, <1>2, <1>3, <1>4, <1>5 DEF IInv, SharedOK, CountOK, GivenUpLate
<1> QED BY <1>3, <1>5, <1>6, StopStep

(* A failed poll is counted: the attempts it goes by never exceed the      *)
(* failures that happened.                                                 *)
LEMMA FailingOK ==
  ASSUME IInv, NEW p \in Pollers, poll[p].pc = "archive",
         NEW f \in poll[p].todo, IsCurrent(p, f),
         NEW n \in {badCount[f], 0}, Failing(p, f, n), Fault \/ NoFault,
         UNCHANGED <<saasVars, watermarkVars, archiveVars, cacheVars, listed>>
  PROVE  IInv'
<1> DEFINE q == [poll[p] EXCEPT !.pc = "failing", !.attempts = n + 1]
<1>1. /\ f \in Files /\ badCount \in [Files -> Nat] /\ failures \in [Files -> Nat]
      /\ FirstOf(created, poll[p].todo, f)
  BY PollTypes, CurrentIsFirst DEF IInv, TypeOK
<1>2. Attempts(f) \in Nat \ {0}
  BY <1>1, EventLogAssumption DEF Attempts
<1>3. n \in Nat /\ n < Attempts(f) /\ n <= failures[f]
  BY <1>1, <1>2 DEF IInv, SharedOK, CountOK
<1>4. failures' = [failures EXCEPT ![f] = IF failures[f] < Attempts(f) THEN failures[f] + 1
                                                                     ELSE failures[f]]
  BY DEF Failing
<1>5. /\ failures' \in [Files -> Nat] /\ \A g \in Files : failures[g] <= failures'[g]
      /\ n + 1 <= failures'[f]
  BY <1>1, <1>2, <1>3, <1>4
<1>6. Accounted' = Accounted
  BY DEF Accounted, archiveVars
<1>7. faults' \in Nat
  BY FaultsLeft DEF IInv, TypeOK
<1>8. SharedOK'
  <2>1. CountOK'
    <3> SUFFICES ASSUME NEW g \in Files
                 PROVE  badCount[g] < Attempts(g) /\ badCount[g] <= failures'[g]
      BY DEF CountOK, cacheVars
    <3>1. badCount[g] \in Nat /\ failures[g] \in Nat /\ failures'[g] \in Nat
      BY <1>1, <1>5
    <3> QED BY <1>5, <3>1 DEF IInv, SharedOK, CountOK
  <2>2. GivenUpLate'
    <3> SUFFICES ASSUME NEW g \in quarantined \cup tombstoned
                 PROVE  failures'[g] >= Attempts(g)
      BY DEF GivenUpLate, archiveVars
    <3>1. g \in Files /\ failures[g] >= Attempts(g)
      BY DEF IInv, SharedOK, GivenUpLate
    <3>2. Attempts(g) \in Nat
      BY <3>1, EventLogAssumption DEF Attempts
    <3> QED BY <1>1, <1>5, <3>1, <3>2
  <2> QED BY <1>5, <1>6, <1>7, <2>1, <2>2 DEF IInv, SharedOK, archiveVars, cacheVars
<1>9. q \in PollState
  <2>1. n + 1 \in Nat /\ poll[p] \in PollState
    BY <1>3, PollTypes
  <2> QED BY <2>1 DEF PollState
<1>10. /\ q.since = poll[p].since /\ q.until = poll[p].until /\ q.base = poll[p].base
       /\ q.new = poll[p].new /\ q.todo = poll[p].todo /\ q.pc = "failing"
       /\ q.attempts = n + 1
  BY PollTypes DEF PollState
<1>11. \A g \in poll[p].todo : FirstOf(created, poll[p].todo, g) => n + 1 <= failures'[g]
  <2> SUFFICES ASSUME NEW g \in poll[p].todo, FirstOf(created, poll[p].todo, g)
               PROVE  n + 1 <= failures'[g]
    OBVIOUS
  <2>1. f = g
    BY <1>1, PollTypes, FirstUnique
  <2> QED BY <1>5, <2>1
<1>12. PollOK(q, now, created, Accounted', failures')
  BY <1>6, <1>10, <1>11, PollTypes DEF PollOK
<1>13. Become(p, q) /\ UNCHANGED <<saasVars, watermarkVars>> /\ Accounted \subseteq Accounted'
  BY <1>6 DEF Failing
<1> QED BY <1>5, <1>8, <1>9, <1>12, <1>13, FileStep

(* The content of the file cannot be parsed.                               *)
LEMMA FindMalformedOK ==
  ASSUME IInv, NEW p \in Pollers, FindMalformed(p)
  PROVE  IInv'
<1>1. PICK f \in poll[p].todo :
         /\ IsCurrent(p, f) /\ (Fault \/ NoFault)
         /\ Failing(p, f, badCount[f]) \/ Failing(p, f, 0)
  BY DEF FindMalformed
<1>2. poll[p].pc = "archive" /\ UNCHANGED <<saasVars, watermarkVars, archiveVars, cacheVars, listed>>
  BY DEF FindMalformed
<1>3. CASE Failing(p, f, badCount[f])
  BY <1>1, <1>2, <1>3, FailingOK
<1>4. CASE Failing(p, f, 0)
  BY <1>1, <1>2, <1>4, FailingOK
<1> QED BY <1>1, <1>3, <1>4

(* Salesforce has no content for the file.                                 *)
LEMMA FindUnavailableOK ==
  ASSUME IInv, NEW p \in Pollers, FindUnavailable(p)
  PROVE  IInv'
<1>1. PICK f \in poll[p].todo :
         /\ IsCurrent(p, f) /\ (Fault \/ NoFault)
         /\ Failing(p, f, badCount[f]) \/ Failing(p, f, 0)
  BY DEF FindUnavailable
<1>2. poll[p].pc = "archive" /\ UNCHANGED <<saasVars, watermarkVars, archiveVars, cacheVars, listed>>
  BY DEF FindUnavailable
<1>3. CASE Failing(p, f, badCount[f])
  BY <1>1, <1>2, <1>3, FailingOK
<1>4. CASE Failing(p, f, 0)
  BY <1>1, <1>2, <1>4, FailingOK
<1> QED BY <1>1, <1>3, <1>4

(* The counter is stored, and the poll stops at the file.                  *)
LEMMA PostponeOK ==
  ASSUME IInv, NEW p \in Pollers, Postpone(p)
  PROVE  IInv'
<1>1. PICK f \in poll[p].todo :
         /\ IsCurrent(p, f) /\ poll[p].attempts < Attempts(f) /\ (Fault \/ NoFault)
         /\ badCount' = [badCount EXCEPT ![f] = poll[p].attempts] \/ UNCHANGED badCount
  BY DEF Postpone
<1>2. /\ UNCHANGED <<saasVars, watermarkVars>> /\ UNCHANGED archiveVars
      /\ processed' = processed /\ failures' = failures /\ listed' = listed
      /\ poll[p].pc = "failing" /\ StopPoll(p)
  BY DEF Postpone, history
<1>3. f \in Files /\ poll[p].attempts \in Nat /\ badCount \in [Files -> Nat]
  BY PollTypes DEF IInv, TypeOK
<1>4. poll[p].attempts <= failures[f]
  BY <1>1, <1>2, PollTypes, CurrentIsFirst DEF PollOK
<1>5. badCount' \in [Files -> Nat] /\ CountOK'
  BY <1>1, <1>2, <1>3, <1>4 DEF IInv, SharedOK, CountOK
<1>6. faults' \in Nat
  BY <1>1, FaultsLeft DEF IInv, TypeOK
<1>7. Accounted' = Accounted
  BY <1>2 DEF Accounted, archiveVars
<1>8. SharedOK'
  BY <1>2, <1>5, <1>6, <1>7 DEF IInv, SharedOK, GivenUpLate, archiveVars
<1>9. Accounted \subseteq Accounted' /\ poll[p].pc # "idle"
  BY <1>2, <1>7
<1> QED BY <1>2, <1>8, <1>9, StopStep

(* A file is given up, with its raw lines or a tombstone in the archive:   *)
(* it has failed often enough.                                             *)
LEMMA GivenUpOK ==
  ASSUME IInv, NEW p \in Pollers, poll[p].pc = "failing",
         NEW f \in poll[p].todo, IsCurrent(p, f), poll[p].attempts >= Attempts(f),
         GivenUp(p, f),
         \/ quarantined' = quarantined \cup {f} /\ UNCHANGED tombstoned
         \/ tombstoned' = tombstoned \cup {f} /\ UNCHANGED quarantined,
         UNCHANGED <<saasVars, watermarkVars, archived, processed, history>>
  PROVE  IInv'
<1> DEFINE q == [poll[p] EXCEPT !.pc = "mark"]
<1>1. f \in Files /\ FirstOf(created, poll[p].todo, f) /\ badCount \in [Files -> Nat]
  BY PollTypes, CurrentIsFirst DEF IInv, TypeOK
<1>2. /\ Accounted \subseteq Accounted' /\ f \in Accounted'
      /\ quarantined' \cup tombstoned' = quarantined \cup tombstoned \cup {f}
  BY DEF Accounted
<1>3. /\ badCount' = [badCount EXCEPT ![f] = 0] \/ UNCHANGED badCount
      /\ (Fault \/ NoFault) /\ Become(p, q)
  BY DEF GivenUp
<1>4. Attempts(f) \in Nat \ {0} /\ poll[p].attempts \in Nat /\ failures \in [Files -> Nat]
  BY <1>1, PollTypes, EventLogAssumption DEF Attempts, IInv, TypeOK
<1>5. failures' = failures /\ listed' = listed
  BY DEF history
<1>6. badCount' \in [Files -> Nat] /\ CountOK'
  BY <1>1, <1>3, <1>4, <1>5 DEF IInv, SharedOK, CountOK
<1>7. GivenUpLate'
  <2>1. failures[f] >= Attempts(f)
    <3>1. poll[p].attempts <= failures[f]
      BY <1>1, PollTypes DEF PollOK
    <3> QED BY <1>1, <1>4, <3>1
  <2> QED BY <1>2, <1>5, <2>1 DEF IInv, SharedOK, GivenUpLate
<1>8. faults' \in Nat
  BY <1>3, FaultsLeft DEF IInv, TypeOK
<1>9. SharedOK'
  BY <1>1, <1>2, <1>5, <1>6, <1>7, <1>8 DEF IInv, SharedOK
<1>10. q \in PollState /\ PollOK(q, now, created, Accounted', failures)
  BY <1>1, <1>2, MarkingOK
<1>11. PollOK(q, now, created, Accounted', failures') /\ \A g \in Files : failures[g] <= failures'[g]
  BY <1>4, <1>5, <1>10
<1>12. UNCHANGED <<saasVars, watermarkVars>>
  OBVIOUS
<1> QED BY <1>2, <1>3, <1>9, <1>10, <1>11, <1>12, FileStep

(* The raw lines of a malformed file are archived.                         *)
LEMMA QuarantineOK ==
  ASSUME IInv, NEW p \in Pollers, Quarantine(p)
  PROVE  IInv'
<1>1. PICK f \in poll[p].todo :
         /\ IsCurrent(p, f) /\ poll[p].attempts >= Attempts(f)
         /\ quarantined' = quarantined \cup {f} /\ GivenUp(p, f)
  BY DEF Quarantine
<1>2. /\ poll[p].pc = "failing" /\ UNCHANGED tombstoned
      /\ UNCHANGED <<saasVars, watermarkVars, archived, processed, history>>
  BY DEF Quarantine
<1> QED BY <1>1, <1>2, GivenUpOK

(* A tombstone is archived for a file without content.                     *)
LEMMA RecordUnavailableOK ==
  ASSUME IInv, NEW p \in Pollers, RecordUnavailable(p)
  PROVE  IInv'
<1>1. PICK f \in poll[p].todo :
         /\ IsCurrent(p, f) /\ poll[p].attempts >= Attempts(f)
         /\ tombstoned' = tombstoned \cup {f} /\ GivenUp(p, f)
  BY DEF RecordUnavailable
<1>2. /\ poll[p].pc = "failing" /\ UNCHANGED quarantined
      /\ UNCHANGED <<saasVars, watermarkVars, archived, processed, history>>
  BY DEF RecordUnavailable
<1> QED BY <1>1, <1>2, GivenUpOK

(* The object cannot be written: the poll stops at the file.               *)
LEMMA GiveUpFailsOK ==
  ASSUME IInv, NEW p \in Pollers, GiveUpFails(p)
  PROVE  IInv'
<1>1. /\ UNCHANGED <<saasVars, watermarkVars, archiveVars, cacheVars, history>> /\ Fault
      /\ poll[p].pc # "idle"
      /\ Become(p, [poll[p] EXCEPT !.pc = "end", !.todo = {}, !.attempts = 0])
  BY DEF GiveUpFails, StopPoll
<1>2. /\ [poll[p] EXCEPT !.pc = "end", !.todo = {}, !.attempts = 0] \in PollState
      /\ PollOK([poll[p] EXCEPT !.pc = "end", !.todo = {}, !.attempts = 0],
                now, created, Accounted, failures)
  BY <1>1, StoppedOK
<1> QED BY <1>1, <1>2, LocalStep

(* The marker is stored, for a file that is accounted for.                 *)
LEMMA MarkStepOK ==
  ASSUME IInv, NEW p \in Pollers, Mark(p)
  PROVE  IInv'
<1>1. PICK f \in poll[p].todo :
         /\ IsCurrent(p, f) /\ (Fault \/ NoFault) /\ Become(p, PassedBy(p, f))
         /\ processed' = processed \cup {f} \/ UNCHANGED processed
  BY DEF Mark
<1>2. /\ poll[p].pc = "mark" /\ UNCHANGED <<saasVars, watermarkVars>>
      /\ UNCHANGED archiveVars /\ badCount' = badCount /\ failures' = failures /\ listed' = listed
  BY DEF Mark, history
<1>3. f \in Files /\ FirstOf(created, poll[p].todo, f)
  BY <1>1, PollTypes, CurrentIsFirst
<1>4. f \in Accounted
  BY <1>2, <1>3, PollTypes DEF PollOK
<1>5. /\ PassedBy(p, f) \in PollState
      /\ PollOK(PassedBy(p, f), now, created, Accounted, failures)
  BY <1>2, <1>3, <1>4, PassedByOK
<1>6. faults' \in Nat
  BY <1>1, FaultsLeft DEF IInv, TypeOK
<1>7. Accounted' = Accounted
  BY <1>2 DEF Accounted, archiveVars
<1>8. SharedOK'
  BY <1>1, <1>2, <1>3, <1>4, <1>6, <1>7 DEF IInv, SharedOK, CountOK, GivenUpLate, archiveVars
<1>9. /\ PollOK(PassedBy(p, f), now, created, Accounted', failures')
      /\ Accounted \subseteq Accounted' /\ \A g \in Files : failures[g] <= failures'[g]
  BY <1>2, <1>5, <1>7 DEF IInv, TypeOK
<1> QED BY <1>1, <1>2, <1>5, <1>8, <1>9, FileStep

(* Every record was passed.                                                *)
LEMMA FinishOK ==
  ASSUME IInv, NEW p \in Pollers, Finish(p)
  PROVE  IInv'
<1> DEFINE q == [poll[p] EXCEPT !.pc = "end"]
<1>1. q \in PollState
  BY PollTypes DEF PollState
<1>2. /\ q.since = poll[p].since /\ q.until = poll[p].until /\ q.base = poll[p].base
      /\ q.new = poll[p].new /\ q.todo = poll[p].todo /\ q.pc = "end"
  BY PollTypes DEF PollState
<1>3. PollOK(q, now, created, Accounted, failures)
  BY <1>2, PollTypes DEF PollOK, Finish
<1>4. /\ Become(p, q) /\ NoFault
      /\ UNCHANGED <<saasVars, watermarkVars, archiveVars, cacheVars, history>>
  BY DEF Finish, NoFault
<1> QED BY <1>1, <1>3, <1>4, LocalStep

(* The watermark of the poll is stored, with what the poll knows of it, in *)
(* place of whatever another poll stored meanwhile.                        *)
LEMMA StoreWatermarkOK ==
  ASSUME IInv, NEW p \in Pollers, StoreWatermark(p)
  PROVE  IInv'
<1>1. /\ Become(p, Idle) /\ UNCHANGED saasVars /\ UNCHANGED archiveVars
      /\ UNCHANGED cacheVars /\ UNCHANGED history /\ poll[p].pc = "end"
  BY DEF StoreWatermark
<1>2. Fault \/ NoFault
  BY DEF StoreWatermark
<1>3. CASE UNCHANGED watermarkVars
  BY <1>1, <1>2, <1>3, IdleOK, LocalStep
<1>4. CASE poll[p].new # NoWatermark /\ watermark' = poll[p].new /\ floor' = poll[p].base
  <2>1. MarkOK(poll[p].new, poll[p].base, now, created, Accounted)
    BY <1>1, <1>4, PollTypes DEF PollOK, MarkOK
  <2>2. Accounted' = Accounted /\ failures' = failures /\ faults' \in Nat
    BY <1>1, <1>2, FaultsLeft DEF Accounted, archiveVars, history, IInv, TypeOK
  <2>3. SharedOK'
    BY <1>1, <2>2 DEF IInv, SharedOK, CountOK, GivenUpLate, archiveVars, cacheVars, history
  <2>4. /\ MarkOK(watermark', floor', now, created, Accounted')
        /\ watermark' \in Nat \cup {NoWatermark} /\ floor' \in Int
    BY <1>4, <2>1, <2>2, PollTypes
  <2>5. /\ Accounted \subseteq Accounted' /\ \A f \in Files : failures[f] <= failures'[f]
    BY <2>2 DEF IInv, TypeOK
  <2>6. Idle \in PollState /\ PollOK(Idle, now, created, Accounted', failures')
    BY IdleOK
  <2> QED BY <1>1, <2>3, <2>4, <2>5, <2>6, PollerStep
<1> QED BY <1>3, <1>4 DEF StoreWatermark, SetWatermark

(* The poll ends without storing anything.                                 *)
LEMMA AbortOK ==
  ASSUME IInv, NEW p \in Pollers, Abort(p)
  PROVE  IInv'
<1>1. /\ Become(p, Idle) /\ Fault
      /\ UNCHANGED <<saasVars, watermarkVars, archiveVars, cacheVars, history>>
  BY DEF Abort
<1> QED BY <1>1, IdleOK, LocalStep

(* A marker or a counter expires.                                          *)
LEMMA ForgetOK ==
  ASSUME IInv, NEW f \in Files, Forget(f)
  PROVE  IInv'
<1>1. /\ UNCHANGED saasVars /\ UNCHANGED watermarkVars /\ UNCHANGED archiveVars
      /\ failures' = failures /\ listed' = listed /\ poll' = poll
  BY DEF Forget, history
<1>2. faults' \in Nat
  BY FaultsLeft DEF Forget, IInv, TypeOK
<1>3. /\ processed' \subseteq processed
      /\ badCount' = [badCount EXCEPT ![f] = 0] \/ badCount' = badCount
  BY DEF Forget
<1>4. badCount \in [Files -> Nat] /\ failures \in [Files -> Nat] /\ Attempts(f) > 0
  BY EventLogAssumption DEF IInv, TypeOK, Attempts
<1>5. badCount' \in [Files -> Nat] /\ CountOK'
  BY <1>1, <1>3, <1>4 DEF IInv, SharedOK, CountOK
<1>6. Accounted' = Accounted
  BY <1>1 DEF Accounted, archiveVars
<1>7. SharedOK'
  BY <1>1, <1>2, <1>3, <1>5, <1>6 DEF IInv, SharedOK, GivenUpLate, archiveVars
<1>8. TypeOK'
  BY <1>1, <1>7 DEF IInv, TypeOK, SharedOK, saasVars, watermarkVars
<1>9. ClockOK'
  BY <1>1 DEF IInv, ClockOK, saasVars
<1> QED BY <1>1, <1>6, <1>7, <1>8, <1>9 DEF IInv, saasVars, watermarkVars

-----------------------------------------------------------------------------
(* The theorems.                                                           *)

(* Every step preserves the invariant.                                     *)
LEMMA NextOK == IInv /\ [Next]_vars => IInv'
<1> SUFFICES ASSUME IInv, [Next]_vars PROVE IInv'
  OBVIOUS
<1>1. CASE Salesforce
  <2>1. CASE Tick
    BY <2>1, TickOK
  <2>2. ASSUME NEW f \in Files, CreateFile(f) \/ ShowFile(f) PROVE IInv'
    BY <2>2, CreateFileOK, ShowFileOK
  <2> QED BY <1>1, <2>1, <2>2 DEF Salesforce
<1>2. ASSUME NEW p \in Pollers, PollStep(p) PROVE IInv'
  BY <1>2, BeginPollOK, ListOK, SkipProcessedOK, TakeFileOK, ArchiveOK, FindMalformedOK,
     FindUnavailableOK, PostponeOK, QuarantineOK, RecordUnavailableOK, MarkStepOK, FinishOK,
     StoreWatermarkOK
  DEF PollStep
<1>3. ASSUME NEW p \in Pollers, Trouble(p) PROVE IInv'
  BY <1>3, ArchiveFailsOK, GiveUpFailsOK, AbortOK DEF Trouble
<1>4. ASSUME NEW f \in Files, Forget(f) PROVE IInv'
  BY <1>4, ForgetOK
<1>5. CASE UNCHANGED vars
  <2>1. UNCHANGED <<watermarkVars, archiveVars, cacheVars, history, poll, faults>>
    BY <1>5 DEF vars
  <2>2. now' = now /\ created' = created /\ visible' = visible
    BY <1>5 DEF vars, saasVars
  <2>3. ClockOK' /\ now' \in Nat /\ now <= now' /\ created' \in [Files -> Nat \cup {NotYet}]
        /\ visible' \subseteq Files
    BY <2>2 DEF IInv, TypeOK, ClockOK
  <2> QED BY <2>1, <2>2, <2>3, SaasStep
<1> QED BY <1>1, <1>2, <1>3, <1>4, <1>5 DEF Next

(* IInv holds in every reachable state.                                    *)
LEMMA IInvHolds == Spec => []IInv
BY InitOK, NextOK, PTL DEF Spec

(* The event log loop never leaves its state space.                        *)
THEOREM TypeCorrect == Spec => []TypeOK
<1>1. IInv => TypeOK
  BY DEF IInv
<1> QED BY <1>1, IInvHolds, PTL

(* collectLogFiles leaves no file behind the watermark: whatever was       *)
(* created before the next window is in the archive, with its rows, its    *)
(* raw lines or a tombstone, for any number of overlapping polls and any   *)
(* failures.                                                               *)
THEOREM NoFileLost == Spec => []NoFileSkipped
<1>1. IInv => NoFileSkipped
  BY DEF IInv, MarkOK, Passed, NoFileSkipped, Since
<1> QED BY <1>1, IInvHolds, PTL

(* handleMalformed and handleDownloadFailure give a file up only after the *)
(* configured number of failed polls, although their counters expire and   *)
(* polls overwrite each other's.                                           *)
THEOREM GivingUpIsLate == Spec => []GivenUpLate
<1>1. IInv => GivenUpLate
  BY DEF IInv, SharedOK
<1> QED BY <1>1, IInvHolds, PTL

-----------------------------------------------------------------------------
(* An initial window that reaches back to the beginning never slides past  *)
(* a file, and neither does a watermark that goes back to such a window.   *)
RangeOK ==
    /\ now <= MaxClock
    /\ floor <= 0
    /\ \A p \in Pollers : poll[p].base <= 0

ListedOK == \A f \in listed : created[f] # NotYet

(* A file is listed after it was created.                                  *)
LEMMA ListedKept ==
  ASSUME IInv, ListedOK, [Next]_vars
  PROVE  ListedOK'
<1>1. /\ created \in [Files -> Nat \cup {NotYet}] /\ now \in Nat /\ listed \subseteq Files
      /\ \A f \in visible : created[f] # NotYet /\ f \in Files
  BY DEF IInv, TypeOK, ClockOK
<1>2. ASSUME NEW f \in Files, CreateFile(f) PROVE ListedOK'
  <2>1. created' = [created EXCEPT ![f] = now] /\ listed' = listed
    BY <1>2 DEF CreateFile, history
  <2>2. now # NotYet
    BY <1>1 DEF NotYet
  <2> QED BY <1>1, <2>1, <2>2 DEF ListedOK
<1>3. ASSUME NEW p \in Pollers, List(p) PROVE ListedOK'
  <2>1. created' = created /\ listed' \subseteq listed \cup visible
    BY <1>3 DEF List, saasVars
  <2> QED BY <1>1, <2>1 DEF ListedOK
<1>4. CASE UNCHANGED <<created, listed>>
  BY <1>4 DEF ListedOK
<1>5. ASSUME NEW p \in Pollers, PollStep(p), ~List(p) PROVE UNCHANGED <<created, listed>>
  BY <1>5 DEF PollStep, BeginPoll, SkipProcessed, TakeFile, Archive, FindMalformed,
     FindUnavailable, Postpone, Quarantine, RecordUnavailable, Mark, Finish, StoreWatermark,
     saasVars, history
<1>6. ASSUME NEW p \in Pollers, Trouble(p) PROVE UNCHANGED <<created, listed>>
  BY <1>6 DEF Trouble, ArchiveFails, GiveUpFails, Abort, saasVars, history
<1>7. ASSUME NEW f \in Files, ShowFile(f) \/ Forget(f) PROVE UNCHANGED <<created, listed>>
  <2>1. CASE ShowFile(f)
    BY <2>1 DEF ShowFile, history
  <2>2. CASE Forget(f)
    BY <2>2 DEF Forget, saasVars, history
  <2> QED BY <1>7, <2>1, <2>2
<1>8. CASE Tick \/ UNCHANGED vars
  BY <1>4, <1>8 DEF Tick, vars, saasVars, history
<1> QED BY <1>2, <1>3, <1>4, <1>5, <1>6, <1>7, <1>8 DEF Next, Salesforce

(* A step of a poll that is neither its begin nor its end keeps the range. *)
LEMMA BaseKept ==
  ASSUME NEW p \in Pollers, poll \in [Pollers -> PollState], PollStep(p) \/ Trouble(p),
         ~BeginPoll(p), ~StoreWatermark(p), ~Abort(p)
  PROVE  \E q : poll' = [poll EXCEPT ![p] = q] /\ q.base = poll[p].base
<1>1. poll[p] \in PollState
  OBVIOUS
<1>2. \A f : PassedBy(p, f).base = poll[p].base
  BY <1>1 DEF PassedBy, PollState
<1>3. CASE StopPoll(p)
  <2>1. [poll[p] EXCEPT !.pc = "end", !.todo = {}, !.attempts = 0].base = poll[p].base
    BY <1>1 DEF PollState
  <2> QED BY <1>3, <2>1 DEF StopPoll, Become
<1>4. CASE ArchiveFails(p) \/ Postpone(p) \/ GiveUpFails(p)
  BY <1>3, <1>4 DEF ArchiveFails, Postpone, GiveUpFails
<1>5. CASE SkipProcessed(p) \/ Mark(p)
  BY <1>2, <1>5 DEF SkipProcessed, Mark, Become
<1>6. CASE List(p) \/ TakeFile(p) \/ Archive(p) \/ Finish(p)
  <2>1. CASE List(p)
    <3>1. PICK R : Become(p, [poll[p] EXCEPT !.pc = "next", !.todo = R])
      BY <2>1 DEF List
    <3>2. [poll[p] EXCEPT !.pc = "next", !.todo = R].base = poll[p].base
      BY <1>1 DEF PollState
    <3> QED BY <3>1, <3>2 DEF Become
  <2>2. CASE ~List(p)
    <3>1. PICK c : Become(p, [poll[p] EXCEPT !.pc = c])
      BY <1>6, <2>2 DEF TakeFile, Archive, Finish
    <3>2. [poll[p] EXCEPT !.pc = c].base = poll[p].base
      BY <1>1 DEF PollState
    <3> QED BY <3>1, <3>2 DEF Become
  <2> QED BY <2>1, <2>2
<1>7. CASE FindMalformed(p) \/ FindUnavailable(p)
  <2>1. PICK n : Become(p, [poll[p] EXCEPT !.pc = "failing", !.attempts = n])
    BY <1>7 DEF FindMalformed, FindUnavailable, Failing
  <2>2. [poll[p] EXCEPT !.pc = "failing", !.attempts = n].base = poll[p].base
    BY <1>1 DEF PollState
  <2> QED BY <2>1, <2>2 DEF Become
<1>8. CASE Quarantine(p) \/ RecordUnavailable(p)
  <2>1. Become(p, [poll[p] EXCEPT !.pc = "mark"])
    BY <1>8 DEF Quarantine, RecordUnavailable, GivenUp
  <2>2. [poll[p] EXCEPT !.pc = "mark"].base = poll[p].base
    BY <1>1 DEF PollState
  <2> QED BY <2>1, <2>2 DEF Become
<1> QED BY <1>4, <1>5, <1>6, <1>7, <1>8 DEF PollStep, Trouble

(* Polls begin with the range of the stored watermark, or with the initial *)
(* window, and keep it.                                                    *)
LEMMA RangeKept ==
  ASSUME InitialTimeInterval >= MaxClock, IInv, RangeOK, [Next]_vars
  PROVE  RangeOK'
<1> USE WatermarkAssumption, EventLogAssumption
<1>1. poll \in [Pollers -> PollState] /\ now \in Nat
  BY DEF IInv, TypeOK
<1>2. CASE Tick
  <2>1. now < MaxClock /\ now' = now + 1 /\ UNCHANGED <<floor, poll>>
    BY <1>2 DEF Tick, watermarkVars
  <2> QED BY <1>1, <2>1 DEF RangeOK
<1>3. ASSUME NEW f \in Files, CreateFile(f) \/ ShowFile(f) \/ Forget(f) PROVE RangeOK'
  <2>1. UNCHANGED <<now, floor, poll>>
    BY <1>3 DEF CreateFile, ShowFile, Forget, watermarkVars, saasVars
  <2> QED BY <2>1 DEF RangeOK
<1>4. ASSUME NEW p \in Pollers, BeginPoll(p) PROVE RangeOK'
  <2>1. Base <= 0
    <3>1. now - InitialTimeInterval \in Int /\ now - InitialTimeInterval <= 0
      BY <1>1 DEF RangeOK
    <3>2. Truncate(now - InitialTimeInterval) <= now - InitialTimeInterval
          /\ Truncate(now - InitialTimeInterval) \in Int
      BY <3>1, TruncateBelow
    <3>3. Truncate(now - InitialTimeInterval) <= 0
      BY <3>1, <3>2
    <3> QED BY <3>3 DEF Base, Since, RangeOK
  <2>2. poll' = [poll EXCEPT ![p] = [Idle EXCEPT !.pc = "list", !.since = Since,
                     !.until = Truncate(now), !.base = Base, !.new = watermark]]
        /\ UNCHANGED <<now, floor>>
    BY <1>4 DEF BeginPoll, Become, saasVars, watermarkVars
  <2>3. \A q \in Pollers : poll'[q].base <= 0
    BY <1>1, <2>1, <2>2 DEF RangeOK, Idle
  <2> QED BY <2>2, <2>3 DEF RangeOK
<1>5. ASSUME NEW p \in Pollers, StoreWatermark(p) PROVE RangeOK'
  <2>1. floor' \in {floor, poll[p].base} /\ now' = now /\ poll' = [poll EXCEPT ![p] = Idle]
    BY <1>5 DEF StoreWatermark, SetWatermark, Become, saasVars, watermarkVars
  <2>2. \A q \in Pollers : poll'[q].base <= 0
    BY <1>1, <2>1 DEF RangeOK, Idle
  <2> QED BY <2>1, <2>2 DEF RangeOK
<1>6. ASSUME NEW p \in Pollers, Abort(p) PROVE RangeOK'
  <2>1. UNCHANGED <<now, floor>> /\ poll' = [poll EXCEPT ![p] = Idle]
    BY <1>6 DEF Abort, Become, saasVars, watermarkVars
  <2>2. \A q \in Pollers : poll'[q].base <= 0
    BY <1>1, <2>1 DEF RangeOK, Idle
  <2> QED BY <2>1, <2>2 DEF RangeOK
<1>7. ASSUME NEW p \in Pollers, PollStep(p) \/ Trouble(p),
             ~BeginPoll(p), ~StoreWatermark(p), ~Abort(p)
      PROVE  RangeOK'
  <2>1. UNCHANGED <<now, floor>>
    BY <1>7 DEF PollStep, Trouble, List, SkipProcessed, TakeFile, Archive, FindMalformed,
       FindUnavailable, Postpone, Quarantine, RecordUnavailable, Mark, Finish, ArchiveFails,
       GiveUpFails, saasVars, watermarkVars
  <2>2. \E q : poll' = [poll EXCEPT ![p] = q] /\ q.base = poll[p].base
    BY <1>7, <1>1, BaseKept
  <2>3. \A r \in Pollers : poll'[r].base <= 0
    BY <1>1, <2>2 DEF RangeOK
  <2> QED BY <2>1, <2>3 DEF RangeOK
<1>8. CASE UNCHANGED vars
  BY <1>8 DEF vars, saasVars, watermarkVars, RangeOK
<1> QED BY <1>2, <1>3, <1>4, <1>5, <1>6, <1>7, <1>8 DEF Next, Salesforce

(* A poll that fails at a file is repeated, whatever fails and however     *)
(* polls overlap, if the initial window reaches back to the first file     *)
(* (collectLogFiles, since).  Without that hypothesis the window slides    *)
(* past the file: see the run elf_window.                                  *)
THEOREM FailuresAreRetried ==
  ASSUME InitialTimeInterval >= MaxClock
  PROVE  Spec => []FailedFileRetried
<1>1. Init => RangeOK /\ ListedOK
  BY WatermarkAssumption DEF Init, RangeOK, Idle, ListedOK
<1>2. IInv /\ RangeOK /\ ListedOK /\ [Next]_vars => (RangeOK /\ ListedOK)'
  BY RangeKept, ListedKept
<1>3. ASSUME IInv, RangeOK, ListedOK PROVE FailedFileRetried
  <2> SUFFICES ASSUME NEW f \in listed, f \notin Accounted PROVE created[f] >= Since
    BY DEF FailedFileRetried
  <2>1. /\ f \in Files /\ created[f] # NotYet /\ created[f] \in Nat /\ now \in Nat
        /\ watermark \in Nat \cup {NoWatermark} /\ floor \in Int
    BY <1>3 DEF IInv, TypeOK, ListedOK
  <2>2. CASE watermark = NoWatermark
    <3>1. now - InitialTimeInterval \in Int /\ now - InitialTimeInterval <= 0
      BY <1>3, <2>1, WatermarkAssumption DEF RangeOK
    <3>2. Truncate(now - InitialTimeInterval) \in Int /\ Truncate(now - InitialTimeInterval) <= 0
      BY <3>1, TruncateBelow
    <3> QED BY <2>1, <2>2, <3>2 DEF Since
  <2>3. CASE watermark # NoWatermark
    <3>1. Passed(created, Accounted, floor, Truncate(watermark - Overlap))
      BY <1>3, <2>3 DEF IInv, MarkOK
    <3>2. floor <= created[f]
      BY <1>3, <2>1 DEF RangeOK
    <3>3. ~(created[f] < Truncate(watermark - Overlap))
      BY <2>1, <3>1, <3>2 DEF Passed
    <3>4. Truncate(watermark - Overlap) \in Int
      BY <2>1, <2>3, TruncateBelow, WatermarkAssumption
    <3> QED BY <2>1, <2>3, <3>3, <3>4 DEF Since
  <2> QED BY <2>2, <2>3
<1> QED BY <1>1, <1>2, <1>3, IInvHolds, PTL DEF Spec
=============================================================================
