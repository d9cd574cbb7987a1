-------------------------- MODULE LifecycleProofs --------------------------
(***************************************************************************)
(* Proofs about the life of a collector: how the stream service returns    *)
(* (Service), for any number of topics, how long a subscriber takes to     *)
(* stop (Shutdown), for any timeout, lease time and object size, and what  *)
(* a collector that starts relies on (StartUp), for any configuration.     *)
(***************************************************************************)
EXTENDS StartUp, Service, Shutdown, FiniteSetTheorems, TLAPS

(* A session that OnActive(true) has counted and OnActive(false) has not.  *)
Counted(s) == s.healthy /\ s.pc \in {"ready", "stream", "ended"}

Active == {t \in Topics : Counted(sub[t])}

(* One subscriber.  The counter of failed logins is at its limit only when *)
(* the session ended with a fatal error; only a client that has logged in  *)
(* has a healthy session.                                                  *)
SubOK(s) ==
    /\ s.healthy \/ s.pc \in {"stream", "ready"} => s.orgId
    /\ s.fails = MaxAuthFailures =>
          s.fatal /\ s.pc \in {"ended", "unready", "after", "report", "stopped"}
    /\ s.on => s.pc = "ready"
    /\ s.pc = "acquire" => ~s.fatal

(* RunService: before every topic is launched none can make it ready.      *)
PhaseOK ==
    /\ phase \in {"launch", "giveup"} =>
          /\ ~ready /\ \A t \in Topics : ~sub[t].on
          /\ Topics # {} => \E t \in Topics : sub[t].pc = "new"
    /\ phase = "wait" => \A t \in Topics : sub[t].pc # "new"
    /\ Returned => ~ready /\ AllStopped
    /\ phase = "clean" => \A t \in Topics : sub[t].pc = "stopped" /\ ~sub[t].fatal

ErrorsOK == \A t \in Topics : sub[t].pc = "stopped" /\ sub[t].fatal => firstErr

SvcInv ==
    /\ TypeOK /\ active = Cardinality(Active)
    /\ \A t \in Topics : SubOK(sub[t])
    /\ PhaseOK /\ ErrorsOK

(* No topic is launched.                                                   *)
LEMMA ServiceStarts == Init => SvcInv
<1> SUFFICES ASSUME Init PROVE SvcInv
  OBVIOUS
<1>1. NewSub \in SubState /\ SubOK(NewSub) /\ ~Counted(NewSub)
  BY ServiceAssumption DEF NewSub, SubState, SubOK, Counted
<1>2. \A t \in Topics : sub[t] = NewSub
  BY DEF Init
<1>3. active = Cardinality(Active) /\ active \in 0..Cardinality(Topics)
  <2>1. Active = {}
    BY <1>1, <1>2 DEF Active
  <2> QED
    BY <2>1, FS_EmptySet, FS_CardinalityType, ServiceAssumption DEF Init
<1>4. TypeOK
  BY <1>1, <1>3, ServiceAssumption DEF Init, TypeOK
<1>5. PhaseOK /\ ErrorsOK
  BY <1>2 DEF Init, PhaseOK, ErrorsOK, NewSub, Returned
<1> QED
  BY <1>1, <1>2, <1>3, <1>4, <1>5 DEF SvcInv

(* One subscriber moves.                                                   *)
LEMMA OneMoves ==
  ASSUME TypeOK, NEW t \in Topics, NEW s \in SubState, Become(t, s)
  PROVE  /\ sub' \in [Topics -> SubState] /\ sub'[t] = s
         /\ \A u \in Topics : u # t => sub'[u] = sub[u]
BY DEF TypeOK, Become

(* The counter follows the sessions that are active.                       *)
LEMMA CounterMoves ==
  ASSUME SvcInv, NEW t \in Topics, NEW s \in SubState, Become(t, s),
         \/ (Counted(s) <=> Counted(sub[t])) /\ active' = active
         \/ Counted(s) /\ ~Counted(sub[t]) /\ active' = active + 1
         \/ ~Counted(s) /\ Counted(sub[t]) /\ active' = active - 1
  PROVE  active' = Cardinality(Active') /\ active' \in 0..Cardinality(Topics)
<1>1. /\ sub' \in [Topics -> SubState] /\ sub'[t] = s
      /\ \A u \in Topics : u # t => sub'[u] = sub[u]
  BY OneMoves DEF SvcInv
<1>2. Active' = {u \in Topics : Counted(sub'[u])}
  BY DEF Active, Counted
<1>3. IsFiniteSet(Active) /\ Active \subseteq Topics
  BY FS_Subset, ServiceAssumption DEF Active
<1>4. Cardinality(Active) \in Nat /\ Cardinality(Topics) \in Nat /\ active = Cardinality(Active)
  BY <1>3, FS_CardinalityType, ServiceAssumption DEF SvcInv
<1>5. Active' \subseteq Topics
  BY <1>2
<1>6. Cardinality(Active') \in Nat /\ Cardinality(Active') <= Cardinality(Topics)
  BY <1>5, FS_Subset, FS_CardinalityType, ServiceAssumption
<1>7. CASE (Counted(s) <=> Counted(sub[t])) /\ active' = active
  <2>1. Active' = Active
    BY <1>1, <1>2, <1>7 DEF Active
  <2> QED
    BY <1>4, <1>6, <1>7, <2>1
<1>8. CASE Counted(s) /\ ~Counted(sub[t]) /\ active' = active + 1
  <2>1. Active' = Active \cup {t} /\ t \notin Active
    BY <1>1, <1>2, <1>8 DEF Active
  <2>2. Cardinality(Active \cup {t}) = Cardinality(Active) + 1
    BY <1>3, <2>1, FS_AddElement
  <2> QED
    BY <1>4, <1>6, <1>8, <2>1, <2>2
<1>9. CASE ~Counted(s) /\ Counted(sub[t]) /\ active' = active - 1
  <2>1. Active' = Active \ {t} /\ t \in Active
    BY <1>1, <1>2, <1>9 DEF Active
  <2>2. Cardinality(Active \ {t}) = Cardinality(Active) - 1
    BY <1>3, <2>1, FS_RemoveElement
  <2> QED
    BY <1>4, <1>6, <1>9, <2>1, <2>2
<1> QED
  BY <1>7, <1>8, <1>9

(* A step of a subscriber that runs.  It makes the process ready only if    *)
(* its callback found every topic active, and a fatal error does not stop   *)
(* it before the error is recorded.                                         *)
LEMMA SubscriberMoves ==
  ASSUME SvcInv, NEW t \in Topics, NEW s \in SubState, Become(t, s), SubOK(s),
         sub[t].pc \notin {"new", "stopped"}, s.pc # "new", ~s.on,
         \/ (Counted(s) <=> Counted(sub[t])) /\ active' = active
         \/ ~Counted(s) /\ Counted(sub[t]) /\ active' = active - 1,
         ready' \in BOOLEAN, ready' => ready \/ sub[t].on,
         cancelled' \in BOOLEAN,
         firstErr' \in BOOLEAN, firstErr => firstErr', s.pc = "stopped" /\ s.fatal => firstErr',
         faults' \in Nat, UNCHANGED <<phase, token>>
  PROVE  SvcInv'
<1>1. /\ sub' \in [Topics -> SubState] /\ sub'[t] = s
      /\ \A u \in Topics : u # t => sub'[u] = sub[u]
  BY OneMoves DEF SvcInv
<1>2. active' = Cardinality(Active') /\ active' \in 0..Cardinality(Topics)
  BY CounterMoves
<1>3. TypeOK'
  BY <1>1, <1>2 DEF SvcInv, TypeOK
<1>4. ASSUME NEW u \in Topics PROVE SubOK(sub[u])'
  <2>1. SubOK(sub'[u])
    BY <1>1 DEF SvcInv
  <2> QED
    BY <2>1 DEF SubOK
<1>5. PhaseOK'
  <2>1. ~Returned /\ phase # "clean"
    BY DEF SvcInv, PhaseOK, AllStopped, Returned
  <2>2. ASSUME phase \in {"launch", "giveup"}
        PROVE  /\ ~ready' /\ \A u \in Topics : ~sub'[u].on
               /\ \E u \in Topics : sub'[u].pc = "new"
    <3>1. PICK u \in Topics : sub[u].pc = "new"
      BY <2>2 DEF SvcInv, PhaseOK
    <3>2. sub'[u].pc = "new"
      BY <1>1, <3>1
    <3> QED
      BY <1>1, <2>2, <3>2 DEF SvcInv, PhaseOK
  <2>3. phase = "wait" => \A u \in Topics : sub'[u].pc # "new"
    BY <1>1 DEF SvcInv, PhaseOK
  <2> QED
    BY <2>1, <2>2, <2>3 DEF PhaseOK, Returned
<1>6. ErrorsOK'
  BY <1>1 DEF SvcInv, ErrorsOK
<1> QED
  BY <1>2, <1>3, <1>4, <1>5, <1>6 DEF SvcInv

(* The lease and the checkpoint.                                           *)
LEMMA AcquireMoves ==
  ASSUME SvcInv, NEW t \in Topics, Acquire(t)
  PROVE  SvcInv'
<1>1. sub[t] \in SubState /\ SubOK(sub[t]) /\ sub[t].pc = "acquire"
  BY DEF SvcInv, TypeOK, Acquire
<1>2. PICK s : /\ Become(t, s) /\ faults' \in Nat
               /\ \/ s = [sub[t] EXCEPT !.pc = "connect"]
                  \/ s = [sub[t] EXCEPT !.pc = "stopped"]
                  \/ s = [sub[t] EXCEPT !.pc = "report", !.fatal = TRUE]
  BY DEF Acquire, Fault, NoFault, SvcInv, TypeOK
<1>3. s \in SubState
  BY <1>1, <1>2 DEF SubState
<1>4. SubOK(s) /\ s.pc # "new" /\ ~s.on /\ ~(s.pc = "stopped" /\ s.fatal)
  BY <1>1, <1>2 DEF SubState, SubOK
<1>5. ~Counted(s) /\ ~Counted(sub[t])
  BY <1>1, <1>2 DEF SubState, Counted
<1>6. UNCHANGED <<active, ready, cancelled, firstErr, phase, token>>
  BY DEF Acquire
<1>7. ready' \in BOOLEAN /\ cancelled' \in BOOLEAN /\ firstErr' \in BOOLEAN
  BY <1>6 DEF SvcInv, TypeOK
<1> QED
  BY <1>1, <1>2, <1>3, <1>4, <1>5, <1>6, <1>7, SubscriberMoves

(* authFailed: the last failure it counts is fatal.                        *)
LEMMA AuthFailedOK ==
  ASSUME NEW s \in SubState, SubOK(s), s.pc \in {"connect", "stream"}
  PROVE  /\ [AuthFailed(s) EXCEPT !.pc = "ended"] \in SubState
         /\ SubOK([AuthFailed(s) EXCEPT !.pc = "ended"])
         /\ [AuthFailed(s) EXCEPT !.pc = "ended"].healthy = s.healthy
         /\ [AuthFailed(s) EXCEPT !.pc = "ended"].pc = "ended"
         /\ ~[AuthFailed(s) EXCEPT !.pc = "ended"].on
<1> DEFINE f == s.fails + 1
           d == f >= MaxAuthFailures
           e == [AuthFailed(s) EXCEPT !.pc = "ended"]
<1>1. s.fails \in 0..MaxAuthFailures /\ s.fails # MaxAuthFailures /\ ~s.on
  BY DEF SubState, SubOK
<1>2. f \in 0..MaxAuthFailures /\ d \in BOOLEAN /\ (f = MaxAuthFailures => d)
  BY <1>1, ServiceAssumption
<1>3. e = [s EXCEPT !.fails = f, !.fatal = d, !.pc = "ended"]
  BY DEF AuthFailed, SubState
<1>4. /\ e.pc = "ended" /\ e.healthy = s.healthy /\ e.orgId = s.orgId /\ e.on = s.on
      /\ e.fails = f /\ e.fatal = d
  BY <1>3 DEF SubState
<1> HIDE DEF f, d
<1>5. e \in SubState
  BY <1>2, <1>3 DEF SubState
<1> HIDE DEF e
<1>6. SubOK(e)
  BY <1>1, <1>2, <1>4 DEF SubOK
<1> QED
  BY <1>1, <1>4, <1>5, <1>6 DEF e

(* A login that fails, or a new stream.                                    *)
LEMMA ConnectMoves ==
  ASSUME SvcInv, NEW t \in Topics, Connect(t)
  PROVE  SvcInv'
<1>1. sub[t] \in SubState /\ SubOK(sub[t]) /\ sub[t].pc = "connect"
  BY DEF SvcInv, TypeOK, Connect
<1>2. UNCHANGED <<active, ready, cancelled, firstErr, phase, token, faults>>
  BY DEF Connect
<1>3. ready' \in BOOLEAN /\ cancelled' \in BOOLEAN /\ firstErr' \in BOOLEAN /\ faults' \in Nat
  BY <1>2 DEF SvcInv, TypeOK
<1> DEFINE r == [sub[t] EXCEPT !.fatal = FALSE]
<1>4. /\ r \in SubState /\ r.pc = "connect" /\ r.healthy = sub[t].healthy
      /\ r.orgId = sub[t].orgId /\ r.on = sub[t].on /\ r.fails = sub[t].fails
  BY <1>1 DEF SubState
<1>5. SubOK(r) /\ ~Counted(sub[t])
  BY <1>1, <1>4 DEF SubOK, Counted, SubState
<1>6. \/ ~r.orgId /\ Become(t, [AuthFailed(r) EXCEPT !.pc = "ended"])
      \/ Become(t, [r EXCEPT !.pc = "stream", !.orgId = TRUE, !.healthy = FALSE])
  BY DEF Connect
<1> HIDE DEF r
<1>7. CASE ~r.orgId /\ Become(t, [AuthFailed(r) EXCEPT !.pc = "ended"])
  <2> DEFINE e == [AuthFailed(r) EXCEPT !.pc = "ended"]
  <2>1. e \in SubState /\ SubOK(e) /\ e.healthy = r.healthy /\ e.pc = "ended" /\ ~e.on
    BY <1>4, <1>5, AuthFailedOK
  <2>2. Become(t, e)
    BY <1>7
  <2> HIDE DEF e
  <2>3. ~Counted(e)
    BY <1>5, <1>7, <2>1 DEF Counted, SubOK
  <2> QED
    BY <1>1, <1>2, <1>3, <1>5, <2>1, <2>2, <2>3, SubscriberMoves
<1>8. CASE Become(t, [r EXCEPT !.pc = "stream", !.orgId = TRUE, !.healthy = FALSE])
  <2> DEFINE e == [r EXCEPT !.pc = "stream", !.orgId = TRUE, !.healthy = FALSE]
  <2>1. /\ e \in SubState /\ e.pc = "stream" /\ e.orgId /\ ~e.healthy /\ e.on = r.on
        /\ e.fails = r.fails
    BY <1>4 DEF SubState
  <2>2. Become(t, e)
    BY <1>8
  <2> HIDE DEF e
  <2>3. SubOK(e) /\ ~Counted(e) /\ ~e.on
    BY <1>4, <1>5, <2>1 DEF Counted, SubOK
  <2> QED
    BY <1>1, <1>2, <1>3, <1>5, <2>1, <2>2, <2>3, SubscriberMoves
<1> QED
  BY <1>6, <1>7, <1>8

(* The server rejects the session.                                         *)
LEMMA RejectedMoves ==
  ASSUME SvcInv, NEW t \in Topics, Rejected(t)
  PROVE  SvcInv'
<1>1. sub[t] \in SubState /\ SubOK(sub[t]) /\ sub[t].pc = "stream"
  BY DEF SvcInv, TypeOK, Rejected
<1>2. UNCHANGED <<active, ready, cancelled, firstErr, phase, token, faults>>
  BY DEF Rejected
<1>3. ready' \in BOOLEAN /\ cancelled' \in BOOLEAN /\ firstErr' \in BOOLEAN /\ faults' \in Nat
  BY <1>2 DEF SvcInv, TypeOK
<1> DEFINE r == IF sub[t].healthy THEN [sub[t] EXCEPT !.fails = 0] ELSE sub[t]
<1>4. /\ r \in SubState /\ r.pc = "stream" /\ r.healthy = sub[t].healthy
      /\ r.orgId = sub[t].orgId /\ r.on = sub[t].on /\ r.fatal = sub[t].fatal
      /\ r.fails \in {0, sub[t].fails}
  BY <1>1, ServiceAssumption DEF SubState
<1>5. \/ Become(t, [AuthFailed(r) EXCEPT !.pc = "ended"])
      \/ Become(t, [r EXCEPT !.pc = "ended"])
  BY DEF Rejected
<1> HIDE DEF r
<1>6. SubOK(r) /\ r.fails # MaxAuthFailures /\ ~r.on
  BY <1>1, <1>4, ServiceAssumption DEF SubOK, SubState
<1>7. PICK e : /\ e \in SubState /\ SubOK(e) /\ Become(t, e)
               /\ e.healthy = r.healthy /\ e.pc = "ended" /\ ~e.on
  <2>1. CASE Become(t, [AuthFailed(r) EXCEPT !.pc = "ended"])
    BY <1>4, <1>6, <2>1, AuthFailedOK
  <2>2. CASE Become(t, [r EXCEPT !.pc = "ended"])
    <3> DEFINE e == [r EXCEPT !.pc = "ended"]
    <3>1. /\ e \in SubState /\ e.pc = "ended" /\ e.healthy = r.healthy /\ e.on = r.on
          /\ e.orgId = r.orgId /\ e.fails = r.fails
      BY <1>4 DEF SubState
    <3>2. Become(t, e)
      BY <2>2
    <3> HIDE DEF e
    <3>3. SubOK(e)
      BY <1>6, <3>1 DEF SubOK
    <3> QED
      BY <1>6, <3>1, <3>2, <3>3
  <2> QED
    BY <1>5, <2>1, <2>2
<1>8. Counted(e) <=> Counted(sub[t])
  BY <1>1, <1>4, <1>7 DEF Counted
<1> QED
  BY <1>1, <1>2, <1>3, <1>7, <1>8, SubscriberMoves

(* The session ends, with a shutdown or an error.                          *)
LEMMA SessionEndMoves ==
  ASSUME SvcInv, NEW t \in Topics, SessionStops(t) \/ SessionBreaks(t)
  PROVE  SvcInv'
<1>1. sub[t] \in SubState /\ SubOK(sub[t]) /\ sub[t].pc = "stream"
  BY DEF SvcInv, TypeOK, SessionStops, SessionBreaks
<1>2. UNCHANGED <<active, ready, cancelled, firstErr, phase, token>>
  BY DEF SessionStops, SessionBreaks
<1>3. ready' \in BOOLEAN /\ cancelled' \in BOOLEAN /\ firstErr' \in BOOLEAN /\ faults' \in Nat
  <2>1. CASE SessionStops(t)
    BY <2>1 DEF SvcInv, TypeOK, SessionStops
  <2>2. CASE SessionBreaks(t)
    <3>1. faults > 0 /\ faults' = faults - 1
      BY <2>2 DEF SessionBreaks, Fault
    <3> QED
      BY <3>1, <1>2 DEF SvcInv, TypeOK
  <2> QED
    BY <2>1, <2>2
<1>4. PICK s : /\ Become(t, s)
               /\ \/ s = [sub[t] EXCEPT !.pc = "ended"]
                  \/ \E fatal \in BOOLEAN : s = [sub[t] EXCEPT !.pc = "ended", !.fatal = fatal]
  BY DEF SessionStops, SessionBreaks
<1>5. /\ s \in SubState /\ s.pc = "ended" /\ s.healthy = sub[t].healthy /\ s.on = sub[t].on
      /\ s.orgId = sub[t].orgId /\ s.fails = sub[t].fails
  BY <1>1, <1>4 DEF SubState
<1>6. SubOK(s) /\ ~s.on
  BY <1>1, <1>5 DEF SubOK
<1>7. Counted(s) <=> Counted(sub[t])
  BY <1>1, <1>5 DEF Counted
<1> QED
  BY <1>1, <1>2, <1>3, <1>4, <1>5, <1>6, <1>7, SubscriberMoves

(* OnActive(false), if there was an OnActive(true).                        *)
LEMMA InactiveMoves ==
  ASSUME SvcInv, NEW t \in Topics, Inactive(t)
  PROVE  SvcInv'
<1>1. sub[t] \in SubState /\ SubOK(sub[t]) /\ sub[t].pc = "ended"
  BY DEF SvcInv, TypeOK, Inactive
<1>2. UNCHANGED <<ready, cancelled, firstErr, phase, token, faults>>
  BY DEF Inactive
<1>3. ready' \in BOOLEAN /\ cancelled' \in BOOLEAN /\ firstErr' \in BOOLEAN /\ faults' \in Nat
  BY <1>2 DEF SvcInv, TypeOK
<1>4. PICK p \in {"unready", "after"} :
         /\ Become(t, [sub[t] EXCEPT !.pc = p])
         /\ IF sub[t].healthy THEN active' = active - 1 ELSE active' = active
  BY DEF Inactive
<1> DEFINE s == [sub[t] EXCEPT !.pc = p]
<1>5. /\ s \in SubState /\ s.pc = p /\ s.healthy = sub[t].healthy /\ s.on = sub[t].on
      /\ s.orgId = sub[t].orgId /\ s.fails = sub[t].fails /\ s.fatal = sub[t].fatal
  BY <1>1 DEF SubState
<1>6. Become(t, s)
  BY <1>4
<1> HIDE DEF s
<1>7. SubOK(s) /\ ~s.on
  BY <1>1, <1>5 DEF SubOK
<1>8. \/ (Counted(s) <=> Counted(sub[t])) /\ active' = active
      \/ ~Counted(s) /\ Counted(sub[t]) /\ active' = active - 1
  BY <1>1, <1>4, <1>5 DEF Counted
<1> QED
  BY <1>1, <1>2, <1>3, <1>5, <1>6, <1>7, <1>8, SubscriberMoves

(* SetReady with what the callback found.                                  *)
LEMMA StoreReadyMoves ==
  ASSUME SvcInv, NEW t \in Topics, StoreReady(t)
  PROVE  SvcInv'
<1>1. sub[t] \in SubState /\ SubOK(sub[t]) /\ sub[t].pc = "ready"
  BY DEF SvcInv, TypeOK, StoreReady
<1>2. UNCHANGED <<active, cancelled, firstErr, phase, token, faults>> /\ ready' = sub[t].on
  BY DEF StoreReady
<1>3. ready' \in BOOLEAN /\ cancelled' \in BOOLEAN /\ firstErr' \in BOOLEAN /\ faults' \in Nat
  BY <1>1, <1>2 DEF SvcInv, TypeOK, SubState
<1> DEFINE s == [sub[t] EXCEPT !.pc = "stream", !.on = FALSE]
<1>4. /\ s \in SubState /\ s.pc = "stream" /\ s.healthy = sub[t].healthy /\ ~s.on
      /\ s.orgId = sub[t].orgId /\ s.fails = sub[t].fails
  BY <1>1 DEF SubState
<1>5. Become(t, s)
  BY DEF StoreReady
<1> HIDE DEF s
<1>6. SubOK(s)
  BY <1>1, <1>4 DEF SubOK
<1>7. Counted(s) <=> Counted(sub[t])
  BY <1>1, <1>4 DEF Counted
<1> QED
  BY <1>1, <1>2, <1>3, <1>4, <1>5, <1>6, <1>7, SubscriberMoves

(* SetReady(false), the loop of Run, and its error, once the session is    *)
(* counted as inactive.                                                    *)
LEMMA AfterMoves ==
  ASSUME SvcInv, NEW t \in Topics, StoreUnready(t) \/ AfterSession(t) \/ Report(t)
  PROVE  SvcInv'
<1>1. sub[t] \in SubState /\ SubOK(sub[t]) /\ sub[t].pc \in {"unready", "after", "report"}
  BY DEF SvcInv, TypeOK, StoreUnready, AfterSession, Report
<1>2. UNCHANGED <<active, phase, token, faults>> /\ faults' \in Nat
  BY DEF SvcInv, TypeOK, StoreUnready, AfterSession, Report
<1>3. ready' \in BOOLEAN /\ cancelled' \in BOOLEAN /\ firstErr' \in BOOLEAN
  BY DEF SvcInv, TypeOK, StoreUnready, AfterSession, Report
<1>4. (ready' => ready) /\ (firstErr => firstErr')
  <2>1. CASE StoreUnready(t)
    BY <2>1 DEF StoreUnready
  <2>2. CASE AfterSession(t)
    BY <2>2 DEF AfterSession
  <2>3. CASE Report(t)
    BY <2>3 DEF Report
  <2> QED
    BY <2>1, <2>2, <2>3
<1>5. PICK p \in {"after", "report", "stopped", "connect"} :
         /\ Become(t, [sub[t] EXCEPT !.pc = p])
         /\ p = "connect" => ~sub[t].fatal
         /\ p = "stopped" /\ sub[t].fatal => firstErr'
  BY DEF StoreUnready, AfterSession, Report
<1> DEFINE s == [sub[t] EXCEPT !.pc = p]
<1>6. /\ s \in SubState /\ s.pc = p /\ s.healthy = sub[t].healthy /\ s.on = sub[t].on
      /\ s.orgId = sub[t].orgId /\ s.fails = sub[t].fails /\ s.fatal = sub[t].fatal
  BY <1>1 DEF SubState
<1>7. Become(t, s)
  BY <1>5
<1> HIDE DEF s
<1>8. SubOK(s) /\ ~s.on
  BY <1>1, <1>5, <1>6 DEF SubOK
<1>9. ~Counted(s) /\ ~Counted(sub[t])
  BY <1>1, <1>6 DEF Counted
<1> QED
  BY <1>1, <1>2, <1>3, <1>4, <1>5, <1>6, <1>7, <1>8, <1>9, SubscriberMoves

(* OnActive(true): the topic is counted, and only the last one of all      *)
(* finds the collector ready.                                              *)
LEMMA FirstDataMoves ==
  ASSUME SvcInv, NEW t \in Topics, FirstData(t)
  PROVE  SvcInv'
<1>1. sub[t] \in SubState /\ SubOK(sub[t]) /\ sub[t].pc = "stream" /\ ~sub[t].healthy
  BY DEF SvcInv, TypeOK, FirstData
<1>2. UNCHANGED <<ready, cancelled, firstErr, phase, token, faults>> /\ active' = active + 1
  BY DEF FirstData
<1> DEFINE b == (active + 1 = Cardinality(Topics))
           s == [sub[t] EXCEPT !.pc = "ready", !.healthy = TRUE, !.fails = 0, !.on = b]
<1>3. Become(t, s)
  BY DEF FirstData
<1>5. b \in BOOLEAN /\ (b <=> active' = Cardinality(Topics))
  BY <1>2
<1> HIDE DEF b
<1>4. /\ s \in SubState /\ s.pc = "ready" /\ s.healthy /\ s.on = b
      /\ s.orgId = sub[t].orgId /\ s.fails = 0
  <2>1. 0 \in 0..MaxAuthFailures
    BY ServiceAssumption
  <2>2. s \in SubState
    BY <1>1, <1>5, <2>1 DEF SubState
  <2>3. s.healthy = TRUE /\ s.on = b
    BY <1>1 DEF SubState
  <2>4. s.pc = "ready" /\ s.orgId = sub[t].orgId /\ s.fails = 0
    BY <1>1 DEF SubState
  <2> QED
    BY <2>2, <2>3, <2>4
<1> HIDE DEF s
<1>6. Counted(s) /\ ~Counted(sub[t])
  BY <1>1, <1>4 DEF Counted
<1>7. active' = Cardinality(Active') /\ active' \in 0..Cardinality(Topics)
  BY <1>2, <1>3, <1>4, <1>6, CounterMoves
<1>8. /\ sub' \in [Topics -> SubState] /\ sub'[t] = s
      /\ \A u \in Topics : u # t => sub'[u] = sub[u]
  BY <1>3, <1>4, OneMoves DEF SvcInv
<1>9. TypeOK'
  BY <1>2, <1>7, <1>8 DEF SvcInv, TypeOK
<1>10. ASSUME NEW u \in Topics PROVE SubOK(sub[u])'
  <2>1. SubOK(s)
    BY <1>1, <1>4, ServiceAssumption DEF SubOK
  <2>2. SubOK(sub'[u])
    BY <1>8, <2>1 DEF SvcInv
  <2> QED
    BY <2>2 DEF SubOK
<1>11. PhaseOK'
  <2>1. ~Returned /\ phase # "clean"
    BY <1>1 DEF SvcInv, PhaseOK, AllStopped, Returned
  <2>2. ASSUME phase \in {"launch", "giveup"}
        PROVE  /\ ~ready' /\ \A u \in Topics : ~sub'[u].on
               /\ \E u \in Topics : sub'[u].pc = "new"
    <3>1. PICK u \in Topics : sub[u].pc = "new"
      BY <2>2 DEF SvcInv, PhaseOK
    <3>2. sub'[u].pc = "new"
      BY <1>1, <1>8, <3>1
    <3>3. Active' \subseteq Topics /\ u \notin Active'
      BY <3>2 DEF Active, Counted
    <3>4. Cardinality(Active') # Cardinality(Topics)
      BY <3>3, FS_Subset, ServiceAssumption
    <3>5. ~s.on
      BY <1>4, <1>5, <1>7, <3>4
    <3> QED
      BY <1>2, <1>8, <2>2, <3>2, <3>5 DEF SvcInv, PhaseOK
  <2>3. phase = "wait" => \A u \in Topics : sub'[u].pc # "new"
    BY <1>4, <1>8 DEF SvcInv, PhaseOK
  <2> QED
    BY <1>2, <2>1, <2>2, <2>3 DEF PhaseOK, Returned
<1>12. ErrorsOK'
  BY <1>2, <1>4, <1>8 DEF SvcInv, ErrorsOK
<1> QED
  BY <1>7, <1>9, <1>10, <1>11, <1>12 DEF SvcInv

(* A goroutine is started; with the last one RunService begins to wait.    *)
LEMMA LaunchMoves ==
  ASSUME SvcInv, NEW t \in Topics, Launch(t)
  PROVE  SvcInv'
<1>1. phase = "launch" /\ sub[t].pc = "new" /\ sub[t] \in SubState
  BY DEF SvcInv, TypeOK, Launch
<1>2. UNCHANGED <<active, ready, cancelled, firstErr, token, faults>>
  BY DEF Launch
<1> DEFINE s == [NewSub EXCEPT !.pc = "acquire"]
<1>3. Become(t, s)
  BY DEF Launch
<1>0. /\ s.pc = "acquire" /\ s.orgId = FALSE /\ s.healthy = FALSE /\ s.fails = 0
      /\ s.on = FALSE /\ s.fatal = FALSE
  BY DEF NewSub
<1>4. s \in SubState /\ SubOK(s) /\ s.pc = "acquire" /\ ~s.on /\ ~Counted(s)
  <2>1. NewSub \in SubState /\ 0 # MaxAuthFailures
    BY ServiceAssumption DEF NewSub, SubState
  <2>2. s \in SubState
    BY <2>1 DEF SubState
  <2> HIDE DEF s
  <2>3. SubOK(s) /\ s.pc = "acquire" /\ ~s.on /\ ~Counted(s)
    BY <1>0, <2>1 DEF SubOK, Counted
  <2> QED
    BY <2>2, <2>3
<1>5. ~Counted(sub[t])
  BY <1>1 DEF Counted
<1> HIDE DEF s
<1>6. active' = Cardinality(Active') /\ active' \in 0..Cardinality(Topics)
  BY <1>2, <1>3, <1>4, <1>5, CounterMoves
<1>7. /\ sub' \in [Topics -> SubState] /\ sub'[t] = s
      /\ \A u \in Topics : u # t => sub'[u] = sub[u]
  BY <1>3, <1>4, OneMoves DEF SvcInv
<1>8. TypeOK'
  BY <1>2, <1>6, <1>7 DEF SvcInv, TypeOK, Launch
<1>9. ASSUME NEW u \in Topics PROVE SubOK(sub[u])'
  <2>1. SubOK(sub'[u])
    BY <1>4, <1>7 DEF SvcInv
  <2> QED
    BY <2>1 DEF SubOK
<1>10. PhaseOK'
  <2>1. ~ready' /\ \A u \in Topics : ~sub'[u].on
    BY <1>1, <1>2, <1>4, <1>7 DEF SvcInv, PhaseOK
  <2>2. CASE \A u \in Topics \ {t} : sub[u].pc # "new"
    <3>1. phase' = "wait" /\ \A u \in Topics : sub'[u].pc # "new"
      BY <2>2, <1>4, <1>7 DEF Launch
    <3> QED
      BY <3>1 DEF PhaseOK, Returned
  <2>3. CASE \E u \in Topics \ {t} : sub[u].pc = "new"
    <3>1. phase' = "launch" /\ \E u \in Topics : sub'[u].pc = "new"
      BY <2>3, <1>7 DEF Launch
    <3> QED
      BY <2>1, <3>1 DEF PhaseOK, Returned
  <2> QED
    BY <2>2, <2>3
<1>11. ErrorsOK'
  BY <1>2, <1>4, <1>7 DEF SvcInv, ErrorsOK
<1> QED
  BY <1>6, <1>8, <1>9, <1>10, <1>11 DEF SvcInv

(* Steps of RunService and of the world around it.                         *)
LEMMA ServiceMoves ==
  ASSUME SvcInv, LaunchFails \/ Return \/ Terminate \/ CredentialsChange
  PROVE  SvcInv'
<1>1. UNCHANGED <<sub, active, firstErr>>
  BY DEF LaunchFails, Return, Terminate, CredentialsChange
<1>2. TypeOK'
  <2>1. CASE LaunchFails
    BY <2>1 DEF SvcInv, TypeOK, LaunchFails, Fault
  <2>2. CASE Return
    BY <2>2 DEF SvcInv, TypeOK, Return
  <2>3. CASE Terminate
    BY <2>3 DEF SvcInv, TypeOK, Terminate, Fault
  <2>4. CASE CredentialsChange
    BY <2>4 DEF SvcInv, TypeOK, CredentialsChange, Fault
  <2> QED
    BY <2>1, <2>2, <2>3, <2>4
<1>3. active' = Cardinality(Active') /\ (\A t \in Topics : SubOK(sub[t])') /\ ErrorsOK'
  BY <1>1 DEF SvcInv, Active, Counted, SubOK, ErrorsOK
<1>4. PhaseOK'
  <2>1. CASE LaunchFails
    BY <2>1, <1>1 DEF SvcInv, PhaseOK, LaunchFails, Returned
  <2>2. CASE Return
    <3>1. /\ phase \in {"wait", "giveup"} /\ AllStopped /\ phase' \in {"clean", "error"}
          /\ phase' = "clean" => ~firstErr /\ phase = "wait"
          /\ ready' = (IF phase = "wait" THEN FALSE ELSE ready)
      BY <2>2 DEF Return
    <3>2. ~ready'
      BY <3>1 DEF SvcInv, PhaseOK
    <3>3. AllStopped'
      BY <1>1, <3>1 DEF AllStopped
    <3>4. phase' = "clean" => \A t \in Topics : sub'[t].pc = "stopped" /\ ~sub'[t].fatal
      BY <1>1, <3>1 DEF SvcInv, PhaseOK, ErrorsOK, AllStopped
    <3> QED
      BY <3>1, <3>2, <3>3, <3>4 DEF PhaseOK, Returned
  <2>3. CASE Terminate \/ CredentialsChange
    <3>1. UNCHANGED <<phase, ready>>
      BY <2>3 DEF Terminate, CredentialsChange
    <3> QED
      BY <1>1, <3>1 DEF SvcInv, PhaseOK, Returned, AllStopped
  <2> QED
    BY <2>1, <2>2, <2>3
<1> QED
  BY <1>2, <1>3, <1>4 DEF SvcInv

(* Every step of the service.                                              *)
LEMMA ServiceKept == SvcInv /\ [Next]_vars => SvcInv'
<1> SUFFICES ASSUME SvcInv, [Next]_vars PROVE SvcInv'
  OBVIOUS
<1>1. CASE LaunchFails \/ Return \/ Terminate \/ CredentialsChange
  BY <1>1, ServiceMoves
<1>2. ASSUME NEW t \in Topics, Step(t) PROVE SvcInv'
  BY <1>2, LaunchMoves, AcquireMoves, ConnectMoves, FirstDataMoves, StoreReadyMoves,
     RejectedMoves, SessionEndMoves, InactiveMoves, AfterMoves DEF Step
<1>3. ASSUME NEW t \in Topics, SessionBreaks(t) PROVE SvcInv'
  BY <1>3, SessionEndMoves
<1>4. CASE UNCHANGED vars
  <2>1. UNCHANGED <<sub, active, ready, cancelled, firstErr, phase, token, faults>>
    BY <1>4 DEF vars
  <2>2. TypeOK' /\ PhaseOK' /\ ErrorsOK'
    BY <2>1 DEF SvcInv, TypeOK, PhaseOK, ErrorsOK, Returned, AllStopped
  <2>3. active' = Cardinality(Active') /\ \A t \in Topics : SubOK(sub[t])'
    BY <2>1 DEF SvcInv, Active, Counted, SubOK
  <2> QED
    BY <2>2, <2>3 DEF SvcInv
<1> QED
  BY <1>1, <1>2, <1>3, <1>4 DEF Next

(* The counter behind /readyz never leaves its range, and RunService       *)
(* returns only when it is 0 and the process is not ready; it returns nil  *)
(* only if every topic was started and none failed (RunService, OnActive). *)
THEOREM ServiceReturnsTruth == Spec => []ServiceSafe
<1>1. SvcInv => ServiceSafe
  <2> SUFFICES ASSUME SvcInv PROVE ServiceSafe
    OBVIOUS
  <2>1. ASSUME Returned PROVE active = 0
    <3>1. Active = {}
      BY <2>1 DEF SvcInv, PhaseOK, AllStopped, Active, Counted
    <3> QED
      BY <3>1, FS_EmptySet DEF SvcInv
  <2> QED
    BY <2>1 DEF SvcInv, PhaseOK, ServiceSafe, TruthfulExit
<1> QED
  BY <1>1, ServiceStarts, ServiceKept, PTL DEF Spec

-----------------------------------------------------------------------------
(* The shutdown of one subscriber.                                         *)

(* Where the session is: what is decoded, and where a flush goes back to.  *)
SessionOK ==
    /\ pc \in {"select", "events"} => buffer < MaxEvents
    /\ pc = "select" => rest = 0
    /\ pc = "flush" /\ back # "events" => rest = 0
    /\ pc = "flush" /\ back = "events" => rest < ResponseSize
    /\ pc = "flush" => ResponseSize > 0
    /\ buffer > 0 => ResponseSize > 0
    /\ ~stopping => elapsed = 0
    /\ pc = "flush" /\ back = "done" => stopping

(* The timer of a flush and the time it has had make up the timeout.       *)
TimerOK ==
    /\ pc # "flush" => timer = Off
    /\ pc = "flush" /\ ~stopping => timer = Off /\ age = 0
    /\ pc = "flush" /\ stopping => timer \in 0..FlushTimeout /\ timer + age = FlushTimeout
    /\ exit = "aborted" => age = FlushTimeout /\ pc = "done"

(* As long as renewals work, the next one comes before the lease ends.     *)
LeaseOK ==
    /\ IF pc = "done" THEN renewIn = Off ELSE exit = "running"
    /\ fails = 0 => exit # "leaseLost" /\ ~renewErr
    /\ fails = 0 /\ pc # "done" =>
          renewIn \in 0..Interval /\ lease >= renewIn + (LeaseTTL - Interval)

(* Flushes that are still to begin.                                        *)
ToCome ==
    IF pc = "done" THEN 0
    ELSE IF pc = "events" THEN ObjectsOf(buffer + rest) + ObjectsOf(inHand)
    ELSE IF pc = "select" THEN ObjectsOf(buffer) + ObjectsOf(inHand)
    ELSE IF back = "done" THEN 0
    ELSE ObjectsOf(rest) + ObjectsOf(inHand)

MostFlushes == ObjectsOf(MaxEvents - 1 + ResponseSize) + ObjectsOf(ResponseSize)

(* The time since the signal, and what a running flush may add to it.      *)
Spent == elapsed + (IF pc = "flush" THEN timer ELSE 0)

(* It is the time of the flushes that have begun.                          *)
TimeOK ==
    stopping => \E n \in Nat : n + ToCome <= MostFlushes /\ Spent <= FlushTimeout * n

StopInv == StopTypeOK /\ SessionOK /\ TimerOK /\ LeaseOK /\ TimeOK

(* What ObjectsOf computes.                                                *)
LEMMA Objects ==
  ASSUME NEW n \in Nat
  PROVE  /\ ObjectsOf(n) \in Nat
         /\ ObjectsOf(n + MaxEvents) = ObjectsOf(n) + 1
         /\ n = 0 => ObjectsOf(n) = 0
         /\ n > 0 => ObjectsOf(n) >= 1
<1> USE ShutdownAssumption
<1> DEFINE a == n + MaxEvents - 1
<1>1. /\ a \in Nat /\ a = MaxEvents * (a \div MaxEvents) + (a % MaxEvents)
      /\ a % MaxEvents \in 0..(MaxEvents - 1) /\ a \div MaxEvents \in Int
  OBVIOUS
<1>2. (a + MaxEvents) \div MaxEvents = (a \div MaxEvents) + 1
  BY <1>1, Z3
<1>3. a \div MaxEvents >= 0
  BY <1>1
<1>4. n = 0 => a \div MaxEvents = 0
  BY <1>1, <1>3
<1>5. n > 0 => a \div MaxEvents >= 1
  BY <1>1, <1>3
<1>6. n + MaxEvents + MaxEvents - 1 = a + MaxEvents
  OBVIOUS
<1> QED
  BY <1>1, <1>2, <1>3, <1>4, <1>5, <1>6 DEF ObjectsOf

(* More events fill no fewer objects.                                      *)
LEMMA ObjectsGrow ==
  ASSUME NEW m \in Nat, NEW n \in Nat, m <= n
  PROVE  ObjectsOf(m) <= ObjectsOf(n)
<1> USE ShutdownAssumption
<1> DEFINE a == m + MaxEvents - 1
           b == n + MaxEvents - 1
           q == a \div MaxEvents
           p == b \div MaxEvents
<1>1. a = MaxEvents * q + (a % MaxEvents) /\ a % MaxEvents \in 0..(MaxEvents - 1) /\ q \in Int
  OBVIOUS
<1>2. b = MaxEvents * p + (b % MaxEvents) /\ b % MaxEvents \in 0..(MaxEvents - 1) /\ p \in Int
  OBVIOUS
<1>3. a <= b /\ a \in Int /\ b \in Int
  OBVIOUS
<1> HIDE DEF a, b, q, p
<1>4. ASSUME p + 1 <= q PROVE FALSE
  <2>1. MaxEvents * (p + 1) <= MaxEvents * q
    BY <1>1, <1>2, <1>4
  <2>2. MaxEvents * (p + 1) = MaxEvents * p + MaxEvents
    BY <1>2
  <2> QED
    BY <1>1, <1>2, <1>3, <2>1, <2>2
<1>5. q <= p
  BY <1>1, <1>2, <1>4
<1> QED
  BY <1>5 DEF ObjectsOf, a, b, q, p

(* Events fill no more objects in one buffer than in two.                  *)
LEMMA ObjectsAdd ==
  ASSUME NEW m \in Nat, NEW n \in Nat, m < MaxEvents
  PROVE  ObjectsOf(m + n) <= ObjectsOf(m) + ObjectsOf(n)
<1> USE ShutdownAssumption
<1>1. CASE m = 0
  BY <1>1, Objects
<1>2. CASE m > 0
  <2>1. ObjectsOf(m + n) <= ObjectsOf(n + MaxEvents)
    BY ObjectsGrow
  <2>2. ObjectsOf(n + MaxEvents) = ObjectsOf(n) + 1 /\ ObjectsOf(m) >= 1
    BY <1>2, Objects
  <2>3. ObjectsOf(m + n) \in Nat /\ ObjectsOf(m) \in Nat /\ ObjectsOf(n) \in Nat
    BY Objects
  <2> QED
    BY <2>1, <2>2, <2>3
<1> QED
  BY <1>1, <1>2

(* The renewal interval.                                                   *)
LEMMA IntervalFits == Interval \in Nat /\ LeaseTTL - Interval >= 1
BY ShutdownAssumption DEF Interval

(* Nothing is running.                                                     *)
LEMMA StopStarts == StopInit => StopInv
<1> SUFFICES ASSUME StopInit PROVE StopInv
  OBVIOUS
<1> USE ShutdownAssumption, IntervalFits DEF StopInit
<1>1. StopTypeOK
  <2>1. stopping \in BOOLEAN /\ pinned \in BOOLEAN /\ renewErr \in BOOLEAN
    OBVIOUS
  <2>2. /\ elapsed \in 0..MaxElapsed /\ inHand \in 0..ResponseSize /\ rest \in 0..ResponseSize
        /\ buffer \in 0..MaxEvents /\ age \in 0..FlushTimeout /\ lease \in 0..LeaseTTL
        /\ renewIn \in 0..Interval /\ sinceOK \in 0..(2 * LeaseTTL) /\ fails \in 0..MaxRenewFails
    OBVIOUS
  <2> QED
    BY <2>1, <2>2 DEF StopTypeOK
<1>2. SessionOK
  BY DEF SessionOK
<1>3. TimerOK
  BY DEF TimerOK
<1>4. LeaseOK
  BY DEF LeaseOK
<1> QED
  BY <1>1, <1>2, <1>3, <1>4 DEF StopInv, TimeOK

(* Sums, as the next lemma needs them.                                     *)
LEMMA AddLess ==
  \A n, u, v \in Nat : \A m \in Int :
     n + u <= m => (v <= u => n + v <= m) /\ (v + 1 <= u => (n + 1) + v <= m)
OBVIOUS

(* What every step does to the time of the shutdown: it stays the time of   *)
(* the flushes begun, of which there is one more when a flush begins.       *)
LEMMA TimeMoves ==
  ASSUME TimeOK, stopping,
         NEW u \in Nat, u = ToCome, NEW v \in Nat, v = ToCome',
         NEW x \in Int, x = Spent, NEW y \in Int, y = Spent',
         \/ y <= x /\ v <= u
         \/ y <= x + FlushTimeout /\ v + 1 <= u
  PROVE  TimeOK'
<1>1. PICK most \in Int : most = MostFlushes
  BY Objects, ShutdownAssumption DEF MostFlushes
<1>2. PICK n \in Nat : n + u <= most /\ x <= FlushTimeout * n
  BY <1>1 DEF TimeOK
<1>3. ASSUME NEW k \in Nat, k + v <= most, y <= FlushTimeout * k PROVE TimeOK'
  BY <1>1, <1>3 DEF TimeOK, MostFlushes, ObjectsOf
<1> USE ShutdownAssumption
<1>4. CASE y <= x /\ v <= u
  <2>1. n + v <= most
    BY <1>2, <1>4, AddLess
  <2>2. y <= FlushTimeout * n
    BY <1>2, <1>4
  <2> QED
    BY <1>3, <2>1, <2>2
<1>5. CASE y <= x + FlushTimeout /\ v + 1 <= u
  <2>1. (n + 1) + v <= most
    BY <1>2, <1>5, AddLess
  <2>2. FlushTimeout * (n + 1) = FlushTimeout * n + FlushTimeout /\ n + 1 \in Nat
    OBVIOUS
  <2>3. y <= FlushTimeout * (n + 1)
    BY <1>2, <1>5, <2>2
  <2> QED
    BY <1>3, <2>1, <2>2, <2>3
<1> QED
  BY <1>4, <1>5

(* The signal.                                                             *)
LEMMA SignalParts ==
  ASSUME StopInv, Signal
  PROVE  StopTypeOK' /\ SessionOK' /\ TimerOK' /\ LeaseOK'
<1> USE ShutdownAssumption, IntervalFits DEF StopInv, Signal, renewVars
<1>1. StopTypeOK'
  BY DEF StopTypeOK, Off, SessionOK
<1>2. SessionOK'
  BY DEF StopTypeOK, SessionOK
<1>3. TimerOK'
  BY DEF StopTypeOK, TimerOK, Off
<1>4. LeaseOK'
  BY DEF StopTypeOK, LeaseOK, Off
<1> QED
  BY <1>1, <1>2, <1>3, <1>4

(* A response arrives.                                                     *)
LEMMA ReceiveParts ==
  ASSUME StopInv, Receive
  PROVE  StopTypeOK' /\ SessionOK' /\ TimerOK' /\ LeaseOK'
<1> USE ShutdownAssumption, IntervalFits DEF StopInv, Receive, renewVars
<1>1. StopTypeOK'
  BY DEF StopTypeOK, Off, SessionOK
<1>2. SessionOK'
  BY DEF StopTypeOK, SessionOK
<1>3. TimerOK'
  BY DEF StopTypeOK, TimerOK, Off
<1>4. LeaseOK'
  BY DEF StopTypeOK, LeaseOK, Off
<1> QED
  BY <1>1, <1>2, <1>3, <1>4

(* select sees the shutdown: the last flush, or the end.                   *)
LEMMA SelectDoneParts ==
  ASSUME StopInv, SelectDone
  PROVE  StopTypeOK' /\ SessionOK' /\ TimerOK' /\ LeaseOK'
<1> USE ShutdownAssumption, IntervalFits DEF StopInv, SelectDone, EndSession, FlushContext, Finish, renewVars
<1>1. StopTypeOK'
  BY DEF StopTypeOK, Off, SessionOK
<1>2. SessionOK'
  BY DEF StopTypeOK, SessionOK
<1>3. TimerOK'
  BY DEF StopTypeOK, TimerOK, Off
<1>4. LeaseOK'
  BY DEF StopTypeOK, LeaseOK, Off
<1> QED
  BY <1>1, <1>2, <1>3, <1>4

(* select sees that the lease is lost.                                     *)
LEMMA SelectRenewErrParts ==
  ASSUME StopInv, SelectRenewErr
  PROVE  StopTypeOK' /\ SessionOK' /\ TimerOK' /\ LeaseOK'
<1> USE ShutdownAssumption, IntervalFits DEF StopInv, SelectRenewErr, Finish, renewVars
<1>1. StopTypeOK'
  BY DEF StopTypeOK, Off, SessionOK
<1>2. SessionOK'
  BY DEF StopTypeOK, SessionOK
<1>3. TimerOK'
  BY DEF StopTypeOK, TimerOK, Off
<1>4. LeaseOK'
  BY DEF StopTypeOK, LeaseOK, Off
<1> QED
  BY <1>1, <1>2, <1>3, <1>4

(* select sees the flush timer.                                            *)
LEMMA SelectFlushTimerParts ==
  ASSUME StopInv, SelectFlushTimer
  PROVE  StopTypeOK' /\ SessionOK' /\ TimerOK' /\ LeaseOK'
<1> USE ShutdownAssumption, IntervalFits DEF StopInv, SelectFlushTimer, FlushContext, renewVars
<1>1. StopTypeOK'
  BY DEF StopTypeOK, Off, SessionOK
<1>2. SessionOK'
  BY DEF StopTypeOK, SessionOK
<1>3. TimerOK'
  BY DEF StopTypeOK, TimerOK, Off
<1>4. LeaseOK'
  BY DEF StopTypeOK, LeaseOK, Off
<1> QED
  BY <1>1, <1>2, <1>3, <1>4

(* select takes the response in hand.                                      *)
LEMMA SelectResponseParts ==
  ASSUME StopInv, SelectResponse
  PROVE  StopTypeOK' /\ SessionOK' /\ TimerOK' /\ LeaseOK'
<1> USE ShutdownAssumption, IntervalFits DEF StopInv, SelectResponse, renewVars
<1>1. StopTypeOK'
  BY DEF StopTypeOK, Off, SessionOK
<1>2. SessionOK'
  BY DEF StopTypeOK, SessionOK
<1>3. TimerOK'
  BY DEF StopTypeOK, TimerOK, Off
<1>4. LeaseOK'
  BY DEF StopTypeOK, LeaseOK, Off
<1> QED
  BY <1>1, <1>2, <1>3, <1>4

(* An event is decoded, or the response is at its end.                     *)
LEMMA DecodeParts ==
  ASSUME StopInv, Decode
  PROVE  StopTypeOK' /\ SessionOK' /\ TimerOK' /\ LeaseOK'
<1> USE ShutdownAssumption, IntervalFits DEF StopInv, Decode, FlushContext, renewVars
<1>1. StopTypeOK'
  BY DEF StopTypeOK, Off, SessionOK
<1>2. SessionOK'
  BY DEF StopTypeOK, SessionOK
<1>3. TimerOK'
  BY DEF StopTypeOK, TimerOK, Off
<1>4. LeaseOK'
  BY DEF StopTypeOK, LeaseOK, Off
<1> QED
  BY <1>1, <1>2, <1>3, <1>4

(* Upload and commit have worked, unless the lease is gone.                *)
LEMMA FlushDoneParts ==
  ASSUME StopInv, FlushDone
  PROVE  StopTypeOK' /\ SessionOK' /\ TimerOK' /\ LeaseOK'
<1> USE ShutdownAssumption, IntervalFits DEF StopInv, FlushDone, Finish, renewVars
<1>1. StopTypeOK'
  <2>1. CASE lease = 0
    BY <2>1 DEF StopTypeOK
  <2>2. CASE lease # 0
    <3>1. stopping' \in BOOLEAN /\ pinned' \in BOOLEAN /\ renewErr' \in BOOLEAN
      BY <2>2 DEF StopTypeOK
    <3>2. /\ pc' \in {"select", "events", "done"} /\ renewIn' \in {Off} \union 0..Interval
          /\ exit' \in {"clean", exit}
      BY <2>2 DEF StopTypeOK
    <3>3. buffer' = 0 /\ timer' = Off /\ age' = 0 /\ lease' = LeaseTTL
      BY <2>2
    <3> QED
      BY <3>1, <3>2, <3>3 DEF StopTypeOK
  <2> QED
    BY <2>1, <2>2
<1>2. SessionOK'
  BY DEF StopTypeOK, SessionOK
<1>3. TimerOK'
  BY DEF StopTypeOK, TimerOK, Off
<1>4. LeaseOK'
  BY DEF StopTypeOK, LeaseOK, Off
<1> QED
  BY <1>1, <1>2, <1>3, <1>4

(* The write has failed for good.                                          *)
LEMMA FlushFailsParts ==
  ASSUME StopInv, FlushFails
  PROVE  StopTypeOK' /\ SessionOK' /\ TimerOK' /\ LeaseOK'
<1> USE ShutdownAssumption, IntervalFits DEF StopInv, FlushFails, Finish, renewVars
<1>1. StopTypeOK'
  BY DEF StopTypeOK, Off, SessionOK
<1>2. SessionOK'
  BY DEF StopTypeOK, SessionOK
<1>3. TimerOK'
  BY DEF StopTypeOK, TimerOK, Off
<1>4. LeaseOK'
  BY DEF StopTypeOK, LeaseOK, Off
<1> QED
  BY <1>1, <1>2, <1>3, <1>4

(* The timer ends the flush.                                               *)
LEMMA FlushAbortedParts ==
  ASSUME StopInv, FlushAborted
  PROVE  StopTypeOK' /\ SessionOK' /\ TimerOK' /\ LeaseOK'
<1> USE ShutdownAssumption, IntervalFits DEF StopInv, FlushAborted, Finish, renewVars
<1>1. StopTypeOK'
  BY DEF StopTypeOK, Off, SessionOK
<1>2. SessionOK'
  BY DEF StopTypeOK, SessionOK
<1>3. TimerOK'
  BY DEF StopTypeOK, TimerOK, Off
<1>4. LeaseOK'
  BY DEF StopTypeOK, LeaseOK, Off
<1> QED
  BY <1>1, <1>2, <1>3, <1>4

(* The lease is renewed, or not.                                           *)
LEMMA RenewParts ==
  ASSUME StopInv, Renew
  PROVE  StopTypeOK' /\ SessionOK' /\ TimerOK' /\ LeaseOK'
<1> USE ShutdownAssumption, IntervalFits DEF StopInv, Renew, sessionVars, renewVars
<1>1. StopTypeOK'
  <2>1. /\ lease' \in 0..LeaseTTL /\ renewIn' \in {Off} \union 0..Interval
        /\ sinceOK' \in 0..(2 * LeaseTTL)
    BY DEF StopTypeOK
  <2>2. fails' \in 0..MaxRenewFails
    BY DEF StopTypeOK
  <2>3. renewErr' \in BOOLEAN
    BY DEF StopTypeOK
  <2> QED
    BY <2>1, <2>2, <2>3 DEF StopTypeOK
<1>2. SessionOK'
  BY DEF StopTypeOK, SessionOK
<1>3. TimerOK'
  BY DEF StopTypeOK, TimerOK, Off
<1>4. LeaseOK'
  <2>1. fails' = 0 /\ fails = 0 /\ pc # "done" /\ lease > 0 =>
          lease' = LeaseTTL /\ renewIn' = Interval
    BY DEF StopTypeOK
  <2>2. fails' = 0 => fails = 0
    BY DEF StopTypeOK
  <2>3. fails' = 0 /\ lease > 0 => (renewErr' = renewErr)
    BY DEF StopTypeOK
  <2>4. fails = 0 /\ pc # "done" => lease > 0
    BY DEF StopTypeOK, LeaseOK
  <2>5. pc = "done" => FALSE
    BY DEF LeaseOK, Off
  <2> QED
    BY <2>1, <2>2, <2>3, <2>4, <2>5 DEF LeaseOK
<1> QED
  BY <1>1, <1>2, <1>3, <1>4

(* A tick.                                                                 *)
LEMMA TickParts ==
  ASSUME StopInv, Tick
  PROVE  StopTypeOK' /\ SessionOK' /\ TimerOK' /\ LeaseOK'
<1> USE ShutdownAssumption, IntervalFits DEF StopInv, Tick, renewVars
<1>1. StopTypeOK'
  BY DEF StopTypeOK, Off, SessionOK
<1>2. SessionOK'
  BY DEF StopTypeOK, SessionOK
<1>3. TimerOK'
  BY DEF StopTypeOK, TimerOK, Off
<1>4. LeaseOK'
  BY DEF StopTypeOK, LeaseOK, Off
<1> QED
  BY <1>1, <1>2, <1>3, <1>4

-----------------------------------------------------------------------------
(* The time a shutdown takes.                                              *)

(* Objects of the counters of a session.                                   *)
LEMMA SessionObjects ==
  ASSUME StopInv
  PROVE  /\ ObjectsOf(buffer) \in Nat /\ ObjectsOf(inHand) \in Nat /\ ObjectsOf(rest) \in Nat
         /\ ObjectsOf(buffer + rest) \in Nat /\ ToCome \in Nat /\ Spent \in Int
         /\ elapsed \in Nat
         /\ stopping /\ pc = "flush" => timer \in Nat
<1>1. buffer \in Nat /\ inHand \in Nat /\ rest \in Nat /\ buffer + rest \in Nat
  BY ShutdownAssumption DEF StopInv, StopTypeOK
<1>2. /\ ObjectsOf(buffer) \in Nat /\ ObjectsOf(inHand) \in Nat /\ ObjectsOf(rest) \in Nat
      /\ ObjectsOf(buffer + rest) \in Nat
  BY <1>1, Objects
<1>3. ToCome \in Nat
  BY <1>2 DEF ToCome
<1>4. timer \in Int /\ elapsed \in Nat /\ (stopping /\ pc = "flush" => timer \in Nat)
  BY ShutdownAssumption DEF StopInv, StopTypeOK, TimerOK, Off
<1>5. Spent \in Int
  BY <1>4 DEF Spent
<1> QED
  BY <1>2, <1>3, <1>4, <1>5

(* The session ends.                                                       *)
LEMMA EndTime ==
  ASSUME StopInv, stopping, pc' = "done", UNCHANGED elapsed
  PROVE  TimeOK'
<1>1. ToCome' = 0 /\ Spent' = elapsed /\ 0 \in Nat
  BY SessionObjects DEF ToCome, Spent
<1>2. Spent' <= Spent /\ Spent' \in Int
  BY <1>1, SessionObjects DEF Spent
<1>3. 0 <= ToCome
  BY SessionObjects
<1> QED
  BY <1>1, <1>2, <1>3, SessionObjects, TimeMoves DEF StopInv

(* A flush begins after the signal.                                        *)
LEMMA FlushTime ==
  ASSUME StopInv, stopping, pc # "flush", NEW v \in Nat, pc' = "flush", timer' = FlushTimeout,
         UNCHANGED elapsed, ToCome' = v, v + 1 <= ToCome
  PROVE  TimeOK'
<1>1. Spent = elapsed /\ Spent' = elapsed + FlushTimeout
  BY SessionObjects DEF Spent
<1>2. Spent' \in Int /\ Spent' <= Spent + FlushTimeout
  BY <1>1, SessionObjects, ShutdownAssumption
<1> QED
  BY <1>2, SessionObjects, TimeMoves DEF StopInv

(* The session goes on, without a new flush.                               *)
LEMMA PlainTime ==
  ASSUME StopInv, stopping, NEW v \in Nat, ToCome' = v, v <= ToCome,
         pc' # "flush", UNCHANGED elapsed
  PROVE  TimeOK'
<1>1. Spent' = elapsed
  BY SessionObjects DEF Spent
<1>2. Spent' \in Int /\ Spent' <= Spent
  BY <1>1, SessionObjects DEF Spent
<1> QED
  BY <1>2, SessionObjects, TimeMoves DEF StopInv

(* The signal: what there is to flush is bounded.                          *)
LEMMA SignalTime ==
  ASSUME StopInv, Signal
  PROVE  TimeOK'
<1> USE ShutdownAssumption
<1> DEFINE full == MaxEvents - 1 + ResponseSize
<1>1. /\ buffer \in Nat /\ inHand \in Nat /\ rest \in Nat /\ ResponseSize \in Nat /\ full \in Nat
      /\ inHand <= ResponseSize /\ elapsed = 0 /\ pc # "done"
  BY DEF StopInv, StopTypeOK, SessionOK, Signal
<1>2. ObjectsOf(inHand) <= ObjectsOf(ResponseSize)
  BY <1>1, ObjectsGrow
<1>3. /\ ObjectsOf(inHand) \in Nat /\ ObjectsOf(ResponseSize) \in Nat /\ ObjectsOf(full) \in Nat
  BY <1>1, Objects
<1>4. UNCHANGED <<elapsed, pc, back, inHand, rest, buffer>>
  BY DEF Signal
<1>5. ToCome' = ToCome
  BY <1>4 DEF ToCome, ObjectsOf
<1>6. CASE pc = "flush"
  <2>1. Spent' = FlushTimeout * 1
    BY <1>1, <1>4, <1>6 DEF Signal, Spent
  <2>2. ObjectsOf(rest) + 1 <= ObjectsOf(full)
    <3>1. ObjectsOf(rest) + 1 = ObjectsOf(rest + MaxEvents)
      BY <1>1, Objects
    <3>2. rest + MaxEvents <= full /\ rest + MaxEvents \in Nat
      BY <1>1, <1>6 DEF StopInv, StopTypeOK, SessionOK
    <3> QED
      BY <3>1, <3>2, <1>1, ObjectsGrow
  <2>3. back # "done"
    BY <1>6 DEF StopInv, SessionOK, Signal
  <2>4. ToCome = ObjectsOf(rest) + ObjectsOf(inHand)
    BY <1>6, <2>3 DEF ToCome
  <2>5. ObjectsOf(rest) \in Nat
    BY <1>1, Objects
  <2>6. 1 + ToCome <= MostFlushes
    BY <1>2, <1>3, <2>2, <2>4, <2>5 DEF MostFlushes
  <2>7. 1 + ToCome' <= MostFlushes' /\ Spent' <= FlushTimeout * 1
    BY <1>5, <2>1, <2>6 DEF MostFlushes, ObjectsOf
  <2> QED
    BY <2>7 DEF TimeOK
<1>7. CASE pc # "flush"
  <2>1. Spent' <= FlushTimeout * 0
    BY <1>1, <1>4, <1>7 DEF Spent
  <2>2. \E m \in Nat : m <= full /\ ToCome = ObjectsOf(m) + ObjectsOf(inHand)
    <3>1. CASE pc = "events"
      <4>1. buffer + rest <= full /\ buffer + rest \in Nat
        BY <1>1, <3>1 DEF StopInv, StopTypeOK, SessionOK
      <4>2. ToCome = ObjectsOf(buffer + rest) + ObjectsOf(inHand)
        BY <3>1 DEF ToCome
      <4> QED
        BY <4>1, <4>2
    <3>2. CASE pc = "select"
      <4>1. buffer <= full
        BY <1>1, <3>2 DEF StopInv, StopTypeOK, SessionOK
      <4>2. ToCome = ObjectsOf(buffer) + ObjectsOf(inHand)
        BY <3>2 DEF ToCome
      <4> QED
        BY <1>1, <4>1, <4>2
    <3> QED
      BY <1>1, <1>7, <3>1, <3>2 DEF StopInv, StopTypeOK
  <2>3. PICK m \in Nat : m <= full /\ ToCome = ObjectsOf(m) + ObjectsOf(inHand)
    BY <2>2
  <2>4. ObjectsOf(m) <= ObjectsOf(full) /\ ObjectsOf(m) \in Nat
    BY <1>1, <2>3, Objects, ObjectsGrow
  <2>5. 0 + ToCome <= MostFlushes
    BY <1>2, <1>3, <2>3, <2>4 DEF MostFlushes
  <2>6. 0 + ToCome' <= MostFlushes' /\ Spent' <= FlushTimeout * 0
    BY <1>5, <2>1, <2>5 DEF MostFlushes, ObjectsOf
  <2> QED
    BY <2>6 DEF TimeOK
<1> QED
  BY <1>6, <1>7

(* The steps of select after the signal.                                   *)
LEMMA SelectTime ==
  ASSUME StopInv, stopping, SelectDone \/ SelectFlushTimer \/ SelectResponse
  PROVE  TimeOK'
<1> USE ShutdownAssumption
<1>1. pc = "select" /\ UNCHANGED elapsed /\ rest = 0 /\ buffer \in Nat /\ buffer < MaxEvents /\ inHand \in Nat
  <2>1. pc = "select"
    BY DEF SelectDone, SelectFlushTimer, SelectResponse
  <2>2. UNCHANGED elapsed
    BY DEF SelectDone, SelectFlushTimer, SelectResponse
  <2>3. buffer \in Nat /\ inHand \in Nat
    BY DEF StopInv, StopTypeOK
  <2>4. rest = 0 /\ buffer < MaxEvents
    BY <2>1 DEF StopInv, SessionOK
  <2> QED
    BY <2>1, <2>2, <2>3, <2>4
<1>2. ToCome = ObjectsOf(buffer) + ObjectsOf(inHand)
  BY <1>1 DEF ToCome
<1>3. ObjectsOf(0) = 0 /\ (buffer > 0 => ObjectsOf(buffer) >= 1)
  BY <1>1, Objects
<1>4. CASE SelectDone /\ buffer > 0
  <2>1. pc' = "flush" /\ timer' = FlushTimeout /\ ToCome' = 0
    BY <1>4 DEF SelectDone, EndSession, FlushContext, ToCome
  <2>2. 0 + 1 <= ToCome
    BY <1>2, <1>3, <1>4, SessionObjects
  <2> QED
    BY <1>1, <2>1, <2>2, FlushTime
<1>5. CASE SelectDone /\ ~(buffer > 0)
  BY <1>1, <1>5, EndTime DEF SelectDone, EndSession, Finish
<1>6. CASE SelectFlushTimer
  <2>1. /\ pc' = "flush" /\ timer' = FlushTimeout /\ back' = "select" /\ buffer > 0
        /\ UNCHANGED <<rest, inHand>>
    BY <1>6 DEF SelectFlushTimer, FlushContext
  <2>2. ToCome' = ObjectsOf(0) + ObjectsOf(inHand)
    BY <1>1, <2>1 DEF ToCome, ObjectsOf
  <2>3. ToCome' = ObjectsOf(inHand) /\ ObjectsOf(inHand) + 1 <= ToCome
    BY <1>2, <1>3, <2>1, <2>2, SessionObjects
  <2> QED
    BY <1>1, <2>1, <2>3, FlushTime, SessionObjects
<1>7. CASE SelectResponse
  <2>1. pc' = "events" /\ rest' = inHand /\ inHand' = 0 /\ buffer' = buffer
    BY <1>7 DEF SelectResponse
  <2>2. ToCome' = ObjectsOf(buffer + inHand) + ObjectsOf(0)
    BY <2>1 DEF ToCome, ObjectsOf
  <2>3. ObjectsOf(buffer + inHand) \in Nat
    BY <1>1, Objects
  <2>4. ObjectsOf(buffer + inHand) <= ToCome
    BY <1>1, <1>2, ObjectsAdd
  <2>5. ToCome' = ObjectsOf(buffer + inHand)
    BY <1>3, <2>2, <2>3
  <2> QED
    BY <1>1, <2>1, <2>3, <2>4, <2>5, PlainTime
<1> QED
  BY <1>4, <1>5, <1>6, <1>7

(* Decoding after the signal.                                              *)
LEMMA DecodeTime ==
  ASSUME StopInv, stopping, Decode
  PROVE  TimeOK'
<1> USE ShutdownAssumption
<1>1. /\ pc = "events" /\ UNCHANGED <<elapsed, inHand>> /\ rest \in Nat /\ inHand \in Nat
      /\ buffer \in Nat /\ buffer < MaxEvents
  BY DEF StopInv, StopTypeOK, SessionOK, Decode
<1>2. ToCome = ObjectsOf(buffer + rest) + ObjectsOf(inHand)
  BY <1>1 DEF ToCome
<1>3. ObjectsOf(0) = 0 /\ (buffer > 0 => ObjectsOf(buffer) >= 1)
  BY <1>1, Objects
<1>4. CASE rest > 0 /\ buffer + 1 >= MaxEvents
  <2>1. /\ pc' = "flush" /\ timer' = FlushTimeout /\ back' = "events" /\ rest' = rest - 1
    BY <1>4 DEF Decode, FlushContext
  <2>2. ToCome' = ObjectsOf(rest - 1) + ObjectsOf(inHand)
    BY <1>1, <2>1 DEF ToCome, ObjectsOf
  <2>3. rest - 1 \in Nat /\ buffer + rest = (rest - 1) + MaxEvents
    BY <1>1, <1>4
  <2>4. ObjectsOf(buffer + rest) = ObjectsOf(rest - 1) + 1 /\ ObjectsOf(rest - 1) \in Nat
    BY <2>3, Objects
  <2>5. ToCome' \in Nat /\ ToCome' + 1 <= ToCome
    BY <1>2, <2>2, <2>4, SessionObjects
  <2> QED
    BY <1>1, <2>1, <2>5, FlushTime
<1>5. CASE rest > 0 /\ ~(buffer + 1 >= MaxEvents)
  <2>1. pc' = "events" /\ rest' = rest - 1 /\ buffer' = buffer + 1
    BY <1>1, <1>5 DEF Decode
  <2>2. buffer' + rest' = buffer + rest
    BY <1>1, <2>1
  <2>3. ToCome' = ToCome
    BY <1>1, <1>2, <2>1, <2>2 DEF ToCome, ObjectsOf
  <2>4. ToCome' \in Nat /\ ToCome' <= ToCome
    BY <2>3, SessionObjects
  <2> QED
    BY <1>1, <2>1, <2>4, PlainTime
<1>6. CASE ~(rest > 0) /\ ~pinned /\ buffer > 0
  <2>1. /\ pc' = "flush" /\ timer' = FlushTimeout /\ back' = "select" /\ rest' = rest
        /\ rest = 0
    BY <1>1, <1>6 DEF Decode, FlushContext
  <2>2. ToCome' = ObjectsOf(0) + ObjectsOf(inHand) /\ buffer + rest = buffer
    BY <1>1, <2>1 DEF ToCome, ObjectsOf
  <2>3. ToCome' = ObjectsOf(inHand) /\ ObjectsOf(inHand) + 1 <= ToCome
    BY <1>2, <1>3, <1>6, <2>2, SessionObjects
  <2> QED
    BY <1>1, <2>1, <2>3, FlushTime, SessionObjects
<1>7. CASE ~(rest > 0) /\ ~(~pinned /\ buffer > 0)
  <2>1. pc' = "select" /\ UNCHANGED <<rest, buffer>> /\ buffer + rest = buffer
    BY <1>1, <1>7 DEF Decode
  <2>2. ToCome' = ToCome
    BY <1>1, <1>2, <2>1 DEF ToCome, ObjectsOf
  <2>3. ToCome' \in Nat /\ ToCome' <= ToCome
    BY <2>2, SessionObjects
  <2> QED
    BY <1>1, <2>1, <2>3, PlainTime
<1> QED
  BY <1>4, <1>5, <1>6, <1>7

(* A flush that worked.                                                    *)
LEMMA FlushDoneTime ==
  ASSUME StopInv, stopping, FlushDone
  PROVE  TimeOK'
<1>1. pc = "flush" /\ UNCHANGED <<elapsed, rest, inHand>> /\ rest \in Nat
  BY ShutdownAssumption DEF StopInv, StopTypeOK, FlushDone
<1>2. CASE pc' = "done"
  BY <1>1, <1>2, EndTime
<1>3. CASE pc' # "done"
  <2>1. buffer' = 0 /\ pc' = back /\ back \in {"select", "events"}
    BY <1>3 DEF FlushDone, Finish, StopInv, StopTypeOK
  <2>2. ToCome = ObjectsOf(rest) + ObjectsOf(inHand)
    BY <1>1, <2>1 DEF ToCome
  <2>3. ObjectsOf(0) = 0 /\ 0 + rest = rest
    BY <1>1, Objects
  <2>4. ToCome' = ToCome \/ ToCome' = ObjectsOf(0) + ObjectsOf(inHand)
    BY <1>1, <2>1, <2>2, <2>3 DEF ToCome, ObjectsOf
  <2>5. ToCome' \in Nat /\ ToCome' <= ToCome
    BY <2>2, <2>3, <2>4, SessionObjects
  <2> QED
    BY <1>1, <2>1, <2>5, PlainTime
<1> QED
  BY <1>2, <1>3

(* A tick is taken from the timer of the running flush.                    *)
LEMMA TickTime ==
  ASSUME StopInv, stopping, Tick
  PROVE  TimeOK'
<1>1. /\ pc = "flush" /\ timer # 0 /\ elapsed' = elapsed + 1
      /\ timer' = IF timer > 0 THEN timer - 1 ELSE timer
      /\ UNCHANGED <<pc, back, rest, inHand, buffer>>
  BY DEF Tick
<1>2. Spent' = Spent
  BY <1>1, SessionObjects DEF Spent
<1>3. ToCome' = ToCome
  BY <1>1 DEF ToCome, ObjectsOf
<1>4. ToCome' \in Nat /\ Spent' \in Int /\ Spent' <= Spent /\ ToCome' <= ToCome
  BY <1>2, <1>3, SessionObjects
<1> QED
  BY <1>4, SessionObjects, TimeMoves DEF StopInv

(* Every step of the subscriber, the renewer and the clock.                *)
LEMMA StopKept == StopInv /\ [StopNext]_stopVars => StopInv'
<1> SUFFICES ASSUME StopInv, [StopNext]_stopVars PROVE StopInv'
  OBVIOUS
<1>1. CASE UNCHANGED stopVars
  <2>1. /\ UNCHANGED <<stopping, elapsed, pc, back, inHand, rest, buffer, pinned, timer, age>>
        /\ UNCHANGED <<lease, renewIn, sinceOK, fails, renewErr, exit>>
    BY <1>1 DEF stopVars, sessionVars, renewVars
  <2> QED
    BY <2>1 DEF StopInv, StopTypeOK, SessionOK, TimerOK, LeaseOK, TimeOK, ToCome, Spent,
                MostFlushes, ObjectsOf
<1>2. CASE Signal
  BY <1>2, SignalParts, SignalTime DEF StopInv
<1>3. CASE StopNext /\ ~Signal
  <2>1. StopTypeOK' /\ SessionOK' /\ TimerOK' /\ LeaseOK'
    BY <1>3, ReceiveParts, SelectDoneParts, SelectRenewErrParts, SelectFlushTimerParts,
       SelectResponseParts, DecodeParts, FlushDoneParts, FlushFailsParts, FlushAbortedParts,
       RenewParts, TickParts DEF StopNext, SessionStep
  <2>2. stopping' = stopping
    BY <1>3 DEF StopNext, SessionStep, Receive, SelectDone, SelectRenewErr, SelectFlushTimer,
       SelectResponse, Decode, FlushDone, FlushFails, FlushAborted, Renew, Tick
  <2>3. CASE ~stopping
    BY <2>1, <2>2, <2>3 DEF StopInv, TimeOK
  <2>4. CASE stopping
    <3> SUFFICES TimeOK'
      BY <2>1 DEF StopInv
    <3>1. ~Receive
      BY <2>4 DEF Receive
    <3>2. CASE SelectRenewErr \/ FlushFails \/ FlushAborted
      <4>1. pc' = "done"
        BY <3>2 DEF SelectRenewErr, FlushFails, FlushAborted, Finish
      <4>2. UNCHANGED elapsed
        BY <3>2 DEF SelectRenewErr, FlushFails, FlushAborted
      <4> QED
        BY <2>4, <4>1, <4>2, EndTime
    <3>3. CASE Renew
      <4>1. UNCHANGED <<stopping, elapsed, pc, back, inHand, rest, buffer, timer>>
        BY <3>3 DEF Renew, sessionVars
      <4>2. ToCome' = ToCome
        BY <4>1 DEF ToCome, ObjectsOf
      <4>3. Spent' = Spent
        BY <4>1 DEF Spent
      <4>4. ToCome' \in Nat /\ Spent' \in Int /\ Spent' <= Spent /\ ToCome' <= ToCome
        BY <4>2, <4>3, SessionObjects
      <4> QED
        BY <2>4, <4>4, SessionObjects, TimeMoves DEF StopInv
    <3>4. CASE SelectDone \/ SelectFlushTimer \/ SelectResponse
      BY <2>4, <3>4, SelectTime
    <3>5. CASE Decode
      BY <2>4, <3>5, DecodeTime
    <3>6. CASE FlushDone
      BY <2>4, <3>6, FlushDoneTime
    <3>7. CASE Tick
      BY <2>4, <3>7, TickTime
    <3> QED
      BY <1>3, <3>1, <3>2, <3>3, <3>4, <3>5, <3>6, <3>7 DEF StopNext, SessionStep
  <2> QED
    BY <2>3, <2>4
<1> QED
  BY <1>1, <1>2, <1>3

(* A signal costs no batch before its flush has had the whole timeout, no   *)
(* lease while renewals work, and the process is gone after as many         *)
(* timeouts as two responses and a buffer can fill objects (flushContext,   *)
(* renewLease, session).                                                    *)
THEOREM ShutdownIsSafe == StopSpec => []ShutdownSafe
<1>1. StopInv => FlushGetsItsTime /\ LeaseOutlivesSignal
  BY DEF StopInv, TimerOK, LeaseOK, FlushGetsItsTime, LeaseOutlivesSignal
<1>2. ASSUME StopInv PROVE ShutdownBounded
  <2>1. CASE ~stopping
    <3>1. elapsed = 0
      BY <1>2, <2>1 DEF StopInv, SessionOK
    <3>2. FlushTimeout * MostFlushes \in Nat
      BY Objects, ShutdownAssumption DEF MostFlushes
    <3> QED
      BY <3>1, <3>2 DEF ShutdownBounded, MostFlushes
  <2>2. CASE stopping
    <3>1. PICK n \in Nat : n + ToCome <= MostFlushes /\ Spent <= FlushTimeout * n
      BY <1>2, <2>2 DEF StopInv, TimeOK
    <3>2. MostFlushes \in Nat /\ FlushTimeout \in Nat
      BY Objects, ShutdownAssumption DEF MostFlushes
    <3>3. n <= MostFlushes
      BY <1>2, <3>1, <3>2, SessionObjects
    <3>4. elapsed <= FlushTimeout * n
      BY <1>2, <2>2, <3>1, <3>2, SessionObjects DEF Spent
    <3>5. FlushTimeout * n <= FlushTimeout * MostFlushes
      BY <3>2, <3>3
    <3>6. elapsed <= FlushTimeout * MostFlushes
      BY <1>2, <3>2, <3>4, <3>5, SessionObjects
    <3> QED
      BY <3>6 DEF ShutdownBounded, MostFlushes
  <2> QED
    BY <2>1, <2>2
<1>3. StopInv => ShutdownSafe
  BY <1>1, <1>2 DEF ShutdownSafe, StopInv
<1> QED
  BY <1>3, StopStarts, StopKept, PTL DEF StopSpec

-----------------------------------------------------------------------------
(* What the checks take from the type of a configuration: the fields of    *)
(* its record, and the types of those that no "$VAR" stands in.            *)
ShapeOK(c) ==
    /\ c = [f \in DOMAIN c |-> c[f]]
    /\ ScannedFields \union {"auth", "redis", "topics", "tls", "iam", "iamNames", "dbNumber",
                             "requestTimeout", "queries", "fileQueries"} \subseteq DOMAIN c
    /\ c.auth \in [Methods -> {"absent", "partial", "full"}]
    /\ c.requestTimeout \in Nat
    /\ c.queries \in Seq(Query) /\ c.fileQueries \in Seq(Query)

(* What holds once the checks are passed.                                  *)
AuthOK(c) == c.auth[LoginMethod(c)] = "full"

RedisOK(c) ==
    c.redis => /\ c.host # Empty
               /\ c.mode \in {Empty, "standalone", "cluster"}
               /\ c.iam => c.tls /\ c.iamNames

TopicsOK(c) == c.topics # <<>> /\ IsInjective(c.topics)

QueriesOK(c) ==
    /\ c.requestTimeout > 0 /\ c.limitsApiVer # Empty
    /\ \A i \in DOMAIN c.queries :
          /\ c.queries[i].apiVer # Empty /\ c.queries[i].apiName # Empty
          /\ c.queries[i].from # Empty
          /\ c.queries[i].timestamp \in c.queries[i].select
          /\ ~c.queries[i].limitInTail

(* Before the checks a configuration has its shape; after them it is what  *)
(* they made sure of, and no later step changes it.                        *)
StartInv ==
    /\ cmd \in {"stream", "eventlog"}
    /\ at \in {"read", "files", "check"} => ShapeOK(conf)
    /\ at \in {"sink", "redis", "connect", "running"} =>
          /\ AuthOK(conf) /\ RedisOK(conf)
          /\ cmd = "stream" => conf.redis /\ TopicsOK(conf)
          /\ cmd = "eventlog" => QueriesOK(conf)

(* Every configuration has the shape.                                      *)
LEMMA ConfigShape ==
  ASSUME NEW c \in Config
  PROVE  ShapeOK(c)
BY DEF ShapeOK, Config, ScannedFields

(* Replacing "$VAR" keeps it: only fields that hold text are replaced.     *)
LEMMA Scanned ==
  ASSUME NEW c, ShapeOK(c)
  PROVE  ShapeOK(scanEnvVars(c))
<1> DEFINE s == scanEnvVars(c)
<1>1. DOMAIN s = DOMAIN c /\ s = [f \in DOMAIN s |-> s[f]]
  BY DEF scanEnvVars
<1>2. \A f \in DOMAIN c : f \notin ScannedFields => s[f] = c[f]
  BY DEF scanEnvVars
<1>3. /\ s.auth = c.auth /\ s.requestTimeout = c.requestTimeout
      /\ s.queries = c.queries /\ s.fileQueries = c.fileQueries
  BY <1>2 DEF ScannedFields, ShapeOK
<1> QED
  BY <1>1, <1>3 DEF ShapeOK

(* Queries from files are added to those of the main file.                 *)
LEMMA QueriesAdded ==
  ASSUME NEW c, ShapeOK(c)
  PROVE  ShapeOK([c EXCEPT !.queries = @ \o c.fileQueries])
<1> DEFINE d == [c EXCEPT !.queries = @ \o c.fileQueries]
<1>1. c.queries \o c.fileQueries \in Seq(Query)
  BY DEF ShapeOK
<1>2. /\ DOMAIN d = DOMAIN c /\ d = [f \in DOMAIN d |-> d[f]]
      /\ d.queries \in Seq(Query) /\ d.fileQueries = c.fileQueries
      /\ d.auth = c.auth /\ d.requestTimeout = c.requestTimeout
  BY <1>1 DEF ShapeOK
<1> QED
  BY <1>2 DEF ShapeOK

(* One method is configured, it is complete, and it is the one Login picks.*)
LEMMA AuthChecked ==
  ASSUME NEW c, ShapeOK(c), CheckAuth(c)
  PROVE  AuthOK(c)
<1>1. \A m \in Methods : c.auth[m] \in {"absent", "partial", "full"}
  BY DEF ShapeOK
<1>2. PICK m \in Methods : \A n \in Methods : c.auth[n] # "absent" <=> n = m
  BY DEF CheckAuth
<1>3. LoginMethod(c) = m
  BY <1>2 DEF LoginMethod, Methods
<1> QED
  BY <1>1, <1>2, <1>3 DEF CheckAuth, AuthOK

(* A default is never empty.                                               *)
LEMMA OrDefault ==
  ASSUME NEW v, NEW default, default # Empty
  PROVE  Or(v, default) # Empty
BY DEF Or

(* The defaults: no request without a timeout, no query without a version  *)
(* and an API; what the checks looked at stays.                            *)
LEMMA DefaultsFilled ==
  ASSUME NEW c, ShapeOK(c)
  PROVE  LET d == EventLogDefaults(c) IN
         /\ \A f \in DOMAIN c \ {"requestTimeout", "apiVer", "limitsApiVer", "queries"} :
               d[f] = c[f]
         /\ d.requestTimeout > 0 /\ d.limitsApiVer # Empty
         /\ DOMAIN d.queries = DOMAIN c.queries
         /\ \A i \in DOMAIN c.queries :
               /\ d.queries[i].apiVer # Empty /\ d.queries[i].apiName # Empty
               /\ d.queries[i].from = c.queries[i].from
               /\ d.queries[i].timestamp = c.queries[i].timestamp
               /\ d.queries[i].select = c.queries[i].select
               /\ d.queries[i].limitInTail = c.queries[i].limitInTail
<1> DEFINE d == EventLogDefaults(c)
           ver == Or(c.apiVer, defaultApiVer)
           Fill(q) == QueryDefaults(q, ver)
           qs == [i \in DOMAIN c.queries |-> Fill(c.queries[i])]
           t == IF c.requestTimeout = 0 THEN 30 ELSE c.requestTimeout
           lim == Or(c.limitsApiVer, ver)
<1>1. ver # Empty /\ "rest" # Empty
  <2>1. defaultApiVer # Empty /\ "rest" # Empty
    BY DEF defaultApiVer, Empty
  <2> QED
    BY <2>1, OrDefault
<1>2. ASSUME NEW q \in Query
      PROVE  /\ Fill(q).apiVer # Empty /\ Fill(q).apiName # Empty
             /\ Fill(q).from = q.from /\ Fill(q).timestamp = q.timestamp
             /\ Fill(q).select = q.select /\ Fill(q).limitInTail = q.limitInTail
  <2> DEFINE n == Or(q.apiName, "rest")
             w == Or(q.apiVer, ver)
  <2>1. n # Empty /\ w # Empty
    BY <1>1, OrDefault
  <2>2. Fill(q) = [[q EXCEPT !.apiVer = w] EXCEPT !.apiName = n]
    BY DEF Query, QueryDefaults
  <2> HIDE DEF n, w, ver, Fill
  <2> QED
    BY <2>1, <2>2 DEF Query
<1>3. \A i \in DOMAIN c.queries : c.queries[i] \in Query
  BY DEF ShapeOK
<1>4. /\ DOMAIN qs = DOMAIN c.queries
      /\ \A i \in DOMAIN c.queries : qs[i] = Fill(c.queries[i])
  OBVIOUS
<1>5. t > 0
  BY DEF ShapeOK
<1>6. lim # Empty
  BY <1>1, OrDefault
<1>7. d = [c EXCEPT !.requestTimeout = t, !.apiVer = ver, !.limitsApiVer = lim, !.queries = qs]
  BY DEF EventLogDefaults
<1> HIDE DEF d, t, qs, ver, Fill, lim
<1>8. /\ d.requestTimeout = t /\ d.limitsApiVer = lim /\ d.queries = qs
      /\ \A f \in DOMAIN c \ {"requestTimeout", "apiVer", "limitsApiVer", "queries"} :
            d[f] = c[f]
  BY <1>7 DEF ShapeOK, ScannedFields
<1>9. \A i \in DOMAIN c.queries :
               /\ d.queries[i].apiVer # Empty /\ d.queries[i].apiName # Empty
               /\ d.queries[i].from = c.queries[i].from
               /\ d.queries[i].timestamp = c.queries[i].timestamp
               /\ d.queries[i].select = c.queries[i].select
               /\ d.queries[i].limitInTail = c.queries[i].limitInTail
  BY <1>2, <1>3, <1>4, <1>8
<1> QED
  BY <1>4, <1>5, <1>6, <1>8, <1>9 DEF d

(* The checks of either command establish what its collector relies on.    *)
LEMMA StreamChecked ==
  ASSUME ShapeOK(conf), StreamCheck(conf)
  PROVE  AuthOK(conf) /\ RedisOK(conf) /\ conf.redis /\ TopicsOK(conf)
<1>1. CheckAuth(conf) /\ conf.redis /\ CheckCache(conf) /\ checkTopics(conf.topics)
  BY DEF StreamCheck
<1>2. AuthOK(conf)
  BY <1>1, AuthChecked
<1>3. RedisOK(conf)
  BY <1>1 DEF CheckCache, RedisOK
<1>4. TopicsOK(conf)
  BY <1>1 DEF checkTopics, TopicsOK
<1> QED
  BY <1>1, <1>2, <1>3, <1>4

LEMMA EventLogChecked ==
  ASSUME NEW c, NEW d, ShapeOK(c), EventLogCheck(c), d = EventLogDefaults(c)
  PROVE  AuthOK(d) /\ RedisOK(d) /\ QueriesOK(d)
<1>1. CheckAuth(c) /\ CheckCache(c) /\ \A i \in DOMAIN c.queries : CheckQuery(c.queries[i])
  BY DEF EventLogCheck
<1>2. \A f \in DOMAIN c \ {"requestTimeout", "apiVer", "limitsApiVer", "queries"} : d[f] = c[f]
  BY DefaultsFilled
<1>3. /\ d.auth = c.auth /\ d.redis = c.redis /\ d.host = c.host /\ d.mode = c.mode
      /\ d.iam = c.iam /\ d.tls = c.tls /\ d.iamNames = c.iamNames
  BY <1>2 DEF ShapeOK, ScannedFields
<1>4. AuthOK(d)
  BY <1>1, <1>3, AuthChecked DEF AuthOK, LoginMethod
<1>5. RedisOK(d)
  BY <1>1, <1>3 DEF CheckCache, RedisOK
<1>6. QueriesOK(d)
  <2>1. d.requestTimeout > 0 /\ d.limitsApiVer # Empty /\ DOMAIN d.queries = DOMAIN c.queries
    BY DefaultsFilled
  <2>2. ASSUME NEW i \in DOMAIN d.queries
        PROVE  /\ d.queries[i].apiVer # Empty /\ d.queries[i].apiName # Empty
               /\ d.queries[i].from # Empty
               /\ d.queries[i].timestamp \in d.queries[i].select
               /\ ~d.queries[i].limitInTail
    <3>1. CheckQuery(c.queries[i])
      BY <1>1, <2>1
    <3>2. /\ c.queries[i].from # Empty /\ c.queries[i].timestamp \in c.queries[i].select
          /\ ~c.queries[i].limitInTail
      BY <3>1 DEF CheckQuery
    <3>3. /\ d.queries[i].apiVer # Empty /\ d.queries[i].apiName # Empty
          /\ d.queries[i].from = c.queries[i].from
          /\ d.queries[i].timestamp = c.queries[i].timestamp
          /\ d.queries[i].select = c.queries[i].select
          /\ d.queries[i].limitInTail = c.queries[i].limitInTail
      BY <2>1, DefaultsFilled
    <3> QED
      BY <3>2, <3>3
  <2> QED
    BY <2>1, <2>2 DEF QueriesOK
<1> QED
  BY <1>4, <1>5, <1>6

(* Init and every step establish the invariant.                            *)
LEMMA StartKept ==
  /\ StartInit => StartInv
  /\ StartInv /\ [StartNext]_startVars => StartInv'
<1>1. StartInit => StartInv
  BY StartAssumption, ConfigShape DEF StartInit, StartInv
<1>2. ASSUME StartInv, [StartNext]_startVars
      PROVE  StartInv'
  <2>1. ASSUME NEW s, Exit(s) PROVE StartInv'
    BY <1>2, <2>1 DEF StartInv, Exit
  <2>2. CASE ReadConfig
    <3>1. CASE conf' = scanEnvVars(conf) /\ Goto(IF cmd = "eventlog" THEN "files" ELSE "check")
      <4>1. ShapeOK(conf')
        BY <1>2, <2>2, <3>1, Scanned DEF StartInv, ReadConfig
      <4> QED
        BY <1>2, <3>1, <4>1 DEF StartInv, Goto
    <3> QED
      BY <2>1, <2>2, <3>1 DEF ReadConfig
  <2>3. CASE ReadFails
    BY <2>1, <2>3 DEF ReadFails
  <2>4. CASE ParseQueryFiles
    <3>1. CASE conf' = [conf EXCEPT !.queries = @ \o conf.fileQueries] /\ Goto("check")
      <4>1. ShapeOK(conf')
        BY <1>2, <2>4, <3>1, QueriesAdded DEF StartInv, ParseQueryFiles
      <4> QED
        BY <1>2, <3>1, <4>1 DEF StartInv, Goto
    <3> QED
      BY <2>1, <2>4, <3>1 DEF ParseQueryFiles
  <2>5. CASE IntegrityCheck
    <3>1. ShapeOK(conf)
      BY <1>2, <2>5 DEF StartInv, IntegrityCheck
    <3>2. CASE cmd = "stream" /\ StreamCheck(conf) /\ Goto("sink") /\ UNCHANGED conf
      <4>1. AuthOK(conf) /\ RedisOK(conf) /\ conf.redis /\ TopicsOK(conf)
        BY <3>1, <3>2, StreamChecked
      <4>2. conf' = conf /\ cmd' = "stream" /\ at' = "sink"
        BY <3>2 DEF Goto
      <4> QED
        BY <4>1, <4>2 DEF StartInv
    <3>3. CASE cmd # "stream" /\ EventLogCheck(conf) /\ Goto("sink") /\ conf' = EventLogDefaults(conf)
      <4>1. AuthOK(conf') /\ RedisOK(conf') /\ QueriesOK(conf')
        BY <3>1, <3>3, EventLogChecked
      <4>2. cmd' = "eventlog" /\ at' = "sink"
        BY <1>2, <3>3 DEF Goto, StartInv
      <4> QED
        BY <4>1, <4>2 DEF StartInv
    <3> QED
      BY <2>1, <2>5, <3>2, <3>3 DEF IntegrityCheck
  <2>6. ASSUME NEW s \in {"redis", "connect", "running"}, at \in {"sink", "redis", "connect"},
               Goto(s), conf' = conf
        PROVE  StartInv'
    BY <1>2, <2>6 DEF StartInv, Goto
  <2>7. CASE FromConfig
    BY <2>1, <2>6, <2>7 DEF FromConfig
  <2>8. CASE BuildCache
    BY <2>1, <2>6, <2>8 DEF BuildCache
  <2>9. CASE ConnectRedis
    BY <2>1, <2>6, <2>9 DEF ConnectRedis
  <2>10. CASE UNCHANGED startVars
    BY <1>2, <2>10 DEF StartInv, startVars
  <2> QED
    BY <1>2, <2>2, <2>3, <2>4, <2>5, <2>7, <2>8, <2>9, <2>10 DEF StartNext
<1> QED
  BY <1>1, <1>2

(* Whatever the configuration file, the environment and the query files    *)
(* say: a collector that runs has passed the checks, so its login has all  *)
(* credentials of the method it picks, a stream collector has Redis and    *)
(* one checkpoint per topic, every query has what it is built from, and    *)
(* NewClient refuses nothing the checks looked at (config.Check,           *)
(* IntegrityCheck, Login, NewClient).                                      *)
THEOREM AcceptedConfigsRun == StartSpec => []AcceptedRuns
<1>1. ASSUME StartInv
      PROVE  LoginHasCredentials /\ StreamIsDurable /\ QueriesComplete
  <2>1. LoginHasCredentials
    BY <1>1 DEF StartInv, LoginHasCredentials, AuthOK
  <2>2. StreamIsDurable
    BY <1>1 DEF StartInv, StreamIsDurable, RedisOK, TopicsOK, IsInjective
  <2>3. QueriesComplete
    BY <1>1 DEF StartInv, QueriesComplete, QueriesOK
  <2> QED
    BY <2>1, <2>2, <2>3
<1>2. StartInv => CheckedSettingsBuild
  BY DEF StartInv, RedisOK, CheckedSettingsBuild, NewClient, buildTLSConfig, newIAMTokenProvider
<1>3. StartInv => AcceptedRuns
  BY <1>1, <1>2 DEF AcceptedRuns
<1> QED
  BY <1>3, StartKept, PTL DEF StartSpec

=============================================================================
