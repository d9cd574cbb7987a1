------------------------------ MODULE Service ------------------------------
(***************************************************************************)
(* The stream collector as a whole: RunService                             *)
(* (internal/integration/stream/service.go) runs one subscriber goroutine  *)
(* per topic, reports readiness and stops everything on the first fatal    *)
(* error; the subscribers' session loop is modelled as far as logins,      *)
(* reconnects and readiness go (subscriber.go), what a session archives is *)
(* the subject of Subscriber.                                              *)
(*                                                                         *)
(* `token` is what Salesforce makes of the integration user's credentials: *)
(* "ok", "noaccess" (the login works, Pub/Sub rejects the session) or      *)
(* "revoked" (the login fails).                                            *)
(***************************************************************************)
EXTENDS Integers, FiniteSets

CONSTANTS Topics,
          MaxAuthFailures,  \* maxAuthFailures
          MaxFaults         \* bound: failures, shutdowns, changes of the credentials

ASSUME ServiceAssumption ==
    /\ IsFiniteSet(Topics)
    /\ MaxAuthFailures \in Nat \ {0}
    /\ MaxFaults \in Nat

VARIABLES sub,       \* sub[t]: the subscriber of topic t
          active,    \* the counter behind readiness
          ready,     \* metrics.ready, what /readyz answers
          cancelled, \* ctx of RunService is cancelled
          firstErr,  \* firstErr is set
          phase,     \* RunService: "launch", "wait" or the way it returned
          token, faults

vars == <<sub, active, ready, cancelled, firstErr, phase, token, faults>>

SubState ==
    [pc      : {"new", "acquire", "connect", "stream", "ready", "ended", "unready",
                "after", "report", "stopped"},
     orgId   : BOOLEAN,       \* the client has logged in (client.OrgId() # "")
     healthy : BOOLEAN,       \* s.sessionHealthy
     fails   : 0..MaxAuthFailures, \* s.authFailures
     on      : BOOLEAN,       \* the argument of the pending SetReady
     fatal   : BOOLEAN]       \* the session (or Run) returned a fatal error

NewSub == [pc |-> "new", orgId |-> FALSE, healthy |-> FALSE, fails |-> 0,
           on |-> FALSE, fatal |-> FALSE]

Become(t, s) == sub' = [sub EXCEPT ![t] = s]

Fault   == faults > 0 /\ faults' = faults - 1
NoFault == UNCHANGED faults

Init ==
    /\ sub = [t \in Topics |-> NewSub]
    /\ active = 0
    /\ ready = FALSE
    /\ cancelled = FALSE
    /\ firstErr = FALSE
    /\ phase = "launch"
    /\ token = "ok"
    /\ faults = MaxFaults

-----------------------------------------------------------------------------
(* RunService.                                                             *)

Launch(t) ==
    /\ phase = "launch"
    /\ sub[t].pc = "new"
    /\ Become(t, [NewSub EXCEPT !.pc = "acquire"])
    /\ phase' = IF \A u \in Topics \ {t} : sub[u].pc # "new" THEN "wait" ELSE "launch"
    /\ UNCHANGED <<active, ready, cancelled, firstErr, token, faults>>

(* A Pub/Sub client cannot be created: those already running are stopped.  *)
LaunchFails ==
    /\ phase = "launch"
    /\ Fault
    /\ phase' = "giveup"
    /\ cancelled' = TRUE
    /\ UNCHANGED <<sub, active, ready, firstErr, token>>

(* Every goroutine has returned.                                           *)
AllStopped == \A t \in Topics : sub[t].pc \in {"new", "stopped"}

Return ==
    /\ phase \in {"wait", "giveup"}
    /\ AllStopped
    /\ phase' = IF firstErr \/ phase = "giveup" THEN "error" ELSE "clean"
    /\ ready' = IF phase = "wait" THEN FALSE ELSE ready
    /\ UNCHANGED <<sub, active, cancelled, firstErr, token, faults>>

Terminate ==
    /\ ~cancelled
    /\ Fault
    /\ cancelled' = TRUE
    /\ UNCHANGED <<sub, active, ready, firstErr, phase, token>>

CredentialsChange ==
    /\ Fault
    /\ token' \in {"ok", "noaccess", "revoked"} \ {token}
    /\ UNCHANGED <<sub, active, ready, cancelled, firstErr, phase>>

-----------------------------------------------------------------------------
(* Run and session of one subscriber.                                      *)

(* The lease is taken and the checkpoint loaded, or Run returns: cleanly   *)
(* on a shutdown, else with a fatal error.                                 *)
Acquire(t) ==
    /\ sub[t].pc = "acquire"
    /\ \/ Become(t, [sub[t] EXCEPT !.pc = "connect"]) /\ NoFault
       \/ cancelled /\ Become(t, [sub[t] EXCEPT !.pc = "stopped"]) /\ NoFault
       \/ ~cancelled /\ Fault /\ Become(t, [sub[t] EXCEPT !.pc = "report", !.fatal = TRUE])
    /\ UNCHANGED <<active, ready, cancelled, firstErr, phase, token>>

(* authFailed: the counter is one up, the last failure is fatal.           *)
AuthFailed(s) == [s EXCEPT !.fails = @ + 1, !.fatal = s.fails + 1 >= MaxAuthFailures]

(* A client that never logged in does so, then the stream is opened.       *)
Connect(t) ==
    /\ sub[t].pc = "connect"
    /\ LET s == [sub[t] EXCEPT !.fatal = FALSE]
       IN  Become(t, IF ~s.orgId /\ token = "revoked"
                     THEN [AuthFailed(s) EXCEPT !.pc = "ended"]
                     ELSE [s EXCEPT !.pc = "stream", !.orgId = TRUE, !.healthy = FALSE])
    /\ UNCHANGED <<active, ready, cancelled, firstErr, phase, token, faults>>

(* The session's first message: OnActive(true) counts the topic and        *)
(* compares, then stores the outcome.                                      *)
FirstData(t) ==
    /\ sub[t].pc = "stream"
    /\ ~sub[t].healthy
    /\ token = "ok"
    /\ active' = active + 1
    /\ Become(t, [sub[t] EXCEPT !.pc = "ready", !.healthy = TRUE, !.fails = 0,
                                !.on = active + 1 = Cardinality(Topics)])
    /\ UNCHANGED <<ready, cancelled, firstErr, phase, token, faults>>

StoreReady(t) ==
    /\ sub[t].pc = "ready"
    /\ ready' = sub[t].on
    /\ Become(t, [sub[t] EXCEPT !.pc = "stream", !.on = FALSE])
    /\ UNCHANGED <<active, cancelled, firstErr, phase, token, faults>>

(* Mutant: a rejection before any data is not counted.                      *)
RejectedUncounted(t) ==
    /\ sub[t].pc = "stream"
    /\ token # "ok"
    /\ LET s == IF sub[t].healthy THEN [sub[t] EXCEPT !.fails = 0] ELSE sub[t]
       IN  Become(t, [(IF token = "revoked" THEN AuthFailed(s) ELSE s) EXCEPT !.pc = "ended"])
    /\ UNCHANGED <<active, ready, cancelled, firstErr, phase, token, faults>>

(* The server rejects the session: a new login is tried at once.  It is     *)
(* counted when it fails, or when the session never received anything.      *)
Rejected(t) ==
    /\ sub[t].pc = "stream"
    /\ token # "ok"
    /\ LET s == IF sub[t].healthy THEN [sub[t] EXCEPT !.fails = 0] ELSE sub[t]
       IN  Become(t, [(IF token = "revoked" \/ ~s.healthy THEN AuthFailed(s) ELSE s)
                        EXCEPT !.pc = "ended"])
    /\ UNCHANGED <<active, ready, cancelled, firstErr, phase, token, faults>>

SessionStops(t) ==
    /\ sub[t].pc = "stream"
    /\ cancelled
    /\ Become(t, [sub[t] EXCEPT !.pc = "ended"])
    /\ UNCHANGED <<active, ready, cancelled, firstErr, phase, token, faults>>

(* The stream cannot be opened or breaks, or a fatal error ends the session *)
(* (a lost lease, a failed write or commit, a rejected replay ID).          *)
SessionBreaks(t) ==
    /\ sub[t].pc = "stream"
    /\ Fault
    /\ \E fatal \in BOOLEAN : Become(t, [sub[t] EXCEPT !.pc = "ended", !.fatal = fatal])
    /\ UNCHANGED <<active, ready, cancelled, firstErr, phase, token>>

(* Mutant: every session that ends is counted as inactive.                  *)
InactiveAlways(t) ==
    /\ sub[t].pc = "ended"
    /\ active' = active - 1
    /\ Become(t, [sub[t] EXCEPT !.pc = "unready"])
    /\ UNCHANGED <<ready, cancelled, firstErr, phase, token, faults>>

(* OnActive(false) for a session that was active.                          *)
Inactive(t) ==
    /\ sub[t].pc = "ended"
    /\ IF sub[t].healthy
       THEN active' = active - 1 /\ Become(t, [sub[t] EXCEPT !.pc = "unready"])
       ELSE UNCHANGED active /\ Become(t, [sub[t] EXCEPT !.pc = "after"])
    /\ UNCHANGED <<ready, cancelled, firstErr, phase, token, faults>>

StoreUnready(t) ==
    /\ sub[t].pc = "unready"
    /\ ready' = FALSE
    /\ Become(t, [sub[t] EXCEPT !.pc = "after"])
    /\ UNCHANGED <<active, cancelled, firstErr, phase, token, faults>>

(* Mutant: a shutdown hides the error of the last flush.                    *)
AfterSessionClean(t) ==
    /\ sub[t].pc = "after"
    /\ Become(t, [sub[t] EXCEPT !.pc = IF cancelled THEN "stopped"
                                       ELSE IF sub[t].fatal THEN "report" ELSE "connect"])
    /\ UNCHANGED <<active, ready, cancelled, firstErr, phase, token, faults>>

(* The loop of Run: an error ends it, a shutdown too; else reconnect.      *)
AfterSession(t) ==
    /\ sub[t].pc = "after"
    /\ Become(t, [sub[t] EXCEPT !.pc = IF sub[t].fatal THEN "report"
                                       ELSE IF cancelled THEN "stopped" ELSE "connect"])
    /\ UNCHANGED <<active, ready, cancelled, firstErr, phase, token, faults>>

(* Mutant: the first error is recorded, the other topics go on.             *)
ReportOnly(t) ==
    /\ sub[t].pc = "report"
    /\ firstErr' = TRUE
    /\ Become(t, [sub[t] EXCEPT !.pc = "stopped"])
    /\ UNCHANGED <<active, ready, cancelled, phase, token, faults>>

(* Run returned an error: the first one cancels every subscriber.          *)
Report(t) ==
    /\ sub[t].pc = "report"
    /\ firstErr' = TRUE
    /\ cancelled' = IF firstErr THEN cancelled ELSE TRUE
    /\ Become(t, [sub[t] EXCEPT !.pc = "stopped"])
    /\ UNCHANGED <<active, ready, phase, token, faults>>

-----------------------------------------------------------------------------
Step(t) ==
    \/ Launch(t) \/ Acquire(t) \/ Connect(t) \/ FirstData(t) \/ StoreReady(t)
    \/ Rejected(t) \/ SessionStops(t) \/ Inactive(t) \/ StoreUnready(t)
    \/ AfterSession(t) \/ Report(t)

Next ==
    \/ LaunchFails \/ Return \/ Terminate \/ CredentialsChange
    \/ \E t \in Topics : Step(t) \/ SessionBreaks(t)

Spec == Init /\ [][Next]_vars

-----------------------------------------------------------------------------
(* Properties.                                                             *)

Returned == phase \in {"clean", "error"}

TypeOK ==
    /\ sub \in [Topics -> SubState]
    /\ active \in 0..Cardinality(Topics)
    /\ ready \in BOOLEAN /\ cancelled \in BOOLEAN /\ firstErr \in BOOLEAN
    /\ phase \in {"launch", "wait", "giveup", "clean", "error"}
    /\ token \in {"ok", "noaccess", "revoked"}
    /\ faults \in Nat

(* /readyz says what the operations guide says: while no callback is half   *)
(* done, the process is ready exactly when every topic has a session that   *)
(* has received data.                                                       *)
ReadyWhenActive ==
    (\A t \in Topics : sub[t].pc \notin {"ready", "ended", "unready"}) =>
       (ready <=> \A t \in Topics : sub[t].pc = "stream" /\ sub[t].healthy)

(* A collector that has returned is not ready, and reports a clean stop     *)
(* only if every topic was started and none ended with an error, be it in   *)
(* the last flush of a shutdown.                                            *)
TruthfulExit ==
    Returned => /\ ~ready
                /\ active = 0
                /\ phase = "clean" => \A t \in Topics : sub[t].pc = "stopped" /\ ~sub[t].fatal

(* Credentials that stop working for good stop the collector, also when the *)
(* login still succeeds and only the session is rejected.                   *)
BadCredentialsStop == <>[](token # "ok") => <>Returned

(* The first fatal error of a topic stops every topic and the process.      *)
FirstErrorStopsAll == firstErr ~> Returned

(* The counter behind readiness stays between 0 and the number of topics   *)
(* (OnActive), and the way RunService returns is the truth.                *)
ServiceSafe == TypeOK /\ TruthfulExit

=============================================================================
