---------------------------- MODULE MCLifecycle ----------------------------
(***************************************************************************)
(* A collector from its start to its end: configuration and start-up       *)
(* (StartUp), the service with its topics (Service), and the time a        *)
(* subscriber takes to stop (Shutdown).  A behaviour runs one of the three.*)
(***************************************************************************)
EXTENDS StartUp, Service, Shutdown

CONSTANTS t1, t2

VARIABLE part  \* the component that runs

all == <<part, startVars, vars, stopVars>>

(* Configurations that differ from a good one in at most two fields.       *)
AQuery == [timestamp |-> "ts", endTimestamp |-> Empty, apiName |-> Empty, apiVer |-> Empty,
          from |-> "Object", select |-> {"ts", "id"}, limitInTail |-> FALSE]

Queries ==
    {AQuery, [AQuery EXCEPT !.timestamp = Empty], [AQuery EXCEPT !.timestamp = "other"],
     [AQuery EXCEPT !.endTimestamp = "end"], [AQuery EXCEPT !.apiName = "soap"],
     [AQuery EXCEPT !.apiName = "tooling", !.apiVer = "60.0"], [AQuery EXCEPT !.from = Empty],
     [AQuery EXCEPT !.select = {}], [AQuery EXCEPT !.limitInTail = TRUE]}

Good ==
    [section |-> TRUE, isTemplate |-> FALSE, version |-> "3.0",
     s3 |-> "bucket", local |-> "none", name |-> "name", tokenUrl |-> "url",
     auth |-> [m \in Methods |-> IF m = "clientCred" THEN "full" ELSE "absent"],
     redis |-> TRUE, host |-> "host", mode |-> Empty, dbNumber |-> 0,
     tls |-> TRUE, caFile |-> Empty, iam |-> FALSE, iamNames |-> TRUE,
     region |-> "region", password |-> Empty,
     topics |-> <<"t1", "t2">>, initialReplay |-> Empty, leaseTtl |-> 0,
     apiVer |-> Empty, limitsApiVer |-> Empty, requestTimeout |-> 0, eventTypes |-> <<>>,
     queries |-> <<AQuery>>, fileQueries |-> <<>>, filesReadable |-> TRUE]

Alternatives(f) ==
    CASE f \in {"section", "isTemplate", "redis", "tls", "iam", "iamNames", "filesReadable"} -> BOOLEAN
      [] f = "version" -> {"3.1", "2.0", "x", Var}
      [] f \in {"s3", "local"} -> {"none", Empty, "bucket", Var}
      [] f = "auth" -> [Methods -> {"absent", "partial", "full"}]
      [] f = "tokenUrl" -> {Empty, "bad", Var}
      [] f \in {"name", "host", "password", "region"} -> {Empty, "other", Var}
      [] f = "mode" -> {"standalone", "cluster", "sentinel", Var}
      [] f = "dbNumber" -> {1}
      [] f = "caFile" -> {"good", "bad"}
      [] f = "topics" -> {<<>>, <<"t1">>, <<"t1", "t1">>, <<Var, "t1">>}
      [] f = "initialReplay" -> {"EARLIEST", "latest", "earlier", Var}
      [] f = "leaseTtl" -> {2, 3}
      [] f \in {"apiVer", "limitsApiVer"} -> {"60.0", Var}
      [] f = "requestTimeout" -> {10}
      [] f = "eventTypes" -> {<<"Login">>, <<"Login", "not a word">>, <<Var>>}
      [] f \in {"queries", "fileQueries"} -> {<<q>> : q \in Queries} \union {<<AQuery, AQuery>>}

Near(c) == {c} \union UNION {{[c EXCEPT ![f] = v] : v \in Alternatives(f)} : f \in DOMAIN c}

NearGood == UNION {Near(c) : c \in Near(Good)}

OnlyGood == {Good}

-----------------------------------------------------------------------------
(* Before it runs, each component is in its initial state; where there are *)
(* several, in one of them.                                                *)
NotStarted == StartInit /\ cmd = "stream" /\ env = "unset" /\ conf = Good

MCInit ==
    /\ Init
    /\ \/ part = "start" /\ StartInit /\ StopInit /\ pinned
       \/ part = "service" /\ NotStarted /\ StopInit /\ pinned
       \/ part = "stop" /\ NotStarted /\ StopInit

InStart(A)   == part = "start" /\ A /\ UNCHANGED <<part, vars, stopVars>>
InService(A) == part = "service" /\ A /\ UNCHANGED <<part, startVars, stopVars>>
InStop(A)    == part = "stop" /\ A /\ UNCHANGED <<part, startVars, vars>>

MCNext == InStart(StartNext) \/ InService(Next) \/ InStop(StopNext)

(* Every goroutine runs on, a server that rejects a session says so, and a *)
(* lease that another process holds becomes free.                          *)
ServiceFairness ==
    /\ WF_all(InService(Return))
    /\ \A t \in Topics : WF_all(InService(Step(t)))

(* Goroutines run, time passes, and select does not pass over a case for   *)
(* ever.  An upload need not end by itself.                                *)
StopFairness ==
    /\ WF_all(InStop(Decode)) /\ WF_all(InStop(FlushAborted))
    /\ WF_all(InStop(Renew)) /\ WF_all(InStop(Tick))
    /\ SF_all(InStop(SelectDone)) /\ SF_all(InStop(SelectRenewErr))

MCSpec == MCInit /\ [][MCNext]_all /\ ServiceFairness /\ StopFairness
=============================================================================
