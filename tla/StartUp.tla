------------------------------ MODULE StartUp ------------------------------
(***************************************************************************)
(* How the two collectors start: the configuration file is read, "$VAR"    *)
(* values are replaced, the parts both share and the parts of one command  *)
(* are checked, and the archive, the Redis client and the login are built  *)
(* from what was accepted.                                                 *)
(*                                                                         *)
(* A configuration is a record of the fields some check or constructor     *)
(* looks at.  A field holds Empty, the empty string, when it is not set,   *)
(* Var when it names an environment variable, and otherwise a stand-in for *)
(* its usual value.                                                        *)
(***************************************************************************)
EXTENDS Integers, Sequences, SequencesExt

CONSTANT Configs  \* the configuration files under consideration

Var   == "$VAR"
Empty == "empty"

Methods == {"jwt", "clientCred", "userPass"}

(* A custom query and a configuration, with the fields the code looks at.  *)
Query ==
    [timestamp : STRING, endTimestamp : STRING, apiName : STRING, apiVer : STRING,
     from : STRING, select : SUBSET STRING, limitInTail : BOOLEAN]

Config ==
    [section : BOOLEAN, isTemplate : BOOLEAN, version : STRING,
     s3 : STRING, local : STRING, name : STRING, tokenUrl : STRING,
     auth : [Methods -> {"absent", "partial", "full"}],
     redis : BOOLEAN, host : STRING, mode : STRING, dbNumber : Int,
     tls : BOOLEAN, caFile : STRING, iam : BOOLEAN, iamNames : BOOLEAN,
     region : STRING, password : STRING,
     topics : Seq(STRING), initialReplay : STRING, leaseTtl : Nat,
     apiVer : STRING, limitsApiVer : STRING, requestTimeout : Nat, eventTypes : Seq(STRING),
     queries : Seq(Query), fileQueries : Seq(Query), filesReadable : BOOLEAN]

ASSUME StartAssumption == Configs \subseteq Config

VARIABLES
    cmd,    \* "stream" or "eventlog"
    env,    \* what VAR is in the environment: "unset", Empty or a value
    conf,   \* the configuration, as it is now
    at,     \* the next step of run, "running" or "exited"
    code    \* exit status, -1 while the process lives

startVars == <<cmd, env, conf, at, code>>

StartInit ==
    /\ cmd \in {"stream", "eventlog"}
    /\ env \in {"unset", Empty, "value"}
    /\ conf \in Configs
    /\ at = "read" /\ code = -1

Exit(status) ==
    /\ at' = "exited" /\ code' = status /\ UNCHANGED <<cmd, env, conf>>

Goto(step) == at' = step /\ UNCHANGED <<cmd, env, code>>

-----------------------------------------------------------------------------
(* scanEnvVars walks maps of maps; lists are not looked into.              *)
ScannedFields ==
    {"version", "s3", "local", "name", "tokenUrl", "host", "mode", "caFile", "region",
     "password", "initialReplay", "apiVer", "limitsApiVer"}

NeedsEnv(c) == \E f \in ScannedFields : c[f] = Var

scanEnvVars(c) == [f \in DOMAIN c |-> IF f \in ScannedFields /\ c[f] = Var THEN env ELSE c[f]]

CheckArchive(c) ==
    /\ c.s3 # "none" \/ c.local # "none"
    /\ c.s3 = "none" \/ c.local = "none"
    /\ c.s3 # Empty /\ c.local # Empty

(* integrityCheck: the file is not a template, its version is 3.x and it   *)
(* has one archive destination.                                            *)
integrityCheck(c) ==
    /\ ~c.isTemplate
    /\ c.version \in {"3.0", "3.1"}
    /\ CheckArchive(c)

ReadConfig ==
    /\ at = "read"
    /\ IF NeedsEnv(conf) /\ env = "unset" THEN Exit(1)
       ELSE IF ~integrityCheck(scanEnvVars(conf)) THEN Exit(2)
       ELSE conf' = scanEnvVars(conf) /\ Goto(IF cmd = "eventlog" THEN "files" ELSE "check")

ReadFails == at = "read" /\ Exit(2)

(* The event log collector adds the queries of its query files and reads   *)
(* the field mapping before anything is checked.                           *)
ParseQueryFiles ==
    /\ at = "files"
    /\ IF ~conf.section \/ ~conf.filesReadable THEN Exit(2)
       ELSE /\ conf' = [conf EXCEPT !.queries = @ \o conf.fileQueries]
            /\ Goto("check")

-----------------------------------------------------------------------------
(* Mutant: the credentials of the first method are looked at.              *)
CheckAuthFirst(c) ==
    /\ c.tokenUrl \notin {Empty, "bad"}
    /\ IF c.auth["userPass"] # "absent" THEN c.auth["userPass"] = "full"
       ELSE IF c.auth["clientCred"] # "absent" THEN c.auth["clientCred"] = "full"
       ELSE c.auth["jwt"] = "full"

CheckAuth(c) ==
    /\ c.tokenUrl \notin {Empty, "bad"}
    /\ \E m \in Methods : \A n \in Methods : c.auth[n] # "absent" <=> n = m
    /\ \A m \in Methods : c.auth[m] # "partial"

(* Mutant: IAM authentication is accepted without TLS.                     *)
CheckCachePlain(c) ==
    c.redis => /\ c.host # Empty
               /\ c.mode \in {Empty, "standalone", "cluster"}
               /\ c.iam => c.iamNames /\ c.password = Empty

CheckCache(c) ==
    c.redis => /\ c.host # Empty
               /\ c.mode \in {Empty, "standalone", "cluster"}
               /\ c.iam => c.tls /\ c.iamNames /\ c.password = Empty

checkTopics(topics) == topics # <<>> /\ IsInjective(topics)

(* Mutant: a stream collector may fall back to the in-process cache, as    *)
(* the event log collector does.                                           *)
StreamCheckLax(c) ==
    /\ c.section /\ c.name # Empty
    /\ CheckAuth(c) /\ CheckCache(c) /\ checkTopics(c.topics)
    /\ c.initialReplay \in {Empty, "EARLIEST", "LATEST", "latest"}
    /\ c.leaseTtl # 0 => c.leaseTtl >= 3

(* stream.IntegrityCheck                                                   *)
StreamCheck(c) ==
    /\ c.section /\ c.name # Empty
    /\ CheckAuth(c)
    /\ c.redis
    /\ CheckCache(c)
    /\ checkTopics(c.topics)
    /\ c.initialReplay \in {Empty, "EARLIEST", "LATEST", "latest"}
    /\ c.leaseTtl # 0 => c.leaseTtl >= 3

defaultApiVer == "55.0"

Or(value, default) == IF value = Empty THEN default ELSE value

QueryDefaults(q, ver) == [q EXCEPT !.apiVer = Or(@, ver), !.apiName = Or(@, "rest")]

(* Mutant: queries inherit the version before its default is filled in.    *)
EventLogDefaultsLate(c) ==
    [c EXCEPT !.requestTimeout = IF @ = 0 THEN 30 ELSE @,
              !.apiVer = Or(@, defaultApiVer),
              !.limitsApiVer = Or(@, c.apiVer),
              !.queries = [i \in DOMAIN @ |-> QueryDefaults(@[i], c.apiVer)]]

(* What eventlog.IntegrityCheck fills in.                                  *)
EventLogDefaults(c) ==
    LET ver == Or(c.apiVer, defaultApiVer)
    IN [c EXCEPT !.requestTimeout = IF @ = 0 THEN 30 ELSE @,
                 !.apiVer = ver,
                 !.limitsApiVer = Or(@, ver),
                 !.queries = [i \in DOMAIN @ |-> QueryDefaults(@[i], ver)]]

CheckQuery(q) ==
    /\ q.timestamp # Empty /\ q.from # Empty
    /\ q.apiName \in {Empty, "rest", "tooling"}
    /\ q.timestamp \in q.select
    /\ q.endTimestamp # Empty => q.endTimestamp \in q.select
    /\ ~q.limitInTail

(* eventlog.IntegrityCheck; an event type that is not a word is refused.   *)
EventLogCheck(c) ==
    /\ c.section /\ c.name # Empty
    /\ CheckAuth(c) /\ CheckCache(c)
    /\ \A i \in DOMAIN c.eventTypes : c.eventTypes[i] \notin {Var, "not a word"}
    /\ \A i \in DOMAIN c.queries : CheckQuery(c.queries[i])

IntegrityCheck ==
    /\ at = "check"
    /\ IF cmd = "stream"
       THEN IF StreamCheck(conf) THEN Goto("sink") /\ UNCHANGED conf ELSE Exit(2)
       ELSE IF EventLogCheck(conf) THEN Goto("sink") /\ conf' = EventLogDefaults(conf) ELSE Exit(2)

-----------------------------------------------------------------------------
(* FromConfig; creating the directory or loading the AWS settings can fail.*)
FromConfig ==
    /\ at = "sink"
    /\ \/ (conf.s3 # "none" \/ conf.local # "none") /\ Goto("redis") /\ UNCHANGED conf
       \/ Exit(1)

buildTLSConfig(c) == c.tls => c.caFile \in {Empty, "good"}

newIAMTokenProvider(c) == c.iamNames /\ c.region # Empty

(* Whether NewClient builds a client; it does not connect yet.             *)
NewClient(c) ==
    /\ c.host # Empty
    /\ buildTLSConfig(c)
    /\ c.mode \in {Empty, "standalone", "cluster"}
    /\ c.mode = "cluster" => c.dbNumber = 0
    /\ c.iam => c.tls /\ newIAMTokenProvider(c)

(* BuildCache and BuildRedisClient; without Redis the event log collector  *)
(* has an in-process cache.                                                *)
BuildCache ==
    /\ at = "redis"
    /\ IF conf.redis /\ ~NewClient(conf) THEN Exit(1)
       ELSE Goto("connect") /\ UNCHANGED conf

(* The stream collector pings Redis, the event log collector logs in when  *)
(* the organisation is not configured; then the metrics server starts.     *)
ConnectRedis ==
    /\ at = "connect"
    /\ (Goto("running") /\ UNCHANGED conf) \/ Exit(1)

StartNext ==
    \/ ReadConfig \/ ReadFails \/ ParseQueryFiles \/ IntegrityCheck
    \/ FromConfig \/ BuildCache \/ ConnectRedis

StartSpec == StartInit /\ [][StartNext]_startVars

-----------------------------------------------------------------------------
(* The method Login picks.                                                 *)
LoginMethod(c) ==
    IF c.auth["jwt"] # "absent" THEN "jwt"
    ELSE IF c.auth["clientCred"] # "absent" THEN "clientCred" ELSE "userPass"

(* Whatever method Login picks when the collector runs, its credentials    *)
(* were looked at: CheckAuth and Login agree on the method in use.         *)
LoginHasCredentials == at = "running" => conf.auth[LoginMethod(conf)] = "full"

(* A stream collector runs only with Redis and with topics that have a     *)
(* checkpoint each: no two subscribers contend for one lease, no position  *)
(* is kept in memory (IntegrityCheck, checkTopics).                        *)
StreamIsDurable ==
    at = "running" /\ cmd = "stream" =>
        /\ conf.redis /\ conf.host # Empty
        /\ conf.topics # <<>>
        /\ \A i, j \in DOMAIN conf.topics : conf.topics[i] = conf.topics[j] => i = j

(* Every query a collector runs, from the main file or from a query file,  *)
(* has what the poll builds its URL, its window and its row keys from; no  *)
(* request is without a timeout.                                           *)
QueriesComplete ==
    at = "running" /\ cmd = "eventlog" =>
        /\ conf.requestTimeout > 0 /\ conf.limitsApiVer # Empty
        /\ \A i \in DOMAIN conf.queries :
              LET q == conf.queries[i] IN
              /\ q.apiVer # Empty /\ q.apiName # Empty /\ q.from # Empty
              /\ q.timestamp \in q.select
              /\ ~q.limitInTail

(* Redis settings that were accepted are refused by the constructor only   *)
(* for what the checks do not look at: a database number in cluster mode,  *)
(* the CA file, the region.                                                *)
CheckedSettingsBuild ==
    at = "redis" /\ conf.redis /\ ~NewClient(conf) =>
        \/ conf.mode = "cluster" /\ conf.dbNumber # 0
        \/ conf.tls /\ conf.caFile \notin {Empty, "good"}
        \/ conf.iam /\ conf.region = Empty

(* What passes the checks can run: the login has its credentials, the      *)
(* stream its durable store, every query what it is built from, and the    *)
(* constructors refuse nothing the checks looked at.                       *)
AcceptedRuns ==
    LoginHasCredentials /\ StreamIsDurable /\ QueriesComplete /\ CheckedSettingsBuild

=============================================================================
