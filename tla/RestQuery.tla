----------------------------- MODULE RestQuery -----------------------------
(***************************************************************************)
(* SOQL queries over REST: collectors that share one cached OAuth token,   *)
(* log in again when it is rejected, and follow the pages of a result.     *)
(*                                                                         *)
(* Client: auth, relogin, requestWithTimeout, getJSON and the page loop of *)
(* RequestLogFiles and RequestCustomQuery (query.go), the org discovery at *)
(* start-up (main.go) and the logins of internal/oauth.  Server: tokens,   *)
(* query cursors and faults of internal/mocksf.                            *)
(*                                                                         *)
(* Abstractions: the rows of the queried object are 1, 2, ... in the order *)
(* of the query; a token is an opaque value; the steps of a request that   *)
(* touch shared state (cache, server) are separate actions, everything     *)
(* between two of them is one.                                             *)
(***************************************************************************)
EXTENDS Integers, FiniteSets, Sequences

CONSTANTS Clients,       \* collectors with the same configured name
          Tokens,        \* access tokens
          AuthConfigs,   \* configurations of the logins: sets of methods
          QueryPageSize, \* server: rows in one page
          MaxPages,      \* client: pages followed before giving up
          MaxRows,       \* bound: rows of the queried object
          Truncating,    \* server: does it cut results without a next page?
          MaxExpiries,   \* bound: times tokens expire
          MaxFaults,     \* bound: failures injected
          NoToken

ASSUME RestAssumption ==
    /\ QueryPageSize \in Nat \ {0} /\ MaxPages \in Nat \ {0}
    /\ {MaxRows, MaxExpiries, MaxFaults} \subseteq Nat
    /\ Truncating \subseteq BOOLEAN /\ Truncating # {}
    /\ IsFiniteSet(Clients) /\ IsFiniteSet(Tokens)
    /\ Cardinality(Tokens) > Cardinality(Clients) + 1
    /\ NoToken \notin Tokens \union Clients

VARIABLES
    auth,      \* the login methods of the configuration
    truncate,  \* server option TruncateQueryResults
    rows,      \* rows the queried object has
    valid,     \* server: tokens issued and not expired
    cursors,   \* server: open query cursors
    cached,    \* the token under the shared cache key, or NoToken
    pc,        \* client: its next step
    token,     \* client: the token it holds
    phase,     \* client: "first" attempt, "relogin" or "retry" of a request
    page,      \* client: pages received so far
    next,      \* client: the cursor of the next page
    got,       \* client: rows received so far
    result,    \* client: how its last query ended
    snapshot,  \* ghost: rows the object had when the query ran
    disturbed, \* ghost: did something go wrong beside its request, see RejectionExplained
    expiries, faults

clientVars == <<pc, token, phase, page, next, got, result>>
ghostVars  == <<snapshot, disturbed>>
serverVars == <<rows, valid, cursors>>
setVars    == <<auth, truncate>>
countVars  == <<expiries, faults>>
vars == <<setVars, serverVars, cached, clientVars, ghostVars, countVars>>

Cursor   == [owner : Clients, size : 0..MaxRows, offset : 0..MaxRows]
NoCursor == [owner |-> NoToken, size |-> 0, offset |-> 0]
Results  == {"none", "complete", "rejected", "locator", "error"}

TypeOK ==
    /\ auth \in AuthConfigs /\ truncate \in Truncating
    /\ rows \in 0..MaxRows
    /\ valid \subseteq Tokens
    /\ cursors \subseteq Cursor
    /\ cached \in Tokens \union {NoToken}
    /\ pc \in [Clients -> {"start", "whoami", "idle", "auth", "login", "store", "send", "drop"}]
    /\ token \in [Clients -> Tokens \union {NoToken}]
    /\ phase \in [Clients -> {"first", "relogin", "retry"}]
    /\ page \in [Clients -> 0..(MaxPages - 1)]
    /\ next \in [Clients -> Cursor \union {NoCursor}]
    /\ got \in [Clients -> Seq(1..MaxRows)]
    /\ result \in [Clients -> Results]
    /\ snapshot \in [Clients -> 0..MaxRows]
    /\ disturbed \in [Clients -> BOOLEAN]
    /\ expiries \in 0..MaxExpiries /\ faults \in 0..MaxFaults

Init ==
    /\ auth \in AuthConfigs /\ truncate \in Truncating
    /\ rows = 0 /\ valid = {} /\ cursors = {}
    /\ cached = NoToken
    /\ pc = [c \in Clients |-> "start"]
    /\ token = [c \in Clients |-> NoToken]
    /\ phase = [c \in Clients |-> "first"]
    /\ page = [c \in Clients |-> 0]
    /\ next = [c \in Clients |-> NoCursor]
    /\ got = [c \in Clients |-> <<>>]
    /\ result = [c \in Clients |-> "none"]
    /\ snapshot = [c \in Clients |-> 0]
    /\ disturbed = [c \in Clients |-> FALSE]
    /\ expiries = 0 /\ faults = 0

-----------------------------------------------------------------------------
(* Logins.  A method of the configuration is [kind, good]: good credentials*)
(* are those the server accepts, a good JWT method has a usable key file.  *)

AuthWithJwt(m)        == [grant |-> "jwt-bearer", sent |-> m.good, good |-> TRUE]
AuthWithClientCred(m) == [grant |-> "client_credentials", sent |-> TRUE, good |-> m.good]
AuthWithUserPass(m)   == [grant |-> "password", sent |-> TRUE, good |-> m.good]
NoLogin               == [grant |-> "none", sent |-> FALSE, good |-> FALSE]

(* Login tries the methods in this order and uses the first configured.    *)
Login(methods) ==
    LET Of(kind) == {m \in methods : m.kind = kind}
        The(kind) == CHOOSE m \in Of(kind) : TRUE
    IN  CASE Of("jwt") # {}        -> AuthWithJwt(The("jwt"))
          [] Of("clientCred") # {} -> AuthWithClientCred(The("clientCred"))
          [] Of("userPass") # {}   -> AuthWithUserPass(The("userPass"))
          [] OTHER                 -> NoLogin

(* The token endpoint: which grants it honours.                            *)
HandleToken(req) ==
    \/ req.grant = "client_credentials" /\ req.good
    \/ req.grant = "jwt-bearer"

Accepted == Login(auth).sent /\ HandleToken(Login(auth))

-----------------------------------------------------------------------------
(* The server.                                                             *)

Held == {cached} \union {token[c] : c \in Clients}

(* A fresh token is one that nobody holds; which one does not matter, and  *)
(* neither does a token that nobody holds any more.                        *)
IssueToken(c) ==
    LET t == CHOOSE t \in Tokens \ Held : TRUE
    IN  /\ valid' = (valid \intersect Held) \union {t}
        /\ token' = [token EXCEPT ![c] = t]

ValidToken(t) == t \in valid

(* What a page holds and which cursor leads on.                            *)
RespondPage(c, size, offset) ==
    LET end == IF offset + QueryPageSize > size THEN size ELSE offset + QueryPageSize
    IN  [rows |-> [i \in 1..(end - offset) |-> offset + i],
         done |-> end >= size /\ ~truncate,
         url  |-> IF truncate \/ end >= size THEN NoCursor
                  ELSE [owner |-> c, size |-> size, offset |-> end]]

AddRow ==
    /\ rows < MaxRows
    /\ rows' = rows + 1
    /\ UNCHANGED <<setVars, valid, cursors, cached, clientVars, ghostVars, countVars>>

Disturb(clients) ==
    disturbed' = [c \in Clients |-> disturbed[c] \/ (c \in clients /\ pc[c] # "idle")]

(* All sessions end (ExpireTokens), or one reaches its lifetime.           *)
Expire ==
    /\ expiries < MaxExpiries /\ valid # {}
    /\ valid' \in {{}} \union {valid \ {t} : t \in valid}
    /\ expiries' = expiries + 1
    /\ Disturb(Clients)
    /\ UNCHANGED <<setVars, rows, cursors, cached, clientVars, snapshot, faults>>

(* The cache entry of the token expires, or is evicted.                    *)
CacheExpires ==
    /\ cached # NoToken
    /\ cached' = NoToken
    /\ UNCHANGED <<setVars, serverVars, clientVars, ghostVars, countVars>>

Fault == faults < MaxFaults /\ faults' = faults + 1

-----------------------------------------------------------------------------
(* The client.                                                             *)

Goto(c, step) == pc' = [pc EXCEPT ![c] = step]

(* The query ends: what was received is handed over or thrown away.        *)
Finish(c, how, received) ==
    /\ result' = [result EXCEPT ![c] = how]
    /\ got' = [got EXCEPT ![c] = received]
    /\ page' = [page EXCEPT ![c] = 0]
    /\ phase' = [phase EXCEPT ![c] = "first"]
    /\ token' = [token EXCEPT ![c] = NoToken]
    /\ next' = [next EXCEPT ![c] = NoCursor]
    /\ Goto(c, "idle")

(* Start-up: a login of its own and a call of userinfo name the org.  A    *)
(* failure ends the process, which is started again.                       *)
DiscoverOrgId(c) ==
    /\ pc[c] = "start" /\ Accepted
    /\ IssueToken(c)
    /\ Goto(c, "whoami")
    /\ UNCHANGED <<setVars, rows, cursors, cached, phase, page, next, got, result, ghostVars, countVars>>

UserInfo(c) ==
    /\ pc[c] = "whoami"
    /\ Goto(c, IF ValidToken(token[c]) THEN "idle" ELSE "start")
    /\ token' = [token EXCEPT ![c] = NoToken]
    /\ UNCHANGED <<setVars, serverVars, cached, phase, page, next, got, result, ghostVars, countVars>>

(* The cursors of a query that was given up are never asked for again.     *)
StartQuery(c) ==
    /\ pc[c] = "idle"
    /\ Goto(c, "auth")
    /\ got' = [got EXCEPT ![c] = <<>>]
    /\ result' = [result EXCEPT ![c] = "none"]
    /\ snapshot' = [snapshot EXCEPT ![c] = 0]
    /\ disturbed' = [disturbed EXCEPT ![c] = FALSE]
    /\ cursors' = {q \in cursors : q.owner # c}
    /\ UNCHANGED <<setVars, rows, valid, cached, token, phase, page, next, countVars>>

(* After auth: the request is sent, or a re-login turns into the retry,    *)
(* which asks the cache once more.                                         *)
Authenticated(c) ==
    IF phase[c] = "relogin"
    THEN Goto(c, "auth") /\ phase' = [phase EXCEPT ![c] = "retry"]
    ELSE Goto(c, "send") /\ UNCHANGED phase

(* auth: the cached token, or a login when there is none.  After a read    *)
(* error the Redis cache returns an empty string beside the error, and the *)
(* empty string (NoToken here) is taken for a token.                       *)
ReadCache(c) ==
    /\ pc[c] = "auth"
    /\ \/ /\ cached # NoToken
          /\ token' = [token EXCEPT ![c] = cached]
          /\ Authenticated(c)
          /\ UNCHANGED <<faults, disturbed>>
       \/ /\ cached = NoToken
          /\ Goto(c, "login")
          /\ UNCHANGED <<token, phase, faults, disturbed>>
       \/ /\ Fault
          /\ token' = [token EXCEPT ![c] = NoToken]
          /\ Authenticated(c)
          /\ Disturb({c})
    /\ UNCHANGED <<setVars, serverVars, cached, page, next, got, result, snapshot, expiries>>

LogIn(c) ==
    /\ pc[c] = "login"
    /\ \/ /\ Accepted
          /\ IssueToken(c)
          /\ Goto(c, "store")
          /\ UNCHANGED <<phase, page, next, got, result, faults>>
       \/ /\ IF Accepted THEN Fault ELSE UNCHANGED faults
          /\ Finish(c, "error", <<>>)
          /\ UNCHANGED valid
    /\ UNCHANGED <<setVars, rows, cursors, cached, ghostVars, expiries>>

(* The new token is cached; a write error only costs another login.        *)
StoreToken(c) ==
    /\ pc[c] = "store"
    /\ \/ cached' = token[c] /\ UNCHANGED faults
       \/ Fault /\ UNCHANGED cached
    /\ Disturb(IF ValidToken(token[c]) THEN {} ELSE Clients \ {c})
    /\ Authenticated(c)
    /\ UNCHANGED <<setVars, serverVars, token, page, next, got, result, snapshot, expiries>>

(* Mutant: the rejected token stays in the cache.                          *)
KeepToken(c) ==
    /\ pc[c] = "drop"
    /\ UNCHANGED <<cached, disturbed, faults>>
    /\ phase' = [phase EXCEPT ![c] = "relogin"]
    /\ token' = [token EXCEPT ![c] = NoToken]
    /\ Goto(c, "auth")
    /\ UNCHANGED <<setVars, serverVars, page, next, got, result, snapshot, expiries>>

(* relogin: forget the rejected token; an error is only logged.            *)
DropToken(c) ==
    /\ pc[c] = "drop"
    /\ \/ cached' = NoToken /\ UNCHANGED <<disturbed, faults>>
       \/ Fault /\ Disturb({c}) /\ UNCHANGED cached
    /\ phase' = [phase EXCEPT ![c] = "relogin"]
    /\ token' = [token EXCEPT ![c] = NoToken]
    /\ Goto(c, "auth")
    /\ UNCHANGED <<setVars, serverVars, page, next, got, result, snapshot, expiries>>

(* 401: the first attempt logs in again, the retry gives up.               *)
Unauthorized(c) ==
    IF phase[c] = "retry"
    THEN Finish(c, "rejected", <<>>)
    ELSE Goto(c, "drop") /\ UNCHANGED <<token, phase, page, next, got, result>>

(* The next page is a request of its own, which asks the cache again.      *)
FollowPage(c, p) ==
    /\ got' = [got EXCEPT ![c] = @ \o p.rows]
    /\ page' = [page EXCEPT ![c] = @ + 1]
    /\ next' = [next EXCEPT ![c] = p.url]
    /\ phase' = [phase EXCEPT ![c] = "first"]
    /\ token' = [token EXCEPT ![c] = NoToken]
    /\ Goto(c, "auth")
    /\ UNCHANGED result

(* Mutant: a page without a next page ends the query, complete or not.     *)
TakePageLax(c, p) ==
    IF p.url = NoCursor
    THEN Finish(c, "complete", got[c] \o p.rows)
    ELSE FollowPage(c, p)

(* Mutant: the limit on the number of pages is not enforced.               *)
TakeEveryPage(c, p) ==
    \/ p.done /\ Finish(c, "complete", got[c] \o p.rows)
    \/ ~p.done /\ p.url = NoCursor /\ Finish(c, "error", <<>>)
    \/ ~p.done /\ p.url # NoCursor /\ FollowPage(c, p)

(* The page loop: append, stop when done, fail when there is no way on or  *)
(* the limit is reached.                                                   *)
TakePage(c, p) ==
    LET stuck == p.url = NoCursor \/ page[c] + 1 >= MaxPages
    IN  \/ p.done /\ Finish(c, "complete", got[c] \o p.rows)
        \/ ~p.done /\ stuck /\ Finish(c, "error", <<>>)
        \/ ~p.done /\ ~stuck /\ FollowPage(c, p)

Open(url) == IF url = NoCursor THEN {} ELSE {url}

(* handleQuery: the result is fixed when the first page is asked for.      *)
HandleQuery(c) ==
    LET p == RespondPage(c, rows, 0)
    IN  /\ next[c] = NoCursor
        /\ snapshot' = [snapshot EXCEPT ![c] = rows]
        /\ cursors' = cursors \union Open(p.url)
        /\ TakePage(c, p)

(* handleQueryMore: a cursor serves one page and is gone.                  *)
HandleQueryMore(c) ==
    LET p == RespondPage(c, next[c].size, next[c].offset)
    IN  /\ next[c] # NoCursor
        /\ UNCHANGED snapshot
        /\ IF next[c] \in cursors
           THEN /\ cursors' = (cursors \ {next[c]}) \union Open(p.url)
                /\ TakePage(c, p)
           ELSE Finish(c, "locator", <<>>) /\ UNCHANGED cursors

(* Mutant: the cursor is used up before the session is checked.            *)
HandleDataLate(c) ==
    \/ /\ ~ValidToken(token[c])
       /\ cursors' = cursors \ {next[c]}
       /\ Unauthorized(c)
       /\ UNCHANGED <<snapshot, faults>>
    \/ /\ ValidToken(token[c])
       /\ HandleQuery(c) \/ HandleQueryMore(c)
       /\ UNCHANGED faults

(* handleData: the session is checked first, then faults, then the call.   *)
HandleData(c) ==
    \/ /\ ~ValidToken(token[c])
       /\ Unauthorized(c)
       /\ UNCHANGED <<cursors, snapshot, faults>>
    \/ /\ ValidToken(token[c])
       /\ Fault
       /\ Finish(c, "error", <<>>)
       /\ UNCHANGED <<cursors, snapshot>>
    \/ /\ ValidToken(token[c])
       /\ HandleQuery(c) \/ HandleQueryMore(c)
       /\ UNCHANGED faults

Request(c) ==
    /\ pc[c] = "send"
    /\ HandleData(c)
    /\ disturbed' = [disturbed EXCEPT ![c] = @ /\ (pc'[c] = "drop" \/ result'[c] = "rejected")]
    /\ UNCHANGED <<setVars, rows, valid, cached, expiries>>

(* The request times out; a page that was served is lost with its cursor.  *)
RequestLost(c) ==
    /\ pc[c] = "send" /\ Fault
    /\ Finish(c, "error", <<>>)
    /\ cursors' \in {cursors, cursors \ {next[c]}}
    /\ UNCHANGED <<setVars, rows, valid, cached, ghostVars, expiries>>

-----------------------------------------------------------------------------
ClientStep(c) ==
    \/ DiscoverOrgId(c) \/ UserInfo(c)
    \/ ReadCache(c) \/ LogIn(c) \/ StoreToken(c) \/ DropToken(c) \/ Request(c)

Next ==
    \/ AddRow \/ Expire \/ CacheExpires
    \/ \E c \in Clients : StartQuery(c) \/ ClientStep(c) \/ RequestLost(c)

Spec == Init /\ [][Next]_vars

-----------------------------------------------------------------------------
(* A query that reports success has every row the object had when it ran,  *)
(* once and in order; a truncated or interrupted result is an error        *)
(* (RequestLogFiles, RequestCustomQuery).                                  *)
CompleteOrError ==
    \A c \in Clients :
        result[c] = "complete" => got[c] = [i \in 1..snapshot[c] |-> i]

(* The retry after a 401 never finds its cursor used up: the rejected      *)
(* request did not reach the query (handleData, requestWithTimeout).       *)
LocatorKept == \A c \in Clients : result[c] # "locator"

(* One re-login is enough: a request is rejected for good only if a        *)
(* session expired while it ran, a slow collector cached a token that had  *)
(* expired meanwhile, or the cache could not be read or would not delete   *)
(* the old token (requestWithTimeout, relogin, auth).                      *)
RejectionExplained == \A c \in Clients : result[c] = "rejected" => disturbed[c]

(* When nothing fails any more, a stale token in the shared cache does not *)
(* lock the collectors out: as long as results fit into the pages they     *)
(* follow, every one of them completes queries again and again.            *)
EventuallyComplete ==
    Accepted /\ ~truncate /\ [](rows <= MaxPages * QueryPageSize)
        => \A c \in Clients : []<>(result[c] = "complete")

(* A query follows no more pages than it may, returns everything or an     *)
(* error, and survives a session that ends on the way (getJSON,            *)
(* RequestLogFiles, RequestCustomQuery).                                   *)
QuerySound == TypeOK /\ CompleteOrError /\ LocatorKept /\ RejectionExplained

=============================================================================
