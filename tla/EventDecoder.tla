---------------------------- MODULE EventDecoder ----------------------------
(***************************************************************************)
(* One subscriber and its Pub/Sub client: events are decoded with schemas  *)
(* that are fetched when they are first needed and kept by the client.     *)
(* A fetch uses the client's OAuth session, which Salesforce may end while *)
(* the stream stays open, so a session can fail in the middle of a         *)
(* response.  What such a failure does to the position, to the delay       *)
(* before the next attempt and to the events is the subject here; writes,  *)
(* commits and the lease, which module Subscriber has, always work.        *)
(***************************************************************************)
EXTENDS Integers, FiniteSets

CONSTANTS NumEvents,    \* bound: events the topic gets
          SchemaOf,     \* the schema of each event
          Corrupt,      \* events whose payload does not fit their schema
          Unparsable,   \* schemas the client cannot parse
          InitialReplay,
          MaxAuthFailures,
          MaxBackoff,   \* doublings of RetryDelay until MaxBackoff is reached
          MaxExpiries,  \* bound: OAuth sessions that end early
          MaxOutages,   \* bound: times the schema service goes away
          MaxBreaks     \* bound: streams and logins that fail

Events == 1..NumEvents

ASSUME EventDecoderAssumption ==
    /\ {NumEvents, MaxBackoff, MaxExpiries, MaxOutages, MaxBreaks} \subseteq Nat
    /\ MaxAuthFailures \in Nat \ {0}
    /\ DOMAIN SchemaOf = Events /\ Corrupt \subseteq Events
    /\ InitialReplay \in {"EARLIEST", "LATEST"}

None == -1

VARIABLES
    head,         \* events published
    tokenOK,      \* Salesforce accepts the client's access token
    schemaUp,     \* GetSchema answers
    expiries, outages, breaks,
    orgKnown,     \* the client has logged in
    schemaCache,  \* schemas the client has parsed
    pc,           \* "down", "open", "select", "decode", "backoff" or "fatal"
    cursor,       \* last event of the stream that is done with
    upTo,         \* last event of the response in hand
    buffer,       \* events decoded and not archived
    committed,    \* the checkpoint, or None
    healthy,      \* sessionHealthy
    authFailures,
    backoff,      \* doublings of the delay before the next session
    err,          \* how the last session ended
    received,     \* events some session received
    archived,
    answered,     \* history: the session has dealt with a whole response
    futile        \* history: sessions in a row that got nowhere

outside == <<head, tokenOK, schemaUp, expiries, outages, breaks>>
client  == <<orgKnown, schemaCache>>
stream  == <<cursor, upTo, buffer, committed, received, archived>>
retry   == <<healthy, authFailures, backoff, err, answered, futile>>
vars == <<outside, client, pc, stream, retry>>

TypeOK ==
    /\ head \in 0..NumEvents /\ tokenOK \in BOOLEAN /\ schemaUp \in BOOLEAN
    /\ expiries \in 0..MaxExpiries /\ outages \in 0..MaxOutages /\ breaks \in 0..MaxBreaks
    /\ orgKnown \in BOOLEAN
    /\ schemaCache \subseteq {SchemaOf[e] : e \in Events} \ Unparsable
    /\ pc \in {"down", "open", "select", "decode", "backoff", "fatal"}
    /\ cursor \in 0..NumEvents /\ upTo \in 0..NumEvents
    /\ buffer \subseteq Events /\ committed \in {None} \union 0..NumEvents
    /\ healthy \in BOOLEAN /\ authFailures \in 0..MaxAuthFailures
    /\ backoff \in 0..MaxBackoff
    /\ err \in {"none", "auth", "schema", "stream", "corrupt"}
    /\ received \subseteq Events /\ archived \subseteq Events
    /\ answered \in BOOLEAN /\ futile \in 0..(MaxBackoff + 1)

Init ==
    /\ head = 0 /\ tokenOK = FALSE /\ schemaUp = TRUE
    /\ expiries = 0 /\ outages = 0 /\ breaks = 0
    /\ orgKnown = FALSE /\ schemaCache = {}
    /\ pc = "down" /\ cursor = 0 /\ upTo = 0 /\ buffer = {} /\ committed = None
    /\ healthy = FALSE /\ authFailures = 0 /\ backoff = 0 /\ err = "none"
    /\ answered = FALSE /\ futile = 0
    /\ received = {} /\ archived = {}

-----------------------------------------------------------------------------
(* Salesforce.                                                             *)
Publish ==
    /\ head < NumEvents /\ head' = head + 1
    /\ UNCHANGED <<tokenOK, schemaUp, expiries, outages, breaks, client, pc, stream, retry>>

Expire ==
    /\ tokenOK /\ expiries < MaxExpiries
    /\ tokenOK' = FALSE /\ expiries' = expiries + 1
    /\ UNCHANGED <<head, schemaUp, outages, breaks, client, pc, stream, retry>>

SchemaServiceDown ==
    /\ schemaUp /\ outages < MaxOutages
    /\ schemaUp' = FALSE /\ outages' = outages + 1
    /\ UNCHANGED <<head, tokenOK, expiries, breaks, client, pc, stream, retry>>

SchemaServiceBack ==
    /\ ~schemaUp /\ schemaUp' = TRUE
    /\ UNCHANGED <<head, tokenOK, expiries, outages, breaks, client, pc, stream, retry>>

-----------------------------------------------------------------------------
(* flush and commit: the buffer is archived, the checkpoint is its last    *)
(* event.                                                                  *)
Flush ==
    /\ archived' = archived \union buffer
    /\ committed' = IF buffer = {} THEN committed ELSE CHOOSE e \in buffer : \A f \in buffer : f <= e
    /\ buffer' = {}

(* The session ends with an error that is not fatal, after the deferred    *)
(* flush.                                                                  *)
EndSession(e) ==
    /\ pc' = "backoff" /\ err' = e
    /\ Flush
    /\ UNCHANGED <<cursor, upTo, received>>

Fatal(e) ==
    /\ pc' = "fatal" /\ err' = e
    /\ buffer' = {}
    /\ UNCHANGED <<cursor, upTo, committed, received, archived>>

(* Mutant: one failure more is let through.                                *)
authFailedLate(n) ==
    /\ authFailures' = n + 1
    /\ IF authFailures' > MaxAuthFailures THEN Fatal("auth") ELSE EndSession("auth")

(* authFailed after n failures: too many in a row before any data arrives  *)
(* are fatal.                                                              *)
authFailed(n) ==
    /\ authFailures' = n + 1
    /\ IF authFailures' >= MaxAuthFailures THEN Fatal("auth") ELSE EndSession("auth")

(* session: the first one logs in.                                         *)
Login ==
    /\ pc = "down" /\ ~orgKnown
    /\ orgKnown' = TRUE /\ tokenOK' = TRUE /\ pc' = "open" /\ healthy' = FALSE
    /\ UNCHANGED <<head, schemaUp, expiries, outages, breaks, schemaCache, stream,
                   authFailures, backoff, err, answered, futile>>

LoginFails ==
    /\ pc = "down" /\ ~orgKnown /\ breaks < MaxBreaks
    /\ breaks' = breaks + 1
    /\ authFailed(authFailures)
    /\ UNCHANGED <<head, tokenOK, schemaUp, expiries, outages, client, healthy, backoff, answered, futile>>

HaveLogin ==
    /\ pc = "down" /\ orgKnown /\ pc' = "open" /\ healthy' = FALSE
    /\ UNCHANGED <<outside, client, stream, authFailures, backoff, err, answered, futile>>

(* The stream starts after the checkpoint, or where InitialReplay says.    *)
Subscribe ==
    /\ pc = "open" /\ tokenOK
    /\ pc' = "select"
    /\ cursor' = IF committed # None THEN committed ELSE IF InitialReplay = "EARLIEST" THEN 0 ELSE head
    /\ UNCHANGED <<outside, client, upTo, buffer, committed, received, archived, retry>>

(* Mutant: the session is tried again as it is.                            *)
ReauthenticateNot ==
    /\ UNCHANGED authFailures
    /\ EndSession("auth")
    /\ UNCHANGED <<outside, client, healthy, backoff, answered, futile>>

(* classifyStreamError, a rejected session: log in again.  Failures are    *)
(* counted afresh when the session had received data; one that had not     *)
(* counts even if the login works.                                         *)
Reauthenticate ==
    /\ \/ /\ tokenOK' = TRUE /\ UNCHANGED breaks
          /\ IF healthy THEN authFailures' = 0 /\ EndSession("auth") ELSE authFailed(authFailures)
       \/ /\ breaks < MaxBreaks /\ breaks' = breaks + 1 /\ UNCHANGED tokenOK
          /\ authFailed(IF healthy THEN 0 ELSE authFailures)
    /\ UNCHANGED <<head, schemaUp, expiries, outages, client, healthy, backoff, answered, futile>>

(* Salesforce refuses the stream, or ends it later because the token has   *)
(* expired.                                                                *)
Rejected      == pc = "open" /\ ~tokenOK /\ Reauthenticate
RejectedLater == pc = "select" /\ ~tokenOK /\ Reauthenticate

(* The stream cannot be opened, breaks or falls silent.                    *)
StreamBreaks ==
    /\ pc \in {"open", "select"} /\ breaks < MaxBreaks
    /\ breaks' = breaks + 1
    /\ EndSession("stream")
    /\ UNCHANGED <<head, tokenOK, schemaUp, expiries, outages, client, healthy, authFailures,
                   backoff, answered, futile>>

(* A response with events; it shows that the credentials work.             *)
Receive ==
    /\ pc = "select" /\ cursor < head
    /\ upTo' \in (cursor + 1)..head
    /\ received' = received \union (cursor + 1)..upTo'
    /\ healthy' = TRUE /\ authFailures' = IF healthy THEN authFailures ELSE 0
    /\ pc' = "decode"
    /\ UNCHANGED <<outside, client, cursor, buffer, committed, archived, backoff, err, answered, futile>>

(* A keepalive.  With nothing buffered, and demand outstanding although    *)
(* nothing is left to deliver, it moves the checkpoint.                    *)
Keepalive ==
    /\ pc = "select"
    /\ committed' = IF cursor = head /\ buffer = {} THEN head ELSE committed
    /\ healthy' = TRUE /\ authFailures' = IF healthy THEN authFailures ELSE 0
    /\ answered' = TRUE
    /\ UNCHANGED <<outside, client, pc, cursor, upTo, buffer, received, archived, backoff, err, futile>>

-----------------------------------------------------------------------------
(* fetchSchema: TRUE when the client has the schema already or can fetch   *)
(* and parse it.  GetSchema carries the client's token.                    *)
fetchSchema(s) == s \in schemaCache \/ (tokenOK /\ schemaUp /\ s \notin Unparsable)

(* Mutant: an event that cannot be decoded is skipped.                     *)
DecodeSkips ==
    /\ pc = "decode" /\ cursor < upTo /\ fetchSchema(SchemaOf[cursor + 1])
    /\ schemaCache' = schemaCache \union {SchemaOf[cursor + 1]}
    /\ cursor' = cursor + 1
    /\ buffer' = IF cursor' \in Corrupt THEN buffer ELSE buffer \union {cursor'}
    /\ UNCHANGED <<outside, orgKnown, pc, upTo, committed, received, archived, retry>>

(* DecodeEvent: one event of the response; an undecodable one is fatal.    *)
DecodeEvent ==
    /\ pc = "decode" /\ cursor < upTo /\ fetchSchema(SchemaOf[cursor + 1])
    /\ schemaCache' = schemaCache \union {SchemaOf[cursor + 1]}
    /\ IF cursor + 1 \in Corrupt
       THEN Fatal("corrupt")
       ELSE /\ cursor' = cursor + 1 /\ buffer' = buffer \union {cursor + 1}
            /\ UNCHANGED <<pc, err, upTo, committed, received, archived>>
    /\ UNCHANGED <<outside, orgKnown, healthy, authFailures, backoff, answered, futile>>

(* SchemaFetchError: the session ends and reconnects.                      *)
DecodeSchemaFails ==
    /\ pc = "decode" /\ cursor < upTo /\ ~fetchSchema(SchemaOf[cursor + 1])
    /\ EndSession("schema")
    /\ UNCHANGED <<outside, client, healthy, authFailures, backoff, answered, futile>>

(* The first batch is flushed at once to pin the position.                 *)
ResponseDone ==
    /\ pc = "decode" /\ cursor = upTo /\ pc' = "select" /\ answered' = TRUE
    /\ IF committed = None THEN Flush ELSE UNCHANGED <<buffer, committed, archived>>
    /\ UNCHANGED <<outside, client, cursor, upTo, received, healthy, authFailures, backoff, err, futile>>

FlushTimer ==
    /\ pc = "select" /\ buffer # {}
    /\ Flush
    /\ UNCHANGED <<outside, client, pc, cursor, upTo, received, retry>>

-----------------------------------------------------------------------------
(* Mutant: every session that received data resets the delay.              *)
ProgressedOnData == healthy

(* Run: the delay starts afresh after a session that got somewhere.        *)
progressed == healthy /\ err # "schema"

Backoff ==
    /\ pc = "backoff" /\ pc' = "down"
    /\ backoff' = IF progressed THEN 0 ELSE IF backoff < MaxBackoff THEN backoff + 1 ELSE MaxBackoff
    /\ futile' = IF answered /\ err # "schema" THEN 0
                 ELSE IF futile <= MaxBackoff THEN futile + 1 ELSE futile
    /\ answered' = FALSE
    /\ UNCHANGED <<outside, client, stream, healthy, authFailures, err>>

Step ==
    \/ Login \/ HaveLogin \/ Subscribe \/ Rejected \/ Receive \/ Keepalive
    \/ DecodeEvent \/ DecodeSchemaFails \/ ResponseDone \/ FlushTimer \/ Backoff

Next ==
    \/ Publish \/ Expire \/ SchemaServiceDown \/ SchemaServiceBack
    \/ LoginFails \/ StreamBreaks \/ RejectedLater \/ Step

Spec == Init /\ [][Next]_vars

-----------------------------------------------------------------------------
(* The checkpoint passes only events that are archived: nothing behind a   *)
(* failed schema fetch or an undecodable event is passed over.  With       *)
(* EARLIEST the topic starts at its first event.                           *)
NothingPassedOver ==
    InitialReplay = "EARLIEST" /\ committed # None => 1..committed \subseteq archived

(* The delay grows, up to its limit, with every session in a row that gets *)
(* nowhere: it ends at a schema that cannot be had, whatever it received,  *)
(* or before it has dealt with one whole response, because its login or    *)
(* its stream was refused or broke.  A session that is rejected or breaks  *)
(* after that starts the delay afresh (Run, sessionHealthy).               *)
SlowsDown == pc = "down" => backoff >= IF futile < MaxBackoff THEN futile ELSE MaxBackoff

(* Every event is archived and committed in the end, when OAuth sessions   *)
(* and the schema service fail only for a while, unless the collector has  *)
(* stopped at an event it cannot decode or after too many failed logins.   *)
EventuallyCommitted == \A e \in Events : head >= e ~> committed >= e \/ pc = "fatal"

(* Failed logins are counted up to their limit (authFailed), and the       *)
(* checkpoint passes nothing over.                                         *)
DecoderSafe == TypeOK /\ NothingPassedOver

=============================================================================
