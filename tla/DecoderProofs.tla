--------------------------- MODULE DecoderProofs ----------------------------
(***************************************************************************)
(* The proofs about EventDecoder, for every number of events, every        *)
(* assignment of schemas, and any number of expired sessions, outages and  *)
(* broken streams.                                                         *)
(*                                                                         *)
(* NothingPassedOver looks at the checkpoint alone.  What a flush will     *)
(* make of it depends on the buffer: its last event is the cursor, and     *)
(* everything up to the cursor is archived or in it (BufferOK).  SlowsDown *)
(* depends on which sessions count as healthy: apart from one that ends at *)
(* a schema, only one that has dealt with a whole response (HealthOK).     *)
(***************************************************************************)
EXTENDS EventDecoder, TLAPS

InSession == pc \in {"select", "decode"}

PositionOK ==
    /\ cursor \in 0..head /\ upTo \in 0..head /\ head \in 0..NumEvents
    /\ pc = "decode" => cursor <= upTo
    /\ committed # None => committed <= head

(* The buffer ends at the cursor, and outside of a session it is empty.    *)
BufferOK ==
    /\ buffer \subseteq 1..cursor
    /\ buffer # {} => cursor \in buffer
    /\ buffer # {} => InSession

(* Nothing before the cursor is missing.                                   *)
CoveredOK ==
    InitialReplay = "EARLIEST" =>
       /\ NothingPassedOver
       /\ InSession => 1..cursor \subseteq archived \union buffer

CountedOK == pc # "fatal" => authFailures < MaxAuthFailures

HealthOK ==
    /\ InSession \/ pc = "open" => orgKnown
    /\ ~orgKnown => ~healthy
    /\ pc \in {"open", "select"} /\ healthy => answered
    /\ pc = "backoff" /\ healthy /\ err # "schema" => answered

DelayOK == backoff >= IF futile < MaxBackoff THEN futile ELSE MaxBackoff

DInv == TypeOK /\ PositionOK /\ BufferOK /\ CoveredOK /\ CountedOK /\ HealthOK /\ DelayOK

(* The checkpoint a flush stores is the cursor.                            *)
LEMMA FlushedUpTo ==
  ASSUME DInv, Flush
  PROVE  /\ committed' = IF buffer = {} THEN committed ELSE cursor
         /\ archived' = archived \union buffer /\ buffer' = {}
<1>1. CASE buffer = {}
  BY <1>1 DEF Flush
<1>2. CASE buffer # {}
  <2>1. cursor \in buffer /\ \A f \in buffer : f <= cursor
    BY <1>2, EventDecoderAssumption DEF DInv, PositionOK, BufferOK
  <2>2. \A e \in buffer : (\A f \in buffer : f <= e) => e = cursor
    <3> SUFFICES ASSUME NEW e \in buffer, \A f \in buffer : f <= e PROVE e = cursor
      OBVIOUS
    <3>1. e <= cursor /\ cursor <= e
      BY <2>1
    <3>2. e \in Int /\ cursor \in Int
      BY EventDecoderAssumption DEF DInv, PositionOK, BufferOK
    <3> QED BY <3>1, <3>2
  <2> DEFINE last == CHOOSE e \in buffer : \A f \in buffer : f <= e
  <2>3. \E e \in buffer : \A f \in buffer : f <= e
    BY <2>1
  <2>4. last \in buffer /\ \A f \in buffer : f <= last
    BY <2>3
  <2>5. last = cursor
    BY <2>2, <2>4
  <2>6. committed' = last /\ archived' = archived \union buffer /\ buffer' = {}
    BY <1>2 DEF Flush
  <2> HIDE DEF last
  <2> QED BY <1>2, <2>5, <2>6
<1> QED BY <1>1, <1>2

(* A flush keeps the promise of the checkpoint, and empties the buffer.    *)
LEMMA FlushKeeps ==
  ASSUME DInv, Flush
  PROVE  /\ committed' \in {None} \union 0..NumEvents /\ archived' \subseteq Events /\ buffer' = {}
         /\ committed' # None => committed' <= head
         /\ InitialReplay = "EARLIEST" =>
              /\ NothingPassedOver'
              /\ InSession => 1..cursor \subseteq archived'
<1> USE EventDecoderAssumption
<1>1. /\ committed' = IF buffer = {} THEN committed ELSE cursor
      /\ archived' = archived \union buffer /\ buffer' = {}
  BY FlushedUpTo
<1>2. committed' \in {None} \union 0..NumEvents /\ archived' \subseteq Events
      /\ (committed' # None => committed' <= head)
  BY <1>1 DEF DInv, TypeOK, PositionOK
<1>3. ASSUME InitialReplay = "EARLIEST"
      PROVE  NothingPassedOver' /\ (InSession => 1..cursor \subseteq archived')
  <2>1. CASE buffer = {}
    BY <1>1, <1>3, <2>1 DEF DInv, CoveredOK, NothingPassedOver
  <2>2. CASE buffer # {}
    BY <1>1, <1>3, <2>2 DEF DInv, CoveredOK, BufferOK, NothingPassedOver
  <2> QED BY <2>1, <2>2
<1> QED BY <1>1, <1>2, <1>3

(* The ends of a session.                                                  *)
LEMMA SessionEnds ==
  ASSUME DInv, NEW e \in {"auth", "schema", "stream", "corrupt"}, EndSession(e) \/ Fatal(e),
         head' = head
  PROVE  /\ PositionOK' /\ BufferOK' /\ CoveredOK'
         /\ pc' \in {"backoff", "fatal"} /\ err' = e
         /\ cursor' \in 0..NumEvents /\ upTo' \in 0..NumEvents
         /\ buffer' = {} /\ committed' \in {None} \union 0..NumEvents
         /\ received' \subseteq Events /\ archived' \subseteq Events
         /\ pc' = "fatal" <=> ~EndSession(e)
<1> USE EventDecoderAssumption
<1>1. CASE EndSession(e)
  <2>1. pc' = "backoff" /\ err' = e /\ UNCHANGED <<cursor, upTo, received>> /\ Flush
    BY <1>1 DEF EndSession
  <2>2. /\ committed' \in {None} \union 0..NumEvents /\ archived' \subseteq Events /\ buffer' = {}
        /\ committed' # None => committed' <= head
        /\ InitialReplay = "EARLIEST" => NothingPassedOver'
    BY <2>1, FlushKeeps
  <2>3. PositionOK'
    BY <2>1, <2>2 DEF DInv, PositionOK
  <2>4. BufferOK'
    BY <2>1, <2>2 DEF BufferOK
  <2>5. CoveredOK'
    BY <2>1, <2>2 DEF CoveredOK, InSession
  <2>6. /\ cursor' \in 0..NumEvents /\ upTo' \in 0..NumEvents /\ received' \subseteq Events
    BY <2>1 DEF DInv, TypeOK
  <2> QED BY <1>1, <2>1, <2>2, <2>3, <2>4, <2>5, <2>6
<1>2. CASE ~EndSession(e)
  <2>1. /\ pc' = "fatal" /\ err' = e /\ buffer' = {}
        /\ UNCHANGED <<cursor, upTo, committed, received, archived>>
    BY <1>2 DEF Fatal
  <2>2. PositionOK'
    BY <2>1 DEF DInv, PositionOK
  <2>3. BufferOK'
    BY <2>1 DEF BufferOK
  <2>4. CoveredOK'
    BY <2>1 DEF DInv, CoveredOK, InSession, NothingPassedOver
  <2>5. /\ cursor' \in 0..NumEvents /\ upTo' \in 0..NumEvents /\ received' \subseteq Events
        /\ committed' \in {None} \union 0..NumEvents /\ archived' \subseteq Events
    BY <2>1 DEF DInv, TypeOK
  <2> QED BY <1>2, <2>1, <2>2, <2>3, <2>4, <2>5
<1> QED BY <1>1, <1>2

(* A failed login or a rejected session is counted; at the limit it is     *)
(* fatal (authFailed).                                                     *)
LEMMA AuthFailedCounts ==
  ASSUME NEW n \in Nat, n < MaxAuthFailures, authFailed(n)
  PROVE  /\ EndSession("auth") \/ Fatal("auth")
         /\ authFailures' \in 0..MaxAuthFailures
         /\ CountedOK'
<1> USE EventDecoderAssumption
<1>1. CASE n + 1 >= MaxAuthFailures
  <2>1. authFailures' = n + 1 /\ Fatal("auth")
    BY <1>1 DEF authFailed
  <2>2. pc' = "fatal"
    BY <2>1 DEF Fatal
  <2> QED BY <2>1, <2>2 DEF CountedOK
<1>2. CASE ~(n + 1 >= MaxAuthFailures)
  <2>1. authFailures' = n + 1 /\ EndSession("auth")
    BY <1>2 DEF authFailed
  <2> QED BY <1>2, <2>1 DEF CountedOK
<1> QED BY <1>1, <1>2

(* So is a session that is rejected before any data; one that had received *)
(* some starts the count afresh (classifyStreamError).                     *)
LEMMA ReauthenticateCounts ==
  ASSUME DInv, Reauthenticate, pc # "fatal"
  PROVE  /\ EndSession("auth") \/ Fatal("auth")
         /\ authFailures' \in 0..MaxAuthFailures
         /\ CountedOK'
<1> USE EventDecoderAssumption
<1>1. authFailures \in Nat /\ authFailures < MaxAuthFailures /\ 0 < MaxAuthFailures
  BY DEF DInv, TypeOK, CountedOK
<1>2. CASE authFailures' = 0 /\ EndSession("auth")
  BY <1>1, <1>2 DEF CountedOK
<1>3. CASE authFailed(authFailures)
  BY <1>1, <1>3, AuthFailedCounts
<1>4. CASE authFailed(IF healthy THEN 0 ELSE authFailures)
  <2> DEFINE n == IF healthy THEN 0 ELSE authFailures
  <2>1. n \in Nat /\ n < MaxAuthFailures /\ authFailed(n)
    BY <1>1, <1>4
  <2> HIDE DEF n
  <2> QED BY <2>1, AuthFailedCounts
<1> QED BY <1>2, <1>3, <1>4 DEF Reauthenticate

(* The outside world: events arrive, sessions expire, the schema service   *)
(* comes and goes.                                                         *)
LEMMA OutsideKeeps ==
  ASSUME DInv, Publish \/ Expire \/ SchemaServiceDown \/ SchemaServiceBack
  PROVE  DInv'
<1> USE EventDecoderAssumption
<1>1. UNCHANGED <<client, pc, stream, retry>>
  BY DEF Publish, Expire, SchemaServiceDown, SchemaServiceBack
<1>2. /\ UNCHANGED <<orgKnown, schemaCache, pc, cursor, upTo, buffer, committed, received, archived>>
      /\ UNCHANGED <<healthy, authFailures, backoff, err, answered, futile>>
  BY <1>1 DEF client, stream, retry
<1>3. /\ head' \in 0..NumEvents /\ head <= head' /\ tokenOK' \in BOOLEAN /\ schemaUp' \in BOOLEAN
      /\ expiries' \in 0..MaxExpiries /\ outages' \in 0..MaxOutages /\ breaks' \in 0..MaxBreaks
  <2>1. /\ head' \in 0..NumEvents /\ head <= head'
        /\ expiries' \in 0..MaxExpiries /\ outages' \in 0..MaxOutages /\ breaks' \in 0..MaxBreaks
    BY DEF DInv, TypeOK, Publish, Expire, SchemaServiceDown, SchemaServiceBack
  <2>2. tokenOK' \in BOOLEAN
    BY DEF DInv, TypeOK, Publish, Expire, SchemaServiceDown, SchemaServiceBack
  <2>3. schemaUp' \in BOOLEAN
    BY DEF DInv, TypeOK, Publish, Expire, SchemaServiceDown, SchemaServiceBack
  <2> QED BY <2>1, <2>2, <2>3
<1>4. TypeOK'
  BY <1>2, <1>3 DEF DInv, TypeOK
<1>5. PositionOK'
  BY <1>2, <1>3 DEF DInv, TypeOK, PositionOK
<1>6. BufferOK' /\ CoveredOK' /\ CountedOK' /\ HealthOK' /\ DelayOK'
  BY <1>2 DEF DInv, BufferOK, CoveredOK, CountedOK, HealthOK, DelayOK, InSession,
              NothingPassedOver
<1> QED BY <1>4, <1>5, <1>6 DEF DInv

(* Logins.                                                                 *)
LEMMA LoginsKeep ==
  ASSUME DInv, Login \/ HaveLogin
  PROVE  DInv'
<1>1. /\ pc = "down" /\ pc' = "open"
      /\ UNCHANGED <<head, schemaUp, expiries, outages, breaks, schemaCache>>
      /\ UNCHANGED <<cursor, upTo, buffer, committed, received, archived>>
      /\ healthy' = FALSE /\ UNCHANGED <<authFailures, backoff, err, answered, futile>>
  BY DEF Login, HaveLogin, outside, client, stream
<1>2. orgKnown' = TRUE /\ tokenOK' \in BOOLEAN
  BY DEF DInv, TypeOK, Login, HaveLogin, outside, client
<1>3. TypeOK'
  <2>1. healthy' \in BOOLEAN
    BY <1>1
  <2> QED BY <1>1, <1>2, <2>1 DEF DInv, TypeOK
<1>4. PositionOK' /\ BufferOK' /\ CoveredOK'
  BY <1>1 DEF DInv, PositionOK, BufferOK, CoveredOK, InSession, NothingPassedOver
<1>5. CountedOK' /\ HealthOK' /\ DelayOK'
  BY <1>1, <1>2 DEF DInv, CountedOK, HealthOK, DelayOK, InSession
<1> QED BY <1>3, <1>4, <1>5 DEF DInv

(* Logins that fail and sessions that are rejected.                        *)
LEMMA RejectionsKeep ==
  ASSUME DInv, LoginFails \/ Rejected \/ RejectedLater
  PROVE  DInv'
<1> USE EventDecoderAssumption
<1>1. /\ pc \in {"down", "open", "select"}
      /\ UNCHANGED <<head, schemaUp, expiries, outages>>
      /\ UNCHANGED <<orgKnown, schemaCache, healthy, backoff, answered, futile>>
  BY DEF LoginFails, Rejected, RejectedLater, Reauthenticate, client
<1>2. /\ EndSession("auth") \/ Fatal("auth")
      /\ authFailures' \in 0..MaxAuthFailures /\ CountedOK'
  <2>1. CASE LoginFails
    <3>1. authFailed(authFailures) /\ authFailures \in Nat /\ authFailures < MaxAuthFailures
      BY <2>1 DEF LoginFails, DInv, TypeOK, CountedOK
    <3> QED BY <3>1, AuthFailedCounts
  <2>2. CASE Rejected \/ RejectedLater
    BY <1>1, <2>2, ReauthenticateCounts DEF Rejected, RejectedLater
  <2> QED BY <2>1, <2>2
<1>3. /\ PositionOK' /\ BufferOK' /\ CoveredOK'
      /\ pc' \in {"backoff", "fatal"} /\ err' = "auth"
      /\ cursor' \in 0..NumEvents /\ upTo' \in 0..NumEvents
      /\ buffer' = {} /\ committed' \in {None} \union 0..NumEvents
      /\ received' \subseteq Events /\ archived' \subseteq Events
  BY <1>1, <1>2, SessionEnds
<1>4. healthy' => answered'
  <2>1. CASE LoginFails
    <3>1. ~orgKnown /\ healthy' = healthy
      BY <2>1 DEF LoginFails
    <3> QED BY <3>1 DEF DInv, HealthOK
  <2>2. CASE Rejected \/ RejectedLater
    <3>1. pc \in {"open", "select"}
      BY <2>2 DEF Rejected, RejectedLater
    <3> QED BY <1>1, <3>1 DEF DInv, HealthOK
  <2> QED BY <2>1, <2>2
<1>5. tokenOK' \in BOOLEAN /\ breaks' \in 0..MaxBreaks
  <2>1. tokenOK' \in BOOLEAN
    BY DEF DInv, TypeOK, LoginFails, Rejected, RejectedLater, Reauthenticate
  <2>2. breaks' \in 0..MaxBreaks
    BY DEF DInv, TypeOK, LoginFails, Rejected, RejectedLater, Reauthenticate
  <2> QED BY <2>1, <2>2
<1>6. TypeOK'
  <2>1. /\ head' \in 0..NumEvents /\ schemaUp' \in BOOLEAN
        /\ expiries' \in 0..MaxExpiries /\ outages' \in 0..MaxOutages
        /\ orgKnown' \in BOOLEAN /\ schemaCache' \subseteq {SchemaOf[e] : e \in Events} \ Unparsable
        /\ healthy' \in BOOLEAN /\ backoff' \in 0..MaxBackoff
        /\ answered' \in BOOLEAN /\ futile' \in 0..(MaxBackoff + 1)
    BY <1>1 DEF DInv, TypeOK
  <2> QED BY <1>2, <1>3, <1>5, <2>1 DEF TypeOK
<1>7. HealthOK' /\ DelayOK'
  BY <1>1, <1>3, <1>4 DEF DInv, HealthOK, DelayOK, InSession
<1> QED BY <1>2, <1>3, <1>6, <1>7 DEF DInv

(* A stream opens at the checkpoint.                                       *)
LEMMA SubscribeKeeps ==
  ASSUME DInv, Subscribe
  PROVE  DInv'
<1> USE EventDecoderAssumption
<1>1. /\ pc = "open" /\ pc' = "select"
      /\ cursor' = IF committed # None THEN committed ELSE IF InitialReplay = "EARLIEST" THEN 0 ELSE head
      /\ UNCHANGED <<head, tokenOK, schemaUp, expiries, outages, breaks, orgKnown, schemaCache>>
      /\ UNCHANGED <<upTo, buffer, committed, received, archived>>
      /\ UNCHANGED <<healthy, authFailures, backoff, err, answered, futile>>
  BY DEF Subscribe, outside, client, retry
<1>2. buffer = {} /\ cursor' \in 0..head
  BY <1>1 DEF DInv, TypeOK, PositionOK, BufferOK, InSession
<1>3. TypeOK'
  <2>1. cursor' \in 0..NumEvents
    BY <1>1, <1>2 DEF DInv, TypeOK
  <2> QED BY <1>1, <2>1 DEF DInv, TypeOK
<1>4. PositionOK' /\ BufferOK'
  BY <1>1, <1>2 DEF DInv, PositionOK, BufferOK
<1>5. CoveredOK'
  <2>1. CASE committed # None
    BY <1>1, <1>2, <2>1 DEF DInv, CoveredOK, NothingPassedOver
  <2>2. CASE committed = None
    BY <1>1, <1>2, <2>2 DEF DInv, CoveredOK, NothingPassedOver
  <2> QED BY <2>1, <2>2
<1>6. CountedOK' /\ HealthOK' /\ DelayOK'
  BY <1>1 DEF DInv, CountedOK, HealthOK, DelayOK, InSession
<1> QED BY <1>3, <1>4, <1>5, <1>6 DEF DInv

(* A stream that breaks, a schema that cannot be had.                      *)
LEMMA EndsKeep ==
  ASSUME DInv, StreamBreaks \/ DecodeSchemaFails
  PROVE  DInv'
<1> USE EventDecoderAssumption
<1>1. /\ \E e \in {"stream", "schema"} : EndSession(e) /\ (e = "schema" \/ pc \in {"open", "select"})
      /\ UNCHANGED <<head, tokenOK, schemaUp, expiries, outages, orgKnown, schemaCache>>
      /\ UNCHANGED <<healthy, authFailures, backoff, answered, futile>>
      /\ breaks' \in 0..MaxBreaks /\ pc \in {"open", "select", "decode"}
  <2>1. CASE StreamBreaks
    BY <2>1 DEF DInv, TypeOK, StreamBreaks, client
  <2>2. CASE DecodeSchemaFails
    BY <2>2 DEF DInv, TypeOK, DecodeSchemaFails, outside, client
  <2> QED BY <2>1, <2>2
<1>2. PICK e \in {"stream", "schema"} : EndSession(e) /\ (e = "schema" \/ pc \in {"open", "select"})
  BY <1>1
<1>3. /\ PositionOK' /\ BufferOK' /\ CoveredOK'
      /\ pc' = "backoff" /\ err' = e
      /\ cursor' \in 0..NumEvents /\ upTo' \in 0..NumEvents
      /\ buffer' = {} /\ committed' \in {None} \union 0..NumEvents
      /\ received' \subseteq Events /\ archived' \subseteq Events
  BY <1>1, <1>2, SessionEnds DEF EndSession
<1>4. TypeOK'
  <2>1. /\ head' \in 0..NumEvents /\ tokenOK' \in BOOLEAN /\ schemaUp' \in BOOLEAN
        /\ expiries' \in 0..MaxExpiries /\ outages' \in 0..MaxOutages
        /\ orgKnown' \in BOOLEAN /\ schemaCache' \subseteq {SchemaOf[x] : x \in Events} \ Unparsable
        /\ healthy' \in BOOLEAN /\ authFailures' \in 0..MaxAuthFailures
        /\ backoff' \in 0..MaxBackoff /\ answered' \in BOOLEAN /\ futile' \in 0..(MaxBackoff + 1)
    BY <1>1 DEF DInv, TypeOK
  <2> QED BY <1>1, <1>2, <1>3, <2>1 DEF TypeOK
<1>5. CountedOK' /\ HealthOK' /\ DelayOK'
  BY <1>1, <1>2, <1>3 DEF DInv, CountedOK, HealthOK, DelayOK, InSession
<1> QED BY <1>3, <1>4, <1>5 DEF DInv

(* Responses and keepalives.                                               *)
LEMMA ResponsesKeep ==
  ASSUME DInv, Receive \/ Keepalive
  PROVE  DInv'
<1> USE EventDecoderAssumption
<1>1. /\ pc = "select" /\ healthy' = TRUE /\ authFailures' = IF healthy THEN authFailures ELSE 0
      /\ UNCHANGED <<head, tokenOK, schemaUp, expiries, outages, breaks, orgKnown, schemaCache>>
      /\ UNCHANGED <<cursor, buffer, archived, backoff, err, futile>>
  BY DEF Receive, Keepalive, outside, client
<1>2. CountedOK' /\ DelayOK' /\ authFailures' \in 0..MaxAuthFailures
  BY <1>1 DEF DInv, TypeOK, CountedOK, DelayOK
<1>3. CASE Receive
  <2>1. /\ pc' = "decode" /\ upTo' \in (cursor + 1)..head /\ UNCHANGED <<committed, answered>>
        /\ received' = received \union (cursor + 1)..upTo'
    BY <1>3 DEF Receive
  <2>2. TypeOK'
    <3>1. upTo' \in 0..NumEvents /\ received' \subseteq Events
      BY <2>1 DEF DInv, TypeOK, PositionOK, Events
    <3> QED BY <1>1, <1>2, <2>1, <3>1 DEF DInv, TypeOK
  <2>3. PositionOK'
    BY <1>1, <2>1 DEF DInv, PositionOK
  <2>4. BufferOK' /\ CoveredOK'
    BY <1>1, <2>1 DEF DInv, BufferOK, CoveredOK, InSession, NothingPassedOver
  <2>5. HealthOK'
    BY <1>1, <2>1 DEF DInv, HealthOK, InSession
  <2> QED BY <1>2, <2>2, <2>3, <2>4, <2>5 DEF DInv
<1>4. CASE Keepalive
  <2>1. /\ committed' = IF cursor = head /\ buffer = {} THEN head ELSE committed
        /\ answered' = TRUE /\ UNCHANGED <<pc, upTo, received>>
    BY <1>4 DEF Keepalive
  <2>2. TypeOK'
    BY <1>1, <1>2, <2>1 DEF DInv, TypeOK
  <2>3. PositionOK' /\ BufferOK'
    BY <1>1, <2>1 DEF DInv, PositionOK, BufferOK, InSession
  <2>4. CoveredOK'
    BY <1>1, <2>1 DEF DInv, CoveredOK, InSession, NothingPassedOver
  <2>5. HealthOK'
    BY <1>1, <2>1 DEF DInv, HealthOK, InSession
  <2> QED BY <1>2, <2>2, <2>3, <2>4, <2>5 DEF DInv
<1> QED BY <1>3, <1>4

(* One event is decoded, or cannot be.                                     *)
LEMMA DecodeKeeps ==
  ASSUME DInv, DecodeEvent
  PROVE  DInv'
<1> USE EventDecoderAssumption
<1>1. /\ pc = "decode" /\ cursor < upTo
      /\ UNCHANGED <<head, tokenOK, schemaUp, expiries, outages, breaks, orgKnown>>
      /\ UNCHANGED <<healthy, authFailures, backoff, answered, futile>>
  BY DEF DecodeEvent, outside
<1>2. cursor + 1 \in Events /\ cursor + 1 <= upTo /\ cursor \in Nat
  BY <1>1 DEF DInv, PositionOK, Events
<1>3. schemaCache' \subseteq {SchemaOf[e] : e \in Events} \ Unparsable
  <2>1. SchemaOf[cursor + 1] \in {SchemaOf[e] : e \in Events} \ Unparsable
    BY <1>2 DEF DInv, TypeOK, DecodeEvent, fetchSchema
  <2>2. schemaCache' = schemaCache \union {SchemaOf[cursor + 1]}
    BY DEF DecodeEvent
  <2> QED BY <2>1, <2>2 DEF DInv, TypeOK
<1>4. /\ head' \in 0..NumEvents /\ tokenOK' \in BOOLEAN /\ schemaUp' \in BOOLEAN
      /\ expiries' \in 0..MaxExpiries /\ outages' \in 0..MaxOutages /\ breaks' \in 0..MaxBreaks
      /\ orgKnown' \in BOOLEAN /\ healthy' \in BOOLEAN /\ authFailures' \in 0..MaxAuthFailures
      /\ backoff' \in 0..MaxBackoff /\ answered' \in BOOLEAN /\ futile' \in 0..(MaxBackoff + 1)
  BY <1>1 DEF DInv, TypeOK
<1>5. CASE cursor + 1 \in Corrupt
  <2>1. Fatal("corrupt")
    BY <1>5 DEF DecodeEvent
  <2>2. /\ PositionOK' /\ BufferOK' /\ CoveredOK'
        /\ pc' \in {"backoff", "fatal"} /\ err' = "corrupt"
        /\ cursor' \in 0..NumEvents /\ upTo' \in 0..NumEvents
        /\ buffer' = {} /\ committed' \in {None} \union 0..NumEvents
        /\ received' \subseteq Events /\ archived' \subseteq Events
    BY <1>1, <2>1, SessionEnds
  <2>3. pc' = "fatal"
    BY <2>1 DEF Fatal
  <2>4. TypeOK'
    BY <1>3, <1>4, <2>2 DEF TypeOK
  <2>5. CountedOK' /\ HealthOK' /\ DelayOK'
    BY <1>1, <2>3 DEF DInv, CountedOK, HealthOK, DelayOK, InSession
  <2> QED BY <2>2, <2>4, <2>5 DEF DInv
<1>6. CASE cursor + 1 \notin Corrupt
  <2>1. /\ cursor' = cursor + 1 /\ buffer' = buffer \union {cursor + 1}
        /\ UNCHANGED <<pc, err, upTo, committed, received, archived>>
    BY <1>6 DEF DecodeEvent
  <2>2. TypeOK'
    <3>1. cursor' \in 0..NumEvents /\ buffer' \subseteq Events
      <4>1. NumEvents \in Nat /\ cursor \in Nat /\ cursor + 1 \in 1..NumEvents
        BY <1>2 DEF Events
      <4>2. buffer \subseteq Events
        BY DEF DInv, TypeOK
      <4> QED BY <1>2, <2>1, <4>1, <4>2
    <3> QED BY <1>3, <1>4, <2>1, <3>1 DEF DInv, TypeOK
  <2>3. PositionOK'
    BY <1>1, <1>2, <2>1 DEF DInv, PositionOK
  <2>4. BufferOK'
    BY <1>1, <1>2, <2>1 DEF DInv, BufferOK, InSession
  <2>5. CoveredOK'
    BY <1>1, <1>2, <2>1 DEF DInv, CoveredOK, InSession, NothingPassedOver
  <2>6. CountedOK' /\ HealthOK' /\ DelayOK'
    BY <1>1, <2>1 DEF DInv, CountedOK, HealthOK, DelayOK, InSession
  <2> QED BY <2>2, <2>3, <2>4, <2>5, <2>6 DEF DInv
<1> QED BY <1>5, <1>6

(* The end of a response and the flush timer.                              *)
LEMMA FlushesKeep ==
  ASSUME DInv, ResponseDone \/ FlushTimer
  PROVE  DInv'
<1> USE EventDecoderAssumption
<1>1. /\ pc \in {"select", "decode"} /\ pc' = "select"
      /\ UNCHANGED <<head, tokenOK, schemaUp, expiries, outages, breaks, orgKnown, schemaCache>>
      /\ UNCHANGED <<cursor, upTo, received, healthy, authFailures, backoff, err, futile>>
      /\ answered' = TRUE \/ (pc = "select" /\ answered' = answered)
  BY DEF ResponseDone, FlushTimer, outside, client, retry
<1>a. answered' \in BOOLEAN
  BY <1>1 DEF DInv, TypeOK
<1>2. CountedOK' /\ HealthOK' /\ DelayOK'
  BY <1>1 DEF DInv, CountedOK, HealthOK, DelayOK, InSession
<1>3. CASE UNCHANGED <<buffer, committed, archived>>
  <2>1. TypeOK'
    BY <1>1, <1>a, <1>3 DEF DInv, TypeOK
  <2>2. PositionOK' /\ BufferOK' /\ CoveredOK'
    BY <1>1, <1>3 DEF DInv, PositionOK, BufferOK, CoveredOK, InSession, NothingPassedOver
  <2> QED BY <1>2, <2>1, <2>2 DEF DInv
<1>4. CASE Flush
  <2>1. /\ committed' \in {None} \union 0..NumEvents /\ archived' \subseteq Events /\ buffer' = {}
        /\ committed' # None => committed' <= head
        /\ InitialReplay = "EARLIEST" =>
              /\ NothingPassedOver'
              /\ InSession => 1..cursor \subseteq archived'
    BY <1>4, FlushKeeps
  <2>2. TypeOK'
    BY <1>1, <1>a, <2>1 DEF DInv, TypeOK
  <2>3. PositionOK' /\ BufferOK'
    BY <1>1, <2>1 DEF DInv, PositionOK, BufferOK
  <2>4. CoveredOK'
    BY <1>1, <2>1 DEF CoveredOK, InSession
  <2> QED BY <1>2, <2>2, <2>3, <2>4 DEF DInv
<1> QED BY <1>3, <1>4 DEF ResponseDone, FlushTimer

(* The delay before the next session.                                      *)
LEMMA BackoffKeeps ==
  ASSUME DInv, Backoff
  PROVE  DInv'
<1> USE EventDecoderAssumption
<1>1. /\ pc = "backoff" /\ pc' = "down"
      /\ UNCHANGED <<head, tokenOK, schemaUp, expiries, outages, breaks, orgKnown, schemaCache>>
      /\ UNCHANGED <<cursor, upTo, buffer, committed, received, archived>>
      /\ UNCHANGED <<healthy, authFailures, err>> /\ answered' = FALSE
  BY DEF Backoff, outside, client, stream
<1>2. backoff \in 0..MaxBackoff /\ futile \in 0..(MaxBackoff + 1)
  BY DEF DInv, TypeOK
<1>3. backoff' \in 0..MaxBackoff /\ futile' \in 0..(MaxBackoff + 1)
  BY <1>2 DEF Backoff
<1>4. TypeOK'
  <2>1. answered' \in BOOLEAN
    BY <1>1
  <2> QED BY <1>1, <1>3, <2>1 DEF DInv, TypeOK
<1>5. PositionOK' /\ BufferOK' /\ CoveredOK'
  BY <1>1 DEF DInv, PositionOK, BufferOK, CoveredOK, InSession, NothingPassedOver
<1>6. CountedOK' /\ HealthOK'
  BY <1>1 DEF DInv, CountedOK, HealthOK, InSession
<1>7. DelayOK'
  <2>1. CASE ~(answered /\ err # "schema")
    <3>1. ~progressed
      BY <1>1, <2>1 DEF DInv, HealthOK, progressed
    <3>2. backoff' = IF backoff < MaxBackoff THEN backoff + 1 ELSE MaxBackoff
      BY <3>1 DEF Backoff
    <3>3. futile' = IF futile <= MaxBackoff THEN futile + 1 ELSE futile
      BY <2>1 DEF Backoff
    <3>4. DelayOK
      BY DEF DInv
    <3>5. MaxBackoff \in Nat
      OBVIOUS
    <3>6. CASE backoff < MaxBackoff
      BY <1>2, <3>2, <3>3, <3>4, <3>5, <3>6 DEF DelayOK
    <3>7. CASE ~(backoff < MaxBackoff)
      BY <1>2, <3>2, <3>3, <3>5, <3>7 DEF DelayOK
    <3> QED BY <3>6, <3>7
  <2>2. CASE answered /\ err # "schema"
    <3>1. futile' = 0
      BY <2>2 DEF Backoff
    <3> QED BY <1>3, <3>1 DEF DelayOK
  <2> QED BY <2>1, <2>2
<1> QED BY <1>4, <1>5, <1>6, <1>7 DEF DInv

-----------------------------------------------------------------------------
(* DInv holds in every reachable state.                                    *)
LEMMA DInvHolds == Spec => []DInv
<1>1. Init => DInv
  <2> SUFFICES ASSUME Init PROVE DInv
    OBVIOUS
  <2> USE EventDecoderAssumption DEF Init
  <2>1. TypeOK
    <3>1. {NumEvents, MaxBackoff, MaxExpiries, MaxOutages, MaxBreaks} \subseteq Nat
      OBVIOUS
    <3>2. /\ head \in 0..NumEvents /\ cursor \in 0..NumEvents /\ upTo \in 0..NumEvents
          /\ expiries \in 0..MaxExpiries /\ outages \in 0..MaxOutages /\ breaks \in 0..MaxBreaks
          /\ authFailures \in 0..MaxAuthFailures /\ backoff \in 0..MaxBackoff
          /\ futile \in 0..(MaxBackoff + 1)
      BY <3>1
    <3>3. /\ schemaCache \subseteq {SchemaOf[e] : e \in Events} \ Unparsable
          /\ buffer \subseteq Events /\ received \subseteq Events /\ archived \subseteq Events
          /\ tokenOK \in BOOLEAN /\ schemaUp \in BOOLEAN /\ orgKnown \in BOOLEAN
          /\ healthy \in BOOLEAN /\ answered \in BOOLEAN
      OBVIOUS
    <3> QED BY <3>2, <3>3 DEF TypeOK
  <2>2. PositionOK /\ BufferOK /\ CoveredOK
    BY DEF PositionOK, BufferOK, CoveredOK, InSession, NothingPassedOver
  <2>3. CountedOK /\ HealthOK /\ DelayOK
    BY DEF CountedOK, HealthOK, DelayOK, InSession
  <2> QED BY <2>1, <2>2, <2>3 DEF DInv
<1>2. DInv /\ [Next]_vars => DInv'
  <2>1. DInv /\ UNCHANGED vars => DInv'
    <3> SUFFICES ASSUME DInv, UNCHANGED vars PROVE DInv'
      OBVIOUS
    <3>1. /\ UNCHANGED <<head, tokenOK, schemaUp, expiries, outages, breaks, orgKnown, schemaCache, pc>>
          /\ UNCHANGED <<cursor, upTo, buffer, committed, received, archived>>
          /\ UNCHANGED <<healthy, authFailures, backoff, err, answered, futile>>
      BY DEF vars, outside, client, stream, retry
    <3>2. TypeOK'
      BY <3>1 DEF DInv, TypeOK
    <3>3. PositionOK' /\ BufferOK' /\ CoveredOK' /\ CountedOK' /\ HealthOK' /\ DelayOK'
      BY <3>1 DEF DInv, PositionOK, BufferOK, CoveredOK, CountedOK, HealthOK, DelayOK,
                  InSession, NothingPassedOver
    <3> QED BY <3>2, <3>3 DEF DInv
  <2>2. DInv /\ Next => DInv'
    BY OutsideKeeps, LoginsKeep, RejectionsKeep, SubscribeKeeps, EndsKeep, ResponsesKeep,
       DecodeKeeps, FlushesKeep, BackoffKeeps
    DEF Next, Step
  <2> QED BY <2>1, <2>2
<1> QED BY <1>1, <1>2, PTL DEF Spec

(* Events behind a schema that cannot be fetched, an expired session or an *)
(* event that cannot be decoded are never passed by the checkpoint, and    *)
(* failed logins are counted up to their limit (DecodeEvent, flush,        *)
(* authFailed).                                                            *)
THEOREM DecoderIsSafe == Spec => []DecoderSafe
<1>1. DInv => DecoderSafe
  BY DEF DInv, CoveredOK, DecoderSafe, NothingPassedOver
<1> QED BY <1>1, DInvHolds, PTL

(* The delay grows, up to its limit, with every session in a row that ends *)
(* at a schema or before it has dealt with one whole response, for any     *)
(* limits and any order of expiries, outages and breaks (Run,              *)
(* classifyStreamError).                                                   *)
THEOREM DelaysGrow == Spec => []SlowsDown
<1>1. DInv => SlowsDown
  BY DEF DInv, DelayOK, SlowsDown
<1> QED BY <1>1, DInvHolds, PTL

=============================================================================
