----------------------------- MODULE FetchFlow -----------------------------
(***************************************************************************)
(* Flow control of one subscription: the collector asks for events with    *)
(* FetchRequests and the server sends no more than was asked for.          *)
(*                                                                         *)
(* The client is the loop of Subscriber.session; its writes and commits    *)
(* are single steps here because module Subscriber takes them apart.  The  *)
(* server is the delivery loop of internal/mocksf/pubsub.go with its       *)
(* reader goroutine: the loop reads the demand once under the locks, and   *)
(* composes its answer after it released them.                             *)
(***************************************************************************)
EXTENDS PubSubTopic, Sequences

CONSTANTS ConfiguredAppetite,   \* SubscriberOptions.Appetite as configured
          MaxAppetite,          \* what the API allows in one FetchRequest
          MaxEvents,            \* events in one archive object
          MaxEventsPerResponse, \* server: events in one FetchResponse
          Preset,               \* "EARLIEST" or "LATEST"
          MaxKeepalives,        \* bound: keepalives sent
          MaxBreaks             \* bound: streams that break

ASSUME FlowAssumption ==
    /\ ConfiguredAppetite \in Int
    /\ MaxAppetite \in Nat \ {0}
    /\ MaxEvents \in Nat \ {0}
    /\ MaxEventsPerResponse \in Nat \ {0}
    /\ Preset \in {"EARLIEST", "LATEST"}
    /\ {MaxKeepalives, MaxBreaks} \subseteq Nat

VARIABLES
    open,       \* the stream is open
    pending,    \* client: events asked for and not yet received
    requests,   \* FetchRequests on their way to the server
    responses,  \* FetchResponses on their way to the client
    demand,     \* server: its own count of events asked for
    cursor,     \* server: the last replay ID it counts as delivered
    loop,       \* server: where the delivery loop is
    batch,      \* server: the events it is about to send
    seen,       \* server: the newest replay ID when it looked
    buffer,     \* client: events decoded and not yet archived
    archived,   \* events in the archive
    committed,  \* the stored checkpoint, NoReplay before the first commit
    jumped,     \* history: undelivered events that keepalives have passed over
    keepalives, \* keepalives sent so far
    breaks      \* streams that broke so far

clientVars == <<pending, buffer, archived, committed>>
serverVars == <<demand, cursor, loop, batch, seen>>
wireVars   == <<open, requests, responses>>
countVars  == <<jumped, keepalives, breaks>>
vars == <<topicVars, clientVars, serverVars, wireVars, countVars>>

NoReplay == -1

(* The value SubscriberOptions.defaults gives an appetite.                 *)
Appetite == IF ConfiguredAppetite <= 0 \/ ConfiguredAppetite > MaxAppetite
            THEN MaxAppetite
            ELSE ConfiguredAppetite

Size(S)   == Cardinality(S)
Sum(s)    == LET f[i \in 0..Len(s)] == IF i = 0 THEN 0 ELSE s[i] + f[i - 1]
             IN  f[Len(s)]

(* Mutant: the newest events are taken instead of the oldest.              *)
Newest(S, n) == {e \in S : Size({f \in S : f >= e}) <= n}

(* The n events that come first.                                           *)
Oldest(S, n) == {e \in S : Size({f \in S : f <= e}) <= n}

Response == [events : SUBSET (1..MaxHead), latest : 0..MaxHead, outstanding : Nat]

TypeOK ==
    /\ head \in 0..MaxHead
    /\ open \in BOOLEAN
    /\ pending \in 0..Appetite
    /\ requests \in Seq(1..Appetite)
    /\ responses \in Seq(Response)
    /\ demand \in 0..Appetite
    /\ cursor \in 0..MaxHead
    /\ loop \in {"top", "park", "wait", "keepalive", "send"}
    /\ batch \subseteq 1..MaxHead
    /\ seen \in 0..MaxHead
    /\ buffer \subseteq 1..MaxHead
    /\ archived \subseteq 1..MaxHead
    /\ committed \in {NoReplay} \union 0..MaxHead
    /\ jumped \subseteq 1..MaxHead
    /\ keepalives \in 0..MaxKeepalives
    /\ breaks \in 0..MaxBreaks

Init ==
    /\ TopicInit
    /\ open = FALSE
    /\ pending = 0
    /\ requests = <<>>
    /\ responses = <<>>
    /\ demand = 0 /\ cursor = 0 /\ loop = "top" /\ batch = {} /\ seen = 0
    /\ buffer = {} /\ archived = {} /\ committed = NoReplay
    /\ jumped = {} /\ keepalives = 0 /\ breaks = 0

-----------------------------------------------------------------------------
(* The server.                                                             *)

(* Where a stream starts: at the checkpoint or at the configured preset.   *)
StartCursor ==
    IF committed # NoReplay THEN committed
    ELSE IF Preset = "EARLIEST" THEN StartEarliest
    ELSE StartLatest

(* The client opens the stream with its first FetchRequest; the server     *)
(* checks the session, resolves the position and takes the first demand.   *)
OpenStream ==
    /\ ~open
    /\ open' = TRUE
    /\ pending' = Appetite
    /\ demand' = Appetite
    /\ cursor' = StartCursor
    /\ loop' = "top" /\ batch' = {} /\ seen' = 0
    /\ requests' = <<>> /\ responses' = <<>>
    /\ UNCHANGED <<topicVars, buffer, archived, committed, countVars>>

(* A publisher needs the topic's lock, which the loop holds until it waits.*)
PublishEvent ==
    /\ loop # "park"
    /\ Publish
    /\ loop' = IF loop = "wait" THEN "top" ELSE loop
    /\ UNCHANGED <<clientVars, demand, cursor, batch, seen, wireVars, countVars>>

(* The reader goroutine: it adds the demand under pmu alone, and its       *)
(* broadcast is lost on a loop that does not wait yet.                     *)
ReadRequest ==
    /\ open /\ requests # <<>>
    /\ demand' = demand + Head(requests)
    /\ requests' = Tail(requests)
    /\ loop' = IF loop = "wait" THEN "top" ELSE loop
    /\ UNCHANGED <<topicVars, clientVars, cursor, batch, seen, open, responses, countVars>>

(* Mutant: no ticker wakes the loop.                                       *)
NoTick == FALSE /\ UNCHANGED vars

(* The ticker wakes the loop every 250 ms.                                 *)
Tick ==
    /\ open /\ loop = "wait"
    /\ loop' = "top"
    /\ UNCHANGED <<topicVars, clientVars, demand, cursor, batch, seen, wireVars, countVars>>

(* Mutant: the number of events asked for is ignored.                      *)
WantAll == MaxEventsPerResponse

(* What the next response may hold at most.                                *)
Want == IF demand > MaxEventsPerResponse THEN MaxEventsPerResponse ELSE demand

(* Under the locks: read the demand, take events past the cursor.          *)
Look ==
    /\ open /\ loop = "top"
    /\ batch' = Oldest(EventsAfter(cursor, head), Want)
    /\ seen' = head
    /\ loop' \in IF batch' # {} THEN {"send"}
                 ELSE {"park"} \union (IF keepalives < MaxKeepalives THEN {"keepalive"} ELSE {})
    /\ UNCHANGED <<topicVars, clientVars, demand, cursor, wireVars, countVars>>

Park ==
    /\ open /\ loop = "park"
    /\ loop' = "wait"
    /\ UNCHANGED <<topicVars, clientVars, demand, cursor, batch, seen, wireVars, countVars>>

(* Mutant: the cursor stays where it was.                                  *)
AnswerStuck(events, latest) ==
    /\ demand' = demand - Size(events)
    /\ responses' = Append(responses, [events |-> events, latest |-> latest, outstanding |-> demand'])
    /\ loop' = "top"
    /\ batch' = {}
    /\ UNCHANGED <<topicVars, clientVars, cursor, seen, open, requests, breaks>>

(* One FetchResponse, with the demand that is left after it.               *)
Answer(events, latest) ==
    /\ demand' = demand - Size(events)
    /\ responses' = Append(responses, [events |-> events, latest |-> latest, outstanding |-> demand'])
    /\ loop' = "top"
    /\ cursor' = latest
    /\ batch' = {}
    /\ UNCHANGED <<topicVars, clientVars, seen, open, requests, breaks>>

SendEvents ==
    /\ open /\ loop = "send"
    /\ Answer(batch, Last(batch))
    /\ UNCHANGED <<jumped, keepalives>>

(* Nothing was found and the keepalive interval has passed.  The demand is *)
(* read a second time here, after the locks were released.                 *)
SendKeepalive ==
    /\ open /\ loop = "keepalive"
    /\ Answer({}, IF demand > 0 THEN seen ELSE cursor)
    /\ jumped' = jumped \union EventsAfter(cursor, cursor')
    /\ keepalives' = keepalives + 1

-----------------------------------------------------------------------------
(* The client.                                                             *)

(* What a flush leaves in the archive and in the checkpoint.               *)
Flushed(events) ==
    /\ archived' = archived \union events
    /\ committed' = IF events = {} THEN committed ELSE Last(events)

(* Mutant: more events are requested than fit the appetite.                *)
AskAgain(left) ==
    IF left <= Appetite \div 2
    THEN /\ requests' = Append(requests, Appetite)
         /\ pending' = Appetite
    ELSE /\ pending' = left
         /\ UNCHANGED requests

(* More is requested when half of the appetite or less is outstanding.     *)
AskForMore(left) ==
    IF left <= Appetite \div 2
    THEN /\ requests' = Append(requests, Appetite - left)
         /\ pending' = Appetite
    ELSE /\ pending' = left
         /\ UNCHANGED requests

(* Decode the events; flush every full object, and the first batch at      *)
(* once; commit the position of a keepalive; ask for more.                 *)
HandleResponse ==
    /\ open /\ responses # <<>>
    /\ LET r    == Head(responses)
           all  == buffer \union r.events
           full == Oldest(all, (Size(all) \div MaxEvents) * MaxEvents)
           out  == IF full = {} /\ committed = NoReplay THEN all ELSE full
       IN  /\ buffer' = all \ out
           /\ IF all = {} /\ r.outstanding > 0
              THEN committed' = r.latest /\ UNCHANGED archived
              ELSE Flushed(out)
           /\ AskForMore(pending - Size(r.events))
    /\ responses' = Tail(responses)
    /\ UNCHANGED <<topicVars, serverVars, open, countVars>>

(* flushTimer: the oldest buffered event reaches MaxAge.                   *)
FlushByAge ==
    /\ open /\ buffer # {}
    /\ Flushed(buffer)
    /\ buffer' = {}
    /\ UNCHANGED <<topicVars, pending, serverVars, wireVars, countVars>>

(* The stream ends: an injected drop, an expired session, a lost           *)
(* connection.  Whatever is on the wire is gone; the buffer is flushed on  *)
(* the way out unless the process died with it.                            *)
BreakStream ==
    /\ open /\ breaks < MaxBreaks
    /\ open' = FALSE
    /\ breaks' = breaks + 1
    /\ \/ Flushed(buffer)
       \/ buffer # {} /\ UNCHANGED <<archived, committed>>
    /\ buffer' = {} /\ pending' = 0
    /\ requests' = <<>> /\ responses' = <<>>
    /\ demand' = 0 /\ cursor' = 0 /\ loop' = "top" /\ batch' = {} /\ seen' = 0
    /\ UNCHANGED <<topicVars, jumped, keepalives>>

-----------------------------------------------------------------------------
ServerStep == ReadRequest \/ Tick \/ Look \/ Park \/ SendEvents \/ SendKeepalive
ClientStep == OpenStream \/ HandleResponse \/ FlushByAge

Next == PublishEvent \/ ServerStep \/ ClientStep \/ BreakStream

Spec == Init /\ [][Next]_vars

-----------------------------------------------------------------------------
EventsInFlight == LET sizes == [i \in DOMAIN responses |-> Size(responses[i].events)]
                  IN  Sum(sizes)

(* The client's count of outstanding events is the server's, corrected by  *)
(* what is on the wire: neither side can come to believe in a demand the   *)
(* other does not know (session, pubsub.go).                               *)
DemandAccounted == open => pending = demand + Sum(requests) + EventsInFlight

(* On one stream no event is sent twice, out of order, or after the        *)
(* checkpoint has passed it, also when the server answers several times    *)
(* before the client reads (the delivery loop and its cursor).             *)
NothingTwice ==
    \A j \in DOMAIN responses : \A f \in responses[j].events :
        /\ f > committed /\ f \notin buffer
        /\ \A i \in 1..(j - 1) : \A e \in responses[i].events : e < f

(* The client never passes over an event by itself: what lies at or below  *)
(* the checkpoint is in the archive, unless the server's own cursor jumped *)
(* over it when it sent a keepalive (session; the second look at the       *)
(* demand in pubsub.go).                                                   *)
NoEventSkipped ==
    Preset = "EARLIEST" /\ committed # NoReplay =>
       EventsAfter(0, committed) \subseteq archived \union jumped

(* The demand never runs dry: every event published is reached by the      *)
(* checkpoint in the end, however the requests interleave with the         *)
(* server's loop, unless the server's cursor jumped over it.               *)
EveryEventReached ==
    \A e \in 1..MaxHead : head >= e ~> committed >= e \/ e \in jumped

(* Client and server agree on the demand, and the events arrive in order,  *)
(* once, and without a gap of the client's making.                         *)
DeliverySound == TypeOK /\ DemandAccounted /\ NothingTwice /\ NoEventSkipped

=============================================================================
