------------------------------ MODULE Messages ------------------------------
(***************************************************************************)
(* What happens to a message on its way from one application to another:  *)
(* the factories and validators of the messages, the conversion to the     *)
(* protobuf message and, at the receiver, the conversion back; the answers *)
(* of the server to queue sends, polls and requests.  All of it is pure,   *)
(* and so are these operators.                                             *)
(*                                                                         *)
(* A field that may be left out is a set of at most one element.  Strings  *)
(* and bodies are the shapes the validators and the conversions tell       *)
(* apart; a number is negative, zero or positive.  A random identifier is  *)
(* "uuid".  JavaScript's `||' and `?' treat "" as missing.                 *)
(*                                                                         *)
(* The properties are about one sample, whatever an application or a       *)
(* server may write: the initial states of a run hold each of them.        *)
(***************************************************************************)
EXTENDS Integers, Sequences, FiniteSets, SequencesExt

VARIABLE sample  \* [kind, of]; NoSample in a run that is about something else

NoSample == [kind |-> "none"]

Channels == {"", "blank", "plain", "a*", "a b", "a."}
Bodies == {"empty", "bytes"}
Texts == {"", "blank", "text"}
Tags == {"none", "some"}
Numbers == {-1, 0, 3}

Optional(S) == {{}} \cup {{x} : x \in S}
Default(o, d) == IF o = {} THEN d ELSE CHOOSE x \in o : TRUE

\* `value || undefined' and `if (value)'.
Truthy(text) == text # ""
IfTruthy(text) == IF Truthy(text) THEN {text} ELSE {}

\* The fields every outgoing message has.
Base ==
  [channel : Channels, body : Optional(Bodies), metadata : Optional(Texts),
   tags : Optional(Tags), id : Optional({"given"}), clientId : Optional({"own"})]

-----------------------------------------------------------------------------
\* Validation.

Blank(text) == text \in {"", "blank"}

RequireNonEmptyChannel(channel) == ~Blank(channel)

ValidateChannelFormat(channel, allowWildcards) ==
  /\ allowWildcards \/ channel # "a*"
  /\ channel \notin {"a b", "a."}

RequireBody(msg) ==
  msg.body = {"bytes"} \/ msg.metadata = {"text"} \/ msg.tags = {"some"}

RequirePositive(number) == \A n \in number : n > 0
RequireNonNegative(number) == \A n \in number : n >= 0

\* validateEventMessage() and validateEventStoreMessage().
ValidateEventMessage(msg) ==
  /\ RequireNonEmptyChannel(msg.channel) /\ ValidateChannelFormat(msg.channel, FALSE)
  /\ RequireBody(msg)

ValidatePolicy(policy) ==
  /\ RequireNonNegative(policy.delaySeconds) /\ RequireNonNegative(policy.expirationSeconds)
  /\ RequireNonNegative(policy.maxReceiveCount)
  /\ policy.maxReceiveCount \in {{}, {0}} \/ ~Blank(Default(policy.maxReceiveQueue, ""))

ValidateQueueMessage(msg) ==
  ValidateEventMessage(msg) /\ \A policy \in msg.policy : ValidatePolicy(policy)

ValidateCommandMessage(msg) == ValidateEventMessage(msg) /\ msg.timeoutInSeconds > 0

ValidateQueryMessage(msg) ==
  /\ ValidateCommandMessage(msg)
  /\ Truthy(Default(msg.cacheKey, "")) => Default(msg.cacheTtlInSeconds, 0) > 0
  /\ RequirePositive(msg.cacheTtlInSeconds)

\* waitTimeoutSeconds has no default here; the upper limits of both numbers are 3600
\* and 1024, "over" stands for what is beyond.
ValidateQueuePollRequest(req) ==
  /\ RequireNonEmptyChannel(req.channel)
  /\ req.waitTimeoutSeconds > 0 /\ RequirePositive(req.maxMessages) /\ ~req.over

ValidateSubscription(sub, allowWildcards) ==
  RequireNonEmptyChannel(sub.channel) /\ ValidateChannelFormat(sub.channel, allowWildcards)

\* StartFromNew, First and Last need no value; the format of the channel is not
\* validated beyond its wildcards.
ValidateEventStoreSubscription(sub) ==
  /\ RequireNonEmptyChannel(sub.channel) /\ sub.channel # "a*"
  /\ sub.startFrom # {}
  /\ sub.startFrom = {"valued"} => Default(sub.startValue, 0) > 0

ValidateResponseMessage(resp) == ~Blank(resp.id) /\ ~Blank(resp.replyChannel)

-----------------------------------------------------------------------------
\* The factories, which validate and then fill in the defaults.

NormalizeBody(body) == body

\* createEventMessage(), createEventStoreMessage() and the part the others share.
CreateEventMessage(opts) ==
  [opts EXCEPT !.body = NormalizeBody(@), !.metadata = {Default(@, "")},
               !.tags = {Default(@, "none")}, !.id = {Default(@, "uuid")}]

CreateQueueMessage(opts) == CreateEventMessage(opts)
CreateCommand(opts) == CreateEventMessage(opts)
CreateQuery(opts) == CreateEventMessage(opts)

-----------------------------------------------------------------------------
\* SDK to protobuf.

ToTagsMap(tags) == Default(tags, "none")

BodyBytes(body) == Default(body, "empty")

\* The fields the requests have in common.
ToProto(msg, clientId) ==
  [id |-> Default(msg.id, "uuid"), ClientID |-> Default(msg.clientId, clientId),
   Channel |-> msg.channel, Metadata |-> Default(msg.metadata, ""),
   Body |-> BodyBytes(msg.body), Tags |-> ToTagsMap(msg.tags)]

ToProtoEvent(msg, clientId, store) == ToProto(msg, clientId) @@ [Store |-> store]

\* The four functions that make a Subscribe; only the event store has a position.
ToProtoSubscribe(sub, clientId, type) ==
  [SubscribeTypeData |-> type, ClientID |-> clientId, Channel |-> sub.channel,
   Group |-> Default(sub.group, ""),
   EventsStoreTypeData |-> IF type = "EventsStore" THEN Default(sub.startFrom, "undefined")
                           ELSE "undefined",
   EventsStoreTypeValue |-> IF type = "EventsStore" THEN Default(sub.startValue, 0) ELSE 0]

\* Mutant: the time to live of a cached answer is not sent.
ToProtoRequestMutant(msg, clientId, type) ==
  ToProto(msg, clientId) @@
    [RequestTypeData |-> type, Timeout |-> msg.timeoutInSeconds * 1000,
     CacheKey |-> IF type = "Query" THEN Default(msg.cacheKey, "") ELSE "", CacheTTL |-> 0]

ToProtoRequest(msg, clientId, type) ==
  ToProto(msg, clientId) @@
    [RequestTypeData |-> type, Timeout |-> msg.timeoutInSeconds * 1000,
     CacheKey |-> IF type = "Query" THEN Default(msg.cacheKey, "") ELSE "",
     CacheTTL |-> IF type = "Query" THEN Default(msg.cacheTtlInSeconds, 0) ELSE 0]

ToProtoResponse(resp, clientId) ==
  [ClientID |-> Default(resp.clientId, clientId), RequestID |-> resp.id,
   ReplyChannel |-> resp.replyChannel, Executed |-> resp.executed,
   Error |-> Default(resp.error, ""), Tags |-> ToTagsMap(resp.tags),
   Metadata |-> Default(resp.metadata, ""), Body |-> BodyBytes(resp.body)]

ToProtoPolicy(policy) ==
  [ExpirationSeconds |-> Default(policy.expirationSeconds, 0),
   DelaySeconds |-> Default(policy.delaySeconds, 0),
   MaxReceiveCount |-> Default(policy.maxReceiveCount, 0),
   MaxReceiveQueue |-> Default(policy.maxReceiveQueue, "")]

ToProtoQueueMessage(msg, clientId) ==
  ToProto(msg, clientId) @@ [Policy |-> {ToProtoPolicy(policy) : policy \in msg.policy}]

\* receiveQueueMessages() and, with IsPeak, peekQueueMessages().
ToProtoReceiveQueueRequest(req, clientId, peek) ==
  [ClientID |-> clientId, Channel |-> req.channel, IsPeak |-> peek,
   MaxNumberOfMessages |-> Default(req.maxMessages, 1),
   WaitTimeSeconds |-> req.waitTimeoutSeconds]

ToProtoQueuesDownstreamRequest(opts, clientId) ==
  [ClientID |-> clientId, Channel |-> opts.channel,
   MaxItems |-> Default(opts.maxMessages, 1),
   WaitTimeout |-> Default(opts.waitTimeoutSeconds, 5) * 1000,
   AutoAck |-> Default(opts.autoAck, FALSE)]

-----------------------------------------------------------------------------
\* The broker, which passes on what it is given and numbers what it stores.

Passed(pb) ==
  [id |-> pb.id, Channel |-> pb.Channel, Metadata |-> pb.Metadata, Body |-> pb.Body,
   Tags |-> pb.Tags, ClientID |-> pb.ClientID, ReplyChannel |-> "reply", Sequence |-> 1]

-----------------------------------------------------------------------------
\* Protobuf to SDK.

\* The fields of a received message that all the patterns have.
FromProto(data) ==
  [id |-> data.id, channel |-> data.Channel, body |-> data.Body,
   metadata |-> data.Metadata, tags |-> data.Tags]

FromProtoReceivedEvent(data) == FromProto(data)
FromProtoReceivedEventStore(data) == FromProto(data) @@ [sequence |-> data.Sequence]

\* Commands and queries alike.
FromProtoReceivedRequest(data) ==
  FromProto(data) @@ [fromClientId |-> data.ClientID, replyChannel |-> data.ReplyChannel]

\* A message without attributes has the sequence 0 and was never received before.
FromProtoReceivedQueueMessage(data, attributes) ==
  FromProto(data) @@
    [fromClientId |-> data.ClientID, sequence |-> IF attributes THEN data.Sequence ELSE 0]

\* Mutant: only an answer that was executed keeps its body.
FromProtoResponseMutant(data) ==
  [id |-> data.RequestID, replyChannel |-> data.ReplyChannel,
   clientId |-> IfTruthy(data.ClientID), executed |-> data.Executed,
   error |-> IfTruthy(data.Error), metadata |-> IfTruthy(data.Metadata),
   body |-> IF data.Executed /\ data.Body = "bytes" THEN {"bytes"} ELSE {},
   tags |-> {data.Tags}]

\* fromProtoCommandResponse() and fromProtoQueryResponse().
FromProtoResponse(data) ==
  [id |-> data.RequestID, replyChannel |-> data.ReplyChannel,
   clientId |-> IfTruthy(data.ClientID), executed |-> data.Executed,
   error |-> IfTruthy(data.Error), metadata |-> IfTruthy(data.Metadata),
   body |-> IF data.Body = "empty" THEN {} ELSE {data.Body}, tags |-> {data.Tags}]

\* A result for one message is IsError and an identifier.
Results == [IsError : BOOLEAN, MessageID : {"", "given"}]

\* Each outcome of sendQueueMessagesBatch() and their two counts.
FromProtoBatchResponse(results) ==
  LET item(r) == [messageId |-> IF r.IsError THEN {} ELSE IfTruthy(r.MessageID),
                  error |-> r.IsError]
      items == [i \in DOMAIN results |-> item(results[i])]
      successCount == Len(SelectSeq(items, LAMBDA r : ~r.error))
  IN [results |-> items, successCount |-> successCount,
      failureCount |-> Len(items) - successCount]

\* The upstream answers one request with a result for each message; whether a
\* message was refused is not among what is taken from it.
FromProtoQueuesUpstreamResponse(response) ==
  [results |-> [i \in DOMAIN response.Results |-> [messageId |-> response.Results[i].MessageID]],
   isError |-> response.IsError]

\* sendQueueMessage(): the sender rejects a response that is an error, anything else is
\* a result.
SendQueueMessage(response) ==
  IF response.IsError THEN "rejects"
  ELSE LET parsed == FromProtoQueuesUpstreamResponse(response)
       IN IF parsed.results = <<>> THEN "resolves" ELSE "resolves with a result"

\* The sender of events asks for an answer to a stored event only, and rejects what was
\* not sent.
IsResponseSuccess(result) == result.Sent

FromProtoEventStoreResult(result) ==
  [id |-> result.EventID, sent |-> result.Sent, error |-> result.Error]

\* sendEvent() and sendEventStore(): what is given to the sender,
SendEvent(msg, clientId) ==
  IF ValidateEventMessage(msg) THEN {ToProtoEvent(msg, clientId, FALSE)} ELSE {}

\* and what the promise of the latter becomes with an answer.
SendEventStore(msg, clientId, result) ==
  IF ValidateEventMessage(msg) /\ IsResponseSuccess(result)
  THEN {[given |-> ToProtoEvent(msg, clientId, TRUE),
         returned |-> FromProtoEventStoreResult(result)]}
  ELSE {}

\* receiveQueueMessages() and peekQueueMessages().
FromProtoReceiveQueueResponse(response) ==
  IF response.IsError THEN "rejects"
  ELSE [i \in DOMAIN response.Messages |->
          FromProtoReceivedQueueMessage(response.Messages[i], TRUE)]

-----------------------------------------------------------------------------
\* The messages an application may write.

Policies ==
  [delaySeconds : Optional(Numbers), expirationSeconds : Optional({0, 3}),
   maxReceiveCount : Optional(Numbers), maxReceiveQueue : Optional(Texts)]

Plain == [channel |-> "plain", body |-> {"bytes"}, metadata |-> {}, tags |-> {},
          id |-> {}, clientId |-> {}]

\* Queries: a time to live may come without a key.
Queries ==
  {m @@ [timeoutInSeconds |-> t, cacheKey |-> k, cacheTtlInSeconds |-> ttl] :
     m \in {Plain, [Plain EXCEPT !.channel = "a*"]}, t \in Numbers,
     k \in Optional({"", "key"}), ttl \in Optional(Numbers)}

Responses ==
  [id : Texts, replyChannel : Texts, clientId : Optional({"own"}), executed : BOOLEAN,
   error : Optional({"", "text"}), metadata : Optional({"", "text"}),
   body : Optional(Bodies), tags : Optional(Tags)]

StoreSubscriptions ==
  [channel : Channels, group : Optional({"group"}), startFrom : Optional({"plain", "valued"}),
   startValue : Optional(Numbers)]

Subjects ==
  [message |-> Base, query |-> Queries, policy |-> Policies, answer |-> Responses,
   subscription |-> StoreSubscriptions, batch |-> BoundedSeq(Results, 3)]

Samples == UNION {{[kind |-> k, of |-> x] : x \in Subjects[k]} : k \in DOMAIN Subjects}

-----------------------------------------------------------------------------
Written(msg) ==
  [channel |-> msg.channel, body |-> Default(msg.body, "empty"),
   metadata |-> Default(msg.metadata, ""), tags |-> Default(msg.tags, "none"),
   id |-> Default(msg.id, "uuid")]

\* As an event, stored or not, a queue message or a request.
Arrives(msg) ==
  LET created == CreateEventMessage(msg)
      wire == ToProtoEvent(msg, "client", TRUE)
      stored(sent) == SendEventStore(msg, "client", [EventID |-> "1", Sent |-> sent, Error |-> ""])
      request == ToProtoRequest(msg @@ [timeoutInSeconds |-> 3], "client", "Command")
      queued == ToProtoQueueMessage(msg @@ [policy |-> {}], "client")
  IN /\ FromProtoReceivedEvent(Passed(wire)) = Written(msg)
     /\ FromProtoReceivedEventStore(Passed(wire)).sequence = 1
     /\ FromProto(Passed(queued)) = Written(msg)
     /\ FromProtoReceivedRequest(Passed(request)) =
          Written(msg) @@ [replyChannel |-> "reply",
                           fromClientId |-> Default(msg.clientId, "client")]
     /\ ValidateEventMessage(created)
     /\ SendEvent(created, "client") = {[wire EXCEPT !.Store = FALSE]}
     /\ stored(TRUE) = {[given |-> wire, returned |-> [id |-> "1", sent |-> TRUE, error |-> ""]]}
     /\ stored(FALSE) = {}
     /\ msg.channel = "plain"
     /\ wire.Body = "bytes" \/ wire.Metadata = "text" \/ wire.Tags = "some"

Returns(resp) ==
  LET back == FromProtoResponse(ToProtoResponse(resp, "client"))
  IN /\ back.id = resp.id /\ back.executed = resp.executed
     /\ (back.error = {"text"}) <=> (resp.error = {"text"})
     /\ (back.metadata = {"text"}) <=> (resp.metadata = {"text"})
     /\ (back.body = {"bytes"}) <=> (resp.body = {"bytes"})
     /\ back.tags = {Default(resp.tags, "none")}

AddsUp(results) ==
  LET batch == FromProtoBatchResponse(results)
  IN /\ \A i \in DOMAIN results : batch.results[i].error = results[i].IsError
     /\ batch.successCount + batch.failureCount = Len(results)
     /\ (batch.failureCount > 0) <=> \E i \in DOMAIN results : results[i].IsError

\* A message that is accepted arrives with the channel, body, metadata and tags it was
\* written with, what was left out as empty; a factory's message is accepted too, and
\* arrives as the other would.  An answer reaches the requester as the responder wrote
\* it, executed or not.  A batch accounts for each of its messages.
MessagesArrive ==
  /\ sample.kind = "message" /\ ValidateEventMessage(sample.of) => Arrives(sample.of)
  /\ sample.kind = "answer" /\ ValidateResponseMessage(sample.of) => Returns(sample.of)
  /\ sample.kind = "batch" => AddsUp(sample.of)

\* What reaches the wire has all it needs: the key of a cached answer a time to live, a
\* dead-letter limit its queue, a position of the event store its value, a request a
\* timeout; and nothing negative does.
WireIsComplete ==
  /\ sample.kind = "query" /\ ValidateQueryMessage(sample.of) =>
       LET req == ToProtoRequest(sample.of, "client", "Query")
       IN /\ req.CacheKey # "" => req.CacheTTL > 0
          /\ req.Timeout > 0 /\ req.CacheTTL >= 0
  /\ sample.kind = "policy" /\ ValidatePolicy(sample.of) =>
       LET pb == ToProtoPolicy(sample.of)
       IN /\ pb.MaxReceiveCount > 0 => pb.MaxReceiveQueue = "text"
          /\ pb.DelaySeconds >= 0 /\ pb.ExpirationSeconds >= 0 /\ pb.MaxReceiveCount >= 0
  /\ sample.kind = "subscription" /\ ValidateEventStoreSubscription(sample.of) =>
       LET pb == ToProtoSubscribe(sample.of, "client", "EventsStore")
       IN pb.EventsStoreTypeData = "valued" => pb.EventsStoreTypeValue > 0

-----------------------------------------------------------------------------
\* What the code does not do.

\* client.ts: sendQueueMessage() "@returns The send result with message ID": a message
\* the broker refused resolves like one it took.
RefusalIsReported ==
  sample.kind = "batch" /\ Len(sample.of) = 1 /\ sample.of[1].IsError =>
    SendQueueMessage([IsError |-> FALSE, Results |-> sample.of]) = "rejects"

\* A subscription to the event store is accepted for a channel only if a message is.
SubscribersMeetPublishers ==
  sample.kind = "subscription" /\ ValidateEventStoreSubscription(sample.of) =>
    ValidateChannelFormat(sample.of.channel, FALSE)
=============================================================================
