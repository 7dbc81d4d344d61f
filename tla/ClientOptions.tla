---------------------------- MODULE ClientOptions ----------------------------
(***************************************************************************)
(* The options a client is created with: their validation, the defaults    *)
(* the client takes for what was left out, and those the transport takes,  *)
(* which is given the options as they were written and fills them in once  *)
(* more.  All of it is pure.                                               *)
(*                                                                         *)
(* An option that may be left out is a set of at most one element.  An     *)
(* address is what its parsers tell apart.  A boolean `tls' is the object  *)
(* that has nothing but `enabled', which is what it is normalised to.      *)
(***************************************************************************)
EXTENDS Messages

Addresses == {"", "blank", "no port", "no host", "bad port", "local", "remote"}
Jitters == {"full", "equal", "none"}

TlsOptions == [enabled : Optional(BOOLEAN), clientCert : BOOLEAN, clientKey : BOOLEAN]

RetryPolicies ==
  [maxRetries : {-1, 0, 3}, initialBackoffMs : Numbers, maxBackoffMs : {0, 8},
   multiplier : {1, 2}, jitter : Jitters]

ReconnectionPolicies ==
  [maxAttempts : {-1, 0, 3}, initialDelayMs : Numbers, maxDelayMs : {0, 8},
   multiplier : {1, 2}, jitter : Jitters]

KeepaliveOptions == [timeMs : Numbers, timeoutMs : Numbers, permitWithoutCalls : BOOLEAN]

\* What an application has to write, and the values of what it may leave out.
OnlyAddress ==
  [address |-> "remote", clientId |-> {}, tls |-> {}, keepalive |-> {}, retry |-> {},
   reconnect |-> {}, connectionTimeoutSeconds |-> {}, maxReceiveMessageSize |-> {},
   maxSendMessageSize |-> {}, reconnectBufferSize |-> {}]

\* A few options at a time.
ClientOptionsWritten ==
  {[OnlyAddress EXCEPT !.address = a, !.tls = t, !.clientId = i] :
     a \in Addresses, t \in Optional(TlsOptions), i \in Optional({"", "blank", "given"})}
  \cup {[OnlyAddress EXCEPT !.keepalive = k, !.reconnectBufferSize = b] :
     k \in Optional(KeepaliveOptions), b \in Optional(Numbers)}
  \cup {[OnlyAddress EXCEPT !.retry = {r}] : r \in RetryPolicies}
  \cup {[OnlyAddress EXCEPT !.reconnect = {r}] : r \in ReconnectionPolicies}
  \cup {[OnlyAddress EXCEPT !.connectionTimeoutSeconds = t, !.maxReceiveMessageSize = r,
                            !.maxSendMessageSize = s] :
     t \in Optional(Numbers), r \in Optional(Numbers), s \in Optional(Numbers)}

-----------------------------------------------------------------------------
\* Validation, before anything else is done.

IsValidAddress(address) == address \in {"local", "remote"}

\* Mutant: a certificate without its key is accepted.
ValidateTlsMutant(tls) == \A t \in tls : t.clientKey => t.clientCert

ValidateTlsOptions(tls) == \A t \in tls : t.clientCert <=> t.clientKey

ValidateRetryPolicy(retry) ==
  \A r \in retry : r.maxRetries >= 0 /\ r.initialBackoffMs > 0 /\ r.maxBackoffMs > 0

\* maxAttempts and multiplier may be anything.
ValidateReconnectionPolicy(reconnect) ==
  \A r \in reconnect : r.initialDelayMs > 0 /\ r.maxDelayMs > 0

ValidateKeepaliveOptions(keepalive) ==
  \A k \in keepalive : k.timeMs > 0 /\ k.timeoutMs > 0

ValidateClientOptions(opts) ==
  /\ ~Blank(opts.address) /\ IsValidAddress(opts.address)
  /\ RequirePositive(opts.connectionTimeoutSeconds)
  /\ RequirePositive(opts.maxReceiveMessageSize)
  /\ RequirePositive(opts.maxSendMessageSize)
  /\ RequireNonNegative(opts.reconnectBufferSize)
  /\ \A id \in opts.clientId : ~Blank(id)
  /\ ValidateTlsOptions(opts.tls) /\ ValidateRetryPolicy(opts.retry)
  /\ ValidateReconnectionPolicy(opts.reconnect) /\ ValidateKeepaliveOptions(opts.keepalive)

-----------------------------------------------------------------------------
\* The defaults of the client.

IsLocalhost(address) == address = "local"

\* resolveTlsDefault(): an object is taken as it is.
ResolveTlsDefault(opts) ==
  IF opts.tls = {}
  THEN [enabled |-> {~IsLocalhost(opts.address)}, clientCert |-> FALSE, clientKey |-> FALSE]
  ELSE Default(opts.tls, {})

ApplyDefaults(opts) ==
  [clientId |-> Default(opts.clientId, "uuid"), tls |-> ResolveTlsDefault(opts),
   keepalive |-> Default(opts.keepalive,
     [timeMs |-> 10000, timeoutMs |-> 5000, permitWithoutCalls |-> TRUE]),
   retry |-> Default(opts.retry,
     [maxRetries |-> 3, initialBackoffMs |-> 500, maxBackoffMs |-> 30000,
      multiplier |-> 2, jitter |-> "full"]),
   reconnect |-> Default(opts.reconnect,
     [maxAttempts |-> -1, initialDelayMs |-> 500, maxDelayMs |-> 30000,
      multiplier |-> 2, jitter |-> "full"]),
   connectionTimeoutMs |-> IF opts.connectionTimeoutSeconds = {} THEN 10000
                           ELSE Default(opts.connectionTimeoutSeconds, 0) * 1000,
   maxReceiveMessageSize |-> Default(opts.maxReceiveMessageSize, 104857600),
   maxSendMessageSize |-> Default(opts.maxSendMessageSize, 104857600),
   reconnectBufferSize |-> Default(opts.reconnectBufferSize, 8388608)]

\* computeBackoffMs(), and calculateDelay() of the reconnections, whose first attempt
\* is attempt 0 here: the delays the jitter may choose, in whole milliseconds.
Delays(initial, max, multiplier, jitter, attempt) ==
  LET grown == initial * multiplier ^ attempt
      delay == IF grown < max THEN grown ELSE max
  IN CASE jitter = "full" -> 0..delay
       [] jitter = "equal" -> (delay \div 2)..delay
       [] jitter = "none" -> {delay}

-----------------------------------------------------------------------------
\* The defaults of the transport.

DefaultKeepalive == [timeMs |-> 10000, timeoutMs |-> 5000, permitWithoutCalls |-> TRUE]

DefaultReconnectionPolicy ==
  [maxAttempts |-> -1, initialDelayMs |-> 500, maxDelayMs |-> 30000,
   multiplier |-> 2, jitter |-> "full"]

\* The options of grpc-js that come from the application.
BuildChannelOptions(opts) ==
  LET keepalive == Default(opts.keepalive, DefaultKeepalive)
      reconnect == Default(opts.reconnect, DefaultReconnectionPolicy)
  IN [maxReceiveMessageLength |-> Default(opts.maxReceiveMessageSize, 104857600),
      maxSendMessageLength |-> Default(opts.maxSendMessageSize, 104857600),
      keepaliveTimeMs |-> keepalive.timeMs, keepaliveTimeoutMs |-> keepalive.timeoutMs,
      keepalivePermitWithoutCalls |-> IF keepalive.permitWithoutCalls THEN 1 ELSE 0,
      initialReconnectBackoffMs |-> reconnect.initialDelayMs,
      maxReconnectBackoffMs |-> reconnect.maxDelayMs,
      minReconnectBackoffMs |-> reconnect.initialDelayMs]

IsLocalhostAddress(address) == address = "local"

ResolveTlsEnabled(tls, address) ==
  IF \E t \in tls : t.enabled # {} THEN \E t \in tls : t.enabled = {TRUE}
  ELSE ~IsLocalhostAddress(address)

NormalizeTlsOptions(tls, address) ==
  [clientCert |-> \E t \in tls : t.clientCert, clientKey |-> \E t \in tls : t.clientKey,
   enabled |-> ResolveTlsEnabled(tls, address)]

NewGrpcTransport(opts) ==
  [channelOptions |-> BuildChannelOptions(opts),
   reconnect |-> Default(opts.reconnect, DefaultReconnectionPolicy),
   bufferSize |-> Default(opts.reconnectBufferSize, 8388608),
   tls |-> NormalizeTlsOptions(opts.tls, opts.address)]

-----------------------------------------------------------------------------
OptionSamples == {[kind |-> "options", of |-> opts] : opts \in ClientOptionsWritten}

\* Options that are accepted can be worked with, and the client and its transport, which
\* fill in what was left out each for itself, agree on what it is: no interval, size or
\* backoff is zero or negative, a delay is never more than its policy allows, a client
\* certificate has its key, and what encrypts for one is encrypted for the other.
OptionsWork ==
  sample.kind = "options" /\ ValidateClientOptions(sample.of) =>
    LET opts == sample.of
        client == ApplyDefaults(opts)
        transport == NewGrpcTransport(opts)
        channel == transport.channelOptions
    IN /\ channel.keepaliveTimeMs = client.keepalive.timeMs /\ channel.keepaliveTimeMs > 0
       /\ channel.keepaliveTimeoutMs = client.keepalive.timeoutMs
       /\ (channel.keepalivePermitWithoutCalls = 1) <=> client.keepalive.permitWithoutCalls
       /\ channel.maxReceiveMessageLength = client.maxReceiveMessageSize
       /\ channel.maxSendMessageLength = client.maxSendMessageSize
       /\ channel.maxSendMessageLength > 0 /\ client.connectionTimeoutMs > 0
       /\ transport.reconnect = client.reconnect
       /\ channel.minReconnectBackoffMs > 0
       /\ transport.bufferSize = client.reconnectBufferSize
       /\ ~Blank(client.clientId)
       /\ transport.tls.clientCert <=> transport.tls.clientKey
       /\ client.tls.enabled # {} => client.tls.enabled = {transport.tls.enabled}
       /\ \A attempt \in 0..3 :
            /\ Delays(client.retry.initialBackoffMs, client.retry.maxBackoffMs,
                      client.retry.multiplier, client.retry.jitter, attempt)
                 \subseteq 0..client.retry.maxBackoffMs
            /\ Delays(client.reconnect.initialDelayMs, client.reconnect.maxDelayMs,
                      client.reconnect.multiplier, client.reconnect.jitter, attempt)
                 \subseteq 0..client.reconnect.maxDelayMs

-----------------------------------------------------------------------------
\* What the code does not do.

\* options.ts: "Whether TLS is enabled. Defaults to `false`."
TlsIsOffByDefault ==
  sample.kind = "options" /\ ValidateClientOptions(sample.of) =>
    \A t \in sample.of.tls : t.enabled = {} => ~NewGrpcTransport(sample.of).tls.enabled

\* A client that reconnects at all tries at least once: maxAttempts is not validated.
SomeAttempt ==
  sample.kind = "options" /\ ValidateClientOptions(sample.of) =>
    ApplyDefaults(sample.of).reconnect.maxAttempts # 0
=============================================================================
