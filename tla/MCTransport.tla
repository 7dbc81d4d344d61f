---------------------------- MODULE MCTransport ----------------------------
(***************************************************************************)
(* Instances of TokenCache, TlsCredentials and ReconnectBuffer for TLC:    *)
(* a behaviour is about the token of a transport, about its certificates,  *)
(* or about the messages it holds back.                                    *)
(***************************************************************************)
EXTENDS TokenCache, TlsCredentials, ReconnectBuffer

\* Two that fit together, one that fills the buffer and one that never fits.
SizeOfValue ==
  [m \in Buffered |->
     CASE m = "small" -> 1 [] m = "middle" -> 2 [] m = "large" -> 3 [] OTHER -> 4]

NoToken ==
  /\ tls = TRUE /\ connected = TRUE /\ cached = "none" /\ pending = None
  /\ running = {} /\ settled = {} /\ timer = FALSE
  /\ awaits = [c \in Callers |-> None] /\ disposed = FALSE

NoTls ==
  /\ tlsOptions = [enabled |-> FALSE, ca |-> "none", pair |-> "none", production |-> FALSE,
                   insecureSkipVerify |-> FALSE, trusted |-> TRUE]
  /\ disk = [f \in Files |-> 1] /\ dates = [v \in Versions |-> "valid"]
  /\ link = "unused" /\ connecting = TRUE
  /\ validated = 0 /\ loaded = [f \in Files |-> 0] /\ since = 0

NoBuffer ==
  /\ mode = "unused" /\ bufferQueue = <<>> /\ currentSizeBytes = 0 /\ drainWaiters = <<>>
  /\ resumed = <<>> /\ flushing = "idle" /\ came = <<>> /\ went = <<>>
  /\ answers = [m \in Buffered |-> "new"]

TokenOrTlsOrBuffer ==
  /\ \/ TokenInit /\ NoTls /\ NoBuffer
     \/ NoToken /\ TlsInit /\ NoBuffer
     \/ NoToken /\ NoTls /\ BufferInit
  /\ [][\/ /\ link = "unused" /\ mode = "unused"
           /\ TokenNext /\ UNCHANGED <<tlsVars, bufferVars>>
        \/ link # "unused" /\ TlsNext /\ UNCHANGED <<tokenVars, bufferVars>>
        \/ mode # "unused" /\ BufferNext /\ UNCHANGED <<tokenVars, tlsVars>>
       ]_<<tokenVars, tlsVars, bufferVars>>
  /\ TokenFairness /\ TlsFairness

\* Callers get their token, and a connection that is lost comes back.
CallersAndLinksGoOn == CallersAnswered /\ LinkReturns
=============================================================================
