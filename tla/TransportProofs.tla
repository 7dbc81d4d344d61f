-------------------------- MODULE TransportProofs ---------------------------
(***************************************************************************)
(* Proofs about calls, and about what a transport keeps beside its         *)
(* connection.                                                             *)
(*                                                                         *)
(* TokenCache, for every set of callers and any number of fetches: types,  *)
(* that callers share one fetch until dispose(), and that a token that     *)
(* expires has its timer.                                                  *)
(*                                                                         *)
(* TlsCredentials, for any number of renewals: a channel never uses files  *)
(* older than its connect.                                                 *)
(*                                                                         *)
(* ReconnectBuffer, for all messages, sizes and limits: the buffer counts  *)
(* the bytes it holds, keeps the order and strands no caller.              *)
(*                                                                         *)
(* UnaryCalls, for every finite set of calls, every selection of the       *)
(* operations and every retry policy: types, that requests are repeated    *)
(* only when that is safe, and that the throttle counts the backoffs under *)
(* way.                                                                    *)
(***************************************************************************)
EXTENDS UnaryCalls, TokenCache, TlsCredentials, ReconnectBuffer,
        FiniteSetTheorems, SequenceTheorems, TLAPS

-----------------------------------------------------------------------------
\* Which fetches are outstanding.

LEMMA OutstandingIs ==
  ASSUME NEW f
  PROVE  f \in Outstanding <=> f \in running \/ \E s \in settled : s[1] = f
BY DEF Outstanding

\* The end of a fetch at the provider keeps it outstanding.
LEMMA StaysOutstanding ==
  ASSUME TokenTypeOK, NEW f \in running, NEW ok \in BOOLEAN,
         settled' = settled \cup {<<f, ok>>},
         running' = running \ {f}
  PROVE  Outstanding' = Outstanding
<1>1. ASSUME NEW g PROVE g \in Outstanding' <=> g \in Outstanding
  <2>1. g \in Outstanding' <=> g \in running \ {f} \/ \E s \in settled \cup {<<f, ok>>} : s[1] = g
    BY DEF Outstanding
  <2>2. (\E s \in settled \cup {<<f, ok>>} : s[1] = g) <=> (\E s \in settled : s[1] = g) \/ g = f
    <3>1. <<f, ok>>[1] = f
      OBVIOUS
    <3> DEFINE new == <<f, ok>>
    <3> HIDE DEF new
    <3>2. new[1] = f
      BY <3>1 DEF new
    <3>3. (\E s \in settled \cup {new} : s[1] = g) <=> (\E s \in settled : s[1] = g) \/ g = f
      BY <3>2
    <3> QED BY <3>3 DEF new
  <2> QED BY <2>1, <2>2, OutstandingIs
<1> QED BY <1>1

\* A settlement leaves no other fetch outstanding than those that were.
LEMMA SettlesShrinks ==
  ASSUME NEW f, Settles(f) PROVE Outstanding' \subseteq Outstanding
<1>1. settled' \subseteq settled /\ running' = running
  BY DEF Settles
<1> QED BY <1>1 DEF Outstanding

-----------------------------------------------------------------------------
\* Types.

LEMMA TokenInitialTypes == TokenInit => TokenTypeOK
BY DEF TokenInit, TokenTypeOK

LEMMA RecordTypes ==
  ASSUME NEW f \in Fetches, NEW ok \in BOOLEAN, settled \subseteq Fetches \X BOOLEAN
  PROVE  settled \cup {<<f, ok>>} \subseteq Fetches \X BOOLEAN
<1>1. <<f, ok>> \in Fetches \X BOOLEAN
  OBVIOUS
<1> QED BY <1>1

LEMMA FetchTypes ==
  ASSUME TokenTypeOK, NEW f \in Fetches, NEW rest, rest \subseteq Fetches,
         FetchToken(f, rest)
  PROVE  /\ running' \subseteq Fetches
         /\ pending' = pending \/ pending' \in running'
         /\ rest \subseteq running'
BY DEF FetchToken

LEMMA AskTypes ==
  ASSUME TokenTypeOK, NEW c \in Callers, Ask(c) PROVE TokenTypeOK'
<1>1. CASE UNCHANGED <<pending, running, awaits>> /\ connected' = TRUE
  BY <1>1 DEF Ask, TokenTypeOK, Outstanding
<1>2. ASSUME NEW f \in Fetches, FetchToken(f, running), UNCHANGED connected,
             awaits' = [awaits EXCEPT ![c] = f]
      PROVE  TokenTypeOK'
  <2>1. running' \subseteq Fetches /\ (pending' = pending \/ pending' \in running')
        /\ running \subseteq running'
    BY <1>2, FetchTypes DEF TokenTypeOK
  <2>2. UNCHANGED settled
    BY DEF Ask
  <2>3. Outstanding \subseteq Outstanding' /\ running' \subseteq Outstanding'
    BY <2>1, <2>2 DEF Outstanding
  <2>4. pending' \in Outstanding' \cup {None}
    BY <2>1, <2>3 DEF TokenTypeOK, None
  <2>5. awaits' \in [Callers -> Fetches \cup {None}]
    BY <1>2 DEF TokenTypeOK
  <2> QED BY <1>2, <2>1, <2>4, <2>5 DEF Ask, TokenTypeOK
<1> QED BY <1>1, <1>2 DEF Ask

LEMMA AnswerTypes ==
  ASSUME TokenTypeOK, NEW f \in Fetches, ProviderAnswers(f) PROVE TokenTypeOK'
<1>1. f \in running /\ settled' = settled \cup {<<f, TRUE>>}
  BY DEF ProviderAnswers
<1>2. settled' \subseteq Fetches \X BOOLEAN
  BY <1>1, RecordTypes DEF TokenTypeOK
<1>3. ASSUME NEW token \in {"forever", "long"}, cached' = token, Rearm(token),
             running' = running \ {f}, UNCHANGED pending
      PROVE  TokenTypeOK'
  <2>1. Outstanding' = Outstanding
    BY <1>1, <1>3, StaysOutstanding
  <2>2. timer' \in BOOLEAN
    BY <1>3 DEF Rearm, TokenTypeOK
  <2>3. pending' \in Outstanding' \cup {None}
    BY <1>3, <2>1 DEF TokenTypeOK
  <2> QED BY <1>2, <1>3, <2>2, <2>3 DEF ProviderAnswers, TokenTypeOK
<1>4. CASE Refresh(running \ {f})
  <2>1. PICK g \in Fetches : FetchToken(g, running \ {f})
    BY <1>4 DEF Refresh
  <2>2. running' \subseteq Fetches /\ (pending' = pending \/ pending' \in running')
        /\ running \ {f} \subseteq running'
    BY <2>1, FetchTypes DEF TokenTypeOK
  <2>3. ASSUME NEW h \in Outstanding PROVE h \in Outstanding'
    <3>1. h \in running \/ \E s \in settled : s[1] = h
      BY <2>3, OutstandingIs
    <3>2. h \in running' \/ \E s \in settled' : s[1] = h
      <4>1. CASE h = f
        <5>1. <<f, TRUE>> \in settled' /\ <<f, TRUE>>[1] = h
          BY <1>1, <4>1
        <5> QED BY <5>1
      <4>2. CASE h # f
        BY <1>1, <2>2, <3>1, <4>2
      <4> QED BY <4>1, <4>2
    <3> QED BY <3>2 DEF Outstanding
  <2>4. running' \subseteq Outstanding'
    BY DEF Outstanding
  <2>5. pending' \in Outstanding' \cup {None}
    BY <2>2, <2>3, <2>4 DEF TokenTypeOK
  <2>6. cached' = "none" /\ timer' = FALSE
    BY <1>4 DEF Refresh
  <2> QED BY <1>2, <2>2, <2>5, <2>6 DEF ProviderAnswers, TokenTypeOK
<1> QED BY <1>3, <1>4 DEF ProviderAnswers

LEMMA TokenNextTypes == TokenTypeOK /\ [TokenNext]_tokenVars => TokenTypeOK'
<1> SUFFICES ASSUME TokenTypeOK, [TokenNext]_tokenVars PROVE TokenTypeOK'
  OBVIOUS
<1>1. ASSUME NEW c \in Callers, Ask(c) PROVE TokenTypeOK'
  BY <1>1, AskTypes
<1>2. ASSUME NEW f \in Fetches, ProviderAnswers(f) PROVE TokenTypeOK'
  BY <1>2, AnswerTypes
<1>3. ASSUME NEW f \in Fetches, ProviderFails(f) PROVE TokenTypeOK'
  <2>1. Outstanding' = Outstanding
    BY <1>3, StaysOutstanding DEF ProviderFails
  <2>2. settled' \subseteq Fetches \X BOOLEAN /\ running' \subseteq Fetches
    BY <1>3, RecordTypes DEF ProviderFails, TokenTypeOK
  <2>3. pending' \in Outstanding' \cup {None}
    BY <1>3, <2>1 DEF ProviderFails, TokenTypeOK
  <2> QED BY <1>3, <2>2, <2>3 DEF ProviderFails, TokenTypeOK
<1>4. ASSUME NEW f \in Fetches, Settles(f) PROVE TokenTypeOK'
  <2>1. settled' \subseteq Fetches \X BOOLEAN /\ pending' = None
    BY <1>4 DEF Settles, Forgets, TokenTypeOK
  <2>2. awaits' \in [Callers -> Fetches \cup {None}]
    BY <1>4 DEF Settles, TokenTypeOK
  <2>3. connected' \in BOOLEAN
    BY <1>4 DEF Settles, TokenTypeOK
  <2> QED BY <1>4, <2>1, <2>2, <2>3 DEF Settles, TokenTypeOK
<1>5. CASE TimerFires
  <2>1. PICK g \in Fetches : FetchToken(g, running)
    BY <1>5 DEF TimerFires, Refresh
  <2>2. running' \subseteq Fetches /\ (pending' = pending \/ pending' \in running')
        /\ running \subseteq running'
    BY <2>1, FetchTypes DEF TokenTypeOK
  <2>3. UNCHANGED settled
    BY <1>5 DEF TimerFires
  <2>4. Outstanding \subseteq Outstanding' /\ running' \subseteq Outstanding'
    BY <2>2, <2>3 DEF Outstanding
  <2>5. pending' \in Outstanding' \cup {None}
    BY <2>2, <2>4 DEF TokenTypeOK
  <2>6. cached' = "none" /\ timer' = FALSE
    BY <1>5 DEF TimerFires, Refresh
  <2> QED BY <1>5, <2>2, <2>5, <2>6 DEF TimerFires, TokenTypeOK
<1>6. CASE Expires
  BY <1>6 DEF Expires, TokenTypeOK, Outstanding
<1>7. CASE Invalidate
  BY <1>7 DEF Invalidate, TokenTypeOK, Outstanding
<1>8. CASE Dispose
  BY <1>8 DEF Dispose, TokenTypeOK, Outstanding
<1>9. CASE UNCHANGED tokenVars
  BY <1>9 DEF tokenVars, TokenTypeOK, Outstanding
<1> QED BY <1>1, <1>2, <1>3, <1>4, <1>5, <1>6, <1>7, <1>8, <1>9 DEF TokenNext

\* Every variable stays in its type, and the fetch others join is outstanding: nobody
\* joins a fetch that is over (fetchToken() of token-cache.ts).
THEOREM TokenTypes == TokenSpec => []TokenTypeOK
<1> QED BY TokenInitialTypes, TokenNextTypes, PTL DEF TokenSpec

-----------------------------------------------------------------------------
\* A token that expires has a timer.

\* scheduleProactiveRefresh() and cancelRefreshTimer() keep the refresh timer in step
\* with the token, whatever fetch brings it and whoever empties the cache.
THEOREM TimerFollowsToken == TokenSpec => []RefreshArmed
<1>1. TokenInit => RefreshArmed
  BY DEF TokenInit, RefreshArmed
<1>2. RefreshArmed /\ [TokenNext]_tokenVars => RefreshArmed'
  <2> SUFFICES ASSUME RefreshArmed, [TokenNext]_tokenVars PROVE RefreshArmed'
    OBVIOUS
  <2>1. ASSUME NEW f \in Fetches, ProviderAnswers(f) PROVE RefreshArmed'
    BY <2>1 DEF ProviderAnswers, Refresh, Rearm, RefreshArmed
  <2>2. CASE UNCHANGED <<cached, timer>>
    BY <2>2 DEF RefreshArmed
  <2>3. CASE TimerFires \/ Invalidate \/ Dispose
    BY <2>3 DEF TimerFires, Refresh, Invalidate, Dispose, RefreshArmed
  <2>4. CASE Expires
    BY <2>4 DEF Expires, RefreshArmed
  <2>5. CASE UNCHANGED tokenVars
    BY <2>5 DEF tokenVars, RefreshArmed
  <2>6. ASSUME NEW c \in Callers, Ask(c) PROVE UNCHANGED <<cached, timer>>
    BY <2>6 DEF Ask
  <2>7. ASSUME NEW f \in Fetches, ProviderFails(f) \/ Settles(f) PROVE UNCHANGED <<cached, timer>>
    BY <2>7 DEF ProviderFails, Settles
  <2> QED BY <2>1, <2>2, <2>3, <2>4, <2>5, <2>6, <2>7 DEF TokenNext
<1> QED BY <1>1, <1>2, PTL DEF TokenSpec

-----------------------------------------------------------------------------
\* One fetch at a time.

\* The strengthening: the finally of a fetch clears the pending one whichever it is,
\* which is harmless only because there is no other before dispose().
Shared == ~disposed => \A f \in Outstanding : f = pending

\* A fetch is either running or settled, with one result.
Unique ==
  /\ \A s \in settled : s[1] \notin running
  /\ \A s, t \in settled : s[1] = t[1] => s = t

LEMMA FetchIsNew ==
  ASSUME NEW f \in Fetches, NEW rest, FetchToken(f, rest)
  PROVE  \A g \in running' : g \in rest \/ g \notin Outstanding
BY DEF FetchToken

LEMMA EndKeepsUnique ==
  ASSUME Unique, NEW f \in running, NEW ok \in BOOLEAN,
         settled' = settled \cup {<<f, ok>>},
         \A g \in running' : g \in running \ {f} \/ g \notin Outstanding
  PROVE  Unique'
<1> DEFINE new == <<f, ok>>
<1>1. new[1] = f /\ settled' = settled \cup {new}
  OBVIOUS
<1> HIDE DEF new
<1>2. \A s \in settled : s[1] # f /\ s[1] \in Outstanding
  BY DEF Unique, Outstanding
<1>3. f \in Outstanding
  BY DEF Outstanding
<1>4. \A s \in settled' : s[1] \notin running'
  BY <1>1, <1>2, <1>3 DEF Unique
<1>5. \A s, t \in settled' : s[1] = t[1] => s = t
  BY <1>1, <1>2 DEF Unique
<1> QED BY <1>4, <1>5 DEF Unique

LEMMA NextUnique == TokenTypeOK /\ Unique /\ [TokenNext]_tokenVars => Unique'
<1> SUFFICES ASSUME TokenTypeOK, Unique, [TokenNext]_tokenVars PROVE Unique'
  OBVIOUS
<1>1. CASE UNCHANGED settled /\ \A g \in running' : g \in running \/ g \notin Outstanding
  <2>1. \A s \in settled : s[1] \in Outstanding
    BY DEF Outstanding
  <2> QED BY <1>1, <2>1 DEF Unique
<1>2. ASSUME NEW c \in Callers, Ask(c) PROVE Unique'
  <2>1. UNCHANGED running \/ \E f \in Fetches : FetchToken(f, running)
    BY <1>2 DEF Ask
  <2>2. \A g \in running' : g \in running \/ g \notin Outstanding
    BY <2>1, FetchIsNew
  <2> QED BY <1>1, <1>2, <2>2 DEF Ask
<1>3. ASSUME NEW f \in Fetches, ProviderAnswers(f) PROVE Unique'
  <2>1. f \in running /\ settled' = settled \cup {<<f, TRUE>>}
    BY <1>3 DEF ProviderAnswers
  <2>2. running' = running \ {f} \/ \E g \in Fetches : FetchToken(g, running \ {f})
    BY <1>3 DEF ProviderAnswers, Refresh
  <2>3. \A g \in running' : g \in running \ {f} \/ g \notin Outstanding
    BY <2>2, FetchIsNew
  <2> QED BY <2>1, <2>3, EndKeepsUnique
<1>4. ASSUME NEW f \in Fetches, ProviderFails(f) PROVE Unique'
  BY <1>4, EndKeepsUnique DEF ProviderFails
<1>5. ASSUME NEW f \in Fetches, Settles(f) PROVE Unique'
  <2>1. settled' \subseteq settled /\ running' = running
    BY <1>5 DEF Settles
  <2> QED BY <2>1 DEF Unique
<1>6. CASE TimerFires
  <2>1. \A g \in running' : g \in running \/ g \notin Outstanding
    BY <1>6, FetchIsNew DEF TimerFires, Refresh
  <2> QED BY <1>1, <1>6, <2>1 DEF TimerFires
<1>7. CASE Expires \/ Invalidate \/ Dispose \/ UNCHANGED tokenVars
  BY <1>7 DEF Expires, Invalidate, Dispose, tokenVars, Unique
<1> QED BY <1>2, <1>3, <1>4, <1>5, <1>6, <1>7 DEF TokenNext

LEMMA FetchShares ==
  ASSUME Shared, TokenTypeOK, NEW f \in Fetches, NEW rest, rest \subseteq Outstanding,
         FetchToken(f, rest), ~disposed
  PROVE  /\ \A g \in Outstanding \cup running' : g = pending'
         /\ running' \subseteq Outstanding \cup {pending'}
<1>1. CASE pending # None
  BY <1>1 DEF FetchToken, Joined, Shared
<1>2. CASE pending = None
  <2>1. None \notin Outstanding
    <3>1. None \notin Fetches
      BY DEF None, Fetches
    <3>2. \A s \in settled : s[1] \in Fetches
      BY DEF TokenTypeOK
    <3> QED BY <3>1, <3>2, OutstandingIs DEF TokenTypeOK
  <2>2. Outstanding = {}
    BY <1>2, <2>1 DEF Shared
  <2> QED BY <1>2, <2>2 DEF FetchToken, Joined
<1> QED BY <1>1, <1>2

LEMMA NextShares == TokenTypeOK /\ Unique /\ Shared /\ [TokenNext]_tokenVars => Shared'
<1> SUFFICES ASSUME TokenTypeOK, Unique, Shared, [TokenNext]_tokenVars, ~disposed' PROVE \A f \in Outstanding' : f = pending'
  BY DEF Shared
<1>1. ASSUME NEW c \in Callers, Ask(c) PROVE \A f \in Outstanding' : f = pending'
  <2>0. UNCHANGED <<settled, disposed>> /\ ~disposed
    BY <1>1 DEF Ask
  <2>1. CASE UNCHANGED <<pending, running>>
    BY <2>0, <2>1 DEF Shared, Outstanding
  <2>2. ASSUME NEW f \in Fetches, FetchToken(f, running) PROVE \A g \in Outstanding' : g = pending'
    <3>1. running \subseteq Outstanding
      BY DEF Outstanding
    <3>2. \A g \in Outstanding \cup running' : g = pending'
      BY <2>0, <2>2, <3>1, FetchShares
    <3>3. Outstanding' \subseteq Outstanding \cup running'
      BY <2>0 DEF Outstanding
    <3> QED BY <3>2, <3>3
  <2> QED BY <1>1, <2>1, <2>2 DEF Ask
<1>2. ASSUME NEW f \in Fetches, ProviderAnswers(f) PROVE \A g \in Outstanding' : g = pending'
  <2>0. f \in running /\ settled' = settled \cup {<<f, TRUE>>} /\ ~disposed
    BY <1>2 DEF ProviderAnswers
  <2>1. CASE UNCHANGED pending /\ running' = running \ {f}
    <3>1. Outstanding' = Outstanding
      BY <2>0, <2>1, StaysOutstanding
    <3> QED BY <2>0, <2>1, <3>1 DEF Shared
  <2>2. CASE Refresh(running \ {f})
    <3>1. PICK g \in Fetches : FetchToken(g, running \ {f})
      BY <2>2 DEF Refresh
    <3>2. running \ {f} \subseteq Outstanding /\ f \in Outstanding
      BY <2>0 DEF Outstanding
    <3>3. \A h \in Outstanding \cup running' : h = pending'
      BY <2>0, <3>1, <3>2, FetchShares
    <3>4. ASSUME NEW h \in Outstanding' PROVE h \in Outstanding \cup running'
      <4>1. h \in running' \/ \E s \in settled' : s[1] = h
        BY <3>4 DEF Outstanding
      <4>2. ASSUME NEW s \in settled', s[1] = h PROVE h \in Outstanding
        <5>1. CASE s = <<f, TRUE>>
          BY <3>2, <4>2, <5>1
        <5>2. CASE s \in settled
          BY <4>2, <5>2 DEF Outstanding
        <5> QED BY <2>0, <5>1, <5>2
      <4> QED BY <4>1, <4>2
    <3> QED BY <3>3, <3>4
  <2> QED BY <1>2, <2>1, <2>2 DEF ProviderAnswers
<1>3. ASSUME NEW f \in Fetches, ProviderFails(f) PROVE \A g \in Outstanding' : g = pending'
  <2>1. Outstanding' = Outstanding
    BY <1>3, StaysOutstanding DEF ProviderFails
  <2> QED BY <1>3, <2>1 DEF ProviderFails, Shared
<1>4. ASSUME NEW f \in Fetches, Settles(f) PROVE \A g \in Outstanding' : g = pending'
  \* Every fetch that is outstanding would be f, and f is over.
  <2>1. PICK ok \in BOOLEAN : <<f, ok>> \in settled /\ settled' = settled \ {<<f, ok>>}
    BY <1>4 DEF Settles
  <2>2. <<f, ok>>[1] = f /\ ~disposed /\ running' = running
    BY <1>4 DEF Settles
  <2>3. f = pending
    BY <2>1, <2>2 DEF Shared, Outstanding
  <2>4. ASSUME NEW g \in Outstanding' PROVE FALSE
    <3>1. g \in Outstanding /\ g = f
      BY <1>4, <2>2, <2>3, SettlesShrinks DEF Shared
    <3>2. CASE g \in running
      BY <2>1, <2>2, <3>1, <3>2 DEF Unique
    <3>3. ASSUME NEW s \in settled', s[1] = g PROVE FALSE
      BY <2>1, <2>2, <3>1, <3>3 DEF Unique
    <3> QED BY <2>2, <2>4, <3>2, <3>3 DEF Outstanding
  <2> QED BY <2>4
<1>5. CASE TimerFires
  <2>0. UNCHANGED <<settled, disposed>> /\ ~disposed
    BY <1>5 DEF TimerFires
  <2>1. PICK g \in Fetches : FetchToken(g, running)
    BY <1>5 DEF TimerFires, Refresh
  <2>2. running \subseteq Outstanding
    BY DEF Outstanding
  <2>3. \A h \in Outstanding \cup running' : h = pending'
    BY <2>0, <2>1, <2>2, FetchShares
  <2>4. Outstanding' \subseteq Outstanding \cup running'
    BY <2>0 DEF Outstanding
  <2> QED BY <2>3, <2>4
<1>6. CASE Expires \/ Invalidate \/ UNCHANGED tokenVars
  BY <1>6 DEF Expires, Invalidate, tokenVars, Shared, Outstanding
<1>7. CASE Dispose
  BY <1>7 DEF Dispose
<1> QED BY <1>1, <1>2, <1>3, <1>4, <1>5, <1>6, <1>7 DEF TokenNext

\* However many callers find the cache empty, and whatever empties it, at most one call
\* of the provider is outstanding until the transport is closed.
THEOREM FetchIsShared == TokenSpec => []OneFetch
<1>1. TokenInit => Unique /\ Shared
  BY DEF TokenInit, Unique, Shared, Outstanding
<1>2. Shared => OneFetch
  <2> SUFFICES ASSUME Shared, ~disposed PROVE Cardinality(running) <= 1
    BY DEF OneFetch
  <2>1. running \subseteq {pending}
    BY DEF Shared, Outstanding
  <2>2. IsFiniteSet({pending}) /\ Cardinality({pending}) = 1
    BY FS_Singleton
  <2>3. Cardinality(running) <= Cardinality({pending})
    BY <2>1, <2>2, FS_Subset
  <2> QED BY <2>2, <2>3
<1> QED BY <1>1, <1>2, TokenInitialTypes, TokenNextTypes, NextUnique, NextShares, PTL DEF TokenSpec

-----------------------------------------------------------------------------
\* TlsCredentials: the invariant.

\* With TLS off nothing is loaded, and nothing waits to be.
PlainLoadsNothing ==
  ~tlsOptions.enabled =>
    /\ link \in {"new", "ready", "up", "down", "refused"}
    /\ loaded.cert = 0

\* Inline credentials are the first version.
InlineIsFirst == tlsOptions.pair # "path" => loaded.cert \in {0, 1}

\* What an attempt has read of files that only grow newer.
ReadsAreFresh ==
  tlsOptions.enabled /\ tlsOptions.pair = "path" =>
    /\ link \in {"loadingCert", "loadingKey", "building", "ready", "up"} =>
         since > 0 /\ since <= disk.cert
    /\ link \in {"loadingKey", "building", "ready", "up"} => loaded.cert >= since
    /\ link \in {"ready", "up"} => loaded.cert = loaded.key

TlsInv == TlsTypeOK /\ PlainLoadsNothing /\ InlineIsFirst /\ ReadsAreFresh

LEMMA RenewalsAreNatural == MaxRenewals \in Nat
BY TlsConstants DEF TlsConstants

\* The parts of the types.
LEMMA DiskTypes ==
  ASSUME TlsTypeOK
  PROVE  /\ disk.cert \in Versions /\ disk.key \in Versions /\ Older(disk) \in Versions
         /\ Older(disk) <= disk.cert
         /\ ResolvePemOrPath("cert") \in Versions /\ ResolvePemOrPath("key") \in Versions
         /\ Versions \subseteq 0..(MaxRenewals + 1)
<1>1. disk["cert"] \in Versions /\ disk["key"] \in Versions /\ 1 \in Versions /\ Versions \subseteq 0..(MaxRenewals + 1)
  BY RenewalsAreNatural DEF TlsTypeOK, Files, Versions
<1>2. Versions \subseteq Int
  BY RenewalsAreNatural DEF Versions
<1>3. Older(disk) \in {disk["cert"], disk["key"]} /\ (disk["cert"] \in Int /\ disk["key"] \in Int => Older(disk) <= disk["cert"])
  BY DEF Older
<1>4. \A file \in Files : ResolvePemOrPath(file) \in Versions
  BY <1>1 DEF ResolvePemOrPath, TlsTypeOK
<1> QED BY <1>1, <1>2, <1>3, <1>4 DEF Files

LEMMA TlsInitInv == TlsInit => TlsInv
<1> SUFFICES ASSUME TlsInit PROVE TlsInv
  OBVIOUS
<1>1. TlsTypeOK
  <2>1. 1 \in Versions /\ 0 \in 0..(MaxRenewals + 1)
    BY RenewalsAreNatural DEF Versions
  <2> QED BY <2>1 DEF TlsInit, TlsTypeOK
<1>2. loaded.cert = 0
  BY DEF TlsInit, Files
<1> QED BY <1>1, <1>2 DEF TlsInit, TlsInv, PlainLoadsNothing, InlineIsFirst, ReadsAreFresh

\* Steps that read nothing.
LEMMA LinkMoves ==
  ASSUME TlsInv, Connect \/ ValidateCertificates \/ BuildClient \/ Handshake \/ Disconnected \/ Reconnect
  PROVE  TlsInv'
<1>1. UNCHANGED <<tlsOptions, disk, dates, loaded, since>>
  BY DEF Connect, ValidateCertificates, BuildClient, Handshake, Disconnected, Reconnect
<1>2. connecting' \in BOOLEAN /\ validated' \in 0..(MaxRenewals + 1)
  BY DiskTypes DEF TlsInv, TlsTypeOK, Connect, ValidateCertificates, BuildClient, Handshake, Disconnected, Reconnect
<1>3. link' \in {"validating", "loading", "ready", "up", "down", "refused"}
  BY DEF Connect, ValidateCertificates, BuildClient, Handshake, Disconnected, Reconnect, AttemptFails
<1>4. TlsTypeOK'
  BY <1>1, <1>2, <1>3 DEF TlsInv, TlsTypeOK
<1>5. PlainLoadsNothing' /\ InlineIsFirst'
  BY <1>1, <1>3 DEF TlsInv, PlainLoadsNothing, InlineIsFirst, Connect, ValidateCertificates, BuildClient,
     Handshake, Disconnected, Reconnect
<1>6. ReadsAreFresh'
  <2>1. tlsOptions.enabled /\ link' \in {"ready", "up"} =>
          link \in {"ready", "up"} \/ (link = "building" /\ CreateSsl)
    BY DEF Connect, ValidateCertificates, BuildClient, Handshake, Disconnected, Reconnect, AttemptFails
  <2> QED BY <1>1, <1>3, <2>1 DEF TlsInv, ReadsAreFresh, CreateSsl
<1> QED BY <1>4, <1>5, <1>6 DEF TlsInv

\* Steps that read a file.
LEMMA LoadsKeep ==
  ASSUME TlsInv, LoadCa \/ LoadCert \/ LoadKey
  PROVE  TlsInv'
<1>1. UNCHANGED <<tlsOptions, disk, dates, connecting, validated>>
      /\ tlsOptions.enabled /\ link \in {"loading", "loadingCert", "loadingKey"}
  BY DEF TlsInv, TlsTypeOK, PlainLoadsNothing, TlsAsked, LoadCa, LoadCert, LoadKey
<1>2. tlsOptions.enabled /\ loaded \in [Files -> 0..(MaxRenewals + 1)]
  BY <1>1 DEF TlsInv, TlsTypeOK
<1>3. CASE LoadCa
  <2>1. /\ since' = Older(disk) /\ loaded' = loaded /\ link' \in {"refused", "down", "loadingCert"}
    BY <1>3 DEF LoadCa, AttemptFails
  <2>2. TlsTypeOK'
    BY <1>1, <2>1, DiskTypes DEF TlsInv, TlsTypeOK
  <2>3. Older(disk) > 0 /\ Older(disk) <= disk.cert
    BY DiskTypes, RenewalsAreNatural DEF TlsInv, Versions
  <2> QED BY <1>1, <2>1, <2>2, <2>3 DEF TlsInv, PlainLoadsNothing, InlineIsFirst, ReadsAreFresh
<1>4. CASE LoadCert
  <2>1. link = "loadingCert" /\ link' = "loadingKey" /\ since' = since
    BY <1>4 DEF LoadCert
  <2>2. loaded' \in [Files -> 0..(MaxRenewals + 1)]
        /\ loaded'.cert = IF tlsOptions.pair = "none" THEN loaded.cert ELSE ResolvePemOrPath("cert")
    <3>1. "cert" \in Files
      BY DEF Files
    <3> QED BY <1>2, <1>4, <3>1, DiskTypes DEF LoadCert, TlsInv
  <2>3. TlsTypeOK'
    BY <1>1, <2>1, <2>2 DEF TlsInv, TlsTypeOK
  <2>4. InlineIsFirst'
    BY <1>1, <2>2 DEF TlsInv, InlineIsFirst, ResolvePemOrPath
  <2>5. ReadsAreFresh'
    BY <1>1, <2>1, <2>2 DEF TlsInv, ReadsAreFresh, ResolvePemOrPath
  <2> QED BY <1>1, <2>3, <2>4, <2>5 DEF TlsInv, PlainLoadsNothing
<1>5. CASE LoadKey
  <2>1. link = "loadingKey" /\ link' \in {"building", "refused", "down"} /\ since' = since
    BY <1>5 DEF LoadKey, AttemptFails
  <2>2. loaded' \in [Files -> 0..(MaxRenewals + 1)] /\ loaded'.cert = loaded.cert
    <3>1. "cert" \in Files /\ "key" \in Files
      BY DEF Files
    <3> QED BY <1>2, <1>5, <3>1, DiskTypes DEF LoadKey, TlsInv
  <2>3. TlsTypeOK'
    BY <1>1, <2>1, <2>2 DEF TlsInv, TlsTypeOK
  <2> QED BY <1>1, <2>1, <2>2, <2>3 DEF TlsInv, PlainLoadsNothing, InlineIsFirst, ReadsAreFresh
<1> QED BY <1>3, <1>4, <1>5

\* Files are renewed and certificates age, at any time.
LEMMA RenewalKeeps ==
  ASSUME TlsInv, (\E file \in Files : Renews(file)) \/ (\E v \in Versions : BecomesValid(v) \/ Lapses(v))
  PROVE  TlsInv'
<1>1. UNCHANGED <<tlsOptions, link, connecting, validated, loaded, since>>
  BY DEF Renews, BecomesValid, Lapses
<1>2. disk' \in [Files -> Versions] /\ disk'.cert >= disk.cert
  <2>1. CASE disk' = disk
    BY <2>1, DiskTypes, RenewalsAreNatural DEF TlsInv, TlsTypeOK, Versions
  <2>2. ASSUME NEW file \in Files, Renews(file) PROVE disk' \in [Files -> Versions] /\ disk'.cert >= disk.cert
    <3>1. disk' = [disk EXCEPT ![file] = disk[file] + 1] /\ disk[file] <= MaxRenewals
      BY <2>2 DEF Renews
    <3>2. disk \in [Files -> Versions] /\ disk[file] \in Versions /\ disk["cert"] \in Versions /\ "cert" \in Files
      BY DEF TlsInv, TlsTypeOK, Files
    <3>3. disk[file] + 1 \in Versions
      BY <3>1, <3>2, RenewalsAreNatural DEF Versions
    <3>4. disk'["cert"] = IF file = "cert" THEN disk["cert"] + 1 ELSE disk["cert"]
      BY <3>1, <3>2
    <3>5. disk["cert"] \in Int
      BY <3>2, RenewalsAreNatural DEF Versions
    <3> QED BY <3>1, <3>2, <3>3, <3>4, <3>5
  <2>3. disk' = disk \/ \E file \in Files : Renews(file)
    BY DEF BecomesValid, Lapses
  <2> QED BY <2>1, <2>2, <2>3
<1>3. dates' \in [Versions -> {"early", "valid", "expired"}]
  BY DEF TlsInv, TlsTypeOK, Renews, BecomesValid, Lapses
<1>4. TlsTypeOK'
  BY <1>1, <1>2, <1>3 DEF TlsInv, TlsTypeOK
<1>5. ReadsAreFresh'
  <2>1. disk.cert \in Int /\ disk'.cert \in Int /\ since \in Int
    BY <1>2, <1>4, DiskTypes, RenewalsAreNatural DEF TlsInv, TlsTypeOK, Versions, Files
  <2> QED BY <1>1, <1>2, <2>1 DEF TlsInv, ReadsAreFresh
<1> QED BY <1>1, <1>4, <1>5 DEF TlsInv, PlainLoadsNothing, InlineIsFirst

LEMMA TlsNextInv == TlsInv /\ [TlsNext]_tlsVars => TlsInv'
<1> SUFFICES ASSUME TlsInv, [TlsNext]_tlsVars PROVE TlsInv'
  OBVIOUS
<1>1. CASE UNCHANGED tlsVars
  BY <1>1 DEF tlsVars, TlsInv, TlsTypeOK, PlainLoadsNothing, InlineIsFirst, ReadsAreFresh
<1> QED BY <1>1, LinkMoves, LoadsKeep, RenewalKeeps DEF TlsNext, Attempts

\* A channel has a certificate and its own key, both at least as new as the files that were
\* complete when its attempt began (resolveSslParts), however often files are renewed
\* between the reads, and with TLS off nothing was loaded.
THEOREM ChannelsAreFresh == TlsSpec => []CredentialsAreFresh
<1>1. TlsInv => CredentialsAreFresh
  BY DEF TlsInv, TlsTypeOK, TlsAsked, PlainLoadsNothing, InlineIsFirst, ReadsAreFresh, CredentialsAreFresh
<1> QED BY <1>1, TlsInitInv, TlsNextInv, PTL DEF TlsSpec

-----------------------------------------------------------------------------
\* Sums over a sequence.

\* f[n] is the sum of the first n sizes.
Sums(q, f) ==
  /\ f[0] = 0
  /\ \A n \in 1..Len(q) : f[n] = f[n - 1] + SizeOf[q[n]]

LEMMA BufferLimits == SizeOf \in [Buffered -> Nat] /\ MaxSizeBytes \in Nat /\ "idle" \notin Buffered
BY BufferConstants DEF BufferConstants

LessThan == {ss \in Nat \X Nat : ss[1] < ss[2]}

LEMMA HasFirst ==
  ASSUME NEW T, T \subseteq Nat, T # {}
  PROVE  \E x \in T : \A y \in T : x <= y
<1>1. IsWellFoundedOn(LessThan, Nat)
  BY NatLessThanWellFounded DEF OpToRel, LessThan
<1>2. PICK x \in T : \A y \in T : ~ (<<y, x>> \in LessThan)
  BY <1>1, WFMin
<1>3. ASSUME NEW y \in T PROVE x <= y
  <2>1. <<y, x>> \in Nat \X Nat /\ <<y, x>>[1] = y /\ <<y, x>>[2] = x
    OBVIOUS
  <2>2. ~(y < x)
    BY <1>2, <2>1 DEF LessThan
  <2> QED BY <2>2
<1> QED BY <1>3

\* Sums are there ...
LEMMA HasSums ==
  ASSUME NEW q \in Seq(Buffered)
  PROVE  \E f \in [0..Len(q) -> Int] : Sums(q, f)
<1> DEFINE Upto(n, f) == f[0] = 0 /\ \A i \in 1..n : f[i] = f[i - 1] + SizeOf[q[i]]
           Bad == {n \in 0..Len(q) : ~\E f \in [0..n -> Int] : Upto(n, f)}
<1>1. Len(q) \in Nat /\ \A i \in 1..Len(q) : q[i] \in Buffered /\ SizeOf[q[i]] \in Int
  BY BufferLimits, LenProperties
<1>2. 0 \notin Bad
  <2> DEFINE f == [i \in 0..0 |-> 0]
  <2>1. f \in [0..0 -> Int] /\ f[0] = 0 /\ \A i \in 1..0 : FALSE
    OBVIOUS
  <2> QED BY <2>1
<1>3. ASSUME NEW n \in 0..Len(q), n + 1 \in 0..Len(q), n \notin Bad PROVE n + 1 \notin Bad
  <2>1. PICK f \in [0..n -> Int] : Upto(n, f)
    BY <1>3
  <2> DEFINE x == f[n] + SizeOf[q[n + 1]]
             g == [i \in 0..(n + 1) |-> IF i = n + 1 THEN x ELSE f[i]]
  <2>2. x \in Int /\ n \in Nat
    BY <1>1, <1>3
  <2> HIDE DEF x
  <2>3. \A i \in 0..(n + 1) : i # n + 1 => i \in 0..n
    BY <2>2
  <2>4. g \in [0..(n + 1) -> Int]
    BY <2>2, <2>3
  <2>5. g[n + 1] = x /\ \A i \in 0..n : g[i] = f[i]
    BY <2>2
  <2> HIDE DEF g
  <2>6. ASSUME NEW i \in 1..(n + 1) PROVE g[i] = g[i - 1] + SizeOf[q[i]]
    <3>1. CASE i = n + 1
      <4>1. i - 1 = n /\ n \in 0..n
        BY <2>2, <3>1
      <4> QED BY <2>5, <3>1, <4>1 DEF x
    <3>2. CASE i # n + 1
      <4>1. i \in 1..n /\ i \in 0..n /\ i - 1 \in 0..n
        BY <2>2, <3>2
      <4> QED BY <2>1, <2>5, <4>1
    <3> QED BY <3>1, <3>2
  <2>7. g[0] = 0
    BY <2>1, <2>2, <2>5
  <2> QED BY <2>4, <2>6, <2>7
<1>4. ASSUME Bad # {} PROVE FALSE
  <2>1. Bad \subseteq Nat
    BY <1>1
  <2>2. PICK n \in Bad : \A m \in Bad : n <= m
    BY <1>4, <2>1, HasFirst
  <2>3. n \in 0..Len(q) /\ n # 0
    BY <1>2, <2>2
  <2> HIDE DEF Bad
  <2>4. n - 1 \notin Bad /\ n - 1 \in 0..Len(q) /\ n - 1 + 1 = n
    BY <1>1, <2>2, <2>3
  <2> QED BY <1>3, <2>2, <2>3, <2>4
<1>5. Len(q) \notin Bad /\ Len(q) \in 0..Len(q)
  BY <1>1, <1>4
<1>6. PICK f \in [0..Len(q) -> Int] : Upto(Len(q), f)
  BY <1>5
<1> QED BY <1>6 DEF Sums

\* ... and are what BytesOf computes.
LEMMA BytesAreSums ==
  ASSUME NEW q \in Seq(Buffered), NEW f \in [0..Len(q) -> Int], Sums(q, f)
  PROVE  BytesOf(q) = f[Len(q)]
<1> DEFINE N == 0..Len(q)
           Total(g) == [n \in N |-> IF n = 0 THEN 0 ELSE g[n - 1] + SizeOf[q[n]]]
           total == CHOOSE g : g = Total(g)
<1>1. Len(q) \in Nat
  BY LenProperties
<1>2. f = Total(f)
  <2>1. \A n \in N : f[n] = Total(f)[n]
    BY <1>1 DEF Sums
  <2> QED BY <2>1
<1>3. total = Total(total)
  BY <1>2
<1>4. total[0] = 0 /\ \A n \in 1..Len(q) : total[n] = total[n - 1] + SizeOf[q[n]]
  <2>1. \A n \in N : total[n] = Total(total)[n]
    BY <1>3
  <2>2. \A n \in N : total[n] = IF n = 0 THEN 0 ELSE total[n - 1] + SizeOf[q[n]]
    BY <2>1
  <2> HIDE DEF total
  <2> QED BY <1>1, <2>2
<1>5. BytesOf(q) = total[Len(q)]
  BY DEF BytesOf
<1> HIDE DEF total
<1> DEFINE D == {n \in N : total[n] # f[n]}
<1>6. ASSUME D # {} PROVE FALSE
  <2>1. D \subseteq Nat
    BY <1>1
  <2>2. PICK n \in D : \A m \in D : n <= m
    BY <1>6, <2>1, HasFirst
  <2>3. n \in N /\ total[n] # f[n] /\ n # 0
    BY <1>4, <2>2 DEF Sums
  <2>4. n - 1 \in N /\ n - 1 \notin D /\ n \in 1..Len(q)
    BY <1>1, <2>2, <2>3
  <2>5. total[n - 1] = f[n - 1]
    BY <2>4
  <2> QED BY <1>4, <2>3, <2>4, <2>5 DEF Sums
<1>7. Len(q) \in N
  BY <1>1
<1> QED BY <1>5, <1>6, <1>7

\* Sequences of messages.

Once(q) == \A i, j \in 1..Len(q) : q[i] = q[j] => i = j

LEMMA MembersAre ==
  ASSUME NEW q \in Seq(Buffered) PROVE ToSet(q) = {q[i] : i \in 1..Len(q)} /\ ToSet(q) \subseteq Buffered
BY LenProperties DEF ToSet

LEMMA NothingHeld ==
  /\ <<>> \in Seq(Buffered) /\ ToSet(<<>>) = {} /\ Once(<<>>) /\ BytesOf(<<>>) = 0
<1> DEFINE f == [i \in 0..0 |-> 0]
<1>1. <<>> \in Seq(Buffered) /\ Len(<<>>) = 0
  OBVIOUS
<1>2. ToSet(<<>>) = {} /\ Once(<<>>)
  BY DEF ToSet, Once
<1>3. f \in [0..0 -> Int] /\ f[0] = 0
  OBVIOUS
<1>4. f \in [0..Len(<<>>) -> Int] /\ Sums(<<>>, f)
  BY <1>1, <1>3 DEF Sums
<1>5. BytesOf(<<>>) = f[Len(<<>>)]
  BY <1>1, <1>4, BytesAreSums
<1> QED BY <1>1, <1>2, <1>3, <1>5

LEMMA OneMore ==
  ASSUME NEW q \in Seq(Buffered), NEW m \in Buffered
  PROVE  /\ Append(q, m) \in Seq(Buffered) /\ ToSet(Append(q, m)) = ToSet(q) \cup {m}
         /\ Once(q) /\ m \notin ToSet(q) => Once(Append(q, m))
         /\ BytesOf(q) \in Int /\ BytesOf(Append(q, m)) = BytesOf(q) + SizeOf[m]
<1> DEFINE a == Append(q, m)
<1>1. /\ a \in Seq(Buffered) /\ Len(q) \in Nat /\ Len(a) = Len(q) + 1 /\ a[Len(q) + 1] = m
      /\ \A i \in 1..Len(q) : a[i] = q[i]
  BY AppendProperties, LenProperties
<1>2. ToSet(a) = {a[i] : i \in 1..Len(a)} /\ ToSet(q) = {q[i] : i \in 1..Len(q)}
  BY <1>1, MembersAre
<1> HIDE DEF a
<1>3. ToSet(a) = ToSet(q) \cup {m}
  <2>1. ToSet(a) \subseteq ToSet(q) \cup {m}
    <3> SUFFICES ASSUME NEW i \in 1..Len(a) PROVE a[i] \in ToSet(q) \cup {m}
      BY <1>2
    <3>1. CASE i = Len(q) + 1
      BY <1>1, <3>1
    <3>2. CASE i # Len(q) + 1
      <4>1. i \in 1..Len(q)
        BY <1>1, <3>2
      <4> QED BY <1>1, <1>2, <4>1
    <3> QED BY <3>1, <3>2
  <2>2. m \in ToSet(a)
    <3>1. Len(q) + 1 \in 1..Len(a)
      BY <1>1
    <3> QED BY <1>1, <1>2, <3>1
  <2>3. ASSUME NEW i \in 1..Len(q) PROVE q[i] \in ToSet(a)
    <3>1. i \in 1..Len(a)
      BY <1>1
    <3> QED BY <1>1, <1>2, <3>1
  <2> QED BY <1>2, <2>1, <2>2, <2>3
<1>4. ASSUME Once(q), m \notin ToSet(q) PROVE Once(a)
  <2> SUFFICES ASSUME NEW i \in 1..Len(a), NEW j \in 1..Len(a), a[i] = a[j] PROVE i = j
    BY DEF Once
  <2>1. ASSUME NEW k \in 1..Len(a) PROVE k = Len(q) + 1 \/ k \in 1..Len(q)
    BY <1>1
  <2>2. \A k \in 1..Len(q) : a[k] \in ToSet(q) /\ a[k] = q[k]
    BY <1>1, <1>2
  <2> QED BY <1>1, <1>4, <2>1, <2>2 DEF Once
<1>5. BytesOf(q) \in Int /\ BytesOf(a) = BytesOf(q) + SizeOf[m]
  <2>1. PICK f \in [0..Len(a) -> Int] : Sums(a, f)
    BY <1>1, HasSums
  <2> DEFINE g == [i \in 0..Len(q) |-> f[i]]
  <2>2. g \in [0..Len(q) -> Int] /\ Len(q) \in 0..Len(q) /\ \A i \in 0..Len(q) : g[i] = f[i]
    BY <1>1
  <2>3. Sums(q, g)
    <3>1. f[0] = 0 /\ \A n \in 1..Len(a) : f[n] = f[n - 1] + SizeOf[a[n]]
      BY <2>1 DEF Sums
    <3>2. \A n \in 1..Len(q) : n \in 1..Len(a) /\ n - 1 \in 0..Len(q) /\ n \in 0..Len(q)
      BY <1>1
    <3>3. 0 \in 0..Len(q)
      BY <1>1
    <3> HIDE DEF g
    <3> QED BY <1>1, <2>2, <3>1, <3>2, <3>3 DEF Sums
  <2> HIDE DEF g
  <2>4. BytesOf(q) = g[Len(q)] /\ g[Len(q)] \in Int /\ g[Len(q)] = f[Len(q)]
    BY <2>2, <2>3, BytesAreSums
  <2>5. BytesOf(a) = f[Len(a)]
    BY <1>1, <2>1, BytesAreSums
  <2>6. f[Len(q) + 1] = f[Len(q)] + SizeOf[m]
    <3>1. Len(q) + 1 \in 1..Len(a) /\ Len(q) + 1 - 1 = Len(q)
      BY <1>1
    <3> QED BY <1>1, <2>1, <3>1 DEF Sums
  <2> QED BY <1>1, <2>4, <2>5, <2>6
<1> QED BY <1>1, <1>3, <1>4, <1>5 DEF a

LEMMA BytesAreNatural == ASSUME NEW q \in Seq(Buffered) PROVE BytesOf(q) \in Nat
<1>1. PICK f \in [0..Len(q) -> Int] : Sums(q, f)
  BY HasSums
<1>2. Len(q) \in Nat /\ \A n \in 1..Len(q) : f[n] = f[n - 1] + SizeOf[q[n]] /\ SizeOf[q[n]] \in Nat
  BY <1>1, BufferLimits, LenProperties DEF Sums
<1> DEFINE Bad == {n \in 0..Len(q) : ~(f[n] \in Nat)}
<1>3. ASSUME Bad # {} PROVE FALSE
  <2>0. Bad \subseteq Nat
    BY <1>2
  <2>1. PICK n \in Bad : \A m \in Bad : n <= m
    BY <1>3, <2>0, HasFirst
  <2>2. n \in 0..Len(q) /\ n # 0
    BY <1>1, <2>1 DEF Sums
  <2>3. n - 1 \in 0..Len(q) /\ n \in 1..Len(q) /\ n - 1 \notin Bad
    BY <1>2, <2>1, <2>2
  <2> QED BY <1>2, <2>1, <2>3
<1>4. f[Len(q)] \in Nat
  BY <1>2, <1>3
<1> QED BY <1>1, <1>4, BytesAreSums

LEMMA FirstLeaves ==
  ASSUME NEW q \in Seq(Buffered), q # <<>>
  PROVE  /\ Head(q) \in Buffered /\ Tail(q) \in Seq(Buffered)
         /\ ToSet(q) = ToSet(Tail(q)) \cup {Head(q)}
         /\ Once(q) => Once(Tail(q)) /\ Head(q) \notin ToSet(Tail(q))
         /\ BytesOf(q) \in Int /\ BytesOf(Tail(q)) = BytesOf(q) - SizeOf[Head(q)]
<1> DEFINE t == Tail(q)
<1>1. /\ t \in Seq(Buffered) /\ Len(q) \in Nat /\ Len(q) > 0 /\ Len(t) = Len(q) - 1
      /\ Head(q) = q[1] /\ q[1] \in Buffered /\ \A i \in 1..Len(t) : t[i] = q[i + 1]
  BY HeadTailProperties, EmptySeq, LenProperties
<1>2. ToSet(t) = {t[i] : i \in 1..Len(t)} /\ ToSet(q) = {q[i] : i \in 1..Len(q)}
  BY <1>1, MembersAre
<1> HIDE DEF t
<1>3. ToSet(q) = ToSet(t) \cup {q[1]}
  <2>1. ASSUME NEW i \in 1..Len(q) PROVE q[i] \in ToSet(t) \cup {q[1]}
    <3>1. CASE i # 1
      <4>1. i - 1 \in 1..Len(t) /\ i - 1 + 1 = i
        BY <1>1, <3>1
      <4> QED BY <1>1, <1>2, <4>1
    <3> QED BY <3>1
  <2>2. ASSUME NEW i \in 1..Len(t) PROVE t[i] \in ToSet(q)
    <3>1. i + 1 \in 1..Len(q)
      BY <1>1
    <3> QED BY <1>1, <1>2, <3>1
  <2>3. q[1] \in ToSet(q)
    <3>1. 1 \in 1..Len(q)
      BY <1>1
    <3> QED BY <1>2, <3>1
  <2> QED BY <1>2, <2>1, <2>2, <2>3
<1>4. ASSUME Once(q) PROVE Once(t) /\ q[1] \notin ToSet(t)
  <2>1. ASSUME NEW i \in 1..Len(t)
        PROVE  i + 1 \in 1..Len(q) /\ t[i] = q[i + 1] /\ i + 1 # 1 /\ i \in Int
    BY <1>1
  <2>2. ASSUME NEW i \in 1..Len(t), NEW j \in 1..Len(t), t[i] = t[j] PROVE i = j
    <3>1. i + 1 = j + 1
      BY <1>4, <2>1, <2>2 DEF Once
    <3> QED BY <2>1, <3>1
  <2>3. ASSUME NEW i \in 1..Len(t) PROVE t[i] # q[1]
    <3>1. 1 \in 1..Len(q)
      BY <1>1
    <3> QED BY <1>4, <2>1, <3>1 DEF Once
  <2> QED BY <1>2, <2>2, <2>3 DEF Once
<1>5. BytesOf(q) \in Int /\ BytesOf(t) = BytesOf(q) - SizeOf[q[1]]
  <2>1. PICK f \in [0..Len(q) -> Int] : Sums(q, f)
    BY HasSums
  <2>2. f[0] = 0 /\ \A n \in 1..Len(q) : f[n] = f[n - 1] + SizeOf[q[n]]
    BY <2>1 DEF Sums
  <2>3. SizeOf[q[1]] \in Int
    BY <1>1, BufferLimits
  <2>4. f[1] = SizeOf[q[1]]
    <3>1. 1 \in 1..Len(q) /\ 1 - 1 = 0
      BY <1>1
    <3> QED BY <2>2, <2>3, <3>1
  <2> DEFINE g == [i \in 0..Len(t) |-> f[i + 1] - SizeOf[q[1]]]
  <2>5. \A i \in 0..Len(t) : i + 1 \in 0..Len(q)
    BY <1>1
  <2>6. g \in [0..Len(t) -> Int] /\ \A i \in 0..Len(t) : g[i] = f[i + 1] - SizeOf[q[1]]
    BY <2>3, <2>5
  <2> HIDE DEF g
  <2>7. g[0] = 0
    <3>1. 0 \in 0..Len(t) /\ 0 + 1 = 1
      BY <1>1
    <3> QED BY <2>3, <2>4, <2>6, <3>1
  <2>8. ASSUME NEW n \in 1..Len(t) PROVE g[n] = g[n - 1] + SizeOf[t[n]]
    <3>1. /\ n \in 0..Len(t) /\ n - 1 \in 0..Len(t) /\ n - 1 + 1 = n
          /\ n + 1 \in 1..Len(q) /\ n + 1 - 1 = n /\ n \in 0..Len(q)
      BY <1>1
    <3>2. g[n] = f[n + 1] - SizeOf[q[1]] /\ g[n - 1] = f[n] - SizeOf[q[1]]
      BY <2>6, <3>1
    <3>3. f[n + 1] = f[n] + SizeOf[q[n + 1]] /\ t[n] = q[n + 1]
      BY <1>1, <2>2, <3>1
    <3>4. f[n] \in Int /\ SizeOf[q[n + 1]] \in Int
      BY <3>1, BufferLimits, LenProperties
    <3> QED BY <2>3, <3>2, <3>3, <3>4
  <2>9. Sums(t, g)
    BY <2>7, <2>8 DEF Sums
  <2>10. BytesOf(t) = g[Len(t)] /\ BytesOf(q) = f[Len(q)]
    BY <1>1, <2>1, <2>6, <2>9, BytesAreSums
  <2>11. Len(t) \in 0..Len(t) /\ Len(t) + 1 = Len(q) /\ Len(q) \in 0..Len(q)
    BY <1>1
  <2> QED BY <2>1, <2>6, <2>10, <2>11
<1> QED BY <1>1, <1>3, <1>4, <1>5 DEF t

LEMMA Concatenated ==
  ASSUME NEW p \in Seq(Buffered), NEW q \in Seq(Buffered)
  PROVE  /\ p \o q \in Seq(Buffered) /\ ToSet(p \o q) = ToSet(p) \cup ToSet(q)
         /\ Once(p) /\ Once(q) /\ ToSet(p) \cap ToSet(q) = {} => Once(p \o q)
<1> DEFINE c == p \o q
<1>1. /\ c \in Seq(Buffered) /\ Len(p) \in Nat /\ Len(q) \in Nat /\ Len(c) = Len(p) + Len(q)
      /\ \A i \in 1..Len(c) : c[i] = IF i <= Len(p) THEN p[i] ELSE q[i - Len(p)]
  BY ConcatProperties, LenProperties
<1>2. /\ ToSet(c) = {c[i] : i \in 1..Len(c)}
      /\ ToSet(p) = {p[i] : i \in 1..Len(p)} /\ ToSet(q) = {q[i] : i \in 1..Len(q)}
  BY <1>1, MembersAre
<1> HIDE DEF c
<1>3. ASSUME NEW i \in 1..Len(p) PROVE i \in 1..Len(c) /\ c[i] = p[i]
  BY <1>1
<1>4. ASSUME NEW i \in 1..Len(q) PROVE i + Len(p) \in 1..Len(c) /\ c[i + Len(p)] = q[i]
  <2>1. i + Len(p) \in 1..Len(c) /\ ~(i + Len(p) <= Len(p)) /\ i + Len(p) - Len(p) = i
    BY <1>1
  <2> QED BY <1>1, <2>1
<1>5. ASSUME NEW i \in 1..Len(c)
      PROVE  \/ i \in 1..Len(p) /\ c[i] = p[i]
             \/ i - Len(p) \in 1..Len(q) /\ c[i] = q[i - Len(p)]
  <2>1. CASE i <= Len(p)
    <3>1. i \in 1..Len(p)
      BY <1>1, <2>1
    <3> QED BY <1>3, <3>1
  <2>2. CASE ~(i <= Len(p))
    <3>1. i - Len(p) \in 1..Len(q)
      BY <1>1, <2>2
    <3> QED BY <1>1, <2>2, <3>1
  <2> QED BY <2>1, <2>2
<1>6. ToSet(c) = ToSet(p) \cup ToSet(q)
  <2>1. ToSet(c) \subseteq ToSet(p) \cup ToSet(q)
    BY <1>2, <1>5
  <2>2. ToSet(p) \subseteq ToSet(c)
    BY <1>2, <1>3
  <2>3. ToSet(q) \subseteq ToSet(c)
    BY <1>2, <1>4
  <2> QED BY <2>1, <2>2, <2>3
<1>7. ASSUME Once(p), Once(q), ToSet(p) \cap ToSet(q) = {} PROVE Once(c)
  <2> SUFFICES ASSUME NEW i \in 1..Len(c), NEW j \in 1..Len(c), c[i] = c[j] PROVE i = j
    BY DEF Once
  <2>1. CASE i \in 1..Len(p) /\ c[i] = p[i] /\ j \in 1..Len(p) /\ c[j] = p[j]
    BY <1>7, <2>1 DEF Once
  <2>2. CASE i - Len(p) \in 1..Len(q) /\ c[i] = q[i - Len(p)] /\ j - Len(p) \in 1..Len(q) /\ c[j] = q[j - Len(p)]
    <3>1. i - Len(p) = j - Len(p)
      BY <1>7, <2>2 DEF Once
    <3> QED BY <1>1, <3>1
  <2>3. CASE i \in 1..Len(p) /\ c[i] = p[i] /\ j - Len(p) \in 1..Len(q) /\ c[j] = q[j - Len(p)]
    BY <1>2, <1>7, <2>3
  <2>4. CASE j \in 1..Len(p) /\ c[j] = p[j] /\ i - Len(p) \in 1..Len(q) /\ c[i] = q[i - Len(p)]
    BY <1>2, <1>7, <2>4
  <2> QED BY <1>5, <2>1, <2>2, <2>3, <2>4
<1> QED BY <1>1, <1>6, <1>7 DEF c

LEMMA AppendedJoins ==
  ASSUME NEW p \in Seq(Buffered), NEW q \in Seq(Buffered), NEW m \in Buffered
  PROVE  Append(p \o q, m) = p \o Append(q, m)
<1> DEFINE c == p \o q
           a == Append(q, m)
           d == p \o a
           e == Append(c, m)
<1>1. /\ c \in Seq(Buffered) /\ Len(p) \in Nat /\ Len(q) \in Nat /\ Len(c) = Len(p) + Len(q)
      /\ \A i \in 1..Len(c) : c[i] = IF i <= Len(p) THEN p[i] ELSE q[i - Len(p)]
  BY ConcatProperties, LenProperties
<1>2. /\ a \in Seq(Buffered) /\ Len(a) = Len(q) + 1 /\ a[Len(q) + 1] = m
      /\ \A i \in 1..Len(q) : a[i] = q[i]
  BY AppendProperties
<1> HIDE DEF c, a
<1>3. /\ d \in Seq(Buffered) /\ Len(d) = Len(p) + Len(a)
      /\ \A i \in 1..Len(d) : d[i] = IF i <= Len(p) THEN p[i] ELSE a[i - Len(p)]
  <2>1. a \in Seq(Buffered)
    BY <1>2
  <2> QED BY <2>1, ConcatProperties
<1>4. /\ e \in Seq(Buffered) /\ Len(e) = Len(c) + 1 /\ e[Len(c) + 1] = m
      /\ \A i \in 1..Len(c) : e[i] = c[i]
  <2>1. c \in Seq(Buffered)
    BY <1>1
  <2> QED BY <2>1, AppendProperties
<1> HIDE DEF d, e
<1>5. Len(d) = Len(e) /\ Len(d) \in Nat
  BY <1>1, <1>2, <1>3, <1>4
<1>6. ASSUME NEW i \in 1..Len(e) PROVE e[i] = d[i]
  <2>1. CASE i = Len(c) + 1
    <3>1. ~(i <= Len(p)) /\ i - Len(p) = Len(q) + 1 /\ i \in 1..Len(d)
      BY <1>1, <1>5, <2>1
    <3> QED BY <1>2, <1>3, <1>4, <2>1, <3>1
  <2>2. CASE i # Len(c) + 1
    <3>1. i \in 1..Len(c) /\ i \in 1..Len(d) /\ (~(i <= Len(p)) => i - Len(p) \in 1..Len(q))
      BY <1>1, <1>4, <1>5, <2>2
    <3> QED BY <1>1, <1>2, <1>3, <1>4, <3>1
  <2> QED BY <2>1, <2>2
<1>7. e = d
  BY <1>3, <1>4, <1>5, <1>6, SeqEqual
<1> QED BY <1>7 DEF e, d, c, a

LEMMA EmptyJoined ==
  ASSUME NEW p \in Seq(Buffered) PROVE p \o <<>> = p /\ <<>> \o p = p
BY ConcatEmptySeq

LEMMA FirstMoves ==
  ASSUME NEW p \in Seq(Buffered), NEW q \in Seq(Buffered), q # <<>>
  PROVE  p \o q = Append(p, Head(q)) \o Tail(q)
<1>1. /\ Head(q) \in Buffered /\ Tail(q) \in Seq(Buffered) /\ Len(q) \in Nat /\ Len(q) > 0
      /\ Len(Tail(q)) = Len(q) - 1 /\ Head(q) = q[1]
      /\ \A i \in 1..Len(Tail(q)) : Tail(q)[i] = q[i + 1]
  BY HeadTailProperties, EmptySeq, LenProperties
<1> DEFINE h == Head(q)
           t == Tail(q)
           a == Append(p, h)
<1>2. /\ a \in Seq(Buffered) /\ Len(p) \in Nat /\ Len(a) = Len(p) + 1 /\ a[Len(p) + 1] = h
      /\ \A i \in 1..Len(p) : a[i] = p[i]
  BY <1>1, AppendProperties, LenProperties
<1>3. h = q[1] /\ t \in Seq(Buffered) /\ Len(t) = Len(q) - 1 /\ \A i \in 1..Len(t) : t[i] = q[i + 1]
  BY <1>1
<1> HIDE DEF h, t, a
<1> DEFINE c == p \o q
           d == a \o t
<1>4. /\ c \in Seq(Buffered) /\ Len(c) = Len(p) + Len(q)
      /\ \A i \in 1..Len(c) : c[i] = IF i <= Len(p) THEN p[i] ELSE q[i - Len(p)]
  BY <1>1, ConcatProperties
<1>5. /\ d \in Seq(Buffered) /\ Len(d) = Len(a) + Len(t)
      /\ \A i \in 1..Len(d) : d[i] = IF i <= Len(a) THEN a[i] ELSE t[i - Len(a)]
  <2>1. a \in Seq(Buffered) /\ t \in Seq(Buffered)
    BY <1>2, <1>3
  <2> QED BY <2>1, ConcatProperties
<1> HIDE DEF c, d
<1>6. Len(c) = Len(d) /\ Len(c) \in Nat
  BY <1>1, <1>2, <1>3, <1>4, <1>5
<1>7. ASSUME NEW i \in 1..Len(c) PROVE c[i] = d[i]
  <2>1. CASE i <= Len(p)
    <3>1. i <= Len(a) /\ i \in 1..Len(p) /\ i \in 1..Len(d)
      BY <1>2, <1>6, <2>1
    <3> QED BY <1>2, <1>4, <1>5, <2>1, <3>1
  <2>2. CASE i = Len(p) + 1
    <3>1. i <= Len(a) /\ ~(i <= Len(p)) /\ i - Len(p) = 1 /\ i \in 1..Len(d)
      BY <1>2, <1>6, <2>2
    <3> QED BY <1>2, <1>3, <1>4, <1>5, <2>2, <3>1
  <2>3. CASE i > Len(p) + 1
    <3>1. /\ ~(i <= Len(a)) /\ ~(i <= Len(p)) /\ i \in 1..Len(d)
          /\ i - Len(a) \in 1..Len(t) /\ i - Len(a) + 1 = i - Len(p)
      BY <1>1, <1>2, <1>3, <1>4, <1>6, <2>3
    <3> QED BY <1>3, <1>4, <1>5, <3>1
  <2> QED BY <1>2, <1>6, <2>1, <2>2, <2>3
<1>8. c = d
  BY <1>4, <1>5, <1>6, <1>7, SeqEqual
<1> QED BY <1>8 DEF c, d, a, h, t

-----------------------------------------------------------------------------
\* The buffer.

Answers == {"new", "buffered", "refused", "waiting", "resolved", "rejected"}

\* A message is in one place at a time, and there once.
EachInOnePlace ==
  /\ Once(bufferQueue) /\ Once(drainWaiters) /\ Once(resumed)
  /\ flushing \notin ToSet(bufferQueue)
  /\ ToSet(drainWaiters) \cap ToSet(resumed) = {}

BufferTypes ==
  /\ mode \in {"error", "block"}
  /\ \A q \in {bufferQueue, drainWaiters, resumed, came, went} : q \in Seq(Buffered)
  /\ currentSizeBytes \in Nat
  /\ flushing \in Buffered \cup {"idle"}
  /\ answers \in [Buffered -> Answers]

BufferInv == BufferTypes /\ EachInOnePlace /\ BufferIsSound

LEMMA BufferInitInv == BufferInit => BufferInv
<1> SUFFICES ASSUME BufferInit PROVE BufferInv
  OBVIOUS
<1>1. BufferTypes
  BY NothingHeld DEF BufferInit, BufferTypes, Answers
<1>2. EachInOnePlace
  BY NothingHeld DEF BufferInit, EachInOnePlace
<1>3. came = went \o bufferQueue
  BY NothingHeld, EmptyJoined DEF BufferInit
<1>4. currentSizeBytes = BytesOf(bufferQueue) /\ currentSizeBytes <= MaxSizeBytes
  BY NothingHeld, BufferLimits DEF BufferInit
<1>5. ASSUME NEW m \in Buffered
      PROVE  /\ answers[m] = "waiting" <=> m \in ToSet(drainWaiters) \cup ToSet(resumed)
             /\ answers[m] = "buffered" <=> m \in ToSet(bufferQueue) \cup {flushing}
  BY NothingHeld, BufferLimits DEF BufferInit
<1>6. \A m \in ToSet(drainWaiters) : SizeOf[m] > MaxSizeBytes
  BY NothingHeld DEF BufferInit
<1> QED BY <1>1, <1>2, <1>3, <1>4, <1>5, <1>6 DEF BufferInv, BufferIsSound

\* What the invariant says, a fact at a time.
LEMMA Held ==
  ASSUME BufferInv
  PROVE  /\ bufferQueue \in Seq(Buffered) /\ drainWaiters \in Seq(Buffered)
         /\ resumed \in Seq(Buffered) /\ came \in Seq(Buffered) /\ went \in Seq(Buffered)
         /\ currentSizeBytes \in Nat /\ currentSizeBytes = BytesOf(bufferQueue)
         /\ currentSizeBytes <= MaxSizeBytes /\ MaxSizeBytes \in Nat
         /\ came = went \o bufferQueue
         /\ \A m \in Buffered : SizeOf[m] \in Nat
         /\ \A m \in Buffered :
              /\ answers[m] = "waiting" <=> m \in ToSet(drainWaiters) \cup ToSet(resumed)
              /\ answers[m] = "buffered" <=> m \in ToSet(bufferQueue) \cup {flushing}
BY BufferLimits DEF BufferInv, BufferTypes, BufferIsSound

LEMMA HistoryGrows ==
  ASSUME went \in Seq(Buffered), bufferQueue \in Seq(Buffered), NEW m \in Buffered
  PROVE  Append(went \o bufferQueue, m) = went \o Append(bufferQueue, m)
<1>1. went \in Seq(Buffered) /\ bufferQueue \in Seq(Buffered) /\ m \in Buffered
  OBVIOUS
<1> QED BY <1>1, AppendedJoins, Zenon

LEMMA AnswersAre ==
  ASSUME BufferTypes, NEW S, NEW how \in Answers, Answer(S, how)
  PROVE  /\ answers' \in [Buffered -> Answers]
         /\ \A m \in Buffered : answers'[m] = IF m \in S THEN how ELSE answers[m]
BY DEF Answer, BufferTypes

\* A caller at the head of the loop, whose message is in no place.
LEMMA TriesKeeps ==
  ASSUME BufferInv, NEW m \in Buffered, Tries(m), UNCHANGED <<mode, flushing, went>>,
         resumed' \in Seq(Buffered), Once(resumed'), m \notin ToSet(resumed'),
         m \notin ToSet(drainWaiters), m \notin ToSet(bufferQueue), m # flushing,
         ToSet(resumed) \subseteq ToSet(resumed') \cup {m}, ToSet(resumed') \subseteq ToSet(resumed)
  PROVE  BufferInv'
<1> USE Held
<1>0. BufferTypes /\ EachInOnePlace /\ BufferIsSound /\ m # "idle"
  BY BufferLimits DEF BufferInv
<1>1. CASE currentSizeBytes + SizeOf[m] <= MaxSizeBytes
  <2>1. /\ bufferQueue' = Append(bufferQueue, m) /\ came' = Append(came, m)
        /\ currentSizeBytes' = currentSizeBytes + SizeOf[m]
        /\ Answer({m}, "buffered") /\ UNCHANGED <<drainWaiters, mode, flushing, went>>
    BY <1>1 DEF Tries
  <2>2. /\ bufferQueue' \in Seq(Buffered) /\ ToSet(bufferQueue') = ToSet(bufferQueue) \cup {m}
        /\ Once(bufferQueue') /\ BytesOf(bufferQueue') = BytesOf(bufferQueue) + SizeOf[m]
    BY <1>0, <2>1, OneMore DEF EachInOnePlace
  <2>3. /\ answers' \in [Buffered -> Answers]
        /\ \A n \in Buffered : answers'[n] = IF n = m THEN "buffered" ELSE answers[n]
    BY <1>0, <2>1, AnswersAre DEF Answers
  <2>4. came' \in Seq(Buffered)
    BY <2>1, OneMore
  <2>5. BufferTypes'
    BY <1>0, <2>1, <2>2, <2>3, <2>4 DEF BufferTypes
  <2>6. EachInOnePlace'
    BY <1>0, <2>1, <2>2 DEF EachInOnePlace
  <2>7. came' = went' \o bufferQueue'
    <3>1. Append(went \o bufferQueue, m) = went \o Append(bufferQueue, m)
      BY HistoryGrows
    <3> QED BY <2>1, <3>1
  <2>8. bufferQueue' # <<>>
    BY <2>2, NothingHeld
  <2>9. ASSUME NEW n \in Buffered
        PROVE  /\ answers'[n] = "waiting" <=> n \in ToSet(drainWaiters') \cup ToSet(resumed')
               /\ answers'[n] = "buffered" <=> n \in ToSet(bufferQueue') \cup {flushing'}
    <3>1. CASE n = m
      BY <2>1, <2>2, <2>3, <3>1
    <3>2. CASE n # m
      <4>1. answers'[n] = answers[n]
        BY <2>3, <3>2
      <4>2. /\ n \in ToSet(resumed') <=> n \in ToSet(resumed)
            /\ n \in ToSet(bufferQueue') <=> n \in ToSet(bufferQueue)
        BY <2>2, <3>2
      <4> QED BY <2>1, <4>1, <4>2
    <3> QED BY <3>1, <3>2
  <2>10. BufferIsSound'
    BY <1>1, <2>1, <2>2, <2>7, <2>8, <2>9 DEF BufferIsSound
  <2> QED BY <2>5, <2>6, <2>10 DEF BufferInv
<1>2. CASE ~(currentSizeBytes + SizeOf[m] <= MaxSizeBytes) /\ mode = "error"
  <2>1. Answer({m}, "refused") /\ UNCHANGED <<drainWaiters, bufferQueue, currentSizeBytes, came, mode, flushing, went>>
    BY <1>2 DEF Tries
  <2>2. /\ answers' \in [Buffered -> Answers]
        /\ \A n \in Buffered : answers'[n] = IF n = m THEN "refused" ELSE answers[n]
    BY <1>0, <2>1, AnswersAre DEF Answers
  <2>3. BufferTypes'
    BY <1>0, <2>1, <2>2 DEF BufferTypes
  <2>4. EachInOnePlace'
    BY <1>0, <2>1 DEF EachInOnePlace
  <2>5. ASSUME NEW n \in Buffered
        PROVE  /\ answers'[n] = "waiting" <=> n \in ToSet(drainWaiters') \cup ToSet(resumed')
               /\ answers'[n] = "buffered" <=> n \in ToSet(bufferQueue') \cup {flushing'}
    <3>1. CASE n = m
      BY <2>1, <2>2, <3>1
    <3>2. CASE n # m
      <4>1. answers'[n] = answers[n] /\ (n \in ToSet(resumed') <=> n \in ToSet(resumed))
        BY <2>2, <3>2
      <4> QED BY <2>1, <4>1
    <3> QED BY <3>1, <3>2
  <2>6. BufferIsSound'
    BY <1>0, <2>1, <2>5 DEF BufferIsSound
  <2> QED BY <2>3, <2>4, <2>6 DEF BufferInv
<1>3. CASE ~(currentSizeBytes + SizeOf[m] <= MaxSizeBytes) /\ mode # "error"
  <2>1. /\ Answer({m}, "waiting") /\ drainWaiters' = Append(drainWaiters, m)
        /\ UNCHANGED <<bufferQueue, currentSizeBytes, came, mode, flushing, went>>
    BY <1>3 DEF Tries
  <2>2. /\ answers' \in [Buffered -> Answers]
        /\ \A n \in Buffered : answers'[n] = IF n = m THEN "waiting" ELSE answers[n]
    BY <1>0, <2>1, AnswersAre DEF Answers
  <2>3. /\ drainWaiters' \in Seq(Buffered) /\ ToSet(drainWaiters') = ToSet(drainWaiters) \cup {m}
        /\ Once(drainWaiters')
    BY <1>0, <2>1, OneMore DEF EachInOnePlace
  <2>4. BufferTypes'
    BY <1>0, <2>1, <2>2, <2>3 DEF BufferTypes
  <2>5. EachInOnePlace'
    BY <1>0, <2>1, <2>3 DEF EachInOnePlace
  <2>6. ASSUME NEW n \in Buffered
        PROVE  /\ answers'[n] = "waiting" <=> n \in ToSet(drainWaiters') \cup ToSet(resumed')
               /\ answers'[n] = "buffered" <=> n \in ToSet(bufferQueue') \cup {flushing'}
    <3>1. CASE n = m
      BY <2>1, <2>2, <2>3, <3>1
    <3>2. CASE n # m
      <4>1. answers'[n] = answers[n] /\ (n \in ToSet(resumed') <=> n \in ToSet(resumed))
        BY <2>2, <3>2
      <4>2. n \in ToSet(drainWaiters') <=> n \in ToSet(drainWaiters)
        BY <2>3, <3>2
      <4> QED BY <2>1, <4>1, <4>2
    <3> QED BY <3>1, <3>2
  <2>7. ASSUME flushing' = "idle", bufferQueue' = <<>>, NEW n \in ToSet(drainWaiters')
        PROVE  SizeOf[n] > MaxSizeBytes
    <3>1. CASE n = m
      <4>1. currentSizeBytes = 0
        BY <2>1, <2>7, NothingHeld
      <4> QED BY <1>3, <3>1, <4>1
    <3>2. CASE n # m
      BY <1>0, <2>1, <2>3, <2>7, <3>2 DEF BufferIsSound
    <3> QED BY <3>1, <3>2
  <2>8. BufferIsSound'
    BY <1>0, <2>1, <2>6, <2>7 DEF BufferIsSound
  <2> QED BY <2>4, <2>5, <2>8 DEF BufferInv
<1> QED BY <1>1, <1>2, <1>3

\* A flush that goes on, after the answer to the message it had sent.
LEMMA FlushGoesOnKeeps ==
  ASSUME BufferInv, FlushGoesOn, UNCHANGED <<mode, came>>,
         answers' \in [Buffered -> Answers],
         \A m \in Buffered : /\ answers'[m] = "waiting" <=> answers[m] = "waiting"
                             /\ answers'[m] = "buffered" <=> m \in ToSet(bufferQueue)
  PROVE  BufferInv'
<1> USE Held
<1>0. BufferTypes /\ EachInOnePlace /\ BufferIsSound
  BY DEF BufferInv
<1>1. CASE bufferQueue = <<>>
  <2>1. /\ flushing' = "idle" /\ resumed' = resumed \o drainWaiters /\ drainWaiters' = <<>>
        /\ UNCHANGED <<bufferQueue, currentSizeBytes, went, mode, came>>
    BY <1>1 DEF FlushGoesOn, WakesAll
  <2>2. /\ resumed' \in Seq(Buffered) /\ Once(resumed')
        /\ ToSet(resumed') = ToSet(resumed) \cup ToSet(drainWaiters)
    BY <1>0, <2>1, Concatenated DEF EachInOnePlace
  <2>3. drainWaiters' \in Seq(Buffered) /\ Once(drainWaiters') /\ ToSet(drainWaiters') = {}
    BY <2>1, NothingHeld
  <2>4. ToSet(bufferQueue) = {} /\ ToSet(bufferQueue') = {}
    BY <1>1, <2>1, NothingHeld
  <2>5. BufferTypes'
    BY <1>0, <2>1, <2>2, <2>3 DEF BufferTypes
  <2>6. EachInOnePlace'
    BY <1>0, <2>1, <2>2, <2>3, <2>4 DEF EachInOnePlace
  <2>7. ASSUME NEW n \in Buffered
        PROVE  /\ answers'[n] = "waiting" <=> n \in ToSet(drainWaiters') \cup ToSet(resumed')
               /\ answers'[n] = "buffered" <=> n \in ToSet(bufferQueue') \cup {flushing'}
    BY <2>1, <2>2, <2>3, <2>4, BufferLimits
  <2>8. BufferIsSound'
    BY <1>0, <2>1, <2>3, <2>7 DEF BufferIsSound
  <2> QED BY <2>5, <2>6, <2>8 DEF BufferInv
<1>2. CASE bufferQueue # <<>>
  <2> DEFINE h == Head(bufferQueue)
             t == Tail(bufferQueue)
  <2>1. /\ flushing' = h /\ bufferQueue' = t /\ currentSizeBytes' = currentSizeBytes - SizeOf[h]
        /\ went' = Append(went, h) /\ UNCHANGED <<resumed, drainWaiters, mode, came>>
    BY <1>2 DEF FlushGoesOn
  <2>2. /\ h \in Buffered /\ t \in Seq(Buffered) /\ ToSet(bufferQueue) = ToSet(t) \cup {h}
        /\ Once(t) /\ h \notin ToSet(t) /\ BytesOf(t) = BytesOf(bufferQueue) - SizeOf[h]
    BY <1>0, <1>2, FirstLeaves DEF EachInOnePlace
  <2>3. Append(went, h) \in Seq(Buffered)
    BY <2>2, OneMore
  <2>4. went \o bufferQueue = Append(went, h) \o t
    <3>1. went \in Seq(Buffered) /\ bufferQueue \in Seq(Buffered)
      OBVIOUS
    <3> QED BY <1>2, <3>1, FirstMoves, Zenon
  <2> HIDE DEF h, t
  <2>5. currentSizeBytes' = BytesOf(t) /\ currentSizeBytes' \in Nat /\ currentSizeBytes' <= MaxSizeBytes
    <3>1. BytesOf(t) \in Nat
      BY <2>2, BytesAreNatural
    <3> QED BY <2>1, <2>2, <3>1
  <2>6. BufferTypes'
    BY <1>0, <2>1, <2>2, <2>3, <2>5 DEF BufferTypes
  <2>7. EachInOnePlace'
    BY <1>0, <2>1, <2>2 DEF EachInOnePlace
  <2>8. flushing' # "idle"
    BY <2>1, <2>2, BufferLimits
  <2>9. ASSUME NEW n \in Buffered
        PROVE  /\ answers'[n] = "waiting" <=> n \in ToSet(drainWaiters') \cup ToSet(resumed')
               /\ answers'[n] = "buffered" <=> n \in ToSet(bufferQueue') \cup {flushing'}
    BY <2>1, <2>2
  <2>10. BufferIsSound'
    BY <1>0, <2>1, <2>4, <2>5, <2>8, <2>9 DEF BufferIsSound
  <2> QED BY <2>6, <2>7, <2>10 DEF BufferInv
<1> QED BY <1>1, <1>2

LEMMA DiscardKeeps == ASSUME BufferInv, Discard PROVE BufferInv'
<1> USE Held
<1>0. BufferTypes /\ EachInOnePlace /\ BufferIsSound
  BY DEF BufferInv
<1>1. /\ resumed = <<>> /\ went' = went \o bufferQueue /\ bufferQueue' = <<>>
      /\ currentSizeBytes' = 0 /\ drainWaiters' = <<>>
      /\ UNCHANGED <<mode, resumed, flushing, came>>
      /\ Answer(ToSet(bufferQueue) \cup ToSet(drainWaiters), "rejected")
  BY DEF Discard, Emptied
<1>2. /\ <<>> \in Seq(Buffered) /\ ToSet(<<>>) = {} /\ Once(<<>>) /\ BytesOf(<<>>) = 0
      /\ went' \in Seq(Buffered)
  BY <1>1, NothingHeld, Concatenated
<1>3. /\ answers' \in [Buffered -> Answers]
      /\ \A n \in Buffered : answers'[n] = IF n \in ToSet(bufferQueue) \cup ToSet(drainWaiters)
                                           THEN "rejected" ELSE answers[n]
  <2>1. "rejected" \in Answers
    BY DEF Answers
  <2> QED BY <1>0, <1>1, <2>1, AnswersAre
<1>4. BufferTypes'
  BY <1>0, <1>1, <1>2, <1>3 DEF BufferTypes
<1>5. EachInOnePlace'
  BY <1>0, <1>1, <1>2 DEF EachInOnePlace
<1>6. came' = went' \o bufferQueue'
  BY <1>1, <1>2, EmptyJoined
<1>7. ASSUME NEW n \in Buffered
      PROVE  /\ answers'[n] = "waiting" <=> n \in ToSet(drainWaiters') \cup ToSet(resumed')
             /\ answers'[n] = "buffered" <=> n \in ToSet(bufferQueue') \cup {flushing'}
  <2>1. CASE n \in ToSet(bufferQueue)
    BY <1>0, <1>1, <1>2, <1>3, <2>1 DEF EachInOnePlace
  <2>2. CASE n \in ToSet(drainWaiters) /\ n \notin ToSet(bufferQueue)
    <3>1. answers[n] = "waiting"
      BY <2>2
    <3> QED BY <1>0, <1>1, <1>2, <1>3, <2>2, <3>1
  <2>3. CASE n \notin ToSet(bufferQueue) \cup ToSet(drainWaiters)
    BY <1>1, <1>2, <1>3, <2>3
  <2> QED BY <2>1, <2>2, <2>3
<1>8. BufferIsSound'
  BY <1>1, <1>2, <1>6, <1>7 DEF BufferIsSound
<1> QED BY <1>4, <1>5, <1>8 DEF BufferInv

\* Every step keeps the invariant.
LEMMA BufferNextInv == ASSUME BufferInv, [BufferNext]_bufferVars PROVE BufferInv'
<1> USE Held
<1>0. BufferTypes /\ EachInOnePlace
  BY DEF BufferInv
<1>1. ASSUME NEW m \in Buffered, BufferEnqueue(m) PROVE BufferInv'
  <2>1. answers[m] = "new" /\ Tries(m) /\ UNCHANGED <<mode, flushing, went, resumed>>
    BY <1>1 DEF BufferEnqueue
  <2>2. /\ m \notin ToSet(bufferQueue) \cup {flushing}
        /\ m \notin ToSet(drainWaiters) \cup ToSet(resumed)
    BY <2>1
  <2>3. Once(resumed)
    BY <1>0 DEF EachInOnePlace
  <2> QED BY <2>1, <2>2, <2>3, TriesKeeps
<1>2. CASE Resumes
  <2> DEFINE m == Head(resumed)
  <2>1. resumed # <<>> /\ resumed' = Tail(resumed) /\ Tries(m) /\ UNCHANGED <<mode, flushing, went>>
    BY <1>2 DEF Resumes
  <2>2. /\ m \in Buffered /\ resumed' \in Seq(Buffered)
        /\ ToSet(resumed) = ToSet(resumed') \cup {m}
        /\ Once(resumed') /\ m \notin ToSet(resumed')
    BY <1>0, <2>1, FirstLeaves DEF EachInOnePlace
  <2> HIDE DEF m
  <2>3. m \notin ToSet(drainWaiters)
    BY <1>0, <2>2 DEF EachInOnePlace
  <2>4. answers[m] = "waiting"
    BY <2>2
  <2>5. m \notin ToSet(bufferQueue) /\ m # flushing
    BY <2>2, <2>4
  <2> QED BY <2>1, <2>2, <2>3, <2>5, TriesKeeps
<1>3. CASE Flush
  <2>1. flushing = "idle" /\ FlushGoesOn /\ UNCHANGED <<mode, came, answers>>
    BY <1>3 DEF Flush
  <2>2. answers' \in [Buffered -> Answers]
    BY <1>0, <2>1 DEF BufferTypes
  <2>3. ASSUME NEW m \in Buffered
        PROVE  /\ answers'[m] = "waiting" <=> answers[m] = "waiting"
               /\ answers'[m] = "buffered" <=> m \in ToSet(bufferQueue)
    BY <2>1, BufferLimits
  <2> QED BY <2>1, <2>2, <2>3, FlushGoesOnKeeps
<1>4. CASE FlushContinues
  <2>1. flushing # "idle" /\ FlushGoesOn /\ UNCHANGED <<mode, came>>
    BY <1>4 DEF FlushContinues
  <2>2. PICK how \in {"resolved", "rejected"} : Answer({flushing}, how)
    BY <1>4 DEF FlushContinues
  <2>3. how \in Answers /\ flushing \in Buffered /\ flushing \notin ToSet(bufferQueue)
    BY <1>0, <2>1 DEF Answers, BufferTypes, EachInOnePlace
  <2>4. /\ answers' \in [Buffered -> Answers]
        /\ \A m \in Buffered : answers'[m] = IF m \in {flushing} THEN how ELSE answers[m]
    BY <1>0, <2>2, <2>3, AnswersAre
  <2>5. answers[flushing] = "buffered"
    BY <2>3
  <2>6. ASSUME NEW m \in Buffered
        PROVE  /\ answers'[m] = "waiting" <=> answers[m] = "waiting"
               /\ answers'[m] = "buffered" <=> m \in ToSet(bufferQueue)
    <3>1. CASE m = flushing
      BY <2>3, <2>4, <2>5, <3>1
    <3>2. CASE m # flushing
      BY <2>4, <3>2
    <3> QED BY <3>1, <3>2
  <2> QED BY <2>1, <2>4, <2>6, FlushGoesOnKeeps
<1>5. CASE UNCHANGED bufferVars
  <2>1. UNCHANGED <<mode, bufferQueue, currentSizeBytes, drainWaiters, resumed, flushing, came, went, answers>>
    BY <1>5 DEF bufferVars
  <2>2. BufferTypes'
    BY <1>0, <2>1 DEF BufferTypes
  <2>3. EachInOnePlace'
    BY <1>0, <2>1 DEF EachInOnePlace
  <2>4. BufferIsSound'
    BY <2>1 DEF BufferInv, BufferIsSound
  <2> QED BY <2>2, <2>3, <2>4 DEF BufferInv
<1> QED BY <1>1, <1>2, <1>3, <1>4, <1>5, DiscardKeeps DEF BufferNext

\* The bytes the buffer counts are those of the messages it holds, and never above the limit;
\* messages leave in the order they came; each caller's promise is where its message is;
\* and an empty buffer leaves nobody waiting whose message would fit (MessageBuffer).
THEOREM BufferStaysSound == BufferSpec => []BufferIsSound
<1>1. BufferInv => BufferIsSound
  BY DEF BufferInv
<1> QED BY <1>1, BufferInitInv, BufferNextInv, PTL DEF BufferSpec

-----------------------------------------------------------------------------
\* The operations and the error classes.

\* What the handlers rely on of an operation.
WellFormed(o) ==
  /\ o.signal \in {"always", "asked", "given", "never"}
  /\ o.own \subseteq Statuses \cup {"INTERNAL", "ABORTED"}
  /\ o.retried \in BOOLEAN /\ o.mapped \in BOOLEAN

LEMMA OperationTypes ==
  ASSUME NEW o \in Operations PROVE WellFormed(o)
<1>1. o \in AllOperations
  BY CallsConstants DEF CallsConstants
<1>2. WellFormed(sendQueueMessagesBatch) /\ WellFormed(receiveQueueMessages)
      /\ WellFormed(peekQueueMessages)
  BY DEF WellFormed, Operation, sendQueueMessagesBatch, receiveQueueMessages, peekQueueMessages
<1>3. WellFormed(sendCommand) /\ WellFormed(sendQuery)
      /\ WellFormed(sendCommandResponse) /\ WellFormed(sendQueryResponse)
  BY DEF WellFormed, Operation, sendCommand, sendQuery, sendCommandResponse, sendQueryResponse
<1>4. WellFormed(sendResponseDirect) /\ WellFormed(createChannel) /\ WellFormed(deleteChannel)
  BY DEF WellFormed, Operation, sendResponseDirect, createChannel, deleteChannel
<1>5. WellFormed(listChannels) /\ WellFormed(ping) /\ WellFormed(ackAllQueueMessages)
  BY DEF WellFormed, Operation, listChannels, ping, ackAllQueueMessages
<1>6. WellFormed(idempotent) /\ WellFormed(notIdempotent)
  BY DEF WellFormed, Operation, idempotent, notIdempotent
<1> QED BY <1>1, <1>2, <1>3, <1>4, <1>5, <1>6 DEF AllOperations

LEMMA MappedTypes ==
  ASSUME NEW status PROVE MapGrpcError(status) \in Outcomes
BY DEF MapGrpcError, Outcomes

-----------------------------------------------------------------------------
\* Types.

\* What a call is about to do when it sleeps: repeat a request that may be repeated.
SafeToRepeat(c) ==
  /\ attempt[c] >= 1 /\ attempt[c] <= MaxRetries /\ ~Aborted(c)
  /\ failure[c].typed /\ Retryable(failure[c].status)
  /\ MapGrpcError(failure[c].status) = "KubeMQTimeoutError"
       => op[c].type \in IdempotentOperations
  /\ failure[c].status = "UNKNOWN" => attempt[c] = 1

Counted(c) ==
  /\ pc[c] = "idle" => attempt[c] = 0
  /\ pc[c] = "calling" => attempt[c] >= 1
  /\ pc[c] = "sleeping" => SafeToRepeat(c)

\* The inductive invariant.
IInv == TypeOK /\ \A c \in Calls : Counted(c)

LEMMA EndsTypes ==
  ASSUME TypeOK, NEW c \in Calls, NEW how \in Outcomes, Ends(c, how)
  PROVE  /\ pc' \in [Calls -> {"idle", "calling", "sleeping", "done"}]
         /\ attempt' = attempt /\ heard' = heard
         /\ outcome' \in [Calls -> Outcomes]
         /\ pc'[c] = "done" /\ \A d \in Calls \ {c} : pc'[d] = pc[d]
BY DEF Ends, TypeOK

LEMMA AttemptTypes ==
  ASSUME TypeOK, NEW c \in Calls, Attempt(c), attempt[c] <= MaxRetries
  PROVE  /\ pc' \in [Calls -> {"idle", "calling", "sleeping", "done"}]
         /\ attempt' \in [Calls -> 0..MaxRetries + 1]
         /\ heard' \in [Calls -> BOOLEAN]
         /\ outcome' \in [Calls -> Outcomes]
         /\ \A d \in Calls \ {c} : pc'[d] = pc[d] /\ attempt'[d] = attempt[d]
         /\ \/ pc'[c] = "done" /\ attempt'[c] = attempt[c]
            \/ pc'[c] = "calling" /\ attempt'[c] = attempt[c] + 1 /\ ~closed
<1>1. CASE closed
  <2>1. Ends(c, "ClientClosedError") /\ "ClientClosedError" \in Outcomes
    BY <1>1 DEF Attempt, Outcomes
  <2> QED BY <2>1, EndsTypes DEF TypeOK
<1>2. CASE ~closed
  <2>1. attempt[c] + 1 \in 0..MaxRetries + 1
    BY CallsConstants DEF CallsConstants, TypeOK
  <2>2. Hears(c) \in BOOLEAN
    BY DEF Hears
  <2> QED BY <1>2, <2>1, <2>2 DEF Attempt, TypeOK
<1> QED BY <1>1, <1>2

LEMMA BeginKeeps ==
  ASSUME IInv, NEW c \in Calls, Begin(c) PROVE IInv'
<1>1. pc[c] = "idle" /\ attempt[c] = 0 /\ UNCHANGED <<op, failure, active, closed>>
  BY DEF Begin, IInv, Counted
<1>2. /\ signal' \in [Calls -> {"none", "timer", "user", "timedout", "cancelled"}]
      /\ \A d \in Calls \ {c} : signal'[d] = signal[d]
  <2>1. Signals(c) \subseteq {"none", "timer", "user", "timedout", "cancelled"}
    <3>1. op[c].signal \in {"always", "asked", "given", "never"}
      BY OperationTypes DEF WellFormed, IInv, TypeOK
    <3> QED BY <3>1 DEF Signals
  <2>2. PICK s \in Signals(c) : signal' = [signal EXCEPT ![c] = s]
    BY DEF Begin
  <2> QED BY <2>1, <2>2 DEF IInv, TypeOK
<1>3. /\ pc' \in [Calls -> {"idle", "calling", "sleeping", "done"}]
      /\ attempt' \in [Calls -> 0..MaxRetries + 1]
      /\ heard' \in [Calls -> BOOLEAN] /\ outcome' \in [Calls -> Outcomes]
      /\ \A d \in Calls \ {c} : pc'[d] = pc[d] /\ attempt'[d] = attempt[d]
      /\ pc'[c] = "done" \/ (pc'[c] = "calling" /\ attempt'[c] = 1)
  <2>1. ASSUME NEW how \in {"ValidationError", "CancellationError"}, Ends(c, how)
        PROVE  <1>3!1 /\ <1>3!2 /\ <1>3!3 /\ <1>3!4 /\ <1>3!5
    <3>1. how \in Outcomes
      BY <2>1 DEF Outcomes
    <3> QED BY <2>1, <3>1, EndsTypes DEF IInv, TypeOK
  <2>2. CASE Attempt(c)
    <3>1. attempt[c] <= MaxRetries
      BY <1>1, CallsConstants DEF CallsConstants
    <3> QED BY <1>1, <2>2, <3>1, AttemptTypes DEF IInv
  <2> QED BY <2>1, <2>2 DEF Begin
<1>4. TypeOK'
  BY <1>1, <1>2, <1>3 DEF IInv, TypeOK
<1>5. ASSUME NEW d \in Calls PROVE Counted(d)'
  <2>1. CASE d = c
    BY <1>3, <2>1 DEF Counted
  <2>2. CASE d # c
    BY <1>1, <1>2, <1>3, <2>2 DEF IInv, Counted, SafeToRepeat, Aborted
  <2> QED BY <2>1, <2>2
<1> QED BY <1>4, <1>5 DEF IInv

LEMMA SucceedsKeeps ==
  ASSUME IInv, NEW c \in Calls, Succeeds(c) PROVE IInv'
<1>1. Ends(c, "ok") /\ "ok" \in Outcomes /\ UNCHANGED <<op, signal, failure, active, closed>>
  BY DEF Succeeds, Outcomes
<1>2. /\ pc' \in [Calls -> {"idle", "calling", "sleeping", "done"}]
      /\ attempt' = attempt /\ heard' = heard /\ outcome' \in [Calls -> Outcomes]
      /\ pc'[c] = "done" /\ \A d \in Calls \ {c} : pc'[d] = pc[d]
  BY <1>1, EndsTypes DEF IInv
<1>3. TypeOK'
  BY <1>1, <1>2 DEF IInv, TypeOK
<1>4. \A d \in Calls : Counted(d)'
  BY <1>1, <1>2 DEF IInv, Counted, SafeToRepeat, Aborted
<1> QED BY <1>3, <1>4 DEF IInv

LEMMA FailsKeeps ==
  ASSUME IInv, NEW c \in Calls, NEW status \in Statuses \cup {"INTERNAL", "ABORTED"},
         NEW typed \in BOOLEAN, Fails(c, status, typed)
  PROVE  IInv'
<1> DEFINE worth == op[c].retried /\ WorthRetrying(c, status, typed)
           gone == LooksAtSignal(c) /\ Aborted(c)
           exhausted == op[c].retried /\ typed /\ Retryable(status)
                          /\ (MaxRetries = 0 \/ (worth /\ ~RetriesLeft(c)))
<1>1. /\ failure' = [failure EXCEPT ![c] = [status |-> status, typed |-> typed]]
      /\ pc[c] = "calling" /\ UNCHANGED <<op, signal, closed>>
  BY DEF Fails
<1>2. /\ failure' \in [Calls -> [status : Statuses \cup {"OK", "INTERNAL", "ABORTED"},
                                 typed : BOOLEAN]]
      /\ failure'[c].status = status /\ failure'[c].typed = typed
      /\ \A d \in Calls \ {c} : failure'[d] = failure[d]
  BY <1>1 DEF IInv, TypeOK
<1>3. ASSUME NEW how \in Outcomes, Ends(c, how), UNCHANGED active PROVE IInv'
  <2>1. /\ pc' \in [Calls -> {"idle", "calling", "sleeping", "done"}]
        /\ attempt' = attempt /\ heard' = heard /\ outcome' \in [Calls -> Outcomes]
        /\ pc'[c] = "done" /\ \A d \in Calls \ {c} : pc'[d] = pc[d]
    BY <1>3, EndsTypes DEF IInv
  <2>2. TypeOK'
    BY <1>1, <1>2, <1>3, <2>1 DEF IInv, TypeOK
  <2>3. \A d \in Calls : Counted(d)'
    BY <1>1, <1>2, <2>1 DEF IInv, Counted, SafeToRepeat, Aborted
  <2> QED BY <2>2, <2>3 DEF IInv
<1>4. AbortError(c) \in Outcomes /\ "RetryExhaustedError" \in Outcomes
      /\ Thrown(c, status, typed) \in Outcomes
  BY MappedTypes DEF AbortError, Thrown, Outcomes
<1>5. CASE /\ ~gone /\ ~exhausted /\ worth /\ Admits
           /\ pc' = [pc EXCEPT ![c] = "sleeping"]
           /\ active' = IF MaxConcurrentRetries = 0 THEN active ELSE active + 1
           /\ UNCHANGED <<attempt, heard, outcome>>
  <2>1. active' \in 0..MaxConcurrentRetries
    BY <1>5, CallsConstants DEF CallsConstants, Admits, IInv, TypeOK
  <2>2. pc' \in [Calls -> {"idle", "calling", "sleeping", "done"}]
        /\ pc'[c] = "sleeping" /\ \A d \in Calls \ {c} : pc'[d] = pc[d]
    BY <1>5 DEF IInv, TypeOK
  <2>3. TypeOK'
    BY <1>1, <1>2, <1>5, <2>1, <2>2 DEF IInv, TypeOK
  <2>4. attempt[c] >= 1 /\ attempt[c] <= MaxRetries /\ attempt[c] \in Nat
    <3>1. attempt[c] >= 1 /\ attempt[c] \in Nat
      BY <1>1, CallsConstants DEF CallsConstants, IInv, Counted, TypeOK
    <3>2. typed /\ Retryable(status)
      BY <1>5 DEF WorthRetrying
    <3>3. RetriesLeft(c)
      BY <1>5, <3>2
    <3> QED BY <3>1, <3>3 DEF RetriesLeft
  <2>5. ~Aborted(c)
    BY <1>5, <2>4, CallsConstants DEF CallsConstants, LooksAtSignal
  <2>6. SafeToRepeat(c)'
    <3>1. ~Aborted(c)'
      BY <1>1, <2>5 DEF Aborted
    <3>2. status = "UNKNOWN" => attempt[c] = 1
      BY <1>5, <2>4 DEF WorthRetrying
    <3>3. /\ typed /\ Retryable(status)
          /\ MapGrpcError(status) = "KubeMQTimeoutError" => op[c].type \in IdempotentOperations
      BY <1>5 DEF WorthRetrying
    <3> QED BY <1>1, <1>2, <1>5, <2>4, <3>1, <3>2, <3>3 DEF SafeToRepeat
  <2>7. ASSUME NEW d \in Calls PROVE Counted(d)'
    <3>1. CASE d = c
      BY <2>2, <2>6, <3>1 DEF Counted
    <3>2. CASE d # c
      BY <1>1, <1>2, <1>5, <2>2, <3>2 DEF IInv, Counted, SafeToRepeat, Aborted
    <3> QED BY <3>1, <3>2
  <2> QED BY <2>3, <2>7 DEF IInv
<1> QED BY <1>3, <1>4, <1>5 DEF Fails

LEMMA ReleaseTypes ==
  ASSUME TypeOK, Release PROVE active' \in 0..MaxConcurrentRetries
BY CallsConstants DEF CallsConstants, Release, TypeOK

LEMMA BackoffOverKeeps ==
  ASSUME IInv, NEW c \in Calls, BackoffOver(c) PROVE IInv'
<1>1. SafeToRepeat(c) /\ Attempt(c) /\ UNCHANGED <<op, failure, closed, signal>>
  BY DEF BackoffOver, IInv, Counted
<1>2. attempt[c] <= MaxRetries /\ attempt[c] >= 1 /\ attempt[c] \in Nat
  BY <1>1, CallsConstants DEF CallsConstants, SafeToRepeat, IInv, TypeOK
<1>3. /\ pc' \in [Calls -> {"idle", "calling", "sleeping", "done"}]
      /\ attempt' \in [Calls -> 0..MaxRetries + 1]
      /\ heard' \in [Calls -> BOOLEAN] /\ outcome' \in [Calls -> Outcomes]
      /\ \A d \in Calls \ {c} : pc'[d] = pc[d] /\ attempt'[d] = attempt[d]
      /\ pc'[c] = "done" \/ (pc'[c] = "calling" /\ attempt'[c] = attempt[c] + 1)
  BY <1>1, <1>2, AttemptTypes DEF IInv
<1>4. active' \in 0..MaxConcurrentRetries
  BY ReleaseTypes DEF IInv, BackoffOver
<1>5. TypeOK'
  BY <1>1, <1>3, <1>4 DEF IInv, TypeOK
<1>6. ASSUME NEW d \in Calls PROVE Counted(d)'
  <2>1. CASE d = c
    BY <1>2, <1>3, <2>1 DEF Counted
  <2>2. CASE d # c
    BY <1>1, <1>3, <2>2 DEF IInv, Counted, SafeToRepeat, Aborted
  <2> QED BY <2>1, <2>2
<1> QED BY <1>5, <1>6 DEF IInv

LEMMA AbortKeeps ==
  ASSUME IInv, NEW c \in Calls, Abort(c) PROVE IInv'
<1>1. /\ signal' \in [Calls -> {"none", "timer", "user", "timedout", "cancelled"}]
      /\ \A d \in Calls \ {c} : signal'[d] = signal[d]
      /\ pc[c] \in {"calling", "sleeping"} /\ UNCHANGED <<op, failure, closed>>
  <2>1. PICK how \in {"timedout", "cancelled"} : signal' = [signal EXCEPT ![c] = how]
    BY DEF Abort
  <2> QED BY <2>1 DEF Abort, IInv, TypeOK
<1>2. CASE pc[c] = "sleeping" /\ Wakes(c)
  <2>1. PICK how \in {"KubeMQError", "raw"} : Ends(c, how)
    BY <1>2 DEF Wakes
  <2>2. how \in Outcomes
    BY DEF Outcomes
  <2>3. /\ pc' \in [Calls -> {"idle", "calling", "sleeping", "done"}]
        /\ attempt' = attempt /\ heard' = heard /\ outcome' \in [Calls -> Outcomes]
        /\ pc'[c] = "done" /\ \A d \in Calls \ {c} : pc'[d] = pc[d]
    BY <2>1, <2>2, EndsTypes DEF IInv
  <2>4. active' \in 0..MaxConcurrentRetries
    BY <1>2, ReleaseTypes DEF IInv, Wakes
  <2>5. TypeOK'
    BY <1>1, <2>3, <2>4 DEF IInv, TypeOK
  <2>6. \A d \in Calls : Counted(d)'
    BY <1>1, <2>3 DEF IInv, Counted, SafeToRepeat, Aborted
  <2> QED BY <2>5, <2>6 DEF IInv
<1>3. CASE pc[c] = "calling" /\ UNCHANGED <<pc, attempt, heard, outcome, active>>
  <2>1. TypeOK'
    BY <1>1, <1>3 DEF IInv, TypeOK
  <2>2. \A d \in Calls : Counted(d)'
    BY <1>1, <1>3 DEF IInv, Counted, SafeToRepeat, Aborted
  <2> QED BY <2>1, <2>2 DEF IInv
<1> QED BY <1>1, <1>2, <1>3 DEF Abort

LEMMA InitialInv == Init => IInv
<1> SUFFICES ASSUME Init PROVE IInv
  OBVIOUS
<1>1. NoFailure \in [status : Statuses \cup {"OK", "INTERNAL", "ABORTED"}, typed : BOOLEAN]
  BY DEF NoFailure
<1>2. "open" \in Outcomes
  BY DEF Outcomes
<1>3. 0 \in 0..MaxRetries + 1 /\ 0 \in 0..MaxConcurrentRetries
  BY CallsConstants DEF CallsConstants
<1>4. TypeOK
  BY <1>1, <1>2, <1>3 DEF Init, TypeOK
<1>5. \A c \in Calls : Counted(c)
  BY DEF Init, Counted
<1> QED BY <1>4, <1>5 DEF IInv

LEMMA NextKeeps == IInv /\ [Next]_vars => IInv'
<1> SUFFICES ASSUME IInv, [Next]_vars PROVE IInv'
  OBVIOUS
<1>1. ASSUME NEW c \in Calls, Begin(c) PROVE IInv'
  BY <1>1, BeginKeeps
<1>2. ASSUME NEW c \in Calls, Answered(c) PROVE IInv'
  <2>1. CASE Succeeds(c)
    BY <2>1, SucceedsKeeps
  <2>2. ASSUME NEW status \in Statuses, Fails(c, status, FALSE) PROVE IInv'
    BY <2>2, FailsKeeps
  <2>3. ASSUME NEW status \in op[c].own, Fails(c, status, TRUE) PROVE IInv'
    <3>1. status \in Statuses \cup {"INTERNAL", "ABORTED"}
      BY OperationTypes DEF WellFormed, IInv, TypeOK
    <3> QED BY <2>3, <3>1, FailsKeeps
  <2> QED BY <1>2, <2>1, <2>2, <2>3 DEF Answered
<1>3. ASSUME NEW c \in Calls, BackoffOver(c) PROVE IInv'
  BY <1>3, BackoffOverKeeps
<1>4. ASSUME NEW c \in Calls, Abort(c) PROVE IInv'
  BY <1>4, AbortKeeps
<1>5. CASE CloseTransport
  BY <1>5 DEF CloseTransport, IInv, TypeOK, Counted, SafeToRepeat, Aborted
<1>6. CASE UNCHANGED vars
  BY <1>6 DEF vars, IInv, TypeOK, Counted, SafeToRepeat, Aborted
<1> QED BY <1>1, <1>2, <1>3, <1>4, <1>5, <1>6 DEF Next

\* Every variable stays in its type: withRetry() makes no more attempts than its policy
\* allows, and the throttle admits no more retries than it is made for.
THEOREM CallTypes == Spec => []TypeOK
<1>1. IInv => TypeOK
  BY DEF IInv
<1> QED BY <1>1, InitialInv, NextKeeps, PTL DEF Spec

-----------------------------------------------------------------------------
\* Repeating a request.

\* The property about one call.
Repeats(c) ==
  attempt[c] > 0 /\ attempt'[c] > attempt[c] =>
    /\ attempt'[c] <= MaxRetries + 1 /\ ~Aborted(c) /\ ~closed
    /\ failure[c].typed /\ Retryable(failure[c].status)
    /\ MapGrpcError(failure[c].status) = "KubeMQTimeoutError"
         => op[c].type \in IdempotentOperations
    /\ failure[c].status = "UNKNOWN" => attempt[c] = 1

LEMMA NextRepeats ==
  ASSUME IInv, [Next]_vars, NEW d \in Calls PROVE Repeats(d)
<1>0. attempt[d] \in Nat
  BY CallsConstants DEF CallsConstants, IInv, TypeOK
<1>1. CASE attempt'[d] = attempt[d]
  BY <1>0, <1>1 DEF Repeats
<1>2. ASSUME NEW c \in Calls, Begin(c) PROVE Repeats(d)
  <2>1. pc[c] = "idle" /\ attempt[c] = 0
    BY <1>2 DEF Begin, IInv, Counted
  <2>2. (\E how \in Outcomes : Ends(c, how)) \/ Attempt(c)
    BY <1>2 DEF Begin, Outcomes
  <2>3. CASE d = c
    BY <2>1, <2>3 DEF Repeats
  <2>4. CASE d # c
    <3>1. attempt[c] <= MaxRetries
      BY <2>1, CallsConstants DEF CallsConstants
    <3>2. attempt'[d] = attempt[d]
      BY <2>2, <2>4, <3>1, EndsTypes, AttemptTypes DEF IInv
    <3> QED BY <1>1, <3>2
  <2> QED BY <2>3, <2>4
<1>3. ASSUME NEW c \in Calls, BackoffOver(c) PROVE Repeats(d)
  <2>1. SafeToRepeat(c) /\ Attempt(c)
    BY <1>3 DEF BackoffOver, IInv, Counted
  <2>2. attempt[c] <= MaxRetries /\ attempt[c] \in Nat
    BY <2>1, CallsConstants DEF CallsConstants, SafeToRepeat, IInv, TypeOK
  <2>3. \/ attempt'[c] = attempt[c]
        \/ attempt'[c] = attempt[c] + 1 /\ ~closed
    BY <2>1, <2>2, AttemptTypes DEF IInv
  <2>4. CASE d = c
    <3>1. CASE attempt'[c] = attempt[c] + 1 /\ ~closed
      <4>1. attempt'[d] <= MaxRetries + 1
        BY <2>2, <2>4, <3>1, CallsConstants DEF CallsConstants
      <4> QED BY <2>1, <2>4, <3>1, <4>1 DEF SafeToRepeat, Repeats
    <3> QED BY <1>1, <2>3, <2>4, <3>1
  <2>5. CASE d # c
    BY <1>1, <2>1, <2>2, <2>5, AttemptTypes DEF IInv
  <2> QED BY <2>4, <2>5
<1>4. ASSUME NEW c \in Calls, Answered(c) PROVE UNCHANGED attempt
  BY <1>4 DEF Answered, Succeeds, Fails, Ends
<1>5. ASSUME NEW c \in Calls, Abort(c) PROVE UNCHANGED attempt
  BY <1>5 DEF Abort, Wakes, Ends
<1>6. CASE CloseTransport \/ UNCHANGED vars
  BY <1>1, <1>6 DEF CloseTransport, vars
<1> QED BY <1>1, <1>2, <1>3, <1>4, <1>5, <1>6 DEF Next

\* withRetry() repeats a request only after a typed, transient failure, never after a
\* timeout unless the operation is idempotent, never for a caller that has given up and
\* never more than once after UNKNOWN, under every policy.
THEOREM RequestsRepeatSafely == Spec => RepeatsSafely
<1>1. IInv /\ [Next]_vars => \A c \in Calls : Repeats(c)
  BY NextRepeats
<1>2. (\A c \in Calls : Repeats(c)) =>
        [\A c \in Calls : attempt[c] > 0 /\ attempt'[c] > attempt[c] =>
           /\ attempt'[c] <= MaxRetries + 1 /\ ~Aborted(c) /\ ~closed
           /\ failure[c].typed /\ Retryable(failure[c].status)
           /\ MapGrpcError(failure[c].status) = "KubeMQTimeoutError"
                => op[c].type \in IdempotentOperations
           /\ failure[c].status = "UNKNOWN" => attempt[c] = 1]_vars
  BY DEF Repeats
<1> QED BY <1>1, <1>2, InitialInv, NextKeeps, PTL DEF Spec, RepeatsSafely

-----------------------------------------------------------------------------
\* The throttle.

Sleeping == {c \in Calls : pc[c] = "sleeping"}

LEMMA SleepingIsFinite == IsFiniteSet(Sleeping) /\ IsFiniteSet(Sleeping')
<1>1. Sleeping \subseteq Calls /\ Sleeping' \subseteq Calls
  BY DEF Sleeping
<1> QED BY <1>1, CallsConstants, FS_Subset DEF CallsConstants

\* A permit is taken when a call goes to sleep and given back when it leaves its sleep.
Moves ==
  \/ Sleeping' = Sleeping /\ active' = active
  \/ \E c \in Calls \ Sleeping :
       /\ Sleeping' = Sleeping \cup {c}
       /\ active' = IF MaxConcurrentRetries = 0 THEN active ELSE active + 1
  \/ \E c \in Sleeping : Sleeping' = Sleeping \ {c} /\ Release

LEMMA NextMoves ==
  ASSUME IInv, [Next]_vars PROVE Moves
<1>1. ASSUME NEW c \in Calls, NEW how, Ends(c, how) PROVE Sleeping' = Sleeping \ {c}
  BY <1>1 DEF Ends, Sleeping, IInv, TypeOK
<1>2. ASSUME NEW c \in Calls, Attempt(c) PROVE Sleeping' = Sleeping \ {c}
  <2>1. CASE closed
    BY <1>1, <1>2, <2>1 DEF Attempt
  <2>2. CASE ~closed
    BY <1>2, <2>2 DEF Attempt, Sleeping, IInv, TypeOK
  <2> QED BY <2>1, <2>2
<1>3. ASSUME NEW c \in Calls, Begin(c) PROVE Moves
  <2>1. Sleeping' = Sleeping \ {c} /\ c \notin Sleeping /\ active' = active
    BY <1>1, <1>2, <1>3 DEF Begin, Sleeping
  <2> QED BY <2>1 DEF Moves
<1>4. ASSUME NEW c \in Calls, Succeeds(c) PROVE Moves
  <2>1. Sleeping' = Sleeping \ {c} /\ c \notin Sleeping /\ active' = active
    BY <1>1, <1>4 DEF Succeeds, Sleeping
  <2> QED BY <2>1 DEF Moves
<1>5. ASSUME NEW c \in Calls, NEW status, NEW typed, Fails(c, status, typed) PROVE Moves
  <2>1. c \notin Sleeping
    BY <1>5 DEF Fails, Sleeping
  <2>2. \/ (\E how : Ends(c, how)) /\ UNCHANGED active
        \/ /\ pc' = [pc EXCEPT ![c] = "sleeping"]
           /\ active' = IF MaxConcurrentRetries = 0 THEN active ELSE active + 1
    BY <1>5 DEF Fails
  <2>3. CASE (\E how : Ends(c, how)) /\ UNCHANGED active
    BY <1>1, <2>1, <2>3 DEF Moves
  <2>4. CASE /\ pc' = [pc EXCEPT ![c] = "sleeping"]
             /\ active' = IF MaxConcurrentRetries = 0 THEN active ELSE active + 1
    <3>1. Sleeping' = Sleeping \cup {c}
      BY <2>4 DEF Sleeping, IInv, TypeOK
    <3> QED BY <2>1, <2>4, <3>1 DEF Moves
  <2> QED BY <2>2, <2>3, <2>4
<1>6. ASSUME NEW c \in Calls, BackoffOver(c) PROVE Moves
  <2>1. Sleeping' = Sleeping \ {c} /\ c \in Sleeping /\ Release
    BY <1>2, <1>6 DEF BackoffOver, Sleeping
  <2> QED BY <2>1 DEF Moves
<1>7. ASSUME NEW c \in Calls, Abort(c) PROVE Moves
  <2>1. CASE pc[c] = "sleeping" /\ Wakes(c)
    <3>1. Sleeping' = Sleeping \ {c} /\ c \in Sleeping /\ Release
      BY <1>1, <2>1 DEF Wakes, Sleeping
    <3> QED BY <3>1 DEF Moves
  <2>2. CASE UNCHANGED <<pc, active>>
    BY <2>2 DEF Moves, Sleeping
  <2> QED BY <1>7, <2>1, <2>2 DEF Abort
<1>8. CASE CloseTransport \/ UNCHANGED vars
  BY <1>8 DEF CloseTransport, vars, Moves, Sleeping
<1> QED BY <1>3, <1>4, <1>5, <1>6, <1>7, <1>8 DEF Next, Answered

LEMMA MovesKeepCount ==
  ASSUME TypeOK, Moves, MaxConcurrentRetries > 0, active = Cardinality(Sleeping)
  PROVE  active' = Cardinality(Sleeping')
<1>0. active \in Nat /\ Cardinality(Sleeping) \in Nat
  BY SleepingIsFinite, FS_CardinalityType, CallsConstants DEF CallsConstants, TypeOK
<1>1. CASE Sleeping' = Sleeping /\ active' = active
  BY <1>1
<1>2. ASSUME NEW c \in Calls \ Sleeping, Sleeping' = Sleeping \cup {c}, active' = active + 1
      PROVE  active' = Cardinality(Sleeping')
  <2>1. Cardinality(Sleeping \cup {c}) = Cardinality(Sleeping) + 1
    BY <1>2, SleepingIsFinite, FS_AddElement
  <2> QED BY <1>2, <2>1
<1>3. ASSUME NEW c \in Sleeping, Sleeping' = Sleeping \ {c}, Release
      PROVE  active' = Cardinality(Sleeping')
  <2>1. Cardinality(Sleeping \ {c}) = Cardinality(Sleeping) - 1
    BY <1>3, SleepingIsFinite, FS_RemoveElement
  <2>2. Cardinality(Sleeping) # 0
    BY SleepingIsFinite, FS_EmptySet
  <2> QED BY <1>0, <1>3, <2>1, <2>2 DEF Release
<1> QED BY <1>1, <1>2, <1>3 DEF Moves

\* The throttle all operations share counts the backoffs under way, so that no permit is
\* lost, whether a backoff ends by its timer, an abort or close().
THEOREM ThrottleIsExact == Spec => []ThrottleCounts
<1>1. Init => ThrottleCounts
  <2> SUFFICES ASSUME Init PROVE active = Cardinality(Sleeping)
    BY DEF ThrottleCounts, Sleeping
  <2>1. Sleeping = {}
    BY DEF Init, Sleeping
  <2> QED BY <2>1, FS_EmptySet DEF Init
<1>2. IInv /\ ThrottleCounts /\ [Next]_vars => ThrottleCounts'
  <2> SUFFICES ASSUME IInv, ThrottleCounts, [Next]_vars, MaxConcurrentRetries > 0
               PROVE  active' = Cardinality(Sleeping')
    BY DEF ThrottleCounts, Sleeping
  <2>1. active = Cardinality(Sleeping)
    BY DEF ThrottleCounts, Sleeping
  <2> QED BY <2>1, NextMoves, MovesKeepCount DEF IInv
<1> QED BY <1>1, <1>2, InitialInv, NextKeeps, PTL DEF Spec
=============================================================================
