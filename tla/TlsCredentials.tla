--------------------------- MODULE TlsCredentials ---------------------------
(***************************************************************************)
(* How a transport gets its certificates and what it does with them:       *)
(* connect() validates the client certificate and then loads it and its    *)
(* key once more, every reconnection loads them again, so that files that  *)
(* were renewed are used from then on.                                     *)
(*                                                                         *)
(* Each file is read in an await of its own, and whoever renews the files  *)
(* writes them one after the other.  A certificate is a version, with its  *)
(* key; what is on disk is a version of each.  Connection has the state    *)
(* machine, the delays and the limit of the reconnections.                 *)
(***************************************************************************)
EXTENDS Integers

CONSTANT MaxRenewals  \* bound: how often the files are renewed

ASSUME TlsConstants == MaxRenewals \in Nat

VARIABLES
  tlsOptions,  \* what was asked for, and whether the server's certificate is trusted
  disk,        \* the version of the certificate and of the key in the files
  dates,       \* each version is "early", "valid" or "expired"
  link,        \* where connect() or the attempt is; "ready", "up", "down", "refused"
  connecting,  \* it is connect(), not a reconnection
  validated,   \* the version connect() has validated, 0 for none
  loaded,      \* the versions the last attempt has loaded, 0 for none
  since        \* history: the version that was complete on disk when it began

tlsVars == <<tlsOptions, disk, dates, link, connecting, validated, loaded, since>>

Versions == 1..(MaxRenewals + 1)
Files == {"cert", "key"}
Older(pair) == IF pair.cert < pair.key THEN pair.cert ELSE pair.key
Newest == IF disk.cert > disk.key THEN disk.cert ELSE disk.key

\* pair is where the client certificate and its key come from: nowhere, inline or files.
\* A path with ".." is refused when it is read; connect() validates no `ca'.
TlsAsked ==
  [enabled : BOOLEAN, ca : {"none", "path", "unsafe"}, pair : {"none", "pem", "path"},
   insecureSkipVerify : BOOLEAN, production : BOOLEAN, trusted : BOOLEAN]

TlsInit ==
  /\ tlsOptions \in TlsAsked
  /\ disk = [f \in Files |-> 1]
  /\ dates \in [Versions -> {"early", "valid", "expired"}]
  /\ dates[MaxRenewals + 1] # "expired"
  /\ link = "new" /\ connecting = TRUE
  /\ validated = 0 /\ loaded = [f \in Files |-> 0] /\ since = 0

-----------------------------------------------------------------------------
\* Mutant: what was read once is not read again.
ResolvePemOrPathMutant(file) == IF loaded[file] # 0 THEN loaded[file] ELSE disk[file]

\* The version in the file, or the one that was passed inline, which was the first.
ResolvePemOrPath(file) == IF tlsOptions.pair = "path" THEN disk[file] ELSE 1

\* connect(): what throws leaves create(), what is thrown by an attempt ends the attempt.
AttemptFails == link' = IF connecting THEN "refused" ELSE "down"

\* validateAuth() and the choice of the channel's credentials.
Connect ==
  /\ link = "new"
  /\ link' = CASE ~tlsOptions.enabled -> "ready"
               [] tlsOptions.enabled /\ tlsOptions.pair # "none" -> "validating"
               [] OTHER -> "loading"
  /\ UNCHANGED <<tlsOptions, disk, dates, connecting, validated, loaded, since>>

\* validateCertificates(): of the key no more is looked at than its format.
ValidateCertificates ==
  /\ link = "validating"
  /\ LET version == ResolvePemOrPath("cert")
     IN IF dates[version] = "valid" THEN link' = "loading" /\ validated' = version
        ELSE AttemptFails /\ UNCHANGED validated
  /\ UNCHANGED <<tlsOptions, disk, dates, connecting, loaded, since>>

\* resolveSslParts(): the certificate of the authority,
LoadCa ==
  /\ link = "loading"
  /\ since' = Older(disk)
  /\ IF tlsOptions.ca = "unsafe" THEN AttemptFails ELSE link' = "loadingCert"
  /\ UNCHANGED <<tlsOptions, disk, dates, connecting, validated, loaded>>

\* the client's
LoadCert ==
  /\ link = "loadingCert"
  /\ loaded' = IF tlsOptions.pair = "none" THEN loaded
               ELSE [loaded EXCEPT !.cert = ResolvePemOrPath("cert")]
  /\ link' = "loadingKey"
  /\ UNCHANGED <<tlsOptions, disk, dates, connecting, validated, since>>

\* and its key; production does not go without verification.
LoadKey ==
  /\ link = "loadingKey"
  /\ loaded' = IF tlsOptions.pair = "none" THEN loaded
               ELSE [loaded EXCEPT !.key = ResolvePemOrPath("key")]
  /\ IF tlsOptions.insecureSkipVerify /\ tlsOptions.production THEN AttemptFails
     ELSE link' = "building"
  /\ UNCHANGED <<tlsOptions, disk, dates, connecting, validated, since>>

\* Node.js refuses a key that is not the certificate's.
CreateSsl == loaded.cert = loaded.key

\* The client is built: connect() is over, an attempt waits for its channel.
BuildClient ==
  /\ link = "building"
  /\ IF CreateSsl THEN link' = "ready" ELSE AttemptFails
  /\ UNCHANGED <<tlsOptions, disk, dates, connecting, validated, loaded, since>>

\* The server and the client look at each other's certificates.
Trusted == tlsOptions.trusted /\ (tlsOptions.pair # "none" => dates[loaded.cert] = "valid")

\* The channel connects, or becomes a TRANSIENT_FAILURE.
Handshake ==
  /\ link = "ready"
  /\ link' = IF ~tlsOptions.enabled \/ Trusted THEN "up" ELSE "down"
  /\ connecting' = FALSE
  /\ UNCHANGED <<tlsOptions, disk, dates, validated, loaded, since>>

\* The connection is lost: its channel tries again with the credentials it has.
Disconnected ==
  /\ link = "up" /\ link' = "ready"
  /\ UNCHANGED <<tlsOptions, disk, dates, connecting, validated, loaded, since>>

\* The delay of the reconnection is over.
Reconnect ==
  /\ link = "down"
  /\ link' = IF tlsOptions.enabled THEN "loading" ELSE "ready"
  /\ UNCHANGED <<tlsOptions, disk, dates, connecting, validated, loaded, since>>

-----------------------------------------------------------------------------
\* The files are renewed, in any order; the last ones stay.
Renews(file) ==
  /\ disk[file] <= Older(disk) /\ disk[file] <= MaxRenewals
  /\ disk' = [disk EXCEPT ![file] = @ + 1]
  /\ UNCHANGED <<tlsOptions, dates, link, connecting, validated, loaded, since>>

RenewalEnds == disk.cert # disk.key /\ \E file \in Files : Renews(file)

\* A certificate becomes valid, and expires; the last one does not.
BecomesValid(v) ==
  /\ dates[v] = "early" /\ dates' = [dates EXCEPT ![v] = "valid"]
  /\ UNCHANGED <<tlsOptions, disk, link, connecting, validated, loaded, since>>

Lapses(v) ==
  /\ dates[v] = "valid" /\ v <= MaxRenewals /\ dates' = [dates EXCEPT ![v] = "expired"]
  /\ UNCHANGED <<tlsOptions, disk, link, connecting, validated, loaded, since>>

Attempts ==
  Connect \/ ValidateCertificates \/ LoadCa \/ LoadCert \/ LoadKey \/ BuildClient
    \/ Handshake \/ Reconnect

TlsNext ==
  \/ Attempts \/ Disconnected
  \/ \E file \in Files : Renews(file)
  \/ \E v \in Versions : BecomesValid(v) \/ Lapses(v)

TlsSpec == TlsInit /\ [][TlsNext]_tlsVars

\* Reads and timers end; who writes one file writes the other, and renews what expired.
TlsFairness ==
  /\ WF_tlsVars(Attempts)
  /\ WF_tlsVars(RenewalEnds)
  /\ WF_tlsVars(dates[Newest] = "expired" /\ \E file \in Files : Renews(file))
  /\ \A v \in Versions : WF_tlsVars(BecomesValid(v))

-----------------------------------------------------------------------------
\* Every variable stays in its type.
TlsTypeOK ==
  /\ tlsOptions \in TlsAsked /\ disk \in [Files -> Versions]
  /\ dates \in [Versions -> {"early", "valid", "expired"}]
  /\ link \in {"new", "validating", "loading", "loadingCert", "loadingKey", "building",
               "ready", "up", "down", "refused"}
  /\ connecting \in BOOLEAN /\ validated \in 0..(MaxRenewals + 1)
  /\ loaded \in [Files -> 0..(MaxRenewals + 1)] /\ since \in 0..(MaxRenewals + 1)

\* A channel has a certificate and the key that belongs to it, both at least as new as
\* the files that were complete when its attempt began, although they are renewed while
\* they are read; with TLS off nothing is loaded.
CredentialsAreFresh ==
  link \in {"ready", "up"} =>
    IF tlsOptions.enabled /\ tlsOptions.pair = "path"
    THEN loaded.cert = loaded.key /\ loaded.cert >= since /\ since > 0
    ELSE loaded.cert \in {0, 1} /\ (loaded.cert = 1 => tlsOptions.enabled)

\* A connection that is lost because its certificate expired, or because its files were
\* read while they were renewed, comes back, with files that are renewed in time.
LinkReturns ==
  link = "down" /\ tlsOptions.pair # "pem" /\ (tlsOptions.enabled => tlsOptions.trusted)
    ~> link = "up"

-----------------------------------------------------------------------------
\* What the code and its documentation promise and do not do.

\* validateAuth(): "Validate TLS certificates [...] before connect()".  The certificate
\* connect() uses is read again after it was validated, and may be another one.
WhatIsValidatedIsUsed ==
  connecting /\ link = "ready" /\ tlsOptions.enabled => loaded.cert = validated

\* options.ts: "Skip server certificate verification."  No part of the credentials that
\* are built depends on it: a server that is not trusted is refused all the same.
SkipIsHonoured ==
  link = "down" /\ tlsOptions.insecureSkipVerify /\ tlsOptions.pair = "none"
    => ~tlsOptions.enabled
=============================================================================
