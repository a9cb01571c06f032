---------------------------- MODULE Registration ----------------------------
(***************************************************************************)
(* The one-shot registrations, from finding a mirror to the settled call:  *)
(* connectMirrorFromRegistry (registry.ts) reads the candidates of a       *)
(* service registry and takes the first one that completes a TLS handshake *)
(* (connectTlsMirror in transport.ts) with the wanted certificate;         *)
(* runClientGenTraces and runClientExplore (runOwnedRegistration in        *)
(* client.ts) and runClientValidate (connection.ts) then own a transport   *)
(* for one exchange.                                                       *)
(*                                                                         *)
(* A certificate stands for its fingerprint; both ends of the comparison   *)
(* are brought to lower case, so the case of a pin is left out.  The       *)
(* registry, the mirrors and the exchange (Replay, Connection) are         *)
(* external and answer in every way the code distinguishes, or never.  A   *)
(* mirror may change its certificate after the registry was read.          *)
(***************************************************************************)
EXTENDS Naturals, Sequences, SequencesExt, FiniteSets

CONSTANTS
    Hosts,         \* hosts a mirror may be published at
    Certs,         \* certificates a mirror may have
    MaxEntries,    \* entries of a registry's answer (bound)
    MaxRotations   \* certificates exchanged during a call (bound)

VARIABLES
    options,    \* what the caller asks for
    cert,       \* cert[h]: the certificate of the mirror at h now
    rotations,  \* certificates exchanged so far
    answer,     \* what the registry answered
    services,   \* the candidates of discoverMirrors
    at,         \* the candidate that is tried
    socket,     \* socket[i]: the socket to candidate i
    seen,       \* seen[i]: the certificate its handshake showed
    link,       \* the caller's transport and what close() made of it
    closes,     \* how often close() was called on it
    primary,    \* the first failure of the call
    stage,      \* where the call is
    result      \* what the call returned or threw

connectVars == <<answer, services, at, socket, seen>>
callVars == <<link, closes, primary, result>>
registrationVars == <<options, cert, rotations, connectVars, callVars, stage>>

Pins    == Certs \cup {"absent", "malformed"}
\* A published service; `usable' says that Service, Address and Port are
\* what parseServiceEntry wants.
Entries == [host : Hosts, usable : BOOLEAN, pin : Pins]
Answers == UNION {[1 .. n -> Entries] : n \in 0 .. MaxEntries}
Flows   == {"gen_traces", "explore", "validate"}
Options == [flow : Flows, target : {"registry", "spawn", "given"}, pin : Pins, fits : BOOLEAN]
Owned(flow) == flow \in {"gen_traces", "explore"}

RegistrationInit ==
    /\ options \in {o \in Options : o.target # "registry" => o.pin = "absent"}
    /\ cert \in [Hosts -> Certs]
    /\ rotations = 0
    /\ answer = <<>>
    /\ services = <<>>
    /\ at = 0
    /\ socket = [i \in 1 .. MaxEntries |-> "none"]
    /\ seen = [i \in 1 .. MaxEntries |-> "absent"]
    /\ link = IF options.target = "given" THEN "open" ELSE "none"
    /\ closes = 0
    /\ primary = "none"
    /\ stage = IF options.target = "registry" THEN "discover" ELSE "register"
    /\ result = "none"

\* A mirror is given another certificate.
Rotate(h, c) ==
    /\ rotations < MaxRotations /\ stage \in {"discover", "candidate", "handshake"}
    /\ c # cert[h]
    /\ cert' = [cert EXCEPT ![h] = c]
    /\ rotations' = rotations + 1
    /\ UNCHANGED <<options, connectVars, callVars, stage>>

-----------------------------------------------------------------------------
(* Discovery.                                                              *)

Throw(error) ==
    /\ stage' = "done"
    /\ result' = error
    /\ primary' = IF primary = "none" THEN error ELSE primary

\* Variant with a bug: an entry whose pin cannot be read is kept, unpinned.
parseServiceEntry_Unpinned(e) ==
    IF e.usable
    THEN {[host |-> e.host, pin |-> IF e.pin = "malformed" THEN "absent" ELSE e.pin]}
    ELSE {}

\* The candidate an entry makes, if any: one with an unreadable pin is dropped.
parseServiceEntry(e) ==
    IF e.usable /\ e.pin # "malformed" THEN {[host |-> e.host, pin |-> e.pin]} ELSE {}

\* The candidates in the registry's order.
Parsed(entries) ==
    FoldLeft(LAMBDA acc, e : acc \o SetToSeq(parseServiceEntry(e)), <<>>, entries)

\* A network error, a bad status, a body that is no array and the timeout all
\* read as an empty list, which the caller refuses.
discoverMirrors(entries) ==
    /\ stage = "discover"
    /\ answer' = entries
    /\ services' = Parsed(entries)
    /\ IF services' = <<>>
       THEN Throw("no_candidates") /\ at' = at
       ELSE at' = 1 /\ stage' = "candidate" /\ UNCHANGED <<primary, result>>
    /\ UNCHANGED <<options, cert, rotations, socket, seen, link, closes>>

-----------------------------------------------------------------------------
(* Connecting.                                                             *)

\* opts.pin ?? service.certSha256
Wanted == IF options.pin # "absent" THEN options.pin ELSE services[at].pin

\* The candidate failed: the next one, or all of them did.
Fails ==
    IF at < Len(services)
    THEN at' = at + 1 /\ stage' = "candidate" /\ UNCHANGED <<primary, result>>
    ELSE Throw("no_usable_mirror") /\ UNCHANGED at

\* The key file is checked and the pin is read before a socket exists.
Candidate ==
    /\ stage = "candidate"
    /\ \/ /\ Wanted # "malformed"
          /\ socket' = [socket EXCEPT ![at] = "open"]
          /\ stage' = "handshake"
          /\ UNCHANGED <<at, primary, result>>
       \/ Fails /\ UNCHANGED socket
    /\ UNCHANGED <<options, cert, rotations, answer, services, seen, link, closes>>

\* The pin check of connectTlsMirror.
Matches(c) == Wanted = "absent" \/ c = Wanted

\* The handshake completes; the certificate is the one the mirror has now.
Handshake ==
    /\ stage = "handshake"
    /\ LET c == cert[services[at].host] IN
       /\ seen' = [seen EXCEPT ![at] = c]
       /\ \/ /\ Matches(c)
             /\ link' = "open"
             /\ stage' = "register"
             /\ UNCHANGED <<at, socket, primary, result>>
          \/ /\ ~Matches(c)
             /\ socket' = [socket EXCEPT ![at] = "destroyed"]
             /\ Fails
             /\ UNCHANGED link
    /\ UNCHANGED <<options, cert, rotations, answer, services, closes>>

\* The peer refuses, is not authorized, or the handshake's timer fires.
HandshakeFails ==
    /\ stage = "handshake"
    /\ socket' = [socket EXCEPT ![at] = "destroyed"]
    /\ Fails
    /\ UNCHANGED <<options, cert, rotations, answer, services, seen, link, closes>>

-----------------------------------------------------------------------------
(* The exchange and its end.                                               *)

\* A registration too long for a line is refused before a process is spawned
\* or the caller's transport taken over; validate() has no such check and
\* finds out when it sends.
RegisterOnce ==
    /\ stage = "register"
    /\ \/ /\ Owned(options.flow) /\ ~options.fits
          /\ Throw("line")
          /\ UNCHANGED link
       \/ /\ Owned(options.flow) => options.fits
          /\ link' = "open"
          /\ stage' = "ready"
          /\ UNCHANGED <<primary, result>>
    /\ UNCHANGED <<options, cert, rotations, connectVars, closes>>

\* resolveTransport: a transport that does not become ready is closed, and
\* that failure is kept whatever close() does.  Connection.open leaves it.
BecomesReady ==
    /\ stage = "ready"
    /\ \/ stage' = "exchange" /\ UNCHANGED callVars
       \/ /\ options.target # "spawn"
          /\ Throw("ready")
          /\ IF Owned(options.flow)
             THEN /\ closes' = closes + 1
                  /\ link' \in {"closed", "unconfirmed"}
             ELSE UNCHANGED <<closes, link>>
    /\ UNCHANGED <<options, cert, rotations, connectVars>>

\* receiveGenTraces, runReplayExchange or validate(): a value or a failure.
Exchange ==
    /\ stage = "exchange"
    /\ \/ options.fits /\ UNCHANGED primary
       \/ primary' = "exchange"
    /\ stage' = "close"
    /\ UNCHANGED <<options, cert, rotations, connectVars, link, closes, result>>


\* What the call ends with.  The `finally' of runClientValidate throws the
\* failure of close() in place of its own.
Outcome(closed) ==
    IF primary # "none" /\ (closed \/ Owned(options.flow)) THEN primary
    ELSE IF closed THEN "value" ELSE "close"

Close ==
    /\ stage = "close"
    /\ closes' = closes + 1
    /\ \E closed \in BOOLEAN :
          /\ link' = IF closed THEN "closed" ELSE "unconfirmed"
          /\ result' = Outcome(closed)
          /\ primary' = IF primary = "none" /\ ~closed THEN "close" ELSE primary
    /\ stage' = "done"
    /\ UNCHANGED <<options, cert, rotations, connectVars>>

-----------------------------------------------------------------------------
Connect == (\E entries \in Answers : discoverMirrors(entries))
           \/ Candidate \/ Handshake \/ HandshakeFails

RegistrationNext ==
    \/ Connect \/ RegisterOnce \/ BecomesReady \/ Exchange \/ Close
    \/ \E h \in Hosts, c \in Certs : Rotate(h, c)

-----------------------------------------------------------------------------
\* A mirror found through a registry is the first usable candidate: the
\* certificate its own handshake showed is the caller's pin or, without one,
\* the pin the registry published for that very entry, whatever certificates
\* were exchanged since; no entry with an unreadable pin is used at all; and
\* every candidate before it was given up with its socket destroyed.
ConnectedIsTheWanted ==
    /\ \A i \in 1 .. Len(services) : i < at => socket[i] # "open"
    /\ stage \in {"register", "ready", "exchange", "close"} /\ options.target = "registry" =>
          LET readable == SelectSeq(answer, LAMBDA e : e.usable /\ e.pin # "malformed")
              expected == IF options.pin # "absent" THEN options.pin ELSE readable[at].pin
          IN  /\ socket[at] = "open" /\ at <= Len(readable)
              /\ services[at].host = readable[at].host
              /\ expected # "absent" => seen[at] = expected

\* An owned registration closes its transport exactly once on every way out
\* that acquired it, and what it throws is its first failure, also when close()
\* fails after it; it returns a value only when both succeeded.
OwnedSettlesOnce ==
    stage = "done" /\ Owned(options.flow) =>
        /\ result \in {"value", primary}
        /\ (result = "value") = (primary = "none")
        /\ link # "none" /\ result # "line" => closes = 1 /\ link # "open"
        /\ result = "line" => closes = 0

=============================================================================
