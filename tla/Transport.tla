----------------------------- MODULE Transport -----------------------------
(***************************************************************************)
(* The transports of src/transport.ts over the framing: spawnMirror owns a *)
(* child process, connectMirror a TCP socket, connectTlsMirror a TLS       *)
(* socket it hands over only after the handshake and the pin.  The bare    *)
(* protocolLineIterator is the fourth kind, "stream".                      *)
(*                                                                         *)
(* Time is not counted: a timer that is set may fire at any moment.        *)
(***************************************************************************)
EXTENDS ProtocolFraming

CONSTANTS
    Owners,             \* concurrent callers of the transport's close()
    MaxTransportBytes   \* bound: bytes a child or socket sends

ASSUME TransportBounds == MaxTransportBytes \in Nat

VARIABLES
    kind,       \* which transport: chosen at first, never changed
    peer,       \* the process or socket
    ready,      \* the promise of the connection or of the handshake
    closer,     \* how far the body of close() has come
    callers     \* who has called close()

transportVars == <<kind, peer, ready, closer, callers>>
streamVars == <<iteratorVars, framingVars, history>>

Kinds == {"stream", "child", "socket", "tls"}

(* over: the process has exited, or the socket was destroyed; closed: its   *)
(* "close" event has come.                                                  *)
PeerStates == {"starting", "up", "over", "closed"}
Gone == peer \in {"over", "closed"}

TransportInit ==
    /\ Init
    /\ kind \in Kinds
    /\ peer = IF kind \in {"stream", "child"} THEN "up" ELSE "starting"
    /\ ready = IF kind \in {"stream", "child"} THEN "resolved" ELSE "pending"
    /\ closer = "idle" /\ callers = {}

(* The framing is attached, and the caller has the transport: at once, but  *)
(* for TLS only when the handshake is done.                                 *)
Attached == kind = "tls" => ready = "resolved"

(* A process that has exited may have left bytes in its pipe. *)
Readable == kind # "stream" /\ Attached /\ (peer = "up" \/ (kind = "child" /\ peer = "over"))

-----------------------------------------------------------------------------
(* What the stream brings *)

StreamEvent ==
    /\ Readable
    /\ \/ \E chunk \in SeqOf(Bytes, MaxTransportBytes) :
             Len(stream) + Len(chunk) <= MaxTransportBytes /\ onData(chunk)
       \/ onEnd
       \/ kind = "child" /\ onClose
    /\ UNCHANGED transportVars

(* The socket's "error" and "close" as the framing hears them *)
FramingHearsClose == IF terminal \/ ~Attached THEN UNCHANGED streamVars ELSE onClose

Read ==
    /\ kind # "stream" /\ Attached
    /\ \E r \in Readers : next(r)
    /\ UNCHANGED transportVars

-----------------------------------------------------------------------------
(* Connecting *)

Settles(promise, state) ==
    /\ peer = "starting" /\ ready = "pending"
    /\ ready' = promise /\ peer' = state
    /\ UNCHANGED <<kind, closer, callers>>

Connected == kind = "socket" /\ Settles("resolved", "up") /\ UNCHANGED streamVars

ConnectFails == kind = "socket" /\ Settles("rejected", "closed") /\ FramingHearsClose

(* secureConnect: a peer that is not authorized, or not the pinned one, is  *)
(* destroyed.  The throw of peerLeafFingerprint on a socket that shows no   *)
(* certificate, which rejects without destroying it, is left out: after     *)
(* authorization only a socket that is destroyed already shows none.        *)
SecureConnect ==
    /\ kind = "tls" /\ UNCHANGED streamVars
    /\ \E authorized \in BOOLEAN, pinned \in BOOLEAN :
          IF authorized /\ pinned THEN Settles("resolved", "up") ELSE Settles("rejected", "over")

HandshakeError == kind = "tls" /\ Settles("rejected", "closed") /\ UNCHANGED streamVars

HandshakeTimer == kind = "tls" /\ Settles("rejected", "over") /\ UNCHANGED streamVars

-----------------------------------------------------------------------------
(* The end of the peer *)

(* By itself, or because its input ended or it was signalled. *)
ChildExits ==
    /\ kind = "child" /\ peer = "up" /\ peer' = "over"
    /\ UNCHANGED <<streamVars, kind, ready, closer, callers>>

(* A child's "close" comes after its stdout has closed: never, when another *)
(* process holds the pipe.                                                 *)
ChildClosed ==
    /\ kind = "child" /\ peer = "over" /\ terminal /\ peer' = "closed"
    /\ UNCHANGED <<streamVars, kind, ready, closer, callers>>

SocketLost ==
    /\ kind \in {"socket", "tls"} /\ peer = "up" /\ peer' = "closed"
    /\ FramingHearsClose
    /\ UNCHANGED <<kind, ready, closer, callers>>

SocketClosed ==
    /\ kind \in {"socket", "tls"} /\ peer = "over" /\ peer' = "closed"
    /\ FramingHearsClose
    /\ UNCHANGED <<kind, ready, closer, callers>>

-----------------------------------------------------------------------------
(* close() *)

(* The synchronous part of the body: end the child's input; end and destroy *)
(* the socket; end the TLS socket unless it is destroyed already.           *)
BeginClose ==
    CASE kind = "child" -> closer' = "graceful" /\ UNCHANGED peer
      [] kind = "socket" -> closer' = "returned" /\ peer' = IF peer = "closed" THEN peer ELSE "over"
      [] kind = "tls" -> closer' = (IF Gone THEN "returned" ELSE "graceful") /\ UNCHANGED peer

(* onceCloser: the body runs once, every caller awaits its promise *)
onceCloser == IF closer = "idle" THEN BeginClose ELSE UNCHANGED <<closer, peer>>

Close(c) ==
    /\ kind # "stream" /\ c \notin callers
    /\ onceCloser
    /\ callers' = callers \cup {c}
    /\ UNCHANGED <<streamVars, kind, ready>>

OwnerCloses == Attached /\ \E c \in Owners : Close(c)

(* The framing's onFatal, in the microtask after its stop() *)
FramingCloses == onFatal /\ Close("framing")

Escalation == [graceful |-> "SIGTERM", SIGTERM |-> "SIGKILL", SIGKILL |-> "threw"]

(* Variant with a bug: the child's exit is awaited without a timer. *)
waitForExit_NoTimer ==
    /\ kind = "child" /\ closer \in DOMAIN Escalation
    /\ peer = "closed" /\ closer' = "returned"
    /\ UNCHANGED <<streamVars, kind, peer, ready, callers>>

(* waitForExit: the child's "close", or else the timer and the next signal  *)
waitForExit ==
    /\ kind = "child" /\ closer \in DOMAIN Escalation
    /\ closer' = IF peer = "closed" THEN "returned" ELSE Escalation[closer]
    /\ UNCHANGED <<streamVars, kind, peer, ready, callers>>

(* The TLS socket's "close", or else the timer and destroy() *)
TlsCloseEnds ==
    /\ kind = "tls" /\ closer = "graceful" /\ closer' = "returned"
    /\ peer' = IF Gone THEN peer ELSE "over"
    /\ UNCHANGED <<streamVars, kind, ready, callers>>

TransportNext ==
    \/ kind = "stream" /\ Next /\ UNCHANGED transportVars
    \/ StreamEvent \/ Read
    \/ Connected \/ ConnectFails
    \/ SecureConnect \/ HandshakeError \/ HandshakeTimer
    \/ ChildExits \/ ChildClosed \/ SocketLost \/ SocketClosed
    \/ OwnerCloses \/ FramingCloses \/ waitForExit \/ TlsCloseEnds

allVars == <<streamVars, transportVars>>

(* Timers fire, microtasks run, and a destroyed socket emits "close".       *)
(* Nothing is assumed of the child, of the network or of the callers.       *)
TransportSpec ==
    /\ TransportInit /\ [][TransportNext]_allVars
    /\ WF_allVars(waitForExit) /\ WF_allVars(TlsCloseEnds) /\ WF_allVars(HandshakeTimer)
    /\ WF_allVars(FramingCloses) /\ WF_allVars(SocketClosed)

-----------------------------------------------------------------------------
(* close() ends whatever the peer does, for every caller and after a        *)
(* framing failure too; it returns only when the process has exited or the  *)
(* socket is destroyed, and it then releases every pending next().  A TLS   *)
(* connection is decided in bounded time, and one that is refused leaves no *)
(* open socket.                                                            *)
CloseReleasesPeer ==
    /\ [](closer = "returned" => Gone /\ (kind = "child" => peer = "closed"))
    /\ (kind # "stream" /\ (callers # {} \/ onFatal)) ~> (closer \in {"returned", "threw"})
    /\ (closer = "returned") ~> [](waiters = <<>>)
    /\ (kind = "tls") ~> (ready # "pending")
    /\ [](ready = "rejected" => Gone)
============================================================================
