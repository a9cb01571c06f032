----------------------------- MODULE Connection -----------------------------
(***************************************************************************)
(* The request/reply client of src/connection.ts: many concurrent callers, *)
(* one line stream.  Every call goes through op(), which chains it behind  *)
(* the previous one, so that an exchange (send a line, read a line) never  *)
(* overlaps another.  close() may come at any moment, and so may the end   *)
(* of the stream.                                                          *)
(*                                                                         *)
(* A step is what the event loop runs without an await.  The mirror and    *)
(* the socket are external: the mirror answers each request at most once,  *)
(* in order, with any kind of line, or closes the stream.                  *)
(***************************************************************************)
EXTENDS LineIterator

CONSTANT
    None            \* no call

VARIABLES
    mode,           \* "stdio" or "network"
    closed,         \* Connection.closed
    flowConsumed,   \* Connection.flowConsumed
    queue,          \* the promise chain: calls accepted by op(), unsettled
    kind,           \* kind[o]: which method was called
    pc,             \* pc[o]: how far the call is
    outcome,        \* outcome[o]: what the call settled with
    requests,       \* requests sent that the mirror has not answered
    transport       \* "open", "closing" (close() called), "closed" (it
                    \* returned) or "unconfirmed" (it threw)

ASSUME NoneIsNoCall == None \notin Readers

(* The calls made on this connection; each reads at most one line. *)
Ops == Readers

connVars == <<mode, closed, flowConsumed, queue, kind, pc, outcome>>
wireVars == <<requests, transport>>
vars == <<iteratorVars, connVars, wireVars>>

-----------------------------------------------------------------------------
(* Types *)

(* "job" stands for queryJob, awaitJob and cancelJob, which take the same   *)
(* replies the same way.                                                   *)
Kinds == {"validate", "submit", "job", "ping"}

(* The mirror's messages by what a Connection method tells apart:          *)
(* "job_known" is a job_result or the job_status of a live job,            *)
(* "job_unknown" the job_status of an id the mirror does not have, and     *)
(* "undecodable" a line that decodeMirrorMessage rejects.                  *)
Replies == {"spec_validated", "job_accepted", "job_known", "job_unknown",
            "register_error", "protocol_error", "undecodable"}

Lines == [to : Ops, reply : Replies]

Results == Replies \cup {"none", "not_live", "RangeError", "ConnectionClosed",
                         "AsyncOnStdio", "ProtocolFailure", "IteratorError"}

(* Every variable keeps to its type. *)
TypeOK ==
    /\ buffer \in Seq(Lines)
    /\ waiters \in Seq(Ops)
    /\ ended \in BOOLEAN /\ failure \in BOOLEAN
    /\ got \in [Ops -> NextResults(Lines)]
    /\ mode \in {"stdio", "network"}
    /\ closed \in BOOLEAN /\ flowConsumed \in BOOLEAN
    /\ queue \in Seq(Ops)
    /\ kind \in [Ops -> Kinds \cup {None}]
    /\ pc \in [Ops -> {"idle", "queued", "waiting", "closing", "settled"}]
    /\ outcome \in [Ops -> Results]
    /\ requests \in Seq(Ops)
    /\ transport \in {"open", "closing", "closed", "unconfirmed"}

Init ==
    /\ IteratorInit
    /\ mode \in {"stdio", "network"}
    /\ closed = FALSE /\ flowConsumed = FALSE
    /\ queue = <<>>
    /\ kind = [o \in Ops |-> None]
    /\ pc = [o \in Ops |-> "idle"]
    /\ outcome = [o \in Ops |-> "none"]
    /\ requests = <<>>
    /\ transport = "open"

-----------------------------------------------------------------------------
(* Calling a method *)

(* ping() answers false at once on a connection it cannot use. *)
PingUnusable(k) == k = "ping" /\ (mode = "stdio" \/ closed \/ flowConsumed)

(* A call that settles when it is made, never joining the chain. *)
Reject(o, k, result) ==
    /\ kind' = [kind EXCEPT ![o] = k]
    /\ pc' = [pc EXCEPT ![o] = "settled"]
    /\ outcome' = [outcome EXCEPT ![o] = result]
    /\ UNCHANGED <<iteratorVars, wireVars, mode, closed, flowConsumed, queue>>

(* assertValidateBound: thrown before op(). *)
BoundOutOfRange(o) ==
    /\ pc[o] = "idle"
    /\ \E k \in {"validate", "submit"} : Reject(o, k, "RangeError")

(* op(): rejected when closed, chained behind the previous call otherwise. *)
op(o, k) ==
    /\ pc[o] = "idle"
    /\ \/ /\ PingUnusable(k)
          /\ Reject(o, k, "not_live")
       \/ /\ ~PingUnusable(k) /\ closed
          /\ Reject(o, k, "ConnectionClosed")
       \/ /\ ~PingUnusable(k) /\ ~closed
          /\ queue' = Append(queue, o)
          /\ kind' = [kind EXCEPT ![o] = k]
          /\ pc' = [pc EXCEPT ![o] = "queued"]
          /\ UNCHANGED <<iteratorVars, wireVars, mode, closed, flowConsumed,
                         outcome>>

-----------------------------------------------------------------------------
(* Settling a call: its promise settles, and the next one in the chain     *)
(* may start.  ping() turns every error into false.                        *)

(* Variant with a bug: settling a call resets the chain. *)
Settle_DropsQueue(o, result) ==
    /\ queue' = <<>>
    /\ pc' = [pc EXCEPT ![o] = "settled"]
    /\ outcome' = [outcome EXCEPT ![o] = result]

Settle(o, result) ==
    /\ queue' = Tail(queue)
    /\ pc' = [pc EXCEPT ![o] = "settled"]
    /\ outcome' = [outcome EXCEPT ![o] =
                     IF kind[o] = "ping" /\ result # "job_unknown"
                     THEN "not_live" ELSE result]

(* Connection.close() as called inside the class. *)
CloseTransport ==
    /\ closed' = TRUE
    /\ transport' = IF ~closed /\ transport = "open" THEN "closing" ELSE transport

(* poisonAndThrow: the connection is spent; unless someone closed it       *)
(* before, the call waits for the transport's close() before it throws.    *)
poisonAndThrow(o) ==
    /\ flowConsumed' = TRUE
    /\ CloseTransport
    /\ \/ /\ closed
          /\ Settle(o, "ProtocolFailure")
       \/ /\ ~closed
          /\ pc' = [pc EXCEPT ![o] = "closing"]
          /\ UNCHANGED <<queue, outcome>>

(* transport.close() has settled, either way: the poisoned call throws. *)
PoisonThrows(o) ==
    /\ pc[o] = "closing"
    /\ transport \in {"closed", "unconfirmed"}
    /\ Settle(o, "ProtocolFailure")
    /\ UNCHANGED <<iteratorVars, wireVars, mode, closed, flowConsumed, kind>>

-----------------------------------------------------------------------------
(* The call's turn: assertions, then send and next() in one step. *)

(* Variant with a bug: a poisoned or validated connection counts as open. *)
assertFlowOpen_OnlyClosed == ~closed

assertFlowOpen == ~closed /\ ~flowConsumed

assertAsyncAllowed(o) == kind[o] = "validate" \/ mode # "stdio"

(* send() throws on a line validateProtocolLine refuses: nothing goes out, *)
(* and the exchange fails like any other.  After the stream has ended the  *)
(* bytes of a send reach nobody.                                           *)
send(o) ==
    requests' = IF ended THEN requests ELSE Append(requests, o)

TurnRefused(o) ==
    /\ \/ ~assertFlowOpen /\ Settle(o, "ConnectionClosed")
       \/ assertFlowOpen /\ ~assertAsyncAllowed(o) /\ Settle(o, "AsyncOnStdio")
    /\ UNCHANGED <<iteratorVars, wireVars, mode, closed, flowConsumed, kind>>

TurnSends(o) ==
    /\ assertFlowOpen /\ assertAsyncAllowed(o)
    /\ send(o)
    /\ pull(o)
    /\ pc' = [pc EXCEPT ![o] = "waiting"]
    /\ UNCHANGED <<transport, mode, closed, flowConsumed, queue, kind, outcome>>

TurnLineRefused(o) ==
    /\ assertFlowOpen /\ assertAsyncAllowed(o)
    /\ poisonAndThrow(o)
    /\ UNCHANGED <<iteratorVars, requests, mode, kind>>

(* Variant with a bug: a call does not wait for the previous one. *)
Turn_Unchained(o) ==
    /\ pc[o] = "queued"
    /\ TurnRefused(o) \/ TurnSends(o) \/ TurnLineRefused(o)

Turn(o) ==
    /\ pc[o] = "queued"
    /\ queue # <<>> /\ o = Head(queue)
    /\ TurnRefused(o) \/ TurnSends(o) \/ TurnLineRefused(o)

-----------------------------------------------------------------------------
(* The reply, or its absence *)

Accepted(k) ==
    CASE k = "validate" -> {"spec_validated"}
      [] k = "submit"   -> {"job_accepted"}
      [] OTHER          -> {"job_known", "job_unknown"}

(* The method's switch on a decoded reply.  register_error (a full job     *)
(* queue included) fails the call and leaves the connection usable;        *)
(* validate() spends the connection whatever the reply is.                 *)
DispatchReply(o, reply) ==
    \/ /\ reply \in Accepted(kind[o]) \cup {"register_error"}
       /\ Settle(o, reply)
       /\ flowConsumed' = (flowConsumed \/ kind[o] = "validate")
       /\ UNCHANGED <<closed, transport>>
    \/ /\ reply \notin Accepted(kind[o]) \cup {"register_error"}
       /\ poisonAndThrow(o)

(* next() settled: roundTrip continues. *)
Resume(o) ==
    /\ pc[o] = "waiting"
    /\ got[o] # NoResult
    /\ LET r == got[o]
           broken == \/ r.tag = "rejected"
                     \/ r.tag = "line" /\ r.line.reply = "undecodable"
       IN  \/ r.tag = "done" /\ poisonAndThrow(o)
           \/ broken /\ ~closed /\ poisonAndThrow(o)
           \/ /\ broken /\ closed
              /\ Settle(o, "IteratorError")
              /\ UNCHANGED <<closed, flowConsumed, transport>>
           \/ r.tag = "line" /\ ~broken /\ DispatchReply(o, r.line.reply)
    /\ UNCHANGED <<iteratorVars, requests, mode, kind>>

(* close() by the owner of the connection; a second call does nothing. *)
close ==
    /\ ~closed
    /\ CloseTransport
    /\ UNCHANGED <<iteratorVars, requests, mode, flowConsumed, queue, kind, pc,
                   outcome>>

-----------------------------------------------------------------------------
(* The mirror and the socket *)

(* The mirror answers the oldest request; the line reaches the iterator. *)
MirrorAnswers(reply) ==
    /\ requests # <<>> /\ ~ended
    /\ requests' = Tail(requests)
    /\ emit([to |-> Head(requests), reply |-> reply])
    /\ UNCHANGED <<connVars, transport>>

(* end, close or error of the stream, from either side. *)
StreamEnds ==
    /\ ~ended
    /\ finish
    /\ UNCHANGED <<connVars, wireVars>>

(* A framing violation rejects the iterator and closes the transport. *)
FramingFails ==
    /\ ~ended
    /\ fail
    /\ transport' = IF transport = "open" THEN "closing" ELSE transport
    /\ UNCHANGED <<connVars, requests>>

(* The transport's close() settles.  A child that is not seen to exit,     *)
(* after SIGKILL even, makes it throw: another process may hold its stdout *)
(* open, and then nothing ends the stream.                                 *)
TransportCloses ==
    /\ transport = "closing"
    /\ transport' \in {"closed", "unconfirmed"}
    /\ UNCHANGED <<iteratorVars, connVars, requests>>

Next ==
    \/ close
    \/ StreamEnds
    \/ FramingFails
    \/ TransportCloses
    \/ \E r \in Replies : MirrorAnswers(r)
    \/ \E o \in Ops : \/ BoundOutOfRange(o)
                      \/ \E k \in Kinds : op(o, k)
                      \/ Turn(o)
                      \/ Resume(o)
                      \/ PoisonThrows(o)

Spec == Init /\ [][Next]_vars

(* The event loop runs every callback that is due, and a transport whose   *)
(* close() returned ends its stream: a socket is destroyed, a child has    *)
(* emitted "close".  A close() that threw promises nothing of the stream,  *)
(* and nothing makes a mirror answer.                                      *)
Fairness ==
    /\ \A o \in Ops : WF_vars(Turn(o)) /\ WF_vars(Resume(o))
                      /\ WF_vars(PoisonThrows(o))
    /\ WF_vars(TransportCloses)
    /\ WF_vars(transport = "closed" /\ StreamEnds)

FairSpec == Spec /\ Fairness

-----------------------------------------------------------------------------
(* Properties *)

(* A call only ever reads the reply to its own request, however many calls *)
(* are made at once and whenever replies, ends and closes arrive.          *)
RepliesPaired ==
    \A o \in Ops : got[o].tag = "line" => got[o].line.to = o

(* "concurrent operations must never interleave their request/reply pairs" *)
(* (op()): at any time at most one request or unread reply is in flight,   *)
(* and at most one call waits for a line.                                  *)
LockStep ==
    /\ Len(requests) + Len(buffer) <= 1
    /\ Len(waiters) <= 1
    /\ \A o, p \in Ops : pc[o] = "waiting" /\ pc[p] = "waiting" => o = p

(* A validate that got any reply, or a call that failed the protocol, was  *)
(* the last exchange: calls already chained behind it send nothing more.   *)
FlowEnded ==
    \E o \in Ops : /\ pc[o] = "settled"
                   /\ \/ kind[o] = "validate" /\ got[o].tag = "line"
                      \/ outcome[o] = "ProtocolFailure"

SpentConnectionIsSilent ==
    [][FlowEnded => Len(requests') <= Len(requests)]_vars

(* The transport's close() threw and its stream is still up: the call that *)
(* waits for a line may wait for ever, and those chained behind it.        *)
HeldByStream ==
    /\ transport = "unconfirmed" /\ ~ended
    /\ queue # <<>> /\ pc[Head(queue)] = "waiting"

(* After close(), or a failure that closes, every call accepted before     *)
(* settles, except behind a call whose reply a stream that outlived the    *)
(* transport's close() still owes; those settle when that stream ends.     *)
CloseReleasesCallers ==
    /\ closed ~> (queue = <<>> \/ HeldByStream)
    /\ (closed /\ ended) ~> queue = <<>>

(* close(): "In-flight operations surface the closure rather than          *)
(* hanging": every call accepted before the close settles.                 *)
CloseSurfaces == closed ~> queue = <<>>

(* The connection is a serial exchange. *)
OnWire == {o \in Ops : pc[o] \in {"waiting", "closing"}}

Current == IF OnWire = {} THEN None ELSE CHOOSE o \in OnWire : TRUE
Settled == {o \in Ops : pc[o] = "settled"}
Spent == closed \/ flowConsumed

Abstract == INSTANCE SerialExchange WITH
    Calls <- Ops, line <- queue, current <- Current, settled <- Settled,
    spent <- Spent

(* Calls are served one at a time, in the order accepted, each settles     *)
(* once, and none starts an exchange on a spent connection.                *)
IsSerialExchange == Abstract!Spec
=============================================================================
