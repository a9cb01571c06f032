--------------------------- MODULE ExploreSession ---------------------------
(***************************************************************************)
(* The interactive exploration session of src/client.ts.  Unlike           *)
(* Connection it has no queue: a command writes its request and asks the   *)
(* line iterator for the reply in one step, so commands made at once are   *)
(* pipelined and the iterator's waiters pair them with the replies.        *)
(*                                                                         *)
(* open() registers the session; it is the reader Opener.                  *)
(***************************************************************************)
EXTENDS LineIterator

CONSTANT Opener     \* the next() call of open()

ASSUME OpenerReads == Opener \in Readers

Calls == Readers \ {Opener}

VARIABLES
    opened,     \* how far open() is: "resolving" (the transport), then
                \* "registering", then "open", or "failing" and "failed"
    closed,     \* ExploreSession.closed
    method,     \* method[c]: "cmd" (any exploration command) or "done"
    pc,         \* pc[c]: how far call c is
    outcome,    \* outcome[c]: what the call settled with
    requests,   \* requests the mirror has not answered, oldest first
    transport   \* "open", "closing" (close() called), "closed" (it
                \* returned) or "unconfirmed" (it threw)

sessionVars == <<opened, closed, method, pc, outcome>>
wireVars == <<requests, transport>>
exploreVars == <<iteratorVars, sessionVars, wireVars>>

(* "right" is the reply the caller expects, "wrong" any other message,     *)
(* protocol_error and undecodable lines included: the caller treats them   *)
(* alike.                                                                  *)
Replies == {"right", "wrong"}
Lines == [to : Readers, reply : Replies]

(* Every variable keeps to its type. *)
SessionTypeOK ==
    /\ buffer \in Seq(Lines) /\ waiters \in Seq(Readers)
    /\ ended \in BOOLEAN /\ failure \in BOOLEAN
    /\ got \in [Readers -> NextResults(Lines)]
    /\ opened \in {"resolving", "registering", "open", "failing", "failed"}
    /\ closed \in BOOLEAN
    /\ method \in [Calls -> {"none", "cmd", "done"}]
    /\ pc \in [Calls -> {"idle", "waiting", "aborting", "ending", "settled"}]
    /\ outcome \in [Calls -> {"none", "ok", "error", "closed", "unsent"}]
    /\ requests \in Seq(Readers)
    /\ transport \in {"open", "closing", "closed", "unconfirmed"}

SessionInit ==
    /\ IteratorInit
    /\ opened = "resolving"
    /\ closed = FALSE
    /\ method = [c \in Calls |-> "none"]
    /\ pc = [c \in Calls |-> "idle"]
    /\ outcome = [c \in Calls |-> "none"]
    /\ requests = <<>>
    /\ transport = "open"

StartClosing == transport' = IF transport = "open" THEN "closing" ELSE transport

(* transport.close() has settled: it returned, or it threw. *)
CloseSettled == transport \in {"closed", "unconfirmed"}

-----------------------------------------------------------------------------
(* open(): a transport that does not get ready, a registration that send()  *)
(* refuses and any reply but explorer_ready close the transport, and only  *)
(* then does open() throw.                                                 *)

NotOpened == opened = "resolving" /\ opened' = "failing" /\ StartClosing
             /\ UNCHANGED <<iteratorVars, requests>>

(* The transport is ready: send and next() without an await between them. *)
Register ==
    /\ opened = "resolving" /\ opened' = "registering"
    /\ requests' = IF ended THEN requests ELSE Append(requests, Opener)
    /\ pull(Opener)
    /\ UNCHANGED transport

Ready ==
    /\ got[Opener].tag = "line" /\ got[Opener].line.reply = "right"
    /\ opened' = "open"
    /\ UNCHANGED transport

NotReady ==
    /\ got[Opener] # NoResult
    /\ ~(got[Opener].tag = "line" /\ got[Opener].line.reply = "right")
    /\ opened' = "failing"
    /\ StartClosing

OpenThrows ==
    /\ opened = "failing" /\ CloseSettled
    /\ opened' = "failed"
    /\ UNCHANGED transport

open ==
    /\ \/ NotOpened
       \/ Register
       \/ /\ opened = "registering" /\ (Ready \/ NotReady)
          /\ UNCHANGED <<iteratorVars, requests>>
       \/ OpenThrows /\ UNCHANGED <<iteratorVars, requests>>
    /\ UNCHANGED <<closed, method, pc, outcome>>

-----------------------------------------------------------------------------
(* Calls *)

SettleCall(c, result) ==
    /\ pc' = [pc EXCEPT ![c] = "settled"]
    /\ outcome' = [outcome EXCEPT ![c] = result]

(* A command on a closed session throws; done() returns. *)
CallOnClosed(c, m) ==
    /\ opened = "open" /\ closed /\ pc[c] = "idle"
    /\ method' = [method EXCEPT ![c] = m]
    /\ SettleCall(c, IF m = "done" THEN "ok" ELSE "closed")
    /\ UNCHANGED <<iteratorVars, opened, closed, wireVars>>

(* send() refuses the line: the session stays as it was. *)
CallUnsent(c) ==
    /\ opened = "open" /\ ~closed /\ pc[c] = "idle"
    /\ method' = [method EXCEPT ![c] = "cmd"]
    /\ SettleCall(c, "unsent")
    /\ UNCHANGED <<iteratorVars, opened, closed, wireVars>>

(* cmd(): send and next() without an await between them. *)
cmd(c, m) ==
    /\ opened = "open" /\ ~closed /\ pc[c] = "idle"
    /\ method' = [method EXCEPT ![c] = m]
    /\ pc' = [pc EXCEPT ![c] = "waiting"]
    /\ requests' = IF ended THEN requests ELSE Append(requests, c)
    /\ pull(c)
    /\ UNCHANGED <<opened, closed, outcome, transport>>

(* The expected reply: a command returns it, done() closes the session.    *)
ReplyRight(c) ==
    /\ got[c].tag = "line" /\ got[c].line.reply = "right"
    /\ \/ /\ method[c] = "cmd"
          /\ SettleCall(c, "ok")
          /\ UNCHANGED <<closed, transport>>
       \/ /\ method[c] = "done"
          /\ closed' = TRUE
          /\ StartClosing
          /\ pc' = [pc EXCEPT ![c] = "ending"]
          /\ UNCHANGED outcome

(* abort(): only the first failure closes, and waits for the transport. *)
abort(c) ==
    \/ /\ closed
       /\ SettleCall(c, "error")
       /\ UNCHANGED <<closed, transport>>
    \/ /\ ~closed
       /\ closed' = TRUE
       /\ StartClosing
       /\ pc' = [pc EXCEPT ![c] = "aborting"]
       /\ UNCHANGED outcome

ReplyWrong(c) ==
    /\ got[c] # NoResult
    /\ ~(got[c].tag = "line" /\ got[c].line.reply = "right")
    /\ abort(c)

Resume(c) ==
    /\ pc[c] = "waiting"
    /\ ReplyRight(c) \/ ReplyWrong(c)
    /\ UNCHANGED <<iteratorVars, opened, method, requests>>

(* The call that closed the transport: done() returns, unless close()      *)
(* threw; a failed command throws either way.                              *)
Leave(c) ==
    /\ pc[c] \in {"aborting", "ending"}
    /\ CloseSettled
    /\ SettleCall(c, IF pc[c] = "ending" /\ transport = "closed" THEN "ok" ELSE "error")
    /\ UNCHANGED <<iteratorVars, opened, closed, method, wireVars>>

-----------------------------------------------------------------------------
(* The mirror and the socket *)

MirrorAnswers(reply) ==
    /\ requests # <<>> /\ ~ended
    /\ requests' = Tail(requests)
    /\ emit([to |-> Head(requests), reply |-> reply])
    /\ UNCHANGED <<sessionVars, transport>>

StreamEnds ==
    /\ ~ended
    /\ finish
    /\ UNCHANGED <<sessionVars, wireVars>>

FramingFails ==
    /\ ~ended
    /\ fail
    /\ StartClosing
    /\ UNCHANGED <<sessionVars, requests>>

(* close() returns, or throws when a child is not seen to exit. *)
TransportCloses ==
    /\ transport = "closing"
    /\ transport' \in {"closed", "unconfirmed"}
    /\ UNCHANGED <<iteratorVars, sessionVars, requests>>

SessionNext ==
    \/ open
    \/ \E r \in Replies : MirrorAnswers(r)
    \/ StreamEnds
    \/ FramingFails
    \/ TransportCloses
    \/ \E c \in Calls : \/ \E m \in {"cmd", "done"} : CallOnClosed(c, m) \/ cmd(c, m)
                        \/ CallUnsent(c)
                        \/ Resume(c)
                        \/ Leave(c)

SessionSpec == SessionInit /\ [][SessionNext]_exploreVars

(* Callbacks that are due run, and a transport whose close() returned ends  *)
(* its stream; one whose close() threw may keep it up for ever, and nothing *)
(* makes a transport get ready.                                            *)
Fairness ==
    /\ WF_exploreVars(opened # "resolving" /\ open)
    /\ \A c \in Calls : WF_exploreVars(Resume(c)) /\ WF_exploreVars(Leave(c))
    /\ WF_exploreVars(TransportCloses)
    /\ WF_exploreVars(transport = "closed" /\ StreamEnds)

FairSpec == SessionSpec /\ Fairness

-----------------------------------------------------------------------------
(* Properties *)

(* Pipelined commands: each reads the reply to its own request, so a       *)
(* caller never acts on the state, status or step of another command.      *)
CommandsPaired == \A r \in Readers : got[r].tag = "line" => got[r].line.to = r

(* The reply is owed by a stream that outlived the transport's close(). *)
HeldByStream(c) ==
    pc[c] = "waiting" /\ got[c] = NoResult /\ transport = "unconfirmed" /\ ~ended

(* One command's bad reply ends the session for the commands pipelined     *)
(* behind it: all of them settle, but for those that a stream the          *)
(* transport could not end still holds, until it ends.                     *)
ClosedSessionDrains ==
    /\ closed ~> \A c \in Calls : pc[c] \in {"idle", "settled"} \/ HeldByStream(c)
    /\ (closed /\ ended) ~> \A c \in Calls : pc[c] \in {"idle", "settled"}

(* A failed exchange never leaks the transport: by the time a call throws, *)
(* the session is closed and the transport's close() has been called; by   *)
(* the time open() throws, it has settled.                                 *)
FailureClosesTransport ==
    /\ opened = "failed" => CloseSettled
    /\ \A c \in Calls : outcome[c] = "error" => closed /\ transport # "open"

(* done(): "Idempotent: calling done() twice is a no-op": once a done()    *)
(* has ended the session with the mirror's explore_done answer, no other   *)
(* done() of the session fails.                                            *)
EndedSession(c) ==
    method[c] = "done" /\ outcome[c] = "ok" /\ got[c].tag = "line"

DoneIsIdempotent ==
    \A c, d \in Calls :
        EndedSession(c) /\ method[d] = "done" => outcome[d] # "error"
=============================================================================
