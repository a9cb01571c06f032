---------------------------- MODULE AuthorBroker ----------------------------
(***************************************************************************)
(* The authoring experiment of experiments/blind-counter: an author works  *)
(* through the MCP shim (author-host/mcp_gate.py), which opens one         *)
(* connection per call to the evaluator's broker (AuthorBroker in          *)
(* evaluator.mjs).  The broker runs the author's commands one at a time in *)
(* the Gate session and keeps a transcript.  When the author submits, the  *)
(* evaluator lets the queued commands end, hashes the source, has Gate     *)
(* prepare it, checks that authoring is sealed, replays the model and      *)
(* writes its evidence.                                                    *)
(*                                                                         *)
(* Gate, its sandbox and the replay behind evaluateSandboxed are external: *)
(* they answer in every way the evaluator distinguishes.  A file is its    *)
(* version; a command, or somebody on the host, makes the next version.    *)
(***************************************************************************)
EXTENDS Naturals, Sequences, FiniteSets, FiniteSetsExt

CONSTANTS
    MaxCalls,     \* calls the author makes (bound)
    MaxRestarts,  \* how often the shim is started again (bound)
    MaxFiles,     \* files a command may write (bound)
    MaxVersion,   \* versions a file may have (bound)
    Sends,        \* what the clients send: some of Ops and Frames
    GateErrors    \* the codes session.exec fails with

ASSUME BrokerAssumption ==
    /\ MaxCalls \in Nat /\ MaxRestarts \in Nat
    /\ MaxFiles \in Nat /\ MaxVersion \in Nat

VARIABLES
    shim,         \* [at, counter, restarts]: the call it waits for, its last id
    used,         \* calls made so far
    conn,         \* conn[n]: the connection of call n
    heard,        \* heard[n]: what the shim told the author of call n
    seenIds,      \* request ids the broker has taken
    submitted,    \* the broker has accepted a submission
    execQueue,    \* commands not settled, the first one running
    transcript,   \* the broker's records
    submitPromise,\* pending, resolved or rejected by the deadline
    tree,         \* tree[f]: version of file f, 0 when there is none
    hashing,      \* treeIdentity under way
    run           \* the evaluator's main()

shimVars   == <<shim, used, heard>>
brokerVars == <<conn, seenIds, submitted, execQueue, transcript, submitPromise>>
sourceVars == <<tree, hashing>>
authorVars       == <<shimVars, brokerVars, sourceVars, run>>

Calls == 1..MaxCalls
Files == 1..MaxFiles
EmptyTree == [f \in Files |-> 0]

(* What a client sends: a line that is a request, "unapproved" being one that *)
(* validate refuses after it took the id, or bytes that are none.             *)
Ops    == {"contract", "exec", "submit", "unapproved"}
Frames == {"partial", "oversize", "malformed"}

Ok(id)      == [id |-> id, ok |-> TRUE, error |-> "none"]
Err(id, e)  == [id |-> id, ok |-> FALSE, error |-> e]
NoResponse  == [id |-> 0, ok |-> FALSE, error |-> "none"]
RequestFailed      == [id |-> 0, ok |-> FALSE, error |-> "request_failed"]

(* The public category of a failed command. *)
safeError(code) ==
    CASE code = "STATE_INVALID"     -> "authoring_sealed"
      [] code = "POLICY_DENIED"     -> "tool_not_approved"
      [] code = "LIMIT_EXCEEDED"    -> "tool_limit_exceeded"
      [] code = "DEADLINE_EXCEEDED" -> "tool_deadline_exceeded"
      [] OTHER                      -> "tool_execution_failed"

Unused == [at |-> "unused", request |-> [id |-> 1, op |-> "contract"],
           sent |-> NoResponse, peer |-> FALSE]
NotHashing == [todo |-> {}, stat |-> 0, at |-> "idle", read |-> EmptyTree]

(* run.pc follows main(), author() and run() in their order. *)
FreshRun ==
    [pc |-> "setup", guard |-> FALSE, clean |-> FALSE, after |-> EmptyTree, hashed |-> FALSE,
     prepared |-> EmptyTree, frozen |-> FALSE, build |-> FALSE, sealed |-> FALSE,
     seal |-> "none", status |-> "none", cleanup |-> "none",
     evidence |-> <<>>, wrote |-> FALSE, accepted |-> FALSE]

BrokerInit ==
    /\ shim = [at |-> 0, counter |-> 0, restarts |-> 0]
    /\ used = 0
    /\ conn = [n \in Calls |-> Unused]
    /\ heard = [n \in Calls |-> NoResponse]
    /\ seenIds = {}
    /\ submitted = FALSE
    /\ execQueue = <<>>
    /\ transcript = <<>>
    /\ submitPromise = "pending"
    /\ tree \in {EmptyTree, [f \in Files |-> 1]}
    /\ hashing = NotHashing
    /\ run = FreshRun

-----------------------------------------------------------------------------
(* The shim: one call of the author at a time, each on its own connection. *)

Listening == run.pc \in {"awaitSubmit", "awaitQueue"}

(* A tools/call: the id is taken, then the arguments are judged, then the    *)
(* broker is asked.  A call refused by the shim, or made while nobody        *)
(* listens, is answered "authoring request failed".                          *)
ShimCalls(op) ==
    /\ shim.at = 0 /\ used < MaxCalls
    /\ used' = used + 1
    /\ \/ /\ Listening
          /\ shim' = [shim EXCEPT !.at = used', !.counter = @ + 1]
          /\ conn' = [conn EXCEPT ![used'] =
                        [at |-> "connected", sent |-> NoResponse, peer |-> TRUE,
                         request |-> [id |-> shim.counter + 1, op |-> op]]]
          /\ UNCHANGED heard
       \/ /\ shim' = [shim EXCEPT !.counter = @ + 1]
          /\ heard' = [heard EXCEPT ![used'] = RequestFailed]
          /\ UNCHANGED conn
    /\ UNCHANGED <<seenIds, submitted, execQueue, transcript, submitPromise, sourceVars, run>>

(* The response line is read; one with another id is not passed on. *)
ShimHears ==
    /\ shim.at # 0
    /\ LET n == shim.at
           response == conn[n].sent
       IN  /\ response # NoResponse
           /\ heard' = [heard EXCEPT ![n] = IF response.id = conn[n].request.id
                                            THEN response ELSE RequestFailed]
           /\ conn' = [conn EXCEPT ![n].peer = FALSE]
    /\ shim' = [shim EXCEPT !.at = 0]
    /\ UNCHANGED <<used, seenIds, submitted, execQueue, transcript, submitPromise,
                   sourceVars, run>>

(* connection.settimeout(90): the shim leaves the connection. *)
ShimTimesOut ==
    /\ shim.at # 0 /\ conn[shim.at].sent = NoResponse
    /\ heard' = [heard EXCEPT ![shim.at] = RequestFailed]
    /\ conn' = [conn EXCEPT ![shim.at].peer = FALSE]
    /\ shim' = [shim EXCEPT !.at = 0]
    /\ UNCHANGED <<used, seenIds, submitted, execQueue, transcript, submitPromise,
                   sourceVars, run>>

(* The host starts the shim again: its counter begins at 0 once more. *)
ShimRestarts ==
    /\ shim.restarts < MaxRestarts
    /\ shim' = [at |-> 0, counter |-> 0, restarts |-> shim.restarts + 1]
    /\ conn' = IF shim.at = 0 THEN conn ELSE [conn EXCEPT ![shim.at].peer = FALSE]
    /\ UNCHANGED <<used, heard, seenIds, submitted, execQueue, transcript, submitPromise,
                   sourceVars, run>>

-----------------------------------------------------------------------------
(* The broker. *)

(* answer: the first response of a connection is the one that is sent. *)
answer(c, response) ==
    IF c.sent = NoResponse THEN [c EXCEPT !.sent = response] ELSE c

(* Variant with a bug: the id of a refused request is free again. *)
validate_FreesIds(request) ==
    /\ UNCHANGED seenIds
    /\ request.id \notin seenIds

(* The id is taken even when the rest of the request is refused. *)
validate(request) ==
    /\ seenIds' = seenIds \cup {request.id}
    /\ request.id \notin seenIds

Record(n, response) == [call |-> n, id |-> conn[n].request.id, op |-> conn[n].request.op,
                        response |-> response]

(* What dispatch answers at once a request whose id is new. *)
Verdict(request) ==
    CASE request.op = "unapproved" -> Err(request.id, "tool_not_approved")
      [] request.op \in {"exec", "submit"} /\ submitted -> Err(request.id, "authoring_sealed")
      [] OTHER -> Ok(request.id)

(* The request is answered and recorded in the step that takes it. *)
Settle(n, response) ==
    /\ transcript' = Append(transcript, Record(n, response))
    /\ conn' = [conn EXCEPT ![n] = answer([@ EXCEPT !.at = "dispatched"], response)]

(* A command joins the queue; every other request is settled at once.  The   *)
(* promise a submission resolves may have been rejected by the deadline.     *)
dispatch(n) ==
    LET request == conn[n].request
    IN  \/ /\ request.id \in seenIds
           /\ Settle(n, Err(request.id, "invalid_request"))
           /\ UNCHANGED <<seenIds, submitted, execQueue, submitPromise>>
        \/ /\ validate(request)
           /\ \/ /\ request.op = "exec" /\ ~submitted
                 /\ execQueue' = Append(execQueue, n)
                 /\ conn' = [conn EXCEPT ![n].at = "dispatched"]
                 /\ UNCHANGED <<submitted, submitPromise, transcript>>
              \/ /\ ~(request.op = "exec" /\ ~submitted)
                 /\ Settle(n, Verdict(request))
                 /\ submitted' = (submitted \/ request.op = "submit")
                 /\ submitPromise' = IF request.op = "submit" /\ submitPromise = "pending"
                                     THEN "resolved" ELSE submitPromise
                 /\ UNCHANGED execQueue

(* "data": a frame too long or not one line of JSON is answered at once and   *)
(* reaches neither dispatch nor the transcript.  A partial frame stays        *)
(* buffered.                                                                  *)
BrokerReads(n) ==
    /\ conn[n].at = "connected"
    /\ \/ /\ conn[n].request.op \in {"oversize", "malformed"}
          /\ LET code == IF conn[n].request.op = "oversize"
                         THEN "request_limit_exceeded" ELSE "invalid_request"
             IN  conn' = [conn EXCEPT ![n] = answer([@ EXCEPT !.at = "refused"], Err(0, code))]
          /\ UNCHANGED <<seenIds, submitted, execQueue, transcript, submitPromise>>
       \/ /\ conn[n].request.op \in Ops
          /\ dispatch(n)
    /\ UNCHANGED <<shimVars, sourceVars, run>>

(* "end": the client has left.  What it asked goes on. *)
BrokerEnds(n) ==
    /\ ~conn[n].peer
    /\ \/ conn[n].at \in {"dispatched", "refused"}
       \/ conn[n].at = "connected" /\ conn[n].request.op = "partial"
    /\ conn' = [conn EXCEPT ![n] = answer([@ EXCEPT !.at = "closed"], Err(0, "invalid_request"))]
    /\ UNCHANGED <<shimVars, seenIds, submitted, execQueue, transcript, submitPromise,
                   sourceVars, run>>

(* The running command writes a file. *)
ExecWrites(f) ==
    /\ execQueue # <<>> /\ tree[f] < MaxVersion
    /\ tree' = [tree EXCEPT ![f] = @ + 1]
    /\ UNCHANGED <<shimVars, brokerVars, hashing, run>>

(* session.exec settles: the record is made and the answer given, and the     *)
(* next command starts.  A response too long is replaced in the answer only.  *)
ExecSettles(outcome) ==
    /\ execQueue # <<>>
    /\ LET n  == Head(execQueue)
           id == conn[n].request.id
           response == IF outcome \in {"ok", "large"} THEN Ok(id)
                       ELSE Err(id, safeError(outcome))
           told == IF outcome = "large" THEN Err(id, "response_limit_exceeded") ELSE response
       IN  /\ transcript' = Append(transcript, Record(n, response))
           /\ conn' = [conn EXCEPT ![n] = answer(@, told)]
    /\ execQueue' = Tail(execQueue)
    /\ UNCHANGED <<shimVars, seenIds, submitted, submitPromise, sourceVars, run>>

-----------------------------------------------------------------------------
(* The evaluator. *)

RunStep(next) == /\ run' = next
                 /\ UNCHANGED <<shimVars, brokerVars, tree>>

At(pc) == [run EXCEPT !.pc = pc]

(* main() before evaluateSandboxed: the submission directory must be empty,  *)
(* and files, policy and packages must be the configured ones.               *)
Setup ==
    /\ run.pc = "setup"
    /\ \/ tree = EmptyTree /\ RunStep(At("probe"))
       \/ RunStep(At("over"))
    /\ UNCHANGED hashing

(* author(): the trusted probe runs before anything of the author's. *)
Probe ==
    /\ run.pc = "probe"
    /\ \/ RunStep([At("listen") EXCEPT !.guard = TRUE])
       \/ RunStep(At("failing"))
    /\ UNCHANGED hashing

(* run(): directory, socket and ready file are checked, then it listens. *)
Listen ==
    /\ run.pc = "listen"
    /\ RunStep(At("awaitSubmit")) \/ RunStep(At("failing"))
    /\ UNCHANGED hashing

(* Variant with a bug: nothing ends the wait for a submission. *)
DeadlineFires_Never == FALSE /\ UNCHANGED authorVars

(* The deadline of the broker; without effect once the author submitted. *)
DeadlineFires ==
    /\ run.pc = "awaitSubmit" /\ submitPromise = "pending"
    /\ submitPromise' = "rejected"
    /\ UNCHANGED <<shimVars, conn, seenIds, submitted, execQueue, transcript, sourceVars, run>>

(* await this.submitPromise *)
AwaitSubmit ==
    /\ run.pc = "awaitSubmit"
    /\ \/ submitPromise = "resolved" /\ RunStep(At("awaitQueue"))
       \/ submitPromise = "rejected" /\ RunStep(At("closingFailed"))
    /\ UNCHANGED hashing

(* Variant with a bug: the queued commands are not awaited. *)
AwaitQueue_Skipped ==
    /\ run.pc = "awaitQueue"
    /\ RunStep(At("closing"))
    /\ UNCHANGED hashing

(* await this.execQueue *)
AwaitQueue ==
    /\ run.pc = "awaitQueue" /\ execQueue = <<>>
    /\ RunStep(At("closing"))
    /\ UNCHANGED hashing

(* server.close waits for every connection; then the socket is unlinked. *)
CloseServer ==
    /\ run.pc \in {"closing", "closingFailed"}
    /\ \A n \in Calls : conn[n].at \in {"unused", "closed"}
    /\ \/ /\ run.pc = "closing"
          /\ RunStep(At("hash"))
          /\ hashing' = [todo |-> {f \in Files : tree[f] # 0}, stat |-> 0, at |-> "next",
                         read |-> EmptyTree]
       \/ /\ RunStep(At("failing"))
          /\ UNCHANGED hashing

(* treeIdentity, one file after another: lstat, readFile, lstat again. *)
HashFile ==
    /\ run.pc = "hash" /\ hashing.todo # {}
    /\ LET f == Min(hashing.todo)
       IN  \/ /\ hashing.at = "next"
              /\ hashing' = [hashing EXCEPT !.stat = tree[f], !.at = "read"]
              /\ UNCHANGED run
           \/ /\ hashing.at = "read"
              /\ hashing' = [hashing EXCEPT !.read[f] = tree[f], !.at = "check"]
              /\ UNCHANGED run
           \/ /\ hashing.at = "check" /\ tree[f] = hashing.stat
              /\ hashing' = [hashing EXCEPT !.todo = @ \ {f}, !.at = "next"]
              /\ UNCHANGED run
           \/ /\ hashing.at = "check" /\ tree[f] # hashing.stat
              /\ hashing' = NotHashing
              /\ run' = At("failing")
    /\ UNCHANGED <<shimVars, brokerVars, tree>>

HashDone ==
    /\ run.pc = "hash" /\ hashing.todo = {}
    /\ RunStep([At("scan") EXCEPT !.after = hashing.read, !.hashed = TRUE])
    /\ hashing' = NotHashing

(* Private path strings in the source, or an empty source, end the authoring. *)
Scan ==
    /\ run.pc = "scan"
    /\ \E absent \in BOOLEAN :
          RunStep([At(IF absent /\ run.after # EmptyTree THEN "prepare" ELSE "failing")
                   EXCEPT !.clean = absent])
    /\ UNCHANGED hashing

(* Gate freezes the source and builds it (external); the wrapper keeps what   *)
(* it reports.  Gate may or may not have sealed the session.                  *)
GatePrepares ==
    /\ run.pc = "prepare"
    /\ \/ \E build, sealed \in BOOLEAN :
             RunStep([At("sealing") EXCEPT !.prepared = tree, !.frozen = TRUE, !.build = build,
                                           !.sealed = sealed])
       \/ RunStep(At("failing"))
    /\ UNCHANGED hashing

(* A command after the preparation must fail with STATE_INVALID, at once or   *)
(* as an operation; every other error, and a success, ends the evaluation.    *)
verifyAuthoringSealed ==
    /\ run.pc = "sealing"
    /\ \/ run.sealed /\ \E how \in {"immediate", "operation"} :
             RunStep([At("replay") EXCEPT !.seal = how])
       \/ ~run.sealed /\ RunStep([At("failing") EXCEPT !.seal = "accepted"])
       \/ RunStep(At("failing"))
    /\ UNCHANGED hashing

(* The private replay and the cleanup of the session (external). *)
GateReplays ==
    /\ run.pc = "replay"
    /\ \/ \E status \in {"passed", "failed"}, cleanup \in {"confirmed", "unconfirmed"} :
             RunStep([At("evidence") EXCEPT !.status = status, !.cleanup = cleanup])
       \/ RunStep(At("over"))
    /\ UNCHANGED hashing

(* What author() or the wrapper throws is returned as a failed result or      *)
(* thrown by evaluateSandboxed (external).                                    *)
GateFails ==
    /\ run.pc = "failing"
    /\ \/ \E cleanup \in {"confirmed", "unconfirmed"} :
             RunStep([At("evidence") EXCEPT !.status = "failed", !.cleanup = cleanup])
       \/ RunStep(At("over"))
    /\ UNCHANGED hashing

(* Variant with a bug: the source Gate froze is not compared. *)
Accepted_AnySource ==
    /\ run.status = "passed" /\ run.cleanup = "confirmed"
    /\ run.guard /\ run.build /\ run.clean
    /\ run.seal \in {"immediate", "operation"}

(* The conditions of acceptance. *)
Accepted ==
    /\ run.status = "passed" /\ run.cleanup = "confirmed"
    /\ run.frozen /\ run.hashed /\ run.after = run.prepared
    /\ run.guard /\ run.build /\ run.clean
    /\ run.seal \in {"immediate", "operation"}

(* The evidence file is never overwritten: one that exists ends the process   *)
(* with an error, and so does an identity that cannot be read.                *)
WriteEvidence ==
    /\ run.pc = "evidence"
    /\ \/ RunStep([At("over") EXCEPT !.wrote = TRUE, !.evidence = transcript,
                                     !.accepted = Accepted])
       \/ RunStep(At("over"))
    /\ UNCHANGED hashing

(* Somebody edits the submission directory on the host. *)
SomebodyEdits(f) ==
    /\ run.pc \in {"hash", "scan", "prepare"} /\ tree[f] < MaxVersion
    /\ tree' = [tree EXCEPT ![f] = @ + 1]
    /\ UNCHANGED <<shimVars, brokerVars, hashing, run>>

-----------------------------------------------------------------------------
ShimNext ==
    \/ \E op \in Sends : ShimCalls(op)
    \/ ShimHears
    \/ ShimTimesOut
    \/ ShimRestarts

BrokerStep ==
    \/ \E n \in Calls : BrokerReads(n) \/ BrokerEnds(n)
    \/ \E f \in Files : ExecWrites(f)
    \/ \E outcome \in {"ok", "large"} \cup GateErrors : ExecSettles(outcome)

EvaluatorRuns ==
    \/ Probe \/ Listen \/ DeadlineFires \/ AwaitSubmit \/ AwaitQueue \/ CloseServer
    \/ HashFile \/ HashDone \/ Scan \/ GatePrepares \/ verifyAuthoringSealed
    \/ GateReplays \/ GateFails \/ WriteEvidence

BrokerNext ==
    \/ ShimNext \/ BrokerStep \/ Setup \/ EvaluatorRuns
    \/ \E f \in Files : SomebodyEdits(f)

(* The event loop handles what has arrived, timers fire (the broker's         *)
(* deadline, the shim's 90 seconds), and Gate bounds every command by the     *)
(* executionWallMs it is given.  Nobody has to start an evaluation, and the   *)
(* author need not call anything.                                             *)
BrokerFairness ==
    /\ WF_authorVars(EvaluatorRuns)
    /\ WF_authorVars(ShimHears) /\ WF_authorVars(ShimTimesOut)
    /\ \A n \in Calls : WF_authorVars(BrokerReads(n)) /\ WF_authorVars(BrokerEnds(n))
    /\ WF_authorVars(\E outcome \in {"ok", "large"} \cup GateErrors : ExecSettles(outcome))
-----------------------------------------------------------------------------
(* From the hashing of the source until its replay no command of the author   *)
(* runs, waits or can still arrive: run() has waited for the queue and for    *)
(* every connection, also when the shim gave up on a command that went on.    *)
SourceAtRest ==
    run.pc \in {"hash", "scan", "prepare", "sealing", "replay"} =>
        /\ submitted /\ execQueue = <<>>
        /\ \A n \in Calls : conn[n].at \in {"unused", "closed"}

RecordsOf(n) == {i \in 1..Len(transcript) : transcript[i].call = n}
QueuedAs(n)  == {i \in 1..Len(execQueue) : execQueue[i] = n}

(* Every request that reaches dispatch is recorded exactly once, when its     *)
(* command settles or at once; no id is answered with success twice; and what *)
(* the author is told of a successful request is what its record says.        *)
EveryRequestIsRecorded ==
    /\ \A n \in Calls :
          conn[n].at \in {"dispatched", "closed"} /\ conn[n].request.op \in Ops =>
              Cardinality(RecordsOf(n)) + Cardinality(QueuedAs(n)) = 1
    /\ \A i, j \in 1..Len(transcript) :
          i # j /\ transcript[i].response.ok /\ transcript[j].response.ok =>
              transcript[i].id # transcript[j].id
    /\ \A n \in Calls :
          heard[n].ok => \E i \in RecordsOf(n) : transcript[i].response = heard[n]

(* An accepted evaluation replayed exactly the source whose hash the evidence *)
(* holds, in a session that Gate had sealed, after one submission; and its    *)
(* evidence holds every record there will ever be.                            *)
AcceptedIsEarned ==
    run.accepted =>
        /\ run.guard /\ run.clean /\ run.build /\ run.sealed
        /\ run.status = "passed" /\ run.cleanup = "confirmed"
        /\ run.after = run.prepared /\ run.prepared # EmptyTree
        /\ Cardinality({i \in 1..Len(run.evidence) : /\ run.evidence[i].op = "submit"
                                                     /\ run.evidence[i].response.ok}) = 1
        /\ run.evidence = transcript /\ execQueue = <<>>

(* The evidence of an evaluation is true, in its transcript and in its        *)
(* verdict.                                                                   *)
EvidenceIsEarned == EveryRequestIsRecorded /\ AcceptedIsEarned

(* An evaluation that has begun ends although the author never submits, or    *)
(* the shim gives up on a call whose command is still running.                *)
EvaluationEnds == (run.pc = "probe") ~> (run.pc = "over")
=============================================================================
