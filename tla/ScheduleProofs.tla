--------------------------- MODULE ScheduleProofs ---------------------------
(***************************************************************************)
(* Proofs about ScheduleExecution and ScheduleBinding: the workers and the *)
(* controller agree at every message, only the permitted worker runs, the  *)
(* state is observed at rest, and a replay that passed really ran, for any *)
(* set of actors and any admitted schedule.                                *)
(***************************************************************************)
EXTENDS ScheduleBinding, SequenceTheorems, TLAPS

-----------------------------------------------------------------------------
(* The inductive invariant: types *)

Places == {"none", "boot", "waiting", "running", "ending", "rpc", "acking", "leaving",
           "failing", "exited"}
Orders == {"permit", "cancel", "completion-ack", "reply"}
Kinds == {"ready", "arrival", "finished", "failure", "request"}

(* No worker is ever "confused". *)
Messages == [kind : Kinds, checkpoint : Checkpoints \cup {Start, Undeclared}]
Workers == [at : Places, aborted : BOOLEAN, ran : BOOLEAN, code : {0, 1},
            inbox : Seq(Orders), outbox : Seq(Messages)]
ActorRecords == [phase : Phases, checkpoint : Checkpoints \cup {Start, Completion},
                 exited : BOOLEAN, reportedFinish : BOOLEAN, requestPending : BOOLEAN]
Runs == [outcome : {"completed", "failed"}, stopped : BOOLEAN, closed : BOOLEAN,
         program : BOOLEAN, scheduleCompleted : BOOLEAN, cleanup : Cleanups,
         next : 0 .. Len(Steps)]
Places0 == {"absent", "factory", "start", "idle", "advance", "cleanup", "teardown"}

Types ==
    /\ pc \in Places0 /\ run \in Runs /\ cancelled \in BOOLEAN /\ teardowns \in Nat
    /\ actor \in [Actors -> ActorRecords] /\ worker \in [Actors -> Workers]

-----------------------------------------------------------------------------
(* One worker and the controller's record of it *)

(* What a port holds, either way *)
Tells(inbox, order) == \E i \in 1 .. Len(inbox) : inbox[i] = order
TellsFirst(inbox) == \A i \in 1 .. Len(inbox) : inbox[i] \in {"permit", "reply"} => i = 1
AckedOnce(inbox) ==
    \A i, j \in 1 .. Len(inbox) :
       inbox[i] = "completion-ack" /\ inbox[j] = "completion-ack" => i = j

Says(outbox, kind) == \E i \in 1 .. Len(outbox) : outbox[i].kind = kind
Silent(outbox) == \A i \in 1 .. Len(outbox) : outbox[i].kind = "failure"
FinishedOnce(outbox) ==
    \A i, j \in 1 .. Len(outbox) :
       outbox[i].kind = "finished" /\ outbox[j].kind = "finished" => i = j
SaysOne(outbox) ==
    \A i, j \in 1 .. Len(outbox) :
       outbox[i].kind # "failure" /\ outbox[j].kind # "failure" => i = j

(* Whatever happened: what is in the inbox the worker expects, and it       *)
(* leaves only after the controller has read that it finished.              *)
Protocol(r, w) ==
    /\ TellsFirst(w.inbox) /\ AckedOnce(w.inbox) /\ FinishedOnce(w.outbox)
    /\ Tells(w.inbox, "permit") => ~w.aborted /\ w.at \in {"waiting", "failing"}
    /\ Tells(w.inbox, "reply") => ~w.aborted /\ w.at \in {"rpc", "failing"}
    /\ Tells(w.inbox, "completion-ack") => w.at \in {"acking", "failing"} /\ r.reportedFinish
    /\ Says(w.outbox, "finished") =>
          w.at \in {"acking", "failing", "exited"} /\ ~r.reportedFinish
    /\ r.reportedFinish => w.at \in {"acking", "leaving", "failing", "exited"}
    /\ w.at = "leaving" => r.reportedFinish
    /\ w.at \in {"none", "exited"} => w.inbox = <<>>
    /\ w.at = "none" => w.outbox = <<>>
    /\ w.at = "exited" /\ w.code = 0 => r.reportedFinish
    /\ r.exited => w.at = "exited"
    /\ r.exited <=> r.phase = "finished"

(* While the run goes on, the phase says where the worker is, up to the one *)
(* message that is under way between them.                                  *)
Starting(r, w) ==
    /\ w.inbox = <<>> /\ ~r.reportedFinish /\ r.checkpoint # Completion
    /\ \/ w.at \in {"none", "boot"} /\ w.outbox = <<>>
       \/ w.at \in {"waiting", "failing", "exited"} /\ Says(w.outbox, "ready")
Parked(r, w) ==
    /\ w.inbox = <<>> /\ Silent(w.outbox) /\ w.at \in {"waiting", "failing", "exited"}
    /\ r.checkpoint # Completion /\ ~r.reportedFinish
Running(r, w) ==
    /\ ~r.reportedFinish
    /\ w.at \in {"waiting", "running", "rpc", "acking", "failing", "exited"}
    /\ ~Silent(w.outbox) => w.inbox = <<>> /\ ~r.requestPending
    /\ r.requestPending => w.inbox = <<>> /\ w.at \in {"rpc", "failing", "exited"}
    /\ w.at = "running" => w.inbox = <<>> /\ Silent(w.outbox)
    /\ w.at = "acking" => Says(w.outbox, "finished")
    /\ Says(w.outbox, "arrival") => w.at \in {"waiting", "failing", "exited"}
    /\ Says(w.outbox, "request") => w.at \in {"rpc", "failing", "exited"}
    /\ ~Says(w.outbox, "ready")
Finishing(r, w) ==
    /\ r.reportedFinish /\ Silent(w.outbox)
    /\ ~Tells(w.inbox, "permit") /\ ~Tells(w.inbox, "reply")
    /\ w.at \in {"acking", "leaving", "failing", "exited"}

InStep(r, w) ==
    /\ ~w.aborted /\ ~Tells(w.inbox, "cancel") /\ Len(w.inbox) <= 1 /\ SaysOne(w.outbox)
    /\ r.requestPending => r.phase = "running"
    /\ r.reportedFinish \/ Says(w.outbox, "finished") => w.ran
    /\ r.exited => r.reportedFinish
    /\ r.phase = "starting" => Starting(r, w)
    /\ r.phase = "parked" => Parked(r, w)
    /\ r.phase = "running" => Running(r, w)
    /\ r.phase = "finishing" => Finishing(r, w)

(* Nothing was made yet, and nothing of it is left *)
Untouched(r, w) == r = FreshActor /\ w = NoWorker
Over(r, w) == ~r.requestPending /\ Gone(w)

ActorInv(r, w, stopped) == Protocol(r, w) /\ (~stopped => InStep(r, w))

-----------------------------------------------------------------------------
(* The controller *)

Torn(r) == r.cleanup \in {"confirmed", "teardown_failed"}

RunInv(place, r) ==
    /\ r.closed => r.stopped
    /\ r.scheduleCompleted => r.stopped /\ place \in {"cleanup", "teardown", "idle"}
    /\ Torn(r) => r.closed /\ place = "idle"
    /\ place = "absent" => r = FreshRun
    /\ place \in {"factory", "start", "advance"} => ~r.closed
    /\ place = "cleanup" => r.stopped /\ ~r.closed
    /\ place = "teardown" => r.closed
    /\ ~r.stopped => r.next < Len(Steps)

(* The steps done so far are done. *)
StepsDone(r, as) ==
    ~r.stopped => \A i \in 1 .. r.next :
       Steps[i].checkpoint = Completion => as[Steps[i].actor].exited

Permitted == ~run.stopped =>
    \A a \in Actors : actor[a].phase = "running" => pc = "advance" /\ Step.actor = a

ExecutionInv ==
    /\ Types
    /\ \A a \in Actors : ActorInv(actor[a], worker[a], run.stopped)
    /\ pc \in {"absent", "factory"} => \A a \in Actors : Untouched(actor[a], worker[a])
    /\ run.closed => \A a \in Actors : Over(actor[a], worker[a])
    /\ run.scheduleCompleted => \A a \in Actors : actor[a].exited /\ worker[a].ran
    /\ RunInv(pc, run)
    /\ StepsDone(run, actor)
    /\ Permitted

-----------------------------------------------------------------------------
(* The session *)

Sessions ==
    [op : Ops, execution : BOOLEAN, retained : BOOLEAN, records : Seq(BOOLEAN),
     receiptComplete : BOOLEAN, initializations : 0 .. MaxInitializations,
     closing : BOOLEAN, disposal : Disposals]

SessionInv ==
    /\ session \in Sessions /\ verdict \in {"none", "passed", "failed"}
    /\ session.op = "none" => pc \in {"absent", "idle"}
    /\ session.op = "start" => ~session.execution /\ ~session.retained
    /\ session.op \notin {"none", "start"} => session.execution
    /\ session.op = "finish" => session.initializations < MaxInitializations
    /\ session.initializations = 0 =>
          pc = "absent" /\ session.op = "none" /\ ~session.execution /\ ~session.retained
    /\ session.initializations > 0 =>
          pc # "absent" /\ (session.op = "none" => session.execution)
    /\ session.disposal # "none" => session.closing
    /\ session.disposal = "running" <=> session.op = "dispose"
    /\ session.op \in {"finish", "start", "advance"} => session.disposal \in {"none", "waiting"}
    /\ session.disposal \in {"ok", "failed"} /\ session.initializations > 0 => session.retained
    \* every execution is recorded once, and torn down before the next one
    /\ session.retained \/ session.initializations = 0
          => Len(session.records) = session.initializations
    /\ ~session.retained /\ session.initializations > 0
          => Len(session.records) + 1 = session.initializations
    /\ Torn(run) \/ session.initializations = 0 => teardowns = session.initializations
    /\ ~Torn(run) /\ session.initializations > 0 => teardowns + 1 = session.initializations
    /\ session.retained /\ session.records[Len(session.records)] => ReceiptPassed
    /\ verdict = "passed" => session.op = "none" /\ FullyCompleted(session)

IInv == ExecutionInv /\ SessionInv

-----------------------------------------------------------------------------
(* Ports *)

(* A message more in a worker's outbox *)
LEMMA SaysMore ==
    ASSUME NEW box \in Seq(Messages), NEW m \in Messages
    PROVE  /\ Append(box, m) \in Seq(Messages)
           /\ \A kind : Says(Append(box, m), kind) <=> Says(box, kind) \/ m.kind = kind
           /\ Silent(Append(box, m)) <=> Silent(box) /\ m.kind = "failure"
           /\ SaysOne(box) /\ (m.kind = "failure" \/ Silent(box)) => SaysOne(Append(box, m))
           /\ FinishedOnce(box) /\ (m.kind = "finished" => ~Says(box, "finished"))
                 => FinishedOnce(Append(box, m))
<1> DEFINE more == Append(box, m)
<1>1. /\ more \in Seq(Messages) /\ Len(more) = Len(box) + 1 /\ Len(box) \in Nat
      /\ more[Len(box) + 1] = m /\ \A i \in 1 .. Len(box) : more[i] = box[i]
  OBVIOUS
<1> HIDE DEF more
<1>2. ASSUME NEW kind PROVE Says(more, kind) <=> Says(box, kind) \/ m.kind = kind
  BY <1>1 DEF Says
<1>3. Silent(more) <=> Silent(box) /\ m.kind = "failure"
  BY <1>1 DEF Silent
<1>4. SaysOne(box) /\ (m.kind = "failure" \/ Silent(box)) => SaysOne(more)
  BY <1>1 DEF SaysOne, Silent
<1>5. FinishedOnce(box) /\ (m.kind = "finished" => ~Says(box, "finished")) => FinishedOnce(more)
  BY <1>1 DEF FinishedOnce, Says
<1>6. QED
  BY <1>1, <1>2, <1>3, <1>4, <1>5 DEF more

(* The oldest message is taken from a worker's outbox. *)
LEMMA SaysLess ==
    ASSUME NEW box \in Seq(Messages), box # <<>>
    PROVE  /\ Tail(box) \in Seq(Messages) /\ Head(box) \in Messages
           /\ Says(box, Head(box).kind)
           /\ \A kind : Says(Tail(box), kind) => Says(box, kind)
           /\ \A kind : Says(box, kind) => Head(box).kind = kind \/ Says(Tail(box), kind)
           /\ Silent(box) => Silent(Tail(box)) /\ Head(box).kind = "failure"
           /\ SaysOne(box) => SaysOne(Tail(box))
           /\ SaysOne(box) /\ Head(box).kind # "failure" => Silent(Tail(box))
           /\ FinishedOnce(box) => FinishedOnce(Tail(box))
           /\ FinishedOnce(box) /\ Head(box).kind = "finished" => ~Says(Tail(box), "finished")
<1> DEFINE rest == Tail(box)
<1>1. /\ rest \in Seq(Messages) /\ Len(box) = Len(rest) + 1 /\ Len(rest) \in Nat
      /\ Head(box) = box[1] /\ box[1] \in Messages
      /\ \A i \in 1 .. Len(rest) : rest[i] = box[i + 1] /\ i + 1 \in 1 .. Len(box)
      /\ 1 \in 1 .. Len(box) /\ \A i \in 1 .. Len(box) : i = 1 \/ i - 1 \in 1 .. Len(rest)
  OBVIOUS
<1>2. \A i \in 1 .. Len(box) : i # 1 => box[i] = rest[i - 1]
  BY <1>1
<1> HIDE DEF rest
<1>3. ASSUME NEW kind
      PROVE  /\ Says(rest, kind) => Says(box, kind)
             /\ Says(box, kind) => Head(box).kind = kind \/ Says(rest, kind)
  BY <1>1, <1>2 DEF Says
<1>4. Says(box, Head(box).kind)
  BY <1>1 DEF Says
<1>5. Silent(box) => Silent(rest) /\ Head(box).kind = "failure"
  BY <1>1 DEF Silent
<1>6. SaysOne(box) => SaysOne(rest)
  <2> SUFFICES ASSUME SaysOne(box), NEW i \in 1 .. Len(rest), NEW j \in 1 .. Len(rest),
                      rest[i].kind # "failure", rest[j].kind # "failure"
               PROVE  i = j
    BY DEF SaysOne
  <2>1. i + 1 = j + 1
    BY <1>1 DEF SaysOne
  <2>2. QED
    BY <2>1, <1>1
<1>7. SaysOne(box) /\ Head(box).kind # "failure" => Silent(rest)
  <2> SUFFICES ASSUME SaysOne(box), Head(box).kind # "failure", NEW i \in 1 .. Len(rest),
                      rest[i].kind # "failure"
               PROVE  FALSE
    BY DEF Silent
  <2>1. i + 1 = 1
    BY <1>1 DEF SaysOne
  <2>2. QED
    BY <2>1, <1>1
<1>8. FinishedOnce(box) => FinishedOnce(rest)
  <2> SUFFICES ASSUME FinishedOnce(box), NEW i \in 1 .. Len(rest), NEW j \in 1 .. Len(rest),
                      rest[i].kind = "finished", rest[j].kind = "finished"
               PROVE  i = j
    BY DEF FinishedOnce
  <2>1. i + 1 = j + 1
    BY <1>1 DEF FinishedOnce
  <2>2. QED
    BY <2>1, <1>1
<1>9. FinishedOnce(box) /\ Head(box).kind = "finished" => ~Says(rest, "finished")
  <2> SUFFICES ASSUME FinishedOnce(box), Head(box).kind = "finished", NEW i \in 1 .. Len(rest),
                      rest[i].kind = "finished"
               PROVE  FALSE
    BY DEF Says
  <2>1. i + 1 = 1
    BY <1>1 DEF FinishedOnce
  <2>2. QED
    BY <2>1, <1>1
<1>10. QED
  BY <1>1, <1>3, <1>4, <1>5, <1>6, <1>7, <1>8, <1>9 DEF rest

(* An order more in a worker's inbox *)
LEMMA TellsMore ==
    ASSUME NEW box \in Seq(Orders), NEW o \in Orders
    PROVE  /\ Append(box, o) \in Seq(Orders) /\ Append(box, o) # <<>>
           /\ Len(Append(box, o)) = Len(box) + 1
           /\ \A order : Tells(Append(box, o), order) <=> Tells(box, order) \/ o = order
           /\ TellsFirst(box) /\ (o \in {"permit", "reply"} => box = <<>>)
                 => TellsFirst(Append(box, o))
           /\ AckedOnce(box) /\ (o = "completion-ack" => ~Tells(box, "completion-ack"))
                 => AckedOnce(Append(box, o))
<1> DEFINE more == Append(box, o)
<1>1. /\ more \in Seq(Orders) /\ Len(more) = Len(box) + 1 /\ Len(box) \in Nat
      /\ more[Len(box) + 1] = o /\ \A i \in 1 .. Len(box) : more[i] = box[i]
  OBVIOUS
<1>2. more # <<>> /\ (box = <<>> => Len(box) = 0)
  BY <1>1
<1> HIDE DEF more
<1>3. ASSUME NEW order PROVE Tells(more, order) <=> Tells(box, order) \/ o = order
  BY <1>1 DEF Tells
<1>4. TellsFirst(box) /\ (o \in {"permit", "reply"} => box = <<>>) => TellsFirst(more)
  BY <1>1, <1>2 DEF TellsFirst
<1>5. AckedOnce(box) /\ (o = "completion-ack" => ~Tells(box, "completion-ack"))
        => AckedOnce(more)
  BY <1>1 DEF AckedOnce, Tells
<1>6. QED
  BY <1>1, <1>2, <1>3, <1>4, <1>5 DEF more

(* The oldest order is taken from a worker's inbox. *)
LEMMA TellsLess ==
    ASSUME NEW box \in Seq(Orders), box # <<>>
    PROVE  /\ Tail(box) \in Seq(Orders) /\ Head(box) \in Orders /\ Tells(box, Head(box))
           /\ Len(Tail(box)) = Len(box) - 1 /\ Len(box) \in Nat
           /\ Len(box) <= 1 => Tail(box) = <<>>
           /\ \A order : Tells(Tail(box), order) => Tells(box, order)
           /\ TellsFirst(box) => TellsFirst(Tail(box)) /\ ~Tells(Tail(box), "permit")
                                 /\ ~Tells(Tail(box), "reply")
           /\ AckedOnce(box) => AckedOnce(Tail(box))
           /\ AckedOnce(box) /\ Head(box) = "completion-ack"
                 => ~Tells(Tail(box), "completion-ack")
<1> DEFINE rest == Tail(box)
<1>1. /\ rest \in Seq(Orders) /\ Len(box) = Len(rest) + 1 /\ Len(rest) \in Nat
      /\ Head(box) = box[1] /\ box[1] \in Orders
      /\ \A i \in 1 .. Len(rest) : rest[i] = box[i + 1] /\ i + 1 \in 1 .. Len(box)
      /\ 1 \in 1 .. Len(box)
  OBVIOUS
<1>2. Len(rest) = 0 => rest = <<>>
  BY <1>1, EmptySeq
<1> HIDE DEF rest
<1>3. ASSUME NEW order PROVE Tells(rest, order) => Tells(box, order)
  BY <1>1 DEF Tells
<1>4. Tells(box, Head(box))
  BY <1>1 DEF Tells
<1>5. TellsFirst(box) => ~Tells(rest, "permit") /\ ~Tells(rest, "reply")
  <2> SUFFICES ASSUME TellsFirst(box), NEW i \in 1 .. Len(rest), rest[i] \in {"permit", "reply"}
               PROVE  FALSE
    BY DEF Tells
  <2>1. i + 1 = 1
    BY <1>1 DEF TellsFirst
  <2>2. QED
    BY <2>1, <1>1
<1>6. TellsFirst(box) => TellsFirst(rest)
  BY <1>5 DEF TellsFirst, Tells
<1>7. AckedOnce(box) => AckedOnce(rest)
  <2> SUFFICES ASSUME AckedOnce(box), NEW i \in 1 .. Len(rest), NEW j \in 1 .. Len(rest),
                      rest[i] = "completion-ack", rest[j] = "completion-ack"
               PROVE  i = j
    BY DEF AckedOnce
  <2>1. i + 1 = j + 1
    BY <1>1 DEF AckedOnce
  <2>2. QED
    BY <2>1, <1>1
<1>8. AckedOnce(box) /\ Head(box) = "completion-ack" => ~Tells(rest, "completion-ack")
  <2> SUFFICES ASSUME AckedOnce(box), Head(box) = "completion-ack", NEW i \in 1 .. Len(rest),
                      rest[i] = "completion-ack"
               PROVE  FALSE
    BY DEF Tells
  <2>1. i + 1 = 1
    BY <1>1 DEF AckedOnce
  <2>2. QED
    BY <2>1, <1>1
<1>9. QED
  BY <1>1, <1>2, <1>3, <1>4, <1>5, <1>6, <1>7, <1>8 DEF rest

(* An empty port *)
LEMMA NothingSaid ==
    /\ \A kind : ~Says(<<>>, kind)
    /\ \A order : ~Tells(<<>>, order)
    /\ Silent(<<>>) /\ SaysOne(<<>>) /\ FinishedOnce(<<>>)
    /\ TellsFirst(<<>>) /\ AckedOnce(<<>>)
BY DEF Says, Tells, Silent, SaysOne, FinishedOnce, TellsFirst, AckedOnce

(* A worker that has only failures to say says nothing else. *)
LEMMA SilentSays ==
    ASSUME NEW box \in Seq(Messages), Silent(box), NEW kind, Says(box, kind)
    PROVE  kind = "failure"
BY DEF Silent, Says

-----------------------------------------------------------------------------
(* What happens to one worker keeps it in step with its record *)

(* A cancel may be posted at any time; from then on the run is stopped. *)
LEMMA CancelPosted ==
    ASSUME NEW r, NEW w \in Workers, Protocol(r, w)
    PROVE  /\ Posted(w, "cancel") \in Workers /\ Protocol(r, Posted(w, "cancel"))
           /\ Posted(w, "cancel").at = w.at /\ Posted(w, "cancel").ran = w.ran
           /\ Gone(w) => Posted(w, "cancel") = w
<1> DEFINE v == [w EXCEPT !.inbox = Append(@, "cancel")]
<1>1. CASE Posted(w, "cancel") = w
  BY <1>1
<1>2. CASE Posted(w, "cancel") = v /\ ~Gone(w)
  <2>1. /\ v \in Workers /\ v.inbox = Append(w.inbox, "cancel") /\ v.at = w.at
        /\ v.aborted = w.aborted /\ v.ran = w.ran /\ v.code = w.code /\ v.outbox = w.outbox
    BY TellsMore DEF Workers, Orders
  <2>2. /\ \A order : Tells(v.inbox, order) <=> Tells(w.inbox, order) \/ order = "cancel"
        /\ TellsFirst(w.inbox) => TellsFirst(v.inbox)
        /\ AckedOnce(w.inbox) => AckedOnce(v.inbox)
    BY <2>1, TellsMore DEF Workers, Orders
  <2> HIDE DEF v
  <2>3. Protocol(r, v)
    BY <1>2, <2>1, <2>2 DEF Protocol, Gone
  <2>4. QED
    BY <1>2, <2>1, <2>3
<1>3. QED
  BY <1>1, <1>2 DEF Posted

(* The worker boots. *)
LEMMA BootInv ==
    ASSUME NEW r \in ActorRecords, NEW w \in Workers, NEW stopped \in BOOLEAN,
           ActorInv(r, w, stopped), w.at = "boot"
    PROVE  /\ Sent(w, Message("ready", Start), "waiting") \in Workers
           /\ ActorInv(r, Sent(w, Message("ready", Start), "waiting"), stopped)
<1> DEFINE m == Message("ready", Start)
           v == Sent(w, m, "waiting")
<1>1. m \in Messages /\ m.kind = "ready"
  BY DEF Message, Messages, Kinds
<1> HIDE DEF m
<1>2. /\ v \in Workers /\ v.inbox = w.inbox /\ v.at = "waiting" /\ v.outbox = Append(w.outbox, m)
      /\ v.aborted = w.aborted /\ v.ran = w.ran /\ v.code = w.code
  BY <1>1, SaysMore DEF Sent, Workers, Places
<1> HIDE DEF v
<1>3. /\ \A kind : Says(v.outbox, kind) <=> Says(w.outbox, kind) \/ kind = "ready"
      /\ SaysOne(w.outbox) /\ Silent(w.outbox) => SaysOne(v.outbox)
      /\ FinishedOnce(w.outbox) => FinishedOnce(v.outbox)
  BY <1>1, <1>2, SaysMore DEF Workers
<1>4. Protocol(r, v)
  BY <1>2, <1>3 DEF ActorInv, Protocol
<1>5. ~stopped => InStep(r, v)
  <2> SUFFICES ASSUME ~stopped PROVE InStep(r, v)
    OBVIOUS
  <2>1. r.phase = "starting" /\ w.outbox = <<>>
    BY DEF ActorInv, InStep, Protocol, Starting, Parked, Running, Finishing, ActorRecords, Phases
  <2>2. QED
    BY <1>2, <1>3, <2>1, NothingSaid DEF ActorInv, InStep, Starting
<1>6. QED
  BY <1>2, <1>4, <1>5 DEF ActorInv, v, m

(* The worker's listener *)
LEMMA ReceiveInv ==
    ASSUME NEW r \in ActorRecords, NEW w \in Workers, NEW stopped \in BOOLEAN,
           ActorInv(r, w, stopped), w.at \notin {"none", "boot", "exited"}, w.inbox # <<>>
    PROVE  /\ Received([w EXCEPT !.inbox = Tail(@)], Head(w.inbox)) \in Workers
           /\ ActorInv(r, Received([w EXCEPT !.inbox = Tail(@)], Head(w.inbox)), stopped)
<1> DEFINE u == [w EXCEPT !.inbox = Tail(@)]
           kind == Head(w.inbox)
           v == Received(u, kind)
<1>1. /\ kind \in Orders /\ Tells(w.inbox, kind) /\ Tail(w.inbox) \in Seq(Orders)
      /\ ~Tells(Tail(w.inbox), "permit") /\ ~Tells(Tail(w.inbox), "reply")
      /\ TellsFirst(Tail(w.inbox)) /\ AckedOnce(Tail(w.inbox))
      /\ kind = "completion-ack" => ~Tells(Tail(w.inbox), "completion-ack")
      /\ \A order : Tells(Tail(w.inbox), order) => Tells(w.inbox, order)
      /\ Len(w.inbox) <= 1 => Tail(w.inbox) = <<>> /\ Len(Tail(w.inbox)) <= 1
  BY TellsLess DEF Workers, ActorInv, Protocol
<1>2. /\ u \in Workers /\ u.inbox = Tail(w.inbox) /\ u.at = w.at /\ u.outbox = w.outbox
      /\ u.aborted = w.aborted /\ u.ran = w.ran /\ u.code = w.code
  BY <1>1 DEF Workers
<1>3. SUFFICES v \in Workers /\ Protocol(r, v) /\ (~stopped => InStep(r, v))
  BY DEF ActorInv
<1> HIDE DEF u, kind, v
<1>4. CASE kind = "cancel"
  <2>1. v = [u EXCEPT !.aborted = TRUE,
               !.at = CASE @ = "waiting" -> "ending" [] @ = "rpc" -> "running" [] OTHER -> @]
    BY <1>4 DEF Received, v
  <2>2. v.at = IF w.at = "waiting" THEN "ending" ELSE IF w.at = "rpc" THEN "running" ELSE w.at
    BY <1>2, <2>1 DEF Workers
  <2>3. /\ v \in Workers /\ v.inbox = u.inbox /\ v.outbox = u.outbox /\ v.ran = u.ran
        /\ v.code = u.code
    BY <1>2, <2>1 DEF Workers, Places
  <2>4. Protocol(r, v)
    BY <1>1, <1>2, <2>2, <2>3 DEF ActorInv, Protocol
  <2>5. stopped
    BY <1>1, <1>4 DEF ActorInv, InStep
  <2>6. QED
    BY <2>3, <2>4, <2>5
<1>5. CASE kind = "permit"
  <2>1. w.at \in {"waiting", "failing"} /\ ~w.aborted
    BY <1>1, <1>5 DEF ActorInv, Protocol
  <2>2. /\ v \in Workers /\ v.inbox = u.inbox /\ v.outbox = u.outbox /\ v.ran = u.ran
        /\ v.code = u.code /\ v.aborted = u.aborted
        /\ v.at = IF w.at = "waiting" THEN "running" ELSE "failing"
    BY <1>2, <1>5, <2>1 DEF Received, v, Workers, Places
  <2>3. Protocol(r, v)
    BY <1>1, <1>2, <2>1, <2>2 DEF ActorInv, Protocol
  <2>4. ~stopped => InStep(r, v)
    <3> SUFFICES ASSUME ~stopped PROVE InStep(r, v)
      OBVIOUS
    <3>1. InStep(r, w) /\ Protocol(r, w)
      BY DEF ActorInv
    <3>2. r.phase = "running"
      BY <1>1, <1>5, <2>1, <3>1 DEF InStep, Protocol, Starting, Parked,
             Finishing, ActorRecords, Phases
    <3>3. v.inbox = <<>> /\ Silent(w.outbox) /\ ~r.requestPending
      BY <1>1, <1>2, <2>2, <3>1, <3>2 DEF InStep, Running
    <3>4. ~Says(w.outbox, "arrival") /\ ~Says(w.outbox, "request")
      BY <3>3, SilentSays DEF Workers
    <3>5. Running(r, v)
      BY <1>2, <2>1, <2>2, <3>1, <3>2, <3>3, <3>4 DEF InStep, Running
    <3>6. QED
      BY <1>1, <1>2, <2>2, <3>1, <3>2, <3>5 DEF InStep
  <2>5. QED
    BY <2>2, <2>3, <2>4
<1>6. CASE kind = "completion-ack"
  <2>1. w.at \in {"acking", "failing"} /\ r.reportedFinish
    BY <1>1, <1>6 DEF ActorInv, Protocol
  <2>2. /\ v \in Workers /\ v.inbox = u.inbox /\ v.outbox = u.outbox /\ v.ran = u.ran
        /\ v.code = u.code /\ v.aborted = u.aborted
        /\ v.at = IF w.at = "acking" THEN "leaving" ELSE "failing"
    BY <1>2, <1>6, <2>1 DEF Received, v, Workers, Places
  <2>3. Protocol(r, v)
    BY <1>1, <1>2, <1>6, <2>1, <2>2 DEF ActorInv, Protocol
  <2>4. ~stopped => InStep(r, v)
    <3> SUFFICES ASSUME ~stopped PROVE InStep(r, v)
      OBVIOUS
    <3>1. InStep(r, w) /\ Protocol(r, w)
      BY DEF ActorInv
    <3>2. r.phase \in {"finishing", "finished"}
      BY <1>1, <1>6, <2>1, <3>1 DEF InStep, Protocol, Starting, Parked,
             Running, ActorRecords, Phases
    <3>3. r.phase = "finishing" => Finishing(r, v)
      BY <1>1, <1>2, <2>1, <2>2, <3>1 DEF InStep, Finishing
    <3>4. QED
      BY <1>1, <1>2, <2>2, <3>1, <3>2, <3>3 DEF InStep
  <2>5. QED
    BY <2>2, <2>3, <2>4
<1>7. CASE kind = "reply"
  <2>1. w.at \in {"rpc", "failing"} /\ ~w.aborted
    BY <1>1, <1>7 DEF ActorInv, Protocol
  <2>2. /\ v \in Workers /\ v.inbox = u.inbox /\ v.outbox = u.outbox /\ v.ran = u.ran
        /\ v.code = u.code /\ v.aborted = u.aborted
        /\ v.at = IF w.at = "rpc" THEN "running" ELSE "failing"
    BY <1>2, <1>7, <2>1 DEF Received, v, Workers, Places
  <2>3. Protocol(r, v)
    BY <1>1, <1>2, <2>1, <2>2 DEF ActorInv, Protocol
  <2>4. ~stopped => InStep(r, v)
    <3> SUFFICES ASSUME ~stopped PROVE InStep(r, v)
      OBVIOUS
    <3>1. InStep(r, w) /\ Protocol(r, w)
      BY DEF ActorInv
    <3>2. r.phase = "running"
      BY <1>1, <1>7, <2>1, <3>1 DEF InStep, Protocol, Starting, Parked,
             Finishing, ActorRecords, Phases
    <3>3. v.inbox = <<>> /\ Silent(w.outbox) /\ ~r.requestPending
      BY <1>1, <1>2, <2>2, <3>1, <3>2 DEF InStep, Running
    <3>4. ~Says(w.outbox, "arrival") /\ ~Says(w.outbox, "request")
      BY <3>3, SilentSays DEF Workers
    <3>5. Running(r, v)
      BY <1>2, <2>1, <2>2, <3>1, <3>2, <3>3, <3>4 DEF InStep, Running
    <3>6. QED
      BY <1>1, <1>2, <2>2, <3>1, <3>2, <3>5 DEF InStep
  <2>5. QED
    BY <2>2, <2>3, <2>4
<1>8. QED
  BY <1>1, <1>4, <1>5, <1>6, <1>7 DEF Orders

(* A message is posted to the controller. *)
LEMMA SentFacts ==
    ASSUME NEW w \in Workers, NEW m \in Messages, NEW place \in Places
    PROVE  LET v == Sent(w, m, place)
           IN  /\ v \in Workers /\ v.at = place /\ v.inbox = w.inbox
               /\ v.aborted = w.aborted /\ v.ran = w.ran /\ v.code = w.code
               /\ \A kind : Says(v.outbox, kind) <=> Says(w.outbox, kind) \/ m.kind = kind
               /\ Silent(v.outbox) <=> Silent(w.outbox) /\ m.kind = "failure"
               /\ SaysOne(w.outbox) /\ (m.kind = "failure" \/ Silent(w.outbox))
                     => SaysOne(v.outbox)
               /\ FinishedOnce(w.outbox) /\ (m.kind = "finished" => ~Says(w.outbox, "finished"))
                     => FinishedOnce(v.outbox)
<1> DEFINE v == Sent(w, m, place)
<1>1. /\ v \in Workers /\ v.at = place /\ v.inbox = w.inbox /\ v.outbox = Append(w.outbox, m)
      /\ v.aborted = w.aborted /\ v.ran = w.ran /\ v.code = w.code
  BY SaysMore DEF Sent, Workers
<1>2. w.outbox \in Seq(Messages)
  BY DEF Workers
<1> HIDE DEF v
<1>3. QED
  BY <1>1, <1>2, SaysMore DEF v

(* What a running worker's record says of it *)
LEMMA RunningPhase ==
    ASSUME NEW r \in ActorRecords, NEW w \in Workers, Protocol(r, w), InStep(r, w),
           w.at \in {"running", "rpc"}
    PROVE  /\ r.phase = "running" /\ Running(r, w)
           /\ ~r.reportedFinish /\ ~w.aborted
           /\ w.at = "running" => w.inbox = <<>> /\ Silent(w.outbox) /\ ~r.requestPending
BY DEF Protocol, InStep, Starting, Parked, Running, Finishing, ActorRecords, Phases

(* arrive() *)
LEMMA ArriveInv ==
    ASSUME NEW r \in ActorRecords, NEW w \in Workers, NEW stopped \in BOOLEAN,
           ActorInv(r, w, stopped), w.at = "running", NEW c \in Checkpoints \cup {Undeclared},
           NEW v, v = Sent(w, Message("arrival", c), IF w.aborted THEN "ending" ELSE "waiting")
    PROVE  v \in Workers /\ ActorInv(r, v, stopped)
<1> DEFINE m == Message("arrival", c)
           place == IF w.aborted THEN "ending" ELSE "waiting"
<1>1. m \in Messages /\ m.kind = "arrival" /\ place \in Places
  BY DEF Message, Messages, Kinds, Places
<1>2. v = Sent(w, m, place)
  OBVIOUS
<1> HIDE DEF m
<1>3. /\ v \in Workers /\ v.at = place /\ v.inbox = w.inbox
      /\ v.aborted = w.aborted /\ v.ran = w.ran /\ v.code = w.code
      /\ \A kind : Says(v.outbox, kind) <=> Says(w.outbox, kind) \/ kind = "arrival"
      /\ ~Silent(v.outbox) /\ (SaysOne(w.outbox) /\ Silent(w.outbox) => SaysOne(v.outbox))
      /\ FinishedOnce(w.outbox) => FinishedOnce(v.outbox)
  BY <1>1, <1>2, SentFacts
<1>4. Protocol(r, v)
  BY <1>3 DEF ActorInv, Protocol
<1>5. ~stopped => InStep(r, v)
  <2> SUFFICES ASSUME ~stopped PROVE InStep(r, v)
    OBVIOUS
  <2>1. InStep(r, w) /\ Protocol(r, w)
    BY DEF ActorInv
  <2>2. /\ r.phase = "running" /\ Running(r, w) /\ ~r.reportedFinish /\ ~w.aborted
        /\ w.inbox = <<>> /\ Silent(w.outbox) /\ ~r.requestPending
    BY <2>1, RunningPhase
  <2>3. ~Says(w.outbox, "request") /\ ~Says(w.outbox, "finished") /\ ~Says(w.outbox, "ready")
    BY <2>2, SilentSays DEF Workers
  <2>4. Running(r, v)
    BY <1>3, <2>2, <2>3 DEF Running
  <2>5. QED
    BY <1>3, <2>1, <2>2, <2>3, <2>4 DEF InStep
<1>6. QED
  BY <1>3, <1>4, <1>5 DEF ActorInv

(* request() *)
LEMMA RequestInv ==
    ASSUME NEW r \in ActorRecords, NEW w \in Workers, NEW stopped \in BOOLEAN,
           ActorInv(r, w, stopped), w.at = "running",
           NEW v, v = Sent(w, Message("request", Start), "rpc")
    PROVE  v \in Workers /\ ActorInv(r, v, stopped)
<1> DEFINE m == Message("request", Start)
<1>1. m \in Messages /\ m.kind = "request" /\ "rpc" \in Places
  BY DEF Message, Messages, Kinds, Places
<1>2. v = Sent(w, m, "rpc")
  OBVIOUS
<1> HIDE DEF m
<1>3. /\ v \in Workers /\ v.at = "rpc" /\ v.inbox = w.inbox
      /\ v.aborted = w.aborted /\ v.ran = w.ran /\ v.code = w.code
      /\ \A kind : Says(v.outbox, kind) <=> Says(w.outbox, kind) \/ kind = "request"
      /\ ~Silent(v.outbox) /\ (SaysOne(w.outbox) /\ Silent(w.outbox) => SaysOne(v.outbox))
      /\ FinishedOnce(w.outbox) => FinishedOnce(v.outbox)
  BY <1>1, <1>2, SentFacts
<1>4. Protocol(r, v)
  BY <1>3 DEF ActorInv, Protocol
<1>5. ~stopped => InStep(r, v)
  <2> SUFFICES ASSUME ~stopped PROVE InStep(r, v)
    OBVIOUS
  <2>1. InStep(r, w) /\ Protocol(r, w)
    BY DEF ActorInv
  <2>2. /\ r.phase = "running" /\ Running(r, w) /\ ~r.reportedFinish /\ ~w.aborted
        /\ w.inbox = <<>> /\ Silent(w.outbox) /\ ~r.requestPending
    BY <2>1, RunningPhase
  <2>3. ~Says(w.outbox, "arrival") /\ ~Says(w.outbox, "finished") /\ ~Says(w.outbox, "ready")
    BY <2>2, SilentSays DEF Workers
  <2>4. Running(r, v)
    BY <1>3, <2>2, <2>3 DEF Running
  <2>5. QED
    BY <1>3, <2>1, <2>2, <2>3, <2>4 DEF InStep
<1>6. QED
  BY <1>3, <1>4, <1>5 DEF ActorInv

(* run() settles. *)
LEMMA FinishInv ==
    ASSUME NEW r \in ActorRecords, NEW w \in Workers, NEW stopped \in BOOLEAN,
           ActorInv(r, w, stopped), w.at \in {"running", "ending"},
           NEW v, v = [Sent(w, Message("finished", Start), "acking") EXCEPT !.ran = ~w.aborted]
    PROVE  v \in Workers /\ ActorInv(r, v, stopped)
<1> DEFINE m == Message("finished", Start)
           u == Sent(w, m, "acking")
<1>1. m \in Messages /\ m.kind = "finished" /\ "acking" \in Places
  BY DEF Message, Messages, Kinds, Places
<1> HIDE DEF m
<1>2. /\ u \in Workers /\ u.at = "acking" /\ u.inbox = w.inbox
      /\ u.aborted = w.aborted /\ u.ran = w.ran /\ u.code = w.code
      /\ \A kind : Says(u.outbox, kind) <=> Says(w.outbox, kind) \/ kind = "finished"
      /\ ~Silent(u.outbox) /\ (SaysOne(w.outbox) /\ Silent(w.outbox) => SaysOne(u.outbox))
      /\ FinishedOnce(w.outbox) /\ ~Says(w.outbox, "finished") => FinishedOnce(u.outbox)
  BY <1>1, SentFacts
<1>3. v = [u EXCEPT !.ran = ~w.aborted]
  BY DEF m
<1> HIDE DEF u
<1>4. /\ v \in Workers /\ v.at = "acking" /\ v.inbox = w.inbox /\ v.outbox = u.outbox
      /\ v.aborted = w.aborted /\ v.ran = ~w.aborted /\ v.code = w.code
  BY <1>2, <1>3 DEF Workers
<1>5. Protocol(r, v)
  BY <1>2, <1>4 DEF ActorInv, Protocol
<1>6. ~stopped => InStep(r, v)
  <2> SUFFICES ASSUME ~stopped PROVE InStep(r, v)
    OBVIOUS
  <2>1. InStep(r, w) /\ Protocol(r, w)
    BY DEF ActorInv
  <2>2. w.at = "running"
    BY <2>1 DEF InStep, Protocol, Starting, Parked, Running, Finishing, ActorRecords, Phases
  <2>3. /\ r.phase = "running" /\ Running(r, w) /\ ~r.reportedFinish /\ ~w.aborted
        /\ w.inbox = <<>> /\ Silent(w.outbox) /\ ~r.requestPending
    BY <2>1, <2>2, RunningPhase
  <2>4. ~Says(w.outbox, "arrival") /\ ~Says(w.outbox, "request") /\ ~Says(w.outbox, "ready")
    BY <2>3, SilentSays DEF Workers
  <2>5. Running(r, v)
    BY <1>2, <1>4, <2>3, <2>4 DEF Running
  <2>6. QED
    BY <1>2, <1>4, <2>1, <2>3, <2>4, <2>5 DEF InStep
<1>7. QED
  BY <1>4, <1>5, <1>6 DEF ActorInv

(* A failure is reported, by run() or by a late call: it may follow any     *)
(* other message of the worker.                                            *)
LEMMA FailureInv ==
    ASSUME NEW r \in ActorRecords, NEW w \in Workers, NEW stopped \in BOOLEAN,
           ActorInv(r, w, stopped), w.at \in {"running", "waiting", "rpc", "acking", "leaving"},
           NEW v, v = [Sent(w, Message("failure", Start), "failing") EXCEPT !.code = 1]
    PROVE  v \in Workers /\ ActorInv(r, v, stopped)
<1> DEFINE m == Message("failure", Start)
           u == Sent(w, m, "failing")
<1>1. m \in Messages /\ m.kind = "failure" /\ "failing" \in Places
  BY DEF Message, Messages, Kinds, Places
<1> HIDE DEF m
<1>2. /\ u \in Workers /\ u.at = "failing" /\ u.inbox = w.inbox
      /\ u.aborted = w.aborted /\ u.ran = w.ran /\ u.code = w.code
      /\ \A kind : Says(u.outbox, kind) <=> Says(w.outbox, kind) \/ kind = "failure"
      /\ (Silent(u.outbox) <=> Silent(w.outbox)) /\ (SaysOne(w.outbox) => SaysOne(u.outbox))
      /\ FinishedOnce(w.outbox) => FinishedOnce(u.outbox)
  BY <1>1, SentFacts
<1>3. v = [u EXCEPT !.code = 1]
  BY DEF m
<1> HIDE DEF u
<1>4. /\ v \in Workers /\ v.at = "failing" /\ v.inbox = w.inbox /\ v.outbox = u.outbox
      /\ v.aborted = w.aborted /\ v.ran = w.ran /\ v.code = 1
  BY <1>2, <1>3 DEF Workers
<1>5. Protocol(r, v)
  BY <1>2, <1>4 DEF ActorInv, Protocol
<1>6. ~stopped => InStep(r, v)
  BY <1>2, <1>4 DEF ActorInv, InStep, Starting, Parked, Running, Finishing
<1>7. QED
  BY <1>4, <1>5, <1>6 DEF ActorInv

(* The thread ends. *)
LEMMA ExitInv ==
    ASSUME NEW r \in ActorRecords, NEW w \in Workers, NEW stopped \in BOOLEAN,
           ActorInv(r, w, stopped), w.at \in {"leaving", "failing"},
           NEW v, v = [w EXCEPT !.at = "exited", !.inbox = <<>>,
                                !.code = IF w.at = "leaving" THEN 0 ELSE 1]
    PROVE  v \in Workers /\ ActorInv(r, v, stopped)
<1>1. /\ v \in Workers /\ v.at = "exited" /\ v.inbox = <<>> /\ v.outbox = w.outbox
      /\ v.aborted = w.aborted /\ v.ran = w.ran
      /\ v.code = IF w.at = "leaving" THEN 0 ELSE 1
  <2>1. <<>> \in Seq(Orders) /\ (IF w.at = "leaving" THEN 0 ELSE 1) \in {0, 1}
    OBVIOUS
  <2>2. QED
    BY <2>1 DEF Workers, Places
<1>2. Protocol(r, v)
  BY <1>1, NothingSaid DEF ActorInv, Protocol
<1>3. ~stopped => InStep(r, v)
  BY <1>1, NothingSaid DEF ActorInv, Protocol, InStep, Starting, Parked, Running, Finishing
<1>4. QED
  BY <1>1, <1>2, <1>3 DEF ActorInv

-----------------------------------------------------------------------------
(* What the controller does about one worker *)

(* The oldest message of a worker is taken from its port. *)
LEMMA TakenFacts ==
    ASSUME NEW r, NEW w \in Workers, Protocol(r, w), w.outbox # <<>>
    PROVE  LET u == [w EXCEPT !.outbox = Tail(@)]
               m == Head(w.outbox)
           IN  /\ u \in Workers /\ Protocol(r, u) /\ m \in Messages /\ Says(w.outbox, m.kind)
               /\ u.at = w.at /\ u.inbox = w.inbox /\ u.aborted = w.aborted /\ u.ran = w.ran
               /\ u.code = w.code
               /\ \A kind : Says(u.outbox, kind) => Says(w.outbox, kind)
               /\ SaysOne(w.outbox) => SaysOne(u.outbox)
               /\ SaysOne(w.outbox) /\ m.kind # "failure"
                     => Silent(u.outbox) /\ ~Silent(w.outbox)
               /\ m.kind = "finished" => ~Says(u.outbox, "finished")
<1> DEFINE u == [w EXCEPT !.outbox = Tail(@)]
           m == Head(w.outbox)
<1>1. w.outbox \in Seq(Messages)
  BY DEF Workers
<1>2. /\ u \in Workers /\ u.at = w.at /\ u.inbox = w.inbox /\ u.aborted = w.aborted
      /\ u.ran = w.ran /\ u.code = w.code /\ u.outbox = Tail(w.outbox)
  BY <1>1, SaysLess DEF Workers
<1> HIDE DEF u, m
<1>3. /\ m \in Messages /\ Says(w.outbox, m.kind)
      /\ \A kind : Says(u.outbox, kind) => Says(w.outbox, kind)
      /\ SaysOne(w.outbox) => SaysOne(u.outbox)
      /\ SaysOne(w.outbox) /\ m.kind # "failure" => Silent(u.outbox) /\ ~Silent(w.outbox)
      /\ FinishedOnce(w.outbox) => FinishedOnce(u.outbox)
      /\ FinishedOnce(w.outbox) /\ m.kind = "finished" => ~Says(u.outbox, "finished")
  BY <1>1, <1>2, SaysLess DEF m
<1>4. Protocol(r, u)
  BY <1>2, <1>3 DEF Protocol
<1>5. QED
  BY <1>2, <1>3, <1>4 DEF Protocol, u, m

(* Whatever was reported, the record says no more than the worker did. *)
LEMMA ReadyInv ==
    ASSUME NEW r \in ActorRecords, NEW w \in Workers, NEW stopped \in BOOLEAN,
           ActorInv(r, w, stopped), w.outbox # <<>>, Head(w.outbox).kind = "ready",
           r.phase = "starting",
           NEW u, u = [w EXCEPT !.outbox = Tail(@)],
           NEW q, q = [r EXCEPT !.phase = "parked"]
    PROVE  u \in Workers /\ q \in ActorRecords /\ ActorInv(q, u, stopped)
<1>1. Protocol(r, w) /\ (~stopped => InStep(r, w))
  BY DEF ActorInv
<1>2. /\ u \in Workers /\ Protocol(r, u) /\ Says(w.outbox, "ready")
      /\ u.at = w.at /\ u.inbox = w.inbox /\ u.aborted = w.aborted /\ u.ran = w.ran
      /\ \A kind : Says(u.outbox, kind) => Says(w.outbox, kind)
      /\ SaysOne(w.outbox) => SaysOne(u.outbox) /\ Silent(u.outbox)
  BY <1>1, TakenFacts
<1>3. /\ q \in ActorRecords /\ q.phase = "parked" /\ q.exited = r.exited
      /\ q.checkpoint = r.checkpoint /\ q.reportedFinish = r.reportedFinish
      /\ q.requestPending = r.requestPending
  BY DEF ActorRecords, Phases
<1>4. Protocol(q, u)
  BY <1>2, <1>3 DEF Protocol
<1>5. ~stopped => InStep(q, u)
  BY <1>1, <1>2, <1>3, NothingSaid DEF InStep, Starting, Parked
<1>6. QED
  BY <1>2, <1>3, <1>4, <1>5 DEF ActorInv

(* An arrival in the permitted interval parks the actor. *)
LEMMA ArrivalInv ==
    ASSUME NEW r \in ActorRecords, NEW w \in Workers,
           ActorInv(r, w, FALSE), w.outbox # <<>>, Head(w.outbox).kind = "arrival",
           r.phase = "running", NEW c \in Checkpoints
    PROVE  LET u == [w EXCEPT !.outbox = Tail(@)]
               q == [r EXCEPT !.phase = "parked", !.checkpoint = c]
           IN  q \in ActorRecords /\ Protocol(q, u) /\ InStep(q, u)
<1> DEFINE u == [w EXCEPT !.outbox = Tail(@)]
           q == [r EXCEPT !.phase = "parked", !.checkpoint = c]
<1>1. Protocol(r, w) /\ InStep(r, w)
  BY DEF ActorInv
<1>2. /\ u \in Workers /\ Protocol(r, u) /\ Says(w.outbox, "arrival")
      /\ u.at = w.at /\ u.inbox = w.inbox /\ u.aborted = w.aborted /\ u.ran = w.ran
      /\ \A kind : Says(u.outbox, kind) => Says(w.outbox, kind)
      /\ SaysOne(u.outbox) /\ Silent(u.outbox) /\ ~Silent(w.outbox)
  BY <1>1, TakenFacts DEF InStep
<1>3. /\ q \in ActorRecords /\ q.phase = "parked" /\ q.exited = r.exited
      /\ q.checkpoint = c /\ q.reportedFinish = r.reportedFinish
      /\ q.requestPending = r.requestPending
  BY DEF ActorRecords, Phases
<1> HIDE DEF u, q
<1>4. c # Completion
  BY ScheduleAssumption
<1>5. Protocol(q, u)
  BY <1>2, <1>3 DEF Protocol
<1>6. InStep(q, u)
  BY <1>1, <1>2, <1>3, <1>4 DEF InStep, Running, Parked
<1>7. QED
  BY <1>3, <1>5, <1>6 DEF u, q

(* A request in the permitted interval is open until it settles. *)
LEMMA RequestedInv ==
    ASSUME NEW r \in ActorRecords, NEW w \in Workers,
           ActorInv(r, w, FALSE), w.outbox # <<>>, Head(w.outbox).kind = "request",
           r.phase = "running",
           NEW u, u = [w EXCEPT !.outbox = Tail(@)],
           NEW q, q = [r EXCEPT !.requestPending = TRUE]
    PROVE  u \in Workers /\ q \in ActorRecords /\ ActorInv(q, u, FALSE)
<1>1. Protocol(r, w) /\ InStep(r, w)
  BY DEF ActorInv
<1>2. /\ u \in Workers /\ Protocol(r, u) /\ Says(w.outbox, "request")
      /\ u.at = w.at /\ u.inbox = w.inbox /\ u.aborted = w.aborted /\ u.ran = w.ran
      /\ \A kind : Says(u.outbox, kind) => Says(w.outbox, kind)
      /\ SaysOne(u.outbox) /\ Silent(u.outbox) /\ ~Silent(w.outbox)
  BY <1>1, TakenFacts DEF InStep
<1>3. /\ q \in ActorRecords /\ q.phase = r.phase /\ q.exited = r.exited
      /\ q.checkpoint = r.checkpoint /\ q.reportedFinish = r.reportedFinish
      /\ q.requestPending
  BY DEF ActorRecords
<1>4. Protocol(q, u)
  BY <1>2, <1>3 DEF Protocol
<1>5. Running(q, u)
  BY <1>1, <1>2, <1>3 DEF InStep, Running
<1>6. InStep(q, u)
  BY <1>1, <1>2, <1>3, <1>5 DEF InStep
<1>7. QED
  BY <1>2, <1>3, <1>4, <1>6 DEF ActorInv

(* An order other than a cancel is posted to a worker that expects it. *)
LEMMA PostedFacts ==
    ASSUME NEW w \in Workers, NEW o \in {"permit", "reply", "completion-ack"},
           TellsFirst(w.inbox), AckedOnce(w.inbox), ~Tells(w.inbox, "completion-ack"),
           o # "completion-ack" => w.inbox = <<>>
    PROVE  LET v == Posted(w, o)
           IN  /\ v \in Workers /\ v.at = w.at /\ v.outbox = w.outbox
               /\ v.aborted = w.aborted /\ v.ran = w.ran /\ v.code = w.code
               /\ \A order : Tells(v.inbox, order) =>
                     Tells(w.inbox, order) \/ (order = o /\ ~Gone(w))
               /\ TellsFirst(v.inbox) /\ AckedOnce(v.inbox)
               /\ w.inbox = <<>> => Len(v.inbox) <= 1
               /\ Gone(w) => v = w
<1> DEFINE v == Posted(w, o)
<1>1. w.inbox \in Seq(Orders) /\ o \in Orders /\ (w.inbox = <<>> => Len(w.inbox) = 0)
  BY DEF Workers, Orders
<1>2. CASE Gone(w)
  BY <1>1, <1>2 DEF Posted
<1>3. CASE ~Gone(w)
  <2> DEFINE more == Append(w.inbox, o)
  <2>1. v = [w EXCEPT !.inbox = more]
    BY <1>3 DEF Posted
  <2>2. /\ more \in Seq(Orders) /\ Len(more) = Len(w.inbox) + 1
        /\ \A order : Tells(more, order) => Tells(w.inbox, order) \/ order = o
    BY <1>1, TellsMore
  <2>3. TellsFirst(more) /\ AckedOnce(more)
    BY <1>1, TellsMore
  <2> HIDE DEF more, v
  <2>4. /\ v \in Workers /\ v.at = w.at /\ v.outbox = w.outbox /\ v.inbox = more
        /\ v.aborted = w.aborted /\ v.ran = w.ran /\ v.code = w.code
    BY <2>1, <2>2 DEF Workers
  <2>5. QED
    BY <1>1, <1>3, <2>2, <2>3, <2>4 DEF v
<1>4. QED
  BY <1>2, <1>3

(* A completion message is read once, and acknowledged. *)
LEMMA FinishedInv ==
    ASSUME NEW r \in ActorRecords, NEW w \in Workers, NEW stopped \in BOOLEAN,
           ActorInv(r, w, stopped), w.outbox # <<>>, Head(w.outbox).kind = "finished",
           ~r.exited, stopped \/ (r.phase = "running" /\ ~r.requestPending),
           NEW v, v = Posted([w EXCEPT !.outbox = Tail(@)], "completion-ack"),
           NEW q, q = Completed(r)
    PROVE  v \in Workers /\ q \in ActorRecords /\ ActorInv(q, v, stopped) /\ v.at = w.at
<1> DEFINE u == [w EXCEPT !.outbox = Tail(@)]
<1>1. Protocol(r, w) /\ (~stopped => InStep(r, w))
  BY DEF ActorInv
<1>2. /\ u \in Workers /\ Protocol(r, u) /\ Says(w.outbox, "finished")
      /\ u.at = w.at /\ u.inbox = w.inbox /\ u.aborted = w.aborted /\ u.ran = w.ran
      /\ u.code = w.code /\ ~Says(u.outbox, "finished")
      /\ \A kind : Says(u.outbox, kind) => Says(w.outbox, kind)
      /\ SaysOne(w.outbox) => SaysOne(u.outbox) /\ Silent(u.outbox) /\ ~Silent(w.outbox)
  BY <1>1, TakenFacts
<1>3. v = Posted(u, "completion-ack")
  OBVIOUS
<1> HIDE DEF u
<1>5. /\ q \in ActorRecords /\ q.phase = "finishing" /\ q.exited = r.exited
      /\ q.checkpoint = Completion /\ q.reportedFinish
      /\ q.requestPending = r.requestPending
  BY DEF ActorRecords, Completed, Phases
<1>6. w.at \in {"acking", "failing", "exited"} /\ ~r.reportedFinish
  BY <1>1, <1>2 DEF Protocol
<1>7. ~Tells(u.inbox, "completion-ack") /\ TellsFirst(u.inbox) /\ AckedOnce(u.inbox)
  BY <1>1, <1>2, <1>6 DEF Protocol
<1>8. /\ v \in Workers /\ v.at = w.at /\ v.outbox = u.outbox /\ v.aborted = w.aborted
      /\ v.ran = w.ran /\ v.code = w.code
  BY <1>2, <1>3, <1>7, PostedFacts
<1>9. /\ \A order : Tells(v.inbox, order) =>
             Tells(w.inbox, order) \/ (order = "completion-ack" /\ ~Gone(u))
      /\ TellsFirst(v.inbox) /\ AckedOnce(v.inbox)
      /\ w.inbox = <<>> => Len(v.inbox) <= 1
      /\ Gone(u) => v.inbox = w.inbox
  BY <1>2, <1>3, <1>7, PostedFacts
<1>10. Protocol(q, v)
  BY <1>1, <1>2, <1>5, <1>6, <1>8, <1>9 DEF Protocol, Gone
<1>11. ~stopped => InStep(q, v)
  <2> SUFFICES ASSUME ~stopped PROVE InStep(q, v)
    OBVIOUS
  <2>1. w.inbox = <<>>
    BY <1>1, <1>2 DEF InStep, Running
  <2>2. Finishing(q, v)
    BY <1>1, <1>2, <1>5, <1>6, <1>8, <1>9, <2>1, NothingSaid DEF InStep, Finishing
  <2>3. QED
    BY <1>1, <1>2, <1>5, <1>6, <1>8, <1>9, <2>1, <2>2, NothingSaid DEF InStep
<1>12. QED
  BY <1>5, <1>8, <1>10, <1>11 DEF ActorInv

(* A request is answered while the run goes on. *)
LEMMA ReplyInv ==
    ASSUME NEW r \in ActorRecords, NEW w \in Workers,
           ActorInv(r, w, FALSE), r.requestPending,
           NEW v, v = Posted(w, "reply"),
           NEW q, q = [r EXCEPT !.requestPending = FALSE]
    PROVE  v \in Workers /\ q \in ActorRecords /\ ActorInv(q, v, FALSE) /\ v.at = w.at
           /\ v.ran = w.ran
<1>1. Protocol(r, w) /\ InStep(r, w)
  BY DEF ActorInv
<1>2. /\ r.phase = "running" /\ w.inbox = <<>> /\ w.at \in {"rpc", "failing", "exited"}
      /\ Silent(w.outbox) /\ ~w.aborted
  BY <1>1 DEF InStep, Running
<1>4. TellsFirst(w.inbox) /\ AckedOnce(w.inbox) /\ ~Tells(w.inbox, "completion-ack")
  BY <1>2, NothingSaid
<1>5. /\ q \in ActorRecords /\ q.phase = "running" /\ q.exited = r.exited
      /\ q.checkpoint = r.checkpoint /\ q.reportedFinish = r.reportedFinish
      /\ ~q.requestPending
  BY <1>2 DEF ActorRecords
<1>6. /\ v \in Workers /\ v.at = w.at /\ v.outbox = w.outbox /\ v.aborted = w.aborted
      /\ v.ran = w.ran /\ v.code = w.code
  BY <1>2, <1>4, PostedFacts
<1>7. /\ \A order : Tells(v.inbox, order) => order = "reply" /\ ~Gone(w)
      /\ TellsFirst(v.inbox) /\ AckedOnce(v.inbox) /\ Len(v.inbox) <= 1
      /\ Gone(w) => v.inbox = <<>>
  BY <1>2, <1>4, PostedFacts, NothingSaid
<1>8. Protocol(q, v)
  BY <1>1, <1>2, <1>5, <1>6, <1>7 DEF Protocol, Gone
<1>9. Running(q, v)
  BY <1>1, <1>2, <1>5, <1>6, <1>7 DEF InStep, Running
<1>10. InStep(q, v)
  BY <1>1, <1>2, <1>5, <1>6, <1>7, <1>9 DEF InStep
<1>11. QED
  BY <1>5, <1>6, <1>8, <1>10 DEF ActorInv

(* The exit event of a worker *)
LEMMA ExitedInv ==
    ASSUME NEW r \in ActorRecords, NEW w \in Workers, NEW stopped \in BOOLEAN,
           ActorInv(r, w, stopped), w.at = "exited", ~r.exited
    PROVE  LET v == [w EXCEPT !.outbox = <<>>]
               q == [r EXCEPT !.exited = TRUE, !.phase = "finished", !.checkpoint = Completion]
           IN  /\ v \in Workers /\ q \in ActorRecords /\ Protocol(q, v) /\ v.at = w.at
               /\ q.exited /\ q.requestPending = r.requestPending /\ q.phase = "finished"
               /\ ~stopped /\ w.code = 0 /\ r.reportedFinish => InStep(q, v)
<1> DEFINE v == [w EXCEPT !.outbox = <<>>]
           q == [r EXCEPT !.exited = TRUE, !.phase = "finished", !.checkpoint = Completion]
<1>1. Protocol(r, w) /\ (~stopped => InStep(r, w))
  BY DEF ActorInv
<1>2. <<>> \in Seq(Messages)
  OBVIOUS
<1>3. /\ v \in Workers /\ v.at = "exited" /\ v.outbox = <<>> /\ v.inbox = w.inbox
      /\ v.aborted = w.aborted /\ v.ran = w.ran /\ v.code = w.code
  BY <1>2 DEF Workers
<1>4. /\ q \in ActorRecords /\ q.phase = "finished" /\ q.exited
      /\ q.checkpoint = Completion /\ q.reportedFinish = r.reportedFinish
      /\ q.requestPending = r.requestPending
  BY DEF ActorRecords, Phases
<1> HIDE DEF v, q
<1>5. Protocol(q, v)
  BY <1>1, <1>3, <1>4, NothingSaid DEF Protocol
<1>6. ~stopped /\ w.code = 0 /\ r.reportedFinish => InStep(q, v)
  BY <1>1, <1>3, <1>4, NothingSaid DEF InStep, Running
<1>7. QED
  BY <1>3, <1>4, <1>5, <1>6 DEF v, q

(* A parked actor is permitted. *)
LEMMA PermitInv ==
    ASSUME NEW r \in ActorRecords, NEW w \in Workers,
           ActorInv(r, w, FALSE), r.phase = "parked",
           NEW v, v = Posted(w, "permit"),
           NEW q, q = [r EXCEPT !.phase = "running"]
    PROVE  v \in Workers /\ q \in ActorRecords /\ ActorInv(q, v, FALSE)
<1>1. Protocol(r, w) /\ InStep(r, w)
  BY DEF ActorInv
<1>2. /\ w.inbox = <<>> /\ w.at \in {"waiting", "failing", "exited"} /\ Silent(w.outbox)
      /\ ~w.aborted /\ ~r.requestPending /\ ~r.reportedFinish
  BY <1>1 DEF InStep, Parked
<1>3. TellsFirst(w.inbox) /\ AckedOnce(w.inbox) /\ ~Tells(w.inbox, "completion-ack")
  BY <1>2, NothingSaid
<1>4. \A kind : Says(w.outbox, kind) => kind = "failure"
  BY <1>2, SilentSays DEF Workers
<1>5. /\ q \in ActorRecords /\ q.phase = "running" /\ q.exited = r.exited
      /\ q.checkpoint = r.checkpoint /\ q.reportedFinish = r.reportedFinish
      /\ q.requestPending = r.requestPending
  BY DEF ActorRecords, Phases
<1>6. /\ v \in Workers /\ v.at = w.at /\ v.outbox = w.outbox /\ v.aborted = w.aborted
      /\ v.ran = w.ran /\ v.code = w.code
  BY <1>2, <1>3, PostedFacts
<1>7. /\ \A order : Tells(v.inbox, order) => order = "permit" /\ ~Gone(w)
      /\ TellsFirst(v.inbox) /\ AckedOnce(v.inbox) /\ Len(v.inbox) <= 1
      /\ Gone(w) => v.inbox = <<>>
  <2>1. /\ \A order : Tells(v.inbox, order) =>
               Tells(w.inbox, order) \/ (order = "permit" /\ ~Gone(w))
        /\ TellsFirst(v.inbox) /\ AckedOnce(v.inbox) /\ Len(v.inbox) <= 1
        /\ Gone(w) => v = w
    BY <1>2, <1>3, PostedFacts
  <2>2. QED
    BY <1>2, <2>1, NothingSaid
<1>8. Protocol(q, v)
  BY <1>1, <1>2, <1>5, <1>6, <1>7 DEF Protocol, Gone
<1>9. Running(q, v)
  BY <1>2, <1>4, <1>5, <1>6 DEF Running
<1>10. InStep(q, v)
  BY <1>1, <1>2, <1>5, <1>6, <1>7, <1>9 DEF InStep
<1>11. QED
  BY <1>5, <1>6, <1>8, <1>10 DEF ActorInv

(* Nothing was made yet, or everything was just made. *)
LEMMA FreshInv ==
    /\ FreshActor \in ActorRecords /\ NoWorker \in Workers /\ FreshWorker \in Workers
    /\ \A stopped \in BOOLEAN : ActorInv(FreshActor, NoWorker, stopped)
                                /\ ActorInv(FreshActor, FreshWorker, stopped)
    /\ Over(FreshActor, NoWorker)
<1>1. /\ FreshActor \in ActorRecords /\ FreshActor.phase = "starting"
      /\ FreshActor.checkpoint = Start /\ ~FreshActor.exited
      /\ ~FreshActor.reportedFinish /\ ~FreshActor.requestPending
  BY DEF FreshActor, ActorRecords, Phases
<1>2. <<>> \in Seq(Orders) /\ <<>> \in Seq(Messages) /\ Len(<<>>) = 0 /\ Start # Completion
  BY DEF Start, Completion
<1>3. /\ NoWorker \in Workers /\ NoWorker.at = "none" /\ ~NoWorker.aborted /\ ~NoWorker.ran
      /\ NoWorker.inbox = <<>> /\ NoWorker.outbox = <<>> /\ NoWorker.code = 0
  BY <1>2 DEF NoWorker, Workers, Places
<1>4. /\ FreshWorker \in Workers /\ FreshWorker.at = "boot" /\ ~FreshWorker.aborted
      /\ FreshWorker.inbox = <<>> /\ FreshWorker.outbox = <<>> /\ FreshWorker.code = 0
  BY <1>3 DEF FreshWorker, Workers, Places
<1> HIDE DEF FreshActor, NoWorker, FreshWorker
<1>5. ASSUME NEW w \in {NoWorker, FreshWorker} PROVE Protocol(FreshActor, w)
  BY <1>1, <1>3, <1>4, <1>5, NothingSaid DEF Protocol
<1>6. ASSUME NEW w \in {NoWorker, FreshWorker} PROVE InStep(FreshActor, w)
  BY <1>1, <1>2, <1>3, <1>4, <1>6, NothingSaid DEF InStep, Starting
<1>7. QED
  BY <1>1, <1>3, <1>4, <1>5, <1>6 DEF ActorInv, Over, Gone

-----------------------------------------------------------------------------
(* The execution: events of the workers and of the main thread *)

(* The steps of an admitted schedule *)
LEMMA StepTypes ==
    /\ Len(Steps) \in Nat /\ Len(Steps) > 0
    /\ \A i \in 1 .. Len(Steps) : Steps[i].actor \in Actors
<1> DEFINE Declared == [actor : Actors, checkpoint : Checkpoints \cup {Completion}]
<1>1. Steps \in Seq(Declared)
  BY ScheduleAssumption
<1>2. ASSUME NEW i \in 1 .. Len(Steps) PROVE Steps[i].actor \in Actors
  <2>1. Steps[i] \in Declared
    <3> HIDE DEF Declared
    <3>1. QED
      BY <1>1, ElementOfSeq
  <2>2. QED
    BY <2>1
<1>3. Len(Steps) \in Nat
  BY <1>1
<1>4. \E i \in 1 .. Len(Steps) : TRUE
  BY ScheduleAssumption
<1>5. QED
  BY <1>2, <1>3, <1>4

(* What fail() changes *)
LEMMA FailedFacts ==
    ASSUME NEW r \in Runs, NEW o
    PROVE  /\ Failed(r, o) \in Runs /\ Failed(r, o).stopped
           /\ Failed(r, o).closed = r.closed /\ Failed(r, o).cleanup = r.cleanup
           /\ Failed(r, o).scheduleCompleted = r.scheduleCompleted
           /\ Failed(r, o).next = r.next /\ Failed(r, o).program = r.program
           /\ Torn(Failed(r, o)) <=> Torn(r)
BY DEF Failed, Runs, Torn

(* A cancel for every worker *)
LEMMA AllCancelled ==
    ASSUME NEW as \in [Actors -> ActorRecords], NEW ws \in [Actors -> Workers],
           \A a \in Actors : Protocol(as[a], ws[a])
    PROVE  /\ CancelAll(ws) \in [Actors -> Workers]
           /\ \A a \in Actors : /\ Protocol(as[a], CancelAll(ws)[a])
                                /\ CancelAll(ws)[a].ran = ws[a].ran
                                /\ CancelAll(ws)[a].at = ws[a].at
                                /\ Gone(ws[a]) => CancelAll(ws)[a] = ws[a]
<1>1. ASSUME NEW a \in Actors
      PROVE  /\ Posted(ws[a], "cancel") \in Workers
             /\ Protocol(as[a], Posted(ws[a], "cancel"))
             /\ Posted(ws[a], "cancel").at = ws[a].at
             /\ Posted(ws[a], "cancel").ran = ws[a].ran
             /\ Gone(ws[a]) => Posted(ws[a], "cancel") = ws[a]
  BY CancelPosted
<1>2. QED
  BY <1>1 DEF CancelAll

(* An event about one actor: it is taken in, or it stops the run. *)
LEMMA EventInv ==
    ASSUME ExecutionInv, NEW a \in Actors, NEW q \in ActorRecords, NEW v \in Workers,
           actor' = [actor EXCEPT ![a] = q], Protocol(q, v),
           pc \notin {"absent", "factory"}, UNCHANGED <<pc, cancelled, teardowns>>,
           run.closed => Over(q, v), run.scheduleCompleted => q.exited /\ v.ran,
           actor[a].exited => q.exited,
           q.phase = "running" => actor[a].phase = "running",
           \/ /\ worker' = [worker EXCEPT ![a] = v] /\ run' = run
              /\ ~run.stopped => InStep(q, v)
           \/ /\ worker' = CancelAll([worker EXCEPT ![a] = v])
              /\ \E o : run' = Failed(run, o)
    PROVE  ExecutionInv'
<1> DEFINE ws == [worker EXCEPT ![a] = v]
<1>1. /\ ws \in [Actors -> Workers] /\ ws[a] = v /\ \A b \in Actors \ {a} : ws[b] = worker[b]
      /\ actor' \in [Actors -> ActorRecords] /\ actor'[a] = q
      /\ \A b \in Actors \ {a} : actor'[b] = actor[b]
  BY DEF ExecutionInv, Types
<1>2. \A b \in Actors : Protocol(actor'[b], ws[b])
  BY <1>1 DEF ExecutionInv, ActorInv
<1>3. \A b \in Actors : (run.closed => Over(actor'[b], ws[b]))
                        /\ (run.scheduleCompleted => actor'[b].exited /\ ws[b].ran)
                        /\ (actor[b].exited => actor'[b].exited)
                        /\ (actor'[b].phase = "running" => actor[b].phase = "running")
  BY <1>1 DEF ExecutionInv
<1>4. run \in Runs /\ pc \in Places0 /\ cancelled \in BOOLEAN /\ teardowns \in Nat
  BY DEF ExecutionInv, Types
<1> HIDE DEF ws
<1>5. CASE worker' = ws /\ run' = run /\ (~run.stopped => InStep(q, v))
  <2>1. Types'
    BY <1>1, <1>4, <1>5 DEF Types
  <2>2. (\A b \in Actors : ActorInv(actor[b], worker[b], run.stopped))'
    BY <1>1, <1>2, <1>5 DEF ExecutionInv, ActorInv
  <2>3. StepsDone(run', actor')
    <3> SUFFICES ASSUME ~run.stopped, NEW i \in 1 .. run.next, Steps[i].checkpoint = Completion
                 PROVE  actor'[Steps[i].actor].exited
      BY <1>5 DEF StepsDone
    <3>1. i \in 1 .. Len(Steps) /\ Steps[i].actor \in Actors
      BY <1>4, StepTypes DEF Runs
    <3>2. QED
      BY <1>3, <3>1 DEF ExecutionInv, StepsDone
  <2>4. Permitted'
    BY <1>3, <1>5 DEF ExecutionInv, Permitted, Step
  <2>5. QED
    BY <1>3, <1>5, <2>1, <2>2, <2>3, <2>4 DEF ExecutionInv
<1>6. CASE worker' = CancelAll(ws) /\ \E o : run' = Failed(run, o)
  <2>1. /\ run' \in Runs /\ run'.stopped /\ run'.closed = run.closed
        /\ run'.scheduleCompleted = run.scheduleCompleted /\ run'.cleanup = run.cleanup
    BY <1>4, <1>6, FailedFacts
  <2>2. /\ worker' \in [Actors -> Workers]
        /\ \A b \in Actors : /\ Protocol(actor'[b], worker'[b])
                             /\ worker'[b].ran = ws[b].ran /\ worker'[b].at = ws[b].at
    BY <1>1, <1>2, <1>6, AllCancelled
  <2>3. Types'
    BY <1>1, <1>4, <2>1, <2>2 DEF Types
  <2>4. RunInv(pc', run')
    BY <2>1 DEF ExecutionInv, RunInv, Torn
  <2>5. \A b \in Actors : run'.closed => Over(actor'[b], worker'[b])
    BY <1>3, <2>1, <2>2 DEF Over, Gone
  <2>6. QED
    BY <1>3, <2>1, <2>2, <2>3, <2>4, <2>5 DEF ExecutionInv, ActorInv, StepsDone, Permitted
<1>7. QED
  BY <1>5, <1>6 DEF ws

(* A step of a worker thread *)
LEMMA BecomesInv ==
    ASSUME ExecutionInv, NEW a \in Actors, NEW v \in Workers, ~Gone(worker[a]),
           ActorInv(actor[a], v, run.stopped), Becomes(a, v)
    PROVE  ExecutionInv'
<1>1. actor[a] \in ActorRecords /\ worker[a] \in Workers /\ run.stopped \in BOOLEAN
  BY DEF ExecutionInv, Types, Runs
<1>2. pc \notin {"absent", "factory"}
  BY DEF ExecutionInv, Untouched, NoWorker, Gone
<1>3. ~run.closed /\ ~run.scheduleCompleted
  BY DEF ExecutionInv, Over, ActorInv, Protocol, Gone
<1>4. /\ actor' = [actor EXCEPT ![a] = actor[a]] /\ worker' = [worker EXCEPT ![a] = v]
      /\ run' = run /\ UNCHANGED <<pc, cancelled, teardowns>>
  BY DEF Becomes, ExecutionInv, Types
<1>5. Protocol(actor[a], v) /\ (~run.stopped => InStep(actor[a], v))
  BY DEF ActorInv
<1>6. QED
  BY <1>1, <1>2, <1>3, <1>4, <1>5, EventInv

(* Every step of a worker thread *)
LEMMA WorkerInv ==
    ASSUME ExecutionInv, NEW a \in Actors, WorkerStep(a)
    PROVE  ExecutionInv'
<1> DEFINE w == worker[a]
           r == actor[a]
<1>1. r \in ActorRecords /\ w \in Workers /\ run.stopped \in BOOLEAN
      /\ ActorInv(r, w, run.stopped)
  BY DEF ExecutionInv, Types, Runs
<1>2. w.at # "confused"
  BY <1>1 DEF Workers, Places
<1>3. SUFFICES \E v \in Workers : ActorInv(r, v, run.stopped) /\ Becomes(a, v) /\ ~Gone(w)
  BY BecomesInv
<1>4. CASE WorkerBoots(a)
  BY <1>1, <1>4, BootInv DEF WorkerBoots, Gone
<1>5. CASE WorkerReceives(a)
  BY <1>1, <1>5, ReceiveInv DEF WorkerReceives, Gone
<1>6. CASE WorkerArrives(a)
  <2>1. PICK c \in Checkpoints \cup {Undeclared} :
           Becomes(a, Sent(w, Message("arrival", c), IF w.aborted THEN "ending" ELSE "waiting"))
    BY <1>6 DEF WorkerArrives
  <2>2. w.at = "running"
    BY <1>6 DEF WorkerArrives
  <2>3. QED
    BY <1>1, <2>1, <2>2, ArriveInv DEF Gone
<1>7. CASE WorkerRequests(a)
  BY <1>1, <1>7, RequestInv DEF WorkerRequests, Gone
<1>8. CASE WorkerFinishes(a)
  BY <1>1, <1>8, FinishInv DEF WorkerFinishes, Gone
<1>9. CASE WorkerFails(a)
  BY <1>1, <1>9, FailureInv DEF WorkerFails, Gone
<1>10. CASE WorkerCallsLate(a)
  BY <1>1, <1>10, FailureInv DEF WorkerCallsLate, Gone
<1>11. CASE WorkerExits(a)
  BY <1>1, <1>2, <1>11, ExitInv DEF WorkerExits, Gone
<1>12. QED
  BY <1>4, <1>5, <1>6, <1>7, <1>8, <1>9, <1>10, <1>11 DEF WorkerStep

(* The handler of a worker's message *)
LEMMA MessageInv ==
    ASSUME ExecutionInv, NEW a \in Actors, MessageArrives(a)
    PROVE  ExecutionInv'
<1> DEFINE w == worker[a]
           r == actor[a]
           m == Head(w.outbox)
           u == [w EXCEPT !.outbox = Tail(@)]
           ws == [worker EXCEPT ![a].outbox = Tail(@)]
           Owned == r.phase = "running" /\ ~r.requestPending
           Fails == (\E o : run' = Failed(run, o)) /\ worker' = CancelAll(ws) /\ actor' = actor
           Ignored == run.stopped /\ run' = run /\ actor' = actor /\ worker' = ws
<1>1. /\ r \in ActorRecords /\ w \in Workers /\ run.stopped \in BOOLEAN
      /\ ActorInv(r, w, run.stopped) /\ Protocol(r, w)
      /\ actor \in [Actors -> ActorRecords] /\ worker \in [Actors -> Workers]
  BY DEF ExecutionInv, Types, Runs, ActorInv
<1>2. w.outbox # <<>> /\ ~r.exited /\ UNCHANGED <<pc, cancelled, teardowns>>
  BY DEF MessageArrives
<1>3. /\ u \in Workers /\ Protocol(r, u) /\ m \in Messages /\ u.at = w.at /\ u.ran = w.ran
  BY <1>1, <1>2, TakenFacts
<1>4. ws = [worker EXCEPT ![a] = u]
  BY <1>1
<1>5. pc \notin {"absent", "factory"}
  BY <1>2 DEF ExecutionInv, Untouched, NoWorker
<1>6. ~run.scheduleCompleted /\ (run.closed => Over(r, u) /\ run.stopped)
  BY <1>2, <1>3 DEF ExecutionInv, Over, Gone, RunInv
<1>7. \/ Fails \/ Ignored
      \/ /\ m.kind = "ready" /\ r.phase = "starting" /\ run' = run /\ worker' = ws
         /\ actor' = [actor EXCEPT ![a].phase = "parked"]
      \/ /\ m.kind = "arrival" /\ ~run.stopped /\ Owned /\ m.checkpoint \in Checkpoints
         /\ actor' = [actor EXCEPT ![a].phase = "parked", ![a].checkpoint = m.checkpoint]
         /\ run' = run /\ worker' = ws
      \/ /\ m.kind = "finished" /\ (run.stopped \/ Owned) /\ run' = run
         /\ actor' = [actor EXCEPT ![a] = Completed(@)]
         /\ worker' = [ws EXCEPT ![a] = Posted(@, "completion-ack")]
      \/ /\ m.kind = "request" /\ ~run.stopped /\ Owned /\ run' = run /\ worker' = ws
         /\ actor' = [actor EXCEPT ![a].requestPending = TRUE]
  BY DEF MessageArrives, Handle
<1> HIDE DEF w, r, m, u, ws
<1>8. CASE Fails
  <2>1. actor' = [actor EXCEPT ![a] = r]
    BY <1>1, <1>8 DEF r
  <2>2. QED
    BY <1>1, <1>2, <1>3, <1>4, <1>5, <1>6, <1>8, <2>1, EventInv DEF r
<1>9. CASE Ignored
  <2>1. actor' = [actor EXCEPT ![a] = r]
    BY <1>1, <1>9 DEF r
  <2>2. QED
    BY <1>1, <1>2, <1>3, <1>4, <1>5, <1>6, <1>9, <2>1, EventInv DEF r
<1>10. CASE /\ m.kind = "ready" /\ r.phase = "starting" /\ run' = run /\ worker' = ws
            /\ actor' = [actor EXCEPT ![a].phase = "parked"]
  <2> DEFINE q == [r EXCEPT !.phase = "parked"]
  <2>1. actor' = [actor EXCEPT ![a] = q]
    BY <1>1, <1>10 DEF r
  <2>2. q.phase = "parked" /\ q.exited = r.exited /\ q.requestPending = r.requestPending
    BY <1>1 DEF ActorRecords
  <2>3. q \in ActorRecords /\ Protocol(q, u) /\ (~run.stopped => InStep(q, u))
    BY <1>1, <1>2, <1>10, ReadyInv DEF ActorInv, u, m
  <2>4. run.closed => Over(q, u)
    BY <1>6, <2>2 DEF Over
  <2> HIDE DEF q
  <2>5. QED
    BY <1>2, <1>3, <1>4, <1>5, <1>6, <1>10, <2>1, <2>2, <2>3, <2>4, EventInv DEF r
<1>11. CASE /\ m.kind = "arrival" /\ ~run.stopped /\ Owned /\ m.checkpoint \in Checkpoints
            /\ actor' = [actor EXCEPT ![a].phase = "parked", ![a].checkpoint = m.checkpoint]
            /\ run' = run /\ worker' = ws
  <2> DEFINE q == [r EXCEPT !.phase = "parked", !.checkpoint = m.checkpoint]
  <2>1. actor' = [actor EXCEPT ![a] = q]
    BY <1>1, <1>11 DEF r
  <2>2. q.phase = "parked" /\ q.exited = r.exited
    BY <1>1 DEF ActorRecords
  <2>3. ActorInv(r, w, FALSE)
    BY <1>1, <1>11
  <2>4. q \in ActorRecords /\ Protocol(q, u) /\ InStep(q, u)
    <3>1. /\ Head(w.outbox).kind = "arrival" /\ r.phase = "running"
          /\ m.checkpoint \in Checkpoints
      BY <1>11 DEF m
    <3>2. QED
      BY <1>1, <1>2, <2>3, <3>1, ArrivalInv DEF u
  <2> HIDE DEF q
  <2>5. QED
    BY <1>2, <1>3, <1>4, <1>5, <1>6, <1>11, <2>1, <2>2, <2>4, EventInv DEF r
<1>12. CASE /\ m.kind = "finished" /\ (run.stopped \/ Owned) /\ run' = run
            /\ actor' = [actor EXCEPT ![a] = Completed(@)]
            /\ worker' = [ws EXCEPT ![a] = Posted(@, "completion-ack")]
  <2> DEFINE q == Completed(r)
             v == Posted(u, "completion-ack")
  <2>1. actor' = [actor EXCEPT ![a] = q] /\ worker' = [worker EXCEPT ![a] = v]
    BY <1>1, <1>4, <1>12 DEF r
  <2>2. q.phase = "finishing" /\ q.exited = r.exited /\ q.requestPending = r.requestPending
    BY <1>1 DEF ActorRecords, Completed
  <2>3. /\ v \in Workers /\ q \in ActorRecords /\ Protocol(q, v) /\ v.at = w.at
        /\ ~run.stopped => InStep(q, v)
    BY <1>1, <1>2, <1>12, FinishedInv DEF ActorInv, u, m
  <2> HIDE DEF q, v
  <2>4. run.closed => Over(q, v)
    BY <1>3, <1>6, <2>2, <2>3 DEF Over, Gone
  <2>5. QED
    BY <1>2, <1>5, <1>6, <1>12, <2>1, <2>2, <2>3, <2>4, EventInv DEF r
<1>13. CASE /\ m.kind = "request" /\ ~run.stopped /\ Owned /\ run' = run /\ worker' = ws
            /\ actor' = [actor EXCEPT ![a].requestPending = TRUE]
  <2> DEFINE q == [r EXCEPT !.requestPending = TRUE]
  <2>1. actor' = [actor EXCEPT ![a] = q]
    BY <1>1, <1>13 DEF r
  <2>2. q.phase = r.phase /\ q.exited = r.exited
    BY <1>1 DEF ActorRecords
  <2>3. ActorInv(r, w, FALSE)
    BY <1>1, <1>13
  <2>4. q \in ActorRecords /\ Protocol(q, u) /\ InStep(q, u)
    BY <1>1, <1>2, <1>13, <2>3, RequestedInv DEF ActorInv, u, m
  <2> HIDE DEF q
  <2>5. QED
    BY <1>2, <1>3, <1>4, <1>5, <1>6, <1>13, <2>1, <2>2, <2>4, EventInv DEF r
<1>14. QED
  BY <1>7, <1>8, <1>9, <1>10, <1>11, <1>12, <1>13

(* A request settles. *)
LEMMA SettleInv ==
    ASSUME ExecutionInv, NEW a \in Actors, RequestSettles(a)
    PROVE  ExecutionInv'
<1> DEFINE w == worker[a]
           r == actor[a]
           q == [r EXCEPT !.requestPending = FALSE]
           v == Posted(w, "reply")
<1>1. /\ r \in ActorRecords /\ w \in Workers /\ run.stopped \in BOOLEAN
      /\ ActorInv(r, w, run.stopped) /\ Protocol(r, w)
      /\ actor \in [Actors -> ActorRecords] /\ worker \in [Actors -> Workers]
  BY DEF ExecutionInv, Types, Runs, ActorInv
<1>2. r.requestPending /\ UNCHANGED <<pc, cancelled, teardowns>>
  BY DEF RequestSettles
<1>3. ~run.closed /\ pc \notin {"absent", "factory"}
  BY <1>2 DEF ExecutionInv, Over, Untouched, FreshActor
<1>4. /\ q \in ActorRecords /\ q.phase = r.phase /\ q.exited = r.exited
      /\ q.reportedFinish = r.reportedFinish
  BY <1>1 DEF ActorRecords
<1>5. actor' = [actor EXCEPT ![a] = q]
  BY <1>1 DEF RequestSettles
<1>6. /\ run.scheduleCompleted => q.exited /\ w.ran
      /\ run.scheduleCompleted => run.stopped
  BY <1>4 DEF ExecutionInv, RunInv
<1>7. \/ run.stopped /\ run' = run /\ worker' = [worker EXCEPT ![a] = w]
      \/ /\ ~run.stopped
         /\ \/ worker' = [worker EXCEPT ![a] = v] /\ run' = run
            \/ /\ worker' = CancelAll([worker EXCEPT ![a] = v])
               /\ \E o : run' = Failed(run, o)
  BY <1>1 DEF RequestSettles
<1>8. Protocol(q, w)
  BY <1>1, <1>4 DEF Protocol
<1>9. ~run.stopped => v \in Workers /\ Protocol(q, v) /\ InStep(q, v)
  BY <1>1, <1>2, ReplyInv DEF ActorInv
<1> HIDE DEF w, r, q, v
<1>10. CASE run.stopped
  BY <1>1, <1>2, <1>3, <1>4, <1>5, <1>6, <1>7, <1>8, <1>10, EventInv DEF r
<1>11. CASE ~run.stopped
  BY <1>2, <1>3, <1>4, <1>5, <1>6, <1>7, <1>9, <1>11, EventInv DEF r
<1>12. QED
  BY <1>10, <1>11

(* The exit event of a worker *)
LEMMA ExitEventInv ==
    ASSUME ExecutionInv, NEW a \in Actors, ExitEvent(a)
    PROVE  ExecutionInv'
<1> DEFINE w == worker[a]
           r == actor[a]
           q == [r EXCEPT !.exited = TRUE, !.phase = "finished", !.checkpoint = Completion]
           v == [w EXCEPT !.outbox = <<>>]
<1>1. /\ r \in ActorRecords /\ w \in Workers /\ run.stopped \in BOOLEAN
      /\ ActorInv(r, w, run.stopped)
      /\ actor \in [Actors -> ActorRecords] /\ worker \in [Actors -> Workers]
  BY DEF ExecutionInv, Types, Runs
<1>2. w.at = "exited" /\ ~r.exited /\ UNCHANGED <<pc, cancelled, teardowns>>
  BY DEF ExitEvent
<1>3. pc \notin {"absent", "factory"} /\ ~run.scheduleCompleted
  BY <1>2 DEF ExecutionInv, Untouched, NoWorker
<1>4. /\ v \in Workers /\ q \in ActorRecords /\ Protocol(q, v) /\ v.at = w.at
      /\ q.exited /\ q.requestPending = r.requestPending /\ q.phase = "finished"
      /\ ~run.stopped /\ w.code = 0 /\ r.reportedFinish => InStep(q, v)
  BY <1>1, <1>2, ExitedInv
<1>5. actor' = [actor EXCEPT ![a] = q]
  BY <1>1 DEF ExitEvent
<1>6. \/ /\ worker' = [worker EXCEPT ![a] = v] /\ run' = run
         /\ ~run.stopped => w.code = 0 /\ r.reportedFinish
      \/ worker' = CancelAll([worker EXCEPT ![a] = v]) /\ \E o : run' = Failed(run, o)
  <2>1. [worker EXCEPT ![a].outbox = <<>>] = [worker EXCEPT ![a] = v]
    BY <1>1
  <2>2. QED
    BY <2>1 DEF ExitEvent
<1> HIDE DEF w, r, q, v
<1>7. run.closed => Over(q, v)
  BY <1>2, <1>4 DEF ExecutionInv, Over, Gone, r
<1>8. QED
  BY <1>2, <1>3, <1>4, <1>5, <1>6, <1>7, EventInv DEF r

-----------------------------------------------------------------------------
(* The execution: the controller's own steps *)

(* The run stops where it is. *)
LEMMA StopInv ==
    ASSUME ExecutionInv, pc # "absent", NEW o, run' = Failed(run, o),
           worker' = CancelAll(worker), UNCHANGED <<pc, actor, teardowns>>, cancelled' \in BOOLEAN
    PROVE  ExecutionInv'
<1>1. /\ run \in Runs /\ actor \in [Actors -> ActorRecords] /\ worker \in [Actors -> Workers]
      /\ \A a \in Actors : Protocol(actor[a], worker[a])
  BY DEF ExecutionInv, Types, ActorInv
<1>2. /\ run' \in Runs /\ run'.stopped /\ run'.closed = run.closed
      /\ run'.scheduleCompleted = run.scheduleCompleted /\ run'.cleanup = run.cleanup
  BY <1>1, FailedFacts
<1>3. /\ worker' \in [Actors -> Workers]
      /\ \A a \in Actors : /\ Protocol(actor[a], worker'[a])
                           /\ worker'[a].ran = worker[a].ran
                           /\ Gone(worker[a]) => worker'[a] = worker[a]
  BY <1>1, AllCancelled
<1>4. Types'
  BY <1>2, <1>3 DEF ExecutionInv, Types
<1>5. RunInv(pc', run')
  BY <1>2 DEF ExecutionInv, RunInv, Torn
<1>6. \A a \in Actors : Untouched(actor[a], worker[a]) => Untouched(actor[a], worker'[a])
  BY <1>3 DEF Untouched, NoWorker, Gone
<1>7. \A a \in Actors : Over(actor[a], worker[a]) => Over(actor[a], worker'[a])
  BY <1>3 DEF Over
<1>8. QED
  BY <1>2, <1>3, <1>4, <1>5, <1>6, <1>7 DEF ExecutionInv, ActorInv, StepsDone, Permitted

(* cleanupInternal begins: the run is stopped and every worker cancelled,   *)
(* unless it was closed before.                                            *)
LEMMA BeginCleanupInv ==
    ASSUME ExecutionInv, NEW r \in Runs, r.closed => r = run, ~r.closed => ~Torn(r),
           r.scheduleCompleted => \A a \in Actors : actor[a].exited /\ worker[a].ran,
           BeginCleanup(r), UNCHANGED <<actor, cancelled, teardowns>>
    PROVE  ExecutionInv'
<1>1. /\ run \in Runs /\ actor \in [Actors -> ActorRecords] /\ worker \in [Actors -> Workers]
      /\ \A a \in Actors : Protocol(actor[a], worker[a])
  BY DEF ExecutionInv, Types, ActorInv
<1>2. CASE r.closed
  <2>1. pc' = "idle" /\ run' = run /\ worker' = worker /\ run.closed
    BY <1>2 DEF BeginCleanup
  <2>2. Types'
    BY <2>1 DEF ExecutionInv, Types, Places0
  <2>3. RunInv(pc', run') /\ run.stopped
    BY <2>1 DEF ExecutionInv, RunInv
  <2>4. QED
    BY <2>1, <2>2, <2>3 DEF ExecutionInv, StepsDone, Permitted
<1>3. CASE ~r.closed
  <2>1. pc' = "cleanup" /\ worker' = CancelAll(worker)
    BY <1>3 DEF BeginCleanup
  <2>2. /\ run' \in Runs /\ run'.stopped /\ ~run'.closed /\ run'.cleanup = r.cleanup
        /\ run'.scheduleCompleted = r.scheduleCompleted
    BY <1>3 DEF BeginCleanup, Failed, Runs
  <2>3. /\ worker' \in [Actors -> Workers]
        /\ \A a \in Actors : /\ Protocol(actor[a], worker'[a])
                             /\ worker'[a].ran = worker[a].ran
    BY <1>1, <2>1, AllCancelled
  <2>4. Types'
    BY <2>1, <2>2, <2>3 DEF ExecutionInv, Types, Places0
  <2>5. RunInv(pc', run')
    BY <1>3, <2>1, <2>2 DEF RunInv, Torn
  <2>6. QED
    BY <2>1, <2>2, <2>3, <2>4, <2>5 DEF ExecutionInv, ActorInv, StepsDone, Permitted
<1>4. QED
  BY <1>2, <1>3

(* A failure found by the controller begins the cleanup. *)
LEMMA FailureCleanupInv ==
    ASSUME ExecutionInv, ~run.closed, NEW o, BeginCleanup(Failed(run, o)),
           UNCHANGED <<actor, cancelled, teardowns>>
    PROVE  ExecutionInv'
<1>1. run \in Runs /\ ~Torn(run)
  BY DEF ExecutionInv, Types, RunInv
<1> DEFINE r == Failed(run, o)
<1>2. /\ r \in Runs /\ ~r.closed /\ ~Torn(r) /\ r.scheduleCompleted = run.scheduleCompleted
  BY <1>1, FailedFacts
<1>3. BeginCleanup(r)
  OBVIOUS
<1> HIDE DEF r
<1>4. QED
  BY <1>2, <1>3, BeginCleanupInv DEF ExecutionInv

(* The cleanup of a run as it stands begins, or has been. *)
LEMMA RunCleanupInv ==
    ASSUME ExecutionInv, BeginCleanup(run), UNCHANGED <<actor, cancelled, teardowns>>
    PROVE  ExecutionInv'
<1>1. run \in Runs /\ (~run.closed => ~Torn(run))
  BY DEF ExecutionInv, Types, RunInv
<1>2. QED
  BY <1>1, BeginCleanupInv DEF ExecutionInv

(* The factory settles. *)
LEMMA FactoryInv ==
    ASSUME ExecutionInv, FactorySettles
    PROVE  ExecutionInv'
<1>1. /\ run \in Runs /\ actor \in [Actors -> ActorRecords] /\ worker \in [Actors -> Workers]
      /\ cancelled \in BOOLEAN /\ teardowns \in Nat /\ pc = "factory"
      /\ UNCHANGED <<actor, cancelled, teardowns>>
      /\ run.stopped \in BOOLEAN
  BY DEF ExecutionInv, Types, FactorySettles, Runs
<1>2. /\ ~run.closed /\ ~run.scheduleCompleted /\ ~Torn(run)
      /\ ~run.stopped => run.next < Len(Steps)
  BY <1>1 DEF ExecutionInv, RunInv
<1>3. \A a \in Actors : actor[a] = FreshActor /\ worker[a] = NoWorker
  BY <1>1 DEF ExecutionInv, Untouched
<1>4. /\ FreshActor.phase = "starting" /\ ~FreshActor.requestPending /\ Gone(NoWorker)
  BY DEF FreshActor, NoWorker, Gone
<1>5. CASE /\ run' = [Failed(run, "application_failed") EXCEPT !.closed = TRUE]
           /\ pc' = "idle" /\ worker' = worker
  <2>1. /\ run' \in Runs /\ run'.stopped /\ run'.closed /\ run'.cleanup = run.cleanup
        /\ ~run'.scheduleCompleted
    BY <1>1, <1>2, <1>5 DEF Failed, Runs
  <2>2. Types' /\ RunInv(pc', run')
    BY <1>1, <1>2, <1>5, <2>1 DEF Types, Places0, RunInv, Torn
  <2>3. \A a \in Actors : Over(actor[a], worker[a]) /\ Protocol(actor[a], worker[a])
    BY <1>3, <1>4 DEF Over, ExecutionInv, ActorInv
  <2>4. QED
    BY <1>1, <1>5, <2>1, <2>2, <2>3 DEF ExecutionInv, ActorInv, StepsDone, Permitted
<1>6. CASE /\ \E p \in BOOLEAN :
                 run' = [Failed(run, "application_failed") EXCEPT !.program = p]
           /\ pc' = "start" /\ worker' = worker
  <2>1. /\ run' \in Runs /\ run'.stopped /\ ~run'.closed /\ run'.cleanup = run.cleanup
        /\ ~run'.scheduleCompleted
    BY <1>1, <1>2, <1>6 DEF Failed, Runs
  <2>2. Types' /\ RunInv(pc', run')
    BY <1>1, <1>2, <1>6, <2>1 DEF Types, Places0, RunInv, Torn
  <2>3. QED
    BY <1>1, <1>6, <2>1, <2>2 DEF ExecutionInv, ActorInv, StepsDone, Permitted
<1>7. ASSUME NEW made \in SUBSET Actors,
             NEW ws, ws = [a \in Actors |-> IF a \in made THEN FreshWorker ELSE NoWorker],
             NEW r, r = [run EXCEPT !.program = TRUE],
             \/ made = Actors /\ run' = r /\ worker' = ws
             \/ run' = Failed(r, "resource_failed") /\ worker' = CancelAll(ws),
             pc' = "start"
      PROVE  ExecutionInv'
  <2>1. /\ r \in Runs /\ r.stopped = run.stopped /\ ~r.closed /\ r.cleanup = run.cleanup
        /\ ~r.scheduleCompleted /\ r.next = run.next
    BY <1>1, <1>2, <1>7 DEF Runs
  <2>2. /\ ws \in [Actors -> Workers] /\ r.stopped \in BOOLEAN
        /\ \A a \in Actors : ActorInv(actor[a], ws[a], r.stopped) /\ Protocol(actor[a], ws[a])
    BY <1>1, <1>3, <1>7, <2>1, FreshInv DEF ActorInv
  <2>3. CASE run' = r /\ worker' = ws
    <3>1. Types' /\ RunInv(pc', run')
      BY <1>1, <1>2, <1>7, <2>1, <2>2, <2>3 DEF Types, Places0, RunInv, Torn
    <3>2. StepsDone(run', actor') /\ Permitted'
      BY <1>1, <1>3, <1>4, <2>1, <2>3 DEF ExecutionInv, StepsDone, Permitted
    <3>3. QED
      BY <1>1, <1>7, <2>1, <2>2, <2>3, <3>1, <3>2 DEF ExecutionInv
  <2>4. CASE run' = Failed(r, "resource_failed") /\ worker' = CancelAll(ws)
    <3>1. /\ run' \in Runs /\ run'.stopped /\ ~run'.closed /\ run'.cleanup = run.cleanup
          /\ ~run'.scheduleCompleted
      BY <2>1, <2>4, FailedFacts
    <3>2. /\ worker' \in [Actors -> Workers]
          /\ \A a \in Actors : Protocol(actor[a], worker'[a])
      BY <1>1, <2>2, <2>4, AllCancelled
    <3>3. Types' /\ RunInv(pc', run')
      BY <1>1, <1>2, <1>7, <3>1, <3>2 DEF Types, Places0, RunInv, Torn
    <3>4. QED
      BY <1>1, <1>7, <3>1, <3>2, <3>3 DEF ExecutionInv, ActorInv, StepsDone, Permitted
  <2>5. QED
    BY <1>7, <2>3, <2>4
<1>8. QED
  BY <1>5, <1>6, <1>7 DEF FactorySettles

(* The cleanup's wait ends: only when nothing remains does the run close. *)
LEMMA CleanupInv ==
    ASSUME ExecutionInv, CleanupWaitEnds
    PROVE  ExecutionInv'
<1>1. /\ run \in Runs /\ pc = "cleanup" /\ run.stopped /\ ~run.closed /\ ~Torn(run)
      /\ UNCHANGED <<actor, worker, cancelled, teardowns>>
  BY DEF ExecutionInv, Types, RunInv, CleanupWaitEnds
<1>2. CASE Remaining # {}
  <2>1. /\ run' \in Runs /\ run'.stopped /\ ~run'.closed /\ run'.cleanup = "incomplete"
        /\ run'.scheduleCompleted = run.scheduleCompleted /\ pc' = "idle"
    BY <1>1, <1>2 DEF CleanupWaitEnds, Runs, Cleanups
  <2>2. Types' /\ RunInv(pc', run')
    BY <1>1, <2>1 DEF ExecutionInv, Types, Places0, RunInv, Torn
  <2>3. QED
    BY <1>1, <2>1, <2>2 DEF ExecutionInv, ActorInv, StepsDone, Permitted
<1>3. CASE Remaining = {}
  <2>1. /\ run' \in Runs /\ run'.stopped /\ run'.closed
        /\ run'.cleanup = run.cleanup \/ run'.cleanup = "not_started"
        /\ run'.scheduleCompleted = run.scheduleCompleted /\ pc' \in {"idle", "teardown"}
    BY <1>1, <1>3 DEF CleanupWaitEnds, Runs, Cleanups
  <2>2. Types' /\ RunInv(pc', run')
    BY <1>1, <2>1 DEF ExecutionInv, Types, Places0, RunInv, Torn
  <2>3. ASSUME NEW a \in Actors PROVE Over(actor[a], worker[a])
    <3>1. (worker[a].at = "none" \/ actor[a].exited) /\ ~actor[a].requestPending
      BY <1>3 DEF Remaining
    <3>2. QED
      BY <3>1 DEF ExecutionInv, ActorInv, Protocol, Over, Gone
  <2>4. QED
    BY <1>1, <2>1, <2>2, <2>3 DEF ExecutionInv, ActorInv, StepsDone, Permitted
<1>4. QED
  BY <1>2, <1>3

(* The program is torn down. *)
LEMMA TeardownInv ==
    ASSUME ExecutionInv, TeardownSettles
    PROVE  ExecutionInv'
<1>1. /\ run \in Runs /\ pc = "teardown" /\ run.stopped /\ run.closed /\ pc' = "idle"
      /\ UNCHANGED <<actor, worker, cancelled>> /\ teardowns' = teardowns + 1
  BY DEF ExecutionInv, Types, RunInv, TeardownSettles
<1>2. /\ run' \in Runs /\ run'.stopped /\ run'.closed
      /\ run'.scheduleCompleted = run.scheduleCompleted
  BY <1>1 DEF TeardownSettles, Runs, Cleanups
<1>3. Types' /\ RunInv(pc', run')
  BY <1>1, <1>2 DEF ExecutionInv, Types, Places0, RunInv, Torn
<1>4. QED
  BY <1>1, <1>2, <1>3 DEF ExecutionInv, ActorInv, StepsDone, Permitted

(* start() makes everything new. *)
LEMMA StartInv ==
    ASSUME ExecutionInv, StartCall
    PROVE  ExecutionInv'
<1>1. /\ actor' \in [Actors -> ActorRecords] /\ worker' \in [Actors -> Workers]
      /\ \A a \in Actors : actor'[a] = FreshActor /\ worker'[a] = NoWorker
      /\ UNCHANGED <<cancelled, teardowns>> /\ cancelled \in BOOLEAN /\ teardowns \in Nat
  BY FreshInv DEF StartCall, ExecutionInv, Types
<1>2. \A a \in Actors : /\ \A stopped \in BOOLEAN : ActorInv(actor'[a], worker'[a], stopped)
                        /\ Over(actor'[a], worker'[a]) /\ Untouched(actor'[a], worker'[a])
                        /\ actor'[a].phase = "starting"
  <2>1. FreshActor.phase = "starting"
    BY DEF FreshActor
  <2> HIDE DEF FreshActor, NoWorker
  <2>2. QED
    BY <1>1, <2>1, FreshInv DEF Untouched
<1>3. /\ FreshRun \in Runs /\ ~FreshRun.stopped /\ ~FreshRun.closed /\ FreshRun.next = 0
      /\ ~FreshRun.scheduleCompleted /\ FreshRun.cleanup = "not_started"
  BY StepTypes DEF FreshRun, Runs, Cleanups
<1> HIDE DEF FreshRun, FreshActor, NoWorker
<1>4. CASE \E o : run' = [Failed(FreshRun, o) EXCEPT !.closed = TRUE] /\ pc' = "idle"
  <2>1. /\ run' \in Runs /\ run'.stopped /\ run'.closed /\ ~run'.scheduleCompleted
        /\ run'.cleanup = "not_started"
    BY <1>3, <1>4 DEF Failed, Runs
  <2>2. Types' /\ RunInv(pc', run')
    BY <1>1, <1>4, <2>1 DEF Types, Places0, RunInv, Torn
  <2>3. \A a \in Actors : ActorInv(actor'[a], worker'[a], run'.stopped)
    BY <1>2, <2>1 DEF Runs
  <2>4. QED
    BY <1>2, <1>4, <2>1, <2>2, <2>3 DEF ExecutionInv, StepsDone, Permitted
<1>5. CASE run' = FreshRun /\ pc' = "factory"
  <2>1. Types' /\ RunInv(pc', run')
    BY <1>1, <1>3, <1>5, StepTypes DEF Types, Places0, RunInv, Torn
  <2>2. StepsDone(run', actor') /\ Permitted'
    BY <1>2, <1>3, <1>5 DEF StepsDone, Permitted
  <2>3. QED
    BY <1>2, <1>3, <1>5, <2>1, <2>2 DEF ExecutionInv, ActorInv
<1>6. QED
  BY <1>4, <1>5 DEF StartCall

(* What an observation that did not stop the run says of the actors *)
LEMMA ObservedFacts ==
    ASSUME NEW r \in Runs, NEW s \in Observed(r)
    PROVE  /\ s.stopped \/ (s = r /\ Quiescent)
           /\ s \in Runs /\ s.closed = r.closed /\ s.next = r.next
           /\ s.scheduleCompleted = r.scheduleCompleted /\ (Torn(s) <=> Torn(r))
<1>1. s = r \/ \E o : s = Failed(r, o)
  BY DEF Observed
<1>2. s = r => s.stopped \/ Quiescent
  BY FailedFacts DEF Observed
<1>3. QED
  BY <1>1, <1>2, FailedFacts

(* The wait of start() ends. *)
LEMMA StartWaitInv ==
    ASSUME ExecutionInv, StartWaitEnds
    PROVE  ExecutionInv'
<1>1. /\ run \in Runs /\ pc = "start" /\ ~run.closed /\ ~Torn(run) /\ ~run.scheduleCompleted
      /\ UNCHANGED <<actor, cancelled, teardowns>>
  BY DEF ExecutionInv, Types, RunInv, StartWaitEnds
<1>2. CASE BeginCleanup(run)
  BY <1>1, <1>2, RunCleanupInv
<1>3. CASE BeginCleanup(Failed(run, "timed_out"))
  BY <1>1, <1>3, FailureCleanupInv
<1>4. ASSUME ~run.stopped, \A a \in Actors : actor[a].phase = "parked",
             NEW r \in Observed(run),
             IF r.stopped THEN BeginCleanup(r)
             ELSE pc' = "idle" /\ run' = r /\ UNCHANGED worker
      PROVE  ExecutionInv'
  <2>1. /\ r \in Runs /\ ~r.closed /\ ~Torn(r) /\ ~r.scheduleCompleted
        /\ ~r.stopped => r = run
    BY <1>1, <1>4, ObservedFacts
  <2>2. CASE r.stopped
    BY <1>1, <1>4, <2>1, <2>2, BeginCleanupInv
  <2>3. CASE ~r.stopped
    <3>1. pc' = "idle" /\ run' = run /\ worker' = worker
      BY <1>4, <2>1, <2>3
    <3>2. Types' /\ RunInv(pc', run')
      BY <1>1, <3>1 DEF ExecutionInv, Types, Places0, RunInv
    <3>3. QED
      BY <1>1, <1>4, <3>1, <3>2 DEF ExecutionInv, StepsDone, Permitted
  <2>4. QED
    BY <2>2, <2>3
<1>5. QED
  BY <1>2, <1>3, <1>4 DEF StartWaitEnds

(* With its last step done, every worker has run to its end. *)
LEMMA ScheduleDone ==
    ASSUME ExecutionInv, NEW n, n = Len(Steps), ~run.stopped,
           \A i \in 1 .. n : Steps[i].checkpoint = Completion => actor[Steps[i].actor].exited
    PROVE  \A a \in Actors : actor[a].exited /\ worker[a].ran
<1> SUFFICES ASSUME NEW a \in Actors PROVE actor[a].exited /\ worker[a].ran
  OBVIOUS
<1>1. PICK i \in 1 .. Len(Steps) : Steps[i] = [actor |-> a, checkpoint |-> Completion]
  BY ScheduleAssumption
<1>2. actor[a].exited
  BY <1>1
<1>3. QED
  BY <1>2 DEF ExecutionInv, ActorInv, InStep

(* The interval of a step ends. *)
LEMMA StepDoneInv ==
    ASSUME ExecutionInv, pc = "advance", ~run.stopped, AdvanceArrived,
           actor[Step.actor].checkpoint = Step.checkpoint, StepDone,
           UNCHANGED <<actor, cancelled, teardowns>>
    PROVE  ExecutionInv'
<1> DEFINE n == run.next + 1
           ended == [run EXCEPT !.next = n]
<1>1. /\ run \in Runs /\ ~run.closed /\ ~Torn(run) /\ ~run.scheduleCompleted
      /\ run.next \in Nat /\ run.next < Len(Steps) /\ Len(Steps) \in Nat
  BY StepTypes DEF ExecutionInv, Types, RunInv, Runs
<1>2. /\ ended \in Runs /\ ~ended.closed /\ ~Torn(ended) /\ ~ended.scheduleCompleted
      /\ ended.next = n /\ ~ended.stopped /\ n \in 1 .. Len(Steps)
  BY <1>1 DEF Runs, Torn
<1>3. PICK r \in Observed(ended) :
         LET s == [r EXCEPT !.scheduleCompleted = ~r.stopped /\ r.next = Len(Steps)]
         IN  IF s.stopped \/ s.scheduleCompleted THEN BeginCleanup(s)
             ELSE pc' = "idle" /\ run' = s /\ UNCHANGED worker
  BY DEF StepDone
<1> HIDE DEF ended
<1>4. /\ r \in Runs /\ ~r.closed /\ ~Torn(r) /\ r.next = n
      /\ ~r.stopped => r = ended /\ Quiescent
  BY <1>2, ObservedFacts
<1> DEFINE s == [r EXCEPT !.scheduleCompleted = ~r.stopped /\ r.next = Len(Steps)]
<1>5. /\ s \in Runs /\ ~s.closed /\ ~Torn(s) /\ s.next = n /\ s.stopped = r.stopped
      /\ s.scheduleCompleted <=> ~r.stopped /\ n = Len(Steps)
  BY <1>4 DEF Runs, Torn
<1>6. IF s.stopped \/ s.scheduleCompleted THEN BeginCleanup(s)
      ELSE pc' = "idle" /\ run' = s /\ worker' = worker
  BY <1>3
<1> HIDE DEF s
<1>7. ASSUME NEW i \in 1 .. n, Steps[i].checkpoint = Completion
      PROVE  actor[Steps[i].actor].exited
  <2>1. CASE i = n
    <3>1. Steps[i] = Step /\ Step.actor \in Actors
      BY <1>2, <2>1, StepTypes DEF Step
    <3>2. actor[Step.actor].phase # "parked"
      BY <1>7, <3>1 DEF ExecutionInv, ActorInv, InStep, Parked
    <3>3. QED
      BY <3>1, <3>2 DEF AdvanceArrived, ExecutionInv, ActorInv, Protocol
  <2>2. CASE i # n
    <3>1. i \in 1 .. run.next
      BY <1>1, <2>2
    <3>2. QED
      BY <1>7, <3>1 DEF ExecutionInv, StepsDone
  <2>3. QED
    BY <2>1, <2>2
<1> HIDE DEF n
<1>8. CASE s.stopped \/ s.scheduleCompleted
  <2>1. s.scheduleCompleted => \A a \in Actors : actor[a].exited /\ worker[a].ran
    BY <1>5, <1>7, ScheduleDone
  <2>2. QED
    BY <1>5, <1>6, <1>8, <2>1, BeginCleanupInv
<1>9. CASE ~s.stopped /\ ~s.scheduleCompleted
  <2>1. /\ pc' = "idle" /\ run' = s /\ worker' = worker /\ Quiescent /\ n < Len(Steps)
    BY <1>1, <1>2, <1>4, <1>5, <1>6, <1>9
  <2>2. Types' /\ RunInv(pc', run')
    BY <1>5, <1>9, <2>1 DEF ExecutionInv, Types, Places0, RunInv
  <2>3. StepsDone(run', actor')
    BY <1>5, <1>7, <2>1 DEF StepsDone
  <2>4. Permitted'
    BY <2>1 DEF Permitted, Quiescent
  <2>5. ~run'.closed /\ ~run'.scheduleCompleted /\ ~run'.stopped
    BY <1>5, <1>9, <2>1
  <2>6. QED
    BY <2>1, <2>2, <2>3, <2>4, <2>5 DEF ExecutionInv, ActorInv
<1>10. QED
  BY <1>8, <1>9

(* The wait of advance() ends. *)
LEMMA AdvanceWaitInv ==
    ASSUME ExecutionInv, AdvanceWaitEnds
    PROVE  ExecutionInv'
<1>1. pc = "advance" /\ ~run.closed /\ UNCHANGED <<actor, cancelled, teardowns>>
  BY DEF ExecutionInv, RunInv, AdvanceWaitEnds
<1>2. CASE BeginCleanup(run)
  BY <1>1, <1>2, RunCleanupInv
<1>3. CASE \E o : BeginCleanup(Failed(run, o))
  BY <1>1, <1>3, FailureCleanupInv
<1>4. CASE /\ ~run.stopped /\ AdvanceArrived
           /\ actor[Step.actor].checkpoint = Step.checkpoint /\ StepDone
  BY <1>1, <1>4, StepDoneInv
<1>5. QED
  BY <1>2, <1>3, <1>4 DEF AdvanceWaitEnds

(* advance(): the step's actor, if it is parked, is permitted. *)
LEMMA AdvanceInv ==
    ASSUME ExecutionInv, NEW expected \in BOOLEAN, AdvanceCall(expected)
    PROVE  ExecutionInv'
<1>1. /\ run \in Runs /\ pc = "idle" /\ ~run.closed /\ ~run.stopped
      /\ ~Torn(run) /\ ~run.scheduleCompleted /\ run.next < Len(Steps)
      /\ UNCHANGED <<cancelled, teardowns>>
      /\ actor \in [Actors -> ActorRecords] /\ worker \in [Actors -> Workers]
  BY DEF ExecutionInv, Types, RunInv, AdvanceCall
<1>2. CASE (\E o : BeginCleanup(Failed(run, o))) /\ UNCHANGED actor
  BY <1>1, <1>2, FailureCleanupInv
<1>3. CASE /\ actor[Step.actor].phase = "parked"
           /\ actor' = [actor EXCEPT ![Step.actor].phase = "running"]
           /\ worker' = [worker EXCEPT ![Step.actor] = Posted(@, "permit")]
           /\ pc' = "advance" /\ UNCHANGED run
  <2> DEFINE a == Step.actor
             q == [actor[a] EXCEPT !.phase = "running"]
             v == Posted(worker[a], "permit")
  <2>1. a \in Actors /\ run.next + 1 \in 1 .. Len(Steps)
    BY <1>1, StepTypes DEF Step, Runs
  <2>2. /\ q \in ActorRecords /\ v \in Workers /\ ActorInv(q, v, FALSE)
    <3>1. ActorInv(actor[a], worker[a], FALSE) /\ actor[a].phase = "parked"
      BY <1>1, <1>3, <2>1 DEF ExecutionInv, ActorInv
    <3>2. QED
      BY <1>1, <2>1, <3>1, PermitInv
  <2>3. q.exited = actor[a].exited
    BY <1>1, <2>1 DEF ActorRecords
  <2>4. actor' = [actor EXCEPT ![a] = q] /\ worker' = [worker EXCEPT ![a] = v]
    BY <1>3
  <2>5. Step' = Step
    BY <1>3 DEF Step
  <2> HIDE DEF a, q, v
  <2>6. /\ actor' \in [Actors -> ActorRecords] /\ worker' \in [Actors -> Workers]
        /\ actor'[a] = q /\ worker'[a] = v
        /\ \A b \in Actors \ {a} : actor'[b] = actor[b] /\ worker'[b] = worker[b]
    BY <1>1, <2>1, <2>2, <2>4
  <2>7. Types' /\ RunInv(pc', run')
    BY <1>1, <1>3, <2>6 DEF ExecutionInv, Types, Places0, RunInv
  <2>8. (\A b \in Actors : ActorInv(actor[b], worker[b], run.stopped))'
    BY <1>1, <1>3, <2>2, <2>6 DEF ExecutionInv, ActorInv
  <2>9. StepsDone(run', actor')
    <3> SUFFICES ASSUME NEW i \in 1 .. run.next, Steps[i].checkpoint = Completion
                 PROVE  actor'[Steps[i].actor].exited
      BY <1>3 DEF StepsDone
    <3>1. Steps[i].actor \in Actors
      BY <1>1, StepTypes DEF Runs
    <3>2. actor[Steps[i].actor].exited
      BY <1>1 DEF ExecutionInv, StepsDone
    <3>3. QED
      BY <2>3, <2>6, <3>1, <3>2
  <2>10. Permitted'
    <3>1. \A b \in Actors : actor[b].phase # "running"
      BY <1>1 DEF ExecutionInv, Permitted
    <3>2. QED
      BY <1>3, <2>5, <2>6, <3>1 DEF Permitted, a
  <2>11. QED
    BY <1>1, <1>3, <2>7, <2>8, <2>9, <2>10 DEF ExecutionInv
<1>4. QED
  BY <1>2, <1>3 DEF AdvanceCall

(* finish() *)
LEMMA FinishCallInv ==
    ASSUME ExecutionInv, FinishCall, UNCHANGED <<actor, cancelled, teardowns>>
    PROVE  ExecutionInv'
BY RunCleanupInv, FailureCleanupInv DEF FinishCall

(* The signal aborts. *)
LEMMA AbortInv ==
    ASSUME ExecutionInv, Abort, UNCHANGED <<pc, actor, teardowns>>
    PROVE  ExecutionInv'
<1>1. cancelled' = TRUE
  BY DEF Abort
<1>2. CASE pc # "absent" /\ ~run.closed
  <2>1. run' = Failed(run, "cancelled") /\ worker' = CancelAll(worker)
    BY <1>2 DEF Abort, fail
  <2>2. QED
    BY <1>1, <1>2, <2>1, StopInv
<1>3. CASE ~(pc # "absent" /\ ~run.closed)
  <2>1. UNCHANGED <<run, worker>>
    BY <1>3 DEF Abort
  <2>2. QED
    BY <1>1, <2>1 DEF ExecutionInv, Types, RunInv, Permitted, Step
<1>4. QED
  BY <1>2, <1>3

(* Every step of an execution *)
LEMMA ExecutionStep ==
    ASSUME ExecutionInv, ExecutionNext
    PROVE  ExecutionInv'
<1>1. CASE ControllerStep
  BY <1>1, FactoryInv, StartWaitInv, AdvanceWaitInv, CleanupInv, TeardownInv DEF ControllerStep
<1>2. ASSUME NEW a \in Actors, WorkerStep(a) PROVE ExecutionInv'
  BY <1>2, WorkerInv
<1>3. ASSUME NEW a \in Actors, MainEvent(a) PROVE ExecutionInv'
  BY <1>3, MessageInv, SettleInv, ExitEventInv DEF MainEvent
<1>4. QED
  BY <1>1, <1>2, <1>3 DEF ExecutionNext

-----------------------------------------------------------------------------
(* What a step of the execution shows to the session *)

(* The report of a passed execution changes no more; a program is torn down *)
(* once; the execution waits where the session left it.                     *)
Shown ==
    /\ pc' = "absent" <=> pc = "absent"
    /\ pc \in {"absent", "idle"} => pc' = pc
    /\ \/ (Torn(run') <=> Torn(run)) /\ teardowns' = teardowns
       \/ ~Torn(run) /\ Torn(run') /\ teardowns' = teardowns + 1 /\ pc # "absent"
    /\ ReceiptPassed => ReceiptPassed'

(* The beginning of a cleanup tears nothing down. *)
LEMMA BeginCleanupShown ==
    ASSUME ExecutionInv, NEW r \in Runs, r.closed = run.closed, r.cleanup = run.cleanup,
           BeginCleanup(r)
    PROVE  /\ pc' \in {"idle", "cleanup"} /\ (Torn(run') <=> Torn(run))
           /\ run' \in Runs
BY DEF BeginCleanup, Failed, Runs, Torn

(* The controller's own steps happen while the session waits for them. *)
LEMMA ControllerShown ==
    ASSUME ExecutionInv, ControllerStep
    PROVE  Shown /\ pc \notin {"absent", "idle"}
<1>1. run \in Runs
  BY DEF ExecutionInv, Types
<1>2. pc \notin {"absent", "idle"} /\ ~ReceiptPassed /\ ~Torn(run)
  <2>1. pc \notin {"absent", "idle"}
    BY DEF ControllerStep, FactorySettles, StartWaitEnds, AdvanceWaitEnds, CleanupWaitEnds,
           TeardownSettles
  <2>2. QED
    BY <2>1 DEF ExecutionInv, RunInv, ReceiptPassed, Torn
<1>3. CASE FactorySettles
  <2>1. pc' # "absent" /\ teardowns' = teardowns /\ run'.cleanup = run.cleanup
    BY <1>1, <1>3 DEF FactorySettles, Failed, Runs
  <2>2. QED
    BY <1>2, <2>1 DEF Shown, Torn
<1>4. CASE StartWaitEnds
  <2>1. /\ teardowns' = teardowns
        /\ \/ BeginCleanup(run) \/ BeginCleanup(Failed(run, "timed_out"))
           \/ \E r \in Observed(run) :
                 BeginCleanup(r) \/ (pc' = "idle" /\ run' = r)
    BY <1>4 DEF StartWaitEnds
  <2>2. \E r \in Runs : /\ r.closed = run.closed /\ r.cleanup = run.cleanup
                        /\ BeginCleanup(r) \/ (pc' = "idle" /\ run' = r)
    <3>1. \A r \in Observed(run) : r \in Runs /\ r.closed = run.closed /\ r.cleanup = run.cleanup
      BY <1>1, FailedFacts DEF Observed
    <3>2. QED
      BY <1>1, <2>1, <3>1, FailedFacts
  <2>3. pc' \in {"idle", "cleanup"} /\ ~Torn(run')
    BY <1>2, <2>2, BeginCleanupShown DEF Torn
  <2>4. QED
    BY <1>2, <2>1, <2>3 DEF Shown
<1>5. CASE AdvanceWaitEnds
  <2>1. /\ teardowns' = teardowns
        /\ \/ BeginCleanup(run) \/ (\E o : BeginCleanup(Failed(run, o))) \/ StepDone
    BY <1>5 DEF AdvanceWaitEnds
  <2>2. CASE StepDone
    <3> DEFINE ended == [run EXCEPT !.next = @ + 1]
    <3>1. PICK r \in Observed(ended) :
             \E s : /\ s = [r EXCEPT !.scheduleCompleted = ~r.stopped /\ r.next = Len(Steps)]
                    /\ BeginCleanup(s) \/ (pc' = "idle" /\ run' = s)
      BY <2>2 DEF StepDone
    <3>2. PICK s : /\ s = [r EXCEPT !.scheduleCompleted = ~r.stopped /\ r.next = Len(Steps)]
                   /\ BeginCleanup(s) \/ (pc' = "idle" /\ run' = s)
      BY <3>1
    <3>3. ended.closed = run.closed /\ ended.cleanup = run.cleanup
      BY <1>1 DEF Runs
    <3>4. r.closed = run.closed /\ r.cleanup = run.cleanup /\ DOMAIN r = DOMAIN run
      BY <1>1, <3>3 DEF Observed, Failed, Runs
    <3>5. /\ s.closed = run.closed /\ s.cleanup = run.cleanup
          /\ {"cleanup", "stopped", "outcome"} \subseteq DOMAIN s
      BY <1>1, <3>2, <3>4 DEF Runs
    <3> HIDE DEF ended
    <3>6. CASE BeginCleanup(s)
      <4>1. pc' \in {"idle", "cleanup"} /\ run'.cleanup = run.cleanup
        BY <3>5, <3>6 DEF BeginCleanup, Failed
      <4>2. QED
        BY <1>2, <2>1, <4>1 DEF Shown, Torn
    <3>7. CASE pc' = "idle" /\ run' = s
      BY <1>2, <2>1, <3>5, <3>7 DEF Shown, Torn
    <3>8. QED
      BY <3>2, <3>6, <3>7
  <2>3. CASE BeginCleanup(run) \/ \E o : BeginCleanup(Failed(run, o))
    <3>1. pc' \in {"idle", "cleanup"} /\ ~Torn(run')
      BY <1>1, <1>2, <2>3, FailedFacts, BeginCleanupShown
    <3>2. QED
      BY <1>2, <2>1, <3>1 DEF Shown
  <2>4. QED
    BY <2>1, <2>2, <2>3
<1>6. CASE CleanupWaitEnds
  <2>1. pc' # "absent" /\ teardowns' = teardowns /\ ~Torn(run')
    BY <1>1, <1>2, <1>6 DEF CleanupWaitEnds, Runs, Torn
  <2>2. QED
    BY <1>2, <2>1 DEF Shown
<1>7. CASE TeardownSettles
  <2>1. pc' = "idle" /\ teardowns' = teardowns + 1 /\ Torn(run')
    BY <1>1, <1>7 DEF TeardownSettles, Runs, Torn
  <2>2. QED
    BY <1>2, <2>1 DEF Shown
<1>8. QED
  BY <1>2, <1>3, <1>4, <1>5, <1>6, <1>7 DEF ControllerStep

(* A stop leaves the cleanup's verdict as it is. *)
LEMMA StoppedShown ==
    ASSUME NEW r \in Runs, run' = r \/ \E o : run' = Failed(r, o)
    PROVE  Torn(run') <=> Torn(r)
BY FailedFacts

(* An event about one actor at most stops the run. *)
LEMMA EventShown ==
    ASSUME ExecutionInv, NEW a \in Actors, WorkerStep(a) \/ MainEvent(a)
    PROVE  Shown /\ UNCHANGED <<pc, cancelled, teardowns>>
           /\ (run.scheduleCompleted => run' = run)
           /\ (run' = run \/ \E o : run' = Failed(run, o))
<1>1. run \in Runs
  BY DEF ExecutionInv, Types
<1>2. run' = run \/ \E o : run' = Failed(run, o)
  BY DEF WorkerStep, WorkerBoots, WorkerReceives, WorkerArrives, WorkerRequests, WorkerFinishes,
         WorkerFails, WorkerCallsLate, WorkerExits, Becomes, MainEvent, MessageArrives, Handle,
         RequestSettles, ExitEvent
<1>3. UNCHANGED <<pc, cancelled, teardowns>>
  BY DEF WorkerStep, WorkerBoots, WorkerReceives, WorkerArrives, WorkerRequests, WorkerFinishes,
         WorkerFails, WorkerCallsLate, WorkerExits, Becomes, MainEvent, MessageArrives,
         RequestSettles, ExitEvent
<1>4. run.scheduleCompleted => run' = run
  <2> SUFFICES ASSUME run.scheduleCompleted PROVE run' = run
    OBVIOUS
  <2>1. actor[a].exited /\ run.stopped
    BY DEF ExecutionInv, RunInv
  <2>2. QED
    BY <2>1 DEF WorkerStep, WorkerBoots, WorkerReceives, WorkerArrives, WorkerRequests,
           WorkerFinishes, WorkerFails, WorkerCallsLate, WorkerExits, Becomes, MainEvent,
           MessageArrives, RequestSettles, ExitEvent
<1>5. Torn(run') <=> Torn(run)
  BY <1>1, <1>2, StoppedShown
<1>6. QED
  BY <1>2, <1>3, <1>4, <1>5 DEF Shown, ReceiptPassed

(* Every step of an execution, as the session sees it *)
LEMMA ExecutionShown ==
    ASSUME ExecutionInv, ExecutionNext
    PROVE  Shown
BY ControllerShown, EventShown DEF ExecutionNext

-----------------------------------------------------------------------------
(* The session *)

(* A call of the session leaves what the execution has done. *)
Quiet ==
    /\ teardowns' = teardowns /\ (Torn(run') <=> Torn(run))
    /\ ReceiptPassed => ReceiptPassed'

(* finish() and cleanup() called by the session *)
LEMMA CleanupQuiet ==
    ASSUME ExecutionInv, FinishCall \/ CleanupCall, teardowns' = teardowns
    PROVE  Quiet /\ pc' # "absent"
<1>1. run \in Runs
  BY DEF ExecutionInv, Types
<1>2. CASE run.closed
  BY <1>2 DEF FinishCall, CleanupCall, BeginCleanup, Quiet, ReceiptPassed
<1>3. CASE ~run.closed
  <2>1. ~Torn(run) /\ ~ReceiptPassed
    BY <1>3 DEF ExecutionInv, RunInv, Torn, ReceiptPassed
  <2>2. \E r \in Runs : r.closed = run.closed /\ r.cleanup = run.cleanup /\ BeginCleanup(r)
    BY <1>1, FailedFacts DEF FinishCall, CleanupCall
  <2>3. pc' \in {"idle", "cleanup"} /\ (Torn(run') <=> Torn(run))
    BY <2>2, BeginCleanupShown
  <2>4. QED
    BY <2>1, <2>3 DEF Quiet
<1>4. QED
  BY <1>2, <1>3

(* advance() called by the session *)
LEMMA AdvanceQuiet ==
    ASSUME ExecutionInv, NEW expected \in BOOLEAN, AdvanceCall(expected)
    PROVE  Quiet /\ pc' # "absent"
<1>1. run \in Runs /\ ~run.closed /\ teardowns' = teardowns
  BY DEF ExecutionInv, Types, AdvanceCall
<1>2. ~Torn(run) /\ ~ReceiptPassed
  BY <1>1 DEF ExecutionInv, RunInv, Torn, ReceiptPassed
<1>3. CASE \E o : BeginCleanup(Failed(run, o))
  <2>1. \E r \in Runs : r.closed = run.closed /\ r.cleanup = run.cleanup /\ BeginCleanup(r)
    BY <1>1, <1>3, FailedFacts
  <2>2. pc' \in {"idle", "cleanup"} /\ (Torn(run') <=> Torn(run))
    BY <2>1, BeginCleanupShown
  <2>3. QED
    BY <1>1, <1>2, <2>2 DEF Quiet
<1>4. CASE pc' = "advance" /\ run' = run
  BY <1>1, <1>2, <1>4 DEF Quiet
<1>5. QED
  BY <1>3, <1>4 DEF AdvanceCall

(* The abort of the signal *)
LEMMA AbortQuiet ==
    ASSUME ExecutionInv, Abort, teardowns' = teardowns
    PROVE  Quiet
<1>1. run \in Runs /\ (Torn(run) => run.closed) /\ (ReceiptPassed => run.closed)
  BY DEF ExecutionInv, Types, RunInv, ReceiptPassed, Torn
<1>2. CASE run.closed \/ pc = "absent"
  BY <1>2 DEF Abort, Quiet, ReceiptPassed
<1>3. CASE ~run.closed /\ pc # "absent"
  <2>1. run' = Failed(run, "cancelled")
    BY <1>3 DEF Abort, fail
  <2>2. QED
    BY <1>1, <1>3, <2>1, StoppedShown DEF Quiet
<1>4. QED
  BY <1>2, <1>3

(* start() begins a new report. *)
LEMMA StartShown ==
    ASSUME StartCall
    PROVE  /\ pc' \in {"idle", "factory"} /\ ~Torn(run') /\ teardowns' = teardowns
<1>1. FreshRun \in Runs /\ FreshRun.cleanup = "not_started"
  BY StepTypes DEF FreshRun, Runs, Cleanups
<1> HIDE DEF FreshRun
<1>2. \/ pc' = "idle" /\ \E o : run' = [Failed(FreshRun, o) EXCEPT !.closed = TRUE]
      \/ pc' = "factory" /\ run' = FreshRun
  BY DEF StartCall
<1>3. run'.cleanup = "not_started"
  BY <1>1, <1>2 DEF Failed, Runs
<1>4. QED
  BY <1>2, <1>3 DEF Torn, StartCall

(* A receipt is retained once per execution. *)
LEMMA RetainedFacts ==
    ASSUME ExecutionInv, NEW s \in Sessions, s.execution, NEW fits \in BOOLEAN,
           NEW t, t = Retained(s, fits)
    PROVE  /\ t \in Sessions /\ t.retained /\ t.execution /\ t.op = s.op
           /\ t.initializations = s.initializations /\ t.closing = s.closing
           /\ t.disposal = s.disposal
           /\ s.retained => t = s
           /\ ~s.retained => Len(t.records) = Len(s.records) + 1
           /\ ~s.retained /\ t.records[Len(t.records)] => ReceiptPassed
<1> DEFINE passed == fits /\ ReceiptPassed
<1>1. passed \in BOOLEAN /\ s.records \in Seq(BOOLEAN) /\ Len(s.records) \in Nat
  BY DEF ReceiptPassed, ExecutionInv, Types, Runs, Sessions
<1>2. CASE s.retained
  BY <1>1, <1>2 DEF Retained
<1>3. CASE ~s.retained
  <2> HIDE DEF passed
  <2>1. t = [s EXCEPT !.retained = TRUE, !.receiptComplete = @ /\ fits,
                      !.records = Append(@, passed)]
    BY <1>3 DEF Retained, passed
  <2>2. /\ Append(s.records, passed) \in Seq(BOOLEAN)
        /\ Len(Append(s.records, passed)) = Len(s.records) + 1
        /\ Append(s.records, passed)[Len(s.records) + 1] = passed
    BY <1>1
  <2>3. /\ t \in Sessions /\ t.retained /\ t.execution /\ t.op = s.op
        /\ t.initializations = s.initializations /\ t.closing = s.closing
        /\ t.disposal = s.disposal /\ t.records = Append(s.records, passed)
    BY <2>1, <2>2 DEF Sessions
  <2>4. QED
    BY <1>3, <2>2, <2>3 DEF passed
<1>4. QED
  BY <1>2, <1>3

(* A step of the execution: the session is left alone. *)
LEMMA SessionUntouched ==
    ASSUME IInv, Shown, UNCHANGED <<session, verdict>>
    PROVE  SessionInv'
<1>1. session' = session /\ verdict' = verdict /\ teardowns \in Nat
  BY DEF IInv, ExecutionInv, Types
<1>2. session.initializations > 0 => pc # "absent"
  BY DEF IInv, SessionInv
<1>3. /\ Torn(run') \/ session.initializations = 0 => teardowns' = session.initializations
      /\ ~Torn(run') /\ session.initializations > 0
            => teardowns' + 1 = session.initializations
  BY <1>1 DEF IInv, SessionInv, Shown, Sessions
<1>4. session.retained /\ session.records[Len(session.records)] => ReceiptPassed'
  BY DEF IInv, SessionInv, Shown
<1>5. QED
  BY <1>1, <1>3, <1>4 DEF IInv, SessionInv, Shown

(* A new execution: the last one, if any, was recorded and torn down. *)
LEMMA StartExecutionInv ==
    ASSUME IInv, NEW s \in Sessions, StartExecution(s), verdict' = verdict, verdict # "passed",
           s.initializations < MaxInitializations, Len(s.records) = s.initializations,
           teardowns = s.initializations, s.disposal \in {"none", "waiting"},
           s.disposal # "none" => s.closing
    PROVE  SessionInv'
<1>1. /\ session' \in Sessions /\ session'.op = "start" /\ session'.records = s.records
      /\ session'.initializations = s.initializations + 1 /\ ~session'.retained
      /\ ~session'.execution /\ session'.closing = s.closing /\ session'.disposal = s.disposal
      /\ s.initializations \in Nat /\ Len(s.records) \in Nat
  <2>1. s.initializations + 1 \in 0 .. MaxInitializations /\ s.initializations \in Nat
    BY BindingAssumption DEF Sessions
  <2>2. QED
    BY <2>1 DEF StartExecution, Sessions, Ops
<1>2. pc' \in {"idle", "factory"} /\ ~Torn(run') /\ teardowns' = teardowns
  BY StartShown DEF StartExecution
<1>3. /\ Len(session'.records) + 1 = session'.initializations
      /\ teardowns' + 1 = session'.initializations /\ session'.initializations > 0
      /\ verdict' \in {"none", "passed", "failed"}
  BY <1>1, <1>2 DEF IInv, SessionInv
<1>4. /\ session'.disposal = "running" <=> session'.op = "dispose"
      /\ session'.disposal \notin {"ok", "failed"} /\ verdict' # "passed"
      /\ session'.disposal # "none" => session'.closing
      /\ session'.disposal \in {"none", "waiting"}
  BY <1>1
<1>5. QED
  BY <1>1, <1>2, <1>3, <1>4 DEF SessionInv

(* initialize() is called. *)
LEMMA InitializeInv ==
    ASSUME IInv, InitializeCall
    PROVE  IInv'
<1>1. /\ session \in Sessions /\ session.op = "none" /\ ~session.closing
      /\ session.initializations < MaxInitializations /\ verdict' = verdict
      /\ session.disposal = "none" /\ verdict # "passed"
  BY DEF IInv, SessionInv, InitializeCall, Live, FullyCompleted
<1>2. CASE session.execution
  <2>1. /\ session' = [session EXCEPT !.op = "finish"]
        /\ FinishCall /\ UNCHANGED <<actor, cancelled, teardowns>>
    BY <1>2 DEF InitializeCall
  <2>2. ExecutionInv' /\ Quiet /\ pc' # "absent"
    BY <2>1, FinishCallInv, CleanupQuiet DEF IInv
  <2>3. /\ session' \in Sessions /\ session'.op = "finish" /\ session'.execution
        /\ session'.records = session.records /\ session'.retained = session.retained
        /\ session'.initializations = session.initializations
        /\ session'.closing = session.closing /\ session'.disposal = session.disposal
    BY <1>1, <1>2, <2>1 DEF Sessions, Ops
  <2>4. SessionInv'
    BY <1>1, <1>2, <2>2, <2>3 DEF IInv, SessionInv, Quiet
  <2>5. QED
    BY <2>2, <2>4 DEF IInv
<1>3. CASE ~session.execution
  <2>1. StartExecution(session)
    BY <1>3 DEF InitializeCall
  <2>2. session.initializations = 0
    BY <1>1, <1>3 DEF IInv, SessionInv, Sessions
  <2>3. Len(session.records) = session.initializations /\ teardowns = session.initializations
    BY <2>2 DEF IInv, SessionInv, Sessions, ExecutionInv, Types
  <2>4. SessionInv'
    BY <1>1, <2>1, <2>3, StartExecutionInv
  <2>5. ExecutionInv'
    BY <2>1, StartInv DEF IInv, StartExecution
  <2>6. QED
    BY <2>4, <2>5 DEF IInv
<1>4. QED
  BY <1>2, <1>3

(* What the execution's variables are is what they were. *)
LEMMA ExecutionUnchanged ==
    ASSUME ExecutionInv, UNCHANGED executionVars
    PROVE  ExecutionInv' /\ run' = run /\ pc' = pc /\ teardowns' = teardowns
           /\ (ReceiptPassed' <=> ReceiptPassed)
BY DEF executionVars, ExecutionInv, Types, Permitted, Step, ReceiptPassed

(* initialize() goes on once the prior execution has finished. *)
LEMMA FinishReturnsInv ==
    ASSUME IInv, FinishReturns
    PROVE  IInv'
<1>1. /\ session \in Sessions /\ session.op = "finish" /\ session.execution /\ pc = "idle"
      /\ session.initializations < MaxInitializations /\ session.initializations > 0
      /\ session.disposal \in {"none", "waiting"} /\ verdict' = verdict /\ verdict # "passed"
  BY DEF IInv, SessionInv, FinishReturns, Sessions
<1>2. PICK fits \in BOOLEAN :
         LET s == Retained(session, fits)
         IN  IF ReceiptPassed /\ s.receiptComplete
             THEN StartExecution(s)
             ELSE session' = [s EXCEPT !.op = "none"] /\ UNCHANGED executionVars
  BY DEF FinishReturns
<1> DEFINE s == Retained(session, fits)
<1>3. /\ s \in Sessions /\ s.retained /\ s.execution /\ s.op = session.op
      /\ s.initializations = session.initializations /\ s.closing = session.closing
      /\ s.disposal = session.disposal
      /\ session.retained => s = session
      /\ ~session.retained => Len(s.records) = Len(session.records) + 1
      /\ ~session.retained /\ s.records[Len(s.records)] => ReceiptPassed
  <2>1. ExecutionInv /\ s = Retained(session, fits)
    BY DEF IInv
  <2> HIDE DEF s
  <2>2. QED
    BY <1>1, <2>1, RetainedFacts
<1>4. \/ ReceiptPassed /\ StartExecution(s)
      \/ session' = [s EXCEPT !.op = "none"] /\ UNCHANGED executionVars
  BY <1>2
<1> HIDE DEF s
<1>5. Len(s.records) = s.initializations
  BY <1>1, <1>3 DEF IInv, SessionInv, Sessions
<1>6. s.records[Len(s.records)] => ReceiptPassed
  BY <1>3 DEF IInv, SessionInv
<1>7. CASE ReceiptPassed /\ StartExecution(s)
  <2>1. teardowns = s.initializations
    BY <1>1, <1>3, <1>7 DEF IInv, SessionInv, ReceiptPassed, Torn, ExecutionInv, Types
  <2>2. s.disposal # "none" => s.closing
    BY <1>3 DEF IInv, SessionInv
  <2>3. SessionInv'
    BY <1>1, <1>3, <1>5, <1>7, <2>1, <2>2, StartExecutionInv
  <2>4. ExecutionInv'
    BY <1>7, StartInv DEF IInv, StartExecution
  <2>5. QED
    BY <2>3, <2>4 DEF IInv
<1>8. CASE session' = [s EXCEPT !.op = "none"] /\ UNCHANGED executionVars
  <2>1. /\ session' \in Sessions /\ session'.op = "none" /\ session'.retained
        /\ session'.execution /\ session'.records = s.records
        /\ session'.initializations = s.initializations /\ session'.closing = s.closing
        /\ session'.disposal = s.disposal
    BY <1>3, <1>8 DEF Sessions, Ops
  <2>2. /\ ExecutionInv' /\ run' = run /\ pc' = pc /\ teardowns' = teardowns
        /\ ReceiptPassed' <=> ReceiptPassed
    BY <1>8, ExecutionUnchanged DEF IInv
  <2>3. SessionInv'
    BY <1>1, <1>3, <1>5, <1>6, <2>1, <2>2 DEF IInv, SessionInv, Sessions
  <2>4. QED
    BY <2>2, <2>3 DEF IInv
<1>9. QED
  BY <1>4, <1>7, <1>8

(* advance() is called. *)
LEMMA AdvanceBindingInv ==
    ASSUME IInv, AdvanceBinding
    PROVE  IInv'
<1>1. /\ session \in Sessions /\ session.op = "none" /\ session.execution /\ ~session.closing
      /\ session.disposal = "none" /\ verdict' = verdict /\ verdict # "passed"
      /\ session' = [session EXCEPT !.op = "advance"]
  BY DEF IInv, SessionInv, AdvanceBinding, Live, FullyCompleted
<1>2. ExecutionInv' /\ Quiet /\ pc' # "absent"
  BY AdvanceInv, AdvanceQuiet DEF AdvanceBinding, IInv
<1>3. /\ session' \in Sessions /\ session'.op = "advance" /\ session'.execution
      /\ session'.records = session.records /\ session'.retained = session.retained
      /\ session'.initializations = session.initializations
      /\ session'.closing = session.closing /\ session'.disposal = session.disposal
  BY <1>1 DEF Sessions, Ops
<1>4. SessionInv'
  BY <1>1, <1>2, <1>3 DEF IInv, SessionInv, Quiet
<1>5. QED
  BY <1>2, <1>4 DEF IInv

(* start() or advance() of the execution returns. *)
LEMMA OperationReturnsInv ==
    ASSUME IInv, OperationReturns
    PROVE  IInv'
<1>1. /\ session \in Sessions /\ session.op \in {"start", "advance"} /\ pc = "idle"
      /\ session' = [session EXCEPT !.op = "none", !.execution = TRUE]
      /\ UNCHANGED executionVars /\ verdict' = verdict /\ verdict # "passed"
  BY DEF IInv, SessionInv, OperationReturns
<1>2. /\ ExecutionInv' /\ run' = run /\ pc' = pc /\ teardowns' = teardowns
      /\ ReceiptPassed' <=> ReceiptPassed
  BY <1>1, ExecutionUnchanged DEF IInv
<1>3. /\ session' \in Sessions /\ session'.op = "none" /\ session'.execution
      /\ session'.records = session.records /\ session'.retained = session.retained
      /\ session'.initializations = session.initializations
      /\ session'.closing = session.closing /\ session'.disposal = session.disposal
  BY <1>1 DEF Sessions, Ops
<1>4. SessionInv'
  BY <1>1, <1>2, <1>3 DEF IInv, SessionInv
<1>5. QED
  BY <1>2, <1>4 DEF IInv

(* The caller's signal aborts. *)
LEMMA CallerAbortsInv ==
    ASSUME IInv, CallerAborts
    PROVE  IInv'
<1>1. Abort /\ UNCHANGED <<pc, actor, teardowns, session, verdict>>
  BY DEF CallerAborts
<1>2. ExecutionInv' /\ Quiet
  BY <1>1, AbortInv, AbortQuiet DEF IInv
<1>3. SessionInv'
  BY <1>1, <1>2 DEF IInv, SessionInv, Quiet
<1>4. QED
  BY <1>2, <1>3 DEF IInv

(* dispose() is called. *)
LEMMA DisposeCallInv ==
    ASSUME IInv, DisposeCall
    PROVE  IInv'
<1>1. /\ Abort /\ UNCHANGED <<pc, actor, teardowns, verdict>> /\ session.disposal = "none"
      /\ session' = [session EXCEPT !.closing = TRUE, !.disposal = "waiting"]
      /\ session \in Sessions /\ verdict # "passed"
  BY DEF DisposeCall, IInv, SessionInv, FullyCompleted
<1>2. ExecutionInv' /\ Quiet
  BY <1>1, AbortInv, AbortQuiet DEF IInv
<1>3. /\ session' \in Sessions /\ session'.op = session.op
      /\ session'.execution = session.execution
      /\ session'.records = session.records /\ session'.retained = session.retained
      /\ session'.initializations = session.initializations
      /\ session'.closing /\ session'.disposal = "waiting"
  BY <1>1 DEF Sessions, Disposals
<1>4. SessionInv'
  BY <1>1, <1>2, <1>3 DEF IInv, SessionInv, Quiet
<1>5. QED
  BY <1>2, <1>4 DEF IInv

(* dispose() goes on once the operation under way has returned. *)
LEMMA DisposeRunsInv ==
    ASSUME IInv, DisposeRuns
    PROVE  IInv'
<1>1. /\ session \in Sessions /\ session.disposal = "waiting" /\ session.op = "none"
      /\ session.closing /\ UNCHANGED <<actor, cancelled, teardowns, verdict>>
      /\ verdict # "passed"
  BY DEF DisposeRuns, IInv, SessionInv, FullyCompleted
<1>2. CASE session.execution
  <2>1. /\ session' = [session EXCEPT !.op = "dispose", !.disposal = "running"]
        /\ FinishCall \/ CleanupCall
    BY <1>2 DEF DisposeRuns
  <2>2. ExecutionInv' /\ Quiet /\ pc' # "absent"
    BY <1>1, <2>1, FinishCallInv, RunCleanupInv, CleanupQuiet DEF IInv, CleanupCall
  <2>3. /\ session' \in Sessions /\ session'.op = "dispose" /\ session'.execution
        /\ session'.records = session.records /\ session'.retained = session.retained
        /\ session'.initializations = session.initializations
        /\ session'.closing /\ session'.disposal = "running"
    BY <1>1, <1>2, <2>1 DEF Sessions, Ops, Disposals
  <2>4. SessionInv'
    BY <1>1, <1>2, <2>2, <2>3 DEF IInv, SessionInv, Quiet
  <2>5. QED
    BY <2>2, <2>4 DEF IInv
<1>3. CASE ~session.execution
  <2>1. session' = [session EXCEPT !.disposal = "ok"] /\ UNCHANGED executionVars
    BY <1>1, <1>3 DEF DisposeRuns, Idle, executionVars
  <2>2. /\ ExecutionInv' /\ run' = run /\ pc' = pc /\ teardowns' = teardowns
        /\ ReceiptPassed' <=> ReceiptPassed
    BY <2>1, ExecutionUnchanged DEF IInv
  <2>3. /\ session' \in Sessions /\ session'.op = "none" /\ ~session'.execution
        /\ session'.records = session.records /\ session'.retained = session.retained
        /\ session'.initializations = session.initializations
        /\ session'.closing /\ session'.disposal = "ok"
    BY <1>1, <1>3, <2>1 DEF Sessions, Disposals
  <2>4. ~(session.initializations > 0)
    BY <1>1, <1>3 DEF IInv, SessionInv
  <2>5. SessionInv'
    BY <1>1, <1>3, <2>2, <2>3, <2>4 DEF IInv, SessionInv
  <2>6. QED
    BY <2>2, <2>5 DEF IInv
<1>4. QED
  BY <1>2, <1>3

(* dispose() returns. *)
LEMMA DisposeReturnsInv ==
    ASSUME IInv, DisposeReturns
    PROVE  IInv'
<1>1. /\ session \in Sessions /\ session.op = "dispose" /\ session.execution /\ pc = "idle"
      /\ UNCHANGED executionVars /\ verdict' = verdict /\ session.closing
      /\ session.initializations > 0 /\ verdict # "passed"
  BY DEF DisposeReturns, IInv, SessionInv, Sessions
<1>2. PICK fits \in BOOLEAN :
         LET s == Retained(session, fits)
         IN  session' = [s EXCEPT !.op = "none",
                           !.disposal = IF run.cleanup = "confirmed" /\ s.receiptComplete
                                        THEN "ok" ELSE "failed"]
  BY DEF DisposeReturns
<1> DEFINE s == Retained(session, fits)
<1>3. /\ s \in Sessions /\ s.retained /\ s.execution /\ s.op = session.op
      /\ s.initializations = session.initializations /\ s.closing = session.closing
      /\ s.disposal = session.disposal
      /\ session.retained => s = session
      /\ ~session.retained => Len(s.records) = Len(session.records) + 1
      /\ ~session.retained /\ s.records[Len(s.records)] => ReceiptPassed
  <2>1. ExecutionInv /\ s = Retained(session, fits)
    BY DEF IInv
  <2>2. session \in Sessions /\ session.execution
    BY <1>1
  <2> HIDE DEF s
  <2>3. QED
    BY <2>1, <2>2, RetainedFacts
<1>4. \E d \in {"ok", "failed"} : session' = [s EXCEPT !.op = "none", !.disposal = d]
  BY <1>2
<1> HIDE DEF s
<1>5. Len(s.records) = s.initializations /\ (s.records[Len(s.records)] => ReceiptPassed)
  BY <1>1, <1>3 DEF IInv, SessionInv, Sessions
<1>6. /\ session' \in Sessions /\ session'.op = "none" /\ session'.retained
      /\ session'.execution /\ session'.records = s.records
      /\ session'.initializations = s.initializations /\ session'.closing = s.closing
      /\ session'.disposal \in {"ok", "failed"}
  BY <1>3, <1>4 DEF Sessions, Ops, Disposals
<1>7. /\ ExecutionInv' /\ run' = run /\ pc' = pc /\ teardowns' = teardowns
      /\ ReceiptPassed' <=> ReceiptPassed
  BY <1>1, ExecutionUnchanged DEF IInv
<1>8. SessionInv'
  BY <1>1, <1>3, <1>5, <1>6, <1>7 DEF IInv, SessionInv, Sessions
<1>9. QED
  BY <1>7, <1>8 DEF IInv

(* retryCleanup() is called. *)
LEMMA RetryCallInv ==
    ASSUME IInv, RetryCall
    PROVE  IInv'
<1>1. /\ session \in Sessions /\ session.op = "none" /\ session.execution
      /\ session.disposal \in {"ok", "failed"} /\ session.closing /\ verdict = "none"
      /\ session' = [session EXCEPT !.op = "retry"] /\ CleanupCall
      /\ UNCHANGED <<actor, cancelled, teardowns, verdict>>
  BY DEF RetryCall, IInv, SessionInv
<1>2. ExecutionInv' /\ Quiet /\ pc' # "absent"
  BY <1>1, RunCleanupInv, CleanupQuiet DEF IInv, CleanupCall
<1>3. /\ session' \in Sessions /\ session'.op = "retry" /\ session'.execution
      /\ session'.records = session.records /\ session'.retained = session.retained
      /\ session'.initializations = session.initializations
      /\ session'.closing /\ session'.disposal = session.disposal
  BY <1>1 DEF Sessions, Ops
<1>4. SessionInv'
  BY <1>1, <1>2, <1>3 DEF IInv, SessionInv, Quiet
<1>5. QED
  BY <1>2, <1>4 DEF IInv

(* The record retained last is replaced. *)
LEMMA Replaced ==
    ASSUME NEW rows \in Seq(BOOLEAN), Len(rows) > 0, NEW passed \in BOOLEAN
    PROVE  LET new == [rows EXCEPT ![Len(rows)] = passed]
           IN  new \in Seq(BOOLEAN) /\ Len(new) = Len(rows) /\ new[Len(new)] = passed
<1>1. Len(rows) \in 1 .. Len(rows)
  OBVIOUS
<1>2. QED
  BY <1>1

(* retryCleanup() returns. *)
LEMMA RetryReturnsInv ==
    ASSUME IInv, RetryReturns
    PROVE  IInv'
<1>1. /\ session \in Sessions /\ session.op = "retry" /\ session.execution /\ pc = "idle"
      /\ UNCHANGED executionVars /\ verdict' = verdict /\ verdict # "passed"
      /\ session.initializations > 0 /\ session.records \in Seq(BOOLEAN)
  BY DEF RetryReturns, IInv, SessionInv, Sessions
<1>2. ReceiptPassed \in BOOLEAN
  BY DEF ReceiptPassed, IInv, ExecutionInv, Types, Runs
<1>3. PICK fits \in BOOLEAN :
         session' = [session EXCEPT !.op = "none",
            !.receiptComplete = @ /\ (fits \/ run.cleanup # "confirmed"),
            !.records = IF run.cleanup = "confirmed" /\ session.retained /\ fits
                        THEN [@ EXCEPT ![Len(@)] = ReceiptPassed] ELSE @]
  BY DEF RetryReturns
<1> DEFINE complete == session.receiptComplete /\ (fits \/ run.cleanup # "confirmed")
           rows == IF run.cleanup = "confirmed" /\ session.retained /\ fits
                   THEN [session.records EXCEPT ![Len(session.records)] = ReceiptPassed]
                   ELSE session.records
<1>4. session' = [session EXCEPT !.op = "none", !.receiptComplete = complete,
                                  !.records = rows]
  BY <1>3
<1>5. complete \in BOOLEAN
  BY <1>1 DEF Sessions
<1>6. \/ rows = session.records
      \/ /\ session.retained
         /\ rows = [session.records EXCEPT ![Len(session.records)] = ReceiptPassed]
  OBVIOUS
<1> HIDE DEF complete, rows
<1>7. session.retained => Len(session.records) = session.initializations
  BY DEF IInv, SessionInv
<1>8. /\ rows \in Seq(BOOLEAN) /\ Len(rows) = Len(session.records)
      /\ session.retained /\ rows[Len(rows)] => ReceiptPassed
  <2>1. CASE rows = session.records
    BY <1>1, <2>1 DEF IInv, SessionInv
  <2>2. CASE /\ session.retained
             /\ rows = [session.records EXCEPT ![Len(session.records)] = ReceiptPassed]
    <3>1. Len(session.records) > 0
      BY <1>1, <1>7, <2>2
    <3>2. rows \in Seq(BOOLEAN) /\ Len(rows) = Len(session.records)
          /\ rows[Len(rows)] = ReceiptPassed
      BY <1>1, <1>2, <2>2, <3>1, Replaced
    <3>3. QED
      BY <3>2
  <2>3. QED
    BY <1>6, <2>1, <2>2
<1>9. /\ session' \in Sessions /\ session'.op = "none" /\ session'.execution
      /\ session'.records = rows /\ session'.retained = session.retained
      /\ session'.initializations = session.initializations
      /\ session'.closing = session.closing /\ session'.disposal = session.disposal
  BY <1>1, <1>4, <1>5, <1>8 DEF Sessions, Ops
<1>10. /\ ExecutionInv' /\ run' = run /\ pc' = pc /\ teardowns' = teardowns
       /\ ReceiptPassed' <=> ReceiptPassed
  BY <1>1, ExecutionUnchanged DEF IInv
<1>11. SessionInv'
  BY <1>1, <1>8, <1>9, <1>10 DEF IInv, SessionInv
<1>12. QED
  BY <1>10, <1>11 DEF IInv

(* replayScheduledTraces returns. *)
LEMMA ReplayReturnsInv ==
    ASSUME IInv, ReplayReturns
    PROVE  IInv'
<1>1. /\ UNCHANGED <<executionVars, session>> /\ session.op = "none"
      /\ verdict' = "failed" \/ (verdict' = "passed" /\ FullyCompleted(session))
  BY DEF ReplayReturns
<1>2. /\ ExecutionInv' /\ run' = run /\ pc' = pc /\ teardowns' = teardowns
      /\ ReceiptPassed' <=> ReceiptPassed
  BY <1>1, ExecutionUnchanged DEF IInv
<1>3. SessionInv'
  BY <1>1, <1>2 DEF IInv, SessionInv
<1>4. QED
  BY <1>2, <1>3 DEF IInv

-----------------------------------------------------------------------------
(* The inductive invariant holds *)

(* The invariant holds at first. *)
LEMMA InitInv ==
    ASSUME Init PROVE IInv
<1>1. /\ FreshRun \in Runs /\ ~FreshRun.stopped /\ ~FreshRun.closed /\ FreshRun.next = 0
      /\ ~FreshRun.scheduleCompleted /\ FreshRun.cleanup = "not_started"
  BY StepTypes DEF FreshRun, Runs, Cleanups
<1>2. /\ pc = "absent" /\ run = FreshRun /\ cancelled = FALSE /\ teardowns = 0
      /\ actor = [a \in Actors |-> FreshActor] /\ worker = [a \in Actors |-> NoWorker]
      /\ verdict = "none"
  BY DEF Init, ExecutionInit
<1>3. FreshActor.phase = "starting"
  BY DEF FreshActor
<1> HIDE DEF FreshRun, FreshActor, NoWorker
<1>4. Types /\ RunInv(pc, run)
  BY <1>1, <1>2, StepTypes, FreshInv DEF Types, Places0, RunInv, Torn
<1>5. \A a \in Actors : /\ ActorInv(actor[a], worker[a], run.stopped)
                        /\ Untouched(actor[a], worker[a]) /\ actor[a].phase = "starting"
  BY <1>1, <1>2, <1>3, FreshInv DEF Untouched, ActorInv
<1>6. ExecutionInv
  BY <1>1, <1>2, <1>4, <1>5 DEF ExecutionInv, StepsDone, Permitted
<1>7. /\ session \in Sessions /\ session.op = "none" /\ ~session.execution /\ ~session.retained
      /\ session.records = <<>> /\ session.initializations = 0 /\ ~session.closing
      /\ session.disposal = "none"
  <2>1. 0 \in 0 .. MaxInitializations /\ <<>> \in Seq(BOOLEAN)
    BY BindingAssumption
  <2>2. QED
    BY <2>1 DEF Init, SessionInit, Sessions, Ops, Disposals
<1>8. SessionInv
  BY <1>1, <1>2, <1>7 DEF SessionInv, Torn
<1>9. QED
  BY <1>6, <1>8 DEF IInv

(* Every step keeps the invariant. *)
LEMMA StepInv ==
    ASSUME IInv, [Next]_vars PROVE IInv'
<1>1. CASE ExecutionNext /\ UNCHANGED <<session, verdict>>
  BY <1>1, ExecutionStep, ExecutionShown, SessionUntouched DEF IInv
<1>2. CASE InitializeCall \/ AdvanceBinding \/ CallerAborts \/ DisposeCall \/ RetryCall
  BY <1>2, InitializeInv, AdvanceBindingInv, CallerAbortsInv, DisposeCallInv, RetryCallInv
<1>3. CASE SessionStep
  BY <1>3, FinishReturnsInv, OperationReturnsInv, DisposeRunsInv, DisposeReturnsInv,
     RetryReturnsInv DEF SessionStep
<1>4. CASE ReplayReturns
  BY <1>4, ReplayReturnsInv
<1>5. CASE UNCHANGED vars
  <2>1. UNCHANGED executionVars /\ UNCHANGED <<session, verdict>>
    BY <1>5 DEF vars
  <2>2. /\ ExecutionInv' /\ run' = run /\ pc' = pc /\ teardowns' = teardowns
        /\ ReceiptPassed' <=> ReceiptPassed
    BY <2>1, ExecutionUnchanged DEF IInv
  <2>3. SessionInv'
    BY <2>1, <2>2 DEF IInv, SessionInv
  <2>4. QED
    BY <2>2, <2>3 DEF IInv
<1>6. QED
  BY <1>1, <1>2, <1>3, <1>4, <1>5 DEF Next

(* The invariant holds in every state of a scheduled replay. *)
LEMMA InvHolds ==
    Spec => []IInv
BY InitInv, StepInv, PTL DEF Spec

-----------------------------------------------------------------------------
(* The theorems *)

(* Every variable of a scheduled replay keeps its type, and the schedule's  *)
(* position never passes its end.                                           *)
THEOREM ScheduleTypes ==
    Spec => []TypeOK
<1>1. IInv => TypeOK
  <2> SUFFICES ASSUME IInv PROVE TypeOK
    OBVIOUS
  <2>1. /\ run \in Runs /\ pc \in Places0 /\ session \in Sessions
        /\ actor \in [Actors -> ActorRecords] /\ verdict \in {"none", "passed", "failed"}
    BY DEF IInv, ExecutionInv, Types, SessionInv
  <2>2. \A a \in Actors : actor[a].phase \in Phases
    BY <2>1 DEF ActorRecords
  <2>3. QED
    BY <2>1, <2>2 DEF TypeOK, Runs, Places0, Sessions
<1>2. QED
  BY <1>1, InvHolds, PTL

(* Of the workers not cancelled, at most one runs application code, and     *)
(* only inside the interval the controller permitted (ScheduleExecution,    *)
(* advance()), for any number of actors and any admitted schedule.          *)
THEOREM PermittedOnly ==
    Spec => []OnlyThePermittedRuns
<1>1. IInv => OnlyThePermittedRuns
  <2> SUFFICES ASSUME IInv, NEW a \in Actors, worker[a].at \in {"running", "rpc"},
                      ~worker[a].aborted, ~run.stopped
               PROVE  pc = "advance" /\ Step.actor = a /\ actor[a].phase = "running"
    BY DEF OnlyThePermittedRuns
  <2>1. /\ actor[a] \in ActorRecords /\ worker[a] \in Workers
        /\ Protocol(actor[a], worker[a]) /\ InStep(actor[a], worker[a])
    BY DEF IInv, ExecutionInv, Types, ActorInv
  <2>2. actor[a].phase = "running"
    BY <2>1, RunningPhase
  <2>3. QED
    BY <2>2 DEF IInv, ExecutionInv, Permitted
<1>2. QED
  BY <1>1, InvHolds, PTL

(* No worker is told what it does not expect, and the exit of a worker that *)
(* finished never overtakes its completion message.                         *)
THEOREM ProtocolKept ==
    Spec => []WorkersKeepProtocol
<1>1. IInv => WorkersKeepProtocol
  <2> SUFFICES ASSUME IInv, NEW a \in Actors
               PROVE  /\ worker[a].at # "confused"
                      /\ worker[a].at = "exited" /\ worker[a].code = 0
                            => actor[a].reportedFinish
    BY DEF WorkersKeepProtocol
  <2>1. worker[a] \in Workers /\ Protocol(actor[a], worker[a])
    BY DEF IInv, ExecutionInv, Types, ActorInv
  <2>2. QED
    BY <2>1 DEF Protocol, Workers, Places
<1>2. QED
  BY <1>1, InvHolds, PTL

(* A replay that passed really ran: every worker of every execution ended   *)
(* its application code uncancelled, every program was torn down once, and  *)
(* every execution has its record (replayScheduledTraces).                  *)
THEOREM PassedReplaysRan ==
    Spec => []PassedReplayRan
<1>1. IInv => PassedReplayRan
  <2> SUFFICES ASSUME IInv, verdict = "passed"
               PROVE  /\ \A a \in Actors : worker[a].at = "exited" /\ worker[a].ran
                      /\ Len(session.records) = session.initializations
                      /\ teardowns = session.initializations
    BY DEF PassedReplayRan
  <2>1. /\ session.disposal = "ok" /\ session.initializations > 0 /\ session.records # <<>>
        /\ \A i \in 1 .. Len(session.records) : session.records[i]
        /\ session.records \in Seq(BOOLEAN) /\ session.initializations \in Nat
    BY DEF IInv, SessionInv, FullyCompleted, Sessions
  <2>2. session.retained /\ Len(session.records) = session.initializations
    BY <2>1 DEF IInv, SessionInv
  <2>3. ReceiptPassed
    BY <2>1, <2>2 DEF IInv, SessionInv
  <2>4. Torn(run) /\ run.scheduleCompleted
    BY <2>3 DEF ReceiptPassed, Torn
  <2>5. teardowns = session.initializations
    BY <2>4 DEF IInv, SessionInv
  <2>6. \A a \in Actors : worker[a].at = "exited" /\ worker[a].ran
    BY <2>4 DEF IInv, ExecutionInv, ActorInv, Protocol
  <2>7. QED
    BY <2>2, <2>5, <2>6
<1>2. QED
  BY <1>1, InvHolds, PTL

(* When the controller waits for an interval or for the start, only its own *)
(* waits move it, and it observes only at rest.                             *)
LEMMA RestObserved ==
    ASSUME IInv, Next, pc \in {"start", "advance"}, pc' = "idle" \/ run'.scheduleCompleted
    PROVE  Pending = {} /\ \A a \in Actors : worker[a].at \in {"waiting", "failing", "exited"}
<1>1. /\ run \in Runs /\ ~run.closed /\ ~run.scheduleCompleted /\ session.op # "none"
  BY DEF IInv, ExecutionInv, Types, RunInv, SessionInv
<1>2. ASSUME ~run.stopped, Quiescent
      PROVE  Pending = {} /\ \A a \in Actors : worker[a].at \in {"waiting", "failing", "exited"}
  <2>1. ASSUME NEW a \in Actors PROVE worker[a].at \in {"waiting", "failing", "exited"}
    <3>1. actor[a].phase \in {"parked", "finished"} /\ Protocol(actor[a], worker[a])
          /\ InStep(actor[a], worker[a])
      BY <1>2 DEF Quiescent, IInv, ExecutionInv, ActorInv
    <3>2. QED
      BY <3>1 DEF InStep, Parked, Protocol
  <2>2. QED
    BY <1>2, <2>1 DEF Quiescent
<1>3. SUFFICES ~run.stopped /\ Quiescent
  BY <1>2
<1>4. ASSUME NEW r \in Runs, ~r.closed, ~r.scheduleCompleted, BeginCleanup(r)
      PROVE  FALSE
  BY <1>4 DEF BeginCleanup, Failed, Runs
<1>5. CASE StartWaitEnds
  <2>1. PICK r \in Observed(run) : ~r.stopped
    BY <1>1, <1>4, <1>5, FailedFacts, ObservedFacts DEF StartWaitEnds
  <2>2. QED
    BY <1>1, <1>5, <2>1, ObservedFacts
<1>6. CASE AdvanceWaitEnds
  <2>1. ~run.stopped /\ StepDone
    BY <1>1, <1>4, <1>6, FailedFacts DEF AdvanceWaitEnds
  <2> DEFINE ended == [run EXCEPT !.next = @ + 1]
  <2>2. ended \in Runs /\ ~ended.closed
    BY <1>1, <2>1, StepTypes DEF IInv, ExecutionInv, RunInv, Runs
  <2>3. PICK r \in Observed(ended) :
           LET s == [r EXCEPT !.scheduleCompleted = ~r.stopped /\ r.next = Len(Steps)]
           IN  s.stopped => BeginCleanup(s)
    BY <2>1 DEF StepDone
  <2> HIDE DEF ended
  <2>4. r \in Runs /\ ~r.closed /\ (r.stopped \/ Quiescent)
    BY <2>2, ObservedFacts
  <2>5. ~r.stopped
    <3> SUFFICES ASSUME r.stopped PROVE FALSE
      OBVIOUS
    <3> DEFINE s == [r EXCEPT !.scheduleCompleted = ~r.stopped /\ r.next = Len(Steps)]
    <3>1. s \in Runs /\ ~s.closed /\ ~s.scheduleCompleted /\ s.stopped
      BY <2>4 DEF Runs
    <3>2. BeginCleanup(s)
      BY <2>3, <3>1
    <3> HIDE DEF s
    <3>3. QED
      BY <1>4, <3>1, <3>2
  <2>6. QED
    BY <2>1, <2>4, <2>5
<1>7. ASSUME pc' = pc, run' = run \/ \E o : run' = Failed(run, o)
      PROVE  FALSE
  BY <1>1, <1>7, FailedFacts
<1>8. CASE ExecutionNext /\ ~StartWaitEnds /\ ~AdvanceWaitEnds
  <2>1. ~ControllerStep
    BY <1>8 DEF ControllerStep, FactorySettles, CleanupWaitEnds, TeardownSettles
  <2>2. PICK a \in Actors : WorkerStep(a) \/ MainEvent(a)
    BY <1>8, <2>1 DEF ExecutionNext
  <2>3. pc' = pc /\ (run' = run \/ \E o : run' = Failed(run, o))
    BY <2>2, EventShown DEF IInv
  <2>4. QED
    BY <1>7, <2>3
<1>9. CASE CallerAborts \/ DisposeCall
  <2>1. pc' = pc /\ Abort
    BY <1>9 DEF CallerAborts, DisposeCall
  <2>2. run' = run \/ \E o : run' = Failed(run, o)
    BY <2>1 DEF Abort, fail
  <2>3. QED
    BY <1>7, <2>1, <2>2
<1>10. CASE ~ExecutionNext /\ ~CallerAborts /\ ~DisposeCall
  BY <1>1, <1>10 DEF Next, SessionStep, InitializeCall, AdvanceBinding, Live, RetryCall,
     FinishReturns, OperationReturns, DisposeRuns, DisposeReturns, RetryReturns, ReplayReturns
<1>11. QED
  BY <1>5, <1>6, <1>8, <1>9, <1>10

(* The program is observed only while every worker is parked at its port,   *)
(* failing or gone, and no request is open (observe()).                     *)
THEOREM ObservationsAtRest ==
    Spec => ObservedAtRest
<1>1. IInv /\ [Next]_vars
        => [(pc \in {"start", "advance"} /\ (pc' = "idle" \/ run'.scheduleCompleted))
              => Pending = {} /\ \A a \in Actors :
                                    worker[a].at \in {"waiting", "failing", "exited"}
           ]_executionVars
  BY RestObserved DEF vars
<1>2. QED
  BY <1>1, InvHolds, PTL DEF Spec, ObservedAtRest

(* What a step that tears a program down, or starts an execution, finds *)
LEMMA NothingLeft ==
    ASSUME IInv, Next, teardowns' > teardowns \/ (pc' # pc /\ pc' = "factory")
    PROVE  Pending = {} /\ \A a \in Actors : Gone(worker[a])
<1>1. run \in Runs /\ teardowns \in Nat
  BY DEF IInv, ExecutionInv, Types
<1>2. ASSUME run.closed \/ pc = "absent"
      PROVE  Pending = {} /\ \A a \in Actors : Gone(worker[a])
  <2>1. \A a \in Actors : ~actor[a].requestPending /\ Gone(worker[a])
    BY <1>2 DEF IInv, ExecutionInv, Over, Untouched, FreshActor, NoWorker, Gone
  <2>2. QED
    BY <2>1 DEF Pending
<1>3. SUFFICES run.closed \/ pc = "absent"
  BY <1>2
<1>4. ASSUME teardowns' = teardowns, pc' # "factory" \/ pc' = pc
      PROVE  FALSE
  BY <1>1, <1>4
<1>5. CASE ControllerStep
  <2>1. CASE TeardownSettles
    BY <2>1 DEF TeardownSettles, IInv, ExecutionInv, RunInv
  <2>2. CASE ~TeardownSettles
    BY <1>4, <1>5, <2>2 DEF ControllerStep, FactorySettles, StartWaitEnds, AdvanceWaitEnds,
       StepDone, CleanupWaitEnds, BeginCleanup
  <2>3. QED
    BY <2>1, <2>2
<1>6. ASSUME NEW a \in Actors, WorkerStep(a) \/ MainEvent(a)
      PROVE  FALSE
  BY <1>4, <1>6, EventShown DEF IInv
<1>7. CASE InitializeCall
  <2>1. CASE session.execution
    BY <1>4, <1>7, <2>1 DEF InitializeCall, FinishCall, BeginCleanup
  <2>2. CASE ~session.execution
    <3>1. session.op = "none" /\ session.initializations \in Nat
      BY <1>7 DEF InitializeCall, Live, IInv, SessionInv, Sessions
    <3>2. QED
      BY <2>2, <3>1 DEF IInv, SessionInv
  <2>3. QED
    BY <2>1, <2>2
<1>8. CASE FinishReturns
  <2>1. CASE ReceiptPassed
    BY <2>1 DEF ReceiptPassed, IInv, ExecutionInv, RunInv, Torn
  <2>2. CASE ~ReceiptPassed
    BY <1>4, <1>8, <2>2 DEF FinishReturns, executionVars
  <2>3. QED
    BY <2>1, <2>2
<1>9. CASE AdvanceBinding
  <2>1. teardowns' = teardowns /\ pc' # "factory"
    BY <1>9 DEF AdvanceBinding, AdvanceCall, BeginCleanup
  <2>2. QED
    BY <1>4, <2>1
<1>10. CASE CallerAborts \/ DisposeCall
  BY <1>4, <1>10 DEF CallerAborts, DisposeCall
<1>11. CASE RetryCall
  BY <1>4, <1>11 DEF RetryCall, CleanupCall, BeginCleanup
<1>12. CASE DisposeRuns
  BY <1>4, <1>12 DEF DisposeRuns, FinishCall, CleanupCall, BeginCleanup, Idle
<1>13. CASE OperationReturns \/ DisposeReturns \/ RetryReturns \/ ReplayReturns
  BY <1>4, <1>13 DEF OperationReturns, DisposeReturns, RetryReturns, ReplayReturns,
     executionVars
<1>14. QED
  BY <1>5, <1>6, <1>7, <1>8, <1>9, <1>10, <1>11, <1>12, <1>13
     DEF Next, ExecutionNext, SessionStep

(* A program is torn down, and a new execution begins, only when no thread  *)
(* of the last one runs and none of its requests is open (cleanupInternal,  *)
(* initialize()).                                                           *)
THEOREM NothingOutlives ==
    Spec => NothingOutlivesItsExecution
<1>1. IInv /\ [Next]_vars
        => [(teardowns' > teardowns \/ (pc' # pc /\ pc' = "factory"))
              => Pending = {} /\ \A a \in Actors : Gone(worker[a])]_vars
  BY NothingLeft
<1>2. QED
  BY <1>1, InvHolds, PTL DEF Spec, NothingOutlivesItsExecution
=============================================================================
