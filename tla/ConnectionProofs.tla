-------------------------- MODULE ConnectionProofs --------------------------
(***************************************************************************)
(* Proofs about Connection for any number of calls.                        *)
(***************************************************************************)
EXTENDS Connection, TLAPS

InChain(o) == \E i \in 1..Len(queue) : queue[i] = o

(* The promise chain: an unsettled accepted call is in it exactly once,    *)
(* and only its first call has started.                                    *)
ChainInv ==
    /\ \A i, j \in 1..Len(queue) : queue[i] = queue[j] => i = j
    /\ \A o \in Ops : InChain(o) <=> pc[o] \in {"queued", "waiting", "closing"}
    /\ \A o \in Ops : pc[o] \in {"waiting", "closing"} => o = queue[1]

(* The wire: while the stream is up, the call waiting for a line is the    *)
(* one whose request is unanswered, and no line is ever left unread.       *)
WireInv ==
    /\ buffer = <<>>
    /\ failure => ended
    /\ ended => waiters = <<>> /\ Len(requests) <= 1
    /\ ~ended => requests = waiters
    /\ Len(waiters) <= 1
    /\ \A o \in Ops : waiters # <<>> /\ o = waiters[1]
                        => pc[o] = "waiting" /\ got[o] = NoResult
    /\ \A o \in Ops : pc[o] = "waiting" /\ got[o] = NoResult
                        => waiters # <<>> /\ o = waiters[1]
    /\ \A o \in Ops : pc[o] \in {"idle", "queued"} => got[o] = NoResult
    /\ \A o \in Ops : got[o].tag = "line" => got[o].line.to = o

IndInv == TypeOK /\ ChainInv /\ WireInv

-----------------------------------------------------------------------------
(* Sequences *)

(* What Tail leaves of a nonempty sequence. *)
LEMMA TailOf ==
    ASSUME NEW S, NEW s \in Seq(S), s # <<>>
    PROVE  /\ Head(s) = s[1] /\ Head(s) \in S
           /\ Tail(s) \in Seq(S)
           /\ Len(Tail(s)) = Len(s) - 1
           /\ \A i \in 1..Len(Tail(s)) : Tail(s)[i] = s[i + 1]
OBVIOUS

(* What Append makes of a sequence. *)
LEMMA AppendOf ==
    ASSUME NEW S, NEW s \in Seq(S), NEW e \in S
    PROVE  /\ Append(s, e) \in Seq(S)
           /\ Len(Append(s, e)) = Len(s) + 1
           /\ Append(s, e)[Len(s) + 1] = e
           /\ \A i \in 1..Len(s) : Append(s, e)[i] = s[i]
OBVIOUS

-----------------------------------------------------------------------------
(* The initial state *)

(* Init establishes the invariant: nothing is called, sent or read. *)
LEMMA InitInd == Init => IndInv
<1> SUFFICES ASSUME Init PROVE IndInv
  OBVIOUS
<1> USE DEF Init, IteratorInit, Ops
<1>1. TypeOK
  <2>1. got \in [Ops -> NextResults(Lines)]
    BY DEF NoResult, NextResults
  <2>2. buffer \in Seq(Lines) /\ waiters \in Seq(Ops) /\ queue \in Seq(Ops)
        /\ requests \in Seq(Ops)
    OBVIOUS
  <2>3. kind \in [Ops -> Kinds \cup {None}] /\ outcome \in [Ops -> Results]
    BY DEF Results
  <2>4. QED
    BY <2>1, <2>2, <2>3 DEF TypeOK
<1>2. ChainInv
  BY DEF ChainInv, InChain
<1>3. WireInv
  BY DEF WireInv, NoResult
<1>4. QED
  BY <1>1, <1>2, <1>3 DEF IndInv

-----------------------------------------------------------------------------
(* The chain *)

PCs == {"idle", "queued", "waiting", "closing", "settled"}

(* A call that has started is the first of the chain. *)
LEMMA StartedIsHead ==
    ASSUME IndInv, NEW o \in Ops, pc[o] \in {"waiting", "closing"}
    PROVE  queue # <<>> /\ o = Head(queue)
<1>1. InChain(o) /\ o = queue[1]
  BY DEF IndInv, ChainInv
<1>2. queue # <<>>
  BY <1>1 DEF InChain, IndInv, TypeOK
<1>3. QED
  BY <1>1, <1>2, TailOf DEF IndInv, TypeOK

(* Settling the first call of the chain lets the second become the first,  *)
(* which has not started yet.                                              *)
LEMMA SettleChain ==
    ASSUME IndInv, NEW o \in Ops, NEW result \in Results,
           queue # <<>>, o = Head(queue), Settle(o, result)
    PROVE  /\ queue' \in Seq(Ops)
           /\ pc' = [pc EXCEPT ![o] = "settled"]
           /\ outcome' \in [Ops -> Results]
           /\ ChainInv'
<1>1. /\ o = queue[1]
      /\ queue' \in Seq(Ops)
      /\ Len(queue') = Len(queue) - 1
      /\ \A i \in 1..Len(queue') : queue'[i] = queue[i + 1]
      /\ Len(queue) \in Nat /\ Len(queue) >= 1
  BY TailOf DEF IndInv, TypeOK, Settle
<1>2. /\ pc' = [pc EXCEPT ![o] = "settled"]
      /\ pc \in [Ops -> PCs]
      /\ outcome' \in [Ops -> Results]
  BY DEF IndInv, TypeOK, Settle, Results, PCs
<1>3. \A i, j \in 1..Len(queue') : queue'[i] = queue'[j] => i = j
  BY <1>1 DEF IndInv, ChainInv
<1>4. ASSUME NEW p \in Ops
      PROVE  InChain(p)' <=> pc'[p] \in {"queued", "waiting", "closing"}
  <2>1. InChain(p)' <=> \E i \in 1..Len(queue') : queue[i + 1] = p
    BY <1>1 DEF InChain
  <2>2. InChain(p)' <=> InChain(p) /\ p # o
    <3>1. ASSUME NEW i \in 1..Len(queue'), queue[i + 1] = p
          PROVE  InChain(p) /\ p # o
      <4>1. i + 1 \in 1..Len(queue) /\ i + 1 # 1 /\ 1 \in 1..Len(queue)
        BY <1>1
      <4>2. QED
        BY <4>1, <3>1, <1>1 DEF InChain, IndInv, ChainInv
    <3>2. ASSUME NEW i \in 1..Len(queue), queue[i] = p, p # o
          PROVE  \E j \in 1..Len(queue') : queue[j + 1] = p
      <4>1. i # 1 /\ i - 1 \in 1..Len(queue') /\ (i - 1) + 1 = i
        BY <1>1, <3>2
      <4>2. QED
        BY <4>1, <3>2
    <3>3. QED
      BY <2>1, <3>1, <3>2 DEF InChain
  <2>3. QED
    BY <2>2, <1>2 DEF IndInv, ChainInv, PCs
<1>5. ASSUME NEW p \in Ops, pc'[p] \in {"waiting", "closing"}
      PROVE  FALSE
  <2>1. p # o /\ pc[p] \in {"waiting", "closing"}
    BY <1>2, <1>5 DEF PCs
  <2>2. QED
    BY <2>1, <1>1 DEF IndInv, ChainInv
<1>6. QED
  BY <1>1, <1>2, <1>3, <1>4, <1>5 DEF ChainInv

(* Starting the first call, or poisoning it, keeps the chain. *)
LEMMA AdvanceChain ==
    ASSUME IndInv, NEW o \in Ops, NEW x \in {"waiting", "closing"},
           queue # <<>>, o = Head(queue), pc[o] \in {"queued", "waiting"},
           pc' = [pc EXCEPT ![o] = x], queue' = queue
    PROVE  ChainInv'
<1>1. o = queue[1] /\ pc \in [Ops -> PCs]
  BY TailOf DEF IndInv, TypeOK, PCs
<1>2. \A p \in Ops : InChain(p)' <=> InChain(p)
  BY DEF InChain
<1>3. QED
  BY <1>1, <1>2 DEF IndInv, ChainInv, PCs

(* poisonAndThrow: the call settles or waits for the transport to close. *)
LEMMA PoisonChain ==
    ASSUME IndInv, NEW o \in Ops, queue # <<>>, o = Head(queue),
           pc[o] \in {"queued", "waiting"}, poisonAndThrow(o)
    PROVE  /\ queue' \in Seq(Ops)
           /\ \E x \in {"closing", "settled"} : pc' = [pc EXCEPT ![o] = x]
           /\ outcome' \in [Ops -> Results]
           /\ transport' \in {"open", "closing", "closed", "unconfirmed"}
           /\ closed' /\ flowConsumed'
           /\ closed' \in BOOLEAN /\ flowConsumed' \in BOOLEAN
           /\ ChainInv'
<1>1. /\ transport' \in {"open", "closing", "closed", "unconfirmed"}
      /\ closed' = TRUE /\ flowConsumed' = TRUE
  BY DEF poisonAndThrow, CloseTransport, IndInv, TypeOK
<1>2. CASE Settle(o, "ProtocolFailure")
  <2>1. "ProtocolFailure" \in Results
    BY DEF Results
  <2>2. QED
    BY <1>1, <1>2, <2>1, SettleChain
<1>3. CASE pc' = [pc EXCEPT ![o] = "closing"] /\ UNCHANGED <<queue, outcome>>
  BY <1>1, <1>3, AdvanceChain DEF IndInv, TypeOK
<1>4. QED
  BY <1>2, <1>3 DEF poisonAndThrow

-----------------------------------------------------------------------------
(* The wire *)

(* A call that leaves the exchange after its next() settled leaves nothing *)
(* on the wire.                                                            *)
LEMMA LeaveWire ==
    ASSUME IndInv, NEW o \in Ops, NEW x \in {"closing", "settled"},
           pc' = [pc EXCEPT ![o] = x],
           UNCHANGED <<iteratorVars, requests>>,
           pc[o] # "waiting" \/ got[o] # NoResult
    PROVE  WireInv'
<1>1. pc \in [Ops -> PCs]
  BY DEF IndInv, TypeOK, PCs
<1>2. QED
  BY <1>1 DEF IndInv, WireInv, iteratorVars, PCs

-----------------------------------------------------------------------------
(* One lemma per action *)

(* A call refused when it is made touches neither chain nor wire. *)
LEMMA RejectInd ==
    ASSUME IndInv, NEW o \in Ops, NEW k \in Kinds, NEW result \in Results,
           pc[o] = "idle", Reject(o, k, result)
    PROVE  IndInv'
<1>1. pc \in [Ops -> PCs]
  BY DEF IndInv, TypeOK, PCs
<1>2. TypeOK'
  BY DEF IndInv, TypeOK, Reject, iteratorVars, wireVars
<1>3. ChainInv'
  <2>1. \A p \in Ops : InChain(p)' <=> InChain(p)
    BY DEF InChain, Reject
  <2>2. QED
    BY <1>1, <2>1 DEF IndInv, ChainInv, Reject, PCs
<1>4. WireInv'
  BY LeaveWire DEF Reject, wireVars
<1>5. QED
  BY <1>2, <1>3, <1>4 DEF IndInv

(* op(): the call joins the end of the chain, unstarted. *)
LEMMA OpInd ==
    ASSUME IndInv, NEW o \in Ops, NEW k \in Kinds, op(o, k)
    PROVE  IndInv'
<1>1. CASE Reject(o, k, "not_live")
  BY <1>1, RejectInd DEF Results, op
<1>2. CASE Reject(o, k, "ConnectionClosed")
  BY <1>2, RejectInd DEF Results, op
<1>3. CASE /\ queue' = Append(queue, o)
           /\ kind' = [kind EXCEPT ![o] = k]
           /\ pc' = [pc EXCEPT ![o] = "queued"]
           /\ UNCHANGED <<iteratorVars, wireVars, mode, closed, flowConsumed,
                          outcome>>
  <2>1. /\ pc \in [Ops -> PCs] /\ pc[o] = "idle"
        /\ queue' \in Seq(Ops) /\ queue \in Seq(Ops)
        /\ Len(queue') = Len(queue) + 1
        /\ queue'[Len(queue) + 1] = o
        /\ \A i \in 1..Len(queue) : queue'[i] = queue[i]
    BY <1>3, AppendOf DEF IndInv, TypeOK, PCs, op
  <2>2. TypeOK'
    BY <1>3, <2>1 DEF IndInv, TypeOK, iteratorVars, wireVars
  <2>3. Len(queue) \in Nat /\ ~InChain(o)
    BY <2>1 DEF IndInv, ChainInv
  <2>4. \A p \in Ops : InChain(p)' <=> InChain(p) \/ p = o
    <3>1. ASSUME NEW p \in Ops, InChain(p)' PROVE InChain(p) \/ p = o
      BY <2>1, <2>3, <3>1 DEF InChain
    <3>2. ASSUME NEW p \in Ops, InChain(p) PROVE InChain(p)'
      <4>1. PICK i \in 1..Len(queue) : queue[i] = p
        BY <3>2 DEF InChain
      <4>2. i \in 1..Len(queue') /\ queue'[i] = p
        BY <4>1, <2>1, <2>3
      <4>3. QED
        BY <4>2 DEF InChain
    <3>3. InChain(o)'
      <4>1. Len(queue) + 1 \in 1..Len(queue')
        BY <2>1, <2>3
      <4>2. QED
        BY <4>1, <2>1 DEF InChain
    <3>4. QED
      BY <3>1, <3>2, <3>3
  <2>5. \A i, j \in 1..Len(queue') : queue'[i] = queue'[j] => i = j
    <3>1. \A i \in 1..Len(queue) : queue[i] # o
      BY <2>3 DEF InChain
    <3>2. QED
      BY <3>1, <2>1, <2>3 DEF IndInv, ChainInv
  <2>6. \A p \in Ops : pc'[p] \in {"waiting", "closing"} => p = queue'[1]
    <3>1. SUFFICES ASSUME NEW p \in Ops, pc'[p] \in {"waiting", "closing"}
                   PROVE  p = queue'[1]
      OBVIOUS
    <3>2. p # o /\ pc[p] \in {"waiting", "closing"}
      BY <3>1, <1>3, <2>1 DEF PCs
    <3>3. queue # <<>> /\ p = queue[1]
      BY <3>2, StartedIsHead, TailOf, <2>1
    <3>4. 1 \in 1..Len(queue)
      BY <3>3, <2>1
    <3>5. QED
      BY <3>3, <3>4, <2>1
  <2>7. ChainInv'
    BY <1>3, <2>1, <2>4, <2>5, <2>6 DEF IndInv, ChainInv, PCs
  <2>8. WireInv'
    BY <1>3, <2>1 DEF IndInv, WireInv, iteratorVars, wireVars, PCs
  <2>9. QED
    BY <2>2, <2>7, <2>8 DEF IndInv
<1>4. QED
  BY <1>1, <1>2, <1>3 DEF op

(* The transport has closed and the poisoned call throws. *)
LEMMA PoisonThrowsInd ==
    ASSUME IndInv, NEW o \in Ops, PoisonThrows(o)
    PROVE  IndInv'
<1>1. queue # <<>> /\ o = Head(queue)
  BY StartedIsHead DEF PoisonThrows
<1>2. "ProtocolFailure" \in Results
  BY DEF Results
<1>3. /\ queue' \in Seq(Ops)
      /\ pc' = [pc EXCEPT ![o] = "settled"]
      /\ outcome' \in [Ops -> Results]
      /\ ChainInv'
  BY <1>1, <1>2, SettleChain DEF PoisonThrows
<1>4. TypeOK'
  BY <1>3 DEF IndInv, TypeOK, PoisonThrows, iteratorVars, wireVars
<1>5. WireInv'
  BY <1>3, LeaveWire DEF PoisonThrows, wireVars
<1>6. QED
  BY <1>3, <1>4, <1>5 DEF IndInv

(* The call's turn: refused, started or poisoned before anything is sent. *)
LEMMA TurnInd ==
    ASSUME IndInv, NEW o \in Ops, Turn(o)
    PROVE  IndInv'
<1>1. /\ pc[o] = "queued" /\ queue # <<>> /\ o = Head(queue)
      /\ pc \in [Ops -> PCs]
  BY DEF Turn, IndInv, TypeOK, PCs
<1>2. CASE TurnRefused(o)
  <2>1. "ConnectionClosed" \in Results /\ "AsyncOnStdio" \in Results
    BY DEF Results
  <2>2. /\ queue' \in Seq(Ops)
        /\ pc' = [pc EXCEPT ![o] = "settled"]
        /\ outcome' \in [Ops -> Results]
        /\ ChainInv'
    BY <1>1, <1>2, <2>1, SettleChain DEF TurnRefused
  <2>3. TypeOK'
    BY <1>2, <2>2 DEF IndInv, TypeOK, TurnRefused, iteratorVars, wireVars
  <2>4. WireInv'
    BY <1>1, <1>2, <2>2, LeaveWire DEF TurnRefused, wireVars
  <2>5. QED
    BY <2>2, <2>3, <2>4 DEF IndInv
<1>3. CASE TurnSends(o)
  <2>1. /\ pc' = [pc EXCEPT ![o] = "waiting"] /\ queue' = queue
        /\ got[o] = NoResult /\ buffer = <<>>
        /\ ended' = ended /\ failure' = failure /\ buffer' = buffer
    BY <1>3 DEF TurnSends, pull, IndInv, WireInv
  <2>2. ChainInv'
    BY <1>1, <2>1, AdvanceChain
  <2>3. \A p \in Ops : p # o => pc[p] # "waiting"
    BY <1>1 DEF IndInv, ChainInv
  <2>4. waiters = <<>>
    <3>1. SUFFICES ASSUME waiters # <<>> PROVE FALSE
      OBVIOUS
    <3>2. waiters[1] \in Ops
      BY <3>1, TailOf DEF IndInv, TypeOK
    <3>3. QED
      BY <3>1, <3>2, <2>3, <1>1 DEF IndInv, WireInv
  <2>5. CASE ended
    <3>1. /\ waiters' = waiters /\ requests' = requests
          /\ got' \in {[got EXCEPT ![o] = Rejected], [got EXCEPT ![o] = EndOfLines]}
      BY <1>3, <2>1, <2>5 DEF TurnSends, pull, send
    <3>2. TypeOK'
      BY <1>3, <2>1, <3>1 DEF IndInv, TypeOK, TurnSends, Rejected, EndOfLines,
                                     NextResults
    <3>3. WireInv'
      <4>1. \A p \in Ops : p # o => got'[p] = got[p] /\ pc'[p] = pc[p]
        BY <2>1, <3>1, <1>1 DEF IndInv, TypeOK
      <4>2. got'[o].tag \in {"rejected", "done"} /\ got'[o] # NoResult
            /\ pc'[o] = "waiting"
        BY <2>1, <3>1, <1>1 DEF IndInv, TypeOK, Rejected, EndOfLines, NoResult
      <4>3. QED
        BY <4>1, <4>2, <2>1, <2>4, <2>5, <3>1 DEF IndInv, WireInv
    <3>4. QED
      BY <2>2, <3>2, <3>3 DEF IndInv
  <2>6. CASE ~ended
    <3>1. /\ waiters' = Append(waiters, o) /\ requests' = Append(requests, o)
          /\ got' = got
      BY <1>3, <2>1, <2>6 DEF TurnSends, pull, send, IndInv, WireInv
    <3>2. waiters' = <<o>> /\ requests' = <<o>>
      BY <3>1, <2>4, <2>6 DEF IndInv, WireInv
    <3>3. TypeOK'
      BY <1>3, <2>1, <3>1, <3>2 DEF IndInv, TypeOK, TurnSends
    <3>4. WireInv'
      <4>1. Len(waiters') = 1 /\ waiters'[1] = o /\ waiters' # <<>>
        BY <3>2
      <4>2. \A p \in Ops : p # o => pc'[p] = pc[p]
        BY <2>1, <1>1
      <4>3. pc'[o] = "waiting"
        BY <2>1, <1>1
      <4>4. QED
        BY <4>1, <4>2, <4>3, <2>1, <2>3, <2>6, <3>1, <3>2 DEF IndInv, WireInv
    <3>5. QED
      BY <2>2, <3>3, <3>4 DEF IndInv
  <2>7. QED
    BY <2>5, <2>6 DEF IndInv, TypeOK
<1>4. CASE TurnLineRefused(o)
  <2>1. /\ queue' \in Seq(Ops)
        /\ \E x \in {"closing", "settled"} : pc' = [pc EXCEPT ![o] = x]
        /\ outcome' \in [Ops -> Results]
        /\ transport' \in {"open", "closing", "closed", "unconfirmed"}
        /\ closed' \in BOOLEAN /\ flowConsumed' \in BOOLEAN
        /\ ChainInv'
    BY <1>1, <1>4, PoisonChain DEF TurnLineRefused
  <2>2. TypeOK'
    BY <1>4, <2>1 DEF IndInv, TypeOK, TurnLineRefused, iteratorVars
  <2>3. WireInv'
    BY <1>1, <1>4, <2>1, LeaveWire DEF TurnLineRefused
  <2>4. QED
    BY <2>1, <2>2, <2>3 DEF IndInv
<1>5. QED
  BY <1>2, <1>3, <1>4 DEF Turn

(* The call's next() settled: it dispatches the reply, fails or poisons. *)
LEMMA ResumeInd ==
    ASSUME IndInv, NEW o \in Ops, Resume(o)
    PROVE  IndInv'
<1>1. /\ pc[o] = "waiting" /\ got[o] # NoResult
      /\ queue # <<>> /\ o = Head(queue)
      /\ UNCHANGED <<iteratorVars, requests, mode, kind>>
  BY StartedIsHead DEF Resume
<1>2. CASE poisonAndThrow(o)
  <2>1. /\ queue' \in Seq(Ops)
        /\ \E x \in {"closing", "settled"} : pc' = [pc EXCEPT ![o] = x]
        /\ outcome' \in [Ops -> Results]
        /\ transport' \in {"open", "closing", "closed", "unconfirmed"}
        /\ closed' \in BOOLEAN /\ flowConsumed' \in BOOLEAN
        /\ ChainInv'
    BY <1>1, <1>2, PoisonChain
  <2>2. TypeOK'
    BY <1>1, <2>1 DEF IndInv, TypeOK, iteratorVars
  <2>3. WireInv'
    BY <1>1, <2>1, LeaveWire
  <2>4. QED
    BY <2>1, <2>2, <2>3 DEF IndInv
<1>3. ASSUME NEW result \in Results, Settle(o, result),
             flowConsumed' \in BOOLEAN, UNCHANGED <<closed, transport>>
      PROVE  IndInv'
  <2>1. /\ queue' \in Seq(Ops)
        /\ pc' = [pc EXCEPT ![o] = "settled"]
        /\ outcome' \in [Ops -> Results]
        /\ ChainInv'
    BY <1>1, <1>3, SettleChain
  <2>2. TypeOK'
    BY <1>1, <1>3, <2>1 DEF IndInv, TypeOK, iteratorVars
  <2>3. WireInv'
    BY <1>1, <2>1, LeaveWire
  <2>4. QED
    BY <2>1, <2>2, <2>3 DEF IndInv
<1>4. ASSUME NEW reply \in Results, DispatchReply(o, reply)
      PROVE  IndInv'
  <2>1. flowConsumed \in BOOLEAN
    BY DEF IndInv, TypeOK
  <2>2. QED
    BY <1>2, <1>3, <1>4, <2>1 DEF DispatchReply
<1>5. got[o].tag = "line" => got[o].line.reply \in Results
  <2>1. SUFFICES ASSUME got[o].tag = "line" PROVE got[o].line \in Lines
    BY DEF Lines, Results
  <2>2. QED
    BY <2>1 DEF IndInv, TypeOK, NextResults
<1>6. "IteratorError" \in Results /\ flowConsumed \in BOOLEAN
  BY DEF Results, IndInv, TypeOK
<1>7. QED
  BY <1>2, <1>3, <1>4, <1>5, <1>6 DEF Resume

(* close() only marks the connection and the transport. *)
LEMMA CloseInd == ASSUME IndInv, close PROVE IndInv'
<1>1. TypeOK'
  BY DEF IndInv, TypeOK, close, CloseTransport, iteratorVars
<1>2. ChainInv' /\ WireInv'
  BY DEF IndInv, ChainInv, WireInv, InChain, close, iteratorVars
<1>3. QED
  BY <1>1, <1>2 DEF IndInv

(* The line the mirror sends answers the only request on the wire, and the *)
(* call that sent it is waiting for it.                                    *)
LEMMA MirrorAnswersInd ==
    ASSUME IndInv, NEW reply \in Replies, MirrorAnswers(reply)
    PROVE  IndInv'
<1> DEFINE o == Head(requests)
           l == [to |-> o, reply |-> reply]
<1>1. /\ ~ended /\ requests # <<>> /\ requests = waiters /\ waiters # <<>>
      /\ o \in Ops /\ o = waiters[1] /\ Len(waiters) = 1
      /\ pc[o] = "waiting" /\ got[o] = NoResult
      /\ got \in [Ops -> NextResults(Lines)]
  <2>1. ~ended /\ requests # <<>> /\ requests = waiters
    BY DEF MirrorAnswers, IndInv, WireInv
  <2>2. o \in Ops /\ o = requests[1] /\ Len(requests) >= 1
    BY <2>1, TailOf DEF IndInv, TypeOK
  <2>3. Len(waiters) = 1 /\ waiters # <<>> /\ o = waiters[1]
    <3>1. waiters \in Seq(Ops) /\ Len(waiters) <= 1
      BY DEF IndInv, TypeOK, WireInv
    <3>2. waiters # <<>> /\ o = waiters[1]
      BY <2>1, <2>2, Zenon
    <3>3. Len(waiters) = 1
      BY <3>1, <3>2
    <3>4. QED
      BY <3>2, <3>3, Zenon
  <2>4. pc[o] = "waiting" /\ got[o] = NoResult
    BY <2>2, <2>3 DEF IndInv, WireInv
  <2>5. QED
    BY <2>1, <2>2, <2>3, <2>4 DEF IndInv, TypeOK
<1>2. /\ got' = [got EXCEPT ![o] = Value(l)]
      /\ waiters' = Tail(waiters) /\ requests' = Tail(requests)
      /\ UNCHANGED <<buffer, ended, failure, connVars, transport>>
  BY <1>1 DEF MirrorAnswers, emit
<1>3. l \in Lines
  BY <1>1 DEF Lines
<1>4. waiters' = <<>> /\ requests' = <<>>
  BY <1>1, <1>2, TailOf DEF IndInv, TypeOK
<1>5. TypeOK'
  <2>1. got' \in [Ops -> NextResults(Lines)]
    BY <1>1, <1>2, <1>3 DEF Value, NextResults
  <2>2. waiters' \in Seq(Ops) /\ requests' \in Seq(Ops)
    BY <1>4
  <2>3. QED
    BY <1>2, <2>1, <2>2 DEF IndInv, TypeOK, connVars
<1>6. ChainInv'
  BY <1>2 DEF IndInv, ChainInv, InChain, connVars
<1>7. WireInv'
  <2>1. got'[o].tag = "line" /\ got'[o].line.to = o /\ got'[o] # NoResult
    BY <1>1, <1>2 DEF Value, NoResult
  <2>2. \A p \in Ops : p # o => got'[p] = got[p]
    BY <1>1, <1>2
  <2>3. pc' = pc /\ ended' = ended /\ failure' = failure /\ buffer' = buffer
    BY <1>2 DEF connVars
  <2>4. QED
    BY <1>1, <1>4, <2>1, <2>2, <2>3 DEF IndInv, WireInv
<1>8. QED
  BY <1>5, <1>6, <1>7 DEF IndInv

(* The end of the stream settles whoever waits, with no line. *)
LEMMA StreamStops ==
    ASSUME IndInv, ~ended, NEW result \in {EndOfLines, Rejected},
           SettleWaiters(result), ended' = TRUE, buffer' = <<>>,
           failure' \in BOOLEAN, UNCHANGED <<connVars, requests>>,
           transport' \in {"open", "closing", "closed", "unconfirmed"}
    PROVE  IndInv'
<1>1. /\ waiters' = <<>>
      /\ got' = [r \in Ops |-> IF Waiting(r) THEN result ELSE got[r]]
      /\ result.tag \in {"done", "rejected"} /\ result.line = NoLine
      /\ result # NoResult
      /\ result \in NextResults(Lines)
  BY DEF SettleWaiters, Ops, EndOfLines, Rejected, NoResult, NextResults
<1>2. TypeOK'
  BY <1>1 DEF IndInv, TypeOK, connVars
<1>3. ChainInv'
  BY DEF IndInv, ChainInv, InChain, connVars
<1>4. \A r \in Ops : Waiting(r) <=> waiters # <<>> /\ r = waiters[1]
  BY DEF Waiting, IndInv, WireInv, TypeOK
<1>5. WireInv'
  BY <1>1, <1>4 DEF IndInv, WireInv, TypeOK, connVars
<1>6. QED
  BY <1>2, <1>3, <1>5 DEF IndInv

(* Orderly end or I/O failure of the stream. *)
LEMMA StreamEndsInd == ASSUME IndInv, StreamEnds PROVE IndInv'
<1>1. buffer' = <<>> /\ failure' \in BOOLEAN
  BY DEF StreamEnds, finish, IndInv, WireInv, TypeOK
<1>2. QED
  BY <1>1, StreamStops DEF StreamEnds, finish, wireVars, IndInv, TypeOK

(* Framing violation. *)
LEMMA FramingFailsInd == ASSUME IndInv, FramingFails PROVE IndInv'
<1>1. transport' \in {"open", "closing", "closed", "unconfirmed"}
  BY DEF FramingFails, IndInv, TypeOK
<1>2. QED
  BY <1>1, StreamStops DEF FramingFails, fail

(* The transport's close() settles. *)
LEMMA TransportClosesInd == ASSUME IndInv, TransportCloses PROVE IndInv'
<1>1. TypeOK'
  BY DEF IndInv, TypeOK, TransportCloses, iteratorVars, connVars
<1>2. ChainInv' /\ WireInv'
  BY DEF IndInv, ChainInv, WireInv, InChain, TransportCloses, iteratorVars,
         connVars
<1>3. QED
  BY <1>1, <1>2 DEF IndInv

-----------------------------------------------------------------------------
(* The theorems *)

(* Every step preserves the invariant. *)
LEMMA NextInd == IndInv /\ [Next]_vars => IndInv'
<1> SUFFICES ASSUME IndInv, [Next]_vars PROVE IndInv'
  OBVIOUS
<1>1. ASSUME NEW o \in Ops, BoundOutOfRange(o) PROVE IndInv'
  BY <1>1, RejectInd DEF BoundOutOfRange, Kinds, Results
<1>2. CASE UNCHANGED vars
  <2>1. TypeOK'
    BY <1>2 DEF IndInv, TypeOK, vars, iteratorVars, connVars, wireVars
  <2>2. ChainInv' /\ WireInv'
    BY <1>2 DEF IndInv, ChainInv, WireInv, InChain, vars, iteratorVars,
                connVars, wireVars
  <2>3. QED
    BY <2>1, <2>2 DEF IndInv
<1>3. QED
  BY <1>1, <1>2, OpInd, TurnInd, ResumeInd, PoisonThrowsInd, CloseInd,
     MirrorAnswersInd, StreamEndsInd, FramingFailsInd, TransportClosesInd
  DEF Next

(* The chain and wire invariants hold in every reachable state. *)
THEOREM Invariance == Spec => []IndInv
BY InitInd, NextInd, PTL DEF Spec

(* Type correctness of the connection. *)
THEOREM TypeCorrect == Spec => []TypeOK
<1>1. IndInv => TypeOK
  BY DEF IndInv
<1>2. QED
  BY <1>1, Invariance, PTL

(* Whatever the number of concurrent calls, a call reads only the reply to *)
(* its own request.                                                        *)
THEOREM Pairing == Spec => []RepliesPaired
<1>1. IndInv => RepliesPaired
  BY DEF IndInv, WireInv, RepliesPaired
<1>2. QED
  BY <1>1, Invariance, PTL

(* Request/reply pairs never interleave on the line stream. *)
THEOREM LockStepExchange == Spec => []LockStep
<1>1. IndInv => LockStep
  <2> SUFFICES ASSUME IndInv PROVE LockStep
    OBVIOUS
  <2>1. Len(buffer) = 0 /\ Len(requests) <= 1 /\ Len(waiters) <= 1
    BY DEF IndInv, WireInv, TypeOK
  <2>2. \A o, p \in Ops : pc[o] = "waiting" /\ pc[p] = "waiting" => o = p
    BY DEF IndInv, ChainInv
  <2>3. QED
    BY <2>1, <2>2 DEF LockStep, IndInv, TypeOK
<1>2. QED
  BY <1>1, Invariance, PTL

-----------------------------------------------------------------------------
(* A spent connection is silent *)

(* A poisoned call has consumed the flow, and a flow that ended left the   *)
(* connection closed or consumed.                                          *)
FlowInv ==
    /\ \A o \in Ops : pc[o] = "closing" => flowConsumed
    /\ FlowEnded => closed \/ flowConsumed

(* What one call settling with an exchange failure does to FlowInv. *)
LEMMA PoisonFlow ==
    ASSUME IndInv, FlowInv, NEW o \in Ops, poisonAndThrow(o)
    PROVE  FlowInv'
BY DEF poisonAndThrow, FlowInv

(* A step that settles at most call o, with a harmless outcome, and keeps  *)
(* the flags keeps FlowInv.                                                *)
LEMMA SettleFlow ==
    ASSUME IndInv, FlowInv, NEW o \in Ops, NEW result \in Results,
           pc' = [pc EXCEPT ![o] = "settled"],
           outcome' = [outcome EXCEPT ![o] = result],
           result # "ProtocolFailure" \/ closed \/ flowConsumed,
           got' = got,
           kind' = kind \/ (got[o] = NoResult /\ \E k \in Kinds : kind' = [kind EXCEPT ![o] = k]),
           closed' = closed, flowConsumed => flowConsumed',
           kind[o] = "validate" /\ got[o].tag = "line" => closed \/ flowConsumed'
    PROVE  FlowInv'
<1>1. pc \in [Ops -> PCs] /\ outcome \in [Ops -> Results]
      /\ kind \in [Ops -> Kinds \cup {None}]
  BY DEF IndInv, TypeOK, PCs
<1>2. \A p \in Ops : p # o => /\ pc'[p] = pc[p] /\ outcome'[p] = outcome[p]
                              /\ kind'[p] = kind[p]
  BY <1>1
<1>3. outcome'[o] = result /\ pc'[o] = "settled"
  BY <1>1
<1>4. kind'[o] = kind[o] \/ got[o].tag # "line"
  BY <1>1 DEF NoResult
<1>5. QED
  BY <1>2, <1>3, <1>4 DEF FlowInv, FlowEnded

(* Every step preserves FlowInv. *)
LEMMA NextFlow == IndInv /\ FlowInv /\ [Next]_vars => FlowInv'
<1> SUFFICES ASSUME IndInv, FlowInv, [Next]_vars PROVE FlowInv'
  OBVIOUS
<1>0. /\ pc \in [Ops -> PCs] /\ outcome \in [Ops -> Results]
      /\ kind \in [Ops -> Kinds \cup {None}]
  BY DEF IndInv, TypeOK, PCs
<1>1. ASSUME NEW o \in Ops, NEW k \in Kinds, NEW result \in Results,
             result # "ProtocolFailure", pc[o] = "idle", Reject(o, k, result)
      PROVE  FlowInv'
  <2>1. got[o] = NoResult
    BY <1>1 DEF IndInv, WireInv
  <2>2. got[o].tag # "line"
    BY <2>1 DEF NoResult
  <2>3. /\ pc' = [pc EXCEPT ![o] = "settled"]
        /\ outcome' = [outcome EXCEPT ![o] = result]
        /\ kind' = [kind EXCEPT ![o] = k]
        /\ got' = got /\ closed' = closed /\ flowConsumed' = flowConsumed
    BY <1>1 DEF Reject, iteratorVars
  <2>4. QED
    BY <1>1, <2>1, <2>2, <2>3, SettleFlow
<1>2. ASSUME NEW o \in Ops, BoundOutOfRange(o) PROVE FlowInv'
  BY <1>1, <1>2 DEF BoundOutOfRange, Kinds, Results
<1>3. ASSUME NEW o \in Ops, NEW k \in Kinds, op(o, k) PROVE FlowInv'
  <2>1. CASE PingUnusable(k)
    BY <1>1, <1>3, <2>1 DEF op, Results
  <2>2. CASE ~PingUnusable(k) /\ closed
    BY <1>1, <1>3, <2>2 DEF op, Results
  <2>3. CASE ~PingUnusable(k) /\ ~closed
    <3>1. /\ pc[o] = "idle" /\ pc' = [pc EXCEPT ![o] = "queued"]
          /\ kind' = [kind EXCEPT ![o] = k]
          /\ UNCHANGED <<got, outcome, closed, flowConsumed>>
      BY <1>3, <2>3 DEF op, iteratorVars
    <3>2. QED
      BY <3>1, <1>0 DEF FlowInv, FlowEnded
  <2>4. QED
    BY <2>1, <2>2, <2>3
<1>4. ASSUME NEW o \in Ops, Turn(o) PROVE FlowInv'
  <2>1. CASE TurnRefused(o)
    <3>1. got[o] = NoResult /\ got' = got
      BY <1>4, <2>1 DEF Turn, TurnRefused, iteratorVars, IndInv, WireInv
    <3>2. \E result \in {"ConnectionClosed", "AsyncOnStdio", "not_live"} :
             outcome' = [outcome EXCEPT ![o] = result]
      BY <2>1 DEF TurnRefused, Settle
    <3>3. {"ConnectionClosed", "AsyncOnStdio", "not_live"} \subseteq Results
      BY DEF Results
    <3>4. got[o].tag # "line"
      BY <3>1 DEF NoResult
    <3>5. /\ pc' = [pc EXCEPT ![o] = "settled"]
          /\ UNCHANGED <<kind, closed, flowConsumed>>
      BY <2>1 DEF TurnRefused, Settle
    <3>6. QED
      BY <3>1, <3>2, <3>3, <3>4, <3>5, SettleFlow
  <2>2. CASE TurnSends(o)
    <3>1. /\ pc' = [pc EXCEPT ![o] = "waiting"]
          /\ UNCHANGED <<closed, flowConsumed, kind, outcome>>
          /\ \A p \in Ops : p # o => got'[p] = got[p]
      BY <2>2 DEF TurnSends, pull, IndInv, TypeOK
    <3>2. QED
      BY <3>1, <1>0 DEF FlowInv, FlowEnded
  <2>3. CASE TurnLineRefused(o)
    BY <2>3, PoisonFlow DEF TurnLineRefused
  <2>4. QED
    BY <1>4, <2>1, <2>2, <2>3 DEF Turn
<1>5. ASSUME NEW o \in Ops, Resume(o) PROVE FlowInv'
  <2>1. CASE poisonAndThrow(o)
    BY <2>1, PoisonFlow
  <2>2. ASSUME NEW result \in Results, Settle(o, result),
               result # "ProtocolFailure", closed' = closed,
               flowConsumed => flowConsumed',
               kind[o] = "validate" => closed \/ flowConsumed'
        PROVE  FlowInv'
    <3>1. \E x \in Results : /\ x # "ProtocolFailure"
                             /\ outcome' = [outcome EXCEPT ![o] = x]
      BY <2>2 DEF Settle, Results
    <3>2. got' = got /\ kind' = kind
      BY <1>5 DEF Resume, iteratorVars
    <3>3. QED
      BY <2>2, <3>1, <3>2, SettleFlow DEF Settle
  <2>3. got[o].tag = "line" => got[o].line.reply \in Replies
    BY DEF IndInv, TypeOK, NextResults, Lines
  <2>4. \A r \in Replies : r \in Results /\ r # "ProtocolFailure"
    BY DEF Replies, Results
  <2>5. "IteratorError" \in Results
    BY DEF Results
  <2>6. ASSUME NEW r \in Replies, DispatchReply(o, r) PROVE FlowInv'
    <3>1. CASE poisonAndThrow(o)
      BY <2>1, <3>1
    <3>2. CASE Settle(o, r) /\ flowConsumed' = (flowConsumed \/ kind[o] = "validate")
               /\ closed' = closed
      BY <2>2, <2>4, <3>2
    <3>3. QED
      BY <2>6, <3>1, <3>2 DEF DispatchReply
  <2>7. ASSUME closed, Settle(o, "IteratorError"), UNCHANGED <<closed, flowConsumed>>
        PROVE  FlowInv'
    <3>1. "IteratorError" # "ProtocolFailure"
      OBVIOUS
    <3>2. QED
      BY <2>2, <2>5, <2>7, <3>1
  <2>8. \/ poisonAndThrow(o)
        \/ closed /\ Settle(o, "IteratorError") /\ UNCHANGED <<closed, flowConsumed>>
        \/ got[o].tag = "line" /\ DispatchReply(o, got[o].line.reply)
    BY <1>5 DEF Resume
  <2>9. QED
    BY <2>1, <2>3, <2>6, <2>7, <2>8
<1>6. ASSUME NEW o \in Ops, PoisonThrows(o) PROVE FlowInv'
  <2>1. flowConsumed /\ flowConsumed' /\ closed' = closed
    BY <1>6 DEF PoisonThrows, FlowInv
  <2>2. QED
    BY <2>1 DEF FlowInv
<1>7. CASE close
  BY <1>7 DEF close, CloseTransport, FlowInv
<1>8. ASSUME NEW reply \in Replies, MirrorAnswers(reply) PROVE FlowInv'
  <2>1. UNCHANGED <<pc, kind, outcome, closed, flowConsumed>>
    BY <1>8 DEF MirrorAnswers, connVars
  <2>2. \A p \in Ops : pc[p] = "settled" => got'[p] = got[p]
    <3>1. waiters # <<>> => Head(waiters) \in Ops /\ Head(waiters) = waiters[1]
      BY TailOf DEF IndInv, TypeOK
    <3>2. waiters # <<>> => pc[Head(waiters)] = "waiting"
      BY <3>1 DEF IndInv, WireInv
    <3>3. got \in [Ops -> NextResults(Lines)]
      BY DEF IndInv, TypeOK
    <3>4. QED
      BY <1>8, <3>1, <3>2, <3>3 DEF MirrorAnswers, emit
  <2>3. QED
    BY <2>1, <2>2 DEF FlowInv, FlowEnded
<1>9. ASSUME NEW result \in {EndOfLines, Rejected},
             SettleWaiters(result) \/ got' = got, UNCHANGED connVars
      PROVE  FlowInv'
  <2>1. \A p \in Ops : got'[p].tag = "line" => got[p].tag = "line"
    BY <1>9 DEF SettleWaiters, Ops, EndOfLines, Rejected
  <2>2. QED
    BY <1>9, <2>1 DEF FlowInv, FlowEnded, connVars
<1>10. CASE StreamEnds \/ FramingFails \/ TransportCloses
  BY <1>9, <1>10 DEF StreamEnds, finish, FramingFails, fail, TransportCloses,
                     iteratorVars
<1>11. CASE UNCHANGED vars
  BY <1>9, <1>11 DEF vars, iteratorVars
<1>12. QED
  BY <1>2, <1>3, <1>4, <1>5, <1>6, <1>7, <1>8, <1>10, <1>11 DEF Next

(* Once a validate was answered or a call failed the protocol, no call     *)
(* sends anything on this connection, the ones chained behind it included. *)
THEOREM SpentIsSilent == Spec => SpentConnectionIsSilent
<1>1. Init => FlowInv
  BY DEF Init, FlowInv, FlowEnded, IteratorInit, Ops
<1>2. IndInv /\ FlowInv /\ [Next]_vars
        => [FlowEnded => Len(requests') <= Len(requests)]_vars
  <2> SUFFICES ASSUME IndInv, FlowInv, Next, FlowEnded
               PROVE  Len(requests') <= Len(requests)
    OBVIOUS
  <2>1. ~assertFlowOpen
    BY DEF FlowInv, assertFlowOpen
  <2>2. requests \in Seq(Ops)
    BY DEF IndInv, TypeOK
  <2>3. requests' = requests \/ (requests # <<>> /\ requests' = Tail(requests))
    BY <2>1 DEF Next, BoundOutOfRange, op, Reject, Turn, TurnRefused, TurnSends,
                TurnLineRefused, Resume, PoisonThrows, close, MirrorAnswers,
                StreamEnds, FramingFails, TransportCloses, wireVars
  <2>4. QED
    BY <2>2, <2>3, TailOf
<1>3. QED
  BY <1>1, <1>2, NextFlow, Invariance, PTL DEF Spec, SpentConnectionIsSilent

-----------------------------------------------------------------------------
(* Refinement: Connection implements SerialExchange *)

(* The call on the wire is the one that has started, if any. *)
CurrentStarted ==
    /\ \A o \in Ops : pc[o] \in {"waiting", "closing"} <=> Current = o
    /\ (\A o \in Ops : pc[o] \notin {"waiting", "closing"}) <=> Current = None

(* CurrentStarted follows from the chain invariant. *)
LEMMA CurrentIs == IndInv => CurrentStarted
<1> SUFFICES ASSUME IndInv PROVE CurrentStarted
  OBVIOUS
<1>1. \A o, p \in OnWire : o = p
  BY DEF IndInv, ChainInv, OnWire
<1>2. CASE OnWire = {}
  BY <1>2, NoneIsNoCall DEF Current, OnWire, Ops, CurrentStarted
<1>3. CASE OnWire # {}
  <2>1. Current \in OnWire
    BY <1>3 DEF Current
  <2>2. QED
    BY <2>1, <1>1, NoneIsNoCall DEF OnWire, Ops, CurrentStarted
<1>4. QED
  BY <1>2, <1>3

(* The call on the wire stays the same when the started calls do. *)
LEMMA CurrentSame ==
    ASSUME CurrentStarted, CurrentStarted',
           \A p \in Ops : pc'[p] \in {"waiting", "closing"}
                          <=> pc[p] \in {"waiting", "closing"}
    PROVE  Current' = Current
<1>1. CASE \E p \in Ops : pc[p] \in {"waiting", "closing"}
  BY <1>1 DEF CurrentStarted
<1>2. CASE \A p \in Ops : pc[p] \notin {"waiting", "closing"}
  BY <1>2 DEF CurrentStarted
<1>3. QED
  BY <1>1, <1>2

(* The first call of the chain leaves it: from its turn or from the wire. *)
LEMMA SettleRefines ==
    ASSUME IndInv, CurrentStarted, CurrentStarted', NEW o \in Ops,
           NEW result, Settle(o, result), queue # <<>>, o = Head(queue),
           Spent => Spent', Spent' \in BOOLEAN,
           pc[o] \in {"waiting", "closing"} \/ Spent' = Spent
    PROVE  Abstract!Next
<1>1. /\ pc \in [Ops -> PCs] /\ queue \in Seq(Ops) /\ o = queue[1]
      /\ pc' = [pc EXCEPT ![o] = "settled"] /\ queue' = Tail(queue)
  BY TailOf DEF IndInv, TypeOK, PCs, Settle
<1>2. Settled' = Settled \cup {o}
  BY <1>1 DEF Settled
<1>3. \A p \in Ops : p # o => pc[p] \notin {"waiting", "closing"}
  BY <1>1 DEF IndInv, ChainInv
<1>4. Current' = None
  BY <1>1, <1>3 DEF CurrentStarted
<1>5. CASE pc[o] \in {"waiting", "closing"}
  <2>1. Current = o
    BY <1>5 DEF CurrentStarted
  <2>2. Spent' \in {Spent, TRUE}
    BY DEF Spent
  <2>3. Abstract!Finish(o)
    BY <1>1, <1>2, <1>4, <2>1, <2>2 DEF Abstract!Finish
  <2>4. QED
    BY <2>3 DEF Abstract!Next
<1>6. CASE pc[o] \notin {"waiting", "closing"}
  <2>1. Current = None
    BY <1>3, <1>6 DEF CurrentStarted
  <2>2. Abstract!Refuse(o)
    BY <1>1, <1>2, <1>4, <1>6, <2>1 DEF Abstract!Refuse
  <2>3. QED
    BY <2>2 DEF Abstract!Next
<1>7. QED
  BY <1>5, <1>6

(* A refused call never joined the chain. *)
LEMMA RejectRefines ==
    ASSUME IndInv, CurrentStarted, CurrentStarted', NEW o \in Ops,
           NEW k, NEW result, pc[o] = "idle", Reject(o, k, result)
    PROVE  Abstract!Next
<1>1. /\ pc \in [Ops -> PCs] /\ pc' = [pc EXCEPT ![o] = "settled"]
      /\ UNCHANGED <<queue, closed, flowConsumed>>
  BY DEF IndInv, TypeOK, PCs, Reject
<1>2. Abstract!New(o)
  BY <1>1 DEF Abstract!New, Settled, IndInv, ChainInv, InChain
<1>3. Settled' = Settled \cup {o}
  BY <1>1 DEF Settled
<1>4. Current' = Current
  <2>1. \A p \in Ops : pc'[p] \in {"waiting", "closing"}
                        <=> pc[p] \in {"waiting", "closing"}
    BY <1>1
  <2>2. QED
    BY <2>1, CurrentSame
<1>5. Abstract!Refuse(o)
  BY <1>1, <1>2, <1>3, <1>4 DEF Abstract!Refuse, Spent
<1>6. QED
  BY <1>5 DEF Abstract!Next

(* A step that moves no call in the chain spends the connection or nothing. *)
LEMMA FlagsRefine ==
    ASSUME UNCHANGED <<queue, Current, Settled>>, Spent \in BOOLEAN,
           Spent' \in BOOLEAN, Spent => Spent'
    PROVE  Abstract!Next \/ UNCHANGED Abstract!vars
<1>1. CASE Spent' = Spent
  BY <1>1 DEF Abstract!vars
<1>2. CASE Spent' # Spent
  BY <1>2 DEF Abstract!Next, Abstract!Spend
<1>3. QED
  BY <1>1, <1>2

(* poisonAndThrow: an exchange that holds the wire keeps it until the      *)
(* transport is closed, or ends at once.                                   *)
LEMMA PoisonRefines ==
    ASSUME IndInv, CurrentStarted, CurrentStarted', NEW o \in Ops,
           queue # <<>>, o = Head(queue), pc[o] = "waiting", poisonAndThrow(o)
    PROVE  Abstract!Next \/ UNCHANGED Abstract!vars
<1>1. Spent' = TRUE /\ Spent \in BOOLEAN
  BY DEF poisonAndThrow, Spent
<1>2. CASE Settle(o, "ProtocolFailure")
  BY <1>1, <1>2, SettleRefines
<1>3. CASE pc' = [pc EXCEPT ![o] = "closing"] /\ UNCHANGED queue
  <2>1. \A p \in Ops : /\ pc'[p] \in {"waiting", "closing"}
                           <=> pc[p] \in {"waiting", "closing"}
                       /\ pc'[p] = "settled" <=> pc[p] = "settled"
    BY <1>3 DEF IndInv, TypeOK
  <2>2. Current' = Current
    BY <2>1, CurrentSame
  <2>3. Settled' = Settled
    BY <2>1 DEF Settled
  <2>4. QED
    BY <1>1, <1>3, <2>2, <2>3, FlagsRefine
<1>4. QED
  BY <1>2, <1>3 DEF poisonAndThrow

(* A call's turn is refused, or begins an exchange. *)
LEMMA TurnRefines ==
    ASSUME IndInv, CurrentStarted, CurrentStarted', NEW o \in Ops, Turn(o)
    PROVE  Abstract!Next
<1>1. /\ pc[o] = "queued" /\ queue # <<>> /\ o = Head(queue) /\ o = queue[1]
      /\ pc \in [Ops -> PCs] /\ Spent \in BOOLEAN
  BY TailOf DEF Turn, IndInv, TypeOK, PCs, Spent
<1>2. CASE TurnRefused(o)
  <2>1. Spent' = Spent
    BY <1>2 DEF TurnRefused, Spent
  <2>2. \E result : Settle(o, result)
    BY <1>2 DEF TurnRefused
  <2>3. QED
    BY <1>1, <2>1, <2>2, SettleRefines
<1>3. CASE TurnSends(o) \/ TurnLineRefused(o)
  <2>1. ~Spent /\ ~closed
    BY <1>3 DEF TurnSends, TurnLineRefused, assertFlowOpen, Spent
  <2>2. /\ \E x \in {"waiting", "closing"} : pc' = [pc EXCEPT ![o] = x]
        /\ queue' = queue
    BY <1>3, <2>1 DEF TurnSends, TurnLineRefused, poisonAndThrow
  <2>3. Spent' \in BOOLEAN
    BY DEF Spent
  <2>4. Current = None
    BY <1>1 DEF IndInv, ChainInv, CurrentStarted
  <2>5. Current' = o
    BY <1>1, <2>2 DEF CurrentStarted
  <2>6. Settled' = Settled
    BY <1>1, <2>2 DEF Settled
  <2>7. Abstract!Begin(o)
    BY <1>1, <2>1, <2>2, <2>3, <2>4, <2>5, <2>6 DEF Abstract!Begin
  <2>8. QED
    BY <2>7 DEF Abstract!Next
<1>4. QED
  BY <1>2, <1>3 DEF Turn

(* An accepted call goes to the end of the line. *)
LEMMA OpRefines ==
    ASSUME IndInv, CurrentStarted, CurrentStarted', NEW o \in Ops,
           NEW k \in Kinds, op(o, k)
    PROVE  Abstract!Next
<1>1. CASE \E result : Reject(o, k, result)
  BY <1>1, RejectRefines DEF op
<1>2. CASE /\ queue' = Append(queue, o)
           /\ pc' = [pc EXCEPT ![o] = "queued"]
           /\ UNCHANGED <<closed, flowConsumed>>
  <2>1. pc[o] = "idle" /\ pc \in [Ops -> PCs]
    BY DEF op, IndInv, TypeOK, PCs
  <2>2. \A p \in Ops : /\ pc'[p] \in {"waiting", "closing"}
                           <=> pc[p] \in {"waiting", "closing"}
                       /\ pc'[p] = "settled" <=> pc[p] = "settled"
    BY <1>2, <2>1
  <2>3. Current' = Current
    BY <2>2, CurrentSame
  <2>4. Settled' = Settled
    BY <2>2 DEF Settled
  <2>5. Abstract!New(o)
    BY <2>1 DEF Abstract!New, Settled, IndInv, ChainInv, InChain
  <2>6. Abstract!Accept(o)
    BY <1>2, <2>3, <2>4, <2>5 DEF Abstract!Accept, Spent
  <2>7. QED
    BY <2>6 DEF Abstract!Next
<1>3. QED
  BY <1>1, <1>2 DEF op

(* Every step of the connection is a step of the serial exchange. *)
LEMMA StepRefines ==
    IndInv /\ CurrentStarted /\ CurrentStarted' /\ [Next]_vars
      => [Abstract!Next]_(Abstract!vars)
<1> SUFFICES ASSUME IndInv, CurrentStarted, CurrentStarted', Next \/ UNCHANGED vars
             PROVE  Abstract!Next \/ UNCHANGED Abstract!vars
  OBVIOUS
<1>0. Spent \in BOOLEAN /\ Spent' \in BOOLEAN
  BY DEF Spent
<1>1. ASSUME NEW o \in Ops, BoundOutOfRange(o) PROVE Abstract!Next
  BY <1>1, RejectRefines DEF BoundOutOfRange
<1>2. ASSUME NEW o \in Ops, Resume(o)
      PROVE  Abstract!Next \/ UNCHANGED Abstract!vars
  <2>1. pc[o] = "waiting" /\ queue # <<>> /\ o = Head(queue)
    BY <1>2, StartedIsHead DEF Resume
  <2>2. CASE poisonAndThrow(o)
    BY <2>1, <2>2, PoisonRefines
  <2>3. ASSUME NEW result, Settle(o, result), closed' = closed,
               flowConsumed => flowConsumed'
        PROVE  Abstract!Next
    <3>1. Spent => Spent'
      BY <2>3 DEF Spent
    <3>2. QED
      BY <1>0, <2>1, <2>3, <3>1, SettleRefines
  <2>4. ASSUME NEW r, DispatchReply(o, r)
        PROVE  Abstract!Next \/ UNCHANGED Abstract!vars
    <3>1. CASE poisonAndThrow(o)
      BY <2>2, <3>1
    <3>2. CASE Settle(o, r) /\ flowConsumed' = (flowConsumed \/ kind[o] = "validate")
               /\ closed' = closed
      BY <2>3, <3>2
    <3>3. QED
      BY <2>4, <3>1, <3>2 DEF DispatchReply
  <2>5. \/ poisonAndThrow(o)
        \/ Settle(o, "IteratorError") /\ UNCHANGED <<closed, flowConsumed>>
        \/ DispatchReply(o, got[o].line.reply)
    BY <1>2 DEF Resume
  <2>6. QED
    BY <2>2, <2>3, <2>4, <2>5
<1>3. ASSUME NEW o \in Ops, PoisonThrows(o) PROVE Abstract!Next
  <2>1. pc[o] = "closing" /\ queue # <<>> /\ o = Head(queue)
    BY <1>3, StartedIsHead DEF PoisonThrows
  <2>2. Spent' = Spent
    BY <1>3 DEF PoisonThrows, Spent
  <2>3. QED
    BY <1>0, <1>3, <2>1, <2>2, SettleRefines DEF PoisonThrows
<1>4. ASSUME UNCHANGED <<queue, pc, flowConsumed>>, closed => closed'
      PROVE  Abstract!Next \/ UNCHANGED Abstract!vars
  <2>1. Current' = Current
    BY <1>4, CurrentSame
  <2>2. Settled' = Settled
    BY <1>4 DEF Settled
  <2>3. Spent => Spent'
    BY <1>4 DEF Spent
  <2>4. QED
    BY <1>0, <1>4, <2>1, <2>2, <2>3, FlagsRefine
<1>5. CASE close
  BY <1>4, <1>5 DEF close, CloseTransport
<1>6. CASE StreamEnds \/ FramingFails \/ TransportCloses
           \/ \E r \in Replies : MirrorAnswers(r)
  BY <1>4, <1>6 DEF StreamEnds, FramingFails, TransportCloses, MirrorAnswers,
                    connVars
<1>7. CASE UNCHANGED vars
  BY <1>4, <1>7 DEF vars, connVars
<1>8. QED
  BY <1>1, <1>2, <1>3, <1>5, <1>6, <1>7, OpRefines, TurnRefines DEF Next

(* The connection implements the serial exchange: calls are served one at  *)
(* a time, in the order accepted, each settles once, and none starts an    *)
(* exchange on a spent connection.                                         *)
THEOREM Refinement == Spec => IsSerialExchange
<1>1. Init => Abstract!Init
  BY DEF Init, Abstract!Init, Current, OnWire, Settled, Spent
<1>2. QED
  BY <1>1, CurrentIs, StepRefines, Invariance, PTL
  DEF Spec, IsSerialExchange, Abstract!Spec
=============================================================================
