--------------------------- MODULE ProtocolFraming ---------------------------
(***************************************************************************)
(* Byte-level JSONL framing between a readable stream and the line         *)
(* iterator (attachProtocolFraming in src/transport.ts).                   *)
(*                                                                         *)
(* A stream is cut into data events anywhere: inside a line, between CR    *)
(* and LF, or with several lines in one event.  What the readers see must  *)
(* not depend on the cuts.  Bytes are abstracted to the four classes the   *)
(* code tells apart; a line's payload is the sequence of its bytes.        *)
(***************************************************************************)
EXTENDS LineIterator, SequencesExt

CONSTANTS
    MAX_PROTOCOL_LINE_BYTES,
    MaxBytes,       \* bound: bytes the peer sends
    MaxChunk        \* bound: bytes in one data event

ASSUME Bounds == {MAX_PROTOCOL_LINE_BYTES, MaxBytes, MaxChunk} \subseteq Nat

VARIABLES
    pending,        \* bytes since the last LF
    terminal,       \* framing has stopped listening
    onFatal,        \* the transport's close was scheduled by a framing error
    stream,         \* history: every byte of every data event
    accepted,       \* history: how many bytes the accepted events held
    published,      \* history: lines handed to the iterator
    asked           \* history: the next() calls in the order made

framingVars == <<pending, terminal, onFatal>>
history == <<stream, accepted, published, asked>>
vars == <<iteratorVars, framingVars, history>>

-----------------------------------------------------------------------------
(* Lines of a byte sequence *)

\* An ordinary byte, a byte that is never part of valid UTF-8, CR and LF.
Bytes == {"x", "invalid", "CR", "LF"}

Newlines(s) == {i \in 1..Len(s) : s[i] = "LF"}

(* Where the k-th line of s ends: at the k-th LF. *)
LineEnd(s, k) ==
    CHOOSE e \in Newlines(s) : Cardinality({i \in Newlines(s) : i <= e}) = k

(* The raw lines completed in s, without their LF. *)
RawLines(s) ==
    LET start(k) == IF k = 1 THEN 1 ELSE LineEnd(s, k - 1) + 1
    IN  [k \in 1..Cardinality(Newlines(s)) |-> SubSeq(s, start(k), LineEnd(s, k) - 1)]

(* What follows the last LF of s. *)
Unterminated(s) ==
    LET ends == Newlines(s)
        last == IF ends = {} THEN 0 ELSE CHOOSE i \in ends : \A j \in ends : j <= i
    IN  SubSeq(s, last + 1, Len(s))

EndsInCr(s) == s # <<>> /\ Last(s) = "CR"

(* decodePayload: one trailing CR is dropped. *)
Payload(raw) == IF EndsInCr(raw) THEN Front(raw) ELSE raw

(* decodePayload throws on a payload that is too long or not UTF-8. *)
decodePayload(raw) ==
    /\ Len(Payload(raw)) <= MAX_PROTOCOL_LINE_BYTES
    /\ \A i \in 1..Len(Payload(raw)) : Payload(raw)[i] # "invalid"

(* Variant with a bug: no allowance for the CR of a CRLF cut in two. *)
appendPrefix_NoCr(prefix) == Len(prefix) <= MAX_PROTOCOL_LINE_BYTES

(* appendPrefix: one byte over the limit only while it may be a CR. *)
appendPrefix(prefix) ==
    /\ Len(prefix) <= MAX_PROTOCOL_LINE_BYTES + 1
    /\ Len(prefix) > MAX_PROTOCOL_LINE_BYTES => EndsInCr(prefix)

-----------------------------------------------------------------------------

Init ==
    /\ IteratorInit
    /\ pending = <<>> /\ terminal = FALSE /\ onFatal = FALSE
    /\ stream = <<>> /\ accepted = 0 /\ published = <<>> /\ asked = <<>>

(* stop(): the iterator fails, the listeners go, the transport is closed. *)
stop ==
    /\ terminal' = TRUE
    /\ onFatal' = TRUE
    /\ fail

(* onData: publish every line the event completes, or none of them. *)
Publish(chunk) ==
    LET data == pending \o chunk
        raw == RawLines(data)
        lines == [k \in 1..Len(raw) |-> Payload(raw[k])]
    IN  /\ \A k \in 1..Len(raw) : decodePayload(raw[k])
        /\ appendPrefix(Unterminated(data))
        /\ emitAll(lines)
        /\ pending' = Unterminated(data)
        /\ published' = published \o lines
        /\ accepted' = accepted + Len(chunk)
        /\ UNCHANGED <<terminal, onFatal>>

(* Variant with a bug: lines before the violation are published as they come. *)
Violation_AfterPublishing(chunk) ==
    LET raw == RawLines(pending \o chunk)
        bad == {k \in 1..Len(raw) : ~decodePayload(raw[k])}
    IN  /\ bad # {} \/ ~appendPrefix(Unterminated(pending \o chunk))
        /\ stop
        /\ published' = published \o
             [k \in 1..Cardinality({j \in 1..Len(raw) : \A b \in bad : j < b})
                |-> Payload(raw[k])]
        /\ UNCHANGED <<pending, accepted>>

(* What an event that breaks the framing leaves in pending is never read. *)
Violation(chunk) ==
    LET data == pending \o chunk
    IN  /\ \/ \E k \in 1..Len(RawLines(data)) : ~decodePayload(RawLines(data)[k])
           \/ ~appendPrefix(Unterminated(data))
        /\ stop
        /\ UNCHANGED <<pending, published, accepted>>

onData(chunk) ==
    /\ ~terminal
    /\ stream' = stream \o chunk
    /\ Publish(chunk) \/ Violation(chunk)
    /\ UNCHANGED asked

(* End of stream: pending bytes are a line without its LF. *)
onEnd ==
    /\ ~terminal
    /\ \/ /\ pending # <<>>
          /\ stop
       \/ /\ pending = <<>>
          /\ terminal' = TRUE
          /\ finish
          /\ UNCHANGED onFatal
    /\ UNCHANGED <<pending, history>>

(* close, or an I/O error: the iterator ends, pending bytes are dropped. *)
onClose ==
    /\ ~terminal
    /\ terminal' = TRUE
    /\ pending' = <<>>
    /\ finish
    /\ UNCHANGED <<onFatal, history>>

next(r) ==
    /\ \A i \in 1..Len(asked) : asked[i] # r
    /\ pull(r)
    /\ asked' = Append(asked, r)
    /\ UNCHANGED <<framingVars, stream, accepted, published>>

Next ==
    \/ \E chunk \in SeqOf(Bytes, MaxChunk) :
          Len(stream) + Len(chunk) <= MaxBytes /\ onData(chunk)
    \/ onEnd
    \/ onClose
    \/ \E r \in Readers : next(r)

Spec == Init /\ [][Next]_vars

-----------------------------------------------------------------------------
(* Properties *)

(* Every variable keeps to its type. *)
TypeOK ==
    /\ buffer \in Seq(Seq(Bytes)) /\ waiters \in Seq(Readers)
    /\ ended \in BOOLEAN /\ failure \in BOOLEAN
    /\ got \in [Readers -> NextResults(Seq(Bytes))]
    /\ pending \in Seq(Bytes) /\ terminal \in BOOLEAN /\ onFatal \in BOOLEAN
    /\ stream \in Seq(Bytes) /\ accepted \in Nat
    /\ published \in Seq(Seq(Bytes)) /\ asked \in Seq(Readers)

(* A byte stream the protocol allows so far: every completed line decodes, *)
(* and what follows the last LF would fit the limit if an LF came now.     *)
Admissible(s) ==
    /\ \A k \in 1..Len(RawLines(s)) : decodePayload(RawLines(s)[k])
    /\ Len(Payload(Unterminated(s))) <= MAX_PROTOCOL_LINE_BYTES

(* The lines published are the lines of the byte stream, wherever it was   *)
(* cut into data events, and nothing of an event that breaks the framing   *)
(* is published ("so a fatal trailing record cannot race earlier messages  *)
(* into replay").                                                          *)
PublishedAreTheLines ==
    LET raw == RawLines(SubSeq(stream, 1, accepted))
    IN  published = [k \in 1..Len(raw) |-> Payload(raw[k])]

(* Data is refused exactly when the bytes received so far leave the        *)
(* protocol: the verdict does not depend on the cuts, and what is retained *)
(* for an unfinished line stays within one byte of the limit.              *)
VerdictIgnoresCuts ==
    /\ accepted = Len(stream) <=> Admissible(stream)
    /\ Len(pending) <= MAX_PROTOCOL_LINE_BYTES + 1

(* How the stream was cut into data events does not matter: not to the     *)
(* lines, not to the verdict (attachProtocolFraming of src/transport.ts).  *)
CutsDoNotMatter == PublishedAreTheLines /\ VerdictIgnoresCuts

(* The i-th next() call settles with the i-th line published, with the end *)
(* or with the failure, whether it was made before or after the line came. *)
CallsMeetLinesInOrder ==
    \A i \in 1..Len(asked) :
        got[asked[i]].tag = "line" =>
            i <= Len(published) /\ got[asked[i]].line = published[i]

(* A next() call waits only while the stream is up and nothing is left to  *)
(* read: however the stream stopped, nobody is left waiting for it.        *)
CallsNeverStranded == waiters # <<>> => ~terminal /\ buffer = <<>>

(* Every next() call is served: with its own line, in order, and it never   *)
(* waits for a stream that has stopped.                                     *)
CallsServed == CallsMeetLinesInOrder /\ CallsNeverStranded
==============================================================================
