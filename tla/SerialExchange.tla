--------------------------- MODULE SerialExchange ---------------------------
(***************************************************************************)
(* What Connection promises its callers, without transports or replies:    *)
(* calls are served one at a time, in the order they were accepted, each   *)
(* settles exactly once, and no call starts an exchange once the           *)
(* connection is spent (C5 of the client guide: one session flow per       *)
(* connection; a connection that was closed or poisoned is never reused).  *)
(***************************************************************************)
EXTENDS Naturals, Sequences

CONSTANTS
    Calls,      \* the calls made on one connection
    None        \* no call

VARIABLES
    line,       \* accepted calls that have not settled, in order
    current,    \* the call whose exchange is on the wire, or None
    settled,    \* calls that returned or threw
    spent       \* no exchange may start any more

vars == <<line, current, settled, spent>>

Init ==
    /\ line = <<>>
    /\ current = None
    /\ settled = {}
    /\ spent = FALSE

New(c) == c \notin settled /\ \A i \in 1..Len(line) : line[i] # c

(* A call is accepted and waits for its turn. *)
Accept(c) ==
    /\ New(c)
    /\ line' = Append(line, c)
    /\ UNCHANGED <<current, settled, spent>>

(* A call settles without an exchange, when made or when its turn comes. *)
Refuse(c) ==
    /\ \/ New(c) /\ UNCHANGED line
       \/ line # <<>> /\ c = Head(line) /\ current = None /\ line' = Tail(line)
    /\ settled' = settled \cup {c}
    /\ UNCHANGED <<current, spent>>

(* The first call in line takes the wire; its exchange may already fail. *)
Begin(c) ==
    /\ ~spent /\ current = None
    /\ line # <<>> /\ c = Head(line)
    /\ current' = c
    /\ spent' \in BOOLEAN
    /\ UNCHANGED <<line, settled>>

(* The exchange is over; it may have spent the connection. *)
Finish(c) ==
    /\ current = c
    /\ line # <<>> /\ c = Head(line)
    /\ line' = Tail(line)
    /\ current' = None
    /\ settled' = settled \cup {c}
    /\ spent' \in {spent, TRUE}

Spend ==
    /\ ~spent
    /\ spent' = TRUE
    /\ UNCHANGED <<line, current, settled>>

Next ==
    \/ Spend
    \/ \E c \in Calls : Accept(c) \/ Refuse(c) \/ Begin(c) \/ Finish(c)

Spec == Init /\ [][Next]_vars
=============================================================================
