--------------------------- MODULE BufferExchange ---------------------------
(***************************************************************************)
(* What a buffer queue promises to clients that keep its contract, with    *)
(* every operation atomic: at any time a buffer is in the hands of one     *)
(* client, free, queued for the consumer, or not part of the exchange; and *)
(* the consumer takes queued buffers in the order they were submitted.     *)
(* BufferQueueClients is shown to implement this.                          *)
(***************************************************************************)
EXTENDS Integers, Sequences

CONSTANTS Clients, Buffers

VARIABLES
    holder,     \* a client, "free", "queued" or "gone", for every buffer
    pending     \* the queued buffers, oldest first

xvars == <<holder, pending>>

XInit ==
    /\ holder = [b \in Buffers |-> "gone"]
    /\ pending = << >>

Free == {b \in Buffers : holder[b] = "free"}

\* The buffers of S leave the exchange and those of T go to client c.
Move(S, T, c) ==
    holder' = [b \in Buffers |-> IF b \in T THEN c
                                 ELSE IF b \in S THEN "gone" ELSE holder[b]]

\* A client gets a free or a new buffer; a free one of the wrong kind may make
\* way for it.
Grant(c) ==
    \E b \in Buffers, old \in {{}} \cup {{f} : f \in Free} :
        /\ holder[b] \in {"free", "gone"}
        /\ Move(old, {b}, c)
        /\ UNCHANGED pending

\* A client gives a buffer back unused, or is done with it.
PutBack(c) ==
    \E b \in Buffers : /\ holder[b] = c
                       /\ holder' = [holder EXCEPT ![b] = "free"]
                       /\ UNCHANGED pending

Submit(c) ==
    \E b \in Buffers : /\ holder[b] = c
                       /\ holder' = [holder EXCEPT ![b] = "queued"]
                       /\ pending' = Append(pending, b)

TakeOldest(c) ==
    /\ pending # << >>
    /\ holder' = [holder EXCEPT ![Head(pending)] = c]
    /\ pending' = Tail(pending)

\* A client takes a buffer out of the exchange.
Withdraw(c) ==
    \E b \in Buffers : /\ holder[b] = c
                       /\ holder' = [holder EXCEPT ![b] = "gone"]
                       /\ UNCHANGED pending

\* Free buffers and the oldest queued ones are dropped, never a held one.
Shrink ==
    \E F \in SUBSET Free, n \in 0..Len(pending) :
        /\ Move(F \cup {pending[i] : i \in 1..n}, {}, "gone")
        /\ pending' = SubSeq(pending, n + 1, Len(pending))

Clear ==
    /\ holder' = [b \in Buffers |-> "gone"]
    /\ pending' = << >>

XNext ==
    \/ Shrink \/ Clear
    \/ \E c \in Clients : \/ Grant(c) \/ PutBack(c) \/ Submit(c)
                          \/ TakeOldest(c) \/ Withdraw(c)

XSpec == XInit /\ [][XNext]_xvars
=============================================================================
