---------------------------- MODULE OrderedPipe ----------------------------
(***************************************************************************)
(* What a streamed response promises: chunks come out in the order they    *)
(* were accepted, each once, a chunk is acknowledged only if it was        *)
(* accepted, and a stream that ends well has sent every accepted chunk.    *)
(***************************************************************************)
EXTENDS Integers, Sequences

CONSTANT Chunks

VARIABLES
    accepted,   \* the chunks taken, in their order
    delivered,  \* those that the client was sent
    acked,      \* those whose writer was told so
    state       \* "open", ended "over", or "broken" half-way

vars == <<accepted, delivered, acked, state>>

Init ==
    /\ accepted = <<>>
    /\ delivered = <<>>
    /\ acked = {}
    /\ state = "open"

Accepted == {accepted[i] : i \in DOMAIN accepted}

Accept(c) ==
    /\ state = "open"
    /\ c \notin Accepted
    /\ accepted' = Append(accepted, c)
    /\ UNCHANGED <<delivered, acked, state>>

Deliver ==
    /\ state = "open"
    /\ Len(delivered) < Len(accepted)
    /\ delivered' = Append(delivered, accepted[Len(delivered) + 1])
    /\ UNCHANGED <<accepted, acked, state>>

Ack(c) ==
    /\ c \in Accepted \ acked
    /\ acked' = acked \cup {c}
    /\ UNCHANGED <<accepted, delivered, state>>

Finish ==
    /\ state = "open"
    /\ delivered = accepted
    /\ state' = "over"
    /\ UNCHANGED <<accepted, delivered, acked>>

Break ==
    /\ state = "open"
    /\ state' = "broken"
    /\ UNCHANGED <<accepted, delivered, acked>>

Next == (\E c \in Chunks : Accept(c) \/ Ack(c)) \/ Deliver \/ Finish \/ Break

Spec == Init /\ [][Next]_vars
=============================================================================
