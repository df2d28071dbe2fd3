----------------------------- MODULE MessageChannel -----------------------------
(***************************************************************************)
(* What one direction of a TcpConnection promises its two users, in terms  *)
(* of whole messages: those received are the first of those sent, in order *)
(* and unaltered, and once receiving has failed nothing more is received.  *)
(***************************************************************************)
EXTENDS Naturals, Sequences

CONSTANT Message    \* the messages that may be sent

VARIABLES sent,       \* every message whose sending has begun
          received,   \* every message recvFrame has returned
          ended       \* recvFrame has failed

Init ==
    /\ sent = <<>>
    /\ received = <<>>
    /\ ended = FALSE

Send(m) ==
    /\ sent' = Append(sent, m)
    /\ UNCHANGED <<received, ended>>

Receive ==
    /\ ~ended
    /\ Len(received) < Len(sent)
    /\ received' = Append(received, sent[Len(received) + 1])
    /\ UNCHANGED <<sent, ended>>

End ==
    /\ ~ended
    /\ ended' = TRUE
    /\ UNCHANGED <<sent, received>>

Next == (\E m \in Message : Send(m)) \/ Receive \/ End

Spec == Init /\ [][Next]_<<sent, received, ended>>

=============================================================================
