------------------------------- MODULE Transport -------------------------------
(***************************************************************************)
(* One direction of a TcpConnection (src/protocol/tcp.cpp): sendFrame and  *)
(* sendAll at one end, recvFrame and recvSome at the other, and the byte   *)
(* stream between them.                                                    *)
(*                                                                         *)
(* The operating system takes and hands over the stream in pieces of any   *)
(* size.  The sender may close or die at any moment, in the middle of a    *)
(* frame too; what it sent then still arrives, unless a reset discards it. *)
(* One symbol in flight may be damaged: the checksum is there for that.    *)
(* The sockets block, so recvSome's would-block result does not occur.     *)
(***************************************************************************)
EXTENDS Frames, SequencesExt

CONSTANTS Messages,     \* the messages given to sendFrame
          ReadSize,     \* size of recvFrame's buffer
          MaxSent       \* bound: messages sent on one connection

ASSUME MessagesFramed == Messages \subseteq FramedMessage
ASSUME ReadSizePositive == ReadSize \in Nat \ {0}
ASSUME MaxSentNat == MaxSent \in Nat

VARIABLES sender,     \* the sending end: its process is up, or its socket is gone
          unsent,     \* what sendAll has still to hand to the system
          stream,     \* symbols sent and not yet received
          inbuf,      \* inbuf_ of the receiving end
          receiver,   \* receiving, or how recvFrame failed
          sent,       \* history: messages whose sending has begun
          received,   \* history: messages recvFrame has returned
          damaged     \* history: a symbol has been damaged

transportVars == <<sender, unsent, stream, inbuf, receiver, sent, received, damaged>>

Failures == {"peerClosed", "recvFailed", "corrupt"}

Init ==
    /\ sender = "up"
    /\ unsent = <<>>
    /\ stream = <<>>
    /\ inbuf = <<>>
    /\ receiver = "receiving"
    /\ sent = <<>>
    /\ received = <<>>
    /\ damaged = FALSE

-----------------------------------------------------------------------------
(* The sending end.                                                        *)

\* A message that does not fit a frame is refused before anything is sent.
sendFrame(m) ==
    /\ sender = "up"
    /\ unsent = <<>>
    /\ Len(sent) < MaxSent
    /\ Encodable(m)
    /\ unsent' = encodeFrame(m)
    /\ sent' = Append(sent, m)
    /\ UNCHANGED <<sender, stream, inbuf, receiver, received, damaged>>

\* Mutant of sendSome: the rest of a partial send is forgotten.
sendSomeOnce(n) ==
    /\ sender = "up"
    /\ n \in 1 .. Len(unsent)
    /\ stream' = stream \o SubSeq(unsent, 1, n)
    /\ unsent' = <<>>
    /\ UNCHANGED <<sender, inbuf, receiver, sent, received, damaged>>

\* ::send takes some of what is left; sendAll loops for the rest.
sendSome(n) ==
    /\ sender = "up"
    /\ n \in 1 .. Len(unsent)
    /\ stream' = stream \o SubSeq(unsent, 1, n)
    /\ unsent' = SubSeq(unsent, n + 1, Len(unsent))
    /\ UNCHANGED <<sender, inbuf, receiver, sent, received, damaged>>

\* close, or the end of the process: the rest of a frame is never sent.
close ==
    /\ sender = "up"
    /\ sender' = "gone"
    /\ unsent' = <<>>
    /\ UNCHANGED <<stream, inbuf, receiver, sent, received, damaged>>

-----------------------------------------------------------------------------
(* The stream.                                                             *)

damage(i, b) ==
    /\ ~damaged
    /\ i \in 1 .. Len(stream)
    /\ stream[i] # Byte(b)
    /\ stream' = [stream EXCEPT ![i] = Byte(b)]
    /\ damaged' = TRUE
    /\ UNCHANGED <<sender, unsent, inbuf, receiver, sent, received>>

-----------------------------------------------------------------------------
(* The receiving end: one iteration of recvFrame's loop is one action.     *)

\* Mutant of receiveMessage: recvFrame reads before it looks into the buffer.
receiveMessageAfterRead ==
    /\ receiver = "receiving"
    /\ decodeFrame(inbuf).err = "None"
    /\ stream # <<>>
    /\ received' = Append(received, decodeFrame(inbuf).msg)
    /\ inbuf' = Popped(inbuf)
    /\ UNCHANGED <<sender, unsent, stream, receiver, sent, damaged>>

\* pop finds a frame, which recvFrame returns; its caller asks for the next.
receiveMessage ==
    /\ receiver = "receiving"
    /\ decodeFrame(inbuf).err = "None"
    /\ received' = Append(received, decodeFrame(inbuf).msg)
    /\ inbuf' = Popped(inbuf)
    /\ UNCHANGED <<sender, unsent, stream, receiver, sent, damaged>>

\* Mutant of receiveCorrupt: the frame is dropped and receiving goes on.
receiveCorruptSkips ==
    /\ receiver = "receiving"
    /\ decodeFrame(inbuf).err \in Corrupt
    /\ inbuf' = Popped(inbuf)
    /\ UNCHANGED <<sender, unsent, stream, receiver, sent, received, damaged>>

receiveCorrupt ==
    /\ receiver = "receiving"
    /\ decodeFrame(inbuf).err \in Corrupt
    /\ inbuf' = Popped(inbuf)
    /\ receiver' = "corrupt"
    /\ UNCHANGED <<sender, unsent, stream, sent, received, damaged>>

\* Not enough for a frame: recvSome reads what there is, up to the buffer's size.
receiveSome(n) ==
    /\ receiver = "receiving"
    /\ decodeFrame(inbuf).err = "Truncated"
    /\ n \in 1 .. Len(stream)
    /\ n <= ReadSize
    /\ inbuf' = inbuf \o SubSeq(stream, 1, n)
    /\ stream' = SubSeq(stream, n + 1, Len(stream))
    /\ UNCHANGED <<sender, unsent, receiver, sent, received, damaged>>

\* Mutant of receiveEnds: an end in the middle of a frame is not noticed.
receiveEndsBetweenFrames ==
    /\ receiver = "receiving"
    /\ inbuf = <<>>
    /\ sender = "gone"
    /\ stream = <<>>
    /\ receiver' = "peerClosed"
    /\ UNCHANGED <<sender, unsent, stream, inbuf, sent, received, damaged>>

\* Nothing more will come, in the middle of a frame or not: recv returns 0, or fails
\* when a reset has discarded what was in flight.
receiveEnds ==
    /\ receiver = "receiving"
    /\ decodeFrame(inbuf).err = "Truncated"
    /\ sender = "gone"
    /\ \/ /\ stream = <<>>
          /\ receiver' = "peerClosed"
       \/ receiver' = "recvFailed"
    /\ stream' = <<>>
    /\ UNCHANGED <<sender, unsent, inbuf, sent, received, damaged>>

-----------------------------------------------------------------------------
Sender == \E n \in 1 .. Len(unsent) : sendSome(n)

Receiver ==
    \/ receiveMessage
    \/ receiveCorrupt
    \/ \E n \in 1 .. Len(stream) : receiveSome(n)
    \/ receiveEnds

Next ==
    \/ \E m \in Messages : sendFrame(m)
    \/ Sender
    \/ close
    \/ \E i \in 1 .. Len(stream), b \in Bytes : damage(i, b)
    \/ Receiver

\* A thread in sendAll or in recvFrame goes on when the socket lets it.  Nothing makes
\* anyone send another message, close, or damage a symbol.
Fairness == WF_transportVars(Sender) /\ WF_transportVars(Receiver)

Spec == Init /\ [][Next]_transportVars /\ Fairness

-----------------------------------------------------------------------------
(* Properties.                                                             *)

\* The types of the two ends and of their histories (tcp.hpp).
TypeOK ==
    /\ sender \in {"up", "gone"}
    /\ receiver \in {"receiving"} \cup Failures
    /\ sent \in Seq(Messages)
    /\ received \in Seq(FramedMessage)
    /\ damaged \in BOOLEAN

\* inbuf_ never holds more than the longest frame and one read: recvFrame reads only
\* while part of a frame is missing, and gives up on a length no frame may have, damaged
\* or not (recvFrame, decodeFrame).
BufferBounded == Len(inbuf) < HeaderLen + MaxPayload + ChecksumLen + ReadSize

\* Between whole frames nothing is lost, doubled or misaligned, however the stream is
\* cut into pieces: while nothing was damaged or reset, what was received, buffered, in
\* flight and unsent is what was sent, and no cut, no death in the middle of a frame and
\* no message makes a frame look corrupt (sendAll, recvFrame, FrameBuffer, decodeFrame's
\* order of tests).
StreamIsWhole ==
    ~damaged =>
        /\ receiver # "corrupt"
        /\ received = SubSeq(sent, 1, Len(received))
        /\ sender = "up" =>
              inbuf \o stream \o unsent =
                  FlattenSeq([i \in 1 .. Len(sent) - Len(received) |->
                                encodeFrame(sent[Len(received) + i])])

Channel == INSTANCE MessageChannel WITH
    Message <- {m \in Messages : Encodable(m)},
    ended <- (receiver # "receiving")

\* One direction of a connection is a channel of whole messages, for any cut of the
\* stream, deaths in the middle of a frame and a damaged symbol (tcp.cpp, protocol.cpp).
ImplementsChannel == Channel!Spec

\* A message whose sending has begun is received, if the sender stays and nothing is
\* damaged: no byte left over in inbuf_ from the last read is waited for (recvFrame
\* pops before it reads).
SentIsReceived ==
    \A i \in 1 .. MaxSent :
        Len(sent) >= i ~> (Len(received) >= i \/ sender = "gone" \/ damaged)

\* A receiver whose peer is gone finds out, in the middle of a frame or after damage
\* too, and the handler behind it comes to its end (recvFrame).
CloseIsNoticed == sender = "gone" ~> receiver # "receiving"

-----------------------------------------------------------------------------
(* What the comments say; the code does not keep these.                    *)

\* protocol.hpp on pop: "if err is set to a non-None value, the buffer is corrupt and
\* should be discarded".  Truncated is such a value, and its buffer is kept.
ErrorDiscards == decodeFrame(inbuf).err # "None" => Popped(inbuf) = <<>>

\* decodeFrame: "a malformed frame sets the specific error".  A damaged length that is
\* still legal makes the receiver wait for symbols that are not sent.
DamageIsReported == damaged /\ stream = <<>> /\ unsent = <<>> ~> receiver # "receiving"

=============================================================================
