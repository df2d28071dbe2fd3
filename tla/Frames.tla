--------------------------------- MODULE Frames ---------------------------------
(***************************************************************************)
(* The frame codec (src/protocol/protocol.cpp).                            *)
(*                                                                         *)
(* A frame is a sequence of symbols, one for each field and one for each   *)
(* byte of the payload: magic, version, tag (which stands for type, flags  *)
(* and seq), payload length, payload, checksum.  A symbol that holds the   *)
(* byte b is <<b>>.  The checksum is the sequence it is computed over,     *)
(* that is, FNV-1a is taken to have no collisions; since it is longer than *)
(* one symbol no byte is mistaken for it.                                  *)
(***************************************************************************)
EXTENDS Integers, Sequences

CONSTANTS Bytes,        \* values of a byte
          Tags,         \* values of type, flags and seq together
          Magic,        \* kFrameMagic
          Version,      \* kFrameVersion
          MaxPayload    \* kMaxFramePayload

ASSUME BytesNat == Bytes \subseteq Nat
ASSUME FieldsAreBytes == {Magic, Version} \cup Tags \subseteq Bytes
ASSUME MaxPayloadNat == MaxPayload \in Nat

HeaderLen == 4
ChecksumLen == 1

FramedMessage == [tag : Tags, payload : Seq(Bytes)]

FrameErrors == {"None", "BadMagic", "UnsupportedVersion", "Oversized", "Truncated",
                "CheckMismatch"}

\* What makes a receiver give up the connection: every error but Truncated.
Corrupt == FrameErrors \ {"None", "Truncated"}

Byte(b) == <<b>>

fnv1a(s) == s

-----------------------------------------------------------------------------
Encodable(m) == Len(m.payload) <= MaxPayload

encodeFrame(m) ==
    LET n    == Len(m.payload)
        body == <<Byte(Magic), Byte(Version), Byte(m.tag), Byte(n)>>
                  \o [i \in 1 .. n |-> Byte(m.payload[i])]
    IN  Append(body, fnv1a(body))

NoFrame(err) == [err |-> err, consumed |-> 0, msg |-> [tag |-> 0, payload |-> <<>>]]

\* The bytes from HeaderLen + 1 on, as many as the header says, and the tag.
Contents(b, n) == [tag |-> b[3][1], payload |-> [i \in 1 .. n |-> b[HeaderLen + i][1]]]

\* Mutant of decodeFrame: the declared length is not bounded.
decodeFrameUnbounded(b) ==
    IF Len(b) < HeaderLen THEN NoFrame("Truncated")
    ELSE IF b[1] # Byte(Magic) THEN NoFrame("BadMagic")
    ELSE IF b[2] # Byte(Version) THEN NoFrame("UnsupportedVersion")
    ELSE LET n == b[4][1] IN
         IF Len(b) < HeaderLen + n + ChecksumLen THEN NoFrame("Truncated")
         ELSE IF b[HeaderLen + n + 1] # fnv1a(SubSeq(b, 1, HeaderLen + n))
           THEN NoFrame("CheckMismatch")
         ELSE [err |-> "None", consumed |-> HeaderLen + n + ChecksumLen, msg |-> Contents(b, n)]

\* The first frame of a buffer, or why there is none.
decodeFrame(b) ==
    IF Len(b) < HeaderLen THEN NoFrame("Truncated")
    ELSE IF b[1] # Byte(Magic) THEN NoFrame("BadMagic")
    ELSE IF b[2] # Byte(Version) THEN NoFrame("UnsupportedVersion")
    ELSE LET n == b[4][1] IN
         IF n > MaxPayload THEN NoFrame("Oversized")
         ELSE IF Len(b) < HeaderLen + n + ChecksumLen THEN NoFrame("Truncated")
         ELSE IF b[HeaderLen + n + 1] # fnv1a(SubSeq(b, 1, HeaderLen + n))
           THEN NoFrame("CheckMismatch")
         ELSE [err |-> "None", consumed |-> HeaderLen + n + ChecksumLen, msg |-> Contents(b, n)]

\* FrameBuffer::pop: what it leaves in the buffer.
Popped(b) ==
    LET d == decodeFrame(b)
    IN  IF d.err = "None" THEN SubSeq(b, d.consumed + 1, Len(b))
        ELSE IF d.err \in Corrupt THEN <<>>
        ELSE b

=============================================================================
