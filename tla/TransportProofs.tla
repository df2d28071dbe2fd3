----------------------------- MODULE TransportProofs -----------------------------
(***************************************************************************)
(* Theorems about Transport, for every set of messages, every size of the  *)
(* payload and of the read buffer, and any number of messages.             *)
(***************************************************************************)
EXTENDS Transport, SetInduction, SequenceTheorems, TLAPS

-----------------------------------------------------------------------------
(* Sequences of sequences.                                                 *)

\* f concatenates the first elements of ss one after the other.
IsFlatten(f, ss) ==
    f = [i \in 1 .. Len(ss) |-> IF i = 1 THEN ss[i] ELSE f[i - 1] \o ss[i]]

\* There is such a function, and FlattenSeq is its last value.
LEMMA FlattenRecursion ==
    ASSUME NEW S, NEW ss \in Seq(Seq(S)), Len(ss) # 0
    PROVE  \E f : /\ f \in [1 .. Len(ss) -> Seq(S)]
                  /\ f[1] = ss[1]
                  /\ \A i \in 2 .. Len(ss) : f[i] = f[i - 1] \o ss[i]
                  /\ FlattenSeq(ss) = f[Len(ss)]
<1>0. Len(ss) \in Nat /\ \A i \in 1 .. Len(ss) : ss[i] \in Seq(S)
  BY LenProperties, ElementOfSeq
<1> DEFINE Step(f, n) == IF n = 1 THEN ss[n] ELSE f[n - 1] \o ss[n]
           T == {m \in Nat : \E f : f = [n \in 1 .. m |-> Step(f, n)]}
<1>1. 0 \in T
  <2> DEFINE f == [n \in 1 .. 0 |-> ss]
  <2>1. f = [n \in 1 .. 0 |-> Step(f, n)]
    OBVIOUS
  <2> QED
    BY <2>1
<1>2. ASSUME NEW m \in Nat, m \in T
      PROVE  m + 1 \in T
  <2>1. PICK f : f = [n \in 1 .. m |-> Step(f, n)]
    BY <1>2
  <2> DEFINE g == [n \in 1 .. m + 1 |-> IF n = m + 1 THEN Step(f, n) ELSE f[n]]
  <2>2. ASSUME NEW n \in 1 .. m + 1
        PROVE  g[n] = Step(g, n)
    <3>1. CASE n = 1
      <4>1. g[n] = Step(f, n)
        BY <2>1, <3>1
      <4> HIDE DEF g
      <4> QED
        BY <3>1, <4>1
    <3>2. CASE n # 1
      <4>1. g[n] = Step(f, n) /\ g[n - 1] = f[n - 1]
        <5>1. n \in 1 .. m => f[n] = Step(f, n)
          BY <2>1
        <5> HIDE DEF Step
        <5> QED
          BY <3>2, <5>1
      <4> HIDE DEF g
      <4> QED
        BY <3>2, <4>1
    <3> QED
      BY <3>1, <3>2
  <2>3. g = [n \in 1 .. m + 1 |-> Step(g, n)]
    <3>1. g = [n \in 1 .. m + 1 |-> g[n]]
      OBVIOUS
    <3> HIDE DEF g, Step
    <3> QED
      BY <2>2, <3>1
  <2>4. \E h : h = [n \in 1 .. m + 1 |-> Step(h, n)]
    <3> HIDE DEF g, Step
    <3> QED
      BY <2>3
  <2>5. m + 1 \in Nat
    OBVIOUS
  <2> HIDE DEF Step
  <2> QED
    BY <2>4, <2>5, Zenon
<1>3. Len(ss) \in T
  <2> HIDE DEF T
  <2> QED
    BY <1>0, <1>1, <1>2, NatSetInduction
<1> DEFINE flat == CHOOSE f : IsFlatten(f, ss)
<1>4. FlattenSeq(ss) = flat[Len(ss)]
  BY DEF FlattenSeq, IsFlatten
<1>5. flat = [n \in 1 .. Len(ss) |-> Step(flat, n)]
  <2>1. IsFlatten(flat, ss)
    BY <1>3 DEF IsFlatten
  <2> QED
    BY <2>1 DEF IsFlatten
<1> HIDE DEF flat
<1>6. flat[1] = ss[1] /\ \A i \in 2 .. Len(ss) : flat[i] = flat[i - 1] \o ss[i]
  <2>1. \A i \in 1 .. Len(ss) : flat[i] = Step(flat, i)
    <3> HIDE DEF Step
    <3> QED
      BY <1>5
  <2>2. 1 \in 1 .. Len(ss) /\ \A i \in 2 .. Len(ss) : i \in 1 .. Len(ss) /\ i # 1
    BY <1>0
  <2> QED
    BY <2>1, <2>2
<1> DEFINE U == {n \in Nat : n + 1 <= Len(ss) => flat[n + 1] \in Seq(S)}
<1>7. \A n \in Nat : n \in U
  <2>1. 0 \in U
    BY <1>0, <1>6
  <2>2. ASSUME NEW n \in Nat, n \in U
        PROVE  n + 1 \in U
    <3> SUFFICES ASSUME n + 2 <= Len(ss)
                 PROVE  flat[n + 2] \in Seq(S)
      OBVIOUS
    <3>0. n + 2 \in 2 .. Len(ss) /\ (n + 2) - 1 = n + 1 /\ n + 2 \in 1 .. Len(ss)
      BY <1>0
    <3>1. flat[n + 1] \in Seq(S) /\ flat[n + 2] = flat[n + 1] \o ss[n + 2]
      <4>1. n + 1 <= Len(ss)
        BY <1>0
      <4>2. flat[n + 1] \in Seq(S)
        BY <2>2, <4>1
      <4>3. flat[n + 2] = flat[(n + 2) - 1] \o ss[n + 2]
        BY <1>6, <3>0, Zenon
      <4> QED
        BY <3>0, <4>2, <4>3
    <3> QED
      BY <1>0, <3>0, <3>1, ConcatProperties
  <2> HIDE DEF U
  <2> QED
    BY <2>1, <2>2, NatSetInduction
<1>8. flat \in [1 .. Len(ss) -> Seq(S)]
  <2>1. ASSUME NEW i \in 1 .. Len(ss)
        PROVE  flat[i] \in Seq(S)
    <3>1. i - 1 \in Nat /\ (i - 1) + 1 = i /\ i <= Len(ss)
      BY <1>0
    <3>2. i - 1 \in U
      BY <1>7, <3>1
    <3> QED
      BY <3>1, <3>2
  <2>2. flat = [n \in 1 .. Len(ss) |-> flat[n]]
    BY <1>5
  <2> QED
    BY <2>1, <2>2
<1> QED
  BY <1>4, <1>6, <1>8

\* Any function that concatenates them so ends with the same sequence.
LEMMA FlattenIs ==
    ASSUME NEW S, NEW ss \in Seq(Seq(S)), Len(ss) # 0,
           NEW g, g[1] = ss[1], \A i \in 2 .. Len(ss) : g[i] = g[i - 1] \o ss[i]
    PROVE  FlattenSeq(ss) = g[Len(ss)] /\ FlattenSeq(ss) \in Seq(S)
<1>0. Len(ss) \in Nat
  BY LenProperties
<1>1. PICK f : /\ f \in [1 .. Len(ss) -> Seq(S)]
               /\ f[1] = ss[1]
               /\ \A i \in 2 .. Len(ss) : f[i] = f[i - 1] \o ss[i]
               /\ FlattenSeq(ss) = f[Len(ss)]
  BY FlattenRecursion
<1> DEFINE T == {n \in Nat : n + 1 <= Len(ss) => f[n + 1] = g[n + 1]}
<1>2. 0 \in T
  BY <1>1
<1>3. ASSUME NEW n \in Nat, n \in T
      PROVE  n + 1 \in T
  <2> SUFFICES ASSUME n + 2 <= Len(ss)
               PROVE  f[n + 2] = g[n + 2]
    OBVIOUS
  <2>1. n + 2 \in 2 .. Len(ss) /\ (n + 2) - 1 = n + 1 /\ n + 1 <= Len(ss)
    BY <1>0
  <2>2. f[n + 1] = g[n + 1]
    BY <1>3, <2>1
  <2>3. /\ f[n + 2] = f[(n + 2) - 1] \o ss[n + 2]
        /\ g[n + 2] = g[(n + 2) - 1] \o ss[n + 2]
    BY <1>1, <2>1, Zenon
  <2> QED
    BY <2>1, <2>2, <2>3
<1>4. Len(ss) - 1 \in Nat /\ (Len(ss) - 1) + 1 = Len(ss) /\ Len(ss) <= Len(ss)
      /\ Len(ss) \in 1 .. Len(ss)
  BY <1>0
<1>5. Len(ss) - 1 \in T
  <2> HIDE DEF T
  <2> QED
    BY <1>2, <1>3, <1>4, NatSetInduction
<1> QED
  BY <1>1, <1>4, <1>5

\* Nothing to flatten.
LEMMA FlattenEmpty == FlattenSeq(<<>>) = <<>>
BY DEF FlattenSeq

\* The last element goes to the end.
LEMMA FlattenAppend ==
    ASSUME NEW S, NEW ss \in Seq(Seq(S)), NEW s \in Seq(S)
    PROVE  FlattenSeq(Append(ss, s)) = FlattenSeq(ss) \o s
<1> DEFINE tt == Append(ss, s)
           n == Len(ss)
<1>0. /\ n \in Nat /\ tt \in Seq(Seq(S)) /\ Len(tt) = n + 1
      /\ \A i \in 1 .. n : tt[i] = ss[i]
      /\ tt[n + 1] = s
  BY LenProperties, AppendProperties
<1>1. CASE n = 0
  <2>1. ss = <<>>
    BY <1>1, EmptySeq
  <2> DEFINE g == [i \in 1 .. 1 |-> s]
  <2>2. FlattenSeq(tt) = g[Len(tt)]
    <3>1. Len(tt) # 0 /\ g[1] = tt[1] /\ \A i \in 2 .. Len(tt) : g[i] = g[i - 1] \o tt[i]
      BY <1>0, <1>1
    <3> HIDE DEF tt, g
    <3> QED
      BY <1>0, <3>1, FlattenIs
  <2>3. <<>> \o s = s
    BY ConcatEmptySeq
  <2> QED
    BY <1>0, <1>1, <2>1, <2>2, <2>3, FlattenEmpty
<1>2. CASE n # 0
  <2>1. PICK f : /\ f \in [1 .. n -> Seq(S)]
                 /\ f[1] = ss[1]
                 /\ \A i \in 2 .. n : f[i] = f[i - 1] \o ss[i]
                 /\ FlattenSeq(ss) = f[n]
    BY <1>2, FlattenRecursion
  <2> DEFINE g == [i \in 1 .. n + 1 |-> IF i = n + 1 THEN f[n] \o s ELSE f[i]]
  <2>2. Len(tt) # 0 /\ g[1] = tt[1]
    BY <1>0, <1>2, <2>1
  <2>3. ASSUME NEW i \in 2 .. Len(tt)
        PROVE  g[i] = g[i - 1] \o tt[i]
    <3>1. CASE i = n + 1
      <4>1. g[i] = f[n] \o s /\ g[i - 1] = f[n] /\ tt[i] = s
        BY <1>0, <1>2, <3>1
      <4> HIDE DEF g, tt
      <4> QED
        BY <4>1
    <3>2. CASE i # n + 1
      <4>1. i \in 2 .. n /\ i \in 1 .. n + 1 /\ i - 1 \in 1 .. n + 1 /\ i - 1 # n + 1
            /\ i \in 1 .. n
        BY <1>0, <3>2
      <4>2. g[i] = f[i] /\ g[i - 1] = f[i - 1] /\ tt[i] = ss[i]
        BY <1>0, <3>2, <4>1
      <4> HIDE DEF g, tt
      <4> QED
        BY <2>1, <4>1, <4>2
    <3> QED
      BY <3>1, <3>2
  <2>4. FlattenSeq(tt) = g[n + 1]
    <3> HIDE DEF tt, g
    <3> QED
      BY <1>0, <2>2, <2>3, FlattenIs
  <2>5. g[n + 1] = f[n] \o s
    BY <1>0
  <2> QED
    BY <2>1, <2>4, <2>5
<1> QED
  BY <1>1, <1>2

\* The first element is at the front.
LEMMA FlattenHead ==
    ASSUME NEW S, NEW ss \in Seq(Seq(S)), Len(ss) # 0
    PROVE  /\ FlattenSeq(ss) = ss[1] \o FlattenSeq(Tail(ss))
           /\ FlattenSeq(Tail(ss)) \in Seq(S)
<1> DEFINE tt == Tail(ss)
           n == Len(tt)
           a == ss[1]
<1>0. /\ Len(ss) = n + 1 /\ n \in Nat /\ tt \in Seq(Seq(S))
      /\ \A i \in 1 .. n : tt[i] = ss[i + 1]
      /\ \A i \in 1 .. n + 1 : ss[i] \in Seq(S)
  <2>1. ss # <<>> /\ Len(ss) \in Nat
    BY EmptySeq, LenProperties
  <2> QED
    BY <2>1, HeadTailProperties, LenProperties, ElementOfSeq
<1>1. a \in Seq(S)
  BY <1>0
<1> HIDE DEF tt, a
<1>2. CASE n = 0
  <2>1. tt = <<>>
    BY <1>0, <1>2, EmptySeq
  <2> DEFINE g == [i \in 1 .. 1 |-> a]
  <2>2. FlattenSeq(ss) = g[Len(ss)]
    <3>1. g[1] = ss[1] /\ \A i \in 2 .. Len(ss) : g[i] = g[i - 1] \o ss[i]
      BY <1>0, <1>2 DEF a
    <3> HIDE DEF g
    <3> QED
      BY <3>1, FlattenIs
  <2>3. a \o <<>> = a /\ <<>> \in Seq(S)
    BY <1>1, ConcatEmptySeq, EmptySeq
  <2> QED
    <3>1. g[Len(ss)] = a
      BY <1>0, <1>2
    <3>2. FlattenSeq(ss) = a \o FlattenSeq(tt) /\ FlattenSeq(tt) \in Seq(S)
      <4> HIDE DEF g
      <4> QED
        BY <2>1, <2>2, <2>3, <3>1, FlattenEmpty
    <3> QED
      BY <3>2 DEF tt, a
<1>3. CASE n # 0
  <2>1. PICK f : /\ f \in [1 .. n -> Seq(S)]
                 /\ f[1] = tt[1]
                 /\ \A i \in 2 .. n : f[i] = f[i - 1] \o tt[i]
                 /\ FlattenSeq(tt) = f[n]
    BY <1>0, <1>3, FlattenRecursion
  <2> DEFINE g == [i \in 1 .. n + 1 |-> IF i = 1 THEN a ELSE a \o f[i - 1]]
  <2>2. g[1] = ss[1]
    BY <1>0 DEF a
  <2>3. ASSUME NEW i \in 2 .. Len(ss)
        PROVE  g[i] = g[i - 1] \o ss[i]
    <3>1. CASE i = 2
      <4>0. 1 \in 1 .. n /\ 1 + 1 = 2 /\ i - 1 = 1
        BY <1>0, <1>3, <3>1
      <4>1. g[2] = a \o f[1] /\ g[1] = a /\ f[1] = ss[2] /\ i - 1 = 1
        <5>1. tt[1] = ss[2]
          <6>1. tt[1] = ss[1 + 1]
            BY <1>0, <4>0, Zenon
          <6> QED
            BY <4>0, <6>1
        <5>2. g[2] = a \o f[1] /\ g[1] = a
          <6>1. 2 \in 1 .. n + 1 /\ 1 \in 1 .. n + 1 /\ 2 - 1 = 1 /\ 2 # 1
            BY <1>0, <1>3
          <6> HIDE DEF n
          <6> QED
            BY <6>1
        <5> QED
          BY <2>1, <4>0, <5>1, <5>2
      <4> HIDE DEF g
      <4> QED
        BY <3>1, <4>1
    <3>2. CASE i # 2
      <4>0. PICK j : j = i - 1
        OBVIOUS
      <4>1. /\ j \in 2 .. n /\ j - 1 \in 1 .. n /\ j \in 1 .. n /\ j + 1 = i
            /\ i \in 1 .. n + 1 /\ i # 1 /\ j # 1 /\ j \in 1 .. n + 1
        BY <1>0, <3>2, <4>0
      <4>2. g[i] = a \o f[j] /\ g[j] = a \o f[j - 1] /\ tt[j] = ss[i]
        BY <1>0, <4>0, <4>1
      <4>3. f[j] = f[j - 1] \o tt[j]
        BY <2>1, <4>1
      <4>4. f[j - 1] \in Seq(S) /\ tt[j] \in Seq(S)
        <5>1. f[j - 1] \in Seq(S)
          BY <2>1, <4>1
        <5>2. ss[i] \in Seq(S)
          BY <1>0, <4>1
        <5> QED
          BY <4>2, <5>1, <5>2
      <4>5. (a \o f[j - 1]) \o tt[j] = a \o (f[j - 1] \o tt[j])
        <5>1. PICK x \in Seq(S), y \in Seq(S), z \in Seq(S) :
                 x = a /\ y = f[j - 1] /\ z = tt[j]
          BY <1>1, <4>4
        <5>2. (x \o y) \o z = x \o (y \o z)
          OBVIOUS
        <5> QED
          BY <5>1, <5>2
      <4>6. g[i] = g[j] \o ss[i]
        <5> HIDE DEF g
        <5> QED
          BY <4>2, <4>3, <4>5
      <4> QED
        BY <4>0, <4>6
    <3> QED
      BY <3>1, <3>2
  <2>4. FlattenSeq(ss) = g[n + 1]
    <3> HIDE DEF g
    <3>1. FlattenSeq(ss) = g[Len(ss)]
      BY <2>2, <2>3, FlattenIs
    <3> QED
      BY <1>0, <3>1
  <2>5. g[n + 1] = a \o f[n] /\ f[n] \in Seq(S)
    <3>1. n \in 1 .. n /\ n + 1 \in 1 .. n + 1 /\ n + 1 # 1 /\ (n + 1) - 1 = n
      BY <1>0, <1>3
    <3>2. f[n] \in Seq(S)
      BY <2>1, <3>1, Zenon
    <3> HIDE DEF n
    <3>3. g[n + 1] = a \o f[(n + 1) - 1]
      BY <3>1
    <3> QED
      BY <3>1, <3>2, <3>3
  <2> QED
    BY <2>1, <2>4, <2>5 DEF tt, a
<1> QED
  BY <1>2, <1>3

-----------------------------------------------------------------------------
(* Symbols and frames.                                                     *)

\* A symbol holds a byte or a length, or it is a checksum, which is longer.
ByteSymbols == {Byte(b) : b \in Nat}

Symbols == ByteSymbols \cup {s \in Seq(ByteSymbols) : Len(s) >= HeaderLen}

LEMMA ByteSymbolIs ==
    ASSUME NEW s \in ByteSymbols
    PROVE  Len(s) = 1 /\ s[1] \in Nat /\ s = <<s[1]>>
BY DEF ByteSymbols, Byte

\* A frame, symbol by symbol.
LEMMA FrameShape ==
    ASSUME NEW m \in FramedMessage
    PROVE  LET n == Len(m.payload)
               e == encodeFrame(m)
           IN  /\ n \in Nat
               /\ e \in Seq(Symbols)
               /\ Len(e) = n + 5
               /\ e[1] = Byte(Magic) /\ e[2] = Byte(Version)
               /\ e[3] = Byte(m.tag) /\ e[4] = Byte(n)
               /\ \A i \in 1 .. n : e[4 + i] = Byte(m.payload[i])
               /\ \A i \in 1 .. n + 4 : e[i] \in ByteSymbols
               /\ e[n + 5] = SubSeq(e, 1, n + 4)
<1> DEFINE n == Len(m.payload)
           head == <<Byte(Magic), Byte(Version), Byte(m.tag), Byte(n)>>
           data == [i \in 1 .. n |-> Byte(m.payload[i])]
           body == head \o data
           e == Append(body, body)
<1>1. m.payload \in Seq(Bytes) /\ m.tag \in Tags
  BY DEF FramedMessage
<1>2. n \in Nat /\ \A i \in 1 .. n : m.payload[i] \in Nat
  BY <1>1, BytesNat, LenProperties, ElementOfSeq
<1>3. Magic \in Nat /\ Version \in Nat /\ m.tag \in Nat
  BY <1>1, BytesNat, FieldsAreBytes
<1>4. head \in Seq(ByteSymbols) /\ Len(head) = 4
  BY <1>2, <1>3 DEF ByteSymbols
<1>5. data \in Seq(ByteSymbols) /\ Len(data) = n
  <2>1. \A i \in 1 .. n : Byte(m.payload[i]) \in ByteSymbols
    BY <1>2 DEF ByteSymbols
  <2> QED
    BY <1>2, <2>1
<1>6. /\ body \in Seq(ByteSymbols) /\ Len(body) = n + 4
      /\ \A i \in 1 .. n + 4 : body[i] = IF i <= 4 THEN head[i] ELSE data[i - 4]
  <2> HIDE DEF head, data
  <2>1. PICK x \in Seq(ByteSymbols), y \in Seq(ByteSymbols) : x = head /\ y = data
    BY <1>4, <1>5
  <2>2. /\ x \o y \in Seq(ByteSymbols)
        /\ Len(x \o y) = Len(x) + Len(y)
        /\ \A i \in 1 .. Len(x) + Len(y) :
              (x \o y)[i] = IF i <= Len(x) THEN x[i] ELSE y[i - Len(x)]
    BY ConcatProperties
  <2>3. body = x \o y
    BY <2>1
  <2>4. Len(x) = 4 /\ Len(y) = n
    BY <1>4, <1>5, <2>1
  <2> HIDE DEF body, n
  <2> QED
    BY <1>2, <2>1, <2>2, <2>3, <2>4
<1>7. body \in Symbols /\ body \in Seq(Symbols)
  <2> HIDE DEF body
  <2>1. body \in Symbols
    BY <1>2, <1>6 DEF Symbols, HeaderLen
  <2>2. ByteSymbols \subseteq Symbols
    BY DEF Symbols
  <2> QED
    BY <1>6, <2>1, <2>2, SeqMonotonic
<1>8. /\ e \in Seq(Symbols) /\ Len(e) = n + 5
      /\ \A i \in 1 .. n + 4 : e[i] = body[i]
      /\ e[n + 5] = body
  <2> HIDE DEF body
  <2>1. /\ Append(body, body) \in Seq(Symbols)
        /\ Len(Append(body, body)) = Len(body) + 1
        /\ \A i \in 1 .. Len(body) : Append(body, body)[i] = body[i]
        /\ Append(body, body)[Len(body) + 1] = body
    BY <1>7, AppendProperties
  <2> QED
    BY <1>2, <1>6, <2>1
<1>9. /\ e[1] = Byte(Magic) /\ e[2] = Byte(Version) /\ e[3] = Byte(m.tag) /\ e[4] = Byte(n)
      /\ \A i \in 1 .. n : e[4 + i] = Byte(m.payload[i])
  <2> HIDE DEF body, e
  <2>1. \A i \in 1 .. n + 4 : e[i] = IF i <= 4 THEN head[i] ELSE data[i - 4]
    <3> HIDE DEF head, data
    <3> QED
      BY <1>6, <1>8
  <2>2. /\ e[1] = head[1] /\ e[2] = head[2] /\ e[3] = head[3] /\ e[4] = head[4]
        /\ \A i \in 1 .. n : e[4 + i] = data[i]
    <3> HIDE DEF head, data
    <3> QED
      BY <1>2, <2>1
  <2> QED
    BY <2>2
<1>10. \A i \in 1 .. n + 4 : e[i] \in ByteSymbols
  <2> HIDE DEF body, e
  <2>1. \A i \in 1 .. Len(body) : body[i] \in ByteSymbols
    BY <1>6, ElementOfSeq
  <2> QED
    BY <1>6, <1>8, <2>1
<1>11. body = SubSeq(e, 1, n + 4)
  <2> HIDE DEF body, e
  <2>1. \A i \in 1 .. n + 4 : e[i] \in ByteSymbols
    BY <1>10
  <2>2. /\ SubSeq(e, 1, n + 4) \in Seq(ByteSymbols)
        /\ Len(SubSeq(e, 1, n + 4)) = n + 4
        /\ \A i \in 1 .. n + 4 : SubSeq(e, 1, n + 4)[i] = e[i]
    <3>1. 1 <= n + 4 /\ n + 4 \in Int /\ (n + 4) - 1 + 1 = n + 4
          /\ \A i \in 1 .. n + 4 : 1 + i - 1 = i
      BY <1>2
    <3>2. /\ SubSeq(e, 1, n + 4) \in Seq(ByteSymbols)
          /\ Len(SubSeq(e, 1, n + 4)) = IF 1 <= n + 4 THEN (n + 4) - 1 + 1 ELSE 0
          /\ \A i \in 1 .. (n + 4) - 1 + 1 : SubSeq(e, 1, n + 4)[i] = e[1 + i - 1]
      BY <2>1, <3>1, SubSeqProperties
    <3> QED
      BY <3>1, <3>2
  <2>3. PICK t \in Seq(ByteSymbols) : t = SubSeq(e, 1, n + 4)
    BY <2>2
  <2>4. Len(t) = Len(body) /\ \A i \in 1 .. Len(body) : t[i] = body[i]
    BY <1>6, <1>8, <2>2, <2>3
  <2> QED
    BY <1>6, <2>3, <2>4, SeqEqual
<1>12. encodeFrame(m) = e
  BY DEF encodeFrame, fnv1a
<1> HIDE DEF body, e
<1> QED
  BY <1>2, <1>8, <1>9, <1>10, <1>11, <1>12

\* What a buffer holds from which decodeFrame makes a frame.
LEMMA DecodedFrame ==
    ASSUME NEW b, decodeFrame(b).err = "None"
    PROVE  LET n == b[4][1]
           IN  /\ ~(Len(b) < 4)
               /\ b[1] = Byte(Magic) /\ b[2] = Byte(Version)
               /\ ~(Len(b) < 4 + n + 1)
               /\ b[4 + n + 1] = SubSeq(b, 1, 4 + n)
               /\ decodeFrame(b).consumed = 4 + n + 1
               /\ decodeFrame(b).msg = Contents(b, n)
BY DEF decodeFrame, NoFrame, HeaderLen, ChecksumLen, fnv1a

\* A buffer that holds only part of a frame is shorter than the longest frame.
LEMMA TruncatedIsShort ==
    ASSUME NEW b \in Seq(Symbols), decodeFrame(b).err = "Truncated",
           4 <= Len(b) => b[4] \in ByteSymbols
    PROVE  Len(b) < HeaderLen + MaxPayload + ChecksumLen
<1>1. Len(b) \in Nat /\ MaxPayload \in Nat
  BY LenProperties, MaxPayloadNat
<1>2. CASE Len(b) < 4
  BY <1>1, <1>2 DEF HeaderLen, ChecksumLen
<1>3. CASE ~(Len(b) < 4)
  <2>1. PICK n \in Nat : n = b[4][1]
    BY <1>1, <1>3, ByteSymbolIs
  <2>2. ~(n > MaxPayload) /\ Len(b) < 4 + n + 1
    BY <1>3, <2>1 DEF decodeFrame, NoFrame, HeaderLen, ChecksumLen
  <2> QED
    BY <1>1, <2>1, <2>2 DEF HeaderLen, ChecksumLen
<1> QED
  BY <1>2, <1>3

\* b begins like the frame e, except perhaps at p, where some byte stands.
BeginsLike(b, e, p) ==
    /\ \A i \in 1 .. Len(b) : i <= Len(e) /\ i # p => b[i] = e[i]
    /\ p \in 1 .. Len(b) => b[p] \in ByteSymbols

\* A frame read from a buffer that begins like a message's frame is that message's: one
\* damaged symbol is never decoded.
LEMMA DecodesOnlyTheFrame ==
    ASSUME NEW m \in FramedMessage, NEW b \in Seq(Symbols), NEW p \in Nat,
           BeginsLike(b, encodeFrame(m), p), decodeFrame(b).err = "None"
    PROVE  /\ Len(encodeFrame(m)) <= Len(b)
           /\ decodeFrame(b).consumed = Len(encodeFrame(m))
           /\ decodeFrame(b).msg = m
           /\ \A i \in 1 .. Len(encodeFrame(m)) : b[i] = encodeFrame(m)[i]
<1>1. PICK n \in Nat, e \in Seq(Symbols) :
         /\ n = Len(m.payload) /\ e = encodeFrame(m)
         /\ Len(e) = n + 5
         /\ e[1] = Byte(Magic) /\ e[2] = Byte(Version)
         /\ e[3] = Byte(m.tag) /\ e[4] = Byte(n)
         /\ \A i \in 1 .. n : e[4 + i] = Byte(m.payload[i])
         /\ \A i \in 1 .. n + 4 : e[i] \in ByteSymbols
         /\ e[n + 5] = SubSeq(e, 1, n + 4)
  BY FrameShape
<1>2. Len(b) \in Nat /\ 4 <= Len(b) /\ \A i \in 1 .. Len(b) : b[i] \in Symbols
  <2>1. Len(b) \in Nat /\ ~(Len(b) < 4)
    BY DecodedFrame, LenProperties
  <2> QED
    BY <2>1, ElementOfSeq
<1>3. /\ \A i \in 1 .. Len(b) : i <= n + 5 /\ i # p => b[i] = e[i]
      /\ p \in 1 .. Len(b) => b[p] \in ByteSymbols
  BY <1>1 DEF BeginsLike
<1>4. b[4] \in ByteSymbols /\ (p # 4 => b[4] = Byte(n))
  <2>1. 4 \in 1 .. Len(b) /\ 4 <= n + 5 /\ 4 \in 1 .. n + 4
    BY <1>2
  <2>2. p # 4 => b[4] = e[4]
    BY <1>3, <2>1
  <2>3. p = 4 => b[4] \in ByteSymbols
    BY <1>3, <2>1
  <2>4. e[4] \in ByteSymbols
    BY <1>1, <2>1
  <2> QED
    BY <1>1, <2>2, <2>3, <2>4
<1>5. PICK k \in Nat : k = b[4][1]
  BY <1>4, ByteSymbolIs
<1>6. p # 4 => k = n
  BY <1>4, <1>5 DEF Byte
<1>7. /\ k + 5 <= Len(b)
      /\ b[k + 5] = SubSeq(b, 1, k + 4)
      /\ decodeFrame(b).consumed = k + 5
      /\ decodeFrame(b).msg = Contents(b, k)
  <2>1. /\ ~(Len(b) < 4 + k + 1)
        /\ b[4 + k + 1] = SubSeq(b, 1, 4 + k)
        /\ decodeFrame(b).consumed = 4 + k + 1
        /\ decodeFrame(b).msg = Contents(b, k)
    BY <1>5, DecodedFrame
  <2>2. 4 + k + 1 = k + 5 /\ 4 + k = k + 4
    OBVIOUS
  <2> QED
    BY <1>2, <2>1, <2>2
<1>8. /\ Len(b[k + 5]) = k + 4
      /\ \A i \in 1 .. k + 4 : b[k + 5][i] = b[i]
  <2>1. /\ Len(SubSeq(b, 1, k + 4)) = IF 1 <= k + 4 THEN (k + 4) - 1 + 1 ELSE 0
        /\ \A i \in 1 .. (k + 4) - 1 + 1 : SubSeq(b, 1, k + 4)[i] = b[1 + i - 1]
    <3>1. \A i \in 1 .. k + 4 : b[i] \in Symbols
      BY <1>2, <1>7
    <3>2. 1 \in Int /\ k + 4 \in Int
      OBVIOUS
    <3> QED
      BY <3>1, <3>2, SubSeqProperties
  <2>2. \A i \in 1 .. k + 4 : i \in 1 .. (k + 4) - 1 + 1 /\ 1 + i - 1 = i
    OBVIOUS
  <2>3. 1 <= k + 4 /\ (k + 4) - 1 + 1 = k + 4
    OBVIOUS
  <2> QED
    BY <1>7, <2>1, <2>2, <2>3
<1>9. b[k + 5] \notin ByteSymbols /\ b[k + 5] \in Seq(ByteSymbols)
  <2>1. b[k + 5] \notin ByteSymbols
    <3> SUFFICES ASSUME NEW c \in ByteSymbols, c = b[k + 5]
                 PROVE  FALSE
      OBVIOUS
    <3>1. 1 = k + 4
      BY <1>8, ByteSymbolIs
    <3> QED
      BY <3>1
  <2>2. b[k + 5] \in Symbols
    <3>1. k + 5 \in 1 .. Len(b)
      BY <1>2, <1>7
    <3> QED
      BY <1>2, <3>1
  <2> QED
    BY <2>1, <2>2 DEF Symbols
<1>10. e[n + 5] \notin ByteSymbols /\ \A i \in 1 .. n + 4 : e[n + 5][i] = e[i]
  <2>1. /\ Len(SubSeq(e, 1, n + 4)) = IF 1 <= n + 4 THEN (n + 4) - 1 + 1 ELSE 0
        /\ \A i \in 1 .. (n + 4) - 1 + 1 : SubSeq(e, 1, n + 4)[i] = e[1 + i - 1]
    <3>1. 1 \in Int /\ n + 4 \in Int
      OBVIOUS
    <3> QED
      BY <1>1, <3>1, SubSeqProperties
  <2>2. \A i \in 1 .. n + 4 : i \in 1 .. (n + 4) - 1 + 1 /\ 1 + i - 1 = i
    OBVIOUS
  <2>3. 1 <= n + 4 /\ (n + 4) - 1 + 1 = n + 4
    OBVIOUS
  <2>4. Len(e[n + 5]) = n + 4 /\ \A i \in 1 .. n + 4 : e[n + 5][i] = e[i]
    BY <1>1, <2>1, <2>2, <2>3
  <2>5. e[n + 5] \notin ByteSymbols
    <3> SUFFICES ASSUME NEW c \in ByteSymbols, c = e[n + 5]
                 PROVE  FALSE
      OBVIOUS
    <3>1. 1 = n + 4
      BY <2>4, ByteSymbolIs
    <3> QED
      BY <3>1
  <2> QED
    BY <2>4, <2>5
<1>11. k = n
  <2>1. ASSUME k < n PROVE FALSE
    \* The checksum would be where the frame has a byte.
    <3>1. k + 5 \in 1 .. Len(b) /\ k + 5 <= n + 5 /\ k + 5 \in 1 .. n + 4
      BY <1>2, <1>7, <2>1
    <3>2. k + 5 # p
      BY <1>3, <1>9, <3>1
    <3>3. b[k + 5] = e[k + 5]
      BY <1>3, <3>1, <3>2
    <3> QED
      BY <1>1, <1>9, <3>1, <3>3
  <2>2. ASSUME n < k PROVE FALSE
    \* The frame's own checksum would be summed up as a byte.
    <3>1. n + 5 \in 1 .. Len(b) /\ n + 5 \in 1 .. k + 4 /\ n + 5 # p /\ n + 5 <= n + 5
      BY <1>2, <1>6, <1>7, <2>2
    <3>2. b[n + 5] = e[n + 5]
      BY <1>3, <3>1
    <3>3. b[k + 5][n + 5] = b[n + 5]
      BY <1>8, <3>1
    <3>4. b[k + 5][n + 5] \in ByteSymbols
      BY <1>8, <1>9, <3>1, ElementOfSeq
    <3> QED
      BY <1>10, <3>2, <3>3, <3>4
  <2> QED
    BY <2>1, <2>2
<1>12. n + 5 <= Len(b) /\ b[n + 5] = e[n + 5]
  <2>1. n + 5 \in 1 .. Len(b) /\ n + 5 <= n + 5
    BY <1>2, <1>7, <1>11
  <2>2. n + 5 # p
    BY <1>3, <1>9, <1>11, <2>1
  <2> QED
    BY <1>3, <2>1, <2>2
<1>13. \A i \in 1 .. n + 5 : b[i] = e[i]
  <2>1. \A i \in 1 .. n + 4 : b[i] = e[i]
    BY <1>8, <1>10, <1>11, <1>12
  <2> QED
    BY <1>12, <2>1
<1>14. Contents(b, n) = m
  <2>1. b[3][1] = m.tag
    BY <1>1, <1>13 DEF Byte
  <2>2. ASSUME NEW i \in 1 .. n
        PROVE  b[4 + i][1] = m.payload[i]
    <3>1. 4 + i \in 1 .. n + 5
      OBVIOUS
    <3>2. b[4 + i] = e[4 + i]
      BY <1>13, <3>1
    <3> QED
      BY <1>1, <3>2 DEF Byte
  <2>3. m.payload \in [1 .. n -> Bytes] /\ m = [tag |-> m.tag, payload |-> m.payload]
    <3>1. m.payload \in Seq(Bytes) /\ m = [tag |-> m.tag, payload |-> m.payload]
      BY DEF FramedMessage
    <3> QED
      BY <1>1, <3>1, LenProperties
  <2>4. [i \in 1 .. n |-> b[4 + i][1]] = m.payload
    BY <2>2, <2>3
  <2> QED
    BY <2>1, <2>3, <2>4 DEF Contents, HeaderLen
<1> QED
  BY <1>1, <1>7, <1>11, <1>12, <1>13, <1>14

\* A buffer that begins like an intact frame is never taken for corrupt.
LEMMA IntactIsNotCorrupt ==
    ASSUME NEW m \in FramedMessage, Encodable(m), NEW b \in Seq(Symbols),
           BeginsLike(b, encodeFrame(m), 0)
    PROVE  decodeFrame(b).err \notin Corrupt
<1>1. PICK n \in Nat, e \in Seq(Symbols) :
         /\ n = Len(m.payload) /\ e = encodeFrame(m)
         /\ Len(e) = n + 5
         /\ e[1] = Byte(Magic) /\ e[2] = Byte(Version) /\ e[4] = Byte(n)
         /\ e[n + 5] = SubSeq(e, 1, n + 4)
  BY FrameShape
<1>2. Len(b) \in Nat /\ \A i \in 1 .. Len(b) : b[i] \in Symbols
  BY LenProperties, ElementOfSeq
<1>3. \A i \in 1 .. Len(b) : i <= n + 5 => b[i] = e[i]
  BY <1>1, <1>2 DEF BeginsLike
<1>4. CASE Len(b) < 4
  BY <1>4 DEF decodeFrame, NoFrame, HeaderLen, Corrupt
<1>5. CASE ~(Len(b) < 4)
  <2>1. /\ b[1] = Byte(Magic) /\ b[2] = Byte(Version) /\ b[4][1] = n
        /\ ~(n > MaxPayload)
    <3>1. /\ 1 \in 1 .. Len(b) /\ 2 \in 1 .. Len(b) /\ 4 \in 1 .. Len(b)
          /\ 1 <= n + 5 /\ 2 <= n + 5 /\ 4 <= n + 5
      BY <1>2, <1>5
    <3>2. b[1] = e[1] /\ b[2] = e[2] /\ b[4] = e[4]
      BY <1>3, <3>1
    <3>3. b[4][1] = n
      BY <1>1, <3>2 DEF Byte
    <3>4. ~(n > MaxPayload)
      BY <1>1, MaxPayloadNat DEF Encodable
    <3> QED
      BY <1>1, <3>2, <3>3, <3>4
  <2>2. CASE Len(b) < 4 + n + 1
    BY <1>5, <2>1, <2>2 DEF decodeFrame, NoFrame, HeaderLen, ChecksumLen, Corrupt
  <2>3. CASE ~(Len(b) < 4 + n + 1)
    <3>1. SubSeq(b, 1, n + 4) = SubSeq(e, 1, n + 4)
      <4>1. \A i \in 1 .. n + 4 : b[i] \in Symbols /\ e[i] = b[i] /\ e[i] \in Symbols
        BY <1>2, <1>3, <2>3
      <4>2. 1 \in Int /\ n + 4 \in Int /\ 1 <= n + 4 /\ (n + 4) - 1 + 1 = n + 4
            /\ \A i \in 1 .. n + 4 : i \in 1 .. (n + 4) - 1 + 1 /\ 1 + i - 1 = i
        OBVIOUS
      <4>3. /\ SubSeq(b, 1, n + 4) \in Seq(Symbols)
            /\ Len(SubSeq(b, 1, n + 4)) = IF 1 <= n + 4 THEN (n + 4) - 1 + 1 ELSE 0
            /\ \A i \in 1 .. (n + 4) - 1 + 1 : SubSeq(b, 1, n + 4)[i] = b[1 + i - 1]
        BY <4>1, <4>2, SubSeqProperties
      <4>4. /\ SubSeq(e, 1, n + 4) \in Seq(Symbols)
            /\ Len(SubSeq(e, 1, n + 4)) = IF 1 <= n + 4 THEN (n + 4) - 1 + 1 ELSE 0
            /\ \A i \in 1 .. (n + 4) - 1 + 1 : SubSeq(e, 1, n + 4)[i] = e[1 + i - 1]
        BY <4>1, <4>2, SubSeqProperties
      <4>5. PICK s \in Seq(Symbols), t \in Seq(Symbols) :
               s = SubSeq(b, 1, n + 4) /\ t = SubSeq(e, 1, n + 4)
        BY <4>3, <4>4
      <4>6. Len(s) = Len(t) /\ \A i \in 1 .. Len(s) : s[i] = t[i]
        BY <4>1, <4>2, <4>3, <4>4, <4>5
      <4> QED
        BY <4>5, <4>6, SeqEqual
    <3>2. b[n + 5] = e[n + 5]
      BY <1>2, <1>3, <2>3
    <3>3. b[4 + n + 1] = SubSeq(b, 1, 4 + n)
      <4>1. 4 + n + 1 = n + 5 /\ 4 + n = n + 4
        OBVIOUS
      <4> QED
        BY <1>1, <3>1, <3>2, <4>1
    <3> QED
      BY <1>5, <2>1, <2>3, <3>3 DEF decodeFrame, HeaderLen, ChecksumLen, fnv1a, Corrupt
  <2> QED
    BY <2>2, <2>3
<1> QED
  BY <1>4, <1>5

-----------------------------------------------------------------------------
(* The frames of the messages not yet received, and the symbols that stand *)
(* for them.                                                               *)

Rest(s, k) == [i \in 1 .. Len(s) - k |-> encodeFrame(s[k + i])]

LEMMA RestType ==
    ASSUME NEW s \in Seq(FramedMessage), NEW k \in 0 .. Len(s)
    PROVE  /\ Rest(s, k) \in Seq(Seq(Symbols))
           /\ Len(Rest(s, k)) = Len(s) - k
           /\ \A i \in 1 .. Len(s) - k : Rest(s, k)[i] = encodeFrame(s[k + i])
<1>1. Len(s) \in Nat
  BY LenProperties
<1>2. PICK n \in Nat : n = Len(s) - k
  BY <1>1
<1>3. ASSUME NEW i \in 1 .. n
      PROVE  encodeFrame(s[k + i]) \in Seq(Symbols)
  <2>1. k + i \in 1 .. Len(s)
    BY <1>1, <1>2
  <2>2. s[k + i] \in FramedMessage
    BY <2>1, ElementOfSeq
  <2> QED
    BY <2>2, FrameShape
<1>4. Rest(s, k) = [i \in 1 .. n |-> encodeFrame(s[k + i])]
  BY <1>2 DEF Rest
<1> QED
  BY <1>2, <1>3, <1>4

\* Another message is sent.
LEMMA RestAppend ==
    ASSUME NEW s \in Seq(FramedMessage), NEW k \in 0 .. Len(s), NEW m \in FramedMessage
    PROVE  Rest(Append(s, m), k) = Append(Rest(s, k), encodeFrame(m))
<1> DEFINE t == Append(s, m)
<1>1. /\ t \in Seq(FramedMessage) /\ Len(t) = Len(s) + 1 /\ Len(s) \in Nat
      /\ \A i \in 1 .. Len(s) : t[i] = s[i]
      /\ t[Len(s) + 1] = m
  BY AppendProperties, LenProperties
<1> HIDE DEF t
<1>2. PICK e \in Seq(Symbols) : e = encodeFrame(m)
  BY FrameShape
<1>3. PICK r \in Seq(Seq(Symbols)), n \in Nat :
         /\ r = Rest(s, k) /\ n = Len(s) - k /\ Len(r) = n
         /\ \A i \in 1 .. n : r[i] = encodeFrame(s[k + i])
  <2>1. Len(s) - k \in Nat
    BY <1>1
  <2>2. /\ Rest(s, k) \in Seq(Seq(Symbols))
        /\ Len(Rest(s, k)) = Len(s) - k
        /\ \A i \in 1 .. Len(s) - k : Rest(s, k)[i] = encodeFrame(s[k + i])
    BY RestType
  <2> QED
    BY <2>1, <2>2
<1>4. PICK q \in Seq(Seq(Symbols)) :
         /\ q = Rest(t, k) /\ Len(q) = n + 1
         /\ \A i \in 1 .. n + 1 : q[i] = encodeFrame(t[k + i])
  <2>1. k \in 0 .. Len(t) /\ Len(t) - k = n + 1
    BY <1>1, <1>3
  <2> QED
    BY <1>1, <2>1, RestType
<1>5. PICK z \in Seq(Seq(Symbols)) :
         /\ z = Append(r, e) /\ Len(z) = n + 1
         /\ \A i \in 1 .. n : z[i] = r[i]
         /\ z[n + 1] = e
  <2>1. /\ Append(r, e) \in Seq(Seq(Symbols))
        /\ Len(Append(r, e)) = Len(r) + 1
        /\ \A i \in 1 .. Len(r) : Append(r, e)[i] = r[i]
        /\ Append(r, e)[Len(r) + 1] = e
    BY AppendProperties
  <2> QED
    BY <1>3, <2>1
<1>6. ASSUME NEW i \in 1 .. n + 1
      PROVE  q[i] = z[i]
  <2>1. CASE i = n + 1
    <3>1. k + i = Len(s) + 1
      BY <1>1, <1>3, <2>1
    <3> QED
      BY <1>1, <1>2, <1>4, <1>5, <2>1, <3>1
  <2>2. CASE i # n + 1
    <3>1. k + i \in 1 .. Len(s) /\ i \in 1 .. n
      <4>1. k \in Nat /\ Len(s) = k + n /\ i \in 1 .. n
        BY <1>1, <1>3, <2>2
      <4> QED
        BY <4>1
    <3>2. t[k + i] = s[k + i]
      BY <1>1, <3>1
    <3> QED
      BY <1>3, <1>4, <1>5, <3>1, <3>2
  <2> QED
    BY <2>1, <2>2
<1>7. q = z
  BY <1>4, <1>5, <1>6, SeqEqual
<1> QED
  BY <1>2, <1>3, <1>4, <1>5, <1>7 DEF t

\* The next message is received.
LEMMA RestTail ==
    ASSUME NEW s \in Seq(FramedMessage), NEW k \in 0 .. Len(s), k < Len(s)
    PROVE  Rest(s, k)[1] = encodeFrame(s[k + 1]) /\ Tail(Rest(s, k)) = Rest(s, k + 1)
<1>1. Len(s) \in Nat
  BY LenProperties
<1>2. PICK r \in Seq(Seq(Symbols)), n \in Nat :
         /\ r = Rest(s, k) /\ n = Len(s) - k /\ Len(r) = n
         /\ \A i \in 1 .. n : r[i] = encodeFrame(s[k + i])
  BY <1>1, RestType
<1>3. PICK q \in Seq(Seq(Symbols)) :
         /\ q = Rest(s, k + 1) /\ Len(q) = n - 1
         /\ \A i \in 1 .. n - 1 : q[i] = encodeFrame(s[(k + 1) + i])
  <2>1. k + 1 \in 0 .. Len(s) /\ Len(s) - (k + 1) = n - 1
    BY <1>1, <1>2
  <2> QED
    BY <2>1, RestType
<1>4. n # 0 /\ 1 \in 1 .. n
  BY <1>1, <1>2
<1>5. PICK z \in Seq(Seq(Symbols)) :
         /\ z = Tail(r) /\ Len(z) = n - 1
         /\ \A i \in 1 .. n - 1 : z[i] = r[i + 1]
  <2>1. r # <<>>
    BY <1>2, <1>4, EmptySeq
  <2>2. /\ Tail(r) \in Seq(Seq(Symbols))
        /\ Len(Tail(r)) = Len(r) - 1
        /\ \A i \in 1 .. Len(Tail(r)) : Tail(r)[i] = r[i + 1]
    BY <2>1, HeadTailProperties
  <2> QED
    BY <1>2, <2>2
<1>6. ASSUME NEW i \in 1 .. n - 1
      PROVE  z[i] = q[i]
  <2>1. i + 1 \in 1 .. n /\ k + (i + 1) = (k + 1) + i
    BY <1>2
  <2> QED
    BY <1>2, <1>3, <1>5, <2>1
<1>7. z = q
  BY <1>3, <1>5, <1>6, SeqEqual
<1> QED
  BY <1>2, <1>3, <1>4, <1>5, <1>7

\* The symbols w are those of the frames f, except perhaps at p, where some byte stands.
Matches(w, f, p) ==
    /\ Len(w) = Len(f)
    /\ \A i \in 1 .. Len(f) : i # p => w[i] = f[i]
    /\ p \in 1 .. Len(f) => w[p] \in ByteSymbols

\* Nothing is damaged.
LEMMA MatchEqual ==
    ASSUME NEW w \in Seq(Symbols), NEW f \in Seq(Symbols), Matches(w, f, 0)
    PROVE  w = f
<1>1. Len(f) \in Nat
  BY LenProperties
<1>2. Len(w) = Len(f) /\ \A i \in 1 .. Len(w) : w[i] = f[i]
  BY <1>1 DEF Matches
<1> QED
  BY <1>2, SeqEqual

\* Another frame is appended.
LEMMA MatchAppend ==
    ASSUME NEW w \in Seq(Symbols), NEW f \in Seq(Symbols), NEW e \in Seq(Symbols),
           NEW p \in 0 .. Len(f), Matches(w, f, p)
    PROVE  Matches(w \o e, f \o e, p) /\ p \in 0 .. Len(f \o e)
<1>1. Len(f) \in Nat /\ Len(e) \in Nat /\ Len(w) = Len(f)
  BY LenProperties DEF Matches
<1>2. /\ Len(w \o e) = Len(f) + Len(e)
      /\ \A i \in 1 .. Len(f) + Len(e) : (w \o e)[i] = IF i <= Len(f) THEN w[i] ELSE e[i - Len(f)]
  <2>1. /\ Len(w \o e) = Len(w) + Len(e)
        /\ \A i \in 1 .. Len(w) + Len(e) : (w \o e)[i] = IF i <= Len(w) THEN w[i] ELSE e[i - Len(w)]
    BY ConcatProperties
  <2> QED
    BY <1>1, <2>1
<1>3. /\ Len(f \o e) = Len(f) + Len(e)
      /\ \A i \in 1 .. Len(f) + Len(e) : (f \o e)[i] = IF i <= Len(f) THEN f[i] ELSE e[i - Len(f)]
  BY <1>1, ConcatProperties
<1>4. ASSUME NEW i \in 1 .. Len(f) + Len(e), i # p
      PROVE  (w \o e)[i] = (f \o e)[i]
  <2>1. CASE i <= Len(f)
    <3>1. w[i] = f[i]
      BY <1>1, <1>4, <2>1 DEF Matches
    <3> QED
      BY <1>2, <1>3, <2>1, <3>1
  <2>2. CASE ~(i <= Len(f))
    BY <1>2, <1>3, <2>2
  <2> QED
    BY <2>1, <2>2
<1>5. p # 0 => (w \o e)[p] \in ByteSymbols
  <2> SUFFICES ASSUME p # 0 PROVE (w \o e)[p] \in ByteSymbols
    OBVIOUS
  <2>1. p \in 1 .. Len(f) /\ p \in 1 .. Len(f) + Len(e) /\ p <= Len(f)
    BY <1>1
  <2> QED
    BY <1>2, <2>1 DEF Matches
<1>6. p \in 0 .. Len(f) + Len(e)
  BY <1>1
<1> QED
  BY <1>1, <1>2, <1>3, <1>4, <1>5, <1>6 DEF Matches

\* A symbol is damaged where all were intact.
LEMMA MatchDamage ==
    ASSUME NEW w \in Seq(Symbols), NEW f \in Seq(Symbols), Matches(w, f, 0),
           NEW i \in 1 .. Len(w), NEW c \in ByteSymbols,
           NEW v \in Seq(Symbols), Len(v) = Len(w),
           \A j \in 1 .. Len(w) : v[j] = IF j = i THEN c ELSE w[j]
    PROVE  Matches(v, f, i) /\ i \in 0 .. Len(f)
<1>1. Len(f) \in Nat /\ Len(w) = Len(f) /\ \A j \in 1 .. Len(f) : w[j] = f[j]
  BY LenProperties DEF Matches
<1> QED
  BY <1>1 DEF Matches

\* The first frame, intact, is taken away.
LEMMA MatchDrop ==
    ASSUME NEW e \in Seq(Symbols), NEW u \in Seq(Symbols),
           NEW f \in Seq(Symbols), NEW p \in 0 .. Len(e \o f), Matches(e \o u, e \o f, p)
    PROVE  LET q == IF p <= Len(e) THEN 0 ELSE p - Len(e)
           IN  Matches(u, f, q) /\ q \in 0 .. Len(f)
<1>1. Len(e) \in Nat /\ Len(f) \in Nat /\ Len(u) \in Nat
  BY LenProperties
<1>2. /\ Len(e \o u) = Len(e) + Len(u)
      /\ \A i \in 1 .. Len(e) + Len(u) : (e \o u)[i] = IF i <= Len(e) THEN e[i] ELSE u[i - Len(e)]
  BY ConcatProperties
<1>3. /\ Len(e \o f) = Len(e) + Len(f)
      /\ \A i \in 1 .. Len(e) + Len(f) : (e \o f)[i] = IF i <= Len(e) THEN e[i] ELSE f[i - Len(e)]
  BY ConcatProperties
<1>4. Len(u) = Len(f)
  <2>1. Len(e) + Len(u) = Len(e) + Len(f)
    BY <1>2, <1>3 DEF Matches
  <2> QED
    BY <1>1, <2>1
<1>5. \A j \in 1 .. Len(f) : /\ j + Len(e) \in 1 .. Len(e) + Len(f)
                             /\ ~(j + Len(e) <= Len(e))
                             /\ (j + Len(e)) - Len(e) = j
  BY <1>1
<1>6. \A j \in 1 .. Len(f) : (e \o u)[j + Len(e)] = u[j] /\ (e \o f)[j + Len(e)] = f[j]
  BY <1>2, <1>3, <1>4, <1>5
<1>7. ASSUME NEW j \in 1 .. Len(f), j + Len(e) # p
      PROVE  u[j] = f[j]
  BY <1>3, <1>5, <1>6, <1>7 DEF Matches
<1>8. CASE p <= Len(e)
  <2>1. \A j \in 1 .. Len(f) : u[j] = f[j]
    BY <1>1, <1>7, <1>8
  <2> QED
    BY <1>1, <1>4, <1>8, <2>1 DEF Matches
<1>9. CASE ~(p <= Len(e))
  <2>1. PICK q \in 1 .. Len(f) : q = p - Len(e) /\ q + Len(e) = p
    <3>1. p \in 0 .. Len(e) + Len(f)
      BY <1>3
    <3>2. p - Len(e) \in 1 .. Len(f) /\ (p - Len(e)) + Len(e) = p
      BY <1>1, <1>9, <3>1
    <3> QED
      BY <3>2
  <2>2. u[q] \in ByteSymbols
    <3>1. p \in 1 .. Len(e \o f)
      BY <1>1, <1>3, <1>9
    <3>2. (e \o u)[p] \in ByteSymbols
      BY <3>1 DEF Matches
    <3> QED
      BY <1>6, <2>1, <3>2
  <2>3. \A j \in 1 .. Len(f) : j # q => u[j] = f[j]
    BY <1>1, <1>7, <2>1
  <2> QED
    BY <1>1, <1>4, <1>9, <2>1, <2>2, <2>3 DEF Matches
<1> QED
  BY <1>8, <1>9

LEMMA FlattenType ==
    ASSUME NEW S, NEW ss \in Seq(Seq(S))
    PROVE  FlattenSeq(ss) \in Seq(S)
<1>1. CASE Len(ss) = 0
  <2>1. ss = <<>>
    BY <1>1, EmptySeq
  <2> QED
    BY <2>1, FlattenEmpty, EmptySeq
<1>2. CASE Len(ss) # 0
  <2>1. PICK f : /\ f \in [1 .. Len(ss) -> Seq(S)]
                 /\ FlattenSeq(ss) = f[Len(ss)]
    BY <1>2, FlattenRecursion
  <2>2. Len(ss) \in 1 .. Len(ss)
    BY <1>2, LenProperties
  <2> QED
    BY <2>1, <2>2
<1> QED
  BY <1>1, <1>2

\* A sequence cut in two.
LEMMA SplitAt ==
    ASSUME NEW S, NEW s \in Seq(S), NEW n \in 0 .. Len(s)
    PROVE  /\ SubSeq(s, 1, n) \in Seq(S) /\ SubSeq(s, n + 1, Len(s)) \in Seq(S)
           /\ Len(SubSeq(s, 1, n)) = n
           /\ \A i \in 1 .. n : SubSeq(s, 1, n)[i] = s[i]
           /\ Len(SubSeq(s, n + 1, Len(s))) = Len(s) - n
           /\ SubSeq(s, 1, n) \o SubSeq(s, n + 1, Len(s)) = s
<1>0. Len(s) \in Nat /\ \A i \in 1 .. Len(s) : s[i] \in S
  BY LenProperties, ElementOfSeq
<1>1. /\ SubSeq(s, 1, n) \in Seq(S)
      /\ Len(SubSeq(s, 1, n)) = IF 1 <= n THEN n - 1 + 1 ELSE 0
      /\ \A i \in 1 .. n - 1 + 1 : SubSeq(s, 1, n)[i] = s[1 + i - 1]
  <2>1. \A i \in 1 .. n : s[i] \in S
    BY <1>0
  <2>2. 1 \in Int /\ n \in Int
    OBVIOUS
  <2> QED
    BY <2>1, <2>2, SubSeqProperties
<1>2. /\ SubSeq(s, n + 1, Len(s)) \in Seq(S)
      /\ Len(SubSeq(s, n + 1, Len(s))) = IF n + 1 <= Len(s) THEN Len(s) - (n + 1) + 1 ELSE 0
  <2>1. \A i \in n + 1 .. Len(s) : s[i] \in S
    BY <1>0
  <2>2. n + 1 \in Int /\ Len(s) \in Int
    BY <1>0
  <2> QED
    BY <2>1, <2>2, SubSeqProperties
<1>3. SubSeq(s, 1, n) \o SubSeq(s, n + 1, Len(s)) = s
  <2>1. 1 \in 1 .. Len(s) + 1 /\ n \in 1 - 1 .. Len(s) /\ Len(s) \in n .. Len(s)
    BY <1>0
  <2>2. SubSeq(s, 1, n) \o SubSeq(s, n + 1, Len(s)) = SubSeq(s, 1, Len(s))
    BY <2>1, ConcatAdjacentSubSeq
  <2> QED
    BY <2>2, SubSeqFull
<1>4. Len(SubSeq(s, 1, n)) = n /\ \A i \in 1 .. n : SubSeq(s, 1, n)[i] = s[i]
  <2>1. \A i \in 1 .. n : i \in 1 .. n - 1 + 1 /\ 1 + i - 1 = i
    OBVIOUS
  <2>2. (IF 1 <= n THEN n - 1 + 1 ELSE 0) = n
    OBVIOUS
  <2> QED
    BY <1>1, <2>1, <2>2
<1>5. (IF n + 1 <= Len(s) THEN Len(s) - (n + 1) + 1 ELSE 0) = Len(s) - n
  BY <1>0
<1> QED
  BY <1>1, <1>2, <1>3, <1>4, <1>5

\* Sequences that agree up to k have the same prefix of that length.
LEMMA SamePrefix ==
    ASSUME NEW S, NEW s \in Seq(S), NEW t \in Seq(S), NEW k \in Nat,
           k <= Len(s), k <= Len(t), \A i \in 1 .. k : t[i] = s[i]
    PROVE  SubSeq(t, 1, k) = SubSeq(s, 1, k)
<1>1. Len(s) \in Nat /\ Len(t) \in Nat
  BY LenProperties
<1>2. k \in 0 .. Len(s) /\ k \in 0 .. Len(t)
  BY <1>1
<1>3. PICK x \in Seq(S) : x = SubSeq(s, 1, k) /\ Len(x) = k /\ \A i \in 1 .. k : x[i] = s[i]
  <2>1. /\ SubSeq(s, 1, k) \in Seq(S) /\ Len(SubSeq(s, 1, k)) = k
        /\ \A i \in 1 .. k : SubSeq(s, 1, k)[i] = s[i]
    BY <1>2, SplitAt
  <2> QED
    BY <2>1
<1>4. PICK y \in Seq(S) : y = SubSeq(t, 1, k) /\ Len(y) = k /\ \A i \in 1 .. k : y[i] = t[i]
  <2>1. /\ SubSeq(t, 1, k) \in Seq(S) /\ Len(SubSeq(t, 1, k)) = k
        /\ \A i \in 1 .. k : SubSeq(t, 1, k)[i] = t[i]
    BY <1>2, SplitAt
  <2> QED
    BY <2>1
<1>5. y = x
  BY <1>3, <1>4, SeqEqual
<1> QED
  BY <1>3, <1>4, <1>5

\* Three sequences one after the other: the first is at the front.
LEMMA ThreeParts ==
    ASSUME NEW S, NEW a \in Seq(S), NEW b \in Seq(S), NEW c \in Seq(S)
    PROVE  /\ (a \o b) \o c \in Seq(S)
           /\ (a \o b) \o c = a \o (b \o c)
           /\ Len((a \o b) \o c) = Len(a) + Len(b) + Len(c)
           /\ \A i \in 1 .. Len(a) : ((a \o b) \o c)[i] = a[i]
<1>1. PICK bc \in Seq(S) : bc = b \o c /\ Len(bc) = Len(b) + Len(c)
  BY ConcatProperties
<1>2. (a \o b) \o c = a \o bc
  BY <1>1, ConcatAssociative
<1>3. /\ a \o bc \in Seq(S)
      /\ Len(a \o bc) = Len(a) + Len(bc)
      /\ \A i \in 1 .. Len(a) + Len(bc) : (a \o bc)[i] = IF i <= Len(a) THEN a[i] ELSE bc[i - Len(a)]
  BY ConcatProperties
<1>4. Len(a) \in Nat /\ Len(b) \in Nat /\ Len(c) \in Nat
  BY LenProperties
<1>5. \A i \in 1 .. Len(a) : i \in 1 .. Len(a) + Len(bc) /\ i <= Len(a)
  BY <1>1, <1>4
<1>6. Len(a) + Len(bc) = Len(a) + Len(b) + Len(c)
  BY <1>1, <1>4
<1> QED
  BY <1>1, <1>2, <1>3, <1>5, <1>6

\* Four sequences one after the other, grouped in several ways.
Regrouped(a, b, c, d) ==
    /\ ((a \o b) \o c) \o d = a \o ((b \o c) \o d)
    /\ ((a \o b) \o c) \o d = (a \o (b \o c)) \o d
    /\ (a \o (b \o c)) \o d = (a \o b) \o (c \o d)

LEMMA FourParts ==
    ASSUME NEW a \in Seq(Symbols), NEW b \in Seq(Symbols),
           NEW c \in Seq(Symbols), NEW d \in Seq(Symbols)
    PROVE  Regrouped(a, b, c, d)
<1>1. PICK bc \in Seq(Symbols) : bc = b \o c
  BY ConcatProperties
<1>2. PICK ab \in Seq(Symbols) : ab = a \o b
  BY ConcatProperties
<1>3. (a \o b) \o c = a \o bc
  <2>1. (a \o b) \o c = a \o (b \o c)
    OBVIOUS
  <2> QED
    BY <1>1, <2>1
<1>4. (a \o bc) \o d = a \o (bc \o d)
  OBVIOUS
<1>5. (ab \o c) \o d = ab \o (c \o d)
  OBVIOUS
<1> QED
  BY <1>1, <1>2, <1>3, <1>4, <1>5 DEF Regrouped

Sendable == {m \in FramedMessage : Encodable(m)}

LEMMA SendableSeq ==
    ASSUME NEW s \in Seq(Sendable)
    PROVE  s \in Seq(FramedMessage)
BY SeqMonotonic DEF Sendable

\* What is left to receive, symbol by symbol.
LEMMA FirstOutstanding ==
    ASSUME NEW s \in Seq(Sendable), NEW k \in 0 .. Len(s),
           NEW a \in Seq(Symbols), NEW b \in Seq(Symbols), NEW c \in Seq(Symbols),
           NEW p \in Nat, Matches((a \o b) \o c, FlattenSeq(Rest(s, k)), p),
           Len(a) # 0
    PROVE  /\ k < Len(s)
           /\ FlattenSeq(Rest(s, k + 1)) \in Seq(Symbols)
           /\ FlattenSeq(Rest(s, k)) = encodeFrame(s[k + 1]) \o FlattenSeq(Rest(s, k + 1))
           /\ BeginsLike(a, encodeFrame(s[k + 1]), p)
<1>0. s \in Seq(FramedMessage) /\ Len(s) \in Nat /\ Len(a) \in Nat /\ Len(b) \in Nat /\ Len(c) \in Nat
  BY SendableSeq, LenProperties
<1>1. PICK r \in Seq(Seq(Symbols)) : r = Rest(s, k) /\ Len(r) = Len(s) - k
  BY <1>0, RestType
<1>2. PICK w \in Seq(Symbols) :
         /\ w = (a \o b) \o c
         /\ Len(w) = Len(a) + Len(b) + Len(c)
         /\ \A i \in 1 .. Len(a) : w[i] = a[i]
  <2>1. /\ (a \o b) \o c \in Seq(Symbols)
        /\ Len((a \o b) \o c) = Len(a) + Len(b) + Len(c)
        /\ \A i \in 1 .. Len(a) : ((a \o b) \o c)[i] = a[i]
    BY ThreeParts
  <2> QED
    BY <2>1
<1>3. PICK f \in Seq(Symbols) : f = FlattenSeq(r) /\ Matches(w, f, p)
  BY <1>1, <1>2, FlattenType
<1>4. Len(f) = Len(a) + Len(b) + Len(c)
  BY <1>2, <1>3 DEF Matches
<1>5. k < Len(s)
  <2> SUFFICES ASSUME ~(k < Len(s)) PROVE FALSE
    OBVIOUS
  <2>1. Len(r) = 0
    <3>1. Len(s) = k /\ k - k = 0
      BY <1>0
    <3> QED
      BY <1>1, <3>1
  <2>2. r = <<>>
    BY <2>1, EmptySeq
  <2>3. Len(f) = 0
    BY <1>3, <2>2, FlattenEmpty, EmptySeq
  <2>4. Len(a) + Len(b) + Len(c) = 0
    BY <1>4, <2>3
  <2> QED
    BY <1>0, <2>4
<1>6. PICK m \in FramedMessage : m = s[k + 1]
  <2>1. k + 1 \in 1 .. Len(s)
    BY <1>0, <1>5
  <2> QED
    BY <1>0, <2>1, ElementOfSeq
<1>7. PICK e \in Seq(Symbols) : e = encodeFrame(m)
  BY FrameShape
<1>8. r[1] = e /\ Tail(r) = Rest(s, k + 1)
  BY <1>0, <1>1, <1>5, <1>6, <1>7, RestTail
<1>9. f = r[1] \o FlattenSeq(Tail(r)) /\ FlattenSeq(Tail(r)) \in Seq(Symbols)
  <2>1. Len(r) # 0
    BY <1>0, <1>1, <1>5
  <2> QED
    BY <1>3, <2>1, FlattenHead
<1>10. PICK g \in Seq(Symbols) : g = FlattenSeq(Rest(s, k + 1)) /\ f = e \o g
  BY <1>8, <1>9
<1>11. /\ Len(f) = Len(e) + Len(g) /\ Len(e) \in Nat /\ Len(g) \in Nat
       /\ \A i \in 1 .. Len(e) + Len(g) : f[i] = IF i <= Len(e) THEN e[i] ELSE g[i - Len(e)]
  BY <1>10, ConcatProperties, LenProperties
<1>12. BeginsLike(a, e, p)
  <2>1. \A i \in 1 .. Len(a) : i \in 1 .. Len(f)
    BY <1>0, <1>4
  <2>2. ASSUME NEW i \in 1 .. Len(a), i <= Len(e), i # p
        PROVE  a[i] = e[i]
    <3>1. w[i] = f[i]
      BY <1>3, <2>1, <2>2 DEF Matches
    <3>2. i \in 1 .. Len(e) + Len(g)
      BY <1>11, <2>1
    <3>3. f[i] = e[i]
      BY <1>11, <2>2, <3>2
    <3> QED
      BY <1>2, <3>1, <3>3
  <2>3. ASSUME p \in 1 .. Len(a)
        PROVE  a[p] \in ByteSymbols
    <3>1. w[p] \in ByteSymbols
      BY <1>3, <2>1, <2>3 DEF Matches
    <3> QED
      BY <1>2, <2>3, <3>1
  <2> QED
    BY <2>2, <2>3 DEF BeginsLike
<1> QED
  BY <1>1, <1>3, <1>5, <1>6, <1>7, <1>10, <1>12

\* What the receiving end makes of its buffer a, with b in flight, c still to come or
\* lost, and k of the messages s received.
LEMMA BufferDecodes ==
    ASSUME NEW s \in Seq(Sendable), NEW k \in 0 .. Len(s),
           NEW a \in Seq(Symbols), NEW b \in Seq(Symbols), NEW c \in Seq(Symbols),
           NEW p \in 0 .. Len(FlattenSeq(Rest(s, k))),
           Matches((a \o b) \o c, FlattenSeq(Rest(s, k)), p)
    PROVE  /\ decodeFrame(a).err = "Truncated" =>
                 Len(a) < HeaderLen + MaxPayload + ChecksumLen
           /\ p = 0 => decodeFrame(a).err \notin Corrupt
           /\ decodeFrame(a).err = "None" =>
                 /\ k < Len(s)
                 /\ decodeFrame(a).msg = s[k + 1]
                 /\ Popped(a) \in Seq(Symbols) /\ Len(Popped(a)) <= Len(a)
                 /\ \E q \in 0 .. Len(FlattenSeq(Rest(s, k + 1))) :
                       /\ Matches((Popped(a) \o b) \o c, FlattenSeq(Rest(s, k + 1)), q)
                       /\ p = 0 => q = 0
<1>0. /\ s \in Seq(FramedMessage) /\ Len(s) \in Nat /\ Len(a) \in Nat /\ MaxPayload \in Nat
      /\ p \in Nat
  BY SendableSeq, LenProperties, MaxPayloadNat
<1>1. CASE Len(a) = 0
  <2>1. decodeFrame(a).err = "Truncated"
    BY <1>1 DEF decodeFrame, NoFrame, HeaderLen
  <2> QED
    BY <1>0, <1>1, <2>1 DEF Corrupt, HeaderLen, ChecksumLen
<1>2. CASE Len(a) # 0
  <2>1. /\ k < Len(s)
        /\ FlattenSeq(Rest(s, k + 1)) \in Seq(Symbols)
        /\ FlattenSeq(Rest(s, k)) = encodeFrame(s[k + 1]) \o FlattenSeq(Rest(s, k + 1))
        /\ BeginsLike(a, encodeFrame(s[k + 1]), p)
    BY <1>0, <1>2, FirstOutstanding
  <2>2. PICK m \in FramedMessage : m = s[k + 1] /\ Encodable(m)
    <3>1. k + 1 \in 1 .. Len(s)
      BY <1>0, <2>1
    <3>2. s[k + 1] \in Sendable
      BY <3>1, ElementOfSeq
    <3> QED
      BY <3>2 DEF Sendable
  <2>3. PICK e \in Seq(Symbols) :
           /\ e = encodeFrame(m) /\ Len(e) \in Nat /\ 4 <= Len(e)
           /\ e[4] \in ByteSymbols
    <3>1. PICK n \in Nat : /\ Len(encodeFrame(m)) = n + 5
                           /\ encodeFrame(m) \in Seq(Symbols)
                           /\ \A i \in 1 .. n + 4 : encodeFrame(m)[i] \in ByteSymbols
      BY FrameShape
    <3>2. n + 5 \in Nat /\ 4 <= n + 5 /\ 4 \in 1 .. n + 4
      OBVIOUS
    <3> QED
      BY <3>1, <3>2
  <2>4. ASSUME 4 <= Len(a)
        PROVE  a[4] \in ByteSymbols
    <3>1. 4 \in 1 .. Len(a)
      BY <1>0, <2>4
    <3>2. p # 4 => a[4] = e[4]
      BY <2>1, <2>2, <2>3, <3>1 DEF BeginsLike
    <3>3. p = 4 => a[4] \in ByteSymbols
      BY <2>1, <3>1 DEF BeginsLike
    <3> QED
      BY <2>3, <3>2, <3>3
  <2>5. decodeFrame(a).err = "Truncated" => Len(a) < HeaderLen + MaxPayload + ChecksumLen
    BY <2>4, TruncatedIsShort
  <2>6. p = 0 => decodeFrame(a).err \notin Corrupt
    BY <2>1, <2>2, IntactIsNotCorrupt
  <2>7. ASSUME decodeFrame(a).err = "None"
        PROVE  /\ decodeFrame(a).msg = m
               /\ Popped(a) \in Seq(Symbols) /\ Len(Popped(a)) <= Len(a)
               /\ \E q \in 0 .. Len(FlattenSeq(Rest(s, k + 1))) :
                     /\ Matches((Popped(a) \o b) \o c, FlattenSeq(Rest(s, k + 1)), q)
                     /\ p = 0 => q = 0
    <3>1. /\ Len(e) <= Len(a)
          /\ decodeFrame(a).consumed = Len(e)
          /\ decodeFrame(a).msg = m
          /\ \A i \in 1 .. Len(e) : a[i] = e[i]
      BY <1>0, <2>1, <2>2, <2>3, <2>7, DecodesOnlyTheFrame
    <3>2. Popped(a) = SubSeq(a, Len(e) + 1, Len(a))
      BY <2>7, <3>1 DEF Popped
    <3>3. PICK x \in Seq(Symbols), y \in Seq(Symbols) :
             /\ x = SubSeq(a, 1, Len(e)) /\ y = Popped(a)
             /\ Len(x) = Len(e) /\ \A i \in 1 .. Len(e) : x[i] = a[i]
             /\ Len(y) = Len(a) - Len(e)
             /\ x \o y = a
      <4>1. Len(e) \in 0 .. Len(a)
        BY <1>0, <2>3, <3>1
      <4>2. /\ SubSeq(a, 1, Len(e)) \in Seq(Symbols)
            /\ SubSeq(a, Len(e) + 1, Len(a)) \in Seq(Symbols)
            /\ Len(SubSeq(a, 1, Len(e))) = Len(e)
            /\ \A i \in 1 .. Len(e) : SubSeq(a, 1, Len(e))[i] = a[i]
            /\ Len(SubSeq(a, Len(e) + 1, Len(a))) = Len(a) - Len(e)
            /\ SubSeq(a, 1, Len(e)) \o SubSeq(a, Len(e) + 1, Len(a)) = a
        BY <4>1, SplitAt
      <4> QED
        BY <3>2, <4>2
    <3>4. x = e
      BY <3>1, <3>3, SeqEqual
    <3>5. Len(y) <= Len(a)
      BY <1>0, <2>3, <3>3
    <3>6. PICK yb \in Seq(Symbols), u \in Seq(Symbols), g \in Seq(Symbols) :
             yb = y \o b /\ u = (y \o b) \o c /\ g = FlattenSeq(Rest(s, k + 1))
      BY <2>1, ConcatProperties
    <3>7. (a \o b) \o c = e \o u
      <4>1. Regrouped(e, y, b, c)
        BY FourParts
      <4>2. ((e \o y) \o b) \o c = e \o ((y \o b) \o c)
        BY <4>1 DEF Regrouped
      <4> QED
        BY <3>3, <3>4, <3>6, <4>2
    <3>8. FlattenSeq(Rest(s, k)) = e \o g
      BY <2>1, <2>2, <2>3, <3>6
    <3>9. Matches(e \o u, e \o g, p) /\ p \in 0 .. Len(e \o g)
      BY <3>7, <3>8
    <3> DEFINE q == IF p <= Len(e) THEN 0 ELSE p - Len(e)
    <3>10. Matches(u, g, q) /\ q \in 0 .. Len(g)
      BY <3>9, MatchDrop
    <3>11. p = 0 => q = 0
      BY <2>3
    <3> HIDE DEF q
    <3> QED
      BY <3>1, <3>3, <3>5, <3>6, <3>10, <3>11
  <2> QED
    BY <2>1, <2>2, <2>5, <2>6, <2>7
<1> QED
  BY <1>1, <1>2

-----------------------------------------------------------------------------
(* The inductive invariant.                                                *)

\* The symbols a, b and c, one after the other, are the frames of s from the k-th on,
\* except perhaps at p.
Carries(a, b, c, s, k, p) ==
    /\ p \in 0 .. Len(FlattenSeq(Rest(s, k)))
    /\ Matches((a \o b) \o c, FlattenSeq(Rest(s, k)), p)

Types ==
    /\ TypeOK
    /\ sent \in Seq(Sendable)
    /\ unsent \in Seq(Symbols)
    /\ stream \in Seq(Symbols)
    /\ inbuf \in Seq(Symbols)

ReceivedInOrder ==
    /\ Len(received) <= Len(sent)
    /\ received = SubSeq(sent, 1, Len(received))

EndsForAReason ==
    /\ receiver \in {"peerClosed", "recvFailed"} => sender = "gone"
    /\ receiver = "corrupt" => damaged

\* Until it gives up, the receiver has before it the frames of what was sent and not
\* received; lost is what the sender did not get to send.
NothingMissing ==
    receiver = "receiving" =>
        \E lost \in Seq(Symbols), p \in Nat :
            /\ Carries(inbuf, stream, lost, sent, Len(received), p)
            /\ sender = "up" => lost = unsent
            /\ ~damaged => p = 0

TransportInvariant ==
    Types /\ ReceivedInOrder /\ EndsForAReason /\ NothingMissing /\ BufferBounded

LEMMA CarriesFirst == Carries(<<>>, <<>>, <<>>, <<>>, 0, 0)
<1>1. <<>> \in Seq(FramedMessage) /\ <<>> \in Seq(Symbols) /\ Len(<<>>) = 0
  BY EmptySeq
<1>2. Rest(<<>>, 0) = <<>>
  BY <1>1 DEF Rest
<1>3. (<<>> \o <<>>) \o <<>> = <<>>
  BY <1>1, ConcatEmptySeq
<1> QED
  BY <1>1, <1>2, <1>3, FlattenEmpty DEF Carries, Matches

LEMMA CarriesSent ==
    ASSUME NEW s \in Seq(Sendable), NEW k \in 0 .. Len(s), NEW m \in Sendable, NEW p \in Nat,
           NEW a \in Seq(Symbols), NEW b \in Seq(Symbols), Carries(a, b, <<>>, s, k, p)
    PROVE  Carries(a, b, encodeFrame(m), Append(s, m), k, p)
<1>1. s \in Seq(FramedMessage) /\ m \in FramedMessage
  BY SendableSeq DEF Sendable
<1>2. PICK r \in Seq(Seq(Symbols)), f \in Seq(Symbols) : r = Rest(s, k) /\ f = FlattenSeq(r)
  BY <1>1, RestType, FlattenType
<1>3. PICK e \in Seq(Symbols) : e = encodeFrame(m)
  BY <1>1, FrameShape
<1>4. FlattenSeq(Rest(Append(s, m), k)) = f \o e
  <2>1. Rest(Append(s, m), k) = Append(r, e)
    BY <1>1, <1>2, <1>3, RestAppend
  <2>2. FlattenSeq(Append(r, e)) = FlattenSeq(r) \o e
    BY FlattenAppend
  <2> QED
    BY <1>2, <2>1, <2>2
<1>5. PICK w \in Seq(Symbols) : w = a \o b
  BY ConcatProperties
<1>6. w \o <<>> = w
  BY ConcatEmptySeq
<1>7. Matches(w, f, p) /\ p \in 0 .. Len(f)
  BY <1>2, <1>5, <1>6 DEF Carries
<1>8. Matches(w \o e, f \o e, p) /\ p \in 0 .. Len(f \o e)
  BY <1>7, MatchAppend
<1> QED
  BY <1>3, <1>4, <1>5, <1>8 DEF Carries

LEMMA CarriesSentSome ==
    ASSUME NEW a \in Seq(Symbols), NEW b \in Seq(Symbols), NEW u \in Seq(Symbols),
           NEW n \in 1 .. Len(u), NEW s, NEW k, NEW p, Carries(a, b, u, s, k, p)
    PROVE  Carries(a, b \o SubSeq(u, 1, n), SubSeq(u, n + 1, Len(u)), s, k, p)
<1>1. PICK x \in Seq(Symbols), y \in Seq(Symbols) :
         x = SubSeq(u, 1, n) /\ y = SubSeq(u, n + 1, Len(u)) /\ x \o y = u
  <2>1. n \in 0 .. Len(u)
    OBVIOUS
  <2>2. /\ SubSeq(u, 1, n) \in Seq(Symbols) /\ SubSeq(u, n + 1, Len(u)) \in Seq(Symbols)
        /\ SubSeq(u, 1, n) \o SubSeq(u, n + 1, Len(u)) = u
    BY <2>1, SplitAt
  <2> QED
    BY <2>2
<1>2. Regrouped(a, b, x, y)
  BY FourParts
<1>3. (a \o (b \o x)) \o y = (a \o b) \o u
  BY <1>1, <1>2 DEF Regrouped
<1> QED
  BY <1>1, <1>3 DEF Carries

LEMMA CarriesReceivedSome ==
    ASSUME NEW a \in Seq(Symbols), NEW b \in Seq(Symbols), NEW c \in Seq(Symbols),
           NEW n \in 1 .. Len(b), NEW s, NEW k, NEW p, Carries(a, b, c, s, k, p)
    PROVE  Carries(a \o SubSeq(b, 1, n), SubSeq(b, n + 1, Len(b)), c, s, k, p)
<1>1. PICK x \in Seq(Symbols), y \in Seq(Symbols) :
         x = SubSeq(b, 1, n) /\ y = SubSeq(b, n + 1, Len(b)) /\ x \o y = b
  <2>1. n \in 0 .. Len(b)
    OBVIOUS
  <2>2. /\ SubSeq(b, 1, n) \in Seq(Symbols) /\ SubSeq(b, n + 1, Len(b)) \in Seq(Symbols)
        /\ SubSeq(b, 1, n) \o SubSeq(b, n + 1, Len(b)) = b
    BY <2>1, SplitAt
  <2> QED
    BY <2>2
<1>2. Regrouped(a, x, y, c)
  BY FourParts
<1>3. ((a \o x) \o y) \o c = (a \o b) \o c
  BY <1>1, <1>2 DEF Regrouped
<1> QED
  BY <1>1, <1>3 DEF Carries

\* Where the symbols of three sequences are once they are joined.
InParts(w, a, b, c) ==
    /\ Len(w) = Len(a) + Len(b) + Len(c)
    /\ \A j \in 1 .. Len(a) : w[j] = a[j]
    /\ \A j \in 1 .. Len(b) : w[Len(a) + j] = b[j]
    /\ \A j \in 1 .. Len(c) : w[Len(a) + Len(b) + j] = c[j]

LEMMA PartsInPlace ==
    ASSUME NEW a \in Seq(Symbols), NEW b \in Seq(Symbols), NEW c \in Seq(Symbols)
    PROVE  \E w \in Seq(Symbols) : w = (a \o b) \o c /\ InParts(w, a, b, c)
<1>1. PICK x \in Nat, y \in Nat, z \in Nat : x = Len(a) /\ y = Len(b) /\ z = Len(c)
  BY LenProperties
<1>2. PICK u \in Seq(Symbols) : u = a \o b
  BY ConcatProperties
<1>3. /\ Len(u) = x + y
      /\ \A j \in 1 .. x + y : u[j] = IF j <= x THEN a[j] ELSE b[j - x]
  <2>1. /\ Len(a \o b) = Len(a) + Len(b)
        /\ \A j \in 1 .. Len(a) + Len(b) : (a \o b)[j] = IF j <= Len(a) THEN a[j] ELSE b[j - Len(a)]
    BY ConcatProperties
  <2> QED
    BY <1>1, <1>2, <2>1
<1>4. PICK w \in Seq(Symbols) : w = u \o c
  BY ConcatProperties
<1>5. /\ Len(w) = x + y + z
      /\ \A j \in 1 .. x + y + z : w[j] = IF j <= x + y THEN u[j] ELSE c[j - (x + y)]
  <2>1. /\ Len(u \o c) = Len(u) + Len(c)
        /\ \A j \in 1 .. Len(u) + Len(c) : (u \o c)[j] = IF j <= Len(u) THEN u[j] ELSE c[j - Len(u)]
    BY ConcatProperties
  <2> QED
    BY <1>1, <1>3, <1>4, <2>1
<1>6. ASSUME NEW j \in 1 .. x
      PROVE  w[j] = a[j]
  <2>1. j \in 1 .. x + y + z /\ j \in 1 .. x + y /\ j <= x + y /\ j <= x
    OBVIOUS
  <2> QED
    BY <1>3, <1>5, <2>1
<1>7. ASSUME NEW j \in 1 .. y
      PROVE  w[x + j] = b[j]
  <2>1. /\ x + j \in 1 .. x + y + z /\ x + j \in 1 .. x + y /\ x + j <= x + y
        /\ ~(x + j <= x) /\ (x + j) - x = j
    OBVIOUS
  <2>2. w[x + j] = u[x + j]
    BY <1>5, <2>1
  <2>3. u[x + j] = b[(x + j) - x]
    BY <1>3, <2>1
  <2> QED
    BY <2>1, <2>2, <2>3
<1>8. ASSUME NEW j \in 1 .. z
      PROVE  w[x + y + j] = c[j]
  <2>1. /\ x + y + j \in 1 .. x + y + z /\ ~(x + y + j <= x + y)
        /\ (x + y + j) - (x + y) = j
    OBVIOUS
  <2>2. w[x + y + j] = c[(x + y + j) - (x + y)]
    BY <1>5, <2>1
  <2> QED
    BY <2>1, <2>2
<1>9. InParts(w, a, b, c)
  BY <1>1, <1>5, <1>6, <1>7, <1>8 DEF InParts
<1> QED
  BY <1>2, <1>4, <1>9

LEMMA CarriesDamaged ==
    ASSUME NEW s \in Seq(Sendable), NEW k \in 0 .. Len(s),
           NEW a \in Seq(Symbols), NEW b \in Seq(Symbols), NEW c \in Seq(Symbols),
           NEW i \in 1 .. Len(b), NEW d \in ByteSymbols, Carries(a, b, c, s, k, 0)
    PROVE  /\ Carries(a, [b EXCEPT ![i] = d], c, s, k, Len(a) + i)
           /\ Len(a) + i \in Nat
           /\ [b EXCEPT ![i] = d] \in Seq(Symbols)
<1>1. PICK r \in Seq(Seq(Symbols)), f \in Seq(Symbols) : r = Rest(s, k) /\ f = FlattenSeq(r)
  BY SendableSeq, RestType, FlattenType
<1>2. d \in Symbols
  BY DEF Symbols
<1>3. PICK t \in Seq(Symbols) :
         /\ t = [b EXCEPT ![i] = d] /\ Len(t) = Len(b)
         /\ \A j \in 1 .. Len(b) : t[j] = IF j = i THEN d ELSE b[j]
  <2>1. /\ [b EXCEPT ![i] = d] \in Seq(Symbols)
        /\ Len([b EXCEPT ![i] = d]) = Len(b)
        /\ \A j \in 1 .. Len(b) : [b EXCEPT ![i] = d][j] = IF j = i THEN d ELSE b[j]
    BY <1>2, ExceptSeq
  <2> QED
    BY <2>1
<1>4. PICK x \in Nat, y \in Nat, z \in Nat : x = Len(a) /\ y = Len(b) /\ z = Len(c)
  BY LenProperties
<1>5. PICK w \in Seq(Symbols) : w = (a \o b) \o c /\ InParts(w, a, b, c)
  BY PartsInPlace
<1>6. PICK v \in Seq(Symbols) : v = (a \o t) \o c /\ InParts(v, a, t, c)
  BY PartsInPlace
<1>7. Len(w) = x + y + z /\ Len(v) = x + y + z
  BY <1>3, <1>4, <1>5, <1>6 DEF InParts
<1>8. ASSUME NEW j \in 1 .. x + y + z
      PROVE  v[j] = IF j = x + i THEN d ELSE w[j]
  <2>1. CASE j <= x
    <3>1. j \in 1 .. x /\ j # x + i
      BY <1>4, <2>1
    <3> QED
      BY <1>4, <1>5, <1>6, <3>1 DEF InParts
  <2>2. CASE x < j /\ j <= x + y
    <3>1. PICK h \in 1 .. y : j = x + h
      <4>1. j - x \in 1 .. y /\ j = x + (j - x)
        BY <2>2
      <4> QED
        BY <4>1
    <3>2. v[x + h] = t[h] /\ w[x + h] = b[h]
      BY <1>3, <1>4, <1>5, <1>6 DEF InParts
    <3>3. t[h] = IF h = i THEN d ELSE b[h]
      BY <1>3, <1>4
    <3>4. h = i <=> j = x + i
      <4>1. i \in 1 .. y
        BY <1>4
      <4>2. x + h = x + i <=> h = i
        BY <4>1
      <4> QED
        BY <3>1, <4>2
    <3> QED
      BY <3>1, <3>2, <3>3, <3>4
  <2>3. CASE x + y < j
    <3>1. PICK h \in 1 .. z : j = x + y + h
      <4>1. j - (x + y) \in 1 .. z /\ j = x + y + (j - (x + y))
        BY <2>3
      <4> QED
        BY <4>1
    <3>2. v[x + y + h] = c[h] /\ w[x + y + h] = c[h]
      BY <1>3, <1>4, <1>5, <1>6 DEF InParts
    <3>3. j # x + i
      BY <1>4, <2>3
    <3> QED
      BY <3>1, <3>2, <3>3
  <2> QED
    BY <2>1, <2>2, <2>3
<1>9. x + i \in 1 .. x + y + z /\ x + i \in Nat
  BY <1>4
<1>10. /\ Len(v) = Len(w) /\ Len(a) + i \in 1 .. Len(w) /\ Len(a) + i \in Nat
       /\ \A j \in 1 .. Len(w) : v[j] = IF j = Len(a) + i THEN d ELSE w[j]
  BY <1>4, <1>7, <1>8, <1>9
<1>11. Matches(w, f, 0)
  BY <1>1, <1>5 DEF Carries
<1>12. Matches(v, f, Len(a) + i) /\ Len(a) + i \in 0 .. Len(f)
  BY <1>10, <1>11, MatchDamage
<1> QED
  BY <1>1, <1>3, <1>6, <1>10, <1>12 DEF Carries

-----------------------------------------------------------------------------
LEMMA TransportInit == Init => TransportInvariant
<1> SUFFICES ASSUME Init PROVE TransportInvariant
  OBVIOUS
<1>1. Len(<<>>) = 0 /\ \A S : <<>> \in Seq(S)
  BY EmptySeq
<1>2. Types
  BY <1>1 DEF Init, Types, TypeOK
<1>3. ReceivedInOrder
  <2>1. SubSeq(<<>>, 1, 0) = <<>>
    BY SubSeqEmpty
  <2> QED
    BY <1>1, <2>1 DEF Init, ReceivedInOrder
<1>4. EndsForAReason
  BY DEF Init, EndsForAReason
<1>5. NothingMissing
  BY <1>1, CarriesFirst DEF Init, NothingMissing
<1>6. BufferBounded
  BY <1>1, MaxPayloadNat, ReadSizePositive DEF Init, BufferBounded, HeaderLen, ChecksumLen
<1> QED
  BY <1>2, <1>3, <1>4, <1>5, <1>6 DEF TransportInvariant

\* What holds of the lengths in every state.
LEMMA Lengths ==
    ASSUME Types, ReceivedInOrder
    PROVE  /\ Len(sent) \in Nat /\ Len(received) \in Nat /\ Len(received) \in 0 .. Len(sent)
           /\ Len(inbuf) \in Nat /\ Len(stream) \in Nat /\ Len(unsent) \in Nat
<1>1. /\ Len(sent) \in Nat /\ Len(received) \in Nat
      /\ Len(inbuf) \in Nat /\ Len(stream) \in Nat /\ Len(unsent) \in Nat
  BY LenProperties DEF Types, TypeOK
<1> QED
  BY <1>1 DEF ReceivedInOrder

LEMMA SendFrameStep ==
    ASSUME TransportInvariant, NEW m \in Messages, sendFrame(m)
    PROVE  TransportInvariant'
<1> USE DEF TransportInvariant
<1>0. /\ Len(sent) \in Nat /\ Len(received) \in Nat /\ Len(received) \in 0 .. Len(sent)
  BY Lengths
<1>1. m \in Sendable
  BY MessagesFramed DEF sendFrame, Sendable
<1>2. encodeFrame(m) \in Seq(Symbols)
  BY <1>1, FrameShape DEF Sendable
<1>3. /\ sent' \in Seq(Sendable) /\ sent' \in Seq(Messages)
      /\ Len(sent') = Len(sent) + 1
      /\ \A i \in 1 .. Len(sent) : sent'[i] = sent[i]
  BY <1>1, AppendProperties DEF sendFrame, Types, TypeOK
<1>4. Types'
  BY <1>2, <1>3 DEF sendFrame, Types, TypeOK
<1>5. ReceivedInOrder'
  <2>1. PICK k \in 0 .. Len(sent) : k = Len(received)
    BY <1>0
  <2>2. SubSeq(sent', 1, k) = SubSeq(sent, 1, k)
    BY <1>0, <1>3, SamePrefix DEF Types
  <2>3. Len(received') <= Len(sent')
    BY <1>0, <1>3 DEF sendFrame
  <2> QED
    BY <2>1, <2>2, <2>3 DEF sendFrame, ReceivedInOrder
<1>6. EndsForAReason'
  BY DEF sendFrame, EndsForAReason
<1>7. NothingMissing'
  <2> SUFFICES ASSUME receiver = "receiving"
               PROVE  \E lost \in Seq(Symbols), p \in Nat :
                         /\ Carries(inbuf, stream, lost, sent', Len(received), p)
                         /\ lost = encodeFrame(m)
                         /\ ~damaged => p = 0
    BY DEF sendFrame, NothingMissing
  <2>1. PICK p \in Nat : /\ Carries(inbuf, stream, <<>>, sent, Len(received), p)
                         /\ ~damaged => p = 0
    BY DEF sendFrame, NothingMissing
  <2>2. Carries(inbuf, stream, encodeFrame(m), Append(sent, m), Len(received), p)
    BY <1>0, <1>1, <2>1, CarriesSent DEF Types
  <2> QED
    BY <1>2, <2>1, <2>2 DEF sendFrame
<1>8. BufferBounded'
  BY DEF sendFrame, BufferBounded
<1> QED
  BY <1>4, <1>5, <1>6, <1>7, <1>8

LEMMA SendSomeStep ==
    ASSUME TransportInvariant, NEW n \in 1 .. Len(unsent), sendSome(n)
    PROVE  TransportInvariant'
<1> USE DEF TransportInvariant
<1>1. /\ SubSeq(unsent, 1, n) \in Seq(Symbols)
      /\ SubSeq(unsent, n + 1, Len(unsent)) \in Seq(Symbols)
  BY SplitAt DEF Types
<1>2. stream \o SubSeq(unsent, 1, n) \in Seq(Symbols)
  BY <1>1, ConcatProperties DEF Types
<1>3. Types'
  BY <1>1, <1>2 DEF sendSome, Types, TypeOK
<1>4. ReceivedInOrder' /\ EndsForAReason' /\ BufferBounded'
  BY DEF sendSome, ReceivedInOrder, EndsForAReason, BufferBounded
<1>5. NothingMissing'
  <2> SUFFICES ASSUME receiver = "receiving"
               PROVE  \E lost \in Seq(Symbols), p \in Nat :
                         /\ Carries(inbuf, stream', lost, sent, Len(received), p)
                         /\ lost = unsent'
                         /\ ~damaged => p = 0
    BY DEF sendSome, NothingMissing
  <2>1. PICK p \in Nat : /\ Carries(inbuf, stream, unsent, sent, Len(received), p)
                         /\ ~damaged => p = 0
    BY DEF sendSome, NothingMissing
  <2>2. Carries(inbuf, stream \o SubSeq(unsent, 1, n), SubSeq(unsent, n + 1, Len(unsent)),
                sent, Len(received), p)
    BY <2>1, CarriesSentSome DEF Types
  <2> QED
    BY <1>1, <2>1, <2>2 DEF sendSome
<1> QED
  BY <1>3, <1>4, <1>5

LEMMA CloseStep ==
    ASSUME TransportInvariant, close
    PROVE  TransportInvariant'
<1> USE DEF TransportInvariant
<1>1. Types'
  BY EmptySeq DEF close, Types, TypeOK
<1>2. ReceivedInOrder' /\ EndsForAReason' /\ BufferBounded'
  BY DEF close, ReceivedInOrder, EndsForAReason, BufferBounded
<1>3. NothingMissing'
  BY DEF close, NothingMissing
<1> QED
  BY <1>1, <1>2, <1>3

LEMMA DamageStep ==
    ASSUME TransportInvariant, NEW i \in 1 .. Len(stream), NEW b \in Bytes, damage(i, b)
    PROVE  TransportInvariant'
<1> USE DEF TransportInvariant
<1>0. Len(received) \in 0 .. Len(sent)
  BY Lengths
<1>1. Byte(b) \in ByteSymbols
  BY BytesNat DEF ByteSymbols
<1>2. stream' \in Seq(Symbols)
  <2>1. Byte(b) \in Symbols
    BY <1>1 DEF Symbols
  <2> QED
    BY <2>1, ExceptSeq DEF damage, Types
<1>3. Types'
  BY <1>2 DEF damage, Types, TypeOK
<1>4. ReceivedInOrder' /\ EndsForAReason' /\ BufferBounded'
  BY DEF damage, ReceivedInOrder, EndsForAReason, BufferBounded
<1>5. NothingMissing'
  <2> SUFFICES ASSUME receiver = "receiving"
               PROVE  \E lost \in Seq(Symbols), p \in Nat :
                         /\ Carries(inbuf, stream', lost, sent, Len(received), p)
                         /\ sender = "up" => lost = unsent
    BY DEF damage, NothingMissing
  <2>1. PICK lost \in Seq(Symbols) :
           /\ Carries(inbuf, stream, lost, sent, Len(received), 0)
           /\ sender = "up" => lost = unsent
    BY DEF damage, NothingMissing
  <2>2. /\ Carries(inbuf, [stream EXCEPT ![i] = Byte(b)], lost, sent, Len(received), Len(inbuf) + i)
        /\ Len(inbuf) + i \in Nat
    BY <1>0, <1>1, <2>1, CarriesDamaged DEF Types
  <2> QED
    BY <2>1, <2>2 DEF damage
<1> QED
  BY <1>3, <1>4, <1>5

\* The prefix of length k + 1 is the one of length k with one more element.
LEMMA LongerPrefix ==
    ASSUME NEW S, NEW s \in Seq(S), NEW k \in Nat, k < Len(s)
    PROVE  SubSeq(s, 1, k + 1) = Append(SubSeq(s, 1, k), s[k + 1])
<1>0. Len(s) \in Nat
  BY LenProperties
<1>1. k \in 0 .. Len(s) /\ k + 1 \in 0 .. Len(s) /\ k + 1 \in 1 .. Len(s)
  BY <1>0
<1>2. s[k + 1] \in S
  BY <1>1, ElementOfSeq
<1>3. PICK x \in Seq(S) : x = SubSeq(s, 1, k) /\ Len(x) = k /\ \A i \in 1 .. k : x[i] = s[i]
  <2>1. /\ SubSeq(s, 1, k) \in Seq(S) /\ Len(SubSeq(s, 1, k)) = k
        /\ \A i \in 1 .. k : SubSeq(s, 1, k)[i] = s[i]
    BY <1>1, SplitAt
  <2> QED
    BY <2>1
<1>4. PICK y \in Seq(S) : y = SubSeq(s, 1, k + 1) /\ Len(y) = k + 1
                          /\ \A i \in 1 .. k + 1 : y[i] = s[i]
  <2>1. /\ SubSeq(s, 1, k + 1) \in Seq(S) /\ Len(SubSeq(s, 1, k + 1)) = k + 1
        /\ \A i \in 1 .. k + 1 : SubSeq(s, 1, k + 1)[i] = s[i]
    BY <1>1, SplitAt
  <2> QED
    BY <2>1
<1>5. PICK z \in Seq(S) : /\ z = Append(x, s[k + 1]) /\ Len(z) = k + 1
                          /\ \A i \in 1 .. k : z[i] = x[i]
                          /\ z[k + 1] = s[k + 1]
  <2>1. /\ Append(x, s[k + 1]) \in Seq(S)
        /\ Len(Append(x, s[k + 1])) = Len(x) + 1
        /\ \A i \in 1 .. Len(x) : Append(x, s[k + 1])[i] = x[i]
        /\ Append(x, s[k + 1])[Len(x) + 1] = s[k + 1]
    BY <1>2, AppendProperties
  <2> QED
    BY <1>3, <2>1
<1>6. \A i \in 1 .. k + 1 : y[i] = z[i]
  BY <1>3, <1>4, <1>5
<1>7. y = z
  BY <1>4, <1>5, <1>6, SeqEqual
<1> QED
  BY <1>3, <1>4, <1>5, <1>7

\* A message received is the next of those sent.
LEMMA ReceivesTheNext ==
    ASSUME TransportInvariant, receiveMessage
    PROVE  /\ Len(received) < Len(sent)
           /\ received' = Append(received, sent[Len(received) + 1])
           /\ TransportInvariant'
<1> USE DEF TransportInvariant
<1>0. /\ Len(sent) \in Nat /\ Len(received) \in Nat /\ Len(received) \in 0 .. Len(sent)
      /\ Len(inbuf) \in Nat
  BY Lengths
<1>1. PICK k \in 0 .. Len(sent) : k = Len(received)
  BY <1>0
<1>2. PICK lost \in Seq(Symbols), p \in Nat :
         /\ Carries(inbuf, stream, lost, sent, k, p)
         /\ sender = "up" => lost = unsent
         /\ ~damaged => p = 0
  BY <1>1 DEF receiveMessage, NothingMissing
<1>3. /\ k < Len(sent)
      /\ decodeFrame(inbuf).msg = sent[k + 1]
      /\ Popped(inbuf) \in Seq(Symbols) /\ Len(Popped(inbuf)) <= Len(inbuf)
      /\ \E q \in 0 .. Len(FlattenSeq(Rest(sent, k + 1))) :
            /\ Matches((Popped(inbuf) \o stream) \o lost, FlattenSeq(Rest(sent, k + 1)), q)
            /\ p = 0 => q = 0
  <2>1. /\ p \in 0 .. Len(FlattenSeq(Rest(sent, k)))
        /\ Matches((inbuf \o stream) \o lost, FlattenSeq(Rest(sent, k)), p)
    BY <1>2 DEF Carries
  <2> QED
    BY <2>1, BufferDecodes DEF receiveMessage, Types
<1>4. PICK q \in Nat : /\ Carries(Popped(inbuf), stream, lost, sent, k + 1, q)
                       /\ p = 0 => q = 0
  <2>1. PICK q \in 0 .. Len(FlattenSeq(Rest(sent, k + 1))) :
           /\ Matches((Popped(inbuf) \o stream) \o lost, FlattenSeq(Rest(sent, k + 1)), q)
           /\ p = 0 => q = 0
    BY <1>3
  <2>2. q \in Nat
    OBVIOUS
  <2> QED
    BY <2>1, <2>2 DEF Carries
<1>5. /\ received' = Append(received, sent[k + 1])
      /\ k + 1 \in 1 .. Len(sent)
      /\ sent[k + 1] \in FramedMessage
  <2>1. k + 1 \in 1 .. Len(sent)
    BY <1>0, <1>3
  <2>2. sent[k + 1] \in Sendable
    BY <2>1, ElementOfSeq DEF Types
  <2> QED
    BY <1>3, <2>1, <2>2 DEF receiveMessage, Sendable
<1>6. received' \in Seq(FramedMessage) /\ Len(received') = k + 1
  BY <1>1, <1>5, AppendProperties DEF Types, TypeOK
<1>7. Types'
  BY <1>3, <1>6 DEF receiveMessage, Types, TypeOK
<1>8. ReceivedInOrder'
  <2>1. SubSeq(sent, 1, k + 1) = Append(SubSeq(sent, 1, k), sent[k + 1])
    BY <1>3, LongerPrefix DEF Types
  <2>2. k + 1 <= Len(sent)
    BY <1>5
  <2> QED
    BY <1>1, <1>5, <1>6, <2>1, <2>2 DEF receiveMessage, ReceivedInOrder
<1>9. EndsForAReason'
  BY DEF receiveMessage, EndsForAReason
<1>10. NothingMissing'
  BY <1>2, <1>4, <1>6 DEF receiveMessage, NothingMissing
<1>11. BufferBounded'
  <2>1. Len(Popped(inbuf)) \in Nat
    BY <1>3, LenProperties
  <2> QED
    BY <1>0, <1>3, <2>1, MaxPayloadNat, ReadSizePositive
       DEF receiveMessage, BufferBounded, HeaderLen, ChecksumLen
<1> QED
  BY <1>1, <1>3, <1>5, <1>7, <1>8, <1>9, <1>10, <1>11

\* A frame is taken for corrupt only after damage.
LEMMA ReceiveCorruptStep ==
    ASSUME TransportInvariant, receiveCorrupt
    PROVE  TransportInvariant'
<1> USE DEF TransportInvariant
<1>0. /\ Len(sent) \in Nat /\ Len(received) \in Nat /\ Len(received) \in 0 .. Len(sent)
      /\ Len(inbuf) \in Nat
  BY Lengths
<1>1. PICK lost \in Seq(Symbols), p \in Nat :
         /\ Carries(inbuf, stream, lost, sent, Len(received), p)
         /\ ~damaged => p = 0
  BY DEF receiveCorrupt, NothingMissing
<1>2. p = 0 => decodeFrame(inbuf).err \notin Corrupt
  <2>1. /\ p \in 0 .. Len(FlattenSeq(Rest(sent, Len(received))))
        /\ Matches((inbuf \o stream) \o lost, FlattenSeq(Rest(sent, Len(received))), p)
    BY <1>1 DEF Carries
  <2> QED
    BY <1>0, <2>1, BufferDecodes DEF Types
<1>3. damaged
  BY <1>1, <1>2 DEF receiveCorrupt
<1>4. Popped(inbuf) = <<>>
  BY DEF receiveCorrupt, Popped, Corrupt
<1>5. <<>> \in Seq(Symbols) /\ Len(<<>>) = 0
  BY EmptySeq
<1>6. Types'
  BY <1>4, <1>5 DEF receiveCorrupt, Types, TypeOK, Failures
<1>7. ReceivedInOrder' /\ EndsForAReason' /\ NothingMissing'
  BY <1>3 DEF receiveCorrupt, ReceivedInOrder, EndsForAReason, NothingMissing
<1>8. BufferBounded'
  BY <1>4, <1>5, MaxPayloadNat, ReadSizePositive
     DEF receiveCorrupt, BufferBounded, HeaderLen, ChecksumLen
<1> QED
  BY <1>6, <1>7, <1>8

LEMMA ReceiveSomeStep ==
    ASSUME TransportInvariant, NEW n \in 1 .. Len(stream), receiveSome(n)
    PROVE  TransportInvariant'
<1> USE DEF TransportInvariant
<1>0. /\ Len(sent) \in Nat /\ Len(received) \in Nat /\ Len(received) \in 0 .. Len(sent)
      /\ Len(inbuf) \in Nat /\ Len(stream) \in Nat
  BY Lengths
<1>1. /\ SubSeq(stream, 1, n) \in Seq(Symbols)
      /\ SubSeq(stream, n + 1, Len(stream)) \in Seq(Symbols)
      /\ Len(SubSeq(stream, 1, n)) = n
  <2>1. n \in 0 .. Len(stream)
    BY <1>0
  <2> QED
    BY <2>1, SplitAt DEF Types
<1>2. /\ inbuf \o SubSeq(stream, 1, n) \in Seq(Symbols)
      /\ Len(inbuf \o SubSeq(stream, 1, n)) = Len(inbuf) + n
  BY <1>1, ConcatProperties DEF Types
<1>3. PICK lost \in Seq(Symbols), p \in Nat :
         /\ Carries(inbuf, stream, lost, sent, Len(received), p)
         /\ sender = "up" => lost = unsent
         /\ ~damaged => p = 0
  BY DEF receiveSome, NothingMissing
<1>4. Types'
  BY <1>1, <1>2 DEF receiveSome, Types, TypeOK
<1>5. ReceivedInOrder' /\ EndsForAReason'
  BY DEF receiveSome, ReceivedInOrder, EndsForAReason
<1>6. NothingMissing'
  <2>1. Carries(inbuf \o SubSeq(stream, 1, n), SubSeq(stream, n + 1, Len(stream)), lost,
                sent, Len(received), p)
    BY <1>3, CarriesReceivedSome DEF Types
  <2> QED
    BY <1>3, <2>1 DEF receiveSome, NothingMissing
<1>7. BufferBounded'
  <2>1. /\ p \in 0 .. Len(FlattenSeq(Rest(sent, Len(received))))
        /\ Matches((inbuf \o stream) \o lost, FlattenSeq(Rest(sent, Len(received))), p)
    BY <1>3 DEF Carries
  <2>2. Len(inbuf) < HeaderLen + MaxPayload + ChecksumLen
    BY <1>0, <2>1, BufferDecodes DEF receiveSome, Types
  <2>3. n <= ReadSize /\ Len(inbuf') = Len(inbuf) + n
    BY <1>2 DEF receiveSome
  <2> QED
    BY <1>0, <2>2, <2>3, MaxPayloadNat, ReadSizePositive
       DEF BufferBounded, HeaderLen, ChecksumLen
<1> QED
  BY <1>4, <1>5, <1>6, <1>7

LEMMA ReceiveEndsStep ==
    ASSUME TransportInvariant, receiveEnds
    PROVE  TransportInvariant'
<1> USE DEF TransportInvariant
<1>1. Types'
  BY EmptySeq DEF receiveEnds, Types, TypeOK, Failures
<1>2. /\ ReceivedInOrder' /\ EndsForAReason' /\ NothingMissing' /\ BufferBounded'
  BY DEF receiveEnds, ReceivedInOrder, EndsForAReason, NothingMissing, BufferBounded
<1> QED
  BY <1>1, <1>2

LEMMA TransportStep ==
    ASSUME TransportInvariant, [Next]_transportVars
    PROVE  TransportInvariant'
<1>1. CASE Next
  BY <1>1, SendFrameStep, SendSomeStep, CloseStep, DamageStep, ReceivesTheNext,
     ReceiveCorruptStep, ReceiveSomeStep, ReceiveEndsStep DEF Next, Sender, Receiver
<1>2. CASE UNCHANGED transportVars
  BY <1>2 DEF transportVars, TransportInvariant, Types, TypeOK, ReceivedInOrder, EndsForAReason,
     NothingMissing, BufferBounded
<1> QED
  BY <1>1, <1>2

LEMMA TransportInvariance == Spec => []TransportInvariant
BY TransportInit, TransportStep, PTL DEF Spec

-----------------------------------------------------------------------------
(* The theorems.                                                           *)

\* The buffer of the receiving end stays within the longest frame and one read, for any
\* sequence of messages, any cut of the stream and any damage (recvFrame, decodeFrame).
THEOREM BufferStaysBounded == Spec => []BufferBounded
<1>1. TransportInvariant => BufferBounded
  BY DEF TransportInvariant
<1> QED
  BY <1>1, TransportInvariance, PTL

LEMMA InvariantGivesStreamIsWhole == TransportInvariant => StreamIsWhole
<1> SUFFICES ASSUME TransportInvariant, ~damaged PROVE
          /\ receiver # "corrupt"
          /\ received = SubSeq(sent, 1, Len(received))
          /\ sender = "up" =>
                (inbuf \o stream) \o unsent = FlattenSeq(Rest(sent, Len(received)))
  BY DEF StreamIsWhole, Rest
<1> USE DEF TransportInvariant
<1>1. receiver # "corrupt" /\ received = SubSeq(sent, 1, Len(received))
  BY DEF EndsForAReason, ReceivedInOrder
<1>2. ASSUME sender = "up"
      PROVE  (inbuf \o stream) \o unsent = FlattenSeq(Rest(sent, Len(received)))
  <2>1. receiver = "receiving"
    BY <1>1, <1>2 DEF EndsForAReason, Types, TypeOK, Failures
  <2>2. Matches((inbuf \o stream) \o unsent, FlattenSeq(Rest(sent, Len(received))), 0)
    BY <1>2, <2>1 DEF NothingMissing, Carries
  <2>3. FlattenSeq(Rest(sent, Len(received))) \in Seq(Symbols)
    <3>1. sent \in Seq(FramedMessage) /\ Len(received) \in 0 .. Len(sent)
      BY SendableSeq, Lengths DEF Types
    <3> QED
      BY <3>1, RestType, FlattenType
  <2>4. (inbuf \o stream) \o unsent \in Seq(Symbols)
    BY ThreeParts DEF Types
  <2> QED
    BY <2>2, <2>3, <2>4, MatchEqual
<1> QED
  BY <1>1, <1>2

\* While nothing is damaged, what was received, buffered, in flight and unsent is what
\* was sent, for any messages and any cut of the stream (sendAll, recvFrame, FrameBuffer).
THEOREM StreamStaysWhole == Spec => []StreamIsWhole
BY TransportInvariance, InvariantGivesStreamIsWhole, PTL

\* One direction of a connection implements a channel of whole messages: every step of
\* the two ends, of the stream and of damage to it is a step of the channel or leaves it
\* alone (tcp.cpp, protocol.cpp).
THEOREM ConnectionIsAChannel == Spec => ImplementsChannel
<1>1. Init => Channel!Init
  BY DEF Init, Channel!Init
<1>2. ASSUME TransportInvariant, [Next]_transportVars
      PROVE  [Channel!Next]_<<sent, received, receiver # "receiving">>
  <2>1. ASSUME NEW m \in Messages, sendFrame(m)
        PROVE  Channel!Next
    BY <2>1 DEF sendFrame, Channel!Next, Channel!Send
  <2>2. CASE receiveMessage
    <3>1. Channel!Receive
      BY <1>2, <2>2, ReceivesTheNext DEF receiveMessage, Channel!Receive
    <3> QED
      BY <3>1 DEF Channel!Next
  <2>3. CASE receiveCorrupt \/ receiveEnds
    <3>1. Channel!End
      BY <2>3 DEF receiveCorrupt, receiveEnds, Channel!End
    <3> QED
      BY <3>1 DEF Channel!Next
  <2>4. CASE \/ Sender \/ close
             \/ \E i \in 1 .. Len(stream), b \in Bytes : damage(i, b)
             \/ \E n \in 1 .. Len(stream) : receiveSome(n)
             \/ UNCHANGED transportVars
    BY <2>4 DEF Sender, sendSome, close, damage, receiveSome, transportVars
  <2> QED
    BY <1>2, <2>1, <2>2, <2>3, <2>4 DEF Next, Receiver
<1> QED
  BY <1>1, <1>2, TransportInvariance, PTL DEF Spec, ImplementsChannel, Channel!Spec

=============================================================================
