--------------------------- MODULE UsbLink_proofs ---------------------------
(***************************************************************************)
(* Theorems about UsbLink, for every payload limit and every number of      *)
(* requests and of interruptions.                                          *)
(***************************************************************************)
EXTENDS UsbLink, SequenceTheorems, FiniteSetTheorems, TLAPS

(* Bytes and checksums *)

Has(s, l) == {i \in 1 .. Len(s) : l \in s[i]}

LEMMA HasCount ==
    ASSUME NEW S, NEW s \in Seq(S), NEW l
    PROVE  IsFiniteSet(Has(s, l)) /\ Cardinality(Has(s, l)) \in Nat
  <1>1. IsFiniteSet(1 .. Len(s))
    BY FS_Interval
  <1>2. Has(s, l) \subseteq 1 .. Len(s)
    BY DEF Has
  <1> QED
    BY <1>1, <1>2, FS_Subset, FS_CardinalityType

\* A label is in the checksum if an odd number of the bytes have it.
LEMMA OddLabels ==
    ASSUME NEW s \in Seq(Byte), NEW l
    PROVE  l \in XorChecksum(s) <=> Cardinality(Has(s, l)) % 2 = 1
  <1>1. ASSUME Cardinality(Has(s, l)) % 2 = 1 PROVE l \in UNION {s[i] : i \in 1 .. Len(s)}
    <2>1. Has(s, l) # {}
      <3>1. 0 % 2 # 1
        OBVIOUS
      <3>2. Cardinality({}) = 0
        BY FS_EmptySet
      <3> QED
        BY <1>1, <3>1, <3>2
    <2> QED
      BY <2>1 DEF Has
  <1> QED
    BY <1>1 DEF XorChecksum, Has

LEMMA ChecksumIsByte ==
    ASSUME NEW s \in Seq(Byte)
    PROVE  /\ XorChecksum(s) \in Byte
           /\ \A l \in XorChecksum(s) : \E i \in 1 .. Len(s) : l \in s[i]
  <1>1. \A l \in XorChecksum(s) : \E i \in 1 .. Len(s) : l \in s[i]
    BY DEF XorChecksum
  <1>2. \A i \in 1 .. Len(s) : s[i] \in Byte
    OBVIOUS
  <1>3. \A i \in 1 .. Len(s) : \A l \in s[i] : l \in Word \X Nat \X Nat
    BY <1>2 DEF Byte
  <1> QED
    BY <1>1, <1>3 DEF Byte

\* A byte that no other shares a label with leaves that label in the checksum.
LEMMA LoneLabel ==
    ASSUME NEW s \in Seq(Byte), NEW k \in 1 .. Len(s), NEW l \in s[k],
           \A i \in 1 .. Len(s) : i # k => l \notin s[i]
    PROVE  l \in XorChecksum(s)
  <1>1. Has(s, l) = {k}
    BY DEF Has
  <1>2. Cardinality({k}) = 1
    BY FS_Singleton
  <1>3. 1 % 2 = 1
    OBVIOUS
  <1> QED
    BY <1>1, <1>2, <1>3, OddLabels

\* With the checksum appended the checksum of it all is zero: _parse_response
\* and process_packet compare with 0 (sd2psx_bridge.py:113, usb_bridge.c:317).
LEMMA SealedIsIntact ==
    ASSUME NEW s \in Seq(Byte)
    PROVE  /\ Sealed(s) \in Seq(Byte) /\ Len(Sealed(s)) = Len(s) + 1
           /\ \A i \in 1 .. Len(s) : Sealed(s)[i] = s[i]
           /\ Sealed(s)[Len(s) + 1] = XorChecksum(s)
           /\ XorChecksum(Sealed(s)) = {}
  <1> DEFINE t == Sealed(s)
             n == Len(s)
  <1>1. /\ t \in Seq(Byte) /\ Len(t) = n + 1 /\ n \in Nat
        /\ \A i \in 1 .. n : t[i] = s[i]
        /\ t[n + 1] = XorChecksum(s)
    BY ChecksumIsByte DEF Sealed
  <1>2. ASSUME NEW l PROVE l \notin XorChecksum(t)
    <2>1. IsFiniteSet(Has(s, l)) /\ Cardinality(Has(s, l)) \in Nat
      BY HasCount
    <2>2. n + 1 \notin Has(s, l)
      BY <1>1 DEF Has
    <2>3. CASE l \in XorChecksum(s)
      <3>1. Has(t, l) = Has(s, l) \union {n + 1}
        BY <1>1, <2>3 DEF Has
      <3>2. Cardinality(Has(t, l)) = Cardinality(Has(s, l)) + 1
        BY <2>1, <2>2, <3>1, FS_AddElement
      <3>3. Cardinality(Has(s, l)) % 2 = 1
        BY <2>3, OddLabels
      <3>4. Cardinality(Has(t, l)) % 2 # 1
        BY <2>1, <3>2, <3>3
      <3> QED
        BY <1>1, <3>4, OddLabels
    <2>4. CASE l \notin XorChecksum(s)
      <3>1. Has(t, l) = Has(s, l)
        BY <1>1, <2>4 DEF Has
      <3> QED
        BY <1>1, <2>4, <3>1, OddLabels
    <2> QED
      BY <2>3, <2>4
  <1> QED
    BY <1>1, <1>2

LEMMA LabelOf ==
    ASSUME NEW l
    PROVE  Label({l}) = l
  BY DEF Label

-----------------------------------------------------------------------------
(* Packets and answers *)

LEMMA Bounds ==
    /\ MaxPayload \in Nat \ {0} /\ MaxPacket = MaxPayload + 3 /\ MaxPacket \in Nat
    /\ HeaderLen = 2
    /\ Cmd \subseteq {"WRITE", "STATUS", "DEV_STATUS", "STDOUT_PULL"}
    /\ Numbers \in Nat \ {0} /\ MaxBreaks \in Nat
    /\ \A c : DataLen(c) \in Nat /\ DataLen(c) <= MaxPayload
  BY LinkAssumption DEF MaxPacket, HeaderLen, DataLen

LEMMA ByteOfLabel ==
    ASSUME NEW c \in Word, NEW n \in Nat, NEW i \in Nat
    PROVE  {<<c, n, i>>} \in Byte
  BY DEF Byte

LEMMA MagicIsByte == Magic \in Byte /\ Magic # {}
  <1>1. "magic" \in Word
    BY DEF Word
  <1> QED
    BY <1>1, ByteOfLabel DEF Magic

\* A packet is a header, its data, and a checksum that shares a label with
\* each of them; no part of it but the first byte is the magic byte.
LEMMA PacketFacts ==
    ASSUME NEW c \in {"WRITE", "STATUS", "DEV_STATUS", "STDOUT_PULL"}, NEW n \in Nat
    PROVE  LET p == Packet(c, n) IN
           /\ p \in Seq(Byte \ {{}}) /\ Len(p) = DataLen(c) + 3
           /\ p[1] = Magic /\ p[2] = {<<c, n, 0>>}
           /\ \A k \in 3 .. DataLen(c) + 2 : p[k] = {<<"data", n, k - 2>>}
           /\ XorChecksum(p) = {}
           /\ \A k \in 2 .. Len(p) : p[k] # Magic
           /\ \A l \in p[Len(p)] : \E k \in 1 .. DataLen(c) + 2 : l \in p[k]
  <1> DEFINE len == DataLen(c)
             header == <<Magic, {<<c, n, 0>>}>>
             data == [i \in 1 .. len |-> {<<"data", n, i>>}]
             body == header \o data
             p == Packet(c, n)
  <1>1. len \in Nat
    BY Bounds
  <1>2. header \in Seq(Byte) /\ Len(header) = 2 /\ header[1] = Magic /\ header[2] = {<<c, n, 0>>}
    <2>1. {<<c, n, 0>>} \in Byte
      <3>1. c \in Word
        BY DEF Word
      <3> QED
        BY <3>1, ByteOfLabel
    <2> QED
      BY <2>1, MagicIsByte
  <1>3. data \in Seq(Byte) /\ Len(data) = len /\ \A i \in 1 .. len : data[i] = {<<"data", n, i>>}
    <2>1. \A i \in 1 .. len : {<<"data", n, i>>} \in Byte
      <3>1. "data" \in Word
        BY DEF Word
      <3> QED
        BY <1>1, <3>1, ByteOfLabel
    <2> HIDE DEF len
    <2> QED
      BY <1>1, <2>1
  <1>4. /\ body \in Seq(Byte) /\ Len(body) = len + 2
        /\ body[1] = Magic /\ body[2] = {<<c, n, 0>>}
        /\ \A k \in 3 .. len + 2 : body[k] = {<<"data", n, k - 2>>}
    <2> HIDE DEF header, data, len
    <2>1. /\ body \in Seq(Byte) /\ Len(body) = len + 2
          /\ \A k \in 1 .. 2 + len : body[k] = IF k <= 2 THEN header[k] ELSE data[k - 2]
      <3>1. header \in Seq(Byte) /\ data \in Seq(Byte)
        BY <1>2, <1>3
      <3>2. /\ body \in Seq(Byte) /\ Len(body) = Len(header) + Len(data)
            /\ \A k \in 1 .. Len(header) + Len(data) :
                 body[k] = IF k <= Len(header) THEN header[k] ELSE data[k - Len(header)]
        BY <3>1, ConcatProperties
      <3> HIDE DEF body
      <3> QED
        BY <1>2, <1>3, <3>2
    <2>2. \A k \in 3 .. len + 2 : k \in 1 .. 2 + len /\ ~(k <= 2) /\ k - 2 \in 1 .. len
      BY <1>1
    <2>3. 1 \in 1 .. 2 + len /\ 2 \in 1 .. 2 + len
      BY <1>1
    <2> HIDE DEF body
    <2> QED
      BY <1>2, <1>3, <2>1, <2>2, <2>3
  <1>5. p = Sealed(body)
    BY DEF Packet
  <1>6. /\ p \in Seq(Byte) /\ Len(p) = len + 3
        /\ \A k \in 1 .. len + 2 : p[k] = body[k]
        /\ p[len + 3] = XorChecksum(body)
        /\ XorChecksum(p) = {}
    <2> HIDE DEF body, p, len
    <2> QED
      BY <1>1, <1>4, <1>5, SealedIsIntact
  <1>7. \A k \in 1 .. len + 2 : p[k] # {}
    <2>1. \A k \in 1 .. len + 2 : k = 1 \/ k = 2 \/ k \in 3 .. len + 2
      BY <1>1
    <2> HIDE DEF body, p, len
    <2> QED
      BY <1>4, <1>6, <2>1, MagicIsByte
  <1>8. <<c, n, 0>> \in p[len + 3]
    <2>1. \A k \in 1 .. Len(body) : k # 2 => <<c, n, 0>> \notin body[k]
      BY <1>1, <1>4 DEF Magic
    <2>2. 2 \in 1 .. Len(body) /\ <<c, n, 0>> \in body[2]
      BY <1>1, <1>4
    <2> HIDE DEF body, p, len
    <2> QED
      BY <1>4, <1>6, <2>1, <2>2, LoneLabel
  <1>9. \A k \in 2 .. len + 3 : p[k] # Magic
    <2>1. \A k \in 2 .. len + 3 : k = 2 \/ k \in 3 .. len + 2 \/ k = len + 3
      BY <1>1
    <2>2. <<c, n, 0>> \notin Magic
      BY DEF Magic
    <2>3. \A i : {<<"data", n, i>>} # Magic
      <3>1. \A i : <<"data", n, i>> \notin Magic
        BY DEF Magic
      <3> QED
        BY <3>1
    <2>4. p[2] # Magic /\ p[len + 3] # Magic
      <3>1. 2 \in 1 .. len + 2
        BY <1>1
      <3> HIDE DEF body, p, len
      <3>2. p[2] = {<<c, n, 0>>}
        BY <1>4, <1>6, <3>1
      <3> QED
        BY <1>8, <2>2, <3>2
    <2>5. \A k \in 3 .. len + 2 : p[k] # Magic
      <3>1. \A k \in 3 .. len + 2 : k \in 1 .. len + 2
        BY <1>1
      <3> HIDE DEF body, p, len
      <3> QED
        BY <1>4, <1>6, <2>3, <3>1
    <2> HIDE DEF p, len
    <2> QED
      BY <2>1, <2>4, <2>5
  <1>10. \A l \in p[len + 3] : \E k \in 1 .. len + 2 : l \in p[k]
    <2> HIDE DEF body, p, len
    <2> QED
      BY <1>1, <1>4, <1>6, ChecksumIsByte
  <1>11. p \in Seq(Byte \ {{}})
    <2>1. \A k \in 1 .. len + 3 : p[k] # {}
      BY <1>1, <1>7, <1>8
    <2> HIDE DEF p, len
    <2> QED
      BY <1>1, <1>6, <2>1
  <1> HIDE DEF p, body
  <1> QED
    BY <1>1, <1>4, <1>6, <1>9, <1>10, <1>11 DEF p

LEMMA FrameFacts ==
    ASSUME NEW a \in [rsp : Word, data : Seq(Byte)]
    PROVE  LET f == Frame(a) IN
           /\ f \in Seq(Byte) /\ Len(f) = Len(a.data) + 2 /\ Len(a.data) \in Nat
           /\ f[1] = {<<a.rsp, 0, 0>>}
           /\ SubSeq(f, 2, Len(f) - 1) = a.data
           /\ XorChecksum(f) = {}
  <1> DEFINE first == <<{<<a.rsp, 0, 0>>}>>
             body == first \o a.data
             f == Frame(a)
  <1>1. first \in Seq(Byte) /\ Len(first) = 1 /\ first[1] = {<<a.rsp, 0, 0>>}
    BY ByteOfLabel
  <1>2. a.data \in Seq(Byte) /\ Len(a.data) \in Nat
    OBVIOUS
  <1>3. /\ body \in Seq(Byte) /\ Len(body) = Len(a.data) + 1
        /\ body[1] = {<<a.rsp, 0, 0>>}
        /\ \A k \in 1 .. Len(a.data) : body[k + 1] = a.data[k]
    <2> DEFINE len == Len(a.data)
    <2> HIDE DEF first
    <2>1. /\ body \in Seq(Byte) /\ Len(body) = 1 + len
          /\ \A k \in 1 .. 1 + len : body[k] = IF k <= 1 THEN first[k] ELSE a.data[k - 1]
      <3>1. first \in Seq(Byte) /\ a.data \in Seq(Byte)
        BY <1>1, <1>2
      <3>2. /\ body \in Seq(Byte) /\ Len(body) = Len(first) + Len(a.data)
            /\ \A k \in 1 .. Len(first) + Len(a.data) :
                 body[k] = IF k <= Len(first) THEN first[k] ELSE a.data[k - Len(first)]
        BY <3>1, ConcatProperties
      <3> HIDE DEF body
      <3> QED
        BY <1>1, <3>2
    <2>2. /\ \A k \in 1 .. len : k + 1 \in 1 .. 1 + len /\ ~(k + 1 <= 1) /\ (k + 1) - 1 = k
          /\ 1 \in 1 .. 1 + len /\ len + 1 = 1 + len
      BY <1>2
    <2> HIDE DEF body, len
    <2> QED
      BY <1>1, <2>1, <2>2 DEF len
  <1>4. f = Sealed(body)
    BY DEF Frame
  <1>5. /\ f \in Seq(Byte) /\ Len(f) = Len(a.data) + 2
        /\ \A k \in 1 .. Len(a.data) + 1 : f[k] = body[k]
        /\ XorChecksum(f) = {}
    <2> HIDE DEF body, f
    <2> QED
      BY <1>2, <1>3, <1>4, SealedIsIntact
  <1>6. SubSeq(f, 2, Len(f) - 1) = a.data
    <2> DEFINE mid == SubSeq(f, 2, Len(f) - 1)
    <2>1. \A k \in 2 .. Len(f) - 1 : f[k] \in Byte
      BY <1>2, <1>5
    <2>2. mid \in Seq(Byte) /\ Len(mid) = Len(a.data)
          /\ \A k \in 1 .. Len(a.data) : mid[k] = f[k + 1]
      <3> HIDE DEF f
      <3> QED
        BY <1>2, <1>5, <2>1, SubSeqProperties
    <2>3. \A k \in 1 .. Len(a.data) : mid[k] = a.data[k]
      <3>1. \A k \in 1 .. Len(a.data) : k + 1 \in 1 .. Len(a.data) + 1
        BY <1>2
      <3> HIDE DEF mid, f, body
      <3> QED
        BY <1>3, <1>5, <2>2, <3>1
    <2> HIDE DEF mid
    <2> QED
      BY <1>2, <2>2, <2>3, SeqEqual DEF mid
  <1> HIDE DEF f, body
  <1> QED
    BY <1>2, <1>3, <1>5, <1>6 DEF f
-----------------------------------------------------------------------------
(* Types *)

LEMMA SubSeqIsSeq ==
    ASSUME NEW S, NEW s \in Seq(S), NEW m \in Nat \ {0}, NEW n \in Int, n <= Len(s)
    PROVE  /\ SubSeq(s, m, n) \in Seq(S)
           /\ Len(SubSeq(s, m, n)) = IF m <= n THEN n - m + 1 ELSE 0
           /\ \A k \in 1 .. n - m + 1 : SubSeq(s, m, n)[k] = s[m + k - 1]
  <1>1. \A k \in m .. n : s[k] \in S
    OBVIOUS
  <1> QED
    BY <1>1, SubSeqProperties

\* Bytes are taken from the front of what is on its way, and none is lost.
LEMMA TakeFacts ==
    ASSUME TypeOK, NEW n \in 1 .. Len(wire), Take(n)
    PROVE  /\ Fill(n) \in Seq(Byte \ {{}}) /\ Len(Fill(n)) = Len(rx) + n
           /\ Len(Fill(n)) <= MaxPacket /\ Len(Fill(n)) \in Nat
           /\ wire' \in Seq(Byte \ {{}}) /\ Len(wire') = Len(wire) - n
           /\ Stream \in Seq(Byte \ {{}}) /\ Len(Stream) = Len(Fill(n)) + Len(wire')
           /\ \A k \in 1 .. Len(Fill(n)) : Fill(n)[k] = Stream[k]
           /\ \A k \in 1 .. Len(wire') : wire'[k] = wire[n + k]
                                         /\ wire'[k] = Stream[Len(Fill(n)) + k]
           /\ Fill(n) \o wire' = Stream
  <1> DEFINE B == Byte \ {{}}
             taken == SubSeq(wire, 1, n)
  <1>1. /\ wire \in Seq(B) /\ rx \in Seq(B)
        /\ Len(wire) \in Nat /\ Len(rx) \in Nat /\ n \in Nat /\ n <= Len(wire)
        /\ wire' = SubSeq(wire, n + 1, Len(wire))
        /\ n <= MaxPacket - Len(rx)
    BY Bounds DEF TypeOK, Take, Room
  <1> HIDE DEF B
  <1>2. taken \in Seq(B) /\ Len(taken) = n /\ \A k \in 1 .. n : taken[k] = wire[k]
    <2>1. Len(taken) = n - 1 + 1
      BY <1>1, SubSeqIsSeq
    <2>2. \A k \in 1 .. n - 1 + 1 : taken[k] = wire[1 + k - 1]
      BY <1>1, SubSeqIsSeq
    <2> QED
      BY <1>1, <2>1, <2>2, SubSeqIsSeq
  <1>3. /\ wire' \in Seq(B) /\ Len(wire') = Len(wire) - n
        /\ \A k \in 1 .. Len(wire') : wire'[k] = wire[n + k]
    <2>1. wire' \in Seq(B) /\ Len(wire') = IF n + 1 <= Len(wire) THEN Len(wire) - (n + 1) + 1 ELSE 0
      BY <1>1, SubSeqIsSeq
    <2>2. \A k \in 1 .. Len(wire) - (n + 1) + 1 : wire'[k] = wire[(n + 1) + k - 1]
      BY <1>1, SubSeqIsSeq
    <2> QED
      BY <1>1, <2>1, <2>2
  <1>4. /\ Fill(n) \in Seq(B) /\ Len(Fill(n)) = Len(rx) + n
        /\ \A k \in 1 .. Len(rx) + n :
             Fill(n)[k] = IF k <= Len(rx) THEN rx[k] ELSE taken[k - Len(rx)]
    BY <1>1, <1>2, ConcatProperties DEF Fill
  <1>5. /\ Stream \in Seq(B) /\ Len(Stream) = Len(rx) + Len(wire)
        /\ \A k \in 1 .. Len(rx) + Len(wire) :
             Stream[k] = IF k <= Len(rx) THEN rx[k] ELSE wire[k - Len(rx)]
    BY <1>1, ConcatProperties DEF Stream
  <1>6. Fill(n) \o wire' = Stream
    <2>1. taken \o wire' = wire
      <3>1. SubSeq(wire, 1, n) \o SubSeq(wire, n + 1, Len(wire)) = SubSeq(wire, 1, Len(wire))
        BY <1>1, ConcatAdjacentSubSeq
      <3>2. SubSeq(wire, 1, Len(wire)) = wire
        BY <1>1, SubSeqFull
      <3> QED
        BY <1>1, <3>1, <3>2
    <2>2. (rx \o taken) \o wire' = rx \o (taken \o wire')
      <3>1. rx \in Seq(B) /\ taken \in Seq(B) /\ wire' \in Seq(B)
        BY <1>1, <1>2, <1>3
      <3> HIDE DEF taken
      <3> QED
        BY <3>1, ConcatAssociative
    <2> QED
      BY <2>1, <2>2 DEF Fill, Stream
  <1>7. \A k \in 1 .. Len(Fill(n)) : Fill(n)[k] = Stream[k]
    <2> SUFFICES ASSUME NEW k \in 1 .. Len(rx) + n PROVE Fill(n)[k] = Stream[k]
      BY <1>4
    <2>1. k \in 1 .. Len(rx) + Len(wire) /\ (~(k <= Len(rx)) => k - Len(rx) \in 1 .. n)
      BY <1>1
    <2> HIDE DEF taken
    <2> QED
      BY <1>2, <1>4, <1>5, <2>1
  <1>8. \A k \in 1 .. Len(wire') : wire'[k] = Stream[Len(Fill(n)) + k]
    <2> SUFFICES ASSUME NEW k \in 1 .. Len(wire') PROVE wire'[k] = Stream[Len(rx) + n + k]
      BY <1>4
    <2>1. /\ Len(rx) + n + k \in 1 .. Len(rx) + Len(wire)
          /\ ~(Len(rx) + n + k <= Len(rx)) /\ (Len(rx) + n + k) - Len(rx) = n + k
      BY <1>1, <1>3
    <2> QED
      BY <1>3, <1>5, <2>1
  <1> QED
    <2>1. /\ Len(Fill(n)) = Len(rx) + n /\ Len(Fill(n)) <= MaxPacket /\ Len(Fill(n)) \in Nat
          /\ Len(Stream) = Len(Fill(n)) + Len(wire')
      <3>1. Len(Fill(n)) = Len(rx) + n /\ Len(wire') = Len(wire) - n
            /\ Len(Stream) = Len(rx) + Len(wire)
        BY <1>3, <1>4, <1>5
      <3> QED
        <4>1. /\ Len(wire) \in Nat /\ Len(rx) \in Nat /\ MaxPacket \in Nat
              /\ n <= Len(wire) /\ n <= MaxPacket - Len(rx)
          BY <1>1, Bounds
        <4> HIDE DEF B, taken
        <4> QED
          BY <3>1, <4>1
    <2>2. /\ Fill(n) \in Seq(Byte \ {{}}) /\ wire' \in Seq(Byte \ {{}})
          /\ Stream \in Seq(Byte \ {{}})
      BY <1>3, <1>4, <1>5 DEF B
    <2> HIDE DEF taken
    <2> QED
      BY <1>3, <1>6, <1>7, <1>8, <2>1, <2>2

\* What is complete begins with a command, and is a packet of that command.
LEMMA CompleteFacts ==
    ASSUME TypeOK, Framed, NEW n \in 1 .. Len(wire), Take(n), HasHeader(Fill(n))
    PROVE  \E c \in Cmd \union {"STATUS"}, m \in 0 .. Numbers - 1 :
              /\ Fill(n)[2] = {<<c, m, 0>>} /\ Label(Fill(n)[2]) = <<c, m, 0>>
              /\ Expected(Fill(n)) = DataLen(c) + 3
  <1>1. Len(Fill(n)) >= 2 /\ Stream[1] = Magic /\ Fill(n)[2] = Stream[2] /\ 1 \in 1 .. Len(Stream)
    BY TakeFacts, Bounds DEF HasHeader
  <1>2. PICK c \in Cmd \union {"STATUS"}, m \in 0 .. Numbers - 1 : Stream[1 + 1] = {<<c, m, 0>>}
    BY <1>1 DEF Framed
  <1>3. Fill(n)[2] = {<<c, m, 0>>}
    BY <1>1, <1>2
  <1>4. Label(Fill(n)[2]) = <<c, m, 0>>
    BY <1>3, LabelOf
  <1>5. Expected(Fill(n)) = DataLen(c) + 3
    BY <1>4, Bounds DEF Expected
  <1> QED
    BY <1>3, <1>4, <1>5

LEMMA AnswersType ==
    ASSUME NEW c \in Cmd \union {"STATUS"}, NEW m \in Nat, NEW a \in Answers(c, m)
    PROVE  a \in [rsp : {"ok", "busy", "nodata"}, data : Seq(Byte)] /\ a \in Answer
  <1>1. ASSUME NEW len \in Nat PROVE AnswerData(m, len) \in Seq(Byte) /\ Len(AnswerData(m, len)) = len
    <2>1. "answer" \in Word
      BY DEF Word
    <2>2. \A i \in 1 .. len : {<<"answer", m, i>>} \in Byte
      BY <2>1, ByteOfLabel
    <2> QED
      BY <2>2 DEF AnswerData
  <1>2. << >> \in Seq(Byte)
    OBVIOUS
  <1>3. c \in {"WRITE", "STATUS", "DEV_STATUS", "STDOUT_PULL"}
    BY Bounds
  <1>4. a \in [rsp : {"ok", "busy", "nodata"}, data : Seq(Byte)]
    <2>1. CASE c = "WRITE"
      BY <1>2, <2>1 DEF Answers
    <2>2. CASE c = "STDOUT_PULL"
      BY <1>1, <1>2, <2>2, Bounds DEF Answers
    <2>3. CASE c \in {"STATUS", "DEV_STATUS"}
      <3>1. MaxAnswer(c) \in Nat
        BY <2>3 DEF MaxAnswer
      <3>2. a \in [rsp : {"ok"}, data : {AnswerData(m, MaxAnswer(c))}]
        BY <2>3 DEF Answers
      <3> QED
        BY <1>1, <3>1, <3>2
    <2> QED
      BY <1>3, <2>1, <2>2, <2>3
  <1> QED
    BY <1>4 DEF Answer, Word

\* Taking bytes, whether they are kept or dropped, leaves it framed,
LEMMA TakeKeepsFramed ==
    ASSUME TypeOK, Framed, NEW n \in 1 .. Len(wire), Take(n), rx' \in {<< >>, Fill(n)}
    PROVE  Framed' /\ rx' \in Seq(Byte \ {{}})
  <1>1. CASE rx' = Fill(n)
    <2>1. Stream' = Stream
      BY <1>1, TakeFacts DEF Stream
    <2> QED
      BY <1>1, <2>1, TakeFacts DEF Framed
  <1>2. CASE rx' = << >>
    <2>1. Stream' = wire'
      BY <1>2, TakeFacts, ConcatEmptySeq DEF Stream
    <2> DEFINE d == Len(Fill(n))
               w == wire'
    <2>2. /\ d \in Nat /\ Len(w) \in Nat /\ Len(Stream) = d + Len(w)
          /\ \A k \in 1 .. Len(w) : w[k] = Stream[d + k]
      BY TakeFacts
    <2> HIDE DEF d, w
    <2>3. ASSUME NEW k \in 1 .. Len(w), w[k] = Magic
          PROVE  /\ k < Len(w)
                 /\ \E c \in Cmd \union {"STATUS"}, m \in 0 .. Numbers - 1 :
                        w[k + 1] = {<<c, m, 0>>}
      <3>1. d + k \in 1 .. Len(Stream) /\ Stream[d + k] = Magic
        BY <2>2, <2>3
      <3>2. /\ d + k < Len(Stream)
            /\ \E c \in Cmd \union {"STATUS"}, m \in 0 .. Numbers - 1 :
                   Stream[(d + k) + 1] = {<<c, m, 0>>}
        BY <3>1 DEF Framed
      <3>3. k < Len(w) /\ k + 1 \in 1 .. Len(w) /\ d + (k + 1) = (d + k) + 1
        BY <2>2, <3>2
      <3> QED
        BY <2>2, <3>2, <3>3
    <2> QED
      BY <1>2, <2>1, <2>3 DEF Framed, w
  <1> QED
    BY <1>1, <1>2

\* and so does sending a packet, or the beginning of one with its header.
LEMMA SendFacts ==
    ASSUME TypeOK, NEW c \in Cmd \union {"STATUS"}, NEW m \in 0 .. Numbers - 1,
           NEW cut \in 2 .. DataLen(c) + 3,
           wire' = wire \o SubSeq(Packet(c, m), 1, cut), rx' = rx
    PROVE  /\ wire' \in Seq(Byte \ {{}})
           /\ Stream \in Seq(Byte \ {{}}) /\ Len(Stream) = Len(rx) + Len(wire)
           /\ SubSeq(Packet(c, m), 1, cut) \in Seq(Byte \ {{}})
           /\ Stream' = Stream \o SubSeq(Packet(c, m), 1, cut)
           /\ Len(Stream') = Len(Stream) + cut
           /\ \A k \in 1 .. Len(Stream) : Stream'[k] = Stream[k]
           /\ \A k \in 1 .. cut : Stream'[Len(Stream) + k] = Packet(c, m)[k]
           /\ Framed => Framed'
  <1> DEFINE B == Byte \ {{}}
             p == Packet(c, m)
             q == SubSeq(p, 1, cut)
             len == Len(Stream)
  <1>1. /\ p \in Seq(B) /\ Len(p) = DataLen(c) + 3 /\ DataLen(c) \in Nat
        /\ p[1] = Magic /\ p[2] = {<<c, m, 0>>} /\ \A k \in 2 .. Len(p) : p[k] # Magic
    <2>1. c \in {"WRITE", "STATUS", "DEV_STATUS", "STDOUT_PULL"} /\ m \in Nat /\ DataLen(c) \in Nat
      BY Bounds
    <2> QED
      BY <2>1, PacketFacts
  <1>2. wire \in Seq(B) /\ rx \in Seq(B) /\ cut \in Nat /\ cut >= 2 /\ cut <= Len(p)
    BY <1>1 DEF TypeOK
  <1> HIDE DEF B, p
  <1>3. q \in Seq(B) /\ Len(q) = cut /\ \A k \in 1 .. cut : q[k] = p[k]
    <2>1. q \in Seq(B) /\ Len(q) = IF 1 <= cut THEN cut - 1 + 1 ELSE 0
      BY <1>1, <1>2, SubSeqIsSeq
    <2>2. \A k \in 1 .. cut - 1 + 1 : q[k] = p[1 + k - 1]
      BY <1>1, <1>2, SubSeqIsSeq
    <2> QED
      BY <1>2, <2>1, <2>2
  <1> HIDE DEF q
  <1>4. wire' = wire \o q /\ wire' \in Seq(B)
    BY <1>2, <1>3, ConcatProperties DEF q, p
  <1>5. Stream \in Seq(B) /\ len = Len(rx) + Len(wire) /\ len \in Nat
    BY <1>2, ConcatProperties DEF Stream
  <1>6. Stream' = Stream \o q
    <2>1. (rx \o wire) \o q = rx \o (wire \o q)
      BY <1>2, <1>3, ConcatAssociative
    <2> QED
      BY <1>4, <2>1 DEF Stream
  <1>7. /\ Len(Stream') = len + cut
        /\ \A k \in 1 .. len + cut : Stream'[k] = IF k <= len THEN Stream[k] ELSE q[k - len]
    <2> DEFINE st == Stream
    <2>1. st \in Seq(B) /\ q \in Seq(B)
      BY <1>3, <1>5
    <2> HIDE DEF st
    <2>2. /\ Len(st \o q) = Len(st) + Len(q)
          /\ \A k \in 1 .. Len(st) + Len(q) :
               (st \o q)[k] = IF k <= Len(st) THEN st[k] ELSE q[k - Len(st)]
      BY <2>1, ConcatProperties
    <2> QED
      BY <1>3, <1>6, <2>2 DEF st
  <1>8. /\ \A k \in 1 .. len : Stream'[k] = Stream[k]
        /\ \A k \in 1 .. cut : Stream'[len + k] = p[k]
    <2>1. /\ \A k \in 1 .. len : k \in 1 .. len + cut /\ k <= len
          /\ \A k \in 1 .. cut : len + k \in 1 .. len + cut /\ ~(len + k <= len) /\ len + k - len = k
      BY <1>2, <1>5
    <2> HIDE DEF len
    <2>2. \A k \in 1 .. len : Stream'[k] = Stream[k]
      BY <1>7, <2>1
    <2>3. \A k \in 1 .. cut : Stream'[len + k] = p[k]
      <3> SUFFICES ASSUME NEW k \in 1 .. cut PROVE Stream'[len + k] = p[k]
        OBVIOUS
      <3> DEFINE j == len + k
      <3>0. j \in 1 .. len + cut /\ ~(j <= len) /\ j - len = k
        BY <1>2, <1>5, <2>1
      <3> HIDE DEF j
      <3>1. Stream'[j] = q[j - len]
        BY <1>7, <3>0
      <3> QED
        BY <1>3, <3>0, <3>1 DEF j
    <2> QED
      BY <2>2, <2>3
  <1>9. ASSUME Framed PROVE Framed'
    <2> SUFFICES ASSUME NEW k \in 1 .. len + cut, Stream'[k] = Magic
                 PROVE  /\ k < len + cut
                        /\ \E d \in Cmd \union {"STATUS"}, i \in 0 .. Numbers - 1 :
                               Stream'[k + 1] = {<<d, i, 0>>}
      BY <1>7 DEF Framed
    <2>1. CASE k <= len
      <3>1. k \in 1 .. len /\ Stream[k] = Magic
        BY <1>5, <1>8, <2>1
      <3>2. /\ k < len
            /\ \E d \in Cmd \union {"STATUS"}, i \in 0 .. Numbers - 1 : Stream[k + 1] = {<<d, i, 0>>}
        BY <1>9, <3>1 DEF Framed
      <3>3. k + 1 \in 1 .. len /\ k < len + cut
        BY <1>2, <1>5, <3>1, <3>2
      <3> HIDE DEF len
      <3> QED
        BY <1>8, <3>2, <3>3
    <2>2. CASE ~(k <= len)
      <3> DEFINE j == k - len
      <3>1. j \in 1 .. cut /\ k = len + j
        BY <1>2, <1>5, <2>2
      <3> HIDE DEF len, j
      <3>2. p[j] = Magic
        BY <1>8, <3>1
      <3>3. j = 1
        BY <1>1, <1>2, <3>1, <3>2
      <3>4. Stream'[len + 2] = {<<c, m, 0>>}
        BY <1>1, <1>2, <1>8
      <3>5. k < len + cut /\ k + 1 = len + 2
        BY <1>2, <1>5, <3>1, <3>3 DEF len
      <3> QED
        BY <3>4, <3>5
    <2> QED
      BY <2>1, <2>2
  <1> QED
    BY <1>3, <1>4, <1>5, <1>6, <1>7, <1>8, <1>9 DEF B, p, q

LEMMA ResultType ==
    ASSUME NEW raw \in Seq(Byte), NEW want \in Nat
    PROVE  \A r \in {FixedResult(raw, want), VariableResult(raw)} :
              /\ r.said \in {"ok", "empty", "error", "timeout"}
              /\ r.data \in Seq(Byte) /\ r.used \in Nat
  <1>1. Len(raw) \in Nat /\ << >> \in Seq(Byte) /\ 0 \in Nat /\ 1 \in Nat
    OBVIOUS
  <1> DEFINE mid == SubSeq(raw, 2, Len(raw) - 1)
  <1>2. mid \in Seq(Byte)
    BY <1>1, SubSeqIsSeq
  <1> HIDE DEF mid
  <1> DEFINE Good(r) == /\ r.said \in {"ok", "empty", "error", "timeout"}
                        /\ r.data \in Seq(Byte) /\ r.used \in Nat
  <1>3. ASSUME NEW said \in {"ok", "empty", "error", "timeout"},
               NEW data \in Seq(Byte), NEW used \in Nat
        PROVE  Good(Result(said, data, used))
    BY <1>3 DEF Result
  <1> HIDE DEF Good
  <1>4. Good(FixedResult(raw, want))
    BY <1>1, <1>2, <1>3 DEF FixedResult, mid
  <1>5. Good(VariableResult(raw))
    BY <1>1, <1>2, <1>3 DEF VariableResult, mid
  <1> QED
    BY <1>4, <1>5 DEF Good

LEMMA LinkTypeInit == Init => TypeOK /\ Framed
  <1> SUFFICES ASSUME Init PROVE TypeOK /\ Framed
    OBVIOUS
  <1>1. Stream = << >>
    BY DEF Init, Stream
  <1>2. << >> \in Seq(Byte) /\ << >> \in Seq(Byte \ {{}}) /\ Len(<< >>) = 0
    OBVIOUS
  <1>3. None \in Answer
    BY <1>2 DEF None, Answer
  <1> QED
    BY <1>1, <1>2, <1>3, Bounds DEF Init, TypeOK, Framed

LEMMA NextIdType == TypeOK => NextId \in 0 .. Numbers - 1
  BY Bounds DEF TypeOK, NextId

\* One call of accumulate_and_dispatch.
LEMMA FwType ==
    ASSUME TypeOK, Framed, NEW n \in 1 .. Len(wire),
           FwCollect(n) \/ FwResync(n) \/ FwDispatch(n) \/ FwReject(n)
    PROVE  TypeOK' /\ Framed'
  <1>1. Take(n) /\ rx' \in {<< >>, Fill(n)} /\ UNCHANGED <<host, breaks>>
    BY DEF FwCollect, FwResync, FwDispatch, FwReject, Take
  <1>2. Framed' /\ rx' \in Seq(Byte \ {{}}) /\ wire' \in Seq(Byte \ {{}})
    BY <1>1, TakeKeepsFramed, TakeFacts
  <1>3. Len(rx') < MaxPacket
    <2>1. CASE rx' = << >>
      BY <2>1, Bounds
    <2>2. CASE FwCollect(n)
      <3>1. rx' = Fill(n) /\ Len(Fill(n)) \in Nat /\ Len(Fill(n)) <= MaxPacket
        BY <1>1, <2>2, TakeFacts DEF FwCollect
      <3>2. CASE Len(Fill(n)) < HeaderLen
        BY <3>1, <3>2, Bounds
      <3>3. CASE HasHeader(Fill(n)) /\ ~Complete(Fill(n))
        <4>1. PICK c \in Cmd \union {"STATUS"} : Expected(Fill(n)) = DataLen(c) + 3
          BY <1>1, <3>3, CompleteFacts
        <4>2. Len(Fill(n)) < Expected(Fill(n))
          BY <3>1, <3>3, <4>1, Bounds DEF Complete
        <4> QED
          BY <3>1, <4>1, <4>2, Bounds
      <3> QED
        BY <2>2, <3>2, <3>3 DEF FwCollect
    <2> QED
      BY <2>1, <2>2 DEF FwCollect, FwResync, FwDispatch, FwReject
  <1>4. back' \in Seq(Byte) /\ answer' \in [0 .. Numbers - 1 -> Answer]
    <2>1. back \in Seq(Byte) /\ answer \in [0 .. Numbers - 1 -> Answer]
      BY DEF TypeOK
    <2>2. CASE FwCollect(n) \/ FwResync(n)
      BY <2>1, <2>2 DEF FwCollect, FwResync
    <2>3. CASE FwDispatch(n)
      <3>1. PICK c \in Cmd \union {"STATUS"}, m \in 0 .. Numbers - 1 :
                Label(Fill(n)[2]) = <<c, m, 0>>
        BY <1>1, <2>3, CompleteFacts DEF FwDispatch, Complete
      <3>2. PICK a \in Answers(c, m) : back' = back \o Frame(a) /\ answer' = [answer EXCEPT ![m] = a]
        <4>1. Label(Fill(n)[2])[1] = c /\ Label(Fill(n)[2])[2] = m
          BY <3>1
        <4> QED
          BY <2>3, <4>1 DEF FwDispatch
      <3>3. a \in Answer /\ a \in [rsp : Word, data : Seq(Byte)]
        <4>1. m \in Nat
          BY Bounds
        <4> QED
          BY <3>2, <4>1, AnswersType DEF Word
      <3>4. Frame(a) \in Seq(Byte)
        BY <3>3, FrameFacts
      <3> QED
        BY <2>1, <3>2, <3>3, <3>4, ConcatProperties
    <2>4. CASE FwReject(n)
      <3>1. Garbled \in [rsp : Word, data : Seq(Byte)]
        BY DEF Garbled, Word
      <3>2. Frame(Garbled) \in Seq(Byte)
        BY <3>1, FrameFacts
      <3> QED
        BY <2>1, <2>4, <3>2, ConcatProperties DEF FwReject
    <2> QED
      BY <2>2, <2>3, <2>4
  <1> QED
    BY <1>1, <1>2, <1>3, <1>4 DEF TypeOK

\* The PC sends a request, or a part of one.
LEMMA SendType ==
    ASSUME TypeOK, Framed, NEW c \in Cmd \union {"STATUS"}, Send(c) \/ BreakSending(c)
    PROVE  TypeOK' /\ Framed'
  <1>1. NextId \in 0 .. Numbers - 1 /\ DataLen(c) \in Nat
    BY NextIdType, Bounds
  <1>2. /\ Packet(c, NextId) \in Seq(Byte \ {{}})
        /\ Len(Packet(c, NextId)) = DataLen(c) + 3
    <2>1. c \in {"WRITE", "STATUS", "DEV_STATUS", "STDOUT_PULL"} /\ NextId \in Nat
      BY <1>1, Bounds
    <2> QED
      BY <2>1, PacketFacts
  <1>3. PICK cut \in 2 .. DataLen(c) + 3 : wire' = wire \o SubSeq(Packet(c, NextId), 1, cut)
    <2>1. CASE Send(c)
      <3>1. SubSeq(Packet(c, NextId), 1, DataLen(c) + 3) = Packet(c, NextId)
        BY <1>2, SubSeqFull
      <3> QED
        <4>1. DataLen(c) + 3 \in 2 .. DataLen(c) + 3
          BY <1>1
        <4>2. wire' = wire \o Packet(c, NextId)
          BY <2>1 DEF Send
        <4> QED
          BY <3>1, <4>1, <4>2
    <2>2. CASE BreakSending(c)
      <3>1. PICK cut \in HeaderLen .. HeaderLen + DataLen(c) :
                wire' = wire \o SubSeq(Packet(c, NextId), 1, cut)
        BY <2>2 DEF BreakSending
      <3>2. cut \in 2 .. DataLen(c) + 3
        BY <1>1, <3>1 DEF HeaderLen
      <3> QED
        BY <3>1, <3>2
    <2> QED
      BY <2>1, <2>2
  <1>4. rx' = rx /\ back' = back /\ answer' = [answer EXCEPT ![NextId] = None]
    BY DEF Send, BreakSending
  <1>5. wire' \in Seq(Byte \ {{}}) /\ Framed'
    BY <1>1, <1>3, <1>4, SendFacts
  <1>6. answer' \in [0 .. Numbers - 1 -> Answer]
    <2>1. None \in Answer
      BY DEF None, Answer
    <2> QED
      BY <1>4, <2>1 DEF TypeOK
  <1>7. host' \in [pc : {"closed", "open", "verify", "wait", "idle", "ending"},
                   cmd : Cmd \union {"STATUS"}, id : 0 .. Numbers - 1,
                   said : {"none", "ok", "empty", "error", "timeout"}, data : Seq(Byte)]
    <2>1. << >> \in Seq(Byte)
      OBVIOUS
    <2>2. CASE Send(c)
      BY <1>1, <2>1, <2>2 DEF Send, TypeOK
    <2>3. CASE BreakSending(c)
      BY <1>1, <2>3 DEF BreakSending, TypeOK
    <2> QED
      BY <2>2, <2>3
  <1>8. breaks' \in 0 .. MaxBreaks
    <2>1. breaks \in 0 .. MaxBreaks /\ MaxBreaks \in Nat
      BY Bounds DEF TypeOK
    <2>2. breaks' = breaks \/ (breaks < MaxBreaks /\ breaks' = breaks + 1)
      BY DEF Send, BreakSending
    <2> QED
      BY <2>1, <2>2
  <1> QED
    BY <1>4, <1>5, <1>6, <1>7, <1>8 DEF TypeOK

\* Every other step of the PC leaves the way to the firmware alone.
LEMMA HostType ==
    ASSUME TypeOK, Framed, Connect \/ Receive \/ Close \/ Break \/ Ended
    PROVE  TypeOK' /\ Framed'
  <1>1. UNCHANGED <<wire, rx, answer>>
    BY DEF Connect, Receive, Close, Break, Ended
  <1>2. Framed'
    BY <1>1 DEF Framed, Stream
  <1>3. CASE Connect
    <2>1. << >> \in Seq(Byte)
      OBVIOUS
    <2> QED
      BY <1>1, <1>2, <1>3, <2>1 DEF Connect, TypeOK
  <1>4. CASE Close \/ Ended
    BY <1>1, <1>2, <1>4 DEF Close, Ended, TypeOK
  <1>5. CASE Break
    <2>1. breaks' \in 0 .. MaxBreaks
      BY <1>5, Bounds DEF Break, TypeOK
    <2> QED
      BY <1>1, <1>2, <1>5, <2>1 DEF Break, TypeOK
  <1>6. CASE Receive
    <2> DEFINE raw == SubSeq(back, 1, Lesser(Len(back), WholeAnswer))
               res == IF host.cmd \in Variable THEN VariableResult(raw)
                      ELSE FixedResult(raw, WholeAnswer)
    <2>1. back \in Seq(Byte) /\ Len(back) \in Nat /\ WholeAnswer \in Nat
      BY Bounds DEF TypeOK, WholeAnswer, MaxAnswer
    <2>2. raw \in Seq(Byte)
      <3>1. Lesser(Len(back), WholeAnswer) \in Int /\ Lesser(Len(back), WholeAnswer) <= Len(back)
        BY <2>1 DEF Lesser
      <3> QED
        BY <2>1, <3>1, SubSeqIsSeq
    <2> HIDE DEF raw
    <2>3. res.said \in {"ok", "empty", "error", "timeout"} /\ res.data \in Seq(Byte) /\ res.used \in Nat
      BY <2>1, <2>2, ResultType
    <2>4. /\ back' = SubSeq(back, res.used + 1, Len(back))
          /\ \E p \in {"idle", "closed"} :
                host' = [host EXCEPT !.said = res.said, !.data = res.data, !.pc = p]
          /\ breaks' = breaks
      BY <1>6 DEF Receive, raw
    <2> HIDE DEF res
    <2>5. back' \in Seq(Byte)
      BY <2>1, <2>3, <2>4, SubSeqIsSeq
    <2> QED
      BY <1>1, <1>2, <2>3, <2>4, <2>5 DEF TypeOK
  <1> QED
    BY <1>3, <1>4, <1>5, <1>6

LEMMA LinkTypeStep == TypeOK /\ Framed /\ [Next]_vars => TypeOK' /\ Framed'
  <1> SUFFICES ASSUME TypeOK, Framed, [Next]_vars PROVE TypeOK' /\ Framed'
    OBVIOUS
  <1>1. CASE FwStep
    BY <1>1, FwType DEF FwStep
  <1>2. CASE Connect \/ Receive \/ Close \/ Break \/ Ended
    BY <1>2, HostType
  <1>3. ASSUME NEW c \in Cmd \union {"STATUS"}, Send(c) \/ BreakSending(c)
        PROVE  TypeOK' /\ Framed'
    BY <1>3, SendType
  <1>4. CASE UNCHANGED vars
    BY <1>4 DEF vars, TypeOK, Framed, Stream
  <1> QED
    BY <1>1, <1>2, <1>3, <1>4 DEF Next

\* Every state of the link has its type, for every payload limit and whether
\* or not the PC waits long enough: in particular rx_buf is never full when
\* accumulate_and_dispatch returns (usb_bridge.c:474-504), so that there
\* is always room for the byte that completes a packet.
THEOREM LinkTypeCorrect == Spec => []TypeOK
  BY LinkTypeInit, LinkTypeStep, PTL DEF Spec
-----------------------------------------------------------------------------
(* The firmware, on the packet of the request, on a WRITE that is stuck, and *)
(* on the remains of a STATUS                                               *)

LEMMA HostTypes ==
    ASSUME TypeOK
    PROVE  /\ host.cmd \in Cmd \union {"STATUS"}
           /\ host.cmd \in {"WRITE", "STATUS", "DEV_STATUS", "STDOUT_PULL"}
           /\ host.id \in 0 .. Numbers - 1 /\ host.id \in Nat
           /\ DataLen(host.cmd) \in Nat
  <1>1. host.cmd \in Cmd \union {"STATUS"} /\ host.id \in 0 .. Numbers - 1
    BY DEF TypeOK
  <1>2. host.cmd \in {"WRITE", "STATUS", "DEV_STATUS", "STDOUT_PULL"}
    <2>1. Cmd \subseteq {"WRITE", "STATUS", "DEV_STATUS", "STDOUT_PULL"}
      BY Bounds
    <2> QED
      BY <1>1, <2>1
  <1>3. host.id \in Nat
    <2>1. Numbers \in Nat
      BY Bounds
    <2> QED
      BY <1>1, <2>1
  <1>4. DataLen(host.cmd) \in Nat
    BY Bounds
  <1> QED
    BY <1>1, <1>2, <1>3, <1>4

FwCall(n) == FwCollect(n) \/ FwResync(n) \/ FwDispatch(n) \/ FwReject(n)

\* A whole packet is collected, in any pieces, and then dispatched.
LEMMA WholeStep ==
    ASSUME TypeOK, Framed, Whole, NEW n \in 1 .. Len(wire), FwCall(n)
    PROVE  /\ host' = host /\ breaks' = breaks
           /\ \/ Whole' /\ back' = back /\ answer' = answer
              \/ /\ Empty'
                 /\ \E a \in Answers(host.cmd, host.id) :
                        /\ back' = back \o Frame(a)
                        /\ answer' = [answer EXCEPT ![host.id] = a]
  <1> DEFINE c == host.cmd
             m == host.id
             p == Packet(c, m)
             f == Fill(n)
  <1>1. Take(n) /\ host' = host /\ breaks' = breaks
    BY DEF FwCall, FwCollect, FwResync, FwDispatch, FwReject, Take
  <1>2. /\ p \in Seq(Byte \ {{}}) /\ Len(p) = DataLen(c) + 3 /\ DataLen(c) \in Nat
        /\ p[1] = Magic /\ p[2] = {<<c, m, 0>>} /\ XorChecksum(p) = {}
    <2> HIDE DEF f
    <2>1. c \in {"WRITE", "STATUS", "DEV_STATUS", "STDOUT_PULL"} /\ m \in Nat /\ DataLen(c) \in Nat
      BY HostTypes
    <2> HIDE DEF c, m
    <2> QED
      BY <2>1, PacketFacts
  <1>3. /\ f \in Seq(Byte \ {{}}) /\ Len(f) \in Nat /\ Len(f) + Len(wire') = Len(p) /\ Len(wire') \in Nat
        /\ \A k \in 1 .. Len(f) : f[k] = p[k]
        /\ f \o wire' = p /\ wire' \in Seq(Byte \ {{}})
    BY <1>1, TakeFacts DEF Whole
  <1> HIDE DEF p, f
  <1>4. ASSUME Len(f) >= HeaderLen
        PROVE  /\ HasHeader(f) /\ Label(f[2]) = <<c, m, 0>> /\ Expected(f) = Len(p)
    <2>1. f[1] = Magic /\ f[2] = {<<c, m, 0>>}
      BY <1>2, <1>3, <1>4, Bounds
    <2>2. Label(f[2]) = <<c, m, 0>>
      BY <2>1, LabelOf
    <2> QED
      BY <1>2, <1>4, <2>1, <2>2, Bounds DEF HasHeader, Expected
  <1>5. ASSUME Complete(f) PROVE f = p /\ wire' = << >> /\ Intact(f)
    <2>1. Len(f) >= HeaderLen /\ Len(f) >= Expected(f)
      BY <1>5 DEF Complete, HasHeader
    <2>2. Len(f) = Len(p) /\ Len(wire') = 0
      BY <1>3, <1>4, <2>1
    <2>3. wire' = << >>
      BY <1>3, <2>2, EmptySeq
    <2>4. f = p
      BY <1>3, <2>3, ConcatEmptySeq
    <2>5. SubSeq(p, 1, Len(p)) = p
      BY <1>2, SubSeqFull
    <2> QED
      BY <1>2, <1>4, <2>1, <2>3, <2>4, <2>5 DEF Intact
  <1>6. CASE FwCollect(n)
    <2>1. rx' = f /\ (Len(f) < HeaderLen \/ ~Complete(f)) /\ UNCHANGED <<back, answer>>
      BY <1>6 DEF FwCollect, f
    <2>2. wire' # << >>
      <3> SUFFICES ASSUME wire' = << >> PROVE FALSE
        OBVIOUS
      <3>1. Len(f) = Len(p)
        BY <1>3, EmptySeq
      <3>2. Len(f) >= HeaderLen
        BY <1>2, <3>1, Bounds
      <3> QED
        BY <1>3, <1>4, <2>1, <3>1, <3>2, Bounds DEF Complete
    <2>3. Stream' = p
      BY <1>3, <2>1 DEF Stream
    <2> QED
      BY <1>1, <2>1, <2>2, <2>3 DEF Whole, p
  <1>7. CASE FwResync(n)
    BY <1>4, <1>7 DEF FwResync, f
  <1>8. CASE FwReject(n)
    BY <1>5, <1>8 DEF FwReject, f
  <1>9. CASE FwDispatch(n)
    <2>1. Complete(f) /\ rx' = << >>
      BY <1>9 DEF FwDispatch, f
    <2>2. wire' = << >> /\ Label(f[2]) = <<c, m, 0>>
      BY <1>4, <1>5, <2>1 DEF Complete, HasHeader
    <2>3. Label(f[2])[1] = c /\ Label(f[2])[2] = m
      BY <2>2
    <2>4. \E a \in Answers(c, m) : back' = back \o Frame(a) /\ answer' = [answer EXCEPT ![m] = a]
      BY <1>9, <2>3 DEF FwDispatch, f
    <2> QED
      BY <1>1, <2>1, <2>2, <2>4 DEF Empty
  <1> QED
    BY <1>6, <1>7, <1>8, <1>9 DEF FwCall

\* The STATUS packet, and what is left of it when some bytes are taken.
LEMMA StatusPacket ==
    ASSUME NEW m \in Nat
    PROVE  LET p == Packet("STATUS", m) IN
           /\ p \in Seq(Byte \ {{}}) /\ Len(p) = 3
           /\ p[1] = Magic /\ p[2] # Magic /\ p[3] # Magic
           /\ \A k \in 1 .. 3 : \A l \in p[k] : l[1] # "WRITE"
  <1>1. DataLen("STATUS") = 0
    BY DEF DataLen
  <1> DEFINE p == Packet("STATUS", m)
  <1>2. /\ p \in Seq(Byte \ {{}}) /\ Len(p) = DataLen("STATUS") + 3
        /\ p[1] = Magic /\ p[2] = {<<"STATUS", m, 0>>}
        /\ \A k \in 2 .. Len(p) : p[k] # Magic
        /\ \A l \in p[Len(p)] : \E k \in 1 .. DataLen("STATUS") + 2 : l \in p[k]
    BY <1>1, PacketFacts
  <1> HIDE DEF p
  <1>3. Len(p) = 3
    BY <1>1, <1>2
  <1>4. \A l \in p[3] : l \in p[1] \/ l \in p[2]
    BY <1>1, <1>2, <1>3
  <1>5. \A l \in p[1] : l[1] # "WRITE"
    BY <1>2 DEF Magic
  <1>6. \A l \in p[2] : l[1] # "WRITE"
    BY <1>2
  <1>7. \A k \in 1 .. 3 : k = 1 \/ k = 2 \/ k = 3
    OBVIOUS
  <1> QED
    BY <1>2, <1>3, <1>4, <1>5, <1>6, <1>7 DEF p

LEMMA StatusFacts ==
    ASSUME TypeOK
    PROVE  /\ Status \in Seq(Byte \ {{}}) /\ Len(Status) = 3
           /\ Status[1] = Magic /\ Status[2] # Magic /\ Status[3] # Magic
           /\ \A k \in 1 .. 3 : \A l \in Status[k] : l[1] # "WRITE"
  BY HostTypes, StatusPacket DEF Status

LEMMA StatusLeft ==
    ASSUME TypeOK, NEW n \in 1 .. Len(wire), Take(n),
           NEW j \in 1 .. 4, wire = SubSeq(Status, j, 3)
    PROVE  /\ j + n \in 2 .. 4 /\ wire' = SubSeq(Status, j + n, 3)
           /\ wire[1] = Status[j] /\ j < 4
  <1> DEFINE st == Status
  <1>1. st \in Seq(Byte \ {{}}) /\ Len(st) = 3
    BY StatusFacts
  <1> HIDE DEF st
  <1>2. /\ Len(wire) = IF j <= 3 THEN 3 - j + 1 ELSE 0
        /\ \A k \in 1 .. 3 - j + 1 : wire[k] = st[j + k - 1]
    BY <1>1, SubSeqIsSeq DEF st
  <1>3. Len(wire) = 4 - j /\ n \in Nat /\ n >= 1 /\ n <= 4 - j /\ j \in Nat
    BY <1>2
  <1>4. j + n \in 2 .. 4 /\ j < 4
    BY <1>3
  <1>5. wire[1] = st[j]
    BY <1>2, <1>3
  <1> DEFINE w == SubSeq(st, j + n, 3)
  <1>6. /\ w \in Seq(Byte \ {{}})
        /\ Len(w) = IF j + n <= 3 THEN 3 - (j + n) + 1 ELSE 0
        /\ \A k \in 1 .. 3 - (j + n) + 1 : w[k] = st[(j + n) + k - 1]
    <2> DEFINE m == j + n
    <2>1. m \in Nat \ {0} /\ 3 \in Int /\ 3 <= Len(st)
      BY <1>1, <1>4
    <2> HIDE DEF m
    <2>2. /\ SubSeq(st, m, 3) \in Seq(Byte \ {{}})
          /\ Len(SubSeq(st, m, 3)) = IF m <= 3 THEN 3 - m + 1 ELSE 0
          /\ \A k \in 1 .. 3 - m + 1 : SubSeq(st, m, 3)[k] = st[m + k - 1]
      <3> DEFINE B == Byte \ {{}}
      <3>1. st \in Seq(B)
        BY <1>1
      <3> HIDE DEF B
      <3>2. SubSeq(st, m, 3) \in Seq(B)
        BY <2>1, <3>1, SubSeqIsSeq
      <3>3. Len(SubSeq(st, m, 3)) = IF m <= 3 THEN 3 - m + 1 ELSE 0
        BY <2>1, <3>1, SubSeqIsSeq
      <3>4. \A k \in 1 .. 3 - m + 1 : SubSeq(st, m, 3)[k] = st[m + k - 1]
        BY <2>1, <3>1, SubSeqIsSeq
      <3> QED
        BY <3>2, <3>3, <3>4 DEF B
    <2> QED
      BY <2>2 DEF m
  <1> HIDE DEF w
  <1>7. /\ wire' \in Seq(Byte \ {{}}) /\ Len(wire') = Len(wire) - n
        /\ \A k \in 1 .. Len(wire') : wire'[k] = wire[n + k]
    BY TakeFacts
  <1>8. Len(w) = Len(wire')
    BY <1>3, <1>4, <1>6, <1>7
  <1>9. \A k \in 1 .. Len(wire') : wire'[k] = w[k]
    <2> SUFFICES ASSUME NEW k \in 1 .. Len(wire') PROVE wire'[k] = w[k]
      OBVIOUS
    <2>1. /\ k \in 1 .. 3 - (j + n) + 1 /\ n + k \in 1 .. 3 - j + 1
          /\ j + (n + k) - 1 = (j + n) + k - 1
      BY <1>3, <1>7
    <2>2. wire[n + k] = st[j + (n + k) - 1]
      BY <1>2, <2>1
    <2> QED
      BY <1>6, <1>7, <2>1, <2>2
  <1>10. wire' = w
    BY <1>6, <1>7, <1>8, <1>9, SeqEqual
  <1> QED
    BY <1>4, <1>5, <1>10 DEF w, st

\* A stuck WRITE collects whatever comes until it has the length it announced;
\* its checksum cannot come out as zero, and it is refused.
LEMMA StuckStep ==
    ASSUME TypeOK, Framed, Stuck, NEW n \in 1 .. Len(wire), FwCall(n)
    PROVE  /\ host' = host /\ breaks' = breaks /\ answer' = answer
           /\ \/ Stuck' /\ back' = back
              \/ Junk' /\ back' = back \o Frame(Garbled)
  <1> DEFINE f == Fill(n)
  <1>1. Take(n) /\ host' = host /\ breaks' = breaks
    BY DEF FwCall, FwCollect, FwResync, FwDispatch, FwReject, Take
  <1>2. /\ f \in Seq(Byte \ {{}}) /\ Len(f) \in Nat /\ Len(f) <= MaxPacket
        /\ Stream \in Seq(Byte \ {{}}) /\ Len(Stream) = Len(f) + Len(wire') /\ Len(wire') \in Nat
        /\ \A k \in 1 .. Len(f) : f[k] = Stream[k]
        /\ f \o wire' = Stream
    <2>1. /\ f \in Seq(Byte \ {{}}) /\ Len(f) \in Nat /\ Len(f) <= MaxPacket
          /\ f \o wire' = Stream /\ wire' \in Seq(Byte \ {{}})
      BY <1>1, TakeFacts
    <2>2. /\ Stream \in Seq(Byte \ {{}}) /\ Len(Stream) = Len(f) + Len(wire')
          /\ \A k \in 1 .. Len(f) : f[k] = Stream[k]
      BY <1>1, TakeFacts
    <2>3. Len(wire') \in Nat
      BY <2>1
    <2> QED
      BY <2>1, <2>2, <2>3
  <1>3. Status' = Status
    BY <1>1 DEF Status
  <1>4. Len(Stream) < MaxPacket \/ \E j \in 2 .. 4 : wire' = SubSeq(Status, j, 3)
    <2>1. CASE Len(Stream) < MaxPacket
      BY <2>1
    <2>2. ASSUME NEW j \in 1 .. 4, wire = SubSeq(Status, j, 3)
          PROVE  \E i \in 2 .. 4 : wire' = SubSeq(Status, i, 3)
      BY <1>1, <2>2, StatusLeft
    <2> QED
      BY <2>1, <2>2 DEF Stuck
  <1>5. PICK l \in Stream[2] : Stream[2] = {l} /\ l[1] = "WRITE"
    BY DEF Stuck
  <1> HIDE DEF f
  <1>6. ASSUME Len(f) >= HeaderLen
        PROVE  HasHeader(f) /\ f[2] = {l} /\ Expected(f) = MaxPacket
    <2>1. f[1] = Magic /\ f[2] = {l}
      BY <1>2, <1>5, <1>6, Bounds DEF Stuck
    <2>2. Label(f[2]) = l
      BY <2>1, LabelOf
    <2>3. DataLen(l[1]) = MaxPayload
      BY <1>5 DEF DataLen
    <2> QED
      BY <1>6, <2>1, <2>2, <2>3, Bounds DEF HasHeader, Expected
  <1>7. ASSUME Complete(f) PROVE Len(f) = MaxPacket /\ ~Intact(f)
    <2>1. Len(f) >= HeaderLen /\ Len(f) >= Expected(f)
      BY <1>7 DEF Complete, HasHeader
    <2>2. Len(f) = MaxPacket /\ SubSeq(f, 1, Expected(f)) = f
      BY <1>2, <1>6, <2>1, SubSeqFull, Bounds
    <2>3. f[2] = {l} /\ 2 \in 1 .. Len(f) /\ f \in Seq(Byte)
      BY <1>2, <1>6, <2>1, Bounds
    <2>4. \A k \in 1 .. Len(f) : k # 2 => l \notin f[k]
      <3> SUFFICES ASSUME NEW k \in 1 .. Len(f), k # 2, l \in f[k] PROVE FALSE
        OBVIOUS
      <3>1. CASE k = 1
        <4>1. f[1] = Magic
          BY <1>2, <3>1 DEF Stuck
        <4>2. l = <<"magic", 0, 0>>
          BY <3>1, <4>1 DEF Magic
        <4> QED
          BY <1>5, <4>2
      <3>2. CASE k # 1
        <4>1. k \in 3 .. Len(Stream) /\ f[k] = Stream[k]
          BY <1>2, <3>2
        <4> QED
          BY <1>5, <4>1 DEF Stuck
      <3> QED
        BY <3>1, <3>2
    <2>5. l \in XorChecksum(f)
      BY <2>3, <2>4, LoneLabel
    <2> QED
      BY <2>2, <2>5 DEF Intact
  <1>8. CASE FwCollect(n)
    <2>1. rx' = f /\ UNCHANGED <<back, answer>>
      BY <1>8 DEF FwCollect, f
    <2>2. Stream' = Stream
      BY <1>2, <2>1 DEF Stream
    <2>3. Len(Stream) < MaxPacket \/ \E j \in 1 .. 4 : wire' = SubSeq(Status, j, 3)
      BY <1>4
    <2>4. Stuck'
      BY <1>3, <2>2, <2>3 DEF Stuck, HeaderLen, MaxPacket
    <2> QED
      BY <1>1, <2>1, <2>4
  <1>9. CASE FwResync(n)
    BY <1>6, <1>9 DEF FwResync, f
  <1>10. CASE FwDispatch(n)
    BY <1>7, <1>10 DEF FwDispatch, f
  <1>11. CASE FwReject(n)
    <2>1. rx' = << >> /\ back' = back \o Frame(Garbled) /\ answer' = answer /\ Complete(f)
      BY <1>11 DEF FwReject, f
    <2>2. ~(Len(Stream) < MaxPacket)
      BY <1>2, <1>7, <2>1, Bounds
    <2>3. PICK j \in 2 .. 4 : wire' = SubSeq(Status, j, 3)
      BY <1>4, <2>2
    <2>4. Len(rx') <= 1 /\ j \in 1 .. 4 /\ j > 1
      BY <2>1
    <2>5. Junk'
      BY <1>3, <2>1, <2>3, <2>4 DEF Junk
    <2> QED
      BY <1>1, <2>1, <2>5
  <1> QED
    BY <1>8, <1>9, <1>10, <1>11 DEF FwCall

\* What is left of a STATUS is dropped: it does not begin with the magic byte.
LEMMA JunkStep ==
    ASSUME TypeOK, Framed, Junk, NEW n \in 1 .. Len(wire), FwCall(n)
    PROVE  UNCHANGED <<host, breaks, answer, back>> /\ Junk'
  <1> DEFINE f == Fill(n)
  <1>1. Take(n) /\ host' = host /\ breaks' = breaks
    BY DEF FwCall, FwCollect, FwResync, FwDispatch, FwReject, Take
  <1>2. /\ f \in Seq(Byte \ {{}}) /\ Len(f) = Len(rx) + n /\ Len(f) \in Nat
        /\ Stream \in Seq(Byte \ {{}}) /\ Len(Stream) = Len(f) + Len(wire') /\ Len(wire') \in Nat
        /\ \A k \in 1 .. Len(f) : f[k] = Stream[k]
    BY <1>1, TakeFacts
  <1>3. Status' = Status
    BY <1>1 DEF Status
  <1>4. PICK j \in 1 .. 4 : wire = SubSeq(Status, j, 3) /\ (rx = << >> => j > 1)
    BY DEF Junk
  <1>5. j + n \in 2 .. 4 /\ wire' = SubSeq(Status, j + n, 3) /\ wire[1] = Status[j] /\ j < 4
    BY <1>1, <1>4, StatusLeft
  <1>6. f[1] # Magic
    <2>1. rx \in Seq(Byte \ {{}}) /\ wire \in Seq(Byte \ {{}}) /\ Len(rx) \in Nat
      BY DEF TypeOK
    <2>2. f[1] = Stream[1]
      BY <1>2, <2>1
    <2>3. CASE rx = << >>
      <3>1. Stream = wire
        BY <2>1, <2>3, ConcatEmptySeq DEF Stream
      <3>2. j = 2 \/ j = 3
        BY <1>4, <1>5, <2>3
      <3> QED
        BY <1>5, <2>2, <3>1, <3>2, StatusFacts
    <2>4. CASE rx # << >>
      <3>1. Len(rx) >= 1 /\ Len(wire) \in Nat
        BY <2>1, <2>4, EmptySeq
      <3>2. Stream[1] = rx[1]
        BY <2>1, <3>1, ConcatProperties DEF Stream
      <3> QED
        BY <2>2, <2>4, <3>2 DEF Junk
    <2> QED
      BY <2>3, <2>4
  <1> HIDE DEF f
  <1>7. ~HasHeader(f)
    BY <1>6 DEF HasHeader
  <1>8. CASE FwCollect(n)
    <2>1. rx' = f /\ UNCHANGED <<back, answer>> /\ Len(f) < 2
      BY <1>7, <1>8 DEF FwCollect, HeaderLen, f
    <2>2. Len(rx') <= 1 /\ (rx' # << >> => rx'[1] # Magic)
      BY <1>2, <1>6, <2>1
    <2>3. rx' # << >>
      <3>1. Len(rx') >= 1
        <4>1. Len(rx) \in Nat
          BY DEF TypeOK
        <4> QED
          BY <1>2, <2>1, <4>1
      <3> QED
        BY <3>1, EmptySeq
    <2>4. \E i \in 1 .. 4 : wire' = SubSeq(Status, i, 3) /\ (rx' = << >> => i > 1)
      BY <1>5, <2>3
    <2>5. Junk'
      BY <1>3, <2>2, <2>4 DEF Junk
    <2> QED
      BY <1>1, <2>1, <2>5
  <1>9. CASE FwResync(n)
    <2>1. rx' = << >> /\ UNCHANGED <<back, answer>>
      BY <1>9 DEF FwResync
    <2>2. Len(rx') <= 1
      BY <2>1
    <2>3. \E i \in 1 .. 4 : wire' = SubSeq(Status, i, 3) /\ (rx' = << >> => i > 1)
      BY <1>5
    <2>4. Junk'
      BY <1>3, <2>1, <2>2, <2>3 DEF Junk
    <2> QED
      BY <1>1, <2>1, <2>4
  <1>10. CASE FwDispatch(n) \/ FwReject(n)
    BY <1>7, <1>10 DEF FwDispatch, FwReject, Complete, f
  <1> QED
    BY <1>8, <1>9, <1>10 DEF FwCall
-----------------------------------------------------------------------------
(* The line, step by step *)

LEMMA NothingFollows ==
    ASSUME NEW x \in Seq(Byte)
    PROVE  << >> \o x = x
  BY ConcatEmptySeq

LEMMA FwLine ==
    ASSUME LinkInv, NEW n \in 1 .. Len(wire), FwCall(n)
    PROVE  LinkInv'
  <1>1. TypeOK /\ Framed /\ LineOK
    BY DEF LinkInv
  <1>2. TypeOK' /\ Framed'
    BY <1>1, FwType DEF FwCall
  <1>3. wire # << >>
    <2>1. Len(wire) # 0
      BY <1>1 DEF TypeOK
    <2> QED
      BY <2>1, EmptySeq
  <1>4. ~Empty /\ host.pc \in {"verify", "wait", "ending"} /\ host.said = "none"
    BY <1>1, <1>3 DEF LinkInv, LineOK, Empty, TypeOK
  <1>5. host' = host /\ breaks' = breaks
    BY DEF FwCall, FwCollect, FwResync, FwDispatch, FwReject, Take
  <1>6. GetsItsAnswer' /\ NoErrorUnprovoked'
    BY <1>4, <1>5 DEF GetsItsAnswer, NoErrorUnprovoked
  <1>7. ASSUME Whole PROVE Whole' \/ Empty'
    BY <1>1, <1>7, WholeStep
  <1>8. ASSUME Whole, back = << >> PROVE Undisturbed'
    <2>1. CASE Whole' /\ back' = back
      BY <1>8, <2>1 DEF Undisturbed
    <2>2. ASSUME Empty', NEW a \in Answers(host.cmd, host.id),
                 back' = back \o Frame(a), answer' = [answer EXCEPT ![host.id] = a]
          PROVE  Undisturbed'
      <3>1. a \in [rsp : Word, data : Seq(Byte)]
        BY <1>1, HostTypes, AnswersType DEF Word
      <3>2. back' = Frame(a)
        BY <1>1, <1>8, <2>2, <3>1, FrameFacts, NothingFollows
      <3>3. answer'[host.id] = a
        BY <1>1, <2>2, HostTypes DEF TypeOK
      <3> QED
        BY <1>5, <2>2, <3>2, <3>3 DEF Undisturbed, Answered
    <2> QED
      BY <1>1, <1>8, <2>1, <2>2, WholeStep
  <1>9. Frame(Garbled) \in Seq(Byte)
    <2>1. Garbled \in [rsp : Word, data : Seq(Byte)]
      BY DEF Garbled, Word
    <2> QED
      BY <2>1, FrameFacts
  <1>10. ASSUME Stuck, back = << >>
         PROVE  (Stuck' /\ back' = << >>) \/ (Junk' /\ back' \in {<< >>, Frame(Garbled)})
    BY <1>1, <1>9, <1>10, StuckStep, NothingFollows
  <1>11. ASSUME Junk PROVE Junk' /\ back' = back
    BY <1>1, <1>11, JunkStep
  <1>12. LineOK'
    <2>1. CASE host.pc = "wait"
      BY <1>1, <1>4, <1>5, <1>8, <2>1 DEF LineOK, Undisturbed
    <2>2. CASE host.pc = "verify"
      <3>1. \/ Whole /\ back = << >>
            \/ Stuck /\ back = << >>
            \/ Junk /\ back \in {<< >>, Frame(Garbled)}
        BY <1>1, <1>4, <2>2 DEF LineOK, Undisturbed
      <3>2. Frame(Garbled)' = Frame(Garbled)
        BY DEF Garbled
      <3> QED
        BY <1>5, <1>8, <1>10, <1>11, <2>2, <3>1, <3>2 DEF LineOK
    <2>3. CASE host.pc = "ending"
      <3>1. Whole \/ Stuck \/ Junk
        BY <1>1, <1>4, <2>3 DEF LineOK
      <3>2. CASE Stuck
        BY <1>1, <1>5, <2>3, <3>2, StuckStep DEF LineOK
      <3> QED
        BY <1>5, <1>7, <1>11, <2>3, <3>1, <3>2 DEF LineOK
    <2> QED
      BY <1>4, <2>1, <2>2, <2>3
  <1>13. breaks' = 0 => Empty' \/ Whole'
    BY <1>4, <1>5, <1>7 DEF LinkInv
  <1>14. breaks' = 0 /\ host'.pc = "verify" => Undisturbed'
    BY <1>4, <1>5, <1>8 DEF LinkInv, Undisturbed
  <1> QED
    BY <1>2, <1>4, <1>5, <1>6, <1>12, <1>13, <1>14 DEF LinkInv

LEMMA RspOfByte ==
    /\ RspOf({<<"ok", 0, 0>>}) = "ok"
    /\ RspOf({<<"busy", 0, 0>>}) = "busy"
    /\ RspOf({<<"err", 0, 0>>}) = "err"
  <1>1. ASSUME NEW r \in {"ok", "err", "busy", "nodata"} PROVE RspOf({<<r, 0, 0>>}) = r
    <2>1. Label({<<r, 0, 0>>}) = <<r, 0, 0>>
      BY LabelOf
    <2>2. Code({<<r, 0, 0>>}) = r
      BY <2>1 DEF Code
    <2> QED
      BY <2>2 DEF RspOf
  <1> QED
    BY <1>1

\* A call that finds the firmware's answer, whole and alone, takes all of it
\* for what it is; WRITE alone can be answered with BUSY.
LEMMA AnswerReceived ==
    ASSUME TypeOK, NoPull, Answered, Receive
    PROVE  LET a == answer[host.id] IN
           /\ back' = << >>
           /\ \/ host'.said = "ok" /\ a = [rsp |-> "ok", data |-> host'.data]
              \/ host'.said = "error" /\ a.rsp = "busy" /\ host.cmd = "WRITE"
           /\ host'.said = "ok" => host'.pc = "idle"
           /\ host.pc = "wait" => host'.pc = "idle"
           /\ host'.id = host.id /\ host'.cmd = host.cmd
  <1> DEFINE a == answer[host.id]
             f == Frame(a)
             c == host.cmd
             w == WholeAnswer
             raw == SubSeq(back, 1, Lesser(Len(back), WholeAnswer))
             res == IF host.cmd \in Variable THEN VariableResult(raw)
                    ELSE FixedResult(raw, WholeAnswer)
             good == res.said \in {"ok", "empty"}
  <1>1. a \in Answers(c, host.id) /\ back = f
    BY DEF Answered
  <1>2. c \in {"WRITE", "STATUS", "DEV_STATUS"} /\ host.id \in Nat /\ host.id \in 0 .. Numbers - 1
    <2>1. c # "STDOUT_PULL"
      BY HostTypes DEF NoPull
    <2> QED
      BY <2>1, HostTypes
  <1>3. a \in [rsp : {"ok", "busy"}, data : Seq(Byte)] /\ (c # "WRITE" => a.rsp = "ok")
        /\ Len(a.data) = MaxAnswer(c) /\ (a.rsp = "busy" => c = "WRITE")
    <2>1. a \in [rsp : {"ok", "busy", "nodata"}, data : Seq(Byte)]
      BY <1>1, <1>2, HostTypes, AnswersType
    <2>2. CASE c = "WRITE"
      BY <1>1, <2>1, <2>2 DEF Answers, MaxAnswer
    <2>3. CASE c \in {"STATUS", "DEV_STATUS"}
      <3>1. a \in [rsp : {"ok"}, data : {AnswerData(host.id, MaxAnswer(c))}] /\ MaxAnswer(c) \in Nat
        BY <1>1, <2>3 DEF Answers, MaxAnswer
      <3>2. Len(AnswerData(host.id, MaxAnswer(c))) = MaxAnswer(c)
        BY <3>1 DEF AnswerData
      <3> QED
        BY <2>1, <2>3, <3>1, <3>2
    <2> QED
      BY <1>2, <2>2, <2>3
  <1>4. /\ f \in Seq(Byte) /\ Len(f) = MaxAnswer(c) + 2 /\ f[1] = {<<a.rsp, 0, 0>>}
        /\ SubSeq(f, 2, Len(f) - 1) = a.data /\ XorChecksum(f) = {}
    <2>1. a \in [rsp : Word, data : Seq(Byte)]
      BY <1>3 DEF Word
    <2> HIDE DEF a
    <2> QED
      BY <1>3, <2>1, FrameFacts
  <1>5. w = Len(f) /\ MaxAnswer(c) \in {0, 2, 3} /\ Len(f) \in Nat /\ Len(f) >= 2
        /\ (c = "DEV_STATUS" <=> c \in Variable)
    BY <1>2, <1>4 DEF WholeAnswer, MaxAnswer, Variable
  <1> HIDE DEF f, w
  <1>6. raw = f
    <2>1. Lesser(Len(back), WholeAnswer) = Len(f)
      BY <1>1, <1>5 DEF Lesser, w
    <2> QED
      BY <1>1, <1>4, <2>1, SubSeqFull
  <1>7. RspOf(f[1]) = a.rsp
    BY <1>3, <1>4, RspOfByte
  <1>8. res = IF a.rsp = "ok" THEN Result("ok", a.data, Len(f)) ELSE Result("error", << >>, Len(f))
    <2>1. CASE c = "DEV_STATUS"
      <3>1. res = VariableResult(f) /\ a.rsp = "ok" /\ Len(f) = 5 /\ f # << >>
        <4>1. res = VariableResult(f)
          BY <1>5, <1>6, <2>1
        <4>2. MaxAnswer(c) = 3
          BY <2>1 DEF MaxAnswer
        <4>3. a.rsp = "ok" /\ Len(f) = 5
          BY <1>3, <1>4, <2>1, <4>2
        <4>4. f # << >>
          <5>1. Len(f) # 0
            BY <4>3
          <5> QED
            BY <5>1, EmptySeq
        <4> QED
          BY <4>1, <4>3, <4>4
      <3>2. Len(f) # 1 /\ XorChecksum(f) = {} /\ SubSeq(f, 2, Len(f) - 1) = a.data
        <4>1. Len(f) # 1
          BY <3>1
        <4> QED
          BY <1>4, <4>1
      <3>3. VariableResult(f) = Result("ok", a.data, Len(f))
        <4> HIDE DEF a, res, raw
        <4> QED
          BY <1>7, <3>1, <3>2 DEF VariableResult
      <3> QED
        BY <3>1, <3>3
    <2>2. CASE c # "DEV_STATUS"
      <3>1. res = FixedResult(f, Len(f))
        BY <1>5, <1>6, <2>2 DEF w
      <3>2. /\ ~(Len(f) < 2) /\ Len(f) \notin 2 .. Len(f) - 1 /\ Len(f) >= Len(f)
        BY <1>5
      <3>3. CASE a.rsp = "ok"
        <4> HIDE DEF res, a, raw
        <4> QED
          BY <1>4, <1>7, <3>1, <3>2, <3>3 DEF FixedResult
      <3>4. CASE a.rsp = "busy"
        <4> HIDE DEF res, a, raw
        <4> QED
          BY <1>4, <1>7, <3>1, <3>2, <3>4 DEF FixedResult
      <3> QED
        BY <1>3, <3>3, <3>4
    <2> QED
      BY <2>1, <2>2
  <1>9. /\ res.used = Len(f)
        /\ a.rsp = "ok" => res.said = "ok" /\ res.data = a.data
        /\ a.rsp = "busy" => res.said = "error"
    <2> HIDE DEF res
    <2> QED
      BY <1>8 DEF Result
  <1>10. /\ back' = SubSeq(back, res.used + 1, Len(back))
         /\ host' = [host EXCEPT !.said = res.said, !.data = res.data,
                     !.pc = IF good \/ host.pc = "wait" THEN "idle" ELSE "closed"]
    BY DEF Receive
  <1> HIDE DEF res
  <1>11. back' = << >>
    BY <1>1, <1>5, <1>9, <1>10, SubSeqEmpty
  <1>12. /\ host'.said = res.said /\ host'.data = res.data /\ host'.id = host.id
         /\ host'.cmd = host.cmd
         /\ host'.pc = IF good \/ host.pc = "wait" THEN "idle" ELSE "closed"
    BY <1>10 DEF TypeOK
  <1>13. a.rsp = "ok" => a = [rsp |-> "ok", data |-> a.data]
    BY <1>3
  <1> QED
    BY <1>3, <1>9, <1>11, <1>12, <1>13

\* Anything else a program on a disturbed link can get is a timeout or an
\* error, and it ends with it.
LEMMA DisturbedReceived ==
    ASSUME TypeOK, Patient, Receive, host.pc = "verify", host.cmd = "STATUS",
           back \in {<< >>, Frame(Garbled)}
    PROVE  /\ wire = << >> /\ host'.pc = "closed"
           /\ host'.said \in {"timeout", "error"}
           /\ host'.id = host.id /\ host'.cmd = host.cmd
  <1>1. WholeAnswer = 4 /\ host.cmd \notin Variable
    BY DEF WholeAnswer, MaxAnswer, Variable
  <1>2. /\ Frame(Garbled) \in Seq(Byte) /\ Len(Frame(Garbled)) = 2
        /\ Frame(Garbled)[1] = {<<"err", 0, 0>>}
    <2>1. Garbled \in [rsp : Word, data : Seq(Byte)] /\ Garbled.rsp = "err" /\ Len(Garbled.data) = 0
      BY DEF Garbled, Word
    <2> DEFINE g == Garbled
    <2> HIDE DEF g
    <2>2. /\ Frame(g) \in Seq(Byte) /\ Len(Frame(g)) = Len(g.data) + 2
          /\ Frame(g)[1] = {<<g.rsp, 0, 0>>}
      BY <2>1, FrameFacts DEF g
    <2>3. Len(Frame(g)) = 2
      BY <2>1, <2>2 DEF g
    <2> QED
      BY <2>1, <2>2, <2>3 DEF g
  <1>3. back \in Seq(Byte) /\ Len(back) \in {0, 2}
    BY <1>2, EmptySeq
  <1>4. wire = << >>
    <2>1. ~Arrived
      BY <1>1, <1>3 DEF Arrived
    <2> QED
      BY <2>1 DEF Receive, Late
  <1> DEFINE raw == SubSeq(back, 1, Lesser(Len(back), WholeAnswer))
  <1>5. raw = back
    <2>1. Lesser(Len(back), WholeAnswer) = Len(back)
      <3>1. Len(back) < WholeAnswer
        <4>1. 0 < 4 /\ 2 < 4
          OBVIOUS
        <4>2. Len(back) = 0 \/ Len(back) = 2
          BY <1>3
        <4>3. WholeAnswer = 4
          BY <1>1
        <4> HIDE DEF raw
        <4> QED
          BY <4>1, <4>2, <4>3
      <3> QED
        BY <3>1 DEF Lesser
    <2> QED
      BY <1>3, <2>1, SubSeqFull
  <1> DEFINE res == FixedResult(back, 4)
  <1>6. res.said \in {"timeout", "error"}
    <2>1. CASE Len(back) = 0
      BY <2>1 DEF FixedResult, Result
    <2>2. CASE Len(back) = 2
      <3>1. ~(Len(back) < 2) /\ Len(back) \in 2 .. 4 - 1
        BY <2>2
      <3>2. ~(Len(back) >= 4)
        BY <2>2
      <3> QED
        BY <3>1, <3>2 DEF FixedResult, Result
    <2> QED
      BY <1>3, <2>1, <2>2
  <1>7. host' = [host EXCEPT !.said = res.said, !.data = res.data,
                 !.pc = IF res.said \in {"ok", "empty"} \/ host.pc = "wait" THEN "idle" ELSE "closed"]
    BY <1>1, <1>5 DEF Receive
  <1> HIDE DEF res
  <1> QED
    BY <1>4, <1>6, <1>7 DEF TypeOK

LEMMA ReceiveLine ==
    ASSUME LinkInv, NoPull, Patient, Receive
    PROVE  LinkInv'
  <1>1. TypeOK /\ Framed /\ LineOK /\ host.pc \in {"verify", "wait"}
    BY DEF LinkInv, Receive
  <1>2. TypeOK' /\ Framed'
    BY <1>1, HostType
  <1>3. UNCHANGED <<wire, rx, answer, breaks>>
    BY DEF Receive
  <1>4. host.pc = "verify" => host.cmd = "STATUS"
    BY DEF LinkInv
  <1>5. CASE Empty /\ Answered
    <2>1. /\ back' = << >> /\ host'.pc = "idle" /\ host'.id = host.id
          /\ host'.said = "ok" => answer[host.id] = [rsp |-> "ok", data |-> host'.data]
          /\ host'.said = "ok" \/ (host'.said = "error" /\ answer[host.id].rsp = "busy")
      <3>1. host'.said = "error" => host.pc = "wait"
        BY <1>1, <1>4, <1>5, AnswerReceived
      <3> QED
        BY <1>1, <1>5, <3>1, AnswerReceived
    <2>2. Empty'
      BY <1>3, <1>5 DEF Empty
    <2>3. GetsItsAnswer' /\ NoErrorUnprovoked'
      BY <1>3, <2>1 DEF GetsItsAnswer, NoErrorUnprovoked
    <2> QED
      BY <1>2, <2>1, <2>2, <2>3 DEF LinkInv, LineOK
  <1>6. CASE Whole /\ back = << >>
    <2>1. ~Arrived
      <3>1. Len(back) = 0 /\ WholeAnswer >= 2 /\ WholeAnswer \in Nat
        <4>1. MaxAnswer(host.cmd) \in Nat
          BY <1>1, HostTypes, Bounds DEF MaxAnswer
        <4> QED
          BY <1>6, <4>1 DEF WholeAnswer
      <3> QED
        <4>1. ~(Len(back) >= WholeAnswer)
          BY <3>1
        <4> QED
          BY <1>6, <4>1 DEF Arrived
    <2>2. ~Late
      BY <1>6 DEF Late, Whole
    <2> QED
      BY <2>1, <2>2 DEF Receive
  <1>7. CASE /\ host.pc = "verify" /\ back \in {<< >>, Frame(Garbled)}
             /\ Stuck \/ Junk
             /\ ~(Empty /\ Answered) /\ ~(Whole /\ back = << >>)
    <2>1. /\ wire = << >> /\ host'.pc = "closed"
          /\ host'.said \in {"timeout", "error"}
          /\ host'.id = host.id /\ host'.cmd = host.cmd
      BY <1>1, <1>4, <1>7, DisturbedReceived
    <2>2. breaks # 0
      BY <1>7 DEF LinkInv, Undisturbed
    <2>3. Stuck' \/ Junk'
      <3>1. Stream' = Stream /\ Status' = Status
        BY <1>3, <2>1 DEF Stream, Status
      <3>2. Stuck => Stuck'
        BY <1>3, <3>1 DEF Stuck
      <3>3. Junk => Junk'
        BY <1>3, <3>1 DEF Junk
      <3> QED
        BY <1>7, <3>2, <3>3
    <2>4. GetsItsAnswer' /\ NoErrorUnprovoked'
      BY <1>3, <2>1, <2>2 DEF GetsItsAnswer, NoErrorUnprovoked
    <2>5. LineOK'
      BY <1>3, <2>1, <2>3 DEF LineOK
    <2> QED
      BY <1>2, <1>3, <2>1, <2>2, <2>4, <2>5 DEF LinkInv
  <1> QED
    BY <1>1, <1>5, <1>6, <1>7 DEF LineOK, Undisturbed

LEMMA SendLine ==
    ASSUME LinkInv, NEW c \in Cmd \union {"STATUS"}, Send(c)
    PROVE  LinkInv'
  <1> DEFINE m == NextId
             p == Packet(c, m)
             len == DataLen(c) + 3
  <1>1. TypeOK /\ Framed /\ LineOK /\ host.pc \in {"open", "idle"} /\ (host.pc = "open" => c = "STATUS")
    BY DEF LinkInv, Send
  <1>2. TypeOK' /\ Framed'
    BY <1>1, SendType
  <1>3. wire = << >> /\ back = << >> /\ (Empty \/ Stuck \/ Junk) /\ (host.pc = "idle" => Empty)
    BY <1>1 DEF LinkInv, LineOK, Empty
  <1>4. /\ host' = [pc |-> IF host.pc = "open" THEN "verify" ELSE "wait", cmd |-> c,
                    id |-> m, said |-> "none", data |-> << >>]
        /\ rx' = rx /\ back' = back /\ breaks' = breaks /\ wire' = wire \o p
    BY DEF Send
  <1>5. m \in 0 .. Numbers - 1 /\ m \in Nat /\ DataLen(c) \in Nat
        /\ c \in {"WRITE", "STATUS", "DEV_STATUS", "STDOUT_PULL"}
    <2>1. Cmd \subseteq {"WRITE", "STATUS", "DEV_STATUS", "STDOUT_PULL"} /\ Numbers \in Nat
          /\ DataLen(c) \in Nat
      BY Bounds
    <2> QED
      BY <1>1, <2>1, NextIdType
  <1>6. p \in Seq(Byte \ {{}}) /\ Len(p) = len /\ SubSeq(p, 1, len) = p
    <2>1. p \in Seq(Byte \ {{}}) /\ Len(p) = len
      BY <1>5, PacketFacts
    <2> QED
      BY <2>1, SubSeqFull
  <1>7. wire' = p /\ p # << >>
    <2>1. Len(p) # 0
      BY <1>5, <1>6
    <2> QED
      BY <1>3, <1>4, <1>6, <2>1, ConcatEmptySeq, EmptySeq
  <1>8. host'.cmd = c /\ host'.id = m /\ host'.said = "none"
        /\ host'.pc = IF host.pc = "open" THEN "verify" ELSE "wait"
    BY <1>4
  <1>9. GetsItsAnswer' /\ NoErrorUnprovoked'
    BY <1>8 DEF GetsItsAnswer, NoErrorUnprovoked
  <1> HIDE DEF m, p, len
  <1>10. ASSUME Empty PROVE Whole' /\ Undisturbed'
    <2>1. Stream' = p
      BY <1>4, <1>6, <1>7, <1>10, ConcatEmptySeq DEF Stream, Empty
    <2>2. Whole'
      BY <1>7, <1>8, <2>1 DEF Whole, p
    <2> QED
      BY <1>3, <1>4, <2>2 DEF Undisturbed
  <1>11. ASSUME host.pc = "open" PROVE wire' = SubSeq(Status', 1, 3) /\ Status' = p
    <2>1. c = "STATUS"
      BY <1>1, <1>11
    <2>2. Status' = p
      BY <1>8, <2>1 DEF Status, p
    <2>3. len = 3
      BY <2>1 DEF DataLen, len
    <2> QED
      BY <1>6, <1>7, <2>2, <2>3
  <1>12. ASSUME Stuck, host.pc = "open" PROVE Stuck'
    <2>1. len \in 2 .. DataLen(c) + 3
      BY <1>5 DEF len
    <2>2. /\ Stream \in Seq(Byte \ {{}}) /\ Len(Stream') = Len(Stream) + len
          /\ \A k \in 1 .. Len(Stream) : Stream'[k] = Stream[k]
          /\ \A k \in 1 .. len : Stream'[Len(Stream) + k] = p[k]
      BY <1>1, <1>4, <1>5, <1>6, <2>1, SendFacts DEF p
    <2>3. len = 3
      BY <1>1, <1>12 DEF len, DataLen
    <2>4. Len(Stream) \in Nat /\ Len(Stream) >= 2
      BY <1>12, <2>2 DEF Stuck, HeaderLen
    <2>5. Stream'[1] = Stream[1] /\ Stream'[2] = Stream[2] /\ Len(Stream') >= HeaderLen
      BY <2>2, <2>3, <2>4 DEF HeaderLen
    <2>6. ASSUME NEW k \in 3 .. Len(Stream'), NEW l \in Stream'[k] PROVE l[1] # "WRITE"
      <3>1. CASE k <= Len(Stream)
        <4>1. k \in 3 .. Len(Stream) /\ Stream'[k] = Stream[k]
          BY <2>2, <2>4, <3>1
        <4> QED
          BY <1>12, <2>6, <4>1 DEF Stuck
      <3>2. CASE ~(k <= Len(Stream))
        <4>1. PICK i \in 1 .. 3 : k = Len(Stream) + i
          <5>1. k - Len(Stream) \in 1 .. 3 /\ k = Len(Stream) + (k - Len(Stream))
            BY <2>2, <2>3, <2>4, <3>2
          <5> QED
            BY <5>1
        <4>2. l \in p[i]
          BY <2>2, <2>3, <2>6, <4>1
        <4>3. \A j \in 1 .. 3 : \A x \in p[j] : x[1] # "WRITE"
          BY <1>1, <1>5, <1>12, StatusPacket DEF p
        <4> QED
          BY <4>2, <4>3
      <3> QED
        BY <3>1, <3>2
    <2> QED
      BY <1>11, <1>12, <2>5, <2>6 DEF Stuck, HeaderLen
  <1>13. ASSUME Junk, ~Empty, host.pc = "open" PROVE Junk'
    <2>1. rx # << >>
      BY <1>3, <1>13 DEF Empty
    <2>2. wire' = SubSeq(Status', 1, 3) /\ 1 \in 1 .. 4 /\ rx' # << >> /\ Len(rx') <= 1
      BY <1>4, <1>11, <1>13, <2>1 DEF Junk
    <2>3. rx'[1] # Magic
      BY <1>4, <1>13, <2>1 DEF Junk
    <2> QED
      BY <2>2, <2>3 DEF Junk
  <1>14. LineOK'
    <2>1. CASE Empty
      BY <1>1, <1>8, <1>10, <2>1 DEF LineOK
    <2>2. CASE ~Empty
      <3>1. host.pc = "open" /\ (Stuck \/ Junk)
        BY <1>1, <1>3, <2>2
      <3>2. (Stuck' /\ back' = << >>) \/ (Junk' /\ back' = << >>)
        BY <1>3, <1>4, <1>12, <1>13, <2>2, <3>1
      <3> QED
        BY <1>8, <3>1, <3>2 DEF LineOK
    <2> QED
      BY <2>1, <2>2
  <1>15. breaks' = 0 => Whole' /\ Undisturbed'
    <2>1. breaks = 0 => Empty
      BY <1>3 DEF LinkInv, Whole
    <2> QED
      BY <1>4, <1>10, <2>1
  <1> QED
    BY <1>1, <1>2, <1>8, <1>9, <1>14, <1>15 DEF LinkInv

LEMMA BreakSendingLine ==
    ASSUME LinkInv, NEW c \in Cmd \union {"STATUS"}, BreakSending(c)
    PROVE  LinkInv'
  <1> DEFINE m == NextId
             p == Packet(c, m)
  <1>1. TypeOK /\ Framed /\ Empty
    BY DEF LinkInv, LineOK, BreakSending
  <1>2. TypeOK' /\ Framed'
    BY <1>1, SendType
  <1>3. c = "WRITE" /\ DataLen(c) = MaxPayload /\ MaxPayload \in Nat
    <2>1. DataLen(c) > 0
      BY DEF BreakSending
    <2>2. ~(0 > 0)
      OBVIOUS
    <2>3. c = "WRITE"
      BY <2>1, <2>2 DEF DataLen
    <2> QED
      BY <2>3, Bounds DEF DataLen
  <1>4. /\ host'.pc = "ending" /\ host'.said = "none" /\ rx' = rx
        /\ breaks' # 0
    <2>1. host'.pc = "ending" /\ host'.said = "none" /\ rx' = rx /\ breaks' = breaks + 1
      BY <1>1 DEF BreakSending, TypeOK
    <2>2. breaks \in Nat
      BY <1>1, Bounds DEF TypeOK
    <2> QED
      BY <2>1, <2>2
  <1>5. m \in 0 .. Numbers - 1 /\ m \in Nat
    <2>1. Numbers \in Nat
      BY Bounds
    <2> QED
      BY <1>1, <2>1, NextIdType
  <1>6. PICK cut \in HeaderLen .. HeaderLen + DataLen(c) : wire' = wire \o SubSeq(p, 1, cut)
    BY DEF BreakSending
  <1>7. cut \in 2 .. MaxPayload + 2 /\ cut \in 2 .. DataLen(c) + 3 /\ cut \in Nat
    BY <1>3, <1>6 DEF HeaderLen
  <1>8. /\ p[1] = Magic /\ p[2] = {<<c, m, 0>>}
        /\ \A k \in 3 .. MaxPayload + 2 : p[k] = {<<"data", m, k - 2>>}
    <2>1. \A k \in 3 .. DataLen(c) + 2 : p[k] = {<<"data", m, k - 2>>}
      BY <1>3, <1>5, PacketFacts
    <2> QED
      BY <1>3, <1>5, <2>1, PacketFacts
  <1>9. /\ Len(Stream') = Len(Stream) + cut
        /\ \A k \in 1 .. cut : Stream'[Len(Stream) + k] = p[k]
    BY <1>1, <1>4, <1>5, <1>6, <1>7, SendFacts
  <1> HIDE DEF p, m
  <1>10. Len(Stream) = 0
    <2>1. Stream = << >>
      BY <1>1, ConcatEmptySeq DEF Stream, Empty, TypeOK
    <2> QED
      BY <2>1, EmptySeq
  <1>11. Len(Stream') = cut /\ \A k \in 1 .. cut : Stream'[k] = p[k]
    BY <1>7, <1>9, <1>10
  <1>12. Stuck'
    <2>1. Len(Stream') >= HeaderLen /\ Len(Stream') < MaxPacket
      BY <1>3, <1>7, <1>11, Bounds
    <2>2. Stream'[1] = Magic /\ Stream'[2] = {<<"WRITE", m, 0>>}
      BY <1>3, <1>7, <1>8, <1>11
    <2>3. ASSUME NEW k \in 3 .. Len(Stream'), NEW l \in Stream'[k] PROVE l[1] # "WRITE"
      <3>1. Stream'[k] = {<<"data", m, k - 2>>}
        BY <1>3, <1>7, <1>8, <1>11, <2>3
      <3> QED
        BY <2>3, <3>1
    <2>4. \E l \in Stream'[2] : Stream'[2] = {l} /\ l[1] = "WRITE"
      BY <2>2
    <2> QED
      BY <2>1, <2>2, <2>3, <2>4 DEF Stuck, HeaderLen, MaxPacket
  <1>13. GetsItsAnswer' /\ NoErrorUnprovoked'
    BY <1>4 DEF GetsItsAnswer, NoErrorUnprovoked
  <1> QED
    BY <1>2, <1>4, <1>12, <1>13 DEF LinkInv, LineOK

\* The program connects, ends, or is interrupted: bytes stay where they are.
LEMMA ProgramLine ==
    ASSUME LinkInv, Patient, Connect \/ Close \/ Break \/ Ended
    PROVE  LinkInv'
  <1>1. TypeOK /\ Framed /\ LineOK
    BY DEF LinkInv
  <1>2. TypeOK' /\ Framed'
    BY <1>1, HostType
  <1>3. /\ UNCHANGED <<wire, rx, answer>>
        /\ host'.cmd = host.cmd /\ host'.id = host.id
    BY <1>1 DEF Connect, Close, Break, Ended, TypeOK
  <1>4. Stream' = Stream /\ Status' = Status
    BY <1>3 DEF Stream, Status
  <1>5. (Empty => Empty') /\ (Whole => Whole') /\ (Stuck => Stuck') /\ (Junk => Junk')
    BY <1>3, <1>4 DEF Empty, Whole, Stuck, Junk
  <1>6. CASE Connect
    <2>1. host.pc = "closed" /\ host'.pc = "open" /\ host'.said = "none" /\ back' = << >> /\ breaks' = breaks
      BY <1>1, <1>6 DEF Connect, TypeOK
    <2>2. LineOK'
      BY <1>1, <1>3, <1>5, <2>1 DEF LineOK
    <2> QED
      BY <1>2, <1>5, <2>1, <2>2 DEF LinkInv, GetsItsAnswer, NoErrorUnprovoked
  <1>7. CASE Close
    <2>1. /\ host.pc = "idle" /\ host'.pc = "closed" /\ host'.said = host.said
          /\ host'.data = host.data /\ back' = back /\ breaks' = breaks
      BY <1>1, <1>7 DEF Close, TypeOK
    <2>2. LineOK'
      BY <1>1, <1>3, <1>5, <2>1 DEF LineOK, Empty
    <2>3. GetsItsAnswer' /\ NoErrorUnprovoked'
      BY <1>3, <2>1 DEF LinkInv, GetsItsAnswer, NoErrorUnprovoked
    <2> QED
      BY <1>2, <1>5, <2>1, <2>2, <2>3 DEF LinkInv
  <1>8. CASE Break
    <2>1. /\ host.pc \in {"verify", "wait"} /\ host'.pc = "ending" /\ host'.said = host.said
          /\ back' = back /\ breaks' = breaks + 1 /\ breaks \in Nat
      BY <1>1, <1>8, Bounds DEF Break, TypeOK
    <2>2. breaks' # 0
      BY <2>1
    <2>3. LineOK'
      BY <1>1, <1>5, <2>1 DEF LineOK, Undisturbed
    <2>4. host'.said = "none"
      BY <2>1 DEF LinkInv
    <2> QED
      BY <1>2, <2>1, <2>2, <2>3, <2>4 DEF LinkInv, GetsItsAnswer, NoErrorUnprovoked
  <1>9. CASE Ended
    <2>1. /\ host.pc = "ending" /\ host'.pc = "closed" /\ host'.said = host.said
          /\ back' = back /\ breaks' = breaks /\ wire = << >>
      BY <1>1, <1>9 DEF Ended, Late, TypeOK
    <2>2. LineOK'
      BY <1>1, <1>3, <1>5, <2>1 DEF LineOK, Whole
    <2>3. host'.said = "none"
      BY <2>1 DEF LinkInv
    <2> QED
      BY <1>2, <1>5, <2>1, <2>2, <2>3 DEF LinkInv, GetsItsAnswer, NoErrorUnprovoked
  <1> QED
    BY <1>6, <1>7, <1>8, <1>9

LEMMA LinkInit == Init => LinkInv
  <1> SUFFICES ASSUME Init PROVE LinkInv
    OBVIOUS
  <1>1. host.pc = "closed" /\ host.said = "none" /\ Empty
    BY DEF Init, Empty
  <1> QED
    BY <1>1, LinkTypeInit DEF LinkInv, LineOK, GetsItsAnswer, NoErrorUnprovoked, Empty

LEMMA LinkStep ==
    NoPull /\ Patient /\ LinkInv /\ [Next]_vars => LinkInv'
  <1> SUFFICES ASSUME NoPull, Patient, LinkInv, [Next]_vars PROVE LinkInv'
    OBVIOUS
  <1>1. CASE FwStep
    BY <1>1, FwLine DEF FwStep, FwCall
  <1>2. CASE Connect \/ Close \/ Break \/ Ended
    BY <1>2, ProgramLine
  <1>3. CASE Receive
    BY <1>3, ReceiveLine
  <1>4. ASSUME NEW c \in Cmd \union {"STATUS"}, Send(c) PROVE LinkInv'
    BY <1>4, SendLine
  <1>5. ASSUME NEW c \in Cmd \union {"STATUS"}, BreakSending(c) PROVE LinkInv'
    BY <1>5, BreakSendingLine
  <1>6. CASE UNCHANGED vars
    <2>1. UNCHANGED <<wire, rx, back, host, answer, breaks>>
      BY <1>6 DEF vars
    <2>2. UNCHANGED <<Stream, Status>>
      BY <2>1 DEF Stream, Status
    <2>3. UNCHANGED <<Whole, Stuck, Junk, Empty, Answered>>
      BY <2>1, <2>2 DEF Whole, Stuck, Junk, Empty, Answered
    <2>4. UNCHANGED Undisturbed
      BY <2>1, <2>3 DEF Undisturbed
    <2>5. LineOK' /\ TypeOK' /\ Framed'
      BY <2>1, <2>2, <2>3, <2>4 DEF LinkInv, LineOK, TypeOK, Framed
    <2>6. GetsItsAnswer' /\ NoErrorUnprovoked'
      BY <2>1 DEF LinkInv, GetsItsAnswer, NoErrorUnprovoked
    <2> QED
      BY <2>1, <2>3, <2>4, <2>5, <2>6 DEF LinkInv
  <1> QED
    BY <1>1, <1>2, <1>3, <1>4, <1>5, <1>6 DEF Next

\* The bytes on the line, in rx_buf and in the input buffer of the PC, for
\* every payload limit and every number of interruptions: a program that is
\* waiting has its packet on the way or its answer there, unless a WRITE that
\* was cut short is still being collected (usb_bridge.c:474-504,
\* sd2psx_bridge.py:185-233).
THEOREM LinkInvariant ==
    ASSUME NoPull, Patient
    PROVE  Spec => []LinkInv
  <1>1. LinkInv /\ [Next]_vars => LinkInv'
    BY LinkStep
  <1> QED
    BY <1>1, LinkInit, PTL DEF Spec

\* No call returns another call's answer, and none fails without a reason
\* (sd2psx_bridge.py:93-126).
THEOREM LinkCorrect ==
    ASSUME NoPull, Patient
    PROVE  Spec => [](GetsItsAnswer /\ NoErrorUnprovoked)
  <1>1. LinkInv => GetsItsAnswer /\ NoErrorUnprovoked
    BY DEF LinkInv
  <1> QED
    BY <1>1, LinkInvariant, PTL
=============================================================================
