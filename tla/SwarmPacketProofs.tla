-------------------------- MODULE SwarmPacketProofs --------------------------
(***************************************************************************)
(* Theorems about SwarmPacket, for every set of IDs, payloads, prefixes    *)
(* and mask files: the scan of send_handler finds the destination that was *)
(* framed, the buffer is given back once, the receiver gets the payload,   *)
(* and the mask is obeyed.                                                 *)
(***************************************************************************)
EXTENDS SwarmPacket, SequenceTheorems, TLAPS

-----------------------------------------------------------------------------
(* Bytes.                                                                   *)

\* z is t behind s.
IsCat(z, s, t) ==
    /\ z \in Seq(Byte) /\ Len(z) = Len(s) + Len(t)
    /\ \A j \in 1 .. Len(s) : z[j] = s[j]
    /\ \A j \in 1 .. Len(t) : z[Len(s) + j] = t[j]

\* A sequence of bytes behind another one, byte by byte.
LEMMA CatShape ==
    ASSUME NEW s \in Seq(Byte), NEW t \in Seq(Byte)
    PROVE  IsCat(s \o t, s, t)
<1> SUFFICES ASSUME NEW z, z = s \o t PROVE IsCat(z, s, t)
  OBVIOUS
<1>1. Len(s) \in Nat /\ Len(t) \in Nat
  BY LenProperties
<1>2. /\ z \in Seq(Byte) /\ Len(z) = Len(s) + Len(t)
      /\ \A i \in 1 .. Len(s) + Len(t) :
            z[i] = IF i <= Len(s) THEN s[i] ELSE t[i - Len(s)]
  BY ConcatProperties
<1>3. ASSUME NEW j \in 1 .. Len(t)
      PROVE  z[Len(s) + j] = t[j]
  <2>1. Len(s) + j \in 1 .. Len(s) + Len(t) /\ ~(Len(s) + j <= Len(s)) /\ (Len(s) + j) - Len(s) = j
    BY <1>1
  <2> QED BY <1>2, <2>1
<1> QED BY <1>1, <1>2, <1>3 DEF IsCat

\* The four bytes that frame() writes of an ID are bytes, and four of them.
LEMMA BigBytes ==
    ASSUME NEW v \in U32
    PROVE  Big(v) \in Seq(Byte) /\ Len(Big(v)) = 4
<1>1. v \in Nat /\ v \div 16777216 \in Byte
  BY DEF U32
<1>2. (v \div 65536) % 256 \in Byte /\ (v \div 256) % 256 \in Byte /\ v % 256 \in Byte
  BY <1>1 DEF Byte
<1> QED BY <1>1, <1>2 DEF Big

\* The receiver puts the four bytes of an ID together again.
LEMMA RoundTrip ==
    ASSUME NEW v \in U32
    PROVE  16777216 * (v \div 16777216) + 65536 * ((v \div 65536) % 256)
             + 256 * ((v \div 256) % 256) + (v % 256) = v
<1>1. v \in Nat
  BY DEF U32
<1> DEFINE a == v \div 256
           b == a \div 256
           c == b \div 256
<1>2. a \in Nat /\ b \in Nat /\ c \in Nat
  BY <1>1
<1>3. v = 256 * a + (v % 256) /\ a = 256 * b + (a % 256) /\ b = 256 * c + (b % 256)
  BY <1>1, <1>2
<1>4. b = v \div 65536 /\ c = v \div 16777216
  BY <1>1
<1>5. v % 256 \in Nat /\ a % 256 \in Nat /\ b % 256 \in Nat
  BY <1>1, <1>2
<1> QED BY <1>1, <1>2, <1>3, <1>4, <1>5

\* One entry of the header: the tag, then the four bytes of the ID.
LEMMA EntryShape ==
    ASSUME NEW v \in U32
    PROVE  /\ Entry(v) \in Seq(Byte) /\ Len(Entry(v)) = 6
           /\ Entry(v)[1] = 73 /\ Entry(v)[2] = 68
           /\ \A j \in 1 .. 4 : Entry(v)[2 + j] = Big(v)[j]
<1> DEFINE tag == <<73, 68>>
<1>1. tag \in Seq(Byte) /\ Len(tag) = 2 /\ tag[1] = 73 /\ tag[2] = 68
  BY DEF Byte
<1>2. Entry(v) = tag \o Big(v)
  BY DEF Entry
<1> HIDE DEF tag
<1>3. Big(v) \in Seq(Byte) /\ Len(Big(v)) = 4
  BY BigBytes
<1>4. IsCat(Entry(v), tag, Big(v))
  BY <1>1, <1>2, <1>3, CatShape, Zenon
<1>5. /\ Entry(v) \in Seq(Byte) /\ Len(Entry(v)) = 2 + 4
      /\ \A j \in 1 .. 2 : Entry(v)[j] = tag[j]
      /\ \A j \in 1 .. 4 : Entry(v)[2 + j] = Big(v)[j]
  BY <1>1, <1>3, <1>4 DEF IsCat
<1> QED BY <1>1, <1>5

\* The bytes of a framed packet.
FramedBytes(f, src, dst, payload) ==
    /\ f \in Seq(Byte) /\ Len(f) = 12 + Len(payload)
    /\ f[1] = 73 /\ f[2] = 68 /\ f[7] = 73 /\ f[8] = 68
    /\ f[3] = Big(src)[1] /\ f[4] = Big(src)[2] /\ f[5] = Big(src)[3] /\ f[6] = Big(src)[4]
    /\ f[9] = Big(dst)[1] /\ f[10] = Big(dst)[2] /\ f[11] = Big(dst)[3] /\ f[12] = Big(dst)[4]
    /\ \A j \in 1 .. Len(payload) : f[12 + j] = payload[j]

\* What frame() leaves in its buffer, byte by byte.
LEMMA FramedShape ==
    ASSUME NEW src \in U32, NEW dst \in U32, NEW payload \in Seq(Byte)
    PROVE  FramedBytes(Framed(src, dst, payload), src, dst, payload)
<1> DEFINE e == Entry(src)
           g == Entry(dst)
           h == e \o g
<1>2. /\ e \in Seq(Byte) /\ Len(e) = 6 /\ e[1] = 73 /\ e[2] = 68
      /\ \A j \in 1 .. 4 : e[2 + j] = Big(src)[j]
  BY EntryShape
<1>3. /\ g \in Seq(Byte) /\ Len(g) = 6 /\ g[1] = 73 /\ g[2] = 68
      /\ \A j \in 1 .. 4 : g[2 + j] = Big(dst)[j]
  BY EntryShape
<1>4. Framed(src, dst, payload) = h \o payload
  BY DEF Framed
<1> HIDE DEF e, g
<1>5. /\ h \in Seq(Byte) /\ Len(h) = 12
      /\ \A j \in 1 .. 6 : h[j] = e[j] /\ h[6 + j] = g[j]
  <2>1. IsCat(h, e, g)
    BY <1>2, <1>3, CatShape, Zenon
  <2> HIDE DEF h
  <2> QED BY <1>2, <1>3, <2>1 DEF IsCat
<1> HIDE DEF h
<1>6. /\ h \o payload \in Seq(Byte) /\ Len(h \o payload) = 12 + Len(payload)
      /\ \A j \in 1 .. 12 : (h \o payload)[j] = h[j]
      /\ \A j \in 1 .. Len(payload) : (h \o payload)[12 + j] = payload[j]
  <2>1. IsCat(h \o payload, h, payload)
    BY <1>5, CatShape, Zenon
  <2> QED BY <1>5, <2>1, Zenon DEF IsCat
<1>7. /\ h[1] = 73 /\ h[2] = 68 /\ h[3] = Big(src)[1] /\ h[4] = Big(src)[2]
      /\ h[5] = Big(src)[3] /\ h[6] = Big(src)[4]
      /\ h[7] = 73 /\ h[8] = 68 /\ h[9] = Big(dst)[1] /\ h[10] = Big(dst)[2]
      /\ h[11] = Big(dst)[3] /\ h[12] = Big(dst)[4]
  BY <1>2, <1>3, <1>5
<1> DEFINE f == h \o payload
<1>8. \A j \in 1 .. 12 : f[j] = h[j]
  BY <1>6
<1> HIDE DEF f
<1>9. /\ f[1] = h[1] /\ f[2] = h[2] /\ f[3] = h[3] /\ f[4] = h[4]
      /\ f[5] = h[5] /\ f[6] = h[6] /\ f[7] = h[7] /\ f[8] = h[8]
      /\ f[9] = h[9] /\ f[10] = h[10] /\ f[11] = h[11] /\ f[12] = h[12]
  BY <1>8
<1>10. f = h \o payload
  BY DEF f
<1> QED BY <1>4, <1>6, <1>7, <1>9, <1>10, Zenon DEF FramedBytes

-----------------------------------------------------------------------------
(* The scan.                                                                *)

\* What send_handler needs to know of the bytes it gets: they hold the header of
\* frame() from position n + 1 on, and no tag before it or inside its source ID.
HeaderAt(data, n, dst) ==
    /\ n \in Nat /\ data \in Seq(Byte) /\ Len(data) >= n + 12
    /\ \A i \in 1 .. n : ~IsTag(data, i)
    /\ IsTag(data, n + 1) /\ IsTag(data, n + 7)
    /\ \A i \in n + 2 .. n + 6 : ~IsTag(data, i)
    /\ data[n + 7] = 73
    /\ IDAt(data, n + 9) = dst

\* The loop breaks at the second header entry and nowhere else, so that index is
\* there, the header is accepted and the ID is the destination.
LEMMA ScanOfHeader ==
    ASSUME NEW data, NEW n, NEW dst, HeaderAt(data, n, dst)
    PROVE  /\ n + 7 \in 1 .. Len(data)
           /\ \A i \in 1 .. Len(data) : ScanStops(data, i) <=> i = n + 7
           /\ SecondTag(data, n + 7) /\ ~HeaderRefused(data, n + 7)
           /\ \A i \in 1 .. Len(data) : SecondTag(data, i) => i = n + 7
<1>1. n \in Nat /\ data \in Seq(Byte) /\ Len(data) \in Nat /\ Len(data) >= n + 12
  BY LenProperties DEF HeaderAt
<1>2. FirstTag(data, n + 1)
  <2>1. (n + 1) - 1 = n
    BY <1>1
  <2> QED BY <2>1 DEF FirstTag, HeaderAt, NoTagBefore
<1>3. \A k \in 1 .. Len(data) : FirstTag(data, k) => k = n + 1
  <2> SUFFICES ASSUME NEW k \in 1 .. Len(data), FirstTag(data, k) PROVE k = n + 1
    OBVIOUS
  <2>1. IsTag(data, k) /\ \A j \in 1 .. k - 1 : ~IsTag(data, j)
    BY DEF FirstTag, NoTagBefore
  <2>2. ~(k <= n)
    BY <1>1, <2>1 DEF HeaderAt
  <2>3. ~(n + 1 < k)
    <3>1. n + 1 < k => n + 1 \in 1 .. k - 1
      BY <1>1
    <3> QED BY <2>1, <3>1 DEF HeaderAt
  <2> QED BY <1>1, <2>2, <2>3
<1>4. SecondTag(data, n + 7)
  <2>1. n + 1 \in 1 .. (n + 7) - 1 /\ (n + 1) + 1 = n + 2 /\ (n + 7) - 1 = n + 6
    BY <1>1
  <2> QED BY <1>2, <2>1 DEF SecondTag, HeaderAt
<1>5. \A i \in 1 .. Len(data) : SecondTag(data, i) => i = n + 7
  <2> SUFFICES ASSUME NEW i \in 1 .. Len(data), SecondTag(data, i) PROVE i = n + 7
    OBVIOUS
  <2>1. PICK k \in 1 .. i - 1 : FirstTag(data, k) /\ \A j \in k + 1 .. i - 1 : ~IsTag(data, j)
    BY DEF SecondTag
  <2>2. k = n + 1
    BY <1>3, <2>1
  <2>3. IsTag(data, i) /\ n + 1 < i
    BY <1>1, <2>1, <2>2 DEF SecondTag
  <2>4. ~(i <= n + 6)
    <3>1. i <= n + 6 => i \in n + 2 .. n + 6
      BY <1>1, <2>3
    <3> QED BY <2>3, <3>1 DEF HeaderAt
  <2>5. ~(n + 7 < i)
    <3>1. n + 7 < i => n + 7 \in k + 1 .. i - 1
      BY <1>1, <2>2
    <3> QED BY <2>1, <3>1 DEF HeaderAt
  <2> QED BY <1>1, <2>4, <2>5
<1>6. n + 7 \in 1 .. Len(data)
  BY <1>1
<1>7. \A i \in 1 .. Len(data) : ScanStops(data, i) <=> i = n + 7
  BY <1>4, <1>5, <1>6 DEF ScanStops
<1>8. ~HeaderRefused(data, n + 7)
  BY DEF HeaderRefused, HeaderAt
<1> QED BY <1>4, <1>5, <1>6, <1>7, <1>8

\* So it looks at nothing behind the header.
LEMMA ScanStaysInside ==
    ASSUME NEW data, NEW n, NEW dst, HeaderAt(data, n, dst)
    PROVE  ScanReads(data) \subseteq 1 .. Len(data)
<1> DEFINE scanned == {i \in 1 .. Len(data) : \A j \in 1 .. i - 1 : ~SecondTag(data, j)}
<1>1. n \in Nat /\ Len(data) \in Nat /\ Len(data) >= n + 12
  BY LenProperties DEF HeaderAt
<1>2. SecondTag(data, n + 7) /\ \A i \in 1 .. Len(data) : SecondTag(data, i) => i = n + 7
  BY ScanOfHeader
<1>3. ASSUME NEW i \in scanned PROVE i \in 1 .. n + 7
  <2>1. i \in 1 .. Len(data) /\ (n + 7 \in 1 .. i - 1 => ~SecondTag(data, n + 7))
    OBVIOUS
  <2> QED BY <1>1, <1>2, <2>1
<1>4. ASSUME NEW i \in scanned PROVE i \in 1 .. Len(data) /\ i + 1 \in 1 .. Len(data)
  BY <1>1, <1>3
<1>5. ASSUME NEW i \in scanned, SecondTag(data, i), NEW k \in 2 .. 5
      PROVE  i + k \in 1 .. Len(data)
  <2>1. i = n + 7
    BY <1>2, <1>5
  <2> QED BY <1>1, <2>1
<1>6. ScanReads(data) = scanned \cup {i + 1 : i \in {k \in scanned : data[k] = 73}}
                        \cup {i + k : i \in {j \in scanned : SecondTag(data, j)}, k \in 2 .. 5}
  BY DEF ScanReads
<1> HIDE DEF scanned
<1> QED BY <1>4, <1>5, <1>6

\* Positions of a header that fits.
LEMMA HeaderInRange ==
    ASSUME NEW n \in Nat, NEW m \in Nat, m >= n + 12
    PROVE  /\ n + 1 \in 1 .. m - 1 /\ n + 7 \in 1 .. m - 1
           /\ (n + 1) + 1 = n + 2 /\ (n + 7) + 1 = n + 8
OBVIOUS

\* The header of frame() at position n + 1, with no tag before it, is such a header.
LEMMA HeaderBytes ==
    ASSUME NEW data \in Seq(Byte), NEW n \in Nat, NEW length \in Nat,
           length = Len(data), length >= n + 12,
           NEW src \in Sources, NEW dst \in U32, NEW payload, NEW f, FramedBytes(f, src, dst, payload),
           \A j \in 1 .. 12 : data[n + j] = f[j],
           \A i \in 1 .. n - 1 : ~(data[i] = 73 /\ data[i + 1] = 68)
    PROVE  HeaderAt(data, n, dst)
<1>1. /\ data[n + 1] = f[1] /\ data[n + 2] = f[2] /\ data[n + 3] = f[3] /\ data[n + 4] = f[4]
      /\ data[n + 5] = f[5] /\ data[n + 6] = f[6] /\ data[n + 7] = f[7] /\ data[n + 8] = f[8]
      /\ data[n + 9] = f[9] /\ data[n + 10] = f[10] /\ data[n + 11] = f[11] /\ data[n + 12] = f[12]
  <2> DEFINE P(j) == data[n + j] = f[j]
  <2>1. \A j \in 1 .. 12 : P(j)
    OBVIOUS
  <2> HIDE DEF P
  <2>2. P(1) /\ P(2) /\ P(3) /\ P(4) /\ P(5) /\ P(6) /\ P(7) /\ P(8) /\ P(9) /\ P(10) /\ P(11) /\ P(12)
    BY <2>1
  <2> QED BY <2>2, Zenon DEF P
<1>2. /\ f[1] = 73 /\ f[2] = 68 /\ f[7] = 73 /\ f[8] = 68
      /\ f[3] = Big(src)[1] /\ f[4] = Big(src)[2] /\ f[5] = Big(src)[3] /\ f[6] = Big(src)[4]
      /\ f[9] = Big(dst)[1] /\ f[10] = Big(dst)[2] /\ f[11] = Big(dst)[3] /\ f[12] = Big(dst)[4]
  BY Zenon DEF FramedBytes
<1>3. data[n + 1] = 73 /\ data[n + 2] = 68 /\ data[n + 7] = 73 /\ data[n + 8] = 68
  BY <1>1, <1>2, Zenon
<1>4. \A i \in 1 .. n : ~IsTag(data, i)
  <2> SUFFICES ASSUME NEW i \in 1 .. n, data[i] = 73, data[i + 1] = 68 PROVE FALSE
    BY DEF IsTag
  <2>1. CASE i = n
    BY <1>3, <2>1
  <2>2. CASE i # n
    <3>1. i \in 1 .. n - 1
      BY <2>2
    <3> QED BY <3>1
  <2> QED BY <2>1, <2>2
<1>5. IsTag(data, n + 1) /\ IsTag(data, n + 7)
  <2>1. /\ n + 1 \in 1 .. length - 1 /\ n + 7 \in 1 .. length - 1
        /\ (n + 1) + 1 = n + 2 /\ (n + 7) + 1 = n + 8
    BY HeaderInRange
  <2> QED BY <1>3, <2>1 DEF IsTag
<1>6. \A i \in n + 2 .. n + 6 : ~IsTag(data, i)
  <2> DEFINE b == Big(src)
  <2>1. ~(b[1] = 73 /\ b[2] = 68) /\ ~(b[2] = 73 /\ b[3] = 68) /\ ~(b[3] = 73 /\ b[4] = 68)
    <3>1. Len(b) = 4
      BY SourcesAssumption, BigBytes
    <3>2. ~IsTag(b, 1) /\ ~IsTag(b, 2) /\ ~IsTag(b, 3)
      BY SourcesAssumption DEF NoTagBefore
    <3> HIDE DEF b
    <3> QED BY <3>1, <3>2 DEF IsTag
  <2>2. /\ data[n + 3] = b[1] /\ data[n + 4] = b[2] /\ data[n + 5] = b[3] /\ data[n + 6] = b[4]
    BY <1>1, <1>2, Zenon
  <2> HIDE DEF b
  <2> SUFFICES ASSUME NEW i \in n + 2 .. n + 6, data[i] = 73, data[i + 1] = 68 PROVE FALSE
    BY DEF IsTag
  <2>3. CASE i = n + 2
    BY <1>3, <2>3
  <2>4. CASE i = n + 3 /\ i + 1 = n + 4
    <3>1. data[n + 3] = 73 /\ data[n + 4] = 68
      BY <2>4
    <3> QED BY <2>1, <2>2, <3>1, Zenon
  <2>5. CASE i = n + 4 /\ i + 1 = n + 5
    <3>1. data[n + 4] = 73 /\ data[n + 5] = 68
      BY <2>5
    <3> QED BY <2>1, <2>2, <3>1, Zenon
  <2>6. CASE i = n + 5 /\ i + 1 = n + 6
    <3>1. data[n + 5] = 73 /\ data[n + 6] = 68
      BY <2>6
    <3> QED BY <2>1, <2>2, <3>1, Zenon
  <2>7. CASE i + 1 = n + 7
    BY <1>3, <2>7
  <2> QED BY <2>3, <2>4, <2>5, <2>6, <2>7
<1>7. IDAt(data, n + 9) = dst
  <2>1. (n + 9) + 1 = n + 10 /\ (n + 9) + 2 = n + 11 /\ (n + 9) + 3 = n + 12
    OBVIOUS
  <2>2. /\ data[n + 9] = dst \div 16777216 /\ data[n + 10] = (dst \div 65536) % 256
        /\ data[n + 11] = (dst \div 256) % 256 /\ data[n + 12] = dst % 256
    BY <1>1, <1>2, SMT DEF Big
  <2> QED BY <2>1, <2>2, RoundTrip, SMT DEF IDAt
<1> QED BY <1>3, <1>4, <1>5, <1>6, <1>7 DEF HeaderAt

\* A packet of SwarmFramer between a prefix and the trailer has such a header.
LEMMA PacketHasHeader ==
    ASSUME NEW src \in Sources, NEW dst \in U32, NEW payload \in Seq(Byte),
           NEW p \in Prefixes, NEW t \in Seq(Byte)
    PROVE  HeaderAt(p \o Framed(src, dst, payload) \o t, Len(p), dst)
<1> DEFINE f == Framed(src, dst, payload)
           q == p \o f
           data == q \o t
           n == Len(p)
<1>1. src \in U32 /\ p \in Seq(Byte) /\ n \in Nat /\ Len(t) \in Nat /\ Len(payload) \in Nat
  BY PacketConstants, SourcesAssumption, LenProperties
<1>2. FramedBytes(f, src, dst, payload)
  BY <1>1, FramedShape, Zenon
<1> HIDE DEF f
<1>3. IsCat(q, p, f)
  BY <1>1, <1>2, CatShape, Zenon DEF FramedBytes
<1> HIDE DEF q
<1>4. IsCat(data, q, t)
  BY <1>3, CatShape, Zenon DEF IsCat
<1> HIDE DEF data
<1>5. Len(f) = 12 + Len(payload) /\ Len(q) = n + Len(f) /\ Len(data) = Len(q) + Len(t)
  BY <1>2, <1>3, <1>4, Zenon DEF IsCat, FramedBytes
<1>6. data \in Seq(Byte) /\ Len(data) \in Nat /\ Len(data) >= n + 12
  <2>1. data \in Seq(Byte)
    BY <1>4, Zenon DEF IsCat
  <2> HIDE DEF n
  <2>2. Len(data) \in Nat /\ Len(data) >= n + 12
    BY <1>1, <1>5
  <2> QED BY <2>1, <2>2
<1>7. \A j \in 1 .. n : data[j] = p[j]
  <2>1. \A j \in 1 .. n : j \in 1 .. Len(q)
    BY <1>1, <1>5
  <2> QED BY <1>3, <1>4, <2>1, Zenon DEF IsCat
<1>8. \A j \in 1 .. 12 : data[n + j] = f[j]
  <2>1. \A j \in 1 .. 12 : n + j \in 1 .. Len(q) /\ j \in 1 .. Len(f)
    BY <1>1, <1>5
  <2> QED BY <1>3, <1>4, <2>1, Zenon DEF IsCat
<1>9. ASSUME NEW i \in 1 .. n - 1 PROVE ~(data[i] = 73 /\ data[i + 1] = 68)
  <2>1. i \in 1 .. n /\ i + 1 \in 1 .. n
    BY <1>1
  <2>2. data[i] = p[i] /\ data[i + 1] = p[i + 1]
    BY <1>7, <2>1, Zenon
  <2>3. ~IsTag(p, i)
    BY <2>1, PrefixesAssumption, Zenon DEF NoTagBefore
  <2> QED BY <2>2, <2>3, Zenon DEF IsTag
<1>10. HeaderAt(data, n, dst)
  <2> HIDE DEF n
  <2> QED BY <1>1, <1>2, <1>6, <1>8, <1>9, HeaderBytes
<1> QED BY <1>10 DEF data, q, f

\* The receiver recognises the header and takes the source and the payload from it.
LEMMA Deframed ==
    ASSUME NEW src \in U32, NEW dst \in U32, NEW payload \in Seq(Byte),
           NEW f, f = Framed(src, dst, payload)
    PROVE  HasHeader(f) /\ IDAt(f, 3) = src /\ SubSeq(f, 13, Len(f)) = payload
<1>1. FramedBytes(f, src, dst, payload)
  BY FramedShape
<1>2. Len(payload) \in Nat /\ Len(f) = 12 + Len(payload)
  BY <1>1, LenProperties DEF FramedBytes
<1>3. HasHeader(f)
  <2>1. f[1] = 73 /\ f[2] = 68 /\ f[7] = 73 /\ f[8] = 68
    BY <1>1, Zenon DEF FramedBytes
  <2>2. 1 \in 1 .. Len(f) - 1 /\ 7 \in 1 .. Len(f) - 1
    BY <1>2
  <2> QED BY <2>1, <2>2 DEF HasHeader, IsTag
<1>4. IDAt(f, 3) = src
  <2>1. /\ f[3] = src \div 16777216 /\ f[4] = (src \div 65536) % 256
        /\ f[5] = (src \div 256) % 256 /\ f[6] = src % 256
    BY <1>1, SMT DEF FramedBytes, Big
  <2> QED BY <2>1, RoundTrip, SMT DEF IDAt
<1>5. SubSeq(f, 13, Len(f)) = payload
  <2> DEFINE u == SubSeq(f, 13, Len(f))
  <2>1. \A j \in 1 .. Len(payload) : f[12 + j] = payload[j]
    BY <1>1, Zenon DEF FramedBytes
  <2>2. \A i \in 13 .. Len(f) : f[i] \in Byte
    <3>1. \A i \in 13 .. Len(f) : i \in 1 .. Len(f)
      OBVIOUS
    <3> QED BY <1>1, <3>1, ElementOfSeq DEF FramedBytes
  <2>3. 13 \in Int /\ Len(f) \in Int
    BY <1>2
  <2>4. /\ u \in Seq(Byte) /\ Len(u) = IF 13 <= Len(f) THEN Len(f) - 13 + 1 ELSE 0
        /\ \A i \in 1 .. Len(f) - 13 + 1 : u[i] = f[13 + i - 1]
    BY <2>2, <2>3, SubSeqProperties
  <2> HIDE DEF u
  <2>5. Len(u) = Len(payload)
    BY <1>2, <2>4
  <2>6. \A i \in 1 .. Len(u) : u[i] = payload[i]
    <3> SUFFICES ASSUME NEW i \in 1 .. Len(payload) PROVE u[i] = payload[i]
      BY <2>5
    <3>1. i \in 1 .. Len(f) - 13 + 1 /\ 13 + i - 1 = 12 + i
      BY <1>2
    <3> QED BY <2>1, <2>4, <3>1
  <2>7. u = payload
    BY <2>4, <2>5, <2>6, SeqEqual, Zenon
  <2> QED BY <2>7 DEF u
<1> QED BY <1>3, <1>4, <1>5

-----------------------------------------------------------------------------
(* The invariant.                                                           *)

\* The buffer of a packet under way is the one that frame() built.
BufferIsFramed ==
    phase # "idle" =>
        prefix \in Prefixes /\ body = Framed(node_sourceId, asked.id, asked.payload)

\* FreedOnce, and no call before the packet is sent or refused.
FreedCount == freed = IF phase \in {"sent", "refused", "received"} THEN 1 ELSE 0

PacketInv == TypeOK /\ BufferIsFramed /\ FreedCount /\ ScanFindsDestination /\ DeframedAsFramed

\* Whatever the mask file holds, update_adjacency_matrix leaves zeros and ones.
LEMMA MaskReadIsRow ==
    ASSUME TypeOK
    PROVE  MaskRead \subseteq Row
<1>1. CASE maskFile = Absent
  BY <1>1 DEF TypeOK, MaskRead
<1>2. CASE maskFile # Absent /\ maskFile = <<>>
  BY <1>2 DEF MaskRead
<1>3. CASE maskFile # Absent /\ maskFile # <<>>
  <2>1. maskFile \in Seq(Row)
    BY <1>3, PacketConstants DEF TypeOK
  <2>2. Len(maskFile) \in Nat /\ Len(maskFile) # 0
    BY <1>3, <2>1, EmptySeq, LenProperties
  <2>3. NodeLine \in Nat /\ NodeLine >= 1
    BY SourcesAssumption DEF TypeOK, NodeLine, U32, BASE
  <2>4. (IF NodeLine <= Len(maskFile) THEN NodeLine ELSE Len(maskFile)) \in 1 .. Len(maskFile)
    BY <2>2, <2>3
  <2>5. maskFile[IF NodeLine <= Len(maskFile) THEN NodeLine ELSE Len(maskFile)] \in Row
    BY <2>1, <2>4, ElementOfSeq
  <2> QED BY <1>3, <2>5, Zenon DEF MaskRead
<1> QED BY <1>1, <1>2, <1>3

\* Every initial state of a node satisfies the invariant: no packet is under way.
LEMMA PacketInit == Init => PacketInv
<1> SUFFICES ASSUME Init PROVE PacketInv
  OBVIOUS
<1>1. 0 \in U32 /\ BROADCAST \in U32
  BY DEF U32, BROADCAST, Byte
<1>2. <<>> \in Seq(Byte) /\ Nothing \in Contents
  BY <1>1 DEF Nothing, Contents
<1>3. adj_M \in Row
  BY DEF Init, Row
<1>4. TypeOK
  BY <1>1, <1>2, <1>3 DEF Init, TypeOK, Phases
<1> QED BY <1>4 DEF Init, PacketInv, BufferIsFramed, FreedCount, ScanFindsDestination, DeframedAsFramed

\* Every handler, command and change of the mask file keeps the invariant.
LEMMA PacketStep == PacketInv /\ [Next]_vars => PacketInv'
<1> SUFFICES ASSUME PacketInv, [Next]_vars PROVE PacketInv'
  OBVIOUS
<1> USE DEF PacketInv
<1>1. ASSUME NEW d \in Dests, SetDestID(d) PROVE PacketInv'
  <2>1. d \in U32
    BY PacketConstants
  <2> QED BY <1>1, <2>1 DEF SetDestID, packetVars, TypeOK, BufferIsFramed, FreedCount,
             ScanFindsDestination, DeframedAsFramed
<1>2. ASSUME NEW f \in MaskFiles \cup {Absent}, EditMask(f) PROVE PacketInv'
  BY <1>2 DEF EditMask, packetVars, TypeOK, BufferIsFramed, FreedCount,
     ScanFindsDestination, DeframedAsFramed
<1>3. ASSUME NEW payload \in Payloads, NEW p \in Prefixes, Frame(payload, p) PROVE PacketInv'
  <2>1. payload \in Seq(Byte) /\ p \in Seq(Byte) /\ node_sourceId \in U32 /\ node_destId \in U32
    BY PacketConstants, SourcesAssumption DEF TypeOK
  <2>2. body' \in Seq(Byte)
    BY <1>3, <2>1, FramedShape DEF Frame, FramedBytes
  <2>3. asked' \in Contents /\ asked'.id = node_destId /\ asked'.payload = payload
    BY <1>3, <2>1 DEF Frame, Contents
  <2>4. TypeOK'
    BY <1>3, <2>1, <2>2, <2>3 DEF Frame, nodeVars, TypeOK, Phases
  <2>5. BufferIsFramed'
    BY <1>3, <2>3 DEF Frame, nodeVars, BufferIsFramed
  <2>6. FreedCount' /\ ScanFindsDestination' /\ DeframedAsFramed'
    BY <1>3 DEF Frame, FreedCount, ScanFindsDestination, DeframedAsFramed
  <2> QED BY <2>4, <2>5, <2>6
<1>4. CASE SendScan
  <2>1. /\ node_sourceId \in Sources /\ asked.id \in U32 /\ asked.payload \in Seq(Byte)
        /\ prefix \in Prefixes /\ body = Framed(node_sourceId, asked.id, asked.payload)
        /\ Trailer \in Seq(Byte) /\ phase = "framed"
    BY <1>4, PacketConstants DEF SendScan, TypeOK, Contents, BufferIsFramed
  <2>2. HeaderAt(Data, Len(prefix), asked.id)
    BY <2>1, PacketHasHeader DEF Data
  <2>3. PICK i \in 1 .. Len(Data) :
            /\ ScanStops(Data, i)
            /\ receiverID' = IF SecondTag(Data, i) THEN IDAt(Data, i + 2)
                             ELSE IF \E j \in 1 .. Len(Data) : IsTag(Data, j) THEN 1 ELSE 0
            /\ freed' = IF HeaderRefused(Data, i) THEN freed + 1 ELSE freed
    BY <1>4, Zenon DEF SendScan
  <2>4. i = Len(prefix) + 7 /\ SecondTag(Data, i) /\ ~HeaderRefused(Data, i)
    BY <2>2, <2>3, ScanOfHeader
  <2>5. IDAt(Data, i + 2) = asked.id
    <3>1. Len(prefix) \in Nat /\ IDAt(Data, Len(prefix) + 9) = asked.id
      BY <2>2, Zenon DEF HeaderAt
    <3>2. i + 2 = Len(prefix) + 9
      BY <2>4, <3>1
    <3> QED BY <3>1, <3>2
  <2>6. receiverID' = asked.id /\ freed' = freed
    BY <2>3, <2>4, <2>5, Zenon
  <2>7. phase' = "scanned" /\ UNCHANGED <<nodeVars, adj_M, packetVars, out>>
    BY <1>4 DEF SendScan
  <2>8. TypeOK'
    BY <2>1, <2>6, <2>7 DEF TypeOK, nodeVars, packetVars, Phases
  <2> QED BY <2>1, <2>6, <2>7, <2>8 DEF nodeVars, packetVars, BufferIsFramed, FreedCount,
             ScanFindsDestination, DeframedAsFramed
<1>5. CASE SendBroadcast
  <2>1. adj_M' \in Row
    BY <1>5, MaskReadIsRow DEF SendBroadcast, TypeOK
  <2>2. phase' = "sent" /\ freed' = 1
    BY <1>5 DEF SendBroadcast, FreedCount
  <2> QED BY <1>5, <2>1, <2>2 DEF SendBroadcast, nodeVars, packetVars, TypeOK, Phases,
             BufferIsFramed, FreedCount, ScanFindsDestination, DeframedAsFramed
<1>6. CASE SendUnicast
  <2>1. adj_M' \in Row /\ phase' \in {"sent", "refused"}
    BY <1>6, MaskReadIsRow DEF SendUnicast
  <2>2. freed' = 1 /\ phase = "scanned"
    BY <1>6 DEF SendUnicast, FreedCount
  <2>3. UNCHANGED <<nodeVars, packetVars, receiverID, out>>
    BY <1>6 DEF SendUnicast
  <2> QED BY <2>1, <2>2, <2>3 DEF nodeVars, packetVars, TypeOK, Phases,
             BufferIsFramed, FreedCount, ScanFindsDestination, DeframedAsFramed
<1>7. CASE FramedIn
  <2>1. /\ node_sourceId \in U32 /\ asked.id \in U32 /\ asked.payload \in Seq(Byte)
        /\ body = Framed(node_sourceId, asked.id, asked.payload) /\ phase = "sent"
    BY <1>7, SourcesAssumption DEF FramedIn, TypeOK, Contents, BufferIsFramed
  <2>2. out' = [id |-> node_sourceId, payload |-> asked.payload]
    <3>1. HasHeader(body) /\ IDAt(body, 3) = node_sourceId /\ SubSeq(body, 13, Len(body)) = asked.payload
      BY <2>1, Deframed
    <3> QED BY <1>7, <3>1, Zenon DEF FramedIn
  <2>3. phase' = "received" /\ UNCHANGED <<nodeVars, adj_M, packetVars, receiverID, freed>>
    BY <1>7 DEF FramedIn
  <2>4. out' \in Contents
    BY <2>1, <2>2 DEF Contents
  <2> QED BY <2>1, <2>2, <2>3, <2>4 DEF nodeVars, packetVars, TypeOK, Phases,
             BufferIsFramed, FreedCount, ScanFindsDestination, DeframedAsFramed
<1>8. CASE PacketEnds
  <2>1. 0 \in U32 /\ <<>> \in Seq(Byte) /\ Nothing \in Contents
    BY DEF U32, Byte, Nothing, Contents
  <2> QED BY <1>8, <2>1 DEF PacketEnds, nodeVars, TypeOK, Phases,
             BufferIsFramed, FreedCount, ScanFindsDestination, DeframedAsFramed
<1>9. CASE UNCHANGED vars
  BY <1>9 DEF vars, nodeVars, packetVars, TypeOK, BufferIsFramed, FreedCount,
     ScanFindsDestination, DeframedAsFramed
<1> QED BY <1>1, <1>2, <1>3, <1>4, <1>5, <1>6, <1>7, <1>8, <1>9 DEF Next

\* The invariant holds in every state of a packet's way.
LEMMA PacketInvHolds == Spec => []PacketInv
BY PacketInit, PacketStep, PTL DEF Spec

-----------------------------------------------------------------------------
(* The theorems.                                                            *)

\* The values of the variables: IDs stay 32 bits wide, bytes stay bytes.
THEOREM TypeCorrect == Spec => []TypeOK
<1>1. PacketInv => TypeOK
  BY DEF PacketInv
<1> QED BY <1>1, PacketInvHolds, PTL

\* For every payload, prefix and trailer, whatever tags they hold, send_handler
\* finds the destination that frame() wrote.
THEOREM DestinationFound == Spec => []ScanFindsDestination
<1>1. PacketInv => ScanFindsDestination
  BY DEF PacketInv
<1> QED BY <1>1, PacketInvHolds, PTL

\* send_handler gives the buffer of such a packet back once.
THEOREM BufferFreedOnce == Spec => []FreedOnce
<1>1. PacketInv => FreedOnce
  BY DEF PacketInv, FreedCount, FreedOnce
<1> QED BY <1>1, PacketInvHolds, PTL

\* The scan of send_handler and framedIn_handler's subtraction stay inside the buffer
\* of a packet of SwarmFramer, whatever stands before, in and behind it.
THEOREM ReadsStayInside == Spec => []ReadsInBounds
<1>1. PacketInv => ReadsInBounds
  <2> SUFFICES ASSUME PacketInv, phase \in {"framed", "sent"}
               PROVE  ScanReads(Data) \subseteq 1 .. Len(Data) /\ Len(body) >= 12
    BY DEF ReadsInBounds
  <2>1. /\ node_sourceId \in Sources /\ asked.id \in U32 /\ asked.payload \in Seq(Byte)
        /\ prefix \in Prefixes /\ body = Framed(node_sourceId, asked.id, asked.payload)
        /\ Trailer \in Seq(Byte)
    BY PacketConstants DEF PacketInv, TypeOK, Contents, BufferIsFramed
  <2>2. HeaderAt(Data, Len(prefix), asked.id)
    BY <2>1, PacketHasHeader DEF Data
  <2>3. ScanReads(Data) \subseteq 1 .. Len(Data)
    BY <2>2, ScanStaysInside
  <2>4. node_sourceId \in U32 /\ Len(asked.payload) \in Nat
    BY <2>1, SourcesAssumption, LenProperties
  <2>5. FramedBytes(body, node_sourceId, asked.id, asked.payload)
    BY <2>1, <2>4, FramedShape
  <2>6. Len(body) = 12 + Len(asked.payload)
    BY <2>5, Zenon DEF FramedBytes
  <2> QED BY <2>3, <2>4, <2>6
<1> QED BY <1>1, PacketInvHolds, PTL

\* framedIn_handler undoes frame().
THEOREM DeframingUndoesFraming == Spec => []DeframedAsFramed
<1>1. PacketInv => DeframedAsFramed
  BY DEF PacketInv
<1> QED BY <1>1, PacketInvHolds, PTL

\* check_adjacency_matrix lets no packet for a node pass that the file forbids.
THEOREM MaskIsObeyed == Spec => MaskObeyed
<1>1. PacketInv /\ [Next]_vars =>
        [/\ SendUnicast /\ phase' = "sent"
         /\ maskFile # Absent /\ NodeLine \in 1 .. Len(maskFile) /\ asked.id - BASE \in Slots
         => maskFile[NodeLine][asked.id - BASE] = 1]_vars
  <2> SUFFICES ASSUME PacketInv, SendUnicast, phase' = "sent", maskFile # Absent,
                      NodeLine \in 1 .. Len(maskFile), asked.id - BASE \in Slots
               PROVE  maskFile[NodeLine][asked.id - BASE] = 1
    OBVIOUS
  <2>1. receiverID = asked.id
    BY DEF PacketInv, ScanFindsDestination, SendUnicast
  <2>2. maskFile # <<>> /\ NodeLine <= Len(maskFile)
    <3>1. maskFile \in Seq(Row)
      BY PacketConstants DEF PacketInv, TypeOK
    <3>2. Len(maskFile) \in Nat
      BY <3>1, LenProperties
    <3> QED BY <3>1, <3>2, EmptySeq
  <2>3. MaskRead = {maskFile[NodeLine]}
    BY <2>2, Zenon DEF MaskRead
  <2>4. PICK row \in MaskRead : \E ok \in Allowed(row, receiverID) :
            phase' = IF ok THEN "sent" ELSE "refused"
    BY DEF SendUnicast
  <2>5. PICK ok \in Allowed(row, receiverID) : phase' = IF ok THEN "sent" ELSE "refused"
    BY <2>4
  <2>6. ok
    BY <2>5
  <2>7. Allowed(row, receiverID) = {row[asked.id - BASE] = 1}
    BY <2>1 DEF Allowed
  <2> QED BY <2>3, <2>5, <2>6, <2>7
<1> QED BY <1>1, PacketInvHolds, PTL DEF Spec, MaskObeyed
=============================================================================
