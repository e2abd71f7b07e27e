-------------------------- MODULE PsStream_proofs --------------------------
(* Safety of PsStream for frames, segments, packets and limits of any size,  *)
(* and any number of frames and losses.                                      *)
EXTENDS PsStream, TLAPS, SequenceTheorems

-----------------------------------------------------------------------------
(* Sequences and division.                                                   *)

LEMMA FunctionIsSeq ==
  ASSUME NEW S, NEW n \in Nat, NEW f \in [1 .. n -> S]
  PROVE  f \in Seq(S) /\ Len(f) = n /\ DOMAIN f = 1 .. n
BY SeqDef

LEMMA Joined ==
  ASSUME NEW S, NEW s \in Seq(S), NEW t \in Seq(S)
  PROVE  /\ s \o t \in Seq(S) /\ Len(s \o t) = Len(s) + Len(t)
         /\ \A i \in 1 .. Len(s) : (s \o t)[i] = s[i]
         /\ \A i \in 1 .. Len(t) : (s \o t)[Len(s) + i] = t[i]
OBVIOUS

LEMMA BytesJoined ==
  \A s, t \in Seq(Bytes) :
    /\ s \o t \in Seq(Bytes) /\ Len(s \o t) = Len(s) + Len(t)
    /\ \A i \in 1 .. Len(s) : (s \o t)[i] = s[i]
    /\ \A i \in 1 .. Len(t) : (s \o t)[Len(s) + i] = t[i]
BY Joined

LEMMA JoinedThree ==
  ASSUME NEW S, NEW s \in Seq(S), NEW t \in Seq(S), NEW u \in Seq(S),
         NEW j, j = s \o t \o u
  PROVE  /\ j \in Seq(S) /\ Len(j) = Len(s) + Len(t) + Len(u)
         /\ \A i \in 1 .. Len(s) : j[i] = s[i]
         /\ \A i \in 1 .. Len(t) : j[Len(s) + i] = t[i]
         /\ \A i \in 1 .. Len(u) : j[Len(s) + Len(t) + i] = u[i]
OBVIOUS

LEMMA JoinedRight ==
  ASSUME NEW S, NEW s \in Seq(S), NEW t \in Seq(S), NEW u \in Seq(S),
         NEW j, j = s \o (t \o u)
  PROVE  /\ Len(j) = Len(s) + Len(t) + Len(u)
         /\ \A i \in 1 .. Len(t) : j[Len(s) + i] = t[i]
         /\ \A i \in 1 .. Len(u) : j[Len(s) + Len(t) + i] = u[i]
<1>1. s \o (t \o u) = s \o t \o u
  BY ConcatAssociative
<1> QED BY <1>1, JoinedThree

LEMMA BytesJoinedRight ==
  \A s, t, u \in Seq(Bytes) :
    /\ Len(s \o (t \o u)) = Len(s) + Len(t) + Len(u)
    /\ \A i \in 1 .. Len(t) : (s \o (t \o u))[Len(s) + i] = t[i]
    /\ \A i \in 1 .. Len(u) : (s \o (t \o u))[Len(s) + Len(t) + i] = u[i]
BY JoinedRight

LEMMA Prefixed ==
  ASSUME NEW S, NEW s \in Seq(S), NEW a \in Nat, NEW b \in Nat, a <= b, b <= Len(s)
  PROVE  /\ SubSeq(s, a + 1, b) \in Seq(S) /\ Len(SubSeq(s, a + 1, b)) = b - a
         /\ SubSeq(s, 1, a) \o SubSeq(s, a + 1, b) = SubSeq(s, 1, b)
<1>1. /\ SubSeq(s, a + 1, b) \in Seq(S) /\ Len(SubSeq(s, a + 1, b)) = b - a
      /\ SubSeq(s, 1, a) \in Seq(S) /\ Len(SubSeq(s, 1, a)) = a
      /\ SubSeq(s, 1, b) \in Seq(S) /\ Len(SubSeq(s, 1, b)) = b
  OBVIOUS
<1>2. /\ \A i \in 1 .. b - a : SubSeq(s, a + 1, b)[i] = s[a + i]
      /\ \A i \in 1 .. a : SubSeq(s, 1, a)[i] = s[i]
      /\ \A i \in 1 .. b : SubSeq(s, 1, b)[i] = s[i]
  OBVIOUS
<1> DEFINE j == SubSeq(s, 1, a) \o SubSeq(s, a + 1, b)
<1>3. j \in Seq(S) /\ Len(j) = b
  BY <1>1
<1>4. \A i \in 1 .. b : j[i] = s[i]
  BY <1>1, <1>2
<1> QED BY <1>1, <1>2, <1>3, <1>4, SeqEqual

LEMMA Division ==
  ASSUME NEW a \in Nat, NEW m \in Nat \ {0}
  PROVE  \E q \in Nat, r \in 0 .. m - 1 : q = a \div m /\ r = a % m /\ a = m * q + r
<1>1. a \div m \in Nat /\ a % m \in 0 .. m - 1
  OBVIOUS
<1>2. \A q \in Nat, r \in 0 .. m - 1 : q = a \div m /\ r = a % m => a = m * q + r
  OBVIOUS
<1> QED BY <1>1, <1>2

(* Quotient and remainder are the only ones.                                 *)
LEMMA DivisionUnique ==
  ASSUME NEW m \in Nat \ {0}, NEW q \in Nat, NEW r \in 0 .. m - 1,
         NEW p \in Nat, NEW s \in 0 .. m - 1, m * q + r = m * p + s
  PROVE  q = p /\ r = s
<1>1. \A x, y \in Nat : x < y => m * x + m <= m * y
  <2> SUFFICES ASSUME NEW x \in Nat, NEW y \in Nat, x < y PROVE m * x + m <= m * y
    OBVIOUS
  <2>1. PICK d \in Nat : y = x + 1 + d
    BY y - x - 1 \in Nat
  <2>2. m * y = m * x + m + m * d /\ m * d >= 0
    BY <2>1
  <2> QED BY <2>2
<1>2. ~(q < p)
  BY <1>1
<1>3. ~(p < q)
  BY <1>1
<1> QED BY <1>2, <1>3

LEMMA Remainder ==
  ASSUME NEW m \in Nat \ {0}, NEW q \in Nat, NEW r \in 0 .. m - 1
  PROVE  (m * q + r) % m = r /\ (m * q + r) \div m = q
<1>1. m * q \in Nat /\ m * q + r \in Nat
  OBVIOUS
<1>2. PICK p \in Nat, s \in 0 .. m - 1 :
        p = (m * q + r) \div m /\ s = (m * q + r) % m /\ m * q + r = m * p + s
  BY <1>1, Division
<1>3. q = p /\ r = s
  BY <1>2, DivisionUnique
<1> QED BY <1>2, <1>3, Zenon

-----------------------------------------------------------------------------
(* Typing.  What the packer has still to take lies inside the frame.         *)

TypeInv == TypeOK /\ offset + remain <= size

LEMMA Units ==
  /\ ClockLow \in Nat \ {0} /\ ClockLow * ClockLow \in Nat \ {0}
  /\ PtsValues \in Nat \ {0} /\ PtsValues = 4 * (ClockLow * ClockLow)
<1>1. \A x \in Nat \ {0} : x * x \in Nat \ {0} /\ 4 * x * x = 4 * (x * x)
  OBVIOUS
<1> QED BY <1>1, SizesAssumption DEF PtsValues

LEMMA ClockType == ASSUME NEW t \in Nat PROVE Clock(t) \in Int \X Int \X Int
<1>1. /\ t \div (ClockLow * ClockLow) \in Nat /\ t \div ClockLow \in Nat
      /\ t % ClockLow \in Int
  BY Units, Division
<1>2. (t \div (ClockLow * ClockLow)) % 8 \in Int /\ (t \div ClockLow) % ClockLow \in Int
  BY <1>1, Units
<1> QED BY <1>1, <1>2 DEF Clock

(* The pieces of a stream and their lengths.                                 *)
LEMMA PieceTypes ==
  /\ \A n \in Nat : PesHeader(n) \in Seq(Bytes) /\ Len(PesHeader(n)) = 19
  /\ \A from, n \in Nat : Data(from, n) \in Seq(Bytes) /\ Len(Data(from, n)) = n
  /\ SysHeader \in Seq(Bytes) /\ Len(SysHeader) = 18
  /\ PsmHeader \in Seq(Bytes) /\ Len(PsmHeader) = 24
  /\ \A t \in Nat : PsHeader(t) \in Seq(Bytes) /\ Len(PsHeader(t)) = 14
<1>1. \A of \in {"BA", "BB", "BC", "E0", "es", "beyond"}, at, len \in Nat :
        Byte(of, at, len) \in Bytes
  BY DEF Byte, Bytes
<1>2. \A id \in {"BB", "BC", "E0"}, b, len \in Nat :
        Header(id, b, len) \in [1 .. b -> Bytes]
  BY <1>1 DEF Header
<1>3. \A id \in {"BB", "BC", "E0"}, b, len \in Nat :
        Header(id, b, len) \in Seq(Bytes) /\ Len(Header(id, b, len)) = b
  BY <1>2, FunctionIsSeq
<1>4. \A from, n \in Nat : Data(from, n) \in [1 .. n -> Bytes]
  BY <1>1 DEF Data
<1>5. \A from, n \in Nat : Data(from, n) \in Seq(Bytes) /\ Len(Data(from, n)) = n
  BY <1>4, FunctionIsSeq
<1>6. ASSUME NEW t \in Nat
      PROVE  PsHeader(t) \in [1 .. 14 -> Bytes]
  <2>1. \A i \in 1 .. 14 : [Byte("BA", i, 0) EXCEPT !.clock = Clock(t)] \in Bytes
    BY ClockType DEF Byte, Bytes
  <2> QED BY <2>1 DEF PsHeader
<1>7. \A t \in Nat : PsHeader(t) \in Seq(Bytes) /\ Len(PsHeader(t)) = 14
  BY <1>6, FunctionIsSeq
<1>8. \A n \in Nat : PesHeader(n) \in Seq(Bytes) /\ Len(PesHeader(n)) = 19
  <2>1. \A n \in Nat : n + 13 \in Nat
    OBVIOUS
  <2> QED BY <1>3, <2>1 DEF PesHeader
<1>9. /\ SysHeader \in Seq(Bytes) /\ Len(SysHeader) = 18
      /\ PsmHeader \in Seq(Bytes) /\ Len(PsmHeader) = 24
  BY <1>3 DEF SysHeader, PsmHeader
<1> QED BY <1>5, <1>7, <1>8, <1>9

LEMMA TypeInit == Init => TypeInv
<1>1. <<>> \in Seq(Bytes) /\ Len(<<>>) = 0
  OBVIOUS
<1> QED BY <1>1, Units, SizesAssumption DEF Init, TypeInv, TypeOK

LEMMA TypeEncoded ==
  ASSUME TypeInv, NEW n \in FrameSizes, NEW key \in BOOLEAN, Encoded(n, key)
  PROVE  TypeInv'
<1>1. /\ frames' \in 0 .. MaxFrames /\ pc' = "pack" /\ size' = n /\ remain' = n /\ offset' = 0
      /\ n \in Nat \ {0}
  BY SizesAssumption DEF TypeInv, TypeOK, Encoded
<1>2. pts' \in 0 .. PtsValues - 1
  <2>1. pts + ClockStep \in Nat
    BY SizesAssumption, Units DEF TypeInv, TypeOK
  <2> QED BY <2>1, Units, Division DEF Encoded
<1>3. ps' \in Seq(Bytes)
  <2>1. pts \in Nat
    BY Units DEF TypeInv, TypeOK
  <2>2. /\ PsHeader(pts) \in Seq(Bytes) /\ SysHeader \o PsmHeader \in Seq(Bytes)
        /\ <<>> \in Seq(Bytes)
    BY <2>1, PieceTypes, Joined
  <2> QED BY <2>2, Joined DEF Encoded
<1>4. sent' = 0 /\ rx' = <<>> /\ lost' = 0 /\ pack' = 0 /\ left' = 0 /\ out' = <<>>
  BY DEF Encoded
<1>5. <<>> \in Seq(Bytes) /\ Len(ps') \in Nat
  BY <1>3
<1> QED BY <1>1, <1>2, <1>3, <1>4, <1>5, SizesAssumption DEF TypeInv, TypeOK

LEMMA TypePes ==
  ASSUME TypeInv, NEW n \in Nat, Pes(n)
  PROVE  /\ ps' \in Seq(Bytes) /\ Len(ps') = Len(ps) + 19 + n
         /\ \A i \in 1 .. Len(ps) : ps'[i] = ps[i]
         /\ \A i \in 1 .. 19 : ps'[Len(ps) + i] = PesHeader(n)[i]
         /\ \A i \in 1 .. n : ps'[Len(ps) + 19 + i] = Data(offset, n)[i]
<1>1. /\ ps \in Seq(Bytes) /\ Len(ps) \in Nat /\ PesHeader(n) \in Seq(Bytes)
      /\ Len(PesHeader(n)) = 19 /\ Data(offset, n) \in Seq(Bytes) /\ Len(Data(offset, n)) = n
  BY PieceTypes DEF TypeInv, TypeOK
<1>2. ps' = ps \o PesHeader(n) \o Data(offset, n)
  BY DEF Pes
<1>3. /\ ps' \in Seq(Bytes) /\ Len(ps') = Len(ps) + Len(PesHeader(n)) + Len(Data(offset, n))
      /\ \A i \in 1 .. Len(ps) : ps'[i] = ps[i]
      /\ \A i \in 1 .. Len(PesHeader(n)) : ps'[Len(ps) + i] = PesHeader(n)[i]
      /\ \A i \in 1 .. Len(Data(offset, n)) :
           ps'[Len(ps) + Len(PesHeader(n)) + i] = Data(offset, n)[i]
  <2> DEFINE h == PesHeader(n)
             d == Data(offset, n)
  <2>1. h \in Seq(Bytes) /\ d \in Seq(Bytes) /\ ps \in Seq(Bytes) /\ ps' = ps \o h \o d
    BY <1>1, <1>2
  <2> HIDE DEF h, d
  <2>2. /\ ps' \in Seq(Bytes) /\ Len(ps') = Len(ps) + Len(h) + Len(d)
        /\ \A i \in 1 .. Len(ps) : ps'[i] = ps[i]
        /\ \A i \in 1 .. Len(h) : ps'[Len(ps) + i] = h[i]
        /\ \A i \in 1 .. Len(d) : ps'[Len(ps) + Len(h) + i] = d[i]
    BY <2>1, JoinedThree
  <2> QED BY <2>2 DEF h, d
<1>4. Len(ps') = Len(ps) + 19 + n
  BY <1>1, <1>3
<1>5. /\ \A i \in 1 .. 19 : ps'[Len(ps) + i] = PesHeader(n)[i]
      /\ \A i \in 1 .. n : ps'[Len(ps) + 19 + i] = Data(offset, n)[i]
  BY <1>1, <1>3, Zenon
<1> QED BY <1>3, <1>4, <1>5

LEMMA TypePack == ASSUME TypeInv, Segment \/ LastSegment PROVE TypeInv'
<1>1. /\ PayloadMax \in Nat \ {0} /\ remain \in Nat /\ size \in Nat
      /\ Len(ps) \in Nat /\ sent \in 0 .. Len(ps)
  BY SizesAssumption DEF TypeInv, TypeOK
<1>2. CASE Segment
  <2>1. ps' \in Seq(Bytes) /\ sent' \in 0 .. Len(ps')
    <3>1. PayloadMax \in Nat /\ Pes(PayloadMax) /\ UNCHANGED sent
      BY <1>1, <1>2 DEF Segment, netVars
    <3>2. ps' \in Seq(Bytes) /\ Len(ps') = Len(ps) + 19 + PayloadMax
      BY <3>1, TypePes
    <3> QED BY <1>1, <3>1, <3>2
  <2>2. /\ remain' \in 0 .. size /\ offset' \in 0 .. size /\ offset' + remain' <= size
        /\ offset' + (IF remain' > PayloadMax THEN PayloadMax ELSE remain') <= size
    BY <1>1, <1>2 DEF Segment, TypeInv, TypeOK
  <2>3. UNCHANGED <<frames, pts, pc, size, sent, rx, lost, pack, left, out>>
    BY <1>2 DEF Segment, netVars, parseVars
  <2> QED BY <1>1, <2>1, <2>2, <2>3 DEF TypeInv, TypeOK
<1>3. CASE LastSegment
  <2>1. ps' \in Seq(Bytes) /\ sent' \in 0 .. Len(ps')
    <3>1. remain \in Nat /\ Pes(remain) /\ UNCHANGED sent
      BY <1>1, <1>3 DEF LastSegment, netVars
    <3>2. ps' \in Seq(Bytes) /\ Len(ps') = Len(ps) + 19 + remain
      BY <3>1, TypePes
    <3> QED BY <1>1, <3>1, <3>2
  <2>2. /\ UNCHANGED <<frames, pts, size, remain, offset, sent, rx, lost, pack, left, out>>
        /\ pc' = "send"
    BY <1>3 DEF LastSegment, netVars, parseVars
  <2> QED BY <1>1, <2>1, <2>2 DEF TypeInv, TypeOK
<1> QED BY <1>2, <1>3

LEMMA TypeSend == ASSUME TypeInv, FullPacket \/ LastPacket PROVE TypeInv'
<1>1. /\ PacketSize \in Nat \ {0} /\ Len(ps) \in Nat /\ sent \in 0 .. Len(ps)
      /\ ps \in Seq(Bytes) /\ rx \in Seq(Bytes) /\ lost \in 0 .. MaxLost /\ MaxLost \in Nat
      /\ <<>> \in Seq(Bytes)
  BY SizesAssumption DEF TypeInv, TypeOK
<1>2. CASE FullPacket
  <2>1. sent + PacketSize \in sent .. Len(ps) /\ sent' = sent + PacketSize
    BY <1>1, <1>2 DEF FullPacket
  <2>2. SubSeq(ps, sent + 1, sent + PacketSize) \in Seq(Bytes)
    BY <1>1, <2>1, Prefixed
  <2>3. rx' \in Seq(Bytes) /\ lost' \in 0 .. MaxLost
    <3>1. CASE rx' = rx \o SubSeq(ps, sent + 1, sent + PacketSize) /\ UNCHANGED lost
      BY <1>1, <2>2, <3>1, Joined, Zenon
    <3>2. CASE Missing /\ UNCHANGED rx
      BY <1>1, <3>2 DEF Missing
    <3> QED BY <1>2, <3>1, <3>2 DEF FullPacket
  <2> QED BY <1>1, <1>2, <2>1, <2>3 DEF FullPacket, TypeInv, TypeOK, packVars, parseVars
<1>3. CASE LastPacket
  <2>1. SubSeq(ps, sent + 1, Len(ps)) \in Seq(Bytes)
    BY <1>1, Prefixed
  <2>2. rx' \in Seq(Bytes) /\ lost' \in 0 .. MaxLost
    <3>1. CASE rx' = rx \o SubSeq(ps, sent + 1, Len(ps)) /\ UNCHANGED lost
      BY <1>1, <2>1, <3>1, Joined, Zenon
    <3>2. CASE Missing /\ rx' = rx \o ps
      <4>1. rx' \in Seq(Bytes)
        BY <1>1, <3>2, Joined, Zenon
      <4> QED BY <1>1, <3>2, <4>1 DEF Missing
    <3> QED BY <1>3, <3>1, <3>2 DEF LastPacket
  <2>3. left' \in Int /\ pack' \in Nat /\ out' \in Seq(Bytes) /\ sent' \in 0 .. Len(ps)
    BY <1>1, <1>3, <2>2 DEF LastPacket
  <2> QED BY <1>1, <1>3, <2>2, <2>3 DEF LastPacket, TypeInv, TypeOK, packVars
<1> QED BY <1>2, <1>3

(* The length field that is read is a number.                                *)
LEMMA LengthType ==
  ASSUME TypeInv, NEW id \in {"BB", "BC", "E0"}
  PROVE  PackLengths(id) \subseteq Nat
<1>1. \A i \in 1 .. Len(rx) : rx[i].len \in Nat
  <2>1. \A i \in 1 .. Len(rx) : rx[i] \in Bytes
    BY DEF TypeInv, TypeOK
  <2>2. \A b \in Bytes : b.len \in Nat
    BY DEF Bytes
  <2> QED BY <2>1, <2>2
<1>2. pack + 5 <= Len(rx) => pack + 5 \in 1 .. Len(rx)
  BY DEF TypeInv, TypeOK
<1> QED BY <1>1, <1>2, SizesAssumption DEF PackLengths, Holds

LEMMA StuffingType == Stuffings \subseteq Nat
<1>1. \A len \in StrayLengths : len % 256 \in Nat
  BY SizesAssumption
<1> QED BY <1>1 DEF Stuffings

LEMMA DataType ==
  ASSUME TypeInv, NEW len \in Nat, NEW stuffing \in Nat
  PROVE  PesData(len, stuffing) \in Seq(Bytes)
<1>1. PICK p \in Int : p = PesPayload(len, stuffing)
  BY DEF PesPayload
<1>2. PICK n \in Nat : 1 .. p = 1 .. n
  <2>1. CASE p >= 0
    BY <2>1
  <2>2. CASE p < 0
    <3>1. 1 .. p = 1 .. 0
      BY <2>2
    <3> QED BY <3>1
  <2> QED BY <2>1, <2>2
<1>3. Beyond \in Bytes
  BY DEF Beyond, Byte, Bytes
<1>4. PICK b \in Nat : b = pack + 9 + stuffing
  BY DEF TypeInv, TypeOK
<1>5. \A i \in 1 .. n : b + i <= Len(rx) => rx[b + i] \in Bytes
  BY <1>4 DEF TypeInv, TypeOK
<1>6. PesData(len, stuffing)
        = [i \in 1 .. n |-> IF b + i <= Len(rx) THEN rx[b + i] ELSE Beyond]
  BY <1>1, <1>2, <1>4, Zenon DEF PesData
<1>7. PesData(len, stuffing) \in [1 .. n -> Bytes]
  BY <1>3, <1>5, <1>6
<1> QED BY <1>7, FunctionIsSeq

LEMMA TypeParse == ASSUME TypeInv, ParseSteps PROVE TypeInv'
<1>1. CASE ParseSkip
  <2>1. PICK id \in {"BB", "BC"} : \E len \in PackLengths(id) :
          left' = left - len - 6 /\ pack' = IF left' <= 0 THEN pack ELSE pack + len + 6
    BY <1>1 DEF ParseSkip
  <2>2. PackLengths(id) \subseteq Nat
    BY LengthType
  <2>3. left' \in Int /\ pack' \in Nat
    <3>1. pack \in Nat /\ left \in Int
      BY DEF TypeInv, TypeOK
    <3> QED BY <2>1, <2>2, <3>1
  <2> QED BY <1>1, <2>3 DEF ParseSkip, TypeInv, TypeOK, packVars, netVars
<1>2. CASE ParsePes
  <2>1. PICK len \in PackLengths("E0"), stuffing \in Stuffings :
          /\ left' = left - len - 6 /\ pack' = IF left' < 0 THEN pack + 4 ELSE pack + len + 6
          /\ (pc' = "parse" \/ pc' = "crashed")
          /\ (out' = out \/ out' = out \o PesData(len, stuffing))
    BY <1>2 DEF ParsePes, CopyEnds
  <2>2. len \in Nat /\ stuffing \in Nat
    BY <2>1, LengthType, StuffingType
  <2>3. left' \in Int /\ pack' \in Nat
    BY <2>1, <2>2 DEF TypeInv, TypeOK
  <2>4. out' \in Seq(Bytes)
    BY <2>1, <2>2, DataType, Joined DEF TypeInv, TypeOK
  <2> QED BY <1>2, <2>1, <2>3, <2>4 DEF ParsePes, TypeInv, TypeOK, packVars, netVars
<1>3. CASE ParseEnd
  BY <1>3 DEF ParseEnd, TypeInv, TypeOK, packVars, netVars, parseVars
<1> QED BY <1>1, <1>2, <1>3 DEF ParseSteps

LEMMA TypeNext == TypeInv /\ [Next]_vars => TypeInv'
<1> SUFFICES ASSUME TypeInv, [Next]_vars PROVE TypeInv'
  OBVIOUS
<1>1. CASE UNCHANGED vars
  BY <1>1 DEF vars, packVars, netVars, parseVars, TypeInv, TypeOK
<1>2. CASE Next
  BY <1>2, TypeEncoded, TypePack, TypeSend, TypeParse DEF Next
<1> QED BY <1>1, <1>2

LEMMA Typed == Spec => []TypeInv
BY TypeInit, TypeNext, PTL DEF Spec

(* Every variable has its type; what packagingPs reads lies inside the frame *)
(* (TdPs.cpp:368-383).                                                       *)
THEOREM TypeCorrect == Spec => []TypeOK
<1>1. TypeInv => TypeOK
  BY DEF TypeInv
<1> QED BY <1>1, Typed, PTL

-----------------------------------------------------------------------------
(* The clock.                                                                *)

LEMMA RemainderOfSum ==
  ASSUME NEW a \in Nat, NEW b \in Nat, NEW m \in Nat \ {0}
  PROVE  ((a % m) + b) % m = (a + b) % m
<1>1. PICK q \in Nat, r \in 0 .. m - 1 : r = a % m /\ a = m * q + r
  BY Division
<1>2. PICK p \in Nat, s \in 0 .. m - 1 : s = (r + b) % m /\ r + b = m * p + s
  <2>1. r + b \in Nat
    OBVIOUS
  <2> QED BY <2>1, Division
<1>3. /\ m * q \in Nat /\ m * p \in Nat /\ m * (q + p) \in Nat
      /\ m * (q + p) = m * q + m * p
  OBVIOUS
<1>4. q + p \in Nat /\ a + b = m * (q + p) + s
  <2>1. a = m * q + r /\ r + b = m * p + s
    BY <1>1, <1>2
  <2> QED BY <1>3, <2>1
<1>5. (m * (q + p) + s) % m = s
  BY <1>4, Remainder
<1>6. (a + b) % m = s
  BY <1>4, <1>5, Zenon
<1> QED BY <1>1, <1>2, <1>6, Zenon

(* The three parts of a clock field hold the 32 bits of pts.                 *)
LEMMA ClockHolds ==
  ASSUME NEW t \in 0 .. PtsValues - 1
  PROVE  Clock(t)[1] * ClockLow * ClockLow + Clock(t)[2] * ClockLow + Clock(t)[3] = t
<1>1. PICK m \in Nat \ {0} : m = ClockLow
  BY Units
<1>2. t \in Nat /\ t < 4 * (m * m) /\ m * m \in Nat \ {0}
  BY <1>1, Units
<1>3. PICK q \in Nat, r \in 0 .. m - 1 : q = t \div m /\ r = t % m /\ t = m * q + r
  BY <1>2, Division
<1>4. PICK p \in Nat, s \in 0 .. m - 1 : p = q \div m /\ s = q % m /\ q = m * p + s
  BY Division
<1>5. m * s + r \in 0 .. m * m - 1
  <2>1. s <= m - 1 /\ m * s <= m * (m - 1) /\ m * s >= 0
    OBVIOUS
  <2>2. m * (m - 1) = m * m - m
    OBVIOUS
  <2> QED BY <2>1, <2>2, <1>2
<1>6. t = (m * m) * p + (m * s + r)
  <2>1. \A x, y \in Nat : m * (m * x + y) = (m * m) * x + m * y
    OBVIOUS
  <2>2. m * (m * p + s) = (m * m) * p + m * s
    BY <2>1
  <2>3. m * q = (m * m) * p + m * s
    BY <1>4, <2>2, Zenon
  <2>4. t = m * q + r
    BY <1>3
  <2>5. m * q \in Nat /\ (m * m) * p \in Nat /\ m * s \in Nat
    OBVIOUS
  <2> QED BY <2>3, <2>4, <2>5
<1>7. t \div (m * m) = p
  <2>1. ((m * m) * p + (m * s + r)) \div (m * m) = p
    BY <1>2, <1>5, Remainder
  <2> QED BY <1>6, <2>1, Zenon
<1>8. p < 4
  <2>1. PICK u \in Nat \ {0} : u = m * m
    BY <1>2
  <2>2. u * p <= t /\ t < 4 * u
    BY <1>2, <1>5, <1>6, <2>1
  <2>3. ~(p >= 4)
    <3> SUFFICES ASSUME p >= 4 PROVE FALSE
      OBVIOUS
    <3>1. u * p >= u * 4
      OBVIOUS
    <3> QED BY <3>1, <2>2
  <2> QED BY <2>3
<1>9. p % 8 = p
  BY <1>8
<1>10. Clock(t) = <<p, s, r>>
  BY <1>1, <1>3, <1>4, <1>7, <1>9, Zenon DEF Clock
<1>11. p * m * m + s * m + r = t
  <2>1. p * m * m = (m * m) * p /\ s * m = m * s
    OBVIOUS
  <2> QED BY <1>6, <2>1
<1>12. Clock(t)[1] = p /\ Clock(t)[2] = s /\ Clock(t)[3] = r
  BY <1>10
<1> QED BY <1>1, <1>11, <1>12, Zenon

(* The clock of the frame that is under way.                                 *)
FrameTime == ((frames - 1) * ClockStep) % PtsValues

(* It is in the first byte of the stream, and the first packet arrives.      *)
ClockInv ==
  /\ pts = (frames * ClockStep) % PtsValues
  /\ pc # "idle" => frames \in Nat \ {0} /\ Len(ps) >= 1 /\ ps[1].clock = Clock(FrameTime)
  /\ pc \in {"pack", "send"} /\ sent = 0 => rx = <<>>
  /\ sent > 0 \/ pc \in {"parse", "done"} => Len(rx) >= 1 /\ rx[1] = ps[1]

LEMMA ClockInit == Init => ClockInv
<1>1. 0 % PtsValues = 0
  BY Units
<1>2. 0 * ClockStep = 0
  BY SizesAssumption
<1> QED BY <1>1, <1>2 DEF Init, ClockInv

LEMMA ClockEncoded ==
  ASSUME TypeInv, ClockInv, NEW n \in FrameSizes, NEW key \in BOOLEAN, Encoded(n, key)
  PROVE  ClockInv'
<1>1. /\ frames \in Nat /\ frames' = frames + 1 /\ pts \in Nat /\ ClockStep \in Nat
      /\ frames * ClockStep \in Nat /\ frames' - 1 = frames
      /\ frames' * ClockStep = frames * ClockStep + ClockStep
  <2>1. frames \in Nat /\ frames' = frames + 1 /\ pts \in Nat /\ ClockStep \in Nat
    BY SizesAssumption, Units DEF TypeInv, TypeOK, Encoded
  <2>2. \A x, y \in Nat : x * y \in Nat /\ (x + 1) * y = x * y + y /\ x + 1 - 1 = x
    OBVIOUS
  <2> QED BY <2>1, <2>2
<1>2. pts' = (frames' * ClockStep) % PtsValues
  <2>1. pts' = (((frames * ClockStep) % PtsValues) + ClockStep) % PtsValues
    BY DEF Encoded, ClockInv
  <2>2. pts' = (frames * ClockStep + ClockStep) % PtsValues
    BY <1>1, <2>1, Units, RemainderOfSum, Zenon
  <2> QED BY <1>1, <2>2, Zenon
<1>3. pts = FrameTime'
  BY <1>1, Zenon DEF ClockInv, FrameTime
<1>4. Len(ps') >= 1 /\ ps'[1] = PsHeader(pts)[1]
  <2>1. PICK h \in Seq(Bytes) : h = PsHeader(pts) /\ Len(h) = 14
    BY <1>1, PieceTypes
  <2>2. PICK k \in Seq(Bytes) : ps' = h \o k
    <3>1. <<>> \in Seq(Bytes) /\ SysHeader \o PsmHeader \in Seq(Bytes)
      BY PieceTypes, Joined
    <3> QED BY <2>1, <3>1 DEF Encoded
  <2>3. Len(ps') >= 1 /\ ps'[1] = h[1]
    BY <2>1, <2>2, Joined
  <2> QED BY <2>1, <2>3
<1>5. PsHeader(pts)[1].clock = Clock(pts)
  BY DEF PsHeader, Byte
<1>6. pc' = "pack" /\ sent' = 0 /\ rx' = <<>>
  BY DEF Encoded
<1>7. frames' \in Nat \ {0} /\ ps'[1].clock = Clock(FrameTime')
  <2>1. frames' \in Nat \ {0}
    BY <1>1
  <2>2. ps'[1].clock = Clock(FrameTime')
    BY <1>3, <1>4, <1>5, Zenon
  <2> QED BY <2>1, <2>2
<1>8. Clock(FrameTime') = Clock(FrameTime)'
  BY DEF Clock
<1> QED BY <1>2, <1>4, <1>6, <1>7, <1>8 DEF ClockInv

LEMMA ClockPack ==
  ASSUME TypeInv, ClockInv, Segment \/ LastSegment
  PROVE  ClockInv'
<1>1. PICK n \in Nat : Pes(n)
  BY SizesAssumption DEF Segment, LastSegment, TypeInv, TypeOK
<1>2. Len(ps') = Len(ps) + 19 + n /\ \A i \in 1 .. Len(ps) : ps'[i] = ps[i]
  BY <1>1, TypePes
<1>3. UNCHANGED <<frames, pts, sent, rx>> /\ pc = "pack" /\ pc' \in {"pack", "send"}
  BY DEF Segment, LastSegment, netVars
<1>4. Len(ps) \in Nat /\ Len(ps) >= 1
  BY <1>3 DEF TypeInv, TypeOK, ClockInv
<1>5. Len(ps') >= 1 /\ ps'[1] = ps[1]
  BY <1>2, <1>4
<1>6. FrameTime' = FrameTime
  BY <1>3 DEF FrameTime
<1>7. Clock(FrameTime)' = Clock(FrameTime)
  BY <1>6 DEF Clock
<1> QED BY <1>3, <1>5, <1>7 DEF ClockInv

LEMMA ClockSend ==
  ASSUME TypeInv, ClockInv, FullPacket \/ LastPacket
  PROVE  ClockInv'
<1>1. /\ PacketSize \in Nat \ {0} /\ Len(ps) \in Nat /\ sent \in 0 .. Len(ps)
      /\ ps \in Seq(Bytes) /\ rx \in Seq(Bytes)
  BY SizesAssumption DEF TypeInv, TypeOK
<1>2. UNCHANGED <<frames, pts, ps>> /\ pc = "send" /\ pc' \in {"send", "parse"}
  BY DEF FullPacket, LastPacket, packVars
<1>3. Len(ps) >= 1 /\ sent' > 0
  BY <1>1, <1>2 DEF FullPacket, LastPacket, ClockInv
<1>4. ASSUME NEW t \in Seq(Bytes), rx' = rx \o t,
             sent = 0 => Len(t) >= 1 /\ t[1] = ps[1]
      PROVE  Len(rx') >= 1 /\ rx'[1] = ps[1]
  <2>1. CASE sent = 0
    BY <1>2, <1>4, <2>1 DEF ClockInv
  <2>2. CASE sent > 0
    <3>1. Len(rx) >= 1 /\ rx[1] = ps[1]
      BY <2>2 DEF ClockInv
    <3> QED BY <1>1, <1>4, <3>1
  <2> QED BY <1>1, <2>1, <2>2
<1>5. ASSUME NEW e \in sent + 1 .. Len(ps)
      PROVE  /\ SubSeq(ps, sent + 1, e) \in Seq(Bytes)
             /\ sent = 0 => Len(SubSeq(ps, sent + 1, e)) >= 1 /\ SubSeq(ps, sent + 1, e)[1] = ps[1]
  BY <1>1
<1>6. Len(rx') >= 1 /\ rx'[1] = ps[1]
  <2>1. CASE FullPacket
    <3>1. sent + PacketSize \in sent + 1 .. Len(ps)
      BY <1>1, <2>1 DEF FullPacket
    <3>2. CASE rx' = rx \o SubSeq(ps, sent + 1, sent + PacketSize)
      BY <1>4, <1>5, <3>1, <3>2
    <3>3. CASE Missing /\ UNCHANGED rx
      BY <3>3 DEF Missing, ClockInv
    <3> QED BY <2>1, <3>2, <3>3 DEF FullPacket
  <2>2. CASE LastPacket
    <3>1. CASE rx' = rx \o SubSeq(ps, sent + 1, Len(ps))
      <4>1. CASE sent < Len(ps)
        <5>1. Len(ps) \in sent + 1 .. Len(ps)
          BY <1>1, <4>1
        <5> QED BY <1>4, <1>5, <3>1, <5>1
      <4>2. CASE sent = Len(ps)
        <5>1. SubSeq(ps, sent + 1, Len(ps)) \in Seq(Bytes)
          BY <1>1, Prefixed
        <5>2. sent # 0
          BY <1>1, <1>3, <4>2
        <5> QED BY <1>4, <3>1, <5>1, <5>2, Zenon
      <4> QED BY <1>1, <4>1, <4>2
    <3>2. CASE Missing /\ rx' = rx \o ps
      <4>1. sent # 0
        BY <3>2 DEF Missing
      <4> QED BY <1>1, <1>4, <3>2, <4>1, Zenon
    <3> QED BY <2>2, <3>1, <3>2 DEF LastPacket
  <2> QED BY <2>1, <2>2
<1>7. FrameTime' = FrameTime
  BY <1>2 DEF FrameTime
<1>8. Clock(FrameTime)' = Clock(FrameTime)
  BY <1>7 DEF Clock
<1> QED BY <1>2, <1>3, <1>6, <1>8 DEF ClockInv

LEMMA ClockNext == TypeInv /\ ClockInv /\ [Next]_vars => ClockInv'
<1> SUFFICES ASSUME TypeInv, ClockInv, [Next]_vars PROVE ClockInv'
  OBVIOUS
<1>1. ASSUME UNCHANGED <<frames, pts, ps, sent, rx>>,
             UNCHANGED pc \/ (pc = "parse" /\ pc' \in {"done", "crashed"})
      PROVE  ClockInv'
  <2>1. FrameTime' = FrameTime
    BY <1>1 DEF FrameTime
  <2>2. Clock(FrameTime)' = Clock(FrameTime)
    BY <2>1 DEF Clock
  <2> QED BY <1>1, <2>2 DEF ClockInv
<1>2. CASE ParseSteps \/ UNCHANGED vars
  <2>1. UNCHANGED <<frames, pts, ps, sent, rx>>
    BY <1>2 DEF ParseSteps, ParseSkip, ParsePes, ParseEnd, vars, packVars, netVars
  <2>2. UNCHANGED pc \/ (pc = "parse" /\ pc' \in {"done", "crashed"})
    BY <1>2 DEF ParseSteps, ParseSkip, ParsePes, CopyEnds, ParseEnd, vars
  <2> QED BY <1>1, <2>1, <2>2
<1> QED BY <1>2, ClockEncoded, ClockPack, ClockSend DEF Next

(* The receiver reads the clock of the frame, modulo 2^32 (TdPs.cpp:221-225, *)
(* TdRtp.cpp:213-215).                                                       *)
THEOREM ClockCorrect == Spec => []ClockOfFrame
<1>1. TypeInv /\ ClockInv => ClockOfFrame
  <2> SUFFICES ASSUME TypeInv, ClockInv, pc = "done"
               PROVE  rx[1].clock[1] * ClockLow * ClockLow + rx[1].clock[2] * ClockLow
                        + rx[1].clock[3] = ((frames - 1) * ClockStep) % PtsValues
    BY DEF ClockOfFrame
  <2>1. rx[1].clock = Clock(FrameTime) /\ frames \in Nat \ {0}
    BY DEF ClockInv
  <2>2. FrameTime \in 0 .. PtsValues - 1
    <3>1. \A x \in Nat \ {0}, y \in Nat : (x - 1) * y \in Nat
      OBVIOUS
    <3>2. (frames - 1) * ClockStep \in Nat
      BY <2>1, <3>1, SizesAssumption
    <3> QED BY <3>2, Units, Division DEF FrameTime
  <2>3. Clock(FrameTime)[1] * ClockLow * ClockLow + Clock(FrameTime)[2] * ClockLow
          + Clock(FrameTime)[3] = FrameTime
    BY <2>2, ClockHolds
  <2> QED BY <2>1, <2>3, Zenon DEF FrameTime
<1> QED BY <1>1, Typed, ClockInit, ClockNext, PTL DEF Spec

-----------------------------------------------------------------------------
(* What packagingPs writes: the headers in d bytes, full segments, the rest. *)

Start(d, k) == d + k * (PayloadMax + 19)
From(k) == IF k = 0 THEN 0 ELSE PayloadMax

(* ps has, after byte b, a PES of n bytes of the frame.                      *)
PesAt(b, from, n) ==
  /\ b + 19 + n <= Len(ps)
  /\ \A i \in 1 .. 19 : ps[b + i] = Byte("E0", i, n + 13)
  /\ \A i \in 1 .. n : ps[b + 19 + i] = Byte("es", from + i, 0)

Lead(d) ==
  /\ d <= Len(ps)
  /\ d = 56 => /\ \A i \in 1 .. 18 : ps[14 + i] = Byte("BB", i, 12)
               /\ \A i \in 1 .. 24 : ps[32 + i] = Byte("BC", i, 18)
Full(d, k) == Lead(d) /\ \A j \in Nat : j < k => PesAt(Start(d, j), From(j), PayloadMax)

Packing(d, k) ==
  /\ Full(d, k) /\ Len(ps) = Start(d, k)
  /\ size = k * PayloadMax + remain /\ remain > 0 /\ offset = From(k)
Packed(d, k) ==
  /\ Full(d, k) /\ PesAt(Start(d, k), From(k), remain) /\ Len(ps) = Start(d, k) + 19 + remain
  /\ size = k * PayloadMax + remain /\ remain \in 1 .. PayloadMax

PackInv ==
  /\ pc = "pack" => \E d \in {14, 56}, k \in Nat : Packing(d, k)
  /\ pc \in {"send", "parse", "done"} => \E d \in {14, 56}, k \in Nat : Packed(d, k)

LEMMA StartFacts ==
  ASSUME NEW d \in Nat, NEW j \in Nat
  PROVE  /\ Start(d, j) \in Nat /\ Start(d, j) >= d /\ Start(d, 0) = d
         /\ Start(d, j + 1) = Start(d, j) + 19 + PayloadMax
         /\ (j + 1) * PayloadMax = j * PayloadMax + PayloadMax
         /\ j * PayloadMax \in Nat
         /\ \A k \in Nat : j < k => /\ Start(d, j) + 19 + PayloadMax <= Start(d, k)
                                    /\ j * PayloadMax + PayloadMax <= k * PayloadMax
<1>1. PICK m \in Nat \ {0} : m = PayloadMax
  BY SizesAssumption
<1>2. PICK s \in Nat : s = m + 19
  BY <1>1
<1>3. \A x, y \in Nat : /\ y * x \in Nat /\ (y + 1) * x = y * x + x /\ 0 * x = 0
                        /\ \A z \in Nat : y < z => y * x + x <= z * x
  <2> SUFFICES ASSUME NEW x \in Nat, NEW y \in Nat
               PROVE  /\ y * x \in Nat /\ (y + 1) * x = y * x + x /\ 0 * x = 0
                      /\ \A z \in Nat : y < z => y * x + x <= z * x
    OBVIOUS
  <2>1. y * x \in Nat /\ (y + 1) * x = y * x + x /\ 0 * x = 0
    OBVIOUS
  <2>2. ASSUME NEW z \in Nat, y < z PROVE y * x + x <= z * x
    <3>1. PICK e \in Nat : z = y + 1 + e
      BY <2>2, z - y - 1 \in Nat
    <3>2. z * x = y * x + x + e * x /\ e * x >= 0
      BY <3>1
    <3> QED BY <3>2, <2>1
  <2> QED BY <2>1, <2>2
<1>4. \A k \in Nat : Start(d, k) = d + k * s
  BY <1>1, <1>2 DEF Start
<1>5. /\ j * s \in Nat /\ (j + 1) * s = j * s + s /\ 0 * s = 0
      /\ \A k \in Nat : j < k => j * s + s <= k * s
      /\ \A k \in Nat : k * s \in Nat
  BY <1>3
<1>6. /\ j * m \in Nat /\ (j + 1) * m = j * m + m
      /\ \A k \in Nat : j < k => j * m + m <= k * m
  BY <1>3
<1>7. /\ Start(d, j) = d + j * s /\ Start(d, 0) = d + 0 * s /\ Start(d, j + 1) = d + (j + 1) * s
  BY <1>4
<1>8. ASSUME NEW k \in Nat, j < k PROVE Start(d, j) + 19 + m <= Start(d, k)
  <2>1. Start(d, k) = d + k * s /\ j * s + s <= k * s /\ k * s \in Nat
    BY <1>4, <1>5, <1>8
  <2> QED BY <1>2, <1>5, <1>7, <2>1
<1>9. /\ Start(d, j) \in Nat /\ Start(d, j) >= d /\ Start(d, 0) = d
      /\ Start(d, j + 1) = Start(d, j) + 19 + m
  BY <1>2, <1>5, <1>7
<1> QED BY <1>1, <1>6, <1>8, <1>9, Zenon

LEMMA Within ==
  ASSUME NEW b \in Nat, NEW n \in Nat, NEW l \in Nat, b + 19 + n <= l
  PROVE  (\A i \in 1 .. 19 : b + i \in 1 .. l) /\ (\A i \in 1 .. n : b + 19 + i \in 1 .. l)
OBVIOUS

(* What has been written stays.                                              *)
LEMMA Stays ==
  ASSUME TypeInv, TypeInv', Len(ps') >= Len(ps), \A i \in 1 .. Len(ps) : ps'[i] = ps[i],
         NEW d \in {14, 56}, NEW k \in Nat, Full(d, k)
  PROVE  Full(d, k)'
<1>1. Len(ps) \in Nat /\ Len(ps') \in Nat
  <2>1. ps \in Seq(Bytes) /\ ps' \in Seq(Bytes)
    BY DEF TypeInv, TypeOK
  <2> QED BY <2>1
<1>2. Lead(d)'
  <2>1. d <= Len(ps')
    <3>1. d <= Len(ps)
      BY Zenon DEF Full, Lead
    <3>2. PICK l \in Nat, m \in Nat : l = Len(ps) /\ m = Len(ps') /\ d <= l /\ l <= m
      BY <1>1, <3>1
    <3>3. d <= m
      BY <3>2
    <3> QED BY <3>2, <3>3, Zenon
  <2>2. CASE d = 56
    <3>1. 56 <= Len(ps) /\ \A i \in 1 .. 18 : ps[14 + i] = Byte("BB", i, 12)
      BY <2>2 DEF Full, Lead
    <3>2. \A i \in 1 .. 24 : ps[32 + i] = Byte("BC", i, 18)
      BY <2>2 DEF Full, Lead
    <3>3. \A i \in 1 .. 18 : ps'[14 + i] = ps[14 + i]
      BY <1>1, <3>1
    <3>4. \A i \in 1 .. 24 : ps'[32 + i] = ps[32 + i]
      BY <1>1, <3>1
    <3> QED BY <2>1, <3>1, <3>2, <3>3, <3>4 DEF Lead
  <2> QED BY <2>1, <2>2 DEF Lead
<1>3. ASSUME NEW j \in Nat, j < k
      PROVE  PesAt(Start(d, j), From(j), PayloadMax)'
  <2>1. PICK b \in Nat : b = Start(d, j)
    BY StartFacts
  <2>2. PICK n \in Nat, f \in Nat : n = PayloadMax /\ f = From(j)
    BY SizesAssumption DEF From
  <2>3. /\ b + 19 + n <= Len(ps)
        /\ \A i \in 1 .. 19 : ps[b + i] = Byte("E0", i, n + 13)
        /\ \A i \in 1 .. n : ps[b + 19 + i] = Byte("es", f + i, 0)
    BY <1>3, <2>1, <2>2 DEF Full, PesAt
  <2>4. PICK l \in Nat, m \in Nat : l = Len(ps) /\ m = Len(ps') /\ b + 19 + n <= l /\ l <= m
    BY <1>1, <2>3
  <2>5. /\ \A i \in 1 .. 19 : b + i \in 1 .. l
        /\ \A i \in 1 .. n : b + 19 + i \in 1 .. l
        /\ b + 19 + n <= m
    <3>1. b + 19 + n <= l
      BY <2>4
    <3>2. (\A i \in 1 .. 19 : b + i \in 1 .. l) /\ (\A i \in 1 .. n : b + 19 + i \in 1 .. l)
      BY <3>1, Within
    <3>3. b + 19 + n <= m
      <4>1. PICK e \in Nat : e = b + 19 + n /\ e <= l
        BY <3>1
      <4>2. l <= m
        BY <2>4, Zenon
      <4> QED BY <4>1, <4>2
    <3> QED BY <3>2, <3>3
  <2>6. /\ b + 19 + n <= Len(ps')
        /\ \A i \in 1 .. 19 : ps'[b + i] = Byte("E0", i, n + 13)
        /\ \A i \in 1 .. n : ps'[b + 19 + i] = Byte("es", f + i, 0)
    BY <2>3, <2>4, <2>5, Zenon
  <2> QED BY <2>1, <2>2, <2>6 DEF PesAt
<1> QED BY <1>2, <1>3 DEF Full

(* A PES is written behind what is there.                                    *)
LEMMA Written ==
  ASSUME TypeInv, NEW n \in Nat, Pes(n), NEW b \in Nat, NEW f \in Nat, b = Len(ps), f = offset
  PROVE  PesAt(b, f, n)'
<1>2. /\ Len(ps') = b + 19 + n
      /\ \A i \in 1 .. 19 : ps'[b + i] = PesHeader(n)[i]
      /\ \A i \in 1 .. n : ps'[b + 19 + i] = Data(f, n)[i]
  BY TypePes
<1>3. /\ \A i \in 1 .. 19 : PesHeader(n)[i] = Byte("E0", i, n + 13)
      /\ \A i \in 1 .. n : Data(f, n)[i] = Byte("es", f + i, 0)
  BY DEF PesHeader, Header, Data
<1>4. /\ \A i \in 1 .. 19 : ps'[b + i] = Byte("E0", i, n + 13)
      /\ \A i \in 1 .. n : ps'[b + 19 + i] = Byte("es", f + i, 0)
  BY <1>2, <1>3, Zenon
<1>5. b + 19 + n <= Len(ps')
  BY <1>2
<1> QED BY <1>4, <1>5, Zenon DEF PesAt

LEMMA PackInit == Init => PackInv
BY DEF Init, PackInv

LEMMA PackEncoded ==
  ASSUME TypeInv, NEW n \in FrameSizes, NEW key \in BOOLEAN, Encoded(n, key)
  PROVE  PackInv'
<1>1. PICK h \in Seq(Bytes) : h = PsHeader(pts) /\ Len(h) = 14
  <2>1. pts \in Nat
    BY Units DEF TypeInv, TypeOK
  <2> QED BY <2>1, PieceTypes
<1>2. PICK d \in {14, 56} : Lead(d)' /\ Len(ps') = d
  <2>1. CASE key
    <3>1. PICK s \in Seq(Bytes), m \in Seq(Bytes) :
            s = SysHeader /\ m = PsmHeader /\ Len(s) = 18 /\ Len(m) = 24
      BY PieceTypes
    <3>2. ps' = h \o (s \o m)
      BY <1>1, <2>1, <3>1 DEF Encoded
    <3>3. /\ Len(ps') = Len(h) + Len(s) + Len(m)
          /\ \A i \in 1 .. Len(s) : ps'[Len(h) + i] = s[i]
          /\ \A i \in 1 .. Len(m) : ps'[Len(h) + Len(s) + i] = m[i]
      BY <3>2, BytesJoinedRight, Zenon
    <3>4. Len(h) + Len(s) = 32 /\ Len(h) + Len(s) + Len(m) = 56
      BY <1>1, <3>1
    <3>5. /\ Len(ps') = 56 /\ \A i \in 1 .. 18 : ps'[14 + i] = s[i]
          /\ \A i \in 1 .. 24 : ps'[32 + i] = m[i]
      BY <1>1, <3>1, <3>3, <3>4, Zenon
    <3>6. \A i \in 1 .. 18 : ps'[14 + i] = Byte("BB", i, 12)
      BY <3>1, <3>5 DEF SysHeader, Header
    <3>7. \A i \in 1 .. 24 : ps'[32 + i] = Byte("BC", i, 18)
      BY <3>1, <3>5 DEF PsmHeader, Header
    <3>8. Lead(56)'
      BY <3>5, <3>6, <3>7 DEF Lead
    <3> QED BY <3>5, <3>8
  <2>2. CASE ~key
    <3>1. ps' = h \o <<>>
      BY <1>1, <2>2 DEF Encoded
    <3>2. Len(ps') = 14
      BY <1>1, <3>1
    <3> QED BY <3>2 DEF Lead
  <2> QED BY <2>1, <2>2
<1>3. Full(d, 0)' /\ Start(d, 0) = d
  BY <1>2, StartFacts DEF Full
<1>4. pc' = "pack" /\ size' = n /\ remain' = n /\ offset' = 0 /\ n \in Nat \ {0}
  BY SizesAssumption DEF Encoded
<1>5. size' = 0 * PayloadMax + remain'
  BY <1>4, SizesAssumption
<1>6. Packing(d, 0)'
  BY <1>2, <1>3, <1>4, <1>5 DEF Packing, From
<1> QED BY <1>4, <1>6 DEF PackInv

LEMMA PackSegment == ASSUME TypeInv, TypeInv', PackInv, Segment PROVE PackInv'
<1>1. PICK d \in {14, 56}, k \in Nat : Packing(d, k)
  BY DEF Segment, PackInv
<1>2. /\ PayloadMax \in Nat \ {0} /\ Pes(PayloadMax) /\ remain > PayloadMax /\ pc' = "pack"
      /\ offset' = PayloadMax /\ remain' = remain - PayloadMax /\ size' = size
      /\ remain \in Nat /\ size \in Nat
  BY SizesAssumption DEF Segment, TypeInv, TypeOK
<1>3. PICK b \in Nat, f \in Nat : b = Len(ps) /\ f = offset
  BY DEF TypeInv, TypeOK
<1>4. /\ Len(ps') = b + 19 + PayloadMax /\ \A i \in 1 .. b : ps'[i] = ps[i]
      /\ PesAt(b, f, PayloadMax)'
  BY <1>2, <1>3, TypePes, Written
<1>5. b = Start(d, k) /\ f = From(k) /\ Full(d, k)
  BY <1>1, <1>3 DEF Packing
<1>6. Full(d, k)'
  <2>1. Len(ps') >= Len(ps) /\ \A i \in 1 .. Len(ps) : ps'[i] = ps[i]
    BY <1>2, <1>3, <1>4
  <2> QED BY <1>5, <2>1, Stays
<1>7. PesAt(Start(d, k), From(k), PayloadMax)'
  BY <1>4, <1>5
<1>8. Full(d, k + 1)'
  <2>1. \A j \in Nat : j < k + 1 => j < k \/ j = k
    OBVIOUS
  <2> QED BY <1>6, <1>7, <2>1 DEF Full
<1>9. /\ Start(d, k + 1) = Start(d, k) + 19 + PayloadMax
      /\ (k + 1) * PayloadMax = k * PayloadMax + PayloadMax /\ k * PayloadMax \in Nat
  <2>1. d \in Nat
    OBVIOUS
  <2> QED BY <2>1, StartFacts, Zenon
<1>10. size' = (k + 1) * PayloadMax + remain' /\ remain' > 0
  <2>1. size = k * PayloadMax + remain
    BY <1>1 DEF Packing
  <2> QED BY <1>2, <1>9, <2>1
<1>11. k + 1 \in Nat /\ offset' = From(k + 1)
  BY <1>2 DEF From
<1>12. Len(ps') = Start(d, k + 1)
  BY <1>4, <1>5, <1>9
<1>13. Packing(d, k + 1)'
  BY <1>8, <1>10, <1>11, <1>12 DEF Packing
<1> QED BY <1>2, <1>11, <1>13 DEF PackInv

LEMMA PackLastSegment == ASSUME TypeInv, TypeInv', PackInv, LastSegment PROVE PackInv'
<1>1. PICK d \in {14, 56}, k \in Nat : Packing(d, k)
  BY DEF LastSegment, PackInv
<1>2. PICK n \in Nat : /\ n = remain /\ n <= PayloadMax /\ n > 0 /\ Pes(n) /\ remain' = n
                       /\ size' = size /\ pc' = "send"
  BY <1>1 DEF LastSegment, TypeInv, TypeOK, Packing
<1>3. PICK b \in Nat, f \in Nat : b = Len(ps) /\ f = offset
  BY DEF TypeInv, TypeOK
<1>4. /\ Len(ps') = b + 19 + n /\ \A i \in 1 .. b : ps'[i] = ps[i]
      /\ PesAt(b, f, n)'
  BY <1>2, <1>3, TypePes, Written
<1>5. b = Start(d, k) /\ f = From(k) /\ Full(d, k) /\ size = k * PayloadMax + n
  BY <1>1, <1>2, <1>3 DEF Packing
<1>6. Full(d, k)'
  <2>1. Len(ps') >= Len(ps) /\ \A i \in 1 .. Len(ps) : ps'[i] = ps[i]
    BY <1>2, <1>3, <1>4
  <2> QED BY <1>5, <2>1, Stays
<1>7. n \in 1 .. PayloadMax
  BY <1>2, SizesAssumption
<1>8. Packed(d, k)'
  BY <1>2, <1>4, <1>5, <1>6, <1>7 DEF Packed
<1> QED BY <1>2, <1>8 DEF PackInv

LEMMA PackNext == TypeInv /\ TypeInv' /\ PackInv /\ [Next]_vars => PackInv'
<1> SUFFICES ASSUME TypeInv, TypeInv', PackInv, [Next]_vars PROVE PackInv'
  OBVIOUS
<1>1. ASSUME UNCHANGED packVars,
             pc' = pc \/ (pc \in {"send", "parse"} /\ pc' \in {"send", "parse", "done", "crashed"})
      PROVE  PackInv'
  <2>1. ASSUME NEW d \in {14, 56}, NEW k \in Nat, Packed(d, k)
        PROVE  Packed(d, k)'
    BY <1>1, <2>1 DEF Packed, Full, Lead, PesAt, packVars
  <2>2. ASSUME NEW d \in {14, 56}, NEW k \in Nat, Packing(d, k)
        PROVE  Packing(d, k)'
    BY <1>1, <2>2 DEF Packing, Full, Lead, PesAt, packVars
  <2> QED BY <1>1, <2>1, <2>2 DEF PackInv
<1>2. CASE FullPacket \/ LastPacket \/ ParseSteps \/ UNCHANGED vars
  <2>1. UNCHANGED packVars
    BY <1>2 DEF FullPacket, LastPacket, ParseSteps, ParseSkip, ParsePes, ParseEnd, vars
  <2>2. pc' = pc \/ (pc \in {"send", "parse"} /\ pc' \in {"send", "parse", "done", "crashed"})
    <3>1. CASE UNCHANGED vars
      BY <3>1 DEF vars
    <3>2. CASE FullPacket
      BY <3>2 DEF FullPacket
    <3>3. CASE ParseSkip \/ ParsePes
      BY <3>3 DEF ParseSkip, ParsePes, CopyEnds
    <3>4. CASE LastPacket \/ ParseEnd
      BY <3>4 DEF LastPacket, ParseEnd
    <3> QED BY <1>2, <3>1, <3>2, <3>3, <3>4 DEF ParseSteps
  <2> QED BY <1>1, <2>1, <2>2
<1> QED BY <1>2, PackEncoded, PackSegment, PackLastSegment DEF Next

-----------------------------------------------------------------------------
(* What an undamaged stream becomes at the receiver.                         *)

(* The frame's bytes, as packagingPs repeats the second segment.             *)
Content(i) ==
  Byte("es", IF i <= PayloadMax THEN i ELSE PayloadMax + ((i - 1) % PayloadMax) + 1, 0)

(* m bytes of the frame have been passed: all of them were taken, or the     *)
(* frame is too long and no other segment would fit.                         *)
Taken(m) ==
  /\ Len(out) < FrameMax /\ \A i \in 1 .. Len(out) : out[i].of = "es"
  /\ \/ Len(out) = m /\ \A i \in 1 .. m : out[i] = Content(i)
     \/ size >= FrameMax /\ Len(out) + PayloadMax >= FrameMax

AtHeader(d) == d = 56 /\ pack \in {14, 32} /\ out = <<>>
AtSegment(d, k) == \E j \in 0 .. k : pack = Start(d, j) /\ Taken(j * PayloadMax)
AtEnd == pack = Len(ps) /\ Taken(size)

Place(d, k) ==
  /\ left = Len(ps) - pack
  /\ (pc = "parse" /\ (AtHeader(d) \/ AtSegment(d, k))) \/ AtEnd

Parsing == rx = ps /\ \E d \in {14, 56}, k \in Nat : Packed(d, k) /\ Place(d, k)

ArriveInv ==
  /\ pc \in {"pack", "send"} /\ lost = 0 => rx = SubSeq(ps, 1, sent)
  /\ pc = "pack" => sent = 0
  /\ pc \in {"parse", "done"} /\ lost = 0 => Parsing
  /\ pc = "crashed" => lost # 0

LEMMA FirstIsEmpty == ASSUME NEW s \in Seq(Bytes) PROVE SubSeq(s, 1, 0) = <<>>
BY SubSeqEmpty

LEMMA TakenNothing == ASSUME out' = <<>> PROVE Taken(0)'
<1>1. Len(out') = 0
  OBVIOUS
<1> QED BY <1>1, SizesAssumption DEF Taken

(* Byte i of segment j is where Content says.                                *)
LEMMA SegmentContent ==
  ASSUME NEW j \in Nat, NEW i \in 1 .. PayloadMax
  PROVE  Byte("es", From(j) + i, 0) = Content(j * PayloadMax + i)
<1>1. PICK m \in Nat \ {0} : m = PayloadMax
  BY SizesAssumption
<1>2. i \in 1 .. m /\ j * m \in Nat
  BY <1>1
<1>3. CASE j = 0
  <2>1. j * m + i = i
    BY <1>2, <1>3
  <2> QED BY <1>1, <1>2, <1>3, <2>1 DEF Content, From
<1>4. CASE j # 0
  <2>1. j * m >= m
    <3>1. PICK e \in Nat : j = e + 1
      BY <1>4, j - 1 \in Nat
    <3>2. j * m = e * m + m /\ e * m >= 0
      BY <3>1
    <3> QED BY <3>2
  <2>2. (j * m + i - 1) % m = i - 1
    <3>1. i - 1 \in 0 .. m - 1 /\ j * m + i - 1 = m * j + (i - 1)
      BY <1>2
    <3>2. (m * j + (i - 1)) % m = i - 1
      BY <3>1, Remainder
    <3> QED BY <3>1, <3>2, Zenon
  <2>3. ~(j * m + i <= m) /\ m + (i - 1) + 1 = m + i
    BY <1>2, <2>1
  <2>4. Content(j * m + i) = Byte("es", m + ((j * m + i - 1) % m) + 1, 0)
    <3>1. PICK x : x = j * m + i
      OBVIOUS
    <3>2. Content(x) = Byte("es", IF x <= m THEN x ELSE m + ((x - 1) % m) + 1, 0)
      BY <1>1, Zenon DEF Content
    <3>3. ~(x <= m)
      BY <2>3, <3>1, Zenon
    <3>4. Content(x) = Byte("es", m + ((x - 1) % m) + 1, 0)
      BY <3>2, <3>3, Zenon
    <3> QED BY <3>1, <3>4
  <2>5. From(j) = m
    BY <1>1, <1>4 DEF From
  <2>6. m + ((j * m + i - 1) % m) + 1 = From(j) + i
    BY <2>2, <2>3, <2>5, Zenon
  <2> QED BY <1>1, <2>4, <2>6, Zenon
<1> QED BY <1>3, <1>4

(* A segment is taken, or passed because it does not fit.                    *)
LEMMA TakenSegment ==
  ASSUME TypeInv, TypeInv', NEW j \in Nat, NEW n \in 1 .. PayloadMax, Taken(j * PayloadMax),
         j * PayloadMax + n <= size, size' = size,
         NEW data \in Seq(Bytes), Len(data) = n,
         \A i \in 1 .. n : data[i] = Byte("es", From(j) + i, 0),
         out' = IF n + Len(out) < FrameMax THEN out \o data ELSE out
  PROVE  Taken(j * PayloadMax + n)'
<1>1. PICK p \in Nat, m \in Nat, l \in Nat :
        p = PayloadMax /\ m = j * PayloadMax /\ l = Len(out) /\ size \in Nat /\ FrameMax \in Nat
  <2>1. size \in Nat
    BY SizesAssumption DEF TypeInv, TypeOK
  <2>2. j * PayloadMax \in Nat /\ PayloadMax \in Nat
    BY 14 \in Nat, StartFacts, SizesAssumption
  <2>3. Len(out) \in Nat
    BY LenProperties DEF TypeInv, TypeOK
  <2> QED BY <2>1, <2>2, <2>3, SizesAssumption
<1>2. n \in Nat /\ n <= p /\ n >= 1 /\ m + n <= size
  BY <1>1
<1>3. CASE ~(n + l < FrameMax)
  <2>1. out' = out
    BY <1>1, <1>3
  <2>2. size >= FrameMax /\ l + p >= FrameMax
    <3>1. l = m \/ (size >= FrameMax /\ l + p >= FrameMax)
      BY <1>1 DEF Taken
    <3>2. n + m <= size /\ n + l >= FrameMax /\ n + l <= p + l
      BY <1>1, <1>2, <1>3
    <3> QED BY <1>1, <1>2, <3>1, <3>2
  <2>3. l < FrameMax /\ \A i \in 1 .. l : out[i].of = "es"
    BY <1>1 DEF Taken
  <2> QED BY <1>1, <2>1, <2>2, <2>3 DEF Taken
<1>4. CASE n + l < FrameMax
  <2>1. out' = out \o data /\ out \in Seq(Bytes) /\ data \in Seq(Bytes)
    BY <1>1, <1>4 DEF TypeInv, TypeOK
  <2>2. /\ Len(out') = l + n /\ \A i \in 1 .. l : out'[i] = out[i]
        /\ \A i \in 1 .. n : out'[l + i] = data[i]
    <3>1. /\ Len(out \o data) = Len(out) + Len(data)
          /\ \A i \in 1 .. Len(out) : (out \o data)[i] = out[i]
          /\ \A i \in 1 .. Len(data) : (out \o data)[Len(out) + i] = data[i]
      BY <2>1, BytesJoined, Zenon
    <3> QED BY <1>1, <2>1, <3>1, Zenon
  <2>3. ASSUME NEW i \in 1 .. l + n
        PROVE  \/ i \in 1 .. l /\ out'[i] = out[i]
               \/ \E e \in 1 .. n : i = l + e /\ out'[i] = data[e]
    <3>1. CASE i <= l
      <4>1. i \in 1 .. l
        BY <1>1, <3>1
      <4> QED BY <2>2, <4>1
    <3>2. CASE i > l
      <4>1. i - l \in 1 .. n /\ i = l + (i - l)
        BY <1>1, <1>2, <3>2
      <4> QED BY <2>2, <4>1
    <3> QED BY <1>1, <1>2, <3>1, <3>2
  <2>4. \A i \in 1 .. l + n : out'[i].of = "es"
    <3>1. \A i \in 1 .. l : out[i].of = "es"
      BY <1>1 DEF Taken
    <3>2. \A i \in 1 .. n : data[i].of = "es"
      BY DEF Byte
    <3>3. ASSUME NEW i \in 1 .. l + n
          PROVE  out'[i].of = "es"
      BY <2>3, <3>1, <3>2, Zenon
    <3> QED BY <3>3
  <2>5. l + n \in Nat /\ Len(out') = l + n /\ l + n < FrameMax
    BY <1>1, <1>2, <1>4, <2>2
  <2>6. CASE l = m /\ \A i \in 1 .. m : out[i] = Content(i)
    <3>1. \A e \in 1 .. n : data[e] = Content(m + e)
      <4>1. \A e \in 1 .. n : e \in 1 .. PayloadMax
        BY <1>1, <1>2
      <4> QED BY <1>1, <4>1, SegmentContent
    <3>2. ASSUME NEW i \in 1 .. l + n
          PROVE  out'[i] = Content(i)
      <4>1. CASE i \in 1 .. l /\ out'[i] = out[i]
        BY <2>6, <4>1
      <4>2. CASE \E e \in 1 .. n : i = l + e /\ out'[i] = data[e]
        BY <2>6, <3>1, <4>2, Zenon
      <4> QED BY <2>3, <4>1, <4>2
    <3>3. \A i \in 1 .. m + n : out'[i] = Content(i)
      BY <2>6, <3>2
    <3>4. Len(out') = m + n
      BY <2>5, <2>6
    <3>5. (Len(out) = m + n /\ \A i \in 1 .. m + n : out[i] = Content(i))'
      BY <3>3, <3>4 DEF Content
    <3>6. (Len(out) < FrameMax /\ \A i \in 1 .. Len(out) : out[i].of = "es")'
      BY <2>4, <2>5
    <3> QED BY <1>1, <3>5, <3>6, Zenon DEF Taken
  <2>7. CASE size >= FrameMax /\ l + p >= FrameMax
    <3>1. l + n < FrameMax /\ l + n + p >= FrameMax
      BY <1>1, <1>2, <1>4, <2>7
    <3> QED BY <1>1, <2>2, <2>4, <2>7, <3>1 DEF Taken
  <2> QED BY <1>1, <2>6, <2>7 DEF Taken
<1> QED BY <1>3, <1>4

(* A header that is there in full is the one the parser reads.               *)
LEMMA Intact ==
  ASSUME NEW id, NEW len, NEW b \in Nat, pack = b, NEW l \in Nat, l = Len(rx), b + 9 <= l,
         \A i \in 1 .. 9 : rx[b + i].of = id /\ rx[b + i].at = i /\ rx[b + i].len = len
  PROVE  /\ StartCode(id) /\ PackLengths(id) = {len}
         /\ \A other : other # id => ~StartCode(other)
<1>1. \A i \in 1 .. 9 : Holds(id, i)
  BY DEF Holds
<1>2. rx[b + 5].len = len /\ rx[b + 6].len = len /\ rx[b + 1].of = id
  OBVIOUS
<1>3. StartCode(id)
  <2>1. \A i \in 1 .. 4 : i \in 1 .. 9
    OBVIOUS
  <2> QED BY <1>1, <2>1, Zenon DEF StartCode
<1>4. PackLengths(id) = {len}
  <2>1. Holds(id, 5) /\ Holds(id, 6)
    BY <1>1
  <2> QED BY <1>2, <2>1, Zenon DEF PackLengths
<1>5. ASSUME NEW other, other # id PROVE ~StartCode(other)
  <2>1. ~Holds(other, 1)
    BY <1>2, <1>5 DEF Holds
  <2> QED BY <2>1 DEF StartCode
<1> QED BY <1>3, <1>4, <1>5

LEMMA ByteFields ==
  ASSUME NEW of, NEW at, NEW len
  PROVE  Byte(of, at, len).of = of /\ Byte(of, at, len).at = at /\ Byte(of, at, len).len = len
BY DEF Byte

(* Segment j of a packed stream and where it ends.                           *)
LEMMA SegmentAt ==
  ASSUME TypeInv, NEW d \in {14, 56}, NEW k \in Nat, Packed(d, k), NEW j \in 0 .. k
  PROVE  \E n \in 1 .. PayloadMax :
           /\ PesAt(Start(d, j), From(j), n)
           /\ j * PayloadMax + n <= size
           /\ \/ /\ j < k /\ Start(d, j) + 19 + n = Start(d, j + 1)
                 /\ j * PayloadMax + n = (j + 1) * PayloadMax
              \/ Start(d, j) + 19 + n = Len(ps) /\ j * PayloadMax + n = size
<1>1. j \in Nat /\ k \in Nat /\ d \in Nat
  OBVIOUS
<1>2. CASE j < k
  <2>1. PesAt(Start(d, j), From(j), PayloadMax)
    BY <1>1, <1>2 DEF Packed, Full
  <2>2. PICK p \in Nat \ {0}, a \in Nat, c \in Nat, s \in Nat :
          /\ p = PayloadMax /\ a = j * PayloadMax /\ c = k * PayloadMax /\ a + p <= c
          /\ s = Start(d, j) /\ Start(d, j + 1) = s + 19 + p /\ (j + 1) * PayloadMax = a + p
    <3>1. /\ PayloadMax \in Nat \ {0} /\ j * PayloadMax \in Nat /\ k * PayloadMax \in Nat
          /\ j * PayloadMax + PayloadMax <= k * PayloadMax /\ Start(d, j) \in Nat
      BY <1>1, <1>2, StartFacts, SizesAssumption
    <3>2. /\ Start(d, j + 1) = Start(d, j) + 19 + PayloadMax
          /\ (j + 1) * PayloadMax = j * PayloadMax + PayloadMax
      BY <1>1, StartFacts
    <3> QED BY <3>1, <3>2, Zenon
  <2>3. a + p <= size
    <3>1. size = c + remain /\ remain \in Nat
      BY <2>2, SizesAssumption DEF Packed
    <3> QED BY <2>2, <3>1
  <2>4. p \in 1 .. PayloadMax /\ s + 19 + p = Start(d, j + 1) /\ a + p = (j + 1) * PayloadMax
    BY <2>2
  <2>5. /\ PesAt(Start(d, j), From(j), p) /\ j * PayloadMax + p <= size
        /\ Start(d, j) + 19 + p = Start(d, j + 1)
        /\ j * PayloadMax + p = (j + 1) * PayloadMax
    BY <2>1, <2>2, <2>3, <2>4, Zenon
  <2> QED BY <1>2, <2>4, <2>5, Zenon
<1>3. CASE j = k
  <2>1. /\ PesAt(Start(d, j), From(j), remain) /\ Start(d, j) + 19 + remain = Len(ps)
        /\ j * PayloadMax + remain = size /\ remain \in 1 .. PayloadMax
    BY <1>3 DEF Packed
  <2>2. size <= size
    BY SizesAssumption DEF TypeInv, TypeOK
  <2> QED BY <2>1, <2>2, Zenon
<1> QED BY <1>2, <1>3, <1>1

(* Arrival.                                                                  *)

LEMMA ArriveInit == Init => ArriveInv
BY DEF Init, ArriveInv

LEMMA ArrivePack ==
  ASSUME TypeInv', ArriveInv,
         (\E n \in FrameSizes, key \in BOOLEAN : Encoded(n, key)) \/ Segment \/ LastSegment
  PROVE  ArriveInv'
<1>1. sent' = 0 /\ pc' \in {"pack", "send"} /\ (lost' = 0 => rx' = <<>>)
  <2>1. CASE \E n \in FrameSizes, key \in BOOLEAN : Encoded(n, key)
    BY <2>1 DEF Encoded
  <2>2. CASE Segment \/ LastSegment
    <3>1. sent' = sent /\ lost' = lost /\ rx' = rx /\ pc = "pack" /\ pc' \in {"pack", "send"}
      BY <2>2 DEF Segment, LastSegment, netVars
    <3>2. sent = 0 /\ (lost = 0 => rx = SubSeq(ps, 1, sent))
      BY <3>1 DEF ArriveInv
    <3>3. SubSeq(ps, 1, 0) = <<>>
      BY SubSeqEmpty
    <3> QED BY <3>1, <3>2, <3>3
  <2> QED BY <2>1, <2>2
<1>2. SubSeq(ps', 1, 0) = <<>>
  BY SubSeqEmpty
<1> QED BY <1>1, <1>2, Zenon DEF ArriveInv

LEMMA ArriveFull == ASSUME TypeInv, ArriveInv, FullPacket PROVE ArriveInv'
<1>1. /\ pc = "send" /\ pc' = "send" /\ ps' = ps /\ sent' = sent + PacketSize
      /\ sent + PacketSize <= Len(ps)
  <2>1. sent \in Nat /\ Len(ps) \in Nat /\ PacketSize \in Nat
    BY SizesAssumption, LenProperties DEF TypeInv, TypeOK
  <2> QED BY <2>1 DEF FullPacket, packVars
<1>2. SUFFICES ASSUME lost' = 0 PROVE rx' = SubSeq(ps', 1, sent')
  BY <1>1 DEF ArriveInv
<1>3. ~Missing
  BY <1>2 DEF Missing, TypeInv, TypeOK
<1>4. lost = 0 /\ rx' = rx \o SubSeq(ps, sent + 1, sent + PacketSize)
  BY <1>2, <1>3 DEF FullPacket
<1>5. rx = SubSeq(ps, 1, sent)
  BY <1>1, <1>4 DEF ArriveInv
<1>6. SubSeq(ps, 1, sent) \o SubSeq(ps, sent + 1, sent + PacketSize)
        = SubSeq(ps, 1, sent + PacketSize)
  <2>1. PICK a \in Nat, b \in Nat : a = sent /\ b = sent + PacketSize /\ a <= b /\ b <= Len(ps)
    BY <1>1, SizesAssumption DEF TypeInv, TypeOK
  <2>2. ps \in Seq(Bytes)
    BY DEF TypeInv, TypeOK
  <2>3. SubSeq(ps, 1, a) \o SubSeq(ps, a + 1, b) = SubSeq(ps, 1, b)
    BY <2>1, <2>2, Prefixed
  <2> QED BY <2>1, <2>3, Zenon
<1> QED BY <1>1, <1>4, <1>5, <1>6, Zenon

LEMMA ArriveLast ==
  ASSUME TypeInv, TypeInv', PackInv, ArriveInv, LastPacket PROVE ArriveInv'
<1>1. pc = "send" /\ pc' = "parse" /\ UNCHANGED packVars /\ ps' = ps
  BY DEF LastPacket, packVars
<1>2. SUFFICES ASSUME lost' = 0 PROVE Parsing'
  BY <1>1 DEF ArriveInv
<1>3. ~Missing
  BY <1>2 DEF Missing, TypeInv, TypeOK
<1>4. lost = 0 /\ rx' = rx \o SubSeq(ps, sent + 1, Len(ps))
  BY <1>2, <1>3 DEF LastPacket
<1>5. rx' = ps
  <2>1. PICK a \in Nat, b \in Nat : a = sent /\ b = Len(ps) /\ a <= b /\ b <= Len(ps)
    <3>1. ps \in Seq(Bytes) /\ sent \in 0 .. Len(ps)
      BY DEF TypeInv, TypeOK
    <3>2. Len(ps) \in Nat
      BY <3>1
    <3> QED BY <3>1, <3>2
  <2>2. ps \in Seq(Bytes)
    BY DEF TypeInv, TypeOK
  <2>3. SubSeq(ps, 1, a) \o SubSeq(ps, a + 1, b) = SubSeq(ps, 1, b)
    BY <2>1, <2>2, Prefixed
  <2>4. SubSeq(ps, 1, Len(ps)) = ps
    BY <2>2, SubSeqFull
  <2>5. rx = SubSeq(ps, 1, sent)
    BY <1>1, <1>4 DEF ArriveInv
  <2> QED BY <1>4, <2>1, <2>3, <2>4, <2>5, Zenon
<1>6. PICK d \in {14, 56}, k \in Nat : Packed(d, k)
  BY <1>1 DEF PackInv
<1>7. Packed(d, k)'
  BY <1>1, <1>6 DEF Packed, Full, Lead, PesAt, packVars
<1>8. pack' = 14 /\ left' = Len(ps') - pack' /\ out' = <<>>
  BY <1>1, <1>5 DEF LastPacket
<1>9. Place(d, k)'
  <2>1. CASE d = 56
    BY <1>1, <1>8, <2>1 DEF Place, AtHeader
  <2>2. CASE d = 14
    <3>1. Start(14, 0) = 14 /\ 0 * PayloadMax = 0 /\ 0 \in 0 .. k
      BY SizesAssumption, StartFacts, 14 \in Nat, 0 \in Nat
    <3>2. Taken(0 * PayloadMax)' /\ pack' = Start(d, 0)
      BY <1>8, <2>2, <3>1, TakenNothing
    <3>3. AtSegment(d, k)'
      BY <3>1, <3>2 DEF AtSegment
    <3> QED BY <1>1, <1>8, <3>3 DEF Place
  <2> QED BY <2>1, <2>2
<1> QED BY <1>1, <1>5, <1>7, <1>9 DEF Parsing

LEMMA PackedStays ==
  ASSUME NEW d, NEW k, Packed(d, k), UNCHANGED packVars
  PROVE  Packed(d, k)'
<1>1. UNCHANGED <<ps, size, remain>>
  BY DEF packVars
<1>2. ASSUME NEW b, NEW f, NEW n PROVE PesAt(b, f, n)' <=> PesAt(b, f, n)
  BY <1>1 DEF PesAt
<1> QED BY <1>1, <1>2 DEF Packed, Full, Lead

(* The headers before the first segment are skipped.                         *)

(* Header id of bytes + len bytes behind pack leads to the place behind it.  *)
LEMMA HeaderAt ==
  ASSUME TypeInv, NEW k \in Nat, Packed(56, k), AtHeader(56), rx = ps
  PROVE  \E id \in {"BB", "BC"}, len \in {12, 18} :
           /\ StartCode(id) /\ PackLengths(id) = {len}
           /\ \A other : other # id => ~StartCode(other)
           /\ pack + len + 6 < Len(ps)
           /\ (pack = 14 /\ len = 12) \/ (pack = 32 /\ len = 18)
<1>1. PICK l \in Nat : l = Len(rx) /\ l = Len(ps)
  <2>1. rx \in Seq(Bytes)
    BY DEF TypeInv, TypeOK
  <2>2. Len(rx) \in Nat
    BY <2>1
  <2> QED BY <2>2
<1>2. 56 < l
  <2>1. Start(56, k) \in Nat /\ Start(56, k) >= 56
    BY StartFacts, 56 \in Nat
  <2>2. Len(ps) = Start(56, k) + 19 + remain /\ remain \in 1 .. PayloadMax
    BY DEF Packed
  <2> QED BY <1>1, <2>1, <2>2, SizesAssumption
<1>3. /\ \A i \in 1 .. 18 : rx[14 + i] = Byte("BB", i, 12)
      /\ \A i \in 1 .. 24 : rx[32 + i] = Byte("BC", i, 18)
  BY DEF Packed, Full, Lead
<1>4. CASE pack = 14
  <2>1. \A i \in 1 .. 9 : rx[14 + i].of = "BB" /\ rx[14 + i].at = i /\ rx[14 + i].len = 12
    <3>1. \A i \in 1 .. 9 : rx[14 + i] = Byte("BB", i, 12)
      BY <1>3
    <3> QED BY <3>1, ByteFields
  <2>2. /\ StartCode("BB") /\ PackLengths("BB") = {12}
        /\ \A other : other # "BB" => ~StartCode(other)
    <3>1. 14 \in Nat /\ 14 + 9 <= l
      BY <1>2
    <3>2. PICK b \in Nat, id \in {"BB"}, len \in Nat : b = 14 /\ id = "BB" /\ len = 12
      OBVIOUS
    <3>3. /\ pack = b /\ l = Len(rx) /\ b + 9 <= l
          /\ \A i \in 1 .. 9 : rx[b + i].of = id /\ rx[b + i].at = i /\ rx[b + i].len = len
      BY <1>1, <1>4, <2>1, <3>1, <3>2
    <3>4. /\ StartCode(id) /\ PackLengths(id) = {len}
          /\ \A other : other # id => ~StartCode(other)
      BY <3>3, Intact
    <3> QED BY <3>2, <3>4
  <2>3. pack + 12 + 6 < Len(ps)
    BY <1>1, <1>2, <1>4
  <2> QED BY <1>4, <2>2, <2>3
<1>5. CASE pack = 32
  <2>1. \A i \in 1 .. 9 : rx[32 + i].of = "BC" /\ rx[32 + i].at = i /\ rx[32 + i].len = 18
    <3>1. \A i \in 1 .. 9 : rx[32 + i] = Byte("BC", i, 18)
      BY <1>3
    <3> QED BY <3>1, ByteFields
  <2>2. /\ StartCode("BC") /\ PackLengths("BC") = {18}
        /\ \A other : other # "BC" => ~StartCode(other)
    <3>1. 32 \in Nat /\ 32 + 9 <= l
      BY <1>2
    <3>2. PICK b \in Nat, id \in {"BC"}, len \in Nat : b = 32 /\ id = "BC" /\ len = 18
      OBVIOUS
    <3>3. /\ pack = b /\ l = Len(rx) /\ b + 9 <= l
          /\ \A i \in 1 .. 9 : rx[b + i].of = id /\ rx[b + i].at = i /\ rx[b + i].len = len
      BY <1>1, <1>5, <2>1, <3>1, <3>2
    <3>4. /\ StartCode(id) /\ PackLengths(id) = {len}
          /\ \A other : other # id => ~StartCode(other)
      BY <3>3, Intact
    <3> QED BY <3>2, <3>4
  <2>3. pack + 18 + 6 < Len(ps)
    BY <1>1, <1>2, <1>5
  <2> QED BY <1>5, <2>2, <2>3
<1> QED BY <1>4, <1>5 DEF AtHeader

LEMMA ParseHeader ==
  ASSUME TypeInv, ParseSteps, pc = "parse", rx = ps, NEW d \in {14, 56}, NEW k \in Nat,
         Packed(d, k), left = Len(ps) - pack, AtHeader(d)
  PROVE  Parsing' /\ pc' # "crashed"
<1>1. d = 56 /\ out = <<>>
  BY DEF AtHeader
<1>2. PICK id \in {"BB", "BC"}, len \in {12, 18} :
        /\ StartCode(id) /\ PackLengths(id) = {len}
        /\ \A other : other # id => ~StartCode(other)
        /\ pack + len + 6 < Len(ps)
        /\ (pack = 14 /\ len = 12) \/ (pack = 32 /\ len = 18)
  BY <1>1, HeaderAt
<1>3. Len(ps) \in Nat /\ pack \in Nat
  <2>1. ps \in Seq(Bytes)
    BY DEF TypeInv, TypeOK
  <2> QED BY <2>1 DEF TypeInv, TypeOK
<1>4. ParseSkip
  <2>1. left >= 4
    BY <1>2, <1>3
  <2>2. ~ParseEnd
    BY <1>2, <2>1 DEF ParseEnd, GoesOn
  <2>3. ~ParsePes
    BY <1>2 DEF ParsePes
  <2> QED BY <2>2, <2>3 DEF ParseSteps
<1>5. left' = left - len - 6 /\ pack' = IF left' <= 0 THEN pack ELSE pack + len + 6
  BY <1>2, <1>4 DEF ParseSkip
<1>6. pack' = pack + len + 6 /\ left' = Len(ps) - pack'
  BY <1>2, <1>3, <1>5
<1>7. pc' = "parse" /\ UNCHANGED packVars /\ ps' = ps /\ rx' = ps' /\ out' = <<>>
  BY <1>1, <1>4 DEF ParseSkip, packVars, netVars
<1>8. Packed(d, k)'
  BY <1>7, PackedStays
<1>9. Place(d, k)'
  <2>1. CASE pack = 14
    BY <1>1, <1>2, <1>6, <1>7, <2>1 DEF Place, AtHeader
  <2>2. CASE pack = 32
    <3>1. Start(d, 0) = 56 /\ 0 * PayloadMax = 0 /\ 0 \in 0 .. k
      BY <1>1, SizesAssumption, StartFacts, 56 \in Nat, 0 \in Nat
    <3>2. Taken(0 * PayloadMax)' /\ pack' = Start(d, 0)
      BY <1>2, <1>6, <1>7, <2>2, <3>1, TakenNothing
    <3>3. AtSegment(d, k)'
      BY <3>1, <3>2 DEF AtSegment
    <3> QED BY <1>6, <1>7, <3>3 DEF Place
  <2> QED BY <1>2, <2>1, <2>2
<1> QED BY <1>7, <1>8, <1>9 DEF Parsing

(* A segment is parsed: the next begins behind it, or the stream ends there. *)
LEMMA PesStarts ==
  ASSUME TypeInv, NEW b \in Nat, pack = b, NEW n \in Nat, NEW f, PesAt(b, f, n), rx = ps
  PROVE  /\ StartCode("E0") /\ PackLengths("E0") = {n + 13} /\ Stuffings = {10}
         /\ \A other : other # "E0" => ~StartCode(other)
         /\ PesPayload(n + 13, 10) = n /\ CopyEnds(n + 13, 10) = {"parse"}
         /\ PesData(n + 13, 10) \in Seq(Bytes) /\ Len(PesData(n + 13, 10)) = n
         /\ \A i \in 1 .. n : PesData(n + 13, 10)[i] = Byte("es", f + i, 0)
<1>1. PICK l \in Nat : l = Len(rx) /\ b + 19 + n <= l
  <2>1. rx \in Seq(Bytes)
    BY DEF TypeInv, TypeOK
  <2>2. Len(rx) \in Nat
    BY <2>1
  <2> QED BY <2>2 DEF PesAt
<1>2. PICK id \in {"E0"}, len \in Nat : id = "E0" /\ len = n + 13
  OBVIOUS
<1>3. \A i \in 1 .. 9 : rx[b + i].of = id /\ rx[b + i].at = i /\ rx[b + i].len = len
  <2>1. \A i \in 1 .. 9 : rx[b + i] = Byte(id, i, len)
    <3>1. \A i \in 1 .. 19 : ps[b + i] = Byte("E0", i, n + 13)
      BY Zenon DEF PesAt
    <3>2. \A i \in 1 .. 9 : i \in 1 .. 19
      OBVIOUS
    <3> QED BY <1>2, <3>1, <3>2, Zenon
  <2> QED BY <2>1, ByteFields
<1>4. b + 9 <= l
  BY <1>1
<1>5. /\ StartCode(id) /\ PackLengths(id) = {len} /\ Stuffings = {10}
      /\ \A other : other # id => ~StartCode(other)
  <2>1. /\ StartCode(id) /\ PackLengths(id) = {len}
        /\ \A other : other # id => ~StartCode(other)
    BY <1>1, <1>3, <1>4, Intact
  <2>2. Holds("E0", 9)
    BY <1>1, <1>2, <1>3, <1>4 DEF Holds
  <2> QED BY <2>1, <2>2, Zenon DEF Stuffings
<1>6. PICK s \in Nat, p \in Nat : s = 10 /\ p = b + 9 + s /\ PesPayload(len, s) = n
  <2>1. 10 \in Nat /\ b + 9 + 10 \in Nat /\ PesPayload(len, 10) = n
    BY <1>2 DEF PesPayload
  <2> QED BY <2>1
<1>7. \A i \in 1 .. n : /\ p + i <= l /\ ~(p + i > l)
                         /\ rx[p + i] = Byte("es", f + i, 0)
  <2>1. \A i \in 1 .. n : rx[b + 19 + i] = Byte("es", f + i, 0)
    BY DEF PesAt
  <2>2. p = b + 19
    BY <1>6
  <2> QED BY <1>1, <2>1, <2>2
<1>8. PesData(len, s) = [i \in 1 .. n |-> IF p + i <= l THEN rx[p + i] ELSE Beyond]
  BY <1>1, <1>6, Zenon DEF PesData
<1>9. \A i \in 1 .. n : PesData(len, s)[i] = Byte("es", f + i, 0)
  BY <1>7, <1>8, Zenon
<1>10. PesData(len, s) \in Seq(Bytes)
  BY <1>2, <1>6, DataType
<1>11. Len(PesData(len, s)) = n
  <2>1. DOMAIN PesData(len, s) = 1 .. n
    BY <1>8, Zenon
  <2> QED BY <1>10, <2>1, LenProperties
<1>12. CopyEnds(len, s) = {"parse"}
  <2>1. ~(PesPayload(len, s) < 0)
    BY <1>6
  <2>2. ~\E i \in 1 .. PesPayload(len, s) : pack + 9 + s + i > Len(rx)
    BY <1>1, <1>6, <1>7, Zenon
  <2> QED BY <2>1, <2>2, Zenon DEF CopyEnds
<1> QED BY <1>2, <1>5, <1>6, <1>9, <1>10, <1>11, <1>12, Zenon

LEMMA ParseSegment ==
  ASSUME TypeInv, TypeInv', ParseSteps, pc = "parse", rx = ps, NEW d \in {14, 56}, NEW k \in Nat,
         Packed(d, k), left = Len(ps) - pack, AtSegment(d, k)
  PROVE  Parsing' /\ pc' # "crashed"
<1>1. PICK j \in 0 .. k : pack = Start(d, j) /\ Taken(j * PayloadMax)
  BY DEF AtSegment
<1>2. PICK n \in 1 .. PayloadMax :
        /\ PesAt(Start(d, j), From(j), n)
        /\ j * PayloadMax + n <= size
        /\ \/ /\ j < k /\ Start(d, j) + 19 + n = Start(d, j + 1)
              /\ j * PayloadMax + n = (j + 1) * PayloadMax
           \/ Start(d, j) + 19 + n = Len(ps) /\ j * PayloadMax + n = size
  BY SegmentAt
<1>3. PICK b \in Nat, l \in Nat : b = pack /\ l = Len(ps)
  <2>1. ps \in Seq(Bytes) /\ pack \in Nat
    BY DEF TypeInv, TypeOK
  <2>2. Len(ps) \in Nat
    BY <2>1
  <2> QED BY <2>1, <2>2
<1>4. PICK f : f = From(j)
  OBVIOUS
<1>5. PesAt(b, f, n) /\ n \in Nat /\ b + 19 + n <= l /\ n >= 1
  <2>1. PesAt(b, f, n) /\ n \in Nat /\ n >= 1
    BY <1>1, <1>2, <1>3, <1>4, SizesAssumption
  <2> QED BY <1>3, <2>1 DEF PesAt
<1>6. /\ StartCode("E0") /\ PackLengths("E0") = {n + 13} /\ Stuffings = {10}
      /\ \A other : other # "E0" => ~StartCode(other)
      /\ PesPayload(n + 13, 10) = n /\ CopyEnds(n + 13, 10) = {"parse"}
      /\ PesData(n + 13, 10) \in Seq(Bytes) /\ Len(PesData(n + 13, 10)) = n
      /\ \A i \in 1 .. n : PesData(n + 13, 10)[i] = Byte("es", f + i, 0)
  BY <1>3, <1>5, PesStarts
<1>7. ParsePes
  <2>1. left >= 4
    BY <1>3, <1>5
  <2>2. ~ParseEnd
    BY <1>6, <2>1 DEF ParseEnd, GoesOn
  <2>3. ~ParseSkip
    BY <1>6 DEF ParseSkip
  <2> QED BY <2>2, <2>3 DEF ParseSteps
<1>8. /\ left' = left - (n + 13) - 6 /\ pc' = "parse"
      /\ pack' = IF left' < 0 THEN pack + 4 ELSE pack + (n + 13) + 6
      /\ out' = IF n + Len(out) < FrameMax THEN out \o PesData(n + 13, 10) ELSE out
  <2>1. \E len \in {n + 13}, stuffing \in {10} :
          /\ left' = left - len - 6
          /\ pack' = IF left' < 0 THEN pack + 4 ELSE pack + len + 6
          /\ IF PesPayload(len, stuffing) + Len(out) < FrameMax
             THEN pc' \in CopyEnds(len, stuffing) /\ out' = out \o PesData(len, stuffing)
             ELSE UNCHANGED <<pc, out>>
    BY <1>6, <1>7, Zenon DEF ParsePes
  <2> QED BY <1>6, <2>1
<1>9. pack' = b + 19 + n /\ left' = Len(ps) - pack'
  BY <1>3, <1>5, <1>8
<1>10. /\ pc' = "parse" /\ UNCHANGED packVars /\ ps' = ps /\ rx' = ps' /\ size' = size
  BY <1>7, <1>8 DEF ParsePes, packVars, netVars
<1>11. Packed(d, k)'
  BY <1>10, PackedStays
<1>12. Taken(j * PayloadMax + n)'
  <2>1. PICK data \in Seq(Bytes) : data = PesData(n + 13, 10)
    BY <1>6
  <2>2. /\ Len(data) = n /\ \A i \in 1 .. n : data[i] = Byte("es", From(j) + i, 0)
        /\ out' = IF n + Len(out) < FrameMax THEN out \o data ELSE out
    BY <1>4, <1>6, <1>8, <2>1, Zenon
  <2>3. j \in Nat
    OBVIOUS
  <2> QED BY <1>1, <1>2, <1>10, <2>2, <2>3, TakenSegment
<1>13. Place(d, k)'
  <2>1. CASE /\ j < k /\ Start(d, j) + 19 + n = Start(d, j + 1)
             /\ j * PayloadMax + n = (j + 1) * PayloadMax
    <3>1. PICK i \in 0 .. k : i = j + 1
      BY <2>1
    <3>2. pack' = Start(d, i) /\ Taken(i * PayloadMax)'
      <4>1. pack' = Start(d, i)
        BY <1>1, <1>3, <1>9, <2>1, <3>1
      <4>2. PICK m : m = j * PayloadMax + n /\ m = i * PayloadMax
        BY <2>1, <3>1
      <4>3. Taken(m)'
        BY <1>12, <4>2
      <4> QED BY <4>1, <4>2, <4>3
    <3>3. AtSegment(d, k)'
      BY <3>2 DEF AtSegment
    <3> QED BY <1>9, <1>10, <3>3 DEF Place
  <2>2. CASE Start(d, j) + 19 + n = Len(ps) /\ j * PayloadMax + n = size
    <3>1. pack' = Len(ps')
      BY <1>1, <1>3, <1>9, <1>10, <2>2
    <3>2. Taken(size)'
      <4>1. PICK m : m = j * PayloadMax + n /\ m = size
        BY <2>2
      <4>2. Taken(m)' /\ m = size'
        BY <1>10, <1>12, <4>1
      <4> QED BY <4>2
    <3> QED BY <1>9, <1>10, <3>1, <3>2 DEF Place, AtEnd
  <2> QED BY <1>2, <2>1, <2>2
<1> QED BY <1>10, <1>11, <1>13 DEF Parsing

(* Behind the last segment the parser ends.                                  *)
LEMMA ParseBehind ==
  ASSUME TypeInv, ParseSteps, rx = ps, NEW d \in {14, 56}, NEW k \in Nat,
         Packed(d, k), left = Len(ps) - pack, AtEnd
  PROVE  Parsing' /\ pc' # "crashed"
<1>1. left = 0 /\ Len(ps) \in Nat
  <2>1. ps \in Seq(Bytes)
    BY DEF TypeInv, TypeOK
  <2>2. Len(ps) \in Nat
    BY <2>1
  <2> QED BY <2>2 DEF AtEnd
<1>2. ParseEnd
  BY <1>1 DEF ParseSteps, ParseSkip, ParsePes, GoesOn
<1>3. /\ UNCHANGED <<packVars, pack, left, out>> /\ rx' = ps' /\ pc' = "done"
      /\ ps' = ps /\ size' = size
  BY <1>2 DEF ParseEnd, packVars, netVars, parseVars
<1>4. Packed(d, k)'
  BY <1>3, PackedStays
<1>5. Taken(size)'
  BY <1>3 DEF AtEnd, Taken, Content
<1>6. Place(d, k)'
  BY <1>3, <1>5 DEF Place, AtEnd
<1> QED BY <1>3, <1>4, <1>6 DEF Parsing

LEMMA ArriveParse ==
  ASSUME TypeInv, TypeInv', ArriveInv, ParseSteps PROVE ArriveInv'
<1>1. pc = "parse" /\ pc' \in {"parse", "done", "crashed"} /\ lost' = lost
  <2>1. CASE ParsePes
    <3>1. pc' = pc \/ \E len, stuffing : pc' \in CopyEnds(len, stuffing)
      BY <2>1 DEF ParsePes
    <3> QED BY <2>1, <3>1 DEF ParsePes, CopyEnds, netVars
  <2> QED BY <2>1 DEF ParseSteps, ParseSkip, ParseEnd, netVars
<1>2. SUFFICES ASSUME lost = 0 PROVE Parsing' /\ pc' # "crashed"
  BY <1>1 DEF ArriveInv
<1>3. Parsing
  BY <1>1, <1>2 DEF ArriveInv
<1>4. PICK d \in {14, 56}, k \in Nat : Packed(d, k) /\ Place(d, k)
  BY <1>3 DEF Parsing
<1>5. rx = ps /\ left = Len(ps) - pack
  BY <1>3, <1>4 DEF Parsing, Place
<1>6. CASE AtHeader(d)
  BY <1>1, <1>4, <1>5, <1>6, ParseHeader
<1>7. CASE AtSegment(d, k)
  BY <1>1, <1>4, <1>5, <1>7, ParseSegment
<1>8. CASE AtEnd
  BY <1>4, <1>5, <1>8, ParseBehind
<1> QED BY <1>4, <1>6, <1>7, <1>8 DEF Place

LEMMA ArriveNext == TypeInv /\ TypeInv' /\ PackInv /\ ArriveInv /\ [Next]_vars => ArriveInv'
<1> SUFFICES ASSUME TypeInv, TypeInv', PackInv, ArriveInv, [Next]_vars PROVE ArriveInv'
  OBVIOUS
<1>1. CASE UNCHANGED vars
  <2>1. /\ UNCHANGED packVars /\ ps' = ps /\ pc' = pc /\ sent' = sent /\ rx' = rx /\ lost' = lost
        /\ pack' = pack /\ left' = left /\ out' = out /\ size' = size
    BY <1>1 DEF vars, packVars, netVars, parseVars
  <2>2. ASSUME NEW m PROVE Taken(m)' <=> Taken(m)
    BY <2>1 DEF Taken, Content
  <2>3. ASSUME NEW d, NEW k PROVE Place(d, k)' <=> Place(d, k)
    BY <2>1, <2>2 DEF Place, AtHeader, AtSegment, AtEnd
  <2>4. Parsing => Parsing'
    BY <2>1, <2>3, PackedStays DEF Parsing
  <2> QED BY <2>1, <2>4 DEF ArriveInv
<1> QED BY <1>1, ArrivePack, ArriveFull, ArriveLast, ArriveParse DEF Next

StreamInv == TypeInv /\ PackInv /\ ArriveInv

LEMMA StreamCorrect == Spec => []StreamInv
<1>1. Init => StreamInv
  BY TypeInit, PackInit, ArriveInit DEF StreamInv
<1>2. StreamInv /\ [Next]_vars => StreamInv'
  BY TypeNext, PackNext, ArriveNext DEF StreamInv
<1> QED BY <1>1, <1>2, PTL DEF Spec

(* An undamaged stream has been taken to its end.                            *)
LEMMA DoneTaken == ASSUME StreamInv, Undamaged PROVE Taken(size)
<1>1. Parsing /\ pc = "done"
  BY DEF StreamInv, Undamaged, ArriveInv
<1> QED BY <1>1 DEF Parsing, Place, AtEnd

(* Content as the property has it: two segments, then the second again.      *)
LEMMA ContentParts ==
  /\ \A i \in 1 .. 2 * PayloadMax : Content(i) = Byte("es", i, 0)
  /\ \A e \in Nat \ {0} :
       Content(2 * PayloadMax + e) = Byte("es", PayloadMax + ((e - 1) % PayloadMax) + 1, 0)
<1>1. PICK m \in Nat \ {0} : m = PayloadMax
  BY SizesAssumption
<1>2. \A i : Content(i) = Byte("es", IF i <= m THEN i ELSE m + ((i - 1) % m) + 1, 0)
  BY <1>1, Zenon DEF Content
<1>3. ASSUME NEW i \in 1 .. 2 * m PROVE Content(i) = Byte("es", i, 0)
  <2>1. CASE i <= m
    BY <1>2, <2>1, Zenon
  <2>2. CASE ~(i <= m)
    <3>1. PICK r \in 0 .. m - 1 : i - 1 = m * 1 + r /\ i = m + r + 1
      BY <2>2, i - 1 - m \in 0 .. m - 1
    <3>2. (m * 1 + r) % m = r
      BY Remainder, 1 \in Nat
    <3>3. m + ((i - 1) % m) + 1 = i
      BY <3>1, <3>2
    <3>4. Content(i) = Byte("es", m + ((i - 1) % m) + 1, 0)
      BY <1>2, <2>2, Zenon
    <3> QED BY <3>3, <3>4, Zenon
  <2> QED BY <2>1, <2>2
<1>4. ASSUME NEW e \in Nat \ {0}
      PROVE  Content(2 * m + e) = Byte("es", m + ((e - 1) % m) + 1, 0)
  <2>1. PICK q \in Nat, r \in 0 .. m - 1 : r = (e - 1) % m /\ e - 1 = m * q + r
    BY Division, e - 1 \in Nat
  <2>2. q + 2 \in Nat /\ 2 * m + e - 1 = m * (q + 2) + r
    BY <2>1
  <2>3. (2 * m + e - 1) % m = r
    <3>1. PICK p \in Nat : p = q + 2
      BY <2>2
    <3>2. (m * p + r) % m = r
      BY Remainder
    <3> QED BY <2>2, <3>1, <3>2, Zenon
  <2>4. PICK x \in Nat : x = 2 * m + e /\ ~(x <= m) /\ x - 1 = 2 * m + e - 1
    OBVIOUS
  <2>5. Content(x) = Byte("es", m + ((x - 1) % m) + 1, 0)
    BY <1>2, <2>4, Zenon
  <2>6. (x - 1) % m = (e - 1) % m
    BY <2>1, <2>3, <2>4, Zenon
  <2> QED BY <2>4, <2>5, <2>6, Zenon
<1> QED BY <1>1, <1>3, <1>4

(* What a receiver takes out of an undamaged stream: the first two segments  *)
(* of the frame and, for every further one, the beginning of the second      *)
(* again (TdPs.cpp:366-382).                                                 *)
THEOREM RoundTripCorrect == Spec => []RoundTrip
<1>1. StreamInv => RoundTrip
  <2> SUFFICES ASSUME StreamInv, Undamaged, size < FrameMax
               PROVE  out = Data(0, IF size <= 2 * PayloadMax THEN size ELSE 2 * PayloadMax)
                            \o [i \in 1 .. size - 2 * PayloadMax |->
                                  Byte("es", PayloadMax + ((i - 1) % PayloadMax) + 1, 0)]
    BY DEF RoundTrip
  <2>1. PICK m \in Nat \ {0}, z \in Nat : m = PayloadMax /\ z = size
    BY SizesAssumption DEF StreamInv, TypeInv, TypeOK
  <2>2. out \in Seq(Bytes) /\ Len(out) = z /\ \A i \in 1 .. z : out[i] = Content(i)
    <3>1. Taken(size) /\ out \in Seq(Bytes)
      BY DoneTaken DEF StreamInv, TypeInv, TypeOK
    <3>2. ~(size >= FrameMax)
      BY <2>1, SizesAssumption
    <3> QED BY <2>1, <3>1, <3>2, Zenon DEF Taken
  <2>3. PICK a \in Nat : a = IF z <= 2 * m THEN z ELSE 2 * m
    BY <2>1
  <2>4. PICK b \in Nat : /\ 1 .. b = 1 .. z - 2 * m /\ z = a + b /\ a <= 2 * m
                         /\ (b > 0 => a = 2 * m)
    <3>1. CASE z <= 2 * m
      <4>1. 1 .. 0 = 1 .. z - 2 * m
        BY <2>1, <3>1
      <4> QED BY <2>3, <3>1, <4>1
    <3>2. CASE ~(z <= 2 * m)
      BY <2>1, <2>3, <3>2, z - 2 * m \in Nat
    <3> QED BY <3>1, <3>2
  <2>5. \A x \in Nat : Byte("es", x, 0) \in Bytes
    BY DEF Byte, Bytes
  <2>6. PICK s : s = Data(0, a)
    OBVIOUS
  <2>7. PICK t : t = [i \in 1 .. z - 2 * m |-> Byte("es", m + ((i - 1) % m) + 1, 0)]
    OBVIOUS
  <2>8. s \in Seq(Bytes) /\ Len(s) = a /\ \A i \in 1 .. a : s[i] = Byte("es", i, 0)
    <3>1. \A i \in 1 .. a : 0 + i \in Nat /\ 0 + i = i
      BY <2>3
    <3>2. s = [i \in 1 .. a |-> Byte("es", 0 + i, 0)]
      BY <2>6, Zenon DEF Data
    <3>3. s \in [1 .. a -> Bytes] /\ \A i \in 1 .. a : s[i] = Byte("es", i, 0)
      BY <2>5, <3>1, <3>2
    <3> QED BY <3>3, FunctionIsSeq
  <2>9. /\ t \in Seq(Bytes) /\ Len(t) = b
        /\ \A i \in 1 .. b : t[i] = Byte("es", m + ((i - 1) % m) + 1, 0)
    <3>1. \A i \in 1 .. b : m + ((i - 1) % m) + 1 \in Nat
      <4> SUFFICES ASSUME NEW i \in 1 .. b PROVE m + ((i - 1) % m) + 1 \in Nat
        OBVIOUS
      <4>1. i - 1 \in Nat
        BY <2>4
      <4>2. (i - 1) % m \in Nat
        BY <2>1, <4>1
      <4> QED BY <2>1, <4>2
    <3>2. t = [i \in 1 .. b |-> Byte("es", m + ((i - 1) % m) + 1, 0)]
      BY <2>4, <2>7, Zenon
    <3>3. t \in [1 .. b -> Bytes] /\ \A i \in 1 .. b : t[i] = Byte("es", m + ((i - 1) % m) + 1, 0)
      BY <2>5, <3>1, <3>2
    <3> QED BY <3>3, FunctionIsSeq
  <2>10. /\ s \o t \in Seq(Bytes) /\ Len(s \o t) = a + b
         /\ \A i \in 1 .. a : (s \o t)[i] = s[i]
         /\ \A i \in 1 .. b : (s \o t)[a + i] = t[i]
    <3>1. /\ s \o t \in Seq(Bytes) /\ Len(s \o t) = Len(s) + Len(t)
          /\ \A i \in 1 .. Len(s) : (s \o t)[i] = s[i]
          /\ \A i \in 1 .. Len(t) : (s \o t)[Len(s) + i] = t[i]
      BY <2>8, <2>9, BytesJoined, Zenon
    <3> QED BY <2>8, <2>9, <3>1, Zenon
  <2>11. ASSUME NEW i \in 1 .. z PROVE out[i] = (s \o t)[i]
    <3>1. CASE i <= a
      <4>1. i \in 1 .. a /\ i \in 1 .. 2 * m
        BY <2>4, <3>1
      <4>2. Content(i) = Byte("es", i, 0)
        BY <2>1, <4>1, ContentParts
      <4> QED BY <2>2, <2>8, <2>10, <4>1, <4>2, Zenon
    <3>2. CASE i > a
      <4>1. PICK e \in 1 .. b : i = a + e /\ a = 2 * m /\ e \in Nat \ {0}
        BY <2>4, <3>2, i - a \in 1 .. b
      <4>2. Content(2 * m + e) = Byte("es", m + ((e - 1) % m) + 1, 0)
        BY <2>1, <4>1, ContentParts
      <4>3. out[i] = Content(2 * m + e)
        BY <2>2, <4>1
      <4>4. (s \o t)[i] = t[e]
        BY <2>10, <4>1, Zenon
      <4>5. t[e] = Byte("es", m + ((e - 1) % m) + 1, 0)
        BY <2>9, <4>1, Zenon
      <4>6. out[i] = Byte("es", m + ((e - 1) % m) + 1, 0)
        BY <4>2, <4>3, Zenon
      <4>7. (s \o t)[i] = Byte("es", m + ((e - 1) % m) + 1, 0)
        BY <4>4, <4>5, Zenon
      <4> QED BY <4>6, <4>7, Zenon
    <3>3. i <= a \/ i > a
      OBVIOUS
    <3> QED BY <3>1, <3>2, <3>3, Zenon
  <2>12. out = s \o t
    <3>1. Len(out) = Len(s \o t)
      BY <2>2, <2>4, <2>10
    <3>2. \A i \in 1 .. Len(out) : out[i] = (s \o t)[i]
      BY <2>2, <2>11
    <3> QED BY <2>2, <2>10, <3>1, <3>2, SeqEqual
  <2> QED BY <2>1, <2>3, <2>6, <2>7, <2>12, Zenon
<1> QED BY <1>1, StreamCorrect, PTL

(* A frame over the limit loses whole segments and no more                   *)
(* (TdPs.cpp:137).                                                           *)
THEOREM CappedCorrect == Spec => []Capped
<1>1. StreamInv => Capped
  <2> SUFFICES ASSUME StreamInv, Undamaged, size >= FrameMax
               PROVE  Len(out) < FrameMax /\ Len(out) + PayloadMax >= FrameMax
    BY DEF Capped
  <2>1. Taken(size)
    BY DoneTaken
  <2>2. size \in Nat /\ FrameMax \in Nat
    BY SizesAssumption DEF StreamInv, TypeInv, TypeOK
  <2>3. Len(out) < FrameMax /\ (Len(out) = size \/ Len(out) + PayloadMax >= FrameMax)
    BY <2>1 DEF Taken
  <2>4. Len(out) # size
    BY <2>2, <2>3
  <2> QED BY <2>3, <2>4
<1> QED BY <1>1, StreamCorrect, PTL

(* Only if packets were lost does the parser crash, read past its input or   *)
(* come to a header that it cannot leave again (TdPs.cpp:31,53,72,80,94,136).*)
THEOREM MisreadCaused == Spec => []MisreadHasCause
<1>1. StreamInv => MisreadHasCause
  <2> SUFFICES ASSUME StreamInv, lost = 0
               PROVE  pc # "crashed" /\ ~Stuck /\ (pc = "done" => \A i \in DOMAIN out : out[i].of # "beyond")
    BY DEF MisreadHasCause
  <2>1. CASE pc = "done"
    <3>1. Taken(size) /\ DOMAIN out = 1 .. Len(out)
      BY <2>1, DoneTaken DEF Undamaged, StreamInv, TypeInv, TypeOK
    <3>2. \A i \in DOMAIN out : out[i].of = "es"
      BY <3>1 DEF Taken
    <3> QED BY <2>1, <3>2 DEF Stuck
  <2>2. CASE pc = "parse"
    <3>1. PICK d \in {14, 56}, k \in Nat : Packed(d, k) /\ Place(d, k) /\ rx = ps
      BY <2>2 DEF StreamInv, ArriveInv, Parsing
    <3>2. PICK l \in Nat, b \in Nat : l = Len(ps) /\ b = pack /\ left = l - b /\ TypeInv
      <4>1. ps \in Seq(Bytes) /\ pack \in Nat /\ TypeInv
        BY DEF StreamInv, TypeInv, TypeOK
      <4>2. Len(ps) \in Nat
        BY <4>1
      <4> QED BY <3>1, <4>1, <4>2 DEF Place
    <3>3. left = 0 \/ left >= 9
      <4>1. CASE AtHeader(d)
        <5>1. d = 56 /\ Packed(56, k)
          BY <3>1, <4>1 DEF AtHeader
        <5>2. PICK len \in {12, 18} : pack + len + 6 < Len(ps)
          BY <3>1, <3>2, <4>1, <5>1, HeaderAt
        <5> QED BY <3>2, <5>2
      <4>2. CASE AtSegment(d, k)
        <5>1. PICK j \in 0 .. k : pack = Start(d, j)
          BY <4>2 DEF AtSegment
        <5>2. PICK n \in 1 .. PayloadMax : PesAt(Start(d, j), From(j), n)
          BY <3>1, <3>2, SegmentAt
        <5>3. b + 19 + n <= l /\ n \in Nat
          BY <3>2, <5>1, <5>2, SizesAssumption DEF PesAt
        <5> QED BY <3>2, <5>3
      <4>3. CASE AtEnd
        BY <3>2, <4>3 DEF AtEnd
      <4> QED BY <3>1, <4>1, <4>2, <4>3 DEF Place
    <3> QED BY <2>2, <3>2, <3>3 DEF Stuck
  <2>3. pc # "crashed"
    BY DEF StreamInv, ArriveInv
  <2> QED BY <2>1, <2>2, <2>3 DEF Stuck
<1> QED BY <1>1, StreamCorrect, PTL
=============================================================================
