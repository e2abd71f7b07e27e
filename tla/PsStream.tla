------------------------------ MODULE PsStream ------------------------------
(* One frame as a program stream: packagingPs wraps it, sendData cuts it into *)
(* RTP packets, the network may lose some, and parsingPs, which reads the     *)
(* cameras' streams, takes the frame out again.  The sender stands for a      *)
(* camera as well: its packets may end anywhere in a header.                  *)
(*                                                                            *)
(* A byte is known by the header or the data it belongs to, its place there,  *)
(* and the length field of its header.  H.264 data never holds a start code   *)
(* of a program stream: 00 00 01 is followed by a NAL type below 0x80.        *)
EXTENDS Integers, Sequences

CONSTANTS
  FrameSizes, \* bytes of the encoded frames
  PayloadMax, \* pesPayloadMax (64974)
  PacketSize, \* payload of an RTP packet (1280)
  FrameMax,   \* H264_FRAME_SIZE_MAX (2 MiB)
  ClockLow,   \* values of a 15-bit part of a clock field (2^15)
  ClockStep,  \* what pts grows by per frame (3600)
  MaxFrames,  \* bound: frames sent
  MaxLost,    \* bound: packets of a frame that are lost
  StrayLengths \* what bytes that are no length field may give as a length

ASSUME SizesAssumption ==
  /\ FrameSizes \subseteq Nat \ {0} /\ PayloadMax \in Nat \ {0}
  /\ PacketSize \in Nat \ {0} /\ FrameMax \in Nat \ {0}
  /\ ClockLow \in Nat \ {0} /\ ClockStep \in Nat
  /\ MaxFrames \in Nat /\ MaxLost \in Nat
  /\ StrayLengths \subseteq Nat /\ StrayLengths # {}

VARIABLES
  frames, \* history: frames begun
  pts,    \* TdPs::pts, 32 bits
  pc,     \* "idle", "pack", "send", "parse", "done" or "crashed"
  size,   \* h264_stream->size
  remain, \* remainSize
  offset, \* dataPtrOffset
  ps,     \* what packagingPs has written
  sent,   \* dataPtrOffset of sendData
  rx,     \* rtpOut of the receiver: what arrived
  lost,   \* history: how many packets of this frame did not
  pack,   \* bytes before NextPack
  left,   \* leftlength
  out     \* outData

packVars == <<frames, pts, size, remain, offset, ps>>
parseVars == <<pack, left, out>>
netVars == <<sent, rx, lost>>
vars == <<packVars, pc, netVars, parseVars>>

PtsValues == 4 * ClockLow * ClockLow  \* 32 bits: 2 and twice 15

Bytes ==
  [of : {"BA", "BB", "BC", "E0", "es", "beyond"}, at : Nat, len : Nat, clock : Int \X Int \X Int]
Byte(of, at, len) == [of |-> of, at |-> at, len |-> len, clock |-> <<0, 0, 0>>]
Header(id, bytes, len) == [i \in 1 .. bytes |-> Byte(id, i, len)]
Data(from, n) == [i \in 1 .. n |-> Byte("es", from + i, 0)]
\* memory behind the received bytes
Beyond == Byte("beyond", 0, 0)

(* makePsHeader: the clock in parts of 3, 15 and 15 bits.                     *)
Clock(t) == <<(t \div (ClockLow * ClockLow)) % 8, (t \div ClockLow) % ClockLow, t % ClockLow>>

(* Mutant: the upper part has one bit.                                        *)
PsHeaderShort(t) ==
  [i \in 1 .. 14 |-> [Byte("BA", i, 0) EXCEPT !.clock = [Clock(t) EXCEPT ![1] = @ % 2]]]

PsHeader(t) == [i \in 1 .. 14 |-> [Byte("BA", i, 0) EXCEPT !.clock = Clock(t)]]
SysHeader == Header("BB", 18, 12)
PsmHeader == Header("BC", 24, 18)
PesHeader(n) == Header("E0", 19, n + 13)

Init ==
  /\ frames = 0 /\ pts = 0 /\ pc = "idle" /\ size = 0 /\ remain = 0 /\ offset = 0
  /\ ps = <<>> /\ sent = 0 /\ rx = <<>> /\ lost = 0 /\ pack = 0 /\ left = 0 /\ out = <<>>

-----------------------------------------------------------------------------
(* The sender: sendLoopThread and packagingPs.                                *)

Encoded(n, key) ==
  /\ pc \in {"idle", "done"} /\ frames < MaxFrames
  /\ frames' = frames + 1 /\ pc' = "pack"
  /\ pts' = (pts + ClockStep) % PtsValues
  /\ size' = n /\ remain' = n /\ offset' = 0
  /\ ps' = PsHeader(pts) \o IF key THEN SysHeader \o PsmHeader ELSE <<>>
  /\ sent' = 0 /\ rx' = <<>> /\ lost' = 0 /\ pack' = 0 /\ left' = 0 /\ out' = <<>>

Pes(n) == ps' = ps \o PesHeader(n) \o Data(offset, n)

(* Mutant: the data pointer skips a byte.                                     *)
SegmentSkips ==
  /\ pc = "pack" /\ remain > PayloadMax
  /\ Pes(PayloadMax)
  /\ offset' = PayloadMax + 1 /\ remain' = remain - PayloadMax
  /\ UNCHANGED <<frames, pts, pc, size, netVars, parseVars>>

Segment ==
  /\ pc = "pack" /\ remain > PayloadMax
  /\ Pes(PayloadMax)
  /\ offset' = PayloadMax /\ remain' = remain - PayloadMax
  /\ UNCHANGED <<frames, pts, pc, size, netVars, parseVars>>

LastSegment ==
  /\ pc = "pack" /\ remain <= PayloadMax /\ pc' = "send"
  /\ Pes(remain)
  /\ UNCHANGED <<frames, pts, size, remain, offset, netVars, parseVars>>

(* sendData: full packets while more than one is left, then the rest, with    *)
(* the marker.  The receiver appends what arrives.                            *)
Missing ==  \* the first packet of a frame arrives
  sent > 0 /\ lost < MaxLost /\ lost' = lost + 1

FullPacket ==
  /\ pc = "send" /\ Len(ps) - sent > PacketSize
  /\ sent' = sent + PacketSize
  /\ \/ rx' = rx \o SubSeq(ps, sent + 1, sent + PacketSize) /\ UNCHANGED lost
     \/ Missing /\ UNCHANGED rx
  /\ UNCHANGED <<packVars, pc, parseVars>>

(* With the marker the unit is parsed as it is; without it the next frame is  *)
(* joined to it, here one of the same shape.                                  *)
LastPacket ==
  /\ pc = "send" /\ Len(ps) - sent <= PacketSize /\ pc' = "parse"
  /\ sent' = Len(ps)
  /\ \/ rx' = rx \o SubSeq(ps, sent + 1, Len(ps)) /\ UNCHANGED lost
     \/ Missing /\ rx' = rx \o ps
  /\ pack' = 14 /\ left' = Len(rx') - 14 /\ out' = <<>>
  /\ UNCHANGED packVars

-----------------------------------------------------------------------------
(* parsingPs.  leftlength is compared as an unsigned number, so that one      *)
(* below zero goes on as well.                                                *)

GoesOn == left >= 4 \/ left < 0
Holds(id, i) == pack + i <= Len(rx) /\ rx[pack + i].of = id /\ rx[pack + i].at = i
StartCode(id) == \A i \in 1 .. 4 : Holds(id, i)

(* The length field, and the stuffing length of a PES, also of a header that  *)
(* a lost packet has cut short.                                               *)
PackLengths(id) ==
  IF Holds(id, 5) /\ Holds(id, 6) /\ rx[pack + 6].len = rx[pack + 5].len
  THEN {rx[pack + 5].len} ELSE StrayLengths
Stuffings == IF Holds("E0", 9) THEN {10} ELSE {len % 256 : len \in StrayLengths}

(* ProgramShHead and ProgramStreamMap: nothing moves if too little is left.   *)
ParseSkip ==
  /\ pc = "parse" /\ left >= 6
  /\ \E id \in {"BB", "BC"} : StartCode(id) /\ \E len \in PackLengths(id) :
       /\ left' = left - len - 6
       /\ pack' = IF left' <= 0 THEN pack ELSE pack + len + 6
  /\ UNCHANGED <<packVars, pc, netVars, out>>

(* Mutant: one byte of the header is counted as data.                         *)
PesPayloadLong(len, stuffing) == len - 2 - stuffing

PesPayload(len, stuffing) == len - 2 - 1 - stuffing
PesData(len, stuffing) ==
  [i \in 1 .. PesPayload(len, stuffing) |->
     IF pack + 9 + stuffing + i <= Len(rx) THEN rx[pack + 9 + stuffing + i] ELSE Beyond]

(* A length below zero is one of nearly 2^64 bytes to memcpy; what lies       *)
(* behind the received bytes may be readable or not.                          *)
CopyEnds(len, stuffing) ==
  IF PesPayload(len, stuffing) < 0 THEN {"crashed"}
  ELSE IF \E i \in 1 .. PesPayload(len, stuffing) : pack + 9 + stuffing + i > Len(rx)
       THEN {"parse", "crashed"} ELSE {"parse"}

(* Mutant: the limit itself still fits.                                       *)
ParsePesFits ==
  /\ pc = "parse" /\ GoesOn /\ (left >= 9 \/ left < 0) /\ StartCode("E0")
  /\ \E len \in PackLengths("E0"), stuffing \in Stuffings :
       /\ left' = left - len - 6
       /\ pack' = IF left' < 0 THEN pack + 4 ELSE pack + len + 6
       /\ IF PesPayload(len, stuffing) + Len(out) <= FrameMax
          THEN pc' \in CopyEnds(len, stuffing) /\ out' = out \o PesData(len, stuffing)
          ELSE UNCHANGED <<pc, out>>
  /\ UNCHANGED <<packVars, netVars>>

(* Pes and the branch for its result.  A PES that is longer than what is left *)
(* gives -1, which as an unsigned number is not below zero: its data is       *)
(* copied all the same, and NextPack is four bytes on.                        *)
ParsePes ==
  /\ pc = "parse" /\ GoesOn /\ (left >= 9 \/ left < 0) /\ StartCode("E0")
  /\ \E len \in PackLengths("E0"), stuffing \in Stuffings :
       /\ left' = left - len - 6
       /\ pack' = IF left' < 0 THEN pack + 4 ELSE pack + len + 6
       /\ IF PesPayload(len, stuffing) + Len(out) < FrameMax
          THEN pc' \in CopyEnds(len, stuffing) /\ out' = out \o PesData(len, stuffing)
          ELSE UNCHANGED <<pc, out>>
  /\ UNCHANGED <<packVars, netVars>>

(* A header with too little behind it: Pes and its like return before they    *)
(* set NextPack, and the loop finds the same header again, for ever, or below *)
(* zero until leftlength overflows.                                           *)
Stuck ==
  /\ pc = "parse"
  /\ \/ StartCode("E0") /\ left \in 4 .. 8
     \/ (StartCode("BB") \/ StartCode("BC")) /\ (left \in 4 .. 5 \/ left < 0)

(* Mutant: bytes that are none of the three do not end it.                    *)
ParseEndAtEnd ==
  /\ pc = "parse" /\ pc' = "done" /\ ~GoesOn
  /\ UNCHANGED <<packVars, netVars, parseVars>>

(* The end of the data, or bytes that are none of the three.                  *)
ParseEnd ==
  /\ pc = "parse" /\ pc' = "done"
  /\ ~GoesOn \/ \A id \in {"BB", "BC", "E0"} : ~StartCode(id)
  /\ UNCHANGED <<packVars, netVars, parseVars>>

ParseSteps == ParseSkip \/ ParsePes \/ ParseEnd
Next ==
  \/ \E n \in FrameSizes, key \in BOOLEAN : Encoded(n, key)
  \/ Segment \/ LastSegment
  \/ FullPacket \/ LastPacket
  \/ ParseSteps

Spec == Init /\ [][Next]_vars
FairSpec == Spec /\ WF_vars(ParseSteps)

-----------------------------------------------------------------------------
Undamaged == pc = "done" /\ lost = 0

(* Every variable has its type; the packer never reads outside the frame.     *)
TypeOK ==
  /\ frames \in 0 .. MaxFrames /\ pts \in 0 .. PtsValues - 1
  /\ pc \in {"idle", "pack", "send", "parse", "done", "crashed"}
  /\ size \in FrameSizes \cup {0} /\ remain \in 0 .. size /\ offset \in 0 .. size
  /\ offset + (IF remain > PayloadMax THEN PayloadMax ELSE remain) <= size
  /\ ps \in Seq(Bytes) /\ rx \in Seq(Bytes) /\ out \in Seq(Bytes)
  /\ sent \in 0 .. Len(ps) /\ lost \in 0 .. MaxLost /\ pack \in Nat /\ left \in Int

(* What a receiver takes out of an undamaged stream has the frame's length.   *)
(* Its first two segments are the frame's; each later one repeats the second  *)
(* from its beginning, where the data pointer is left (TdPs.cpp:366-382).     *)
RoundTrip ==
  Undamaged /\ size < FrameMax =>
    out = Data(0, IF size <= 2 * PayloadMax THEN size ELSE 2 * PayloadMax)
          \o [i \in 1 .. size - 2 * PayloadMax |->
                Byte("es", PayloadMax + ((i - 1) % PayloadMax) + 1, 0)]

(* A frame over the limit loses whole segments and no more: what is kept      *)
(* stays below it, and less than a segment more would have fit (TdPs.cpp:137).*)
Capped ==
  Undamaged /\ size >= FrameMax =>
    Len(out) < FrameMax /\ Len(out) + PayloadMax >= FrameMax

(* Only if packets were lost does the parser crash, read past its input or    *)
(* come to a header that it cannot leave again (TdPs.cpp:31,53,72,80,94,136). *)
MisreadHasCause ==
  lost = 0 => pc # "crashed" /\ ~Stuck /\ (pc = "done" => \A i \in DOMAIN out : out[i].of # "beyond")

(* The clock a receiver reads is that of the frame, modulo the 32 bits of pts *)
(* and not the 33 of the field (TdPs.cpp:221-225, TdRtp.cpp:213-215).         *)
ClockOfFrame ==
  pc = "done" =>
    LET c == rx[1].clock
    IN c[1] * ClockLow * ClockLow + c[2] * ClockLow + c[3]
         = ((frames - 1) * ClockStep) % PtsValues

(* parsingPs returns, whatever of a frame arrives, unless the copying crashes *)
(* or what arrives ends within the fields of a header (TdPs.cpp:121).         *)
ParsingEnds == pc = "parse" ~> pc \in {"done", "crashed"} \/ Stuck
=============================================================================
