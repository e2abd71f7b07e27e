-------------------------- MODULE RtpStream_proofs --------------------------
(* RtpStream: types, and that losses stay where they fall.  The strengthening*)
(* follows the newest packet of a source: while nothing comes late and the   *)
(* sources do not mix, it is the last one joined, and a packet that has been *)
(* passed over is never seen again.                                          *)
EXTENDS RtpStream, TLAPS

Pkt(s, f, i) == [src |-> s, frame |-> f, idx |-> i]

(* A packet is taken once: those on their way are not among the taken.       *)
OnItsWay == net \cup sock \cup list
Once ==
  /\ taken \cap OnItsWay = {} /\ net \cap (sock \cup list) = {} /\ sock \cap list = {}
  /\ \A p \in taken \cup OnItsWay : Before(p, next[p.src])

PassedOver(m) == m \notin taken /\ \E q \in taken : q.src = m.src /\ Before(m, q)

Missing(s, f) == \E i \in 1 .. Packets : PassedOver(Pkt(s, f, i))

(* What is joined is of one source and ends with its newest packet; it is in *)
(* one frame, or else its first frame misses a packet.                       *)
Joining ==
  buf # None =>
    /\ buf.first.src = buf.last.src
    /\ \A q \in Of(taken, buf.last.src) : ~Before(buf.last, q)
    /\ buf.whole => buf.first.frame = buf.last.frame
    /\ ~buf.whole => Missing(buf.first.src, buf.first.frame)

(* The frame that follows a marker and has begun to arrive.                  *)
Open(s, f) ==
  /\ Pkt(s, f, 1) \in taken /\ (f > 1 => Marker(s, f - 1) \in taken)
  /\ \A q \in Of(taken, s) : q.frame <= f /\ ~(q.frame = f /\ HasMarker(q))

OpenIsJoined ==
  \A s \in Sources, f \in Frames : Open(s, f) => buf # None /\ buf.first = Pkt(s, f, 1)

BrokenMisses == \A u \in parsed : ~u.intact => Missing(u.src, u.frame)

Through(s, f) ==
  FramePackets(s, f) \subseteq taken /\ (f > 1 => Marker(s, f - 1) \in taken)
    => Intact(s, f) \in parsed

Order ==
  /\ Joining /\ OpenIsJoined /\ BrokenMisses
  /\ \A s \in Sources, f \in Frames : Through(s, f)

IInv == TypeOK /\ Once /\ (Undisturbed => Order)

-----------------------------------------------------------------------------
(* The order of a source's packets.                                          *)
LEMMA Ordered ==
  ASSUME NEW p \in Packet, NEW q \in Packet, NEW r \in Packet, p.src = q.src
  PROVE  /\ ~Before(p, p)
         /\ Before(p, q) /\ Before(q, r) => Before(p, r)
         /\ Before(p, q) \/ Before(q, p) \/ p = q
  BY PacketsAssumption DEF Packet, Frames, Before

LEMMA PktIsPacket ==
  ASSUME NEW s \in Sources, NEW f \in Frames, NEW i \in 1 .. Packets
  PROVE  Pkt(s, f, i) \in Packet
  BY DEF Pkt, Packet

LEMMA MarkerIsPkt ==
  ASSUME NEW s \in Sources, NEW f \in Frames
  PROVE  Marker(s, f) = Pkt(s, f, Packets) /\ Marker(s, f) \in Packet /\ HasMarker(Marker(s, f))
  BY PacketsAssumption DEF Marker, Pkt, Packet, HasMarker

LEMMA SuccIsNext ==
  ASSUME NEW p \in Packet
  PROVE  /\ Succ(p) \in Packet /\ Succ(p).src = p.src /\ Before(p, Succ(p))
         /\ ~HasMarker(p) => Succ(p) = Pkt(p.src, p.frame, p.idx + 1) /\ p.idx + 1 \in 1 .. Packets
<1>1. p.idx \in 1 .. Packets /\ p.frame \in Frames /\ p.src \in Sources
  BY DEF Packet
<1>2. CASE HasMarker(p)
  <2>1. p.frame + 1 \in Frames /\ 1 \in 1 .. Packets /\ p.frame < p.frame + 1
    BY <1>1, PacketsAssumption DEF Frames
  <2>2. Succ(p) = [src |-> p.src, frame |-> p.frame + 1, idx |-> 1]
    BY <1>2 DEF Packet, Succ
  <2> QED
    BY <1>1, <1>2, <2>1, <2>2 DEF Packet, Before
<1>3. CASE ~HasMarker(p)
  <2>1. p.idx + 1 \in 1 .. Packets /\ p.idx < p.idx + 1
    BY <1>1, <1>3, PacketsAssumption DEF HasMarker
  <2>2. Succ(p) = [src |-> p.src, frame |-> p.frame, idx |-> p.idx + 1]
    BY <1>3 DEF Packet, Succ
  <2> QED
    BY <1>1, <1>3, <2>1, <2>2 DEF Packet, Before, Pkt
<1> QED
  BY <1>2, <1>3

-----------------------------------------------------------------------------
(* Types.                                                                    *)
LEMMA ParsedIsUnit ==
  ASSUME TypeOK, NEW p \in list
  PROVE  /\ Joined(p) \in [first : taken \cup {p}, last : {p}, whole : BOOLEAN]
         /\ Parsed(Joined(p)) \subseteq Unit
<1>1. p \in Packet
  BY DEF TypeOK
<1>2. Joined(p) \in [first : taken \cup {p}, last : {p}, whole : BOOLEAN]
  <2>1. CASE buf = None
    BY <2>1 DEF Joined
  <2>2. CASE buf # None
    <3>1. buf \in [first : taken, last : taken, whole : BOOLEAN]
      BY <2>2 DEF TypeOK
    <3>3. (buf.whole /\ p = Succ(buf.last)) \in BOOLEAN
      BY <3>1
    <3>4. Joined(p) = [buf EXCEPT !.last = p, !.whole = buf.whole /\ p = Succ(buf.last)]
      BY <2>2 DEF Joined
    <3> QED
      BY <3>1, <3>3, <3>4
  <2> QED
    BY <2>1, <2>2
<1>3. Joined(p).first \in Packet /\ Joined(p).whole \in BOOLEAN
  BY <1>1, <1>2 DEF TypeOK
<1> QED
  BY <1>2, <1>3 DEF Parsed, Unit, Packet

LEMMA PushKeepsType ==
  ASSUME TypeOK, NEW U \in SUBSET Unit, Push(U)
  PROVE  /\ queue' \in Seq(Unit) /\ Len(queue') <= QueueSize
         /\ parsed' \subseteq Unit /\ heap' \subseteq parsed'
<1>1. parsed' \subseteq Unit /\ heap' \subseteq parsed'
  BY DEF Push, TypeOK
<1>2. CASE U = {} \/ Len(queue) >= QueueSize
  BY <1>1, <1>2 DEF Push, TypeOK
<1>3. CASE U # {} /\ ~(Len(queue) >= QueueSize)
  <2> DEFINE u == CHOOSE u \in U : TRUE
  <2>1. u \in Unit
    BY <1>3
  <2>2. queue' = Append(queue, u)
    BY <1>3 DEF Push
  <2> HIDE DEF u
  <2>3. queue \in Seq(Unit) /\ Len(queue) \in Nat /\ Len(queue) < QueueSize /\ QueueSize \in Nat
    BY <1>3, BoundAssumption DEF TypeOK
  <2>4. queue' \in Seq(Unit) /\ Len(queue') = Len(queue) + 1
    BY <2>1, <2>2, <2>3
  <2> QED
    BY <1>1, <2>3, <2>4
<1> QED
  BY <1>2, <1>3

LEMMA SendKeepsType ==
  ASSUME TypeOK, NEW s \in Sources, Send(s)
  PROVE  TypeOK'
<1>1. next[s] \in Packet /\ next[s].src = s
  BY DEF TypeOK
<1>2. next' \in [Sources -> Packet] /\ \A r \in Sources : next'[r].src = r
  BY <1>1, SuccIsNext DEF Send, TypeOK
<1>3. net' \subseteq Packet
  BY <1>1 DEF Send, TypeOK
<1> QED
  BY <1>2, <1>3 DEF Send, TypeOK, joinVars, sendVars

LEMMA NetKeepsType ==
  ASSUME TypeOK, NEW p \in net, Lose(p) \/ Arrive(p)
  PROVE  TypeOK'
<1>1. faults' \in 0 .. MaxFaults
  BY BoundAssumption DEF Lose, Arrive, TypeOK
<1>2. net' \subseteq Packet /\ sock' \subseteq Packet
  BY DEF Lose, Arrive, TypeOK
<1> QED
  BY <1>1, <1>2 DEF Lose, Arrive, TypeOK, joinVars, sendVars

LEMMA NextSourceType ==
  ASSUME TypeOK, NextSource
  PROVE  /\ recvPc' \in {"poll", "wait", "take"} /\ cur' \in Sources \cup {None}
         /\ (recvPc' = "take") = (cur' # None)
<1>1. CASE list = {}
  BY <1>1 DEF NextSource
<1>2. CASE list # {}
  <2>1. PICK p \in list : recvPc' = "take" /\ cur' = p.src
    BY <1>2 DEF NextSource
  <2>2. p.src \in Sources
    BY DEF TypeOK, Packet
  <2> QED
    BY <2>1, <2>2, NoneAssumption
<1> QED
  BY <1>1, <1>2

LEMMA WaitKeepsType ==
  ASSUME TypeOK, Poll \/ Wakes \/ TimesOut \/ SourceDone
  PROVE  TypeOK'
<1>1. CASE Poll
  BY <1>1 DEF Poll, TypeOK, netVars, joinVars, sendVars
<1>2. CASE Wakes \/ SourceDone
  BY <1>2, NextSourceType DEF Wakes, SourceDone, TypeOK, netVars, joinVars, sendVars
<1>3. CASE TimesOut
  BY <1>3 DEF TimesOut, TypeOK, netVars, joinVars, sendVars
<1> QED
  BY <1>1, <1>2, <1>3

LEMMA TakeKeepsType ==
  ASSUME TypeOK, NEW p \in list, TakePacket(p) \/ TakeMarker(p)
  PROVE  TypeOK'
<1>1. Take(p) /\ p \in Packet
  BY DEF TakePacket, TakeMarker, TypeOK
<1>2. /\ list' \subseteq Packet /\ taken' = taken \cup {p} /\ taken' \subseteq Packet
      /\ late' \subseteq taken' /\ mixed' \in BOOLEAN
      /\ UNCHANGED <<netVars, sock, recvPc, cur, hand>>
  BY <1>1 DEF Take, TypeOK
<1>3. \/ buf' = None
      \/ buf' \in [first : taken', last : taken', whole : BOOLEAN] /\ ~HasMarker(buf'.last)
  <2>1. CASE TakePacket(p)
    <3>1. buf' \in [first : taken \cup {p}, last : {p}, whole : BOOLEAN] /\ ~HasMarker(p)
      BY <2>1, ParsedIsUnit DEF TakePacket
    <3> QED
      BY <3>1, <1>2
  <2>2. CASE TakeMarker(p)
    BY <2>2 DEF TakeMarker
  <2> QED
    BY <2>1, <2>2
<1>4. /\ queue' \in Seq(Unit) /\ Len(queue') <= QueueSize
      /\ parsed' \subseteq Unit /\ heap' \subseteq parsed'
  <2>1. CASE TakePacket(p)
    BY <2>1 DEF TakePacket, TypeOK
  <2>2. CASE TakeMarker(p)
    BY <2>2, ParsedIsUnit, PushKeepsType DEF TakeMarker
  <2> QED
    BY <2>1, <2>2
<1> QED
  BY <1>2, <1>3, <1>4 DEF TypeOK, netVars

LEMMA SendStepsKeepType ==
  ASSUME TypeOK, SendSteps
  PROVE  TypeOK'
<1>1. CASE Pop
  <2>1. queue \in Seq(Unit) /\ queue # <<>> /\ Len(queue) <= QueueSize
    BY <1>1 DEF Pop, TypeOK
  <2>2. Head(queue) \in Unit /\ Tail(queue) \in Seq(Unit) /\ Len(Tail(queue)) <= QueueSize
    BY <2>1, BoundAssumption
  <2> QED
    BY <1>1, <2>2 DEF Pop, TypeOK, netVars, joinVars
<1>2. CASE Clear
  BY <1>2 DEF Clear, TypeOK, netVars, joinVars
<1> QED
  BY <1>1, <1>2 DEF SendSteps

LEMMA TypeKept == TypeOK /\ [Next]_vars => TypeOK'
<1> SUFFICES ASSUME TypeOK, [Next]_vars PROVE TypeOK'
  OBVIOUS
<1>1. CASE UNCHANGED vars
  BY <1>1 DEF vars, netVars, joinVars, sendVars, TypeOK
<1>2. CASE Next
  BY <1>2, SendKeepsType, NetKeepsType, WaitKeepsType, TakeKeepsType, SendStepsKeepType
     DEF Next, NetSteps, RecvSteps
<1> QED
  BY <1>1, <1>2

LEMMA InitType == Init => TypeOK
<1> SUFFICES ASSUME Init PROVE TypeOK
  OBVIOUS
<1>1. next \in [Sources -> Packet] /\ \A s \in Sources : next[s].src = s
  BY PacketsAssumption DEF Init, Packet, Frames
<1>2. queue \in Seq(Unit) /\ Len(queue) <= QueueSize
  BY BoundAssumption DEF Init
<1>3. faults \in 0 .. MaxFaults
  BY BoundAssumption DEF Init
<1> QED
  BY <1>1, <1>2, <1>3 DEF Init, TypeOK

(* Every variable has its type and a packet is joined while its frame is not *)
(* complete, for any sources, sizes and number of losses.                    *)
THEOREM TypeCorrect == Spec => []TypeOK
  BY InitType, TypeKept, PTL DEF Spec

-----------------------------------------------------------------------------
(* A packet is in one place only, and none is from the future.               *)
LEMMA OnceKept ==
  ASSUME TypeOK, Once, [Next]_vars
  PROVE  Once'
<1>1. CASE \E s \in Sources : Send(s)
  <2>1. PICK s \in Sources : Send(s)
    BY <1>1
  <2>2. /\ next[s] \in Packet /\ next[s].src = s /\ ~Before(next[s], next[s])
        /\ \A r \in Sources : next[r] \in Packet /\ next[r].src = r
    BY Ordered DEF TypeOK
  <2>3. /\ net' = net \cup {next[s]} /\ next' = [next EXCEPT ![s] = Succ(next[s])]
        /\ UNCHANGED <<sock, list, taken>>
    BY <2>1 DEF Send, joinVars
  <2>4. next[s] \notin taken \cup OnItsWay
    BY <2>2 DEF Once
  <2>5. ASSUME NEW p \in (taken \cup OnItsWay)' PROVE Before(p, next'[p.src])
    <3>1. Succ(next[s]) \in Packet /\ Before(next[s], Succ(next[s])) /\ Succ(next[s]).src = s
      BY <2>2, SuccIsNext
    <3>2. next'[s] = Succ(next[s]) /\ \A r \in Sources \ {s} : next'[r] = next[r]
      BY <2>3 DEF TypeOK
    <3>3. CASE p = next[s]
      BY <2>2, <3>1, <3>2, <3>3
    <3>4. CASE p # next[s]
      <4>1. p \in taken \cup OnItsWay /\ p \in Packet /\ p.src \in Sources
        BY <2>3, <3>4 DEF OnItsWay, TypeOK, Packet
      <4>2. Before(p, next[p.src])
        BY <4>1 DEF Once
      <4>3. CASE p.src = s
        BY <2>2, <3>1, <3>2, <4>1, <4>2, <4>3, Ordered
      <4>4. CASE p.src # s
        BY <3>2, <4>1, <4>2, <4>4
      <4> QED
        BY <4>3, <4>4
    <3> QED
      BY <3>3, <3>4
  <2> QED
    BY <2>3, <2>4, <2>5 DEF Once, OnItsWay
<1>2. CASE \E p \in net : Lose(p) \/ Arrive(p)
  <2>1. PICK p \in net : Lose(p) \/ Arrive(p)
    BY <1>2
  <2>2. net' = net \ {p} /\ sock' \in {sock, sock \cup {p}} /\ UNCHANGED <<next, list, taken>>
    BY <2>1 DEF Lose, Arrive, joinVars
  <2> QED
    BY <2>2 DEF Once, OnItsWay
<1>3. CASE Poll
  <2>1. list' = list \cup sock /\ sock' = {} /\ UNCHANGED <<next, net, taken>>
    BY <1>3 DEF Poll, netVars, joinVars
  <2> QED
    BY <2>1 DEF Once, OnItsWay
<1>4. CASE \E p \in list : TakePacket(p) \/ TakeMarker(p)
  <2>1. PICK p \in list : Take(p)
    BY <1>4 DEF TakePacket, TakeMarker
  <2>2. list' = list \ {p} /\ taken' = taken \cup {p} /\ UNCHANGED <<next, net, sock>>
    BY <2>1 DEF Take, netVars
  <2> QED
    BY <2>2 DEF Once, OnItsWay
<1>5. CASE Wakes \/ TimesOut \/ SourceDone \/ SendSteps \/ UNCHANGED vars
  <2>1. UNCHANGED <<next, net, sock, list, taken>>
    BY <1>5 DEF Wakes, TimesOut, SourceDone, SendSteps, Pop, Clear, vars, netVars, joinVars
  <2> QED
    BY <2>1 DEF Once, OnItsWay
<1> QED
  BY <1>1, <1>2, <1>3, <1>4, <1>5 DEF Next, NetSteps, RecvSteps

-----------------------------------------------------------------------------
(* While nothing comes late and sources do not mix, the packet that is taken *)
(* is the newest of its source, and of the source of what it is joined to.   *)
LEMMA TakesInOrder ==
  ASSUME TypeOK, Once, NEW p \in list, Take(p), Undisturbed'
  PROVE  /\ Undisturbed /\ p \in Packet /\ p \notin taken /\ taken' = taken \cup {p}
         /\ \A q \in taken : q.src = p.src => Before(q, p)
         /\ buf # None => buf.last.src = p.src
<1>1. p \in Packet /\ p \notin taken /\ taken' = taken \cup {p} /\ p.src = cur
  BY DEF TypeOK, Once, OnItsWay, Take
<1>2. late' = late /\ ~\E q \in Of(taken, cur) : Before(p, q)
  BY DEF Take, Undisturbed
<1>3. ~mixed /\ ~(buf # None /\ buf.last.src # cur)
  BY DEF Take, Undisturbed, TypeOK
<1>4. ASSUME NEW q \in taken, q.src = p.src PROVE Before(q, p)
  <2>1. q \in Packet /\ q # p /\ ~Before(p, q)
    BY <1>1, <1>2, <1>4 DEF TypeOK, Of
  <2> QED
    BY <1>1, <1>4, <2>1, Ordered
<1> QED
  BY <1>1, <1>2, <1>3, <1>4 DEF Undisturbed

(* What has been passed over stays so.                                       *)
LEMMA PassedOverStays ==
  ASSUME TypeOK, Once, NEW p \in list, Take(p), Undisturbed', NEW m \in Packet, PassedOver(m)
  PROVE  PassedOver(m)'
<1>1. /\ p \in Packet /\ taken' = taken \cup {p}
      /\ \A q \in taken : q.src = p.src => Before(q, p)
  BY TakesInOrder
<1>2. PICK q \in taken : q.src = m.src /\ Before(m, q)
  BY DEF PassedOver
<1>3. q \in Packet
  BY DEF TypeOK
<1>4. p # m
  BY <1>1, <1>2, <1>3, Ordered
<1> QED
  BY <1>1, <1>2, <1>4 DEF PassedOver

LEMMA MissingStays ==
  ASSUME TypeOK, Once, NEW p \in list, Take(p), Undisturbed',
         NEW s \in Sources, NEW f \in Frames, Missing(s, f)
  PROVE  Missing(s, f)'
  BY PassedOverStays, PktIsPacket DEF Missing

(* A frame that misses a packet is not complete.                             *)
LEMMA MissingIsGap ==
  ASSUME NEW s \in Sources, NEW f \in Frames, Missing(s, f)
  PROVE  ~(FramePackets(s, f) \subseteq taken)
  BY DEF Missing, PassedOver, FramePackets, Pkt

(* Joined is what Joining promises, of the packet taken now.                 *)
LEMMA JoinedJoins ==
  ASSUME TypeOK, Once, Joining, NEW p \in list, Take(p), Undisturbed',
         NEW j, j = Joined(p)
  PROVE  /\ j.first.src = p.src /\ j.last = p /\ j.first \in Packet
         /\ j.whole => j.first.frame = p.frame
         /\ ~j.whole => Missing(j.first.src, j.first.frame)'
<1>1. /\ p \in Packet /\ p \notin taken /\ taken' = taken \cup {p}
      /\ \A q \in taken : q.src = p.src => Before(q, p)
      /\ buf # None => buf.last.src = p.src
  BY TakesInOrder
<1>2. CASE buf = None
  <2>1. j = [first |-> p, last |-> p, whole |-> TRUE]
    BY <1>2 DEF Joined
  <2> QED
    BY <1>1, <2>1
<1>3. CASE buf # None
  <2> PICK b : b = buf
    OBVIOUS
  <2> DEFINE l == b.last
             n == Succ(l)
  <2>1. /\ b \in [first : taken, last : taken, whole : BOOLEAN] /\ ~HasMarker(l)
        /\ l \in Packet /\ l \in taken /\ b.first \in Packet /\ l.src = p.src
        /\ b.first.src = l.src
    BY <1>1, <1>3 DEF TypeOK, Joining
  <2>2. j = [b EXCEPT !.last = p, !.whole = b.whole /\ p = n]
    BY <1>3 DEF Joined
  <2>3. j.first = b.first /\ j.last = p /\ j.whole = (b.whole /\ p = n)
    BY <2>1, <2>2
  <2>4. /\ n \in Packet /\ n.src = p.src /\ n.frame = l.frame /\ Before(l, n)
        /\ n = Pkt(l.src, l.frame, l.idx + 1) /\ l.idx + 1 \in 1 .. Packets
    BY <2>1, SuccIsNext DEF Pkt
  <2>5. b.whole => b.first.frame = l.frame
    BY <1>3 DEF Joining
  <2>6. CASE ~b.whole
    <3>1. Missing(b.first.src, b.first.frame) /\ b.first.src \in Sources /\ b.first.frame \in Frames
      BY <1>3, <2>1, <2>6 DEF Joining, Packet
    <3>2. Missing(b.first.src, b.first.frame)'
      BY <3>1, MissingStays
    <3> QED
      BY <2>1, <2>3, <2>6, <3>2
  <2>7. CASE b.whole /\ p = n
    BY <2>1, <2>3, <2>4, <2>5, <2>7
  <2>8. CASE b.whole /\ p # n
    <3>1. n \notin taken
      BY <1>3, <2>1, <2>4 DEF Joining, Of
    <3>2. Before(n, p)
      <4>1. Before(l, p)
        BY <1>1, <2>1
      <4>2. p.frame \in Nat /\ p.idx \in 1 .. Packets /\ l.frame \in Nat /\ l.idx \in 1 .. Packets
        BY <1>1, <2>1 DEF Packet, Frames
      <4>3. n.idx = l.idx + 1
        BY <2>4 DEF Pkt
      <4>4. ~(p.frame = l.frame /\ p.idx = l.idx + 1)
        <5>1. ASSUME p.frame = l.frame, p.idx = l.idx + 1 PROVE FALSE
          <6>1. p = [src |-> l.src, frame |-> l.frame, idx |-> l.idx + 1]
            BY <1>1, <2>1, <5>1 DEF Packet
          <6> QED
            BY <6>1, <2>4, <2>8 DEF Pkt
        <5> QED
          BY <5>1
      <4>5. ~HasMarker(l) => l.idx < Packets
        BY <4>2, PacketsAssumption DEF HasMarker
      <4> HIDE DEF n
      <4> QED
        BY <4>1, <4>2, <4>3, <4>4, <4>5, <2>1, <2>4, PacketsAssumption DEF Before
    <3>3. PassedOver(n)'
      <4> HIDE DEF n
      <4> QED
        BY <1>1, <2>4, <2>8, <3>1, <3>2 DEF PassedOver
    <3>4. n = Pkt(b.first.src, b.first.frame, l.idx + 1)
      BY <2>1, <2>4, <2>5, <2>8
    <3>5. Missing(b.first.src, b.first.frame)'
      <4> HIDE DEF n
      <4> QED
        BY <2>4, <3>3, <3>4 DEF Missing
    <3> QED
      BY <2>1, <2>3, <2>8, <3>5
  <2> QED
    BY <2>6, <2>7, <2>8
<1> QED
  BY <1>2, <1>3

(* What every packet taken in order leaves behind.                           *)
LEMMA TakesNewest ==
  ASSUME TypeOK, Once, NEW p \in list, Take(p), Undisturbed'
  PROVE  /\ \A q \in taken : q.src = p.src => ~Before(p, q)
         /\ \A q \in taken' : q.src = p.src => ~Before(p, q)
         /\ \A q \in taken' : q.src = p.src /\ Before(p, q) => q \in taken
<1>1. /\ p \in Packet /\ taken' = taken \cup {p}
      /\ \A q \in taken : q.src = p.src => Before(q, p)
  BY TakesInOrder
<1>2. ASSUME NEW q \in taken, q.src = p.src PROVE ~Before(p, q)
  <2>1. q \in Packet /\ Before(q, p)
    BY <1>1, <1>2 DEF TypeOK
  <2> QED
    BY <1>1, <1>2, <2>1, Ordered
<1> QED
  BY <1>1, <1>2, Ordered

LEMMA JoiningKept ==
  ASSUME TypeOK, Once, Joining, NEW p \in list, TakePacket(p) \/ TakeMarker(p), Undisturbed'
  PROVE  Joining'
<1> PICK j : j = Joined(p)
  OBVIOUS
<1>1. CASE TakeMarker(p)
  BY <1>1 DEF TakeMarker, Joining
<1>2. CASE TakePacket(p)
  <2>1. Take(p) /\ buf' = j
    BY <1>2 DEF TakePacket
  <2>2. /\ j.first.src = p.src /\ j.last = p
        /\ j.whole => j.first.frame = p.frame
        /\ ~j.whole => Missing(j.first.src, j.first.frame)'
    BY <2>1, JoinedJoins
  <2>3. \A q \in taken' : q.src = p.src => ~Before(p, q)
    BY <2>1, TakesNewest
  <2> QED
    BY <2>1, <2>2, <2>3 DEF Joining, Of
<1> QED
  BY <1>1, <1>2

LEMMA BrokenMissesKept ==
  ASSUME TypeOK, Once, Joining, BrokenMisses,
         NEW p \in list, TakePacket(p) \/ TakeMarker(p), Undisturbed'
  PROVE  BrokenMisses'
<1> SUFFICES ASSUME NEW u \in parsed', ~u.intact PROVE Missing(u.src, u.frame)'
  BY DEF BrokenMisses
<1>1. Take(p)
  BY DEF TakePacket, TakeMarker
<1>2. CASE u \in parsed
  <2>1. u.src \in Sources /\ u.frame \in Frames /\ Missing(u.src, u.frame)
    BY <1>2 DEF BrokenMisses, TypeOK, Unit
  <2> QED
    BY <1>1, <2>1, MissingStays
<1>3. CASE u \notin parsed
  <2> PICK j : j = Joined(p)
    OBVIOUS
  <2>1. u \in Parsed(j)
    BY <1>3 DEF TakePacket, TakeMarker, Push
  <2>2. u.src = j.first.src /\ u.frame = j.first.frame /\ u.intact = j.whole
    BY <2>1 DEF Parsed
  <2>3. ~j.whole => Missing(j.first.src, j.first.frame)'
    BY <1>1, JoinedJoins
  <2> QED
    BY <2>2, <2>3
<1> QED
  BY <1>2, <1>3

(* After a marker rtpOut is empty: the first packet of the next frame starts *)
(* it.                                                                       *)
LEMMA FirstIsAlone ==
  ASSUME TypeOK, Once, Joining, NEW p \in list, Take(p), Undisturbed',
         NEW s \in Sources, NEW f \in Frames, p = Pkt(s, f, 1),
         f > 1 => Marker(s, f - 1) \in taken'
  PROVE  buf = None
<1> SUFFICES ASSUME buf # None PROVE FALSE
  OBVIOUS
<1> PICK l : l = buf.last
  OBVIOUS
<1>1. /\ taken' = taken \cup {p} /\ l.src = p.src
      /\ \A q \in taken : q.src = p.src => Before(q, p)
  BY TakesInOrder
<1>2. l \in taken /\ ~HasMarker(l) /\ l \in Packet
  BY DEF TypeOK
<1>3. p.src = s /\ p.frame = f /\ p.idx = 1
  BY DEF Pkt
<1>4. l.frame \in Nat /\ l.frame >= 1 /\ l.idx \in 1 .. Packets /\ f \in Nat
  BY <1>2 DEF Packet, Frames
<1>5. l.frame < f /\ f > 1
  BY <1>1, <1>2, <1>3, <1>4, PacketsAssumption DEF Before
<1> PICK m : m = Marker(s, f - 1)
  OBVIOUS
<1>6. m.src = s /\ m.frame = f - 1 /\ m.idx = Packets
  BY DEF Marker
<1>7. m \in taken
  <2>1. m # p
    BY <1>3, <1>4, <1>6
  <2> QED
    BY <1>1, <1>5, <2>1
<1>8. ~Before(l, m)
  BY <1>1, <1>3, <1>6, <1>7 DEF Joining, Of
<1>9. l.idx < Packets
  BY <1>2, <1>4, PacketsAssumption DEF HasMarker
<1> QED
  BY <1>4, <1>5, <1>6, <1>8, <1>9 DEF Before

(* The marker before a frame that has begun is not what is taken now.        *)
LEMMA MarkerWasTaken ==
  ASSUME TypeOK, Once, NEW p \in list, Take(p), Undisturbed',
         NEW s \in Sources, NEW f \in Frames,
         f > 1 => Marker(s, f - 1) \in taken',
         Pkt(s, f, 1) \in taken'
  PROVE  f > 1 => Marker(s, f - 1) \in taken
<1> SUFFICES ASSUME f > 1 PROVE Marker(s, f - 1) \in taken
  OBVIOUS
<1> PICK m : m = Marker(s, f - 1)
  OBVIOUS
<1> PICK k : k = Pkt(s, f, 1)
  OBVIOUS
<1>1. m.src = s /\ m.frame = f - 1 /\ k.src = s /\ k.frame = f
  BY DEF Marker, Pkt
<1>2. Before(m, k)
  BY <1>1 DEF Before, Frames
<1>3. m # p
  BY <1>1, <1>2, TakesNewest
<1> QED
  BY <1>3, TakesInOrder

LEMMA OpenIsJoinedKept ==
  ASSUME TypeOK, Once, Joining, OpenIsJoined,
         NEW p \in list, TakePacket(p) \/ TakeMarker(p), Undisturbed'
  PROVE  OpenIsJoined'
<1> SUFFICES ASSUME NEW s \in Sources, NEW f \in Frames, Open(s, f)'
             PROVE  buf' # None /\ buf'.first = Pkt(s, f, 1)
  BY DEF OpenIsJoined
<1> PICK j : j = Joined(p)
  OBVIOUS
<1> PICK k : k = Pkt(s, f, 1)
  OBVIOUS
<1>1. Take(p)
  BY DEF TakePacket, TakeMarker
<1>2. p \in Packet /\ taken' = taken \cup {p} /\ taken \subseteq Packet
  BY <1>1, TakesInOrder DEF TypeOK
<1>3. /\ k \in taken' /\ (f > 1 => Marker(s, f - 1) \in taken')
      /\ \A q \in taken' : q.src = s => q.frame <= f /\ ~(q.frame = f /\ HasMarker(q))
  BY DEF Open, Of
<1>4. k.src = s /\ k.frame = f /\ k.idx = 1
  BY DEF Pkt
<1>5. TakePacket(p) => buf' = j /\ j # None
  <2>1. j \in Join
    BY <1>2, ParsedIsUnit DEF Join
  <2> QED
    BY <2>1, NoneAssumption DEF TakePacket
<1>6. CASE p = k
  <2>1. buf = None
    BY <1>1, <1>3, <1>6, FirstIsAlone
  <2>2. j.first = p
    BY <2>1 DEF Joined
  <2>3. ~HasMarker(p)
    BY <1>2, <1>3, <1>4, <1>6
  <2> QED
    BY <1>5, <1>6, <2>2, <2>3 DEF TakeMarker
<1>7. CASE p # k
  <2>1. k \in taken
    BY <1>2, <1>3, <1>7
  <2>2. f > 1 => Marker(s, f - 1) \in taken
    BY <1>1, <1>3, MarkerWasTaken
  <2>3. buf # None /\ buf.first = k
    <3>1. Open(s, f)
      BY <1>2, <1>3, <2>1, <2>2 DEF Open, Of
    <3> QED
      BY <3>1 DEF OpenIsJoined
  <2>4. p.src = s
    BY <1>1, <1>4, <2>3, TakesInOrder DEF Joining
  <2>5. ~HasMarker(p)
    <3> SUFFICES ASSUME HasMarker(p) PROVE FALSE
      OBVIOUS
    <3>1. p.frame <= f /\ p.frame # f
      BY <1>2, <1>3, <2>4
    <3>2. p.frame \in Nat /\ f \in Nat
      BY <1>2 DEF Packet, Frames
    <3>3. Before(p, k)
      BY <1>4, <3>1, <3>2 DEF Before
    <3> QED
      BY <1>1, <1>4, <2>1, <2>4, <3>3, TakesNewest
  <2>6. j.first = buf.first
    <3> PICK b : b = buf
      OBVIOUS
    <3>1. b \in [first : taken, last : taken, whole : BOOLEAN]
      BY <2>3 DEF TypeOK
    <3>2. j = [b EXCEPT !.last = p, !.whole = b.whole /\ p = Succ(b.last)]
      BY <2>3 DEF Joined
    <3> QED
      BY <3>1, <3>2
  <2> QED
    BY <1>5, <2>3, <2>5, <2>6 DEF TakeMarker
<1> QED
  BY <1>6, <1>7

(* The last packet of a frame completes it.                                  *)
LEMMA ThroughKept ==
  ASSUME TypeOK, Once, Order, NEW p \in list, TakePacket(p) \/ TakeMarker(p), Undisturbed',
         NEW s \in Sources, NEW f \in Frames
  PROVE  Through(s, f)'
<1> SUFFICES ASSUME FramePackets(s, f) \subseteq taken',
                    f > 1 => Marker(s, f - 1) \in taken'
             PROVE  Intact(s, f) \in parsed'
  BY DEF Through, FramePackets, Marker, Intact
<1> PICK j : j = Joined(p)
  OBVIOUS
<1> PICK k : k = Pkt(s, f, 1)
  OBVIOUS
<1>1. Take(p)
  BY DEF TakePacket, TakeMarker
<1>2. p \in Packet /\ taken' = taken \cup {p} /\ taken \subseteq Packet
  BY <1>1, TakesInOrder DEF TypeOK
<1>3. \A i \in 1 .. Packets : Pkt(s, f, i) \in taken'
  BY DEF FramePackets, Pkt
<1>4. k \in taken' /\ k.src = s /\ k.frame = f /\ k.idx = 1
  BY <1>3, PacketsAssumption DEF Pkt
<1>5. f > 1 => Marker(s, f - 1) \in taken
  BY <1>1, <1>4, MarkerWasTaken
<1>6. parsed \subseteq parsed'
  BY DEF TakePacket, TakeMarker, Push
<1>7. CASE p \notin FramePackets(s, f)
  <2>1. FramePackets(s, f) \subseteq taken
    BY <1>2, <1>7
  <2> QED
    BY <1>5, <1>6, <2>1 DEF Order, Through
<1>8. CASE p \in FramePackets(s, f)
  <2>1. PICK i \in 1 .. Packets : p = Pkt(s, f, i)
    BY <1>8 DEF FramePackets, Pkt
  <2>2. p.src = s /\ p.frame = f /\ p.idx = i
    BY <2>1 DEF Pkt
  <2>3. HasMarker(p)
    <3> SUFFICES ASSUME i # Packets PROVE FALSE
      BY <2>2 DEF HasMarker
    <3> PICK m : m = Pkt(s, f, Packets)
      OBVIOUS
    <3>1. m \in taken' /\ m.src = s /\ m.frame = f /\ m.idx = Packets
      BY <1>3, PacketsAssumption DEF Pkt
    <3>2. Before(p, m)
      BY <2>1, <2>2, <3>1, PacketsAssumption DEF Before
    <3> QED
      BY <1>1, <2>2, <3>1, <3>2, TakesNewest
  <2>4. parsed' = parsed \cup Parsed(j)
    BY <2>3 DEF TakePacket, TakeMarker, Push
  <2>5. j.first = k
    <3>1. CASE p = k
      <4>1. buf = None
        BY <1>1, <3>1, FirstIsAlone DEF Order
      <4> QED
        BY <3>1, <4>1 DEF Joined
    <3>2. CASE p # k
      <4>1. k \in taken
        BY <1>2, <1>4, <3>2
      <4>2. ASSUME NEW q \in taken, q.src = s
            PROVE  q.frame <= f /\ ~(q.frame = f /\ HasMarker(q))
        <5>1. q \in Packet /\ ~Before(p, q) /\ q # p
          BY <1>1, <1>2, <2>2, <4>2, TakesInOrder, TakesNewest
        <5>2. Before(q, p)
          BY <1>2, <2>2, <4>2, <5>1, Ordered
        <5>3. q.frame \in Nat /\ f \in Nat /\ q.idx \in 1 .. Packets
          BY <5>1 DEF Packet, Frames
        <5> QED
          BY <2>2, <2>3, <5>2, <5>3, PacketsAssumption DEF Before, HasMarker
      <4>3. Open(s, f)
        BY <1>5, <4>1, <4>2 DEF Open, Of
      <4>4. buf # None /\ buf.first = k
        BY <4>3 DEF Order, OpenIsJoined
      <4> PICK b : b = buf
        OBVIOUS
      <4>5. b \in [first : taken, last : taken, whole : BOOLEAN]
        BY <4>4 DEF TypeOK
      <4>6. j = [b EXCEPT !.last = p, !.whole = b.whole /\ p = Succ(b.last)]
        BY <4>4 DEF Joined
      <4> QED
        BY <4>4, <4>5, <4>6
    <3> QED
      BY <3>1, <3>2
  <2>6. j.whole
    <3> SUFFICES ASSUME ~j.whole PROVE FALSE
      OBVIOUS
    <3>1. Missing(s, f)'
      BY <1>1, <1>4, <2>5, JoinedJoins DEF Order
    <3>2. PICK i2 \in 1 .. Packets : Pkt(s, f, i2) \notin taken'
      BY <3>1 DEF Missing, PassedOver
    <3> QED
      BY <1>3, <3>2
  <2>7. j.whole \in BOOLEAN
    BY ParsedIsUnit
  <2>8. Intact(s, f) \in Parsed(j)
    BY <1>4, <2>5, <2>6, <2>7 DEF Parsed, Intact
  <2> QED
    BY <2>4, <2>8
<1> QED
  BY <1>7, <1>8

-----------------------------------------------------------------------------
LEMMA InitInv == Init => IInv
<1> SUFFICES ASSUME Init PROVE Once /\ Order
  BY InitType DEF IInv
<1>1. Once
  BY DEF Init, Once, OnItsWay
<1>2. Joining /\ OpenIsJoined /\ BrokenMisses
  BY DEF Init, Joining, OpenIsJoined, Open, BrokenMisses
<1>3. ASSUME NEW s \in Sources, NEW f \in Frames PROVE Through(s, f)
  <2>1. Marker(s, f) \in FramePackets(s, f)
    BY PacketsAssumption DEF Marker, FramePackets
  <2> QED
    BY <2>1 DEF Init, Through
<1> QED
  BY <1>1, <1>2, <1>3 DEF Order

LEMMA InvKept == IInv /\ [Next]_vars => IInv'
<1> SUFFICES ASSUME IInv, [Next]_vars PROVE IInv'
  OBVIOUS
<1>1. TypeOK' /\ Once'
  BY TypeKept, OnceKept DEF IInv
<1>2. CASE \E p \in list : TakePacket(p) \/ TakeMarker(p)
  <2>1. PICK p \in list : TakePacket(p) \/ TakeMarker(p)
    BY <1>2
  <2> SUFFICES ASSUME Undisturbed' PROVE Order'
    BY <1>1 DEF IInv
  <2>2. Order
    BY <2>1, TakesInOrder DEF IInv, TakePacket, TakeMarker
  <2>3. Joining' /\ OpenIsJoined' /\ BrokenMisses'
    BY <2>1, <2>2, JoiningKept, OpenIsJoinedKept, BrokenMissesKept DEF IInv, Order
  <2>4. \A s \in Sources, f \in Frames : Through(s, f)'
    BY <2>1, <2>2, ThroughKept DEF IInv
  <2> QED
    BY <2>3, <2>4 DEF Order
<1>3. CASE ~\E p \in list : TakePacket(p) \/ TakeMarker(p)
  <2>1. UNCHANGED <<buf, taken, late, mixed, parsed>>
    BY <1>3 DEF Next, NetSteps, RecvSteps, SendSteps, Send, Lose, Arrive, Poll, Wakes, TimesOut,
                SourceDone, Pop, Clear, vars, joinVars, sendVars
  <2> QED
    BY <1>1, <2>1 DEF IInv, Undisturbed, Order, Joining, OpenIsJoined, Open, BrokenMisses, Missing,
                      PassedOver, Through
<1> QED
  BY <1>2, <1>3

(* The strengthening holds: losses stay where they fall (TdRtp.cpp:142-170). *)
THEOREM InvCorrect == Spec => []IInv
  BY InitInv, InvKept, PTL DEF Spec

(* A frame survives what is lost around it: however many packets were lost   *)
(* before the marker it follows, it comes through parsingPs whole.           *)
THEOREM SurvivesLoss == Spec => []Survives
<1>1. IInv => Survives
  <2>1. 1 .. MaxFrames \subseteq Frames
    BY BoundAssumption DEF Frames
  <2> QED
    BY <2>1 DEF IInv, Survives, Order, Through
<1> QED
  BY <1>1, InvCorrect, PTL

(* A damaged frame misses a packet of its own.                               *)
THEOREM BrokenCause == Spec => []BrokenHasCause
<1>1. IInv => BrokenHasCause
  <2> SUFFICES ASSUME IInv, Undisturbed, NEW u \in parsed, ~u.intact
               PROVE  ~(FramePackets(u.src, u.frame) \subseteq taken)
    BY DEF BrokenHasCause
  <2>1. u.src \in Sources /\ u.frame \in Frames
    BY DEF IInv, TypeOK, Unit
  <2>2. Missing(u.src, u.frame)
    BY DEF IInv, Order, BrokenMisses
  <2> QED
    BY <2>1, <2>2, MissingIsGap
<1> QED
  BY <1>1, InvCorrect, PTL

-----------------------------------------------------------------------------
(* Memory.  parsingPs allocates a frame once: its first packet is taken once *)
(* and begins one unit only.                                                 *)

ParsedOnce ==
  /\ \A u \in parsed : Pkt(u.src, u.frame, 1) \in taken
  /\ buf # None /\ buf.first.idx = 1 =>
       \A u \in parsed : ~(u.src = buf.first.src /\ u.frame = buf.first.frame)
OnceInv == TypeOK /\ Once /\ ParsedOnce

(* What a unit that is joined begins with has not been parsed before.        *)
LEMMA BeginsNew ==
  ASSUME OnceInv, NEW p \in list, NEW j, j = Joined(p)
  PROVE  /\ p \in Packet /\ j.first \in Packet /\ j.first \in taken \cup {p}
         /\ j.first.idx = 1 =>
              /\ j.first = Pkt(j.first.src, j.first.frame, 1)
              /\ \A u \in parsed : ~(u.src = j.first.src /\ u.frame = j.first.frame)
<1>1. p \in Packet /\ p \notin taken
  BY DEF OnceInv, TypeOK, Once, OnItsWay
<1>2. j \in [first : taken \cup {p}, last : {p}, whole : BOOLEAN]
  BY ParsedIsUnit DEF OnceInv
<1>3. j.first \in Packet /\ j.first \in taken \cup {p}
  BY <1>1, <1>2 DEF OnceInv, TypeOK
<1>4. j.first.idx = 1 => j.first = Pkt(j.first.src, j.first.frame, 1)
  BY <1>3 DEF Packet, Pkt
<1>5. CASE buf = None
  <2>1. j.first = p
    BY <1>5 DEF Joined
  <2>2. ASSUME p.idx = 1, NEW u \in parsed, u.src = p.src, u.frame = p.frame PROVE FALSE
    <3>1. p = Pkt(u.src, u.frame, 1)
      BY <1>4, <2>1, <2>2
    <3> QED BY <1>1, <3>1 DEF OnceInv, ParsedOnce
  <2> QED BY <1>1, <1>3, <1>4, <2>1, <2>2
<1>6. CASE buf # None
  <2>1. buf \in [first : taken, last : taken, whole : BOOLEAN]
    BY <1>6 DEF OnceInv, TypeOK
  <2>2. j.first = buf.first
    BY <1>6, <2>1 DEF Joined
  <2> QED BY <1>1, <1>3, <1>4, <1>6, <2>2 DEF OnceInv, ParsedOnce
<1> QED BY <1>5, <1>6

LEMMA ParsedOnceKept == OnceInv /\ [Next]_vars => OnceInv'
<1> SUFFICES ASSUME OnceInv, [Next]_vars PROVE ParsedOnce'
  BY TypeKept, OnceKept DEF OnceInv
<1>1. CASE \E p \in list : TakePacket(p) \/ TakeMarker(p)
  <2> PICK p \in list : TakePacket(p) \/ TakeMarker(p)
    BY <1>1
  <2> PICK j : j = Joined(p)
    OBVIOUS
  <2>1. taken' = taken \cup {p}
    BY DEF TakePacket, TakeMarker, Take
  <2>2. CASE TakePacket(p)
    <3>1. buf' = j /\ parsed' = parsed
      BY <2>2 DEF TakePacket
    <3> QED BY <2>1, <3>1, BeginsNew DEF OnceInv, ParsedOnce
  <2>3. CASE TakeMarker(p)
    <3>1. buf' = None /\ parsed' = parsed \cup Parsed(j)
      BY <2>3 DEF TakeMarker, Push
    <3>2. \A u \in Parsed(j) : Pkt(u.src, u.frame, 1) \in taken'
      BY <2>1, BeginsNew DEF Parsed
    <3> QED BY <2>1, <3>1, <3>2 DEF OnceInv, ParsedOnce
  <2> QED BY <2>2, <2>3
<1>2. CASE ~\E p \in list : TakePacket(p) \/ TakeMarker(p)
  <2>1. UNCHANGED <<buf, taken, parsed>>
    BY <1>2 DEF Next, NetSteps, RecvSteps, SendSteps, Send, Lose, Arrive, Poll, Wakes, TimesOut,
                SourceDone, Pop, Clear, vars, joinVars, sendVars
  <2> QED BY <2>1 DEF OnceInv, ParsedOnce
<1> QED BY <1>1, <1>2

Leaked == heap \ (InQueue \cup {hand})

(* A step changes what is leaked only by a push to a full queue.             *)
LEMMA LeaksByPush ==
  OnceInv /\ [Next]_vars => (Leaked' # Leaked => Len(queue) = QueueSize)
<1> SUFFICES ASSUME OnceInv, [Next]_vars, Len(queue) # QueueSize PROVE Leaked' = Leaked
  OBVIOUS
<1>0. /\ heap \subseteq Unit /\ None \notin Unit /\ heap \subseteq parsed
      /\ queue \in Seq(Unit) /\ Len(queue) <= QueueSize
  BY NoneAssumption DEF OnceInv, TypeOK
<1>1. CASE \E p \in list : TakePacket(p) \/ TakeMarker(p)
  <2> PICK p \in list : TakePacket(p) \/ TakeMarker(p)
    BY <1>1
  <2>1. hand' = hand
    BY DEF TakePacket, TakeMarker, Take
  <2>2. CASE TakePacket(p)
    BY <2>1, <2>2 DEF TakePacket, Leaked, InQueue
  <2>3. CASE TakeMarker(p)
    <3> PICK j : j = Joined(p)
      OBVIOUS
    <3>1. Push(Parsed(j))
      BY <2>3 DEF TakeMarker
    <3>2. CASE Parsed(j) = {}
      BY <2>1, <3>1, <3>2 DEF Push, Leaked, InQueue
    <3>3. CASE Parsed(j) # {}
      <4>1. PICK u : Parsed(j) = {u}
        BY <3>3 DEF Parsed
      <4>2. u \notin parsed
        BY <4>1, BeginsNew DEF Parsed
      <4>3. ~(Len(queue) >= QueueSize)
        BY <1>0, BoundAssumption
      <4>4. (CHOOSE v \in {u} : TRUE) = u
        OBVIOUS
      <4>5. heap' = heap \cup {u} /\ queue' = Append(queue, u)
        BY <3>1, <4>1, <4>3, <4>4 DEF Push
      <4>6. InQueue' = InQueue \cup {u}
        <5>1. u \in Unit
          BY <4>1, ParsedIsUnit DEF OnceInv
        <5>2. DOMAIN queue' = DOMAIN queue \cup {Len(queue) + 1}
          BY <1>0, <4>5, <5>1
        <5>3. queue'[Len(queue) + 1] = u /\ \A i \in DOMAIN queue : queue'[i] = queue[i]
          BY <1>0, <4>5, <5>1
        <5> QED BY <5>2, <5>3 DEF InQueue
      <4> QED BY <1>0, <2>1, <4>2, <4>5, <4>6 DEF Leaked
    <3> QED BY <3>2, <3>3
  <2> QED BY <2>2, <2>3
<1>2. CASE Pop
  <2>1. hand = None /\ hand' = Head(queue) /\ queue' = Tail(queue) /\ heap' = heap
        /\ queue # <<>>
    BY <1>2 DEF Pop
  <2>2. InQueue = InQueue' \cup {hand'}
    <3>1. hand' = queue[1] /\ 1 \in DOMAIN queue
      BY <1>0, <2>1
    <3>2. \A i \in DOMAIN queue' : i + 1 \in DOMAIN queue /\ queue'[i] = queue[i + 1]
      BY <1>0, <2>1
    <3>3. \A i \in DOMAIN queue : i = 1 \/ (i - 1 \in DOMAIN queue' /\ queue'[i - 1] = queue[i])
      BY <1>0, <2>1
    <3>4. InQueue \subseteq InQueue' \cup {hand'}
      BY <3>1, <3>3 DEF InQueue
    <3>5. InQueue' \cup {hand'} \subseteq InQueue
      BY <3>1, <3>2 DEF InQueue
    <3> QED BY <3>4, <3>5
  <2> QED BY <1>0, <2>1, <2>2 DEF Leaked
<1>3. CASE Clear
  BY <1>0, <1>3 DEF Clear, Leaked, InQueue
<1>4. CASE UNCHANGED <<queue, hand, heap>>
  BY <1>4 DEF Leaked, InQueue
<1>5. (\E p \in list : TakePacket(p) \/ TakeMarker(p)) \/ Pop \/ Clear
      \/ UNCHANGED <<queue, hand, heap>>
  BY DEF Next, NetSteps, RecvSteps, SendSteps, Send, Lose, Arrive, Poll, Wakes, TimesOut,
         SourceDone, vars, sendVars
<1> QED BY <1>1, <1>2, <1>3, <1>4, <1>5

(* The memory of a frame is lost by the push of a frame to a full queue and  *)
(* by nothing else (Queue.h:70, TdRtp.cpp:158).                              *)
THEOREM LeaksWhenFull == Spec => LeakOnlyWhenFull
<1>1. Init => OnceInv
  BY InitType DEF Init, OnceInv, Once, OnItsWay, ParsedOnce
<1>2. OnceInv /\ [Next]_vars =>
        (heap' \ (InQueue' \cup {hand'}) # heap \ (InQueue \cup {hand})
           => Len(queue) = QueueSize)
  BY LeaksByPush DEF Leaked
<1> QED BY <1>1, <1>2, ParsedOnceKept, PTL DEF Spec, LeakOnlyWhenFull
=============================================================================
