------------------------------ MODULE RtpStream ------------------------------
(* The stream through a child process: packets arrive at its RTP port, the   *)
(* receive thread joins their payloads up to a marker, parsingPs takes the   *)
(* frame out, the queue hands it to the send thread.                         *)
(*                                                                           *)
(* A frame is a pack header and PES data cut into packets; the first packet  *)
(* holds the header, the last has the marker.  The joined payloads (rtpOut,  *)
(* pos) are known by their first and last packet and by whether they are one *)
(* frame without a gap so far, which is what parsingPs can tell apart.       *)
EXTENDS Naturals, Sequences

CONSTANTS
  Sources,   \* the peers that send to the port (SSRCs)
  Packets,   \* packets of a frame
  QueueSize, \* frames the queue takes (128)
  MaxFrames, \* bound: frames a source sends
  MaxFaults, \* bound: packets lost, and packets that overtake another
  None

ASSUME PacketsAssumption == Packets \in Nat /\ Packets >= 1
ASSUME BoundAssumption == QueueSize \in Nat /\ MaxFrames \in Nat /\ MaxFaults \in Nat

Frames == Nat \ {0}
Packet == [src : Sources, frame : Frames, idx : 1 .. Packets]
Unit   == [src : Sources, frame : Frames, intact : BOOLEAN]
Join   == [first : Packet, last : Packet, whole : BOOLEAN]
ASSUME NoneAssumption == None \notin Unit \cup Sources \cup Join

VARIABLES
  next,     \* per source: the packet it sends next
  net,      \* packets on their way
  faults,   \* history: faults so far
  sock,     \* packets in the socket
  list,     \* packets of the session that were polled and not yet taken
  recvPc,   \* receive thread: "poll", "wait" or "take"
  cur,      \* the source it takes packets of
  buf,      \* rtpOut: first and last packet, one frame so far; None if empty
  taken,    \* history: packets taken
  late,     \* history: packets taken after a later one of their source
  mixed,    \* history: packets of two sources were joined
  queue,    \* packetQue
  hand,     \* the frame the send thread is at
  parsed,   \* history: the frames parsingPs allocated
  heap      \* those of them that are not freed

netVars  == <<next, net, faults>>
joinVars == <<buf, taken, late, mixed>>
sendVars == <<queue, hand, parsed, heap>>
vars == <<netVars, sock, list, recvPc, cur, joinVars, sendVars>>

Before(p, q) == p.frame < q.frame \/ (p.frame = q.frame /\ p.idx < q.idx)
HasMarker(p) == p.idx = Packets
Succ(p) == IF HasMarker(p) THEN [p EXCEPT !.frame = p.frame + 1, !.idx = 1]
           ELSE [p EXCEPT !.idx = p.idx + 1]
Of(S, s) == {p \in S : p.src = s}

Init ==
  /\ next = [s \in Sources |-> [src |-> s, frame |-> 1, idx |-> 1]]
  /\ net = {} /\ faults = 0 /\ sock = {} /\ list = {}
  /\ recvPc = "poll" /\ cur = None
  /\ buf = None /\ taken = {} /\ late = {} /\ mixed = FALSE
  /\ queue = <<>> /\ hand = None /\ parsed = {} /\ heap = {}

-----------------------------------------------------------------------------
(* The peers and the network.                                                *)

Send(s) ==
  /\ next[s].frame <= MaxFrames
  /\ net' = net \cup {next[s]}
  /\ next' = [next EXCEPT ![s] = Succ(next[s])]
  /\ UNCHANGED <<faults, sock, list, recvPc, cur, joinVars, sendVars>>

Lose(p) ==
  /\ faults < MaxFaults /\ faults' = faults + 1
  /\ net' = net \ {p}
  /\ UNCHANGED <<next, sock, list, recvPc, cur, joinVars, sendVars>>

Arrive(p) ==
  /\ IF \E q \in Of(net, p.src) : Before(q, p)
     THEN faults < MaxFaults /\ faults' = faults + 1
     ELSE UNCHANGED faults
  /\ net' = net \ {p} /\ sock' = sock \cup {p}
  /\ UNCHANGED <<next, list, recvPc, cur, joinVars, sendVars>>

-----------------------------------------------------------------------------
(* The receive thread.                                                       *)

(* Poll moves what is in the socket to the packet lists of the session.      *)
Poll ==
  /\ recvPc = "poll" /\ recvPc' = "wait"
  /\ list' = list \cup sock /\ sock' = {}
  /\ UNCHANGED <<netVars, cur, joinVars, sendVars>>

(* GotoFirstSourceWithData, and GotoNextSourceWithData once one is done.     *)
NextSource ==
  IF list = {} THEN recvPc' = "poll" /\ cur' = None
  ELSE recvPc' = "take" /\ \E p \in list : cur' = p.src

(* WaitForIncomingData tells whether the socket has more, which Poll has not *)
(* seen; only then are the lists looked at.  RTCP counts as data as well.    *)
Wakes ==
  /\ recvPc = "wait" /\ NextSource
  /\ UNCHANGED <<netVars, sock, list, joinVars, sendVars>>

TimesOut ==
  /\ recvPc = "wait" /\ sock = {} /\ recvPc' = "poll"
  /\ UNCHANGED <<netVars, sock, list, cur, joinVars, sendVars>>

(* memcpy to rtpOut + pos                                                    *)
Joined(p) ==
  IF buf = None THEN [first |-> p, last |-> p, whole |-> TRUE]
  ELSE [buf EXCEPT !.last = p, !.whole = buf.whole /\ p = Succ(buf.last)]

(* parsingPs: nothing unless the bytes begin with a pack header; otherwise   *)
(* what the lengths in the headers say, whatever the bytes there are.        *)
Parsed(b) ==
  {u \in {[src |-> b.first.src, frame |-> b.first.frame, intact |-> b.whole]} :
     b.first.idx = 1}

(* push: the frame is not freed when the queue is full.                      *)
Push(U) ==
  /\ parsed' = parsed \cup U /\ heap' = heap \cup U
  /\ queue' = IF U = {} \/ Len(queue) >= QueueSize THEN queue
              ELSE Append(queue, CHOOSE u \in U : TRUE)

(* The next packet of the source: its payload is joined to what there is.    *)
Take(p) ==
  /\ recvPc = "take" /\ p.src = cur
  /\ \A q \in Of(list, cur) : ~Before(q, p)
  /\ list' = list \ {p} /\ taken' = taken \cup {p}
  /\ late' = IF \E q \in Of(taken, cur) : Before(p, q) THEN late \cup {p} ELSE late
  /\ mixed' = (mixed \/ (buf # None /\ buf.last.src # cur))
  /\ UNCHANGED <<netVars, sock, recvPc, cur, hand>>

TakePacket(p) ==
  /\ ~HasMarker(p) /\ Take(p)
  /\ buf' = Joined(p)
  /\ UNCHANGED <<queue, parsed, heap>>

(* Mutant: pos keeps its value after a frame.                                *)
TakeMarkerKeeps(p) ==
  /\ HasMarker(p) /\ Take(p)
  /\ Push(Parsed(Joined(p))) /\ buf' = Joined(p)

TakeMarker(p) ==
  /\ HasMarker(p) /\ Take(p)
  /\ Push(Parsed(Joined(p))) /\ buf' = None

SourceDone ==
  /\ recvPc = "take" /\ Of(list, cur) = {} /\ NextSource
  /\ UNCHANGED <<netVars, sock, list, joinVars, sendVars>>

-----------------------------------------------------------------------------
(* The send thread: convert, packagingPs and sendData are CodecParam's and   *)
(* leave the frame alone; then it is freed.                                  *)
Pop ==
  /\ hand = None /\ queue # <<>>
  /\ hand' = Head(queue) /\ queue' = Tail(queue)
  /\ UNCHANGED <<netVars, sock, list, recvPc, cur, joinVars, parsed, heap>>

(* Mutant: the frame is not freed.                                           *)
ClearKeeps ==
  /\ hand # None /\ hand' = None
  /\ UNCHANGED <<netVars, sock, list, recvPc, cur, joinVars, queue, parsed, heap>>

Clear ==
  /\ hand # None /\ hand' = None /\ heap' = heap \ {hand}
  /\ UNCHANGED <<netVars, sock, list, recvPc, cur, joinVars, queue, parsed>>

NetSteps == \E p \in net : Lose(p) \/ Arrive(p)
RecvSteps == Poll \/ Wakes \/ TimesOut \/ SourceDone
             \/ \E p \in list : TakePacket(p) \/ TakeMarker(p)
SendSteps == Pop \/ Clear
Next == (\E s \in Sources : Send(s)) \/ NetSteps \/ RecvSteps \/ SendSteps

(* The threads run; a packet, or RTCP, need not come.                        *)
Fairness == WF_vars(RecvSteps) /\ WF_vars(SendSteps)
Spec == Init /\ [][Next]_vars
FairSpec == Spec /\ Fairness

-----------------------------------------------------------------------------
InQueue == {queue[i] : i \in DOMAIN queue}
FramePackets(s, f) == {[src |-> s, frame |-> f, idx |-> i] : i \in 1 .. Packets}
Marker(s, f) == [src |-> s, frame |-> f, idx |-> Packets]
Intact(s, f) == [src |-> s, frame |-> f, intact |-> TRUE]

(* Every variable has its type; a packet is in one place; what waits to be   *)
(* joined is the beginning of a unit that has no marker yet.                 *)
TypeOK ==
  /\ next \in [Sources -> Packet] /\ \A s \in Sources : next[s].src = s
  /\ net \subseteq Packet /\ sock \subseteq Packet /\ list \subseteq Packet
  /\ taken \subseteq Packet /\ late \subseteq taken /\ mixed \in BOOLEAN
  /\ faults \in 0 .. MaxFaults
  /\ recvPc \in {"poll", "wait", "take"} /\ cur \in Sources \cup {None}
  /\ (recvPc = "take") = (cur # None)
  /\ buf = None \/ /\ buf \in [first : taken, last : taken, whole : BOOLEAN]
                   /\ ~HasMarker(buf.last)
  /\ queue \in Seq(Unit) /\ Len(queue) <= QueueSize /\ hand \in Unit \cup {None}
  /\ parsed \subseteq Unit /\ heap \subseteq parsed

\* packets came in their order, those of one source at a time
Undisturbed == late = {} /\ ~mixed

(* A frame comes through whole if its packets and the marker before it do:   *)
(* what was lost before that marker does not reach it (TdRtp.cpp:142-162).   *)
Survives ==
  Undisturbed => \A s \in Sources, f \in 1 .. MaxFrames :
    FramePackets(s, f) \subseteq taken /\ (f > 1 => Marker(s, f - 1) \in taken)
      => Intact(s, f) \in parsed

(* A damaged frame goes to the codec only if a packet of its own is missing  *)
(* (TdRtp.cpp:144-155).                                                      *)
BrokenHasCause ==
  Undisturbed => \A u \in parsed :
    ~u.intact => ~(FramePackets(u.src, u.frame) \subseteq taken)

(* A frame's memory is lost only to a full queue (Queue.h:70).               *)
LeakOnlyWhenFull ==
  [][heap' \ (InQueue' \cup {hand'}) # heap \ (InQueue \cup {hand})
       => Len(queue) = QueueSize]_vars

(* A frame whose packets have all arrived is taken in the end: this is what  *)
(* checking for incoming packets is for (TdRtp.cpp:126-131).                 *)
ArrivedIsTaken ==
  \A s \in Sources, f \in 1 .. MaxFrames :
    FramePackets(s, f) \subseteq sock \cup list \cup taken ~> FramePackets(s, f) \subseteq taken
=============================================================================
