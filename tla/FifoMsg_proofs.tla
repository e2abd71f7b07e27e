--------------------------- MODULE FifoMsg_proofs ---------------------------
(* What FifoMsg promises, for any threads, any number of requests and any    *)
(* pipe that holds a message.  The argument is about bytes: a read returns   *)
(* exactly one message's worth only when the pipe held exactly that, and the *)
(* last MsgSize bytes written are the newest message.                        *)
EXTENDS FifoMsg, TLAPS

\* unless the pipe is empty or holds one whole message, all of it is crowded
Mixed == Pending # 0 /\ Pending # MsgSize => Unread \subseteq crowded

\* a taken message was written, and has been read to its end
TakenIsRead == \A m \in taken : m \in 1 .. sent /\ m * MsgSize <= consumed

IInv == TypeOK /\ Mixed /\ TakenIsRead /\ DroppedOnlyIfCrowded

(* Division by the size of a message, on its multiples (MsgSize in           *)
(* fifoMsg.h:23-27).                                                         *)
LEMMA Multiples ==
  ASSUME NEW n \in Nat
  PROVE  (n * MsgSize) % MsgSize = 0 /\ (n * MsgSize) \div MsgSize = n
BY DEF MsgSize

(* A read of exactly one message empties the pipe and returns the newest     *)
(* message (the test nread == sizeof(FifoMsg), fifoMsg.cpp:38).              *)
LEMMA OneMessage ==
  ASSUME TypeOK, Read, Nread = MsgSize
  PROVE  /\ consumed = (sent - 1) * MsgSize /\ consumed' = sent * MsgSize
         /\ sent >= 1 /\ AtPosition = sent
<1>1. consumed = (sent - 1) * MsgSize /\ consumed' = sent * MsgSize /\ sent \in Nat /\ sent >= 1
  BY DEF TypeOK, Read, Nread, Pending, MsgSize, BuffSize
<1>2. sent - 1 \in Nat
  BY <1>1
<1>3. AtPosition = sent
  BY <1>1, <1>2, Multiples DEF AtPosition
<1> QED
  BY <1>1, <1>3

(* Initially nothing is written (the constructor of FifoMsgSession).         *)
LEMMA InitIInv == Init => IInv
BY PipeAssumption DEF Init, IInv, TypeOK, Mixed, TakenIsRead, DroppedOnlyIfCrowded,
   Pending, Unread, MsgSize

(* The writing half of OnceWrite and of the listener keeps the invariant.    *)
LEMMA WritersKeep ==
  ASSUME IInv, NEW t \in Threads, Request(t) \/ WriterSteps(t)
  PROVE  IInv'
<1> USE DEF MsgSize
<1>1. CASE Request(t)
  BY <1>1 DEF IInv, TypeOK, Mixed, TakenIsRead, DroppedOnlyIfCrowded, Request, Goto,
     Pending, Unread, pipeVars, readerVars
<1>2. CASE Write(t)
  <2> USE <1>2
  <2>1. /\ sent \in Nat /\ sent' = sent + 1 /\ consumed' = consumed /\ consumed \in Nat
        /\ taken' = taken /\ reader' = reader /\ shown' = shown
        /\ Pending' = Pending + MsgSize /\ Pending \in Nat
    BY DEF IInv, TypeOK, Write, Pending, readerVars
  <2>2. crowded' = IF Pending = 0 THEN crowded ELSE crowded \cup Unread \cup {sent + 1}
    BY DEF Write
  <2>3. Unread \subseteq 1 .. sent /\ crowded \subseteq 1 .. sent
    BY DEF Unread, IInv, TypeOK
  <2>4. TypeOK'
    <3>1. (sent \in Nat /\ consumed \in Nat /\ consumed <= sent * MsgSize /\ Pending <= PipeSize)'
      BY <2>1 DEF IInv, TypeOK, Write, Pending
    <3>2. (crowded \subseteq 1 .. sent)'
      BY <2>1, <2>2, <2>3
    <3>3. (mine \in [Threads -> 0 .. sent])'
      BY <2>1 DEF IInv, TypeOK, Write
    <3>4. (pc \in [Threads -> {"idle", "write", "res", "rate"}])'
      BY DEF IInv, TypeOK, Write, Goto
    <3>5. (shown \in [res : 0 .. sent, rate : 0 .. sent])'
      BY <2>1 DEF IInv, TypeOK
    <3> QED
      BY <2>1, <3>1, <3>2, <3>3, <3>4, <3>5 DEF IInv, TypeOK
  <2>5. Mixed'
    <3>1. CASE Pending = 0
      BY <2>1, <3>1 DEF Mixed
    <3>2. CASE Pending # 0
      <4>1. Unread' \subseteq Unread \cup {sent + 1}
        BY <2>1 DEF Unread
      <4> QED
        BY <2>2, <3>2, <4>1 DEF Mixed
    <3> QED
      BY <3>1, <3>2
  <2>6. TakenIsRead'
    BY <2>1 DEF IInv, TakenIsRead
  <2>7. DroppedOnlyIfCrowded'
    <3>1. consumed <= sent * MsgSize
      BY DEF IInv, TypeOK
    <3>2. crowded \subseteq crowded'
      BY <2>2
    <3> QED
      BY <2>1, <3>1, <3>2 DEF IInv, DroppedOnlyIfCrowded
  <2> QED
    BY <2>4, <2>5, <2>6, <2>7 DEF IInv
<1>3. CASE StoreRes(t) \/ StoreRate(t)
  <2>1. UNCHANGED <<pipeVars, readerVars>>
    BY <1>3 DEF StoreRes, StoreRate
  <2>2. TypeOK'
    BY <1>3, <2>1 DEF IInv, TypeOK, StoreRes, StoreRate, Goto, Pending, pipeVars, readerVars
  <2> QED
    BY <2>1, <2>2 DEF IInv, Mixed, TakenIsRead, DroppedOnlyIfCrowded, Pending, Unread,
       pipeVars, readerVars
<1> QED
  BY <1>1, <1>2, <1>3 DEF WriterSteps

(* Wait and the loop around it keep the invariant.                           *)
LEMMA ReaderKeeps ==
  ASSUME IInv, ReaderSteps
  PROVE  IInv'
<1> USE DEF MsgSize, Whole
<1>1. CASE Take
  <2> USE <1>1
  <2>1. /\ consumed = (sent - 1) * MsgSize /\ consumed' = sent * MsgSize /\ sent >= 1
        /\ taken' = taken \cup {sent} /\ sent' = sent /\ crowded' = crowded
        /\ sent \in Nat
    BY OneMessage DEF IInv, TypeOK, Take
  <2>2. TypeOK'
    <3>1. UNCHANGED <<pc, mine, shown>> /\ reader' = "apply"
      BY DEF Take, writerVars
    <3>2. (consumed \in Nat /\ consumed <= sent * MsgSize /\ Pending = 0 /\ Pending <= PipeSize)'
      BY <2>1, PipeAssumption DEF Pending
    <3>3. (taken \subseteq Nat)'
      BY <2>1 DEF IInv, TypeOK
    <3> QED
      BY <2>1, <3>1, <3>2, <3>3 DEF IInv, TypeOK
  <2>3. Mixed'
    BY <2>1 DEF Mixed, Pending
  <2>4. TakenIsRead'
    BY <2>1 DEF IInv, TakenIsRead
  <2>5. DroppedOnlyIfCrowded'
    BY <2>1 DEF IInv, DroppedOnlyIfCrowded
  <2> QED
    BY <2>2, <2>3, <2>4, <2>5 DEF IInv
<1>2. CASE Drop
  <2> USE <1>2
  <2>1. /\ sent' = sent /\ crowded' = crowded /\ taken' = taken /\ reader' = reader
        /\ sent \in Nat /\ consumed \in Nat /\ Pending > 0 /\ Nread # MsgSize
        /\ consumed' = consumed + Nread /\ Pending = sent * MsgSize - consumed
    BY DEF IInv, TypeOK, Drop, Read, readerVars, Pending
  <2>2. Pending \in Nat /\ Nread \in Nat /\ Nread <= Pending /\ Pending # MsgSize
    BY <2>1 DEF IInv, TypeOK, Nread, BuffSize
  <2>3. TypeOK'
    <3>1. UNCHANGED <<pc, mine, shown>>
      BY DEF Drop, writerVars
    <3>2. (consumed \in Nat /\ consumed <= sent * MsgSize /\ Pending <= PipeSize)'
      BY <2>1, <2>2, PipeAssumption DEF IInv, TypeOK, Pending
    <3> QED
      BY <2>1, <3>1, <3>2 DEF IInv, TypeOK
  <2>4. Unread \subseteq crowded
    BY <2>1, <2>2 DEF IInv, Mixed
  <2>5. Mixed'
    <3>1. Unread' \subseteq Unread
      BY <2>1, <2>2 DEF Unread
    <3> QED
      BY <2>1, <2>4, <3>1 DEF Mixed
  <2>6. TakenIsRead'
    BY <2>1, <2>2 DEF IInv, TakenIsRead
  <2>7. DroppedOnlyIfCrowded'
    <3> SUFFICES ASSUME NEW m \in 1 .. sent, m \notin crowded
                 PROVE  m \in taken
      BY <2>1 DEF DroppedOnlyIfCrowded
    <3>1. m * MsgSize <= consumed
      BY <2>1, <2>4 DEF Unread
    <3> QED
      BY <3>1 DEF IInv, DroppedOnlyIfCrowded
  <2> QED
    BY <2>3, <2>5, <2>6, <2>7 DEF IInv
<1>3. CASE Applied
  BY <1>3 DEF IInv, TypeOK, Mixed, TakenIsRead, DroppedOnlyIfCrowded, Applied,
     Pending, Unread, pipeVars, writerVars
<1> QED
  BY <1>1, <1>2, <1>3 DEF ReaderSteps

(* A step that leaves everything alone keeps the invariant.                  *)
LEMMA StutterKeeps ==
  ASSUME IInv, UNCHANGED vars
  PROVE  IInv'
BY DEF IInv, TypeOK, Mixed, TakenIsRead, DroppedOnlyIfCrowded, Pending, Unread,
   vars, pipeVars, readerVars, writerVars

(* The invariant is inductive (fifoMsg.cpp:21-62 with TdRtp.cpp:83-97).      *)
LEMMA Inductive == Spec => []IInv
<1>1. IInv /\ [Next]_vars => IInv'
  BY WritersKeep, ReaderKeeps, StutterKeeps DEF Next
<1> QED
  BY InitIInv, <1>1, PTL DEF Spec

(* The variables keep their types, and what is read has been written (the    *)
(* bytes between OnceWrite and Wait).                                        *)
THEOREM TypeCorrect == Spec => []TypeOK
<1>1. IInv => TypeOK
  BY DEF IInv
<1> QED
  BY Inductive, <1>1, PTL

(* setParam never gets bytes from the middle of a message (fifoMsg.cpp:38).  *)
THEOREM NeverTorn == Spec => []WholeMessage
<1>1. IInv => WholeMessage
  BY DEF IInv, TypeOK, TakenIsRead, WholeMessage
<1> QED
  BY Inductive, <1>1, PTL

(* Only messages that shared the pipe are dropped (fifoMsg.cpp:36-42).       *)
THEOREM AloneIsTaken == Spec => []DroppedOnlyIfCrowded
<1>1. IInv => DroppedOnlyIfCrowded
  BY DEF IInv
<1> QED
  BY Inductive, <1>1, PTL

(* A message handed over is the newest, and newer than all before it.        *)
LEMMA TakenIsNewest ==
  ASSUME IInv, Take
  PROVE  /\ taken' = taken \cup {sent} /\ sent \in Nat /\ sent >= 1 /\ AtPosition = sent
         /\ \A k \in taken : k < sent
<1>1. /\ consumed = (sent - 1) * MsgSize /\ taken' = taken \cup {sent}
      /\ sent \in Nat /\ sent >= 1 /\ AtPosition = sent
  BY OneMessage DEF IInv, TypeOK, Take, Whole
<1>2. \A k \in taken : k < sent
  BY <1>1 DEF IInv, TakenIsRead, MsgSize
<1> QED
  BY <1>1, <1>2

(* What setParam is given is the newest message, and newer than all it was   *)
(* given before (fifoMsg.cpp:36-41).                                         *)
THEOREM NewestTaken == Spec => TakesNewest
<1> DEFINE Newest == \A m \in taken' \ taken : m = sent /\ \A k \in taken : k < m
<1>1. ASSUME IInv, [Next]_vars PROVE [Newest]_vars
  <2>1. CASE Take
    BY <1>1, <2>1, TakenIsNewest
  <2>2. CASE Drop \/ Applied
    BY <2>2 DEF Drop, Applied, readerVars
  <2>3. ASSUME NEW t \in Threads, Request(t) \/ WriterSteps(t) PROVE Newest
    BY <2>3 DEF Request, WriterSteps, Write, StoreRes, StoreRate, readerVars
  <2> QED
    BY <1>1, <2>1, <2>2, <2>3 DEF Next, ReaderSteps
<1>2. IInv /\ [Next]_vars => [Newest]_vars
  BY <1>1
<1> QED
  BY Inductive, <1>2, PTL DEF Spec, TakesNewest
=============================================================================
