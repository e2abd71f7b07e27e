------------------------------ MODULE FifoMsg ------------------------------
(* The messages in one channel's FIFO: OnceWrite in threads of the parent,   *)
(* Wait in the child.  Both ends are open (ChanManager has how they open).   *)
(* The pipe is a byte stream: what matters is how many bytes each read()     *)
(* returns, because Wait takes a message only when it got exactly one and    *)
(* throws away whatever else it has read.                                    *)
(*                                                                           *)
(* Messages are numbered in the order of their write(); a number stands for  *)
(* the parameters the request carries.                                       *)
EXTENDS Naturals

CONSTANTS
  Threads,   \* the threads that run the setCodecParam listener
  PipeSize,  \* capacity of the pipe in bytes
  MaxSent    \* bound: no request comes once so many are sent

MsgSize  == 1028   \* sizeof(FifoMsg): a cmd and 1024 bytes of content
BuffSize == 2048   \* sizeof(buff)

ASSUME PipeAssumption == PipeSize \in Nat /\ PipeSize >= MsgSize
ASSUME SentAssumption == MaxSent \in Nat

VARIABLES
  sent,     \* messages written so far
  consumed, \* bytes read so far
  reader,   \* the child's FIFO thread: in "read" or in "apply" (setParam)
  taken,    \* messages handed to setParam; 0 for bytes that are no message
  crowded,  \* history: messages that have shared the pipe with another
  pc, mine, \* per thread of the parent: position, its message
  shown     \* ch->mCMediaParam: the messages its two halves come from

pipeVars   == <<sent, consumed, crowded>>
readerVars == <<reader, taken>>
writerVars == <<pc, mine, shown>>
vars == <<pipeVars, readerVars, writerVars>>

Pending   == sent * MsgSize - consumed
Unread    == {m \in 1 .. sent : m * MsgSize > consumed}

Nread     == IF Pending < BuffSize THEN Pending ELSE BuffSize

\* the message that starts at the read position, 0 where none does
AtPosition == IF consumed % MsgSize = 0 THEN consumed \div MsgSize + 1 ELSE 0

Goto(t, p) == pc' = [pc EXCEPT ![t] = p]

Init ==
  /\ sent = 0 /\ consumed = 0 /\ crowded = {}
  /\ reader = "read" /\ taken = {}
  /\ pc = [t \in Threads |-> "idle"] /\ mine = [t \in Threads |-> 0]
  /\ shown = [res |-> 0, rate |-> 0]

-----------------------------------------------------------------------------
(* Mutant: the listener takes note of its message before it is written.      *)
RequestNotes(t) ==
  /\ pc[t] = "idle" /\ sent < MaxSent
  /\ mine' = [mine EXCEPT ![t] = sent + 1]
  /\ Goto(t, "write")
  /\ UNCHANGED <<pipeVars, readerVars, shown>>

(* A request reaches the listener; OnceWrite with the FIFO open already.     *)
Request(t) ==
  /\ pc[t] = "idle" /\ sent < MaxSent
  /\ Goto(t, "write")
  /\ UNCHANGED <<pipeVars, readerVars, mine, shown>>

(* write(): one message is at most PIPE_BUF bytes, so it goes in whole, when *)
(* there is room for it.                                                     *)
Write(t) ==
  /\ pc[t] = "write" /\ Pending + MsgSize <= PipeSize
  /\ sent' = sent + 1 /\ mine' = [mine EXCEPT ![t] = sent + 1]
  /\ crowded' = IF Pending = 0 THEN crowded ELSE crowded \cup Unread \cup {sent + 1}
  /\ Goto(t, "res")
  /\ UNCHANGED <<consumed, readerVars, shown>>

(* The listener notes what it sent, field after field, without a lock.       *)
StoreRes(t) ==
  /\ pc[t] = "res" /\ shown' = [shown EXCEPT !.res = mine[t]]
  /\ Goto(t, "rate")
  /\ UNCHANGED <<pipeVars, readerVars, mine>>

StoreRate(t) ==
  /\ pc[t] = "rate" /\ shown' = [shown EXCEPT !.rate = mine[t]]
  /\ Goto(t, "idle")
  /\ UNCHANGED <<pipeVars, readerVars, mine>>

-----------------------------------------------------------------------------
(* Wait: read(fd, buff, 2048) waits for data and returns what there is.      *)
Read == reader = "read" /\ Pending > 0 /\ consumed' = consumed + Nread

(* Mutants: a message and whatever follows it; a full buffer.                *)
WholeAtLeast(n) == n >= MsgSize
WholeBuffer(n)  == n = BuffSize

(* nread == sizeof(FifoMsg)                                                  *)
Whole(n) == n = MsgSize

(* setParam gets the content of buff.                                        *)
Take ==
  /\ Read /\ Whole(Nread)
  /\ taken' = taken \cup {AtPosition} /\ reader' = "apply"
  /\ UNCHANGED <<sent, crowded, writerVars>>

(* Any other count: -1, and the loop of TdRtp::start reads again.            *)
Drop ==
  /\ Read /\ ~Whole(Nread)
  /\ UNCHANGED <<sent, crowded, readerVars, writerVars>>

(* Mutant: the thread does not come back to read().                          *)
AppliedStuck ==
  /\ reader = "apply"
  /\ UNCHANGED vars

(* setParam has returned.                                                    *)
Applied ==
  /\ reader = "apply" /\ reader' = "read"
  /\ UNCHANGED <<pipeVars, taken, writerVars>>

WriterSteps(t) == Write(t) \/ StoreRes(t) \/ StoreRate(t)
ReaderSteps == Take \/ Drop \/ Applied
Next == (\E t \in Threads : Request(t) \/ WriterSteps(t)) \/ ReaderSteps

(* The threads run; a request need not come.                                 *)
Fairness == WF_vars(ReaderSteps) /\ \A t \in Threads : WF_vars(WriterSteps(t))
Spec == Init /\ [][Next]_vars
FairSpec == Spec /\ Fairness

-----------------------------------------------------------------------------
(* Every variable has its type, and nothing is read before it is written.    *)
TypeOK ==
  /\ sent \in Nat /\ consumed \in Nat /\ consumed <= sent * MsgSize
  /\ Pending <= PipeSize
  /\ reader \in {"read", "apply"} /\ taken \subseteq Nat
  /\ crowded \subseteq 1 .. sent
  /\ pc \in [Threads -> {"idle", "write", "res", "rate"}]
  /\ mine \in [Threads -> 0 .. sent]
  /\ shown \in [res : 0 .. sent, rate : 0 .. sent]

(* What setParam gets starts where a message starts, although reads stop in  *)
(* the middle of messages and buff keeps older bytes (fifoMsg.cpp:35-41).    *)
WholeMessage == 0 \notin taken

(* A message that went by unseen had shared the pipe with another: requests  *)
(* that each find the pipe empty and are read alone are all taken.           *)
DroppedOnlyIfCrowded ==
  \A m \in 1 .. sent : m * MsgSize <= consumed => m \in taken \cup crowded

(* setParam is only ever given the newest message there is: an older one     *)
(* never follows it (fifoMsg.cpp:36-41).                                     *)
TakesNewest ==
  [][\A m \in taken' \ taken : m = sent /\ \A k \in taken : k < m]_vars

(* A thread of the parent that waits for room in the pipe is let go: the     *)
(* child's loop does not stop reading.                                       *)
WriterReleased ==
  \A t \in Threads : pc[t] = "write" ~> pc[t] = "res"
=============================================================================
