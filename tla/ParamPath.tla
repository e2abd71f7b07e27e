----------------------------- MODULE ParamPath -----------------------------
(* The way of a channel's video parameters, end to end: the setCodecParam    *)
(* listener and the pipe (FifoMsg), and in the child the codec's fields and  *)
(* the encoder (CodecParam).  The child's FIFO thread takes part in both: it *)
(* hands a message to setParam and reads the next one when that returns.     *)
EXTENDS Naturals

CONSTANTS Threads, PipeSize, MaxSent, LowRate

ASSUME PathAssumption ==
  PipeSize \in Nat /\ PipeSize >= 1028 /\ MaxSent \in Nat /\ LowRate \subseteq Nat

VARIABLES
  sent, consumed, reader, taken, crowded, pc, mine, shown,
  codec, mIsRefresh, current, fifoPc, sendPc, frame, encoder, ready, overlapped

Pipe  == INSTANCE FifoMsg
Codec == INSTANCE CodecParam WITH MaxSetting <- MaxSent

pipe == <<sent, consumed, crowded, reader, taken, pc, mine, shown>>
child == <<codec, mIsRefresh, current, fifoPc, sendPc, frame, encoder, ready, overlapped>>
vars == <<pipe, child>>

Init == Pipe!Init /\ Codec!Init

(* Mutants: setParam gets the message before; the flag is left as it was.    *)
HandPrevious == Pipe!Take /\ Codec!SetParam(Pipe!AtPosition - 1)

HandBackQuiet ==
  /\ Pipe!Applied /\ fifoPc = "refresh" /\ fifoPc' = "wait"
  /\ UNCHANGED <<codec, mIsRefresh, current, sendPc, frame, encoder, ready, overlapped>>

(* The loop of TdRtp::start: Wait, setParam with the content, Wait again.    *)
Hand     == Pipe!Take /\ Codec!SetParam(Pipe!AtPosition)
HandBack == Codec!SetRefresh /\ Pipe!Applied

WriterSteps(t) == Pipe!WriterSteps(t) /\ UNCHANGED child
FifoSteps ==
  \/ Hand
  \/ HandBack
  \/ Pipe!Drop /\ UNCHANGED child
  \/ Codec!SetField /\ UNCHANGED pipe
SendSteps == Codec!SendSteps /\ UNCHANGED pipe

Next ==
  \/ \E t \in Threads : Pipe!Request(t) /\ UNCHANGED child
  \/ \E t \in Threads : WriterSteps(t)
  \/ FifoSteps
  \/ SendSteps

(* Every thread runs and frames keep coming.                                 *)
Fairness == WF_vars(FifoSteps) /\ WF_vars(SendSteps)
            /\ \A t \in Threads : WF_vars(WriterSteps(t))
Spec == Init /\ [][Next]_vars
FairSpec == Spec /\ Fairness

-----------------------------------------------------------------------------
(* The channel keeps the promise of EncoderSetting: nothing the encoder runs *)
(* with was not asked for, and no older setting replaces a newer one, from   *)
(* the write in the listener to setEncoderParam.                             *)
Promise == INSTANCE EncoderSetting WITH asked <- sent, given <- current, inForce <- encoder
PromiseKept == Promise!Spec

(* A setting that has the pipe to itself, and whose own refresh is not       *)
(* raised while convert is at work, is in force in the end, or a newer one.  *)
AskedIsInForce ==
  \A m \in 1 .. MaxSent :
    sent >= m ~> (\A d \in Codec!Dims : encoder[d] >= m) \/ m \in crowded \cup overlapped
=============================================================================
