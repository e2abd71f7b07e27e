-------------------------- MODULE ParamPath_proofs --------------------------
(* The channel keeps the promise of EncoderSetting: every step of ParamPath  *)
(* is a step of EncoderSetting or changes nothing that it speaks of.  The    *)
(* invariants of the two halves are proved with the halves (FifoMsg_proofs,  *)
(* CodecParam_proofs); here is what ties them together.                      *)
EXTENDS ParamPath, TLAPS

PipeP  == INSTANCE FifoMsg_proofs
CodecP == INSTANCE CodecParam_proofs WITH MaxSetting <- MaxSent

\* the FIFO thread is in one place, and at the last message taken
OneThread ==
  /\ fifoPc = "wait" <=> reader = "read"
  /\ current \in taken \cup {0} /\ \A m \in taken : m <= current

IInv == PipeP!IInv /\ CodecP!IInv /\ OneThread

(* The halves as ParamPath and as the proof modules name them are the same   *)
(* (FifoMsg and CodecParam, instantiated twice).                             *)
LEMMA SameInit ==
  /\ Pipe!Init <=> PipeP!Init
  /\ Codec!Init <=> CodecP!Init
<1>1. Pipe!Init <=> PipeP!Init
  BY DEF Pipe!Init, PipeP!Init
<1>2. Codec!Init <=> CodecP!Init
  BY DEF Codec!Init, CodecP!Init, Codec!Created, CodecP!Created,
     Codec!Fields, CodecP!Fields, Codec!Dims, CodecP!Dims
<1> QED
  BY <1>1, <1>2

LEMMA SamePipe ==
  /\ \A t \in Threads : Pipe!Request(t) <=> PipeP!Request(t)
  /\ \A t \in Threads : Pipe!WriterSteps(t) <=> PipeP!WriterSteps(t)
  /\ Pipe!Take <=> PipeP!Take
  /\ Pipe!Drop <=> PipeP!Drop
  /\ Pipe!Applied <=> PipeP!Applied
  /\ Pipe!AtPosition = PipeP!AtPosition
<1> USE DEF Pipe!pipeVars, PipeP!pipeVars, Pipe!readerVars, PipeP!readerVars,
            Pipe!writerVars, PipeP!writerVars, Pipe!Goto, PipeP!Goto,
            Pipe!Pending, PipeP!Pending, Pipe!MsgSize, PipeP!MsgSize
<1>1. \A t \in Threads : Pipe!Request(t) <=> PipeP!Request(t)
  BY DEF Pipe!Request, PipeP!Request
<1>2. \A t \in Threads : Pipe!WriterSteps(t) <=> PipeP!WriterSteps(t)
  BY DEF Pipe!WriterSteps, PipeP!WriterSteps, Pipe!Write, PipeP!Write, Pipe!Unread, PipeP!Unread,
     Pipe!StoreRes, PipeP!StoreRes, Pipe!StoreRate, PipeP!StoreRate
<1>3. Pipe!AtPosition = PipeP!AtPosition
  BY DEF Pipe!AtPosition, PipeP!AtPosition
<1>4. Pipe!Read <=> PipeP!Read
  BY DEF Pipe!Read, PipeP!Read, Pipe!Nread, PipeP!Nread, Pipe!BuffSize, PipeP!BuffSize
<1>5. Pipe!Nread = PipeP!Nread
  BY DEF Pipe!Nread, PipeP!Nread, Pipe!BuffSize, PipeP!BuffSize
<1>6. Pipe!Take <=> PipeP!Take
  BY <1>3, <1>4, <1>5 DEF Pipe!Take, PipeP!Take, Pipe!Whole, PipeP!Whole, Pipe!MsgSize, PipeP!MsgSize
<1>7. Pipe!Drop <=> PipeP!Drop
  BY <1>4, <1>5 DEF Pipe!Drop, PipeP!Drop, Pipe!Whole, PipeP!Whole, Pipe!MsgSize, PipeP!MsgSize
<1>8. Pipe!Applied <=> PipeP!Applied
  BY DEF Pipe!Applied, PipeP!Applied
<1> QED
  BY <1>1, <1>2, <1>3, <1>6, <1>7, <1>8

LEMMA SameCodec ==
  /\ \A k : Codec!SetParam(k) <=> CodecP!SetParam(k)
  /\ Codec!SetField <=> CodecP!SetField
  /\ Codec!SetRefresh <=> CodecP!SetRefresh
  /\ Codec!SendSteps <=> CodecP!SendSteps
<1> USE DEF Codec!convVars, CodecP!convVars, Codec!setVars, CodecP!setVars
<1>1. \A k : Codec!SetParam(k) <=> CodecP!SetParam(k)
  BY DEF Codec!SetParam, CodecP!SetParam
<1>2. Codec!SetField <=> CodecP!SetField
  BY DEF Codec!SetField, CodecP!SetField, Codec!Fields, CodecP!Fields, Codec!Dims, CodecP!Dims,
     Codec!Follows, CodecP!Follows
<1>3. Codec!SetRefresh <=> CodecP!SetRefresh
  BY DEF Codec!SetRefresh, CodecP!SetRefresh, Codec!MarkOverlap, CodecP!MarkOverlap
<1>4. Codec!SendSteps <=> CodecP!SendSteps
  BY DEF Codec!SendSteps, CodecP!SendSteps, Codec!ReadDim, CodecP!ReadDim,
     Codec!ReadHeight, CodecP!ReadHeight, Codec!ReadWidth, CodecP!ReadWidth,
     Codec!ReadHeightAgain, CodecP!ReadHeightAgain, Codec!ReadWidthAgain, CodecP!ReadWidthAgain,
     Codec!TestRefresh, CodecP!TestRefresh, Codec!Configure, CodecP!Configure,
     Codec!Clear, CodecP!Clear, Codec!Encode, CodecP!Encode
<1> QED
  BY <1>1, <1>2, <1>3, <1>4

(* The constants of ParamPath are what the halves assume of theirs.          *)
LEMMA Assumptions ==
  /\ PipeP!PipeAssumption /\ PipeP!SentAssumption
  /\ CodecP!MaxSettingAssumption /\ CodecP!LowRateAssumption
BY PathAssumption DEF PipeP!PipeAssumption, PipeP!SentAssumption, PipeP!MsgSize,
   CodecP!MaxSettingAssumption, CodecP!LowRateAssumption

(* Initially both threads of the child are before their first step.          *)
LEMMA InitIInv == Init => IInv
<1> SUFFICES ASSUME Init PROVE IInv
  OBVIOUS
<1>1. PipeP!IInv /\ CodecP!IInv
  BY SameInit, Assumptions, PipeP!InitIInv, CodecP!InitIInv DEF Init
<1>2. OneThread
  BY DEF Init, Pipe!Init, Codec!Init, Codec!Created, OneThread
<1> QED
  BY <1>1, <1>2 DEF IInv
(* Steps that leave one half alone.                                          *)
LEMMA PipeAlone == ASSUME PipeP!IInv, UNCHANGED pipe PROVE PipeP!IInv'
BY Assumptions, PipeP!StutterKeeps DEF pipe, PipeP!vars, PipeP!pipeVars, PipeP!readerVars, PipeP!writerVars

LEMMA CodecAlone == ASSUME CodecP!IInv, UNCHANGED child PROVE CodecP!IInv'
BY Assumptions, CodecP!StutterKeeps DEF child, CodecP!vars, CodecP!setVars, CodecP!convVars

(* A message handed to setParam is newer than the setting it replaces, and   *)
(* setParam is at rest (TdRtp.cpp:85-94).                                    *)
LEMMA HandsNewest ==
  ASSUME IInv, Hand
  PROVE  /\ PipeP!Take /\ CodecP!SetParam(sent)
         /\ sent \in Nat /\ sent > current /\ current \in Nat
         /\ taken' = taken \cup {sent} /\ current' = sent /\ UNCHANGED <<sent, encoder>>
<1>1. PipeP!Take /\ Codec!SetParam(Pipe!AtPosition)
  BY SamePipe DEF Hand
<1>2. /\ taken' = taken \cup {sent} /\ sent \in Nat /\ sent >= 1 /\ PipeP!AtPosition = sent
      /\ \A k \in taken : k < sent
  BY <1>1, Assumptions, PipeP!TakenIsNewest DEF IInv
<1>3. CodecP!SetParam(sent)
  BY <1>1, <1>2, SamePipe, SameCodec
<1>4. current' = sent /\ UNCHANGED <<sent, encoder>>
  BY <1>1, <1>3 DEF PipeP!Take, CodecP!SetParam, CodecP!convVars
<1>5. current \in Nat
  BY DEF IInv, CodecP!IInv, CodecP!TypeOK
<1>6. sent > current
  BY <1>2, <1>5 DEF IInv, OneThread
<1> QED
  BY <1>1, <1>2, <1>3, <1>4, <1>5, <1>6

(* Every step keeps the invariant.                                           *)
LEMMA NextKeeps ==
  ASSUME IInv, Next
  PROVE  IInv'
<1>1. ASSUME NEW t \in Threads, Pipe!Request(t) \/ Pipe!WriterSteps(t), UNCHANGED child
      PROVE  IInv'
  <2>1. PipeP!IInv'
    BY <1>1, SamePipe, Assumptions, PipeP!WritersKeep DEF IInv
  <2>2. UNCHANGED <<reader, taken>>
    BY <1>1 DEF Pipe!Request, Pipe!WriterSteps, Pipe!Write, Pipe!StoreRes, Pipe!StoreRate,
       Pipe!readerVars
  <2>3. OneThread'
    BY <1>1, <2>2 DEF IInv, OneThread, child
  <2> QED
    BY <1>1, <2>1, <2>3, CodecAlone DEF IInv
<1>2. CASE Hand
  <2>1. PipeP!IInv'
    BY <1>2, HandsNewest, Assumptions, PipeP!ReaderKeeps DEF IInv, PipeP!ReaderSteps
  <2>2. CodecP!IInv'
    BY <1>2, HandsNewest, Assumptions, CodecP!SetParamKeeps DEF IInv
  <2>3. reader' = "apply" /\ fifoPc' = "height"
    BY <1>2, HandsNewest DEF PipeP!Take, CodecP!SetParam
  <2>4. /\ taken \subseteq Nat /\ \A m \in taken : m <= current
        /\ sent \in Nat /\ current \in Nat /\ sent > current
    BY <1>2, HandsNewest DEF IInv, OneThread, PipeP!IInv, PipeP!TypeOK
  <2>5. \A m \in taken \cup {sent} : m <= sent
    BY <2>4
  <2>6. OneThread'
    BY <1>2, <2>3, <2>5, HandsNewest DEF OneThread
  <2> QED
    BY <2>1, <2>2, <2>6 DEF IInv
<1>3. CASE HandBack
  <2>1. PipeP!IInv'
    BY <1>3, SamePipe, Assumptions, PipeP!ReaderKeeps DEF IInv, HandBack, PipeP!ReaderSteps
  <2>2. CodecP!IInv'
    BY <1>3, SameCodec, Assumptions, CodecP!SetRefreshKeeps DEF IInv, HandBack
  <2>3. reader' = "read" /\ fifoPc' = "wait" /\ UNCHANGED <<taken, current>>
    BY <1>3 DEF HandBack, Pipe!Applied, Codec!SetRefresh
  <2>4. OneThread'
    BY <2>3 DEF IInv, OneThread
  <2> QED
    BY <2>1, <2>2, <2>4 DEF IInv
<1>4. CASE Pipe!Drop /\ UNCHANGED child
  <2>1. PipeP!IInv'
    BY <1>4, SamePipe, Assumptions, PipeP!ReaderKeeps DEF IInv, PipeP!ReaderSteps
  <2>2. OneThread'
    BY <1>4 DEF IInv, OneThread, child, Pipe!Drop, Pipe!readerVars
  <2> QED
    BY <1>4, <2>1, <2>2, CodecAlone DEF IInv
<1>5. CASE Codec!SetField /\ UNCHANGED pipe
  <2>1. CodecP!IInv'
    BY <1>5, SameCodec, Assumptions, CodecP!SetFieldKeeps DEF IInv
  <2>2. fifoPc # "wait" /\ fifoPc' # "wait" /\ current' = current
    BY <1>5 DEF Codec!SetField, Codec!Follows, Codec!Fields, Codec!Dims
  <2>3. OneThread'
    BY <1>5, <2>2 DEF IInv, OneThread, pipe
  <2> QED
    BY <1>5, <2>1, <2>3, PipeAlone DEF IInv
<1>6. CASE SendSteps
  <2>1. CodecP!IInv'
    BY <1>6, SameCodec, Assumptions, CodecP!StepsKeep DEF IInv, SendSteps
  <2>2. UNCHANGED pipe /\ UNCHANGED <<fifoPc, current>>
    BY <1>6 DEF SendSteps, Codec!SendSteps, Codec!ReadDim, Codec!ReadHeight, Codec!ReadWidth,
       Codec!ReadHeightAgain, Codec!ReadWidthAgain, Codec!TestRefresh, Codec!Configure,
       Codec!Clear, Codec!Encode, Codec!setVars
  <2>3. OneThread'
    BY <2>2 DEF IInv, OneThread, pipe
  <2> QED
    BY <2>1, <2>2, <2>3, PipeAlone DEF IInv
<1> QED
  BY <1>1, <1>2, <1>3, <1>4, <1>5, <1>6 DEF Next, FifoSteps, WriterSteps
LEMMA StutterKeeps == ASSUME IInv, UNCHANGED vars PROVE IInv'
<1>1. UNCHANGED pipe /\ UNCHANGED child
  BY DEF vars
<1>2. OneThread'
  BY <1>1 DEF IInv, OneThread, pipe, child
<1> QED
  BY <1>1, <1>2, PipeAlone, CodecAlone DEF IInv

LEMMA Inductive == Spec => []IInv
<1>1. IInv /\ [Next]_vars => IInv'
  BY NextKeeps, StutterKeeps
<1> QED
  BY InitIInv, <1>1, PTL DEF Spec

(* The first state of the channel is the promise's: nothing asked for, and   *)
(* the setting of createChannel everywhere.                                  *)
LEMMA InitPromise == Init => Promise!Init
BY DEF Init, Pipe!Init, Codec!Init, Codec!Created, Codec!Fields, Codec!Dims,
   Promise!Init, Promise!Params

(* setEncoderParam moves each parameter forward, to a setting setParam was   *)
(* given (TdH264.cpp:189-197).                                               *)
LEMMA ConfigureEnforces ==
  ASSUME IInv, Codec!Configure, UNCHANGED pipe
  PROVE  Promise!Enforce
<1>1. CodecP!Configure
  BY DEF Codec!Configure, CodecP!Configure, Codec!setVars, CodecP!setVars
<1>2. \A f \in CodecP!Fields : encoder'[f] >= encoder[f] /\ encoder'[f] <= current
  BY <1>1, Assumptions, CodecP!ConfigureForward DEF IInv
<1>3. CodecP!IInv'
  BY <1>1, Assumptions, CodecP!ConfigureKeeps DEF IInv
<1>4. encoder' \in [CodecP!Fields -> Nat]
  BY <1>3 DEF CodecP!IInv, CodecP!TypeOK
<1>5. CodecP!Fields = Promise!Params
  BY DEF CodecP!Fields, CodecP!Dims, Promise!Params
<1>6. current \in Nat
  BY DEF IInv, CodecP!IInv, CodecP!TypeOK
<1>7. encoder' \in [Promise!Params -> 0 .. current]
  BY <1>2, <1>4, <1>5, <1>6
<1>8. UNCHANGED <<sent, current>>
  BY DEF pipe, Codec!Configure, Codec!setVars
<1> QED
  BY <1>2, <1>5, <1>7, <1>8 DEF Promise!Enforce

(* Every step is one of the promise, or none.                                *)
LEMMA NextPromise ==
  ASSUME IInv, Next
  PROVE  [Promise!Next]_(Promise!vars)
<1> USE DEF Promise!vars
<1>1. ASSUME NEW t \in Threads, Pipe!Request(t) \/ Pipe!WriterSteps(t), UNCHANGED child
      PROVE  Promise!Ask \/ UNCHANGED <<sent, current, encoder>>
  BY <1>1 DEF Promise!Ask, Pipe!Request, Pipe!WriterSteps, Pipe!Write, Pipe!StoreRes,
     Pipe!StoreRate, Pipe!pipeVars, child
<1>2. CASE Hand
  BY <1>2, HandsNewest DEF Promise!Next, Promise!Give
<1>3. CASE HandBack \/ (Pipe!Drop /\ UNCHANGED child) \/ (Codec!SetField /\ UNCHANGED pipe)
  BY <1>3 DEF HandBack, Pipe!Applied, Codec!SetRefresh, Pipe!Drop, Codec!SetField,
     Pipe!pipeVars, Codec!convVars, child, pipe
<1>4. CASE SendSteps
  <2>1. CASE Codec!Configure
    BY <1>4, <2>1, ConfigureEnforces DEF SendSteps, Promise!Next
  <2>2. CASE ~Codec!Configure
    BY <1>4, <2>2 DEF SendSteps, Codec!SendSteps, Codec!ReadDim, Codec!ReadHeight,
       Codec!ReadWidth, Codec!ReadHeightAgain, Codec!ReadWidthAgain, Codec!TestRefresh,
       Codec!Clear, Codec!Encode, Codec!setVars, pipe
  <2> QED
    BY <2>1, <2>2
<1> QED
  BY <1>1, <1>2, <1>3, <1>4 DEF Next, FifoSteps, WriterSteps, Promise!Next

(* The whole way of the parameters, from the write of a request to the       *)
(* encoder, keeps the promise of EncoderSetting: settings may be skipped,    *)
(* but none is made up and none comes back (fifoMsg.cpp, TdRtp.cpp:83-97,    *)
(* TdCodec.cpp:14-32, TdH264.cpp:185-206).                                   *)
THEOREM Refines == Spec => PromiseKept
<1>1. IInv /\ [Next]_vars => [Promise!Next]_(Promise!vars)
  <2> SUFFICES ASSUME IInv, [Next]_vars PROVE [Promise!Next]_(Promise!vars)
    OBVIOUS
  <2>1. CASE Next
    BY <2>1, NextPromise
  <2>2. CASE UNCHANGED vars
    BY <2>2 DEF vars, pipe, child, Promise!vars
  <2> QED
    BY <2>1, <2>2
<1> QED
  BY Inductive, InitPromise, <1>1, PTL DEF Spec, PromiseKept, Promise!Spec
=============================================================================
