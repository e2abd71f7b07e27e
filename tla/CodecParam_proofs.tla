------------------------- MODULE CodecParam_proofs -------------------------
(* What CodecParam promises, for any number of settings.  Two arguments: a   *)
(* setting flows one way, from setParam to the fields, to the frame, to the  *)
(* encoder, so numbers never decrease along that way; and unless its refresh *)
(* overlapped with convert, what convert has read of the current setting is  *)
(* what the fields hold now.                                                 *)
EXTENDS CodecParam, TLAPS

\* only convert lowers the flag, at the end of what it does when it is up
Held == sendPc \in {"height again", "width again", "configure", "clear"} => mIsRefresh

\* what has been read is what the fields hold
Fresh ==
  fifoPc = "wait" /\ current \notin overlapped =>
    /\ sendPc \in {"width", "test", "width again", "configure"}
         => frame["height"] = codec["height"]
    /\ sendPc \in {"test", "configure"} => frame["width"] = codec["width"]
    /\ sendPc = "clear" => encoder = codec

\* the encoder has just been configured for this very frame
Fits == sendPc = "clear" => \A d \in Dims : frame[d] = encoder[d]

Configured == ready \/ (mIsRefresh /\ sendPc \notin {"clear", "encode"})

\* the way of a setting
OneWay ==
  /\ \A f \in Fields : encoder[f] <= codec[f] /\ codec[f] <= current
  /\ \A d \in Dims : encoder[d] <= frame[d] /\ frame[d] <= codec[d]

IInv == TypeOK /\ Held /\ Fresh /\ Fits /\ Configured /\ OneWay
        /\ MismatchIsTransient /\ LostOnlyInOverlap

(* The state createChannel leaves to the threads (TdCodec::init, setParam).  *)
LEMMA InitIInv == Init => IInv
<1> SUFFICES ASSUME Init PROVE IInv
  OBVIOUS
<1> USE DEF Init, Created
<1>1. TypeOK
  BY DEF TypeOK, Fields
<1>2. OneWay
  BY DEF OneWay, Dims, Fields
<1>3. Held /\ Fits /\ Configured
  BY DEF Held, Fits, Configured
<1>4. Fresh /\ MismatchIsTransient /\ LostOnlyInOverlap
  BY DEF Fresh, MismatchIsTransient, LostOnlyInOverlap
<1> QED
  BY <1>1, <1>2, <1>3, <1>4 DEF IInv

(* setParam keeps the invariant, whatever newer setting it is given.         *)
LEMMA SetParamKeeps ==
  ASSUME IInv, NEW k \in Nat, k > current, SetParam(k)
  PROVE  IInv'
<1> USE DEF SetParam, convVars
<1>1. TypeOK'
  BY DEF IInv, TypeOK, Fields, Dims
<1>2. OneWay'
  <2>1. \A f \in Fields : codec[f] \in Nat /\ codec[f] <= current
    BY DEF IInv, TypeOK, OneWay
  <2>2. current \in Nat /\ k > current
    BY DEF IInv, TypeOK
  <2>3. \A f \in Fields : codec[f] <= k
    BY <2>1, <2>2
  <2> QED
    BY <2>3 DEF IInv, OneWay
<1>3. (Held /\ Fits /\ Configured)'
  BY DEF IInv, Held, Fits, Configured
<1>4. (Fresh /\ MismatchIsTransient /\ LostOnlyInOverlap)'
  BY DEF Fresh, MismatchIsTransient, LostOnlyInOverlap
<1> QED
  BY <1>1, <1>2, <1>3, <1>4 DEF IInv

LEMMA SetFieldKeeps ==
  ASSUME IInv, SetField
  PROVE  IInv'
<1> USE DEF SetField, convVars
<1>1. /\ codec \in [Fields -> Nat] /\ current \in Nat /\ fifoPc \in Fields
      /\ \A f \in Fields : codec'[f] = codec[f] \/ codec'[f] = current
      /\ codec' \in [Fields -> Nat]
  BY DEF IInv, TypeOK
<1>2. fifoPc' \in {"width", "rate", "refresh"}
  BY <1>1 DEF Follows, Fields, Dims
<1>3. TypeOK'
  BY <1>1, <1>2 DEF IInv, TypeOK, Fields, Dims
<1>4. OneWay'
  <2>1. \A f \in Fields : codec[f] \in Nat /\ encoder[f] \in Nat /\ codec[f] <= current
                           /\ encoder[f] <= codec[f]
    BY DEF IInv, TypeOK, OneWay
  <2>2. \A d \in Dims : frame[d] \in Nat /\ frame[d] <= codec[d] /\ encoder[d] <= frame[d]
                         /\ d \in Fields
    BY DEF IInv, TypeOK, OneWay, Fields
  <2>3. \A f \in Fields : encoder[f] <= codec'[f] /\ codec'[f] <= current
    BY <1>1, <2>1
  <2>4. \A d \in Dims : frame[d] <= codec'[d]
    BY <1>1, <2>1, <2>2
  <2> QED
    BY <2>2, <2>3, <2>4 DEF OneWay
<1>5. (Held /\ Fits /\ Configured)'
  BY DEF IInv, Held, Fits, Configured
<1>6. (Fresh /\ MismatchIsTransient /\ LostOnlyInOverlap)'
  BY <1>2 DEF Fresh, MismatchIsTransient, LostOnlyInOverlap
<1> QED
  BY <1>3, <1>4, <1>5, <1>6 DEF IInv

LEMMA SetRefreshKeeps ==
  ASSUME IInv, SetRefresh
  PROVE  IInv'
<1> USE DEF SetRefresh, convVars
<1>1. TypeOK'
  BY DEF IInv, TypeOK, MarkOverlap
<1>2. OneWay'
  BY DEF IInv, OneWay
<1>3. (Held /\ Fits /\ Configured)'
  BY DEF IInv, Held, Fits, Configured
<1>4. Fresh'
  BY DEF Fresh, MarkOverlap
<1>5. (MismatchIsTransient /\ LostOnlyInOverlap)'
  BY DEF MismatchIsTransient, LostOnlyInOverlap
<1> QED
  BY <1>1, <1>2, <1>3, <1>4, <1>5 DEF IInv

(* The reads of the dimensions keep the invariant.                           *)
LEMMA ReadsKeep ==
  ASSUME IInv, ReadHeight \/ ReadWidth \/ ReadHeightAgain \/ ReadWidthAgain
  PROVE  IInv'
<1> DEFINE Reads(d) == frame' = [frame EXCEPT ![d] = codec[d]]
<1>0. /\ Reads("height") \/ Reads("width")
      /\ UNCHANGED <<codec, current, encoder>>
  BY DEF ReadHeight, ReadWidth, ReadHeightAgain, ReadWidthAgain, ReadDim, setVars
<1>1. TypeOK'
  BY DEF ReadHeight, ReadWidth, ReadHeightAgain, ReadWidthAgain, ReadDim, setVars,
     IInv, TypeOK, Dims, Fields
<1>2. OneWay'
  <2>1. \A d \in Dims : /\ codec[d] \in Nat /\ frame[d] \in Nat /\ encoder[d] \in Nat
                         /\ encoder[d] <= frame[d] /\ frame[d] <= codec[d]
    BY DEF IInv, TypeOK, OneWay, Fields
  <2>2. \A d \in Dims : frame'[d] = frame[d] \/ frame'[d] = codec[d]
    BY <1>0 DEF IInv, TypeOK
  <2>3. ASSUME NEW d \in Dims PROVE encoder[d] <= frame'[d] /\ frame'[d] <= codec[d]
    <3>1. CASE frame'[d] = frame[d]
      BY <2>1, <3>1
    <3>2. CASE frame'[d] = codec[d]
      <4>1. /\ codec[d] \in Nat /\ frame[d] \in Nat /\ encoder[d] \in Nat
            /\ encoder[d] <= frame[d] /\ frame[d] <= codec[d]
        BY <2>1
      <4>2. encoder[d] <= codec[d] /\ codec[d] <= codec[d]
        BY <4>1
      <4> QED
        BY <3>2, <4>2
    <3> QED
      BY <2>2, <3>1, <3>2
  <2> QED
    BY <1>0, <2>3 DEF IInv, OneWay
<1>3. (Held /\ Fits /\ Configured)'
  BY DEF IInv, Held, Fits, Configured,
     ReadHeight, ReadWidth, ReadHeightAgain, ReadWidthAgain, ReadDim, setVars
<1>4. Fresh'
  <2> SUFFICES ASSUME fifoPc = "wait", current \notin overlapped
               PROVE  /\ sendPc' \in {"width", "test", "width again", "configure"}
                           => frame'["height"] = codec["height"]
                      /\ sendPc' \in {"test", "configure"} => frame'["width"] = codec["width"]
                      /\ sendPc' # "clear"
    BY DEF Fresh,
       ReadHeight, ReadWidth, ReadHeightAgain, ReadWidthAgain, ReadDim, setVars
  <2>1. sendPc \in {"width", "width again"} => frame["height"] = codec["height"]
    BY DEF IInv, Fresh
  <2>2. frame \in [Dims -> Nat]
    BY DEF IInv, TypeOK
  <2> QED
    BY <2>1, <2>2 DEF Dims, ReadHeight, ReadWidth, ReadHeightAgain, ReadWidthAgain, ReadDim
<1>5. (MismatchIsTransient /\ LostOnlyInOverlap)'
  BY DEF IInv, MismatchIsTransient, LostOnlyInOverlap,
     ReadHeight, ReadWidth, ReadHeightAgain, ReadWidthAgain, ReadDim, setVars
<1> QED
  BY <1>1, <1>2, <1>3, <1>4, <1>5 DEF IInv

LEMMA TestRefreshKeeps ==
  ASSUME IInv, TestRefresh
  PROVE  IInv'
<1> USE DEF TestRefresh, setVars
<1>1. TypeOK'
  BY DEF IInv, TypeOK
<1>2. (OneWay /\ Held /\ Fits /\ Configured)'
  BY DEF IInv, OneWay, Held, Fits, Configured
<1>3. Fresh'
  BY DEF IInv, Fresh
<1>4. MismatchIsTransient'
  BY DEF IInv, MismatchIsTransient, LostOnlyInOverlap, Fresh, Dims
<1>5. LostOnlyInOverlap'
  BY DEF IInv, LostOnlyInOverlap
<1> QED
  BY <1>1, <1>2, <1>3, <1>4, <1>5 DEF IInv

LEMMA ConfigureKeeps ==
  ASSUME IInv, Configure
  PROVE  IInv'
<1> USE DEF Configure, setVars
<1>1. TypeOK'
  BY DEF IInv, TypeOK, Dims, Fields
<1>2. OneWay'
  BY DEF IInv, TypeOK, OneWay, Dims, Fields
<1>3. (Held /\ Fits /\ Configured)'
  BY DEF IInv, TypeOK, Held, Fits, Configured, Dims
<1>4. Fresh'
  <2> SUFFICES ASSUME fifoPc = "wait", current \notin overlapped PROVE encoder' = codec
    BY DEF Fresh
  <2>1. frame["height"] = codec["height"] /\ frame["width"] = codec["width"]
    BY DEF IInv, Fresh
  <2> QED
    BY <2>1 DEF IInv, TypeOK, Fields, Dims
<1>5. (MismatchIsTransient /\ LostOnlyInOverlap)'
  BY DEF IInv, Held, MismatchIsTransient, LostOnlyInOverlap
<1> QED
  BY <1>1, <1>2, <1>3, <1>4, <1>5 DEF IInv

LEMMA ClearKeeps ==
  ASSUME IInv, Clear
  PROVE  IInv'
<1> USE DEF Clear, setVars
<1>1. TypeOK'
  BY DEF IInv, TypeOK
<1>2. (OneWay /\ Held /\ Fits /\ Fresh)'
  BY DEF IInv, OneWay, Held, Fits, Fresh
<1>3. Configured'
  BY DEF IInv, Configured
<1>4. MismatchIsTransient'
  BY DEF IInv, Fits, MismatchIsTransient
<1>5. LostOnlyInOverlap'
  BY DEF IInv, Fresh, LostOnlyInOverlap
<1> QED
  BY <1>1, <1>2, <1>3, <1>4, <1>5 DEF IInv

LEMMA EncodeKeeps ==
  ASSUME IInv, Encode
  PROVE  IInv'
BY DEF Encode, setVars, IInv, TypeOK, OneWay, Held, Fits, Fresh, Configured,
   MismatchIsTransient, LostOnlyInOverlap

LEMMA StutterKeeps ==
  ASSUME IInv, UNCHANGED vars
  PROVE  IInv'
BY DEF vars, setVars, convVars, IInv, TypeOK, OneWay, Held, Fits, Fresh, Configured,
   MismatchIsTransient, LostOnlyInOverlap

(* The FIFO thread and the send thread keep the invariant.                   *)
LEMMA StepsKeep ==
  ASSUME IInv, FifoSteps \/ SendSteps
  PROVE  IInv'
BY SetFieldKeeps, SetRefreshKeeps, ReadsKeep, TestRefreshKeeps, ConfigureKeeps,
   ClearKeeps, EncodeKeeps DEF FifoSteps, SendSteps

(* The invariant is inductive (TdCodec.cpp:14-32 with TdH264.cpp:185-206).   *)
LEMMA Inductive == Spec => []IInv
<1>1. IInv /\ [Next]_vars => IInv'
  <2>1. ASSUME IInv PROVE \A k \in current + 1 .. MaxSetting : k \in Nat /\ k > current
    <3>1. current \in Nat
      BY <2>1 DEF IInv, TypeOK
    <3> QED
      BY <3>1, MaxSettingAssumption
  <2> QED
    BY <2>1, SetParamKeeps, StepsKeep, StutterKeeps DEF Next
<1> QED
  BY InitIInv, <1>1, PTL DEF Spec

(* What the encoder runs with only ever moves forward: each way a setting    *)
(* reaches it passes Configure, whose frame is not older (TdH264.cpp:193).   *)
LEMMA ConfigureForward ==
  ASSUME IInv, Configure
  PROVE  \A f \in Fields : encoder'[f] >= encoder[f] /\ encoder'[f] <= current
BY DEF IInv, TypeOK, OneWay, Configure, Fields, Dims

(* The variables keep their types (TdCodecParam.h:3-52).                     *)
THEOREM TypeCorrect == Spec => []TypeOK
<1>1. IInv => TypeOK
  BY DEF IInv
<1> QED
  BY Inductive, <1>1, PTL

(* The first frame configures the encoder (TdH264.cpp:189-197, 212-216).     *)
THEOREM AlwaysReady == Spec => []EncoderReady
<1>1. IInv => EncoderReady
  BY DEF IInv, Configured, EncoderReady
<1> QED
  BY Inductive, <1>1, PTL

(* A picture that does not fit the encoder is a passing thing, unless a      *)
(* refresh was lost (TdH264.cpp:186-205).                                    *)
THEOREM MismatchPasses == Spec => []MismatchIsTransient
<1>1. IInv => MismatchIsTransient
  BY DEF IInv
<1> QED
  BY Inductive, <1>1, PTL

(* A refresh is lost only if raised while convert was at work between its    *)
(* first read and its clearing of the flag (TdH264.cpp:186-196).             *)
THEOREM LostOnlyByOverlap == Spec => []LostOnlyInOverlap
<1>1. IInv => LostOnlyInOverlap
  BY DEF IInv
<1> QED
  BY Inductive, <1>1, PTL

(* No setting replaces a newer one in the encoder (TdH264.cpp:35-73).        *)
THEOREM NeverBack == Spec => EncoderForward
<1> DEFINE Forward == \A f \in Fields : encoder'[f] >= encoder[f]
<1>1. IInv /\ [Next]_vars => [Forward]_encoder
  <2> SUFFICES ASSUME IInv, Next, encoder' # encoder PROVE Forward
    BY DEF vars, convVars
  <2>1. Configure
    BY DEF Next, SetParam, FifoSteps, SetField, SetRefresh, SendSteps, ReadHeight, ReadWidth,
       ReadHeightAgain, ReadWidthAgain, ReadDim, TestRefresh, Clear, Encode, convVars
  <2> QED
    BY <2>1, ConfigureForward
<1> QED
  BY Inductive, <1>1, PTL DEF Spec, EncoderForward
=============================================================================
