----------------------------- MODULE CodecParam -----------------------------
(* The codec's parameters in a child process: setParam on the thread that    *)
(* reads the FIFO, convert on the send thread.  They share the fields of     *)
(* TdCodecParam and the flag mIsRefresh, without a lock.                     *)
(*                                                                           *)
(* A setting is a number, 0 the one createChannel gives the child before its *)
(* threads start; a field holds the number of the setting it comes from.     *)
(* The bit rate is left out: the encoder is never told (TdH264.cpp:43,66).   *)
(* Settings are ones the encoder accepts: the result of InitializeExt is     *)
(* ignored (TdH264.cpp:68), and what openh264 does after a refusal is its    *)
(* own affair.                                                               *)
EXTENDS Naturals

CONSTANTS
  MaxSetting, \* bound: settings in a run
  LowRate     \* the settings whose rate is below 15: no other is taken over

ASSUME MaxSettingAssumption == MaxSetting \in Nat
ASSUME LowRateAssumption == LowRate \subseteq Nat

VARIABLES
  codec,      \* the fields of TdCodecParam
  mIsRefresh, \* the encoder has to be configured
  current,    \* the setting setParam is at, or was last
  fifoPc,     \* the FIFO thread: the field setParam sets next
  sendPc,     \* the send thread, in convert
  frame,      \* height and width of the picture in convert
  encoder,    \* the settings the encoder runs with
  ready,      \* the encoder has been configured at all
  overlapped  \* history: the settings whose refresh came while convert was at work

setVars  == <<codec, current, fifoPc, overlapped>>
convVars == <<frame, encoder, ready, sendPc>>
vars == <<setVars, convVars, mIsRefresh>>

Dims   == {"height", "width"}
Fields == Dims \cup {"rate"}

Created(refresh) ==
  /\ codec = [f \in Fields |-> 0] /\ mIsRefresh = refresh
  /\ current = 0 /\ fifoPc = "wait" /\ overlapped = {}
  /\ sendPc = "decode" /\ frame = [d \in Dims |-> 0]
  /\ encoder = [f \in Fields |-> 0] /\ ready = FALSE

(* Mutant: create() and setParam() leave the flag as it was built.           *)
InitNoRefresh == Created(FALSE)

Init == Created(TRUE)

-----------------------------------------------------------------------------
(* setParam, field by field.                                                 *)

SetParam(k) ==
  /\ fifoPc = "wait"
  /\ current' = k /\ fifoPc' = "height"
  /\ UNCHANGED <<codec, overlapped, convVars, mIsRefresh>>

Follows == [height |-> "width", width |-> "rate", rate |-> "refresh"]

(* Mutant: a rate that is out of range falls back to the first.              *)
SetFieldFallsBack ==
  /\ fifoPc \in Fields
  /\ codec' = [codec EXCEPT ![fifoPc] =
                 IF fifoPc = "rate" /\ current \notin LowRate THEN 0 ELSE current]
  /\ fifoPc' = Follows[fifoPc]
  /\ UNCHANGED <<current, overlapped, convVars, mIsRefresh>>

SetField ==
  /\ fifoPc \in Fields
  /\ codec' = IF fifoPc = "rate" /\ current \notin LowRate THEN codec
              ELSE [codec EXCEPT ![fifoPc] = current]
  /\ fifoPc' = Follows[fifoPc]
  /\ UNCHANGED <<current, overlapped, convVars, mIsRefresh>>

\* convert may still clear the flag without having read the current setting
MarkOverlap ==
  overlapped' = IF sendPc \in {"width", "test", "width again", "configure", "clear"}
                THEN overlapped \cup {current} ELSE overlapped

(* Mutant: the flag is raised only for a rate that is taken over.            *)
SetRefreshForRate ==
  /\ fifoPc = "refresh" /\ fifoPc' = "wait"
  /\ mIsRefresh' = (mIsRefresh \/ current \in LowRate) /\ MarkOverlap
  /\ UNCHANGED <<codec, current, convVars>>

SetRefresh ==
  /\ fifoPc = "refresh" /\ fifoPc' = "wait"
  /\ mIsRefresh' = TRUE /\ MarkOverlap
  /\ UNCHANGED <<codec, current, convVars>>

-----------------------------------------------------------------------------
(* convert, for each frame the decoder completes.                            *)

(* sendPc moves from one position to another and takes dimension d over.     *)
ReadDim(d, from, to) ==
  /\ sendPc = from /\ frame' = [frame EXCEPT ![d] = codec[d]] /\ sendPc' = to
  /\ UNCHANGED <<setVars, encoder, ready, mIsRefresh>>

ReadHeight == ReadDim("height", "decode", "width")
ReadWidth  == ReadDim("width", "width", "test")

(* The second read of the dimensions need not be in the object code: nothing *)
(* orders it against the first, and compilers merge the two.                 *)
TestRefresh ==
  /\ sendPc = "test"
  /\ \/ ~mIsRefresh /\ sendPc' = "encode"
     \/ mIsRefresh /\ sendPc' \in {"height again", "configure"}
  /\ UNCHANGED <<setVars, frame, encoder, ready, mIsRefresh>>

ReadHeightAgain == ReadDim("height", "height again", "width again")
ReadWidthAgain  == ReadDim("width", "width again", "configure")

(* Mutants: the encoder keeps its rate, and is left without one.             *)
ConfigureStale ==
  /\ sendPc = "configure" /\ sendPc' = "clear"
  /\ encoder' = [height |-> frame["height"], width |-> frame["width"], rate |-> encoder["rate"]]
  /\ ready' = TRUE
  /\ UNCHANGED <<setVars, frame, mIsRefresh>>

ConfigureNoRate ==
  /\ sendPc = "configure" /\ sendPc' = "clear"
  /\ encoder' = frame /\ ready' = TRUE
  /\ UNCHANGED <<setVars, frame, mIsRefresh>>

(* setEncoderParam                                                           *)
Configure ==
  /\ sendPc = "configure" /\ sendPc' = "clear"
  /\ encoder' = [height |-> frame["height"], width |-> frame["width"], rate |-> codec["rate"]]
  /\ ready' = TRUE
  /\ UNCHANGED <<setVars, frame, mIsRefresh>>

Clear ==
  /\ sendPc = "clear" /\ sendPc' = "encode" /\ mIsRefresh' = FALSE
  /\ UNCHANGED <<setVars, frame, encoder, ready>>

(* scale, setPicture and encode, with the dimensions of the frame.           *)
Encode ==
  /\ sendPc = "encode" /\ sendPc' = "decode"
  /\ UNCHANGED <<setVars, frame, encoder, ready, mIsRefresh>>

FifoSteps == SetField \/ SetRefresh
SendSteps == ReadHeight \/ ReadWidth \/ TestRefresh \/ ReadHeightAgain
             \/ ReadWidthAgain \/ Configure \/ Clear \/ Encode
Next == (\E k \in current + 1 .. MaxSetting : SetParam(k)) \/ FifoSteps \/ SendSteps

(* Settings come in their order, which ParamPath shows of the pipe.          *)
Spec == Init /\ [][Next]_vars

-----------------------------------------------------------------------------
(* Every variable has its type.                                              *)
TypeOK ==
  /\ codec \in [Fields -> Nat] /\ encoder \in [Fields -> Nat]
  /\ frame \in [Dims -> Nat] /\ current \in Nat
  /\ fifoPc \in Fields \cup {"wait", "refresh"}
  /\ sendPc \in {"decode", "width", "test", "height again", "width again",
                 "configure", "clear", "encode"}
  /\ mIsRefresh \in BOOLEAN /\ ready \in BOOLEAN /\ overlapped \subseteq Nat

(* No picture goes to an encoder that has not been configured: the flag that *)
(* create() raises is seen by the first frame (TdH264.cpp:189, 216).         *)
EncoderReady == sendPc = "encode" => ready

(* A picture whose size is not the encoder's is on its way only while a      *)
(* setting is: setParam is at work, its refresh is pending, or it overlapped *)
(* with convert (TdH264.cpp:186-205).                                        *)
MismatchIsTransient ==
  sendPc = "encode" /\ (\E d \in Dims : frame[d] # encoder[d])
    => fifoPc # "wait" \/ mIsRefresh \/ current \in overlapped

(* A setting is lost for the encoder only if its refresh was raised between  *)
(* convert's first read and its clearing of the flag; otherwise the encoder  *)
(* runs, once things are quiet, with what setParam left (TdH264.cpp:189-197).*)
LostOnlyInOverlap == fifoPc = "wait" /\ ~mIsRefresh => current \in overlapped \/ encoder = codec

(* The encoder never returns to a setting older than the one it runs with.   *)
EncoderForward == [][\A f \in Fields : encoder'[f] >= encoder[f]]_encoder

(* setParam sets the encoding parameters (TdRtp.cpp:94): when it has         *)
(* returned and no refresh is pending, the encoder runs with that size.      *)
SetIsInForce ==
  fifoPc = "wait" /\ ~mIsRefresh => \A d \in Dims : encoder[d] = codec[d]
=============================================================================
