------------------------ MODULE Registration_proofs ------------------------
(* Safety of Registration for any number of HTTP threads, settings, crashes  *)
(* and events.                                                               *)
EXTENDS Registration, SequenceTheorems, TLAPS

-----------------------------------------------------------------------------
(* Typing.  It needs to know where a thread can be, and that to_sip has been *)
(* stored when a registration is built from it.                              *)

Saving     == Fields \cup {"truncate", "write", "emit"}
Modifying  == {"read", "assign", "reset", "build"}
Places     == Saving \cup Modifying
              \cup {"load", "start", "listen", "guess", "modify", "serve", "idle"}

ConfType == conf \in Conf /\ file \in File \cup {None} /\ mine \in [Threads -> Conf]
PcType ==
  /\ pc \in [Threads -> Places]
  /\ pc[Main] \in {"load", "truncate", "write", "start", "listen", "guess", "modify", "serve"}
                    \cup Modifying
  /\ \A t \in Http : pc[t] \in {"idle"} \cup Saving \cup Modifying
CallType == req \in [Http -> 0 .. last] /\ last \in Nat /\ answered \in 0 .. last
SipType ==
  /\ to_sip \in Uris \cup {None}
  /\ \A t \in Threads : pc[t] \in {"reset", "build"} => to_sip # None
RegsType == register_id \in DOMAIN regs \cup {-1, Error} /\ regs \in Seq(Registration)
EventType ==
  auth \in Int \cup {None} /\ events \in Seq({0, 200, 401}) /\ heartbeat \in {"sleep", "build"}
FromType ==
  local_ip \in BOOLEAN /\ from_sip \in BOOLEAN /\ seen \in [Threads -> BOOLEAN]
FlagType ==
  /\ listening \in BOOLEAN /\ is_register \in BOOLEAN /\ torn \in BOOLEAN
  /\ clash \in BOOLEAN /\ crossed \in BOOLEAN /\ moved \in BOOLEAN
TypeInv ==
  /\ ConfType /\ PcType /\ CallType /\ SipType /\ RegsType /\ EventType /\ FromType
  /\ FlagType

-----------------------------------------------------------------------------
(* The strengthening.  Who is where: before the HTTP server is started there *)
(* are no requests, modifyRegister runs only when its listener is there, and *)
(* while nothing overlaps, one request is under way and one modifyRegister.  *)
Placed ==
  /\ listening <=> pc[Main] \in {"guess", "modify", "serve"} \cup Modifying
  /\ ~Serving => \A t \in Http : pc[t] = "idle"
  /\ \A t \in Threads : InModify(t) => listening
OneRequest == ~clash => \A t, u \in Http : Busy(t) /\ Busy(u) => t = u
OneModify  == ~clash => \A t, u \in Threads : InModify(t) /\ InModify(u) => t = u

Calm    == \A t \in Threads : ~InModify(t)
Settled == pc[Main] = "serve" /\ Calm

(* From Remove to Build the device has no registration; then it has one, or  *)
(* the error of eXosip.                                                      *)
OldRemoved ==
  ~clash => \A r \in DOMAIN regs : r # register_id => regs[r].state = "removed"
NoneYet == ~clash => \A t \in Threads : InModify(t) => register_id \in {-1, Error}
NewBuilt ==
  ~clash /\ Calm /\ register_id \in DOMAIN regs =>
    /\ regs[register_id].uri = to_sip /\ regs[register_id].from = from_sip
    /\ regs[register_id].state # "removed"
Tried == ~clash /\ Settled => register_id # -1

(* When the main thread has come to modifyRegister, local_ip is guessed, and *)
(* who builds a registration has read it.                                    *)
Started == pc[Main] \in {"serve"} \cup Modifying
Guessed == pc[Main] \in {"modify"} \/ Started => local_ip
SeenGuessed ==
  ~clash /\ Started =>
    /\ \A t \in Threads : pc[t] = "assign" => seen[t]
    /\ \A t \in Threads : pc[t] \in {"reset", "build"} => from_sip
    /\ Settled => from_sip

(* A request that has not come to modifyRegister yet will bring to_sip up to *)
(* date; where there is none, it is.                                         *)
Coming == \E t \in Http : pc[t] \in Saving
ReadIsConf ==
  ~clash => \A t \in Threads : pc[t] = "assign" => Uri(mine[t]) = Uri(conf) \/ Coming
AssignedIsConf ==
  ~clash => \A t \in Threads : pc[t] \in {"reset", "build"} => to_sip = Uri(conf) \/ Coming
SettledIsConf == ~clash /\ Settled => to_sip = Uri(conf) \/ Coming

PlaceInv == Placed /\ OneModify
RegInv  == OldRemoved /\ NoneYet /\ NewBuilt /\ Tried
FromInv == Guessed /\ SeenGuessed
ConfInv == ReadIsConf /\ AssignedIsConf /\ SettledIsConf

(* What the file may hold, and that a request sets the fields one by one,    *)
(* saves them, and is the last when it returns.                              *)
FirstStart ==
  /\ file = None => last = 0 /\ pc[Main] \in {"load", "truncate"}
  /\ pc[Main] \in {"load", "truncate", "write"} => conf = Whole(0)
  /\ pc[Main] = "write" => mine[Main] = Whole(0)
Overwriting ==
  ~clash /\ ~torn /\ pc[Main] \in {"truncate", "write"} =>
    last = 0 \/ \E k \in answered .. last : k \in Unparsable
Latest == ~clash => \A t \in Http : Busy(t) => req[t] = last
FieldsSet ==
  ~clash => \A t \in Http :
    /\ pc[t] \in {"SipServerPort", "SipPassWd", "truncate"} => conf["SipServerIp"] = req[t]
    /\ pc[t] \in {"SipPassWd", "truncate"} => conf["SipServerPort"] = req[t]
    /\ pc[t] = "truncate" => conf["SipPassWd"] = req[t]
    /\ pc[t] = "write" => Kept(mine[t]) = Kept(Whole(req[t]))
Saved ==
  ~clash => \A t \in Http : pc[t] \in {"emit"} \cup Modifying => file = Kept(Whole(req[t]))
FileIsWhole ==
  ~clash /\ ~torn =>
    \/ file = None
    \/ \E k \in answered .. last :
         file = Kept(Whole(k)) \/ (k \in Unparsable /\ file = Kept(Whole(0)))
    \/ file = Torn /\ \E t \in Threads : pc[t] = "write"

CallInv == OneRequest /\ Latest
SaveInv == FieldsSet /\ Saved
FileInv ==
  /\ Placed /\ FirstStart /\ CallInv /\ SaveInv /\ FileIsWhole /\ Overwriting
  /\ RestartIsWhole

-----------------------------------------------------------------------------
LEMMA Names ==
  /\ Main \in Threads /\ Http \subseteq Threads /\ Main \notin Http
  /\ \A t \in Threads : t = Main \/ t \in Http
  /\ None \notin File /\ None \notin Int /\ None \notin Uris
  /\ Fields = {"ServerSipDomain", "SipServerIp", "SipServerPort", "SipPassWd"}
  /\ Places = {"ServerSipDomain", "SipServerIp", "SipServerPort", "SipPassWd", "truncate",
               "write", "emit", "read", "assign", "reset", "build", "load", "start", "listen",
               "guess", "modify", "serve", "idle"}
BY ThreadAssumption, NoneAssumption DEF Threads, Fields, Places, Saving, Modifying

(* Whole is a configuration, what is saved of one and Torn are files, and    *)
(* what Load makes of a file is a configuration; its address is one.         *)
LEMMA Confs ==
  /\ \A k \in Int : Whole(k) \in Conf
  /\ \A c \in Conf : Kept(c) \in File /\ Uri(c) \in Uris
  /\ Torn \in File
  /\ \A s \in File : Loaded(s) \in Conf
<1>1. \A k \in Int : Whole(k) \in Conf
  BY DEF Whole, Conf
<1>2. ASSUME NEW c \in Conf PROVE Kept(c) \in File /\ Uri(c) \in Uris
  BY DEF Kept, File, Conf, Uri, Uris, Fields, InFile
<1>3. Torn \in File
  <2>1. Kept(Whole(0)) \in File
    BY <1>1, <1>2
  <2> QED BY <2>1 DEF Torn, Zero, File, InFile
<1>4. ASSUME NEW s \in File PROVE Loaded(s) \in Conf
  <2>1. \A f \in Fields : Loaded(s)[f] \in Int
    BY DEF Loaded, File, Cut, Fields, InFile
  <2> QED BY <2>1 DEF Loaded, Conf
<1> QED BY <1>1, <1>2, <1>3, <1>4

LEMMA TypeInit == Init => TypeInv
<1> SUFFICES ASSUME Init PROVE TypeInv
  OBVIOUS
<1>1. ConfType
  BY Confs DEF Init, ConfType
<1>2. PcType /\ SipType
  BY Names DEF Init, PcType, SipType
<1>3. CallType /\ RegsType /\ EventType
  BY DEF Init, CallType, RegsType, EventType
<1>4. FlagType /\ FromType
  BY DEF Init, FlagType, FromType
<1> QED BY <1>1, <1>2, <1>3, <1>4 DEF TypeInv

LEMMA ConfTypeStep == ASSUME TypeInv, [Next]_vars PROVE ConfType'
<1> USE Names DEF TypeInv, ConfType, confVars, callVars
<1>1. ASSUME NEW t \in Threads, SetField(t) PROVE ConfType'
  <2>1. t \in Http
    BY <1>1 DEF SetField, PcType, Modifying
  <2>2. req[t] \in Int
    BY <2>1 DEF CallType
  <2> QED BY <1>1, <2>2 DEF SetField, Conf
<1>2. ASSUME NEW t \in Threads, Truncate(t) \/ Write(t) \/ Read(t) PROVE ConfType'
  BY <1>2, Confs DEF Truncate, Write, Read
<1>3. CASE LoadConfig
  BY <1>3, Confs DEF LoadConfig, Parses
<1>5. CASE Crash
  BY <1>5, Confs DEF Crash, Volatile
<1>4. CASE UNCHANGED confVars /\ UNCHANGED mine
  BY <1>4
<1> QED
  BY <1>1, <1>2, <1>3, <1>4, <1>5
  DEF Next, vars, ThreadSteps, MainSteps, ServerSteps, Request, EmitUnheard, Remove, Assign,
      Reset, Build, BuildFails, Return, LoadFails, Start, Listen, Guess, Succeeded, Failed,
      Unanswered, Heartbeat, Beat, Challenge, Accept, Refuse, Timeout, Resend

LEMMA PcTypeStep == ASSUME TypeInv, [Next]_vars PROVE PcType'
<1> USE Names DEF TypeInv, PcType, Goto, Saving, Modifying
<1>1. ASSUME NEW t \in Http, Request(t) PROVE PcType'
  BY <1>1 DEF Request
<1>2. ASSUME NEW t \in Threads, SetField(t) PROVE PcType'
  BY <1>2 DEF SetField, Follows
<1>3. ASSUME NEW t \in Threads, Truncate(t) \/ Write(t) PROVE PcType'
  BY <1>3 DEF Truncate, Write
<1>4. ASSUME NEW t \in Threads, EmitUnheard(t) \/ Remove(t) PROVE PcType'
  BY <1>4 DEF EmitUnheard, Remove
<1>5. ASSUME NEW t \in Threads, Read(t) \/ Assign(t) \/ Reset(t) \/ Build(t) \/ BuildFails(t)
      PROVE  PcType'
  BY <1>5 DEF Read, Assign, Reset, Build, BuildFails, Return
<1>6. CASE LoadConfig \/ LoadFails \/ Start \/ Listen \/ Guess
  BY <1>6 DEF LoadConfig, LoadFails, Start, Listen, Guess
<1>7. CASE Crash
  BY <1>7 DEF Crash, Volatile
<1>8. CASE UNCHANGED pc
  BY <1>8
<1> QED
  BY <1>1, <1>2, <1>3, <1>4, <1>5, <1>6, <1>7, <1>8
  DEF Next, vars, ThreadSteps, MainSteps, ServerSteps, Succeeded, Failed, Unanswered, Heartbeat,
      Beat, Challenge, Accept, Refuse, Timeout, Resend

LEMMA CallTypeStep == ASSUME TypeInv, [Next]_vars PROVE CallType'
<1> USE Names DEF TypeInv, CallType
<1>1. ASSUME NEW t \in Http, Request(t) PROVE CallType'
  BY <1>1 DEF Request
<1>2. ASSUME NEW t \in Threads, EmitUnheard(t) \/ Build(t) \/ BuildFails(t) PROVE CallType'
  BY <1>2 DEF EmitUnheard, Build, BuildFails, Return, Answer
<1>3. CASE UNCHANGED <<req, last, answered>>
  BY <1>3
<1> QED
  BY <1>1, <1>2, <1>3
  DEF Next, vars, ThreadSteps, MainSteps, ServerSteps, SetField, Truncate, Write, Remove, Read,
      Assign, Reset, LoadConfig, LoadFails, Start, Listen, Guess, Succeeded, Failed, Unanswered,
      Heartbeat, Beat, Crash, Challenge, Accept, Refuse, Timeout, Resend, callVars

LEMMA SipTypeStep == ASSUME TypeInv, [Next]_vars PROVE SipType'
<1> USE Names DEF TypeInv, PcType, SipType, Goto
<1>1. ASSUME NEW t \in Threads, Assign(t) PROVE SipType'
  BY <1>1, Confs DEF Assign, ConfType
<1>2. ASSUME NEW t \in Threads, Reset(t) \/ Build(t) \/ BuildFails(t) PROVE SipType'
  BY <1>2 DEF Reset, Build, BuildFails, Return
<1>3. ASSUME NEW t \in Threads, SetField(t) PROVE SipType'
  BY <1>3 DEF SetField, Follows, sipVars
<1>4. ASSUME NEW t \in Threads,
             Truncate(t) \/ Write(t) \/ EmitUnheard(t) \/ Remove(t) \/ Read(t)
      PROVE  SipType'
  BY <1>4 DEF Truncate, Write, EmitUnheard, Remove, Read, sipVars
<1>5. ASSUME NEW t \in Http, Request(t) PROVE SipType'
  BY <1>5 DEF Request, sipVars
<1>6. CASE LoadConfig \/ LoadFails \/ Start \/ Listen \/ Guess
  BY <1>6 DEF LoadConfig, LoadFails, Start, Listen, Guess, sipVars
<1>7. CASE Crash
  BY <1>7 DEF Crash, Volatile
<1>8. CASE UNCHANGED <<to_sip, pc>>
  BY <1>8
<1> QED
  BY <1>1, <1>2, <1>3, <1>4, <1>5, <1>6, <1>7, <1>8
  DEF Next, vars, ThreadSteps, MainSteps, ServerSteps, Succeeded, Failed, Unanswered, Heartbeat,
      Beat, Challenge, Accept, Refuse, Timeout, Resend, sipVars

(* A step of a server or of eXosip changes the state of a registration that  *)
(* was not removed, and does not remove it or forget that it was accepted.   *)
FromServer(r) == Challenge(r) \/ Accept(r) \/ Refuse(r) \/ Timeout(r) \/ Resend(r)

LEMMA ServerStep ==
  ASSUME TypeInv, NEW r, FromServer(r)
  PROVE  /\ r \in DOMAIN regs /\ regs[r].state # "removed"
         /\ \E g \in Registration :
              /\ regs' = [regs EXCEPT ![r] = g]
              /\ g.uri = regs[r].uri /\ g.from = regs[r].from
              /\ g.state # "removed" /\ (regs[r].was => g.was)
<1> USE DEF FromServer, TypeInv, RegsType
<1>1. r \in DOMAIN regs /\ regs[r].state # "removed"
  BY DEF Challenge, Accept, Refuse, Timeout, Resend, In
<1>2. regs[r] \in Registration
  BY <1>1
<1>3. CASE Challenge(r) \/ Refuse(r) \/ Timeout(r)
  <2> DEFINE g == [regs[r] EXCEPT !.state = "failed"]
  <2>1. regs' = [regs EXCEPT ![r] = g]
    BY <1>3 DEF Challenge, Refuse, Timeout, To
  <2>2. /\ g \in Registration /\ g.uri = regs[r].uri /\ g.from = regs[r].from
        /\ g.state = "failed" /\ g.was = regs[r].was
    BY <1>2 DEF Registration
  <2> QED BY <1>1, <2>1, <2>2
<1>4. CASE Accept(r)
  <2> DEFINE g == [regs[r] EXCEPT !.state = "ok", !.was = TRUE]
  <2>1. regs' = [regs EXCEPT ![r] = g]
    BY <1>4, <1>1, <1>2 DEF Accept, Registration
  <2>2. /\ g \in Registration /\ g.uri = regs[r].uri /\ g.from = regs[r].from
        /\ g.state = "ok" /\ g.was
    BY <1>2 DEF Registration
  <2> QED BY <1>1, <2>1, <2>2
<1>5. CASE Resend(r)
  <2> DEFINE g == [regs[r] EXCEPT !.state = "sent", !.with = auth]
  <2>1. regs' = [regs EXCEPT ![r] = g]
    BY <1>5, <1>1, <1>2 DEF Resend, Registration
  <2>2. /\ g \in Registration /\ g.uri = regs[r].uri /\ g.from = regs[r].from
        /\ g.state = "sent" /\ g.was = regs[r].was
    BY <1>2 DEF Registration, EventType
  <2> QED BY <1>1, <2>1, <2>2
<1> QED BY <1>3, <1>4, <1>5

(* Remove marks what the device has, and Build appends to it.                *)
LEMMA RemoveStep ==
  ASSUME TypeInv, NEW t, Remove(t)
  PROVE  /\ DOMAIN regs' = DOMAIN regs /\ regs' \in Seq(Registration)
         /\ register_id' \in {-1, Error}
         /\ \A r \in DOMAIN regs :
              /\ r = register_id \/ regs[r].state = "removed" => regs'[r].state = "removed"
              /\ regs'[r].uri = regs[r].uri /\ regs'[r].was = regs[r].was
<1> USE DEF TypeInv, RegsType
<1> DEFINE g(r) == IF r = register_id THEN [regs[r] EXCEPT !.state = "removed"] ELSE regs[r]
<1>1. regs' = [r \in DOMAIN regs |-> g(r)] /\ register_id' \in {-1, Error}
  BY DEF Remove, Error
<1>2. \A r \in DOMAIN regs : g(r) \in Registration
  <2> TAKE r \in DOMAIN regs
  <2>1. regs[r] \in Registration
    OBVIOUS
  <2> QED BY <2>1 DEF Registration
<1>3. ASSUME NEW r \in DOMAIN regs
      PROVE  /\ r = register_id \/ regs[r].state = "removed" => g(r).state = "removed"
             /\ g(r).uri = regs[r].uri /\ g(r).was = regs[r].was
  <2>1. regs[r] \in Registration
    OBVIOUS
  <2> QED BY <2>1 DEF Registration
<1>4. DOMAIN regs = 1 .. Len(regs) /\ Len(regs) \in Nat
  OBVIOUS
<1> HIDE DEF g
<1>5. [r \in 1 .. Len(regs) |-> g(r)] \in Seq(Registration)
  BY <1>2, <1>4
<1> QED BY <1>1, <1>3, <1>4, <1>5

LEMMA BuildStep ==
  ASSUME TypeInv, NEW t, Build(t), to_sip # None
  PROVE  /\ regs' \in Seq(Registration) /\ register_id' = Len(regs) + 1
         /\ DOMAIN regs' = DOMAIN regs \cup {register_id'}
         /\ regs'[register_id'].uri = to_sip /\ regs'[register_id'].from = from_sip
         /\ regs'[register_id'].state # "removed"
         /\ \A r \in DOMAIN regs : regs'[r] = regs[r]
<1> USE DEF TypeInv, RegsType
<1>1. New \in Registration
  BY DEF SipType, FromType, Registration, New
<1>2. regs' = Append(regs, New) /\ register_id' = Len(regs')
  BY DEF Build
<1>3. New.uri = to_sip /\ New.from = from_sip /\ New.state # "removed"
  BY DEF New
<1> QED BY <1>1, <1>2, <1>3

LEMMA RegsTypeStep == ASSUME TypeInv, [Next]_vars PROVE RegsType'
<1> USE DEF RegsType
<1>1. ASSUME NEW r, FromServer(r) PROVE RegsType'
  <2>1. PICK g \in Registration : regs' = [regs EXCEPT ![r] = g]
    BY <1>1, ServerStep
  <2>2. regs \in Seq(Registration) /\ register_id' = register_id
    BY <1>1 DEF FromServer, Challenge, Accept, Refuse, Timeout, Resend, TypeInv
  <2>3. r \in DOMAIN regs
    BY <1>1, ServerStep
  <2>4. [regs EXCEPT ![r] = g] \in Seq(Registration)
    BY <2>2, <2>3, ExceptSeq
  <2>5. regs' \in Seq(Registration) /\ DOMAIN regs' = DOMAIN regs
    BY <2>1, <2>4
  <2> QED BY <2>2, <2>5 DEF TypeInv
<1>2. ASSUME NEW t \in Threads, Remove(t) PROVE RegsType'
  BY <1>2, RemoveStep
<1>3. ASSUME NEW t \in Threads, Build(t) PROVE RegsType'
  <2>1. to_sip # None
    BY <1>3 DEF Build, BuildFails, Return, TypeInv, SipType
  <2> QED BY <1>3, <2>1, BuildStep
<1>6. ASSUME NEW t \in Threads, BuildFails(t) PROVE RegsType'
  BY <1>6 DEF BuildFails, TypeInv
<1>4. CASE Crash
  BY <1>4 DEF Crash, Volatile
<1>5. CASE UNCHANGED <<regs, register_id>>
  BY <1>5 DEF TypeInv
<1> QED
  BY <1>1, <1>2, <1>3, <1>4, <1>5, <1>6
  DEF FromServer, Next, vars, ThreadSteps, MainSteps, ServerSteps, Request, SetField, Truncate,
      Write, EmitUnheard, Read, Assign, Reset, LoadConfig, LoadFails, Start, Listen, Guess,
      Succeeded, Failed, Unanswered, Heartbeat, Beat, sipVars

LEMMA EventTypeStep == ASSUME TypeInv, [Next]_vars PROVE EventType'
<1> USE DEF TypeInv, EventType
<1>1. ASSUME NEW r, FromServer(r) PROVE EventType'
  <2>1. events' \in Seq({0, 200, 401})
    BY <1>1 DEF FromServer, Challenge, Accept, Refuse, Timeout, Resend, Event
  <2>2. UNCHANGED <<auth, heartbeat>>
    BY <1>1 DEF FromServer, Challenge, Accept, Refuse, Timeout, Resend
  <2> QED BY <2>1, <2>2
<1>2. CASE Succeeded \/ Failed \/ Unanswered
  <2>1. events' \in Seq({0, 200, 401})
    BY <1>2 DEF Succeeded, Failed, Unanswered
  <2>2. auth' \in Int \cup {None}
    BY <1>2, Names DEF Succeeded, Failed, Unanswered, ConfType, Conf
  <2>3. heartbeat' = heartbeat
    BY <1>2 DEF Succeeded, Failed, Unanswered
  <2> QED BY <2>1, <2>2, <2>3
<1>3. ASSUME NEW t \in Threads, Reset(t) PROVE EventType'
  BY <1>3 DEF Reset
<1>4. CASE Heartbeat \/ Beat
  BY <1>4 DEF Heartbeat, Beat
<1>5. CASE Crash
  BY <1>5 DEF Crash, Volatile
<1>6. CASE UNCHANGED <<auth, events, heartbeat>>
  BY <1>6
<1> QED
  BY <1>1, <1>2, <1>3, <1>4, <1>5, <1>6
  DEF FromServer, Next, vars, ThreadSteps, MainSteps, ServerSteps, Request, SetField, Truncate,
      Write, EmitUnheard, Remove, Read, Assign, Build, BuildFails, Return, LoadConfig,
      LoadFails, Start, Listen, Guess, sipVars

LEMMA FlagTypeStep == ASSUME TypeInv, [Next]_vars PROVE FlagType'
<1> USE DEF TypeInv, FlagType, confVars, callVars, sipVars
<1>1. ASSUME NEW t \in Http, Request(t) PROVE FlagType'
  BY <1>1 DEF Request
<1>2. ASSUME NEW t \in Threads, Remove(t) PROVE FlagType'
  <2>1. listening' \in BOOLEAN
    BY <1>2 DEF Remove
  <2>2. clash' \in BOOLEAN
    BY <1>2 DEF Remove
  <2> QED BY <1>2, <2>1, <2>2 DEF Remove
<1>3. ASSUME NEW t \in Threads, Assign(t) \/ Reset(t) PROVE FlagType'
  BY <1>3 DEF Assign, Reset, Queued
<1>4. CASE Succeeded \/ Heartbeat
  BY <1>4 DEF Succeeded, Heartbeat
<1>5. CASE Crash
  BY <1>5 DEF Crash, Volatile
<1>6. CASE UNCHANGED <<listening, is_register, torn, clash, crossed, moved>>
  BY <1>6
<1> QED
  BY <1>1, <1>2, <1>3, <1>4, <1>5, <1>6
  DEF Next, vars, ThreadSteps, MainSteps, ServerSteps, SetField, Truncate, Write, EmitUnheard,
      Read, Build, BuildFails, Return, LoadConfig, LoadFails, Start, Listen, Guess, Failed,
      Unanswered, Beat, Challenge, Accept, Refuse, Timeout, Resend

LEMMA FromTypeStep == ASSUME TypeInv, [Next]_vars PROVE FromType'
<1> USE DEF TypeInv, FromType, fromVars
<1>1. ASSUME NEW t \in Threads, Read(t) \/ Assign(t) PROVE FromType'
  BY <1>1 DEF Read, Assign
<1>2. CASE Guess
  BY <1>2 DEF Guess
<1>3. CASE Crash
  BY <1>3 DEF Crash, Volatile
<1>4. CASE UNCHANGED fromVars
  BY <1>4
<1> QED
  BY <1>1, <1>2, <1>3, <1>4
  DEF Next, vars, ThreadSteps, MainSteps, ServerSteps, Request, SetField, Truncate, Write,
      EmitUnheard, Remove, Reset, Build, BuildFails, LoadConfig, LoadFails, Start, Listen,
      Succeeded, Failed, Unanswered, Heartbeat, Beat, Challenge, Accept, Refuse, Timeout, Resend

LEMMA TypeStep == TypeInv /\ [Next]_vars => TypeInv'
BY ConfTypeStep, PcTypeStep, CallTypeStep, SipTypeStep, RegsTypeStep, EventTypeStep, FromTypeStep,
   FlagTypeStep
DEF TypeInv

LEMMA Typed == Spec => []TypeInv
BY TypeInit, TypeStep, PTL DEF Spec

LEMMA TypeInvIsTypeOK == TypeInv => TypeOK
<1> SUFFICES ASSUME TypeInv PROVE TypeOK
  OBVIOUS
<1>1. pc \in [Threads -> Fields \cup {"load", "start", "listen", "guess", "modify", "serve", "idle",
                                     "truncate", "write", "emit", "read", "assign", "reset",
                                     "build"}]
  BY Names DEF TypeInv, PcType
<1>2. \A b \in {listening, local_ip, from_sip, is_register, torn, clash, crossed, moved} :
        b \in BOOLEAN
  BY DEF TypeInv, FlagType, FromType
<1>3. ConfType /\ CallType /\ SipType /\ RegsType /\ EventType /\ FromType
  BY DEF TypeInv
<1> QED
  BY <1>1, <1>2, <1>3
  DEF TypeOK, ConfType, CallType, SipType, RegsType, EventType, FromType

(* Every variable has its type, and the registration the device knows of is  *)
(* one of eXosip's (TdDevice.cpp:57-92).                                     *)
THEOREM TypeCorrect == Spec => []TypeOK
BY Typed, TypeInvIsTypeOK, PTL

-----------------------------------------------------------------------------
(* Where the threads are.                                                    *)

LEMMA PlacedStep == ASSUME TypeInv, Placed, [Next]_vars PROVE Placed'
<1> USE Names DEF TypeInv, PcType, Placed, Serving, InModify, Goto, Saving, Modifying
<1>1. ASSUME NEW t \in Http, Request(t) PROVE Placed'
  BY <1>1 DEF Request
<1>2. ASSUME NEW t \in Threads, SetField(t) PROVE Placed'
  BY <1>2 DEF SetField, Follows
<1>3. ASSUME NEW t \in Threads, Truncate(t) \/ Write(t) PROVE Placed'
  BY <1>3 DEF Truncate, Write
<1>4. ASSUME NEW t \in Threads, EmitUnheard(t) PROVE Placed'
  BY <1>4 DEF EmitUnheard
<1>5. ASSUME NEW t \in Threads, Remove(t) PROVE Placed'
  BY <1>5 DEF Remove
<1>6. ASSUME NEW t \in Threads, Read(t) \/ Assign(t) \/ Reset(t) \/ Build(t) \/ BuildFails(t)
      PROVE  Placed'
  BY <1>6 DEF Read, Assign, Reset, Build, BuildFails, Return
<1>7. CASE LoadConfig \/ LoadFails \/ Start \/ Listen \/ Guess
  BY <1>7 DEF LoadConfig, LoadFails, Start, Listen, Guess
<1>8. CASE Crash
  BY <1>8 DEF Crash, Volatile
<1>9. CASE UNCHANGED <<pc, listening>>
  BY <1>9
<1> QED
  BY <1>1, <1>2, <1>3, <1>4, <1>5, <1>6, <1>7, <1>8, <1>9
  DEF Next, vars, ThreadSteps, MainSteps, ServerSteps, Succeeded, Failed, Unanswered, Heartbeat,
      Beat, Challenge, Accept, Refuse, Timeout, Resend

LEMMA OneModifyStep == ASSUME TypeInv, Placed, OneModify, [Next]_vars PROVE OneModify'
<1> USE Names DEF TypeInv, PcType, OneModify, InModify, Goto, callVars
<1>1. ASSUME NEW t \in Http, Request(t) PROVE OneModify'
  BY <1>1 DEF Request
<1>2. ASSUME NEW t \in Threads, SetField(t) PROVE OneModify'
  BY <1>2 DEF SetField, Follows
<1>3. ASSUME NEW t \in Threads, Truncate(t) \/ Write(t) \/ EmitUnheard(t) PROVE OneModify'
  BY <1>3 DEF Truncate, Write, EmitUnheard
<1>4. ASSUME NEW t \in Threads, Remove(t) PROVE OneModify'
  BY <1>4 DEF Remove
<1>5. ASSUME NEW t \in Threads, Read(t) \/ Assign(t) \/ Reset(t) \/ Build(t) \/ BuildFails(t)
      PROVE  OneModify'
  BY <1>5 DEF Read, Assign, Reset, Build, BuildFails, Return
<1>6. CASE LoadConfig \/ LoadFails \/ Start \/ Listen \/ Guess
  BY <1>6 DEF LoadConfig, LoadFails, Start, Listen, Guess
<1>7. CASE Crash
  BY <1>7 DEF Crash, Volatile
<1>8. CASE UNCHANGED <<pc, clash>>
  BY <1>8
<1> QED
  BY <1>1, <1>2, <1>3, <1>4, <1>5, <1>6, <1>7, <1>8
  DEF Next, vars, ThreadSteps, MainSteps, ServerSteps, Succeeded, Failed, Unanswered, Heartbeat,
      Beat, Challenge, Accept, Refuse, Timeout, Resend

-----------------------------------------------------------------------------
(* One registration.                                                         *)

LEMMA RegStep == ASSUME TypeInv, PlaceInv, RegInv, [Next]_vars PROVE RegInv'
<1> USE Names DEF PlaceInv, RegInv
<1>a. OneModify' /\ Placed' /\ TypeInv'
  BY PlacedStep, OneModifyStep, TypeStep
<1>b. -1 \notin DOMAIN regs /\ Error \notin DOMAIN regs
  BY DEF TypeInv, RegsType, Error
<1>1. ASSUME NEW r, FromServer(r) PROVE RegInv'
  <2>1. PICK g \in Registration :
          /\ regs' = [regs EXCEPT ![r] = g]
          /\ g.uri = regs[r].uri /\ g.from = regs[r].from /\ g.state # "removed"
    BY <1>1, ServerStep
  <2>2. r \in DOMAIN regs /\ regs[r].state # "removed"
    BY <1>1, ServerStep
  <2>3. UNCHANGED <<pc, clash, listening, register_id, to_sip, from_sip>>
    BY <1>1 DEF FromServer, Challenge, Accept, Refuse, Timeout, Resend, callVars, fromVars
  <2>4. /\ DOMAIN regs' = DOMAIN regs /\ regs'[r] = g
        /\ \A q \in DOMAIN regs : q # r => regs'[q] = regs[q]
    BY <2>1, <2>2 DEF TypeInv, RegsType
  <2>5. OldRemoved'
    BY <2>1, <2>2, <2>3, <2>4 DEF OldRemoved
  <2>6. NoneYet' /\ Tried'
    BY <2>3 DEF NoneYet, Tried, Settled, Calm, InModify
  <2>8. NewBuilt'
    BY <2>1, <2>3, <2>4 DEF NewBuilt, Calm, InModify
  <2> QED BY <2>5, <2>6, <2>8
<1>2. ASSUME NEW t \in Threads, Remove(t) PROVE RegInv'
  <2>1. InModify(t)' /\ (clash => clash')
    BY <1>2 DEF Remove, Goto, InModify, TypeInv, PcType
  <2>2. OldRemoved'
    BY <1>2, <2>1, RemoveStep DEF OldRemoved
  <2>3. NoneYet'
    BY <1>2, RemoveStep DEF NoneYet
  <2>4. NewBuilt' /\ Tried'
    BY <2>1 DEF NewBuilt, Tried, Settled, Calm
  <2> QED BY <2>2, <2>3, <2>4
<1>3. ASSUME NEW t \in Threads, Build(t) \/ BuildFails(t) PROVE RegInv'
  <2>1. to_sip # None /\ InModify(t) /\ UNCHANGED <<clash, to_sip, from_sip>>
    BY <1>3 DEF Build, BuildFails, TypeInv, SipType, InModify, fromVars
  <2>2. ~clash => \A u \in Threads : ~InModify(u)'
    BY <1>3, <2>1 DEF OneModify, Build, BuildFails, Return, Goto, InModify, TypeInv, PcType
  <2>3. NoneYet'
    BY <2>1, <2>2 DEF NoneYet
  <2>4. ~clash => \A r \in DOMAIN regs : regs[r].state = "removed"
    BY <2>1, <1>b DEF OldRemoved, NoneYet
  <2>5. CASE Build(t)
    <3>1. /\ DOMAIN regs' = DOMAIN regs \cup {register_id'}
          /\ regs'[register_id'].uri = to_sip /\ regs'[register_id'].from = from_sip
          /\ regs'[register_id'].state # "removed"
          /\ \A r \in DOMAIN regs : regs'[r] = regs[r]
      BY <2>5, <2>1, BuildStep
    <3>2. register_id' # -1
      BY <2>5, <2>1, BuildStep DEF TypeInv, RegsType
    <3>3. OldRemoved'
      BY <2>1, <2>4, <3>1 DEF OldRemoved
    <3> QED BY <2>1, <2>3, <3>1, <3>2, <3>3 DEF NewBuilt, Tried
  <2>6. CASE BuildFails(t)
    <3>1. regs' = regs /\ register_id' = Error
      BY <2>6 DEF BuildFails
    <3>2. register_id' # -1
      BY <3>1 DEF Error
    <3> QED BY <2>1, <2>3, <2>4, <3>1, <3>2, <1>b DEF OldRemoved, NewBuilt, Tried
  <2> QED BY <1>3, <2>5, <2>6
<1>4. CASE Crash
  <2>1. regs' = <<>> /\ pc'[Main] = "load" /\ \A t \in Threads : ~InModify(t)'
    BY <1>4 DEF Crash, Volatile, InModify
  <2> QED BY <2>1 DEF OldRemoved, NoneYet, NewBuilt, Tried, Settled
<1>5. CASE /\ UNCHANGED <<regs, register_id>> /\ (clash => clash')
           /\ \A t \in Threads : InModify(t)' <=> InModify(t)
           /\ pc'[Main] = "serve" => pc[Main] = "serve"
           /\ UNCHANGED <<to_sip, from_sip>> \/ \E t \in Threads : InModify(t)
  BY <1>5 DEF OldRemoved, NoneYet, NewBuilt, Tried, Settled, Calm
<1> HIDE DEF PlaceInv, RegInv
<1> USE DEF fromVars
<1>6. ASSUME NEW t \in Threads, Read(t) \/ Assign(t) \/ Reset(t) PROVE RegInv'
  BY <1>6, <1>5 DEF Read, Assign, Reset, Goto, InModify, callVars, sipVars, TypeInv, PcType
<1>7. ASSUME NEW t \in Threads, SetField(t) PROVE RegInv'
  BY <1>7, <1>5 DEF SetField, Follows, Goto, InModify, callVars, sipVars, TypeInv, PcType
<1>8. ASSUME NEW t \in Threads, Truncate(t) \/ Write(t) \/ EmitUnheard(t) PROVE RegInv'
  BY <1>8, <1>5 DEF Truncate, Write, EmitUnheard, Goto, InModify, callVars, sipVars, TypeInv,
                    PcType
<1>9. ASSUME NEW t \in Http, Request(t) PROVE RegInv'
  BY <1>9, <1>5 DEF Request, Goto, InModify, sipVars, TypeInv, PcType
<1>10. CASE LoadConfig \/ LoadFails \/ Start \/ Listen \/ Guess
  BY <1>10, <1>5
  DEF LoadConfig, LoadFails, Start, Listen, Guess, Goto, InModify, callVars, sipVars,
      TypeInv, PcType
<1>11. CASE Succeeded \/ Failed \/ Unanswered \/ Heartbeat \/ Beat \/ UNCHANGED vars
  <2>1. UNCHANGED <<pc, clash, to_sip, from_sip, regs, register_id>>
    BY <1>11 DEF Succeeded, Failed, Unanswered, Heartbeat, Beat, callVars, sipVars, vars
  <2> QED BY <2>1, <1>5 DEF InModify
<1> QED
  BY <1>1, <1>2, <1>3, <1>4, <1>6, <1>7, <1>8, <1>9, <1>10, <1>11
  DEF FromServer, Next, ThreadSteps, MainSteps, ServerSteps

-----------------------------------------------------------------------------
(* From the address that was guessed.                                        *)

LEMMA GuessedStep == ASSUME TypeInv, Guessed, [Next]_vars PROVE Guessed'
<1> USE Names DEF TypeInv, PcType, Guessed, Started, Goto, Modifying, fromVars
<1>1. ASSUME NEW t \in Http, Request(t) PROVE Guessed'
  BY <1>1 DEF Request
<1>2. ASSUME NEW t \in Threads, SetField(t) PROVE Guessed'
  BY <1>2 DEF SetField, Follows
<1>3. ASSUME NEW t \in Threads, Truncate(t) \/ Write(t) \/ EmitUnheard(t) PROVE Guessed'
  BY <1>3 DEF Truncate, Write, EmitUnheard
<1>4. ASSUME NEW t \in Threads, Remove(t) PROVE Guessed'
  BY <1>4 DEF Remove
<1>5. ASSUME NEW t \in Threads, Read(t) \/ Assign(t) \/ Reset(t) PROVE Guessed'
  BY <1>5 DEF Read, Assign, Reset
<1>6. ASSUME NEW t \in Threads, Build(t) \/ BuildFails(t) PROVE Guessed'
  BY <1>6 DEF Build, BuildFails, Return
<1>7. CASE LoadConfig \/ LoadFails \/ Start \/ Listen \/ Guess
  BY <1>7 DEF LoadConfig, LoadFails, Start, Listen, Guess
<1>8. CASE Crash
  BY <1>8 DEF Crash, Volatile
<1>9. CASE UNCHANGED <<pc, local_ip>>
  BY <1>9
<1> QED
  BY <1>1, <1>2, <1>3, <1>4, <1>5, <1>6, <1>7, <1>8, <1>9
  DEF Next, vars, ThreadSteps, MainSteps, ServerSteps, Succeeded, Failed, Unanswered, Heartbeat,
      Beat, Challenge, Accept, Refuse, Timeout, Resend

LEMMA SeenStep ==
  ASSUME TypeInv, PlaceInv, FromInv, [Next]_vars PROVE SeenGuessed'
<1> USE Names DEF PlaceInv, FromInv, Goto
<1>a. Placed' /\ OneModify'
  BY PlacedStep, OneModifyStep
<1>b. pc \in [Threads -> Places] /\ seen \in [Threads -> BOOLEAN] /\ local_ip \in BOOLEAN
  BY DEF TypeInv, PcType, FromType
<1>1. CASE clash' \/ ~Started'
  BY <1>1 DEF SeenGuessed
<1>2. ASSUME NEW t \in Threads, Remove(t) PROVE SeenGuessed'
  <2>1. InModify(t)' /\ pc'[t] = "read"
    BY <1>2, <1>b DEF Remove, InModify
  <2>2. ~clash' => \A u \in Threads : pc'[u] \notin {"assign", "reset", "build"}
    BY <2>1, <1>a DEF OneModify, InModify
  <2> QED BY <2>1, <2>2 DEF SeenGuessed, Settled, Calm
<1>3. ASSUME NEW t \in Threads, Read(t) \/ Assign(t) \/ Reset(t) \/ Build(t) \/ BuildFails(t),
             ~clash', Started'
      PROVE  SeenGuessed'
  <2>1. ~clash /\ InModify(t) /\ local_ip' = local_ip
    BY <1>3 DEF Read, Assign, Reset, Build, BuildFails, InModify, callVars, fromVars
  <2>2. \A u \in Threads : u # t => pc[u] \notin {"read", "assign", "reset", "build"}
    BY <2>1 DEF OneModify, InModify
  <2>3. \A u \in Threads : u # t => pc'[u] = pc[u]
    BY <1>3, <1>b DEF Read, Assign, Reset, Build, BuildFails, Return
  <2>4. Started
    <3>1. CASE t = Main
      BY <3>1, <2>1 DEF Started, InModify, Modifying
    <3>2. CASE t # Main
      BY <3>2, <2>3, <1>3 DEF Started
    <3> QED BY <3>1, <3>2
  <2>5. CASE Read(t)
    <3>1. pc'[t] = "assign" /\ seen'[t]
      BY <2>5, <2>4, <1>b DEF Read, Guessed
    <3> QED BY <2>2, <2>3, <3>1 DEF SeenGuessed, Settled, Calm, InModify
  <2>6. CASE Assign(t)
    <3>1. pc[t] = "assign" /\ pc'[t] = "reset" /\ from_sip' = seen[t]
      BY <2>6, <1>b DEF Assign
    <3>2. from_sip'
      BY <2>1, <2>4, <3>1 DEF SeenGuessed
    <3> QED BY <2>2, <2>3, <3>1, <3>2 DEF SeenGuessed
  <2>7. CASE Reset(t) \/ Build(t) \/ BuildFails(t)
    <3>1. from_sip' = from_sip /\ pc[t] \in {"reset", "build"} /\ pc'[t] # "assign"
      BY <2>7, <1>b DEF Reset, Build, BuildFails, Return, fromVars
    <3>2. from_sip'
      BY <2>1, <2>4, <3>1 DEF SeenGuessed
    <3> QED BY <2>2, <2>3, <3>1, <3>2 DEF SeenGuessed
  <2> QED BY <1>3, <2>5, <2>6, <2>7
<1>4. CASE /\ UNCHANGED fromVars /\ (clash => clash') /\ (Started' => Started)
           /\ \A t \in Threads : InModify(t) \/ InModify(t)' => pc'[t] = pc[t]
           /\ pc'[Main] = "serve" => pc[Main] = "serve"
  BY <1>4 DEF SeenGuessed, Settled, Calm, InModify, fromVars
<1> HIDE DEF PlaceInv, FromInv
<1>5. ASSUME NEW t \in Threads, SetField(t) PROVE SeenGuessed'
  BY <1>5, <1>4, <1>b DEF SetField, Follows, Fields, InModify, Started, Modifying, callVars
<1>6. ASSUME NEW t \in Threads, Truncate(t) \/ Write(t) \/ EmitUnheard(t) PROVE SeenGuessed'
  BY <1>6, <1>4, <1>b
  DEF Truncate, Write, EmitUnheard, InModify, Started, Modifying, callVars
<1>7. ASSUME NEW t \in Http, Request(t) PROVE SeenGuessed'
  BY <1>7, <1>4, <1>b DEF Request, InModify, Started, Modifying
<1>8. CASE LoadConfig \/ LoadFails \/ Start \/ Listen \/ Guess
  BY <1>8, <1>1, <1>b DEF LoadConfig, LoadFails, Start, Listen, Guess, Started, Modifying
<1>9. CASE Crash
  BY <1>9, <1>1 DEF Crash, Volatile, Started, Modifying
<1>10. CASE UNCHANGED <<pc, clash, fromVars>>
  BY <1>10, <1>4 DEF Started, InModify
<1>11. CASE Succeeded \/ Failed \/ Unanswered \/ Heartbeat \/ Beat \/ UNCHANGED vars
  BY <1>11, <1>10 DEF Succeeded, Failed, Unanswered, Heartbeat, Beat, callVars, vars
<1>12. ASSUME NEW r, FromServer(r) PROVE SeenGuessed'
  BY <1>12, <1>10 DEF FromServer, Challenge, Accept, Refuse, Timeout, Resend, callVars
<1> QED
  BY <1>1, <1>2, <1>3, <1>5, <1>6, <1>7, <1>8, <1>9, <1>11, <1>12
  DEF FromServer, Next, ThreadSteps, MainSteps, ServerSteps

-----------------------------------------------------------------------------
(* With the account it has.                                                  *)

LEMMA ConfStep == ASSUME TypeInv, PlaceInv, ConfInv, [Next]_vars PROVE ConfInv'
<1> USE Names DEF PlaceInv, Goto
<1>a. Placed' /\ OneModify'
  BY PlacedStep, OneModifyStep
<1>b. pc \in [Threads -> Places]
  BY DEF TypeInv, PcType
<1>1. CASE Coming'
  BY <1>1 DEF ConfInv, ReadIsConf, AssignedIsConf, SettledIsConf
<1>2. CASE ~listening'
  <2>1. \A t \in Threads : pc'[t] \notin {"assign", "reset", "build"}
    BY <1>a, <1>2 DEF Placed, InModify
  <2>2. ~Settled'
    BY <1>a, <1>2 DEF Placed, Settled
  <2> QED BY <2>1, <2>2 DEF ConfInv, ReadIsConf, AssignedIsConf, SettledIsConf
<1>3. ASSUME NEW t \in Threads, SetField(t) PROVE ConfInv'
  <2>1. t \in Http
    BY <1>3 DEF SetField, TypeInv, PcType, Modifying
  <2>2. Coming'
    BY <1>3, <2>1, <1>b DEF SetField, Follows, Coming, Saving
  <2> QED BY <2>2, <1>1
<1>4. ASSUME NEW t \in Threads, Truncate(t) \/ Write(t) PROVE ConfInv'
  <2>1. CASE t \in Http
    <3>1. Coming'
      BY <1>4, <2>1, <1>b DEF Truncate, Write, Coming, Saving
    <3> QED BY <3>1, <1>1
  <2>2. CASE t = Main
    <3>1. ~listening'
      BY <1>4, <2>2 DEF Truncate, Write, Placed, Modifying
    <3> QED BY <3>1, <1>2
  <2> QED BY <2>1, <2>2
<1>5. ASSUME NEW t \in Http, Request(t) PROVE ConfInv'
  <2>1. Coming'
    BY <1>5, <1>b DEF Request, Coming, Saving
  <2> QED BY <2>1, <1>1
<1>6. ASSUME NEW t \in Threads, EmitUnheard(t) PROVE ConfInv'
  BY <1>6, <1>2 DEF EmitUnheard
<1>7. CASE LoadConfig \/ LoadFails
  BY <1>7, <1>2 DEF LoadConfig, LoadFails, Placed, Modifying
<1>15. CASE Start \/ Listen \/ Guess
  <2>1. pc[Main] \in {"start", "listen", "guess"} /\ pc'[Main] \in {"listen", "guess", "modify"}
    BY <1>15, <1>b DEF Start, Listen, Guess
  <2>2. \A t \in Http : pc'[t] = pc[t]
    BY <1>15, <1>b DEF Start, Listen, Guess
  <2>3. UNCHANGED <<conf, mine, to_sip, clash>> /\ (Coming' <=> Coming)
    BY <1>15, <2>2 DEF Start, Listen, Guess, confVars, callVars, sipVars, Coming
  <2>4. ReadIsConf' /\ AssignedIsConf'
    BY <2>1, <2>2, <2>3 DEF ConfInv, ReadIsConf, AssignedIsConf
  <2> QED BY <2>1, <2>4 DEF ConfInv, SettledIsConf, Settled
<1>8. CASE Crash
  BY <1>8, <1>2 DEF Crash, Volatile
<1>9. ASSUME NEW t \in Threads, Remove(t) PROVE ConfInv'
  <2>1. InModify(t)' /\ pc'[t] = "read"
    BY <1>9, <1>b DEF Remove, InModify
  <2>2. ~clash' => \A u \in Threads : pc'[u] \notin {"assign", "reset", "build"}
    BY <2>1, <1>a DEF OneModify, InModify
  <2> QED BY <2>1, <2>2 DEF ConfInv, ReadIsConf, AssignedIsConf, SettledIsConf, Settled, Calm
<1>10. ASSUME NEW t \in Threads, ~clash',
              Read(t) \/ Assign(t) \/ Reset(t) \/ Build(t) \/ BuildFails(t)
       PROVE  ConfInv'
  <2>1. ~clash /\ InModify(t) /\ conf' = conf
    BY <1>10 DEF Read, Assign, Reset, Build, BuildFails, Return, InModify, callVars, confVars
  <2>2. \A u \in Threads : u # t => pc[u] \notin {"read", "assign", "reset", "build"}
    BY <2>1 DEF OneModify, InModify
  <2>3. \A u \in Threads : u # t => pc'[u] = pc[u]
    BY <1>10, <1>b DEF Read, Assign, Reset, Build, BuildFails, Return
  <2>4. Coming <=> Coming'
    BY <1>10, <2>3, <1>b DEF Coming, Saving, Read, Assign, Reset, Build, BuildFails, Return
  <2>5. CASE Read(t)
    <3>1. pc'[t] = "assign" /\ mine'[t] = conf
      BY <2>5, <1>b DEF Read, TypeInv, ConfType
    <3>2. ~Settled'
      BY <3>1 DEF Settled, Calm, InModify
    <3>3. ReadIsConf'
      BY <2>1, <2>2, <2>3, <3>1 DEF ReadIsConf
    <3>4. AssignedIsConf'
      BY <2>2, <2>3, <3>1 DEF AssignedIsConf
    <3> QED BY <3>2, <3>3, <3>4 DEF ConfInv, SettledIsConf
  <2>6. CASE Assign(t) \/ Reset(t)
    <3>1. pc'[t] \in {"reset", "build"}
      BY <2>6, <1>b DEF Assign, Reset
    <3>2. to_sip' = Uri(conf) \/ Coming
      BY <2>6, <2>1 DEF Assign, Reset, ConfInv, ReadIsConf, AssignedIsConf
    <3>3. ~Settled'
      BY <3>1 DEF Settled, Calm, InModify
    <3>4. ReadIsConf'
      BY <2>2, <2>3, <3>1 DEF ReadIsConf
    <3>5. AssignedIsConf'
      BY <2>1, <2>2, <2>3, <2>4, <3>2 DEF AssignedIsConf
    <3> QED BY <3>3, <3>4, <3>5 DEF ConfInv, SettledIsConf
  <2>7. CASE Build(t) \/ BuildFails(t)
    <3>1. pc'[t] \in {"serve", "idle"}
      BY <2>7, <1>b DEF Build, BuildFails, Return
    <3>2. to_sip' = Uri(conf) \/ Coming
      BY <2>7, <2>1 DEF Build, BuildFails, Return, ConfInv, AssignedIsConf
    <3>3. ReadIsConf' /\ AssignedIsConf'
      BY <2>2, <2>3, <3>1 DEF ReadIsConf, AssignedIsConf
    <3>4. SettledIsConf'
      BY <2>1, <2>4, <3>2 DEF SettledIsConf
    <3> QED BY <3>3, <3>4 DEF ConfInv
  <2> QED BY <1>10, <2>5, <2>6, <2>7
<1>11. CASE clash'
  BY <1>11 DEF ConfInv, ReadIsConf, AssignedIsConf, SettledIsConf
<1>12. CASE UNCHANGED <<pc, conf, mine, to_sip, listening, clash>>
  BY <1>12 DEF ConfInv, ReadIsConf, AssignedIsConf, SettledIsConf, Settled, Calm, InModify,
               Coming
<1> HIDE DEF PlaceInv
<1>13. CASE Succeeded \/ Failed \/ Unanswered \/ Heartbeat \/ Beat \/ UNCHANGED vars
  BY <1>13, <1>12
  DEF Succeeded, Failed, Unanswered, Heartbeat, Beat, confVars, callVars, sipVars, vars
<1>14. ASSUME NEW r, FromServer(r) PROVE ConfInv'
  BY <1>14, <1>12
  DEF FromServer, Challenge, Accept, Refuse, Timeout, Resend, confVars, callVars
<1> QED
  BY <1>3, <1>4, <1>5, <1>6, <1>7, <1>8, <1>9, <1>10, <1>11, <1>13, <1>14, <1>15
  DEF FromServer, Next, ThreadSteps, MainSteps, ServerSteps

LEMMA InForceInit == Init => PlaceInv /\ RegInv /\ FromInv /\ ConfInv
<1> SUFFICES ASSUME Init PROVE PlaceInv /\ RegInv /\ FromInv /\ ConfInv
  OBVIOUS
<1>1. /\ pc = [t \in Threads |-> IF t = Main THEN "load" ELSE "idle"]
      /\ regs = <<>> /\ listening = FALSE
  BY DEF Init
<1>2. \A t \in Threads : pc[t] \in {"load", "idle"}
  BY <1>1
<1>3. pc[Main] = "load" /\ \A t \in Http : pc[t] = "idle"
  BY <1>1, Names
<1>4. PlaceInv
  BY <1>1, <1>2, <1>3, Names DEF PlaceInv, Placed, OneModify, InModify, Serving, Modifying
<1>5. RegInv
  BY <1>1, <1>2, <1>3 DEF RegInv, OldRemoved, NoneYet, NewBuilt, Tried, Settled, InModify
<1>6. ConfInv
  BY <1>2, <1>3 DEF ConfInv, ReadIsConf, AssignedIsConf, SettledIsConf, Settled
<1>7. FromInv
  BY <1>3 DEF FromInv, Guessed, SeenGuessed, Started, Modifying
<1> QED BY <1>4, <1>5, <1>6, <1>7

LEMMA InForce ==
  ASSUME TypeInv, PlaceInv, RegInv, FromInv, ConfInv PROVE RegistrationIsConf
<1> SUFFICES ASSUME Quiet, ~clash
             PROVE  /\ to_sip = Uri(conf) /\ from_sip /\ register_id # -1
                    /\ register_id # Error =>
                         /\ regs[register_id].uri = to_sip /\ regs[register_id].from
                         /\ regs[register_id].state # "removed"
                    /\ \A r \in DOMAIN regs \ {register_id} : regs[r].state = "removed"
  BY DEF RegistrationIsConf
<1>1. Settled /\ ~Coming
  BY Names DEF Quiet, Settled, Calm, Coming, InModify, Saving
<1>2. to_sip = Uri(conf)
  BY <1>1 DEF ConfInv, SettledIsConf
<1>3. from_sip
  BY <1>1 DEF FromInv, SeenGuessed, Started, Settled
<1>4. register_id # -1
  BY <1>1 DEF RegInv, Tried
<1>5. register_id # Error => register_id \in DOMAIN regs
  BY <1>4 DEF TypeInv, RegsType
<1>6. register_id # Error =>
        /\ regs[register_id].uri = to_sip /\ regs[register_id].from = from_sip
        /\ regs[register_id].state # "removed"
  BY <1>1, <1>5 DEF RegInv, NewBuilt, Settled
<1>7. \A r \in DOMAIN regs \ {register_id} : regs[r].state = "removed"
  BY DEF RegInv, OldRemoved
<1> QED BY <1>2, <1>3, <1>4, <1>6, <1>7

(* When no request is under way, and none has overlapped with another, the   *)
(* device has one registration, that of the account in force and from the    *)
(* address it has guessed, or none, if eXosip could not build it: wherever   *)
(* in the start of the device a request comes (TdDevice.cpp:35-92,           *)
(* main.cpp:28-35).                                                          *)
THEOREM InForceIsConf == Spec => []RegistrationIsConf
<1>1. Init => TypeInv /\ PlaceInv /\ RegInv /\ FromInv /\ ConfInv
  BY TypeInit, InForceInit
<1>2. TypeInv /\ PlaceInv /\ RegInv /\ FromInv /\ ConfInv /\ [Next]_vars
        => (TypeInv /\ PlaceInv /\ RegInv /\ FromInv /\ ConfInv)'
  <2>1. TypeInv /\ PlaceInv /\ [Next]_vars => (TypeInv /\ PlaceInv)'
    BY TypeStep, PlacedStep, OneModifyStep DEF PlaceInv
  <2>2. TypeInv /\ PlaceInv /\ RegInv /\ [Next]_vars => RegInv'
    BY RegStep
  <2>3. TypeInv /\ PlaceInv /\ FromInv /\ [Next]_vars => FromInv'
    BY GuessedStep, SeenStep DEF FromInv
  <2>4. TypeInv /\ PlaceInv /\ ConfInv /\ [Next]_vars => ConfInv'
    BY ConfStep
  <2> QED BY <2>1, <2>2, <2>3, <2>4
<1>3. TypeInv /\ PlaceInv /\ RegInv /\ FromInv /\ ConfInv => RegistrationIsConf
  BY InForce
<1> QED BY <1>1, <1>2, <1>3, PTL DEF Spec

-----------------------------------------------------------------------------
(* The file.                                                                 *)

LEMMA FirstStartStep == ASSUME TypeInv, Placed, FirstStart, [Next]_vars PROVE FirstStart'
<1> USE Names DEF Goto
<1>a. pc \in [Threads -> Places] /\ conf \in Conf /\ mine \in [Threads -> Conf]
  BY DEF TypeInv, PcType, ConfType
<1>b. /\ ~Serving <=> pc[Main] \in {"load", "truncate", "write", "start"}
      /\ file = None => ~Serving
  BY DEF Serving, FirstStart
<1>1. ASSUME NEW t \in Http, Request(t) PROVE FirstStart'
  BY <1>1, <1>a, <1>b DEF Request, FirstStart, Serving, confVars
<1>2. ASSUME NEW t \in Threads, SetField(t) PROVE FirstStart'
  <2>1. t \in Http /\ pc[t] # "idle"
    BY <1>2 DEF SetField, TypeInv, PcType, Modifying
  <2>2. Serving /\ pc'[Main] = pc[Main] /\ file' = file
    BY <1>2, <2>1, <1>a DEF SetField, Placed
  <2> QED BY <2>2, <1>b DEF FirstStart
<1>3. ASSUME NEW t \in Http, Truncate(t) \/ Write(t) PROVE FirstStart'
  <2>1. Serving /\ pc'[Main] = pc[Main]
    BY <1>3, <1>a DEF Truncate, Write, Placed
  <2>2. file' # None
    BY <1>3, <1>a, Confs DEF Truncate, Write
  <2> QED BY <2>1, <2>2, <1>b DEF FirstStart
<1>4. CASE Truncate(Main)
  <2>1. pc[Main] = "truncate" /\ pc'[Main] = "write" /\ file' \in File /\ mine'[Main] = conf
    BY <1>4, <1>a, Confs DEF Truncate
  <2>2. conf' = conf /\ last' = last
    BY <1>4 DEF Truncate
  <2> QED BY <2>1, <2>2 DEF FirstStart
<1>5. CASE Write(Main)
  <2>1. pc'[Main] = "start" /\ file' \in File
    BY <1>5, <1>a, Confs DEF Write
  <2> QED BY <2>1 DEF FirstStart
<1>6. ASSUME NEW t \in Threads,
             \/ EmitUnheard(t) \/ Remove(t) \/ Read(t) \/ Assign(t)
             \/ Reset(t) \/ Build(t) \/ BuildFails(t)
      PROVE  FirstStart'
  <2>1. file' = file /\ conf' = conf /\ last' = last
    BY <1>6 DEF EmitUnheard, Remove, Read, Assign, Reset, Build, BuildFails, Return, confVars,
                callVars
  <2>2. CASE t \in Http
    <3>1. Serving /\ pc'[Main] = pc[Main]
      BY <1>6, <2>2, <1>a
      DEF EmitUnheard, Remove, Read, Assign, Reset, Build, BuildFails, Return, Placed
    <3> QED BY <2>1, <3>1, <1>b DEF FirstStart
  <2>3. CASE t = Main
    <3>1. Serving
      BY <1>6, <2>3 DEF EmitUnheard, Remove, Read, Assign, Reset, Build, BuildFails, Return,
                        Serving
    <3>2. pc'[Main] \in {"read", "assign", "reset", "build", "serve"}
      BY <1>6, <2>3, <1>a
      DEF EmitUnheard, Remove, Read, Assign, Reset, Build, BuildFails, Return, TypeInv, PcType,
          Modifying
    <3> QED BY <2>1, <3>1, <3>2, <1>b DEF FirstStart
  <2> QED BY <2>2, <2>3
<1>7. CASE LoadConfig \/ LoadFails \/ Start \/ Listen \/ Guess
  <2>1. UNCHANGED <<file, last, mine>>
    BY <1>7 DEF LoadConfig, LoadFails, Start, Listen, Guess, confVars, callVars
  <2>2. CASE LoadConfig
    <3>1. file # None /\ pc'[Main] = "start"
      BY <2>2, <1>a DEF LoadConfig, Parses
    <3> QED BY <2>1, <3>1 DEF FirstStart
  <2>3. CASE LoadFails
    <3>1. pc[Main] = "load" /\ pc'[Main] = "truncate" /\ conf' = conf
      BY <2>3, <1>a DEF LoadFails, confVars
    <3> QED BY <2>1, <3>1 DEF FirstStart
  <2>4. CASE Start \/ Listen \/ Guess
    <3>1. pc[Main] \in {"start", "listen", "guess"} /\ pc'[Main] \in {"listen", "guess", "modify"}
      BY <2>4, <1>a DEF Start, Listen, Guess
    <3> QED BY <2>1, <3>1 DEF FirstStart
  <2> QED BY <1>7, <2>2, <2>3, <2>4
<1>8. CASE Crash
  BY <1>8 DEF Crash, Volatile, FirstStart
<1>9. CASE UNCHANGED <<file, conf, last, mine, pc>>
  BY <1>9 DEF FirstStart
<1>10. \A t \in Threads : Truncate(t) \/ Write(t) => FirstStart'
  BY <1>3, <1>4, <1>5
<1> QED
  BY <1>1, <1>2, <1>10, <1>6, <1>7, <1>8, <1>9
  DEF Next, vars, ThreadSteps, MainSteps, ServerSteps, Succeeded, Failed, Unanswered, Heartbeat,
      Beat, Challenge, Accept, Refuse, Timeout, Resend, confVars, callVars

(* The steps of emitEvent and modifyRegister.                                *)
LEMMA FileKept ==
  ASSUME NEW t, \/ EmitUnheard(t) \/ Remove(t) \/ Read(t) \/ Assign(t)
                \/ Reset(t) \/ Build(t) \/ BuildFails(t)
  PROVE  UNCHANGED <<req, last, conf, file, torn>> /\ (clash => clash')
<1>1. UNCHANGED <<req, last, conf, file, torn>>
  BY DEF EmitUnheard, Remove, Read, Assign, Reset, Build, BuildFails, Return, confVars, callVars
<1>2. CASE Remove(t)
  <2>1. clash' = (clash \/ \E u \in Threads : InModify(u))
    BY <1>2 DEF Remove
  <2> QED BY <1>1, <2>1
<1>3. CASE EmitUnheard(t) \/ Read(t) \/ Assign(t) \/ Reset(t) \/ Build(t) \/ BuildFails(t)
  <2>1. clash' = clash
    BY <1>3 DEF EmitUnheard, Read, Assign, Reset, Build, BuildFails, Return, callVars
  <2> QED BY <1>1, <2>1
<1> QED BY <1>2, <1>3

LEMMA CallStep == ASSUME TypeInv, CallInv, [Next]_vars PROVE CallInv'
<1> USE Names DEF Goto, Busy
<1>a. pc \in [Threads -> Places] /\ req \in [Http -> 0 .. last]
  BY DEF TypeInv, PcType, CallType
<1>1. ASSUME NEW t \in Http, Request(t) PROVE CallInv'
  BY <1>1, <1>a DEF Request, CallInv, OneRequest, Latest
<1>2. CASE /\ UNCHANGED <<req, last>> /\ (clash => clash')
           /\ \A t \in Http : Busy(t)' => Busy(t)
  BY <1>2 DEF CallInv, OneRequest, Latest
<1>3. ASSUME NEW t \in Threads, SetField(t) \/ Truncate(t) \/ Write(t) \/ EmitUnheard(t)
      PROVE  CallInv'
  BY <1>3, <1>2, <1>a DEF SetField, Truncate, Write, EmitUnheard, callVars
<1>4. ASSUME NEW t \in Threads,
             \/ Remove(t) \/ Read(t) \/ Assign(t) \/ Reset(t) \/ Build(t) \/ BuildFails(t)
      PROVE  CallInv'
  <2>1. \A u \in Http : Busy(u)' => Busy(u)
    BY <1>4, <1>a DEF Remove, Read, Assign, Reset, Build, BuildFails, Return
  <2>2. UNCHANGED <<req, last>> /\ (clash => clash')
    BY <1>4, FileKept
  <2> QED BY <2>1, <2>2, <1>2
<1>5. CASE LoadConfig \/ LoadFails \/ Start \/ Listen \/ Guess
  BY <1>5, <1>2, <1>a DEF LoadConfig, LoadFails, Start, Listen, Guess, callVars
<1>6. CASE Crash
  BY <1>6, <1>2 DEF Crash, Volatile
<1>7. CASE UNCHANGED <<req, last, clash, pc>>
  BY <1>7, <1>2
<1> QED
  BY <1>1, <1>3, <1>4, <1>5, <1>6, <1>7
  DEF Next, vars, ThreadSteps, MainSteps, ServerSteps, Succeeded, Failed, Unanswered, Heartbeat,
      Beat, Challenge, Accept, Refuse, Timeout, Resend, callVars

(* A step of a thread: what it leaves alone, and who else is there.          *)
LEMMA Alone ==
  ASSUME TypeInv, Placed, CallInv, [Next]_vars, NEW t \in Http, ThreadSteps(t), ~clash'
  PROVE  /\ ~clash /\ Serving /\ Busy(t) /\ req[t] = last
         /\ UNCHANGED <<req, last, torn>>
         /\ \A u \in Http : u # t => pc[u] = "idle" /\ pc'[u] = "idle"
         /\ pc'[Main] = pc[Main]
<1>1. Busy(t)
  BY DEF ThreadSteps, SetField, Truncate, Write, EmitUnheard, Remove, Read, Assign, Reset,
         Build, BuildFails, Return, Busy, Fields
<1>2. ~clash /\ UNCHANGED <<req, last, torn>>
  <2>1. CASE SetField(t) \/ Truncate(t) \/ Write(t)
    BY <2>1 DEF SetField, Truncate, Write, confVars, callVars
  <2> QED BY <2>1, FileKept DEF ThreadSteps
<1>3. \A u \in Threads : u # t => pc'[u] = pc[u]
  BY Names
  DEF ThreadSteps, SetField, Truncate, Write, EmitUnheard, Remove, Read, Assign, Reset, Build,
      BuildFails, Return, Goto, TypeInv, PcType
<1>4. Serving
  BY <1>1 DEF Placed, Busy
<1>5. req[t] = last /\ \A u \in Http : u # t => pc[u] = "idle"
  BY <1>1, <1>2 DEF CallInv, OneRequest, Latest, Busy
<1> QED BY <1>1, <1>2, <1>3, <1>4, <1>5, Names

LEMMA SaveStep == ASSUME TypeInv, Placed, CallInv, SaveInv, [Next]_vars PROVE SaveInv'
<1> USE Names DEF Goto
<1>a. /\ pc \in [Threads -> Places] /\ conf \in Conf /\ mine \in [Threads -> Conf]
      /\ req \in [Http -> 0 .. last]
  BY DEF TypeInv, PcType, ConfType, CallType
<1>1. CASE clash'
  BY <1>1 DEF SaveInv, FieldsSet, Saved
<1>2. CASE \A t \in Http : pc'[t] = "idle"
  BY <1>2 DEF SaveInv, FieldsSet, Saved, Modifying
<1>3. ASSUME NEW t \in Http, ThreadSteps(t), ~clash' PROVE SaveInv'
  <2> DEFINE Ip == conf'["SipServerIp"] = req[t]
             Port == conf'["SipServerPort"] = req[t]
             Passwd == conf'["SipPassWd"] = req[t]
  <2>1. ~clash /\ req' = req /\ \A u \in Http : u # t => pc'[u] = "idle"
    BY <1>3, Alone
  <2>2. SUFFICES
          /\ pc'[t] \in {"SipServerPort", "SipPassWd", "truncate"} => Ip
          /\ pc'[t] \in {"SipPassWd", "truncate"} => Port
          /\ pc'[t] = "truncate" => Passwd
          /\ pc'[t] = "write" => Kept(mine'[t]) = Kept(Whole(req[t]))
          /\ pc'[t] \in {"emit"} \cup Modifying => file' = Kept(Whole(req[t]))
    BY <2>1 DEF SaveInv, FieldsSet, Saved, Modifying
  <2>3. CASE SetField(t)
    <3>1. /\ pc[t] \in Fields /\ conf' = [conf EXCEPT ![pc[t]] = req[t]]
          /\ pc'[t] = Follows[pc[t]]
      BY <2>3, <1>a DEF SetField
    <3>5. CASE pc[t] = "ServerSipDomain"
      BY <3>1, <3>5 DEF Follows, Modifying
    <3>2. CASE pc[t] = "SipServerIp"
      BY <3>1, <3>2, <1>a DEF Follows, Conf, Modifying
    <3>3. CASE pc[t] = "SipServerPort"
      BY <3>1, <3>3, <1>a, <2>1 DEF Follows, Conf, Modifying, SaveInv, FieldsSet
    <3>4. CASE pc[t] = "SipPassWd"
      BY <3>1, <3>4, <1>a, <2>1 DEF Follows, Conf, Modifying, SaveInv, FieldsSet
    <3> QED BY <3>1, <3>2, <3>3, <3>4, <3>5
  <2>4. CASE Truncate(t)
    <3>1. pc[t] = "truncate" /\ pc'[t] = "write" /\ mine'[t] = conf
      BY <2>4, <1>a DEF Truncate
    <3>2. \A f \in InFile : conf[f] = req[t]
      BY <3>1, <2>1 DEF SaveInv, FieldsSet, InFile
    <3>3. Kept(conf) = Kept(Whole(req[t]))
      BY <3>2 DEF Kept, Whole, InFile, Fields
    <3> QED BY <3>1, <3>3 DEF Modifying
  <2>5. CASE Write(t)
    <3>1. pc[t] = "write" /\ pc'[t] = "emit" /\ file' = Kept(mine[t])
      BY <2>5, <1>a DEF Write
    <3> QED BY <3>1, <2>1 DEF SaveInv, FieldsSet
  <2>6. CASE \/ EmitUnheard(t) \/ Remove(t) \/ Read(t) \/ Assign(t)
             \/ Reset(t) \/ Build(t) \/ BuildFails(t)
    <3>1. pc[t] \in {"emit"} \cup Modifying
      <4>1. CASE Remove(t)
        BY <4>1 DEF Remove, TypeInv, PcType, Saving, Modifying
      <4> QED BY <2>6, <4>1
        DEF EmitUnheard, Read, Assign, Reset, Build, BuildFails, Return, Modifying
    <3>3. file' = file
      BY <2>6, FileKept
    <3>2. pc'[t] \in {"idle"} \cup Modifying
      BY <2>6, <1>a DEF EmitUnheard, Remove, Read, Assign, Reset, Build, BuildFails, Return,
                        Modifying
    <3> QED BY <3>1, <3>2, <3>3, <2>1 DEF SaveInv, Saved, Modifying
  <2> QED BY <1>3, <2>3, <2>4, <2>5, <2>6 DEF ThreadSteps
<1>4. ASSUME NEW t \in Http, Request(t), ~clash' PROVE SaveInv'
  <2>1. \A u \in Http : u # t => pc'[u] = "idle"
    BY <1>4, <1>a DEF Request, Busy
  <2>2. pc'[t] = "ServerSipDomain"
    BY <1>4, <1>a DEF Request
  <2> QED BY <2>1, <2>2 DEF SaveInv, FieldsSet, Saved, Modifying
<1>5. CASE ~Serving /\ \A t \in Http : pc'[t] = pc[t]
  BY <1>5, <1>2 DEF Placed
<1>6. CASE /\ UNCHANGED <<conf, file, req>> /\ (clash => clash')
           /\ \A t \in Http : mine'[t] = mine[t] /\ pc'[t] = pc[t]
  BY <1>6 DEF SaveInv, FieldsSet, Saved
<1>7. CASE SetField(Main) \/ EmitUnheard(Main)
  BY <1>7 DEF SetField, EmitUnheard, TypeInv, PcType, Modifying
<1>8. CASE Truncate(Main) \/ Write(Main)
  BY <1>8, <1>5, <1>a DEF Truncate, Write, Serving
<1>9. CASE \/ Remove(Main) \/ Read(Main) \/ Assign(Main)
           \/ Reset(Main) \/ Build(Main) \/ BuildFails(Main)
  <2>1. UNCHANGED <<conf, file, req>> /\ (clash => clash')
    BY <1>9, FileKept
  <2>2. \A t \in Http : mine'[t] = mine[t] /\ pc'[t] = pc[t]
    BY <1>9, <1>a DEF Remove, Read, Assign, Reset, Build, BuildFails, Return, callVars
  <2> QED BY <2>1, <2>2, <1>6
<1>10. CASE LoadConfig \/ LoadFails
  BY <1>10, <1>5, <1>a DEF LoadConfig, LoadFails, Serving
<1>14. CASE Start \/ Listen \/ Guess
  <2>1. UNCHANGED <<conf, file, req, mine, clash>> /\ \A t \in Http : pc'[t] = pc[t]
    BY <1>14, <1>a DEF Start, Listen, Guess, confVars, callVars
  <2> QED BY <2>1, <1>6
<1>11. CASE Crash
  BY <1>11, <1>2 DEF Crash, Volatile
<1>12. CASE UNCHANGED <<conf, file, req, mine, pc, clash>>
  BY <1>12, <1>6
<1>13. \A t \in Threads : ThreadSteps(t) => SaveInv'
  <2>1. ThreadSteps(Main) => SaveInv'
    BY <1>7, <1>8, <1>9 DEF ThreadSteps
  <2> QED BY <2>1, <1>1, <1>3
<1> QED
  BY <1>1, <1>4, <1>10, <1>11, <1>12, <1>13, <1>14
  DEF Next, vars, MainSteps, ServerSteps, Succeeded, Failed, Unanswered, Heartbeat, Beat,
      Challenge, Accept, Refuse, Timeout, Resend, confVars, callVars

WholeInv == Placed /\ FirstStart /\ CallInv /\ SaveInv /\ FileIsWhole /\ Overwriting

(* The defaults are read back as they are saved, and what is saved of a      *)
(* setting parses if the password of the setting has no line break.          *)
LEMMA Defaults ==
  /\ Loaded(Kept(Whole(0))) = Whole(0)
  /\ \A k \in Int : Kept(Whole(k))["SipPassWd"] = k
<1>1. \A k \in Int : Kept(Whole(k))["SipPassWd"] = k
  BY DEF Kept, Whole, InFile, Fields
<1>2. \A f \in InFile : Kept(Whole(0))[f] = 0
  BY DEF Kept, Whole, InFile, Fields
<1>3. \A f \in Fields : Loaded(Kept(Whole(0)))[f] = 0
  BY <1>2, DefaultAssumption DEF Loaded, InFile
<1> QED BY <1>1, <1>3 DEF Loaded, Whole

(* At the start of the process a file that parses holds what can be restored *)
(* of a setting, and one that does not was saved with a line break.          *)
LEMMA AtLoad ==
  ASSUME TypeInv, WholeInv, pc[Main] = "load", ~clash, ~torn
  PROVE  /\ Parses(file) => \E k \in answered .. last : Loaded(file) = Restored(k)
         /\ ~Parses(file) => last = 0 \/ \E k \in answered .. last : k \in Unparsable
<1>1. \A t \in Threads : pc[t] # "write"
  BY Names DEF WholeInv, Placed, Serving
<1>2. answered .. last \subseteq Int /\ answered \in Nat
  BY DEF TypeInv, CallType
<1>3. CASE file = None
  BY <1>3 DEF WholeInv, FirstStart, Parses
<1>4. ASSUME NEW k \in answered .. last, file = Kept(Whole(k)) PROVE
        /\ Parses(file) => Loaded(file) = Restored(k)
        /\ ~Parses(file) => k \in Unparsable
  <2>1. file["SipPassWd"] = k /\ file \in File
    BY <1>2, <1>4, Defaults, Confs
  <2> QED BY <1>4, <2>1, Names DEF Parses, Restored
<1>5. ASSUME NEW k \in answered .. last, k \in Unparsable, file = Kept(Whole(0)) PROVE
        Loaded(file) = Restored(k)
  BY <1>5, Defaults DEF Restored
<1> QED BY <1>1, <1>3, <1>4, <1>5 DEF WholeInv, FileIsWhole

LEMMA OverwritingStep == ASSUME TypeInv, WholeInv, [Next]_vars PROVE Overwriting'
<1> USE Names DEF Goto
<1>a. pc \in [Threads -> Places]
  BY DEF TypeInv, PcType
<1>1. CASE pc'[Main] \notin {"truncate", "write"}
  BY <1>1 DEF Overwriting
<1>2. CASE /\ UNCHANGED <<answered, last>> /\ (clash => clash') /\ (torn => torn')
           /\ pc'[Main] \in {"truncate", "write"} => pc[Main] \in {"truncate", "write"}
  BY <1>2 DEF WholeInv, Overwriting
<1>3. ASSUME NEW t \in Http, Request(t) \/ ThreadSteps(t) PROVE Overwriting'
  <2>1. Serving
    BY <1>3
    DEF Request, ThreadSteps, SetField, Truncate, Write, EmitUnheard, Remove, Read, Assign,
        Reset, Build, BuildFails, Fields, WholeInv, Placed
  <2>2. pc'[Main] = pc[Main]
    <3>1. CASE Request(t)
      BY <3>1, <1>a DEF Request
    <3>2. CASE ThreadSteps(t)
      BY <3>2, <1>a
      DEF ThreadSteps, SetField, Truncate, Write, EmitUnheard, Remove, Read, Assign, Reset,
          Build, BuildFails, Return
    <3> QED BY <1>3, <3>1, <3>2
  <2> QED BY <2>1, <2>2, <1>1 DEF Serving
<1>4. CASE ThreadSteps(Main)
  <2>1. CASE Truncate(Main)
    BY <2>1, <1>2 DEF Truncate
  <2>2. CASE Write(Main) \/ Remove(Main) \/ Read(Main) \/ Assign(Main) \/ Reset(Main)
             \/ Build(Main) \/ BuildFails(Main)
    BY <2>2, <1>a, <1>1 DEF Write, Remove, Read, Assign, Reset, Build, BuildFails, Return
  <2>3. ~SetField(Main) /\ ~EmitUnheard(Main)
    BY DEF SetField, EmitUnheard, TypeInv, PcType, Modifying
  <2> QED BY <1>4, <2>1, <2>2, <2>3 DEF ThreadSteps
<1>5. CASE LoadFails
  <2>1. pc[Main] = "load" /\ ~Parses(file) /\ UNCHANGED <<answered, last, clash, torn>>
    BY <1>5 DEF LoadFails, confVars, callVars
  <2> QED BY <2>1, AtLoad DEF Overwriting
<1>6. CASE LoadConfig \/ Start \/ Listen \/ Guess \/ Crash
  BY <1>6, <1>a, <1>1 DEF LoadConfig, Start, Listen, Guess, Crash, Volatile
<1>7. CASE UNCHANGED <<pc, answered, last, clash, torn>>
  BY <1>7, <1>2
<1> QED
  BY <1>3, <1>4, <1>5, <1>6, <1>7
  DEF Next, vars, MainSteps, ServerSteps, Succeeded, Failed, Unanswered, Heartbeat, Beat,
      Challenge, Accept, Refuse, Timeout, Resend, confVars, callVars

LEMMA FileIsWholeStep == ASSUME TypeInv, WholeInv, [Next]_vars PROVE FileIsWhole'
<1> USE Names DEF Goto, WholeInv
<1>a. /\ pc \in [Threads -> Places] /\ last \in Nat /\ answered \in 0 .. last
      /\ file \in File \cup {None}
  BY DEF TypeInv, PcType, CallType, ConfType
<1>1. CASE clash'
  BY <1>1 DEF FileIsWhole
<1>2. ASSUME \E k \in answered' .. last' : file' = Kept(Whole(k)) PROVE FileIsWhole'
  BY <1>2 DEF FileIsWhole
<1>3. CASE /\ UNCHANGED <<file, answered>> /\ last' \in Nat /\ last' >= last
           /\ ~clash' => ~clash
           /\ ~torn' => ~torn
           /\ \A t \in Threads : pc[t] = "write" => pc'[t] = "write"
  <2>1. answered .. last \subseteq answered' .. last'
    BY <1>3, <1>a
  <2> QED BY <1>3, <2>1 DEF FileIsWhole
<1>4. ASSUME NEW t \in Threads, Truncate(t) PROVE FileIsWhole'
  BY <1>4, <1>a DEF Truncate, FileIsWhole
<1>5. ASSUME NEW t \in Http, Write(t), ~clash' PROVE FileIsWhole'
  <2>1. ~clash /\ req[t] = last /\ last' = last
    BY <1>5, Alone DEF ThreadSteps
  <2>2. file' = Kept(Whole(last')) /\ answered' = answered
    BY <1>5, <2>1 DEF Write, SaveInv, FieldsSet, callVars
  <2>3. last' \in answered' .. last'
    BY <2>1, <2>2, <1>a
  <2> QED BY <1>2, <2>2, <2>3
<1>6. CASE Write(Main)
  <2>1. pc[Main] = "write" /\ file' = Kept(mine[Main]) /\ UNCHANGED <<last, answered, torn, clash>>
    BY <1>6 DEF Write, callVars
  <2>2. file' = Kept(Whole(0))
    BY <2>1 DEF FirstStart
  <2>3. CASE last = 0
    <3>1. 0 \in answered' .. last'
      BY <2>1, <2>3, <1>a
    <3> QED BY <1>2, <2>2, <3>1
  <2>4. ASSUME NEW k \in answered .. last, k \in Unparsable PROVE FileIsWhole'
    BY <2>1, <2>2, <2>4 DEF FileIsWhole
  <2>5. CASE clash \/ torn
    BY <2>1, <2>5 DEF FileIsWhole
  <2> QED BY <2>1, <2>3, <2>4, <2>5 DEF Overwriting
<1>7. ASSUME NEW t \in Http, EmitUnheard(t) \/ Build(t) \/ BuildFails(t), ~clash' PROVE FileIsWhole'
  <2>1. ~clash /\ req[t] = last /\ last' = last
    BY <1>7, Alone DEF ThreadSteps
  <2>2. answered' = last
    BY <1>7, <2>1 DEF EmitUnheard, Build, BuildFails, Return, Answer
  <2>3. pc[t] \in {"emit", "build"} /\ file' = file
    BY <1>7, FileKept DEF EmitUnheard, Build, BuildFails, Return
  <2>4. file' = Kept(Whole(last'))
    BY <2>1, <2>3 DEF SaveInv, Saved, Modifying
  <2>5. last' \in answered' .. last'
    BY <2>1, <2>2, <1>a
  <2> QED BY <1>2, <2>4, <2>5
<1>8. CASE Build(Main) \/ BuildFails(Main)
  <2>1. UNCHANGED <<file, last, torn, clash>> /\ answered' = answered
    BY <1>8 DEF Build, BuildFails, Return, Answer, confVars
  <2>2. \A t \in Threads : pc[t] = "write" => pc'[t] = "write"
    BY <1>8, <1>a DEF Build, BuildFails, Return
  <2> QED BY <2>1, <2>2, <1>3, <1>a
<1>9. ASSUME NEW t \in Threads, Remove(t) \/ Read(t) \/ Assign(t) \/ Reset(t) PROVE FileIsWhole'
  <2>1. UNCHANGED <<file, last, torn>> /\ (clash => clash')
    BY <1>9, FileKept
  <2>2. answered' = answered
    BY <1>9 DEF Remove, Read, Assign, Reset, callVars
  <2>3. \A u \in Threads : pc[u] = "write" => pc'[u] = "write"
    BY <1>9, <1>a DEF Remove, Read, Assign, Reset
  <2> QED BY <2>1, <2>2, <2>3, <1>3, <1>a
<1>10. ASSUME NEW t \in Threads, SetField(t) PROVE FileIsWhole'
  <2>1. UNCHANGED <<file, last, torn, clash, answered>>
    BY <1>10 DEF SetField, callVars
  <2>2. \A u \in Threads : pc[u] = "write" => pc'[u] = "write"
    BY <1>10, <1>a DEF SetField, Fields
  <2> QED BY <2>1, <2>2, <1>3, <1>a
<1>11. ASSUME NEW t \in Http, Request(t), ~clash' PROVE FileIsWhole'
  <2>1. UNCHANGED <<file, torn, answered>> /\ last' = last + 1
    BY <1>11 DEF Request, confVars
  <2>2. clash' = (clash \/ \E u \in Http : Busy(u))
    BY <1>11 DEF Request
  <2>3. \A u \in Threads : pc[u] = "write" => pc'[u] = "write"
    BY <1>11, <1>a DEF Request
  <2>4. ~clash
    BY <1>11, <2>2
  <2> QED BY <2>1, <2>3, <2>4, <1>3, <1>a
<1>12. CASE LoadConfig \/ LoadFails \/ Start \/ Listen \/ Guess
  <2>1. UNCHANGED <<file, last, torn, clash, answered>>
    BY <1>12 DEF LoadConfig, LoadFails, Start, Listen, Guess, confVars, callVars
  <2>2. \A u \in Threads : pc[u] = "write" => pc'[u] = "write"
    BY <1>12, <1>a DEF LoadConfig, LoadFails, Start, Listen, Guess
  <2> QED BY <2>1, <2>2, <1>3, <1>a
<1>13. CASE Crash
  <2>1. UNCHANGED <<file, last, clash, answered>>
    BY <1>13 DEF Crash
  <2>2. ~torn' => ~torn /\ file # Torn
    BY <1>13 DEF Crash
  <2> QED BY <2>1, <2>2 DEF FileIsWhole
<1>14. CASE UNCHANGED <<file, last, torn, clash, answered, pc>>
  BY <1>14, <1>3, <1>a
<1>15. ASSUME NEW t \in Threads, ThreadSteps(t) PROVE FileIsWhole'
  <2>1. ~EmitUnheard(Main)
    BY DEF EmitUnheard, TypeInv, PcType, Modifying
  <2> QED
    BY <1>15, <2>1, <1>1, <1>4, <1>5, <1>6, <1>7, <1>8, <1>9, <1>10 DEF ThreadSteps
<1> QED
  BY <1>1, <1>11, <1>12, <1>13, <1>14, <1>15
  DEF Next, vars, MainSteps, ServerSteps, Succeeded, Failed, Unanswered, Heartbeat, Beat,
      Challenge, Accept, Refuse, Timeout, Resend, confVars, callVars

LEMMA RestartStep ==
  ASSUME TypeInv, WholeInv, RestartIsWhole, [Next]_vars
  PROVE  RestartIsWhole'
<1> USE Names DEF Goto
<1>a. pc \in [Threads -> Places]
  BY DEF TypeInv, PcType
<1>1. CASE LoadConfig
  <2>1. /\ Parses(file) /\ conf' = Loaded(file) /\ pc[Main] = "load"
        /\ UNCHANGED <<torn, clash, answered, last>>
    BY <1>1 DEF LoadConfig, callVars
  <2> QED BY <2>1, AtLoad DEF RestartIsWhole
<1>2. CASE Write(Main)
  <2>1. pc[Main] = "write" /\ UNCHANGED <<conf, last, answered, torn, clash>>
    BY <1>2 DEF Write, callVars
  <2>2. conf' = Whole(0)
    BY <2>1 DEF WholeInv, FirstStart
  <2>3. CASE last = 0
    <3>1. 0 \in answered' .. last'
      BY <2>1, <2>3 DEF TypeInv, CallType
    <3>2. conf' = Restored(0)
      BY <2>2, Defaults, DefaultAssumption DEF Restored
    <3> QED BY <3>1, <3>2 DEF RestartIsWhole
  <2>4. ASSUME NEW k \in answered .. last, k \in Unparsable PROVE RestartIsWhole'
    <3>1. conf' = Restored(k)
      BY <2>2, <2>4 DEF Restored
    <3> QED BY <2>1, <3>1 DEF RestartIsWhole
  <2>5. CASE clash \/ torn
    BY <2>1, <2>5 DEF RestartIsWhole
  <2> QED BY <2>1, <2>3, <2>4, <2>5 DEF WholeInv, Overwriting
<1>3. CASE pc'[Main] # "start"
  BY <1>3 DEF RestartIsWhole
<1>4. CASE UNCHANGED <<pc, conf, torn, clash, answered, last>>
  BY <1>4 DEF RestartIsWhole
<1>5. ASSUME NEW t \in Http, Request(t) \/ ThreadSteps(t) PROVE RestartIsWhole'
  <2>1. Serving
    BY <1>5
    DEF Request, ThreadSteps, SetField, Truncate, Write, EmitUnheard, Remove, Read, Assign,
        Reset, Build, BuildFails, Return, Fields, WholeInv, Placed
  <2>2. pc'[Main] = pc[Main]
    <3>1. CASE Request(t)
      BY <3>1, <1>a DEF Request
    <3>2. CASE ThreadSteps(t)
      BY <3>2, <1>a
      DEF ThreadSteps, SetField, Truncate, Write, EmitUnheard, Remove, Read, Assign, Reset,
          Build, BuildFails, Return
    <3> QED BY <1>5, <3>1, <3>2
  <2> QED BY <2>1, <2>2, <1>3 DEF Serving
<1>6. CASE ThreadSteps(Main)
  <2>1. CASE Truncate(Main) \/ Remove(Main) \/ Read(Main) \/ Assign(Main) \/ Reset(Main)
             \/ Build(Main) \/ BuildFails(Main)
    BY <2>1, <1>a, <1>3 DEF Truncate, Remove, Read, Assign, Reset, Build, BuildFails, Return
  <2>2. ~SetField(Main) /\ ~EmitUnheard(Main)
    BY DEF SetField, EmitUnheard, TypeInv, PcType, Modifying
  <2> QED BY <1>6, <2>1, <2>2, <1>2 DEF ThreadSteps
<1>7. CASE LoadFails \/ Start \/ Listen \/ Guess
  BY <1>7, <1>a, <1>3 DEF LoadFails, Start, Listen, Guess
<1>8. CASE Crash
  BY <1>8, <1>3 DEF Crash, Volatile
<1> QED
  BY <1>1, <1>4, <1>5, <1>6, <1>7, <1>8
  DEF Next, vars, MainSteps, ServerSteps, Succeeded, Failed, Unanswered, Heartbeat, Beat,
      Challenge, Accept, Refuse, Timeout, Resend, confVars, callVars

LEMMA FileInit == Init => FileInv
<1> SUFFICES ASSUME Init PROVE FileInv
  OBVIOUS
<1>1. /\ pc = [t \in Threads |-> IF t = Main THEN "load" ELSE "idle"]
      /\ conf = Whole(0) /\ file = None /\ last = 0
  BY DEF Init
<1>2. pc[Main] = "load" /\ \A t \in Http : pc[t] = "idle"
  BY <1>1, Names
<1>3. CallInv /\ SaveInv /\ RestartIsWhole
  BY <1>2 DEF CallInv, OneRequest, Latest, SaveInv, FieldsSet, Saved, RestartIsWhole, Busy,
              Modifying
<1>4. Placed
  BY InForceInit DEF PlaceInv
<1> QED BY <1>1, <1>2, <1>3, <1>4 DEF FileInv, FirstStart, FileIsWhole, Overwriting

(* After a restart the account is what can be restored of one setting, the   *)
(* last one answered or a later one, unless a crash hit the emptied file or  *)
(* requests overlapped: every field that is saved comes from it, the domain  *)
(* is the default, and a file that does not parse is replaced by the         *)
(* defaults as a whole (TdConf.cpp:5-45, inifile.cpp:160-190, 236-253).      *)
THEOREM RestartsWhole == Spec => []RestartIsWhole
<1>1. Init => TypeInv /\ FileInv
  BY TypeInit, FileInit
<1>2. TypeInv /\ FileInv /\ [Next]_vars => (TypeInv /\ FileInv)'
  <2>1. TypeInv /\ FileInv => WholeInv /\ RestartIsWhole
    BY DEF FileInv, WholeInv
  <2>2. TypeInv /\ WholeInv /\ RestartIsWhole /\ [Next]_vars
          => FileIsWhole' /\ Overwriting' /\ RestartIsWhole'
    BY FileIsWholeStep, OverwritingStep, RestartStep
  <2>3. TypeInv /\ FileInv /\ [Next]_vars
          => (TypeInv /\ Placed /\ FirstStart /\ CallInv /\ SaveInv)'
    BY TypeStep, PlacedStep, FirstStartStep, CallStep, SaveStep DEF FileInv
  <2> QED BY <2>1, <2>2, <2>3 DEF FileInv
<1>3. FileInv => RestartIsWhole
  BY DEF FileInv
<1> QED BY <1>1, <1>2, <1>3, PTL DEF Spec

-----------------------------------------------------------------------------
(* The heartbeat.  is_register, and a success that is still queued, belong   *)
(* to the address in force, except between the change of the address and the *)
(* reset of the flag; what the heartbeat has tested is then marked by moved. *)

Success == is_register \/ \E i \in DOMAIN events : events[i] = 200
SuccessIsOurs ==
  Success => clash \/ crossed \/ Accepted \/ \E t \in Threads : pc[t] = "reset"
TestMoved == heartbeat = "build" => moved \/ \A t \in Threads : pc[t] # "reset"
BeatInv == SuccessIsOurs /\ TestMoved /\ HeartbeatHasCause

(* Nothing but the change of the address takes back that it was accepted.    *)
LEMMA AcceptedKept ==
  ASSUME TypeInv, [Next]_vars, to_sip' = to_sip, ~Crash, Accepted
  PROVE  Accepted'
<1>1. PICK q \in DOMAIN regs : regs[q].uri = to_sip /\ regs[q].was
  BY DEF Accepted
<1>2. ASSUME q \in DOMAIN regs', regs'[q].uri = regs[q].uri, regs[q].was => regs'[q].was
      PROVE  Accepted'
  BY <1>1, <1>2 DEF Accepted
<1>3. ASSUME NEW r, FromServer(r) PROVE Accepted'
  <2>1. PICK g \in Registration : /\ regs' = [regs EXCEPT ![r] = g]
                                 /\ g.uri = regs[r].uri /\ (regs[r].was => g.was)
    BY <1>3, ServerStep
  <2>2. /\ DOMAIN regs' = DOMAIN regs
        /\ regs'[q] = IF q = r THEN g ELSE regs[q]
    BY <2>1, <1>1 DEF TypeInv, RegsType
  <2> QED BY <2>1, <2>2, <1>1, <1>2
<1>4. ASSUME NEW t \in Threads, Remove(t) PROVE Accepted'
  BY <1>4, <1>1, <1>2, RemoveStep
<1>5. ASSUME NEW t \in Threads, Build(t) PROVE Accepted'
  <2>1. to_sip # None
    BY <1>5 DEF Build, BuildFails, Return, TypeInv, SipType
  <2> QED BY <1>5, <2>1, <1>1, <1>2, BuildStep
<1>6. CASE UNCHANGED regs
  BY <1>6, <1>1, <1>2
<1> QED
  BY <1>3, <1>4, <1>5, <1>6
  DEF FromServer, Next, vars, ThreadSteps, MainSteps, ServerSteps, Request, SetField, Truncate,
      Write, EmitUnheard, Read, Assign, Reset, BuildFails, LoadConfig, LoadFails, Start, Listen,
      Guess, Succeeded, Failed, Unanswered, Heartbeat, Beat, sipVars

(* What a server accepts is the registration of the address in force.        *)
LEMMA AcceptIsOurs ==
  ASSUME TypeInv, PlaceInv, RegInv, NEW r, Accept(r), ~clash
  PROVE  Accepted'
<1>1. r \in DOMAIN regs /\ regs[r].state # "removed"
  BY ServerStep DEF FromServer
<1>2. r = register_id
  BY <1>1 DEF RegInv, OldRemoved
<1>4. register_id \notin {-1, Error}
  BY <1>1, <1>2 DEF TypeInv, RegsType, Error
<1>5. Calm
  BY <1>4 DEF Calm, RegInv, NoneYet
<1>6. regs[r].uri = to_sip
  BY <1>1, <1>2, <1>5 DEF RegInv, NewBuilt
<1>7. regs[r] \in Registration
  BY <1>1 DEF TypeInv, RegsType
<1> DEFINE g == [regs[r] EXCEPT !.state = "ok", !.was = TRUE]
<1>8. g.uri = to_sip /\ g.was
  BY <1>6, <1>7 DEF Registration
<1>9. regs' = [regs EXCEPT ![r] = g] /\ to_sip' = to_sip
  BY <1>1, <1>7 DEF Accept, Registration
<1> HIDE DEF g
<1>10. r \in DOMAIN regs' /\ regs'[r] = g
  BY <1>1, <1>9 DEF TypeInv, RegsType
<1> QED BY <1>8, <1>9, <1>10 DEF Accepted

LEMMA ClashStays == ASSUME [Next]_vars, clash PROVE clash'
<1>1. ASSUME NEW t \in Http, Request(t) PROVE clash'
  <2>1. clash' = (clash \/ \E u \in Http : Busy(u))
    BY <1>1 DEF Request
  <2> QED BY <2>1
<1>2. ASSUME NEW t \in Threads, Remove(t) PROVE clash'
  BY <1>2, FileKept
<1>3. CASE clash' = clash
  BY <1>3
<1> QED
  BY <1>1, <1>2, <1>3
  DEF Next, vars, ThreadSteps, MainSteps, ServerSteps, SetField, Truncate, Write, EmitUnheard,
      Read, Assign, Reset, Build, BuildFails, Return, LoadConfig, LoadFails, Start, Listen, Guess,
      Succeeded, Failed, Unanswered, Heartbeat, Beat, Crash, Challenge, Accept, Refuse, Timeout,
      Resend, callVars

(* The steps that leave alone what the heartbeat depends on, besides the     *)
(* state of registrations.                                                   *)
Apart ==
  /\ UNCHANGED <<is_register, events, crossed, to_sip, heartbeat, moved>>
  /\ \A t \in Threads : pc[t] = "reset" <=> pc'[t] = "reset"

LEMMA ApartSteps ==
  ASSUME TypeInv, NEW t \in Threads, Request(t) \/ ThreadSteps(t), ~Assign(t), ~Reset(t)
  PROVE  Apart
<1>a. pc \in [Threads -> Places]
  BY DEF TypeInv, PcType
<1> USE DEF Goto, Apart, sipVars
<1>1. CASE SetField(t)
  BY <1>1, <1>a DEF SetField, Follows, Fields
<1>2. CASE Truncate(t) \/ Write(t) \/ EmitUnheard(t)
  BY <1>2, <1>a DEF Truncate, Write, EmitUnheard
<1>3. CASE Remove(t)
  <2>1. pc[t] # "reset" /\ pc' = [pc EXCEPT ![t] = "read"]
    BY <1>3 DEF Remove
  <2>2. UNCHANGED <<is_register, events, crossed, to_sip, heartbeat, moved>>
    BY <1>3 DEF Remove
  <2> QED BY <2>1, <2>2, <1>a
<1>4. CASE Read(t) \/ Build(t) \/ BuildFails(t)
  BY <1>4, <1>a DEF Read, Build, BuildFails, Return
<1>5. CASE Request(t)
  BY <1>5, <1>a DEF Request
<1> QED BY <1>1, <1>2, <1>3, <1>4, <1>5 DEF ThreadSteps

LEMMA ApartMain ==
  ASSUME TypeInv,
         LoadConfig \/ LoadFails \/ Start \/ Listen \/ Guess \/ UNCHANGED vars
  PROVE  Apart
<1>a. pc \in [Threads -> Places]
  BY DEF TypeInv, PcType
<1>1. CASE UNCHANGED vars
  BY <1>1 DEF vars, sipVars, Apart
<1> QED BY <1>1, <1>a DEF LoadConfig, LoadFails, Start, Listen, Guess, Goto, Apart, sipVars

LEMMA SuccessStep ==
  ASSUME TypeInv, PlaceInv, RegInv, SuccessIsOurs, [Next]_vars
  PROVE  SuccessIsOurs'
<1> DEFINE Cause == clash \/ crossed \/ Accepted \/ \E t \in Threads : pc[t] = "reset"
<1>a. events \in Seq({0, 200, 401})
  BY DEF TypeInv, EventType
<1>1. CASE Crash
  BY <1>1 DEF Crash, Volatile, SuccessIsOurs, Success
<1>2. ASSUME NEW t \in Threads, Assign(t) PROVE SuccessIsOurs'
  <2>1. pc'[t] = "reset"
    BY <1>2 DEF Assign, Goto, TypeInv, PcType
  <2> QED BY <2>1 DEF SuccessIsOurs
<1>3. ASSUME NEW t \in Threads, Reset(t) PROVE SuccessIsOurs'
  <2>1. ~is_register' /\ events' = events /\ crossed' = Queued(200)
    BY <1>3 DEF Reset
  <2>2. Success' => Queued(200)
    BY <2>1 DEF Success, Queued
  <2> QED BY <2>1, <2>2 DEF SuccessIsOurs
<1>4. CASE ~Crash /\ (Success' => Success) /\ UNCHANGED <<crossed, to_sip>>
           /\ \A t \in Threads : pc[t] = "reset" => pc'[t] = "reset"
  <2>1. Cause => Cause'
    BY <1>4, AcceptedKept, ClashStays
  <2> QED BY <1>4, <2>1 DEF SuccessIsOurs
<1>5. ASSUME NEW r, Accept(r) PROVE SuccessIsOurs'
  BY <1>5, AcceptIsOurs, ClashStays DEF SuccessIsOurs
<1>6. ASSUME NEW r, Challenge(r) \/ Refuse(r) \/ Timeout(r) PROVE SuccessIsOurs'
  <2>1. PICK e \in {0, 401} : events' = Append(events, e)
    BY <1>6 DEF Challenge, Refuse, Timeout, Event
  <2>4. UNCHANGED <<is_register, crossed, to_sip, pc, crashes>>
    BY <1>6 DEF Challenge, Refuse, Timeout
  <2>2. (\E i \in DOMAIN events' : events'[i] = 200) => \E i \in DOMAIN events : events[i] = 200
    BY <2>1, <1>a
  <2>3. ~Crash
    BY <2>1, <1>a DEF Crash, Volatile
  <2> QED BY <2>2, <2>3, <2>4, <1>4 DEF Success
<1>7. CASE Succeeded \/ Failed \/ Unanswered
  <2>1. events # <<>> /\ events' = Tail(events) /\ UNCHANGED <<crossed, to_sip, pc, crashes>>
    BY <1>7 DEF Succeeded, Failed, Unanswered
  <2>2. (\E i \in DOMAIN events' : events'[i] = 200) => \E i \in DOMAIN events : events[i] = 200
    BY <2>1, <1>a
  <2>3. is_register' => Success
    <3>1. CASE Succeeded
      <4>1. 1 \in DOMAIN events /\ events[1] = 200
        BY <3>1, <1>a DEF Succeeded
      <4> QED BY <4>1 DEF Success
    <3>2. CASE Failed \/ Unanswered
      BY <3>2 DEF Failed, Unanswered, Success
    <3> QED BY <1>7, <3>1, <3>2
  <2>4. Success' => Success
    BY <2>2, <2>3 DEF Success
  <2>5. CASE Crash
    BY <2>5, <1>1
  <2> QED BY <2>1, <2>4, <2>5, <1>4
<1>8. CASE Apart
  <2>1. CASE Crash
    BY <2>1, <1>1
  <2> QED BY <1>8, <2>1, <1>4 DEF Apart, Success
<1>9. CASE UNCHANGED <<is_register, events, crossed, to_sip, pc>>
  <2>1. CASE Crash
    BY <2>1, <1>1
  <2> QED BY <1>9, <2>1, <1>4 DEF Success
<1>10. ASSUME NEW r, Resend(r) PROVE SuccessIsOurs'
  BY <1>10, <1>9 DEF Resend
<1>11. CASE Heartbeat \/ Beat
  BY <1>11, <1>9 DEF Heartbeat, Beat
<1>12. ASSUME NEW t \in Threads, Request(t) \/ ThreadSteps(t) PROVE SuccessIsOurs'
  BY <1>12, <1>2, <1>3, <1>8, ApartSteps
<1>13. CASE LoadConfig \/ LoadFails \/ Start \/ Listen \/ Guess \/ UNCHANGED vars
  BY <1>13, <1>8, ApartMain
<1> QED
  BY <1>1, <1>5, <1>6, <1>7, <1>10, <1>11, <1>12, <1>13, Names
  DEF Next, MainSteps, ServerSteps

LEMMA BeatStep ==
  ASSUME TypeInv, BeatInv, [Next]_vars
  PROVE  TestMoved' /\ HeartbeatHasCause'
<1> USE DEF BeatInv
<1>1. CASE Crash
  BY <1>1 DEF Crash, Volatile, TestMoved, HeartbeatHasCause
<1>2. ASSUME NEW t \in Threads, Assign(t) PROVE TestMoved' /\ HeartbeatHasCause'
  BY <1>2 DEF Assign, TestMoved, HeartbeatHasCause
<1>3. ASSUME NEW t \in Threads, Reset(t) PROVE TestMoved' /\ HeartbeatHasCause'
  <2>1. pc[t] = "reset" /\ heartbeat' = heartbeat /\ moved' = moved
    BY <1>3 DEF Reset
  <2> QED BY <2>1 DEF TestMoved, HeartbeatHasCause
<1>4. CASE Heartbeat
  <2>1. /\ is_register /\ UNCHANGED <<pc, crossed, clash, to_sip, regs>>
        /\ moved' = \E t \in Threads : pc[t] = "reset"
    BY <1>4 DEF Heartbeat, callVars
  <2>2. Accepted => Accepted'
    BY <2>1 DEF Accepted
  <2>3. clash \/ crossed \/ Accepted \/ \E t \in Threads : pc[t] = "reset"
    BY <2>1 DEF SuccessIsOurs, Success
  <2> QED BY <2>1, <2>2, <2>3 DEF TestMoved, HeartbeatHasCause
<1>5. CASE Beat
  BY <1>5 DEF Beat, TestMoved, HeartbeatHasCause
<1>6. CASE ~Crash /\ UNCHANGED <<heartbeat, moved, crossed, to_sip>>
           /\ \A t \in Threads : pc[t] = "reset" <=> pc'[t] = "reset"
  BY <1>6, AcceptedKept, ClashStays DEF TestMoved, HeartbeatHasCause
<1>7. ASSUME NEW r, FromServer(r) PROVE TestMoved' /\ HeartbeatHasCause'
  BY <1>7, <1>1, <1>6 DEF FromServer, Challenge, Accept, Refuse, Timeout, Resend
<1>8. CASE Succeeded \/ Failed \/ Unanswered
  BY <1>8, <1>1, <1>6 DEF Succeeded, Failed, Unanswered
<1>9. ASSUME NEW t \in Threads, Request(t) \/ ThreadSteps(t) PROVE TestMoved' /\ HeartbeatHasCause'
  BY <1>9, <1>1, <1>2, <1>3, <1>6, ApartSteps DEF Apart
<1>10. CASE LoadConfig \/ LoadFails \/ Start \/ Listen \/ Guess \/ UNCHANGED vars
  BY <1>10, <1>1, <1>6, ApartMain DEF Apart
<1> QED
  BY <1>1, <1>4, <1>5, <1>7, <1>8, <1>9, <1>10, Names
  DEF FromServer, Next, MainSteps, ServerSteps

LEMMA BeatInit == Init => BeatInv
BY DEF Init, BeatInv, SuccessIsOurs, Success, TestMoved, HeartbeatHasCause

(* A heartbeat goes only to a server that has accepted the device, with the  *)
(* exceptions the property names (TdDevice.cpp:79-80, 111-118, 398-408).     *)
THEOREM BeatsHaveCause == Spec => []HeartbeatHasCause
<1> DEFINE Inv == TypeInv /\ PlaceInv /\ RegInv /\ BeatInv
<1>1. Init => Inv
  BY TypeInit, InForceInit, BeatInit
<1>2. Inv /\ [Next]_vars => Inv'
  BY TypeStep, PlacedStep, OneModifyStep, RegStep, SuccessStep, BeatStep
  DEF PlaceInv, BeatInv
<1>3. Inv => HeartbeatHasCause
  BY DEF BeatInv
<1> HIDE DEF Inv
<1> QED BY <1>1, <1>2, <1>3, PTL DEF Spec
=============================================================================
