---------------------------- MODULE Registration ----------------------------
(* The GB28181 account of the device: TdConf and its file config.ini, the    *)
(* setGB28181config handler on the HTTP threads, the modifyRegister event,   *)
(* and the registration with the SIP server.  The main thread starts it all  *)
(* and then handles the SIP events; the process may crash and start again.   *)
(*                                                                           *)
(* A setting is a number, 0 the defaults of TdConf.h; a field holds the      *)
(* number of the setting it comes from.  Four fields stand for ten: the      *)
(* domain, which is never saved, a string and an int of the SIP address, and *)
(* the credentials.                                                          *)
EXTENDS Integers, Sequences

CONSTANTS
  Http,        \* threads of the HTTP server
  Main,        \* the thread of main and process_request
  MaxSettings, \* bound: setGB28181config requests
  MaxCrashes,  \* bound: crashes of the process
  MaxEvents,   \* bound: events waiting in eXosip
  MaxLost,     \* bound: REGISTERs nobody answers
  Commented,   \* settings with a '#' in the password
  Unparsable,  \* settings with a line break, and no '=' after it, in the password
  Nameless,    \* settings with an empty user name
  None

ASSUME BoundAssumption ==
  MaxSettings \in Nat /\ MaxCrashes \in Nat /\ MaxEvents \in Nat /\ MaxLost \in Nat
ASSUME ThreadAssumption == Main \notin Http
ASSUME DefaultAssumption == 0 \notin Commented \cup Unparsable  \* the password of TdConf.h

Threads == Http \cup {Main}
Fields  == {"ServerSipDomain", "SipServerIp", "SipServerPort", "SipPassWd"}
InFile  == {"SipServerIp", "SipServerPort", "SipPassWd"}
Zero    == -1                            \* atoi of a value that is not there
Cut     == -2                            \* a value up to its '#'
Error   == -2                            \* an error code of eXosip for an id
Conf    == [Fields -> Int]
File    == [InFile -> Int]
Uris    == [{"SipServerIp", "SipServerPort"} -> Int]
Whole(k) == [f \in Fields |-> k]
Kept(c)  == [f \in InFile |-> c[f]]
Torn     == [Kept(Whole(0)) EXCEPT !["SipServerPort"] = Zero]
ASSUME NoneAssumption == None \notin File \cup Int \cup Uris

VARIABLES
  conf,      \* mGB28121Ctx
  file,      \* config.ini: None if there is none, Torn if it is empty
  pc, req,   \* of a thread: its next step; the setting it brings
  mine,      \* of a thread: what it has read and not yet stored
  listening, \* modifyRegister has its listener
  local_ip, from_sip, \* the local address is guessed; from_sip was built with it
  seen,      \* of a thread: local_ip as setGB28181Param has read it
  to_sip, is_register, register_id,
  auth,      \* the password eXosip was given
  regs,      \* eXosip's registrations: addresses and state
  events,    \* eXosip's event queue
  heartbeat, \* "sleep" or "build", between the check and create_msg
  last,      \* history: settings requested
  answered,  \* history: the last one whose request has returned
  crashes,   \* history: crashes so far
  lost,      \* history: REGISTERs nobody answered
  torn,      \* history: a crash came between truncating and writing the file
  clash,     \* history: requests, or calls of modifyRegister, overlapped
  crossed,   \* history: a success was still queued when is_register was last reset
  moved      \* history: to_sip has changed since the heartbeat's check

confVars == <<conf, file, torn>>
callVars == <<req, mine, last, answered, clash>>
fromVars == <<local_ip, from_sip, seen>>
sipVars  == <<to_sip, is_register, register_id, auth, regs, events, heartbeat,
              crossed, moved, lost>>
vars == <<confVars, pc, callVars, listening, fromVars, sipVars, crashes>>

Goto(t, s) == pc' = [pc EXCEPT ![t] = s]

(* What a new process begins with.                                           *)
Volatile ==
  /\ conf' = Whole(0) /\ pc' = [t \in Threads |-> IF t = Main THEN "load" ELSE "idle"]
  /\ mine' = [t \in Threads |-> Whole(0)] /\ listening' = FALSE
  /\ local_ip' = FALSE /\ from_sip' = FALSE /\ seen' = [t \in Threads |-> FALSE]
  /\ to_sip' = None /\ is_register' = FALSE /\ register_id' = -1 /\ auth' = None
  /\ regs' = <<>> /\ events' = <<>> /\ heartbeat' = "sleep"
  /\ crossed' = FALSE /\ moved' = FALSE

Init ==
  /\ conf = Whole(0) /\ pc = [t \in Threads |-> IF t = Main THEN "load" ELSE "idle"]
  /\ mine = [t \in Threads |-> Whole(0)] /\ listening = FALSE
  /\ local_ip = FALSE /\ from_sip = FALSE /\ seen = [t \in Threads |-> FALSE]
  /\ to_sip = None /\ is_register = FALSE /\ register_id = -1 /\ auth = None
  /\ regs = <<>> /\ events = <<>> /\ heartbeat = "sleep"
  /\ crossed = FALSE /\ moved = FALSE
  /\ file = None /\ req = [t \in Http |-> 0] /\ last = 0 /\ answered = 0
  /\ crashes = 0 /\ lost = 0 /\ torn = FALSE /\ clash = FALSE

-----------------------------------------------------------------------------
(* The configuration and its file.                                           *)

(* Load gives up at a line without a '=', as the rest of a password with a   *)
(* line break is, and cuts a value at '#'.  Of a file without the keys the   *)
(* strings keep what they have, and the ints become what atoi makes of       *)
(* nothing; the domain is not read.                                          *)
Parses(s) == s # None /\ s["SipPassWd"] \notin Unparsable
Loaded(s) ==
  [f \in Fields |-> CASE f \notin InFile                               -> 0
                     [] f = "SipPassWd" /\ s["SipPassWd"] \in Commented -> Cut
                     [] OTHER                                          -> s[f]]

LoadConfig ==
  /\ pc[Main] = "load" /\ Parses(file)
  /\ conf' = Loaded(file) /\ Goto(Main, "start")
  /\ UNCHANGED <<file, torn, callVars, listening, fromVars, sipVars, crashes>>

(* No file, or one that does not parse: the defaults are saved over it.      *)
LoadFails ==
  /\ pc[Main] = "load" /\ ~Parses(file) /\ Goto(Main, "truncate")
  /\ UNCHANGED <<confVars, callVars, listening, fromVars, sipVars, crashes>>

(* saveConfig: the keys are set and joined to one string; opening the stream *)
(* truncates the file, closing it writes the string.                         *)
Truncate(t) ==
  /\ pc[t] = "truncate" /\ Goto(t, "write")
  /\ mine' = [mine EXCEPT ![t] = conf] /\ file' = Torn
  /\ UNCHANGED <<conf, torn, req, last, answered, clash, listening, fromVars, sipVars, crashes>>

Write(t) ==
  /\ pc[t] = "write" /\ Goto(t, IF t = Main THEN "start" ELSE "emit")
  /\ file' = Kept(mine[t])
  /\ UNCHANGED <<conf, torn, callVars, listening, fromVars, sipVars, crashes>>

-----------------------------------------------------------------------------
(* setGB28181config on an HTTP thread.                                       *)

Busy(t) == pc[t] # "idle"
Serving == pc[Main] \notin {"load", "truncate", "write", "start"}

Request(t) ==
  /\ Serving /\ pc[t] = "idle" /\ last < MaxSettings
  /\ last' = last + 1 /\ req' = [req EXCEPT ![t] = last + 1]
  /\ clash' = (clash \/ \E u \in Http : Busy(u))
  /\ Goto(t, "ServerSipDomain")
  /\ UNCHANGED <<confVars, mine, answered, listening, fromVars, sipVars, crashes>>

(* Mutant: the password is left for a handler of its own.                    *)
FollowsEarly == [ServerSipDomain |-> "SipServerIp", SipServerIp |-> "SipServerPort",
                 SipServerPort |-> "truncate", SipPassWd |-> "emit"]

Follows == [ServerSipDomain |-> "SipServerIp", SipServerIp |-> "SipServerPort",
            SipServerPort |-> "SipPassWd", SipPassWd |-> "truncate"]

SetField(t) ==
  /\ pc[t] \in Fields
  /\ conf' = [conf EXCEPT ![pc[t]] = req[t]] /\ Goto(t, Follows[pc[t]])
  /\ UNCHANGED <<file, torn, callVars, listening, fromVars, sipVars, crashes>>

Answer(t) == answered' = IF t \in Http THEN req[t] ELSE answered

(* emitEvent: nobody hears it before the listener is there.                  *)
EmitUnheard(t) ==
  /\ pc[t] = "emit" /\ ~listening
  /\ Goto(t, "idle") /\ Answer(t)
  /\ UNCHANGED <<confVars, req, mine, last, clash, listening, fromVars, sipVars, crashes>>

InModify(t) == pc[t] \in {"read", "assign", "reset", "build"}

(* Mutant: the old registration is forgotten, and eXosip keeps it.           *)
RemoveNone(t) ==
  /\ pc[t] = "modify" \/ (pc[t] = "emit" /\ listening)
  /\ clash' = (clash \/ \E u \in Threads : InModify(u))
  /\ register_id' = IF register_id > 0 THEN -1 ELSE register_id
  /\ Goto(t, "read")
  /\ UNCHANGED <<confVars, req, mine, last, answered, listening, fromVars, to_sip, is_register,
                 auth, regs, events, heartbeat, crossed, moved, lost, crashes>>

(* emitEvent, the listener, and the first step of modifyRegister; the main   *)
(* thread comes here when it has guessed the local address.                  *)
Remove(t) ==
  /\ pc[t] = "modify" \/ (pc[t] = "emit" /\ listening)
  /\ clash' = (clash \/ \E u \in Threads : InModify(u))
  /\ regs' = [r \in DOMAIN regs |->
                IF r = register_id THEN [regs[r] EXCEPT !.state = "removed"] ELSE regs[r]]
  /\ register_id' = IF register_id > 0 THEN -1 ELSE register_id
  /\ Goto(t, "read")
  /\ UNCHANGED <<confVars, req, mine, last, answered, listening, fromVars, to_sip, is_register,
                 auth, events, heartbeat, crossed, moved, lost, crashes>>

(* setGB28181Param                                                           *)
Uri(c) == [f \in {"SipServerIp", "SipServerPort"} |-> c[f]]

Read(t) ==
  /\ pc[t] = "read" /\ Goto(t, "assign")
  /\ mine' = [mine EXCEPT ![t] = conf] /\ seen' = [seen EXCEPT ![t] = local_ip]
  /\ UNCHANGED <<confVars, req, last, answered, clash, listening, local_ip, from_sip, sipVars,
                 crashes>>

Assign(t) ==
  /\ pc[t] = "assign" /\ Goto(t, "reset")
  /\ to_sip' = Uri(mine[t]) /\ from_sip' = seen[t] /\ moved' = TRUE
  /\ UNCHANGED <<confVars, callVars, listening, local_ip, seen, is_register, register_id, auth,
                 regs, events, heartbeat, crossed, lost, crashes>>

Queued(e) == \E i \in DOMAIN events : events[i] = e

(* Mutant: the registration that was removed stays good.                     *)
ResetKeeps(t) ==
  /\ pc[t] = "reset" /\ Goto(t, "build")
  /\ auth' = None /\ crossed' = Queued(200)
  /\ UNCHANGED <<confVars, callVars, listening, fromVars, is_register, to_sip, register_id,
                 regs, events, heartbeat, moved, lost, crashes>>

Reset(t) ==
  /\ pc[t] = "reset" /\ Goto(t, "build")
  /\ is_register' = FALSE /\ auth' = None /\ crossed' = Queued(200)
  /\ UNCHANGED <<confVars, callVars, listening, fromVars, to_sip, register_id, regs, events,
                 heartbeat, moved, lost, crashes>>

Return(t) == Goto(t, IF t = Main THEN "serve" ELSE "idle") /\ Answer(t)
New == [uri |-> to_sip, from |-> from_sip, state |-> "sent", with |-> None, was |-> FALSE]

(* Mutant: the id counts from zero.                                          *)
BuildIndex(t) ==
  /\ pc[t] = "build" /\ Return(t)
  /\ regs' = Append(regs, New) /\ register_id' = Len(regs)
  /\ UNCHANGED <<confVars, req, mine, last, clash, listening, fromVars, is_register, to_sip, auth,
                 events, heartbeat, crossed, moved, lost, crashes>>

(* eXosip builds and sends the REGISTER; there is no nonce for it to answer. *)
Build(t) ==
  /\ pc[t] = "build" /\ Return(t)
  /\ regs' = Append(regs, New) /\ register_id' = Len(regs')
  /\ UNCHANGED <<confVars, req, mine, last, clash, listening, fromVars, is_register, to_sip, auth,
                 events, heartbeat, crossed, moved, lost, crashes>>

(* eXosip cannot build it: the error is logged, and nothing is sent.         *)
BuildFails(t) ==
  /\ pc[t] = "build" /\ Return(t) /\ register_id' = Error
  /\ UNCHANGED <<confVars, req, mine, last, clash, listening, fromVars, is_register, to_sip, auth,
                 regs, events, heartbeat, crossed, moved, lost, crashes>>

-----------------------------------------------------------------------------
(* eXosip and the SIP servers; nothing is heard of a registration that was   *)
(* removed.                                                                  *)

Registrations == 1 .. MaxSettings + 1
In(r, S) == r \in DOMAIN regs /\ regs[r].state \in S
To(r, s) == regs' = [regs EXCEPT ![r].state = s]
Event(e) == Len(events) < MaxEvents /\ events' = Append(events, e)

\* the password is that of the address
Known(r) == \A f \in DOMAIN regs[r].uri : regs[r].uri[f] = regs[r].with

Challenge(r) ==
  /\ In(r, {"sent"}) /\ regs[r].with = None
  /\ Event(401) /\ To(r, "failed")
  /\ UNCHANGED <<confVars, pc, callVars, listening, fromVars, is_register, to_sip, register_id,
                 auth, heartbeat, crossed, moved, lost, crashes>>

Accept(r) ==
  /\ In(r, {"sent"}) /\ Known(r)
  /\ Event(200) /\ regs' = [regs EXCEPT ![r].state = "ok", ![r].was = TRUE]
  /\ UNCHANGED <<confVars, pc, callVars, listening, fromVars, is_register, to_sip, register_id,
                 auth, heartbeat, crossed, moved, lost, crashes>>

Refuse(r) ==
  /\ In(r, {"sent"}) /\ regs[r].with # None /\ ~Known(r)
  /\ Event(401) /\ To(r, "failed")
  /\ UNCHANGED <<confVars, pc, callVars, listening, fromVars, is_register, to_sip, register_id,
                 auth, heartbeat, crossed, moved, lost, crashes>>

(* Nobody answers: the event has no response.                                *)
Timeout(r) ==
  /\ In(r, {"sent"}) /\ lost < MaxLost /\ lost' = lost + 1
  /\ Event(0) /\ To(r, "failed")
  /\ UNCHANGED <<confVars, pc, callVars, listening, fromVars, is_register, to_sip, register_id,
                 auth, heartbeat, crossed, moved, crashes>>

(* eXosip_automatic_action: a failed registration is sent once more, with    *)
(* what authentication there is, and one that is about to expire is too.     *)
Resend(r) ==
  /\ pc[Main] = "serve" /\ In(r, {"failed", "ok"})
  /\ regs' = [regs EXCEPT ![r].state = "sent", ![r].with = auth]
  /\ UNCHANGED <<confVars, pc, callVars, listening, fromVars, is_register, to_sip, register_id,
                 auth, events, heartbeat, crossed, moved, lost, crashes>>

(* process_request, with the event it has waited for.                        *)
Succeeded ==
  /\ pc[Main] = "serve" /\ events # <<>> /\ Head(events) = 200
  /\ is_register' = TRUE /\ events' = Tail(events)
  /\ UNCHANGED <<confVars, pc, callVars, listening, fromVars, to_sip, register_id, auth, regs,
                 heartbeat, crossed, moved, lost, crashes>>

(* Mutant: the password the device was built with.                           *)
FailedDefault ==
  /\ pc[Main] = "serve" /\ events # <<>> /\ Head(events) = 401
  /\ auth' = 0 /\ events' = Tail(events)
  /\ UNCHANGED <<confVars, pc, callVars, listening, fromVars, is_register, to_sip, register_id,
                 regs, heartbeat, crossed, moved, lost, crashes>>

(* eXosip takes no credentials without a user name: the old ones stay.       *)
Failed ==
  /\ pc[Main] = "serve" /\ events # <<>> /\ Head(events) = 401
  /\ auth' = IF conf["SipPassWd"] \in Nameless THEN auth ELSE conf["SipPassWd"]
  /\ events' = Tail(events)
  /\ UNCHANGED <<confVars, pc, callVars, listening, fromVars, is_register, to_sip, register_id,
                 regs, heartbeat, crossed, moved, lost, crashes>>

Unanswered ==
  /\ pc[Main] = "serve" /\ events # <<>> /\ Head(events) = 0 /\ events' = Tail(events)
  /\ UNCHANGED <<confVars, pc, callVars, listening, fromVars, is_register, to_sip, register_id,
                 auth, regs, heartbeat, crossed, moved, lost, crashes>>

-----------------------------------------------------------------------------
(* heartbeat_task tests is_register, and then builds and sends the message.  *)
Heartbeat ==
  /\ pc[Main] = "serve" /\ heartbeat = "sleep" /\ is_register
  /\ heartbeat' = "build" /\ moved' = \E t \in Threads : pc[t] = "reset"
  /\ UNCHANGED <<confVars, pc, callVars, listening, fromVars, is_register, to_sip, register_id,
                 auth, regs, events, crossed, lost, crashes>>

Beat ==
  /\ heartbeat = "build" /\ heartbeat' = "sleep"
  /\ UNCHANGED <<confVars, pc, callVars, listening, fromVars, is_register, to_sip, register_id,
                 auth, regs, events, crossed, moved, lost, crashes>>

-----------------------------------------------------------------------------
(* main starts the HTTP server, and TdDevice::init then adds the listener,   *)
(* guesses the local address and calls modifyRegister.                       *)
Start ==
  /\ pc[Main] = "start" /\ Goto(Main, "listen")
  /\ UNCHANGED <<confVars, callVars, listening, fromVars, sipVars, crashes>>

Listen ==
  /\ pc[Main] = "listen" /\ Goto(Main, "guess") /\ listening' = TRUE
  /\ UNCHANGED <<confVars, callVars, fromVars, sipVars, crashes>>

Guess ==
  /\ pc[Main] = "guess" /\ Goto(Main, "modify") /\ local_ip' = TRUE
  /\ UNCHANGED <<confVars, callVars, listening, from_sip, seen, sipVars, crashes>>

(* The process ends, by a crash or since main returns when the SIP port is   *)
(* taken, and is started anew; the file stays as it is.                      *)
Crash ==
  /\ crashes < MaxCrashes /\ crashes' = crashes + 1
  /\ Volatile
  /\ torn' = (torn \/ file = Torn)
  /\ UNCHANGED <<file, req, last, answered, clash, lost>>

ThreadSteps(t) ==
  \/ SetField(t) \/ Truncate(t) \/ Write(t) \/ EmitUnheard(t)
  \/ Remove(t) \/ Read(t) \/ Assign(t) \/ Reset(t) \/ Build(t)
  \/ BuildFails(t)
MainSteps == LoadConfig \/ LoadFails \/ Start \/ Listen \/ Guess
             \/ Succeeded \/ Failed \/ Unanswered
ServerSteps(r) == Challenge(r) \/ Accept(r) \/ Refuse(r)

Next ==
  \/ \E t \in Http : Request(t)
  \/ \E t \in Threads : ThreadSteps(t)
  \/ MainSteps \/ Heartbeat \/ Beat \/ Crash
  \/ \E r \in Registrations : ServerSteps(r) \/ Timeout(r) \/ Resend(r)
Spec == Init /\ [][Next]_vars

(* Every thread runs, a server answers in the end, and eXosip resends; that  *)
(* REGISTERs are lost without end is not assumed away but bounded.           *)
Fairness ==
  /\ \A t \in Threads : WF_vars(ThreadSteps(t))
  /\ WF_vars(MainSteps)
  /\ \A r \in Registrations : WF_vars(ServerSteps(r)) /\ WF_vars(Resend(r))
FairSpec == Spec /\ Fairness

-----------------------------------------------------------------------------
Registration == [uri : Uris, from : BOOLEAN, state : {"sent", "failed", "ok", "removed"},
                 with : Int \cup {None}, was : BOOLEAN]

(* Every variable has its type; the registration the device knows of is one  *)
(* of eXosip's.                                                              *)
TypeOK ==
  /\ conf \in Conf /\ file \in File \cup {None} /\ mine \in [Threads -> Conf]
  /\ pc \in [Threads -> Fields \cup {"load", "start", "listen", "guess", "modify", "serve", "idle",
                                     "truncate", "write", "emit", "read", "assign", "reset",
                                     "build"}]
  /\ req \in [Http -> 0 .. last] /\ answered \in 0 .. last
  /\ to_sip \in Uris \cup {None} /\ seen \in [Threads -> BOOLEAN]
  /\ register_id \in DOMAIN regs \cup {-1, Error} /\ auth \in Int \cup {None}
  /\ regs \in Seq(Registration) /\ events \in Seq({0, 200, 401})
  /\ heartbeat \in {"sleep", "build"}
  /\ \A b \in {listening, local_ip, from_sip, is_register, torn, clash, crossed, moved} :
       b \in BOOLEAN

(* What a new process makes of setting k: the domain is that of TdConf.h, a  *)
(* password ends at its '#', and where one has a line break all is lost.     *)
Restored(k) == IF k \in Unparsable THEN Whole(0) ELSE Loaded(Kept(Whole(k)))

(* After a restart the account is what can be restored of one setting, the   *)
(* last one answered or a later one, and never a mixture of two: a crash in  *)
(* setGB28181config leaves the old file or the new one, except between the   *)
(* opening and the writing of it (TdConf.cpp:28, inifile.cpp:241-243), and a *)
(* file that does not parse is replaced by the defaults as a whole, also     *)
(* when the process crashes again while it replaces it (TdConf.cpp:34-35).   *)
RestartIsWhole ==
  pc[Main] = "start" /\ ~torn /\ ~clash
    => \E k \in answered .. last : conf = Restored(k)

Quiet == pc[Main] = "serve" /\ \A t \in Http : pc[t] = "idle"

(* When no request is under way, the device has one registration, with the   *)
(* account it has and from the address it has guessed, or none, if it could  *)
(* not be built: no setting slips through between the start of the HTTP      *)
(* server and that of the SIP stack (main.cpp:28-35), none leaves an old     *)
(* registration behind (TdDevice.cpp:74-92), and one that came between the   *)
(* listener and the guess leaves no registration from an address that was    *)
(* not guessed yet (TdDevice.cpp:35-46).                                     *)
RegistrationIsConf ==
  Quiet /\ ~clash =>
    /\ to_sip = Uri(conf) /\ from_sip /\ register_id # -1
    /\ register_id # Error =>
         /\ regs[register_id].uri = to_sip /\ regs[register_id].from
         /\ regs[register_id].state # "removed"
    /\ \A r \in DOMAIN regs \ {register_id} : regs[r].state = "removed"

Accepted == \E r \in DOMAIN regs : regs[r].uri = to_sip /\ regs[r].was

(* A heartbeat goes only to a server that has accepted the device, unless    *)
(* the address changed between the test and the message, requests            *)
(* overlapped, or the success of an older registration was still queued when *)
(* is_register was last reset (TdDevice.cpp:79-80, 111-118, 398-408).        *)
HeartbeatHasCause ==
  heartbeat = "build" => moved \/ crossed \/ clash \/ Accepted

Account(k) == \A f \in InFile : conf[f] = k

Registered(k) ==
  /\ is_register /\ to_sip = Uri(Whole(k))
  /\ In(register_id, {"sent", "ok"}) /\ regs[register_id].was

(* The account in force is registered in the end, or replaced by another,    *)
(* also when REGISTERs are lost, unless eXosip could not build the REGISTER, *)
(* which is not tried again, or there is no user name to register with       *)
(* (TdDevice.cpp:81-137).                                                    *)
LatestRegistered ==
  \A k \in (0 .. MaxSettings) \ Nameless :
    Quiet /\ Account(k) ~> Registered(k) \/ ~Account(k) \/ clash \/ register_id = Error
=============================================================================
