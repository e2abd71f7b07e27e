---------------------------- MODULE NoticeCenter ----------------------------
(* NoticeCenter and the commands that go through it: HTTP threads emit them, *)
(* the TdChanManager listens.  Nothing orders the first getInstance against  *)
(* the HTTP server, which is up when TdDevice::init calls it on the main     *)
(* thread; allChannels calls it too.                                         *)
EXTENDS Naturals, SequencesExt

CONSTANTS
  Http,    \* threads of the HTTP server
  Main,    \* the thread of TdDevice::init
  MaxEmits \* bound: commands

ASSUME ThreadAssumption == IsFiniteSet(Http) /\ Main \notin Http
ASSUME EmitAssumption == MaxEmits \in Nat

Threads  == Http \cup {Main}
Commands == <<"setCodecParam", "closeChannel", "createChannel">>
Events   == {Commands[i] : i \in DOMAIN Commands}

VARIABLES
  manager,   \* mTdChanManager: 0 or the number of a TdChanManager
  made,      \* TdChanManagers constructed
  listeners, \* per event: the managers that listen, one for each listener
  pc,
  self, todo, \* of a thread in monitor(): this, and the events still to add
  rest, by,   \* of a thread in emitEvent: listeners to call, managers called
  clear,      \* history: of such a thread, nobody was in getInstance
  emits       \* history: commands so far

centerVars == <<manager, made, listeners>>
getVars    == <<self, todo>>
emitVars   == <<rest, by, clear, emits>>
vars == <<centerVars, pc, getVars, emitVars>>

Goto(t, s) == pc' = [pc EXCEPT ![t] = s]
Home(t) == IF t = Main THEN "serve" ELSE "idle"

Init ==
  /\ manager = 0 /\ made = 0 /\ listeners = [e \in Events |-> <<>>]
  /\ pc = [t \in Threads |-> IF t = Main THEN "init" ELSE "idle"]
  /\ self = [t \in Threads |-> 0] /\ todo = [t \in Threads |-> <<>>]
  /\ rest = [t \in Http |-> <<>>] /\ by = [t \in Http |-> <<>>]
  /\ clear = [t \in Http |-> FALSE] /\ emits = 0

-----------------------------------------------------------------------------
(* getInstance, by TdDevice::init or by the allChannels handler.             *)

(* Mutant: every caller runs monitor().                                      *)
GetInstanceMonitors(t) ==
  /\ pc[t] \in {"init", "idle"}
  /\ Goto(t, IF manager = 0 THEN "new" ELSE "monitor")
  /\ UNCHANGED <<centerVars, getVars, emitVars>>

GetInstance(t) ==
  /\ pc[t] \in {"init", "idle"}
  /\ Goto(t, IF manager = 0 THEN "new" ELSE Home(t))
  /\ UNCHANGED <<centerVars, getVars, emitVars>>

(* Mutant: the pointer is not stored before monitor() runs.                  *)
NewLate(t) ==
  /\ pc[t] = "new" /\ Goto(t, "monitor")
  /\ made' = made + 1
  /\ UNCHANGED <<manager, listeners, getVars, emitVars>>

New(t) ==
  /\ pc[t] = "new" /\ Goto(t, "monitor")
  /\ made' = made + 1 /\ manager' = made + 1
  /\ UNCHANGED <<listeners, getVars, emitVars>>

(* mTdChanManager->monitor() reads the pointer once more.                    *)
Monitor(t) ==
  /\ pc[t] = "monitor" /\ Goto(t, "listen")
  /\ self' = [self EXCEPT ![t] = manager] /\ todo' = [todo EXCEPT ![t] = Commands]
  /\ UNCHANGED <<centerVars, emitVars>>

AddListener(t) ==
  /\ pc[t] = "listen"
  /\ listeners' = [listeners EXCEPT ![Head(todo[t])] = Append(@, self[t])]
  /\ todo' = [todo EXCEPT ![t] = Tail(@)]
  /\ Goto(t, IF Len(todo[t]) = 1 THEN Home(t) ELSE "listen")
  /\ UNCHANGED <<manager, made, self, emitVars>>

-----------------------------------------------------------------------------
(* emitEvent, in the handlers of the commands.                               *)

\* nobody is at work in getInstance, and somebody has been
Settled == manager # 0 /\ \A t \in Threads : pc[t] \notin {"new", "monitor", "listen"}

(* The listeners are copied; an event that nobody listens to has none.       *)
Emit(t, e) ==
  /\ pc[t] = "idle" /\ emits < MaxEmits /\ emits' = emits + 1
  /\ rest' = [rest EXCEPT ![t] = listeners[e]] /\ by' = [by EXCEPT ![t] = <<>>]
  /\ clear' = [clear EXCEPT ![t] = Settled]
  /\ Goto(t, "emit")
  /\ UNCHANGED <<centerVars, getVars>>

(* They are called in any order, without the lock.                           *)
Call(t) ==
  /\ pc[t] = "emit"
  /\ \E i \in DOMAIN rest[t] :
       /\ by' = [by EXCEPT ![t] = Append(@, rest[t][i])]
       /\ rest' = [rest EXCEPT ![t] = RemoveAt(@, i)]
  /\ UNCHANGED <<centerVars, pc, getVars, clear, emits>>

(* The handler answers with success, heard or not.                           *)
Answer(t) ==
  /\ pc[t] = "emit" /\ rest[t] = <<>> /\ Goto(t, "idle")
  /\ UNCHANGED <<centerVars, getVars, emitVars>>

Next ==
  \/ \E t \in Threads : GetInstance(t) \/ New(t) \/ Monitor(t) \/ AddListener(t)
  \/ \E t \in Http : Call(t) \/ Answer(t) \/ \E e \in Events : Emit(t, e)
Spec == Init /\ [][Next]_vars

-----------------------------------------------------------------------------
Managers == 1 .. made

(* Every variable has its type; whoever listens is a manager.                *)
TypeOK ==
  /\ manager \in Managers \cup {0} /\ made \in 0 .. Cardinality(Threads)
  /\ listeners \in [Events -> Seq(Managers)]
  /\ pc \in [Threads -> {"init", "serve", "idle", "new", "monitor", "listen", "emit"}]
  /\ self \in [Threads -> Managers \cup {0}] /\ todo \in [Threads -> Seq(Events)]
  /\ rest \in [Http -> Seq(Managers)] /\ by \in [Http -> Seq(Managers)]
  /\ clear \in [Http -> BOOLEAN] /\ emits \in 0 .. MaxEmits

(* A command emitted while nobody is in getInstance leads to as many calls   *)
(* as TdChanManagers were made, one of them at least of the published one:   *)
(* exactly one, of that one, if the first calls of getInstance did not       *)
(* overlap.  If they did, one manager may be called twice and another never, *)
(* as monitor() runs on whatever the pointer is by then.  While somebody is  *)
(* in getInstance a command may go by unheard, but never leads to more calls *)
(* than that (TdChanManager.cpp:5-50).                                       *)
CallsPerManager ==
  \A t \in Http : pc[t] = "emit" =>
    /\ Len(by[t]) <= made
    /\ rest[t] = <<>> /\ clear[t] => Len(by[t]) = made /\ manager \in ToSet(by[t])
=============================================================================
