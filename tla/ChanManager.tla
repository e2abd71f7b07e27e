---------------------------- MODULE ChanManager ----------------------------
(* The channel manager of the proxy (tdChannel): one child process per media *)
(* channel, forked by the SIP thread, registered in chanMap, torn down by a  *)
(* detached worker thread, and reached through a FIFO named after the        *)
(* channel.  The threads of the parent process interleave with each other    *)
(* and with the children; critical sections of chanMapMutex are explicit     *)
(* because one reader of chanMap does not take the mutex.                    *)
(*                                                                           *)
(* A Channel object and the child it stands for share one id in Ids; nodes   *)
(* are the inodes behind the path /tmp/<channel>, 0 where there is none.     *)
EXTENDS Naturals, Sequences

CONSTANTS
  Chans,        \* the channel names requests carry
  Empty,        \* the empty name, which a request without DeviceID carries
  HttpThreads,  \* the threads of the HTTP server's pool
  Sip, Worker,  \* the SIP event loop and the delete worker
  Absent, Null, \* no map entry; a map entry holding nullptr
  Quotas,       \* bounds: how often the environment may do each thing in
                \* Limited; a behaviour begins with one of them
  MaxStarts     \* bound: starts in any of them

Limited == {"start", "close", "set", "list", "fork_fails", "setup_fails",
            "child_exits", "crash"}
Names   == Chans \cup {Empty}
Ids     == 1 .. MaxStarts
Clients == HttpThreads \cup {Sip}
Threads == Clients \cup {Worker}
NoThread == Absent

ASSUME QuotaAssumption ==
  /\ Quotas \subseteq [Limited -> Nat] /\ MaxStarts \in Nat
  /\ \A q \in Quotas : q["start"] <= MaxStarts
ASSUME NamesAssumption ==
  /\ Sip \notin HttpThreads /\ Worker \notin Clients
  /\ Absent \notin Threads /\ Absent # Null
  /\ Absent \notin Nat /\ Null \notin Nat

VARIABLES
  chanMap,      \* std::map<std::string, Channel*>
  chanMapMutex, \* the thread inside a critical section of chanMap
  delChanList,  \* names waiting for the worker, front first
  obj,          \* the life of each Channel object
  chanOf,       \* chanName of each Channel
  forked,       \* ids whose fork() succeeded: the others have pid -1
  nextId,       \* number of Channels allocated so far
  proc,         \* the child processes
  orphans,      \* children whose parent process has died
  fifo,         \* the inode at /tmp/<channel>
  rd,           \* the inode a child has opened for reading
  isOpenW,      \* Channels whose FIFO the parent has open for writing
  nextNode,     \* number of inodes made so far
  pc, arg, ref, \* per thread: position, channel argument, Channel pointer
  node,         \* per thread: the inode it waits to open
  parent,       \* the parent process: "running" or "dead"
  quota,        \* what is left of the quota
  asked         \* history: names some request asked to close, to set

tableVars == <<chanMap, chanMapMutex, delChanList>>
objVars   == <<obj, chanOf, forked, nextId>>
procVars  == <<proc, orphans>>
fifoVars  == <<fifo, rd, isOpenW, nextNode>>
locals    == <<arg, ref, node>>
threadVars == <<pc, locals>>
envVars   == <<parent, quota, asked>>
world     == <<objVars, procVars, fifoVars>>
vars == <<tableVars, world, threadVars, envVars>>

ObjStates == {"unused", "live", "freed", "leaked"}
Serving   == {"setup", "started", "opening", "reading"}
Alive     == Serving \cup {"clone", "dying"}
ProcStates == Alive \cup {"none", "zombie", "reaped"}
Creating  == {"check", "fork", "mkfifo", "register", "insert"}
Setting   == {"lookup", "open", "blocked", "write", "store"}
Reaping   == {"reap", "erase", "kill", "wait", "unlink", "free"}
PCs       == Creating \cup Setting \cup Reaping \cup {"idle", "list"}
InSection == {"check", "insert", "list", "erase"}

-----------------------------------------------------------------------------
Goto(t, p) == pc' = [pc EXCEPT ![t] = p]
At(t, p)   == parent = "running" /\ pc[t] = p
Lock(t)    == chanMapMutex = NoThread /\ chanMapMutex' = t
Unlock     == chanMapMutex' = NoThread
Spend(w)   == quota[w] > 0 /\ quota' = [quota EXCEPT ![w] = @ - 1]

Asks(w, c) == asked' = [asked EXCEPT ![w] = @ \cup {c}]

Init ==
  /\ chanMap = [c \in Names |-> Absent] /\ chanMapMutex = NoThread
  /\ delChanList = <<>>
  /\ obj = [i \in Ids |-> "unused"] /\ chanOf = [i \in Ids |-> Empty]
  /\ forked = {} /\ nextId = 0
  /\ proc = [i \in Ids |-> "none"] /\ orphans = {}
  /\ fifo = [c \in Names |-> 0] /\ rd = [i \in Ids |-> 0]
  /\ isOpenW = {} /\ nextNode = 0
  /\ pc = [t \in Threads |-> "idle"] /\ arg = [t \in Threads |-> Empty]
  /\ ref = [t \in Threads |-> 0] /\ node = [t \in Threads |-> 0]
  /\ parent = "running" /\ quota \in Quotas /\ asked = [w \in {"close", "set"} |-> {}]

(* mkfifo("/tmp/" + name): an existing node is kept (EEXIST), and the empty  *)
(* name is the directory /tmp/ itself.                                       *)
MakeNode(c) ==
  IF fifo[c] = 0 /\ c # Empty
  THEN nextNode' = nextNode + 1 /\ fifo' = [fifo EXCEPT ![c] = nextNode + 1]
  ELSE UNCHANGED <<nextNode, fifo>>

(* The parent process is gone: its memory, threads and descriptors with it.  *)
(* Its children live on as children of init, which collects their zombies.   *)
ParentDies ==
  /\ parent' = "dead"
  /\ chanMap' = [c \in Names |-> Absent] /\ Unlock /\ delChanList' = <<>>
  /\ obj' = [i \in Ids |-> IF obj[i] = "unused" THEN "unused" ELSE "freed"]
  /\ proc' = [i \in Ids |-> IF proc[i] = "zombie" THEN "reaped" ELSE proc[i]]
  /\ orphans' = {i \in Ids : proc[i] # "none"}
  /\ isOpenW' = {}
  /\ pc' = [t \in Threads |-> "idle"] /\ ref' = [t \in Threads |-> 0]
  /\ arg' = [t \in Threads |-> Empty] /\ node' = [t \in Threads |-> 0]
  /\ UNCHANGED <<chanOf, forked, nextId, fifo, rd, nextNode, asked>>

-----------------------------------------------------------------------------
(* createChannel, on the SIP thread (mediaProxy start)                       *)

Start(c) ==
  /\ At(Sip, "idle") /\ Spend("start") /\ Lock(Sip)
  /\ Goto(Sip, "check") /\ arg' = [arg EXCEPT ![Sip] = c]
  /\ UNCHANGED <<chanMap, delChanList, world, ref, node, parent, asked>>

(* Mutant: returns without unlocking chanMapMutex.                           *)
RefuseLocked ==
  /\ At(Sip, "check") /\ chanMap[arg[Sip]] \in Ids /\ Goto(Sip, "idle")
  /\ UNCHANGED <<tableVars, world, locals, envVars>>

(* The channel exists: answered 403.                                         *)
Refuse ==
  /\ At(Sip, "check") /\ chanMap[arg[Sip]] \in Ids
  /\ Unlock /\ Goto(Sip, "idle")
  /\ UNCHANGED <<chanMap, delChanList, world, locals, envVars>>

(* Mutant: an existing Channel is not looked for.                            *)
AcceptUnchecked ==
  /\ At(Sip, "check") /\ Unlock /\ Goto(Sip, "fork")
  /\ UNCHANGED <<chanMap, delChanList, world, locals, envVars>>

(* chanMap[channel] of an unknown name leaves a null entry behind.           *)
Accept ==
  /\ At(Sip, "check") /\ chanMap[arg[Sip]] \notin Ids
  /\ chanMap' = [chanMap EXCEPT ![arg[Sip]] = Null]
  /\ Unlock /\ Goto(Sip, "fork")
  /\ UNCHANGED <<delChanList, world, locals, envVars>>

Allocate(i) ==
  /\ At(Sip, "fork") /\ Goto(Sip, "mkfifo")
  /\ i = nextId + 1 /\ nextId' = i
  /\ chanOf' = [chanOf EXCEPT ![i] = arg[Sip]]
  /\ ref' = [ref EXCEPT ![Sip] = i]
  /\ UNCHANGED <<tableVars, obj, orphans, fifoVars, arg, node, parent, asked>>

Fork(i) ==
  /\ Allocate(i) /\ forked' = forked \cup {i}
  /\ proc' = [proc EXCEPT ![i] = "setup"]
  /\ UNCHANGED quota

(* Mutant: createChannel returns on fork() < 0.                              *)
ForkFailsReturns(i) ==
  /\ At(Sip, "fork") /\ i = nextId + 1 /\ Goto(Sip, "idle") /\ Spend("fork_fails")
  /\ UNCHANGED <<tableVars, world, locals, parent, asked>>

(* fork() < 0 is only printed; the else branch runs with pid -1.             *)
ForkFails(i) == Allocate(i) /\ Spend("fork_fails") /\ UNCHANGED <<forked, proc>>

(* new Channel() and mFifos.Create(channel)                                  *)
NewChannel ==
  /\ At(Sip, "mkfifo") /\ Goto(Sip, "register")
  /\ obj' = [obj EXCEPT ![ref[Sip]] = "live"]
  /\ MakeNode(arg[Sip])
  /\ UNCHANGED <<tableVars, chanOf, forked, nextId, procVars, rd, isOpenW, locals, envVars>>

Register ==
  /\ At(Sip, "register") /\ Lock(Sip) /\ Goto(Sip, "insert")
  /\ UNCHANGED <<chanMap, delChanList, world, locals, envVars>>

(* chanMap[channel] = lChannel; createChannel returns 0: answered 200.       *)
Insert ==
  /\ At(Sip, "insert") /\ Goto(Sip, "idle") /\ Unlock
  /\ chanMap' = [chanMap EXCEPT ![arg[Sip]] = ref[Sip]]
  /\ UNCHANGED <<delChanList, world, locals, envVars>>

-----------------------------------------------------------------------------
(* Requests on the SIP thread and on the HTTP threads                        *)

(* delChannel: the name goes to the front of the list, whatever it names.    *)
Close(t, c) ==
  /\ At(t, "idle") /\ Spend("close")
  /\ delChanList' = <<c>> \o delChanList
  /\ Asks("close", c)
  /\ UNCHANGED <<chanMap, chanMapMutex, world, threadVars, parent>>

(* channelsInfo2Json: every entry is dereferenced under the mutex.           *)
List(t) ==
  /\ At(t, "idle") /\ Spend("list") /\ Lock(t) /\ Goto(t, "list")
  /\ UNCHANGED <<chanMap, delChanList, world, locals, parent, asked>>

ListDone(t) ==
  /\ At(t, "list") /\ \A c \in Names : chanMap[c] # Null
  /\ Unlock /\ Goto(t, "idle")
  /\ UNCHANGED <<chanMap, delChanList, world, locals, envVars>>

ListNull(t) ==
  /\ At(t, "list") /\ \E c \in Names : chanMap[c] = Null
  /\ ParentDies /\ UNCHANGED quota

(* The setCodecParam listener, on the thread that emitted the event.         *)
SetCodecParam(t, c) ==
  /\ At(t, "idle") /\ Spend("set") /\ Goto(t, "lookup")
  /\ arg' = [arg EXCEPT ![t] = c] /\ Asks("set", c)
  /\ UNCHANGED <<tableVars, world, ref, node, parent>>

(* Channel *ch = mTag->chanMap[channel], outside the mutex                   *)
Lookup(t) ==
  LET ch == chanMap[arg[t]] IN
  /\ At(t, "lookup")
  /\ IF ch \in Ids
     THEN Goto(t, "open") /\ ref' = [ref EXCEPT ![t] = ch] /\ UNCHANGED chanMap
     ELSE /\ Goto(t, "idle") /\ UNCHANGED ref
          /\ chanMap' = [chanMap EXCEPT ![arg[t]] = Null]
  /\ UNCHANGED <<chanMapMutex, delChanList, world, arg, node, envVars>>

(* Does the pending access of thread t change the shape of the map?          *)
Reshapes(t) ==
  \/ pc[t] \in {"check", "insert", "lookup", "erase"} /\ chanMap[arg[t]] = Absent
  \/ pc[t] = "erase" /\ chanMap[arg[t]] \in Ids

(* Two accesses at once, one of them outside the mutex, one changing the     *)
(* map: undefined behaviour, of which the process may die.                   *)
MapRace(t) ==
  /\ At(t, "lookup")
  /\ \E u \in Threads \ {t} : /\ pc[u] \in InSection \cup {"lookup"}
                              /\ Reshapes(t) \/ Reshapes(u)
  /\ ParentDies /\ UNCHANGED quota

HasReader(n) == \E j \in Ids : rd[j] = n /\ proc[j] \in {"reading", "dying"}

(* OnceWrite: open(O_WRONLY) fails without a node, waits without a reader.   *)
OpenWrite(t) ==
  LET n    == fifo[chanOf[ref[t]]]
      next == CASE ref[t] \in isOpenW \/ (n # 0 /\ HasReader(n)) -> "write"
                [] ref[t] \notin isOpenW /\ n = 0 -> "store"
                [] OTHER -> "blocked" IN
  /\ At(t, "open") /\ Goto(t, next)
  /\ node' = [node EXCEPT ![t] = IF next = "blocked" THEN n ELSE 0]
  /\ UNCHANGED <<tableVars, world, arg, ref, envVars>>

Write(t) ==
  /\ At(t, "write") /\ Goto(t, "store")
  /\ isOpenW' = isOpenW \cup {ref[t]}
  /\ UNCHANGED <<tableVars, objVars, procVars, fifo, rd, nextNode, locals, envVars>>

(* ch->mCMediaParam = ...                                                    *)
Store(t) ==
  /\ At(t, "store") /\ Goto(t, "idle")
  /\ UNCHANGED <<tableVars, world, locals, envVars>>

(* The pointer outlived its Channel: the worker deleted it.  The accesses    *)
(* above may still find the old bytes; or the process dies, or the memory    *)
(* already belongs to a Channel allocated since.                             *)
Dangling(t) ==
  /\ parent = "running" /\ pc[t] \in {"open", "write", "store"} /\ obj[ref[t]] = "freed"

UseAfterFree(t) == Dangling(t) /\ ParentDies /\ UNCHANGED quota

UseReallocated(t) ==
  /\ Dangling(t)
  /\ \E j \in Ids : obj[j] = "live" /\ ref' = [ref EXCEPT ![t] = j]
  /\ UNCHANGED <<tableVars, world, pc, arg, node, envVars>>

-----------------------------------------------------------------------------
(* delChanWorkLoop, on the detached worker thread                            *)

(* Take the front of the list; the empty name is taken for an empty list.    *)
Pop ==
  /\ At(Worker, "idle") /\ delChanList # <<>>
  /\ delChanList' = Tail(delChanList)
  /\ LET c == Head(delChanList) IN
       /\ arg' = [arg EXCEPT ![Worker] = c]
       /\ Goto(Worker, IF c = Empty THEN "idle" ELSE "reap")
  /\ UNCHANGED <<chanMap, chanMapMutex, world, ref, node, envVars>>

Acquire ==
  /\ At(Worker, "reap") /\ Lock(Worker) /\ Goto(Worker, "erase")
  /\ UNCHANGED <<chanMap, delChanList, world, locals, envVars>>

(* Mutants: a null entry is taken for a Channel; the entry is not erased.    *)
EraseNull ==
  LET i == chanMap[arg[Worker]] IN
  /\ At(Worker, "erase") /\ Unlock /\ i # Absent
  /\ chanMap' = [chanMap EXCEPT ![arg[Worker]] = Absent]
  /\ Goto(Worker, "kill") /\ ref' = [ref EXCEPT ![Worker] = i]
  /\ UNCHANGED <<delChanList, world, arg, node, envVars>>

EraseKeeps ==
  LET i == chanMap[arg[Worker]] IN
  /\ At(Worker, "erase") /\ Unlock
  /\ IF i \in Ids
     THEN Goto(Worker, "kill") /\ ref' = [ref EXCEPT ![Worker] = i]
     ELSE Goto(Worker, "idle") /\ UNCHANGED ref
  /\ UNCHANGED <<chanMap, delChanList, world, arg, node, envVars>>

Erase ==
  LET i == chanMap[arg[Worker]] IN
  /\ At(Worker, "erase") /\ Unlock
  /\ chanMap' = [chanMap EXCEPT ![arg[Worker]] = IF i \in Ids THEN Absent ELSE Null]
  /\ IF i \in Ids
     THEN Goto(Worker, "kill") /\ ref' = [ref EXCEPT ![Worker] = i]
     ELSE Goto(Worker, "idle") /\ UNCHANGED ref
  /\ UNCHANGED <<delChanList, world, arg, node, envVars>>

(* Mutant: kill(0, SIGTERM), the whole process group.                        *)
KillGroup ==
  /\ At(Worker, "kill") /\ Goto(Worker, "wait")
  /\ proc' = [i \in Ids |-> IF proc[i] \in Alive THEN "dying" ELSE proc[i]]
  /\ UNCHANGED <<tableVars, objVars, orphans, fifoVars, locals, envVars>>

(* kill(lChannel->pid, SIGTERM); pid -1 is every process of the user.        *)
Kill ==
  LET hit == IF ref[Worker] \in forked THEN {ref[Worker]} ELSE Ids IN
  /\ At(Worker, "kill") /\ Goto(Worker, "wait")
  /\ proc' = [i \in Ids |-> IF i \in hit /\ proc[i] \in Alive
                            THEN "dying" ELSE proc[i]]
  /\ UNCHANGED <<tableVars, objVars, orphans, fifoVars, locals, envVars>>

Children == {i \in Ids \ orphans : proc[i] \in Alive \cup {"zombie"}}
Awaited  == Children \cap (IF ref[Worker] \in forked THEN {ref[Worker]} ELSE Ids)

(* Mutant: waitpid(..., WNOHANG), which does not wait for the child.         *)
WaitOkNoHang ==
  /\ At(Worker, "wait") /\ Goto(Worker, "unlink")
  /\ UNCHANGED <<tableVars, objVars, procVars, fifoVars, locals, envVars>>

(* waitpid() returned lChannel->pid: the child, or -1 for pid -1 when the    *)
(* parent has no child at all (ECHILD).                                      *)
WaitOk ==
  /\ At(Worker, "wait") /\ Goto(Worker, "unlink")
  /\ \/ /\ ref[Worker] \in forked /\ proc[ref[Worker]] = "zombie"
        /\ proc' = [proc EXCEPT ![ref[Worker]] = "reaped"]
     \/ ref[Worker] \notin forked /\ Awaited = {} /\ UNCHANGED proc
  /\ UNCHANGED <<tableVars, objVars, orphans, fifoVars, locals, envVars>>

(* waitpid() returned something else: another child's pid for pid -1, or -1  *)
(* when the child is already gone.  The Channel is abandoned.                *)
WaitOther ==
  /\ At(Worker, "wait") /\ Goto(Worker, "idle")
  /\ \/ /\ ref[Worker] \notin forked
        /\ \E j \in Awaited : /\ proc[j] = "zombie"
                              /\ proc' = [proc EXCEPT ![j] = "reaped"]
     \/ ref[Worker] \in forked /\ Awaited = {} /\ UNCHANGED proc
  /\ obj' = [obj EXCEPT ![ref[Worker]] = "leaked"]
  /\ ref' = [ref EXCEPT ![Worker] = 0]
  /\ UNCHANGED <<tableVars, chanOf, forked, nextId, orphans, fifoVars, arg, node, envVars>>

(* unlink() removes whatever node is at the path by now.                     *)
Unlink ==
  /\ At(Worker, "unlink") /\ Goto(Worker, "free")
  /\ fifo' = [fifo EXCEPT ![chanOf[ref[Worker]]] = 0]
  /\ UNCHANGED <<tableVars, objVars, procVars, rd, isOpenW, nextNode, locals, envVars>>

(* Close() and delete lChannel                                               *)
Free ==
  /\ At(Worker, "free") /\ Goto(Worker, "idle")
  /\ obj' = [obj EXCEPT ![ref[Worker]] = "freed"]
  /\ isOpenW' = isOpenW \ {ref[Worker]}
  /\ ref' = [ref EXCEPT ![Worker] = 0]
  /\ UNCHANGED <<tableVars, chanOf, forked, nextId, procVars, fifo, rd, nextNode, arg, node, envVars>>

(* Close() ends without the int it promises: undefined, and a compiler that   *)
(* lets it run on into the next function ends the process.                   *)
CloseFallsThrough == At(Worker, "free") /\ ParentDies /\ UNCHANGED quota

-----------------------------------------------------------------------------
(* The child process: TdRtp::setUp, start, FifoMsgSession::Wait              *)

BecomesProc(i, s) == proc' = [proc EXCEPT ![i] = s]
Gone(i) == IF i \in orphans THEN "reaped" ELSE "zombie"

SetUpOk(i) ==
  /\ proc[i] = "setup" /\ BecomesProc(i, "started")
  /\ UNCHANGED <<tableVars, objVars, orphans, fifoVars, threadVars, envVars>>

(* The RTP ports are taken, by a foreign program or by another process of    *)
(* this proxy: createChannel returns into the SIP loop of the child, a copy  *)
(* of the parent with its one thread.  eXosip's thread is not copied, and    *)
(* nothing new reaches it; it idles, for the starts of this module find the  *)
(* event queue empty: the requests that were already waiting when the child  *)
(* was forked, which it would handle a second time, are left out.            *)
SetUpFails(i) ==
  /\ proc[i] = "setup" /\ BecomesProc(i, "clone")
  /\ \/ Spend("setup_fails")
     \/ /\ \E j \in Ids \ {i} : proc[j] \in Alive
        /\ UNCHANGED quota
  /\ UNCHANGED <<tableVars, objVars, orphans, fifoVars, threadVars, parent, asked>>

(* Mutant: the child unlinks an existing node and makes its own.             *)
ChildFifoRecreates(i) ==
  /\ proc[i] = "started" /\ BecomesProc(i, "opening")
  /\ nextNode' = nextNode + 1 /\ fifo' = [fifo EXCEPT ![chanOf[i]] = nextNode + 1]
  /\ UNCHANGED <<tableVars, objVars, orphans, rd, isOpenW, threadVars, envVars>>

(* start(): exit(1) on the empty name, else the child makes the node, too.   *)
ChildFifo(i) ==
  /\ proc[i] = "started"
  /\ BecomesProc(i, IF chanOf[i] = Empty THEN Gone(i) ELSE "opening")
  /\ MakeNode(chanOf[i])
  /\ UNCHANGED <<tableVars, objVars, orphans, rd, isOpenW, threadVars, envVars>>

(* open(O_RDONLY): retried for ever while there is no node.  It lets every   *)
(* thread of the parent that waits on the same inode go on.                  *)
ChildOpen(i) ==
  LET n == fifo[chanOf[i]] IN
  /\ proc[i] = "opening" /\ n # 0 /\ BecomesProc(i, "reading")
  /\ rd' = [rd EXCEPT ![i] = n]
  /\ pc' = [t \in Threads |-> IF pc[t] = "blocked" /\ node[t] = n
                              THEN "write" ELSE pc[t]]
  /\ UNCHANGED <<tableVars, objVars, orphans, fifo, isOpenW, nextNode, locals, envVars>>

DieOfSignal(i) ==
  /\ proc[i] = "dying" /\ BecomesProc(i, Gone(i))
  /\ UNCHANGED <<tableVars, objVars, orphans, fifoVars, threadVars, envVars>>

(* A child ends by itself: exit(0) when mkfifo fails, or a crash.            *)
ChildExits(i) ==
  /\ proc[i] \in Serving /\ Spend("child_exits") /\ BecomesProc(i, Gone(i))
  /\ UNCHANGED <<tableVars, objVars, orphans, fifoVars, threadVars, parent, asked>>

-----------------------------------------------------------------------------
(* The parent process is killed, and started again with nothing of its state *)

Crash == parent = "running" /\ Spend("crash") /\ ParentDies

Restart ==
  /\ parent = "dead" /\ parent' = "running"
  /\ UNCHANGED <<tableVars, world, threadVars, quota, asked>>

-----------------------------------------------------------------------------
CreateSteps == \/ Refuse \/ Accept \/ NewChannel \/ Register \/ Insert
               \/ \E i \in Ids : Fork(i) \/ ForkFails(i)
SetterSteps(t) == Lookup(t) \/ MapRace(t) \/ OpenWrite(t) \/ Write(t)
                  \/ Store(t) \/ UseAfterFree(t) \/ UseReallocated(t)
ListSteps(t) == ListDone(t) \/ ListNull(t)
WorkerSteps == Pop \/ Acquire \/ Erase \/ Kill \/ WaitOk \/ WaitOther
               \/ Unlink \/ Free \/ CloseFallsThrough
ChildSteps(i) == SetUpOk(i) \/ SetUpFails(i) \/ ChildFifo(i) \/ ChildOpen(i)
                 \/ DieOfSignal(i)
Requests ==
  \/ \E c \in Chans : Start(c)
  \/ \E t \in Clients, c \in Chans : Close(t, c) \/ SetCodecParam(t, c)
  \/ \E t \in HttpThreads : List(t)

Next ==
  \/ Requests
  \/ CreateSteps
  \/ \E t \in Clients : SetterSteps(t)
  \/ \E t \in HttpThreads : ListSteps(t)
  \/ WorkerSteps
  \/ \E i \in Ids : ChildSteps(i) \/ ChildExits(i)
  \/ Crash \/ Restart

(* Every thread the kernel can run does run; requests, failures, crashes and *)
(* a restart need never come.                                                *)
Fairness ==
  /\ WF_vars(CreateSteps) /\ WF_vars(WorkerSteps)
  /\ \A t \in Clients : WF_vars(SetterSteps(t))
  /\ \A t \in HttpThreads : WF_vars(ListSteps(t))
  /\ \A i \in Ids : WF_vars(ChildSteps(i))

Spec == Init /\ [][Next]_vars
FairSpec == Spec /\ Fairness

-----------------------------------------------------------------------------
(* Properties                                                                *)

TableType  == /\ chanMap \in [Names -> Ids \cup {Absent, Null}]
              /\ chanMapMutex \in Threads \cup {NoThread}
              /\ delChanList \in Seq(Chans)
ObjType    == /\ obj \in [Ids -> ObjStates]
              /\ chanOf \in [Ids -> Names]
              /\ forked \subseteq Ids /\ nextId \in Nat
ProcType   == proc \in [Ids -> ProcStates] /\ orphans \subseteq Ids
FifoType   == /\ fifo \in [Names -> Nat] /\ rd \in [Ids -> Nat]
              /\ isOpenW \subseteq Ids /\ nextNode \in Nat
ThreadType == /\ pc \in [Threads -> PCs]
              /\ arg \in [Threads -> Names]
              /\ ref \in [Threads -> Ids \cup {0}]
              /\ node \in [Threads -> Nat]
EnvType    == /\ parent \in {"running", "dead"} /\ quota \in [Limited -> Nat]
              /\ asked \in [{"close", "set"} -> SUBSET Chans]
TypeOK == TableType /\ ObjType /\ ProcType /\ FifoType /\ ThreadType /\ EnvType

SomeForkFailed == \E i \in Ids : i <= nextId /\ i \notin forked
UnderCreation(i) == pc[Sip] \in {"mkfifo", "register", "insert"} /\ ref[Sip] = i
Handled(i) == pc[Worker] \in {"kill", "wait", "unlink", "free"} /\ ref[Worker] = i

(* chanMap never leads to a deleted Channel, nor to one the worker has       *)
(* already taken out to delete, nor to the Channel of another name; the      *)
(* erase under the mutex is what makes duplicate closes harmless.            *)
RegisteredIsLive ==
  \A c \in Names : chanMap[c] \in Ids =>
     /\ obj[chanMap[c]] = "live" /\ chanOf[chanMap[c]] = c
     /\ ~Handled(chanMap[c])

(* Every child of the running parent can still be closed: it is registered,  *)
(* about to be registered by createChannel, or in the worker's hands.        *)
NoLostChild ==
  \A i \in Ids \ orphans : proc[i] \in Alive =>
     chanMap[chanOf[i]] = i \/ UnderCreation(i) \/ Handled(i)

(* A Channel object is deleted only after its child was collected by waitpid *)
(* (or never existed): no child runs on without its Channel.                 *)
FreedIsReaped ==
  \A i \in Ids \ orphans : obj[i] = "freed" => proc[i] \in {"none", "reaped"}

(* waitpid answers with another pid than the one killed, so that the Channel *)
(* and its FIFO leak, only after a fork that failed left a Channel with      *)
(* pid -1 behind.                                                            *)
LeakOnlyAfterForkFailure ==
  (\E i \in Ids : obj[i] = "leaked") => SomeForkFailed

(* No child is killed by the close of another channel, except by the close   *)
(* of a channel whose fork failed: kill(-1) signals every child.             *)
NoBystanderKilled ==
  \A i \in Ids : proc[i] = "dying" =>
     \/ chanOf[i] \in asked["close"]
     \/ \E j \in Ids : /\ j <= nextId /\ j \notin forked
                       /\ chanOf[j] \in asked["close"]

(* The parameters written to a FIFO reach the child of that channel and no   *)
(* other: two children read one inode only while the worker tears one of     *)
(* them down, or when one of them has outlived a crash of the parent, which  *)
(* leaves the node for the next channel of that name to adopt.               *)
OneReader ==
  \A i, j \in Ids : (i # j /\ proc[i] = "reading" /\ proc[j] = "reading" /\ rd[i] = rd[j]) =>
     i \in orphans \/ j \in orphans \/ Handled(i) \/ Handled(j)

(* createChannel checks and inserts in two critical sections, yet it never   *)
(* overwrites a registered Channel: an entry with a Channel changes only to  *)
(* absent (by the worker, or by the end of the process).                     *)
InsertNeverOverwrites ==
  [][\A c \in Names : chanMap[c] \in Ids => chanMap'[c] \in {chanMap[c], Absent}]_vars

(* An entry of chanMap holds nullptr, which the next channelsInfo2Json       *)
(* dereferences, only while its channel is being created or after a close or *)
(* a change of parameters named a channel that was not there.                *)
NullEntryHasCause ==
  \A c \in Names : chanMap[c] = Null =>
     \/ pc[Sip] \in {"fork", "mkfifo", "register", "insert"} /\ arg[Sip] = c
     \/ c \in asked["close"] \cup asked["set"]

(* A close that finds its channel registered is carried out: the child ends  *)
(* and is collected, and the Channel is deleted, or left behind if waitpid   *)
(* answers with another pid, whatever threads are stuck in the open of a     *)
(* FIFO: the worker needs no lock such a thread holds, and kill makes        *)
(* waitpid return.  There are two exceptions.  The parent may die first (a   *)
(* null entry that is listed, a race on the map, a pointer that outlived its *)
(* Channel, the end of Close), and the child lives on; and waitpid(-1) after *)
(* a failed fork may wait for a child that was forked after the kill         *)
(* (TdChanManager.cpp:107-146).                                              *)
Closing(c, i) ==
  /\ chanMap[c] = i
  /\ \/ \E k \in 1 .. Len(delChanList) : delChanList[k] = c
     \/ pc[Worker] \in {"reap", "erase"} /\ arg[Worker] = c
CarriedOut(i) == obj[i] \in {"freed", "leaked"} /\ proc[i] \in {"none", "reaped"}
WaitsForAny ==
  /\ pc[Worker] = "wait" /\ ref[Worker] \notin forked
  /\ \E j \in Children : proc[j] \in Serving \cup {"clone"}
CloseServed ==
  \A c \in Chans, i \in Ids :
     Closing(c, i) ~> CarriedOut(i) \/ parent = "dead" \/ WaitsForAny

(* A thread that waits to open the FIFO for writing is let go by the child,  *)
(* unless the child has ended or was never able to serve, or the name was    *)
(* used before, when the two may wait on different inodes.                   *)
FirstUse(i) == \A j \in 1 .. i - 1 : chanOf[j] # chanOf[i]
Waits(t, i) == pc[t] = "blocked" /\ ref[t] = i
SetterReleased ==
  \A t \in Clients, i \in Ids :
     Waits(t, i) ~> ~Waits(t, i) \/ proc[i] \notin Serving \/ ~FirstUse(i)

(* "启动成功" (started), logged and answered 200 when createChannel returned  *)
(* 0: the child of a registered channel did set up its RTP session.          *)
StartedMeansServing ==
  \A c \in Names : chanMap[c] \in Ids => proc[chanMap[c]] # "clone"
=============================================================================
