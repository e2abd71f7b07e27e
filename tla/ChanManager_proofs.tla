------------------------- MODULE ChanManager_proofs -------------------------
(* Safety of ChanManager for every set of channels, every number of HTTP     *)
(* threads and every quota.                                                  *)
EXTENDS ChanManager, TLAPS

-----------------------------------------------------------------------------
(* Typing.  It needs two facts besides TypeOK: createChannel never runs out  *)
(* of ids, since each start it has accepted but not yet forked still has     *)
(* one; and a thread that is about to follow a Channel pointer has one.      *)

IdsLeft ==
  /\ nextId + quota["start"] <= MaxStarts
  /\ pc[Sip] \in {"check", "fork"} => nextId + quota["start"] < MaxStarts

Pointing == {"mkfifo", "register", "insert", "open", "blocked", "write", "store",
             "kill", "wait", "unlink", "free"}
HasRef == \A t \in Threads : pc[t] \in Pointing => ref[t] \in Ids

TypeInv == TypeOK /\ IdsLeft /\ HasRef

LEMMA Actors ==
  /\ Sip \in Threads /\ Worker \in Threads /\ Sip # Worker
  /\ Clients \subseteq Threads /\ HttpThreads \subseteq Clients /\ Sip \in Clients
  /\ Worker \notin Clients /\ Sip \notin HttpThreads /\ NoThread \notin Threads
  /\ Absent \notin Ids /\ Null \notin Ids /\ Absent # Null /\ 0 \notin Ids
  /\ Ids \subseteq Nat /\ MaxStarts \in Nat
  /\ Chans \subseteq Names /\ Empty \in Names
BY QuotaAssumption, NamesAssumption
DEF Threads, Clients, NoThread, Ids, Limited, Names

LEMMA Places ==
  /\ PCs = {"check", "fork", "mkfifo", "register", "insert", "lookup", "open",
            "blocked", "write", "store", "reap", "erase", "kill", "wait",
            "unlink", "free", "idle", "list"}
  /\ ProcStates = {"setup", "started", "opening", "reading", "clone", "dying",
                   "none", "zombie", "reaped"}
BY DEF PCs, Creating, Setting, Reaping, ProcStates, Alive, Serving

LEMMA TypeInit == Init => TypeInv
<1> SUFFICES ASSUME Init PROVE TypeInv
  OBVIOUS
<1>1. TableType /\ ObjType /\ ProcType /\ FifoType
  BY Actors, Places DEF Init, TableType, ObjType, ProcType, FifoType, ObjStates
<1>2. ThreadType /\ EnvType
  BY QuotaAssumption, Actors, Places DEF Init, ThreadType, EnvType
<1>3. IdsLeft /\ HasRef
  BY QuotaAssumption, Actors DEF Init, IdsLeft, HasRef, Pointing, Limited
<1> QED BY <1>1, <1>2, <1>3 DEF TypeInv, TypeOK

LEMMA TypeDies == ASSUME TypeInv, ParentDies, quota' \in [Limited -> Nat],
                         quota'["start"] = quota["start"]
                  PROVE  TypeInv'
<1> USE DEF TypeInv, TypeOK, ParentDies
<1>1. TableType' /\ ObjType' /\ ProcType' /\ FifoType'
  BY Places DEF TableType, ObjType, ProcType, FifoType, ObjStates, Unlock
<1>2. ThreadType' /\ EnvType'
  BY Actors, Places DEF ThreadType, EnvType
<1>3. IdsLeft' /\ HasRef'
  BY Actors DEF IdsLeft, HasRef, Pointing
<1> QED BY <1>1, <1>2, <1>3

(* What the moves of one thread t share: only its own pc, arg and ref change *)
(* and, when it gets somewhere it follows its pointer, the pointer is one.   *)
LEMMA Moves ==
  ASSUME TypeInv, NEW t \in Threads, NEW p \in PCs, Goto(t, p),
         UNCHANGED <<nextId, quota>>,
         NEW r \in Ids \cup {0}, ref' = [ref EXCEPT ![t] = r],
         p \in Pointing => r \in Ids,
         t = Sip => p \notin {"check", "fork"} \/ pc[Sip] = "check"
  PROVE  IdsLeft' /\ HasRef' /\ pc' \in [Threads -> PCs]
         /\ ref' \in [Threads -> Ids \cup {0}]
<1>1. IdsLeft'
  BY Actors DEF TypeInv, TypeOK, ThreadType, IdsLeft, Goto
<1>2. HasRef'
  BY DEF TypeInv, TypeOK, ThreadType, HasRef, Goto
<1> QED BY <1>1, <1>2 DEF TypeInv, TypeOK, ThreadType, Goto

LEMMA Stays ==
  ASSUME TypeInv, NEW t \in Threads, NEW p \in PCs, Goto(t, p),
         UNCHANGED <<nextId, quota, ref>>,
         p \in Pointing => pc[t] \in Pointing,
         t = Sip => p \notin {"check", "fork"} \/ pc[Sip] = "check"
  PROVE  IdsLeft' /\ HasRef' /\ pc' \in [Threads -> PCs]
<1>1. ref[t] \in Ids \cup {0} /\ ref' = [ref EXCEPT ![t] = ref[t]]
  BY DEF TypeInv, TypeOK, ThreadType
<1>2. p \in Pointing => ref[t] \in Ids
  BY DEF TypeInv, HasRef
<1> QED BY <1>1, <1>2, Moves

LEMMA Spends ==
  ASSUME quota \in [Limited -> Nat], NEW w \in Limited, Spend(w)
  PROVE  /\ quota' \in [Limited -> Nat]
         /\ \A x \in Limited \ {w} : quota'[x] = quota[x]
         /\ quota[w] \in Nat /\ quota'[w] = quota[w] - 1
BY DEF Spend

LEMMA TypeCreate == ASSUME TypeInv, CreateSteps PROVE TypeInv'
<1> USE Actors, Places DEF At, Lock, Unlock, Pointing
<1> DEFINE Typed == TableType' /\ ObjType' /\ ProcType' /\ FifoType' /\ EnvType'
<1>0. TableType /\ ObjType /\ ProcType /\ FifoType /\ ThreadType /\ EnvType
  BY DEF TypeInv, TypeOK
<1>1. CASE Refuse
  <2>1. Typed
    BY <1>0, <1>1 DEF Refuse, world, objVars, procVars, fifoVars, envVars,
       TableType, ObjType, ProcType, FifoType, EnvType
  <2>2. IdsLeft' /\ HasRef' /\ pc' \in [Threads -> PCs]
    BY <1>1, Stays DEF Refuse, world, objVars, locals, envVars
  <2> QED BY <1>0, <1>1, <2>1, <2>2 DEF Refuse, locals, ThreadType, TypeInv, TypeOK
<1>2. CASE Accept
  <2>1. Typed
    BY <1>0, <1>2 DEF Accept, world, objVars, procVars, fifoVars, envVars,
       TableType, ObjType, ProcType, FifoType, EnvType
  <2>2. IdsLeft' /\ HasRef' /\ pc' \in [Threads -> PCs]
    BY <1>2, Stays DEF Accept, world, objVars, locals, envVars
  <2> QED BY <1>0, <1>2, <2>1, <2>2 DEF Accept, locals, ThreadType, TypeInv, TypeOK
<1>3. ASSUME NEW i \in Ids, Allocate(i), EnvType',
             quota'["start"] = quota["start"],
             forked' \subseteq Ids, proc' \in [Ids -> ProcStates]
      PROVE  TypeInv'
  <2>1. TableType' /\ FifoType'
    BY <1>0, <1>3 DEF Allocate, tableVars, fifoVars, TableType, FifoType
  <2>2. ObjType' /\ ProcType'
    BY <1>0, <1>3 DEF Allocate, ObjType, ProcType, ThreadType
  <2>3. ThreadType' /\ HasRef'
    BY <1>0, <1>3 DEF Allocate, ThreadType, TypeInv, HasRef, Goto
  <2>4. IdsLeft'
    BY <1>0, <1>3 DEF Allocate, ThreadType, ObjType, EnvType, Limited, Goto,
       TypeInv, IdsLeft
  <2> QED BY <1>3, <2>1, <2>2, <2>3, <2>4 DEF TypeInv, TypeOK
<1>4. ASSUME NEW i \in Ids, Fork(i) PROVE TypeInv'
  BY <1>0, <1>3, <1>4 DEF Fork, Allocate, ObjType, ProcType, EnvType
<1>5. ASSUME NEW i \in Ids, ForkFails(i) PROVE TypeInv'
  <2>1. quota' \in [Limited -> Nat] /\ quota'["start"] = quota["start"]
    BY <1>0, <1>5, Spends DEF ForkFails, EnvType, Limited
  <2> QED BY <1>0, <1>3, <1>5, <2>1 DEF ForkFails, Allocate, ObjType, ProcType, EnvType
<1>6. CASE NewChannel
  <2>1. TableType' /\ ObjType' /\ ProcType' /\ EnvType'
    BY <1>0, <1>6 DEF NewChannel, tableVars, procVars, envVars, TableType,
       ObjType, ObjStates, ProcType, EnvType
  <2>2. FifoType'
    BY <1>0, <1>6 DEF NewChannel, MakeNode, FifoType
  <2>3. IdsLeft' /\ HasRef' /\ pc' \in [Threads -> PCs]
    BY <1>6, Stays DEF NewChannel, locals, envVars
  <2> QED BY <1>0, <1>6, <2>1, <2>2, <2>3 DEF NewChannel, locals, ThreadType, TypeInv, TypeOK
<1>7. CASE Register
  <2>1. Typed
    BY <1>0, <1>7 DEF Register, world, objVars, procVars, fifoVars, envVars,
       TableType, ObjType, ProcType, FifoType, EnvType
  <2>2. IdsLeft' /\ HasRef' /\ pc' \in [Threads -> PCs]
    BY <1>7, Stays DEF Register, world, objVars, locals, envVars
  <2> QED BY <1>0, <1>7, <2>1, <2>2 DEF Register, locals, ThreadType, TypeInv, TypeOK
<1>8. CASE Insert
  <2>1. ref[Sip] \in Ids
    BY <1>8 DEF Insert, TypeInv, HasRef
  <2>2. Typed
    BY <1>0, <1>8, <2>1 DEF Insert, world, objVars, procVars, fifoVars, envVars,
       TableType, ObjType, ProcType, FifoType, EnvType
  <2>3. IdsLeft' /\ HasRef' /\ pc' \in [Threads -> PCs]
    BY <1>8, Stays DEF Insert, world, objVars, locals, envVars
  <2> QED BY <1>0, <1>8, <2>2, <2>3 DEF Insert, locals, ThreadType, TypeInv, TypeOK
<1> QED BY <1>1, <1>2, <1>4, <1>5, <1>6, <1>7, <1>8 DEF CreateSteps

LEMMA TypeRequests == ASSUME TypeInv, Requests PROVE TypeInv'
<1> USE Actors, Places DEF At, Lock, Unlock, Pointing
<1>0. TableType /\ ObjType /\ ProcType /\ FifoType /\ ThreadType /\ EnvType
  BY DEF TypeInv, TypeOK
<1>1. ASSUME NEW c \in Chans, Start(c) PROVE TypeInv'
  <2>1. quota' \in [Limited -> Nat] /\ quota'["start"] = quota["start"] - 1
        /\ quota["start"] \in Nat
    BY <1>0, <1>1, Spends DEF Start, EnvType, Limited
  <2>2. TableType' /\ ObjType' /\ ProcType' /\ FifoType' /\ EnvType'
    BY <1>0, <1>1, <2>1 DEF Start, world, objVars, procVars, fifoVars, TableType,
       ObjType, ProcType, FifoType, EnvType
  <2>3. ThreadType' /\ HasRef'
    BY <1>0, <1>1 DEF Start, ThreadType, TypeInv, HasRef, Goto
  <2>4. IdsLeft'
    BY <1>0, <1>1, <2>1 DEF Start, world, objVars, ObjType, ThreadType, TypeInv,
       IdsLeft, Goto
  <2> QED BY <2>2, <2>3, <2>4 DEF TypeInv, TypeOK
<1>2. ASSUME NEW t \in Clients, NEW c \in Chans, Close(t, c) PROVE TypeInv'
  <2>1. quota' \in [Limited -> Nat] /\ quota'["start"] = quota["start"]
    BY <1>0, <1>2, Spends DEF Close, EnvType, Limited
  <2>2. TableType' /\ EnvType'
    BY <1>0, <1>2, <2>1 DEF Close, Asks, TableType, EnvType
  <2>3. ObjType' /\ ProcType' /\ FifoType' /\ ThreadType'
    BY <1>0, <1>2 DEF Close, world, objVars, procVars, fifoVars, threadVars,
       locals, ObjType, ProcType, FifoType, ThreadType
  <2>4. IdsLeft' /\ HasRef'
    BY <1>2, <2>1 DEF Close, world, objVars, threadVars, locals, TypeInv, IdsLeft,
       HasRef
  <2> QED BY <2>2, <2>3, <2>4 DEF TypeInv, TypeOK
<1>3. ASSUME NEW t \in Clients, NEW c \in Chans, SetCodecParam(t, c) PROVE TypeInv'
  <2>1. quota' \in [Limited -> Nat] /\ quota'["start"] = quota["start"]
    BY <1>0, <1>3, Spends DEF SetCodecParam, EnvType, Limited
  <2>2. TableType' /\ EnvType'
    BY <1>0, <1>3, <2>1 DEF SetCodecParam, Asks, tableVars, TableType, EnvType
  <2>3. ObjType' /\ ProcType' /\ FifoType'
    BY <1>0, <1>3 DEF SetCodecParam, world, objVars, procVars, fifoVars, ObjType,
       ProcType, FifoType
  <2>4. ThreadType' /\ HasRef'
    BY <1>0, <1>3 DEF SetCodecParam, ThreadType, TypeInv, HasRef, Goto
  <2>5. IdsLeft'
    BY <1>0, <1>3, <2>1 DEF SetCodecParam, world, objVars, ThreadType, TypeInv,
       IdsLeft, Goto
  <2> QED BY <2>2, <2>3, <2>4, <2>5 DEF TypeInv, TypeOK
<1>4. ASSUME NEW t \in HttpThreads, List(t) PROVE TypeInv'
  <2>1. quota' \in [Limited -> Nat] /\ quota'["start"] = quota["start"]
    BY <1>0, <1>4, Spends DEF List, EnvType, Limited
  <2>2. TableType' /\ ObjType' /\ ProcType' /\ FifoType' /\ EnvType'
    BY <1>0, <1>4, <2>1 DEF List, world, objVars, procVars, fifoVars, TableType,
       ObjType, ProcType, FifoType, EnvType
  <2>3. ThreadType' /\ HasRef'
    BY <1>0, <1>4 DEF List, locals, ThreadType, TypeInv, HasRef, Goto
  <2>4. IdsLeft'
    BY <1>0, <1>4, <2>1 DEF List, world, objVars, ThreadType, TypeInv, IdsLeft, Goto
  <2> QED BY <2>2, <2>3, <2>4 DEF TypeInv, TypeOK
<1> QED BY <1>1, <1>2, <1>3, <1>4 DEF Requests

LEMMA TypeSetter ==
  ASSUME TypeInv, NEW t \in Clients, SetterSteps(t) PROVE TypeInv'
<1> USE Actors, Places DEF At, Pointing
<1>0. TableType /\ ObjType /\ ProcType /\ FifoType /\ ThreadType /\ EnvType
  BY DEF TypeInv, TypeOK
<1>1. CASE Lookup(t)
  <2>1. TableType' /\ ObjType' /\ ProcType' /\ FifoType' /\ EnvType'
    BY <1>0, <1>1 DEF Lookup, world, objVars, procVars, fifoVars, envVars,
       TableType, ObjType, ProcType, FifoType, EnvType
  <2>2. ThreadType' /\ HasRef'
    BY <1>0, <1>1 DEF Lookup, ThreadType, TypeInv, HasRef, Goto
  <2>3. IdsLeft'
    BY <1>0, <1>1 DEF Lookup, world, objVars, envVars, ThreadType, TypeInv,
       IdsLeft, Goto
  <2> QED BY <2>1, <2>2, <2>3 DEF TypeInv, TypeOK
<1>2. CASE MapRace(t) \/ UseAfterFree(t)
  BY <1>0, <1>2, TypeDies DEF MapRace, UseAfterFree, EnvType
<1>3. CASE OpenWrite(t)
  <2>1. TableType' /\ ObjType' /\ ProcType' /\ FifoType' /\ EnvType'
    BY <1>0, <1>3 DEF OpenWrite, tableVars, world, objVars, procVars, fifoVars, envVars,
       TableType, ObjType, ProcType, FifoType, EnvType
  <2>2. fifo[chanOf[ref[t]]] \in Nat
    BY <1>0, <1>3 DEF OpenWrite, ObjType, FifoType, TypeInv, HasRef
  <2>3. PICK p \in {"write", "store", "blocked"}, n \in Nat :
           Goto(t, p) /\ node' = [node EXCEPT ![t] = n]
    BY <1>3, <2>2 DEF OpenWrite
  <2>4. pc' \in [Threads -> PCs] /\ HasRef' /\ IdsLeft'
    BY <1>3, <2>3, Stays DEF OpenWrite, world, objVars, envVars
  <2>5. UNCHANGED <<arg, ref>>
    BY <1>3 DEF OpenWrite
  <2> QED BY <1>0, <2>1, <2>3, <2>4, <2>5 DEF ThreadType, TypeInv, TypeOK
<1>4. CASE Write(t)
  <2>1. TableType' /\ ObjType' /\ ProcType' /\ FifoType' /\ EnvType'
    BY <1>0, <1>4 DEF Write, tableVars, objVars, procVars, envVars, TableType,
       ObjType, ProcType, FifoType, EnvType, TypeInv, HasRef
  <2>2. pc' \in [Threads -> PCs] /\ HasRef' /\ IdsLeft'
    BY <1>4, Stays DEF Write, objVars, locals, envVars
  <2> QED BY <1>0, <1>4, <2>1, <2>2 DEF Write, locals, ThreadType, TypeInv, TypeOK
<1>5. CASE Store(t)
  <2>1. TableType' /\ ObjType' /\ ProcType' /\ FifoType' /\ EnvType'
    BY <1>0, <1>5 DEF Store, tableVars, world, objVars, procVars, fifoVars, envVars,
       TableType, ObjType, ProcType, FifoType, EnvType
  <2>2. pc' \in [Threads -> PCs] /\ HasRef' /\ IdsLeft'
    BY <1>5, Stays DEF Store, world, objVars, locals, envVars
  <2> QED BY <1>0, <1>5, <2>1, <2>2 DEF Store, locals, ThreadType, TypeInv, TypeOK
<1>6. CASE UseReallocated(t)
  <2>1. TableType' /\ ObjType' /\ ProcType' /\ FifoType' /\ EnvType'
    BY <1>0, <1>6 DEF UseReallocated, tableVars, world, objVars, procVars, fifoVars,
       envVars, TableType, ObjType, ProcType, FifoType, EnvType
  <2>2. ThreadType' /\ HasRef'
    BY <1>0, <1>6 DEF UseReallocated, ThreadType, TypeInv, HasRef
  <2>3. IdsLeft'
    BY <1>6 DEF UseReallocated, world, objVars, envVars, TypeInv, IdsLeft
  <2> QED BY <2>1, <2>2, <2>3 DEF TypeInv, TypeOK
<1> QED BY <1>1, <1>2, <1>3, <1>4, <1>5, <1>6 DEF SetterSteps

LEMMA TypeList ==
  ASSUME TypeInv, NEW t \in HttpThreads, ListSteps(t) PROVE TypeInv'
<1> USE Actors, Places DEF At, Unlock, Pointing
<1>0. TableType /\ ObjType /\ ProcType /\ FifoType /\ ThreadType /\ EnvType
  BY DEF TypeInv, TypeOK
<1>1. CASE ListDone(t)
  <2>1. TableType' /\ ObjType' /\ ProcType' /\ FifoType' /\ EnvType'
    BY <1>0, <1>1 DEF ListDone, world, objVars, procVars, fifoVars, envVars,
       TableType, ObjType, ProcType, FifoType, EnvType
  <2>2. pc' \in [Threads -> PCs] /\ HasRef' /\ IdsLeft'
    BY <1>1, Stays DEF ListDone, world, objVars, locals, envVars
  <2> QED BY <1>0, <1>1, <2>1, <2>2 DEF ListDone, locals, ThreadType, TypeInv, TypeOK
<1>2. CASE ListNull(t)
  BY <1>0, <1>2, TypeDies DEF ListNull, EnvType
<1> QED BY <1>1, <1>2 DEF ListSteps

LEMMA TypeWorker == ASSUME TypeInv, WorkerSteps PROVE TypeInv'
<1> USE Actors, Places DEF At, Lock, Unlock, Pointing
<1>0. TableType /\ ObjType /\ ProcType /\ FifoType /\ ThreadType /\ EnvType
  BY DEF TypeInv, TypeOK
<1>1. CASE Pop
  <2>1. TableType' /\ Head(delChanList) \in Chans
    BY <1>0, <1>1 DEF Pop, TableType
  <2>2. ObjType' /\ ProcType' /\ FifoType' /\ EnvType'
    BY <1>0, <1>1 DEF Pop, world, objVars, procVars, fifoVars, envVars,
       ObjType, ProcType, FifoType, EnvType
  <2>3. PICK p \in {"idle", "reap"} : Goto(Worker, p)
    BY <1>1 DEF Pop
  <2>4. pc' \in [Threads -> PCs] /\ HasRef' /\ IdsLeft'
    BY <1>1, <2>3, Stays DEF Pop, world, objVars, envVars
  <2> QED BY <1>0, <1>1, <2>1, <2>2, <2>4 DEF Pop, ThreadType, TypeInv, TypeOK
<1>2. CASE Acquire
  <2>1. TableType' /\ ObjType' /\ ProcType' /\ FifoType' /\ EnvType'
    BY <1>0, <1>2 DEF Acquire, world, objVars, procVars, fifoVars, envVars,
       TableType, ObjType, ProcType, FifoType, EnvType
  <2>2. pc' \in [Threads -> PCs] /\ HasRef' /\ IdsLeft'
    BY <1>2, Stays DEF Acquire, world, objVars, locals, envVars
  <2> QED BY <1>0, <1>2, <2>1, <2>2 DEF Acquire, locals, ThreadType, TypeInv, TypeOK
<1>3. CASE Erase
  <2>1. TableType' /\ ObjType' /\ ProcType' /\ FifoType' /\ EnvType'
    BY <1>0, <1>3 DEF Erase, world, objVars, procVars, fifoVars, envVars,
       TableType, ObjType, ProcType, FifoType, EnvType
  <2>2. ThreadType' /\ HasRef'
    BY <1>0, <1>3 DEF Erase, ThreadType, TypeInv, HasRef, Goto
  <2>3. IdsLeft'
    BY <1>0, <1>3 DEF Erase, world, objVars, envVars, ThreadType, TypeInv,
       IdsLeft, Goto
  <2> QED BY <2>1, <2>2, <2>3 DEF TypeInv, TypeOK
<1>4. CASE Kill
  <2>1. TableType' /\ ObjType' /\ ProcType' /\ FifoType' /\ EnvType'
    BY <1>0, <1>4 DEF Kill, tableVars, objVars, fifoVars, envVars,
       TableType, ObjType, ProcType, FifoType, EnvType
  <2>2. pc' \in [Threads -> PCs] /\ HasRef' /\ IdsLeft'
    BY <1>4, Stays DEF Kill, objVars, locals, envVars
  <2> QED BY <1>0, <1>4, <2>1, <2>2 DEF Kill, locals, ThreadType, TypeInv, TypeOK
<1>5. CASE WaitOk
  <2>1. TableType' /\ ObjType' /\ ProcType' /\ FifoType' /\ EnvType'
    BY <1>0, <1>5 DEF WaitOk, tableVars, objVars, fifoVars, envVars,
       TableType, ObjType, ProcType, FifoType, EnvType
  <2>2. pc' \in [Threads -> PCs] /\ HasRef' /\ IdsLeft'
    BY <1>5, Stays DEF WaitOk, objVars, locals, envVars
  <2> QED BY <1>0, <1>5, <2>1, <2>2 DEF WaitOk, locals, ThreadType, TypeInv, TypeOK
<1>6. CASE WaitOther
  <2>1. TableType' /\ ObjType' /\ FifoType' /\ EnvType'
    BY <1>0, <1>6 DEF WaitOther, tableVars, fifoVars, envVars,
       TableType, ObjType, ObjStates, FifoType, EnvType
  <2>2. ProcType'
    BY <1>0, <1>6 DEF WaitOther, ProcType
  <2>3. IdsLeft' /\ HasRef' /\ pc' \in [Threads -> PCs]
        /\ ref' \in [Threads -> Ids \cup {0}]
    BY <1>6, Moves DEF WaitOther, envVars
  <2> QED BY <1>0, <1>6, <2>1, <2>2, <2>3 DEF WaitOther, ThreadType, TypeInv, TypeOK
<1>7. CASE Unlink
  <2>1. TableType' /\ ObjType' /\ ProcType' /\ FifoType' /\ EnvType'
    BY <1>0, <1>7 DEF Unlink, tableVars, objVars, procVars, envVars,
       TableType, ObjType, ProcType, FifoType, EnvType
  <2>2. pc' \in [Threads -> PCs] /\ HasRef' /\ IdsLeft'
    BY <1>7, Stays DEF Unlink, objVars, locals, envVars
  <2> QED BY <1>0, <1>7, <2>1, <2>2 DEF Unlink, locals, ThreadType, TypeInv, TypeOK
<1>8. CASE Free
  <2>1. TableType' /\ ObjType' /\ ProcType' /\ FifoType' /\ EnvType'
    BY <1>0, <1>8 DEF Free, tableVars, procVars, envVars,
       TableType, ObjType, ObjStates, ProcType, FifoType, EnvType
  <2>2. IdsLeft' /\ HasRef' /\ pc' \in [Threads -> PCs]
        /\ ref' \in [Threads -> Ids \cup {0}]
    BY <1>8, Moves DEF Free, envVars
  <2> QED BY <1>0, <1>8, <2>1, <2>2 DEF Free, ThreadType, TypeInv, TypeOK
<1>9. CASE CloseFallsThrough
  BY <1>0, <1>9, TypeDies DEF CloseFallsThrough, EnvType
<1> QED BY <1>1, <1>2, <1>3, <1>4, <1>5, <1>6, <1>7, <1>8, <1>9 DEF WorkerSteps

LEMMA TypeChild ==
  ASSUME TypeInv, NEW i \in Ids, ChildSteps(i) \/ ChildExits(i) PROVE TypeInv'
<1> USE Actors, Places DEF BecomesProc, Gone
<1>0. TableType /\ ObjType /\ ProcType /\ FifoType /\ ThreadType /\ EnvType
  BY DEF TypeInv, TypeOK
<1>1. CASE SetUpOk(i) \/ DieOfSignal(i)
  <2>1. ProcType'
    BY <1>0, <1>1 DEF SetUpOk, DieOfSignal, ProcType
  <2>2. UNCHANGED <<tableVars, objVars, fifoVars, threadVars, envVars>>
    BY <1>1 DEF SetUpOk, DieOfSignal
  <2> QED
    BY <1>0, <2>1, <2>2 DEF tableVars, objVars, fifoVars, threadVars, locals,
       envVars, TableType, ObjType, FifoType, ThreadType, EnvType, IdsLeft, HasRef,
       TypeInv, TypeOK
<1>2. CASE SetUpFails(i) \/ ChildExits(i)
  <2>1. ProcType'
    BY <1>0, <1>2 DEF SetUpFails, ChildExits, ProcType
  <2>2. EnvType' /\ quota'["start"] = quota["start"]
    BY <1>0, <1>2, Spends DEF SetUpFails, ChildExits, EnvType, Limited
  <2>3. UNCHANGED <<tableVars, objVars, fifoVars, threadVars>>
    BY <1>2 DEF SetUpFails, ChildExits
  <2> QED
    BY <1>0, <2>1, <2>2, <2>3 DEF tableVars, objVars, fifoVars, threadVars, locals,
       TableType, ObjType, FifoType, ThreadType, IdsLeft, HasRef, TypeInv, TypeOK
<1>3. CASE ChildFifo(i)
  <2>1. ProcType' /\ FifoType'
    BY <1>0, <1>3 DEF ChildFifo, MakeNode, ProcType, FifoType
  <2>2. UNCHANGED <<tableVars, objVars, threadVars, envVars>>
    BY <1>3 DEF ChildFifo
  <2> QED
    BY <1>0, <2>1, <2>2 DEF tableVars, objVars, threadVars, locals, envVars,
       TableType, ObjType, ThreadType, EnvType, IdsLeft, HasRef, TypeInv, TypeOK
<1>4. CASE ChildOpen(i)
  <2>1. TableType' /\ ObjType' /\ ProcType' /\ EnvType'
    BY <1>0, <1>4 DEF ChildOpen, tableVars, objVars, envVars, TableType, ObjType,
       ProcType, EnvType
  <2>2. FifoType'
    BY <1>0, <1>4 DEF ChildOpen, ObjType, FifoType
  <2>3. ThreadType' /\ HasRef'
    BY <1>0, <1>4 DEF ChildOpen, locals, ThreadType, TypeInv, HasRef, Pointing
  <2>4. IdsLeft'
    BY <1>0, <1>4 DEF ChildOpen, objVars, envVars, ThreadType, TypeInv, IdsLeft
  <2> QED BY <2>1, <2>2, <2>3, <2>4 DEF TypeInv, TypeOK
<1> QED BY <1>1, <1>2, <1>3, <1>4 DEF ChildSteps

LEMMA TypeNext == TypeInv /\ [Next]_vars => TypeInv'
<1> SUFFICES ASSUME TypeInv, [Next]_vars PROVE TypeInv'
  OBVIOUS
<1>1. CASE Crash
  <2>1. quota \in [Limited -> Nat]
    BY DEF TypeInv, TypeOK, EnvType
  <2>2. quota' \in [Limited -> Nat] /\ quota'["start"] = quota["start"]
    BY <1>1, <2>1, Spends DEF Crash, Limited
  <2> QED BY <1>1, <2>2, TypeDies DEF Crash
<1>2. CASE Restart
  BY <1>2 DEF Restart, tableVars, world, objVars, procVars, fifoVars, threadVars,
     locals, TypeInv, TypeOK, TableType, ObjType, ProcType, FifoType, ThreadType,
     EnvType, IdsLeft, HasRef
<1>3. CASE UNCHANGED vars
  BY <1>3 DEF vars, tableVars, world, objVars, procVars, fifoVars, threadVars,
     locals, envVars, TypeInv, TypeOK, TableType, ObjType, ProcType, FifoType,
     ThreadType, EnvType, IdsLeft, HasRef
<1> QED
  BY <1>1, <1>2, <1>3, TypeRequests, TypeCreate, TypeSetter, TypeList, TypeWorker,
     TypeChild DEF Next

(* Every variable keeps its type, whatever the threads, the children and the *)
(* failures do: in particular createChannel never allocates a Channel beyond *)
(* the starts it accepted, and no thread follows a null Channel pointer.     *)
THEOREM TypeCorrect == Spec => []TypeOK
<1>1. Spec => []TypeInv
  BY TypeInit, TypeNext, PTL DEF Spec
<1> QED BY <1>1, PTL DEF TypeInv

-----------------------------------------------------------------------------
(* Safety.  The invariant says who holds a Channel at each moment: nobody    *)
(* (fresh), createChannel, chanMap, or the worker; and never two of them.    *)

Owning   == {"fork", "mkfifo", "register", "insert"}
Handling == {"kill", "wait", "unlink", "free"}

OrphanUnreachable ==
  \A i \in orphans : /\ \A c \in Names : chanMap[c] # i
                     /\ \A t \in Threads : ref[t] # i

FreshIds == \A i \in Ids : i > nextId =>
               obj[i] = "unused" /\ i \notin forked \cup orphans

Pids == \A i \in Ids : i \in forked <=> proc[i] # "none"

(* The name under creation has no Channel yet, and the Channel under         *)
(* creation is in nobody else's hands.                                       *)
CreationPlace == pc[Sip] \in Owning => chanMap[arg[Sip]] \notin Ids
Created == pc[Sip] \in {"mkfifo", "register", "insert"} =>
  /\ ref[Sip] <= nextId /\ ref[Sip] \notin orphans
  /\ chanOf[ref[Sip]] = arg[Sip]
  /\ obj[ref[Sip]] = IF pc[Sip] = "mkfifo" THEN "unused" ELSE "live"
  /\ \A c \in Names : chanMap[c] # ref[Sip]
  /\ ~Handled(ref[Sip])

TornDown == pc[Worker] \in Handling =>
  /\ obj[ref[Worker]] = "live" /\ ref[Worker] \notin orphans
  /\ pc[Worker] \in {"unlink", "free"} => proc[ref[Worker]] \in {"none", "reaped"}

LiveIsOurs == \A i \in Ids : obj[i] = "live" => i \notin orphans

SafeInv == /\ FreshIds /\ Pids /\ CreationPlace /\ Created /\ TornDown
           /\ LiveIsOurs /\ RegisteredIsLive /\ NoLostChild /\ FreedIsReaped
           /\ OrphanUnreachable
IInv == TypeInv /\ SafeInv

(* What the invariant reads of the types.                                    *)
LEMMA Types ==
  ASSUME TypeInv
  PROVE  /\ chanMap \in [Names -> Ids \cup {Absent, Null}]
         /\ obj \in [Ids -> ObjStates] /\ chanOf \in [Ids -> Names]
         /\ forked \subseteq Ids /\ nextId \in Nat
         /\ proc \in [Ids -> ProcStates] /\ orphans \subseteq Ids
         /\ pc \in [Threads -> PCs] /\ arg \in [Threads -> Names]
         /\ ref \in [Threads -> Ids \cup {0}]
         /\ \A t \in Threads : pc[t] \in Pointing => ref[t] \in Ids
         /\ ref[Sip] \in Ids \cup {0} /\ ref[Worker] \in Ids \cup {0}
         /\ arg[Sip] \in Names /\ arg[Worker] \in Names
BY Actors DEF TypeInv, TypeOK, TableType, ObjType, ProcType, ThreadType, HasRef

LEMMA SafeInit == Init => SafeInv
BY Actors DEF Init, SafeInv, FreshIds, Pids, CreationPlace, Created, TornDown,
   LiveIsOurs, RegisteredIsLive, NoLostChild, FreedIsReaped, OrphanUnreachable,
   Owning, Handling, Handled, Alive, Serving

(* A step that moves no Channel: the table keeps its Channels, no object and *)
(* no child changes, and neither createChannel nor the worker gets hold of   *)
(* a Channel or lets one go.                                                 *)
LEMMA Quiet ==
  ASSUME IInv, TypeInv', UNCHANGED <<objVars, procVars>>,
         \A c \in Names : chanMap[c] \in Ids \/ chanMap'[c] \in Ids =>
                          chanMap'[c] = chanMap[c],
         pc[Sip] \in Owning \/ pc'[Sip] \in Owning =>
            UNCHANGED <<pc[Sip], arg[Sip], ref[Sip]>>,
         pc[Worker] \in Handling \/ pc'[Worker] \in Handling =>
            UNCHANGED <<pc[Worker], ref[Worker]>>,
         \A t \in Threads : ref'[t] \notin orphans
  PROVE  SafeInv'
<1> USE Actors, Types DEF IInv, SafeInv, objVars, procVars
<1>1. (FreshIds /\ Pids /\ LiveIsOurs /\ FreedIsReaped)'
  BY DEF FreshIds, Pids, LiveIsOurs, FreedIsReaped
<1>2. CreationPlace'
  BY DEF CreationPlace, TypeInv, TypeOK, TableType, ThreadType
<1>3. \A i \in Ids : Handled(i)' <=> Handled(i)
  BY DEF Handled, Handling
<1>4. Created'
  <2> SUFFICES ASSUME pc'[Sip] \in {"mkfifo", "register", "insert"}
               PROVE  Created'
    BY DEF Created
  <2>1. UNCHANGED <<pc[Sip], arg[Sip], ref[Sip]>> /\ ref[Sip] \in Ids
    BY DEF Owning, Pointing
  <2>2. \A c \in Names : chanMap'[c] # ref[Sip]
    BY <2>1 DEF Created
  <2> QED BY <1>3, <2>1, <2>2 DEF Created
<1>5. TornDown'
  BY DEF TornDown, Handling
<1>6. RegisteredIsLive'
  BY <1>3 DEF RegisteredIsLive
<1>7. NoLostChild'
  BY <1>3 DEF NoLostChild, UnderCreation, Owning
<1>8. OrphanUnreachable'
  BY DEF OrphanUnreachable
<1> QED BY <1>1, <1>2, <1>4, <1>5, <1>6, <1>7, <1>8

(* The end of the parent process: every child becomes an orphan, nobody      *)
(* holds a Channel any more.                                                 *)
LEMMA SafeDies == ASSUME IInv, ParentDies PROVE SafeInv'
<1> USE Actors, Types DEF IInv, SafeInv, ParentDies
<1>1. FreshIds' /\ Pids' /\ LiveIsOurs' /\ FreedIsReaped'
  BY DEF FreshIds, Pids, LiveIsOurs, FreedIsReaped, ObjStates
<1>2. CreationPlace' /\ Created' /\ TornDown'
  BY DEF CreationPlace, Created, TornDown, Owning, Handling
<1>3. RegisteredIsLive' /\ OrphanUnreachable'
  BY DEF RegisteredIsLive, OrphanUnreachable
<1>4. NoLostChild'
  BY DEF NoLostChild, Alive, Serving
<1> QED BY <1>1, <1>2, <1>3, <1>4

LEMMA SafeCreate == ASSUME IInv, TypeInv', CreateSteps PROVE SafeInv'
<1> USE Actors, Types DEF IInv, SafeInv, At, Goto
<1>1. CASE Refuse \/ Register
  <2>1. CASE Refuse
    BY <1>1, <2>1, Quiet DEF Refuse, world, locals, Owning, Handling,
       OrphanUnreachable
  <2>2. CASE Register
    <3>1. UNCHANGED <<chanMap, objVars, procVars, arg, ref>>
          /\ pc[Sip] = "register" /\ pc'[Sip] = "insert" /\ pc'[Worker] = pc[Worker]
      BY <2>2 DEF Register, world, locals
    <3> QED
      BY <3>1 DEF objVars, procVars, FreshIds, Pids, LiveIsOurs, FreedIsReaped,
         CreationPlace, Created, TornDown, RegisteredIsLive, NoLostChild,
         OrphanUnreachable, Owning, Handling, Handled, UnderCreation
  <2> QED BY <1>1, <2>1, <2>2
<1>2. CASE Accept
  <2>1. UNCHANGED <<objVars, procVars, arg, ref>> /\ pc[Sip] = "check"
        /\ pc'[Sip] = "fork" /\ pc'[Worker] = pc[Worker]
        /\ chanMap[arg[Sip]] \notin Ids
        /\ chanMap' = [chanMap EXCEPT ![arg[Sip]] = Null]
    BY <1>2 DEF Accept, world, locals
  <2> USE <2>1 DEF objVars, procVars
  <2>2. FreshIds' /\ Pids' /\ LiveIsOurs' /\ FreedIsReaped' /\ CreationPlace'
        /\ Created' /\ TornDown'
    BY DEF FreshIds, Pids, LiveIsOurs, FreedIsReaped, CreationPlace, Created,
       TornDown, Owning, Handling
  <2>3. RegisteredIsLive' /\ NoLostChild' /\ OrphanUnreachable'
    BY DEF RegisteredIsLive, NoLostChild, OrphanUnreachable, Handled, UnderCreation
  <2> QED BY <2>2, <2>3
<1>3. ASSUME NEW i \in Ids, Allocate(i), forked' \subseteq forked \cup {i},
             forked \subseteq forked', proc' \in [Ids -> ProcStates],
             \A j \in Ids \ {i} : proc'[j] = proc[j],
             i \in forked' <=> proc'[i] # "none"
      PROVE  SafeInv'
  <2>1. /\ UNCHANGED <<chanMap, obj, orphans, arg>> /\ pc[Sip] = "fork"
        /\ pc'[Sip] = "mkfifo" /\ pc'[Worker] = pc[Worker]
        /\ i = nextId + 1 /\ nextId' = i /\ ref'[Sip] = i
        /\ ref'[Worker] = ref[Worker] /\ chanOf'[i] = arg[Sip]
        /\ \A j \in Ids \ {i} : chanOf'[j] = chanOf[j]
        /\ \A t \in Threads \ {Sip} : ref'[t] = ref[t]
    BY <1>3 DEF Allocate, tableVars, fifoVars
  <2>2. obj[i] = "unused" /\ i \notin forked \cup orphans /\ proc[i] = "none"
    BY <2>1 DEF FreshIds, Pids
  <2>3. /\ \A c \in Names : chanMap[c] # i
        /\ ~Handled(i)
    BY <2>2 DEF RegisteredIsLive, TornDown, Handled, Handling
  <2>4. FreshIds' /\ Pids' /\ LiveIsOurs' /\ FreedIsReaped'
    BY <1>3, <2>1, <2>2 DEF FreshIds, Pids, LiveIsOurs, FreedIsReaped
  <2>5. CreationPlace' /\ Created' /\ TornDown'
    <3>1. CreationPlace'
      BY <2>1 DEF CreationPlace, Owning
    <3>2. Created'
      BY <2>1, <2>2, <2>3 DEF Created, Handled
    <3>3. TornDown'
      BY <1>3, <2>1, <2>3 DEF TornDown, Handled, Handling, Pointing
    <3> QED BY <3>1, <3>2, <3>3
  <2>6. RegisteredIsLive' /\ OrphanUnreachable'
    <3>1. RegisteredIsLive'
      <4> SUFFICES ASSUME NEW c \in Names, chanMap[c] \in Ids
                   PROVE  /\ obj[chanMap[c]] = "live" /\ chanOf'[chanMap[c]] = c
                          /\ ~Handled(chanMap[c])'
        BY <2>1 DEF RegisteredIsLive
      <4>1. chanMap[c] # i
        BY <2>3
      <4>2. obj[chanMap[c]] = "live" /\ chanOf[chanMap[c]] = c /\ ~Handled(chanMap[c])
        BY DEF RegisteredIsLive
      <4>3. chanOf'[chanMap[c]] = chanOf[chanMap[c]]
        BY <2>1, <4>1
      <4> QED BY <2>1, <4>2, <4>3 DEF Handled
    <3>2. OrphanUnreachable'
      BY <2>1, <2>2 DEF OrphanUnreachable
    <3> QED BY <3>1, <3>2
  <2>7. NoLostChild'
    <3>1. UnderCreation(i)'
      BY <2>1 DEF UnderCreation
    <3>2. ASSUME NEW j \in Ids \ orphans, j # i, proc'[j] \in Alive
          PROVE  chanMap[chanOf[j]] = j \/ Handled(j)
      BY <1>3, <2>1, <3>2 DEF NoLostChild, UnderCreation
    <3> QED BY <2>1, <3>1, <3>2 DEF NoLostChild, Handled
  <2> QED BY <2>4, <2>5, <2>6, <2>7
<1>4. ASSUME NEW i \in Ids, Fork(i) PROVE SafeInv'
  <2>1. i \notin forked /\ proc[i] = "none"
    BY <1>4 DEF Fork, Allocate, FreshIds, Pids
  <2> QED BY <1>3, <1>4, <2>1 DEF Fork, ProcStates, Alive, Serving
<1>5. ASSUME NEW i \in Ids, ForkFails(i) PROVE SafeInv'
  BY <1>3, <1>5 DEF ForkFails, Pids
<1>6. CASE NewChannel
  <2>1. /\ UNCHANGED <<chanMap, chanOf, forked, nextId, procVars, arg, ref>>
        /\ pc[Sip] = "mkfifo" /\ pc'[Sip] = "register" /\ pc'[Worker] = pc[Worker]
        /\ obj' = [obj EXCEPT ![ref[Sip]] = "live"] /\ ref[Sip] \in Ids
    BY <1>6 DEF NewChannel, tableVars, locals, Pointing
  <2>2. FreshIds' /\ Pids' /\ LiveIsOurs' /\ FreedIsReaped'
    BY <2>1 DEF procVars, FreshIds, Pids, LiveIsOurs, FreedIsReaped, Created
  <2>3. CreationPlace' /\ Created' /\ TornDown'
    BY <2>1 DEF procVars, CreationPlace, Created, TornDown, Owning, Handling, Handled
  <2>4. RegisteredIsLive' /\ OrphanUnreachable' /\ NoLostChild'
    BY <2>1 DEF procVars, RegisteredIsLive, OrphanUnreachable, NoLostChild, Handled,
       UnderCreation
  <2> QED BY <2>2, <2>3, <2>4
<1>7. CASE Insert
  <2>1. /\ UNCHANGED <<objVars, procVars, arg, ref>> /\ pc[Sip] = "insert"
        /\ pc'[Sip] = "idle" /\ pc'[Worker] = pc[Worker] /\ ref[Sip] \in Ids
        /\ chanMap' = [chanMap EXCEPT ![arg[Sip]] = ref[Sip]]
    BY <1>7 DEF Insert, world, locals, Pointing
  <2> USE DEF objVars, procVars
  <2>2. FreshIds' /\ Pids' /\ LiveIsOurs' /\ FreedIsReaped' /\ CreationPlace'
        /\ Created' /\ TornDown'
    BY <2>1 DEF FreshIds, Pids, LiveIsOurs, FreedIsReaped, CreationPlace, Created,
       TornDown, Owning, Handling
  <2>3. RegisteredIsLive' /\ OrphanUnreachable'
    BY <2>1 DEF RegisteredIsLive, OrphanUnreachable, Created, Handled
  <2>4. NoLostChild'
    BY <2>1 DEF NoLostChild, CreationPlace, Created, Owning, UnderCreation, Handled
  <2> QED BY <2>2, <2>3, <2>4
<1> QED BY <1>1, <1>2, <1>4, <1>5, <1>6, <1>7 DEF CreateSteps

LEMMA SafeSetter ==
  ASSUME IInv, TypeInv', NEW t \in Clients, SetterSteps(t) PROVE SafeInv'
<1> USE Actors, Types DEF IInv, At, Goto, Owning, Handling
<1>0. OrphanUnreachable /\ LiveIsOurs
  BY DEF SafeInv
<1>1. CASE Lookup(t)
  <2>1. UNCHANGED <<objVars, procVars, arg>> /\ pc[t] = "lookup"
        /\ pc'[t] \in {"idle", "open"} /\ \A u \in Threads \ {t} : pc'[u] = pc[u]
    BY <1>1 DEF Lookup, world
  <2>2. \A u \in Threads \ {t} : ref'[u] = ref[u]
    BY <1>1 DEF Lookup
  <2>3. \A c \in Names : chanMap[c] \in Ids \/ chanMap'[c] \in Ids =>
                         chanMap'[c] = chanMap[c]
    BY <1>1 DEF Lookup
  <2>4. \A u \in Threads : ref'[u] \notin orphans
    BY <1>0, <1>1 DEF Lookup, OrphanUnreachable
  <2> QED BY <2>1, <2>2, <2>3, <2>4, Quiet
<1>2. CASE MapRace(t) \/ UseAfterFree(t)
  BY <1>2, SafeDies DEF MapRace, UseAfterFree
<1>3. CASE OpenWrite(t) \/ Write(t) \/ Store(t)
  <2>1. UNCHANGED <<chanMap, objVars, procVars, arg, ref>>
        /\ pc[t] \in {"open", "write", "store"}
    BY <1>3 DEF OpenWrite, Write, Store, tableVars, world, locals
  <2>2. PICK p \in {"write", "store", "blocked", "idle"} : Goto(t, p)
    BY <1>3 DEF OpenWrite, Write, Store
  <2> QED BY <1>0, <2>1, <2>2, Quiet DEF OrphanUnreachable
<1>4. CASE UseReallocated(t)
  <2>1. UNCHANGED <<chanMap, objVars, procVars, pc, arg>>
        /\ pc[t] \in {"open", "write", "store"}
        /\ \A u \in Threads \ {t} : ref'[u] = ref[u]
    BY <1>4 DEF UseReallocated, Dangling, tableVars, world
  <2>2. \A u \in Threads : ref'[u] \notin orphans
    BY <1>0, <1>4 DEF UseReallocated, OrphanUnreachable, LiveIsOurs
  <2> QED BY <2>1, <2>2, Quiet
<1> QED BY <1>1, <1>2, <1>3, <1>4 DEF SetterSteps

LEMMA SafeRequests == ASSUME IInv, TypeInv', Requests PROVE SafeInv'
<1> USE Actors, Types DEF IInv, At, Goto, Owning, Handling
<1>0. OrphanUnreachable
  BY DEF SafeInv
<1>1. ASSUME NEW c \in Chans, Start(c) PROVE SafeInv'
  BY <1>0, <1>1, Quiet DEF Start, world, OrphanUnreachable
<1>2. ASSUME NEW t \in Clients, NEW c \in Chans, Close(t, c) PROVE SafeInv'
  BY <1>0, <1>2, Quiet DEF Close, world, threadVars, locals, OrphanUnreachable
<1>3. ASSUME NEW t \in Clients, NEW c \in Chans, SetCodecParam(t, c) PROVE SafeInv'
  BY <1>0, <1>3, Quiet DEF SetCodecParam, tableVars, world, OrphanUnreachable
<1>4. ASSUME NEW t \in HttpThreads, List(t) PROVE SafeInv'
  BY <1>0, <1>4, Quiet DEF List, world, locals, OrphanUnreachable
<1> QED BY <1>1, <1>2, <1>3, <1>4 DEF Requests

LEMMA SafeList ==
  ASSUME IInv, TypeInv', NEW t \in HttpThreads, ListSteps(t) PROVE SafeInv'
<1> USE Actors, Types DEF IInv, At, Goto, Owning, Handling
<1>0. OrphanUnreachable
  BY DEF SafeInv
<1>1. CASE ListDone(t)
  BY <1>0, <1>1, Quiet DEF ListDone, world, locals, OrphanUnreachable
<1>2. CASE ListNull(t)
  BY <1>2, SafeDies DEF ListNull
<1> QED BY <1>1, <1>2 DEF ListSteps

LEMMA SafeWorker == ASSUME IInv, TypeInv', WorkerSteps PROVE SafeInv'
<1> USE Actors, Types DEF IInv, At, Goto
<1>0. FreshIds /\ Pids /\ CreationPlace /\ Created /\ TornDown /\ LiveIsOurs
      /\ RegisteredIsLive /\ NoLostChild /\ FreedIsReaped /\ OrphanUnreachable
  BY DEF SafeInv
<1>1. CASE Pop
  BY <1>0, <1>1, Quiet DEF Pop, world, OrphanUnreachable, Owning, Handling
<1>2. CASE Acquire
  BY <1>0, <1>2, Quiet DEF Acquire, world, locals, OrphanUnreachable, Owning, Handling
<1>3. CASE Erase
  <2> DEFINE i == chanMap[arg[Worker]]
  <2>1. /\ UNCHANGED <<objVars, procVars, arg>> /\ pc[Worker] = "erase"
        /\ pc'[Sip] = pc[Sip] /\ ref'[Sip] = ref[Sip]
        /\ \A c \in Names \ {arg[Worker]} : chanMap'[c] = chanMap[c]
        /\ chanMap'[arg[Worker]] \notin Ids
        /\ \A t \in Threads \ {Worker} : ref'[t] = ref[t]
    BY <1>3 DEF Erase, world
  <2>2. CASE i \in Ids
    <3>1. pc'[Worker] = "kill" /\ ref'[Worker] = i
      BY <1>3, <2>2 DEF Erase
    <3>2. obj[i] = "live" /\ chanOf[i] = arg[Worker] /\ i \notin orphans
          /\ \A c \in Names : chanMap'[c] # i
      <4>1. obj[i] = "live" /\ chanOf[i] = arg[Worker] /\ i \notin orphans
        BY <1>0, <2>2 DEF RegisteredIsLive, LiveIsOurs
      <4>2. \A c \in Names : chanMap[c] \in Ids => chanOf[chanMap[c]] = c
        BY <1>0 DEF RegisteredIsLive
      <4>3. \A c \in Names : chanMap'[c] # i
        BY <2>1, <2>2, <4>1, <4>2
      <4> QED BY <4>1, <4>3
    <3>3. FreshIds' /\ Pids' /\ LiveIsOurs' /\ FreedIsReaped' /\ CreationPlace'
      BY <1>0, <2>1 DEF objVars, procVars, FreshIds, Pids, LiveIsOurs,
         FreedIsReaped, CreationPlace
    <3>4. Created'
      <4> SUFFICES ASSUME pc[Sip] \in {"mkfifo", "register", "insert"}
                   PROVE  Created'
        BY <2>1 DEF Created
      <4>1. ref[Sip] \in Ids /\ (\A c \in Names : chanMap[c] # ref[Sip])
        BY <1>0 DEF Created, Pointing
      <4>2. \A c \in Names : chanMap'[c] # ref[Sip]
        BY <2>1, <4>1
      <4>3. ~Handled(ref[Sip])'
        BY <2>1, <3>1, <4>1 DEF Handled
      <4> QED BY <1>0, <2>1, <4>2, <4>3 DEF Created, objVars, procVars
    <3>t. TornDown'
      BY <2>1, <3>1, <3>2 DEF objVars, procVars, TornDown
    <3>5. RegisteredIsLive'
      BY <1>0, <2>1, <3>1, <3>2 DEF objVars, RegisteredIsLive, Handled
    <3>o. OrphanUnreachable'
      BY <1>0, <2>1, <3>1, <3>2 DEF procVars, OrphanUnreachable
    <3>6. NoLostChild'
      BY <1>0, <2>1, <3>1, <3>2 DEF objVars, procVars, NoLostChild, UnderCreation, Handled
    <3> QED BY <3>3, <3>4, <3>t, <3>5, <3>o, <3>6 DEF SafeInv
  <2>3. CASE i \notin Ids
    BY <1>0, <1>3, <2>1, <2>3, Quiet DEF Erase, OrphanUnreachable, Owning, Handling
  <2> QED BY <2>2, <2>3
<1>4. CASE Kill
  <2>1. /\ UNCHANGED <<chanMap, objVars, orphans, arg, ref>> /\ pc[Worker] = "kill"
        /\ pc'[Worker] = "wait" /\ pc'[Sip] = pc[Sip]
        /\ \A i \in Ids : \/ proc'[i] = proc[i]
                          \/ proc[i] \in Alive /\ proc'[i] = "dying"
    BY <1>4 DEF Kill, tableVars, locals
  <2>2. FreshIds' /\ Pids' /\ LiveIsOurs' /\ FreedIsReaped' /\ CreationPlace'
        /\ Created' /\ TornDown'
    BY <1>0, <2>1 DEF objVars, FreshIds, Pids, LiveIsOurs, FreedIsReaped,
       CreationPlace, Created, TornDown, Handling, Handled, Alive, Serving
  <2>3. RegisteredIsLive' /\ OrphanUnreachable' /\ NoLostChild'
    BY <1>0, <2>1 DEF objVars, RegisteredIsLive, OrphanUnreachable, NoLostChild,
       UnderCreation, Handled, Alive
  <2> QED BY <2>2, <2>3 DEF SafeInv
<1>5. CASE WaitOk
  <2>1. /\ UNCHANGED <<chanMap, objVars, orphans, arg, ref>> /\ pc[Worker] = "wait"
        /\ pc'[Worker] = "unlink" /\ pc'[Sip] = pc[Sip] /\ ref[Worker] \in Ids
        /\ \A i \in Ids \ {ref[Worker]} : proc'[i] = proc[i]
        /\ proc'[ref[Worker]] \in {"none", "reaped"}
        /\ proc'[ref[Worker]] = "none" <=> proc[ref[Worker]] = "none"
    BY <1>0, <1>5 DEF WaitOk, tableVars, locals, Pids, Pointing
  <2>2. FreshIds' /\ Pids' /\ LiveIsOurs' /\ FreedIsReaped' /\ CreationPlace'
        /\ Created' /\ TornDown'
    BY <1>0, <2>1 DEF objVars, FreshIds, Pids, LiveIsOurs, FreedIsReaped,
       CreationPlace, Created, TornDown, Handling, Handled
  <2>3. RegisteredIsLive' /\ OrphanUnreachable' /\ NoLostChild'
    BY <1>0, <2>1 DEF objVars, RegisteredIsLive, OrphanUnreachable, NoLostChild,
       UnderCreation, Handled
  <2> QED BY <2>2, <2>3 DEF SafeInv
<1>6. CASE WaitOther
  <2>1. /\ UNCHANGED <<chanMap, chanOf, forked, nextId, orphans, arg>>
        /\ pc[Worker] = "wait" /\ pc'[Worker] = "idle" /\ pc'[Sip] = pc[Sip]
        /\ ref[Worker] \in Ids /\ ref'[Worker] = 0
        /\ \A t \in Threads \ {Worker} : ref'[t] = ref[t]
        /\ obj' = [obj EXCEPT ![ref[Worker]] = "leaked"]
        /\ \A i \in Ids : \/ proc'[i] = proc[i]
                          \/ proc[i] = "zombie" /\ proc'[i] = "reaped"
    BY <1>6 DEF WaitOther, tableVars, Pointing
  <2>2. proc[ref[Worker]] \notin Alive
    BY <1>0, <1>6, <2>1 DEF WaitOther, Awaited, Children, Pids, TornDown, Handling,
       Alive, Serving
  <2>3. FreshIds' /\ Pids' /\ LiveIsOurs' /\ FreedIsReaped' /\ CreationPlace'
    BY <1>0, <2>1 DEF FreshIds, Pids, LiveIsOurs, FreedIsReaped, CreationPlace,
       TornDown, Handling
  <2>4. Created' /\ TornDown'
    BY <1>0, <2>1 DEF Created, TornDown, Handling, Handled, Pointing
  <2>5. RegisteredIsLive' /\ OrphanUnreachable' /\ NoLostChild'
    BY <1>0, <2>1, <2>2 DEF RegisteredIsLive, OrphanUnreachable, NoLostChild,
       UnderCreation, Handled, Alive, Serving
  <2> QED BY <2>3, <2>4, <2>5 DEF SafeInv
<1>7. CASE Unlink
  <2>1. /\ UNCHANGED <<chanMap, objVars, procVars, arg, ref>>
        /\ pc[Worker] = "unlink" /\ pc'[Worker] = "free" /\ pc'[Sip] = pc[Sip]
    BY <1>7 DEF Unlink, tableVars, locals
  <2> QED
    BY <1>0, <2>1 DEF objVars, procVars, SafeInv, FreshIds, Pids, LiveIsOurs,
       FreedIsReaped, CreationPlace, Created, TornDown, RegisteredIsLive, NoLostChild,
       OrphanUnreachable, Owning, Handling, Handled, UnderCreation
<1>8. CASE Free
  <2>1. /\ UNCHANGED <<chanMap, chanOf, forked, nextId, procVars, arg>>
        /\ pc[Worker] = "free" /\ pc'[Worker] = "idle" /\ pc'[Sip] = pc[Sip]
        /\ ref[Worker] \in Ids /\ ref'[Worker] = 0
        /\ \A t \in Threads \ {Worker} : ref'[t] = ref[t]
        /\ obj' = [obj EXCEPT ![ref[Worker]] = "freed"]
    BY <1>8 DEF Free, tableVars, Pointing
  <2>2. proc[ref[Worker]] \in {"none", "reaped"}
    BY <1>0, <2>1 DEF TornDown, Handling
  <2>3. FreshIds' /\ Pids' /\ LiveIsOurs' /\ FreedIsReaped' /\ CreationPlace'
    BY <1>0, <2>1, <2>2 DEF procVars, FreshIds, Pids, LiveIsOurs, FreedIsReaped,
       CreationPlace, TornDown, Handling
  <2>4. Created' /\ TornDown'
    BY <1>0, <2>1 DEF procVars, Created, TornDown, Handling, Handled, Pointing
  <2>5. RegisteredIsLive'
    BY <1>0, <2>1 DEF RegisteredIsLive, Handled
  <2>6. OrphanUnreachable'
    BY <1>0, <2>1 DEF procVars, OrphanUnreachable
  <2>7. NoLostChild'
    BY <1>0, <2>1, <2>2 DEF procVars, NoLostChild, UnderCreation, Handled, Alive,
       Serving
  <2> QED BY <2>3, <2>4, <2>5, <2>6, <2>7 DEF SafeInv
<1>9. CASE CloseFallsThrough
  BY <1>9, SafeDies DEF CloseFallsThrough
<1> QED BY <1>1, <1>2, <1>3, <1>4, <1>5, <1>6, <1>7, <1>8, <1>9 DEF WorkerSteps

LEMMA SafeChild ==
  ASSUME IInv, TypeInv', NEW i \in Ids, ChildSteps(i) \/ ChildExits(i)
  PROVE  SafeInv'
<1> USE Actors, Types DEF IInv
<1>0. FreshIds /\ Pids /\ CreationPlace /\ Created /\ TornDown /\ LiveIsOurs
      /\ RegisteredIsLive /\ NoLostChild /\ FreedIsReaped /\ OrphanUnreachable
  BY DEF SafeInv
<1>1. UNCHANGED <<chanMap, objVars, orphans, arg, ref>>
      /\ \A j \in Ids \ {i} : proc'[j] = proc[j]
  BY DEF ChildSteps, ChildExits, SetUpOk, SetUpFails, ChildFifo, ChildOpen,
     DieOfSignal, BecomesProc, tableVars, threadVars, locals
<1>2. proc[i] \in Alive /\ proc'[i] \in Alive \cup {Gone(i)}
  BY DEF ChildSteps, ChildExits, SetUpOk, SetUpFails, ChildFifo, ChildOpen,
     DieOfSignal, BecomesProc, Alive, Serving
<1>3. \A t \in Threads : pc'[t] # pc[t] => pc[t] = "blocked" /\ pc'[t] = "write"
  BY DEF ChildSteps, ChildExits, SetUpOk, SetUpFails, ChildFifo, ChildOpen,
     DieOfSignal, BecomesProc, threadVars
<1>4. \A j \in Ids : Handled(j)' <=> Handled(j)
  BY <1>1, <1>3 DEF Handled
<1>5. \A j \in Ids : UnderCreation(j)' <=> UnderCreation(j)
  BY <1>1, <1>3 DEF UnderCreation
<1>6. FreshIds' /\ LiveIsOurs'
  BY <1>0, <1>1 DEF objVars, FreshIds, LiveIsOurs
<1>7. Pids'
  BY <1>0, <1>1, <1>2 DEF objVars, Pids, Gone, Alive, Serving
<1>8. CreationPlace' /\ OrphanUnreachable'
  BY <1>0, <1>1, <1>3 DEF CreationPlace, Owning, OrphanUnreachable
<1>9. Created'
  <2> SUFFICES ASSUME pc'[Sip] \in {"mkfifo", "register", "insert"}
               PROVE  Created'
    BY DEF Created
  <2>1. pc'[Sip] = pc[Sip] /\ ref[Sip] \in Ids
    BY <1>3 DEF Pointing
  <2> QED BY <1>0, <1>1, <1>4, <2>1 DEF Created, objVars
<1>10. TornDown'
  <2> SUFFICES ASSUME pc'[Worker] \in Handling PROVE TornDown'
    BY DEF TornDown
  <2>1. pc'[Worker] = pc[Worker] /\ ref[Worker] \in Ids
    BY <1>3 DEF Handling, Pointing
  <2>2. /\ obj[ref[Worker]] = "live" /\ ref[Worker] \notin orphans
        /\ pc[Worker] \in {"unlink", "free"} => proc[ref[Worker]] \in {"none", "reaped"}
    BY <1>0, <2>1 DEF TornDown
  <2>3. pc[Worker] \in {"unlink", "free"} => proc'[ref[Worker]] = proc[ref[Worker]]
    BY <1>1, <1>2, <2>1, <2>2 DEF Alive, Serving
  <2> QED BY <1>1, <2>1, <2>2, <2>3 DEF TornDown, objVars
<1>11. RegisteredIsLive'
  BY <1>0, <1>1, <1>4 DEF RegisteredIsLive, objVars
<1>12. NoLostChild'
  BY <1>0, <1>1, <1>2, <1>4, <1>5 DEF NoLostChild, objVars
<1>13. FreedIsReaped'
  BY <1>0, <1>1, <1>2 DEF FreedIsReaped, objVars, Alive, Serving
<1> QED BY <1>6, <1>7, <1>8, <1>9, <1>10, <1>11, <1>12, <1>13 DEF SafeInv

LEMMA SafeNext == IInv /\ [Next]_vars => IInv'
<1> SUFFICES ASSUME IInv, [Next]_vars PROVE IInv'
  OBVIOUS
<1>1. TypeInv'
  BY TypeNext DEF IInv
<1> SUFFICES SafeInv'
  BY <1>1 DEF IInv
<1>2. CASE Crash
  BY <1>2, SafeDies DEF Crash
<1>3. CASE Restart \/ UNCHANGED vars
  <2>1. UNCHANGED <<chanMap, objVars, procVars, pc, arg, ref>>
    BY <1>3 DEF Restart, vars, tableVars, world, threadVars, locals
  <2>2. \A t \in Threads : ref[t] \notin orphans
    BY Types DEF IInv, SafeInv, OrphanUnreachable
  <2> QED BY <1>1, <2>1, <2>2, Quiet
<1> QED
  BY <1>1, <1>2, <1>3, SafeRequests, SafeCreate, SafeSetter, SafeList, SafeWorker,
     SafeChild DEF Next

LEMMA Inductive == Spec => []IInv
<1>1. Init => IInv
  BY TypeInit, SafeInit DEF IInv
<1> QED BY <1>1, SafeNext, PTL DEF Spec

(* No request, close or re-creation, however they interleave, leaves in      *)
(* chanMap a Channel the worker has deleted or has taken out to delete.      *)
THEOREM RegistrySafe == Spec => []RegisteredIsLive
<1>1. IInv => RegisteredIsLive
  BY DEF IInv, SafeInv
<1> QED BY <1>1, Inductive, PTL

(* Every living child of the running parent stays within reach of a close:   *)
(* it is registered, being registered, or in the worker's hands.             *)
THEOREM ChildrenReachable == Spec => []NoLostChild
<1>1. IInv => NoLostChild
  BY DEF IInv, SafeInv
<1> QED BY <1>1, Inductive, PTL

(* delChanWorkLoop deletes no Channel whose child has not been collected.    *)
THEOREM DeletedIsReaped == Spec => []FreedIsReaped
<1>1. IInv => FreedIsReaped
  BY DEF IInv, SafeInv
<1> QED BY <1>1, Inductive, PTL

(* The step of InsertNeverOverwrites: for Insert it is CreationPlace that    *)
(* keeps the second critical section of createChannel off a Channel.         *)
LEMMA KeepsChannels ==
  IInv /\ [Next]_vars =>
    \A c \in Names : chanMap[c] \in Ids => chanMap'[c] \in {chanMap[c], Absent}
<1> SUFFICES ASSUME IInv, [Next]_vars, NEW c \in Names, chanMap[c] \in Ids
             PROVE  chanMap'[c] \in {chanMap[c], Absent}
  OBVIOUS
<1> USE Actors, Types DEF IInv
<1>1. CASE UNCHANGED chanMap
  BY <1>1
<1>2. CASE ParentDies
  BY <1>2 DEF ParentDies
<1>3. CASE Accept
  BY <1>3 DEF Accept
<1>4. CASE Insert
  <2>1. chanMap[arg[Sip]] \notin Ids
    BY <1>4 DEF Insert, At, SafeInv, CreationPlace, Owning
  <2> QED BY <1>4, <2>1 DEF Insert
<1>5. CASE \E t \in Clients : Lookup(t)
  BY <1>5 DEF Lookup
<1>6. CASE Erase
  BY <1>6 DEF Erase
<1>7. CASE Requests
  BY <1>1, <1>7 DEF Requests, Start, Close, SetCodecParam, List, tableVars
<1>8. CASE CreateSteps
  BY <1>1, <1>3, <1>4, <1>8 DEF CreateSteps, Refuse, Fork, ForkFails, Allocate,
     NewChannel, Register, tableVars
<1>9. ASSUME NEW t \in Clients, SetterSteps(t) PROVE chanMap'[c] \in {chanMap[c], Absent}
  BY <1>1, <1>2, <1>5, <1>9 DEF SetterSteps, MapRace, OpenWrite, Write, Store,
     UseAfterFree, UseReallocated, tableVars
<1>10. ASSUME NEW t \in HttpThreads, ListSteps(t) PROVE chanMap'[c] \in {chanMap[c], Absent}
  BY <1>1, <1>2, <1>10 DEF ListSteps, ListDone, ListNull
<1>11. CASE WorkerSteps
  BY <1>1, <1>2, <1>6, <1>11 DEF WorkerSteps, Pop, Acquire, Kill, WaitOk,
     WaitOther, Unlink, Free, CloseFallsThrough, tableVars
<1>12. ASSUME NEW i \in Ids, ChildSteps(i) \/ ChildExits(i)
       PROVE  chanMap'[c] \in {chanMap[c], Absent}
  BY <1>1, <1>12 DEF ChildSteps, ChildExits, SetUpOk, SetUpFails, ChildFifo,
     ChildOpen, DieOfSignal, tableVars
<1>13. CASE Crash \/ Restart \/ UNCHANGED vars
  BY <1>1, <1>2, <1>13 DEF Crash, Restart, vars, tableVars
<1> QED
  BY <1>7, <1>8, <1>9, <1>10, <1>11, <1>12, <1>13 DEF Next

(* A registered Channel leaves chanMap only by the worker's erase or with    *)
(* the process: neither insert of createChannel ever overwrites one.         *)
THEOREM NeverOverwritten == Spec => InsertNeverOverwrites
<1>1. IInv /\ [Next]_vars =>
        [\A c \in Names : chanMap[c] \in Ids => chanMap'[c] \in {chanMap[c], Absent}]_vars
  BY KeepsChannels
<1> QED BY <1>1, Inductive, PTL DEF Spec, InsertNeverOverwrites

-----------------------------------------------------------------------------
(* What ChanManager allows to go wrong, and the causes it has: null entries, *)
(* children killed by the close of another channel, leaked Channels, two     *)
(* readers of one FIFO.                                                      *)

(* The names threads work on are names that were asked for.                  *)

SetAsked   == \A t \in Clients : pc[t] = "lookup" => arg[t] \in asked["set"]
CloseAsked == /\ pc[Worker] \in Reaping => arg[Worker] \in asked["close"]
              /\ \A k \in 1 .. Len(delChanList) : delChanList[k] \in asked["close"]
AskedInv == SetAsked /\ CloseAsked /\ NullEntryHasCause

(* What this part reads of the types.                                        *)
LEMMA AskedTypes ==
  ASSUME TypeInv
  PROVE  /\ asked \in [{"close", "set"} -> SUBSET Chans] /\ delChanList \in Seq(Chans)
         /\ Reaping = {"reap", "erase", "kill", "wait", "unlink", "free"}
         /\ Chans \subseteq Names
BY Actors DEF TypeInv, TypeOK, EnvType, TableType, Reaping

LEMMA AskedInit == Init => AskedInv
BY Actors DEF Init, AskedInv, SetAsked, CloseAsked, NullEntryHasCause, Reaping

LEMMA AskedDies == ASSUME ParentDies PROVE AskedInv'
BY Actors DEF ParentDies, AskedInv, SetAsked, CloseAsked, NullEntryHasCause, Reaping

(* A step that leaves alone the table, the list and what was asked, and does *)
(* not begin or end a part of createChannel, of the listener or the worker.  *)
LEMMA AskedStays ==
  ASSUME AskedInv, UNCHANGED <<chanMap, delChanList, asked, arg>>,
         \A t \in Clients : pc'[t] = "lookup" => pc[t] = "lookup",
         pc'[Worker] \in Reaping => pc[Worker] \in Reaping,
         pc[Sip] \in Owning => pc'[Sip] \in Owning
  PROVE  AskedInv'
BY DEF AskedInv, SetAsked, CloseAsked, NullEntryHasCause, Owning

LEMMA AskedRequests == ASSUME TypeInv, AskedInv, Requests PROVE AskedInv'
<1> USE Actors, Types, AskedTypes DEF AskedInv, At, Goto
<1>1. ASSUME NEW c \in Chans, Start(c) PROVE AskedInv'
  BY <1>1 DEF Start, SetAsked, CloseAsked, NullEntryHasCause
<1>2. ASSUME NEW t \in Clients, NEW c \in Chans, Close(t, c) PROVE AskedInv'
  <2>1. /\ delChanList' = <<c>> \o delChanList
        /\ asked' = [asked EXCEPT !["close"] = @ \cup {c}]
        /\ UNCHANGED <<chanMap, pc, arg>>
    BY <1>2 DEF Close, Asks, threadVars, locals
  <2>2. \A k \in 1 .. Len(delChanList') : delChanList'[k] \in asked'["close"]
    <3> SUFFICES ASSUME NEW k \in 1 .. Len(delChanList') PROVE delChanList'[k] \in asked'["close"]
      OBVIOUS
    <3>1. asked'["close"] = asked["close"] \cup {c}
      BY <2>1
    <3>2. delChanList'[k] = c
          \/ \E m \in 1 .. Len(delChanList) : delChanList'[k] = delChanList[m]
      BY <2>1
    <3> QED BY <3>1, <3>2 DEF CloseAsked
  <2> QED BY <2>1, <2>2 DEF SetAsked, CloseAsked, NullEntryHasCause
<1>3. ASSUME NEW t \in Clients, NEW c \in Chans, SetCodecParam(t, c) PROVE AskedInv'
  BY <1>3 DEF SetCodecParam, Asks, tableVars, SetAsked, CloseAsked, NullEntryHasCause
<1>4. ASSUME NEW t \in HttpThreads, List(t) PROVE AskedInv'
  BY <1>4, AskedStays DEF List, locals, Owning
<1> QED BY <1>1, <1>2, <1>3, <1>4 DEF Requests

LEMMA AskedCreate == ASSUME TypeInv, AskedInv, CreateSteps PROVE AskedInv'
<1> USE Actors, Types, AskedTypes DEF AskedInv, At, Goto
<1>1. CASE Refuse
  BY <1>1, AskedStays DEF Refuse, locals, envVars, Owning
<1>2. CASE Accept
  BY <1>2 DEF Accept, locals, envVars, SetAsked, CloseAsked, NullEntryHasCause
<1>3. ASSUME NEW i \in Ids, Fork(i) \/ ForkFails(i) PROVE AskedInv'
  BY <1>3, AskedStays DEF Fork, ForkFails, Allocate, tableVars, Owning
<1>4. CASE NewChannel \/ Register
  BY <1>4, AskedStays DEF NewChannel, Register, tableVars, locals, envVars, Owning
<1>5. CASE Insert
  <2>1. ref[Sip] # Null
    BY <1>5 DEF Insert, Pointing
  <2> QED
    BY <1>5, <2>1 DEF Insert, locals, envVars, SetAsked, CloseAsked, NullEntryHasCause
<1> QED BY <1>1, <1>2, <1>3, <1>4, <1>5 DEF CreateSteps

LEMMA AskedSetter ==
  ASSUME TypeInv, AskedInv, NEW t \in Clients, SetterSteps(t) PROVE AskedInv'
<1> USE Actors, Types, AskedTypes DEF AskedInv, At, Goto
<1>1. CASE Lookup(t)
  BY <1>1 DEF Lookup, envVars, SetAsked, CloseAsked, NullEntryHasCause
<1>2. CASE MapRace(t) \/ UseAfterFree(t)
  BY <1>2, AskedDies DEF MapRace, UseAfterFree
<1>3. CASE OpenWrite(t) \/ Write(t) \/ Store(t) \/ UseReallocated(t)
  <2>1. UNCHANGED <<chanMap, delChanList, asked, arg>>
    BY <1>3 DEF OpenWrite, Write, Store, UseReallocated, tableVars, locals, envVars
  <2>2. pc' = pc \/ \E p \in {"write", "store", "blocked", "idle"} : pc' = [pc EXCEPT ![t] = p]
    BY <1>3 DEF OpenWrite, Write, Store, UseReallocated
  <2>3. pc[t] \in {"open", "write", "store"}
    BY <1>3 DEF OpenWrite, Write, Store, UseReallocated, Dangling
  <2> QED BY <2>1, <2>2, <2>3, AskedStays DEF Owning
<1> QED BY <1>1, <1>2, <1>3 DEF SetterSteps

LEMMA AskedList ==
  ASSUME TypeInv, AskedInv, NEW t \in HttpThreads, ListSteps(t) PROVE AskedInv'
<1>1. CASE ListNull(t)
  BY <1>1, AskedDies DEF ListNull
<1>2. CASE ListDone(t)
  BY <1>2, AskedStays, Actors, Types, AskedTypes
  DEF ListDone, At, Goto, locals, envVars, Owning
<1> QED BY <1>1, <1>2 DEF ListSteps

LEMMA AskedWorker == ASSUME TypeInv, AskedInv, WorkerSteps PROVE AskedInv'
<1> USE Actors, Types, AskedTypes DEF AskedInv, At, Goto
<1>1. CASE Pop
  <2>1. /\ delChanList # <<>> /\ delChanList' = Tail(delChanList)
        /\ arg' = [arg EXCEPT ![Worker] = Head(delChanList)]
        /\ UNCHANGED <<chanMap, asked>>
        /\ \E p \in {"idle", "reap"} : pc' = [pc EXCEPT ![Worker] = p]
    BY <1>1 DEF Pop, envVars
  <2>2. Head(delChanList) \in asked["close"]
    <3>1. 1 \in 1 .. Len(delChanList) /\ Head(delChanList) = delChanList[1]
      BY <2>1
    <3> QED BY <3>1 DEF CloseAsked
  <2>3. \A k \in 1 .. Len(delChanList') : delChanList'[k] \in asked["close"]
    <3> SUFFICES ASSUME NEW k \in 1 .. Len(delChanList') PROVE delChanList'[k] \in asked["close"]
      OBVIOUS
    <3>1. k + 1 \in 1 .. Len(delChanList) /\ delChanList'[k] = delChanList[k + 1]
      BY <2>1
    <3> QED BY <3>1 DEF CloseAsked
  <2> QED BY <2>1, <2>2, <2>3 DEF SetAsked, CloseAsked, NullEntryHasCause
<1>2. CASE Erase
  <2>1. /\ \E e \in {Absent, Null} : chanMap' = [chanMap EXCEPT ![arg[Worker]] = e]
        /\ \E p \in {"kill", "idle"} : pc' = [pc EXCEPT ![Worker] = p]
        /\ UNCHANGED <<delChanList, arg, asked>>
        /\ pc[Worker] = "erase"
    BY <1>2 DEF Erase, envVars
  <2>2. arg[Worker] \in asked["close"]
    BY <2>1 DEF CloseAsked
  <2> QED BY <2>1, <2>2 DEF SetAsked, CloseAsked, NullEntryHasCause
<1>3. CASE Acquire \/ Kill \/ WaitOk \/ WaitOther \/ Unlink \/ Free
  <2>1. UNCHANGED <<chanMap, delChanList, asked, arg>>
    BY <1>3 DEF Acquire, Kill, WaitOk, WaitOther, Unlink, Free, tableVars, locals, envVars
  <2>2. \E p \in {"erase", "wait", "unlink", "idle", "free"} : pc' = [pc EXCEPT ![Worker] = p]
    BY <1>3 DEF Acquire, Kill, WaitOk, WaitOther, Unlink, Free
  <2>3. pc[Worker] \in Reaping
    BY <1>3 DEF Acquire, Kill, WaitOk, WaitOther, Unlink, Free
  <2> QED BY <2>1, <2>2, <2>3, AskedStays DEF Owning
<1>4. CASE CloseFallsThrough
  BY <1>4, AskedDies DEF CloseFallsThrough
<1> QED BY <1>1, <1>2, <1>3, <1>4 DEF WorkerSteps

LEMMA AskedChild ==
  ASSUME TypeInv, AskedInv, NEW i \in Ids, ChildSteps(i) \/ ChildExits(i) PROVE AskedInv'
<1> USE Actors, Types, AskedTypes
<1>1. UNCHANGED <<chanMap, delChanList, asked, arg>>
  BY DEF ChildSteps, ChildExits, SetUpOk, SetUpFails, ChildFifo, ChildOpen,
     DieOfSignal, tableVars, threadVars, locals, envVars
<1>2. \A t \in Threads : pc'[t] # pc[t] => pc[t] = "blocked" /\ pc'[t] = "write"
  BY DEF ChildSteps, ChildExits, SetUpOk, SetUpFails, ChildFifo, ChildOpen,
     DieOfSignal, threadVars
<1> QED BY <1>1, <1>2, AskedStays DEF Owning

LEMMA AskedNext == TypeInv /\ AskedInv /\ [Next]_vars => AskedInv'
<1> SUFFICES ASSUME TypeInv, AskedInv, [Next]_vars PROVE AskedInv'
  OBVIOUS
<1>1. CASE Crash
  BY <1>1, AskedDies DEF Crash
<1>2. CASE Restart \/ UNCHANGED vars
  BY <1>2, AskedStays DEF Restart, vars, tableVars, threadVars, locals, envVars
<1> QED
  BY <1>1, <1>2, AskedRequests, AskedCreate, AskedSetter, AskedList, AskedWorker, AskedChild
  DEF Next

(* A null entry is that of a channel being created, or one that a close or a *)
(* change of parameters asked for in vain (TdChanManager.cpp:33,59,125).     *)
THEOREM NullsHaveCause == Spec => []NullEntryHasCause
<1>1. Init => TypeInv /\ AskedInv
  BY TypeInit, AskedInit
<1>2. TypeInv /\ AskedInv /\ [Next]_vars => (TypeInv /\ AskedInv)'
  BY TypeNext, AskedNext
<1>3. AskedInv => NullEntryHasCause
  BY DEF AskedInv
<1> QED BY <1>1, <1>2, <1>3, PTL DEF Spec

-----------------------------------------------------------------------------
(* Children die, and Channels leak, for a cause.  The worker handles the     *)
(* Channel of the name it popped; a child waitpid has collected belongs to   *)
(* the Channel the worker is about to delete, or waitpid(-1) collected it.   *)

HandledName == pc[Worker] \in Handling => chanOf[ref[Worker]] = arg[Worker]
Reclaims(i) == pc[Worker] \in {"unlink", "free"} /\ ref[Worker] = i
ReapedIsKnown == \A i \in Ids \ orphans :
  proc[i] = "reaped" /\ obj[i] \in {"unused", "live"} => SomeForkFailed \/ Reclaims(i)
CauseInv == HandledName /\ NoBystanderKilled /\ ReapedIsKnown /\ LeakOnlyAfterForkFailure
Known == IInv /\ AskedInv

LEMMA CauseInit == Init => CauseInv
BY Actors DEF Init, CauseInv, HandledName, NoBystanderKilled, ReapedIsKnown,
   LeakOnlyAfterForkFailure, Handling

LEMMA CauseDies == ASSUME Known, CauseInv, ParentDies PROVE CauseInv'
<1> USE Actors, Types DEF Known, IInv, CauseInv, ParentDies
<1>1. HandledName'
  BY DEF HandledName, Handling
<1>2. NoBystanderKilled'
  BY DEF NoBystanderKilled
<1>3. ReapedIsKnown'
  BY DEF ReapedIsKnown
<1>4. LeakOnlyAfterForkFailure'
  BY DEF LeakOnlyAfterForkFailure
<1> QED BY <1>1, <1>2, <1>3, <1>4

(* A step that changes no object and no child, and leaves the worker where   *)
(* it is or out of the teardown.                                             *)
LEMMA CauseStays ==
  ASSUME Known, CauseInv, UNCHANGED <<objVars, procVars>>,
         asked["close"] \subseteq asked'["close"],
         \/ pc[Worker] \notin Handling /\ pc'[Worker] \notin Handling
         \/ UNCHANGED <<pc[Worker], ref[Worker], arg[Worker]>>
  PROVE  CauseInv'
<1> USE DEF objVars, procVars, CauseInv
<1>1. HandledName'
  BY DEF HandledName
<1>2. NoBystanderKilled'
  BY DEF NoBystanderKilled
<1>3. ReapedIsKnown' /\ LeakOnlyAfterForkFailure'
  BY DEF ReapedIsKnown, Reclaims, SomeForkFailed, LeakOnlyAfterForkFailure, Handling
<1> QED BY <1>1, <1>2, <1>3

LEMMA CauseCreate == ASSUME Known, CauseInv, CreateSteps PROVE CauseInv'
<1> USE Actors, Types DEF Known, IInv, CauseInv, At, Goto
<1>1. CASE Refuse \/ Accept \/ Register \/ Insert
  <2>1. UNCHANGED <<objVars, procVars, ref, arg, asked>> /\ pc'[Worker] = pc[Worker]
    BY <1>1 DEF Refuse, Accept, Register, Insert, world, locals, envVars
  <2> QED BY <2>1, CauseStays
<1>2. ASSUME NEW i \in Ids, Allocate(i), forked' \subseteq forked \cup {i},
             \A j \in Ids \ {i} : proc'[j] = proc[j],
             proc'[i] \notin {"dying", "reaped"}
      PROVE  CauseInv'
  <2>1. /\ UNCHANGED <<obj, orphans, asked>>
        /\ UNCHANGED <<pc[Worker], ref[Worker], arg[Worker]>>
        /\ i = nextId + 1 /\ nextId' = i
        /\ \A j \in Ids \ {i} : chanOf'[j] = chanOf[j]
    BY <1>2 DEF Allocate
  <2>2. obj[i] = "unused" /\ i \notin forked
    BY <2>1 DEF SafeInv, FreshIds
  <2>3. HandledName'
    <3> SUFFICES ASSUME pc[Worker] \in Handling PROVE ref[Worker] # i /\ ref[Worker] \in Ids
      BY <2>1 DEF HandledName
    <3> QED BY <2>2 DEF SafeInv, TornDown, Handling, Pointing
  <2>4. NoBystanderKilled'
    <3> SUFFICES ASSUME NEW k \in Ids, proc'[k] = "dying"
                 PROVE  \/ chanOf'[k] \in asked["close"]
                        \/ \E j \in Ids : /\ j <= nextId' /\ j \notin forked'
                                          /\ chanOf'[j] \in asked["close"]
      BY <2>1 DEF NoBystanderKilled
    <3>1. k # i /\ proc[k] = "dying"
      BY <1>2
    <3>2. CASE chanOf[k] \in asked["close"]
      BY <2>1, <3>1, <3>2
    <3>3. ASSUME NEW j \in Ids, j <= nextId, j \notin forked, chanOf[j] \in asked["close"]
          PROVE  j <= nextId' /\ j \notin forked' /\ chanOf'[j] \in asked["close"]
      BY <1>2, <2>1, <3>3
    <3> QED BY <3>1, <3>2, <3>3 DEF NoBystanderKilled
  <2>5. SomeForkFailed => SomeForkFailed'
    <3>1. ASSUME NEW j \in Ids, j <= nextId, j \notin forked
          PROVE  j <= nextId' /\ j \notin forked'
      BY <1>2, <2>1, <3>1
    <3> QED BY <3>1 DEF SomeForkFailed
  <2>6. ReapedIsKnown'
    BY <1>2, <2>1, <2>5 DEF ReapedIsKnown, Reclaims
  <2>7. LeakOnlyAfterForkFailure'
    BY <2>1, <2>5 DEF LeakOnlyAfterForkFailure
  <2> QED BY <2>3, <2>4, <2>6, <2>7
<1>3. ASSUME NEW i \in Ids, Fork(i) PROVE CauseInv'
  BY <1>2, <1>3 DEF Fork
<1>4. ASSUME NEW i \in Ids, ForkFails(i) PROVE CauseInv'
  <2>1. i \notin forked /\ proc[i] = "none"
    BY <1>4 DEF ForkFails, Allocate, SafeInv, FreshIds, Pids
  <2> QED BY <1>2, <1>4, <2>1 DEF ForkFails
<1>5. CASE NewChannel
  <2>1. /\ UNCHANGED <<chanOf, forked, nextId, procVars, arg, ref, asked>>
        /\ pc'[Worker] = pc[Worker] /\ pc[Sip] = "mkfifo"
        /\ obj' = [obj EXCEPT ![ref[Sip]] = "live"] /\ ref[Sip] \in Ids
        /\ obj[ref[Sip]] = "unused"
    BY <1>5 DEF NewChannel, locals, envVars, Pointing, SafeInv, Created
  <2>2. HandledName' /\ NoBystanderKilled'
    BY <2>1 DEF procVars, HandledName, NoBystanderKilled
  <2>3. ReapedIsKnown' /\ LeakOnlyAfterForkFailure'
    BY <2>1 DEF procVars, ReapedIsKnown, Reclaims, SomeForkFailed, LeakOnlyAfterForkFailure
  <2> QED BY <2>2, <2>3
<1> QED BY <1>1, <1>3, <1>4, <1>5 DEF CreateSteps

LEMMA CauseClients ==
  ASSUME Known, CauseInv, NEW t \in Clients,
         SetterSteps(t) \/ (t \in HttpThreads /\ ListSteps(t))
  PROVE  CauseInv'
<1> USE Actors, Types DEF Known, IInv, At, Goto
<1>1. CASE MapRace(t) \/ UseAfterFree(t) \/ ListNull(t)
  BY <1>1, CauseDies DEF MapRace, UseAfterFree, ListNull
<1>2. CASE Lookup(t) \/ OpenWrite(t) \/ Write(t) \/ Store(t) \/ UseReallocated(t) \/ ListDone(t)
  <2>1. UNCHANGED <<objVars, procVars, arg, asked>>
    BY <1>2 DEF Lookup, OpenWrite, Write, Store, UseReallocated, ListDone, world,
       locals, envVars
  <2>2. pc'[Worker] = pc[Worker] /\ ref'[Worker] = ref[Worker]
    BY <1>2 DEF Lookup, OpenWrite, Write, Store, UseReallocated, ListDone, locals
  <2> QED BY <2>1, <2>2, CauseStays
<1> QED BY <1>1, <1>2 DEF SetterSteps, ListSteps

LEMMA CauseRequests == ASSUME Known, CauseInv, Requests PROVE CauseInv'
<1> USE Actors, Types DEF Known, IInv, At, Goto
<1>1. ASSUME NEW c \in Chans, Start(c) PROVE CauseInv'
  BY <1>1, CauseStays DEF Start, world
<1>2. ASSUME NEW t \in Clients, NEW c \in Chans, Close(t, c) PROVE CauseInv'
  BY <1>2, AskedTypes, CauseStays DEF Close, Asks, world, threadVars, locals
<1>3. ASSUME NEW t \in Clients, NEW c \in Chans, SetCodecParam(t, c) PROVE CauseInv'
  BY <1>3, AskedTypes, CauseStays DEF SetCodecParam, Asks, world
<1>4. ASSUME NEW t \in HttpThreads, List(t) PROVE CauseInv'
  BY <1>4, CauseStays DEF List, world, locals
<1> QED BY <1>1, <1>2, <1>3, <1>4 DEF Requests

LEMMA CauseWorker == ASSUME Known, CauseInv, WorkerSteps PROVE CauseInv'
<1> USE Actors, Types DEF Known, IInv, CauseInv, SafeInv, At, Goto
<1>0. pc[Worker] \in {"kill", "wait", "unlink", "free"} =>
        /\ ref[Worker] \in Ids /\ obj[ref[Worker]] = "live" /\ ref[Worker] \notin orphans
        /\ chanOf[ref[Worker]] = arg[Worker] /\ ref[Worker] <= nextId
        /\ chanOf[ref[Worker]] \in asked["close"]
        /\ ref[Worker] \notin forked => SomeForkFailed
  <2> SUFFICES ASSUME pc[Worker] \in {"kill", "wait", "unlink", "free"}
               PROVE  /\ ref[Worker] \in Ids /\ obj[ref[Worker]] = "live"
                      /\ ref[Worker] \notin orphans
                      /\ chanOf[ref[Worker]] = arg[Worker] /\ ref[Worker] <= nextId
                      /\ chanOf[ref[Worker]] \in asked["close"]
                      /\ ref[Worker] \notin forked => SomeForkFailed
    OBVIOUS
  <2>1. ref[Worker] \in Ids /\ obj[ref[Worker]] = "live" /\ ref[Worker] \notin orphans
        /\ chanOf[ref[Worker]] = arg[Worker]
    BY DEF Pointing, TornDown, HandledName, Handling
  <2>2. ref[Worker] <= nextId
    <3>1. ASSUME NEW i \in Ids, obj[i] = "live" PROVE i <= nextId
      <4>1. ~(i > nextId)
        BY <3>1 DEF FreshIds
      <4>2. i \in Nat /\ nextId \in Nat
        OBVIOUS
      <4> QED BY <4>1, <4>2
    <3> QED BY <2>1, <3>1
  <2>3. arg[Worker] \in asked["close"]
    BY DEF AskedInv, CloseAsked, Reaping
  <2>4. ref[Worker] \notin forked => SomeForkFailed
    BY <2>1, <2>2 DEF SomeForkFailed
  <2> QED BY <2>1, <2>2, <2>3, <2>4
<1>1. CASE Pop \/ Acquire
  <2>1. UNCHANGED <<objVars, procVars, asked>>
        /\ pc[Worker] \notin Handling /\ pc'[Worker] \notin Handling
    BY <1>1 DEF Pop, Acquire, world, envVars, Handling
  <2> QED BY <2>1, CauseStays
<1>2. CASE Erase
  <2>1. UNCHANGED <<objVars, procVars, arg, asked>> /\ pc[Worker] = "erase"
    BY <1>2 DEF Erase, world, envVars
  <2>2. HandledName'
    BY <1>2, <2>1 DEF Erase, objVars, HandledName, Handling, RegisteredIsLive
  <2>3. (NoBystanderKilled /\ LeakOnlyAfterForkFailure)'
    BY <2>1 DEF objVars, procVars, NoBystanderKilled, LeakOnlyAfterForkFailure, SomeForkFailed
  <2>4. ReapedIsKnown'
    BY <2>1 DEF objVars, procVars, ReapedIsKnown, Reclaims, SomeForkFailed
  <2> QED BY <2>2, <2>3, <2>4
<1>3. CASE Kill
  <2>1. /\ UNCHANGED <<objVars, orphans, ref, arg, asked>> /\ pc[Worker] = "kill"
        /\ pc'[Worker] = "wait"
        /\ \A i \in Ids : proc'[i] = "dying" =>
             proc[i] = "dying" \/ i = ref[Worker] \/ ref[Worker] \notin forked
        /\ \A i \in Ids : proc'[i] = "reaped" => proc[i] = "reaped"
    BY <1>3 DEF Kill, locals, envVars
  <2>2. NoBystanderKilled'
    <3> SUFFICES ASSUME NEW i \in Ids, proc'[i] = "dying"
                 PROVE  \/ chanOf[i] \in asked["close"]
                        \/ \E j \in Ids : /\ j <= nextId /\ j \notin forked
                                          /\ chanOf[j] \in asked["close"]
      BY <2>1 DEF objVars, NoBystanderKilled
    <3> QED BY <1>0, <2>1 DEF NoBystanderKilled
  <2>3. HandledName' /\ ReapedIsKnown' /\ LeakOnlyAfterForkFailure'
    BY <1>0, <2>1 DEF objVars, HandledName, ReapedIsKnown, Reclaims, SomeForkFailed,
       LeakOnlyAfterForkFailure
  <2> QED BY <2>2, <2>3
<1>4. CASE WaitOk
  <2>1. /\ UNCHANGED <<objVars, orphans, ref, arg, asked>> /\ pc[Worker] = "wait"
        /\ pc'[Worker] = "unlink"
        /\ \A i \in Ids : proc'[i] # proc[i] => i = ref[Worker] /\ proc'[i] = "reaped"
    BY <1>4 DEF WaitOk, locals, envVars
  <2>2. NoBystanderKilled' /\ HandledName' /\ LeakOnlyAfterForkFailure'
    BY <1>0, <2>1 DEF objVars, NoBystanderKilled, HandledName, SomeForkFailed,
       LeakOnlyAfterForkFailure
  <2>3. ReapedIsKnown'
    BY <1>0, <2>1 DEF objVars, ReapedIsKnown, Reclaims, SomeForkFailed
  <2> QED BY <2>2, <2>3
<1>5. CASE WaitOther
  <2>1. /\ UNCHANGED <<chanOf, forked, nextId, orphans, arg, asked>> /\ pc[Worker] = "wait"
        /\ pc'[Worker] = "idle" /\ obj' = [obj EXCEPT ![ref[Worker]] = "leaked"]
        /\ \A i \in Ids : proc'[i] = "dying" => proc[i] = "dying"
    BY <1>5 DEF WaitOther, locals, envVars
  <2>2. SomeForkFailed
    <3>1. CASE ref[Worker] \in forked
      <4>1. Awaited = {}
        BY <1>5, <3>1 DEF WaitOther
      <4>2. proc[ref[Worker]] = "reaped"
        BY <1>0, <2>1, <3>1, <4>1 DEF Awaited, Children, Pids, ProcStates
      <4> QED BY <1>0, <2>1, <4>2 DEF ReapedIsKnown, Reclaims
    <3> QED BY <1>0, <2>1, <3>1
  <2>3. SomeForkFailed'
    BY <2>1, <2>2 DEF SomeForkFailed
  <2>4. NoBystanderKilled' /\ HandledName'
    BY <2>1 DEF NoBystanderKilled, HandledName, Handling
  <2> QED BY <2>3, <2>4 DEF ReapedIsKnown, LeakOnlyAfterForkFailure
<1>6. CASE Unlink
  <2>1. UNCHANGED <<objVars, procVars, ref, arg, asked>> /\ pc[Worker] = "unlink"
        /\ pc'[Worker] = "free"
    BY <1>6 DEF Unlink, locals, envVars
  <2> QED
    BY <1>0, <2>1 DEF objVars, procVars, HandledName, NoBystanderKilled, ReapedIsKnown,
       Reclaims, SomeForkFailed, LeakOnlyAfterForkFailure
<1>7. CASE Free
  <2>1. /\ UNCHANGED <<chanOf, forked, nextId, procVars, arg, asked>> /\ pc[Worker] = "free"
        /\ pc'[Worker] = "idle" /\ obj' = [obj EXCEPT ![ref[Worker]] = "freed"]
    BY <1>7 DEF Free, envVars
  <2>2. ReapedIsKnown' /\ LeakOnlyAfterForkFailure'
    BY <1>0, <2>1 DEF procVars, ReapedIsKnown, Reclaims, SomeForkFailed, LeakOnlyAfterForkFailure
  <2>3. HandledName' /\ NoBystanderKilled'
    BY <2>1 DEF procVars, HandledName, Handling, NoBystanderKilled
  <2> QED BY <2>2, <2>3
<1>8. CASE CloseFallsThrough
  BY <1>8, CauseDies DEF CloseFallsThrough
<1> QED BY <1>1, <1>2, <1>3, <1>4, <1>5, <1>6, <1>7, <1>8 DEF WorkerSteps

LEMMA CauseChild ==
  ASSUME Known, CauseInv, NEW i \in Ids, ChildSteps(i) \/ ChildExits(i) PROVE CauseInv'
<1> USE Actors, Types DEF Known, IInv, CauseInv, SafeInv
<1>1. UNCHANGED <<objVars, orphans, ref, arg, asked>>
  BY DEF ChildSteps, ChildExits, SetUpOk, SetUpFails, ChildFifo, ChildOpen,
     DieOfSignal, threadVars, locals, envVars
<1>2. pc[Worker] # "blocked" => pc'[Worker] = pc[Worker]
  BY DEF ChildSteps, ChildExits, SetUpOk, SetUpFails, ChildFifo, ChildOpen,
     DieOfSignal, threadVars
<1>3. pc[Worker] = "blocked" => pc'[Worker] \in {"blocked", "write"}
  BY DEF ChildSteps, ChildExits, SetUpOk, SetUpFails, ChildFifo, ChildOpen,
     DieOfSignal, threadVars
<1>4. \A j \in Ids : proc'[j] # proc[j] =>
        proc'[j] # "dying" /\ (proc'[j] = "reaped" => j \in orphans)
  BY DEF ChildSteps, ChildExits, SetUpOk, SetUpFails, ChildFifo, ChildOpen,
     DieOfSignal, BecomesProc, Gone
<1>5. HandledName' /\ NoBystanderKilled'
  BY <1>1, <1>2, <1>3, <1>4 DEF objVars, HandledName, Handling, NoBystanderKilled
<1>6. ReapedIsKnown' /\ LeakOnlyAfterForkFailure'
  BY <1>1, <1>2, <1>3, <1>4 DEF objVars, ReapedIsKnown, Reclaims, SomeForkFailed,
     LeakOnlyAfterForkFailure
<1> QED BY <1>5, <1>6

LEMMA CauseNext == Known /\ CauseInv /\ [Next]_vars => CauseInv'
<1> SUFFICES ASSUME Known, CauseInv, [Next]_vars PROVE CauseInv'
  OBVIOUS
<1>1. CASE Crash
  BY <1>1, CauseDies DEF Crash
<1>2. CASE Restart \/ UNCHANGED vars
  <2>1. UNCHANGED <<objVars, procVars, pc, ref, arg, asked>>
    BY <1>2 DEF Restart, vars, world, threadVars, locals, envVars
  <2> QED BY <2>1, CauseStays
<1> QED
  BY <1>1, <1>2, CauseRequests, CauseCreate, CauseClients, CauseWorker, CauseChild, Actors
  DEF Next

LEMMA KnownAlways == Spec => [](Known /\ CauseInv)
<1>1. Init => Known /\ CauseInv
  BY TypeInit, SafeInit, AskedInit, CauseInit DEF Known, IInv
<1>2. Known /\ CauseInv /\ [Next]_vars => (Known /\ CauseInv)'
  BY SafeNext, AskedNext, CauseNext DEF Known, IInv
<1> QED BY <1>1, <1>2, PTL DEF Spec

(* The close of one channel kills the child of another only through          *)
(* kill(-1), after a fork that failed (TdChanManager.cpp:131).               *)
THEOREM BystandersSafe == Spec => []NoBystanderKilled
<1>1. CauseInv => NoBystanderKilled
  BY DEF CauseInv
<1> QED BY <1>1, KnownAlways, PTL

(* waitpid names another pid than the one killed, so that delChanWorkLoop    *)
(* abandons a Channel, only after a fork failed (TdChanManager.cpp:137).     *)
THEOREM LeaksHaveCause == Spec => []LeakOnlyAfterForkFailure
<1>1. CauseInv => LeakOnlyAfterForkFailure
  BY DEF CauseInv
<1> QED BY <1>1, KnownAlways, PTL

-----------------------------------------------------------------------------
(* Who reads which FIFO.  A node is made once and found under one name; it   *)
(* is read by children of one name only, and found nowhere but at the name   *)
(* of the children that read it.                                             *)

Nodes == \A c, d \in Names : /\ fifo[c] <= nextNode
                             /\ fifo[c] = fifo[d] => c = d \/ fifo[c] = 0
Opened == \A i \in Ids :
  /\ rd[i] <= nextNode /\ (rd[i] # 0 => proc[i] # "none")
  /\ proc[i] = "reading" => rd[i] # 0
  /\ \A c \in Names : rd[i] = fifo[c] => rd[i] = 0 \/ c = chanOf[i]
  /\ \A j \in Ids : rd[i] = rd[j] => rd[i] = 0 \/ chanOf[i] = chanOf[j]
ReaderInv == Nodes /\ Opened

LEMMA FifoTypes == ASSUME TypeInv
                   PROVE  fifo \in [Names -> Nat] /\ rd \in [Ids -> Nat] /\ nextNode \in Nat
BY DEF TypeInv, TypeOK, FifoType

LEMMA ReaderInit == Init => ReaderInv
BY Actors DEF Init, ReaderInv, Nodes, Opened

(* A step that opens no FIFO: a node goes, a child ends, a Channel is new.   *)
LEMMA ReaderStays ==
  ASSUME IInv, ReaderInv, UNCHANGED <<rd, nextNode>>,
         \A c \in Names : fifo'[c] \in {0, fifo[c]},
         \A i \in Ids : proc[i] # "none" => chanOf'[i] = chanOf[i] /\ proc'[i] # "none",
         \A i \in Ids : proc'[i] = "reading" => proc[i] = "reading"
  PROVE  ReaderInv'
<1> USE FifoTypes DEF IInv
<1>1. Nodes'
  BY DEF ReaderInv, Nodes
<1>2. Opened'
  BY DEF ReaderInv, Opened
<1> QED BY <1>1, <1>2 DEF ReaderInv

(* mkfifo, of the parent or of the child.                                    *)
LEMMA ReaderMakes ==
  ASSUME IInv, ReaderInv, NEW c \in Names, MakeNode(c), UNCHANGED <<rd, chanOf>>,
         \A i \in Ids : proc[i] # "none" => proc'[i] # "none",
         \A i \in Ids : proc'[i] = "reading" => proc[i] = "reading"
  PROVE  ReaderInv'
<1> USE FifoTypes DEF IInv
<1>1. CASE UNCHANGED <<nextNode, fifo>>
  BY <1>1, ReaderStays
<1>2. CASE nextNode' = nextNode + 1 /\ fifo' = [fifo EXCEPT ![c] = nextNode + 1]
  <2>1. Nodes'
    BY <1>2 DEF ReaderInv, Nodes
  <2>2. Opened'
    BY <1>2 DEF ReaderInv, Opened
  <2> QED BY <2>1, <2>2 DEF ReaderInv
<1> QED BY <1>1, <1>2 DEF MakeNode

LEMMA ReaderOpens ==
  ASSUME IInv, ReaderInv, NEW i \in Ids, ChildOpen(i) PROVE ReaderInv'
<1> USE FifoTypes, Types DEF IInv
<1>1. /\ UNCHANGED <<fifo, nextNode, chanOf>> /\ fifo[chanOf[i]] # 0
      /\ rd' = [rd EXCEPT ![i] = fifo[chanOf[i]]]
      /\ proc' = [proc EXCEPT ![i] = "reading"]
  BY DEF ChildOpen, BecomesProc, objVars
<1>2. Nodes'
  BY <1>1 DEF ReaderInv, Nodes
<1>3. Opened'
  <2> SUFFICES ASSUME NEW k \in Ids
               PROVE  /\ rd'[k] <= nextNode /\ (rd'[k] # 0 => proc'[k] # "none")
                      /\ proc'[k] = "reading" => rd'[k] # 0
                      /\ \A c \in Names : rd'[k] = fifo[c] => rd'[k] = 0 \/ c = chanOf[k]
                      /\ \A j \in Ids : rd'[k] = rd'[j] => rd'[k] = 0 \/ chanOf[k] = chanOf[j]
    BY <1>1 DEF Opened
  <2>1. rd'[k] <= nextNode /\ (rd'[k] # 0 => proc'[k] # "none")
        /\ (proc'[k] = "reading" => rd'[k] # 0)
    BY <1>1 DEF ReaderInv, Nodes, Opened
  <2>2. ASSUME NEW c \in Names, rd'[k] = fifo[c] PROVE rd'[k] = 0 \/ c = chanOf[k]
    BY <1>1, <2>2 DEF ReaderInv, Nodes, Opened
  <2>3. ASSUME NEW j \in Ids, rd'[k] = rd'[j] PROVE rd'[k] = 0 \/ chanOf[k] = chanOf[j]
    BY <1>1, <2>3 DEF ReaderInv, Opened
  <2> QED BY <2>1, <2>2, <2>3
<1> QED BY <1>2, <1>3 DEF ReaderInv

LEMMA ReaderNext == IInv /\ ReaderInv /\ [Next]_vars => ReaderInv'
<1> SUFFICES ASSUME IInv, ReaderInv, [Next]_vars PROVE ReaderInv'
  OBVIOUS
<1> USE Actors, Types, FifoTypes DEF IInv
<1>1. CASE ParentDies
  BY <1>1, ReaderStays DEF ParentDies
<1>2. CASE UNCHANGED world
  BY <1>2, ReaderStays DEF world, objVars, procVars, fifoVars
<1>3. ASSUME NEW i \in Ids, Fork(i) \/ ForkFails(i) PROVE ReaderInv'
  <2>1. proc[i] = "none" /\ proc'[i] # "reading" /\ UNCHANGED <<rd, nextNode, fifo>>
        /\ \A j \in Ids \ {i} : proc'[j] = proc[j] /\ chanOf'[j] = chanOf[j]
    BY <1>3 DEF Fork, ForkFails, Allocate, fifoVars, SafeInv, FreshIds, Pids
  <2> QED BY <2>1, ReaderStays
<1>4. CASE NewChannel
  BY <1>4, ReaderMakes DEF NewChannel, procVars
<1>5. CASE Kill \/ WaitOk \/ WaitOther \/ Unlink \/ Free
  <2>1. UNCHANGED <<rd, nextNode, chanOf>>
    BY <1>5 DEF Kill, WaitOk, WaitOther, Unlink, Free, objVars, fifoVars
  <2>2. \A c \in Names : fifo'[c] \in {0, fifo[c]}
    BY <1>5 DEF Kill, WaitOk, WaitOther, Unlink, Free, fifoVars
  <2>3. \A j \in Ids : proc'[j] # proc[j] => proc'[j] \in {"dying", "reaped"}
    BY <1>5 DEF Kill, WaitOk, WaitOther, Unlink, Free, procVars
  <2> QED BY <2>1, <2>2, <2>3, ReaderStays
<1>6. ASSUME NEW i \in Ids, SetUpOk(i) \/ SetUpFails(i) \/ DieOfSignal(i) \/ ChildExits(i)
      PROVE  ReaderInv'
  <2>1. UNCHANGED <<rd, nextNode, fifo, chanOf>>
    BY <1>6 DEF SetUpOk, SetUpFails, DieOfSignal, ChildExits, objVars, fifoVars
  <2>2. \A j \in Ids : proc'[j] # proc[j] =>
          proc'[j] \in {"started", "clone", "reaped", "zombie"}
    BY <1>6 DEF SetUpOk, SetUpFails, DieOfSignal, ChildExits, BecomesProc, Gone
  <2> QED BY <2>1, <2>2, ReaderStays
<1>7. ASSUME NEW i \in Ids, ChildFifo(i) PROVE ReaderInv'
  <2>1. MakeNode(chanOf[i]) /\ UNCHANGED <<rd, chanOf>>
    BY <1>7 DEF ChildFifo, objVars
  <2>2. \A j \in Ids : proc'[j] # proc[j] => proc'[j] \in {"opening", "reaped", "zombie"}
    BY <1>7 DEF ChildFifo, BecomesProc, Gone
  <2> QED BY <2>1, <2>2, ReaderMakes
<1>8. ASSUME NEW i \in Ids, ChildOpen(i) PROVE ReaderInv'
  BY <1>8, ReaderOpens
<1>9. ASSUME NEW t \in Clients, Write(t) PROVE ReaderInv'
  BY <1>9, ReaderStays DEF Write, objVars, procVars
<1>10. CASE Requests \/ Restart \/ UNCHANGED vars
  <2>1. UNCHANGED world
    BY <1>10 DEF Requests, Start, Close, SetCodecParam, List, Restart, vars
  <2> QED BY <2>1, <1>2
<1>11. CASE CreateSteps
  <2>1. CASE Refuse \/ Accept \/ Register \/ Insert
    BY <1>2, <2>1 DEF Refuse, Accept, Register, Insert
  <2> QED BY <1>3, <1>4, <1>11, <2>1 DEF CreateSteps
<1>12. ASSUME NEW t \in Clients, SetterSteps(t) PROVE ReaderInv'
  <2>1. CASE Lookup(t) \/ OpenWrite(t) \/ Store(t) \/ UseReallocated(t)
    BY <1>2, <2>1 DEF Lookup, OpenWrite, Store, UseReallocated
  <2> QED BY <1>1, <1>9, <1>12, <2>1 DEF SetterSteps, MapRace, UseAfterFree
<1>13. ASSUME NEW t \in HttpThreads, ListSteps(t) PROVE ReaderInv'
  BY <1>1, <1>2, <1>13 DEF ListSteps, ListDone, ListNull
<1>14. CASE WorkerSteps
  <2>1. CASE Pop \/ Acquire \/ Erase
    BY <1>2, <2>1 DEF Pop, Acquire, Erase
  <2> QED BY <1>1, <1>5, <1>14, <2>1 DEF WorkerSteps, CloseFallsThrough
<1>15. ASSUME NEW i \in Ids, ChildSteps(i) \/ ChildExits(i) PROVE ReaderInv'
  BY <1>6, <1>7, <1>8, <1>15 DEF ChildSteps
<1> QED BY <1>1, <1>10, <1>11, <1>12, <1>13, <1>14, <1>15 DEF Next, Crash

(* Two children of the running parent that bear one name are not both within *)
(* reach of it, unless the worker is tearing one of them down.               *)
LEMMA OneChildPerName ==
  ASSUME IInv, NEW i \in Ids \ orphans, NEW j \in Ids \ orphans, i # j,
         chanOf[i] = chanOf[j], proc[i] \in Alive, proc[j] \in Alive,
         ~Handled(i), ~Handled(j)
  PROVE  FALSE
<1> USE Types DEF IInv, SafeInv
<1>1. /\ chanMap[chanOf[i]] = i \/ UnderCreation(i)
      /\ chanMap[chanOf[i]] = j \/ UnderCreation(j)
  BY DEF NoLostChild
<1>2. \A k \in Ids : UnderCreation(k) => chanOf[k] = arg[Sip] /\ chanMap[arg[Sip]] \notin Ids
  BY DEF UnderCreation, Created, CreationPlace, Owning
<1>3. ~(UnderCreation(i) /\ UnderCreation(j))
  BY DEF UnderCreation
<1> QED BY <1>1, <1>2, <1>3

(* What is written to a FIFO reaches one child of the running parent, or one *)
(* more that the worker is tearing down (TdFifo.cpp:16, TdChanManager.cpp).  *)
THEOREM ReadersAlone == Spec => []OneReader
<1>1. Init => IInv /\ ReaderInv
  BY TypeInit, SafeInit, ReaderInit DEF IInv
<1>2. IInv /\ ReaderInv /\ [Next]_vars => (IInv /\ ReaderInv)'
  BY SafeNext, ReaderNext
<1>3. IInv /\ ReaderInv => OneReader
  <2> SUFFICES ASSUME IInv, ReaderInv, NEW i \in Ids, NEW j \in Ids, i # j,
                      proc[i] = "reading", proc[j] = "reading", rd[i] = rd[j]
               PROVE  i \in orphans \/ j \in orphans \/ Handled(i) \/ Handled(j)
    BY DEF OneReader
  <2>1. chanOf[i] = chanOf[j]
    BY DEF ReaderInv, Opened
  <2> QED BY <2>1, OneChildPerName DEF Alive, Serving
<1> QED BY <1>1, <1>2, <1>3, PTL DEF Spec
=============================================================================
