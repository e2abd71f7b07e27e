------------------------ MODULE NoticeCenter_proofs -------------------------
(* NoticeCenter: types, and how many calls a command makes, for any number   *)
(* of HTTP threads and commands.  The strengthening counts: of each event,   *)
(* the listeners there are and the threads that are still to add theirs make *)
(* as many as TdChanManagers were made.                                      *)
EXTENDS NoticeCenter, TLAPS, FiniteSetTheorems, SequenceTheorems

Working == {t \in Threads : pc[t] \in {"new", "monitor", "listen"}}
Adding(e) == {t \in Threads : \/ pc[t] = "monitor"
                              \/ pc[t] = "listen" /\ e \in ToSet(todo[t])}

(* A thread finds no manager only before the first is made.                  *)
NewAreFew ==
  /\ manager = made
  /\ made + Cardinality({t \in Threads : pc[t] = "new"}) <= Cardinality(Threads)

(* A thread in monitor() has a manager and the rest of the commands to add.  *)
Todo == \A t \in Threads :
  /\ pc[t] \in {"monitor", "listen"} => made # 0
  /\ pc[t] = "listen" => /\ self[t] \in Managers
                         /\ todo[t] \in {Commands, Tail(Commands), Tail(Tail(Commands))}

Counted == \A e \in Events : Len(listeners[e]) + Cardinality(Adding(e)) = made

(* The published manager listens, or a thread is about to see that it does.  *)
Published == manager # 0 => \A e \in Events :
  \/ manager \in ToSet(listeners[e])
  \/ \E t \in Adding(e) : pc[t] = "listen" => self[t] = manager

Calls == \A t \in Http : pc[t] = "emit" =>
  /\ Len(rest[t]) + Len(by[t]) <= made
  /\ clear[t] => /\ Settled /\ Len(rest[t]) + Len(by[t]) = made
                 /\ manager \in ToSet(rest[t]) \cup ToSet(by[t])

Inv == NewAreFew /\ Todo /\ Counted /\ Published /\ Calls
IInv == TypeOK /\ Inv

-----------------------------------------------------------------------------
(* Sequences and sets.                                                       *)

LEMMA RemoveOne ==
  ASSUME NEW S, NEW s \in Seq(S), NEW i \in 1 .. Len(s)
  PROVE  /\ RemoveAt(s, i) \in Seq(S) /\ Len(RemoveAt(s, i)) = Len(s) - 1
         /\ ToSet(s) = ToSet(RemoveAt(s, i)) \cup {s[i]}
<1> DEFINE a == SubSeq(s, 1, i - 1)
           b == SubSeq(s, i + 1, Len(s))
           r == a \o b
<1>1. /\ a \in Seq(S) /\ Len(a) = i - 1 /\ \A k \in 1 .. i - 1 : a[k] = s[k]
  OBVIOUS
<1>2. /\ b \in Seq(S) /\ Len(b) = Len(s) - i /\ \A k \in 1 .. Len(s) - i : b[k] = s[i + k]
  <2>1. i + 1 \in 1 .. Len(s) + 1 /\ Len(s) \in i .. Len(s)
    OBVIOUS
  <2>2. b \in Seq(S) /\ Len(b) = Len(s) - i
    BY <2>1, SubSeqProperties
  <2>3. \A k \in 1 .. Len(s) - i : b[k] = s[(i + 1) + k - 1]
    BY <2>1, <2>2, SubSeqProperties
  <2> HIDE DEF b
  <2>4. \A k \in 1 .. Len(s) - i : (i + 1) + k - 1 = i + k
    OBVIOUS
  <2> QED BY <2>2, <2>3, <2>4
<1> HIDE DEF a, b
<1>3. /\ r \in Seq(S) /\ Len(r) = Len(s) - 1
      /\ \A k \in 1 .. i - 1 : r[k] = s[k]
      /\ \A k \in i .. Len(s) - 1 : r[k] = s[k + 1]
  <2>1. /\ r \in Seq(S) /\ Len(r) = Len(a) + Len(b)
        /\ \A k \in 1 .. Len(a) + Len(b) : r[k] = IF k <= Len(a) THEN a[k] ELSE b[k - Len(a)]
    BY <1>1, <1>2, ConcatProperties
  <2> HIDE DEF r
  <2>2. Len(s) \in Nat /\ i \in Nat /\ 1 <= i /\ i <= Len(s)
    OBVIOUS
  <2>3. Len(r) = Len(s) - 1
    BY <1>1, <1>2, <2>1, <2>2
  <2>4. ASSUME NEW k \in 1 .. i - 1 PROVE r[k] = s[k]
    <3>1. k \in 1 .. Len(a) + Len(b) /\ k <= Len(a)
      BY <1>1, <1>2, <2>2
    <3> QED BY <1>1, <2>1, <3>1
  <2>5. ASSUME NEW k \in i .. Len(s) - 1 PROVE r[k] = s[k + 1]
    <3>1. r[k] = b[k - (i - 1)]
      <4>1. k \in 1 .. Len(a) + Len(b) /\ ~(k <= Len(a)) /\ k - Len(a) = k - (i - 1)
        BY <1>1, <1>2, <2>2
      <4> QED BY <2>1, <4>1
    <3>2. k - (i - 1) \in 1 .. Len(s) - i /\ i + (k - (i - 1)) = k + 1
      BY <2>2
    <3> QED BY <1>2, <3>1, <3>2
  <2> QED BY <2>1, <2>3, <2>4, <2>5
<1>4. RemoveAt(s, i) = r
  BY DEF RemoveAt, a, b
<1> HIDE DEF r
<1>5. DOMAIN s = 1 .. Len(s) /\ DOMAIN r = 1 .. Len(s) - 1
  BY <1>3
<1>6. ASSUME NEW k \in DOMAIN s PROVE s[k] \in ToSet(r) \cup {s[i]}
  <2>1. CASE k < i
    BY <1>3, <1>5, <2>1 DEF ToSet
  <2>2. CASE k = i
    BY <2>2
  <2>3. CASE k > i
    <3>1. k - 1 \in i .. Len(s) - 1 /\ r[k - 1] = s[k]
      BY <1>3, <1>5, <2>3
    <3> QED BY <1>5, <3>1 DEF ToSet
  <2> QED BY <1>5, <2>1, <2>2, <2>3
<1>7. ASSUME NEW k \in DOMAIN r PROVE r[k] \in ToSet(s)
  <2>1. CASE k < i
    BY <1>3, <1>5, <2>1 DEF ToSet
  <2>2. CASE k >= i
    <3>1. k + 1 \in DOMAIN s /\ r[k] = s[k + 1]
      BY <1>3, <1>5, <2>2
    <3> QED BY <3>1 DEF ToSet
  <2> QED BY <1>5, <2>1, <2>2
<1>8. s[i] \in ToSet(s)
  BY <1>5 DEF ToSet
<1>9. ToSet(s) = ToSet(r) \cup {s[i]}
  BY <1>6, <1>7, <1>8 DEF ToSet
<1> QED BY <1>3, <1>4, <1>9

LEMMA AppendOne ==
  ASSUME NEW S, NEW s \in Seq(S), NEW x \in S
  PROVE  /\ Append(s, x) \in Seq(S) /\ Len(Append(s, x)) = Len(s) + 1
         /\ ToSet(Append(s, x)) = ToSet(s) \cup {x}
<1> DEFINE r == Append(s, x)
<1>1. /\ r \in Seq(S) /\ Len(r) = Len(s) + 1 /\ r[Len(s) + 1] = x
      /\ \A k \in 1 .. Len(s) : r[k] = s[k]
  OBVIOUS
<1> HIDE DEF r
<1>2. DOMAIN r = DOMAIN s \cup {Len(s) + 1} /\ DOMAIN s = 1 .. Len(s)
  BY <1>1
<1>3. ToSet(r) = ToSet(s) \cup {x}
  BY <1>1, <1>2 DEF ToSet
<1> QED BY <1>1, <1>3 DEF r

LEMMA NoneLeft == ToSet(<<>>) = {}
BY DEF ToSet

(* The commands a thread has still to add, and what is left after the next.  *)
LEMMA TodoFacts ==
  ASSUME NEW l \in {Commands, Tail(Commands), Tail(Tail(Commands))}
  PROVE  /\ l \in Seq(Events) /\ Tail(l) \in Seq(Events) /\ Head(l) \in Events
         /\ Len(l) # 1 => Tail(l) \in {Tail(Commands), Tail(Tail(Commands))}
         /\ Len(l) = 1 => Tail(l) = <<>>
         /\ ToSet(l) = {Head(l)} \cup ToSet(Tail(l)) /\ Head(l) \notin ToSet(Tail(l))
<1> DEFINE c == "setCodecParam"
           d == "closeChannel"
           f == "createChannel"
<1>1. Commands = <<c, d, f>> /\ Tail(Commands) = <<d, f>> /\ Tail(Tail(Commands)) = <<f>>
  BY DEF Commands
<1>2. Events = {c, d, f}
  BY <1>1 DEF Events
<1>3. ToSet(<<c, d, f>>) = {c, d, f} /\ ToSet(<<d, f>>) = {d, f} /\ ToSet(<<f>>) = {f}
  BY DEF ToSet
<1>4. CASE l = <<c, d, f>>
  <2>1. Head(l) = c /\ Tail(l) = <<d, f>> /\ Len(l) = 3
    BY <1>4
  <2> QED BY <1>1, <1>2, <1>3, <1>4, <2>1
<1>5. CASE l = <<d, f>>
  <2>1. Head(l) = d /\ Tail(l) = <<f>> /\ Len(l) = 2
    BY <1>5
  <2> QED BY <1>1, <1>2, <1>3, <1>5, <2>1
<1>6. CASE l = <<f>>
  <2>1. Head(l) = f /\ Tail(l) = <<>> /\ Len(l) = 1
    BY <1>6
  <2> QED BY <1>1, <1>2, <1>3, <1>6, <2>1, NoneLeft
<1> QED BY <1>1, <1>4, <1>5, <1>6

LEMMA AllCommands ==
  /\ Commands \in Seq(Events) /\ ToSet(Commands) = Events
BY TodoFacts DEF ToSet, Events

LEMMA ThreadsFinite ==
  /\ IsFiniteSet(Threads) /\ Cardinality(Threads) \in Nat
  /\ \A S \in SUBSET Threads : /\ IsFiniteSet(S) /\ Cardinality(S) \in Nat
                               /\ Cardinality(S) <= Cardinality(Threads)
  /\ Main \in Threads /\ Http \subseteq Threads
BY ThreadAssumption, FS_AddElement, FS_Subset, FS_CardinalityType DEF Threads

(* The set of the threads that do something, before and after one gets there.*)
LEMMA OneMore ==
  ASSUME NEW S \in SUBSET Threads, NEW t \in Threads
  PROVE  /\ t \notin S => Cardinality(S \cup {t}) = Cardinality(S) + 1
         /\ t \in S => Cardinality(S \ {t}) = Cardinality(S) - 1
BY ThreadsFinite, FS_AddElement, FS_RemoveElement


-----------------------------------------------------------------------------
(* Types.                                                                    *)

PCs == {"init", "serve", "idle", "new", "monitor", "listen", "emit"}

LEMMA TypeParts ==
  ASSUME TypeOK
  PROVE  /\ made \in Nat /\ manager \in Managers \cup {0}
         /\ listeners \in [Events -> Seq(Managers)] /\ pc \in [Threads -> PCs]
         /\ self \in [Threads -> Managers \cup {0}] /\ todo \in [Threads -> Seq(Events)]
         /\ rest \in [Http -> Seq(Managers)] /\ by \in [Http -> Seq(Managers)]
         /\ clear \in [Http -> BOOLEAN]
BY DEF TypeOK, PCs

(* Lists of managers stay so when one more is made.                          *)
LEMMA Growing ==
  ASSUME made \in Nat, made' = made + 1
  PROVE  Managers \subseteq Managers' /\ Seq(Managers) \subseteq Seq(Managers')
         /\ made' \in Managers'
<1>1. Managers \subseteq Managers' /\ made' \in Managers'
  BY DEF Managers
<1> QED BY <1>1, SeqMonotonic

LEMMA HomeIsPc == \A t \in Threads : Home(t) \in {"serve", "idle"}
BY DEF Home

-----------------------------------------------------------------------------
(* A step that neither makes a manager nor adds a listener, and moves no     *)
(* thread in or out of getInstance.                                          *)
LEMMA Quiet ==
  ASSUME IInv, UNCHANGED <<manager, made, listeners, self, todo>>,
         \A t \in Threads : \/ pc'[t] = pc[t]
                            \/ /\ pc[t] \notin {"new", "monitor", "listen"}
                               /\ pc'[t] \notin {"new", "monitor", "listen"}
  PROVE  NewAreFew' /\ Todo' /\ Counted' /\ Published' /\ Settled' = Settled
<1> USE TypeParts DEF IInv
<1>1. {t \in Threads : pc'[t] = "new"} = {t \in Threads : pc[t] = "new"}
  OBVIOUS
<1>2. \A e \in Events : Adding(e)' = Adding(e)
  BY DEF Adding
<1>3. NewAreFew'
  BY <1>1 DEF Inv, NewAreFew
<1>4. Todo'
  BY DEF Inv, Todo, Managers
<1>5. Counted'
  BY <1>2 DEF Inv, Counted
<1>6. Published'
  BY <1>2 DEF Inv, Published, Adding
<1>7. Settled' = Settled
  BY DEF Settled
<1> QED BY <1>3, <1>4, <1>5, <1>6, <1>7

(* While somebody is at work in getInstance, no command counts as clear.     *)
LEMMA NoneClear ==
  ASSUME IInv, ~Settled, made \in Nat, made' \in Nat, made' >= made,
         UNCHANGED <<rest, by, clear>>,
         \A t \in Http : pc'[t] = "emit" => pc[t] = "emit"
  PROVE  Calls'
<1> SUFFICES ASSUME NEW t \in Http, pc'[t] = "emit"
             PROVE  Len(rest[t]) + Len(by[t]) <= made' /\ ~clear[t]
  BY DEF Calls
<1>1. Len(rest[t]) + Len(by[t]) <= made /\ ~clear[t]
  BY DEF IInv, Inv, Calls
<1>2. Len(rest[t]) \in Nat /\ Len(by[t]) \in Nat
  BY TypeParts, LenProperties DEF IInv
<1>3. Len(rest[t]) + Len(by[t]) <= made'
  <2>1. \A x, y \in Nat : x + y <= made => x + y <= made'
    OBVIOUS
  <2> QED BY <1>1, <1>2, <2>1, Zenon
<1> QED BY <1>1, <1>3

LEMMA GetInstanceKeeps == ASSUME IInv, NEW t \in Threads, GetInstance(t) PROVE IInv'
<1> USE TypeParts, ThreadsFinite, HomeIsPc DEF IInv, Goto
<1>1. /\ UNCHANGED <<centerVars, getVars, emitVars>> /\ pc[t] \in {"init", "idle"}
      /\ pc' = [pc EXCEPT ![t] = IF manager = 0 THEN "new" ELSE Home(t)]
  BY DEF GetInstance
<1>2. TypeOK'
  BY <1>1 DEF TypeOK, Managers, PCs, centerVars, getVars, emitVars
<1>3. CASE manager # 0
  <2>1. NewAreFew' /\ Todo' /\ Counted' /\ Published' /\ Settled' = Settled
    BY <1>1, <1>3, Quiet DEF centerVars, getVars
  <2>2. Calls'
    BY <1>1, <1>3, <2>1 DEF Inv, Calls, emitVars, centerVars
  <2> QED BY <1>2, <2>1, <2>2 DEF Inv
<1>4. CASE manager = 0
  <2>1. made = 0 /\ made' = 0 /\ manager' = 0
    BY <1>1, <1>4 DEF Inv, NewAreFew, centerVars
  <2>2. NewAreFew'
    <3>1. {u \in Threads : pc'[u] = "new"} \in SUBSET Threads
      OBVIOUS
    <3>2. Cardinality({u \in Threads : pc'[u] = "new"}) \in Nat
          /\ Cardinality({u \in Threads : pc'[u] = "new"}) <= Cardinality(Threads)
      BY <3>1
    <3> QED BY <2>1, <3>2 DEF NewAreFew
  <2>3. \A e \in Events : Adding(e)' = Adding(e)
    BY <1>1, <1>4 DEF Adding, getVars
  <2>4. Todo'
    BY <1>1, <1>4 DEF Inv, Todo, Managers, centerVars, getVars
  <2>5. Counted'
    BY <1>1, <2>3 DEF Inv, Counted, centerVars
  <2>6. Published'
    BY <2>1 DEF Published
  <2>7. Calls'
    <3>1. ~Settled
      BY <1>4 DEF Settled
    <3> QED BY <1>1, <1>4, <2>1, <3>1, NoneClear DEF emitVars
  <2> QED BY <1>2, <2>2, <2>4, <2>5, <2>6, <2>7 DEF Inv
<1> QED BY <1>3, <1>4

LEMMA NewKeeps == ASSUME IInv, NEW t \in Threads, New(t) PROVE IInv'
<1> USE TypeParts, ThreadsFinite DEF IInv, Goto
<1>1. /\ UNCHANGED <<listeners, self, todo, rest, by, clear, emits>> /\ pc[t] = "new"
      /\ pc' = [pc EXCEPT ![t] = "monitor"] /\ made' = made + 1 /\ manager' = made + 1
  BY DEF New, getVars, emitVars
<1>2. /\ manager = made
      /\ made + Cardinality({u \in Threads : pc[u] = "new"}) <= Cardinality(Threads)
  BY DEF Inv, NewAreFew
<1>3. {u \in Threads : pc'[u] = "new"} = {u \in Threads : pc[u] = "new"} \ {t}
  BY <1>1
<1>4. Cardinality({u \in Threads : pc'[u] = "new"})
        = Cardinality({u \in Threads : pc[u] = "new"}) - 1
  BY <1>1, <1>3, OneMore
<1>5. Cardinality({u \in Threads : pc[u] = "new"}) \in Nat
      /\ Cardinality({u \in Threads : pc'[u] = "new"}) \in Nat
  OBVIOUS
<1>6. NewAreFew' /\ made' <= Cardinality(Threads)
  BY <1>1, <1>2, <1>4, <1>5 DEF NewAreFew
<1>7. TypeOK'
  <2>1. made' \in 0 .. Cardinality(Threads) /\ manager' \in Managers'
    BY <1>1, <1>6, Growing
  <2>2. /\ listeners' \in [Events -> Seq(Managers')] /\ rest' \in [Http -> Seq(Managers')]
        /\ by' \in [Http -> Seq(Managers')] /\ self' \in [Threads -> Managers' \cup {0}]
    BY <1>1, Growing
  <2>3. pc' \in [Threads -> PCs] /\ todo' \in [Threads -> Seq(Events)]
        /\ clear' \in [Http -> BOOLEAN]
    BY <1>1 DEF PCs
  <2> QED BY <1>1, <2>1, <2>2, <2>3 DEF TypeOK, PCs
<1>8. Todo'
  <2> SUFFICES ASSUME NEW u \in Threads, pc'[u] \in {"monitor", "listen"}
               PROVE  /\ made' # 0
                      /\ pc'[u] = "listen" =>
                           /\ self[u] \in Managers'
                           /\ todo[u] \in {Commands, Tail(Commands), Tail(Tail(Commands))}
    BY <1>1 DEF Todo
  <2>1. made' # 0
    BY <1>1
  <2>2. pc'[u] = "listen" => pc[u] = "listen"
    BY <1>1
  <2> QED BY <1>1, <2>1, <2>2, Growing DEF Inv, Todo
<1>9. Counted'
  <2> SUFFICES ASSUME NEW e \in Events PROVE Len(listeners[e]) + Cardinality(Adding(e)') = made + 1
    BY <1>1 DEF Counted
  <2>1. Adding(e)' = Adding(e) \cup {t} /\ t \notin Adding(e) /\ Adding(e) \in SUBSET Threads
    BY <1>1 DEF Adding
  <2>2. Cardinality(Adding(e)') = Cardinality(Adding(e)) + 1
    BY <2>1, OneMore
  <2>3. Len(listeners[e]) + Cardinality(Adding(e)) = made
    BY DEF Inv, Counted
  <2>4. Len(listeners[e]) \in Nat /\ Cardinality(Adding(e)) \in Nat
    BY <2>1, LenProperties
  <2> QED BY <2>2, <2>3, <2>4
<1>10. Published'
  BY <1>1 DEF Published, Adding
<1>11. Calls'
  <2>1. ~Settled
    BY <1>1 DEF Settled
  <2>2. made' \in Nat /\ made' >= made
    BY <1>1
  <2>3. \A u \in Http : pc'[u] = "emit" => pc[u] = "emit"
    BY <1>1
  <2> QED BY <1>1, <2>1, <2>2, <2>3, NoneClear
<1> QED BY <1>6, <1>7, <1>8, <1>9, <1>10, <1>11 DEF Inv

LEMMA MonitorKeeps == ASSUME IInv, NEW t \in Threads, Monitor(t) PROVE IInv'
<1> USE TypeParts, ThreadsFinite, AllCommands DEF IInv, Goto
<1>1. /\ UNCHANGED <<manager, made, listeners, rest, by, clear, emits>> /\ pc[t] = "monitor"
      /\ pc' = [pc EXCEPT ![t] = "listen"]
      /\ self' = [self EXCEPT ![t] = manager] /\ todo' = [todo EXCEPT ![t] = Commands]
  BY DEF Monitor, centerVars, emitVars
<1>2. manager = made /\ made # 0 /\ manager \in Managers
  BY <1>1 DEF Inv, NewAreFew, Todo, Managers
<1>3. TypeOK'
  BY <1>1, <1>2 DEF TypeOK, Managers, PCs
<1>4. NewAreFew'
  <2>1. {u \in Threads : pc'[u] = "new"} = {u \in Threads : pc[u] = "new"}
    BY <1>1
  <2> QED BY <1>1, <2>1 DEF Inv, NewAreFew
<1>5. Todo'
  BY <1>1, <1>2 DEF Inv, Todo, Managers
<1>6. \A e \in Events : Adding(e)' = Adding(e)
  BY <1>1 DEF Adding
<1>7. Counted'
  BY <1>1, <1>6 DEF Inv, Counted
<1>8. Published'
  BY <1>1, <1>6 DEF Inv, Published, Adding
<1>9. Calls'
  <2>1. ~Settled
    BY <1>1 DEF Settled
  <2> QED BY <1>1, <2>1, NoneClear
<1> QED BY <1>3, <1>4, <1>5, <1>7, <1>8, <1>9 DEF Inv

LEMMA AddListenerKeeps == ASSUME IInv, NEW t \in Threads, AddListener(t) PROVE IInv'
<1> USE TypeParts, ThreadsFinite, HomeIsPc DEF IInv, Goto
<1> PICK h, l : h = Head(todo[t]) /\ l = Tail(todo[t])
  OBVIOUS
<1>1. /\ UNCHANGED <<manager, made, self, rest, by, clear, emits>> /\ pc[t] = "listen"
      /\ pc' = [pc EXCEPT ![t] = IF Len(todo[t]) = 1 THEN Home(t) ELSE "listen"]
      /\ listeners' = [listeners EXCEPT ![h] = Append(@, self[t])]
      /\ todo' = [todo EXCEPT ![t] = l]
  BY DEF AddListener, emitVars
<1>2. /\ self[t] \in Managers /\ todo[t] \in {Commands, Tail(Commands), Tail(Tail(Commands))}
  BY <1>1 DEF Inv, Todo
<1>3. /\ h \in Events /\ l \in Seq(Events)
      /\ Len(todo[t]) # 1 => l \in {Tail(Commands), Tail(Tail(Commands))}
      /\ Len(todo[t]) = 1 => ToSet(l) = {}
      /\ ToSet(todo[t]) = {h} \cup ToSet(l) /\ h \notin ToSet(l)
  BY <1>2, TodoFacts, NoneLeft
<1>4. /\ listeners[h] \in Seq(Managers) /\ listeners'[h] = Append(listeners[h], self[t])
      /\ \A e \in Events \ {h} : listeners'[e] = listeners[e]
  BY <1>1, <1>3
<1>5. /\ listeners'[h] \in Seq(Managers) /\ Len(listeners'[h]) = Len(listeners[h]) + 1
      /\ ToSet(listeners'[h]) = ToSet(listeners[h]) \cup {self[t]}
  BY <1>2, <1>4, AppendOne
<1>6. TypeOK'
  <2>1. listeners' \in [Events -> Seq(Managers)] /\ todo' \in [Threads -> Seq(Events)]
    BY <1>1, <1>3, <1>5
  <2>2. pc' \in [Threads -> PCs]
    BY <1>1 DEF PCs
  <2> QED BY <1>1, <2>1, <2>2 DEF TypeOK, PCs, Managers
<1>7. NewAreFew'
  <2>1. {u \in Threads : pc'[u] = "new"} = {u \in Threads : pc[u] = "new"}
    BY <1>1
  <2> QED BY <1>1, <2>1 DEF Inv, NewAreFew
<1>8. Todo'
  BY <1>1, <1>3 DEF Inv, Todo, Managers
<1>9. /\ t \in Adding(h) /\ Adding(h)' = Adding(h) \ {t}
      /\ \A e \in Events \ {h} : Adding(e)' = Adding(e)
  <2>1. t \in Adding(h)
    BY <1>1, <1>3 DEF Adding
  <2>2. \A e \in Events, u \in Threads \ {t} : u \in Adding(e)' <=> u \in Adding(e)
    BY <1>1 DEF Adding
  <2>3. \A e \in Events : t \in Adding(e) <=> e \in ToSet(todo[t])
    BY <1>1 DEF Adding
  <2>4. todo'[t] = l /\ pc'[t] # "monitor" /\ (pc'[t] = "listen" <=> Len(todo[t]) # 1)
    BY <1>1
  <2>5. \A e \in Events : t \in Adding(e)' <=> e \in ToSet(l)
    BY <1>3, <2>4 DEF Adding
  <2>6. \A e \in Events : Adding(e) \subseteq Threads /\ Adding(e)' \subseteq Threads
    BY DEF Adding
  <2>7. Adding(h)' = Adding(h) \ {t}
    BY <1>3, <2>2, <2>5, <2>6
  <2>8. ASSUME NEW e \in Events \ {h} PROVE Adding(e)' = Adding(e)
    <3>1. t \in Adding(e)' <=> t \in Adding(e)
      BY <1>3, <2>3, <2>5
    <3>2. \A u \in Threads : u \in Adding(e)' <=> u \in Adding(e)
      BY <2>2, <3>1
    <3>3. Adding(e) \subseteq Threads /\ Adding(e)' \subseteq Threads
      BY <2>6
    <3> QED BY <3>2, <3>3
  <2> QED BY <2>1, <2>7, <2>8
<1>10. Counted'
  <2> SUFFICES ASSUME NEW e \in Events PROVE Len(listeners'[e]) + Cardinality(Adding(e)') = made
    BY <1>1 DEF Counted
  <2>1. Len(listeners[e]) + Cardinality(Adding(e)) = made
    BY DEF Inv, Counted
  <2>2. CASE e # h
    BY <1>4, <1>9, <2>1, <2>2
  <2>3. CASE e = h
    <3>1. Adding(e) \in SUBSET Threads /\ Cardinality(Adding(e)') = Cardinality(Adding(e)) - 1
      <4>1. Adding(e) \in SUBSET Threads
        BY DEF Adding
      <4> QED BY <1>9, <2>3, <4>1, OneMore
    <3>2. Len(listeners[e]) \in Nat /\ Cardinality(Adding(e)) \in Nat
      BY <3>1, LenProperties
    <3> QED BY <1>5, <2>1, <2>3, <3>1, <3>2
  <2> QED BY <2>2, <2>3
<1>11. Published'
  <2> SUFFICES ASSUME manager # 0, NEW e \in Events
               PROVE  \/ manager \in ToSet(listeners'[e])
                      \/ \E u \in Adding(e)' : pc'[u] = "listen" => self[u] = manager
    BY <1>1 DEF Published
  <2>1. CASE manager \in ToSet(listeners[e])
    BY <1>4, <1>5, <2>1
  <2>2. ASSUME NEW u \in Adding(e), pc[u] = "listen" => self[u] = manager
        PROVE  \/ manager \in ToSet(listeners'[e])
               \/ u \in Adding(e)' /\ (pc'[u] = "listen" => self[u] = manager)
    <3>1. CASE u = t
      BY <1>1, <1>5, <1>9, <2>2, <3>1
    <3>2. CASE u # t
      BY <1>1, <1>9, <2>2, <3>2 DEF Adding
    <3> QED BY <3>1, <3>2
  <2> QED BY <2>1, <2>2 DEF Inv, Published
<1>12. Calls'
  <2>1. ~Settled
    BY <1>1 DEF Settled
  <2>2. \A u \in Http : pc'[u] = "emit" => pc[u] = "emit"
    BY <1>1
  <2> QED BY <1>1, <2>1, <2>2, NoneClear
<1> QED BY <1>6, <1>7, <1>8, <1>10, <1>11, <1>12 DEF Inv

LEMMA EmitKeeps == ASSUME IInv, NEW t \in Http, NEW e \in Events, Emit(t, e) PROVE IInv'
<1> USE TypeParts, ThreadsFinite DEF IInv, Goto
<1>1. /\ UNCHANGED <<centerVars, getVars>> /\ pc[t] = "idle"
      /\ pc' = [pc EXCEPT ![t] = "emit"] /\ emits < MaxEmits /\ emits' = emits + 1
      /\ rest' = [rest EXCEPT ![t] = listeners[e]] /\ by' = [by EXCEPT ![t] = <<>>]
      /\ clear' = [clear EXCEPT ![t] = Settled]
  BY DEF Emit
<1>2. UNCHANGED <<manager, made, listeners, self, todo>>
  BY <1>1 DEF centerVars, getVars
<1>3. NewAreFew' /\ Todo' /\ Counted' /\ Published' /\ Settled' = Settled
  BY <1>1, <1>2, Quiet
<1>4. TypeOK'
  <2>1. rest' \in [Http -> Seq(Managers)] /\ by' \in [Http -> Seq(Managers)]
    BY <1>1
  <2>2. clear' \in [Http -> BOOLEAN]
    BY <1>1 DEF Settled
  <2>3. pc' \in [Threads -> PCs] /\ emits' \in 0 .. MaxEmits
    BY <1>1, EmitAssumption DEF PCs, TypeOK
  <2> QED BY <1>2, <2>1, <2>2, <2>3 DEF TypeOK, PCs, Managers
<1>5. Len(listeners[e]) + Cardinality(Adding(e)) = made
      /\ Len(listeners[e]) \in Nat /\ Cardinality(Adding(e)) \in Nat
  <2>1. Adding(e) \in SUBSET Threads
    BY DEF Adding
  <2> QED BY <2>1, LenProperties DEF Inv, Counted
<1>6. Settled => Len(listeners[e]) = made /\ manager \in ToSet(listeners[e])
  <2> SUFFICES ASSUME Settled
               PROVE  Len(listeners[e]) = made /\ manager \in ToSet(listeners[e])
    OBVIOUS
  <2>1. Adding(e) = {} /\ manager # 0
    BY DEF Settled, Adding
  <2>2. Len(listeners[e]) = made
    BY <1>5, <2>1, FS_EmptySet
  <2> QED BY <2>1, <2>2 DEF Inv, Published
<1>7. Calls'
  <2> SUFFICES ASSUME NEW u \in Http, pc'[u] = "emit"
               PROVE  /\ Len(rest'[u]) + Len(by'[u]) <= made
                      /\ clear'[u] => /\ Settled /\ Len(rest'[u]) + Len(by'[u]) = made
                                      /\ manager \in ToSet(rest'[u]) \cup ToSet(by'[u])
    BY <1>2, <1>3 DEF Calls
  <2>1. CASE u # t
    <3>1. rest'[u] = rest[u] /\ by'[u] = by[u] /\ clear'[u] = clear[u] /\ pc[u] = "emit"
      BY <1>1, <2>1
    <3> QED BY <3>1 DEF Inv, Calls
  <2>2. CASE u = t
    <3>1. rest'[u] = listeners[e] /\ by'[u] = <<>> /\ clear'[u] = Settled
      BY <1>1, <2>2
    <3>2. Len(rest'[u]) + Len(by'[u]) = Len(listeners[e])
      BY <1>5, <3>1
    <3> QED BY <1>5, <1>6, <3>1, <3>2
  <2> QED BY <2>1, <2>2
<1> QED BY <1>3, <1>4, <1>7 DEF Inv

LEMMA CallKeeps == ASSUME IInv, NEW t \in Http, Call(t) PROVE IInv'
<1> USE TypeParts, ThreadsFinite DEF IInv
<1> PICK i \in DOMAIN rest[t] : /\ by' = [by EXCEPT ![t] = Append(@, rest[t][i])]
                                /\ rest' = [rest EXCEPT ![t] = RemoveAt(@, i)]
  BY DEF Call
<1>1. UNCHANGED <<manager, made, listeners, pc, self, todo, clear, emits>> /\ pc[t] = "emit"
  BY DEF Call, centerVars, getVars
<1>2. NewAreFew' /\ Todo' /\ Counted' /\ Published' /\ Settled' = Settled
  BY <1>1, Quiet
<1>3. rest[t] \in Seq(Managers) /\ by[t] \in Seq(Managers) /\ i \in 1 .. Len(rest[t])
      /\ rest[t][i] \in Managers
  BY LenProperties, ElementOfSeq
<1>4. rest'[t] = RemoveAt(rest[t], i) /\ by'[t] = Append(by[t], rest[t][i])
  BY <1>1
<1>5. /\ rest'[t] \in Seq(Managers) /\ Len(rest'[t]) = Len(rest[t]) - 1
      /\ ToSet(rest[t]) = ToSet(rest'[t]) \cup {rest[t][i]}
  <2> PICK s \in Seq(Managers) : s = rest[t]
    BY <1>3
  <2>1. i \in 1 .. Len(s)
    BY <1>3
  <2>2. /\ RemoveAt(s, i) \in Seq(Managers) /\ Len(RemoveAt(s, i)) = Len(s) - 1
        /\ ToSet(s) = ToSet(RemoveAt(s, i)) \cup {s[i]}
    BY <2>1, RemoveOne
  <2> QED BY <1>4, <2>2
<1>6. /\ by'[t] \in Seq(Managers) /\ Len(by'[t]) = Len(by[t]) + 1
      /\ ToSet(by'[t]) = ToSet(by[t]) \cup {rest[t][i]}
  BY <1>3, <1>4, AppendOne
<1>7. TypeOK'
  BY <1>1, <1>5, <1>6 DEF TypeOK, Managers
<1>8. Calls'
  <2> SUFFICES ASSUME NEW u \in Http, pc[u] = "emit"
               PROVE  /\ Len(rest'[u]) + Len(by'[u]) = Len(rest[u]) + Len(by[u])
                      /\ ToSet(rest'[u]) \cup ToSet(by'[u]) = ToSet(rest[u]) \cup ToSet(by[u])
    BY <1>1, <1>2 DEF Inv, Calls
  <2>1. CASE u # t
    BY <2>1
  <2>2. CASE u = t
    <3>2. Len(rest'[t]) + Len(by'[t]) = Len(rest[t]) + Len(by[t])
      <4>1. \A x, y \in Nat : (x - 1) + (y + 1) = x + y
        OBVIOUS
      <4>2. Len(rest[t]) \in Nat /\ Len(by[t]) \in Nat
        BY <1>3, LenProperties
      <4> QED BY <1>5, <1>6, <4>1, <4>2, Zenon
    <3> QED BY <1>5, <1>6, <2>2, <3>2
  <2> QED BY <2>1, <2>2
<1> QED BY <1>2, <1>7, <1>8 DEF Inv

LEMMA AnswerKeeps == ASSUME IInv, NEW t \in Http, Answer(t) PROVE IInv'
<1> USE TypeParts, ThreadsFinite DEF IInv, Goto
<1>1. /\ UNCHANGED <<manager, made, listeners, self, todo, rest, by, clear, emits>>
      /\ pc[t] = "emit" /\ pc' = [pc EXCEPT ![t] = "idle"]
  BY DEF Answer, centerVars, getVars, emitVars
<1>2. NewAreFew' /\ Todo' /\ Counted' /\ Published' /\ Settled' = Settled
  BY <1>1, Quiet
<1>3. TypeOK'
  BY <1>1 DEF TypeOK, Managers
<1>4. Calls'
  BY <1>1, <1>2 DEF Inv, Calls
<1> QED BY <1>2, <1>3, <1>4 DEF Inv

LEMMA InvInit == Init => IInv
<1> SUFFICES ASSUME Init PROVE IInv
  OBVIOUS
<1> USE ThreadsFinite DEF Init
<1>1. TypeOK
  BY EmitAssumption, EmptySeq DEF TypeOK, Managers
<1>2. {t \in Threads : pc[t] = "new"} = {} /\ \A e \in Events : Adding(e) = {}
  BY DEF Adding
<1>3. NewAreFew /\ Counted
  BY <1>2, FS_EmptySet DEF NewAreFew, Counted
<1>4. Todo /\ Published /\ Calls
  BY DEF Todo, Published, Calls
<1> QED BY <1>1, <1>3, <1>4 DEF IInv, Inv

LEMMA InvNext == IInv /\ [Next]_vars => IInv'
<1> SUFFICES ASSUME IInv, [Next]_vars PROVE IInv'
  OBVIOUS
<1>1. CASE UNCHANGED vars
  BY <1>1 DEF vars, centerVars, getVars, emitVars, IInv, TypeOK, Inv, NewAreFew, Todo,
     Counted, Published, Calls, Managers, Adding, Settled
<1> QED
  BY <1>1, GetInstanceKeeps, NewKeeps, MonitorKeeps, AddListenerKeeps, EmitKeeps,
     CallKeeps, AnswerKeeps DEF Next

LEMMA Inductive == Spec => []IInv
  BY InvInit, InvNext, PTL DEF Spec

(* Every variable keeps its type: no more managers are made than there are   *)
(* threads, and only managers listen.                                        *)
THEOREM TypeCorrect == Spec => []TypeOK
<1>1. IInv => TypeOK
  BY DEF IInv
<1> QED BY <1>1, Inductive, PTL

(* A command leads to as many calls as TdChanManagers were made, one of them *)
(* of the published one, and to fewer only while a first getInstance is      *)
(* under way; which of the others are called it does not say: one may be     *)
(* called twice and another never (TdChanManager.cpp:5-50).                  *)
THEOREM CallsCounted == Spec => []CallsPerManager
<1>1. IInv => CallsPerManager
  <2> SUFFICES ASSUME IInv, NEW t \in Http, pc[t] = "emit"
               PROVE  /\ Len(by[t]) <= made
                      /\ rest[t] = <<>> /\ clear[t] =>
                           Len(by[t]) = made /\ manager \in ToSet(by[t])
    BY DEF CallsPerManager
  <2>1. rest[t] \in Seq(Managers) /\ by[t] \in Seq(Managers) /\ made \in Nat
    BY TypeParts DEF IInv
  <2>2. Len(rest[t]) + Len(by[t]) <= made
    BY DEF IInv, Inv, Calls
  <2>3. rest[t] = <<>> => Len(rest[t]) = 0 /\ ToSet(rest[t]) = {}
    BY NoneLeft
  <2>4. clear[t] => Len(rest[t]) + Len(by[t]) = made
                    /\ manager \in ToSet(rest[t]) \cup ToSet(by[t])
    BY DEF IInv, Inv, Calls
  <2>5. Len(by[t]) <= made
    <3>1. \A x, y \in Nat : x + y <= made => y <= made
      BY <2>1
    <3>2. Len(rest[t]) \in Nat /\ Len(by[t]) \in Nat
      BY <2>1, LenProperties
    <3> QED BY <2>2, <3>1, <3>2, Zenon
  <2>6. rest[t] = <<>> /\ clear[t] => Len(by[t]) = made
    <3>1. \A x, y \in Nat : x = 0 /\ x + y = made => y = made
      OBVIOUS
    <3>2. Len(rest[t]) \in Nat /\ Len(by[t]) \in Nat
      BY <2>1, LenProperties
    <3> QED BY <2>3, <2>4, <3>1, <3>2, Zenon
  <2> QED BY <2>3, <2>4, <2>5, <2>6
<1> QED BY <1>1, Inductive, PTL
=============================================================================
