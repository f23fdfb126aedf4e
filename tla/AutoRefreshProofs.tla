-------------------------- MODULE AutoRefreshProofs --------------------------
(***************************************************************************)
(* Theorems of AutoRefresh for every set of credentials, every number of   *)
(* workers, every capacity of the channel and every length of the          *)
(* backoffs: the types, that the loop never sleeps over a credential it    *)
(* has to look at, that a refresh overlaps another one only with an        *)
(* excuse, and that a change by the service sticks.                        *)
(***************************************************************************)
EXTENDS AutoRefresh, FiniteSetTheorems, WellFoundedInduction, TLAPS

-----------------------------------------------------------------------------
(* Least and greatest elements *)

(* The greater of two numbers.                                             *)
LEMMA MaxOfTwo ==
  ASSUME NEW a \in Int, NEW b \in Int
  PROVE  Max({a, b}) = IF a >= b THEN a ELSE b
<1> DEFINE g == IF a >= b THEN a ELSE b
<1>1. g \in {a, b} /\ \A y \in {a, b} : g >= y
  OBVIOUS
<1>2. \A x \in {a, b} : (\A y \in {a, b} : x >= y) => x = g
  OBVIOUS
<1> QED
  BY <1>1, <1>2 DEF Max

GreaterOf(a, b) == IF a >= b THEN a ELSE b
Top == GreaterOf(GreaterOf(Interval, Pending), GreaterOf(Failure, Life))

(* The range of the times.                                                 *)
LEMMA TimeRange ==
  /\ Times = (-MaxLag)..Top /\ Max(Times) = Top
  /\ Top \in Nat
  /\ Interval <= Top /\ Pending <= Top /\ Failure <= Top /\ Life <= Top
  /\ Never \in Nat /\ Never > Top + MaxLag
<1> DEFINE S == {Interval, Pending, Failure, Life}
<1>1. /\ Top \in Nat
      /\ Interval <= Top /\ Pending <= Top /\ Failure <= Top /\ Life <= Top
      /\ Top \in S
  BY RefreshAssumption DEF Top, GreaterOf
<1>2. S \subseteq Nat
  BY RefreshAssumption
<1>3. \A x \in S : (\A y \in S : x >= y) => x = Top
  BY <1>1, <1>2
<1>4. Max(S) = Top
  <2>1. \A y \in S : Top >= y
    BY <1>1
  <2> HIDE DEF S
  <2> QED
    BY <1>1, <1>3, <2>1 DEF Max
<1>5. Times = (-MaxLag)..Top
  BY <1>4 DEF Times
<1>6. Top \in Times /\ \A y \in Times : Top >= y
  BY <1>1, <1>5, RefreshAssumption
<1>7. \A x \in Times : (\A y \in Times : x >= y) => x = Top
  BY <1>1, <1>5, <1>6
<1>8. Max(Times) = Top
  BY <1>6, <1>7 DEF Max
<1>9. Never \in Nat /\ Never > Top + MaxLag
  BY <1>1, RefreshAssumption DEF Never
<1> QED
  BY <1>1, <1>5, <1>8, <1>9

Less == {ss \in Nat \X Nat : ss[1] < ss[2]}

(* A nonempty set of numbers has a least element.                          *)
LEMMA LeastNumber ==
  ASSUME NEW S \in SUBSET Nat, S # {}
  PROVE  \E n \in S : \A k \in S : n <= k
<1>1. IsWellFoundedOn(Less, Nat)
  BY NatLessThanWellFounded DEF OpToRel, Less
<1>2. \A x, y \in Nat : x < y => <<x, y>> \in Less
  BY DEF Less
<1> HIDE DEF Less
<1>3. PICK n \in S : \A k \in S : ~ (<<k, n>> \in Less)
  BY <1>1, WFMin
<1>4. ASSUME NEW k \in S PROVE n <= k
  <2>1. ~ (k < n)
    BY <1>2, <1>3
  <2> QED
    BY <2>1
<1> QED
  BY <1>4

(* The least of the times in a heap.                                       *)
LEMMA LeastTime ==
  ASSUME NEW f \in [Auths -> Times \cup {Never}]
  PROVE  LET m == Min({f[a] : a \in Auths}) IN
           m \in Times \cup {Never} /\ \A a \in Auths : m <= f[a]
<1> DEFINE S == {f[a] : a \in Auths}
           T == {f[a] + MaxLag : a \in Auths}
<1>1. S \subseteq Times \cup {Never} /\ S # {}
  BY RefreshAssumption
<1>2. \A x \in S : x \in Int /\ x + MaxLag \in Nat
  BY <1>1, TimeRange, RefreshAssumption
<1>3. T \in SUBSET Nat /\ T # {}
  BY <1>2, RefreshAssumption
<1>4. PICK n \in T : \A k \in T : n <= k
  BY <1>3, LeastNumber
<1>5. PICK x \in S : n = x + MaxLag
  BY <1>4
<1>6. \A y \in S : x =< y
  <2> TAKE y \in S
  <2>1. y + MaxLag \in T
    OBVIOUS
  <2> QED
    BY <1>2, <1>4, <1>5, <2>1, RefreshAssumption
<1> HIDE DEF S, T
<1>7. Min(S) \in S /\ \A y \in S : Min(S) =< y
  BY <1>6 DEF Min
<1> QED
  BY <1>1, <1>7 DEF S

-----------------------------------------------------------------------------
(* Types *)

Record == [reg : BOOLEAN, on : BOOLEAN, exec : BOOLEAN, due : Times, nra : Times]
Heap == [Auths -> Times \cup {Never}]
LoopType == [pc : {"off", "rebuild", "fill", "select", "due", "pend", "send", "drain", "apply"},
             batch : SUBSET Auths, cur : Auths \cup {None}, lag : 0..MaxLag, read : Heap]
WorkType == [pc : {"idle", "call", "mark", "wake"}, auth : Auths \cup {None}, on : BOOLEAN]
OpType == [pc : {"idle", "write", "mark", "wake"}, auth : Auths \cup {None}, new : Record,
           count : Nat]
WishType == [on : BOOLEAN, torn : BOOLEAN]

(* A credential is enabled only if it is registered; what a worker or the  *)
(* service has read and is about to store keeps that.                      *)
Registered ==
  /\ \A a \in Auths : auth[a].on => auth[a].reg
  /\ \A w \in Workers : wk[w].pc = "call" /\ wk[w].on => auth[wk[w].auth].reg
  /\ op.pc = "write" => op.new.reg

Types ==
  /\ auth \in [Auths -> Record] /\ heap \in Heap
  /\ dirty \subseteq Auths /\ wake \in BOOLEAN
  /\ jobs \in Seq(Auths) /\ Len(jobs) <= JobCap
  /\ timer \in 0..(Top + MaxLag) \cup {Never}
  /\ loop \in LoopType
  /\ loop.pc \in {"pend", "send"} => loop.cur \in Auths
  /\ loop.pc \in {"off", "rebuild", "fill", "select"} => loop.lag = 0
  /\ wk \in [Workers -> WorkType]
  /\ \A w \in Workers : wk[w].pc # "idle" => wk[w].auth \in Auths
  /\ op \in OpType
  /\ op.pc # "idle" => op.auth \in Auths
  /\ wish \in [Auths -> WishType]
  /\ excuse \in [Auths -> BOOLEAN]

TypeInv == Types /\ Registered

(* The value of NextCheck.                                                 *)
LEMMA NextCheckType ==
  ASSUME NEW r \in Record, NEW lag \in 0..MaxLag
  PROVE  /\ NextCheck(r, lag) \in Times \cup {Never}
         /\ r.on => /\ NextCheck(r, lag) \in Times
                    /\ NextCheck(r, lag) = IF r.nra > -lag THEN r.nra
                                           ELSE IF r.due >= -lag THEN r.due ELSE -lag
         /\ ~r.on => NextCheck(r, lag) = Never
<1>1. r.nra \in Times /\ r.due \in Times /\ -lag \in Times /\ r.on \in BOOLEAN
  BY TimeRange, RefreshAssumption DEF Record
<1>2. r.due \in Int /\ -lag \in Int
  BY <1>1, TimeRange, RefreshAssumption
<1>3. Max({r.due, -lag}) = IF r.due >= -lag THEN r.due ELSE -lag
  BY <1>2, MaxOfTwo
<1> QED
  BY <1>1, <1>3 DEF NextCheck

(* What passing time makes of a time.                                      *)
LEMMA SoonerType ==
  ASSUME NEW t \in Times, NEW past \in {-MaxLag, 0}
  PROVE  /\ Sooner(t, past) \in Times
         /\ Sooner(t, past) = IF t > 1 \/ loop.pc = "send"
                              THEN IF t - 1 >= -MaxLag THEN t - 1 ELSE -MaxLag
                              ELSE past
<1>1. t \in Int /\ t - 1 \in Int /\ -MaxLag \in Int
  BY TimeRange, RefreshAssumption
<1>2. Max({t - 1, -MaxLag}) = IF t - 1 >= -MaxLag THEN t - 1 ELSE -MaxLag
  BY <1>1, MaxOfTwo
<1> QED
  BY <1>1, <1>2, TimeRange, RefreshAssumption DEF Sooner

(* The timer that resetTimer sets: not before the earliest entry, and not  *)
(* later than the lag behind it.                                           *)
LEMMA ResetTimerType ==
  ASSUME NEW lag \in 0..MaxLag, heap' \in Heap, ResetTimer(lag)
  PROVE  /\ timer' \in 0..(Top + MaxLag) \cup {Never}
         /\ \A a \in Auths : heap'[a] # Never =>
              timer' <= (IF heap'[a] >= 0 THEN heap'[a] ELSE 0) + MaxLag
<1> DEFINE next == Min({heap'[a] : a \in Auths})
<1>1. next \in Times \cup {Never} /\ \A a \in Auths : next <= heap'[a]
  BY LeastTime DEF Heap
<1>2. timer' = IF next = Never THEN Never ELSE Max({next + lag, 0})
  BY DEF ResetTimer
<1> HIDE DEF next
<1>3. \A a \in Auths : heap'[a] \in Times \cup {Never}
  BY DEF Heap
<1>4. CASE next = Never
  BY <1>1, <1>2, <1>3, <1>4, TimeRange, RefreshAssumption
<1>5. CASE next # Never
  <2>1. next \in Int /\ next + lag \in Int /\ next <= Top
    BY <1>1, <1>5, TimeRange, RefreshAssumption
  <2>2. timer' = IF next + lag >= 0 THEN next + lag ELSE 0
    BY <1>2, <1>5, <2>1, MaxOfTwo
  <2>3. ASSUME NEW a \in Auths, heap'[a] # Never
        PROVE  timer' <= (IF heap'[a] >= 0 THEN heap'[a] ELSE 0) + MaxLag
    BY <1>1, <1>3, <2>1, <2>2, <2>3, TimeRange, RefreshAssumption
  <2> QED
    BY <2>1, <2>2, <2>3, TimeRange, RefreshAssumption
<1> QED
  BY <1>4, <1>5

(* Steps that change neither who is registered nor what is being stored.   *)
LEMMA RegisteredKept ==
  ASSUME TypeInv,
         \A b \in Auths : auth'[b].on = auth[b].on /\ auth'[b].reg = auth[b].reg,
         \A w \in Workers : wk'[w].pc = "call" => wk'[w] = wk[w],
         op'.pc = "write" => op' = op
  PROVE  Registered'
<1>1. \A w \in Workers : wk[w].pc = "call" => wk[w].auth \in Auths
  BY DEF TypeInv, Types
<1> QED
  BY <1>1 DEF TypeInv, Registered

(* The initial states.                                                     *)
LEMMA TypesInit == Init => TypeInv
<1> SUFFICES ASSUME Init PROVE TypeInv
  OBVIOUS
<1> USE TimeRange, RefreshAssumption DEF Init
<1>1. -MaxLag \in Times /\ Life \in Times /\ 0 \in 0..MaxLag
  OBVIOUS
<1>2. Absent \in Record /\ Loaded(-MaxLag) \in Record /\ Loaded(Life) \in Record
  BY <1>1 DEF Absent, Loaded, Record
<1>3. auth \in [Auths -> Record]
  BY <1>2
<1>4. \A a \in Auths : auth[a].on => auth[a].reg
  BY DEF Absent, Loaded
<1>5. heap \in Heap /\ [a \in Auths |-> Never] \in Heap
  BY DEF Heap
<1>6. loop \in LoopType /\ loop.pc = "off" /\ loop.lag = 0
  BY <1>1, <1>5 DEF LoopType
<1>7. wk \in [Workers -> WorkType] /\ \A w \in Workers : wk[w].pc = "idle"
  BY DEF WorkType, Idle
<1>8. op \in OpType /\ op.pc = "idle"
  BY <1>2 DEF OpType
<1>9. wish \in [Auths -> WishType]
  BY <1>3 DEF WishType, Record
<1>10. jobs \in Seq(Auths) /\ Len(jobs) <= JobCap /\ timer = Never /\ dirty = {} /\ wake = FALSE
      /\ excuse \in [Auths -> BOOLEAN]
  OBVIOUS
<1>11. Types
  BY ONLY <1>3, <1>5, <1>6, <1>7, <1>8, <1>9, <1>10 DEF Types
<1>12. Registered
  BY <1>4, <1>7, <1>8 DEF Registered
<1> QED
  BY <1>11, <1>12 DEF TypeInv

(* The loop.                                                               *)
LEMMA TypesLoop == TypeInv /\ LoopStep => TypeInv'
<1> SUFFICES ASSUME TypeInv, LoopStep PROVE TypeInv'
  OBVIOUS
<1> USE DEF TypeInv
<1>0. loop \in LoopType
  BY DEF Types
<1>1. CASE Publish
  BY <1>1 DEF Publish, loopElse, Types, Registered, LoopType
<1>2. CASE RebuildRead
  <2>1. \A a \in Auths : NextCheck(auth[a], 0) \in Times \cup {Never}
    BY NextCheckType, RefreshAssumption DEF Types
  <2> QED
    BY <1>2, <2>1 DEF RebuildRead, loopElse, Types, Registered, Heap, LoopType
<1>3. CASE RebuildFill
  <2>1. heap' \in Heap /\ loop.lag = 0
    BY <1>3 DEF RebuildFill, Types, LoopType
  <2>2. timer' \in 0..(Top + MaxLag) \cup {Never}
    BY <1>3, <2>1, ResetTimerType, RefreshAssumption DEF RebuildFill
  <2>3. [a \in Auths |-> Never] \in Heap
    BY DEF Heap
  <2> QED
    BY <1>3, <2>1, <2>2, <2>3 DEF RebuildFill, loopElse, Types, Registered, LoopType
<1>4. CASE LoopWakes
  BY <1>4 DEF LoopWakes, loopElse, Types, Registered, LoopType
<1>5. CASE LoopDue
  <2>1. heap' \in Heap
    BY <1>5 DEF LoopDue, Types, Heap
  <2> QED
    BY <1>5, <2>1 DEF LoopDue, loopElse, Types, Registered, LoopType
<1>6. ASSUME NEW a \in Auths, HandleDue(a) PROVE TypeInv'
  <2>1. NextCheck(auth[a], loop.lag) \in Times \cup {Never}
    BY NextCheckType DEF Types, LoopType
  <2>2. Interval - loop.lag \in Times
    BY TimeRange, RefreshAssumption DEF Types, LoopType
  <2>3. heap' \in Heap
    BY <1>6, <2>1, <2>2 DEF HandleDue, Types, Heap
  <2>4. \/ loop' = [loop EXCEPT !.pc = "pend", !.cur = a, !.batch = @ \ {a}]
        \/ loop' = [loop EXCEPT !.batch = @ \ {a}]
    BY <1>6 DEF HandleDue
  <2>5. loop.pc = "due"
    BY <1>6 DEF HandleDue
  <2>6. loop' \in LoopType /\ (loop'.pc = "due" \/ (loop'.pc = "pend" /\ loop'.cur = a))
    <3>1. loop.batch \ {a} \subseteq Auths
      BY <1>0 DEF LoopType
    <3>2. CASE loop' = [loop EXCEPT !.pc = "pend", !.cur = a, !.batch = @ \ {a}]
      BY <1>0, <3>1, <3>2 DEF LoopType
    <3>3. CASE loop' = [loop EXCEPT !.batch = @ \ {a}]
      <4>1. loop'.pc = "due"
        BY <1>0, <2>5, <3>3 DEF LoopType
      <4>2. loop' \in LoopType
        BY <1>0, <3>1, <3>3 DEF LoopType
      <4> QED
        BY ONLY <4>1, <4>2
    <3> QED
      BY <2>4, <3>2, <3>3
  <2> QED
    BY <1>6, <2>3, <2>6 DEF HandleDue, loopElse, Types, Registered
<1>7. CASE MarkPending
  <2>0. loop.pc = "pend" /\ loop.cur \in Auths /\ loop.lag \in 0..MaxLag
    BY <1>7, <1>0 DEF MarkPending, Types, LoopType
  <2>1. NextCheck(auth[loop.cur], loop.lag) \in Times \cup {Never}
    BY <2>0, NextCheckType DEF Types
  <2>2. Pending - loop.lag \in Times
    BY <2>0, TimeRange, RefreshAssumption
  <2>3. auth' = auth \/ auth' = [auth EXCEPT ![loop.cur].nra = Pending - loop.lag]
    BY <1>7 DEF MarkPending
  <2>4. auth' \in [Auths -> Record]
        /\ \A b \in Auths : auth'[b].on = auth[b].on /\ auth'[b].reg = auth[b].reg
    <3>1. auth \in [Auths -> Record]
      BY DEF Types
    <3> QED
      BY <2>0, <2>2, <2>3, <3>1 DEF Record
  <2>5. heap' \in Heap
    BY <1>7, <2>1 DEF MarkPending, Types, Heap
  <2>6. \/ loop' = [loop EXCEPT !.pc = "send"]
        \/ loop' = [loop EXCEPT !.pc = "due", !.cur = None]
    BY <1>7 DEF MarkPending
  <2>7. loop' \in LoopType /\ (loop'.pc = "due" \/ (loop'.pc = "send" /\ loop'.cur = loop.cur))
    <3>1. CASE loop' = [loop EXCEPT !.pc = "send"]
      BY <1>0, <3>1 DEF LoopType
    <3>2. CASE loop' = [loop EXCEPT !.pc = "due", !.cur = None]
      <4>1. loop'.pc = "due"
        BY <1>0, <3>2 DEF LoopType
      <4>2. loop' \in LoopType
        BY <1>0, <3>2 DEF LoopType
      <4> QED
        BY ONLY <4>1, <4>2
    <3> QED
      BY <2>6, <3>1, <3>2
  <2>8. dirty' \subseteq Auths /\ wake' \in BOOLEAN
    <3>1. \/ dirty' = dirty \cup {loop.cur} /\ wake' = TRUE
          \/ dirty' = dirty /\ wake' = wake
      BY <1>7 DEF MarkPending
    <3>2. dirty \subseteq Auths /\ wake \in BOOLEAN
      BY DEF Types
    <3> QED
      BY ONLY <2>0, <3>1, <3>2
  <2>9. excuse' = excuse \/ excuse' = [excuse EXCEPT ![loop.cur] = @ \/ Pending <= loop.lag]
    BY <1>7 DEF MarkPending
  <2>10. excuse' \in [Auths -> BOOLEAN]
    BY <2>0, <2>9, RefreshAssumption DEF Types
  <2>11. Types'
    BY <1>7, <2>0, <2>4, <2>5, <2>7, <2>8, <2>10 DEF MarkPending, loopElse, Types
  <2>12. Registered'
    BY <1>7, <2>4, RegisteredKept DEF MarkPending, loopElse
  <2> QED
    BY <2>11, <2>12
<1>8. CASE SendJob
  <2>1. loop.pc = "send" /\ loop.cur \in Auths /\ jobs \in Seq(Auths) /\ Len(jobs) < JobCap
    BY <1>8 DEF SendJob, Types
  <2>2. jobs' \in Seq(Auths) /\ Len(jobs') <= JobCap
    BY <1>8, <2>1, RefreshAssumption DEF SendJob
  <2>3. loop' \in LoopType /\ loop'.pc = "due"
    BY <1>8, <1>0 DEF SendJob, LoopType
  <2> QED
    BY <1>8, <2>2, <2>3 DEF SendJob, loopElse, Types, Registered
<1>9. CASE DrainDirty
  BY <1>9 DEF DrainDirty, loopElse, Types, Registered, LoopType
<1>10. CASE ApplyDirty
  <2>0. loop.lag \in 0..MaxLag /\ loop.pc = "apply" /\ loop.batch \subseteq Auths
    BY <1>10, <1>0 DEF ApplyDirty, LoopType
  <2>1. \A a \in Auths : NextCheck(auth[a], loop.lag) \in Times \cup {Never}
    BY <2>0, NextCheckType DEF Types
  <2>2. heap' \in Heap
    BY <1>10, <2>1 DEF ApplyDirty, Types, Heap
  <2>3. timer' \in 0..(Top + MaxLag) \cup {Never}
    <3>1. CASE loop.batch = {}
      <4>1. ResetTimer(loop.lag)
        BY <1>10, <3>1 DEF ApplyDirty
      <4> QED
        BY <2>0, <2>2, <4>1, ResetTimerType
    <3>2. CASE loop.batch # {}
      BY <1>10, <3>2 DEF ApplyDirty, Types
    <3> QED
      BY <3>1, <3>2
  <2>4. \/ loop' = [loop EXCEPT !.pc = "select", !.lag = 0]
        \/ \E a \in Auths : loop' = [loop EXCEPT !.batch = @ \ {a}]
    BY <1>10, <2>0 DEF ApplyDirty
  <2>5. loop' \in LoopType /\ (loop'.pc = "apply" \/ (loop'.pc = "select" /\ loop'.lag = 0))
    <3>1. CASE loop' = [loop EXCEPT !.pc = "select", !.lag = 0]
      <4>1. loop'.pc = "select" /\ loop'.lag = 0
        BY <1>0, <3>1 DEF LoopType
      <4>2. 0 \in 0..MaxLag
        BY RefreshAssumption
      <4>3. loop' \in LoopType
        BY ONLY <1>0, <3>1, <4>2 DEF LoopType
      <4> QED
        BY ONLY <4>1, <4>3
    <3>2. ASSUME NEW a \in Auths, loop' = [loop EXCEPT !.batch = @ \ {a}]
          PROVE  loop' \in LoopType /\ loop'.pc = "apply"
      BY <1>0, <2>0, <3>2 DEF LoopType
    <3>3. \A a \in Auths : loop' = [loop EXCEPT !.batch = @ \ {a}]
                          => loop' \in LoopType /\ loop'.pc = "apply"
      BY <3>2
    <3> QED
      BY ONLY <2>4, <3>1, <3>3
  <2> QED
    BY <1>10, <2>2, <2>3, <2>5 DEF ApplyDirty, loopElse, Types, Registered
<1> QED
  BY <1>1, <1>2, <1>3, <1>4, <1>5, <1>6, <1>7, <1>8, <1>9, <1>10 DEF LoopStep

(* The workers.                                                            *)
LEMMA TypesWorker ==
  ASSUME TypeInv, NEW w \in Workers, WorkerStep(w)
  PROVE  TypeInv'
<1> USE DEF TypeInv
<1>0. wk \in [Workers -> WorkType] /\ auth \in [Auths -> Record]
  BY DEF Types
<1>1. CASE TakeJob(w)
  <2>1. Head(jobs) \in Auths /\ Tail(jobs) \in Seq(Auths) /\ Len(Tail(jobs)) <= Len(jobs)
    BY <1>1 DEF TakeJob, Types
  <2>2. wk' = [wk EXCEPT ![w] = [pc |-> "call", auth |-> Head(jobs), on |-> auth[Head(jobs)].on]]
    BY <1>1 DEF TakeJob
  <2>3. wk' \in [Workers -> WorkType]
        /\ \A v \in Workers : v # w => wk'[v] = wk[v]
        /\ wk'[w].auth = Head(jobs) /\ wk'[w].on = auth[Head(jobs)].on
    BY <1>0, <2>1, <2>2 DEF Record, WorkType
  <2>4. Types'
    BY <1>1, <2>1, <2>3, RefreshAssumption DEF TakeJob, workElse, Types
  <2>5. Registered'
    BY <1>1, <2>1, <2>3 DEF TakeJob, workElse, Types, Registered
  <2> QED
    BY <2>4, <2>5
<1>2. CASE RefreshFails(w)
  <2>1. Failure \in Times /\ wk[w].pc = "call" /\ wk[w].auth \in Auths
    BY <1>2, TimeRange, RefreshAssumption DEF RefreshFails, Types
  <2>2. auth' \in [Auths -> Record]
        /\ \A b \in Auths : auth'[b].on = auth[b].on /\ auth'[b].reg = auth[b].reg
    BY <1>0, <1>2, <2>1 DEF RefreshFails, Record
  <2>3. wk' \in [Workers -> WorkType]
        /\ \A v \in Workers : /\ wk'[v].pc # "idle" => wk'[v].auth \in Auths
                              /\ wk'[v].pc = "call" => wk'[v] = wk[v]
    BY <1>0, <1>2, <2>1 DEF RefreshFails, WorkType, Types
  <2>4. excuse' \in [Auths -> BOOLEAN]
    BY <1>2 DEF RefreshFails, Types
  <2>5. Types'
    BY <1>2, <2>2, <2>3, <2>4 DEF RefreshFails, workElse, Types
  <2>6. Registered'
    BY <1>2, <2>2, <2>3, RegisteredKept DEF RefreshFails, workElse
  <2> QED
    BY <2>5, <2>6
<1>3. CASE RefreshSucceeds(w)
  <2>1. Life \in Times /\ -MaxLag \in Times /\ wk[w].pc = "call" /\ wk[w].auth \in Auths
    BY <1>3, TimeRange, RefreshAssumption DEF RefreshSucceeds, Types
  <2>2. PICK due \in {auth[wk[w].auth].due, Life} :
          auth' = [auth EXCEPT ![wk[w].auth] = [@ EXCEPT !.on = wk[w].on, !.due = due, !.nra = -MaxLag]]
    BY <1>3 DEF RefreshSucceeds
  <2>3. due \in Times /\ wk[w].on \in BOOLEAN
    BY <1>0, <2>1 DEF Record, WorkType
  <2>4. /\ auth' \in [Auths -> Record]
        /\ \A b \in Auths : auth'[b].reg = auth[b].reg
        /\ \A b \in Auths : b # wk[w].auth => auth'[b].on = auth[b].on
        /\ auth'[wk[w].auth].on = wk[w].on
    BY <1>0, <2>1, <2>2, <2>3 DEF Record
  <2>5. wk' \in [Workers -> WorkType]
        /\ \A v \in Workers : /\ wk'[v].pc # "idle" => wk'[v].auth \in Auths
                              /\ wk'[v].pc = "call" => wk'[v] = wk[v]
    <3>1. wk' = [wk EXCEPT ![w].pc = "mark", ![w].on = FALSE]
      BY <1>3 DEF RefreshSucceeds
    <3>2. \A v \in Workers : wk[v].pc # "idle" => wk[v].auth \in Auths
      BY DEF Types
    <3> QED
      BY <1>0, <2>1, <3>1, <3>2 DEF WorkType
  <2>6. excuse' \in [Auths -> BOOLEAN]
    BY <1>3 DEF RefreshSucceeds, Types
  <2>7. Types'
    BY <1>3, <2>4, <2>5, <2>6 DEF RefreshSucceeds, workElse, Types
  <2>8. \A v \in Workers : wk[v].pc = "call" => wk[v].auth \in Auths
    BY DEF Types
  <2>9. Registered'
    BY <1>3, <2>1, <2>4, <2>5, <2>8 DEF RefreshSucceeds, workElse, Registered
  <2> QED
    BY <2>7, <2>9
<1>4. CASE WorkerMarks(w)
  <2>1. Idle \in WorkType /\ Idle.pc = "idle"
    BY DEF Idle, WorkType
  <2>2. wk' = [wk EXCEPT ![w] = [@ EXCEPT !.pc = "wake"]] \/ wk' = [wk EXCEPT ![w] = Idle]
    BY <1>4 DEF WorkerMarks
  <2>3. wk[w].pc # "idle" /\ wk[w].auth \in Auths
    BY <1>4 DEF WorkerMarks, Types
  <2>4. /\ wk' \in [Workers -> WorkType]
        /\ \A v \in Workers : wk'[v].pc = "call" => wk'[v] = wk[v]
        /\ \A v \in Workers : wk'[v].pc # "idle" => wk'[v].auth = wk[v].auth /\ wk[v].pc # "idle"
    BY <1>0, <2>1, <2>2, <2>3 DEF WorkType
  <2>5. dirty' \subseteq Auths /\ wake' \in BOOLEAN
    BY <1>4, <2>3 DEF WorkerMarks, Types, Marked, Awake
  <2>6. Types'
    BY <1>4, <2>4, <2>5 DEF WorkerMarks, workElse, Types
  <2>7. Registered'
    BY <1>4, <2>4, RegisteredKept DEF WorkerMarks, workElse
  <2> QED
    BY <2>6, <2>7
<1> QED
  BY <1>1, <1>2, <1>3, <1>4 DEF WorkerStep

(* The service.                                                            *)
LEMMA TypesService == TypeInv /\ OpStep => TypeInv'
<1> SUFFICES ASSUME TypeInv, OpStep PROVE TypeInv'
  OBVIOUS
<1> USE DEF TypeInv
<1>0. op \in OpType /\ auth \in [Auths -> Record]
  BY DEF Types
<1>1. -MaxLag \in Times /\ Life \in Times
  BY TimeRange, RefreshAssumption
<1>2. ASSUME NEW a \in Auths, OpRead(a) PROVE TypeInv'
  <2>1. PICK on \in BOOLEAN, due \in {-MaxLag, Life}, others \in SUBSET Auths :
          LET r == auth[a]
              new == IF on THEN [reg |-> TRUE, on |-> TRUE, exec |-> TRUE, due |-> due,
                                 nra |-> IF r.on THEN r.nra ELSE -MaxLag]
                     ELSE [r EXCEPT !.on = FALSE] IN
            /\ on \/ (r.reg /\ due = Life)
            /\ op' = [pc |-> "write", auth |-> a, new |-> new, count |-> op.count + 1]
            /\ auth' = [b \in Auths |-> [auth[b] EXCEPT !.exec = @ \/ (on /\ b \in others \cup {a})]]
    BY <1>2 DEF OpRead
  <2>2. auth' \in [Auths -> Record]
        /\ \A b \in Auths : auth'[b].on = auth[b].on /\ auth'[b].reg = auth[b].reg
    BY <1>0, <2>1 DEF Record
  <2>3. op' \in OpType /\ op'.auth \in Auths /\ op'.new.reg
    <3>1. auth[a] \in Record /\ op.count + 1 \in Nat
      BY <1>0 DEF OpType
    <3>2. CASE on
      BY <1>1, <2>1, <3>1, <3>2 DEF OpType, Record
    <3>3. CASE ~on
      BY <1>1, <2>1, <3>1, <3>3 DEF OpType, Record
    <3> QED
      BY <3>2, <3>3
  <2>4. Types'
    BY <1>2, <2>2, <2>3 DEF OpRead, opElse, Types
  <2>5. \A w \in Workers : wk[w].pc = "call" => wk[w].auth \in Auths
    BY DEF Types
  <2>6. Registered'
    BY <1>2, <2>2, <2>3, <2>5 DEF OpRead, opElse, Registered
  <2> QED
    BY <2>4, <2>6
<1>3. ASSUME NEW a \in Auths, OpRegister(a) PROVE TypeInv'
  <2>1. op' \in OpType /\ op'.auth \in Auths /\ op'.new.reg
    BY <1>0, <1>1, <1>3 DEF OpRegister, OpType, Record
  <2> QED
    BY <1>3, <2>1 DEF OpRegister, opElse, Types, Registered
<1>4. CASE OpWrite
  <2>1. op.auth \in Auths /\ op.new \in Record /\ op.new.reg
    BY <1>0, <1>4 DEF OpWrite, Types, Registered, OpType
  <2>2. Absent \in Record
    BY <1>1 DEF Absent, Record
  <2>3. op' \in OpType /\ op'.pc = "mark" /\ op'.auth \in Auths
    BY <1>0, <1>4, <2>1, <2>2 DEF OpWrite, OpType
  <2>4. /\ auth' \in [Auths -> Record]
        /\ auth'[op.auth].reg
        /\ \A b \in Auths : b # op.auth => auth'[b] = auth[b]
    BY <1>0, <1>4, <2>1 DEF OpWrite
  <2>5. wish' \in [Auths -> WishType] /\ excuse' \in [Auths -> BOOLEAN]
    BY <1>4, <2>1 DEF OpWrite, Types, Record, Held, WishType
  <2>6. Types'
    BY <1>4, <2>3, <2>4, <2>5 DEF OpWrite, opElse, Types
  <2>7. \A w \in Workers : wk[w].pc = "call" => wk[w].auth \in Auths
    BY DEF Types
  <2>8. \A b \in Auths : (auth'[b].on => auth'[b].reg) /\ (auth[b].reg => auth'[b].reg)
    BY <2>4 DEF Registered
  <2>9. Registered'
    BY <1>4, <2>3, <2>7, <2>8 DEF OpWrite, opElse, Registered
  <2> QED
    BY <2>6, <2>9
<1>5. CASE OpMarks
  <2>1. op' = [op EXCEPT !.pc = "wake"] \/ op' = [op EXCEPT !.pc = "idle", !.auth = None]
    BY <1>5 DEF OpMarks
  <2>2. op.pc # "idle"
    BY <1>5 DEF OpMarks
  <2>3. op.auth \in Auths
    BY <2>2 DEF Types
  <2>4. op' \in OpType /\ (op'.pc # "idle" => op'.auth \in Auths) /\ op'.pc # "write"
    BY <1>0, <2>1, <2>3 DEF OpType
  <2>5. dirty' \subseteq Auths /\ wake' \in BOOLEAN
    BY <1>5, <2>3 DEF OpMarks, Types, Marked, Awake
  <2> QED
    BY <1>5, <2>4, <2>5 DEF OpMarks, opElse, Types, Registered
<1> QED
  BY <1>2, <1>3, <1>4, <1>5, RefreshAssumption DEF OpStep

(* A tick of the clock.                                                    *)
LEMMA TypesTick == TypeInv /\ Tick => TypeInv'
<1> SUFFICES ASSUME TypeInv, Tick PROVE TypeInv'
  OBVIOUS
<1> USE DEF TypeInv
<1>1. \A t \in Times : Sooner(t, -MaxLag) \in Times /\ Sooner(t, 0) \in Times
  BY SoonerType
<1>2. auth' \in [Auths -> Record]
      /\ \A b \in Auths : auth'[b].on = auth[b].on /\ auth'[b].reg = auth[b].reg
  BY <1>1 DEF Tick, Types, Record
<1>3. heap' \in Heap
  BY <1>1 DEF Tick, Types, Heap
<1>4. timer' \in 0..(Top + MaxLag) \cup {Never}
  <2>1. CASE timer # Never
    <3>1. timer \in 0..(Top + MaxLag) /\ timer - 1 \in Int
      BY <2>1, TimeRange, RefreshAssumption DEF Types
    <3>2. Max({timer - 1, 0}) = IF timer - 1 >= 0 THEN timer - 1 ELSE 0
      BY <3>1, MaxOfTwo
    <3>3. timer' = Max({timer - 1, 0})
      BY <2>1 DEF Tick
    <3>4. Top + MaxLag \in Nat
      BY TimeRange, RefreshAssumption
    <3> QED
      BY <3>1, <3>2, <3>3, <3>4
  <2> QED
    BY <2>1 DEF Tick
<1>5. loop' \in LoopType
      /\ loop'.pc = loop.pc /\ loop'.cur = loop.cur /\ (loop.pc # "send" => loop'.lag = loop.lag)
  <2>1. loop \in LoopType
    BY DEF Types
  <2>2. CASE loop.pc = "send"
    <3>0. loop.lag \in 0..MaxLag /\ loop.lag < MaxLag
      BY <2>1, <2>2 DEF Tick, LoopWaits, LoopType
    <3>1. loop.lag + 1 \in 0..MaxLag
      BY <3>0, RefreshAssumption
    <3>2. loop' = [loop EXCEPT !.lag = loop.lag + 1]
      BY <2>2 DEF Tick
    <3> QED
      BY <2>1, <2>2, <3>1, <3>2 DEF LoopType
  <2>3. CASE loop.pc # "send"
    <3>1. loop' = [loop EXCEPT !.lag = loop.lag]
      BY <2>3 DEF Tick
    <3> QED
      BY <2>1, <2>3, <3>1 DEF LoopType
  <2> QED
    BY <2>2, <2>3
<1>6. excuse' \in [Auths -> BOOLEAN]
  BY DEF Tick, Types, Held
<1>7. Types'
  BY <1>2, <1>3, <1>4, <1>5, <1>6 DEF Tick, Types
<1>8. Registered'
  BY <1>2, RegisteredKept DEF Tick
<1> QED
  BY <1>7, <1>8

(* Every step.                                                             *)
LEMMA TypesStep == TypeInv /\ [Next]_vars => TypeInv'
<1>1. TypeInv /\ UNCHANGED vars => TypeInv'
  BY DEF vars, TypeInv, Types, Registered
<1> QED
  BY <1>1, TypesLoop, TypesWorker, TypesService, TypesTick DEF Next

(* Every variable holds what the code could hold there (the fields of a    *)
(* record, a heap of times, the channel within its capacity, the batch of  *)
(* the loop), and a credential is enabled only if it is registered.        *)
THEOREM TypeCorrect == Spec => []TypeOK
<1>1. Init => TypeInv
  BY TypesInit
<1>2. TypeInv /\ [Next]_vars => TypeInv'
  BY TypesStep
<1>3. TypeInv => TypeOK
  <2> SUFFICES ASSUME TypeInv PROVE TypeOK
    OBVIOUS
  <2>1. \A a \in Auths : /\ auth[a].due \in Times /\ auth[a].nra \in Times
                         /\ auth[a].on => auth[a].reg
                         /\ heap[a] \in Times \cup {Never}
    BY DEF TypeInv, Types, Registered, Record, Heap
  <2>2. timer \in 0..Max(Times) + MaxLag \cup {Never}
    BY TimeRange DEF TypeInv, Types
  <2>3. loop.batch \subseteq Auths /\ loop.lag \in 0..MaxLag
        /\ loop.pc \in {"off", "rebuild", "fill", "select", "due", "pend", "send", "drain",
                       "apply"}
    BY DEF TypeInv, Types, LoopType
  <2>4. (\A w \in Workers : wk[w].pc \in {"idle", "call", "mark", "wake"})
        /\ op.pc \in {"idle", "write", "mark", "wake"}
    BY DEF TypeInv, Types, WorkType, OpType
  <2> QED
    BY <2>1, <2>2, <2>3, <2>4 DEF TypeInv, Types, TypeOK
<1> QED
  BY <1>1, <1>2, <1>3, PTL DEF Spec

-----------------------------------------------------------------------------
(* What the service wants *)

(* A clone that is with an executor is as the service wants it, unless the *)
(* service has changed the record since.                                   *)
Wanted ==
  /\ ChangesStick
  /\ \A w \in Workers : wk[w].pc = "call" =>
       wk[w].on = wish[wk[w].auth].on \/ wish[wk[w].auth].torn

(* Steps that enable or disable nothing and start no refresh.              *)
LEMMA WantedKept ==
  ASSUME TypeInv, Wanted, wish' = wish,
         \A b \in Auths : auth'[b].on = auth[b].on,
         \A w \in Workers : wk'[w].pc = "call" => wk'[w] = wk[w]
  PROVE  Wanted'
<1>1. \A w \in Workers : wk[w].pc = "call" => wk[w].auth \in Auths
  BY DEF TypeInv, Types
<1> QED
  BY <1>1 DEF Wanted, ChangesStick

(* Every step keeps to what the service wants.                             *)
LEMMA WantedStep == TypeInv /\ Wanted /\ [Next]_vars => Wanted'
<1> SUFFICES ASSUME TypeInv, Wanted, [Next]_vars PROVE Wanted'
  OBVIOUS
<1>0. /\ auth \in [Auths -> Record] /\ wk \in [Workers -> WorkType]
      /\ wish \in [Auths -> WishType]
      /\ \A w \in Workers : wk[w].pc # "idle" => wk[w].auth \in Auths
  BY DEF TypeInv, Types
<1>1. CASE LoopStep
  <2>1. \A b \in Auths : auth'[b].on = auth[b].on
    <3>1. CASE MarkPending
      <4>1. loop.cur \in Auths
        BY <3>1 DEF MarkPending, TypeInv, Types
      <4>2. auth' = auth \/ auth' = [auth EXCEPT ![loop.cur].nra = Pending - loop.lag]
        BY <3>1 DEF MarkPending
      <4> QED
        BY <1>0, <4>1, <4>2 DEF Record
    <3>2. CASE ~MarkPending
      <4>1. auth' = auth
        BY <1>1, <3>2 DEF LoopStep, Publish, RebuildRead, RebuildFill, LoopWakes, LoopDue,
                          HandleDue, SendJob, DrainDirty, ApplyDirty
      <4> QED
        BY <4>1
    <3> QED
      BY <3>1, <3>2
  <2>2. wk' = wk /\ wish' = wish
    BY <1>1 DEF LoopStep, Publish, RebuildRead, RebuildFill, LoopWakes, LoopDue, HandleDue,
                MarkPending, SendJob, DrainDirty, ApplyDirty, loopElse
  <2> QED
    BY <2>1, <2>2, WantedKept
<1>2. ASSUME NEW w \in Workers, TakeJob(w) PROVE Wanted'
  <2>1. Head(jobs) \in Auths
    BY <1>2 DEF TakeJob, TypeInv, Types
  <2>2. auth' = auth /\ wish' = wish
        /\ wk' = [wk EXCEPT ![w] = [pc |-> "call", auth |-> Head(jobs), on |-> auth[Head(jobs)].on]]
    BY <1>2 DEF TakeJob
  <2>3. /\ \A v \in Workers : v # w => wk'[v] = wk[v]
        /\ wk'[w].auth = Head(jobs) /\ wk'[w].on = auth[Head(jobs)].on
    BY <1>0, <2>2
  <2> QED
    BY <1>0, <2>1, <2>2, <2>3 DEF Wanted, ChangesStick
<1>3. ASSUME NEW w \in Workers, RefreshFails(w) PROVE Wanted'
  <2>1. wk[w].auth \in Auths /\ wish' = wish
    BY <1>0, <1>3 DEF RefreshFails
  <2>2. \A b \in Auths : auth'[b].on = auth[b].on
    BY <1>0, <1>3, <2>1 DEF RefreshFails, Record
  <2>3. \A v \in Workers : wk'[v].pc = "call" => wk'[v] = wk[v]
    BY <1>0, <1>3 DEF RefreshFails, WorkType
  <2> QED
    BY <2>1, <2>2, <2>3, WantedKept
<1>4. ASSUME NEW w \in Workers, RefreshSucceeds(w) PROVE Wanted'
  <2>1. wk[w].auth \in Auths /\ wish' = wish /\ wk[w].pc = "call"
    BY <1>0, <1>4 DEF RefreshSucceeds
  <2>2. PICK due \in {auth[wk[w].auth].due, Life} :
          auth' = [auth EXCEPT ![wk[w].auth] = [@ EXCEPT !.on = wk[w].on, !.due = due, !.nra = -MaxLag]]
    BY <1>4 DEF RefreshSucceeds
  <2>3. /\ auth'[wk[w].auth].on = wk[w].on
        /\ \A b \in Auths : b # wk[w].auth => auth'[b] = auth[b]
    BY <1>0, <2>1, <2>2 DEF Record
  <2>4. \A v \in Workers : wk'[v].pc = "call" => wk'[v] = wk[v]
    <3>1. wk' = [wk EXCEPT ![w].pc = "mark", ![w].on = FALSE]
      BY <1>4 DEF RefreshSucceeds
    <3> QED
      BY <1>0, <3>1 DEF WorkType
  <2>5. \A b \in Auths : auth'[b].on # wish[b].on => wish[b].torn
    BY <2>1, <2>3 DEF Wanted, ChangesStick
  <2> QED
    BY <1>0, <2>1, <2>4, <2>5 DEF Wanted, ChangesStick
<1>5. ASSUME NEW w \in Workers, WorkerMarks(w) PROVE Wanted'
  <2>1. wk' = [wk EXCEPT ![w] = [@ EXCEPT !.pc = "wake"]] \/ wk' = [wk EXCEPT ![w] = Idle]
    BY <1>5 DEF WorkerMarks
  <2>2. \A v \in Workers : wk'[v].pc = "call" => wk'[v] = wk[v]
    BY <1>0, <2>1 DEF WorkType, Idle
  <2>3. auth' = auth /\ wish' = wish
    BY <1>5 DEF WorkerMarks
  <2> QED
    BY <2>2, <2>3, WantedKept
<1>6. CASE OpStep
  <2>1. ASSUME NEW a \in Auths, OpRead(a) PROVE Wanted'
    <3>1. PICK on \in BOOLEAN, others \in SUBSET Auths :
          auth' = [b \in Auths |-> [auth[b] EXCEPT !.exec = @ \/ (on /\ b \in others \cup {a})]]
      BY <2>1 DEF OpRead
    <3>2. \A b \in Auths : auth'[b].on = auth[b].on
      BY <1>0, <3>1 DEF Record
    <3> QED
      BY <2>1, <3>2, WantedKept DEF OpRead, opElse
  <2>2. ASSUME NEW a \in Auths, OpRegister(a) PROVE Wanted'
    BY <2>2, WantedKept DEF OpRegister, opElse
  <2>3. CASE OpWrite
    <3>1. op.auth \in Auths /\ op.new \in Record
      BY <2>3 DEF OpWrite, TypeInv, Types, OpType
    <3>2. /\ auth'[op.auth] = op.new
          /\ \A b \in Auths : b # op.auth => auth'[b] = auth[b]
      BY <1>0, <2>3, <3>1 DEF OpWrite
    <3>3. /\ wish'[op.auth].on = op.new.on
          /\ \A w \in Workers : wk[w].pc = "call" /\ wk[w].auth = op.auth => wish'[op.auth].torn
          /\ \A b \in Auths : b # op.auth => wish'[b] = wish[b]
          /\ wk' = wk
      BY <1>0, <2>3, <3>1 DEF OpWrite, opElse
    <3>4. ChangesStick'
      BY <3>2, <3>3 DEF Wanted, ChangesStick
    <3>5. \A w \in Workers : wk'[w].pc = "call" =>
            wk'[w].on = wish'[wk'[w].auth].on \/ wish'[wk'[w].auth].torn
      BY <1>0, <3>3 DEF Wanted
    <3> QED
      BY <3>4, <3>5 DEF Wanted
  <2>4. CASE OpMarks
    BY <2>4, WantedKept DEF OpMarks, opElse
  <2> QED
    BY <1>6, <2>1, <2>2, <2>3, <2>4, RefreshAssumption DEF OpStep
<1>7. CASE Tick
  <2>1. \A b \in Auths : auth'[b].on = auth[b].on
    BY <1>0, <1>7 DEF Tick, Record
  <2> QED
    BY <1>7, <2>1, WantedKept DEF Tick
<1>8. CASE UNCHANGED vars
  BY <1>8, WantedKept DEF vars
<1> QED
  BY <1>1, <1>2, <1>3, <1>4, <1>5, <1>6, <1>7, <1>8 DEF Next, WorkerStep

(* A credential is enabled or disabled as the service has wanted it last,  *)
(* unless the service changed it while refreshAuth had a clone with the    *)
(* executor: whatever else the loop, the workers and the service do.       *)
THEOREM ChangesAreKept == Spec => []ChangesStick
<1>1. Init => TypeInv
  BY TypesInit
<1>2. Init => Wanted
  BY DEF Init, Wanted, ChangesStick, Idle
<1>3. TypeInv /\ [Next]_vars => TypeInv'
  BY TypesStep
<1>4. TypeInv /\ Wanted /\ [Next]_vars => Wanted'
  BY WantedStep
<1>5. Wanted => ChangesStick
  BY DEF Wanted
<1> QED
  BY <1>1, <1>2, <1>3, <1>4, <1>5, PTL DEF Spec

-----------------------------------------------------------------------------
(* No credential is forgotten *)

(* The latest time at which a credential has to be looked at.              *)
Bound(r) == IF NextCheck(r, 0) >= Interval THEN NextCheck(r, 0) ELSE Interval
Good(r, t) == IF r.on THEN t <= Bound(r) ELSE t = Never

(* The turn of the loop has a still before it.                             *)
Out(a) == \/ loop.pc \in {"due", "pend", "send", "apply"} /\ a \in loop.batch
          \/ loop.pc = "pend" /\ a = loop.cur

(* The inductive invariant: marks are not left without a token, and every  *)
(* credential without a mark is in the heap for a good time, or is before  *)
(* the loop in this turn.                                                  *)
Scheduled ==
  /\ loop.pc = "off" => dirty = {}
  /\ dirty # {} => wake \/ ToWake \/ loop.pc = "drain"
  /\ \A a \in Auths \ dirty : ~ToMark(a) =>
       /\ loop.pc = "fill" => Good(auth[a], loop.read[a])
       /\ loop.pc \notin {"off", "rebuild", "fill"} => Out(a) \/ Good(auth[a], heap[a])
  /\ loop.pc = "select" =>
       \A a \in Auths : heap[a] # Never =>
         timer <= (IF heap[a] >= 0 THEN heap[a] ELSE 0) + MaxLag

(* What NextCheck returns is good, whatever the lag of the clock.          *)
LEMMA GoodNext ==
  ASSUME NEW r \in Record, NEW lag \in 0..MaxLag
  PROVE  Good(r, NextCheck(r, lag)) /\ (r.on => Good(r, Interval - lag))
<1>1. r.nra \in Times /\ r.due \in Times /\ r.on \in BOOLEAN
  BY DEF Record
<1>2. 0 \in 0..MaxLag
  BY RefreshAssumption
<1>3. CASE ~r.on
  BY <1>3, NextCheckType DEF Good
<1>4. CASE r.on
  <2>1. /\ NextCheck(r, 0) = IF r.nra > 0 THEN r.nra ELSE IF r.due >= 0 THEN r.due ELSE 0
        /\ NextCheck(r, lag) = IF r.nra > -lag THEN r.nra
                               ELSE IF r.due >= -lag THEN r.due ELSE -lag
    BY <1>2, <1>4, NextCheckType
  <2>2. NextCheck(r, lag) <= Bound(r) /\ Interval - lag <= Bound(r)
    BY <1>1, <2>1, TimeRange, RefreshAssumption DEF Bound
  <2> QED
    BY <1>4, <2>2 DEF Good
<1> QED
  BY <1>3, <1>4

(* Only whether it is enabled and its times matter.                        *)
LEMMA GoodSame ==
  ASSUME NEW r, NEW q, NEW t, r.on = q.on, r.due = q.due, r.nra = q.nra, Good(r, t)
  PROVE  Good(q, t)
BY DEF Good, Bound, NextCheck

(* A time that is good stays so as time passes.                            *)
LEMMA GoodTick ==
  ASSUME NEW r \in Record, NEW t \in Times \cup {Never}, Good(r, t),
         NEW q \in Record, q.on = r.on,
         q.due = Sooner(r.due, -MaxLag), q.nra = Sooner(r.nra, -MaxLag)
  PROVE  Good(q, IF t = Never THEN Never ELSE Sooner(t, 0))
<1>1. r.nra \in Times /\ r.due \in Times /\ r.on \in BOOLEAN /\ 0 \in 0..MaxLag
  BY RefreshAssumption DEF Record
<1>2. CASE ~r.on
  BY <1>2 DEF Good
<1>3. CASE r.on
  <2>1. /\ NextCheck(r, 0) = IF r.nra > 0 THEN r.nra ELSE IF r.due >= 0 THEN r.due ELSE 0
        /\ NextCheck(q, 0) = IF q.nra > 0 THEN q.nra ELSE IF q.due >= 0 THEN q.due ELSE 0
    <3>1. \A x \in Record : x.on =>
            NextCheck(x, 0) = IF x.nra > 0 THEN x.nra ELSE IF x.due >= 0 THEN x.due ELSE 0
      BY <1>1, NextCheckType
    <3> QED
      BY <1>3, <3>1
  <2>2. t <= Bound(r) /\ t \in Times /\ t # Never
    <3>1. t <= Bound(r)
      BY <1>3 DEF Good
    <3>2. Bound(r) <= Top /\ Top < Never
      BY <1>1, <2>1, TimeRange, RefreshAssumption DEF Bound
    <3> QED
      BY <1>1, <2>1, <3>1, <3>2, TimeRange, RefreshAssumption DEF Bound
  <2>3. /\ q.nra = IF r.nra > 1 \/ loop.pc = "send"
                   THEN IF r.nra - 1 >= -MaxLag THEN r.nra - 1 ELSE -MaxLag
                   ELSE -MaxLag
        /\ q.due = IF r.due > 1 \/ loop.pc = "send"
                   THEN IF r.due - 1 >= -MaxLag THEN r.due - 1 ELSE -MaxLag
                   ELSE -MaxLag
        /\ Sooner(t, 0) = IF t > 1 \/ loop.pc = "send"
                          THEN IF t - 1 >= -MaxLag THEN t - 1 ELSE -MaxLag
                          ELSE 0
    BY <1>1, <2>2, SoonerType
  <2>4. Sooner(t, 0) <= Bound(q)
    <3>1. /\ MaxLag \in Nat /\ Interval \in Nat /\ Interval > 0
          /\ t \in Int /\ r.nra \in Int /\ r.due \in Int
      BY <1>1, <2>2, TimeRange, RefreshAssumption
    <3>2. NextCheck(r, 0) \in Int /\ NextCheck(q, 0) \in Int
      BY <1>1, <2>1, <2>3, <3>1
    <3>3. CASE t > 1 \/ loop.pc = "send"
      <4>1. NextCheck(q, 0) >= NextCheck(r, 0) - 1
        BY ONLY <2>1, <2>3, <3>1
      <4>2. Sooner(t, 0) = IF t - 1 >= -MaxLag THEN t - 1 ELSE -MaxLag
        BY <2>3, <3>3
      <4>3. t <= IF NextCheck(r, 0) >= Interval THEN NextCheck(r, 0) ELSE Interval
        BY <2>2 DEF Bound
      <4>4. Sooner(t, 0) <= IF NextCheck(q, 0) >= Interval THEN NextCheck(q, 0) ELSE Interval
        BY ONLY <3>1, <3>2, <4>1, <4>2, <4>3
      <4> QED
        BY <4>4 DEF Bound
    <3>4. CASE ~ (t > 1 \/ loop.pc = "send")
      <4>1. Sooner(t, 0) = 0
        BY <2>3, <3>4
      <4> QED
        BY <3>1, <3>2, <4>1 DEF Bound
    <3> QED
      BY <3>3, <3>4
  <2> QED
    BY <1>3, <2>2, <2>4 DEF Good
<1> QED
  BY <1>2, <1>3

(* Steps of the workers and of the service: whoever has changed a record   *)
(* is about to mark it.                                                    *)
LEMMA ScheduledOthers ==
  ASSUME TypeInv, Scheduled, loop' = loop, heap' = heap, timer' = timer,
         dirty \subseteq dirty', dirty' \subseteq Auths,
         loop.pc = "off" => dirty' = dirty,
         dirty' # {} => wake' \/ ToWake' \/ loop.pc = "drain",
         \A a \in Auths \ dirty' : ~ToMark(a)' /\ loop.pc # "off" =>
           /\ ~ToMark(a)
           /\ auth'[a].on = auth[a].on /\ auth'[a].due = auth[a].due
           /\ auth'[a].nra = auth[a].nra
  PROVE  Scheduled'
<1>1. ASSUME NEW a \in Auths \ dirty', ~ToMark(a)'
      PROVE  /\ loop'.pc = "fill" => Good(auth'[a], loop'.read[a])
             /\ loop'.pc \notin {"off", "rebuild", "fill"} => Out(a)' \/ Good(auth'[a], heap'[a])
  <2>1. CASE loop.pc = "off"
    BY <2>1
  <2>2. CASE loop.pc # "off"
    <3>1. a \in Auths \ dirty /\ ~ToMark(a)
      BY <1>1, <2>2
    <3>2. /\ loop.pc = "fill" => Good(auth[a], loop.read[a])
          /\ loop.pc \notin {"off", "rebuild", "fill"} => Out(a) \/ Good(auth[a], heap[a])
      BY <3>1 DEF Scheduled
    <3>3. \A t : Good(auth[a], t) => Good(auth'[a], t)
      BY <1>1, <2>2, GoodSame
    <3>4. Out(a) => Out(a)'
      BY DEF Out
    <3> QED
      BY <3>2, <3>3, <3>4
  <2> QED
    BY <2>1, <2>2
<1> QED
  BY <1>1 DEF Scheduled

(* Steps of the loop.                                                      *)
LEMMA ScheduledLoop ==
  ASSUME TypeInv, Scheduled, LoopStep
  PROVE  Scheduled'
<1>0. /\ loop \in LoopType /\ loop.lag \in 0..MaxLag /\ loop.batch \subseteq Auths
      /\ auth \in [Auths -> Record] /\ heap \in Heap /\ dirty \subseteq Auths
      /\ 0 \in 0..MaxLag
  BY RefreshAssumption DEF TypeInv, Types, LoopType
<1>1. /\ wk' = wk /\ op' = op /\ ToWake' = ToWake
      /\ \A a \in Auths : ToMark(a)' = ToMark(a)
  <2>1. wk' = wk /\ op' = op
    BY DEF LoopStep, Publish, RebuildRead, RebuildFill, LoopWakes, LoopDue, HandleDue,
           MarkPending, SendJob, DrainDirty, ApplyDirty, loopElse
  <2> QED
    BY <2>1 DEF ToWake, ToMark
<1>2. CASE Publish
  <2>1. loop'.pc = "rebuild" /\ dirty' = {} /\ dirty = {}
    BY <1>0, <1>2 DEF Publish, Scheduled, LoopType
  <2> QED
    BY <2>1 DEF Scheduled
<1>3. CASE RebuildRead
  <2>1. /\ loop'.pc = "fill" /\ loop.pc = "rebuild"
        /\ \A a \in Auths : loop'.read[a] = NextCheck(auth[a], 0)
        /\ UNCHANGED <<auth, heap, dirty, wake>>
    BY <1>0, <1>3 DEF RebuildRead, LoopType
  <2>2. \A a \in Auths : Good(auth'[a], loop'.read[a])
    BY <1>0, <2>1, GoodNext
  <2>3. dirty' # {} => wake' \/ ToWake'
    BY <1>1, <2>1 DEF Scheduled
  <2> QED
    BY <2>1, <2>2, <2>3 DEF Scheduled
<1>4. CASE RebuildFill
  <2>1. /\ loop'.pc = "select" /\ loop.pc = "fill" /\ ResetTimer(0)
        /\ heap' = loop.read /\ heap' \in Heap
        /\ UNCHANGED <<auth, dirty, wake>>
    BY <1>0, <1>4 DEF RebuildFill, LoopType
  <2>2. \A a \in Auths : heap'[a] # Never =>
          timer' <= (IF heap'[a] >= 0 THEN heap'[a] ELSE 0) + MaxLag
    BY <1>0, <2>1, ResetTimerType
  <2>3. dirty' # {} => wake' \/ ToWake'
    BY <1>1, <2>1 DEF Scheduled
  <2>4. \A a \in Auths \ dirty' : ~ToMark(a)' => Good(auth'[a], heap'[a])
    BY <1>1, <2>1 DEF Scheduled
  <2> QED
    BY <2>1, <2>2, <2>3, <2>4 DEF Scheduled
<1>5. CASE LoopWakes
  <2>1. /\ loop'.pc = "drain" /\ loop.pc = "select"
        /\ UNCHANGED <<auth, heap, dirty>>
    BY <1>0, <1>5 DEF LoopWakes, LoopType
  <2>2. \A a \in Auths : ~Out(a)
    BY <2>1 DEF Out
  <2> QED
    BY <1>1, <2>1, <2>2 DEF Scheduled
<1>6. CASE LoopDue
  <2>1. /\ loop'.pc = "due" /\ loop.pc = "select"
        /\ loop'.batch = {a \in Auths : heap[a] <= 0}
        /\ \A a \in Auths : ~(heap[a] <= 0) => heap'[a] = heap[a]
        /\ UNCHANGED <<auth, dirty, wake>>
    BY <1>0, <1>6 DEF LoopDue, LoopType
  <2>2. \A a \in Auths : ~Out(a)
    BY <2>1 DEF Out
  <2>3. \A a \in Auths : heap[a] <= 0 => Out(a)'
    BY <2>1 DEF Out
  <2>4. dirty' # {} => wake' \/ ToWake'
    BY <1>1, <2>1 DEF Scheduled
  <2>5. \A a \in Auths \ dirty' : ~ToMark(a)' => Out(a)' \/ Good(auth'[a], heap'[a])
    BY <1>1, <2>1, <2>2, <2>3 DEF Scheduled
  <2> QED
    BY <2>1, <2>4, <2>5 DEF Scheduled
<1>7. ASSUME NEW a \in Auths, HandleDue(a) PROVE Scheduled'
  <2>1. loop.pc = "due" /\ UNCHANGED <<auth, dirty, wake>>
    BY <1>7 DEF HandleDue
  <2>2. \/ /\ loop' = [loop EXCEPT !.pc = "pend", !.cur = a, !.batch = @ \ {a}]
           /\ heap' = heap
        \/ /\ loop' = [loop EXCEPT !.batch = @ \ {a}]
           /\ \/ auth[a].on /\ heap' = [heap EXCEPT ![a] = Interval - loop.lag]
              \/ heap' = [heap EXCEPT ![a] = NextCheck(auth[a], loop.lag)]
    BY <1>7 DEF HandleDue
  <2>3. loop'.pc \in {"due", "pend"} /\ \A b \in Auths : b # a /\ Out(b) => Out(b)'
    <3>1. loop'.pc \in {"due", "pend"} /\ loop'.batch = loop.batch \ {a}
      BY <1>0, <2>1, <2>2 DEF LoopType
    <3> QED
      BY <2>1, <3>1 DEF Out
  <2>4. \A b \in Auths : b # a => heap'[b] = heap[b]
    BY <1>0, <2>2 DEF Heap
  <2>5. Out(a)' \/ Good(auth'[a], heap'[a])
    <3>1. CASE loop' = [loop EXCEPT !.pc = "pend", !.cur = a, !.batch = @ \ {a}]
      <4>1. loop'.pc = "pend" /\ loop'.cur = a
        BY <1>0, <3>1 DEF LoopType
      <4> QED
        BY <4>1 DEF Out
    <3>2. CASE auth[a].on /\ heap' = [heap EXCEPT ![a] = Interval - loop.lag]
      BY <1>0, <2>1, <3>2, GoodNext DEF Heap
    <3>3. CASE heap' = [heap EXCEPT ![a] = NextCheck(auth[a], loop.lag)]
      BY <1>0, <2>1, <3>3, GoodNext DEF Heap
    <3> QED
      BY <2>2, <3>1, <3>2, <3>3
  <2>6. dirty' # {} => wake' \/ ToWake'
    BY <1>1, <2>1 DEF Scheduled
  <2>7. ASSUME NEW b \in Auths \ dirty', ~ToMark(b)' PROVE Out(b)' \/ Good(auth'[b], heap'[b])
    BY <1>1, <2>1, <2>3, <2>4, <2>5, <2>7 DEF Scheduled
  <2> QED
    BY <2>3, <2>6, <2>7 DEF Scheduled
<1>8. CASE MarkPending
  <2>0. loop.pc = "pend" /\ loop.cur \in Auths
    BY <1>8 DEF MarkPending, TypeInv, Types
  <2>1. CASE loop' = [loop EXCEPT !.pc = "send"] /\ dirty' = dirty \cup {loop.cur} /\ wake' = TRUE
             /\ heap' = heap /\ auth' = [auth EXCEPT ![loop.cur].nra = Pending - loop.lag]
    <3>1. loop'.pc = "send" /\ loop'.batch = loop.batch
      BY <1>0, <2>1 DEF LoopType
    <3>2. \A b \in Auths : b # loop.cur => auth'[b] = auth[b]
      BY <1>0, <2>1
    <3>3. ASSUME NEW b \in Auths \ dirty', ~ToMark(b)'
          PROVE  Out(b)' \/ Good(auth'[b], heap'[b])
      <4>1. b \in Auths \ dirty /\ ~ToMark(b) /\ b # loop.cur
        BY <1>1, <2>1, <3>3
      <4>2. Out(b) => Out(b)'
        BY <2>0, <3>1, <4>1 DEF Out
      <4>3. Out(b) \/ Good(auth[b], heap[b])
        BY <2>0, <4>1 DEF Scheduled
      <4> QED
        BY <2>1, <3>2, <4>1, <4>2, <4>3
    <3> QED
      BY <2>1, <3>1, <3>3 DEF Scheduled
  <2>2. CASE loop' = [loop EXCEPT !.pc = "due", !.cur = None] /\ UNCHANGED <<auth, dirty, wake>>
             /\ heap' = [heap EXCEPT ![loop.cur] = NextCheck(auth[loop.cur], loop.lag)]
    <3>1. loop'.pc = "due" /\ loop'.batch = loop.batch
      BY <1>0, <2>2 DEF LoopType
    <3>2. \A b \in Auths : b # loop.cur => heap'[b] = heap[b]
      BY <1>0, <2>2 DEF Heap
    <3>3. Good(auth'[loop.cur], heap'[loop.cur])
      BY <1>0, <2>0, <2>2, GoodNext DEF Heap
    <3>4. ASSUME NEW b \in Auths \ dirty', ~ToMark(b)'
          PROVE  Out(b)' \/ Good(auth'[b], heap'[b])
      <4>1. b # loop.cur /\ Out(b) => Out(b)'
        BY <2>0, <3>1 DEF Out
      <4>2. Out(b) \/ Good(auth[b], heap[b])
        BY <1>1, <2>0, <2>2, <3>4 DEF Scheduled
      <4> QED
        BY <2>2, <3>2, <3>3, <4>1, <4>2
    <3>5. dirty' # {} => wake' \/ ToWake'
      BY <1>1, <2>0, <2>2 DEF Scheduled
    <3> QED
      BY <3>1, <3>4, <3>5 DEF Scheduled
  <2> QED
    BY <1>8, <2>1, <2>2 DEF MarkPending
<1>9. CASE SendJob
  <2>1. loop.pc = "send" /\ loop'.pc = "due" /\ loop'.batch = loop.batch
        /\ UNCHANGED <<auth, heap, dirty, wake>>
    BY <1>0, <1>9 DEF SendJob, LoopType
  <2>2. \A b \in Auths : Out(b) => Out(b)'
    BY <2>1 DEF Out
  <2> QED
    BY <1>1, <2>1, <2>2 DEF Scheduled
<1>10. CASE DrainDirty
  <2>1. /\ loop.pc = "drain" \/ (loop.pc = "due" /\ loop.batch = {})
        /\ loop'.pc = "apply" /\ loop'.batch = dirty /\ dirty' = {}
        /\ UNCHANGED <<auth, heap>>
    BY <1>0, <1>10 DEF DrainDirty, LoopType
  <2>2. \A b \in Auths : ~Out(b) /\ (b \in dirty => Out(b)')
    BY <2>1 DEF Out
  <2> QED
    BY <1>1, <2>1, <2>2 DEF Scheduled
<1>11. CASE ApplyDirty
  <2>1. loop.pc = "apply" /\ UNCHANGED <<auth, dirty, wake>>
    BY <1>11 DEF ApplyDirty
  <2>2. dirty' # {} => wake' \/ ToWake'
    BY <1>1, <2>1 DEF Scheduled
  <2>3. CASE loop.batch = {}
    <3>1. loop' = [loop EXCEPT !.pc = "select", !.lag = 0] /\ heap' = heap /\ ResetTimer(loop.lag)
      BY <1>11, <2>3 DEF ApplyDirty
    <3>2. loop'.pc = "select"
      BY <1>0, <3>1 DEF LoopType
    <3>3. \A a \in Auths : ~Out(a)
      BY <2>1, <2>3 DEF Out
    <3>4. \A a \in Auths : heap'[a] # Never =>
            timer' <= (IF heap'[a] >= 0 THEN heap'[a] ELSE 0) + MaxLag
      <4>1. heap' \in Heap
        BY <1>0, <3>1
      <4> QED
        BY <1>0, <3>1, <4>1, ResetTimerType
    <3>5. \A a \in Auths \ dirty' : ~ToMark(a)' => Good(auth'[a], heap'[a])
      BY <1>1, <2>1, <3>1, <3>3 DEF Scheduled
    <3> QED
      BY <2>2, <3>2, <3>4, <3>5 DEF Scheduled
  <2>4. CASE loop.batch # {}
    <3>1. PICK a \in loop.batch :
            /\ loop' = [loop EXCEPT !.batch = @ \ {a}]
            /\ heap' = [heap EXCEPT ![a] = NextCheck(auth[a], loop.lag)]
      BY <1>11, <2>4 DEF ApplyDirty
    <3>2. loop'.pc = "apply" /\ loop'.batch = loop.batch \ {a} /\ a \in Auths
      BY <1>0, <2>1, <3>1 DEF LoopType
    <3>3. \A b \in Auths : b # a => heap'[b] = heap[b]
      BY <1>0, <3>1 DEF Heap
    <3>4. Good(auth'[a], heap'[a])
      BY <1>0, <2>1, <3>1, <3>2, GoodNext DEF Heap
    <3>5. ASSUME NEW b \in Auths \ dirty', ~ToMark(b)'
          PROVE  Out(b)' \/ Good(auth'[b], heap'[b])
      <4>1. b # a /\ Out(b) => Out(b)'
        BY <2>1, <3>2 DEF Out
      <4>2. Out(b) \/ Good(auth[b], heap[b])
        BY <1>1, <2>1, <3>5 DEF Scheduled
      <4> QED
        BY <2>1, <3>3, <3>4, <4>1, <4>2
    <3> QED
      BY <2>2, <3>2, <3>5 DEF Scheduled
  <2> QED
    BY <2>3, <2>4
<1> QED
  BY <1>2, <1>3, <1>4, <1>5, <1>6, <1>7, <1>8, <1>9, <1>10, <1>11 DEF LoopStep

(* Steps of a worker.                                                      *)
LEMMA ScheduledWorker ==
  ASSUME TypeInv, Scheduled, NEW w \in Workers, WorkerStep(w)
  PROVE  Scheduled'
<1>0. /\ auth \in [Auths -> Record] /\ wk \in [Workers -> WorkType] /\ dirty \subseteq Auths
      /\ wk[w].pc # "idle" => wk[w].auth \in Auths
  BY DEF TypeInv, Types
<1>1. loop' = loop /\ heap' = heap /\ timer' = timer /\ op' = op
  BY DEF WorkerStep, TakeJob, RefreshFails, RefreshSucceeds, WorkerMarks, workElse
<1>2. CASE TakeJob(w)
  <2>1. wk' = [wk EXCEPT ![w] = [pc |-> "call", auth |-> Head(jobs), on |-> auth[Head(jobs)].on]]
        /\ UNCHANGED <<auth, dirty, wake>> /\ wk[w].pc = "idle"
    BY <1>2 DEF TakeJob
  <2>2. wk'[w].pc = "call" /\ \A v \in Workers : v # w => wk'[v] = wk[v]
    BY <1>0, <2>1
  <2>3. ToWake' = ToWake /\ \A a \in Auths : ToMark(a)' = ToMark(a)
    BY <1>1, <2>1, <2>2 DEF ToWake, ToMark
  <2>4. dirty' # {} => wake' \/ ToWake' \/ loop.pc = "drain"
    BY <2>1, <2>3 DEF Scheduled
  <2> QED
    BY <1>0, <1>1, <2>1, <2>3, <2>4, ScheduledOthers
<1>3. CASE RefreshFails(w) \/ RefreshSucceeds(w)
  <2>1. wk[w].pc = "call" /\ UNCHANGED <<dirty, wake>>
    BY <1>3 DEF RefreshFails, RefreshSucceeds
  <2>2. \A b \in Auths : b # wk[w].auth => auth'[b] = auth[b]
    BY <1>0, <1>3, <2>1 DEF RefreshFails, RefreshSucceeds
  <2>3. /\ wk'[w].pc = "mark" /\ wk'[w].auth = wk[w].auth
        /\ \A v \in Workers : v # w => wk'[v] = wk[v]
    <3>1. wk' = [wk EXCEPT ![w].pc = "mark", ![w].on = FALSE]
      BY <1>3 DEF RefreshFails, RefreshSucceeds
    <3> QED
      BY <1>0, <3>1 DEF WorkType
  <2>4. ToWake => ToWake'
    BY <1>1, <2>1, <2>3 DEF ToWake
  <2>5. \A a \in Auths : ~ToMark(a)' => ~ToMark(a) /\ a # wk[w].auth
    BY <1>1, <2>1, <2>3 DEF ToMark
  <2>6. dirty' # {} => wake' \/ ToWake' \/ loop.pc = "drain"
    BY <2>1, <2>4 DEF Scheduled
  <2>7. \A a \in Auths \ dirty' : ~ToMark(a)' =>
          ~ToMark(a) /\ auth'[a].on = auth[a].on /\ auth'[a].due = auth[a].due
          /\ auth'[a].nra = auth[a].nra
    BY <2>2, <2>5
  <2> QED
    BY <1>0, <1>1, <2>1, <2>6, <2>7, ScheduledOthers
<1>4. CASE WorkerMarks(w)
  <2>1. CASE wk[w].pc = "mark"
    <3>1. /\ dirty' = Marked(wk[w].auth) /\ UNCHANGED <<auth, wake>> /\ wk[w].auth \in Auths
          /\ wk' = [wk EXCEPT ![w] = [@ EXCEPT !.pc = "wake"]]
      BY <1>0, <1>4, <2>1 DEF WorkerMarks
    <3>2. wk'[w].pc = "wake" /\ \A v \in Workers : v # w => wk'[v] = wk[v]
      BY <1>0, <3>1 DEF WorkType
    <3>3. ToWake'
      BY <3>2 DEF ToWake
    <3>4. \A a \in Auths : ~ToMark(a)' => ~ToMark(a) \/ a = wk[w].auth
      BY <1>1, <2>1, <3>2 DEF ToMark
    <3>5. loop.pc # "off" => wk[w].auth \in dirty'
      BY <3>1 DEF Marked
    <3>6. dirty \subseteq dirty' /\ dirty' \subseteq Auths /\ (loop.pc = "off" => dirty' = dirty)
      BY <1>0, <3>1 DEF Marked
    <3>7. \A a \in Auths \ dirty' : ~ToMark(a)' /\ loop.pc # "off" => ~ToMark(a)
      BY <3>4, <3>5
    <3> QED
      BY <1>1, <3>1, <3>3, <3>6, <3>7, ScheduledOthers
  <2>2. CASE wk[w].pc = "wake"
    <3>1. /\ wake' = Awake /\ UNCHANGED <<auth, dirty>>
          /\ wk' = [wk EXCEPT ![w] = Idle]
      BY <1>4, <2>2 DEF WorkerMarks
    <3>2. wk'[w].pc = "idle" /\ \A v \in Workers : v # w => wk'[v] = wk[v]
      BY <1>0, <3>1 DEF Idle
    <3>3. \A a \in Auths : ~ToMark(a)' => ~ToMark(a)
      BY <1>1, <2>2, <3>2 DEF ToMark
    <3>4. dirty' # {} => wake'
      BY <3>1 DEF Awake, Scheduled
    <3> QED
      BY <1>0, <1>1, <3>1, <3>3, <3>4, ScheduledOthers
  <2> QED
    BY <1>4, <2>1, <2>2 DEF WorkerMarks
<1> QED
  BY <1>2, <1>3, <1>4 DEF WorkerStep

(* Steps of the service.                                                   *)
LEMMA ScheduledService ==
  ASSUME TypeInv, Scheduled, OpStep
  PROVE  Scheduled'
<1>0. /\ auth \in [Auths -> Record] /\ op \in OpType /\ dirty \subseteq Auths
      /\ op.pc # "idle" => op.auth \in Auths
  BY DEF TypeInv, Types
<1>1. loop' = loop /\ heap' = heap /\ timer' = timer /\ wk' = wk
  BY DEF OpStep, OpRead, OpRegister, OpWrite, OpMarks, opElse
<1>2. ASSUME NEW a \in Auths, OpRead(a) \/ OpRegister(a) PROVE Scheduled'
  <2>1. op.pc = "idle" /\ op'.pc = "write" /\ UNCHANGED <<dirty, wake>>
    BY <1>2 DEF OpRead, OpRegister
  <2>2. \A b \in Auths : auth'[b].on = auth[b].on /\ auth'[b].due = auth[b].due
                         /\ auth'[b].nra = auth[b].nra
    <3>1. \/ auth' = auth
          \/ \E on \in BOOLEAN, others \in SUBSET Auths :
               auth' = [b \in Auths |-> [auth[b] EXCEPT !.exec = @ \/ (on /\ b \in others \cup {a})]]
      BY <1>2 DEF OpRead, OpRegister
    <3> QED
      BY <1>0, <3>1 DEF Record
  <2>3. ToWake' = ToWake /\ \A b \in Auths : ToMark(b)' = ToMark(b)
    BY <1>1, <2>1 DEF ToWake, ToMark
  <2>4. dirty' # {} => wake' \/ ToWake' \/ loop.pc = "drain"
    BY <2>1, <2>3 DEF Scheduled
  <2> QED
    BY <1>0, <1>1, <2>1, <2>2, <2>3, <2>4, ScheduledOthers
<1>3. CASE OpWrite
  <2>1. op.pc = "write" /\ op.auth \in Auths /\ UNCHANGED <<dirty, wake>>
    BY <1>0, <1>3 DEF OpWrite
  <2>2. op'.pc = "mark" /\ op'.auth = op.auth
    BY <1>0, <1>3 DEF OpWrite, OpType
  <2>3. \A b \in Auths : b # op.auth => auth'[b] = auth[b]
    BY <1>0, <1>3 DEF OpWrite
  <2>4. \A b \in Auths : ~ToMark(b)' => ~ToMark(b) /\ b # op.auth
    BY <1>1, <2>1, <2>2 DEF ToMark
  <2>5. ToWake => ToWake'
    BY <1>1, <2>1 DEF ToWake
  <2>6. dirty' # {} => wake' \/ ToWake' \/ loop.pc = "drain"
    BY <2>1, <2>5 DEF Scheduled
  <2> QED
    BY <1>0, <1>1, <2>1, <2>3, <2>4, <2>6, ScheduledOthers
<1>4. CASE OpMarks
  <2>1. CASE op.pc = "mark"
    <3>1. /\ dirty' = Marked(op.auth) /\ UNCHANGED <<auth, wake>> /\ op.auth \in Auths
          /\ op' = [op EXCEPT !.pc = "wake"]
      BY <1>0, <1>4, <2>1 DEF OpMarks
    <3>2. op'.pc = "wake"
      BY <1>0, <3>1 DEF OpType
    <3>3. ToWake'
      BY <3>2 DEF ToWake
    <3>4. \A a \in Auths : ~ToMark(a)' => ~ToMark(a) \/ a = op.auth
      BY <1>1 DEF ToMark
    <3>5. loop.pc # "off" => op.auth \in dirty'
      BY <3>1 DEF Marked
    <3>6. dirty \subseteq dirty' /\ dirty' \subseteq Auths /\ (loop.pc = "off" => dirty' = dirty)
      BY <1>0, <3>1 DEF Marked
    <3>7. \A a \in Auths \ dirty' : ~ToMark(a)' /\ loop.pc # "off" => ~ToMark(a)
      BY <3>4, <3>5
    <3> QED
      BY <1>1, <3>1, <3>3, <3>6, <3>7, ScheduledOthers
  <2>2. CASE op.pc = "wake"
    <3>1. /\ wake' = Awake /\ UNCHANGED <<auth, dirty>>
          /\ op' = [op EXCEPT !.pc = "idle", !.auth = None]
      BY <1>4, <2>2 DEF OpMarks
    <3>2. op'.pc = "idle"
      BY <1>0, <3>1 DEF OpType
    <3>3. \A a \in Auths : ~ToMark(a)' => ~ToMark(a)
      BY <1>1, <2>2, <3>2 DEF ToMark
    <3>4. dirty' # {} => wake'
      BY <3>1 DEF Awake, Scheduled
    <3> QED
      BY <1>0, <1>1, <3>1, <3>3, <3>4, ScheduledOthers
  <2> QED
    BY <1>4, <2>1, <2>2 DEF OpMarks
<1> QED
  BY <1>2, <1>3, <1>4, RefreshAssumption DEF OpStep

(* A tick of the clock.                                                    *)
LEMMA ScheduledTick ==
  ASSUME TypeInv, Scheduled, Tick
  PROVE  Scheduled'
<1>0. /\ auth \in [Auths -> Record] /\ loop \in LoopType /\ heap \in Heap
      /\ timer \in 0..(Top + MaxLag) \cup {Never} /\ auth' \in [Auths -> Record]
  BY TypesTick DEF TypeInv, Types
<1>1. /\ loop.pc \in {"off", "select", "send"}
      /\ loop'.pc = loop.pc /\ loop'.batch = loop.batch
      /\ UNCHANGED <<dirty, wake, wk, op>>
  BY <1>0 DEF Tick, LoopWaits, LoopType
<1>2. ToWake' = ToWake /\ \A a \in Auths : ToMark(a)' = ToMark(a) /\ (Out(a)' = Out(a))
  BY <1>1 DEF ToWake, ToMark, Out
<1>3. \A a \in Auths : Good(auth[a], heap[a]) => Good(auth'[a], heap'[a])
  <2> SUFFICES ASSUME NEW a \in Auths, Good(auth[a], heap[a]) PROVE Good(auth'[a], heap'[a])
    OBVIOUS
  <2>1. /\ auth'[a].on = auth[a].on
        /\ auth'[a].due = Sooner(auth[a].due, -MaxLag)
        /\ auth'[a].nra = Sooner(auth[a].nra, -MaxLag)
    BY <1>0 DEF Tick, Record
  <2>2. heap'[a] = IF heap[a] = Never THEN Never ELSE Sooner(heap[a], 0)
    BY DEF Tick
  <2>3. auth[a] \in Record /\ auth'[a] \in Record /\ heap[a] \in Times \cup {Never}
    BY <1>0 DEF Heap
  <2> QED
    BY <2>1, <2>2, <2>3, GoodTick
<1>4. ASSUME loop.pc = "select", NEW a \in Auths, heap'[a] # Never
      PROVE  timer' <= (IF heap'[a] >= 0 THEN heap'[a] ELSE 0) + MaxLag
  <2>1. heap[a] \in Times /\ heap'[a] = Sooner(heap[a], 0)
    BY <1>0, <1>4 DEF Tick, Heap
  <2>2. timer <= (IF heap[a] >= 0 THEN heap[a] ELSE 0) + MaxLag
    BY <1>4, <2>1, TimeRange, RefreshAssumption DEF Scheduled
  <2>3. timer # Never /\ timer \in Nat
    BY <1>0, <2>1, <2>2, TimeRange, RefreshAssumption
  <2>4. timer' = IF timer - 1 >= 0 THEN timer - 1 ELSE 0
    <3>1. Max({timer - 1, 0}) = IF timer - 1 >= 0 THEN timer - 1 ELSE 0
      BY <2>3, MaxOfTwo
    <3>2. timer' = Max({timer - 1, 0})
      BY <2>3 DEF Tick
    <3> QED
      BY <3>1, <3>2
  <2>5. Sooner(heap[a], 0) = IF heap[a] > 1 THEN IF heap[a] - 1 >= -MaxLag THEN heap[a] - 1 ELSE -MaxLag
                             ELSE 0
    BY <1>4, <2>1, SoonerType
  <2> QED
    BY <2>1, <2>2, <2>3, <2>4, <2>5, TimeRange, RefreshAssumption
<1>5. dirty' # {} => wake' \/ ToWake'
  BY <1>1, <1>2 DEF Scheduled
<1>6. loop'.pc = "off" => dirty' = {}
  BY <1>1 DEF Scheduled
<1>7. ASSUME NEW a \in Auths \ dirty', ~ToMark(a)', loop'.pc # "off"
      PROVE  Out(a)' \/ Good(auth'[a], heap'[a])
  BY <1>1, <1>2, <1>3, <1>7 DEF Scheduled
<1> QED
  BY <1>1, <1>4, <1>5, <1>6, <1>7 DEF Scheduled

(* While the loop sleeps, a mark is never left without a token or someone  *)
(* about to leave one; and every credential that is not marked, nor about  *)
(* to be, is in the heap for the time it has to be looked at, with the     *)
(* timer set for it: the loop does not sleep over a refresh that is due.   *)
THEOREM NothingForgotten == Spec => []SleepIsSafe
<1>1. Init => TypeInv
  BY TypesInit
<1>2. Init => Scheduled
  BY DEF Init, Scheduled
<1>3. TypeInv /\ [Next]_vars => TypeInv'
  BY TypesStep
<1>4. TypeInv /\ Scheduled /\ [Next]_vars => Scheduled'
  <2>1. ASSUME TypeInv, Scheduled, UNCHANGED vars PROVE Scheduled'
    BY <2>1 DEF vars, Scheduled, ToWake, ToMark, Out
  <2> QED
    BY <2>1, ScheduledLoop, ScheduledWorker, ScheduledService, ScheduledTick DEF Next
<1>5. TypeInv /\ Scheduled => SleepIsSafe
  <2> SUFFICES ASSUME TypeInv, Scheduled, loop.pc = "select" PROVE
        /\ dirty # {} => wake \/ ToWake
        /\ \A a \in Auths \ dirty : ~ToMark(a) =>
             IF auth[a].on
             THEN /\ heap[a] <= Max({NextCheck(auth[a], 0), Interval})
                  /\ timer <= Max({heap[a], 0}) + MaxLag
             ELSE heap[a] = Never
    BY DEF SleepIsSafe
  <2>1. dirty # {} => wake \/ ToWake
    BY DEF Scheduled
  <2>2. ASSUME NEW a \in Auths \ dirty, ~ToMark(a), auth[a].on
        PROVE  /\ heap[a] <= Max({NextCheck(auth[a], 0), Interval})
               /\ timer <= Max({heap[a], 0}) + MaxLag
    <3>1. Good(auth[a], heap[a])
      BY <2>2 DEF Scheduled, Out
    <3>2. heap[a] <= Bound(auth[a])
      BY <2>2, <3>1 DEF Good
    <3>3. 0 \in 0..MaxLag /\ auth[a] \in Record /\ heap[a] \in Times \cup {Never}
      BY RefreshAssumption DEF TypeInv, Types, Heap
    <3>4. NextCheck(auth[a], 0) \in Times
      BY <2>2, <3>3, NextCheckType
    <3>5. NextCheck(auth[a], 0) \in Int /\ Interval \in Int /\ heap[a] \in Int /\ 0 \in Int
      BY <3>3, <3>4, TimeRange, RefreshAssumption
    <3>6. Max({NextCheck(auth[a], 0), Interval}) = Bound(auth[a])
      BY <3>5, MaxOfTwo DEF Bound
    <3>7. heap[a] # Never
      BY <3>2, <3>4, TimeRange, RefreshAssumption DEF Bound
    <3>8. timer <= (IF heap[a] >= 0 THEN heap[a] ELSE 0) + MaxLag
      BY <3>7 DEF Scheduled
    <3>9. Max({heap[a], 0}) = IF heap[a] >= 0 THEN heap[a] ELSE 0
      BY <3>5, MaxOfTwo
    <3> QED
      BY <3>2, <3>6, <3>8, <3>9
  <2>3. ASSUME NEW a \in Auths \ dirty, ~ToMark(a), ~auth[a].on
        PROVE  heap[a] = Never
    BY <2>3 DEF Scheduled, Out, Good
  <2> QED
    BY <2>1, <2>2, <2>3
<1> QED
  BY <1>1, <1>2, <1>3, <1>4, <1>5, PTL DEF Spec

-----------------------------------------------------------------------------
(* Overlapping refreshes *)

(* The parts of Holders. *)
Queued(s, a) == {k \in DOMAIN s : s[k] = a}
Calling(f, a) == {w \in Workers : f[w].pc = "call" /\ f[w].auth = a}
Sending(l, a) == IF l.cur = a /\ l.pc = "send" THEN 1 ELSE 0
HoldersIn(s, f, l, a) == Cardinality(Queued(s, a)) + Cardinality(Calling(f, a)) + Sending(l, a)

(* They are finite.                                                        *)
LEMMA HolderParts ==
  ASSUME NEW s \in Seq(Auths), NEW f, NEW l, NEW a
  PROVE  /\ IsFiniteSet(Queued(s, a)) /\ Cardinality(Queued(s, a)) \in Nat
         /\ IsFiniteSet(Calling(f, a)) /\ Cardinality(Calling(f, a)) \in Nat
         /\ Sending(l, a) \in {0, 1}
         /\ HoldersIn(s, f, l, a) \in Nat
<1>1. IsFiniteSet(1..Len(s))
  BY FS_Interval
<1>2. Queued(s, a) \subseteq 1..Len(s) /\ Calling(f, a) \subseteq Workers
  BY DEF Queued, Calling
<1>3. IsFiniteSet(Queued(s, a)) /\ IsFiniteSet(Calling(f, a))
  BY <1>1, <1>2, FS_Subset, RefreshAssumption
<1>4. Cardinality(Queued(s, a)) \in Nat /\ Cardinality(Calling(f, a)) \in Nat
  BY <1>3, FS_CardinalityType
<1>5. Sending(l, a) \in {0, 1}
  BY DEF Sending
<1> QED
  BY <1>3, <1>4, <1>5 DEF HoldersIn

(* A job that is added.                                                    *)
LEMMA QueuedAppend ==
  ASSUME NEW s \in Seq(Auths), NEW c \in Auths, NEW a
  PROVE  Cardinality(Queued(Append(s, c), a)) =
           Cardinality(Queued(s, a)) + (IF c = a THEN 1 ELSE 0)
<1>1. /\ Append(s, c) \in Seq(Auths) /\ Len(Append(s, c)) = Len(s) + 1
      /\ \A k \in 1..Len(s) : Append(s, c)[k] = s[k]
      /\ Append(s, c)[Len(s) + 1] = c
  OBVIOUS
<1>2. Len(s) \in Nat /\ DOMAIN s = 1..Len(s) /\ DOMAIN Append(s, c) = 1..Len(s) + 1
  BY <1>1
<1>3. CASE c = a
  <2>1. Queued(Append(s, c), a) = Queued(s, a) \cup {Len(s) + 1}
    BY <1>1, <1>2, <1>3 DEF Queued
  <2>2. Len(s) + 1 \notin Queued(s, a)
    BY <1>2 DEF Queued
  <2> QED
    BY <1>3, <2>1, <2>2, HolderParts, FS_AddElement
<1>4. CASE c # a
  <2>1. Queued(Append(s, c), a) = Queued(s, a)
    BY <1>1, <1>2, <1>4 DEF Queued
  <2> QED
    BY <1>4, <2>1, HolderParts
<1> QED
  BY <1>3, <1>4

(* A job that is taken.                                                    *)
LEMMA QueuedTail ==
  ASSUME NEW s \in Seq(Auths), s # <<>>, NEW a
  PROVE  Cardinality(Queued(s, a)) =
           Cardinality(Queued(Tail(s), a)) + (IF Head(s) = a THEN 1 ELSE 0)
<1> DEFINE T == Queued(s, a) \ {1}
           f == [k \in T |-> k - 1]
<1>1. /\ Len(s) \in Nat \ {0} /\ Tail(s) \in Seq(Auths) /\ Len(Tail(s)) = Len(s) - 1
      /\ \A k \in 1..Len(s) - 1 : Tail(s)[k] = s[k + 1]
      /\ Head(s) = s[1]
  OBVIOUS
<1>2. DOMAIN s = 1..Len(s) /\ DOMAIN Tail(s) = 1..Len(s) - 1
  BY <1>1
<1>3. T = {k \in 2..Len(s) : s[k] = a}
  BY <1>1, <1>2 DEF Queued
<1>4. Queued(Tail(s), a) = {k \in 1..Len(s) - 1 : s[k + 1] = a}
  BY <1>1, <1>2 DEF Queued
<1>5. f \in [T -> Queued(Tail(s), a)]
  BY <1>1, <1>3, <1>4
<1>6. \A x, y \in T : f[x] = f[y] => x = y
  BY <1>1, <1>3
<1>7. ASSUME NEW y \in Queued(Tail(s), a) PROVE \E x \in T : f[x] = y
  <2>1. y + 1 \in T /\ f[y + 1] = y
    BY <1>1, <1>3, <1>4
  <2> QED
    BY <2>1
<1>8. f \in Bijection(T, Queued(Tail(s), a))
  BY <1>5, <1>6, <1>7 DEF Bijection, Injection, Surjection, IsInjective
<1> HIDE DEF f
<1>9. ExistsBijection(T, Queued(Tail(s), a))
  BY <1>8 DEF ExistsBijection
<1>10. IsFiniteSet(T) /\ Cardinality(T) = Cardinality(Queued(s, a)) - (IF Head(s) = a THEN 1 ELSE 0)
  <2>1. IsFiniteSet(Queued(s, a)) /\ Cardinality(Queued(s, a)) \in Nat
    BY HolderParts
  <2>2. 1 \in Queued(s, a) <=> Head(s) = a
    BY <1>1, <1>2 DEF Queued
  <2> QED
    BY <2>1, <2>2, FS_RemoveElement
<1> HIDE DEF T
<1>11. Cardinality(Queued(Tail(s), a)) = Cardinality(T)
  BY <1>9, <1>10, FS_Bijection
<1> QED
  BY <1>10, <1>11, HolderParts

(* A worker that begins or ends a refresh.                                 *)
LEMMA CallingBegins ==
  ASSUME NEW f, NEW g, NEW w \in Workers, NEW a,
         \A v \in Workers : v # w => g[v] = f[v],
         f[w].pc # "call"
  PROVE  Cardinality(Calling(g, a)) =
           Cardinality(Calling(f, a)) + (IF g[w].pc = "call" /\ g[w].auth = a THEN 1 ELSE 0)
<1>1. IsFiniteSet(Calling(f, a)) /\ Cardinality(Calling(f, a)) \in Nat
  <2>1. <<>> \in Seq(Auths)
    OBVIOUS
  <2> QED
    BY <2>1, HolderParts
<1>2. CASE g[w].pc = "call" /\ g[w].auth = a
  <2>1. Calling(g, a) = Calling(f, a) \cup {w} /\ w \notin Calling(f, a)
    BY <1>2 DEF Calling
  <2>2. Cardinality(Calling(f, a) \cup {w}) = Cardinality(Calling(f, a)) + 1
    BY ONLY <1>1, <2>1, FS_AddElement
  <2> QED
    BY <1>2, <2>1, <2>2
<1>3. CASE ~(g[w].pc = "call" /\ g[w].auth = a)
  <2>1. Calling(g, a) = Calling(f, a)
    BY <1>3 DEF Calling
  <2> QED
    BY <1>1, <1>3, <2>1
<1> QED
  BY <1>2, <1>3

(* The inductive invariant: without an excuse there is one refresh at      *)
(* most, and as long as there is one its backoff has not run out.          *)
Solo ==
  \A a \in Auths : ~excuse[a] => /\ Holders(a) <= 1
                                 /\ Holders(a) > 0 => auth[a].nra > 0

(* Holders in parts.                                                       *)
LEMMA HoldersAre ==
  ASSUME NEW a
  PROVE  Holders(a) = HoldersIn(jobs, wk, loop, a)
BY DEF Holders, HoldersIn, Queued, Calling, Sending

(* The same after a step.                                                  *)
LEMMA HoldersAfter ==
  ASSUME NEW a
  PROVE  Holders(a)' = HoldersIn(jobs', wk', loop', a)
BY DEF Holders, HoldersIn, Queued, Calling, Sending

(* Steps that neither begin nor end a refresh.                             *)
LEMMA SoloKept ==
  ASSUME Solo,
         \A a \in Auths : /\ Holders(a)' = Holders(a)
                          /\ excuse[a] => excuse'[a]
                          /\ auth'[a].nra = auth[a].nra
  PROVE  Solo'
BY DEF Solo

(* Steps of the loop.                                                      *)
LEMMA SoloLoop ==
  ASSUME TypeInv, TypeInv', Solo, LoopStep
  PROVE  Solo'
<1>0. /\ loop \in LoopType /\ loop.lag \in 0..MaxLag /\ loop' \in LoopType
      /\ auth \in [Auths -> Record] /\ jobs \in Seq(Auths)
      /\ excuse \in [Auths -> BOOLEAN]
  BY DEF TypeInv, Types, LoopType
<1>1. CASE SendJob
  <2>1. /\ jobs' = Append(jobs, loop.cur) /\ loop.pc = "send" /\ loop.cur \in Auths
        /\ loop'.pc = "due" /\ UNCHANGED <<auth, wk, excuse>>
    BY <1>0, <1>1 DEF SendJob, loopElse, TypeInv, Types, LoopType
  <2>2. ASSUME NEW a \in Auths PROVE Holders(a)' = Holders(a)
    <3>1. Cardinality(Queued(jobs', a)) =
            Cardinality(Queued(jobs, a)) + (IF loop.cur = a THEN 1 ELSE 0)
      BY <1>0, <2>1, QueuedAppend
    <3>2. Sending(loop, a) = (IF loop.cur = a THEN 1 ELSE 0) /\ Sending(loop', a) = 0
      BY <2>1 DEF Sending
    <3>3. Cardinality(Queued(jobs, a)) \in Nat /\ Cardinality(Calling(wk, a)) \in Nat /\ wk' = wk
      BY <1>0, <2>1, HolderParts
    <3> QED
      BY <3>1, <3>2, <3>3, HoldersAre, HoldersAfter DEF HoldersIn
  <2> QED
    BY <2>1, <2>2, SoloKept
<1>2. CASE MarkPending
  <2>0. loop.pc = "pend" /\ loop.cur \in Auths /\ UNCHANGED <<jobs, wk>>
    BY <1>2 DEF MarkPending, loopElse, TypeInv, Types
  <2>1. CASE /\ auth[loop.cur].nra <= -loop.lag
             /\ auth' = [auth EXCEPT ![loop.cur].nra = Pending - loop.lag]
             /\ loop' = [loop EXCEPT !.pc = "send"]
             /\ excuse' = [excuse EXCEPT ![loop.cur] = @ \/ Pending <= loop.lag]
    <3>1. loop'.pc = "send" /\ loop'.cur = loop.cur
      BY <1>0, <2>1 DEF LoopType
    <3>2. \A a \in Auths : a # loop.cur => auth'[a] = auth[a] /\ excuse'[a] = excuse[a]
      BY <1>0, <2>1
    <3>3. auth'[loop.cur].nra = Pending - loop.lag
      BY <1>0, <2>0, <2>1 DEF Record
    <3>4. ~excuse'[loop.cur] => ~excuse[loop.cur] /\ ~(Pending <= loop.lag)
      BY <1>0, <2>0, <2>1
    <3>5. ASSUME NEW a \in Auths
          PROVE  /\ Holders(a) \in Nat
                 /\ Holders(a)' = Holders(a) + (IF a = loop.cur THEN 1 ELSE 0)
      <4>1. Sending(loop, a) = 0 /\ Sending(loop', a) = (IF a = loop.cur THEN 1 ELSE 0)
        BY <2>0, <3>1 DEF Sending
      <4>2. Cardinality(Queued(jobs, a)) \in Nat /\ Cardinality(Calling(wk, a)) \in Nat
        BY <1>0, HolderParts
      <4> QED
        BY <2>0, <4>1, <4>2, HoldersAre, HoldersAfter DEF HoldersIn
    <3>6. ASSUME NEW a \in Auths, a = loop.cur, ~excuse'[a]
          PROVE  Holders(a)' <= 1 /\ auth'[a].nra > 0
      <4>1. auth[a].nra \in Int
        BY <1>0, TimeRange, RefreshAssumption DEF Record
      <4>2. ~(auth[a].nra > 0)
        BY <1>0, <2>1, <3>6, <4>1
      <4>3. ~excuse[a] /\ ~(Pending <= loop.lag)
        BY <3>4, <3>6
      <4>4. Holders(a) = 0
        BY <3>5, <4>2, <4>3 DEF Solo
      <4>5. Pending - loop.lag > 0
        BY <1>0, <4>3, RefreshAssumption
      <4> QED
        BY <3>3, <3>5, <3>6, <4>4, <4>5
    <3>7. ASSUME NEW a \in Auths, ~excuse'[a]
          PROVE  Holders(a)' <= 1 /\ (Holders(a)' > 0 => auth'[a].nra > 0)
      <4>1. CASE a = loop.cur
        BY <3>6, <3>7, <4>1
      <4>2. CASE a # loop.cur
        BY <3>2, <3>5, <3>7, <4>2 DEF Solo
      <4> QED
        BY <4>1, <4>2
    <3> QED
      BY <3>7 DEF Solo
  <2>2. CASE loop' = [loop EXCEPT !.pc = "due", !.cur = None] /\ UNCHANGED <<auth, excuse>>
    <3>1. loop'.pc = "due"
      BY <1>0, <2>2 DEF LoopType
    <3>2. ASSUME NEW a \in Auths PROVE Holders(a)' = Holders(a)
      <4>1. Sending(loop, a) = 0 /\ Sending(loop', a) = 0
        BY <2>0, <3>1 DEF Sending
      <4> QED
        BY <2>0, <4>1, HoldersAre, HoldersAfter DEF HoldersIn
    <3> QED
      BY <2>2, <3>2, SoloKept
  <2> QED
    BY <1>2, <2>1, <2>2 DEF MarkPending
<1>3. CASE ~SendJob /\ ~MarkPending
  <2>1. loop.pc # "send" /\ loop'.pc # "send"
    BY <1>0, <1>3 DEF LoopStep, Publish, RebuildRead, RebuildFill, LoopWakes, LoopDue, HandleDue,
                      DrainDirty, ApplyDirty, LoopType
  <2>2. UNCHANGED <<auth, wk, jobs, excuse>>
    BY <1>3 DEF LoopStep, Publish, RebuildRead, RebuildFill, LoopWakes, LoopDue, HandleDue,
                DrainDirty, ApplyDirty, loopElse
  <2>3. ASSUME NEW a \in Auths PROVE Holders(a)' = Holders(a)
    <3>1. Sending(loop, a) = 0 /\ Sending(loop', a) = 0
      BY <2>1 DEF Sending
    <3> QED
      BY <2>2, <3>1, HoldersAre, HoldersAfter DEF HoldersIn
  <2> QED
    BY <2>2, <2>3, SoloKept
<1> QED
  BY <1>1, <1>2, <1>3

(* Steps of a worker.                                                      *)
LEMMA SoloWorker ==
  ASSUME TypeInv, TypeInv', Solo, NEW w \in Workers, WorkerStep(w)
  PROVE  Solo'
<1>0. /\ auth \in [Auths -> Record] /\ jobs \in Seq(Auths) /\ wk \in [Workers -> WorkType]
      /\ excuse \in [Auths -> BOOLEAN] /\ wk' \in [Workers -> WorkType]
      /\ wk[w].pc # "idle" => wk[w].auth \in Auths
  BY DEF TypeInv, Types
<1>1. loop' = loop
  BY DEF WorkerStep, TakeJob, RefreshFails, RefreshSucceeds, WorkerMarks, workElse
<1>2. CASE TakeJob(w)
  <2>1. /\ wk[w].pc = "idle" /\ jobs # <<>> /\ jobs' = Tail(jobs) /\ UNCHANGED <<auth, excuse>>
        /\ wk' = [wk EXCEPT ![w] = [pc |-> "call", auth |-> Head(jobs), on |-> auth[Head(jobs)].on]]
    BY <1>2 DEF TakeJob
  <2>2. wk'[w].pc = "call" /\ wk'[w].auth = Head(jobs)
        /\ \A v \in Workers : v # w => wk'[v] = wk[v]
    BY <1>0, <2>1
  <2>3. ASSUME NEW a \in Auths PROVE Holders(a)' = Holders(a)
    <3>1. Cardinality(Calling(wk', a)) =
            Cardinality(Calling(wk, a)) + (IF Head(jobs) = a THEN 1 ELSE 0)
      <4>1. wk[w].pc # "call"
        BY <2>1
      <4>2. Cardinality(Calling(wk', a)) =
              Cardinality(Calling(wk, a))
              + (IF wk'[w].pc = "call" /\ wk'[w].auth = a THEN 1 ELSE 0)
        <5>1. PICK f, g : f = wk /\ g = wk'
          OBVIOUS
        <5>2. f[w].pc # "call" /\ \A v \in Workers : v # w => g[v] = f[v]
          BY ONLY <2>2, <4>1, <5>1
        <5>3. Cardinality(Calling(g, a)) =
                Cardinality(Calling(f, a))
                + (IF g[w].pc = "call" /\ g[w].auth = a THEN 1 ELSE 0)
          BY ONLY w \in Workers, <5>2, CallingBegins
        <5> QED
          BY ONLY <5>1, <5>3
      <4> QED
        BY <2>2, <4>2
    <3>2. Cardinality(Queued(jobs, a)) =
            Cardinality(Queued(jobs', a)) + (IF Head(jobs) = a THEN 1 ELSE 0)
      BY <1>0, <2>1, QueuedTail
    <3>3. jobs' \in Seq(Auths)
      BY DEF TypeInv, Types
    <3>4. /\ Cardinality(Queued(jobs', a)) \in Nat /\ Cardinality(Calling(wk, a)) \in Nat
          /\ Sending(loop, a) \in {0, 1} /\ Sending(loop', a) = Sending(loop, a)
      BY <1>0, <1>1, <3>3, HolderParts
    <3> QED
      BY <3>1, <3>2, <3>4, HoldersAre, HoldersAfter DEF HoldersIn
  <2> QED
    BY <2>1, <2>3, SoloKept
<1>3. CASE RefreshFails(w) \/ RefreshSucceeds(w)
  <2> DEFINE c == wk[w].auth
  <2>1. wk[w].pc = "call" /\ jobs' = jobs /\ c \in Auths
        /\ excuse' = [excuse EXCEPT ![c] = Holders(c) > 1]
    BY <1>0, <1>3 DEF RefreshFails, RefreshSucceeds
  <2>2. \A b \in Auths : b # c => auth'[b] = auth[b] /\ excuse'[b] = excuse[b]
    BY <1>0, <1>3, <2>1 DEF RefreshFails, RefreshSucceeds
  <2>3. /\ wk'[w].pc = "mark"
        /\ \A v \in Workers : v # w => wk'[v] = wk[v]
    <3>1. wk' = [wk EXCEPT ![w].pc = "mark", ![w].on = FALSE]
      BY <1>3 DEF RefreshFails, RefreshSucceeds
    <3> QED
      BY <1>0, <3>1 DEF WorkType
  <2>4. ASSUME NEW a \in Auths
        PROVE  /\ Holders(a) \in Nat /\ Holders(a)' \in Nat
               /\ Holders(a) = Holders(a)' + (IF c = a THEN 1 ELSE 0)
    <3>1. Cardinality(Calling(wk, a)) =
            Cardinality(Calling(wk', a)) + (IF c = a THEN 1 ELSE 0)
      <4>1. wk'[w].pc # "call" /\ \A v \in Workers : v # w => wk[v] = wk'[v]
        BY <2>3
      <4>2. Cardinality(Calling(wk, a)) =
              Cardinality(Calling(wk', a))
              + (IF wk[w].pc = "call" /\ wk[w].auth = a THEN 1 ELSE 0)
        BY ONLY <4>1, CallingBegins
      <4> QED
        BY <2>1, <4>2
    <3>2. /\ Cardinality(Queued(jobs, a)) \in Nat /\ Cardinality(Calling(wk', a)) \in Nat
          /\ Sending(loop, a) \in {0, 1} /\ Sending(loop', a) = Sending(loop, a)
      BY <1>0, <1>1, HolderParts
    <3> QED
      BY <2>1, <3>1, <3>2, HoldersAre, HoldersAfter DEF HoldersIn
  <2>5. \A a \in Auths : a = c /\ ~excuse'[a] => ~(Holders(a) > 1)
    BY <1>0, <2>1
  <2> HIDE DEF c
  <2>6. ASSUME NEW a \in Auths, ~excuse'[a]
        PROVE  Holders(a)' <= 1 /\ (Holders(a)' > 0 => auth'[a].nra > 0)
    <3>1. CASE a = c
      <4>1. Holders(a)' = 0
        BY <2>4, <2>5, <2>6, <3>1
      <4> QED
        BY <4>1
    <3>2. CASE a # c
      BY <2>2, <2>4, <2>6, <3>2 DEF Solo
    <3> QED
      BY <3>1, <3>2
  <2> QED
    BY <2>6 DEF Solo
<1>4. CASE WorkerMarks(w)
  <2>1. /\ wk[w].pc # "call" /\ UNCHANGED <<auth, excuse, jobs>>
        /\ wk' = [wk EXCEPT ![w] = [@ EXCEPT !.pc = "wake"]] \/ wk' = [wk EXCEPT ![w] = Idle]
    BY <1>4 DEF WorkerMarks
  <2>2. wk'[w].pc # "call" /\ \A v \in Workers : v # w => wk'[v] = wk[v]
    BY <1>0, <2>1 DEF WorkType, Idle
  <2>3. ASSUME NEW a \in Auths PROVE Holders(a)' = Holders(a)
    <3>1. Calling(wk', a) = Calling(wk, a)
      BY <2>1, <2>2 DEF Calling
    <3> QED
      BY <1>1, <2>1, <3>1, HoldersAre, HoldersAfter DEF HoldersIn
  <2> QED
    BY <2>1, <2>3, SoloKept
<1> QED
  BY <1>2, <1>3, <1>4 DEF WorkerStep

(* Steps of the service.                                                   *)
LEMMA SoloService ==
  ASSUME TypeInv, Solo, OpStep
  PROVE  Solo'
<1>0. auth \in [Auths -> Record] /\ excuse \in [Auths -> BOOLEAN] /\ jobs \in Seq(Auths)
  BY DEF TypeInv, Types
<1>1. ASSUME NEW a \in Auths
      PROVE  Holders(a) \in Nat /\ Holders(a)' = Holders(a)
  <2>1. loop' = loop /\ wk' = wk /\ jobs' = jobs
    BY DEF OpStep, OpRead, OpRegister, OpWrite, OpMarks, opElse
  <2> QED
    BY <1>0, <2>1, HolderParts, HoldersAre, HoldersAfter
<1>2. CASE OpWrite
  <2>1. op.auth \in Auths
    BY <1>2 DEF OpWrite, TypeInv, Types
  <2>2. \A b \in Auths : b # op.auth => auth'[b] = auth[b] /\ excuse'[b] = excuse[b]
    BY <1>0, <1>2, <2>1 DEF OpWrite
  <2>3. \A b \in Auths : b = op.auth /\ ~excuse'[b] => ~(Holders(b) > 0)
    BY <1>0, <1>2, <2>1 DEF OpWrite, Held
  <2>4. ASSUME NEW a \in Auths, ~excuse'[a]
        PROVE  Holders(a)' <= 1 /\ (Holders(a)' > 0 => auth'[a].nra > 0)
    <3>1. CASE a = op.auth
      <4>1. Holders(a)' = 0
        BY <1>1, <2>3, <2>4, <3>1
      <4> QED
        BY <4>1
    <3>2. CASE a # op.auth
      BY <1>1, <2>2, <2>4, <3>2 DEF Solo
    <3> QED
      BY <3>1, <3>2
  <2> QED
    BY <2>4 DEF Solo
<1>3. CASE ~OpWrite
  <2>1. UNCHANGED excuse /\ \A b \in Auths : auth'[b].nra = auth[b].nra
    <3>1. CASE UNCHANGED auth
      BY <1>3, <3>1 DEF OpStep, OpRead, OpRegister, OpMarks
    <3>2. ASSUME NEW a \in Auths, OpRead(a)
          PROVE  UNCHANGED excuse /\ \A b \in Auths : auth'[b].nra = auth[b].nra
      <4>1. PICK on \in BOOLEAN, others \in SUBSET Auths :
            auth' = [b \in Auths |-> [auth[b] EXCEPT !.exec = @ \/ (on /\ b \in others \cup {a})]]
        BY <3>2 DEF OpRead
      <4>2. UNCHANGED excuse
        BY <3>2 DEF OpRead
      <4> QED
        BY <1>0, <4>1, <4>2 DEF Record
    <3> QED
      BY <1>3, <3>1, <3>2, RefreshAssumption DEF OpStep, OpRegister, OpMarks
  <2> QED
    BY <1>1, <2>1, SoloKept
<1> QED
  BY <1>2, <1>3

(* A tick of the clock.                                                    *)
LEMMA SoloTick ==
  ASSUME TypeInv, TypeInv', Solo, Tick
  PROVE  Solo'
<1>0. /\ auth \in [Auths -> Record] /\ excuse \in [Auths -> BOOLEAN] /\ jobs \in Seq(Auths)
      /\ loop \in LoopType
  BY DEF TypeInv, Types
<1>1. ASSUME NEW a \in Auths
      PROVE  Holders(a) \in Nat /\ Holders(a)' = Holders(a)
  <2>1. loop'.pc = loop.pc /\ loop'.cur = loop.cur /\ wk' = wk /\ jobs' = jobs
    BY <1>0 DEF Tick, LoopType
  <2>2. Sending(loop', a) = Sending(loop, a)
    BY <2>1 DEF Sending
  <2> QED
    BY <1>0, <2>1, <2>2, HolderParts, HoldersAre, HoldersAfter DEF HoldersIn
<1>2. ASSUME NEW a \in Auths, ~excuse'[a]
      PROVE  Holders(a)' <= 1 /\ (Holders(a)' > 0 => auth'[a].nra > 0)
  <2>1. ~excuse[a] /\ ~(Holders(a) > 0 /\ auth[a].nra = 1)
    BY <1>2 DEF Tick, Held
  <2>2. Holders(a) <= 1 /\ (Holders(a) > 0 => auth[a].nra > 0)
    BY <2>1 DEF Solo
  <2>3. auth'[a].nra = Sooner(auth[a].nra, -MaxLag)
    BY <1>0 DEF Tick, Record
  <2>4. auth[a].nra \in Times /\ auth[a].nra \in Int
    BY <1>0, TimeRange, RefreshAssumption DEF Record
  <2>5. ASSUME Holders(a) > 0 PROVE auth'[a].nra > 0
    <3>1. auth[a].nra > 1
      BY <2>1, <2>2, <2>4, <2>5
    <3>2. auth'[a].nra = auth[a].nra - 1
      BY <2>3, <2>4, <3>1, SoonerType, RefreshAssumption
    <3> QED
      BY <2>4, <3>1, <3>2
  <2> QED
    BY <1>1, <2>2, <2>5
<1> QED
  BY <1>2 DEF Solo

(* Two refreshes of one credential are queued or running at a time only    *)
(* if the backoff that the first one set has run out, or the service has   *)
(* replaced its record by one that was read before the backoff was set.    *)
THEOREM OverlapsExplained == Spec => []OverlapExplained
<1>1. Init => TypeInv
  BY TypesInit
<1>2. Init => Solo
  <2> SUFFICES ASSUME Init, NEW a \in Auths PROVE Holders(a) = 0
    BY DEF Solo
  <2>1. Queued(jobs, a) = {} /\ Calling(wk, a) = {} /\ Sending(loop, a) = 0
    BY DEF Init, Queued, Calling, Sending, Idle
  <2> QED
    BY <2>1, HoldersAre, FS_EmptySet DEF HoldersIn
<1>3. TypeInv /\ [Next]_vars => TypeInv'
  BY TypesStep
<1>4. TypeInv /\ TypeInv' /\ Solo /\ [Next]_vars => Solo'
  <2>1. ASSUME Solo, UNCHANGED vars PROVE Solo'
    <3>1. \A a \in Auths : Holders(a)' = Holders(a)
      BY <2>1, HoldersAre, HoldersAfter DEF vars
    <3> QED
      BY <2>1, <3>1, SoloKept DEF vars
  <2> QED
    BY <2>1, SoloLoop, SoloWorker, SoloService, SoloTick DEF Next
<1>5. TypeInv /\ Solo => OverlapExplained
  <2> SUFFICES ASSUME TypeInv, Solo, NEW a \in Auths, ~excuse[a] PROVE ~(Holders(a) > 1)
    BY DEF OverlapExplained
  <2>1. Holders(a) \in Nat
    BY HolderParts, HoldersAre DEF TypeInv, Types
  <2> QED
    BY <2>1 DEF Solo
<1> QED
  BY <1>1, <1>2, <1>3, <1>4, <1>5, PTL DEF Spec
=============================================================================
