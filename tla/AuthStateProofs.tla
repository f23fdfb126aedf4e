-------------------------- MODULE AuthStateProofs --------------------------
(***************************************************************************)
(* Theorems of AuthState and AuthUpdates for every set of models, every    *)
(* length of the waits and any number of updaters: the type invariant,     *)
(* that no wait and no backoff level grows without bound, that the         *)
(* aggregate follows the model states and that an error of the auth has a  *)
(* failing model behind it.                                                *)
(***************************************************************************)
EXTENDS AuthUpdates, FiniteSetTheorems, WellFoundedInduction, TLAPS

Less == {ss \in Nat \X Nat : ss[1] < ss[2]}

(* A nonempty set of numbers has a least element.                          *)
LEMMA LeastNumber ==
    ASSUME NEW S \in SUBSET Nat, S # {}
    PROVE  \E n \in S : \A k \in S : n <= k
<1>1. IsWellFoundedOn(Less, Nat)
  BY NatLessThanWellFounded DEF OpToRel, Less
<1>2. \A x, y \in Nat : x < y => <<x, y>> \in Less
  BY DEF Less
<1> HIDE DEF Less
<1>3. PICK n \in S : \A k \in S : ~ (<<k, n>> \in Less)
  BY <1>1, WFMin
<1>4. ASSUME NEW k \in S PROVE n <= k
  <2>1. ~ (k < n)
    BY <1>2, <1>3
  <2> QED
    BY <2>1
<1> QED
  BY <1>4

Best(f, T) == {x \in T : \A y \in T : f[y] <= f[x]}

(* A function to the numbers has a greatest value on a finite set.         *)
LEMMA GreatestValue ==
    ASSUME NEW T, IsFiniteSet(T), T # {}, NEW f, \A x \in T : f[x] \in Nat
    PROVE  Best(f, T) # {}
<1> DEFINE bad == {n \in Nat : \E U \in SUBSET T :
                      U # {} /\ Cardinality(U) = n /\ Best(f, U) = {}}
<1>1. SUFFICES ASSUME Best(f, T) = {} PROVE FALSE
  OBVIOUS
<1>2. Cardinality(T) \in bad
  BY <1>1, FS_CardinalityType
<1>3. PICK n \in bad : \A k \in bad : n <= k
  <2>1. bad \in SUBSET Nat /\ bad # {}
    BY <1>2
  <2> QED
    BY <2>1, LeastNumber
<1>4. PICK U \in SUBSET T : U # {} /\ Cardinality(U) = n /\ Best(f, U) = {}
  BY <1>3
<1>5. PICK x : x \in U
  BY <1>4
<1>6. IsFiniteSet(U)
  BY FS_Subset
<1>7. Cardinality(U \ {x}) = n - 1 /\ n \in Nat /\ Cardinality(U \ {x}) \in Nat
  BY <1>3, <1>4, <1>5, <1>6, FS_RemoveElement, FS_CardinalityType
<1>8. CASE U \ {x} = {}
  <2>1. x \in Best(f, U)
    BY <1>5, <1>8 DEF Best
  <2> QED
    BY <1>4, <2>1
<1>9. CASE U \ {x} # {}
  <2>1. n - 1 \notin bad
    BY <1>3, <1>7
  <2>2. Best(f, U \ {x}) # {}
    BY <1>7, <1>9, <2>1
  <2>3. PICK y \in U \ {x} : \A z \in U \ {x} : f[z] <= f[y]
    BY <2>2 DEF Best
  <2>4. f[x] \in Nat /\ f[y] \in Nat /\ \A z \in U : f[z] \in Nat
    BY <1>5
  <2>5. CASE f[x] <= f[y]
    <3>1. y \in Best(f, U)
      BY <2>3, <2>5 DEF Best
    <3> QED
      BY <1>4, <3>1
  <2>6. CASE f[y] <= f[x]
    <3>1. \A z \in U : f[z] <= f[x]
      BY <2>3, <2>4, <2>6
    <3>2. x \in Best(f, U)
      BY <1>5, <3>1 DEF Best
    <3> QED
      BY <1>4, <3>2
  <2> QED
    BY <2>4, <2>5, <2>6
<1> QED
  BY <1>8, <1>9

(* The earliest of some times is one of them.                              *)
LEMMA EarliestTime ==
    ASSUME NEW times \in SUBSET Nat
    PROVE  /\ Earliest(times) \in Nat \cup {None}
           /\ times # {} => Earliest(times) \in times
<1>1. CASE times = {}
  BY <1>1 DEF Earliest
<1>2. CASE times # {}
  <2>1. \E t \in times : \A u \in times : t <= u
    BY <1>2, LeastNumber
  <2>2. Earliest(times) \in times
    BY <1>2, <2>1 DEF Earliest
  <2> QED
    BY <2>2
<1> QED
  BY <1>1, <1>2

----------------------------------------------------------------------------
(* The backoff ladder. *)

(* Powers of two are numbers: there are 2^n subsets of n elements.         *)
LEMMA PowerOfTwo ==
    ASSUME NEW n \in Nat
    PROVE  2^n \in Nat
<1>1. IsFiniteSet(1..n) /\ Cardinality(1..n) = n
  BY FS_Interval
<1>2. IsFiniteSet(SUBSET (1..n)) /\ Cardinality(SUBSET (1..n)) = 2^n
  BY <1>1, FS_SUBSET
<1> QED
  BY <1>2, FS_CardinalityType

LEMMA DoubledIsNumber ==
    ASSUME NEW level \in Nat
    PROVE  Doubled(level) \in Nat
<1>1. 2^level \in Nat
  BY PowerOfTwo
<1>2. BackoffBase \in Nat
  BY StateConstants
<1> QED
  BY <1>1, <1>2 DEF Doubled

(* nextQuotaCooldown never exceeds the maximum.                            *)
LEMMA CooldownBounded ==
    ASSUME NEW level \in Nat
    PROVE  Cooldown(level) \in Nat /\ Cooldown(level) <= BackoffMax
<1>1. Doubled(level) \in Nat
  BY DoubledIsNumber
<1>2. BackoffMax \in Nat
  BY StateConstants
<1> QED
  BY <1>1, <1>2 DEF Cooldown

LEMMA NextLevelBounded ==
    ASSUME NEW level \in Nat, BoundedLevel(level)
    PROVE  NextLevel(level) \in Nat /\ BoundedLevel(NextLevel(level))
<1>1. Doubled(level) \in Nat
  BY DoubledIsNumber
<1>2. BackoffMax \in Nat
  BY StateConstants
<1>3. CASE Doubled(level) >= BackoffMax
  BY <1>3 DEF NextLevel
<1>4. CASE ~ (Doubled(level) >= BackoffMax)
  <2>1. NextLevel(level) = level + 1
    BY <1>4 DEF NextLevel
  <2>2. (level + 1) - 1 = level
    OBVIOUS
  <2>3. Doubled((level + 1) - 1) < BackoffMax
    BY <1>1, <1>2, <1>4, <2>2
  <2> QED
    BY <2>1, <2>3 DEF BoundedLevel
<1> QED
  BY <1>3, <1>4

(* The next level's cooldown is no less than this one's.                   *)
LEMMA CooldownGrows ==
    ASSUME NEW level \in Nat
    PROVE  Cooldown(level) <= Cooldown(level + 1)
<1>1. /\ IsFiniteSet(1..level) /\ Cardinality(1..level) = level
      /\ IsFiniteSet(1..(level + 1)) /\ Cardinality(1..(level + 1)) = level + 1
  BY FS_Interval
<1>2. /\ IsFiniteSet(SUBSET (1..(level + 1)))
      /\ Cardinality(SUBSET (1..level)) = 2^level
      /\ Cardinality(SUBSET (1..(level + 1))) = 2^(level + 1)
  BY <1>1, FS_SUBSET
<1>3. SUBSET (1..level) \in SUBSET (SUBSET (1..(level + 1)))
  OBVIOUS
<1>4. 2^level <= 2^(level + 1)
  BY <1>2, <1>3, FS_Subset
<1>5. 2^level \in Nat /\ 2^(level + 1) \in Nat
  BY PowerOfTwo
<1>6. BackoffBase \in Nat /\ BackoffMax \in Nat
  BY StateConstants
<1>7. Doubled(level) <= Doubled(level + 1)
  <2> DEFINE x == 2^level
             y == 2^(level + 1)
  <2>1. x \in Nat /\ y \in Nat /\ x <= y
    BY <1>4, <1>5
  <2> HIDE DEF x, y
  <2>2. BackoffBase * x <= BackoffBase * y
    BY <1>6, <2>1
  <2> QED
    BY <2>2 DEF Doubled, x, y
<1>8. Doubled(level) \in Nat /\ Doubled(level + 1) \in Nat
  BY DoubledIsNumber
<1> QED
  BY <1>6, <1>7, <1>8 DEF Cooldown

(* Repeated rate limits never shorten the wait: where cooling is on, a 429 *)
(* that announces no delay of its own, after any quota state that an       *)
(* earlier such 429 left, at the same time or later, puts the recovery no  *)
(* earlier and the level no lower, and its wait is at least as long.  (A   *)
(* 429 that announces a delay waits that long, however short.)             *)
THEOREM CooldownMonotone ==
    ASSUME NEW quota, quota.level \in Nat,
           NEW at \in Nat, NEW later \in Nat, at <= later
    PROVE  LET first  == AfterQuota(quota, None, TRUE, at)
               second == AfterQuota(first, None, TRUE, later)
           IN  /\ second.recover - later >= first.recover - at
               /\ second.recover >= first.recover
               /\ second.level >= first.level
<1> DEFINE level == quota.level
           next  == NextLevel(level)
<1>1. next \in {level, level + 1} /\ NextLevel(next) \in {next, next + 1}
  BY DEF NextLevel
<1>2. level \in Nat /\ next \in Nat
  BY <1>1
<1>3. Cooldown(level) \in Nat /\ Cooldown(next) \in Nat
  BY <1>2, CooldownBounded
<1>4. Cooldown(level) <= Cooldown(next)
  BY <1>1, <1>2, <1>3, CooldownGrows
<1>5. /\ AfterQuota(quota, None, TRUE, at).recover = at + Cooldown(level)
      /\ AfterQuota(quota, None, TRUE, at).level = next
  BY DEF AfterQuota
<1> DEFINE first == AfterQuota(quota, None, TRUE, at)
<1> HIDE DEF first, level, next
<1>6. /\ AfterQuota(first, None, TRUE, later).recover = later + Cooldown(next)
      /\ AfterQuota(first, None, TRUE, later).level = NextLevel(next)
  BY <1>5 DEF AfterQuota, first
<1>7. /\ (later + Cooldown(next)) - later >= (at + Cooldown(level)) - at
      /\ later + Cooldown(next) >= at + Cooldown(level)
      /\ NextLevel(next) >= next
  BY <1>1, <1>2, <1>3, <1>4
<1> QED
  BY <1>5, <1>6, <1>7 DEF first

----------------------------------------------------------------------------
(* The inductive invariant: every record is typed, and every time in it    *)
(* lies within one wait from now.                                          *)

Within(t, at) == t = None \/ \E w \in Waits : t <= at + w

GoodQuota(q, at) ==
    q \in QuotaStates /\ Within(q.recover, at) /\ BoundedLevel(q.level)

GoodState(s, at) ==
    /\ s \in ModelStates
    /\ ~ s.unavailable => s.nextRetryAfter = None
    /\ s.status = "error" => s.error
    /\ Within(s.nextRetryAfter, at)
    /\ GoodQuota(s.quota, at)

Typed(a) ==
    a \in AuthStates /\ (~ a.unavailable => a.nextRetryAfter = None)

GoodModels(a, at) ==
    \A m \in Models : a.states[m] # None => GoodState(a.states[m], at)

GoodAuth(a, at) == Typed(a) /\ GoodModels(a, at)

(* The clones on their way are as good as the record.                      *)
GoodHeld == \A u \in Updaters : held[u] = None \/ GoodAuth(held[u], now)

Counted ==
    /\ behind \in [Updaters -> 0..MaxBehind]
    /\ held = [u \in Updaters |-> held[u]]

IInv ==
    /\ GoodAuth(auth, now)
    /\ GoodHeld
    /\ Counted
    /\ cooling \in BOOLEAN
    /\ now \in 0..MaxNow

LEMMA WaitsAreNumbers ==
    Waits \subseteq Nat
BY StateConstants DEF Waits

LEMMA NoQuotaGood ==
    ASSUME NEW at \in Nat
    PROVE  GoodQuota(NoQuota, at)
BY DEF GoodQuota, NoQuota, QuotaStates, Within, BoundedLevel

LEMMA CleanStateGood ==
    ASSUME NEW at \in Nat
    PROVE  GoodState(CleanState, at)
<1>1. GoodQuota(NoQuota, at)
  BY NoQuotaGood
<1>2. NoQuota \in QuotaStates
  BY <1>1 DEF GoodQuota
<1> QED
  BY <1>1, <1>2 DEF GoodState, CleanState, ModelStates, Within

(* A 429 leaves a typed quota state, and a good one good.                  *)
LEMMA AfterQuotaTyped ==
    ASSUME NEW q \in QuotaStates, NEW r \in RetryAfters \cup {None},
           NEW cool \in BOOLEAN, NEW at \in Nat
    PROVE  /\ AfterQuota(q, r, cool, at) \in QuotaStates
           /\ Within(AfterQuota(q, r, cool, at).recover, at)
<1>1. q.level \in Nat
  BY DEF QuotaStates
<1>2. Cooldown(q.level) \in Nat /\ Cooldown(q.level) <= BackoffMax
  BY <1>1, CooldownBounded
<1>3. NextLevel(q.level) \in Nat
  BY <1>1 DEF NextLevel
<1>4. r # None => r \in Nat /\ r \in Waits
  BY StateConstants DEF Waits
<1>5. BackoffMax \in Nat /\ BackoffMax \in Waits
  BY StateConstants DEF Waits
<1>6. AfterQuota(q, r, cool, at).recover \in Nat \cup {None}
  BY <1>2, <1>4 DEF AfterQuota
<1>7. Within(AfterQuota(q, r, cool, at).recover, at)
  BY <1>2, <1>4, <1>5 DEF AfterQuota, Within
<1>8. AfterQuota(q, r, cool, at).level \in Nat
  BY <1>1, <1>3 DEF AfterQuota
<1> QED
  BY <1>6, <1>7, <1>8 DEF AfterQuota, QuotaStates

LEMMA AfterQuotaGood ==
    ASSUME NEW q, NEW r \in RetryAfters \cup {None},
           NEW cool \in BOOLEAN, NEW at \in Nat, GoodQuota(q, at)
    PROVE  GoodQuota(AfterQuota(q, r, cool, at), at)
<1>1. q \in QuotaStates /\ q.level \in Nat /\ BoundedLevel(q.level)
  BY DEF GoodQuota, QuotaStates
<1>2. BoundedLevel(NextLevel(q.level))
  BY <1>1, NextLevelBounded
<1>3. AfterQuota(q, r, cool, at).level \in {q.level, NextLevel(q.level)}
  BY DEF AfterQuota
<1> QED
  BY <1>1, <1>2, <1>3, AfterQuotaTyped DEF GoodQuota

----------------------------------------------------------------------------
(* Model states. *)

LEMMA RetryTimeBounded ==
    ASSUME NEW kind, NEW cool \in BOOLEAN, NEW at \in Nat
    PROVE  /\ RetryTime(kind, cool, at) \in Nat \cup {None}
           /\ Within(RetryTime(kind, cool, at), at)
<1>1. {ShortWait, MediumWait, LongWait} \subseteq Nat
  BY StateConstants
<1>2. {ShortWait, MediumWait, LongWait} \subseteq Waits
  BY DEF Waits
<1>3. kind \in DOMAIN Wait => Wait[kind] \in {ShortWait, MediumWait, LongWait}
  BY DEF Wait
<1>4. CASE kind \in DOMAIN Wait /\ (cool \/ kind = "model_not_supported")
  <2>1. RetryTime(kind, cool, at) = at + Wait[kind]
    BY <1>4 DEF RetryTime
  <2>2. Wait[kind] \in Nat /\ Wait[kind] \in Waits
    BY <1>1, <1>2, <1>3, <1>4
  <2> QED
    BY <2>1, <2>2 DEF Within
<1>5. CASE ~ (kind \in DOMAIN Wait /\ (cool \/ kind = "model_not_supported"))
  BY <1>5 DEF RetryTime, Within
<1> QED
  BY <1>4, <1>5

LEMMA FailedStateGood ==
    ASSUME NEW at \in Nat, NEW s, GoodState(s, at), NEW kind,
           NEW r \in RetryAfters \cup {None}, NEW cool \in BOOLEAN
    PROVE  GoodState(FailedState(s, kind, r, cool, at), at)
<1>1. GoodQuota(s.quota, at)
  BY DEF GoodState
<1>2. GoodQuota(AfterQuota(s.quota, r, cool, at), at)
  BY <1>1, AfterQuotaGood
<1> DEFINE quota == IF kind = "quota" THEN AfterQuota(s.quota, r, cool, at)
                    ELSE s.quota
           next  == IF kind = "quota" THEN quota.recover
                    ELSE RetryTime(kind, cool, at)
<1>3. GoodQuota(quota, at)
  BY <1>1, <1>2
<1>4. next \in Nat \cup {None} /\ Within(next, at)
  BY <1>3, RetryTimeBounded DEF GoodQuota, QuotaStates
<1>5. FailedState(s, kind, r, cool, at) =
        [unavailable |-> TRUE, status |-> "error", error |-> TRUE,
         nextRetryAfter |-> next, quota |-> quota]
  BY DEF FailedState
<1>6. quota \in QuotaStates
  BY <1>3 DEF GoodQuota
<1> HIDE DEF quota, next
<1> QED
  BY <1>3, <1>4, <1>5, <1>6 DEF GoodState, ModelStates

LEMMA SettledGood ==
    ASSUME NEW at \in Nat, NEW s, GoodState(s, at)
    PROVE  GoodState(Settled(s, at), at)
<1>1. CASE s.unavailable /\ s.nextRetryAfter # None /\ ~ After(s.nextRetryAfter, at)
  <2>1. Settled(s, at) = [s EXCEPT !.unavailable = FALSE, !.nextRetryAfter = None]
    BY <1>1 DEF Settled
  <2> QED
    BY <2>1 DEF GoodState, ModelStates, Within
<1>2. CASE ~ (s.unavailable /\ s.nextRetryAfter # None /\ ~ After(s.nextRetryAfter, at))
  <2>1. Settled(s, at) = s
    BY <1>2 DEF Settled
  <2> QED
    BY <2>1
<1> QED
  BY <1>1, <1>2

----------------------------------------------------------------------------
(* The aggregate. *)

LEMMA AggregateQuotaTyped ==
    ASSUME NEW at \in Nat, NEW a, GoodModels(a, at)
    PROVE  AggregateQuota(a) \in QuotaStates
<1> DEFINE over   == OverQuota(a)
           times  == {a.states[m].quota.recover : m \in over} \ {None}
           levels == {a.states[m].quota.level : m \in over}
           f      == [m \in over |-> a.states[m].quota.level]
<1>1. CASE over = {}
  BY <1>1, NoQuotaGood DEF AggregateQuota, GoodQuota
<1>2. CASE over # {}
  <2>1. \A m \in over : /\ a.states[m].quota.level \in Nat
                        /\ a.states[m].quota.recover \in Nat \cup {None}
    BY DEF OverQuota, Recorded, GoodModels, GoodState, GoodQuota, QuotaStates
  <2>2. Earliest(times) \in Nat \cup {None}
    <3>1. times \in SUBSET Nat
      BY <2>1
    <3> HIDE DEF times
    <3> QED
      BY <3>1, EarliestTime
  <2>3. Greatest(levels) \in Nat
    <3>1. over \in SUBSET Models /\ IsFiniteSet(Models)
      BY StateConstants DEF OverQuota, Recorded
    <3>2. IsFiniteSet(over)
      BY <3>1, FS_Subset
    <3>3. \A m \in over : f[m] \in Nat
      BY <2>1
    <3>4. Best(f, over) # {}
      <4> HIDE DEF f, over
      <4> QED
        BY <1>2, <3>2, <3>3, GreatestValue
    <3>5. PICK m \in over : \A k \in over : f[k] <= f[m]
      BY <3>4 DEF Best
    <3>6. f[m] \in levels /\ \A n \in levels : n <= f[m]
      BY <3>5
    <3>7. levels # {} /\ levels \subseteq Nat
      BY <1>2, <2>1
    <3> HIDE DEF levels
    <3>8. Greatest(levels) \in levels
      BY <3>6, <3>7 DEF Greatest
    <3> QED
      BY <3>7, <3>8
  <2>4. AggregateQuota(a) =
          [exceeded |-> TRUE, recover |-> Earliest(times),
           level |-> Greatest(levels)]
    BY <1>2 DEF AggregateQuota
  <2> HIDE DEF times, levels, over
  <2> QED
    BY <2>2, <2>3, <2>4 DEF QuotaStates
<1> QED
  BY <1>1, <1>2

(* What updateAggregatedAvailability computes is typed, and it leaves the  *)
(* model states good.  Of the auth it reads only the model states and the  *)
(* types of the rest.                                                      *)
LEMMA AggregateGood ==
    ASSUME NEW at \in Nat, NEW a \in AuthStates, GoodModels(a, at)
    PROVE  GoodAuth(updateAggregatedAvailability(a, at), at)
<1>1. CASE Recorded(a) = {}
  <2>1. updateAggregatedAvailability(a, at) =
          [a EXCEPT !.unavailable = FALSE, !.nextRetryAfter = None,
                    !.quota = NoQuota]
    BY <1>1 DEF updateAggregatedAvailability
  <2>2. NoQuota \in QuotaStates
    BY NoQuotaGood DEF GoodQuota
  <2> QED
    BY <2>1, <2>2 DEF GoodAuth, Typed, GoodModels, AuthStates
<1>2. CASE Recorded(a) # {}
  <2> DEFINE all    == BlockedModels(a, at) = Recorded(a)
             times  == {a.states[m].nextRetryAfter : m \in Recorded(a)}
             next   == IF all THEN Earliest(times) ELSE None
             states == [m \in Models |-> IF a.states[m] = None THEN None
                                         ELSE Settled(a.states[m], at)]
             unavailable == all
             quota  == AggregateQuota(a)
  <2>1. quota \in QuotaStates
    BY AggregateQuotaTyped
  <2>2. next \in Nat \cup {None}
    <3>1. CASE all
      <4>1. times \in SUBSET Nat
        BY <3>1 DEF BlockedModels, Blocked, After, Recorded, GoodModels,
                    GoodState, ModelStates
      <4> HIDE DEF times
      <4> QED
        BY <3>1, <4>1, EarliestTime
    <3>2. CASE ~ all
      BY <3>2
    <3> QED
      BY <3>1, <3>2
  <2>3. \A m \in Models : states[m] # None => GoodState(states[m], at)
    BY SettledGood DEF GoodModels
  <2>4. states \in [Models -> ModelStates \cup {None}]
    BY <2>3 DEF GoodState
  <2>5. unavailable \in BOOLEAN /\ (~ unavailable => next = None)
    OBVIOUS
  <2>6. updateAggregatedAvailability(a, at) =
          [a EXCEPT !.states = states, !.unavailable = unavailable,
                    !.nextRetryAfter = next, !.quota = quota]
    BY <1>2 DEF updateAggregatedAvailability
  <2> HIDE DEF all, times, next, states, unavailable, quota
  <2> DEFINE b == updateAggregatedAvailability(a, at)
  <2>7. b \in AuthStates /\ b.states = states
    BY <2>1, <2>2, <2>4, <2>5, <2>6 DEF AuthStates
  <2>8. ~ b.unavailable => b.nextRetryAfter = None
    BY <2>5, <2>6 DEF AuthStates
  <2> QED
    BY <2>3, <2>7, <2>8 DEF GoodAuth, Typed, GoodModels
<1> QED
  BY <1>1, <1>2

LEMMA SettleGood ==
    ASSUME NEW at \in Nat, NEW a \in AuthStates, GoodModels(a, at)
    PROVE  GoodAuth(Settle(a, at), at)
<1> DEFINE b == updateAggregatedAvailability(a, at)
<1>1. GoodAuth(b, at)
  BY AggregateGood
<1>2. Settle(a, at) \in {b, [b EXCEPT !.status = "active"]}
  BY DEF Settle
<1> HIDE DEF b
<1> QED
  BY <1>1, <1>2 DEF GoodAuth, Typed, GoodModels, AuthStates

----------------------------------------------------------------------------
(* The operations. *)

LEMMA MarkedGood ==
    ASSUME NEW at \in Nat, NEW a, GoodAuth(a, at), NEW m \in Models,
           NEW kind \in Kinds, NEW r \in RetryAfters \cup {None},
           NEW cool \in BOOLEAN
    PROVE  GoodAuth(Marked(a, m, kind, r, cool, at), at)
<1>1. a \in AuthStates /\ GoodModels(a, at)
  BY DEF GoodAuth, Typed
<1>2. CASE kind = "success"
  <2> DEFINE b == [a EXCEPT !.states[m] = CleanState]
  <2>1. CleanState \in ModelStates
    BY CleanStateGood DEF GoodState
  <2>2. b \in AuthStates
    BY <1>1, <2>1 DEF AuthStates
  <2>3. GoodModels(b, at)
    BY <1>1, CleanStateGood DEF AuthStates, GoodModels
  <2>4. GoodAuth(Settle(b, at), at)
    BY <2>2, <2>3, SettleGood
  <2> QED
    BY <1>2, <2>4 DEF Marked, ModelSuccess
<1>3. CASE kind = "request_scoped"
  BY <1>3 DEF Marked
<1>4. CASE kind \in Failures
  <2> DEFINE state  == IF a.states[m] = None THEN CleanState ELSE a.states[m]
             failed == FailedState(state, kind, r, cool, at)
             b == [a EXCEPT !.states[m] = failed, !.status = "error"]
  <2>1. GoodState(state, at)
    BY <1>1, CleanStateGood DEF GoodModels
  <2>2. GoodState(failed, at)
    BY <2>1, FailedStateGood
  <2>3. failed \in ModelStates
    BY <2>2 DEF GoodState
  <2> HIDE DEF failed
  <2>4. b \in AuthStates
    BY <1>1, <2>3 DEF AuthStates
  <2>5. GoodModels(b, at)
    BY <1>1, <2>2 DEF AuthStates, GoodModels
  <2>6. GoodAuth(updateAggregatedAvailability(b, at), at)
    BY <2>4, <2>5, AggregateGood
  <2>7. Marked(a, m, kind, r, cool, at) = updateAggregatedAvailability(b, at)
    BY <1>4 DEF Marked, ModelFailure, failed, Failures
  <2> QED
    BY <2>6, <2>7
<1> QED
  BY <1>2, <1>3, <1>4 DEF Kinds

LEMMA MarkedWholeGood ==
    ASSUME NEW at \in Nat, NEW a, GoodAuth(a, at),
           NEW kind \in Kinds, NEW r \in RetryAfters \cup {None},
           NEW cool \in BOOLEAN
    PROVE  GoodAuth(MarkedWhole(a, kind, r, cool, at), at)
<1>1. a \in AuthStates /\ GoodModels(a, at)
  BY DEF GoodAuth, Typed
<1>2. CASE kind = "success"
  <2>1. NoQuota \in QuotaStates
    BY NoQuotaGood DEF GoodQuota
  <2>2. MarkedWhole(a, kind, r, cool, at) = AuthSuccess(a)
    BY <1>2 DEF MarkedWhole
  <2> QED
    BY <1>1, <2>1, <2>2 DEF AuthSuccess, GoodAuth, Typed, GoodModels, AuthStates
<1>3. CASE kind = "request_scoped"
  BY <1>3 DEF MarkedWhole
<1>4. CASE kind \in Failures
  <2> DEFINE failed == [a EXCEPT !.unavailable = TRUE, !.status = "error"]
             quota  == AfterQuota(a.quota, r, cool, at)
             next   == RetryTime(kind, cool, at)
  <2>1. quota \in QuotaStates /\ quota.recover \in Nat \cup {None}
    <3>1. a.quota \in QuotaStates
      BY <1>1 DEF AuthStates
    <3> QED
      BY <3>1, AfterQuotaTyped DEF QuotaStates
  <2>2. next \in Nat \cup {None}
    BY RetryTimeBounded
  <2>3. failed \in AuthStates /\ failed.states = a.states /\ failed.unavailable
    BY <1>1 DEF AuthStates
  <2>4. MarkedWhole(a, kind, r, cool, at) \in
          {[failed EXCEPT !.quota = quota, !.nextRetryAfter = quota.recover],
           failed, [failed EXCEPT !.nextRetryAfter = next]}
    BY <1>4 DEF MarkedWhole, applyAuthFailureState, Failures
  <2> HIDE DEF failed, quota, next
  <2> DEFINE b == MarkedWhole(a, kind, r, cool, at)
  <2>5. b \in AuthStates
    BY <2>1, <2>2, <2>3, <2>4 DEF AuthStates
  <2>6. b.states = a.states /\ b.unavailable
    BY <2>3, <2>4 DEF AuthStates
  <2> HIDE DEF b
  <2>7. GoodAuth(b, at)
    BY <1>1, <2>5, <2>6 DEF GoodAuth, Typed, GoodModels
  <2> QED
    BY <2>7 DEF b
<1> QED
  BY <1>2, <1>3, <1>4 DEF Kinds

LEMMA ReconciledGood ==
    ASSUME NEW at \in Nat, NEW a, GoodAuth(a, at), NEW supported
    PROVE  GoodAuth(Reconciled(a, supported, at), at)
<1> DEFINE dropped == Recorded(a) \ supported
           dirty   == {m \in Recorded(a) \cap supported :
                         a.states[m] # CleanState}
           states  == [m \in Models |-> IF m \in dropped THEN None
                                        ELSE IF m \in dirty THEN CleanState
                                        ELSE a.states[m]]
           b == [a EXCEPT !.states = states]
<1>1. a \in AuthStates /\ GoodModels(a, at)
  BY DEF GoodAuth, Typed
<1>2. \A m \in Models : states[m] # None => GoodState(states[m], at)
  BY <1>1, CleanStateGood DEF GoodModels
<1>3. states \in [Models -> ModelStates \cup {None}]
  BY <1>2 DEF GoodState
<1>4. Reconciled(a, supported, at) \in {a, Settle(b, at)}
  BY DEF Reconciled
<1> HIDE DEF states
<1>5. b \in AuthStates /\ b.states = states
  BY <1>1, <1>3 DEF AuthStates
<1>6. GoodModels(b, at)
  BY <1>2, <1>5 DEF GoodModels
<1>7. GoodAuth(Settle(b, at), at)
  BY <1>5, <1>6, SettleGood
<1> HIDE DEF b
<1> QED
  BY <1>4, <1>7

LEMMA FreshGood ==
    ASSUME NEW at \in Nat
    PROVE  GoodAuth(Fresh, at)
<1>1. NoQuota \in QuotaStates
  BY NoQuotaGood DEF GoodQuota
<1> QED
  BY <1>1 DEF GoodAuth, Typed, GoodModels, Fresh, AuthStates, NoStates

LEMMA WithdrawnGood ==
    ASSUME NEW at \in Nat, NEW a, GoodAuth(a, at)
    PROVE  GoodAuth(Withdrawn(a), at)
BY DEF Withdrawn, GoodAuth, Typed, GoodModels, AuthStates

LEMMA UpdatedGood ==
    ASSUME NEW at \in Nat, NEW a, GoodAuth(a, at), NEW b, GoodAuth(b, at)
    PROVE  GoodAuth(Updated(a, b), at)
<1>1. Updated(a, b) \in {b, [b EXCEPT !.states = a.states]}
  BY DEF Updated
<1> QED
  BY <1>1 DEF GoodAuth, Typed, GoodModels, AuthStates

(* What is within a wait from now is so at any later time.                 *)
LEMMA LaterGood ==
    ASSUME NEW at \in Nat, NEW a, GoodAuth(a, at)
    PROVE  GoodAuth(a, at + 1)
<1>1. ASSUME NEW t \in Nat \cup {None}, Within(t, at)
      PROVE  Within(t, at + 1)
  <2>1. CASE t = None
    BY <2>1 DEF Within
  <2>2. CASE t # None
    <3>1. PICK w \in Waits : t <= at + w
      BY <1>1, <2>2 DEF Within
    <3>2. w \in Nat /\ t \in Nat
      BY <2>2, WaitsAreNumbers
    <3>3. t <= (at + 1) + w
      BY <3>1, <3>2
    <3> QED
      BY <3>3 DEF Within
  <2> QED
    BY <2>1, <2>2
<1>2. ASSUME NEW m \in Models, a.states[m] # None
      PROVE  GoodState(a.states[m], at + 1)
  <2> DEFINE s == a.states[m]
  <2>1. GoodState(s, at)
    BY <1>2 DEF GoodAuth, GoodModels
  <2> HIDE DEF s
  <2>2. s.nextRetryAfter \in Nat \cup {None} /\ s.quota.recover \in Nat \cup {None}
    BY <2>1 DEF GoodState, ModelStates, QuotaStates
  <2>3. Within(s.nextRetryAfter, at + 1) /\ Within(s.quota.recover, at + 1)
    BY <1>1, <2>1, <2>2 DEF GoodState, GoodQuota
  <2>4. GoodState(s, at + 1)
    BY <2>1, <2>3 DEF GoodState, GoodQuota
  <2> QED
    BY <2>4 DEF s
<1> QED
  BY <1>2 DEF GoodAuth, GoodModels

----------------------------------------------------------------------------
(* The invariant. *)

LEMMA InitInvariant ==
    Init => IInv
<1> SUFFICES ASSUME Init PROVE IInv
  OBVIOUS
<1>1. now = 0 /\ cooling \in BOOLEAN /\ auth = Fresh
  BY DEF Init
<1>2. GoodAuth(Fresh, 0)
  BY FreshGood
<1>3. GoodHeld
  BY DEF Init, GoodHeld
<1>4. Counted
  BY UpdatesAssumption DEF Init, Counted
<1> QED
  BY <1>1, <1>2, <1>3, <1>4, StateConstants DEF IInv

(* Any change in place leaves a good record. *)
LEMMA ChangeGood ==
    ASSUME IInv, Change
    PROVE  /\ GoodAuth(auth', now') /\ cooling' \in BOOLEAN
           /\ now' \in 0..MaxNow /\ now' \in {now, now + 1}
<1>1. /\ GoodAuth(auth, now) /\ cooling \in BOOLEAN
      /\ now \in 0..MaxNow /\ now \in Nat /\ MaxNow \in Nat
  BY StateConstants DEF IInv
<1>2. \A kind : RetryAfterOf(kind) \subseteq RetryAfters \cup {None}
  BY DEF RetryAfterOf
<1>3. ASSUME NEW m \in Models, MarkResult(m)
      PROVE  GoodAuth(auth', now) /\ UNCHANGED <<cooling, now>>
  <2>1. PICK kind \in Kinds, r \in RetryAfters \cup {None} :
           auth' = Marked(auth, m, kind, r, cooling, now)
    BY <1>2, <1>3 DEF MarkResult
  <2> QED
    BY <1>1, <1>3, <2>1, MarkedGood DEF MarkResult
<1>4. CASE MarkModellessResult
  <2>1. PICK kind \in Kinds, r \in RetryAfters \cup {None} :
           auth' = MarkedWhole(auth, kind, r, cooling, now)
    BY <1>2, <1>4 DEF MarkModellessResult
  <2>2. GoodAuth(auth', now) /\ UNCHANGED <<cooling, now>>
    BY <1>1, <1>4, <2>1, MarkedWholeGood DEF MarkModellessResult
  <2> QED
    BY <1>1, <2>2
<1>5. ASSUME NEW supported, ReconcileRegistryModelStates(supported)
      PROVE  GoodAuth(auth', now) /\ UNCHANGED <<cooling, now>>
  BY <1>1, <1>5, ReconciledGood DEF ReconcileRegistryModelStates
<1>6. CASE SetQuotaCooldownDisabled
  BY <1>1, <1>6 DEF SetQuotaCooldownDisabled
<1>7. CASE Tick
  <2>1. now' = now + 1 /\ auth' = auth /\ cooling' = cooling /\ now < MaxNow
    BY <1>7 DEF Tick
  <2>2. GoodAuth(auth, now + 1)
    BY <1>1, LaterGood
  <2>3. now' \in 0..MaxNow
    BY <1>1, <2>1
  <2> QED
    BY <1>1, <2>1, <2>2, <2>3
<1> QED
  BY <1>1, <1>3, <1>4, <1>5, <1>6, <1>7 DEF Change

LEMMA ChangeInvariant ==
    ASSUME IInv, Change, Behind, UNCHANGED held
    PROVE  IInv'
<1>1. /\ GoodAuth(auth', now') /\ cooling' \in BOOLEAN
      /\ now' \in 0..MaxNow /\ now' \in {now, now + 1}
  BY ChangeGood
<1>2. GoodHeld'
  <2>1. now \in Nat
    BY StateConstants DEF IInv
  <2>2. SUFFICES ASSUME NEW u \in Updaters, held[u] # None
                 PROVE  GoodAuth(held[u], now')
    BY DEF GoodHeld
  <2>3. GoodAuth(held[u], now)
    BY <2>2 DEF IInv, GoodHeld
  <2>4. GoodAuth(held[u], now + 1)
    BY <2>1, <2>3, LaterGood
  <2> QED
    BY <1>1, <2>3, <2>4
<1>3. Counted'
  <2>1. behind \in [Updaters -> 0..MaxBehind] /\ MaxBehind \in Nat
    BY UpdatesAssumption DEF IInv, Counted
  <2>2. \A u \in Updaters : behind'[u] \in {behind[u], behind[u] + 1}
    BY DEF Behind
  <2>3. \A u \in Updaters : behind[u] < MaxBehind
    BY DEF Behind
  <2>4. \A u \in Updaters : behind'[u] \in 0..MaxBehind
    BY <2>1, <2>2, <2>3
  <2>5. behind' = [u \in Updaters |-> behind'[u]]
    BY DEF Behind
  <2>6. behind' \in [Updaters -> 0..MaxBehind]
    BY <2>4, <2>5
  <2> QED
    BY <2>6 DEF IInv, Counted
<1> QED
  BY <1>1, <1>2, <1>3 DEF IInv

LEMMA ReplacementsGood ==
    ASSUME NEW at \in Nat, NEW a, GoodAuth(a, at), NEW new \in Replacements(a)
    PROVE  GoodAuth(new, at)
<1>1. GoodAuth(Fresh, at)
  BY FreshGood
<1>2. GoodAuth(Withdrawn(a), at) /\ GoodAuth(Withdrawn(Fresh), at)
  BY <1>1, WithdrawnGood
<1>3. GoodAuth(Reenabled(a), at)
  BY DEF Reenabled, GoodAuth, Typed, GoodModels, AuthStates
<1>4. GoodAuth(Updated(a, Fresh), at)
  BY <1>1, UpdatedGood
<1> QED
  BY <1>1, <1>2, <1>3, <1>4 DEF Replacements

LEMMA UpdatersInvariant ==
    ASSUME IInv, NEW u \in Updaters, Read(u) \/ Store(u)
    PROVE  IInv'
<1>1. /\ GoodAuth(auth, now) /\ GoodHeld /\ Counted /\ cooling \in BOOLEAN
      /\ now \in 0..MaxNow /\ now \in Nat
  BY StateConstants DEF IInv
<1>2. CASE Read(u)
  <2>1. GoodHeld'
    BY <1>1, <1>2 DEF Read, GoodHeld, Counted, stateVars
  <2>2. Counted'
    BY <1>1, <1>2 DEF Read, Counted
  <2> QED
    BY <1>1, <1>2, <2>1, <2>2 DEF Read, IInv, stateVars
<1>3. CASE Store(u)
  <2>1. PICK new \in Replacements(held[u]) : Update(new)
    BY <1>3 DEF Store
  <2>2. GoodAuth(held[u], now)
    BY <1>1, <1>3 DEF Store, GoodHeld
  <2>3. GoodAuth(new, now)
    BY <1>1, <2>2, ReplacementsGood
  <2>4. GoodAuth(auth', now) /\ UNCHANGED <<cooling, now>>
    BY <1>1, <2>1, <2>3, UpdatedGood DEF Update
  <2>5. GoodHeld'
    BY <1>1, <1>3, <2>4 DEF Store, GoodHeld, Counted
  <2>6. Counted'
    BY <1>1, <1>3, UpdatesAssumption DEF Store, Counted
  <2> QED
    BY <1>1, <2>4, <2>5, <2>6 DEF IInv
<1> QED
  BY <1>2, <1>3

LEMMA NextInvariant ==
    IInv /\ [Next]_vars => IInv'
<1> SUFFICES ASSUME IInv, [Next]_vars PROVE IInv'
  OBVIOUS
<1>1. CASE UNCHANGED vars
  BY <1>1 DEF vars, stateVars, IInv, GoodHeld, Counted
<1> QED
  BY <1>1, ChangeInvariant, UpdatersInvariant DEF Next

LEMMA Invariance ==
    Spec => []IInv
BY InitInvariant, NextInvariant, PTL DEF Spec

(* The record and its clones keep their types, and whatever is available   *)
(* carries no retry time.                                                  *)
THEOREM TypeCorrect ==
    Spec => []UpdatesTypeOK
<1>1. IInv => UpdatesTypeOK
  <2> SUFFICES ASSUME IInv PROVE UpdatesTypeOK
    OBVIOUS
  <2>1. Typed(auth) /\ GoodModels(auth, now)
    BY DEF IInv, GoodAuth
  <2>2. \A m \in Recorded(auth) : GoodState(auth.states[m], now)
    BY <2>1 DEF GoodModels, Recorded
  <2>3. \A m \in Recorded(auth) :
          ~ auth.states[m].unavailable => auth.states[m].nextRetryAfter = None
    BY <2>2 DEF GoodState
  <2>4. TypeOK
    BY <2>1, <2>3 DEF IInv, Typed, TypeOK
  <2>5. \A u \in Updaters : held[u] \in AuthStates \cup {None}
    BY DEF IInv, GoodHeld, GoodAuth, Typed
  <2>6. held \in [Updaters -> AuthStates \cup {None}]
    BY <2>5 DEF IInv, Counted
  <2> QED
    BY <2>4, <2>6 DEF IInv, Counted, UpdatesTypeOK
<1> QED
  BY <1>1, Invariance, PTL

(* No wait ends later than one wait from now, and the backoff level stays  *)
(* where the doubled wait first reaches the maximum, for every base,       *)
(* maximum and announced delay.                                            *)
THEOREM WaitsCorrect ==
    Spec => []WaitsBounded
<1>1. IInv => WaitsBounded
  <2> SUFFICES ASSUME IInv, NEW m \in Recorded(auth)
               PROVE  /\ Bounded(auth.states[m].nextRetryAfter)
                      /\ Bounded(auth.states[m].quota.recover)
                      /\ BoundedLevel(auth.states[m].quota.level)
    BY DEF WaitsBounded
  <2>1. GoodState(auth.states[m], now)
    BY DEF IInv, GoodAuth, GoodModels, Recorded
  <2> QED
    BY <2>1 DEF GoodState, GoodQuota, Within, Bounded
<1> QED
  BY <1>1, Invariance, PTL

----------------------------------------------------------------------------
(* The aggregate is exact whenever model states change. *)

(* AggregateExact, of any record at any time. *)
Exact(a, at) ==
    IF Recorded(a) # {} /\ BlockedModels(a, at) = Recorded(a)
    THEN /\ a.unavailable
         /\ a.nextRetryAfter =
               Earliest({a.states[m].nextRetryAfter : m \in Recorded(a)})
    ELSE ~ (a.unavailable /\ After(a.nextRetryAfter, at))

Explained(a) == a.status = "error" => HasFailing(a)

LEMMA AggregateIsExact ==
    ASSUME NEW at \in Nat, NEW a \in AuthStates, GoodModels(a, at)
    PROVE  Exact(updateAggregatedAvailability(a, at), at)
<1> DEFINE b == updateAggregatedAvailability(a, at)
<1>1. CASE Recorded(a) = {}
  <2>1. b = [a EXCEPT !.unavailable = FALSE, !.nextRetryAfter = None,
                      !.quota = NoQuota]
    BY <1>1 DEF updateAggregatedAvailability
  <2>2. b.unavailable = FALSE /\ b.states = a.states
    BY <2>1 DEF AuthStates
  <2> HIDE DEF b
  <2>3. Recorded(b) = {}
    BY <1>1, <2>2 DEF Recorded
  <2>4. Exact(b, at)
    BY <2>2, <2>3 DEF Exact
  <2> QED
    BY <2>4 DEF b
<1>2. CASE Recorded(a) # {}
  <2> DEFINE all    == BlockedModels(a, at) = Recorded(a)
             next   == IF all THEN Earliest({a.states[m].nextRetryAfter :
                                               m \in Recorded(a)})
                       ELSE None
             states == [m \in Models |-> IF a.states[m] = None THEN None
                                         ELSE Settled(a.states[m], at)]
             quota  == AggregateQuota(a)
  <2>1. b = [a EXCEPT !.states = states, !.unavailable = all,
                      !.nextRetryAfter = next, !.quota = quota]
    BY <1>2 DEF updateAggregatedAvailability
  <2>2. b.states = states /\ b.unavailable = all /\ b.nextRetryAfter = next
    <3> HIDE DEF all, next, states, quota, b
    <3> QED
      BY <2>1 DEF AuthStates
  <2>3. \A m \in Recorded(a) : Settled(a.states[m], at) # None
    BY SettledGood, NoneIsNoState DEF GoodModels, GoodState, Recorded
  <2>4. Recorded(b) = Recorded(a)
    <3> HIDE DEF b
    <3> QED
      BY <2>2, <2>3 DEF Recorded
  <2>5. \A m \in Recorded(a) : a.states[m] \in ModelStates
    BY DEF GoodModels, GoodState, Recorded
  <2>6. \A m \in Recorded(a) :
          /\ Blocked(Settled(a.states[m], at), at) => Blocked(a.states[m], at)
          /\ Blocked(a.states[m], at) => Settled(a.states[m], at) = a.states[m]
    BY <2>5 DEF Settled, Blocked, After, ModelStates
  <2>7. \A m \in Recorded(a) : b.states[m] = Settled(a.states[m], at)
    <3> HIDE DEF b
    <3> QED
      BY <2>2 DEF Recorded
  <2> HIDE DEF b
  <2>8. CASE all
    <3>1. \A m \in Recorded(a) : Blocked(a.states[m], at)
      BY <2>8 DEF BlockedModels
    <3>2. \A m \in Recorded(a) : b.states[m] = a.states[m]
      BY <2>6, <2>7, <3>1
    <3>3. {b.states[m].nextRetryAfter : m \in Recorded(b)} =
            {a.states[m].nextRetryAfter : m \in Recorded(a)}
      BY <2>4, <3>2
    <3>4. BlockedModels(b, at) = Recorded(b)
      BY <2>4, <3>1, <3>2 DEF BlockedModels
    <3>5. b.unavailable
      BY <2>2, <2>8
    <3>6. b.nextRetryAfter =
            Earliest({b.states[m].nextRetryAfter : m \in Recorded(b)})
      BY <2>2, <2>8, <3>3
    <3>7. Exact(b, at)
      BY <1>2, <2>4, <3>4, <3>5, <3>6 DEF Exact
    <3> QED
      BY <3>7 DEF b
  <2>9. CASE ~ all
    <3>1. PICK m \in Recorded(a) : ~ Blocked(a.states[m], at)
      BY <2>9 DEF BlockedModels
    <3>2. m \in Recorded(b) /\ m \notin BlockedModels(b, at)
      BY <2>4, <2>6, <2>7, <3>1 DEF BlockedModels
    <3>3. ~ b.unavailable
      BY <2>2, <2>9
    <3>4. Exact(b, at)
      BY <3>2, <3>3 DEF Exact
    <3> QED
      BY <3>4 DEF b
  <2> QED
    BY <2>8, <2>9
<1> QED
  BY <1>1, <1>2

(* Settled states keep their errors. *)
LEMMA AggregateKeepsErrors ==
    ASSUME NEW at \in Nat, NEW a \in AuthStates, GoodModels(a, at),
           NEW m \in Recorded(a), a.states[m].error
    PROVE  HasFailing(updateAggregatedAvailability(a, at))
<1> DEFINE b == updateAggregatedAvailability(a, at)
           states == [k \in Models |-> IF a.states[k] = None THEN None
                                       ELSE Settled(a.states[k], at)]
<1>1. b.states = states
  BY DEF updateAggregatedAvailability, AuthStates
<1>2. b.states[m] = Settled(a.states[m], at)
  BY <1>1 DEF Recorded
<1>3. a.states[m] \in ModelStates /\ GoodState(a.states[m], at)
  BY DEF GoodModels, GoodState, Recorded
<1>4. Settled(a.states[m], at).error /\ Settled(a.states[m], at) # None
  <2>1. a.states[m].error
    OBVIOUS
  <2>2. Settled(a.states[m], at).error = a.states[m].error
    BY <1>3 DEF Settled, ModelStates
  <2>3. Settled(a.states[m], at) \in ModelStates
    BY <1>3, SettledGood DEF GoodState
  <2> QED
    BY <2>1, <2>2, <2>3, NoneIsNoState
<1> HIDE DEF b
<1>5. m \in Recorded(b) /\ b.states[m].error
  BY <1>2, <1>4 DEF Recorded
<1>6. HasFailing(b)
  BY <1>5 DEF HasFailing
<1> QED
  BY <1>6 DEF b

LEMMA SettleExplains ==
    ASSUME NEW at \in Nat, NEW a \in AuthStates, GoodModels(a, at)
    PROVE  Exact(Settle(a, at), at) /\ Explained(Settle(a, at))
<1> DEFINE b == updateAggregatedAvailability(a, at)
           c == [b EXCEPT !.status = "active"]
<1>1. GoodAuth(b, at) /\ Exact(b, at)
  BY AggregateGood, AggregateIsExact
<1>2. CASE hasModelError(b, at)
  <2>1. Settle(a, at) = b
    BY <1>2 DEF Settle
  <2> HIDE DEF b
  <2>2. PICK m \in Recorded(b) : b.states[m].error \/ b.states[m].status = "error"
    BY <1>2 DEF hasModelError
  <2>3. b.states[m].error
    BY <1>1, <2>2 DEF GoodAuth, GoodModels, GoodState, Recorded
  <2>4. HasFailing(b)
    BY <2>3 DEF HasFailing
  <2> QED
    BY <1>1, <2>1, <2>4 DEF Explained
<1>3. CASE ~ hasModelError(b, at)
  <2>1. Settle(a, at) = c
    BY <1>3 DEF Settle
  <2> HIDE DEF b
  <2>2. /\ c.states = b.states /\ c.unavailable = b.unavailable
        /\ c.nextRetryAfter = b.nextRetryAfter /\ c.status = "active"
    BY <1>1 DEF GoodAuth, Typed, AuthStates
  <2> HIDE DEF c
  <2>3. Recorded(c) = Recorded(b) /\ BlockedModels(c, at) = BlockedModels(b, at)
    BY <2>2 DEF Recorded, BlockedModels
  <2>4. Exact(c, at)
    BY <1>1, <2>2, <2>3 DEF Exact
  <2> QED
    BY <2>1, <2>2, <2>4 DEF Explained
<1> QED
  BY <1>2, <1>3

(* A result for a model leaves the auth as it was, or exact and explained. *)
LEMMA MarkedExact ==
    ASSUME NEW at \in Nat, NEW a, GoodAuth(a, at), NEW m \in Models,
           NEW kind \in Kinds, NEW r \in RetryAfters \cup {None},
           NEW cool \in BOOLEAN,
           Marked(a, m, kind, r, cool, at) # a
    PROVE  /\ Exact(Marked(a, m, kind, r, cool, at), at)
           /\ Explained(Marked(a, m, kind, r, cool, at))
<1>1. a \in AuthStates /\ GoodModels(a, at)
  BY DEF GoodAuth, Typed
<1>2. CASE kind = "success"
  <2> DEFINE b == [a EXCEPT !.states[m] = CleanState]
  <2>1. b \in AuthStates
    BY <1>1, CleanStateGood DEF AuthStates, GoodState
  <2>2. GoodModels(b, at)
    BY <1>1, CleanStateGood DEF AuthStates, GoodModels
  <2>3. Exact(Settle(b, at), at) /\ Explained(Settle(b, at))
    BY <2>1, <2>2, SettleExplains
  <2> QED
    BY <1>2, <2>3 DEF Marked, ModelSuccess
<1>3. CASE kind = "request_scoped"
  BY <1>3 DEF Marked
<1>4. CASE kind \in Failures
  <2> DEFINE state  == IF a.states[m] = None THEN CleanState ELSE a.states[m]
             failed == FailedState(state, kind, r, cool, at)
             b == [a EXCEPT !.states[m] = failed, !.status = "error"]
             c == updateAggregatedAvailability(b, at)
  <2>1. GoodState(failed, at)
    BY <1>1, CleanStateGood, FailedStateGood DEF GoodModels
  <2>2. failed.error /\ failed # None /\ failed \in ModelStates
    BY <2>1, NoneIsNoState DEF FailedState, GoodState
  <2>3. Marked(a, m, kind, r, cool, at) = c
    BY <1>4 DEF Marked, ModelFailure, Failures
  <2> HIDE DEF failed
  <2>4. b \in AuthStates /\ b.states[m] = failed
    BY <1>1, <2>2 DEF AuthStates
  <2>5. GoodModels(b, at)
    BY <1>1, <2>1 DEF AuthStates, GoodModels
  <2> HIDE DEF b
  <2>6. m \in Recorded(b) /\ b.states[m].error
    BY <2>2, <2>4 DEF Recorded
  <2>7. Exact(c, at)
    BY <2>4, <2>5, AggregateIsExact
  <2>8. HasFailing(c)
    BY <2>4, <2>5, <2>6, AggregateKeepsErrors
  <2> HIDE DEF c
  <2> QED
    BY <2>3, <2>7, <2>8 DEF Explained
<1> QED
  BY <1>2, <1>3, <1>4 DEF Kinds

(* A result for no model changes no model state.                           *)
LEMMA MarkedWholeKeepsStates ==
    ASSUME NEW at \in Nat, NEW a \in AuthStates,
           NEW kind \in Kinds, NEW r, NEW cool
    PROVE  MarkedWhole(a, kind, r, cool, at).states = a.states
<1> DEFINE quota == AfterQuota(a.quota, r, cool, at)
           next  == RetryTime(kind, cool, at)
           failed == [a EXCEPT !.unavailable = TRUE, !.status = "error"]
<1>1. MarkedWhole(a, kind, r, cool, at) \in
        {AuthSuccess(a), a, failed,
         [failed EXCEPT !.quota = quota, !.nextRetryAfter = quota.recover],
         [failed EXCEPT !.nextRetryAfter = next]}
  BY DEF MarkedWhole, applyAuthFailureState
<1> HIDE DEF quota, next
<1> QED
  BY <1>1 DEF AuthSuccess, AuthStates

LEMMA ReconciledExact ==
    ASSUME NEW at \in Nat, NEW a, GoodAuth(a, at), NEW supported,
           Reconciled(a, supported, at) # a
    PROVE  /\ Exact(Reconciled(a, supported, at), at)
           /\ Explained(Reconciled(a, supported, at))
<1> DEFINE dropped == Recorded(a) \ supported
           dirty   == {m \in Recorded(a) \cap supported :
                         a.states[m] # CleanState}
           states  == [m \in Models |-> IF m \in dropped THEN None
                                        ELSE IF m \in dirty THEN CleanState
                                        ELSE a.states[m]]
           b == [a EXCEPT !.states = states]
<1>1. a \in AuthStates /\ GoodModels(a, at)
  BY DEF GoodAuth, Typed
<1>2. \A m \in Models : states[m] # None => GoodState(states[m], at)
  BY <1>1, CleanStateGood DEF GoodModels
<1>3. states \in [Models -> ModelStates \cup {None}]
  BY <1>2 DEF GoodState
<1>4. Reconciled(a, supported, at) = Settle(b, at)
  BY DEF Reconciled
<1> HIDE DEF states
<1>5. b \in AuthStates /\ b.states = states
  BY <1>1, <1>3 DEF AuthStates
<1>6. GoodModels(b, at)
  BY <1>2, <1>5 DEF GoodModels
<1> HIDE DEF b
<1> QED
  BY <1>4, <1>5, <1>6, SettleExplains

(* An exact aggregate stays so while the clock goes on.                    *)
LEMMA ExactLater ==
    ASSUME NEW at \in Nat, NEW a, GoodAuth(a, at), Exact(a, at)
    PROVE  Exact(a, at + 1)
<1> DEFINE times == {a.states[m].nextRetryAfter : m \in Recorded(a)}
<1>1. a.nextRetryAfter \in Nat \cup {None}
  BY DEF GoodAuth, Typed, AuthStates
<1>2. \A m \in Recorded(a) : a.states[m].nextRetryAfter \in Nat \cup {None}
  BY DEF GoodAuth, GoodModels, GoodState, ModelStates, Recorded
<1>3. \A t \in Nat \cup {None} : After(t, at + 1) => After(t, at)
  BY DEF After
<1>4. BlockedModels(a, at + 1) \subseteq BlockedModels(a, at)
  BY <1>2, <1>3 DEF BlockedModels, Blocked
<1>5. BlockedModels(a, at) \subseteq Recorded(a)
  BY DEF BlockedModels
<1>6. CASE Recorded(a) = {} \/ BlockedModels(a, at) # Recorded(a)
  <2>1. ~ (a.unavailable /\ After(a.nextRetryAfter, at))
    BY <1>6 DEF Exact
  <2>2. ~ (a.unavailable /\ After(a.nextRetryAfter, at + 1))
    BY <1>1, <1>3, <2>1
  <2>3. Recorded(a) = {} \/ BlockedModels(a, at + 1) # Recorded(a)
    BY <1>4, <1>5, <1>6
  <2> QED
    BY <2>2, <2>3 DEF Exact
<1>7. CASE Recorded(a) # {} /\ BlockedModels(a, at) = Recorded(a)
  <2>1. a.unavailable /\ a.nextRetryAfter = Earliest(times)
    BY <1>7 DEF Exact
  <2>2. CASE BlockedModels(a, at + 1) = Recorded(a)
    BY <1>7, <2>1, <2>2 DEF Exact
  <2>3. CASE BlockedModels(a, at + 1) # Recorded(a)
    <3>1. PICK m \in Recorded(a) :
             Blocked(a.states[m], at) /\ ~ Blocked(a.states[m], at + 1)
      BY <1>4, <1>5, <1>7, <2>3 DEF BlockedModels
    <3> DEFINE t == a.states[m].nextRetryAfter
    <3>2. t # None /\ ~ After(t, at + 1)
      BY <3>1 DEF Blocked, After
    <3>3. times \in SUBSET Nat
      <4>1. \A k \in Recorded(a) : a.states[k].nextRetryAfter # None
        BY <1>7 DEF BlockedModels, Blocked, After
      <4> QED
        BY <1>2, <4>1
    <3>4. t \in times
      OBVIOUS
    <3> HIDE DEF times, t
    <3>5. \E n \in times : \A k \in times : n <= k
      BY <3>3, <3>4, LeastNumber
    <3>6. Earliest(times) \in times /\ Earliest(times) <= t
      BY <3>4, <3>5 DEF Earliest
    <3>7. ~ After(Earliest(times), at + 1)
      <4>1. t \in Nat /\ Earliest(times) \in Nat
        BY <3>3, <3>4, <3>6
      <4>2. t <= at + 1
        BY <3>2, <4>1 DEF After
      <4>3. Earliest(times) <= at + 1
        BY <3>6, <4>1, <4>2
      <4> QED
        BY <4>1, <4>3 DEF After
    <3> QED
      BY <2>1, <2>3, <3>7 DEF Exact
  <2> QED
    BY <2>2, <2>3
<1> QED
  BY <1>6, <1>7

LEMMA StatesStep ==
    ASSUME IInv, [Next]_vars, InPlace, auth'.states # auth.states
    PROVE  now' = now /\ Exact(auth', now) /\ Explained(auth')
<1>1. GoodAuth(auth, now) /\ auth \in AuthStates /\ cooling \in BOOLEAN /\ now \in Nat
  BY StateConstants DEF IInv, GoodAuth, Typed
<1>2. \A kind : RetryAfterOf(kind) \subseteq RetryAfters \cup {None}
  BY DEF RetryAfterOf
<1>3. Change
  <2>1. ASSUME NEW u \in Updaters PROVE ~ Store(u)
    <3>1. Store(u) => held[u] # None /\ held' = [held EXCEPT ![u] = None]
      BY DEF Store
    <3>2. held' = held /\ held = [v \in Updaters |-> held[v]]
      BY DEF InPlace, IInv, Counted
    <3> QED
      BY <3>1, <3>2
  <2>2. ASSUME NEW u \in Updaters PROVE ~ Read(u)
    BY DEF Read, stateVars
  <2> QED
    BY <2>1, <2>2 DEF Next, vars, stateVars
<1>4. ASSUME NEW m \in Models, MarkResult(m)
      PROVE  now' = now /\ Exact(auth', now) /\ Explained(auth')
  <2>1. PICK kind \in Kinds, r \in RetryAfters \cup {None} :
           auth' = Marked(auth, m, kind, r, cooling, now)
    BY <1>2, <1>4 DEF MarkResult
  <2>2. Exact(auth', now) /\ Explained(auth')
    BY <1>1, <2>1, MarkedExact
  <2> QED
    BY <1>4, <2>2 DEF MarkResult
<1>5. ~ MarkModellessResult
  <2>1. SUFFICES ASSUME MarkModellessResult PROVE auth'.states = auth.states
    OBVIOUS
  <2>2. PICK kind \in Kinds, r \in RetryAfters \cup {None} :
           auth' = MarkedWhole(auth, kind, r, cooling, now)
    BY <1>2, <2>1 DEF MarkModellessResult
  <2> QED
    BY <1>1, <2>2, MarkedWholeKeepsStates
<1>6. ASSUME NEW supported, ReconcileRegistryModelStates(supported)
      PROVE  now' = now /\ Exact(auth', now) /\ Explained(auth')
  BY <1>1, <1>6, ReconciledExact DEF ReconcileRegistryModelStates
<1>7. ~ SetQuotaCooldownDisabled /\ ~ Tick
  BY DEF SetQuotaCooldownDisabled, Tick
<1> QED
  BY <1>3, <1>4, <1>5, <1>6, <1>7 DEF Change

(* A result or reconciliation that changes a model state leaves the        *)
(* aggregate exact whatever clones were stored before it, and it stays     *)
(* exact as time passes, for every set of models, every length of the      *)
(* waits and any number of updaters.                                       *)
THEOREM AggregateCorrect ==
    Spec => AggregateFollowsModels
<1> DEFINE Follows == (\/ InPlace /\ auth'.states # auth.states
                       \/ auth' = auth /\ AggregateExact)
                      => AggregateExact'
<1>1. IInv /\ [Next]_vars => Follows
  <2> SUFFICES ASSUME IInv, [Next]_vars,
                      \/ InPlace /\ auth'.states # auth.states
                      \/ auth' = auth /\ AggregateExact
               PROVE  AggregateExact'
    OBVIOUS
  <2>1. AggregateExact <=> Exact(auth, now)
    BY DEF AggregateExact, Exact
  <2>2. AggregateExact' <=> Exact(auth', now')
    BY DEF AggregateExact, Exact, Recorded, BlockedModels
  <2>3. CASE InPlace /\ auth'.states # auth.states
    BY <2>2, <2>3, StatesStep
  <2>4. CASE auth' = auth /\ AggregateExact
    <3>1. GoodAuth(auth, now) /\ now \in Nat
      BY StateConstants DEF IInv
    <3>2. now' \in {now, now + 1}
      BY ChangeGood DEF Next, Read, Store, Update, vars, stateVars
    <3>3. Exact(auth, now) /\ Exact(auth, now + 1)
      BY <2>1, <2>4, <3>1, ExactLater
    <3> QED
      BY <2>2, <2>4, <3>2, <3>3
  <2> QED
    BY <2>3, <2>4
<1>2. IInv /\ [Next]_vars => [Follows]_vars
  BY <1>1
<1> QED
  BY <1>2, Invariance, PTL DEF Spec, AggregateFollowsModels

(* No result or reconciliation that changes a model state leaves an error  *)
(* that no model explains, whatever clones were stored before it.          *)
THEOREM StatusCorrect ==
    Spec => StatusExplained
<1> DEFINE Explains == InPlace /\ auth'.states # auth.states /\ auth'.status = "error"
                       => HasFailing(auth')
<1>1. IInv /\ [Next]_vars => Explains
  BY StatesStep DEF Explained
<1>2. IInv /\ [Next]_vars => [Explains]_vars
  BY <1>1
<1> QED
  BY <1>2, Invariance, PTL DEF Spec, StatusExplained
=============================================================================
