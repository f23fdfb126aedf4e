------------------------- MODULE AuthManagerProofs -------------------------
(***************************************************************************)
(* Theorems of AuthManager for any number of requests in flight, other     *)
(* clients, models and kinds of results: the type invariant, that the      *)
(* scheduler catches up with the registry, and that manager, scheduler and *)
(* registry agree after any handler that nothing disturbed.                *)
(***************************************************************************)
EXTENDS AuthManager, AuthStateProofs, SequenceTheorems

----------------------------------------------------------------------------
(* The invariant, part one: types. *)

Good(at) == {a \in AuthStates : GoodAuth(a, at)}

Marks == {"clear", "exceed", "suspend", "resume"}

(* What a handler may still have to do.  The records in flight are kept    *)
(* like the manager's: an update puts them in its place.                   *)
Sections(at) ==
    [op : {"read", "refresh", "fetch", "latest", "unregister"}]
    \cup [op : {"upsert"}, auth : Good(at) \cup {Live}]
    \cup [op : {"update", "register"}, auth : Good(at)]
    \cup [op : {"reconcile"}, supported : SUBSET Models]
    \cup [op : {"answer"}, model : Models]
    \cup [op : Marks, model : Models, reason : Reg!Reasons \cup {None}]

Entries == [auth : AuthStates \cup {Live}, models : SUBSET Models]

(* A request in flight is the only thing its goroutine has to do. *)
Answers ==
    \A t \in Threads : \A i \in DOMAIN pending[t] :
        pending[t][i].op = "answer" => Len(pending[t]) = 1

Current(a) == IF a = Live THEN auth ELSE a

Scheduling ==
    scheduled # None =>
        scheduled \in Entries /\ ~ Current(scheduled.auth).disabled

Shapes ==
    /\ auth \in Good(now)
    /\ cooling \in BOOLEAN
    /\ now \in 0..MaxNow
    /\ Reg!TypeOK /\ cache = None
    /\ Scheduling
    /\ pending \in [Threads -> Seq(Sections(now))]
    /\ overlapped \in BOOLEAN
    /\ Answers

----------------------------------------------------------------------------
(* Part two: whoever changes the registry has an upsert before him. *)

Rebinding == {"register", "unregister"}

Due(s) == \E i \in DOMAIN s : s[i].op \in BeforeUpsert

Followed(s) ==
    \A i \in DOMAIN s : s[i].op \in Rebinding =>
        \E j \in DOMAIN s : i < j /\ s[j].op \in BeforeUpsert

Followups == \A t \in Threads : Followed(pending[t])

----------------------------------------------------------------------------
(* Part three: the proof outline of the handlers.  Mends(s) holds when the *)
(* sections s, run alone, leave the three components in agreement.         *)

Does(s, ops) == Len(s) = Len(ops) /\ \A i \in 1..Len(ops) : s[i].op = ops[i]

(* The registry has nothing of a disabled credential. *)
Released == auth.disabled => Bound = {}

OnlyMarks(s) == \A i \in DOMAIN s : s[i].op \in Marks

Mends(s) ==
    \/ OnlyMarks(s) /\ Agree
    \/ /\ Len(s) > 0 /\ s[1].op = "upsert" /\ OnlyMarks(Tail(s))
       /\ s[1].auth \in {Live, auth} /\ Released
    \/ /\ \/ Does(s, <<"refresh">>)
          \/ Does(s, <<"upsert", "refresh">>)
          \/ Does(s, <<"reconcile", "refresh">>)
          \/ Does(s, <<"read", "refresh">>)
       /\ Released
    \/ Does(s, <<"unregister", "refresh">>) /\ auth.disabled
    \/ /\ Does(s, <<"register", "read", "refresh">>)
       /\ s[1].auth.disabled = auth.disabled
    \/ /\ Does(s, <<"upsert", "register", "read", "refresh">>)
       /\ s[2].auth.disabled = auth.disabled
    \/ /\ Does(s, <<"update", "register", "read", "refresh">>)
       /\ s[2].auth.disabled = s[1].auth.disabled
    \/ Does(s, <<"fetch">>) /\ Bound = {}
    \/ Does(s, <<"update">>) /\ s[1].auth.disabled /\ Bound = {}
    \/ Does(s, <<"register", "read", "latest">>)
    \/ Does(s, <<"read", "latest">>)
    \/ Does(s, <<"reconcile", "latest">>)
    \/ Does(s, <<"upsert", "latest">>)
    \/ Does(s, <<"latest">>)

Outline ==
    ~ overlapped =>
        /\ \A t, u \in Threads : Busy(t) /\ Busy(u) => t = u
        /\ \A t \in Threads : Busy(t) => Mends(pending[t])
        /\ Quiet => Agree

ManagerInv == Shapes /\ Followups /\ ModelsCatchUp /\ Outline

----------------------------------------------------------------------------
(* The registry's part. *)

Owners == {Self} \cup Others

LEMMA RegistryTypes ==
    ASSUME Reg!TypeOK
    PROVE  /\ models \in [Models -> Reg!Registration]
           /\ clientModels \in [Owners -> Reg!ModelLists]
           /\ clientProviders \in [Owners -> {Provider, NoProvider}]
           /\ asOf \in [{} -> (0..MaxNow) \cup {None}]
BY DEF Reg!TypeOK, Reg!Time, Owners

LEMMA ProvideTyped ==
    ASSUME NEW counts \in [{Provider} -> Nat], NEW n \in Nat,
           NEW p \in {Provider, NoProvider}
    PROVE  /\ Reg!Provide(counts, p, n) \in [{Provider} -> Nat]
           /\ Reg!Withdraw(counts, p, n) \in [{Provider} -> Nat]
BY DEF Reg!Provide, Reg!Withdraw

LEMMA AddTyped ==
    ASSUME NEW reg \in Reg!Registration, NEW n \in Nat,
           NEW p \in {Provider, NoProvider}
    PROVE  Reg!addModelRegistration(reg, p, n) \in Reg!Registration
<1> DEFINE f == Reg!Provide(reg.providers, p, n)
<1>1. reg.providers \in [{Provider} -> Nat] /\ reg.count \in Nat
  BY DEF Reg!Registration
<1>3. f \in [{Provider} -> Nat]
  BY <1>1, ProvideTyped
<1>4. reg.count + n \in Nat
  BY <1>1
<1>2. Reg!addModelRegistration(reg, p, n)
        = [reg EXCEPT !.count = reg.count + n, !.providers = f]
  BY DEF Reg!addModelRegistration, Reg!Registration
<1> HIDE DEF f
<1> QED
  BY <1>2, <1>3, <1>4 DEF Reg!Registration

LEMMA UnblockTyped ==
    ASSUME NEW reg \in Reg!Registration, NEW c \in Owners
    PROVE  Reg!Unblock(reg, c) \in Reg!Registration
BY DEF Reg!Unblock, Reg!Registration, Owners

LEMMA SetProvidersTyped ==
    ASSUME NEW reg \in Reg!Registration, NEW f \in [{Provider} -> Nat]
    PROVE  [reg EXCEPT !.providers = f] \in Reg!Registration
BY DEF Reg!Registration

LEMMA NothingTyped ==
    Reg!NoRegistration \in Reg!Registration
BY DEF Reg!NoRegistration, Reg!Registration, Owners

LEMMA RemoveTyped ==
    ASSUME NEW reg \in Reg!Registration, NEW c \in Owners, NEW n \in Nat,
           NEW p \in {Provider, NoProvider}
    PROVE  Reg!removeModelRegistration(reg, c, p, n) \in Reg!Registration
<1> DEFINE u == Reg!Unblock(reg, c)
           w == Reg!Withdraw(u.providers, p, n)
           rest == [u EXCEPT !.count = @ - n,
                             !.providers = Reg!Withdraw(@, p, n)]
<1>1. u \in Reg!Registration /\ u.count = reg.count
  BY UnblockTyped DEF Reg!Unblock, Reg!Registration
<1> HIDE DEF u
<1>2. w \in [{Provider} -> Nat]
  BY <1>1, ProvideTyped DEF Reg!Registration
<1>3. rest = [u EXCEPT !.count = u.count - n, !.providers = w]
  BY <1>1 DEF Reg!Registration
<1> HIDE DEF w
<1>4. ~ (reg.count <= n) => u.count - n \in Nat
  BY <1>1 DEF Reg!Registration
<1>5. ~ (reg.count <= n) => rest \in Reg!Registration
  BY <1>1, <1>2, <1>3, <1>4 DEF Reg!Registration
<1> HIDE DEF rest
<1>6. Reg!removeModelRegistration(reg, c, p, n)
        = IF reg.count <= n THEN Reg!NoRegistration ELSE rest
  BY DEF Reg!removeModelRegistration, rest, u
<1> QED
  BY <1>5, <1>6, NothingTyped

LEMMA ReconcileTyped ==
    ASSUME NEW reg \in Reg!Registration, NEW c \in Owners,
           NEW old \in 0..1, NEW new \in 0..1,
           NEW oldP \in {Provider, NoProvider}, NEW p \in {Provider, NoProvider}
    PROVE  Reg!Reconcile(reg, c, old, new, oldP, p) \in Reg!Registration
<1> DEFINE overlap == Reg!Lesser(old, new)
           moved   == Reg!MoveOverlap(reg, oldP, p, overlap)
<1>1. overlap \in Nat
  BY DEF Reg!Lesser
<1> HIDE DEF overlap
<1>2. moved \in Reg!Registration
  <2>1. Reg!Withdraw(reg.providers, oldP, overlap) \in [{Provider} -> Nat]
    BY <1>1, ProvideTyped DEF Reg!Registration
  <2>2. [reg EXCEPT !.providers = Reg!Withdraw(reg.providers, oldP, overlap)]
          \in Reg!Registration
    BY <2>1, SetProvidersTyped
  <2> QED
    BY <2>2 DEF Reg!MoveOverlap, Reg!Registration
<1> HIDE DEF moved
<1>3. ASSUME NEW r \in Reg!Registration
      PROVE  Reg!RefreshBinding(r, c, oldP, p, overlap) \in Reg!Registration
  <2>1. Reg!Unblock(r, c) \in Reg!Registration
    BY UnblockTyped
  <2>2. Reg!Provide(Reg!Unblock(r, c).providers, p, overlap) \in [{Provider} -> Nat]
    BY <1>1, <2>1, ProvideTyped DEF Reg!Registration
  <2>3. [Reg!Unblock(r, c) EXCEPT !.providers =
            Reg!Provide(Reg!Unblock(r, c).providers, p, overlap)] \in Reg!Registration
    BY <2>1, <2>2, SetProvidersTyped
  <2> QED
    BY <2>1, <2>3 DEF Reg!RefreshBinding, Reg!Registration
<1>4. Reg!removeModelRegistration(moved, c, oldP, old) \in Reg!Registration
  BY <1>2, RemoveTyped
<1>5. new < old =>
        Reg!RefreshBinding(Reg!removeModelRegistration(moved, c, oldP, old - new),
                           c, oldP, p, overlap) \in Reg!Registration
  <2>1. new < old => old - new \in Nat
    OBVIOUS
  <2>2. new < old =>
          Reg!removeModelRegistration(moved, c, oldP, old - new) \in Reg!Registration
    BY <1>2, <2>1, RemoveTyped
  <2> QED
    BY <1>3, <2>2
<1>6. ~ (new < old) =>
        Reg!RefreshBinding(Reg!addModelRegistration(moved, p, new - old),
                           c, oldP, p, overlap) \in Reg!Registration
  <2>1. ~ (new < old) => new - old \in Nat
    OBVIOUS
  <2>2. ~ (new < old) =>
          Reg!addModelRegistration(moved, p, new - old) \in Reg!Registration
    BY <1>2, <2>1, AddTyped
  <2> QED
    BY <1>3, <2>2
<1> QED
  BY <1>4, <1>5, <1>6 DEF Reg!Reconcile, overlap, moved

(* What a client's registration or withdrawal does to the registry. *)
Rebound(c, list) ==
    /\ Reg!TypeOK' /\ cache' = None /\ now' = now
    /\ clientModels' = [clientModels EXCEPT ![c] = list]

LEMMA ReboundFrom ==
    ASSUME Reg!TypeOK, NEW c \in Owners, NEW list \in Reg!ModelLists,
           NEW p \in {Provider, NoProvider},
           models' \in [Models -> Reg!Registration],
           clientModels' = [clientModels EXCEPT ![c] = list],
           clientProviders' = [clientProviders EXCEPT ![c] = p],
           cache' = None, now' = now, asOf' = asOf
    PROVE  Rebound(c, list)
<1>1. clientModels' \in [Owners -> Reg!ModelLists]
  BY RegistryTypes
<1>2. clientProviders' \in [Owners -> {Provider} \cup {NoProvider}]
  BY RegistryTypes
<1>3. cache' \in Reg!CacheEntry \cup {Reg!NoCache}
  BY DEF Reg!NoCache
<1> QED
  BY <1>1, <1>2, <1>3 DEF Rebound, Reg!TypeOK, Reg!Time, Owners

LEMMA WithdrawnTyped ==
    ASSUME Reg!TypeOK, NEW c \in Owners, Reg!unregisterClientInternal(c)
    PROVE  /\ models' \in [Models -> Reg!Registration]
           /\ Reg!NoModels \in Reg!ModelLists
<1>1. ASSUME NEW m \in Models
      PROVE  Reg!removeModelRegistration(models[m], c, clientProviders[c],
                 clientModels[c][m]) \in Reg!Registration
  <2>1. clientModels[c][m] \in Nat
    BY RegistryTypes DEF Reg!ModelLists
  <2>2. models[m] \in Reg!Registration /\ clientProviders[c] \in {Provider, NoProvider}
    BY RegistryTypes
  <2> QED
    BY <2>1, <2>2, RemoveTyped
<1>2. \A m \in Models : models[m] \in Reg!Registration
  BY RegistryTypes
<1> QED
  BY <1>1, <1>2 DEF Reg!unregisterClientInternal, Reg!NoModels, Reg!ModelLists

LEMMA UnregisterRebinds ==
    ASSUME Reg!TypeOK, NEW c \in Owners, Reg!UnregisterClient(c)
    PROVE  Rebound(c, Reg!NoModels)
<1>1. Reg!unregisterClientInternal(c)
  BY DEF Reg!UnregisterClient
<1>2. /\ clientModels' = [clientModels EXCEPT ![c] = Reg!NoModels]
      /\ clientProviders' = [clientProviders EXCEPT ![c] = NoProvider]
      /\ cache' = None /\ now' = now /\ asOf' = asOf
  BY DEF Reg!UnregisterClient, Reg!unregisterClientInternal, Reg!NoCache
<1> QED
  BY <1>1, <1>2, WithdrawnTyped, ReboundFrom

LEMMA RegisterRebinds ==
    ASSUME Reg!TypeOK, NEW c \in Owners, NEW list \in Reg!BoundedLists,
           Reg!RegisterClient(c, Provider, list)
    PROVE  Rebound(c, list)
<1>1. list \in Reg!ModelLists
  BY DEF Reg!BoundedLists
<1>2. cache' = None /\ now' = now /\ asOf' = asOf
  BY DEF Reg!RegisterClient, Reg!NoCache
<1>3. CASE list = Reg!NoModels
  <2>1. Reg!unregisterClientInternal(c)
    BY <1>3 DEF Reg!RegisterClient
  <2>2. /\ clientModels' = [clientModels EXCEPT ![c] = list]
        /\ clientProviders' = [clientProviders EXCEPT ![c] = NoProvider]
    BY <1>3, <2>1 DEF Reg!unregisterClientInternal
  <2> QED
    BY <1>1, <1>2, <2>1, <2>2, WithdrawnTyped, ReboundFrom
<1>4. CASE list # Reg!NoModels
  <2>1. /\ clientModels' = [clientModels EXCEPT ![c] = list]
        /\ clientProviders' = [clientProviders EXCEPT ![c] = Provider]
        /\ Reg!PureAddition(c, Provider, list)
             \/ Reg!ReconcileExisting(c, Provider, list)
    BY <1>4 DEF Reg!RegisterClient
  <2>2. ASSUME NEW m \in Models
        PROVE  /\ models[m] \in Reg!Registration
               /\ list[m] \in 0..1 /\ clientModels[c][m] \in 0..1
               /\ clientProviders[c] \in {Provider, NoProvider}
    BY <1>1, RegistryTypes DEF Reg!ModelLists
  <2>3. ASSUME NEW m \in Models
        PROVE  Reg!addModelRegistration(models[m], Provider, list[m])
                 \in Reg!Registration
    BY <2>2, AddTyped
  <2>4. ASSUME NEW m \in Models
        PROVE  Reg!Reconcile(models[m], c, clientModels[c][m], list[m],
                   clientProviders[c], Provider) \in Reg!Registration
    BY <2>2, ReconcileTyped
  <2>5. Reg!PureAddition(c, Provider, list)
          => models' \in [Models -> Reg!Registration]
    BY <2>2, <2>3 DEF Reg!PureAddition
  <2>6. Reg!ReconcileExisting(c, Provider, list)
          => models' \in [Models -> Reg!Registration]
    BY <2>4 DEF Reg!ReconcileExisting
  <2> QED
    BY <1>1, <1>2, <2>1, <2>5, <2>6, ReboundFrom
<1> QED
  BY <1>3, <1>4

(* A mark leaves the bindings alone. *)
LEMMA MarksBindNothing ==
    ASSUME Reg!TypeOK, now \in 0..MaxNow, NEW m \in Models,
           NEW reason \in Reg!Reasons \cup {None},
           \/ Reg!SetModelQuotaExceeded(Self, m)
           \/ Reg!ClearModelQuotaExceeded(Self, m)
           \/ Reg!SuspendClientModel(Self, m, reason)
           \/ Reg!ResumeClientModel(Self, m)
    PROVE  /\ Reg!TypeOK' /\ cache' = None /\ now' = now
           /\ clientModels' = clientModels
<1>1. /\ clientModels' = clientModels /\ clientProviders' = clientProviders
      /\ asOf' = asOf /\ now' = now /\ cache' = None
  BY DEF Reg!SetModelQuotaExceeded, Reg!ClearModelQuotaExceeded,
         Reg!SuspendClientModel, Reg!ResumeClientModel, Reg!NoCache
<1>2. models \in [Models -> Reg!Registration] /\ Self \in Owners
  BY RegistryTypes DEF Owners
<1>3. /\ models[m].quota \in [Owners -> (0..MaxNow) \cup {None}]
      /\ models[m].suspended \in [Owners -> Reg!Reasons \cup {None}]
      /\ models[m] \in Reg!Registration
  BY <1>2 DEF Reg!Registration, Reg!Time, Owners
<1>4. ASSUME NEW q \in (0..MaxNow) \cup {None}
      PROVE  [models[m] EXCEPT !.quota[Self] = q] \in Reg!Registration
  <2>1. [models[m].quota EXCEPT ![Self] = q] \in [Owners -> (0..MaxNow) \cup {None}]
    BY <1>3
  <2> QED
    BY <1>3, <2>1 DEF Reg!Registration, Reg!Time, Owners
<1>5. ASSUME NEW q \in Reg!Reasons \cup {None}
      PROVE  [models[m] EXCEPT !.suspended[Self] = q] \in Reg!Registration
  <2>1. [models[m].suspended EXCEPT ![Self] = q] \in [Owners -> Reg!Reasons \cup {None}]
    BY <1>3
  <2> QED
    BY <1>3, <2>1 DEF Reg!Registration, Owners
<1>6. \/ \E q \in (0..MaxNow) \cup {None} :
            models' = [models EXCEPT ![m] = [models[m] EXCEPT !.quota[Self] = q]]
      \/ \E q \in Reg!Reasons \cup {None} :
            models' = [models EXCEPT ![m] = [models[m] EXCEPT !.suspended[Self] = q]]
  BY <1>2 DEF Reg!SetModelQuotaExceeded, Reg!ClearModelQuotaExceeded,
         Reg!SuspendClientModel, Reg!ResumeClientModel
<1>7. models' \in [Models -> Reg!Registration]
  BY <1>2, <1>4, <1>5, <1>6
<1> QED
  BY <1>1, <1>7 DEF Reg!TypeOK, Reg!NoCache, Reg!Time

(* Time may pass between any two critical sections. *)
LEMMA RegistryWaits ==
    ASSUME Reg!TypeOK, cache = None, UNCHANGED registryVars, now' \in 0..MaxNow
    PROVE  Reg!TypeOK' /\ cache' = None
BY DEF Reg!TypeOK, registryVars, Reg!Time, Reg!NoCache, Reg!Registration

----------------------------------------------------------------------------
(* What is left of a handler. *)

NoAnswer(s) == \A i \in DOMAIN s : s[i].op # "answer"

LEMMA TailOf ==
    ASSUME NEW S, NEW s \in Seq(S), s # <<>>
    PROVE  /\ Tail(s) \in Seq(S) /\ Head(s) = s[1] /\ Head(s) \in S
           /\ Len(s) \in Nat /\ Len(s) > 0 /\ Len(Tail(s)) = Len(s) - 1
           /\ DOMAIN s = 1..Len(s)
           /\ DOMAIN Tail(s) = 1..(Len(s) - 1)
           /\ \A i \in DOMAIN Tail(s) : Tail(s)[i] = s[i + 1] /\ i + 1 \in DOMAIN s
OBVIOUS

LEMMA ConcatOf ==
    ASSUME NEW S, NEW a \in Seq(S), NEW b \in Seq(S)
    PROVE  /\ a \o b \in Seq(S)
           /\ Len(a) \in Nat /\ Len(b) \in Nat
           /\ DOMAIN a = 1..Len(a) /\ DOMAIN b = 1..Len(b)
           /\ DOMAIN (a \o b) = 1..(Len(a) + Len(b))
           /\ \A i \in DOMAIN a : (a \o b)[i] = a[i] /\ i \in DOMAIN (a \o b)
           /\ \A i \in DOMAIN b : /\ (a \o b)[Len(a) + i] = b[i]
                                  /\ Len(a) + i \in DOMAIN (a \o b)
           /\ \A k \in DOMAIN (a \o b) : \/ k \in DOMAIN a
                                         \/ k - Len(a) \in DOMAIN b
OBVIOUS

LEMMA FollowedTail ==
    ASSUME NEW S, NEW s \in Seq(S), s # <<>>, Followed(s)
    PROVE  /\ Followed(Tail(s))
           /\ Head(s).op \in Rebinding => Due(Tail(s))
<1> DEFINE r == Tail(s)
<1>1. /\ DOMAIN s = 1..Len(s) /\ Len(s) \in Nat /\ Len(s) > 0
      /\ DOMAIN r = 1..(Len(s) - 1)
      /\ \A i \in DOMAIN r : r[i] = s[i + 1] /\ i + 1 \in DOMAIN s
      /\ Head(s) = s[1]
  BY TailOf
<1> HIDE DEF r
<1>2. ASSUME NEW j \in DOMAIN s, 1 < j
      PROVE  j - 1 \in DOMAIN r /\ r[j - 1] = s[j]
  <2>1. j - 1 \in DOMAIN r /\ (j - 1) + 1 = j
    BY <1>1, <1>2
  <2> QED
    BY <1>1, <2>1
<1>3. ASSUME NEW i \in DOMAIN r, r[i].op \in Rebinding
      PROVE  \E j \in DOMAIN r : i < j /\ r[j].op \in BeforeUpsert
  <2>1. i + 1 \in DOMAIN s /\ s[i + 1].op \in Rebinding
    BY <1>1, <1>3
  <2>2. PICK j \in DOMAIN s : i + 1 < j /\ s[j].op \in BeforeUpsert
    BY <2>1 DEF Followed
  <2>3. i \in Nat /\ j \in Nat /\ 1 < j /\ i < j - 1
    BY <1>1, <2>2
  <2> QED
    BY <1>2, <2>2, <2>3
<1>4. ASSUME Head(s).op \in Rebinding
      PROVE  Due(r)
  <2>1. 1 \in DOMAIN s /\ s[1].op \in Rebinding
    BY <1>1, <1>4
  <2>2. PICK j \in DOMAIN s : 1 < j /\ s[j].op \in BeforeUpsert
    BY <2>1 DEF Followed
  <2> QED
    BY <1>2, <2>2 DEF Due
<1> QED
  BY <1>3, <1>4 DEF Followed, r

LEMMA FollowedConcat ==
    ASSUME NEW S, NEW a \in Seq(S), NEW b \in Seq(S), Followed(a), Followed(b)
    PROVE  Followed(a \o b)
<1> DEFINE s == a \o b
<1>1. /\ Len(a) \in Nat /\ DOMAIN a = 1..Len(a) /\ DOMAIN b = 1..Len(b)
      /\ \A i \in DOMAIN a : s[i] = a[i] /\ i \in DOMAIN s
      /\ \A i \in DOMAIN b : s[Len(a) + i] = b[i] /\ Len(a) + i \in DOMAIN s
      /\ \A k \in DOMAIN s : k \in Int /\ (k \in DOMAIN a \/ k - Len(a) \in DOMAIN b)
  BY ConcatOf
<1> HIDE DEF s
<1>2. ASSUME NEW k \in DOMAIN s, s[k].op \in Rebinding
      PROVE  \E j \in DOMAIN s : k < j /\ s[j].op \in BeforeUpsert
  <2>1. CASE k \in DOMAIN a
    <3>1. PICK j \in DOMAIN a : k < j /\ a[j].op \in BeforeUpsert
      BY <1>1, <1>2, <2>1 DEF Followed
    <3> QED
      BY <1>1, <3>1
  <2>2. CASE k - Len(a) \in DOMAIN b
    <3> DEFINE i == k - Len(a)
    <3>1. i \in DOMAIN b /\ Len(a) + i = k
      BY <1>1, <2>2
    <3>2. b[i] = s[k]
      BY <1>1, <3>1
    <3>3. PICK j \in DOMAIN b : i < j /\ b[j].op \in BeforeUpsert
      BY <1>2, <3>1, <3>2 DEF Followed
    <3>4. k < Len(a) + j /\ s[Len(a) + j] = b[j] /\ Len(a) + j \in DOMAIN s
      BY <1>1, <3>1, <3>3
    <3> QED
      BY <3>3, <3>4
  <2> QED
    BY <1>1, <2>1, <2>2
<1> QED
  BY <1>2 DEF Followed, s

LEMMA DueConcat ==
    ASSUME NEW S, NEW a \in Seq(S), NEW b \in Seq(S), Due(a) \/ Due(b)
    PROVE  Due(a \o b)
<1> DEFINE s == a \o b
<1>1. /\ \A i \in DOMAIN a : s[i] = a[i] /\ i \in DOMAIN s
      /\ \A i \in DOMAIN b : s[Len(a) + i] = b[i] /\ Len(a) + i \in DOMAIN s
  BY ConcatOf
<1> HIDE DEF s
<1>2. Due(a) => Due(s)
  BY <1>1 DEF Due
<1>3. Due(b) => Due(s)
  BY <1>1 DEF Due
<1> QED
  BY <1>2, <1>3 DEF s

LEMMA DueTail ==
    ASSUME NEW S, NEW s \in Seq(S), s # <<>>, Due(s), Head(s).op \notin BeforeUpsert
    PROVE  Due(Tail(s))
<1> DEFINE r == Tail(s)
<1>1. /\ DOMAIN s = 1..Len(s) /\ Len(s) \in Nat
      /\ DOMAIN r = 1..(Len(s) - 1)
      /\ \A i \in DOMAIN r : r[i] = s[i + 1]
      /\ Head(s) = s[1]
  BY TailOf
<1> HIDE DEF r
<1>2. PICK j \in DOMAIN s : s[j].op \in BeforeUpsert
  BY DEF Due
<1>3. j # 1 /\ j - 1 \in DOMAIN r /\ (j - 1) + 1 = j
  BY <1>1, <1>2
<1>4. r[j - 1].op \in BeforeUpsert
  BY <1>1, <1>2, <1>3
<1> QED
  BY <1>3, <1>4 DEF Due, r

LEMMA NoAnswerConcat ==
    ASSUME NEW S, NEW a \in Seq(S), NEW b \in Seq(S), NoAnswer(a), NoAnswer(b)
    PROVE  NoAnswer(a \o b)
<1> DEFINE s == a \o b
<1>1. /\ Len(a) \in Nat
      /\ \A i \in DOMAIN a : s[i] = a[i]
      /\ \A i \in DOMAIN b : s[Len(a) + i] = b[i]
      /\ \A k \in DOMAIN s : k \in Int /\ (k \in DOMAIN a \/ k - Len(a) \in DOMAIN b)
  BY ConcatOf
<1> HIDE DEF s
<1>2. ASSUME NEW k \in DOMAIN s
      PROVE  s[k].op # "answer"
  <2>1. CASE k \in DOMAIN a
    BY <1>1, <2>1 DEF NoAnswer
  <2>2. CASE k - Len(a) \in DOMAIN b
    <3>1. s[k] = b[k - Len(a)]
      <4>1. Len(a) + (k - Len(a)) = k
        BY <1>1
      <4> QED
        BY <1>1, <2>2, <4>1
    <3> QED
      BY <2>2, <3>1 DEF NoAnswer
  <2> QED
    BY <1>1, <2>1, <2>2
<1> QED
  BY <1>2 DEF NoAnswer, s

LEMMA SectionKinds ==
    ASSUME NEW at, NEW s \in Sections(at)
    PROVE  /\ s.op = "upsert" => s.auth \in Good(at) \cup {Live}
           /\ s.op \in {"update", "register"} => s.auth \in Good(at)
           /\ s.op = "reconcile" => s.supported \subseteq Models
           /\ s.op \in Marks \cup {"answer"} => s.model \in Models
           /\ s.op \in Marks => s.reason \in Reg!Reasons \cup {None}
BY DEF Sections, Marks

LEMMA SectionsMade ==
    ASSUME NEW at, NEW a \in Good(at)
    PROVE  /\ \A op \in {"read", "refresh", "fetch", "latest", "unregister"} :
                 Section(op) \in Sections(at) /\ Section(op).op = op
           /\ Upsert(a) \in Sections(at) /\ Upsert(a).op = "upsert" /\ Upsert(a).auth = a
           /\ Upsert(Live) \in Sections(at) /\ Upsert(Live).op = "upsert"
           /\ Upsert(Live).auth = Live
           /\ UpdateTo(a) \in Sections(at) /\ UpdateTo(a).op = "update"
           /\ UpdateTo(a).auth = a
           /\ RegisterModels(a) \in Sections(at) /\ RegisterModels(a).op = "register"
           /\ RegisterModels(a).auth = a
BY DEF Sections, Section, Upsert, UpdateTo, RegisterModels

(* A critical section of t gives way to the sections that follow from it.  *)
Continues(t, sections) ==
    /\ ~ Idle(t)
    /\ sections \in Seq(Sections(now)) /\ NoAnswer(sections) /\ Followed(sections)
    /\ Then(t, sections)

LEMMA ContinuesAs ==
    ASSUME NEW t \in Threads, NEW sections, Continues(t, sections),
           pending \in [Threads -> Seq(Sections(now))]
    PROVE  /\ pending[t] \in Seq(Sections(now)) /\ pending[t] # <<>>
           /\ pending'[t] = sections \o Tail(pending[t])
           /\ \A u \in Threads \ {t} : pending'[u] = pending[u]
           /\ DOMAIN pending' = Threads
BY DEF Continues, Then, Idle

LEMMA ContinuesTyped ==
    ASSUME NEW t \in Threads, NEW sections, Continues(t, sections), now' = now,
           pending \in [Threads -> Seq(Sections(now))], Answers, Followups
    PROVE  /\ pending' \in [Threads -> Seq(Sections(now'))]
           /\ Answers' /\ Followups'
<1> DEFINE S == Sections(now)
           s == pending[t]
           r == Tail(s)
<1>1. /\ s \in Seq(S) /\ s # <<>> /\ DOMAIN pending' = Threads
      /\ pending'[t] = sections \o r
      /\ \A u \in Threads \ {t} : pending'[u] = pending[u]
  BY ContinuesAs
<1>2. sections \in Seq(S) /\ NoAnswer(sections) /\ Followed(sections)
  BY DEF Continues
<1>3. \A i \in DOMAIN s : s[i].op = "answer" => Len(s) = 1
  BY DEF Answers
<1>4. Followed(s)
  BY DEF Followups
<1>9. /\ pending' = [u \in Threads |-> pending'[u]]
      /\ \A u \in Threads : pending[u] \in Seq(S)
  <2>1. pending' = [pending EXCEPT ![t] = sections \o Tail(pending[t])]
    BY DEF Continues, Then
  <2> QED
    BY <2>1
<1> HIDE DEF s, S
<1>5. /\ r \in Seq(S) /\ Len(s) \in Nat /\ DOMAIN r = 1..(Len(s) - 1)
      /\ \A i \in DOMAIN r : r[i] = s[i + 1] /\ i + 1 \in DOMAIN s
  BY <1>1, TailOf
<1>6. NoAnswer(r)
  BY <1>3, <1>5 DEF NoAnswer
<1>7. Followed(r)
  BY <1>1, <1>4, FollowedTail
<1> HIDE DEF r
<1>8. /\ sections \o r \in Seq(S) /\ NoAnswer(sections \o r)
      /\ Followed(sections \o r)
  BY <1>2, <1>5, <1>6, <1>7, ConcatOf, NoAnswerConcat, FollowedConcat
<1>10. \A u \in Threads : pending'[u] \in Seq(S)
  BY <1>1, <1>8, <1>9
<1>11. Answers'
  <2>1. ASSUME NEW u \in Threads, NEW i \in DOMAIN pending'[u],
               pending'[u][i].op = "answer"
        PROVE  Len(pending'[u]) = 1
    <3>1. CASE u = t
      BY <1>1, <1>8, <2>1, <3>1 DEF NoAnswer
    <3>2. CASE u # t
      BY <1>1, <2>1, <3>2 DEF Answers
    <3> QED
      BY <3>1, <3>2
  <2> QED
    BY <2>1 DEF Answers
<1>12. \A u \in Threads : Followed(pending'[u])
  <2>1. \A u \in Threads \ {t} : Followed(pending'[u])
    BY <1>1 DEF Followups
  <2> QED
    BY <1>1, <1>8, <2>1
<1>13. Followups'
  BY <1>12 DEF Followups, Followed
<1> QED
  BY <1>9, <1>10, <1>11, <1>13 DEF S

LEMMA ContinuesDue ==
    ASSUME NEW t \in Threads, NEW sections, Continues(t, sections),
           pending \in [Threads -> Seq(Sections(now))],
           Head(pending[t]).op \in BeforeUpsert => Due(sections),
           NEW u \in Threads, Due(pending[u])
    PROVE  Due(pending'[u])
<1>1. /\ pending[t] \in Seq(Sections(now)) /\ pending[t] # <<>>
      /\ pending'[t] = sections \o Tail(pending[t])
      /\ \A v \in Threads \ {t} : pending'[v] = pending[v]
      /\ sections \in Seq(Sections(now)) /\ Tail(pending[t]) \in Seq(Sections(now))
  BY ContinuesAs, TailOf DEF Continues
<1>2. CASE u # t
  BY <1>1, <1>2
<1>3. CASE u = t
  <2>1. Due(sections) \/ Due(Tail(pending[t]))
    BY <1>1, <1>3, DueTail
  <2> QED
    BY <1>1, <1>3, <2>1, DueConcat
<1> QED
  BY <1>2, <1>3

----------------------------------------------------------------------------
(* The lists of sections that handlers start with or go on with. *)

LEMMA NoSections ==
    ASSUME NEW S
    PROVE  <<>> \in Seq(S) /\ NoAnswer(<<>>) /\ Followed(<<>>)
BY DEF NoAnswer, Followed

LEMMA OneSection ==
    ASSUME NEW S, NEW x \in S, x.op # "answer", x.op \notin Rebinding
    PROVE  /\ <<x>> \in Seq(S) /\ NoAnswer(<<x>>) /\ Followed(<<x>>)
           /\ x.op \in BeforeUpsert => Due(<<x>>)
BY DEF NoAnswer, Followed, Due

LEMMA TwoSections ==
    ASSUME NEW S, NEW x \in S, NEW y \in S,
           x.op # "answer", y.op = "refresh"
    PROVE  /\ <<x, y>> \in Seq(S) /\ NoAnswer(<<x, y>>) /\ Followed(<<x, y>>)
           /\ Due(<<x, y>>)
BY DEF NoAnswer, Followed, Due, Rebinding, BeforeUpsert

LEMMA ThreeSections ==
    ASSUME NEW S, NEW x \in S, NEW y \in S, NEW z \in S,
           x.op # "answer", y.op = "read", z.op \in {"refresh", "latest"}
    PROVE  /\ <<x, y, z>> \in Seq(S) /\ NoAnswer(<<x, y, z>>)
           /\ Followed(<<x, y, z>>) /\ Due(<<x, y, z>>)
<1> DEFINE s == <<x, y, z>>
<1>1. s \in Seq(S)
  OBVIOUS
<1>2. DOMAIN s = 1..3 /\ s[1] = x /\ s[2] = y /\ s[3] = z
  OBVIOUS
<1> HIDE DEF s
<1>3. \A i \in DOMAIN s : i \in {1, 2, 3}
  BY <1>2
<1>4. NoAnswer(s)
  BY <1>2, <1>3 DEF NoAnswer
<1>5. 3 \in DOMAIN s /\ s[3].op \in BeforeUpsert
  BY <1>2 DEF BeforeUpsert
<1>6. ASSUME NEW i \in DOMAIN s, s[i].op \in Rebinding
      PROVE  i < 3
  <2>1. s[3].op \notin Rebinding
    BY <1>2 DEF Rebinding
  <2>2. i # 3
    BY <1>6, <2>1
  <2> QED
    BY <1>3, <2>2
<1>7. Followed(s) /\ Due(s)
  BY <1>5, <1>6 DEF Followed, Due
<1> QED
  BY <1>1, <1>4, <1>7 DEF s

LEMMA Joined ==
    ASSUME NEW S, NEW a \in Seq(S), NEW b \in Seq(S), NEW c \in Seq(S),
           Len(c) = Len(a) + Len(b),
           \A i \in 1..Len(c) :
               c[i] = IF i <= Len(a) THEN a[i] ELSE b[i - Len(a)]
    PROVE  a \o b = c
<1>1. /\ a \o b \in Seq(S) /\ Len(a \o b) = Len(c)
      /\ \A i \in 1..Len(c) : (a \o b)[i] = c[i]
  BY ConcatProperties
<1> QED
  BY <1>1, SeqEqual

LEMMA OneAndOne ==
    ASSUME NEW x, NEW y
    PROVE  <<x>> \o <<y>> = <<x, y>>
<1> DEFINE S == {x, y}
           a == <<x>>
           b == <<y>>
           c == <<x, y>>
<1>1. a \in Seq(S) /\ b \in Seq(S) /\ c \in Seq(S)
  OBVIOUS
<1>2. Len(a) = 1 /\ Len(b) = 1 /\ Len(c) = 2
  OBVIOUS
<1>3. \A i \in 1..2 : i = 1 \/ i = 2
  OBVIOUS
<1>4. c[1] = a[1] /\ c[2] = b[1]
  OBVIOUS
<1> HIDE DEF S, a, b, c
<1>5. \A i \in 1..Len(c) :
          c[i] = IF i <= Len(a) THEN a[i] ELSE b[i - Len(a)]
  BY <1>2, <1>3, <1>4
<1>6. Len(c) = Len(a) + Len(b)
  BY <1>2
<1>7. a \o b = c
  BY <1>1, <1>5, <1>6, Joined, Zenon
<1> QED
  BY <1>7 DEF a, b, c

LEMMA TwoAndOne ==
    ASSUME NEW x, NEW y, NEW z
    PROVE  <<x, y>> \o <<z>> = <<x, y, z>>
<1> DEFINE S == {x, y, z}
           a == <<x, y>>
           b == <<z>>
           c == <<x, y, z>>
<1>1. a \in Seq(S) /\ b \in Seq(S) /\ c \in Seq(S)
  OBVIOUS
<1>2. Len(a) = 2 /\ Len(b) = 1 /\ Len(c) = 3
  OBVIOUS
<1>3. \A i \in 1..3 : i = 1 \/ i = 2 \/ i = 3
  OBVIOUS
<1>4. c[1] = a[1] /\ c[2] = a[2] /\ c[3] = b[1]
  OBVIOUS
<1> HIDE DEF S, a, b, c
<1>5. \A i \in 1..Len(c) :
          c[i] = IF i <= Len(a) THEN a[i] ELSE b[i - Len(a)]
  BY <1>2, <1>3, <1>4
<1>6. Len(c) = Len(a) + Len(b)
  BY <1>2
<1>7. a \o b = c
  BY <1>1, <1>5, <1>6, Joined, Zenon
<1> QED
  BY <1>7 DEF a, b, c

LEMMA OneAndTwo ==
    ASSUME NEW x, NEW y, NEW z
    PROVE  <<x>> \o <<y, z>> = <<x, y, z>>
<1> DEFINE S == {x, y, z}
           a == <<x>>
           b == <<y, z>>
           c == <<x, y, z>>
<1>1. a \in Seq(S) /\ b \in Seq(S) /\ c \in Seq(S)
  OBVIOUS
<1>2. Len(a) = 1 /\ Len(b) = 2 /\ Len(c) = 3
  OBVIOUS
<1>3. \A i \in 1..3 : i = 1 \/ i = 2 \/ i = 3
  OBVIOUS
<1>4. c[1] = a[1] /\ c[2] = b[1] /\ c[3] = b[2]
  OBVIOUS
<1> HIDE DEF S, a, b, c
<1>5. \A i \in 1..Len(c) :
          c[i] = IF i <= Len(a) THEN a[i] ELSE b[i - Len(a)]
  BY <1>2, <1>3, <1>4
<1>6. Len(c) = Len(a) + Len(b)
  BY <1>2
<1>7. a \o b = c
  BY <1>1, <1>5, <1>6, Joined, Zenon
<1> QED
  BY <1>7 DEF a, b, c

LEMMA OneAndThree ==
    ASSUME NEW x, NEW y, NEW z, NEW w
    PROVE  <<x>> \o <<y, z, w>> = <<x, y, z, w>>
<1> DEFINE S == {x, y, z, w}
           a == <<x>>
           b == <<y, z, w>>
           c == <<x, y, z, w>>
<1>1. a \in Seq(S) /\ b \in Seq(S) /\ c \in Seq(S)
  OBVIOUS
<1>2. Len(a) = 1 /\ Len(b) = 3 /\ Len(c) = 4
  OBVIOUS
<1>3. \A i \in 1..4 : i = 1 \/ i = 2 \/ i = 3 \/ i = 4
  OBVIOUS
<1>4. c[1] = a[1] /\ c[2] = b[1] /\ c[3] = b[2] /\ c[4] = b[3]
  OBVIOUS
<1> HIDE DEF S, a, b, c
<1>5. \A i \in 1..Len(c) :
          c[i] = IF i <= Len(a) THEN a[i] ELSE b[i - Len(a)]
  BY <1>2, <1>3, <1>4
<1>6. Len(c) = Len(a) + Len(b)
  BY <1>2
<1>7. a \o b = c
  BY <1>1, <1>5, <1>6, Joined, Zenon
<1> QED
  BY <1>7 DEF a, b, c

LEMMA ThreeAndOne ==
    ASSUME NEW x, NEW y, NEW z, NEW w
    PROVE  <<x, y, z>> \o <<w>> = <<x, y, z, w>>
<1> DEFINE S == {x, y, z, w}
           a == <<x, y, z>>
           b == <<w>>
           c == <<x, y, z, w>>
<1>1. a \in Seq(S) /\ b \in Seq(S) /\ c \in Seq(S)
  OBVIOUS
<1>2. Len(a) = 3 /\ Len(b) = 1 /\ Len(c) = 4
  OBVIOUS
<1>3. \A i \in 1..4 : i = 1 \/ i = 2 \/ i = 3 \/ i = 4
  OBVIOUS
<1>4. c[1] = a[1] /\ c[2] = a[2] /\ c[3] = a[3] /\ c[4] = b[1]
  OBVIOUS
<1> HIDE DEF S, a, b, c
<1>5. \A i \in 1..Len(c) :
          c[i] = IF i <= Len(a) THEN a[i] ELSE b[i - Len(a)]
  BY <1>2, <1>3, <1>4
<1>6. Len(c) = Len(a) + Len(b)
  BY <1>2
<1>7. a \o b = c
  BY <1>1, <1>5, <1>6, Joined, Zenon
<1> QED
  BY <1>7 DEF a, b, c

LEMMA Reregistration ==
    ASSUME NEW a \in Good(now), NEW op \in {"refresh", "latest"}
    PROVE  LET s == Reregister(a) \o <<Section(op)>>
           IN  /\ s = <<RegisterModels(a), Section("read"), Section(op)>>
               /\ s \in Seq(Sections(now)) /\ NoAnswer(s) /\ Followed(s) /\ Due(s)
<1> DEFINE x == RegisterModels(a)
           y == Section("read")
           z == Section(op)
<1>1. /\ x \in Sections(now) /\ y \in Sections(now) /\ z \in Sections(now)
      /\ x.op = "register" /\ y.op = "read" /\ z.op = op
  BY SectionsMade
<1> HIDE DEF x, y, z
<1>2. Reregister(a) \o <<Section(op)>> = <<x, y, z>>
  BY TwoAndOne DEF Reregister, x, y, z
<1>3. /\ <<x, y, z>> \in Seq(Sections(now)) /\ NoAnswer(<<x, y, z>>)
      /\ Followed(<<x, y, z>>) /\ Due(<<x, y, z>>)
  BY <1>1, ThreeSections
<1> QED
  BY <1>2, <1>3 DEF x, y, z

LEMMA Addition ==
    ASSUME NEW a \in Good(now)
    PROVE  LET s == <<UpdateTo(a)>> \o Reregister(a) \o <<Section("refresh")>>
           IN  /\ s = <<UpdateTo(a), RegisterModels(a), Section("read"),
                        Section("refresh")>>
               /\ s \in Seq(Sections(now)) /\ NoAnswer(s) /\ Followed(s) /\ Due(s)
<1> DEFINE u == UpdateTo(a)
           x == RegisterModels(a)
           y == Section("read")
           z == Section("refresh")
<1>1. <<u>> \in Seq(Sections(now)) /\ NoAnswer(<<u>>) /\ Followed(<<u>>)
  BY SectionsMade, OneSection DEF Rebinding
<1>2. Reregister(a) = <<x, y>>
  BY DEF Reregister
<1>3. LET r == Reregister(a) \o <<Section("refresh")>>
      IN  /\ r = <<x, y, z>>
          /\ r \in Seq(Sections(now)) /\ NoAnswer(r) /\ Followed(r) /\ Due(r)
  BY Reregistration
<1> HIDE DEF u, x, y, z
<1>4. <<u>> \o <<x, y>> \o <<z>> = <<u, x, y, z>>
  <2>1. <<u>> \o <<x, y>> = <<u, x, y>>
    BY OneAndTwo
  <2>2. <<u, x, y>> \o <<z>> = <<u, x, y, z>>
    BY ThreeAndOne
  <2> QED
    BY <2>1, <2>2
<1>5. <<u>> \o <<x, y, z>> = <<u, x, y, z>>
  BY OneAndThree
<1> DEFINE s == <<u, x, y, z>>
           r == <<x, y, z>>
<1>6. r \in Seq(Sections(now)) /\ NoAnswer(r) /\ Followed(r) /\ Due(r)
  BY <1>3
<1> HIDE DEF r
<1>7. LET c == <<u>> \o r
      IN  c \in Seq(Sections(now)) /\ NoAnswer(c) /\ Followed(c) /\ Due(c)
  BY <1>1, <1>6, ConcatOf, NoAnswerConcat, FollowedConcat, DueConcat
<1>8. <<u>> \o r = s
  BY <1>5 DEF r
<1>9. <<UpdateTo(a)>> \o Reregister(a) \o <<Section("refresh")>> = s
  BY <1>2, <1>4 DEF u, z
<1> HIDE DEF s
<1> QED
  BY <1>7, <1>8, <1>9 DEF s, u, x, y, z

LEMMA CallsMade ==
    ASSUME NEW kind, NEW m \in Models
    PROVE  LET s == RegistryCalls(kind, m)
           IN  s \in Seq(Sections(now)) /\ OnlyMarks(s) /\ NoAnswer(s) /\ Followed(s)
<1> DEFINE T == [op : Marks, model : Models, reason : Reg!Reasons \cup {None}]
           s == RegistryCalls(kind, m)
<1>1. \A op \in Marks, r \in {"quota", "unauthorized", None} : Mark(op, m, r) \in T
  BY DEF Mark, Reg!Reasons, Reg!CooldownReason
<1> HIDE DEF T
<1>2. s \in Seq(T)
  BY <1>1 DEF RegistryCalls, Marks
<1> HIDE DEF s
<1>3. \A i \in DOMAIN s : s[i] \in T
  BY <1>2
<1>4. \A x \in T : x.op \in Marks /\ x \in Sections(now)
  BY DEF T, Sections
<1>5. \A i \in DOMAIN s : s[i].op \in Marks
  BY <1>3, <1>4
<1>6. s \in Seq(Sections(now))
  BY <1>2, <1>4
<1>7. NoAnswer(s) /\ Followed(s) /\ OnlyMarks(s)
  BY <1>5 DEF NoAnswer, Followed, OnlyMarks, Marks, Rebinding
<1> QED
  BY <1>6, <1>7 DEF s

----------------------------------------------------------------------------
(* What the actions of AuthState leave of a record. *)

LEMMA GoodRecords ==
    ASSUME now \in 0..MaxNow
    PROVE  /\ Fresh \in Good(now) /\ ~ Fresh.disabled
           /\ \A a \in Good(now) :
                 Withdrawn(a) \in Good(now) /\ Withdrawn(a).disabled
           /\ \A a, b \in Good(now) :
                 Updated(a, b) \in Good(now) /\ Updated(a, b).disabled = b.disabled
<1>1. now \in Nat
  BY StateConstants
<1>2. \A a : GoodAuth(a, now) => a \in AuthStates /\ a \in Good(now)
  BY DEF GoodAuth, Typed, Good
<1>3. \A a \in Good(now) : a \in AuthStates /\ GoodAuth(a, now)
  BY DEF Good
<1>4. Fresh \in Good(now) /\ ~ Fresh.disabled
  BY <1>1, <1>2, FreshGood DEF Fresh
<1>5. ASSUME NEW a \in Good(now)
      PROVE  Withdrawn(a) \in Good(now) /\ Withdrawn(a).disabled
  <2>1. GoodAuth(Withdrawn(a), now)
    BY <1>1, <1>3, WithdrawnGood
  <2>2. Withdrawn(a).disabled
    BY <1>3 DEF Withdrawn, AuthStates
  <2> QED
    BY <1>2, <2>1, <2>2
<1>6. ASSUME NEW a \in Good(now), NEW b \in Good(now)
      PROVE  Updated(a, b) \in Good(now) /\ Updated(a, b).disabled = b.disabled
  <2>1. GoodAuth(Updated(a, b), now)
    BY <1>1, <1>3, UpdatedGood
  <2>2. Updated(a, b).disabled = b.disabled
    BY <1>3 DEF Updated, AuthStates
  <2> QED
    BY <1>2, <2>1, <2>2
<1> QED
  BY <1>4, <1>5, <1>6

LEMMA AggregateKeepsDisabled ==
    ASSUME NEW a \in AuthStates, NEW at
    PROVE  /\ updateAggregatedAvailability(a, at).disabled = a.disabled
           /\ Settle(a, at).disabled = a.disabled
<1> DEFINE u == updateAggregatedAvailability(a, at)
<1>1. /\ u.disabled = a.disabled
      /\ DOMAIN u = DOMAIN a
  BY DEF updateAggregatedAvailability, AuthStates
<1>2. DOMAIN a = {"disabled", "status", "unavailable", "nextRetryAfter",
                  "quota", "states"}
  BY DEF AuthStates
<1> HIDE DEF u
<1>3. [u EXCEPT !.status = "active"].disabled = u.disabled
  BY <1>1, <1>2
<1>4. Settle(a, at) \in {u, [u EXCEPT !.status = "active"]}
  BY DEF Settle, u
<1> QED
  BY <1>1, <1>3, <1>4 DEF u

LEMMA MarkedKeeps ==
    ASSUME NEW a \in Good(now), now \in 0..MaxNow, cooling \in BOOLEAN,
           NEW m \in Models, NEW kind \in Kinds
    PROVE  /\ Marked(a, m, kind, None, cooling, now) \in Good(now)
           /\ Marked(a, m, kind, None, cooling, now).disabled = a.disabled
<1>1. now \in Nat /\ a \in AuthStates /\ GoodAuth(a, now)
  BY StateConstants DEF Good
<1>2. GoodAuth(Marked(a, m, kind, None, cooling, now), now)
  BY <1>1, MarkedGood
<1> DEFINE state  == IF a.states[m] = None THEN CleanState ELSE a.states[m]
           failed == FailedState(state, kind, None, cooling, now)
           b == [a EXCEPT !.states[m] = CleanState]
           c == [a EXCEPT !.states[m] = failed, !.status = "error"]
<1>3. CleanState \in ModelStates /\ GoodState(CleanState, now)
  BY <1>1, CleanStateGood DEF GoodState
<1>4. failed \in ModelStates
  <2>1. GoodState(state, now)
    BY <1>1, <1>3 DEF GoodAuth, GoodModels
  <2> HIDE DEF state
  <2>2. GoodState(FailedState(state, kind, None, cooling, now), now)
    BY <1>1, <2>1, FailedStateGood
  <2> QED
    BY <2>2 DEF GoodState
<1> HIDE DEF failed
<1>5. /\ b \in AuthStates /\ b.disabled = a.disabled
      /\ c \in AuthStates /\ c.disabled = a.disabled
  BY <1>1, <1>3, <1>4 DEF AuthStates
<1>6. Marked(a, m, kind, None, cooling, now) \in
        {a, Settle(b, now), updateAggregatedAvailability(c, now)}
  BY DEF Marked, ModelSuccess, ModelFailure, failed
<1> HIDE DEF b, c
<1>7. Marked(a, m, kind, None, cooling, now).disabled = a.disabled
  BY <1>1, <1>5, <1>6, AggregateKeepsDisabled
<1> QED
  BY <1>1, <1>2, <1>7 DEF Good, GoodAuth, Typed

LEMMA ReconciledKeeps ==
    ASSUME NEW a \in Good(now), now \in 0..MaxNow, NEW supported
    PROVE  /\ Reconciled(a, supported, now) \in Good(now)
           /\ Reconciled(a, supported, now).disabled = a.disabled
<1>1. now \in Nat /\ a \in AuthStates /\ GoodAuth(a, now)
  BY StateConstants DEF Good
<1>2. GoodAuth(Reconciled(a, supported, now), now)
  BY <1>1, ReconciledGood
<1> DEFINE dropped == Recorded(a) \ supported
           dirty   == {m \in Recorded(a) \cap supported :
                         a.states[m] # CleanState}
           states  == [m \in Models |-> IF m \in dropped THEN None
                                        ELSE IF m \in dirty THEN CleanState
                                        ELSE a.states[m]]
           b == [a EXCEPT !.states = states]
<1>3. CleanState \in ModelStates
  BY <1>1, CleanStateGood DEF GoodState
<1>4. states \in [Models -> ModelStates \cup {None}]
  BY <1>1, <1>3 DEF AuthStates
<1>5. Reconciled(a, supported, now) \in {a, Settle(b, now)}
  BY DEF Reconciled
<1> HIDE DEF states
<1>6. b \in AuthStates /\ b.disabled = a.disabled
  BY <1>1, <1>4 DEF AuthStates
<1> HIDE DEF b
<1>7. Reconciled(a, supported, now).disabled = a.disabled
  BY <1>5, <1>6, AggregateKeepsDisabled
<1> QED
  BY <1>1, <1>2, <1>7 DEF Good, GoodAuth, Typed

----------------------------------------------------------------------------
(* Every critical section but an update gives way to sections that follow. *)

LEMMA HeadOf ==
    ASSUME Shapes, NEW t \in Threads, ~ Idle(t)
    PROVE  /\ pending[t] \in Seq(Sections(now)) /\ pending[t] # <<>>
           /\ Head(pending[t]) \in Sections(now)
<1>1. pending[t] \in Seq(Sections(now)) /\ pending[t] # <<>>
  BY DEF Shapes, Idle
<1> QED
  BY <1>1, TailOf

LEMMA BoundTyped ==
    Bound \subseteq Models
BY DEF Bound

LEMMA ReboundSelf ==
    ASSUME Reg!TypeOK, Rebound(Self, Reg!NoModels)
    PROVE  Bound' = {}
<1>1. clientModels' = [clientModels EXCEPT ![Self] = Reg!NoModels]
  BY DEF Rebound
<1>2. clientModels'[Self] = [m \in Models |-> 0]
  BY <1>1, RegistryTypes DEF Owners, Reg!NoModels
<1> QED
  BY <1>2 DEF Bound

LEMMA ReboundOther ==
    ASSUME Reg!TypeOK, NEW c \in Others, NEW list, Rebound(c, list)
    PROVE  Bound' = Bound
<1>1. clientModels' = [clientModels EXCEPT ![c] = list] /\ c # Self
  BY ManagerConstants DEF Rebound
<1>2. clientModels'[Self] = clientModels[Self]
  BY <1>1, RegistryTypes DEF Owners
<1> QED
  BY <1>2 DEF Bound

(* The entry an upsert makes of a record. *)
Entry(a) ==
    IF Current(a).disabled THEN NotScheduled ELSE [auth |-> a, models |-> Bound]

LEMMA UpsertContinues ==
    ASSUME Shapes, NEW t \in Threads, UpsertAuth(t)
    PROVE  /\ Continues(t, <<>>) /\ Head(pending[t]).op = "upsert"
           /\ scheduled' = Entry(Head(pending[t]).auth)
           /\ Scheduling'
           /\ UNCHANGED <<stateVars, registryVars, overlapped>>
<1> DEFINE a == Head(pending[t]).auth
<1>1. ~ Idle(t) /\ Head(pending[t]).op = "upsert" /\ Then(t, <<>>)
  BY DEF UpsertAuth, At
<1>2. Continues(t, <<>>)
  BY <1>1, NoSections DEF Continues
<1>3. a \in AuthStates \cup {Live}
  BY <1>1, HeadOf, SectionKinds DEF Good
<1>4. /\ scheduled' = Entry(a)
      /\ UNCHANGED <<stateVars, registryVars, overlapped>>
  BY DEF UpsertAuth, Entry, Current
<1> HIDE DEF a
<1>5. [auth |-> a, models |-> Bound] \in Entries
  BY <1>3, BoundTyped DEF Entries
<1>6. auth' = auth
  BY <1>4 DEF stateVars
<1>7. Scheduling'
  <2>1. CASE Current(a).disabled
    BY <1>4, <2>1 DEF Scheduling, Entry, NotScheduled
  <2>2. CASE ~ Current(a).disabled
    <3>1. scheduled' = [auth |-> a, models |-> Bound]
      BY <1>4, <2>2 DEF Entry
    <3>2. scheduled'.auth = a
      BY <3>1
    <3>3. ~ (IF scheduled'.auth = Live THEN auth' ELSE scheduled'.auth).disabled
      BY <1>6, <2>2, <3>2 DEF Current
    <3> QED
      BY <1>5, <3>1, <3>3 DEF Scheduling, Current, Entries
  <2> QED
    BY <2>1, <2>2
<1> QED
  BY <1>1, <1>2, <1>4, <1>7 DEF a

LEMMA RegisterContinues ==
    ASSUME Shapes, NEW t \in Threads, Register(t)
    PROVE  /\ Continues(t, <<>>) /\ Head(pending[t]).op = "register"
           /\ Reg!TypeOK' /\ cache' = None
           /\ Head(pending[t]).auth.disabled => Bound' = {}
           /\ UNCHANGED <<stateVars, scheduled, overlapped>>
<1>1. ~ Idle(t) /\ Head(pending[t]).op = "register" /\ Then(t, <<>>)
  BY DEF Register, At
<1>2. Continues(t, <<>>)
  BY <1>1, NoSections DEF Continues
<1>3. Reg!TypeOK /\ Self \in Owners
  BY DEF Shapes, Owners
<1>4. UNCHANGED <<auth, cooling, scheduled, overlapped>>
  BY DEF Register
<1>5. CASE Head(pending[t]).auth.disabled
  <2>1. Reg!UnregisterClient(Self)
    BY <1>5 DEF Register
  <2>2. Rebound(Self, Reg!NoModels)
    BY <1>3, <2>1, UnregisterRebinds
  <2>3. Bound' = {}
    BY <1>3, <2>2, ReboundSelf
  <2> QED
    BY <1>1, <1>2, <1>4, <2>2, <2>3 DEF Rebound, stateVars
<1>6. CASE ~ Head(pending[t]).auth.disabled
  <2>1. PICK list \in Reg!BoundedLists : Reg!RegisterClient(Self, Provider, list)
    BY <1>6 DEF Register
  <2>2. Rebound(Self, list)
    BY <1>3, <2>1, RegisterRebinds
  <2> QED
    BY <1>1, <1>2, <1>4, <1>6, <2>2 DEF Rebound, stateVars
<1> QED
  BY <1>5, <1>6

LEMMA UnregisterContinues ==
    ASSUME Shapes, NEW t \in Threads, Unregister(t)
    PROVE  /\ Continues(t, <<>>) /\ Head(pending[t]).op = "unregister"
           /\ Reg!TypeOK' /\ cache' = None /\ Bound' = {}
           /\ UNCHANGED <<stateVars, scheduled, overlapped>>
<1>1. /\ ~ Idle(t) /\ Head(pending[t]).op = "unregister" /\ Then(t, <<>>)
      /\ Reg!UnregisterClient(Self) /\ UNCHANGED <<auth, cooling, scheduled, overlapped>>
  BY DEF Unregister, At
<1>2. Continues(t, <<>>)
  BY <1>1, NoSections DEF Continues
<1>3. Reg!TypeOK /\ Self \in Owners
  BY DEF Shapes, Owners
<1>4. Rebound(Self, Reg!NoModels)
  BY <1>1, <1>3, UnregisterRebinds
<1>5. Bound' = {}
  BY <1>3, <1>4, ReboundSelf
<1> QED
  BY <1>1, <1>2, <1>4, <1>5 DEF Rebound, stateVars

LEMMA MarkContinues ==
    ASSUME Shapes, NEW t \in Threads, MarkInRegistry(t)
    PROVE  /\ Continues(t, <<>>) /\ Head(pending[t]).op \in Marks
           /\ Reg!TypeOK' /\ cache' = None /\ clientModels' = clientModels
           /\ UNCHANGED <<stateVars, scheduled, overlapped>>
<1> DEFINE s == Head(pending[t])
           m == s.model
<1>1. ~ Idle(t) /\ Then(t, <<>>) /\ UNCHANGED <<auth, cooling, scheduled, overlapped>>
  BY DEF MarkInRegistry
<1>2. Continues(t, <<>>)
  BY <1>1, NoSections DEF Continues
<1>3. /\ s.op \in Marks
      /\ \/ UNCHANGED <<registryVars, now>>
         \/ Reg!SetModelQuotaExceeded(Self, m)
         \/ Reg!ClearModelQuotaExceeded(Self, m)
         \/ s.op = "suspend" /\ Reg!SuspendClientModel(Self, m, s.reason)
         \/ Reg!ResumeClientModel(Self, m)
  BY DEF MarkInRegistry, MarkOr, Marks
<1>4. m \in Models /\ s.reason \in Reg!Reasons \cup {None}
  BY <1>1, <1>3, HeadOf, SectionKinds
<1> HIDE DEF s
<1>5. Reg!TypeOK /\ cache = None /\ now \in 0..MaxNow
  BY DEF Shapes
<1>6. CASE UNCHANGED <<registryVars, now>>
  BY <1>1, <1>2, <1>3, <1>5, <1>6, RegistryWaits DEF registryVars, stateVars, s
<1>7. CASE ~ UNCHANGED <<registryVars, now>>
  <2>1. \E reason \in Reg!Reasons \cup {None} :
           \/ Reg!SetModelQuotaExceeded(Self, m)
           \/ Reg!ClearModelQuotaExceeded(Self, m)
           \/ Reg!SuspendClientModel(Self, m, reason)
           \/ Reg!ResumeClientModel(Self, m)
    BY <1>3, <1>4, <1>7
  <2>2. Reg!TypeOK' /\ cache' = None /\ now' = now /\ clientModels' = clientModels
    BY <1>4, <1>5, <2>1, MarksBindNothing
  <2> QED
    BY <1>1, <1>2, <1>3, <2>2 DEF stateVars, s
<1> QED
  BY <1>6, <1>7

LEMMA ReadContinues ==
    ASSUME Shapes, NEW t \in Threads, ReadModels(t)
    PROVE  /\ Continues(t, <<[op |-> "reconcile", supported |-> Bound]>>)
           /\ Head(pending[t]).op = "read"
           /\ UNCHANGED <<stateVars, registryVars, scheduled, overlapped>>
<1> DEFINE x == [op |-> "reconcile", supported |-> Bound]
<1>1. /\ ~ Idle(t) /\ Head(pending[t]).op = "read" /\ Then(t, <<x>>)
      /\ UNCHANGED <<stateVars, registryVars, scheduled, overlapped>>
  BY DEF ReadModels, At
<1>2. x \in Sections(now) /\ x.op = "reconcile"
  BY BoundTyped DEF Sections
<1> HIDE DEF x
<1>3. <<x>> \in Seq(Sections(now)) /\ NoAnswer(<<x>>) /\ Followed(<<x>>)
  BY <1>2, OneSection DEF Rebinding
<1> QED
  BY <1>1, <1>3 DEF Continues, x

LEMMA ReconcileContinues ==
    ASSUME Shapes, NEW t \in Threads, Reconcile(t)
    PROVE  /\ \/ Continues(t, <<>>) /\ auth' = auth
              \/ Continues(t, <<Upsert(auth')>>)
           /\ Head(pending[t]).op = "reconcile"
           /\ auth' \in Good(now) /\ auth'.disabled = auth.disabled
           /\ UNCHANGED <<cooling, now, registryVars, scheduled, overlapped>>
<1>1. /\ ~ Idle(t) /\ Head(pending[t]).op = "reconcile"
      /\ auth' = Reconciled(auth, Head(pending[t]).supported, now)
      /\ Then(t, IF auth' = auth THEN <<>> ELSE <<Upsert(auth')>>)
      /\ UNCHANGED <<cooling, now, registryVars, scheduled, overlapped>>
  BY DEF Reconcile, At
<1>2. auth' \in Good(now) /\ auth'.disabled = auth.disabled
  BY <1>1, ReconciledKeeps DEF Shapes
<1>3. CASE auth' = auth
  BY <1>1, <1>2, <1>3, NoSections DEF Continues
<1>4. CASE auth' # auth
  <2>1. Upsert(auth') \in Sections(now) /\ Upsert(auth').op = "upsert"
    BY <1>2, SectionsMade
  <2>2. /\ <<Upsert(auth')>> \in Seq(Sections(now)) /\ NoAnswer(<<Upsert(auth')>>)
        /\ Followed(<<Upsert(auth')>>)
    BY <2>1, OneSection DEF Rebinding
  <2>3. Then(t, <<Upsert(auth')>>)
    BY <1>1, <1>4
  <2> QED
    BY <1>1, <1>2, <2>2, <2>3 DEF Continues
<1> QED
  BY <1>3, <1>4

LEMMA RefreshContinues ==
    ASSUME Shapes, NEW t \in Threads, RefreshSchedulerEntry(t)
    PROVE  /\ Continues(t, <<Upsert(auth)>>) /\ Due(<<Upsert(auth)>>)
           /\ Head(pending[t]).op = "refresh"
           /\ UNCHANGED <<stateVars, registryVars, scheduled, overlapped>>
<1>1. /\ ~ Idle(t) /\ Head(pending[t]).op = "refresh" /\ Then(t, <<Upsert(auth)>>)
      /\ UNCHANGED <<stateVars, registryVars, scheduled, overlapped>>
  BY DEF RefreshSchedulerEntry, At
<1>2. Upsert(auth) \in Sections(now) /\ Upsert(auth).op = "upsert"
  BY SectionsMade DEF Shapes
<1>3. /\ <<Upsert(auth)>> \in Seq(Sections(now)) /\ NoAnswer(<<Upsert(auth)>>)
      /\ Followed(<<Upsert(auth)>>) /\ Due(<<Upsert(auth)>>)
  BY <1>2, OneSection DEF Rebinding, BeforeUpsert
<1> QED
  BY <1>1, <1>3 DEF Continues

LEMMA FetchContinues ==
    ASSUME Shapes, NEW t \in Threads, FetchToDisable(t)
    PROVE  /\ Continues(t, <<UpdateTo(Withdrawn(auth))>>)
           /\ Due(<<UpdateTo(Withdrawn(auth))>>)
           /\ Head(pending[t]).op = "fetch"
           /\ Withdrawn(auth) \in Good(now) /\ Withdrawn(auth).disabled
           /\ UNCHANGED <<stateVars, registryVars, scheduled, overlapped>>
<1> DEFINE x == UpdateTo(Withdrawn(auth))
<1>1. /\ ~ Idle(t) /\ Head(pending[t]).op = "fetch" /\ Then(t, <<x>>)
      /\ UNCHANGED <<stateVars, registryVars, scheduled, overlapped>>
  BY DEF FetchToDisable, At
<1>2. Withdrawn(auth) \in Good(now) /\ Withdrawn(auth).disabled
  BY GoodRecords DEF Shapes
<1>3. x \in Sections(now) /\ x.op = "update"
  BY <1>2, SectionsMade
<1> HIDE DEF x
<1>4. /\ <<x>> \in Seq(Sections(now)) /\ NoAnswer(<<x>>)
      /\ Followed(<<x>>) /\ Due(<<x>>)
  BY <1>3, OneSection DEF Rebinding, BeforeUpsert
<1>5. Continues(t, <<x>>)
  BY <1>1, <1>4 DEF Continues
<1> QED
  BY <1>1, <1>2, <1>4, <1>5 DEF x

(* What the catalog's handler goes on with. *)
Latest ==
    IF auth.disabled THEN <<Section("unregister"), Section("refresh")>>
    ELSE Reregister(auth) \o <<Section("refresh")>>

LEMMA LatestContinues ==
    ASSUME Shapes, NEW t \in Threads, FetchLatest(t)
    PROVE  /\ Continues(t, Latest) /\ Due(Latest)
           /\ Head(pending[t]).op = "latest"
           /\ UNCHANGED <<stateVars, registryVars, scheduled, overlapped>>
<1>1. /\ ~ Idle(t) /\ Head(pending[t]).op = "latest"
      /\ Then(t, (IF auth.disabled THEN <<Section("unregister")>>
                  ELSE Reregister(auth)) \o <<Section("refresh")>>)
      /\ UNCHANGED <<stateVars, registryVars, scheduled, overlapped>>
  BY DEF FetchLatest, At
<1>2. auth \in Good(now)
  BY DEF Shapes
<1>3. CASE auth.disabled
  <2> DEFINE x == Section("unregister")
             y == Section("refresh")
  <2>1. x \in Sections(now) /\ x.op = "unregister" /\ y \in Sections(now) /\ y.op = "refresh"
    BY <1>2, SectionsMade
  <2> HIDE DEF x, y
  <2>2. /\ <<x, y>> \in Seq(Sections(now)) /\ NoAnswer(<<x, y>>) /\ Followed(<<x, y>>)
        /\ Due(<<x, y>>)
    BY <2>1, TwoSections
  <2>3. <<x>> \o <<y>> = <<x, y>>
    BY OneAndOne
  <2>4. Latest = <<x, y>> /\ Then(t, <<x, y>>)
    BY <1>1, <1>3, <2>3 DEF Latest, x, y
  <2> QED
    BY <1>1, <2>2, <2>4 DEF Continues
<1>4. CASE ~ auth.disabled
  <2>1. Latest = Reregister(auth) \o <<Section("refresh")>> /\ Then(t, Latest)
    BY <1>1, <1>4 DEF Latest
  <2>2. /\ Latest \in Seq(Sections(now)) /\ NoAnswer(Latest)
        /\ Followed(Latest) /\ Due(Latest)
    BY <1>2, <2>1, Reregistration
  <2> QED
    BY <1>1, <2>1, <2>2 DEF Continues
<1> QED
  BY <1>3, <1>4

LEMMA AnswerContinues ==
    ASSUME Shapes, NEW t \in Threads, Answer(t)
    PROVE  \E kind \in Kinds, m \in Models :
               /\ Continues(t, <<Upsert(auth')>> \o RegistryCalls(kind, m))
               /\ Head(pending[t]).op = "answer"
               /\ auth' \in Good(now) /\ auth'.disabled = auth.disabled
               /\ Begin(t, FALSE)
               /\ UNCHANGED <<cooling, now, registryVars, scheduled>>
<1>1. /\ ~ Idle(t) /\ Head(pending[t]).op = "answer"
      /\ Begin(t, FALSE)
      /\ UNCHANGED <<cooling, now, registryVars, scheduled>>
  BY DEF Answer, At
<1> DEFINE m == Head(pending[t]).model
<1>2. m \in Models
  BY <1>1, HeadOf, SectionKinds DEF Marks
<1>3. PICK kind \in ResultKinds :
        /\ auth' = Marked(auth, m, kind, None, cooling, now)
        /\ Then(t, <<Upsert(auth')>> \o RegistryCalls(kind, m))
  BY DEF Answer
<1> HIDE DEF m
<1>4. kind \in Kinds
  BY ManagerConstants
<1>5. auth' \in Good(now) /\ auth'.disabled = auth.disabled
  BY <1>2, <1>3, <1>4, MarkedKeeps DEF Shapes
<1> DEFINE x == Upsert(auth')
           r == RegistryCalls(kind, m)
<1>6. x \in Sections(now) /\ x.op = "upsert"
  BY <1>5, SectionsMade
<1>7. r \in Seq(Sections(now)) /\ NoAnswer(r) /\ Followed(r)
  BY <1>2, CallsMade
<1> HIDE DEF x, r
<1>8. <<x>> \in Seq(Sections(now)) /\ NoAnswer(<<x>>) /\ Followed(<<x>>)
  BY <1>6, OneSection DEF Rebinding
<1>9. <<x>> \o r \in Seq(Sections(now)) /\ NoAnswer(<<x>> \o r) /\ Followed(<<x>> \o r)
  BY <1>7, <1>8, ConcatOf, NoAnswerConcat, FollowedConcat
<1>10. Continues(t, <<x>> \o r)
  BY <1>1, <1>3, <1>9 DEF Continues, x, r
<1> QED
  BY <1>1, <1>2, <1>4, <1>5, <1>10 DEF x, r

----------------------------------------------------------------------------
(* An update also gives those who hold a pointer to the replaced record    *)
(* that record as it is.                                                   *)

SettledSections(s) == [i \in DOMAIN s |-> Settling(s[i])]

LEMMA SettlingKeeps ==
    ASSUME auth \in Good(now), NEW s \in Seq(Sections(now))
    PROVE  LET r == SettledSections(s)
           IN  /\ r \in Seq(Sections(now)) /\ DOMAIN r = DOMAIN s /\ Len(r) = Len(s)
               /\ \A i \in DOMAIN s : r[i].op = s[i].op
               /\ Followed(s) => Followed(r)
               /\ Due(s) => Due(r)
<1> DEFINE r == SettledSections(s)
<1>1. \A x \in Sections(now) : Settling(x) \in Sections(now) /\ Settling(x).op = x.op
  BY SectionsMade DEF Settling
<1>2. Len(s) \in Nat /\ DOMAIN s = 1..Len(s) /\ \A i \in DOMAIN s : s[i] \in Sections(now)
  OBVIOUS
<1>3. r = [i \in 1..Len(s) |-> Settling(s[i])]
  BY <1>2 DEF SettledSections
<1> HIDE DEF r
<1>4. /\ r \in Seq(Sections(now)) /\ Len(r) = Len(s) /\ DOMAIN r = DOMAIN s
      /\ \A i \in DOMAIN s : r[i].op = s[i].op
  BY <1>1, <1>2, <1>3
<1>5. Followed(s) => Followed(r)
  BY <1>4 DEF Followed
<1>6. Due(s) => Due(r)
  BY <1>4 DEF Due
<1> QED
  BY <1>4, <1>5, <1>6 DEF r

(* The whole step, and what it means for each goroutine. *)
LEMMA UpdateGoes ==
    ASSUME Shapes, Followups, NEW t \in Threads, UpdateAuth(t)
    PROVE  /\ Head(pending[t]).op = "update"
           /\ pending[t] # <<>> /\ Tail(pending[t]) \in Seq(Sections(now))
           /\ auth' = Updated(auth, Head(pending[t]).auth)
           /\ auth'.disabled = Head(pending[t]).auth.disabled
           /\ pending'[t] = <<Upsert(Live)>> \o Tail(pending[t])
           /\ \A u \in Threads \ {t} : pending'[u] = SettledSections(pending[u])
           /\ Shapes' /\ Followups'
           /\ \A u \in Threads : Due(pending[u]) => Due(pending'[u])
           /\ UNCHANGED <<cooling, now, registryVars, overlapped>>
<1> DEFINE S == Sections(now)
           a == Head(pending[t]).auth
           r == Tail(pending[t])
           x == Upsert(Live)
<1>1. /\ ~ Idle(t) /\ Head(pending[t]).op = "update"
      /\ auth' = Updated(auth, a)
      /\ UNCHANGED <<cooling, now, registryVars, overlapped>>
      /\ DOMAIN pending' = Threads
      /\ pending' = [u \in Threads |-> pending'[u]]
      /\ pending'[t] = <<x>> \o r
      /\ \A u \in Threads \ {t} : pending'[u] = SettledSections(pending[u])
  BY DEF UpdateAuth, At, SettledSections
<1>2. pending[t] \in Seq(S) /\ pending[t] # <<>> /\ Head(pending[t]) \in S
  BY <1>1, HeadOf
<1>3. a \in Good(now) /\ auth \in Good(now)
  BY <1>1, <1>2, SectionKinds DEF Shapes
<1>4. auth' \in Good(now) /\ auth'.disabled = a.disabled
  BY <1>1, <1>3, GoodRecords DEF Shapes
<1>5. x \in S /\ x.op = "upsert" /\ x.auth = Live
  BY <1>3, SectionsMade
<1>6. /\ r \in Seq(S) /\ Len(pending[t]) \in Nat
      /\ DOMAIN r = 1..(Len(pending[t]) - 1)
      /\ \A i \in DOMAIN r : r[i] = pending[t][i + 1] /\ i + 1 \in DOMAIN pending[t]
  BY <1>2, TailOf
<1>7. Followed(r)
  BY <1>2, FollowedTail DEF Followups
<1>8. NoAnswer(r)
  BY <1>6 DEF NoAnswer, Shapes, Answers
<1> DEFINE old == scheduled
<1>9. Scheduling'
  <2>1. CASE scheduled # NotScheduled /\ scheduled.auth = Live
    <3>1. scheduled' = [scheduled EXCEPT !.auth = auth]
      BY <2>1 DEF UpdateAuth
    <3>2. scheduled \in Entries /\ ~ auth.disabled
      BY <2>1 DEF Shapes, Scheduling, NotScheduled, Current
    <3>3. auth \in AuthStates
      BY <1>3 DEF Good
    <3>4. scheduled' \in Entries /\ scheduled'.auth = auth
      BY <3>1, <3>2, <3>3 DEF Entries
    <3>5. auth # Live
      BY <3>3, LiveIsNoRecord
    <3> QED
      BY <3>2, <3>4, <3>5 DEF Scheduling, Current, Entries
  <2>2. CASE ~ (scheduled # NotScheduled /\ scheduled.auth = Live)
    <3>1. scheduled' = scheduled
      BY <2>2 DEF UpdateAuth
    <3> QED
      BY <2>2, <3>1 DEF Shapes, Scheduling, NotScheduled, Current, Entries
  <2> QED
    BY <2>1, <2>2
<1> HIDE DEF a, r, x, S
<1>10. <<x>> \in Seq(S) /\ NoAnswer(<<x>>) /\ Followed(<<x>>) /\ Due(<<x>>)
  BY <1>5, OneSection DEF Rebinding, BeforeUpsert
<1>11. /\ <<x>> \o r \in Seq(S) /\ NoAnswer(<<x>> \o r) /\ Followed(<<x>> \o r)
       /\ Due(<<x>> \o r)
  BY <1>6, <1>7, <1>8, <1>10, ConcatOf, NoAnswerConcat, FollowedConcat, DueConcat
<1>12. ASSUME NEW u \in Threads, u # t
       PROVE  /\ pending'[u] \in Seq(S) /\ Followed(pending'[u])
              /\ Due(pending[u]) => Due(pending'[u])
              /\ \A i \in DOMAIN pending'[u] :
                    pending'[u][i].op = "answer" => Len(pending'[u]) = 1
  <2>1. pending[u] \in Seq(Sections(now)) /\ Followed(pending[u])
    BY DEF Shapes, Followups
  <2> DEFINE s == pending[u]
             q == SettledSections(s)
  <2>2. pending'[u] = q
    BY <1>1, <1>12
  <2>3. \A i \in DOMAIN s : s[i].op = "answer" => Len(s) = 1
    BY DEF Shapes, Answers
  <2> HIDE DEF s
  <2>4. /\ q \in Seq(Sections(now)) /\ DOMAIN q = DOMAIN s /\ Len(q) = Len(s)
        /\ \A i \in DOMAIN s : q[i].op = s[i].op
        /\ Followed(q) /\ (Due(s) => Due(q))
    BY <1>3, <2>1, SettlingKeeps DEF s
  <2> HIDE DEF q
  <2>5. \A i \in DOMAIN q : q[i].op = "answer" => Len(q) = 1
    BY <2>3, <2>4
  <2> QED
    BY <2>2, <2>4, <2>5 DEF s, S
<1>13. \A u \in Threads : pending'[u] \in Seq(S) /\ Followed(pending'[u])
  BY <1>1, <1>11, <1>12
<1>14. \A u \in Threads : Due(pending[u]) => Due(pending'[u])
  BY <1>1, <1>11, <1>12
<1>15. pending' \in [Threads -> Seq(Sections(now'))]
  BY <1>1, <1>13 DEF S
<1>16. Answers'
  <2>1. ASSUME NEW u \in Threads, NEW i \in DOMAIN pending'[u],
               pending'[u][i].op = "answer"
        PROVE  Len(pending'[u]) = 1
    <3>1. CASE u = t
      BY <1>1, <1>11, <2>1, <3>1 DEF NoAnswer
    <3>2. CASE u # t
      BY <1>12, <2>1, <3>2
    <3> QED
      BY <3>1, <3>2
  <2> QED
    BY <2>1 DEF Answers
<1>17. Followups'
  BY <1>13 DEF Followups, Followed
<1>18. Reg!TypeOK' /\ cache' = None
  BY <1>1, RegistryWaits DEF Shapes
<1>19. Shapes'
  BY <1>1, <1>4, <1>9, <1>15, <1>16, <1>18 DEF Shapes
<1> QED
  BY <1>1, <1>2, <1>4, <1>6, <1>14, <1>17, <1>19 DEF a, r, x, S

----------------------------------------------------------------------------
(* Types, follow-ups and the scheduler's models, step by step. *)

LEMMA SchedulingStays ==
    ASSUME Scheduling, scheduled' = scheduled, auth'.disabled = auth.disabled
    PROVE  Scheduling'
BY DEF Scheduling, Current, Entries

LEMMA ContinuesShapes ==
    ASSUME Shapes, Followups, NEW t \in Threads, NEW sections,
           Continues(t, sections), UNCHANGED <<cooling, now>>,
           auth' \in Good(now), Reg!TypeOK', cache' = None, Scheduling',
           overlapped' \in BOOLEAN
    PROVE  Shapes' /\ Followups'
<1>1. /\ pending' \in [Threads -> Seq(Sections(now'))]
      /\ Answers' /\ Followups'
  BY ContinuesTyped DEF Shapes
<1> QED
  BY <1>1 DEF Shapes

(* A handler that starts. *)
Starts(t, sections) ==
    /\ Idle(t)
    /\ sections \in Seq(Sections(now)) /\ Followed(sections)
    /\ \A i \in DOMAIN sections : sections[i].op = "answer" => Len(sections) = 1
    /\ pending' = [pending EXCEPT ![t] = sections]

LEMMA StartsShapes ==
    ASSUME Shapes, Followups, NEW t \in Threads, NEW sections, Starts(t, sections),
           UNCHANGED <<auth, cooling, now, scheduled>>,
           Reg!TypeOK', cache' = None, overlapped' \in BOOLEAN
    PROVE  /\ Shapes' /\ Followups'
           /\ \A u \in Threads : Due(pending[u]) => Due(pending'[u])
           /\ pending'[t] = sections /\ \A u \in Threads \ {t} : pending'[u] = pending[u]
<1>1. /\ pending \in [Threads -> Seq(Sections(now))] /\ Answers /\ Scheduling
      /\ pending[t] = <<>> /\ sections \in Seq(Sections(now)) /\ Followed(sections)
  BY DEF Shapes, Starts, Idle
<1>2. /\ pending' \in [Threads -> Seq(Sections(now))]
      /\ pending'[t] = sections /\ \A u \in Threads \ {t} : pending'[u] = pending[u]
  BY <1>1 DEF Starts
<1>3. Answers'
  <2>1. ASSUME NEW u \in Threads, NEW i \in DOMAIN pending'[u],
               pending'[u][i].op = "answer"
        PROVE  Len(pending'[u]) = 1
    <3>1. CASE u = t
      BY <1>2, <2>1, <3>1 DEF Starts
    <3>2. CASE u # t
      BY <1>1, <1>2, <2>1, <3>2 DEF Answers
    <3> QED
      BY <3>1, <3>2
  <2> QED
    BY <2>1 DEF Answers
<1>4. \A u \in Threads : Followed(pending'[u])
  BY <1>1, <1>2 DEF Followups
<1>5. Followups'
  BY <1>4 DEF Followups, Followed
<1>6. ~ Due(pending[t])
  BY <1>1 DEF Due
<1>7. \A u \in Threads : Due(pending[u]) => Due(pending'[u])
  BY <1>2, <1>6
<1>8. Scheduling'
  BY <1>1, SchedulingStays
<1> QED
  BY <1>2, <1>3, <1>5, <1>7, <1>8 DEF Shapes

LEMMA CatchUpStays ==
    ASSUME ModelsCatchUp, DOMAIN pending = Threads,
           \/ scheduled' = scheduled
           \/ scheduled # None /\ scheduled'.models = scheduled.models,
           Bound' = Bound, \A u \in Threads : Due(pending[u]) => Due(pending'[u])
    PROVE  ModelsCatchUp'
<1>1. CASE scheduled # None /\ scheduled.models # Bound
  <2>1. PICK u \in Threads : Due(pending[u])
    BY <1>1 DEF ModelsCatchUp, Due, NotScheduled
  <2>2. Due(pending'[u])
    BY <2>1
  <2> QED
    BY <2>2 DEF ModelsCatchUp, Due
<1>2. CASE ~ (scheduled # None /\ scheduled.models # Bound)
  <2>1. ~ (scheduled' # None /\ scheduled'.models # Bound')
    BY <1>2
  <2> QED
    BY <2>1 DEF ModelsCatchUp, NotScheduled
<1> QED
  BY <1>1, <1>2

LEMMA CatchUpDue ==
    ASSUME NEW u \in Threads, Due(pending'[u])
    PROVE  ModelsCatchUp'
BY DEF ModelsCatchUp, Due

LEMMA BoundStays ==
    ASSUME clientModels' = clientModels
    PROVE  Bound' = Bound
BY DEF Bound

Early == Shapes /\ Followups /\ ModelsCatchUp

(* Sections that change neither the registry's bindings nor the            *)
(* scheduler's entry.                                                      *)
LEMMA EarlyContinues ==
    ASSUME Early, NEW t \in Threads, NEW sections,
           Continues(t, sections), UNCHANGED <<cooling, now, scheduled>>,
           auth' \in Good(now), auth'.disabled = auth.disabled,
           Reg!TypeOK', cache' = None, Bound' = Bound, overlapped' \in BOOLEAN,
           Head(pending[t]).op \in BeforeUpsert => Due(sections)
    PROVE  Early'
<1>1. Scheduling'
  BY SchedulingStays DEF Early, Shapes
<1>2. Shapes' /\ Followups'
  BY <1>1, ContinuesShapes DEF Early
<1>3. \A u \in Threads : Due(pending[u]) => Due(pending'[u])
  BY ContinuesDue DEF Early, Shapes
<1>4. ModelsCatchUp'
  BY <1>3, CatchUpStays DEF Early, Shapes
<1> QED
  BY <1>2, <1>4 DEF Early

(* Sections that change the bindings: an upsert follows. *)
LEMMA EarlyRebinds ==
    ASSUME Early, NEW t \in Threads,
           Continues(t, <<>>), UNCHANGED <<stateVars, scheduled, overlapped>>,
           Reg!TypeOK', cache' = None, Head(pending[t]).op \in Rebinding
    PROVE  Early'
<1>1. Scheduling'
  BY SchedulingStays DEF Early, Shapes, stateVars
<1>2. Shapes' /\ Followups'
  BY <1>1, ContinuesShapes DEF Early, Shapes, stateVars
<1>3. /\ pending[t] \in Seq(Sections(now)) /\ pending[t] # <<>>
      /\ pending'[t] = <<>> \o Tail(pending[t])
  BY ContinuesAs DEF Early, Shapes
<1>4. Due(Tail(pending[t])) /\ Tail(pending[t]) \in Seq(Sections(now))
  BY <1>3, FollowedTail, TailOf DEF Early, Followups
<1>5. Due(pending'[t])
  BY <1>3, <1>4, DueConcat, NoSections
<1> QED
  BY <1>2, <1>5, CatchUpDue DEF Early

LEMMA EarlyStarts ==
    ASSUME Early, NEW t \in Threads, NEW sections, Starts(t, sections),
           UNCHANGED <<auth, cooling, now, scheduled>>,
           Reg!TypeOK', cache' = None, Bound' = Bound, overlapped' \in BOOLEAN
    PROVE  Early'
<1>1. /\ Shapes' /\ Followups'
      /\ \A u \in Threads : Due(pending[u]) => Due(pending'[u])
  BY StartsShapes DEF Early
<1>2. ModelsCatchUp'
  BY <1>1, CatchUpStays DEF Early, Shapes
<1> QED
  BY <1>1, <1>2 DEF Early

LEMMA EarlySection ==
    ASSUME Early, NEW t \in Threads, CriticalSection(t)
    PROVE  Early'
<1>1. Shapes /\ Followups /\ ModelsCatchUp /\ overlapped \in BOOLEAN
      /\ auth \in Good(now) /\ Reg!TypeOK /\ cache = None /\ now \in 0..MaxNow
  BY DEF Early, Shapes
<1>2. UNCHANGED registryVars /\ now' = now => Reg!TypeOK' /\ cache' = None /\ Bound' = Bound
  BY <1>1, RegistryWaits, BoundStays DEF registryVars
<1>3. \A op \in Marks \cup {"read", "reconcile", "register", "unregister"} :
         op \notin BeforeUpsert
  BY DEF Marks, BeforeUpsert
<1>4. CASE UpsertAuth(t)
  <2>1. /\ Continues(t, <<>>) /\ scheduled' = Entry(Head(pending[t]).auth) /\ Scheduling'
        /\ UNCHANGED <<stateVars, registryVars, overlapped>>
    BY <1>1, <1>4, UpsertContinues
  <2>2. Shapes' /\ Followups'
    BY <1>1, <1>2, <2>1, ContinuesShapes DEF stateVars
  <2>3. scheduled' = None \/ scheduled'.models = Bound'
    BY <1>2, <2>1 DEF Entry, NotScheduled, stateVars
  <2> QED
    BY <2>2, <2>3 DEF Early, ModelsCatchUp, NotScheduled
<1>5. CASE UpdateAuth(t)
  <2>1. /\ Shapes' /\ Followups' /\ UNCHANGED <<now, registryVars>>
        /\ \A u \in Threads : Due(pending[u]) => Due(pending'[u])
    BY <1>1, <1>5, UpdateGoes
  <2>2. \/ scheduled' = scheduled
        \/ scheduled # None /\ scheduled' = [scheduled EXCEPT !.auth = auth]
    BY <1>5 DEF UpdateAuth, NotScheduled
  <2>3. \/ scheduled' = scheduled
        \/ scheduled # None /\ scheduled'.models = scheduled.models
    BY <1>1, <2>2 DEF Shapes, Scheduling, Entries
  <2>4. ModelsCatchUp'
    BY <1>1, <1>2, <2>1, <2>3, CatchUpStays DEF Shapes
  <2> QED
    BY <2>1, <2>4 DEF Early
<1>6. CASE Register(t)
  <2>1. /\ Continues(t, <<>>) /\ Head(pending[t]).op = "register"
        /\ Reg!TypeOK' /\ cache' = None
        /\ UNCHANGED <<stateVars, scheduled, overlapped>>
    BY <1>1, <1>6, RegisterContinues
  <2> QED
    BY <2>1, EarlyRebinds DEF Rebinding
<1>7. CASE Unregister(t)
  <2>1. /\ Continues(t, <<>>) /\ Head(pending[t]).op = "unregister"
        /\ Reg!TypeOK' /\ cache' = None
        /\ UNCHANGED <<stateVars, scheduled, overlapped>>
    BY <1>1, <1>7, UnregisterContinues
  <2> QED
    BY <2>1, EarlyRebinds DEF Rebinding
<1>8. CASE MarkInRegistry(t)
  <2>1. /\ Continues(t, <<>>) /\ Head(pending[t]).op \in Marks
        /\ Reg!TypeOK' /\ cache' = None /\ clientModels' = clientModels
        /\ UNCHANGED <<stateVars, scheduled, overlapped>>
    BY <1>1, <1>8, MarkContinues
  <2> QED
    BY <1>1, <1>3, <2>1, BoundStays, EarlyContinues DEF stateVars
<1>9. CASE ReadModels(t)
  <2>1. /\ Continues(t, <<[op |-> "reconcile", supported |-> Bound]>>)
        /\ Head(pending[t]).op = "read"
        /\ UNCHANGED <<stateVars, registryVars, scheduled, overlapped>>
    BY <1>1, <1>9, ReadContinues
  <2> QED
    BY <1>1, <1>2, <1>3, <2>1, EarlyContinues DEF stateVars
<1>10. CASE Reconcile(t)
  <2>1. /\ \E sections : Continues(t, sections)
        /\ Head(pending[t]).op = "reconcile"
        /\ auth' \in Good(now) /\ auth'.disabled = auth.disabled
        /\ UNCHANGED <<cooling, now, registryVars, scheduled, overlapped>>
    BY <1>1, <1>10, ReconcileContinues
  <2> QED
    BY <1>1, <1>2, <1>3, <2>1, EarlyContinues
<1>11. CASE RefreshSchedulerEntry(t)
  <2>1. /\ Continues(t, <<Upsert(auth)>>) /\ Due(<<Upsert(auth)>>)
        /\ UNCHANGED <<stateVars, registryVars, scheduled, overlapped>>
    BY <1>1, <1>11, RefreshContinues
  <2> QED
    BY <1>1, <1>2, <2>1, EarlyContinues DEF stateVars
<1>12. CASE FetchToDisable(t)
  <2>1. /\ Continues(t, <<UpdateTo(Withdrawn(auth))>>)
        /\ Due(<<UpdateTo(Withdrawn(auth))>>)
        /\ UNCHANGED <<stateVars, registryVars, scheduled, overlapped>>
    BY <1>1, <1>12, FetchContinues
  <2> QED
    BY <1>1, <1>2, <2>1, EarlyContinues DEF stateVars
<1>13. CASE FetchLatest(t)
  <2>1. /\ Continues(t, Latest) /\ Due(Latest)
        /\ UNCHANGED <<stateVars, registryVars, scheduled, overlapped>>
    BY <1>1, <1>13, LatestContinues
  <2> QED
    BY <1>1, <1>2, <2>1, EarlyContinues DEF stateVars
<1> QED
  BY <1>4, <1>5, <1>6, <1>7, <1>8, <1>9, <1>10, <1>11, <1>12, <1>13
  DEF CriticalSection

----------------------------------------------------------------------------
(* How handlers start. *)

LEMMA PickStarts ==
    ASSUME Shapes, NEW w \in Workers, NEW m \in Models, Pick(w, m)
    PROVE  /\ Starts(w, <<[op |-> "answer", model |-> m]>>)
           /\ UNCHANGED <<stateVars, registryVars, scheduled, overlapped>>
<1> DEFINE x == [op |-> "answer", model |-> m]
<1>1. /\ Idle(w) /\ pending' = [pending EXCEPT ![w] = <<x>>]
      /\ UNCHANGED <<stateVars, registryVars, scheduled, overlapped>>
  BY DEF Pick
<1>2. x \in Sections(now) /\ x.op = "answer"
  BY DEF Sections
<1> HIDE DEF x
<1>3. <<x>> \in Seq(Sections(now)) /\ Len(<<x>>) = 1 /\ Followed(<<x>>)
  BY <1>2 DEF Followed, Rebinding
<1> QED
  BY <1>1, <1>3 DEF Starts, x

LEMMA SyncStarts ==
    ASSUME Shapes, NEW w \in Workers, NEW m \in Models, SyncScheduler(w, m)
    PROVE  /\ Starts(w, <<Upsert(auth)>>) /\ Begin(w, FALSE)
           /\ UNCHANGED <<stateVars, registryVars, scheduled>>
<1> DEFINE x == Upsert(auth)
<1>1. /\ Idle(w) /\ pending' = [pending EXCEPT ![w] = <<x>>] /\ Begin(w, FALSE)
      /\ UNCHANGED <<stateVars, registryVars, scheduled>>
  BY DEF SyncScheduler
<1>2. x \in Sections(now) /\ x.op = "upsert"
  BY SectionsMade DEF Shapes
<1> HIDE DEF x
<1>3. <<x>> \in Seq(Sections(now)) /\ NoAnswer(<<x>>) /\ Followed(<<x>>)
  BY <1>2, OneSection DEF Rebinding
<1>4. \A i \in DOMAIN <<x>> : <<x>>[i].op # "answer"
  BY <1>3 DEF NoAnswer
<1> QED
  BY <1>1, <1>3, <1>4 DEF Starts, x

Adding(a) ==
    <<UpdateTo(a)>> \o Reregister(a) \o <<Section("refresh")>>

LEMMA AddStarts ==
    ASSUME Shapes, NEW new \in {Fresh, Withdrawn(Fresh)}, AddOrUpdate(new)
    PROVE  /\ Updated(auth, new) \in Good(now)
           /\ Starts(Consumer, Adding(Updated(auth, new)))
           /\ Begin(Consumer, TRUE)
           /\ UNCHANGED <<stateVars, registryVars, scheduled>>
<1> DEFINE a == Updated(auth, new)
<1>1. /\ Idle(Consumer) /\ pending' = [pending EXCEPT ![Consumer] = Adding(a)]
      /\ Begin(Consumer, TRUE)
      /\ UNCHANGED <<stateVars, registryVars, scheduled>>
  BY DEF AddOrUpdate, Adding
<1>2. a \in Good(now)
  BY GoodRecords DEF Shapes
<1> HIDE DEF a
<1>3. /\ Adding(a) \in Seq(Sections(now)) /\ NoAnswer(Adding(a)) /\ Followed(Adding(a))
  BY <1>2, Addition DEF Adding
<1>4. Starts(Consumer, Adding(a))
  BY <1>1, <1>3 DEF Starts, NoAnswer
<1> QED
  BY <1>1, <1>2, <1>4 DEF a

LEMMA RemoveStarts ==
    ASSUME Shapes, Remove
    PROVE  /\ Starts(Consumer, <<Section("fetch")>>) /\ Due(<<Section("fetch")>>)
           /\ Begin(Consumer, TRUE)
           /\ Reg!TypeOK' /\ cache' = None /\ Bound' = {}
           /\ UNCHANGED <<stateVars, scheduled>>
<1> DEFINE x == Section("fetch")
<1>1. /\ Idle(Consumer) /\ pending' = [pending EXCEPT ![Consumer] = <<x>>]
      /\ Begin(Consumer, TRUE) /\ Reg!UnregisterClient(Self)
      /\ UNCHANGED <<auth, cooling, scheduled>>
  BY DEF Remove
<1>2. x \in Sections(now) /\ x.op = "fetch"
  BY SectionsMade DEF Shapes
<1> HIDE DEF x
<1>3. /\ <<x>> \in Seq(Sections(now)) /\ NoAnswer(<<x>>) /\ Followed(<<x>>)
      /\ Due(<<x>>)
  BY <1>2, OneSection DEF Rebinding, BeforeUpsert
<1>4. Starts(Consumer, <<x>>)
  BY <1>1, <1>3 DEF Starts, NoAnswer
<1>5. Reg!TypeOK /\ Self \in Owners
  BY DEF Shapes, Owners
<1>6. Rebound(Self, Reg!NoModels)
  BY <1>1, <1>5, UnregisterRebinds
<1>7. Bound' = {}
  BY <1>5, <1>6, ReboundSelf
<1> QED
  BY <1>1, <1>3, <1>4, <1>6, <1>7 DEF x, Rebound, stateVars

LEMMA CatalogStarts ==
    ASSUME Shapes, RefreshCatalog
    PROVE  /\ Starts(Catalog, Reregister(auth) \o <<Section("latest")>>)
           /\ Begin(Catalog, TRUE)
           /\ UNCHANGED <<stateVars, registryVars, scheduled>>
<1> DEFINE s == Reregister(auth) \o <<Section("latest")>>
<1>1. /\ Idle(Catalog) /\ pending' = [pending EXCEPT ![Catalog] = s]
      /\ Begin(Catalog, TRUE)
      /\ UNCHANGED <<stateVars, registryVars, scheduled>>
  BY DEF RefreshCatalog
<1>2. s \in Seq(Sections(now)) /\ NoAnswer(s) /\ Followed(s)
  BY Reregistration DEF Shapes
<1> HIDE DEF s
<1>3. Starts(Catalog, s)
  BY <1>1, <1>2 DEF Starts, NoAnswer
<1> QED
  BY <1>1, <1>3 DEF s

LEMMA OtherRebinds ==
    ASSUME Shapes, NEW c \in Others, OtherClient(c)
    PROVE  /\ Reg!TypeOK' /\ cache' = None /\ Bound' = Bound
           /\ UNCHANGED <<stateVars, scheduled, pending, overlapped>>
<1>1. Reg!TypeOK /\ c \in Owners
  BY DEF Shapes, Owners
<1>2. \E list : Rebound(c, list)
  <2>1. CASE \E list \in Reg!BoundedLists : Reg!RegisterClient(c, Provider, list)
    BY <1>1, <2>1, RegisterRebinds
  <2>2. CASE Reg!UnregisterClient(c)
    BY <1>1, <2>2, UnregisterRebinds
  <2> QED
    BY <2>1, <2>2 DEF OtherClient
<1>3. PICK list : Rebound(c, list)
  BY <1>2
<1>4. Bound' = Bound
  BY <1>1, <1>3, ReboundOther
<1>5. UNCHANGED <<auth, cooling, scheduled, pending, overlapped>>
  BY DEF OtherClient
<1> QED
  BY <1>3, <1>4, <1>5 DEF Rebound, stateVars

(* A good record stays good as time passes. *)
LEMMA SectionsLater ==
    ASSUME NEW at \in Nat
    PROVE  Good(at) \subseteq Good(at + 1) /\ Sections(at) \subseteq Sections(at + 1)
<1>1. Good(at) \subseteq Good(at + 1)
  BY LaterGood DEF Good
<1> QED
  BY <1>1 DEF Sections

LEMMA TimePasses ==
    ASSUME Shapes, Followups, Advance
    PROVE  /\ Shapes' /\ Followups' /\ Bound' = Bound
           /\ UNCHANGED <<auth, registryVars, scheduled, pending, overlapped>>
<1>1. /\ now' = now + 1 /\ now < MaxNow
      /\ UNCHANGED <<auth, cooling, registryVars, scheduled, pending, overlapped>>
  BY DEF Advance, Tick
<1>2. now \in Nat /\ MaxNow \in Nat /\ now' \in 0..MaxNow
  BY <1>1, StateConstants DEF Shapes
<1>3. Good(now) \subseteq Good(now') /\ Sections(now) \subseteq Sections(now')
  BY <1>1, <1>2, SectionsLater
<1>4. Reg!TypeOK' /\ cache' = None
  BY <1>1, <1>2, RegistryWaits DEF Shapes
<1>5. Scheduling'
  BY <1>1, SchedulingStays DEF Shapes
<1>6. pending' \in [Threads -> Seq(Sections(now'))]
  <2>1. \A t \in Threads : pending[t] \in Seq(Sections(now'))
    BY <1>3 DEF Shapes
  <2> QED
    BY <1>1, <2>1 DEF Shapes
<1>7. Answers' /\ Followups'
  BY <1>1 DEF Shapes, Answers, Followups, Followed
<1>8. Bound' = Bound
  BY <1>1, BoundStays DEF registryVars
<1> QED
  BY <1>1, <1>2, <1>3, <1>4, <1>5, <1>6, <1>7, <1>8 DEF Shapes

LEMMA EarlyInit ==
    ManagerInit => Early
<1> SUFFICES ASSUME ManagerInit PROVE Early
  OBVIOUS
<1>1. /\ auth = Withdrawn(Fresh) /\ cooling = TRUE /\ scheduled = None
      /\ pending = [t \in Threads |-> <<>>] /\ overlapped = FALSE
      /\ Reg!Init /\ now = 0 /\ cache = None
  BY DEF ManagerInit, NotScheduled, Reg!Init, Reg!NoCache
<1>2. now \in 0..MaxNow
  BY <1>1, StateConstants
<1>3. auth \in Good(now)
  BY <1>1, <1>2, GoodRecords
<1>4. Reg!TypeOK
  <2>1. models \in [Models -> Reg!Registration]
    BY <1>1, NothingTyped DEF Reg!Init
  <2>2. clientModels \in [Owners -> Reg!ModelLists]
    BY <1>1 DEF Reg!Init, Reg!NoModels, Reg!ModelLists, Owners
  <2> QED
    BY <1>1, <1>2, <2>1, <2>2 DEF Reg!Init, Reg!TypeOK, Reg!Time, Reg!NoCache, Owners
<1>5. pending \in [Threads -> Seq(Sections(now))] /\ Answers
  BY <1>1 DEF Answers
<1>6. Shapes
  BY <1>1, <1>2, <1>3, <1>4, <1>5 DEF Shapes, Scheduling
<1>7. Followups /\ ModelsCatchUp
  BY <1>1 DEF Followups, Followed, ModelsCatchUp, NotScheduled
<1> QED
  BY <1>6, <1>7 DEF Early

LEMMA EarlyStep ==
    Early /\ [ManagerNext]_managerVars => Early'
<1> SUFFICES ASSUME Early, [ManagerNext]_managerVars PROVE Early'
  OBVIOUS
<1>1. Shapes /\ Followups /\ ModelsCatchUp /\ overlapped \in BOOLEAN
      /\ auth \in Good(now) /\ Reg!TypeOK /\ cache = None /\ now \in 0..MaxNow
  BY DEF Early, Shapes
<1>2. UNCHANGED registryVars /\ now' = now => Reg!TypeOK' /\ cache' = None /\ Bound' = Bound
  BY <1>1, RegistryWaits, BoundStays DEF registryVars
<1>3. \A t, all : Begin(t, all) => overlapped' \in BOOLEAN
  BY DEF Begin
<1>4. Workers \subseteq Threads /\ Consumer \in Threads /\ Catalog \in Threads
  BY DEF Threads
<1>5. ASSUME NEW w \in Workers, NEW m \in Models, Pick(w, m)
      PROVE  Early'
  <2>1. /\ Starts(w, <<[op |-> "answer", model |-> m]>>)
        /\ UNCHANGED <<stateVars, registryVars, scheduled, overlapped>>
    BY <1>1, <1>5, PickStarts
  <2> QED
    BY <1>1, <1>2, <1>4, <2>1, EarlyStarts DEF stateVars
<1>6. ASSUME NEW w \in Workers, NEW m \in Models, SyncScheduler(w, m)
      PROVE  Early'
  <2>1. /\ Starts(w, <<Upsert(auth)>>) /\ overlapped' \in BOOLEAN
        /\ UNCHANGED <<stateVars, registryVars, scheduled>>
    BY <1>1, <1>3, <1>6, SyncStarts
  <2> QED
    BY <1>1, <1>2, <1>4, <2>1, EarlyStarts DEF stateVars
<1>7. ASSUME NEW w \in Workers, Answer(w)
      PROVE  Early'
  <2>1. PICK kind \in Kinds, m \in Models :
               /\ Continues(w, <<Upsert(auth')>> \o RegistryCalls(kind, m))
               /\ Head(pending[w]).op = "answer"
               /\ auth' \in Good(now) /\ auth'.disabled = auth.disabled
               /\ Begin(w, FALSE)
               /\ UNCHANGED <<cooling, now, registryVars, scheduled>>
    BY <1>1, <1>4, <1>7, AnswerContinues
  <2>2. Head(pending[w]).op \notin BeforeUpsert /\ overlapped' \in BOOLEAN
    BY <1>3, <2>1 DEF BeforeUpsert
  <2> QED
    BY <1>1, <1>2, <1>4, <2>1, <2>2, EarlyContinues
<1>8. ASSUME NEW new \in {Fresh, Withdrawn(Fresh)}, AddOrUpdate(new)
      PROVE  Early'
  <2>1. /\ Starts(Consumer, Adding(Updated(auth, new))) /\ overlapped' \in BOOLEAN
        /\ UNCHANGED <<stateVars, registryVars, scheduled>>
    BY <1>1, <1>3, <1>8, AddStarts
  <2> QED
    BY <1>1, <1>2, <1>4, <2>1, EarlyStarts DEF stateVars
<1>9. CASE Remove
  <2>1. /\ Starts(Consumer, <<Section("fetch")>>) /\ Due(<<Section("fetch")>>)
        /\ overlapped' \in BOOLEAN /\ Reg!TypeOK' /\ cache' = None
        /\ UNCHANGED <<stateVars, scheduled>>
    BY <1>1, <1>3, <1>9, RemoveStarts
  <2>2. Shapes' /\ Followups' /\ pending'[Consumer] = <<Section("fetch")>>
    BY <1>1, <1>4, <2>1, StartsShapes DEF stateVars
  <2>3. ModelsCatchUp'
    BY <1>4, <2>1, <2>2, CatchUpDue
  <2> QED
    BY <2>2, <2>3 DEF Early
<1>10. CASE RefreshCatalog
  <2>1. /\ Starts(Catalog, Reregister(auth) \o <<Section("latest")>>)
        /\ overlapped' \in BOOLEAN
        /\ UNCHANGED <<stateVars, registryVars, scheduled>>
    BY <1>1, <1>3, <1>10, CatalogStarts
  <2> QED
    BY <1>1, <1>2, <1>4, <2>1, EarlyStarts DEF stateVars
<1>11. ASSUME NEW t \in Threads, CriticalSection(t)
       PROVE  Early'
  BY <1>11, EarlySection
<1>12. ASSUME NEW c \in Others, OtherClient(c)
       PROVE  Early'
  <2>1. /\ Reg!TypeOK' /\ cache' = None /\ Bound' = Bound
        /\ UNCHANGED <<stateVars, scheduled, pending, overlapped>>
    BY <1>1, <1>12, OtherRebinds
  <2>2. Shapes' /\ Followups'
    <3>1. Scheduling'
      BY <1>1, <2>1, SchedulingStays DEF Shapes, stateVars
    <3>2. /\ auth' = auth /\ now' = now /\ cooling' = cooling /\ pending' = pending
          /\ overlapped' = overlapped
      BY <2>1 DEF stateVars
    <3>3. Answers' /\ Followups'
      BY <1>1, <3>2 DEF Shapes, Answers, Followups, Followed
    <3> QED
      BY <1>1, <2>1, <3>1, <3>2, <3>3 DEF Shapes
  <2>3. ModelsCatchUp'
    BY <1>1, <2>1, CatchUpStays DEF Shapes
  <2> QED
    BY <2>2, <2>3 DEF Early
<1>13. CASE Advance
  <2>1. /\ Shapes' /\ Followups' /\ Bound' = Bound
        /\ UNCHANGED <<scheduled, pending>>
    BY <1>1, <1>13, TimePasses
  <2>2. ModelsCatchUp'
    BY <1>1, <2>1, CatchUpStays DEF Shapes
  <2> QED
    BY <2>1, <2>2 DEF Early
<1>14. CASE UNCHANGED managerVars
  <2>1. /\ UNCHANGED <<auth, cooling, now, registryVars, scheduled, pending, overlapped>>
    BY <1>14 DEF managerVars, stateVars
  <2>2. Scheduling'
    BY <1>1, <2>1, SchedulingStays DEF Shapes
  <2>3. Answers' /\ Followups'
    BY <1>1, <2>1 DEF Shapes, Answers, Followups, Followed
  <2>4. Shapes'
    BY <1>1, <1>2, <2>1, <2>2, <2>3 DEF Shapes
  <2>5. ModelsCatchUp'
    BY <1>1, <1>2, <2>1, CatchUpStays DEF Shapes
  <2> QED
    BY <2>3, <2>4, <2>5 DEF Early
<1> QED
  BY <1>5, <1>6, <1>7, <1>8, <1>9, <1>10, <1>11, <1>12, <1>13, <1>14 DEF ManagerNext

----------------------------------------------------------------------------
(* What the sections still to run look like after each of them. *)

LEMMA DoesMeans ==
    ASSUME NEW s, Len(s) \in Nat
    PROVE  /\ \A a : Does(s, <<a>>) <=> Len(s) = 1 /\ s[1].op = a
           /\ \A a, b : Does(s, <<a, b>>)
                          <=> Len(s) = 2 /\ s[1].op = a /\ s[2].op = b
           /\ \A a, b, c : Does(s, <<a, b, c>>)
                 <=> Len(s) = 3 /\ s[1].op = a /\ s[2].op = b /\ s[3].op = c
           /\ \A a, b, c, d : Does(s, <<a, b, c, d>>)
                 <=> /\ Len(s) = 4 /\ s[1].op = a /\ s[2].op = b
                     /\ s[3].op = c /\ s[4].op = d
<1>1. ASSUME NEW a
      PROVE  Does(s, <<a>>) <=> Len(s) = 1 /\ s[1].op = a
  <2>1. Len(<<a>>) = 1 /\ <<a>>[1] = a
    OBVIOUS
  <2>2. \A i : i \in 1..1 <=> i = 1
    OBVIOUS
  <2> QED
    BY <2>1, <2>2 DEF Does
<1>2. ASSUME NEW a, NEW b
      PROVE  Does(s, <<a, b>>) <=> Len(s) = 2 /\ s[1].op = a /\ s[2].op = b
  <2>1. Len(<<a, b>>) = 2 /\ <<a, b>>[1] = a /\ <<a, b>>[2] = b
    OBVIOUS
  <2>2. \A i : i \in 1..2 <=> i = 1 \/ i = 2
    OBVIOUS
  <2> QED
    BY <2>1, <2>2 DEF Does
<1>3. ASSUME NEW a, NEW b, NEW c
      PROVE  Does(s, <<a, b, c>>)
                 <=> Len(s) = 3 /\ s[1].op = a /\ s[2].op = b /\ s[3].op = c
  <2> DEFINE ops == <<a, b, c>>
  <2>1. Len(ops) = 3 /\ ops[1] = a /\ ops[2] = b /\ ops[3] = c
    OBVIOUS
  <2>2. \A i : i \in 1..3 <=> i = 1 \/ i = 2 \/ i = 3
    OBVIOUS
  <2> HIDE DEF ops
  <2>3. Does(s, ops) <=> Len(s) = 3 /\ s[1].op = a /\ s[2].op = b /\ s[3].op = c
    BY <2>1, <2>2 DEF Does
  <2> QED
    BY <2>3 DEF ops
<1>4. ASSUME NEW a, NEW b, NEW c, NEW d
      PROVE  Does(s, <<a, b, c, d>>)
                 <=> /\ Len(s) = 4 /\ s[1].op = a /\ s[2].op = b
                     /\ s[3].op = c /\ s[4].op = d
  <2> DEFINE ops == <<a, b, c, d>>
  <2>1. Len(ops) = 4 /\ ops[1] = a /\ ops[2] = b /\ ops[3] = c /\ ops[4] = d
    OBVIOUS
  <2>2. \A i : i \in 1..4 <=> i = 1 \/ i = 2 \/ i = 3 \/ i = 4
    OBVIOUS
  <2> HIDE DEF ops
  <2>3. Does(s, ops) <=> /\ Len(s) = 4 /\ s[1].op = a /\ s[2].op = b
                         /\ s[3].op = c /\ s[4].op = d
    BY <2>1, <2>2 DEF Does
  <2> QED
    BY <2>3 DEF ops
<1> QED
  BY <1>1, <1>2, <1>3, <1>4

LEMMA Shifted ==
    ASSUME NEW S, NEW p \in Seq(S), p # <<>>
    PROVE  LET r == <<>> \o Tail(p)
           IN  /\ r \in Seq(S) /\ r = Tail(p) /\ Len(r) = Len(p) - 1 /\ Len(p) \in Nat
               /\ \A i \in 1..Len(r) : r[i] = p[i + 1]
<1>1. Tail(p) \in Seq(S) /\ <<>> \o Tail(p) = Tail(p)
  BY TailOf, ConcatEmptySeq
<1> QED
  BY <1>1, TailOf

LEMMA Replaced ==
    ASSUME NEW S, NEW p \in Seq(S), p # <<>>, NEW x \in S
    PROVE  LET r == <<x>> \o Tail(p)
           IN  /\ r \in Seq(S) /\ Len(r) = Len(p) /\ Len(p) \in Nat /\ r[1] = x
               /\ \A i \in 2..Len(p) : r[i] = p[i]
<1> DEFINE a == <<x>>
           b == Tail(p)
           r == a \o b
<1>1. a \in Seq(S) /\ Len(a) = 1 /\ a[1] = x
  OBVIOUS
<1>2. /\ b \in Seq(S) /\ Len(p) \in Nat /\ Len(p) > 0 /\ Len(b) = Len(p) - 1
      /\ DOMAIN b = 1..(Len(p) - 1) /\ \A i \in DOMAIN b : b[i] = p[i + 1]
  BY TailOf
<1> HIDE DEF a, b
<1>3. /\ r \in Seq(S) /\ Len(r) = Len(a) + Len(b)
      /\ \A i \in 1..Len(a) + Len(b) : r[i] = IF i <= Len(a) THEN a[i] ELSE b[i - Len(a)]
  <2>1. a \in Seq(S) /\ b \in Seq(S)
    BY <1>1, <1>2
  <2> QED
    BY ONLY <2>1, ConcatProperties
<1> HIDE DEF r
<1>4. Len(r) = Len(p) /\ r[1] = x
  BY <1>1, <1>2, <1>3
<1>5. ASSUME NEW i \in 2..Len(p)
      PROVE  r[i] = p[i]
  <2>1. i \in 1..Len(a) + Len(b) /\ ~ (i <= Len(a)) /\ i - Len(a) = i - 1
    BY <1>1, <1>2
  <2>2. r[i] = b[i - 1]
    BY <1>3, <2>1
  <2>3. i - 1 \in DOMAIN b /\ (i - 1) + 1 = i
    BY <1>2
  <2> QED
    BY <1>2, <2>2, <2>3
<1> QED
  BY <1>2, <1>3, <1>4, <1>5 DEF a, b, r

LEMMA MarksShift ==
    ASSUME NEW S, NEW p \in Seq(S), p # <<>>, OnlyMarks(p)
    PROVE  OnlyMarks(Tail(p))
BY TailOf DEF OnlyMarks

LEMMA MendsFrame ==
    ASSUME NEW s, Mends(s), auth' = auth, scheduled' = scheduled, Bound' = Bound
    PROVE  Mends(s)'
BY DEF Mends, Released, Agree

(* One goroutine at most is busy, and it mends what it left apart. *)
LEMMA Solo ==
    ASSUME NEW t \in Threads, NEW s, pending'[t] = s, s \in Seq(Sections(now)),
           \A u \in Threads \ {t} : ~ overlapped' => ~ Busy(u)',
           ~ overlapped' => Mends(s)'
    PROVE  Outline'
<1> SUFFICES ASSUME ~ overlapped'
             PROVE  /\ \A v, u \in Threads : Busy(v)' /\ Busy(u)' => v = u
                    /\ \A v \in Threads : Busy(v)' => Mends(pending[v])'
                    /\ Quiet' => Agree'
  BY DEF Outline
<1>1. \A u \in Threads : Busy(u)' => u = t
  OBVIOUS
<1>2. Mends(s)' /\ Mends(pending[t])'
  OBVIOUS
<1>3. ASSUME Quiet' PROVE Agree'
  <2>1. ~ Busy(t)'
    BY <1>3 DEF Quiet
  <2>2. s = <<>> \/ s[1].op = "answer"
    BY <2>1 DEF Busy, Idle, At
  <2>3. Len(s) \in Nat /\ (s # <<>> => Len(s) > 0 /\ 1 \in DOMAIN s)
    OBVIOUS
  <2>4. CASE s = <<>>
    <3>1. Len(s) = 0
      BY <2>4
    <3> QED
      BY <1>2, <3>1, DoesMeans DEF Mends
  <2>5. CASE s # <<>> /\ s[1].op = "answer"
    <3>1. ~ OnlyMarks(s)
      BY <2>3, <2>5 DEF OnlyMarks, Marks
    <3> QED
      BY <1>2, <2>3, <2>5, <3>1, DoesMeans DEF Mends
  <2> QED
    BY <2>2, <2>4, <2>5
<1> QED
  BY <1>1, <1>2, <1>3

----------------------------------------------------------------------------
(* The outline, one critical section at a time. *)

(* What a section that gives way to one other leaves. *)
LEMMA GoesTo ==
    ASSUME Shapes, NEW t \in Threads, NEW x \in Sections(now), Continues(t, <<x>>),
           NEW s, pending'[t] = s
    PROVE  /\ s \in Seq(Sections(now)) /\ Len(s) \in Nat
           /\ Len(s) = Len(pending[t]) /\ s[1] = x
           /\ Len(pending[t]) > 1 => s[2] = pending[t][2]
<1>1. /\ pending[t] \in Seq(Sections(now)) /\ pending[t] # <<>>
      /\ s = <<x>> \o Tail(pending[t])
  BY ContinuesAs DEF Shapes
<1>2. /\ s \in Seq(Sections(now)) /\ Len(s) = Len(pending[t]) /\ Len(s) \in Nat
      /\ s[1] = x /\ \A i \in 2..Len(pending[t]) : s[i] = pending[t][i]
  BY <1>1, Replaced
<1> QED
  BY <1>2

(* What a section that is done leaves. *)
LEMMA GoesOn ==
    ASSUME Shapes, NEW t \in Threads, Continues(t, <<>>), NEW s, pending'[t] = s
    PROVE  /\ s \in Seq(Sections(now)) /\ Len(s) \in Nat /\ Len(pending[t]) \in Nat
           /\ s = Tail(pending[t]) /\ Len(s) = Len(pending[t]) - 1
           /\ Len(s) > 0 => s[1] = pending[t][2]
           /\ Len(s) > 1 => s[2] = pending[t][3]
           /\ Len(s) > 2 => s[3] = pending[t][4]
           /\ Head(pending[t]) = pending[t][1] /\ pending[t] # <<>>
           /\ OnlyMarks(pending[t]) => OnlyMarks(s)
<1>1. /\ pending[t] \in Seq(Sections(now)) /\ pending[t] # <<>>
      /\ s = <<>> \o Tail(pending[t])
  BY ContinuesAs DEF Shapes
<1>2. /\ s \in Seq(Sections(now)) /\ s = Tail(pending[t]) /\ Len(s) = Len(pending[t]) - 1
      /\ Len(pending[t]) \in Nat
      /\ \A i \in 1..Len(s) : s[i] = pending[t][i + 1]
  BY <1>1, Shifted
<1>3. Head(pending[t]) = pending[t][1] /\ Len(s) \in Nat
  BY <1>1, <1>2, TailOf
<1>4. OnlyMarks(pending[t]) => OnlyMarks(s)
  BY <1>1, <1>2, MarksShift
<1> QED
  BY <1>1, <1>2, <1>3, <1>4

LEMMA NotMarks ==
    ASSUME NEW S, NEW p \in Seq(S), p # <<>>, p[1].op \notin Marks
    PROVE  ~ OnlyMarks(p) /\ Len(p) \in Nat /\ Len(p) > 0 /\ Head(p) = p[1]
BY DEF OnlyMarks

LEMMA LoneTail ==
    ASSUME NEW S, NEW s \in Seq(S), Len(s) = 1
    PROVE  OnlyMarks(Tail(s))
<1>1. s # <<>>
  <2>1. Len(<<>>) = 0
    OBVIOUS
  <2> QED
    BY ONLY <2>1, Len(s) = 1
<1>2. DOMAIN Tail(s) = 1..(Len(s) - 1)
  BY <1>1, TailOf
<1>3. DOMAIN Tail(s) = {}
  BY <1>2
<1> QED
  BY <1>3 DEF OnlyMarks

LEMMA UpsertMends ==
    ASSUME Shapes, NEW t \in Threads, UpsertAuth(t), Mends(pending[t]),
           NEW s, pending'[t] = s
    PROVE  s \in Seq(Sections(now)) /\ Mends(s)'
<1> DEFINE p == pending[t]
           a == Head(pending[t]).auth
<1>1. /\ Continues(t, <<>>) /\ Head(p).op = "upsert"
      /\ scheduled' = Entry(a)
      /\ UNCHANGED <<stateVars, registryVars, overlapped>>
  BY UpsertContinues
<1>2. /\ s \in Seq(Sections(now)) /\ Len(s) \in Nat /\ Len(p) \in Nat
      /\ s = Tail(p) /\ Len(s) = Len(p) - 1
      /\ Len(s) > 0 => s[1] = p[2]
      /\ Len(s) > 1 => s[2] = p[3]
      /\ Len(s) > 2 => s[3] = p[4]
      /\ Head(p) = p[1] /\ p # <<>> /\ p \in Seq(Sections(now))
  BY <1>1, GoesOn DEF Shapes
<1>3. p[1].op = "upsert" /\ ~ OnlyMarks(p)
  BY <1>1, <1>2, NotMarks DEF Marks
<1>4. auth' = auth /\ Bound' = Bound
  BY <1>1, BoundStays DEF stateVars, registryVars
<1>5. \/ OnlyMarks(s) /\ a \in {Live, auth} /\ Released
      \/ Does(s, <<"refresh">>) /\ Released
      \/ /\ Does(s, <<"register", "read", "refresh">>)
         /\ s[1].auth.disabled = auth.disabled
      \/ Does(s, <<"latest">>)
  <2> HIDE DEF p
  <2>1. \/ OnlyMarks(Tail(p)) /\ p[1].auth \in {Live, auth} /\ Released
        \/ Does(p, <<"upsert", "refresh">>) /\ Released
        \/ /\ Does(p, <<"upsert", "register", "read", "refresh">>)
           /\ p[2].auth.disabled = auth.disabled
        \/ Does(p, <<"upsert", "latest">>)
    BY <1>2, <1>3, DoesMeans DEF Mends, p
  <2>2. a = p[1].auth
    BY <1>2 DEF p
  <2> HIDE DEF a
  <2>6. Len(p) \in Nat /\ Len(s) \in Nat
    BY <1>2
  <2>7. /\ Len(s) = Len(p) - 1
        /\ Len(s) > 0 => s[1] = p[2]
        /\ Len(s) > 1 => s[2] = p[3]
        /\ Len(s) > 2 => s[3] = p[4]
    BY <1>2
  <2>3. ASSUME Does(p, <<"upsert", "refresh">>)
        PROVE  Does(s, <<"refresh">>)
    <3>1. Len(p) = 2 /\ p[2].op = "refresh"
      BY <2>3, <2>6, DoesMeans
    <3>2. Len(s) = 1 /\ s[1].op = "refresh"
      BY <1>2, <3>1
    <3> QED
      BY <2>6, <3>2, DoesMeans
  <2>4. ASSUME Does(p, <<"upsert", "register", "read", "refresh">>)
        PROVE  Does(s, <<"register", "read", "refresh">>) /\ s[1] = p[2]
    <3>1. Len(p) = 4 /\ p[2].op = "register" /\ p[3].op = "read" /\ p[4].op = "refresh"
      BY <2>4, <2>6, DoesMeans
    <3>2. /\ Len(s) = 3 /\ s[1].op = "register" /\ s[2].op = "read"
          /\ s[3].op = "refresh" /\ s[1] = p[2]
      BY ONLY <2>6, <2>7, <3>1
    <3> QED
      BY <2>6, <3>2, DoesMeans
  <2>5. ASSUME Does(p, <<"upsert", "latest">>)
        PROVE  Does(s, <<"latest">>)
    <3>1. Len(p) = 2 /\ p[2].op = "latest"
      BY <2>5, <2>6, DoesMeans
    <3>2. Len(s) = 1 /\ s[1].op = "latest"
      BY ONLY <2>6, <2>7, <3>1
    <3> QED
      BY <2>6, <3>2, DoesMeans
  <2> QED
    BY <1>2, <2>1, <2>2, <2>3, <2>4, <2>5
<1>6. a \in {Live, auth} /\ Released => Agree'
  <2> SUFFICES ASSUME a \in {Live, auth}, Released PROVE Agree'
    OBVIOUS
  <2>1. auth \in AuthStates /\ auth # Live
    BY LiveIsNoRecord DEF Shapes, Good
  <2>2. Current(a) = auth
    BY <2>1 DEF Current
  <2> HIDE DEF a
  <2>3. CASE auth.disabled
    BY <1>1, <1>4, <2>2, <2>3 DEF Entry, Agree, Released, NotScheduled
  <2>4. CASE ~ auth.disabled
    <3>1. scheduled' = [auth |-> a, models |-> Bound]
      BY <1>1, <2>2, <2>4 DEF Entry
    <3>2. scheduled' \in [auth : AuthStates \cup {Live}, models : SUBSET Models]
      BY <2>1, <3>1, BoundTyped
    <3>3. scheduled' # None
      BY <3>2, NoneIsNoEntry
    <3> QED
      BY <1>4, <2>4, <3>1, <3>3 DEF Agree, NotScheduled
  <2> QED
    BY <2>3, <2>4
<1> HIDE DEF a, p
<1>7. Released => Released'
  BY <1>4 DEF Released
<1> QED
  BY <1>2, <1>4, <1>5, <1>6, <1>7 DEF Mends

LEMMA UpdateMends ==
    ASSUME Shapes, Followups, NEW t \in Threads, UpdateAuth(t), Mends(pending[t]),
           NEW s, pending'[t] = s
    PROVE  s \in Seq(Sections(now)) /\ Mends(s)'
<1> DEFINE p == pending[t]
           x == Upsert(Live)
<1>1. /\ Head(p).op = "update" /\ p # <<>> /\ p \in Seq(Sections(now))
      /\ auth'.disabled = Head(p).auth.disabled
      /\ s = <<x>> \o Tail(p)
      /\ UNCHANGED <<cooling, now, registryVars, overlapped>>
  BY UpdateGoes DEF Shapes
<1>2. x \in Sections(now) /\ x.op = "upsert" /\ x.auth = Live
  BY SectionsMade DEF Shapes
<1> HIDE DEF p, x
<1>3. /\ s \in Seq(Sections(now)) /\ Len(s) = Len(p) /\ Len(p) \in Nat /\ s[1] = x
      /\ \A i \in 2..Len(p) : s[i] = p[i]
  BY <1>1, <1>2, Replaced
<1>4. p[1].op = "update" /\ ~ OnlyMarks(p) /\ Head(p) = p[1] /\ Len(p) > 0
  BY <1>1, NotMarks, TailOf DEF Marks
<1>5. Bound' = Bound
  BY <1>1, BoundStays DEF registryVars
<1>6. \/ /\ Does(p, <<"update", "register", "read", "refresh">>)
         /\ p[2].auth.disabled = p[1].auth.disabled
      \/ Does(p, <<"update">>) /\ p[1].auth.disabled /\ Bound = {}
  <2>1. Mends(p)
    BY DEF p
  <2> QED
    BY <1>3, <1>4, <2>1, DoesMeans DEF Mends
<1>7. CASE /\ Does(p, <<"update", "register", "read", "refresh">>)
           /\ p[2].auth.disabled = p[1].auth.disabled
  <2>1. /\ Len(p) = 4 /\ p[2].op = "register" /\ p[3].op = "read" /\ p[4].op = "refresh"
    BY <1>3, <1>7, DoesMeans
  <2>2. s[2] = p[2] /\ s[3] = p[3] /\ s[4] = p[4] /\ Len(s) = 4
    BY <1>3, <2>1
  <2>3. Does(s, <<"upsert", "register", "read", "refresh">>)
    BY <1>2, <1>3, <2>1, <2>2, DoesMeans
  <2>4. s[2].auth.disabled = auth'.disabled
    BY <1>1, <1>4, <1>7, <2>2
  <2> QED
    BY <1>3, <2>3, <2>4 DEF Mends
<1>8. CASE Does(p, <<"update">>) /\ p[1].auth.disabled /\ Bound = {}
  <2>1. Len(p) = 1
    BY <1>3, <1>8, DoesMeans
  <2>2. Len(s) = 1 /\ s[1].op = "upsert" /\ s[1].auth = Live
    BY <1>2, <1>3, <2>1
  <2>3. OnlyMarks(Tail(s))
    BY <1>3, <2>2, LoneTail
  <2>4. Released'
    BY <1>5, <1>8 DEF Released
  <2> QED
    BY <1>3, <2>2, <2>3, <2>4 DEF Mends
<1> QED
  BY <1>6, <1>7, <1>8

LEMMA RegisterMends ==
    ASSUME Shapes, NEW t \in Threads, Register(t), Mends(pending[t]),
           NEW s, pending'[t] = s
    PROVE  s \in Seq(Sections(now)) /\ Mends(s)'
<1> DEFINE p == pending[t]
<1>1. /\ Continues(t, <<>>) /\ Head(p).op = "register"
      /\ Head(p).auth.disabled => Bound' = {}
      /\ UNCHANGED <<stateVars, scheduled, overlapped>>
  BY RegisterContinues
<1>2. /\ s \in Seq(Sections(now)) /\ Len(s) \in Nat /\ Len(p) \in Nat
      /\ Head(p) = p[1] /\ p # <<>> /\ p \in Seq(Sections(now))
  BY <1>1, GoesOn DEF Shapes
<1>3. /\ Len(s) = Len(p) - 1
      /\ Len(s) > 0 => s[1] = p[2]
      /\ Len(s) > 1 => s[2] = p[3]
  BY <1>1, GoesOn
<1>4. Mends(p) /\ auth' = auth
  BY <1>1 DEF stateVars
<1> HIDE DEF p
<1>5. p[1].op = "register" /\ ~ OnlyMarks(p) /\ Len(p) > 0
  BY <1>1, <1>2, NotMarks DEF Marks
<1>6. \/ /\ Does(p, <<"register", "read", "refresh">>)
         /\ p[1].auth.disabled = auth.disabled
      \/ Does(p, <<"register", "read", "latest">>)
  BY <1>2, <1>4, <1>5, DoesMeans DEF Mends
<1>7. /\ Len(p) = 3 /\ p[2].op = "read"
      /\ \/ p[3].op = "refresh" /\ p[1].auth.disabled = auth.disabled
         \/ p[3].op = "latest"
  BY <1>2, <1>6, DoesMeans
<1>8. Len(s) = 2 /\ s[1].op = "read" /\ s[2].op = p[3].op
  BY ONLY <1>2, <1>3, <1>7
<1>9. CASE p[3].op = "refresh" /\ p[1].auth.disabled = auth.disabled
  <2>1. Does(s, <<"read", "refresh">>)
    BY <1>2, <1>8, <1>9, DoesMeans
  <2>2. Released'
    BY <1>1, <1>2, <1>4, <1>9 DEF Released
  <2> QED
    BY <1>2, <2>1, <2>2 DEF Mends
<1>10. CASE p[3].op = "latest"
  <2>1. Does(s, <<"read", "latest">>)
    BY <1>2, <1>8, <1>10, DoesMeans
  <2> QED
    BY <1>2, <2>1 DEF Mends
<1> QED
  BY <1>7, <1>9, <1>10

LEMMA UnregisterMends ==
    ASSUME Shapes, NEW t \in Threads, Unregister(t), Mends(pending[t]),
           NEW s, pending'[t] = s
    PROVE  s \in Seq(Sections(now)) /\ Mends(s)'
<1> DEFINE p == pending[t]
<1>1. /\ Continues(t, <<>>) /\ Head(p).op = "unregister" /\ Bound' = {}
      /\ UNCHANGED <<stateVars, scheduled, overlapped>>
  BY UnregisterContinues
<1>2. /\ s \in Seq(Sections(now)) /\ Len(s) \in Nat /\ Len(p) \in Nat
      /\ Head(p) = p[1] /\ p # <<>> /\ p \in Seq(Sections(now))
  BY <1>1, GoesOn DEF Shapes
<1>3. Len(s) = Len(p) - 1 /\ (Len(s) > 0 => s[1] = p[2])
  BY <1>1, GoesOn
<1>4. Mends(p)
  OBVIOUS
<1> HIDE DEF p
<1>5. p[1].op = "unregister" /\ ~ OnlyMarks(p) /\ Len(p) > 0
  BY <1>1, <1>2, NotMarks DEF Marks
<1>6. Len(p) = 2 /\ p[2].op = "refresh"
  BY <1>2, <1>4, <1>5, DoesMeans DEF Mends
<1>7. Len(s) = 1 /\ s[1].op = "refresh"
  BY ONLY <1>2, <1>3, <1>6
<1>8. Does(s, <<"refresh">>)
  BY <1>2, <1>7, DoesMeans
<1>9. Released'
  BY <1>1 DEF Released
<1> QED
  BY <1>2, <1>8, <1>9 DEF Mends

LEMMA MarkMends ==
    ASSUME Shapes, NEW t \in Threads, MarkInRegistry(t), Mends(pending[t]),
           NEW s, pending'[t] = s
    PROVE  s \in Seq(Sections(now)) /\ Mends(s)'
<1> DEFINE p == pending[t]
<1>1. /\ Continues(t, <<>>) /\ Head(p).op \in Marks /\ clientModels' = clientModels
      /\ UNCHANGED <<stateVars, scheduled, overlapped>>
  BY MarkContinues
<1>2. /\ s \in Seq(Sections(now)) /\ Len(p) \in Nat
      /\ Head(p) = p[1] /\ p # <<>> /\ p \in Seq(Sections(now))
      /\ OnlyMarks(p) => OnlyMarks(s)
  BY <1>1, GoesOn DEF Shapes
<1>3. Mends(p)
  OBVIOUS
<1> HIDE DEF p
<1>4. p[1].op \in {"clear", "exceed", "suspend", "resume"}
  BY <1>1, <1>2 DEF Marks
<1>5. OnlyMarks(p) /\ Agree
  BY <1>2, <1>3, <1>4, DoesMeans DEF Mends
<1>6. Agree'
  BY <1>1, <1>5, BoundStays DEF Agree, stateVars
<1> QED
  BY <1>2, <1>5, <1>6 DEF Mends

LEMMA ReadMends ==
    ASSUME Shapes, NEW t \in Threads, ReadModels(t), Mends(pending[t]),
           NEW s, pending'[t] = s
    PROVE  s \in Seq(Sections(now)) /\ Mends(s)'
<1> DEFINE p == pending[t]
           x == [op |-> "reconcile", supported |-> Bound]
<1>1. /\ Continues(t, <<x>>) /\ Head(p).op = "read"
      /\ UNCHANGED <<stateVars, registryVars, scheduled, overlapped>>
  BY ReadContinues
<1>2. x \in Sections(now) /\ x.op = "reconcile"
  BY BoundTyped DEF Sections
<1> HIDE DEF x
<1>3. /\ s \in Seq(Sections(now)) /\ Len(s) \in Nat /\ Len(s) = Len(p) /\ s[1] = x
      /\ Len(p) > 1 => s[2] = p[2]
  BY <1>1, <1>2, GoesTo
<1>4. p \in Seq(Sections(now)) /\ p # <<>> /\ Mends(p) /\ Head(p) = p[1]
  BY <1>1, ContinuesAs, TailOf DEF Shapes
<1>5. auth' = auth /\ Bound' = Bound
  BY <1>1, BoundStays DEF stateVars, registryVars
<1> HIDE DEF p
<1>6. p[1].op = "read" /\ ~ OnlyMarks(p) /\ Len(p) > 0 /\ Len(p) \in Nat
  BY <1>1, <1>4, NotMarks DEF Marks
<1>7. /\ Len(p) = 2
      /\ (p[2].op = "refresh" /\ Released) \/ p[2].op = "latest"
  BY <1>4, <1>6, DoesMeans DEF Mends
<1>8. Len(s) = 2 /\ s[1].op = "reconcile" /\ s[2].op = p[2].op
  BY <1>2, <1>3, <1>7
<1>9. CASE p[2].op = "refresh" /\ Released
  <2>1. Does(s, <<"reconcile", "refresh">>)
    BY <1>3, <1>8, <1>9, DoesMeans
  <2>2. Released'
    BY <1>5, <1>9 DEF Released
  <2> QED
    BY <1>3, <2>1, <2>2 DEF Mends
<1>10. CASE p[2].op = "latest"
  <2>1. Does(s, <<"reconcile", "latest">>)
    BY <1>3, <1>8, <1>10, DoesMeans
  <2> QED
    BY <1>3, <2>1 DEF Mends
<1> QED
  BY <1>7, <1>9, <1>10

LEMMA ReconcileMends ==
    ASSUME Shapes, NEW t \in Threads, Reconcile(t), Mends(pending[t]),
           NEW s, pending'[t] = s
    PROVE  s \in Seq(Sections(now)) /\ Mends(s)'
<1> DEFINE p == pending[t]
<1>1. /\ \/ Continues(t, <<>>) /\ auth' = auth
         \/ Continues(t, <<Upsert(auth')>>)
      /\ Head(p).op = "reconcile"
      /\ auth' \in Good(now) /\ auth'.disabled = auth.disabled
      /\ UNCHANGED <<cooling, now, registryVars, scheduled, overlapped>>
  BY ReconcileContinues
<1>2. p \in Seq(Sections(now)) /\ p # <<>> /\ Mends(p) /\ Head(p) = p[1]
  BY <1>1, ContinuesAs, TailOf DEF Shapes
<1>3. Bound' = Bound
  BY <1>1, BoundStays DEF registryVars
<1>4. Released => Released'
  BY <1>1, <1>3 DEF Released
<1>5. p[1].op = "reconcile" /\ ~ OnlyMarks(p) /\ Len(p) > 0 /\ Len(p) \in Nat
  BY <1>1, <1>2, NotMarks DEF Marks
<1>6. /\ Len(p) = 2
      /\ (p[2].op = "refresh" /\ Released) \/ p[2].op = "latest"
  <2> HIDE DEF p
  <2> QED
    BY <1>2, <1>5, DoesMeans DEF Mends
<1>7. CASE Continues(t, <<>>)
  <2>1. /\ s \in Seq(Sections(now)) /\ Len(s) \in Nat
    BY <1>7, GoesOn
  <2>2. Len(s) = Len(p) - 1 /\ (Len(s) > 0 => s[1] = p[2])
    BY <1>7, GoesOn
  <2> HIDE DEF p
  <2>3. Len(s) = 1 /\ s[1] = p[2]
    BY ONLY <1>6, <2>1, <2>2
  <2>4. \/ Does(s, <<"refresh">>) /\ Released'
        \/ Does(s, <<"latest">>)
    BY <1>4, <1>6, <2>1, <2>3, DoesMeans
  <2> QED
    BY <2>1, <2>4 DEF Mends
<1>8. CASE Continues(t, <<Upsert(auth')>>)
  <2> DEFINE x == Upsert(auth')
  <2>1. PICK y \in Sections(now) : y = x /\ y.op = "upsert"
    BY <1>1, SectionsMade
  <2>2. Continues(t, <<y>>)
    BY <1>8, <2>1
  <2>3. /\ s \in Seq(Sections(now)) /\ Len(s) \in Nat /\ Len(s) = Len(p) /\ s[1] = y
        /\ Len(p) > 1 => s[2] = p[2]
    BY <2>2, GoesTo
  <2> HIDE DEF p, x
  <2>4. Len(s) = 2 /\ s[1].op = "upsert" /\ s[2] = p[2]
    BY <1>6, <2>1, <2>3
  <2>5. \/ Does(s, <<"upsert", "refresh">>) /\ Released'
        \/ Does(s, <<"upsert", "latest">>)
    BY <1>4, <1>6, <2>3, <2>4, DoesMeans
  <2> QED
    BY <2>3, <2>5 DEF Mends
<1> QED
  BY <1>1, <1>7, <1>8

LEMMA RefreshMends ==
    ASSUME Shapes, NEW t \in Threads, RefreshSchedulerEntry(t), Mends(pending[t]),
           NEW s, pending'[t] = s
    PROVE  s \in Seq(Sections(now)) /\ Mends(s)'
<1> DEFINE p == pending[t]
           x == Upsert(auth)
<1>1. /\ Continues(t, <<x>>) /\ Head(p).op = "refresh"
      /\ UNCHANGED <<stateVars, registryVars, scheduled, overlapped>>
  BY RefreshContinues
<1>2. x \in Sections(now) /\ x.op = "upsert" /\ x.auth = auth
  BY SectionsMade DEF Shapes
<1> HIDE DEF x
<1>3. /\ s \in Seq(Sections(now)) /\ Len(s) \in Nat /\ Len(s) = Len(p) /\ s[1] = x
  BY <1>1, <1>2, GoesTo
<1>4. p \in Seq(Sections(now)) /\ p # <<>> /\ Mends(p) /\ Head(p) = p[1]
  BY <1>1, ContinuesAs, TailOf DEF Shapes
<1>5. auth' = auth /\ Bound' = Bound
  BY <1>1, BoundStays DEF stateVars, registryVars
<1> HIDE DEF p
<1>6. p[1].op = "refresh" /\ ~ OnlyMarks(p) /\ Len(p) > 0 /\ Len(p) \in Nat
  BY <1>1, <1>4, NotMarks DEF Marks
<1>7. Len(p) = 1 /\ Released
  BY <1>4, <1>6, DoesMeans DEF Mends
<1>8. Len(s) = 1 /\ s[1].op = "upsert" /\ s[1].auth = auth'
  BY <1>2, <1>3, <1>5, <1>7
<1>9. OnlyMarks(Tail(s))
  BY <1>3, <1>8, LoneTail
<1>10. Released'
  BY <1>5, <1>7 DEF Released
<1> QED
  BY <1>3, <1>8, <1>9, <1>10 DEF Mends

LEMMA FetchMends ==
    ASSUME Shapes, NEW t \in Threads, FetchToDisable(t), Mends(pending[t]),
           NEW s, pending'[t] = s
    PROVE  s \in Seq(Sections(now)) /\ Mends(s)'
<1> DEFINE p == pending[t]
           x == UpdateTo(Withdrawn(auth))
<1>1. /\ Continues(t, <<x>>) /\ Head(p).op = "fetch"
      /\ Withdrawn(auth) \in Good(now) /\ Withdrawn(auth).disabled
      /\ UNCHANGED <<stateVars, registryVars, scheduled, overlapped>>
  BY FetchContinues
<1>2. x \in Sections(now) /\ x.op = "update" /\ x.auth = Withdrawn(auth)
  BY <1>1, SectionsMade
<1> HIDE DEF x
<1>3. /\ s \in Seq(Sections(now)) /\ Len(s) \in Nat /\ Len(s) = Len(p) /\ s[1] = x
  BY <1>1, <1>2, GoesTo
<1>4. p \in Seq(Sections(now)) /\ p # <<>> /\ Mends(p) /\ Head(p) = p[1]
  BY <1>1, ContinuesAs, TailOf DEF Shapes
<1>5. Bound' = Bound
  BY <1>1, BoundStays DEF registryVars
<1> HIDE DEF p
<1>6. p[1].op = "fetch" /\ ~ OnlyMarks(p) /\ Len(p) > 0 /\ Len(p) \in Nat
  BY <1>1, <1>4, NotMarks DEF Marks
<1>7. Len(p) = 1 /\ Bound = {}
  BY <1>4, <1>6, DoesMeans DEF Mends
<1>8. Len(s) = 1 /\ s[1].op = "update" /\ s[1].auth.disabled
  BY <1>1, <1>2, <1>3, <1>7
<1>9. Does(s, <<"update">>)
  BY <1>3, <1>8, DoesMeans
<1> QED
  BY <1>3, <1>5, <1>7, <1>8, <1>9 DEF Mends

LEMMA LatestMends ==
    ASSUME Shapes, NEW t \in Threads, FetchLatest(t), Mends(pending[t]),
           NEW s, pending'[t] = s
    PROVE  s \in Seq(Sections(now)) /\ Mends(s)'
<1> DEFINE p == pending[t]
<1>1. /\ Continues(t, Latest) /\ Head(p).op = "latest"
      /\ UNCHANGED <<stateVars, registryVars, scheduled, overlapped>>
  BY LatestContinues
<1>2. /\ p \in Seq(Sections(now)) /\ p # <<>> /\ Mends(p) /\ Head(p) = p[1]
      /\ s = Latest \o Tail(p)
  BY <1>1, ContinuesAs, TailOf DEF Shapes
<1>3. Latest \in Seq(Sections(now)) /\ auth \in Good(now)
  BY <1>1 DEF Continues, Shapes
<1>4. auth' = auth
  BY <1>1 DEF stateVars
<1> HIDE DEF p
<1>5. p[1].op = "latest" /\ ~ OnlyMarks(p) /\ Len(p) > 0 /\ Len(p) \in Nat
  BY <1>1, <1>2, NotMarks DEF Marks
<1>6. Len(p) = 1
  BY <1>2, <1>5, DoesMeans DEF Mends
<1>7. Tail(p) = <<>>
  <2>1. Tail(p) \in Seq(Sections(now)) /\ Len(Tail(p)) = 0
    BY <1>2, <1>6, TailOf
  <2> QED
    BY ONLY <2>1, EmptySeq
<1>8. s = Latest
  BY <1>2, <1>3, <1>7, ConcatEmptySeq
<1>9. CASE auth.disabled
  <2> DEFINE x == Section("unregister")
             y == Section("refresh")
  <2>1. x.op = "unregister" /\ y.op = "refresh" /\ Latest = <<x, y>>
    BY <1>9 DEF Latest, Section
  <2> HIDE DEF x, y
  <2>2. Len(s) = 2 /\ s[1] = x /\ s[2] = y
    BY <1>8, <2>1
  <2>3. Does(s, <<"unregister", "refresh">>)
    BY <2>1, <2>2, DoesMeans
  <2> QED
    BY <1>3, <1>4, <1>8, <1>9, <2>3 DEF Mends
<1>10. CASE ~ auth.disabled
  <2> DEFINE x == RegisterModels(auth)
             y == Section("read")
             z == Section("refresh")
  <2>1. /\ x.op = "register" /\ y.op = "read" /\ z.op = "refresh" /\ x.auth = auth
        /\ Latest = <<x, y, z>>
    <3>1. Latest = Reregister(auth) \o <<Section("refresh")>>
      BY <1>10 DEF Latest
    <3>2. Latest = <<x, y, z>>
      BY <1>3, <3>1, Reregistration
    <3> QED
      BY <1>3, <3>2, SectionsMade
  <2> HIDE DEF x, y, z
  <2>2. Len(s) = 3 /\ s[1] = x /\ s[2] = y /\ s[3] = z
    BY <1>8, <2>1
  <2>3. Does(s, <<"register", "read", "refresh">>)
    BY <2>1, <2>2, DoesMeans
  <2>4. s[1].auth.disabled = auth'.disabled
    BY <1>4, <2>1, <2>2
  <2> QED
    BY <1>3, <1>8, <2>3, <2>4 DEF Mends
<1> QED
  BY <1>9, <1>10

----------------------------------------------------------------------------
(* The outline, step by step. *)

LEMMA BusyStays ==
    ASSUME NEW u, pending'[u] = pending[u]
    PROVE  Busy(u)' <=> Busy(u)
BY DEF Busy, Idle, At

LEMMA SectionBusy ==
    ASSUME Shapes, Followups, NEW t \in Threads, CriticalSection(t)
    PROVE  /\ Busy(t) /\ overlapped' = overlapped
           /\ \A u \in Threads \ {t} : Busy(u)' <=> Busy(u)
<1>1. Busy(t) /\ overlapped' = overlapped
  BY DEF CriticalSection, Busy, At, UpsertAuth, UpdateAuth, Register, Unregister,
         MarkInRegistry, ReadModels, Reconcile, RefreshSchedulerEntry,
         FetchToDisable, FetchLatest
<1>2. CASE UpdateAuth(t)
  <2>1. ASSUME NEW u \in Threads \ {t}
        PROVE  Busy(u)' <=> Busy(u)
    <3>1. pending'[u] = SettledSections(pending[u])
      BY <1>2, UpdateGoes
    <3>2. pending[u] \in Seq(Sections(now)) /\ auth \in Good(now)
      BY DEF Shapes
    <3> DEFINE s == pending[u]
               r == SettledSections(pending[u])
    <3>3. /\ r \in Seq(Sections(now)) /\ DOMAIN r = DOMAIN s /\ Len(r) = Len(s)
          /\ \A i \in DOMAIN s : r[i].op = s[i].op
      BY <3>2, SettlingKeeps
    <3>4. s \in Seq(Sections(now))
      BY <3>2
    <3>5. pending'[u] = r
      BY <3>1
    <3> HIDE DEF s, r
    <3>6. s = <<>> <=> r = <<>>
      BY <3>3, <3>4, EmptySeq
    <3>7. s # <<>> => Head(r).op = Head(s).op
      BY <3>3, <3>4, <3>6, TailOf
    <3>8. Busy(u) <=> s # <<>> /\ Head(s).op # "answer"
      BY DEF Busy, Idle, At, s
    <3>9. Busy(u)' <=> r # <<>> /\ Head(r).op # "answer"
      BY <3>5 DEF Busy, Idle, At
    <3> QED
      BY <3>6, <3>7, <3>8, <3>9
  <2> QED
    BY <1>1, <2>1
<1>3. CASE ~ UpdateAuth(t)
  <2>1. \E sections : Then(t, sections)
    BY <1>3 DEF CriticalSection, UpsertAuth, Register, Unregister, MarkInRegistry,
         ReadModels, Reconcile, RefreshSchedulerEntry, FetchToDisable, FetchLatest
  <2>2. \A u \in Threads \ {t} : pending'[u] = pending[u]
    BY <2>1 DEF Then, Shapes
  <2> QED
    BY <1>1, <2>2, BusyStays
<1> QED
  BY <1>2, <1>3

LEMMA SectionOutline ==
    ASSUME Early, Outline, NEW t \in Threads, CriticalSection(t)
    PROVE  Outline'
<1>1. Shapes /\ Followups
  BY DEF Early
<1>2. /\ Busy(t) /\ overlapped' = overlapped
      /\ \A u \in Threads \ {t} : Busy(u)' <=> Busy(u)
  BY <1>1, SectionBusy
<1>3. \A u \in Threads \ {t} : ~ overlapped' => ~ Busy(u)'
  BY <1>2 DEF Outline
<1>4. PICK s : s = pending'[t]
  OBVIOUS
<1>5. pending'[t] = s
  BY <1>4
<1>6. s \in Seq(Sections(now))
  <2>1. now' = now
    BY <1>1 DEF CriticalSection, UpsertAuth, UpdateAuth, Register, Unregister,
         MarkInRegistry, MarkOr, ReadModels, Reconcile, RefreshSchedulerEntry,
         FetchToDisable, FetchLatest, stateVars, Reg!RegisterClient,
         Reg!UnregisterClient, Reg!ClearModelQuotaExceeded,
         Reg!SetModelQuotaExceeded, Reg!SuspendClientModel, Reg!ResumeClientModel
  <2>2. Shapes'
    BY EarlySection DEF Early
  <2>3. pending'[t] \in Seq(Sections(now'))
    BY <2>2 DEF Shapes
  <2> QED
    BY <1>5, <2>1, <2>3
<1>7. ASSUME ~ overlapped' PROVE Mends(s)'
  <2>1. Mends(pending[t])
    BY <1>2, <1>7 DEF Outline
  <2>2. CASE UpsertAuth(t)
    BY <1>1, <1>5, <2>1, <2>2, UpsertMends
  <2>3. CASE UpdateAuth(t)
    BY <1>1, <1>5, <2>1, <2>3, UpdateMends
  <2>4. CASE Register(t)
    BY <1>1, <1>5, <2>1, <2>4, RegisterMends
  <2>5. CASE Unregister(t)
    BY <1>1, <1>5, <2>1, <2>5, UnregisterMends
  <2>6. CASE MarkInRegistry(t)
    BY <1>1, <1>5, <2>1, <2>6, MarkMends
  <2>7. CASE ReadModels(t)
    BY <1>1, <1>5, <2>1, <2>7, ReadMends
  <2>8. CASE Reconcile(t)
    BY <1>1, <1>5, <2>1, <2>8, ReconcileMends
  <2>9. CASE RefreshSchedulerEntry(t)
    BY <1>1, <1>5, <2>1, <2>9, RefreshMends
  <2>10. CASE FetchToDisable(t)
    BY <1>1, <1>5, <2>1, <2>10, FetchMends
  <2>11. CASE FetchLatest(t)
    BY <1>1, <1>5, <2>1, <2>11, LatestMends
  <2> QED
    BY <2>2, <2>3, <2>4, <2>5, <2>6, <2>7, <2>8, <2>9, <2>10, <2>11
    DEF CriticalSection
<1> QED
  BY <1>3, <1>5, <1>6, <1>7, Solo

LEMMA StartOutline ==
    ASSUME NEW t \in Threads, NEW all \in BOOLEAN, Begin(t, all), NEW s,
           pending'[t] = s, \A u \in Threads \ {t} : pending'[u] = pending[u],
           s \in Seq(Sections(now)), ~ overlapped' => Mends(s)'
    PROVE  Outline'
<1>1. ASSUME NEW u \in Threads \ {t}, ~ overlapped'
      PROVE  ~ Busy(u)'
  <2>1. ~ Busy(u)
    BY <1>1 DEF Begin
  <2> QED
    BY <1>1, <2>1, BusyStays
<1> QED
  BY <1>1, Solo

(* Who starts alone, while nothing was out of step, finds agreement. *)
LEMMA FindsAgreement ==
    ASSUME Outline, NEW t \in Threads, ~ Busy(t), Begin(t, FALSE), ~ overlapped'
    PROVE  Agree
<1>1. ~ overlapped /\ \A u \in Threads \ {t} : ~ Busy(u)
  BY DEF Begin
<1>2. Quiet
  BY <1>1 DEF Quiet
<1> QED
  BY <1>1, <1>2 DEF Outline

LEMMA OutlineFrame ==
    ASSUME Outline, UNCHANGED <<auth, scheduled, overlapped>>, Bound' = Bound,
           \A t \in Threads : \/ pending'[t] = pending[t]
                              \/ ~ Busy(t)' /\ ~ Busy(t)
    PROVE  Outline'
<1>1. SUFFICES ASSUME ~ overlapped'
               PROVE  /\ \A v, u \in Threads : Busy(v)' /\ Busy(u)' => v = u
                      /\ \A v \in Threads : Busy(v)' => Mends(pending[v])'
                      /\ Quiet' => Agree'
  BY DEF Outline
<1>2. \A t \in Threads : Busy(t)' <=> Busy(t)
  BY BusyStays
<1>3. /\ \A v, u \in Threads : Busy(v) /\ Busy(u) => v = u
      /\ \A v \in Threads : Busy(v) => Mends(pending[v])
      /\ Quiet => Agree
  BY <1>1 DEF Outline
<1>4. ASSUME NEW v \in Threads, Busy(v)'
      PROVE  Mends(pending[v])'
  <2>1. PICK s : s = pending[v]
    OBVIOUS
  <2>2. Mends(s) /\ pending'[v] = s
    BY <1>2, <1>3, <1>4, <2>1
  <2>3. Mends(s)'
    BY <2>2, MendsFrame
  <2> QED
    BY <2>2, <2>3
<1>5. Quiet' => Agree'
  BY <1>2, <1>3 DEF Quiet, Agree
<1> QED
  BY <1>2, <1>3, <1>4, <1>5

LEMMA ThreeLong ==
    ASSUME NEW x, NEW y, NEW z, NEW s, s = <<x, y, z>>
    PROVE  Len(s) = 3 /\ s[1] = x /\ s[2] = y /\ s[3] = z
OBVIOUS

LEMMA FourLong ==
    ASSUME NEW u, NEW x, NEW y, NEW z, NEW s, s = <<u, x, y, z>>
    PROVE  Len(s) = 4 /\ s[1] = u /\ s[2] = x /\ s[3] = y /\ s[4] = z
OBVIOUS

LEMMA AddMends ==
    ASSUME Shapes, NEW a \in Good(now), NEW s, s = Adding(a)
    PROVE  Mends(s)'
<1> DEFINE u == UpdateTo(a)
           x == RegisterModels(a)
           y == Section("read")
           z == Section("refresh")
<1>1. /\ u.op = "update" /\ u.auth = a /\ x.op = "register" /\ x.auth = a
      /\ y.op = "read" /\ z.op = "refresh"
  BY SectionsMade
<1>2. s = <<u, x, y, z>>
  BY Addition DEF Adding
<1> HIDE DEF u, x, y, z
<1>3. Len(s) = 4 /\ s[1] = u /\ s[2] = x /\ s[3] = y /\ s[4] = z
  BY ONLY <1>2, FourLong
<1>4. Does(s, <<"update", "register", "read", "refresh">>)
  <2>1. /\ Len(s) \in Nat /\ Len(s) = 4 /\ s[1].op = "update"
        /\ s[2].op = "register" /\ s[3].op = "read" /\ s[4].op = "refresh"
    BY ONLY <1>1, <1>3
  <2> QED
    BY ONLY <2>1, DoesMeans
<1>5. s[2].auth.disabled = s[1].auth.disabled
  BY <1>1, <1>3
<1> QED
  BY <1>4, <1>5 DEF Mends

LEMMA CatalogMends ==
    ASSUME Shapes, NEW a \in Good(now), NEW s,
           s = Reregister(a) \o <<Section("latest")>>
    PROVE  Mends(s)'
<1> DEFINE x == RegisterModels(a)
           y == Section("read")
           z == Section("latest")
<1>1. x.op = "register" /\ y.op = "read" /\ z.op = "latest"
  BY SectionsMade
<1>2. s = <<x, y, z>>
  BY Reregistration
<1> HIDE DEF x, y, z
<1>3. Len(s) = 3 /\ s[1] = x /\ s[2] = y /\ s[3] = z
  BY ONLY <1>2, ThreeLong
<1>4. Does(s, <<"register", "read", "latest">>)
  <2>1. /\ Len(s) \in Nat /\ Len(s) = 3
        /\ s[1].op = "register" /\ s[2].op = "read" /\ s[3].op = "latest"
    BY ONLY <1>1, <1>3
  <2> QED
    BY ONLY <2>1, DoesMeans
<1> QED
  BY <1>4 DEF Mends

LEMMA SyncOutline ==
    ASSUME Shapes, Outline, NEW w \in Workers, NEW m \in Models, SyncScheduler(w, m)
    PROVE  Outline'
<1>1. /\ Starts(w, <<Upsert(auth)>>) /\ Begin(w, FALSE)
      /\ UNCHANGED <<stateVars, registryVars, scheduled>>
  BY SyncStarts
<1>2. w \in Threads /\ ~ Busy(w) /\ auth' = auth /\ Bound' = Bound
  BY <1>1, BoundStays DEF Threads, Starts, Busy, stateVars, registryVars
<1>3. PICK s : s = <<Upsert(auth)>>
  OBVIOUS
<1>4. /\ pending'[w] = s /\ \A u \in Threads \ {w} : pending'[u] = pending[u]
      /\ s \in Seq(Sections(now))
  BY <1>1, <1>2, <1>3 DEF Starts, Shapes
<1>5. Len(s) = 1 /\ s[1].op = "upsert" /\ s[1].auth = auth
  BY <1>3, SectionsMade DEF Shapes
<1>6. OnlyMarks(Tail(s))
  BY <1>4, <1>5, LoneTail
<1>7. ASSUME ~ overlapped' PROVE Mends(s)'
  <2>1. Agree
    BY <1>1, <1>2, <1>7, FindsAgreement
  <2>2. Released'
    BY <1>2, <2>1 DEF Agree, Released
  <2>3. (OnlyMarks(Tail(s)))'
    BY <1>6 DEF OnlyMarks
  <2>4. Len(s) > 0
    BY <1>5
  <2> QED
    BY <1>2, <1>5, <2>2, <2>3, <2>4 DEF Mends
<1> QED
  BY <1>1, <1>2, <1>4, <1>7, StartOutline

LEMMA ConsOf ==
    ASSUME NEW S, NEW x \in S, NEW c \in Seq(S)
    PROVE  LET s == <<x>> \o c
           IN  s \in Seq(S) /\ Len(s) > 0 /\ s[1] = x /\ Tail(s) = c
<1> DEFINE a == <<x>>
           s == a \o c
<1>1. a \in Seq(S) /\ Len(a) = 1 /\ a[1] = x /\ Len(c) \in Nat
  OBVIOUS
<1> HIDE DEF a
<1>2. /\ s \in Seq(S) /\ Len(s) = 1 + Len(c)
      /\ \A i \in 1..Len(a) + Len(c) : s[i] = IF i <= Len(a) THEN a[i] ELSE c[i - Len(a)]
  <2>1. Len(a) + Len(c) = 1 + Len(c)
    BY <1>1
  <2> QED
    BY <1>1, <2>1, ConcatProperties
<1> HIDE DEF s
<1>3. Len(s) > 0 /\ s # <<>> /\ s[1] = x
  BY <1>1, <1>2
<1>4. /\ Tail(s) \in Seq(S) /\ Len(Tail(s)) = Len(c)
      /\ \A i \in DOMAIN Tail(s) : Tail(s)[i] = s[i + 1]
      /\ DOMAIN Tail(s) = 1..Len(c)
  BY <1>1, <1>2, <1>3, TailOf
<1>5. ASSUME NEW i \in 1..Len(c)
      PROVE  Tail(s)[i] = c[i]
  <2>1. i + 1 \in 1..Len(a) + Len(c) /\ ~ (i + 1 <= Len(a)) /\ (i + 1) - Len(a) = i
    BY <1>1
  <2>2. s[i + 1] = c[i]
    BY <1>2, <2>1
  <2> QED
    BY <1>4, <2>2
<1>6. Tail(s) = c
  BY <1>4, <1>5, SeqEqual
<1> QED
  BY <1>2, <1>3, <1>6 DEF s, a

LEMMA AnswerOutline ==
    ASSUME Shapes, Outline, NEW w \in Workers, Answer(w)
    PROVE  Outline'
<1>1. w \in Threads
  BY DEF Threads
<1>2. PICK kind \in Kinds, m \in Models :
         /\ Continues(w, <<Upsert(auth')>> \o RegistryCalls(kind, m))
         /\ Head(pending[w]).op = "answer"
         /\ auth' \in Good(now) /\ auth'.disabled = auth.disabled
         /\ Begin(w, FALSE)
         /\ UNCHANGED <<cooling, now, registryVars, scheduled>>
  BY <1>1, AnswerContinues
<1>3. ~ Busy(w) /\ Bound' = Bound
  BY <1>2, BoundStays DEF Busy, At, Continues, registryVars
<1> DEFINE x == Upsert(auth')
           c == RegistryCalls(kind, m)
<1>4. x \in Sections(now) /\ x.op = "upsert" /\ x.auth = auth'
  BY <1>2, SectionsMade
<1>5. c \in Seq(Sections(now)) /\ OnlyMarks(c)
  BY CallsMade
<1>6. Continues(w, <<x>> \o c)
  BY <1>2
<1> HIDE DEF x, c
<1>7. /\ pending'[w] = (<<x>> \o c) \o Tail(pending[w])
      /\ \A u \in Threads \ {w} : pending'[u] = pending[u]
      /\ pending[w] \in Seq(Sections(now)) /\ pending[w] # <<>>
  BY <1>1, <1>6, ContinuesAs DEF Shapes
<1>8. Tail(pending[w]) = <<>>
  <2>1. /\ Head(pending[w]) = pending[w][1] /\ 1 \in DOMAIN pending[w]
    BY <1>7, TailOf
  <2>2. Len(pending[w]) = 1
    BY <1>1, <1>2, <2>1 DEF Shapes, Answers
  <2>3. Tail(pending[w]) \in Seq(Sections(now)) /\ Len(Tail(pending[w])) = 0
    BY <1>7, <2>2, TailOf
  <2> QED
    BY <2>3, EmptySeq
<1>9. PICK s : s = <<x>> \o c
  OBVIOUS
<1>10. s \in Seq(Sections(now)) /\ Len(s) > 0 /\ s[1] = x /\ Tail(s) = c
  BY <1>4, <1>5, <1>9, ConsOf
<1>11. pending'[w] = s
  BY <1>7, <1>8, <1>9, <1>10, ConcatEmptySeq
<1>12. ASSUME ~ overlapped' PROVE Mends(s)'
  <2>1. Agree
    BY <1>1, <1>2, <1>3, <1>12, FindsAgreement
  <2>2. Released'
    BY <1>2, <1>3, <2>1 DEF Agree, Released
  <2>3. (OnlyMarks(Tail(s)))'
    BY <1>5, <1>10 DEF OnlyMarks
  <2> QED
    BY <1>4, <1>10, <2>2, <2>3 DEF Mends
<1> QED
  BY <1>1, <1>2, <1>7, <1>10, <1>11, <1>12, StartOutline

LEMMA AddOutline ==
    ASSUME Shapes, NEW new \in {Fresh, Withdrawn(Fresh)}, AddOrUpdate(new)
    PROVE  Outline'
<1>1. PICK a : a = Updated(auth, new)
  OBVIOUS
<1>2. /\ a \in Good(now) /\ Starts(Consumer, Adding(a)) /\ Begin(Consumer, TRUE)
  BY <1>1, AddStarts
<1>3. PICK s : s = Adding(a)
  OBVIOUS
<1>4. Consumer \in Threads
  BY DEF Threads
<1>5. /\ pending'[Consumer] = s /\ s \in Seq(Sections(now))
      /\ \A u \in Threads \ {Consumer} : pending'[u] = pending[u]
  BY <1>2, <1>3, <1>4 DEF Starts, Shapes
<1>6. Mends(s)'
  BY <1>2, <1>3, AddMends
<1> QED
  BY <1>2, <1>4, <1>5, <1>6, StartOutline

LEMMA RemoveOutline ==
    ASSUME Shapes, Remove
    PROVE  Outline'
<1>1. /\ Starts(Consumer, <<Section("fetch")>>) /\ Begin(Consumer, TRUE) /\ Bound' = {}
  BY RemoveStarts
<1>2. PICK s : s = <<Section("fetch")>>
  OBVIOUS
<1>3. Consumer \in Threads
  BY DEF Threads
<1>4. /\ pending'[Consumer] = s /\ s \in Seq(Sections(now))
      /\ \A u \in Threads \ {Consumer} : pending'[u] = pending[u]
  BY <1>1, <1>2, <1>3 DEF Starts, Shapes
<1>5. Len(s) = 1 /\ s[1].op = "fetch"
  BY <1>2, SectionsMade DEF Shapes
<1>6. Does(s, <<"fetch">>)
  BY <1>5, DoesMeans
<1>7. Mends(s)'
  BY <1>1, <1>6 DEF Mends
<1> QED
  BY <1>1, <1>3, <1>4, <1>7, StartOutline

LEMMA CatalogOutline ==
    ASSUME Shapes, RefreshCatalog
    PROVE  Outline'
<1>1. PICK a : a = auth
  OBVIOUS
<1>2. /\ a \in Good(now) /\ Begin(Catalog, TRUE)
      /\ Starts(Catalog, Reregister(a) \o <<Section("latest")>>)
  BY <1>1, CatalogStarts DEF Shapes
<1>3. PICK s : s = Reregister(a) \o <<Section("latest")>>
  OBVIOUS
<1>4. Catalog \in Threads
  BY DEF Threads
<1>5. /\ pending'[Catalog] = s /\ s \in Seq(Sections(now))
      /\ \A u \in Threads \ {Catalog} : pending'[u] = pending[u]
  BY <1>2, <1>3, <1>4 DEF Starts, Shapes
<1>6. Mends(s)'
  BY <1>2, <1>3, CatalogMends
<1> QED
  BY <1>2, <1>4, <1>5, <1>6, StartOutline

LEMMA PickOutline ==
    ASSUME Shapes, Outline, NEW w \in Workers, NEW m \in Models, Pick(w, m)
    PROVE  Outline'
<1> DEFINE x == [op |-> "answer", model |-> m]
<1>1. /\ Starts(w, <<x>>) /\ UNCHANGED <<auth, scheduled, overlapped>>
      /\ UNCHANGED registryVars
  BY PickStarts DEF stateVars
<1>2. x.op = "answer"
  OBVIOUS
<1> HIDE DEF x
<1>3. w \in Threads /\ Bound' = Bound
  BY <1>1, BoundStays DEF Threads, registryVars
<1>4. pending'[w] = <<x>> /\ \A u \in Threads \ {w} : pending'[u] = pending[u]
  BY <1>1, <1>3 DEF Starts, Shapes
<1>5. ~ Busy(w) /\ ~ Busy(w)'
  <2>1. Head(<<x>>) = x
    OBVIOUS
  <2>2. Head(pending'[w]).op = "answer"
    BY <1>2, <1>4, <2>1
  <2> QED
    BY <1>1, <2>2 DEF Busy, At, Starts
<1> QED
  BY <1>1, <1>3, <1>4, <1>5, OutlineFrame

LEMMA OutlineInit ==
    ManagerInit => Outline
<1> SUFFICES ASSUME ManagerInit PROVE Outline
  OBVIOUS
<1>1. /\ auth = Withdrawn(Fresh) /\ scheduled = NotScheduled /\ Reg!Init
      /\ pending = [t \in Threads |-> <<>>]
  BY DEF ManagerInit
<1>2. auth.disabled
  <2>1. now \in 0..MaxNow
    BY StateConstants, <1>1 DEF Reg!Init
  <2> QED
    BY <1>1, <2>1, GoodRecords
<1>3. Bound = {}
  BY <1>1 DEF Bound, Reg!Init, Reg!NoModels
<1>4. \A t \in Threads : ~ Busy(t)
  BY <1>1 DEF Busy, Idle
<1> QED
  BY <1>1, <1>2, <1>3, <1>4 DEF Outline, Agree

LEMMA OutlineStep ==
    Early /\ Outline /\ [ManagerNext]_managerVars => Outline'
<1> SUFFICES ASSUME Early, Outline, [ManagerNext]_managerVars PROVE Outline'
  OBVIOUS
<1>1. Shapes
  BY DEF Early
<1>2. ASSUME NEW w \in Workers, NEW m \in Models, Pick(w, m)
      PROVE  Outline'
  BY <1>1, <1>2, PickOutline
<1>3. ASSUME NEW w \in Workers, NEW m \in Models, SyncScheduler(w, m)
      PROVE  Outline'
  BY <1>1, <1>3, SyncOutline
<1>4. ASSUME NEW w \in Workers, Answer(w)
      PROVE  Outline'
  BY <1>1, <1>4, AnswerOutline
<1>5. ASSUME NEW new \in {Fresh, Withdrawn(Fresh)}, AddOrUpdate(new)
      PROVE  Outline'
  BY <1>1, <1>5, AddOutline
<1>6. CASE Remove
  BY <1>1, <1>6, RemoveOutline
<1>7. CASE RefreshCatalog
  BY <1>1, <1>7, CatalogOutline
<1>8. ASSUME NEW t \in Threads, CriticalSection(t)
      PROVE  Outline'
  BY <1>8, SectionOutline
<1>9. ASSUME NEW c \in Others, OtherClient(c)
      PROVE  Outline'
  <2>1. Bound' = Bound /\ UNCHANGED <<auth, scheduled, pending, overlapped>>
    BY <1>1, <1>9, OtherRebinds DEF stateVars
  <2> QED
    BY <2>1, OutlineFrame
<1>10. CASE Advance
  <2>1. Bound' = Bound /\ UNCHANGED <<auth, scheduled, pending, overlapped>>
    BY <1>10, BoundStays DEF Advance, Tick, registryVars
  <2> QED
    BY <2>1, OutlineFrame
<1>11. CASE UNCHANGED managerVars
  <2>1. Bound' = Bound /\ UNCHANGED <<auth, scheduled, pending, overlapped>>
    BY <1>11, BoundStays DEF managerVars, registryVars, stateVars
  <2> QED
    BY <2>1, OutlineFrame
<1> QED
  BY <1>2, <1>3, <1>4, <1>5, <1>6, <1>7, <1>8, <1>9, <1>10, <1>11 DEF ManagerNext

----------------------------------------------------------------------------
LEMMA ManagerInvariance ==
    ManagerSpec => []ManagerInv
<1>1. ManagerInit => Early /\ Outline
  BY EarlyInit, OutlineInit
<1>2. Early /\ Outline /\ [ManagerNext]_managerVars => Early' /\ Outline'
  BY EarlyStep, OutlineStep
<1>3. Early /\ Outline => ManagerInv
  BY DEF Early, ManagerInv
<1> QED
  BY <1>1, <1>2, <1>3, PTL DEF ManagerSpec

(* Records, marks and scheduler entry keep their types while any number of *)
(* handlers interleave their critical sections; the registry's counters    *)
(* never go below zero, and a credential that is disabled by the record it *)
(* was scheduled with is never left in the scheduler (upsertAuth).         *)
THEOREM ManagerTypesCorrect ==
    ManagerSpec => []ManagerTypeOK
<1>1. ManagerInv => ManagerTypeOK
  <2> SUFFICES ASSUME ManagerInv PROVE ManagerTypeOK
    OBVIOUS
  <2>1. Shapes
    BY DEF ManagerInv
  <2>2. TypeOK
    <3>1. Typed(auth) /\ GoodModels(auth, now)
      BY <2>1 DEF Shapes, Good, GoodAuth
    <3>2. \A m \in Recorded(auth) : GoodState(auth.states[m], now)
      BY <3>1 DEF GoodModels, Recorded
    <3>3. \A m \in Recorded(auth) :
            ~ auth.states[m].unavailable => auth.states[m].nextRetryAfter = None
      BY <3>2 DEF GoodState
    <3> QED
      BY <2>1, <3>1, <3>3 DEF Shapes, Typed, TypeOK
  <2>3. scheduled # NotScheduled =>
          /\ scheduled.auth = Live \/ scheduled.auth \in AuthStates
          /\ scheduled.models \subseteq Models
          /\ ~ (IF scheduled.auth = Live THEN auth ELSE scheduled.auth).disabled
    BY <2>1 DEF Shapes, Scheduling, Entries, Current, NotScheduled
  <2> QED
    BY <2>1, <2>2, <2>3 DEF Shapes, ManagerTypeOK
<1> QED
  BY <1>1, ManagerInvariance, PTL

(* However many handlers overlap, the scheduler misses a change of the     *)
(* registry's models only while a handler has an upsert before it:         *)
(* RefreshSchedulerEntry follows every registration and withdrawal.        *)
THEOREM ModelsCaughtUp ==
    ManagerSpec => []ModelsCatchUp
<1>1. ManagerInv => ModelsCatchUp
  BY DEF ManagerInv
<1> QED
  BY <1>1, ManagerInvariance, PTL

(* When no handler is between two of its critical sections, and none       *)
(* overlapped another since one last refreshed everything, the scheduler   *)
(* has the manager's record and the registry's models, and neither has     *)
(* anything of a disabled credential.                                      *)
THEOREM AgreementCorrect ==
    ManagerSpec => []AgreeWhenQuiet
<1>1. ManagerInv => AgreeWhenQuiet
  BY DEF ManagerInv, Outline, AgreeWhenQuiet
<1> QED
  BY <1>1, ManagerInvariance, PTL
=============================================================================
