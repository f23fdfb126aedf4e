--------------------------- MODULE ModelRegistry ---------------------------
(***************************************************************************)
(* The global model registry of CLIProxyAPI                                *)
(* (internal/registry/model_registry.go): which credential ("client")      *)
(* serves which model under which provider, which bindings are over quota  *)
(* or suspended, and the cached list of models the HTTP API advertises.    *)
(*                                                                         *)
(* Every exported method takes the registry mutex once, so each is one     *)
(* action.  The exception is GetAvailableModels, which reads the clock     *)
(* before it takes the lock: it is two actions, and the clock may advance  *)
(* and other methods may run between them.                                 *)
(*                                                                         *)
(* A client's model list is a bag: RegisterClient keeps duplicates in      *)
(* clientModels and counts them.  Model metadata (ModelInfo) is left out.  *)
(***************************************************************************)
EXTENDS Integers, FiniteSets

CONSTANTS Clients,     \* credential IDs
          Models,      \* model IDs
          Providers,   \* provider identifiers, lower-cased
          NoProvider,  \* the empty provider string
          Arguments,   \* the providers that callers of RegisterClient pass
          None,        \* no entry in a map; a zero time.Time
          MaxDup,      \* bound: copies of one model in one client's list
          MaxEntries,  \* bound: entries of one client's list
          Window,      \* modelQuotaExceededWindow
          MaxNow,      \* bound: last instant of the clock
          Readers      \* callers of GetAvailableModels

ASSUME ConstantsAssumption ==
    /\ IsFiniteSet(Clients)
    /\ NoProvider \notin Providers
    /\ Arguments \subseteq Providers \cup {NoProvider}
    /\ MaxDup \in Nat \ {0}
    /\ MaxEntries \in Nat
    /\ Window \in Nat \ {0}
    /\ MaxNow \in Nat
    /\ None \notin Int

VARIABLES models,           \* model ID -> ModelRegistration
          clientModels,     \* client ID -> how often it lists each model
          clientProviders,  \* client ID -> provider
          cache,            \* availableModelsCache of one handler type
          now,              \* the wall clock
          asOf              \* reader -> the clock it read before locking

vars == <<models, clientModels, clientProviders, cache, now, asOf>>

CooldownReason == "quota"
Reasons == {CooldownReason, "unauthorized"}

(* A model absent from the code's map has count 0 and no other content.    *)
NoRegistration ==
    [count     |-> 0,
     providers |-> [p \in Providers |-> 0],
     quota     |-> [c \in Clients |-> None],
     suspended |-> [c \in Clients |-> None]]

Registered(m) == models[m].count > 0

NoModels == [m \in Models |-> 0]
ModelLists == [Models -> 0..MaxDup]

(* One element per entry of a list.                                        *)
EntriesOf(list) == {e \in Models \X (1..MaxDup) : e[2] <= list[e[1]]}

BoundedLists ==
    {list \in ModelLists : Cardinality(EntriesOf(list)) <= MaxEntries}

NoCache == None

----------------------------------------------------------------------------
(* Reference counting. *)

Lesser(a, b) == IF a < b THEN a ELSE b

Provide(counts, p, n) ==
    IF p = NoProvider THEN counts ELSE [counts EXCEPT ![p] = @ + n]

Withdraw(counts, p, n) ==
    IF p = NoProvider
    THEN counts
    ELSE [counts EXCEPT ![p] = IF @ <= n THEN 0 ELSE @ - n]

Unblock(reg, c) ==
    [reg EXCEPT !.quota[c] = None, !.suspended[c] = None]

addModelRegistration(reg, p, n) ==
    [reg EXCEPT !.count = @ + n, !.providers = Provide(@, p, n)]

(* n calls for the same client; the entry is deleted when its count is 0.  *)
removeModelRegistration(reg, c, p, n) ==
    IF reg.count <= n
    THEN NoRegistration
    ELSE [Unblock(reg, c) EXCEPT !.count = @ - n,
                                 !.providers = Withdraw(@, p, n)]

----------------------------------------------------------------------------
(* RegisterClient, for one model that client c listed `old' times under    *)
(* provider oldP and now lists `new' times under newP.                     *)

(* Mutant: the bindings kept across a provider change stay with oldP.      *)
MoveOverlapForgotten(reg, oldP, newP, overlap) == reg

MoveOverlap(reg, oldP, newP, overlap) ==
    IF oldP = newP
    THEN reg
    ELSE [reg EXCEPT !.providers = Withdraw(@, oldP, overlap)]

RefreshBinding(reg, c, oldP, newP, overlap) ==
    IF oldP = newP
    THEN Unblock(reg, c)
    ELSE [Unblock(reg, c) EXCEPT !.providers = Provide(@, newP, overlap)]

Reconcile(reg, c, old, new, oldP, newP) ==
    LET overlap == Lesser(old, new)
        moved   == MoveOverlap(reg, oldP, newP, overlap)
    IN  IF old = 0 /\ new = 0 THEN reg
        ELSE IF new = 0 THEN removeModelRegistration(moved, c, oldP, old)
        ELSE IF new < old
             THEN RefreshBinding(
                      removeModelRegistration(moved, c, oldP, old - new),
                      c, oldP, newP, overlap)
             ELSE RefreshBinding(
                      addModelRegistration(moved, newP, new - old),
                      c, oldP, newP, overlap)

unregisterClientInternal(c) ==
    /\ models' = [m \in Models |->
                    IF clientModels[c][m] = 0
                    THEN models[m]
                    ELSE removeModelRegistration(models[m], c,
                             clientProviders[c], clientModels[c][m])]
    /\ clientModels' = [clientModels EXCEPT ![c] = NoModels]
    /\ clientProviders' = [clientProviders EXCEPT ![c] = NoProvider]

(* A client the registry does not know: nothing of it is reset, whatever   *)
(* an earlier binding of the same ID left behind.                          *)
PureAddition(c, p, list) ==
    models' = [m \in Models |->
                 IF list[m] = 0 THEN models[m]
                 ELSE addModelRegistration(models[m], p, list[m])]

ReconcileExisting(c, p, list) ==
    models' = [m \in Models |->
                 Reconcile(models[m], c, clientModels[c][m], list[m],
                           clientProviders[c], p)]

RegisterClient(c, p, list) ==
    /\ IF list = NoModels
       THEN unregisterClientInternal(c)
       ELSE /\ IF clientModels[c] = NoModels
               THEN PureAddition(c, p, list)
               ELSE ReconcileExisting(c, p, list)
            /\ clientModels' = [clientModels EXCEPT ![c] = list]
            /\ clientProviders' = [clientProviders EXCEPT ![c] = p]
    /\ cache' = NoCache
    /\ UNCHANGED <<now, asOf>>

UnregisterClient(c) ==
    /\ unregisterClientInternal(c)
    /\ cache' = NoCache
    /\ UNCHANGED <<now, asOf>>

----------------------------------------------------------------------------
(* Quota and suspension marks.  The four methods check that the model is   *)
(* registered, never that the client is bound to it.                       *)

(* Mutant: the mark holds the recovery instant, not the instant of marking. *)
SetModelQuotaRecovery(c, m) ==
    /\ Registered(m)
    /\ models' = [models EXCEPT ![m].quota[c] = now + Window]
    /\ cache' = NoCache
    /\ UNCHANGED <<clientModels, clientProviders, now, asOf>>

SetModelQuotaExceeded(c, m) ==
    /\ Registered(m)
    /\ models' = [models EXCEPT ![m].quota[c] = now]
    /\ cache' = NoCache
    /\ UNCHANGED <<clientModels, clientProviders, now, asOf>>

ClearModelQuotaExceeded(c, m) ==
    /\ Registered(m)
    /\ models' = [models EXCEPT ![m].quota[c] = None]
    /\ cache' = NoCache
    /\ UNCHANGED <<clientModels, clientProviders, now, asOf>>

SuspendClientModel(c, m, reason) ==
    /\ Registered(m)
    /\ models[m].suspended[c] = None
    /\ models' = [models EXCEPT ![m].suspended[c] = reason]
    /\ cache' = NoCache
    /\ UNCHANGED <<clientModels, clientProviders, now, asOf>>

ResumeClientModel(c, m) ==
    /\ Registered(m)
    /\ models[m].suspended[c] # None
    /\ models' = [models EXCEPT ![m].suspended[c] = None]
    /\ cache' = NoCache
    /\ UNCHANGED <<clientModels, clientProviders, now, asOf>>

Recovered(t, at) == at - t >= Window

CleanupExpiredQuotas ==
    LET Expired(m) == {c \in Clients : /\ models[m].quota[c] # None
                                       /\ Recovered(models[m].quota[c], now)}
    IN  /\ \E m \in Models : Expired(m) # {}
        /\ models' = [m \in Models |->
                        [models[m] EXCEPT !.quota =
                            [c \in Clients |-> IF c \in Expired(m)
                                               THEN None ELSE @[c]]]]
        /\ cache' = NoCache
        /\ UNCHANGED <<clientModels, clientProviders, now, asOf>>

----------------------------------------------------------------------------
(* Availability, as buildAvailableModelsLocked computes it.                     *)

OverQuota(m, at) ==
    {c \in Clients : /\ models[m].quota[c] # None
                     /\ ~ Recovered(models[m].quota[c], at)}

CooldownSuspended(m) ==
    {c \in Clients : models[m].suspended[c] = CooldownReason}

OtherSuspended(m) ==
    {c \in Clients : models[m].suspended[c] \notin {None, CooldownReason}}

Listed(m, at) ==
    LET expired   == Cardinality(OverQuota(m, at))
        other     == Cardinality(OtherSuspended(m))
        effective == models[m].count - expired - other
    IN  /\ Registered(m)
        /\ \/ effective > 0
           \/ /\ expired > 0 \/ CooldownSuspended(m) # {}
              /\ other = 0

ListedModels(at) == {m \in Models : Listed(m, at)}

Suspended(m) == {c \in Clients : models[m].suspended[c] # None}

GetModelCount(m) ==
    LET left == models[m].count - Cardinality(OverQuota(m, now))
                                - Cardinality(Suspended(m))
    IN  IF left < 0 THEN 0 ELSE left

(* expiresAt: the earliest recovery of a mark that is still in its window. *)
RecoveryTimes(at) ==
    UNION {{models[m].quota[c] + Window : c \in OverQuota(m, at)} :
               m \in Models}

(* Mutant: the entry is kept until the last recovery.                      *)
buildUntilLastRecovery(at) ==
    [listed    |-> ListedModels(at),
     expiresAt |-> IF RecoveryTimes(at) = {}
                   THEN None
                   ELSE CHOOSE t \in RecoveryTimes(at) :
                            \A u \in RecoveryTimes(at) : u <= t]

buildAvailableModelsLocked(at) ==
    [listed    |-> ListedModels(at),
     expiresAt |-> IF RecoveryTimes(at) = {}
                   THEN None
                   ELSE CHOOSE t \in RecoveryTimes(at) :
                            \A u \in RecoveryTimes(at) : t <= u]

Serves(entry, at) ==
    /\ entry # NoCache
    /\ entry.expiresAt = None \/ at < entry.expiresAt

(* now := time.Now(), before any lock. *)
ReadClock(r) ==
    /\ asOf[r] = None
    /\ asOf' = [asOf EXCEPT ![r] = now]
    /\ UNCHANGED <<models, clientModels, clientProviders, cache, now>>

(* Under the lock: answer from the cache, or build the list and store it.  *)
GetAvailableModels(r) ==
    /\ asOf[r] # None
    /\ cache' = IF Serves(cache, asOf[r])
                THEN cache
                ELSE buildAvailableModelsLocked(asOf[r])
    /\ asOf' = [asOf EXCEPT ![r] = None]
    /\ UNCHANGED <<models, clientModels, clientProviders, now>>

Tick ==
    /\ now < MaxNow
    /\ now' = now + 1
    /\ UNCHANGED <<models, clientModels, clientProviders, cache, asOf>>

----------------------------------------------------------------------------
Init ==
    /\ models = [m \in Models |-> NoRegistration]
    /\ clientModels = [c \in Clients |-> NoModels]
    /\ clientProviders = [c \in Clients |-> NoProvider]
    /\ cache = NoCache
    /\ now = 0
    /\ asOf = [r \in Readers |-> None]

Next ==
    \/ \E c \in Clients, p \in Arguments,
          list \in BoundedLists : RegisterClient(c, p, list)
    \/ \E c \in Clients : UnregisterClient(c)
    \/ \E c \in Clients, m \in Models :
          \/ SetModelQuotaExceeded(c, m)
          \/ ClearModelQuotaExceeded(c, m)
          \/ \E reason \in Reasons : SuspendClientModel(c, m, reason)
          \/ ResumeClientModel(c, m)
    \/ CleanupExpiredQuotas
    \/ \E r \in Readers : ReadClock(r) \/ GetAvailableModels(r)
    \/ Tick

Spec == Init /\ [][Next]_vars

----------------------------------------------------------------------------
Time == 0..MaxNow

Registration ==
    [count     : Nat,
     providers : [Providers -> Nat],
     quota     : [Clients -> Time \cup {None}],
     suspended : [Clients -> Reasons \cup {None}]]

CacheEntry ==
    [listed : SUBSET Models, expiresAt : (0..(MaxNow + Window)) \cup {None}]

(* The type invariant. *)
TypeOK ==
    /\ models \in [Models -> Registration]
    /\ clientModels \in [Clients -> ModelLists]
    /\ clientProviders \in [Clients -> Providers \cup {NoProvider}]
    /\ cache \in CacheEntry \cup {NoCache}
    /\ now \in Time
    /\ asOf \in [Readers -> Time \cup {None}]

(* One element per entry of a client's list that names m. *)
Bindings(m) ==
    {b \in Clients \X (1..MaxDup) : b[2] <= clientModels[b[1]][m]}

BindingsOf(m, p) == {b \in Bindings(m) : clientProviders[b[1]] = p}

(* The incremental counters never drift from the bindings they summarise,  *)
(* through registrations with duplicates, shrinking and growing lists,     *)
(* provider changes and unregistrations: ModelRegistration.Count is the    *)
(* number of list entries that name the model, and Providers[p] the number *)
(* of those whose client has provider p.  GetModelProviders, which routes  *)
(* requests, and the listing of models rest on it.                         *)
CountsMatchBindings ==
    \A m \in Models :
        /\ models[m].count = Cardinality(Bindings(m))
        /\ \A p \in Providers :
              models[m].providers[p] = Cardinality(BindingsOf(m, p))

Listers(m) == {c \in Clients : clientModels[c][m] > 0}

MarkedClients(m) == OverQuota(m, now) \cup Suspended(m)

FreeClients(m) == Listers(m) \ MarkedClients(m)

MarkedTwice(m) == OverQuota(m, now) \cap Suspended(m)

ListedOnce(m) == \A c \in Clients : clientModels[c][m] <= 1

(* GetFirstAvailableModel sends an automatic request to a model with a     *)
(* positive GetModelCount.  While no client lists the model twice, the     *)
(* count is at most the number of clients that are free to serve it,       *)
(* whichever clients its marks name: marks may be on clients that do not   *)
(* list the model any more, and a client may have both.                    *)
CountHonest ==
    \A m \in Models :
        ListedOnce(m) => GetModelCount(m) <= Cardinality(FreeClients(m))

(* GetModelCount "returns the number of available clients for a specific   *)
(* model" (model_registry.go:996), but subtracts a client that is both     *)
(* over quota and suspended twice: where only clients that list the model  *)
(* are marked, it is short by the number of those, and 0 if that is more.  *)
CountExact ==
    \A m \in Models :
        ListedOnce(m) /\ MarkedClients(m) \subseteq Listers(m) =>
           LET short == Cardinality(MarkedTwice(m))
               free  == Cardinality(FreeClients(m))
           IN  GetModelCount(m) = IF free < short THEN 0 ELSE free - short

(* Whoever is answered from the cache gets a list that was right at some   *)
(* instant between its call (asOf) and its answer: a mark that expires, or *)
(* a registration that changes, is never hidden by a stale entry.          *)
CacheHonest ==
    cache # NoCache =>
        \A at \in 0..now :
            Serves(cache, at) =>
                \E t \in at..now : cache.listed = ListedModels(t)
=============================================================================
