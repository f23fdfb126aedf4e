---------------------------- MODULE AuthManager ----------------------------
(***************************************************************************)
(* One credential as three components see it: the auth manager             *)
(* (sdk/cliproxy/auth/conductor.go, its record is AuthState's), the        *)
(* scheduler, which holds a snapshot of that record and the models it      *)
(* supports, and the global registry (ModelRegistry), which holds the      *)
(* models it is bound to and its quota and suspension marks.               *)
(*                                                                         *)
(* Each component has a lock of its own.  The handlers that change the     *)
(* credential (MarkResult, Service.applyCoreAuthAddOrUpdate,               *)
(* applyCoreAuthRemoval and refreshModelRegistrationForAuth in             *)
(* sdk/cliproxy/service.go) take these locks one after the other and hold  *)
(* one at a time: pending[t] lists the critical sections that the handler  *)
(* of thread t still has to run, each one action.                          *)
(*                                                                         *)
(* The scheduler is reduced to its entry for the credential: AuthScheduler *)
(* models how it picks.                                                    *)
(***************************************************************************)
EXTENDS AuthState, Sequences

CONSTANTS Self,         \* the credential's ID
          Others,       \* other clients of the registry
          Provider,     \* the provider of them all
          NoProvider,   \* the empty provider string
          Window,       \* modelQuotaExceededWindow
          Workers,      \* goroutines that execute requests
          Consumer,     \* the goroutine of consumeAuthUpdates
          Catalog,      \* the goroutine of the model refresh callback
          Live,         \* a pointer to the manager's own record
          ResultKinds   \* bound: kinds of results

ASSUME ManagerConstants ==
    /\ ResultKinds \subseteq Kinds
    /\ Self \notin Others

ASSUME LiveIsNoRecord == Live \notin AuthStates

ASSUME NoneIsNoEntry ==
    None \notin [auth : AuthStates \cup {Live}, models : SUBSET Models]

VARIABLES models, clientModels, clientProviders, cache, asOf,  \* ModelRegistry
          scheduled,   \* the scheduler's entry of the credential
          pending,     \* thread -> critical sections still to run
          overlapped   \* history: see Begin

registryVars == <<models, clientModels, clientProviders, cache, asOf>>

managerVars == <<stateVars, registryVars, scheduled, pending, overlapped>>

Threads == Workers \cup {Consumer, Catalog}

Reg == INSTANCE ModelRegistry
          WITH Clients    <- {Self} \cup Others,
               Providers  <- {Provider},
               Arguments  <- {Provider},
               MaxDup     <- 1,
               MaxEntries <- Cardinality(Models),
               Readers    <- {}

(* GetModelsForClient *)
Bound == {m \in Models : clientModels[Self][m] > 0}

NotScheduled == None

----------------------------------------------------------------------------
(* Handlers as lists of critical sections. *)

Section(op) == [op |-> op]

(* scheduler.upsertAuth of a snapshot, or of the manager's own record.     *)
Upsert(a) == [op |-> "upsert", auth |-> a]

UpdateTo(a) == [op |-> "update", auth |-> a]

RegisterModels(a) == [op |-> "register", auth |-> a]

Mark(op, m, reason) == [op |-> op, model |-> m, reason |-> reason]

Idle(t) == pending[t] = <<>>

At(t, op) == ~ Idle(t) /\ Head(pending[t]).op = op

(* A request in flight is not yet a handler. *)
Busy(t) == ~ Idle(t) /\ ~ At(t, "answer")

Then(t, sections) ==
    pending' = [pending EXCEPT ![t] = sections \o Tail(@)]

(* History: overlapped is TRUE once two handlers ran at the same time, and *)
(* FALSE again when a handler that brings all three components up to date  *)
(* starts alone.                                                           *)
Begin(t, refreshesAll) ==
    overlapped' = \/ overlapped /\ ~ refreshesAll
                  \/ \E u \in Threads \ {t} : Busy(u)

----------------------------------------------------------------------------
(* Requests. *)

Pickable(m) ==
    /\ scheduled # NotScheduled
    /\ m \in scheduled.models
    /\ LET a == IF scheduled.auth = Live THEN auth ELSE scheduled.auth
       IN  a.states[m] # None => ~ Blocked(a.states[m], now)

Pick(w, m) ==
    /\ Idle(w)
    /\ Pickable(m)
    /\ pending' = [pending EXCEPT ![w] = <<[op |-> "answer", model |-> m]>>]
    /\ UNCHANGED <<stateVars, registryVars, scheduled, overlapped>>

(* A pick that fails rebuilds the scheduler from a snapshot of the auths.  *)
SyncScheduler(w, m) ==
    /\ Idle(w)
    /\ ~ Pickable(m)
    /\ pending' = [pending EXCEPT ![w] = <<Upsert(auth)>>]
    /\ Begin(w, FALSE)
    /\ UNCHANGED <<stateVars, registryVars, scheduled>>

RegistryCalls(kind, m) ==
    IF kind = "success"
    THEN <<Mark("clear", m, None), Mark("resume", m, None)>>
    ELSE IF kind = "quota" /\ cooling
    THEN <<Mark("exceed", m, None), Mark("suspend", m, "quota")>>
    ELSE IF kind = "model_not_supported" \/ (cooling /\ kind \in {"denied", "not_found"})
    THEN <<Mark("suspend", m, "unauthorized")>>
    ELSE <<>>

(* MarkResult up to m.mu.Unlock(). *)
Answer(w) ==
    /\ At(w, "answer")
    /\ \E kind \in ResultKinds :
          LET m      == Head(pending[w]).model
              marked == Marked(auth, m, kind, None, cooling, now)
          IN  /\ auth' = marked
              /\ Then(w, <<Upsert(marked)>> \o RegistryCalls(kind, m))
    /\ Begin(w, FALSE)
    /\ UNCHANGED <<cooling, now, registryVars, scheduled>>

----------------------------------------------------------------------------
(* The critical sections. *)

(* Mutant: a disabled snapshot is scheduled too.                           *)
UpsertDisabledToo(t) ==
    /\ At(t, "upsert")
    /\ scheduled' = [auth |-> Head(pending[t]).auth, models |-> Bound]
    /\ Then(t, <<>>)
    /\ UNCHANGED <<stateVars, registryVars, overlapped>>

(* Mutant: the scheduler keeps the models it knew.                         *)
UpsertKeepingModels(t) ==
    /\ At(t, "upsert")
    /\ LET snapshot == Head(pending[t]).auth
           a == IF snapshot = Live THEN auth ELSE snapshot
       IN  scheduled' = IF a.disabled THEN NotScheduled
                        ELSE [auth |-> snapshot,
                              models |-> IF scheduled = NotScheduled THEN Bound
                                         ELSE scheduled.models]
    /\ Then(t, <<>>)
    /\ UNCHANGED <<stateVars, registryVars, overlapped>>

UpsertAuth(t) ==
    /\ At(t, "upsert")
    /\ LET snapshot == Head(pending[t]).auth
           a == IF snapshot = Live THEN auth ELSE snapshot
       IN  scheduled' = IF a.disabled THEN NotScheduled
                        ELSE [auth |-> snapshot, models |-> Bound]
    /\ Then(t, <<>>)
    /\ UNCHANGED <<stateVars, registryVars, overlapped>>

(* Manager.Update puts a new record in the map and hands the scheduler the *)
(* same pointer; whoever had a pointer to the old record keeps it as it is. *)
Settling(section) ==
    IF section.op = "upsert" /\ section.auth = Live THEN Upsert(auth) ELSE section

UpdateAuth(t) ==
    /\ At(t, "update")
    /\ auth' = Updated(auth, Head(pending[t]).auth)
    /\ scheduled' = IF scheduled # NotScheduled /\ scheduled.auth = Live
                    THEN [scheduled EXCEPT !.auth = auth] ELSE scheduled
    /\ pending' = [u \in Threads |->
                     IF u = t THEN <<Upsert(Live)>> \o Tail(pending[t])
                     ELSE [i \in DOMAIN pending[u] |-> Settling(pending[u][i])]]
    /\ UNCHANGED <<cooling, now, registryVars, overlapped>>

(* registerModelsForAuth: the models depend on the configuration.          *)
Register(t) ==
    /\ At(t, "register")
    /\ IF Head(pending[t]).auth.disabled
       THEN Reg!UnregisterClient(Self)
       ELSE \E list \in Reg!BoundedLists : Reg!RegisterClient(Self, Provider, list)
    /\ Then(t, <<>>)
    /\ UNCHANGED <<auth, cooling, scheduled, overlapped>>

Unregister(t) ==
    /\ At(t, "unregister")
    /\ Reg!UnregisterClient(Self)
    /\ Then(t, <<>>)
    /\ UNCHANGED <<auth, cooling, scheduled, overlapped>>

(* ReconcileRegistryModelStates reads the registry before it locks m.mu.   *)
ReadModels(t) ==
    /\ At(t, "read")
    /\ Then(t, <<[op |-> "reconcile", supported |-> Bound]>>)
    /\ UNCHANGED <<stateVars, registryVars, scheduled, overlapped>>

Reconcile(t) ==
    /\ At(t, "reconcile")
    /\ LET a == Reconciled(auth, Head(pending[t]).supported, now)
       IN  /\ auth' = a
           /\ Then(t, IF a = auth THEN <<>> ELSE <<Upsert(a)>>)
    /\ UNCHANGED <<cooling, now, registryVars, scheduled, overlapped>>

(* Mutant: the entry is not refreshed.                                     *)
RefreshNothing(t) ==
    /\ At(t, "refresh")
    /\ Then(t, <<>>)
    /\ UNCHANGED <<stateVars, registryVars, scheduled, overlapped>>

(* RefreshSchedulerEntry: a clone under the read lock, then the upsert.    *)
RefreshSchedulerEntry(t) ==
    /\ At(t, "refresh")
    /\ Then(t, <<Upsert(auth)>>)
    /\ UNCHANGED <<stateVars, registryVars, scheduled, overlapped>>

(* The registry ignores a mark for a model that nobody provides, a second  *)
(* suspension and a resumption of what is not suspended.                   *)
MarkOr(possible, action) ==
    IF possible THEN action ELSE UNCHANGED <<registryVars, now>>

MarkInRegistry(t) ==
    /\ ~ Idle(t)
    /\ LET section == Head(pending[t])
           m == section.model
       IN  CASE section.op = "clear" ->
                  MarkOr(Reg!Registered(m), Reg!ClearModelQuotaExceeded(Self, m))
             [] section.op = "exceed" ->
                  MarkOr(Reg!Registered(m), Reg!SetModelQuotaExceeded(Self, m))
             [] section.op = "suspend" ->
                  MarkOr(Reg!Registered(m) /\ models[m].suspended[Self] = None,
                         Reg!SuspendClientModel(Self, m, section.reason))
             [] section.op = "resume" ->
                  MarkOr(Reg!Registered(m) /\ models[m].suspended[Self] # None,
                         Reg!ResumeClientModel(Self, m))
             [] OTHER -> FALSE
    /\ Then(t, <<>>)
    /\ UNCHANGED <<auth, cooling, scheduled, overlapped>>

----------------------------------------------------------------------------
(* The service. *)

Reregister(a) == <<RegisterModels(a), Section("read")>>

(* applyCoreAuthAddOrUpdate, from GetByID on: between enabled auths the    *)
(* states of the record it read are carried over.                          *)
AddOrUpdate(new) ==
    /\ Idle(Consumer)
    /\ LET carried == Updated(auth, new)
       IN  pending' = [pending EXCEPT ![Consumer] =
                         <<UpdateTo(carried)>> \o Reregister(carried)
                           \o <<Section("refresh")>>]
    /\ Begin(Consumer, TRUE)
    /\ UNCHANGED <<stateVars, registryVars, scheduled>>

(* applyCoreAuthRemoval *)
Remove ==
    /\ Idle(Consumer)
    /\ Reg!UnregisterClient(Self)
    /\ pending' = [pending EXCEPT ![Consumer] = <<Section("fetch")>>]
    /\ Begin(Consumer, TRUE)
    /\ UNCHANGED <<auth, cooling, scheduled>>

FetchToDisable(t) ==
    /\ At(t, "fetch")
    /\ Then(t, <<UpdateTo(Withdrawn(auth))>>)
    /\ UNCHANGED <<stateVars, registryVars, scheduled, overlapped>>

(* The callback of the model catalog, for this credential.                 *)
RefreshCatalog ==
    /\ Idle(Catalog)
    /\ ~ auth.disabled
    /\ pending' = [pending EXCEPT ![Catalog] =
                     Reregister(auth) \o <<Section("latest")>>]
    /\ Begin(Catalog, TRUE)
    /\ UNCHANGED <<stateVars, registryVars, scheduled>>

(* latestAuthForModelRegistration, and what follows from what it returns.  *)
FetchLatest(t) ==
    /\ At(t, "latest")
    /\ Then(t, (IF auth.disabled THEN <<Section("unregister")>>
                ELSE Reregister(auth)) \o <<Section("refresh")>>)
    /\ UNCHANGED <<stateVars, registryVars, scheduled, overlapped>>

----------------------------------------------------------------------------
(* Another client of the registry comes or goes. *)
OtherClient(c) ==
    /\ \/ \E list \in Reg!BoundedLists \ {Reg!NoModels} :
             clientModels[c] # list /\ Reg!RegisterClient(c, Provider, list)
       \/ clientModels[c] # Reg!NoModels /\ Reg!UnregisterClient(c)
    /\ UNCHANGED <<auth, cooling, scheduled, pending, overlapped>>

Advance ==
    /\ Tick
    /\ UNCHANGED <<registryVars, scheduled, pending, overlapped>>

(* The credential was loaded from the store as a disabled one.             *)
ManagerInit ==
    /\ auth = Withdrawn(Fresh)
    /\ cooling = TRUE
    /\ Reg!Init
    /\ scheduled = NotScheduled
    /\ pending = [t \in Threads |-> <<>>]
    /\ overlapped = FALSE

CriticalSection(t) ==
    \/ UpsertAuth(t) \/ UpdateAuth(t)
    \/ Register(t) \/ Unregister(t) \/ MarkInRegistry(t)
    \/ ReadModels(t) \/ Reconcile(t) \/ RefreshSchedulerEntry(t)
    \/ FetchToDisable(t) \/ FetchLatest(t)

ManagerNext ==
    \/ \E w \in Workers :
          \/ \E m \in Models : Pick(w, m) \/ SyncScheduler(w, m)
          \/ Answer(w)
    \/ \E new \in {Fresh, Withdrawn(Fresh)} : AddOrUpdate(new)
    \/ Remove
    \/ RefreshCatalog
    \/ \E t \in Threads : CriticalSection(t)
    \/ \E c \in Others : OtherClient(c)
    \/ Advance

ManagerSpec == ManagerInit /\ [][ManagerNext]_managerVars

----------------------------------------------------------------------------
(* The type invariant; what is scheduled is never disabled by the record   *)
(* it was scheduled with.                                                  *)
ManagerTypeOK ==
    /\ TypeOK
    /\ Reg!TypeOK
    /\ scheduled # NotScheduled =>
          /\ scheduled.auth = Live \/ scheduled.auth \in AuthStates
          /\ scheduled.models \subseteq Models
          /\ ~ (IF scheduled.auth = Live THEN auth ELSE scheduled.auth).disabled
    /\ DOMAIN pending = Threads
    /\ overlapped \in BOOLEAN

Quiet == \A t \in Threads : ~ Busy(t)

(* The three components agree about the credential: the scheduler has the  *)
(* manager's record and the registry's models, and neither of them has     *)
(* anything of a disabled credential.                                      *)
Agree ==
    IF auth.disabled
    THEN scheduled = NotScheduled /\ Bound = {}
    ELSE /\ scheduled # NotScheduled
         /\ scheduled.auth \in {Live, auth}
         /\ scheduled.models = Bound

(* Whenever no handler is between two of its critical sections, and none   *)
(* overlapped another since one last refreshed everything, the components  *)
(* agree: no handler forgets one of them, and whatever disagreement        *)
(* overlapping handlers left, one undisturbed add, update, removal or      *)
(* catalog refresh heals it.                                               *)
AgreeWhenQuiet == Quiet /\ ~ overlapped => Agree

(* The sections after which an upsert is still to come. *)
BeforeUpsert == {"upsert", "update", "refresh", "fetch", "latest"}

(* Even when handlers overlap, the scheduler misses a change of the        *)
(* registry's models only while some handler has an upsert before it: the  *)
(* last upsert always follows the last registration, whoever runs them.    *)
ModelsCatchUp ==
    scheduled # NotScheduled /\ scheduled.models # Bound =>
        \E t \in Threads : \E i \in DOMAIN pending[t] :
            pending[t][i].op \in BeforeUpsert

(* "Re-apply the latest auth snapshot so concurrent auth updates cannot    *)
(* leave stale model registrations behind."                                *)
NoStaleRegistration == Quiet /\ auth.disabled => Bound = {}

(* "re-registration already cleared the registry-side cooldown/suspension  *)
(* snapshot": a model that ReconcileRegistryModelStates finds listed is    *)
(* not suspended.                                                          *)
ReRegistrationClears ==
    \A t \in Threads :
        At(t, "reconcile") /\ ~ overlapped =>
            \A m \in Head(pending[t]).supported : models[m].suspended[Self] = None
=============================================================================
