---------------------------- MODULE AuthUpdates ----------------------------
(***************************************************************************)
(* One auth of the manager between its results and those who replace the   *)
(* whole record.  A result or a reconciliation changes the record under    *)
(* Manager.mu.  The service, the management API and a token refresh take a *)
(* clone of it, work on the clone for as long as it takes, and store it    *)
(* with Update: model states and an aggregate that others have changed     *)
(* since, or such states under the aggregate of a new record.              *)
(***************************************************************************)
EXTENDS AuthState

CONSTANTS Updaters,   \* goroutines that replace the record
          MaxBehind   \* bound: changes a clone misses before it is stored

ASSUME UpdatesAssumption == MaxBehind \in Nat

VARIABLES held,    \* updater -> the clone it took; None: it has none
          behind   \* bound: updater -> changes since it took its clone

vars == <<stateVars, held, behind>>

(* PatchAuthFileStatus switches a credential on again.                     *)
Reenabled(a) == [a EXCEPT !.disabled = FALSE, !.status = "active"]

(* What is stored by an updater that has seen a.  Without a change: a      *)
(* refreshed token (refreshAuth), edited fields (PatchAuthFileFields).     *)
(* Withdrawn: applyCoreAuthRemoval, disableAuth, PatchAuthFileStatus.  A   *)
(* record made from a file has no model states (upsertAuthRecord) unless   *)
(* applyCoreAuthAddOrUpdate carries over those of the record it read.      *)
Replacements(a) ==
    {a, Withdrawn(a), Reenabled(a),
     Fresh, Withdrawn(Fresh), Updated(a, Fresh)}

Read(u) ==
    /\ held[u] = None
    /\ held' = [held EXCEPT ![u] = auth]
    /\ UNCHANGED <<stateVars, behind>>

Store(u) ==
    /\ held[u] # None
    /\ \E new \in Replacements(held[u]) : Update(new)
    /\ held' = [held EXCEPT ![u] = None]
    /\ behind' = [behind EXCEPT ![u] = 0]

----------------------------------------------------------------------------
Init ==
    /\ auth = Fresh
    /\ cooling \in BOOLEAN
    /\ now = 0
    /\ held = [u \in Updaters |-> None]
    /\ behind = [u \in Updaters |-> 0]

Change ==
    \/ \E m \in Models : MarkResult(m)
    \/ MarkModellessResult
    \/ \E supported \in SUBSET Models : ReconcileRegistryModelStates(supported)
    \/ SetQuotaCooldownDisabled
    \/ Tick

(* A change that leaves all as it is does not count against the bound.     *)
Behind ==
    /\ \A u \in Updaters : behind[u] < MaxBehind
    /\ behind' = [u \in Updaters |->
                    IF held[u] = None \/ UNCHANGED stateVars THEN behind[u]
                    ELSE behind[u] + 1]

Next ==
    \/ Change /\ Behind /\ UNCHANGED held
    \/ \E u \in Updaters : Read(u) \/ Store(u)

Spec == Init /\ [][Next]_vars

----------------------------------------------------------------------------
(* The type invariant: the record and the clones of it are auths, and      *)
(* whatever is available carries no retry time.                            *)
UpdatesTypeOK ==
    /\ TypeOK
    /\ held \in [Updaters -> AuthStates \cup {None}]
    /\ behind \in [Updaters -> 0..MaxBehind]

(* The record is not being replaced in this step. *)
InPlace == UNCHANGED held

(* A stored clone may bring a stale aggregate or stale model states.  But  *)
(* the next result or reconciliation that changes a model state leaves the *)
(* aggregate exact, whatever was stored before it, and an exact one stays  *)
(* exact as time passes and retry times run out.                           *)
AggregateFollowsModels ==
    [][\/ InPlace /\ auth'.states # auth.states
       \/ auth' = auth /\ AggregateExact
       => AggregateExact']_vars

(* No result or reconciliation leaves the auth in error for a failure that *)
(* is over, or for one that only a stored clone remembers: if it changes a *)
(* model state and the auth's status is error afterwards, then the last    *)
(* result of some model was a failure.                                     *)
StatusExplained ==
    [][InPlace /\ auth'.states # auth.states /\ auth'.status = "error"
       => HasFailing(auth')]_vars
=============================================================================
