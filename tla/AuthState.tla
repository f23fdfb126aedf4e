----------------------------- MODULE AuthState -----------------------------
(***************************************************************************)
(* What the auth manager remembers of one credential between requests      *)
(* (sdk/cliproxy/auth/conductor.go): a state per model it failed or        *)
(* succeeded with, and the aggregate of them that the auth itself carries. *)
(* Each result of a request changes both under Manager.mu, so each is one  *)
(* action here; what the manager does after it unlocks is in AuthManager.  *)
(*                                                                         *)
(* Error values and messages are abstracted to "there is one", and of the  *)
(* auth itself, whose LastError decides nothing, left out.  Times and      *)
(* durations are numbers.  AuthUpdates puts the operations together.       *)
(***************************************************************************)
EXTENDS Integers, FiniteSets

CONSTANTS Models,       \* canonical model keys
          None,         \* an absent value; a zero time.Time
          ShortWait,    \* 1 minute, after a transient upstream error
          MediumWait,   \* 30 minutes, after 401, 402 and 403
          LongWait,     \* 12 hours, after 404 and an unsupported model
          BackoffBase,  \* quotaBackoffBase
          BackoffMax,   \* quotaBackoffMax
          RetryAfters,  \* delays that upstreams announce with a 429
          MaxNow        \* bound: last instant of the clock

ASSUME StateConstants ==
    /\ None \notin Int
    /\ IsFiniteSet(Models)
    /\ {ShortWait, MediumWait, LongWait} \subseteq Nat
    /\ BackoffBase \in Nat \ {0} /\ BackoffMax \in Nat
    /\ BackoffBase <= BackoffMax
    /\ RetryAfters \subseteq Nat
    /\ MaxNow \in Nat

VARIABLES auth,     \* the manager's Auth
          cooling,  \* FALSE: quotaCooldownDisabled
          now       \* the wall clock

stateVars == <<auth, cooling, now>>

NoQuota == [exceeded |-> FALSE, recover |-> None, level |-> 0]

CleanState ==
    [unavailable |-> FALSE, status |-> "active", error |-> FALSE,
     nextRetryAfter |-> None, quota |-> NoQuota]

NoStates == [m \in Models |-> None]

Fresh ==
    [disabled |-> FALSE, status |-> "active", unavailable |-> FALSE,
     nextRetryAfter |-> None, quota |-> NoQuota, states |-> NoStates]

After(t, at) == t # None /\ t > at

Earliest(times) ==
    IF times = {} THEN None ELSE CHOOSE t \in times : \A u \in times : t <= u

Greatest(levels) ==
    IF levels = {} THEN 0 ELSE CHOOSE n \in levels : \A k \in levels : k <= n

----------------------------------------------------------------------------
(* nextQuotaCooldown: the wait doubles with every level up to the maximum, *)
(* where the level stays.                                                  *)

Doubled(level) == BackoffBase * 2^level

Cooldown(level) == IF Doubled(level) >= BackoffMax THEN BackoffMax ELSE Doubled(level)

(* Mutant: the level goes on rising at the maximum.                        *)
NextLevelUnbounded(level) == level + 1

NextLevel(level) == IF Doubled(level) >= BackoffMax THEN level ELSE level + 1

(* A 429 with an announced delay keeps the level, without cooling it sets  *)
(* no time at all.                                                         *)
AfterQuota(quota, retryAfter, cool, at) ==
    [exceeded |-> TRUE,
     recover  |-> IF ~ cool THEN None
                  ELSE IF retryAfter # None THEN at + retryAfter
                  ELSE at + Cooldown(quota.level),
     level    |-> IF cool /\ retryAfter = None THEN NextLevel(quota.level)
                  ELSE quota.level]

----------------------------------------------------------------------------
(* The aggregate of the model states. *)

Recorded(a) == {m \in Models : a.states[m] # None}

(* Mutant: the retry time stays.                                           *)
SettledKeepingTime(state, at) ==
    IF state.unavailable /\ state.nextRetryAfter # None
       /\ ~ After(state.nextRetryAfter, at)
    THEN [state EXCEPT !.unavailable = FALSE]
    ELSE state

(* A retry time that has passed is forgotten; the error stays. *)
Settled(state, at) ==
    IF state.unavailable /\ state.nextRetryAfter # None
       /\ ~ After(state.nextRetryAfter, at)
    THEN [state EXCEPT !.unavailable = FALSE, !.nextRetryAfter = None]
    ELSE state

Blocked(state, at) == state.unavailable /\ After(state.nextRetryAfter, at)

BlockedModels(a, at) == {m \in Recorded(a) : Blocked(a.states[m], at)}

OverQuota(a) == {m \in Recorded(a) : a.states[m].quota.exceeded}

AggregateQuota(a) ==
    IF OverQuota(a) = {} THEN NoQuota
    ELSE [exceeded |-> TRUE,
          recover  |-> Earliest({a.states[m].quota.recover : m \in OverQuota(a)}
                                  \ {None}),
          level    |-> Greatest({a.states[m].quota.level : m \in OverQuota(a)})]

(* Mutant: one blocked model makes the whole auth unavailable.             *)
aggregateAnyBlocked(a, at) ==
    [a EXCEPT
       !.states = [m \in Models |-> IF a.states[m] = None THEN None
                                    ELSE Settled(a.states[m], at)],
       !.unavailable = BlockedModels(a, at) # {},
       !.nextRetryAfter = Earliest({a.states[m].nextRetryAfter :
                                      m \in BlockedModels(a, at)}),
       !.quota = AggregateQuota(a)]

updateAggregatedAvailability(a, at) ==
    IF Recorded(a) = {}
    THEN [a EXCEPT !.unavailable = FALSE, !.nextRetryAfter = None,
                   !.quota = NoQuota]
    ELSE LET all == BlockedModels(a, at) = Recorded(a)
         IN  [a EXCEPT
                !.states = [m \in Models |-> IF a.states[m] = None THEN None
                                             ELSE Settled(a.states[m], at)],
                !.unavailable = all,
                !.nextRetryAfter =
                    IF all THEN Earliest({a.states[m].nextRetryAfter :
                                            m \in Recorded(a)})
                    ELSE None,
                !.quota = AggregateQuota(a)]

hasModelError(a, at) ==
    \E m \in Recorded(a) :
        \/ a.states[m].error
        \/ /\ a.states[m].status = "error"
           /\ a.states[m].unavailable
           /\ \/ a.states[m].nextRetryAfter = None
              \/ After(a.states[m].nextRetryAfter, at)

(* Mutant: the auth keeps the error of its last failing model.             *)
settleKeepingError(a, at) == updateAggregatedAvailability(a, at)

(* After models recovered: the auth is active again once none has an error. *)
Settle(a, at) ==
    LET settled == updateAggregatedAvailability(a, at)
    IN  IF hasModelError(settled, at) THEN settled
        ELSE [settled EXCEPT !.status = "active"]

----------------------------------------------------------------------------
(* MarkResult for a model.  A result's kind is the class of its error: 401, *)
(* 402 and 403 are "denied", 408 and 5xx "transient", 429 is "quota".      *)

Failures == {"model_not_supported", "denied", "not_found", "quota",
             "transient", "other"}

Kinds == {"success", "request_scoped"} \cup Failures

(* The waits that do not depend on how often a result came. *)
Wait ==
    [model_not_supported |-> LongWait, not_found |-> LongWait,
     denied |-> MediumWait, transient |-> ShortWait]

RetryTime(kind, cool, at) ==
    IF kind \in DOMAIN Wait /\ (cool \/ kind = "model_not_supported")
    THEN at + Wait[kind] ELSE None

FailedState(state, kind, retryAfter, cool, at) ==
    LET quota  == IF kind = "quota"
                  THEN AfterQuota(state.quota, retryAfter, cool, at)
                  ELSE state.quota
    IN  [unavailable |-> TRUE, status |-> "error", error |-> TRUE,
         nextRetryAfter |-> IF kind = "quota" THEN quota.recover
                            ELSE RetryTime(kind, cool, at),
         quota |-> quota]

ModelFailure(a, m, kind, retryAfter, cool, at) ==
    LET state  == IF a.states[m] = None THEN CleanState ELSE a.states[m]
        failed == FailedState(state, kind, retryAfter, cool, at)
    IN  updateAggregatedAvailability(
            [a EXCEPT !.states[m] = failed, !.status = "error"], at)

ModelSuccess(a, m, at) == Settle([a EXCEPT !.states[m] = CleanState], at)

(* A "not found" about the request itself says nothing of the credential.  *)
Marked(a, m, kind, retryAfter, cool, at) ==
    IF kind = "success" THEN ModelSuccess(a, m, at)
    ELSE IF kind = "request_scoped" THEN a
    ELSE ModelFailure(a, m, kind, retryAfter, cool, at)

----------------------------------------------------------------------------
(* MarkResult for no model: clearAuthStateOnSuccess and                    *)
(* applyAuthFailureState change the aggregate and no model state.          *)

AuthSuccess(a) ==
    [a EXCEPT !.unavailable = FALSE, !.status = "active",
              !.nextRetryAfter = None, !.quota = NoQuota]

(* An unsupported model has no case of its own here: it is like "other",   *)
(* which leaves the retry time as it was.                                  *)
applyAuthFailureState(a, kind, retryAfter, cool, at) ==
    LET failed == [a EXCEPT !.unavailable = TRUE, !.status = "error"]
        quota  == AfterQuota(a.quota, retryAfter, cool, at)
    IN  IF kind = "quota"
        THEN [failed EXCEPT !.quota = quota, !.nextRetryAfter = quota.recover]
        ELSE IF kind \in {"other", "model_not_supported"}
        THEN failed
        ELSE [failed EXCEPT !.nextRetryAfter = RetryTime(kind, cool, at)]

MarkedWhole(a, kind, retryAfter, cool, at) ==
    IF kind = "success" THEN AuthSuccess(a)
    ELSE IF kind = "request_scoped" THEN a
    ELSE applyAuthFailureState(a, kind, retryAfter, cool, at)

----------------------------------------------------------------------------
(* The other changes of an auth. *)

(* ReconcileRegistryModelStates: states of models that the registry no     *)
(* longer lists are dropped, the others are cleaned.                       *)
Reconciled(a, supported, at) ==
    LET dropped == Recorded(a) \ supported
        dirty   == {m \in Recorded(a) \cap supported : a.states[m] # CleanState}
    IN  IF dropped \cup dirty = {} THEN a
        ELSE Settle([a EXCEPT !.states =
                       [m \in Models |-> IF m \in dropped THEN None
                                         ELSE IF m \in dirty THEN CleanState
                                         ELSE a.states[m]]], at)

(* Update replaces the auth by one that was read from disk or made by an   *)
(* executor; model states are carried over between enabled auths.          *)
Enabled(a) == ~ a.disabled /\ a.status # "disabled"

Updated(existing, new) ==
    IF existing # None /\ Enabled(existing) /\ Enabled(new)
       /\ Recorded(new) = {}
    THEN [new EXCEPT !.states = existing.states]
    ELSE new

Withdrawn(a) == [a EXCEPT !.disabled = TRUE, !.status = "disabled"]

----------------------------------------------------------------------------
(* Operations: each is what a call does under Manager.mu.                  *)

RetryAfterOf(kind) == IF kind = "quota" THEN RetryAfters \cup {None} ELSE {None}

MarkResult(m) ==
    /\ \E kind \in Kinds : \E retryAfter \in RetryAfterOf(kind) :
          auth' = Marked(auth, m, kind, retryAfter, cooling, now)
    /\ UNCHANGED <<cooling, now>>

MarkModellessResult ==
    /\ \E kind \in Kinds : \E retryAfter \in RetryAfterOf(kind) :
          auth' = MarkedWhole(auth, kind, retryAfter, cooling, now)
    /\ UNCHANGED <<cooling, now>>

ReconcileRegistryModelStates(supported) ==
    /\ auth' = Reconciled(auth, supported, now)
    /\ UNCHANGED <<cooling, now>>

Update(new) ==
    /\ auth' = Updated(auth, new)
    /\ UNCHANGED <<cooling, now>>

SetQuotaCooldownDisabled ==
    /\ cooling' = ~ cooling
    /\ UNCHANGED <<auth, now>>

Tick ==
    /\ now < MaxNow
    /\ now' = now + 1
    /\ UNCHANGED <<auth, cooling>>

----------------------------------------------------------------------------
QuotaStates == [exceeded : BOOLEAN, recover : Nat \cup {None}, level : Nat]

ModelStates ==
    [unavailable : BOOLEAN, status : {"active", "error"}, error : BOOLEAN,
     nextRetryAfter : Nat \cup {None}, quota : QuotaStates]

AuthStates ==
    [disabled : BOOLEAN, status : {"active", "error", "disabled"},
     unavailable : BOOLEAN,
     nextRetryAfter : Nat \cup {None}, quota : QuotaStates,
     states : [Models -> ModelStates \cup {None}]]

ASSUME NoneIsNoState == None \notin ModelStates

(* The type invariant; whatever is available carries no retry time. *)
TypeOK ==
    /\ auth \in AuthStates
    /\ ~ auth.unavailable => auth.nextRetryAfter = None
    /\ \A m \in Recorded(auth) :
          ~ auth.states[m].unavailable => auth.states[m].nextRetryAfter = None
    /\ cooling \in BOOLEAN
    /\ now \in 0..MaxNow

Waits == {ShortWait, MediumWait, LongWait, BackoffMax} \cup RetryAfters

Bounded(t) == t = None \/ \E w \in Waits : t <= now + w

BoundedLevel(level) == level = 0 \/ Doubled(level - 1) < BackoffMax

(* However many 429s follow each other, in whatever order with other       *)
(* results, no wait ends later than the longest single wait from now, and  *)
(* the backoff level stops at the first level whose doubled wait reaches   *)
(* the maximum: 1 << level never leaves its range.                         *)
WaitsBounded ==
    \A m \in Recorded(auth) :
        LET state == auth.states[m]
        IN  /\ Bounded(state.nextRetryAfter)
            /\ Bounded(state.quota.recover)
            /\ BoundedLevel(state.quota.level)

(* A request for any model is turned away from the auth exactly while each *)
(* model it has a state for is blocked, until the first of them is free.   *)
AggregateExact ==
    IF Recorded(auth) # {} /\ BlockedModels(auth, now) = Recorded(auth)
    THEN /\ auth.unavailable
         /\ auth.nextRetryAfter =
               Earliest({auth.states[m].nextRetryAfter : m \in Recorded(auth)})
    ELSE ~ (auth.unavailable /\ After(auth.nextRetryAfter, now))

HasFailing(a) == \E m \in Recorded(a) : a.states[m].error
=============================================================================
