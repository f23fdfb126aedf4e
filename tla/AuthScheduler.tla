--------------------------- MODULE AuthScheduler ---------------------------
(***************************************************************************)
(* The incremental scheduler that picks the credential ("auth") of each    *)
(* request (sdk/cliproxy/auth/scheduler.go): per provider the known auths  *)
(* and, per model, a lazily built shard with the auths that support the    *)
(* model, the ready ones in priority buckets with rotation cursors, the    *)
(* blocked ones waiting for their retry time.                              *)
(*                                                                         *)
(* Every method takes the scheduler mutex once and reads the clock inside  *)
(* it, so each is one action.  Auth IDs and virtual parents are numbers:   *)
(* the code sorts both.  Cursors and positions count from 0 as in the      *)
(* code; sequences count from 1.                                           *)
(***************************************************************************)
EXTENDS Integers, Sequences, FiniteSets, SequencesExt

CONSTANTS Auths,       \* auth IDs, a set of numbers
          Providers,   \* provider keys
          Codex,       \* the provider whose websocket auths are preferred
          ProviderLists, \* normalized lists of two or more providers
          Models,      \* canonical model keys
          AnyModel,    \* the empty model key
          Priorities,  \* values of an auth's priority attribute
          Parents,     \* values of gemini_virtual_parent, numbers
          Snapshots,   \* auth ID -> snapshots of that auth
          Strategies,  \* strategies that setSelector installs
          None,        \* an absent value; a zero time.Time
          Requested,   \* bound: model keys that requests name
          Relisted,    \* bound: auths whose registered models change
          MaxTried,    \* bound: auths a request has tried already
          MaxNow       \* bound: last instant of the clock

ModelKeys == Models \cup {AnyModel}

Times == Nat \cup {None}

(* What isAuthBlockedForModel reads of the state of one model.             *)
ModelStates ==
    [disabled : BOOLEAN, unavailable : BOOLEAN, exceeded : BOOLEAN,
     nextRetryAfter : Times, nextRecoverAt : Times]

(* What the scheduler reads of an auth.                                    *)
AuthSnapshots ==
    [provider : Providers, disabled : BOOLEAN, status : STRING,
     priority : Priorities, parent : Parents \cup {None}, ws : BOOLEAN,
     states : [ModelKeys -> ModelStates]]

ASSUME SchedulerConstants ==
    /\ Auths \subseteq Nat /\ IsFiniteSet(Auths)
    /\ Priorities \subseteq Int /\ IsFiniteSet(Priorities)
    /\ Parents \subseteq Nat /\ IsFiniteSet(Parents)
    /\ None \notin Int
    /\ None \notin Providers
    /\ \A a \in Auths : Snapshots[a] \subseteq AuthSnapshots
    /\ \A list \in ProviderLists :
          /\ list \in Seq(Providers) /\ Len(list) > 1
          /\ \A i, j \in 1..Len(list) : i # j => list[i] # list[j]
    /\ Requested \subseteq ModelKeys
    /\ Relisted \subseteq Auths
    /\ MaxTried \in Nat
    /\ MaxNow \in Nat

VARIABLES strategy,       \* "round-robin" or "fill-first"
          providers,      \* provider key -> providerScheduler
          authProviders,  \* auth ID -> provider key
          mixedCursors,   \* <<provider list, model key>> -> cursor
          registered,     \* auth ID -> models the registry lists for it
          now             \* the wall clock

vars == <<strategy, providers, authProviders, mixedCursors, registered, now>>

----------------------------------------------------------------------------
(* isAuthBlockedForModel: reason "none" means not blocked.                 *)

NotBlocked == [reason |-> "none", next |-> None]

After(t, at) == t # None /\ t > at

(* A state with no retry time, or one that has passed, does not block.     *)
isAuthBlockedForModel(auth, model, at) ==
    LET state == auth.states[model]
    IN  IF auth.status = "disabled" \/ state.disabled
        THEN [reason |-> "disabled", next |-> None]
        ELSE IF ~ (state.unavailable /\ After(state.nextRetryAfter, at))
        THEN NotBlocked
        ELSE [reason |-> IF state.exceeded THEN "cooldown" ELSE "other",
              next   |-> IF After(state.nextRecoverAt, at)
                         THEN state.nextRecoverAt
                         ELSE state.nextRetryAfter]

----------------------------------------------------------------------------
(* Ready views: a rotation over auth IDs, flat or grouped by parent.       *)

(* The members of S in ascending order. *)
IDs(S) ==
    CHOOSE s \in [1..Cardinality(S) -> S] :
       \A i, j \in 1..Cardinality(S) : i < j => s[i] < s[j]

NoView ==
    [flat |-> <<>>, cursor |-> 0, parentOrder |-> <<>>, parentCursor |-> 0,
     items |-> [g \in Parents |-> <<>>], turn |-> [g \in Parents |-> 0]]

NoBucket == [all |-> NoView, ws |-> NoView]

(* Entries is the shard's entry map, S the ready auths of one priority.    *)
buildReadyView(entries, S) ==
    LET Parent(a) == entries[a].meta.auth.parent
        groups    == {Parent(a) : a \in S}
        grouped   == None \notin groups /\ Cardinality(groups) > 1
    IN  [NoView EXCEPT
           !.flat = IDs(S),
           !.parentOrder = IF grouped THEN IDs(groups) ELSE <<>>,
           !.items = [g \in Parents |->
                        IF grouped THEN IDs({a \in S : Parent(a) = g})
                        ELSE <<>>]]

(* Mutant: the cursor is kept as it was.                                   *)
keepCursor(cursor, size) == cursor

normalizeCursor(cursor, size) == IF size = 0 THEN 0 ELSE cursor % size

(* Mutant: every rebuild starts the rotation over.                         *)
restartReadyView(view, old) == view

restoreReadyViewCursors(view, old) ==
    [view EXCEPT
       !.cursor = normalizeCursor(old.cursor, Len(view.flat)),
       !.parentCursor = normalizeCursor(old.parentCursor,
                                        Len(view.parentOrder)),
       !.turn = [g \in Parents |->
                   normalizeCursor(old.turn[g], Len(view.items[g]))]]

(* The first position from the cursor on, around the end, that is allowed. *)
NextFrom(items, cursor, allowed) ==
    LET size == Len(items)
        At(offset) == (cursor + offset) % size
        hits == {o \in 0..(size - 1) : items[At(o) + 1] \in allowed}
    IN  IF hits = {} THEN None
        ELSE At(CHOOSE o \in hits : \A h \in hits : o <= h)

NoPick(view) == [auth |-> None, view |-> view]

pickFirst(view, allowed) ==
    LET i == NextFrom(view.flat, 0, allowed)
    IN  IF i = None THEN None ELSE view.flat[i + 1]

pickFlatRoundRobin(view, allowed) ==
    LET i == NextFrom(view.flat, view.cursor, allowed)
    IN  IF i = None THEN NoPick(view)
        ELSE [auth |-> view.flat[i + 1],
              view |-> [view EXCEPT !.cursor = i + 1]]

(* The next parent with an allowed auth, then the next such auth of it.    *)
pickGroupedRoundRobin(view, allowed) ==
    LET willing == {g \in Parents : Range(view.items[g]) \cap allowed # {}}
        i == NextFrom(view.parentOrder, view.parentCursor, willing)
    IN  IF i = None THEN NoPick(view)
        ELSE LET g == view.parentOrder[i + 1]
                 j == NextFrom(view.items[g], view.turn[g], allowed)
             IN  [auth |-> view.items[g][j + 1],
                  view |-> [view EXCEPT !.turn[g] = j + 1,
                                        !.parentCursor = i + 1]]

pickRoundRobin(view, allowed) ==
    IF Len(view.parentOrder) > 1
    THEN pickGroupedRoundRobin(view, allowed)
    ELSE pickFlatRoundRobin(view, allowed)

----------------------------------------------------------------------------
(* Shards: the entries of one provider and model, and their indexes.       *)

NoShard == None

EmptyShard ==
    [entries |-> [a \in Auths |-> None],
     ready   |-> [n \in Priorities |-> NoBucket],
     blocked |-> {}]

EntriesIn(entries, states) ==
    {a \in Auths : entries[a] # None /\ entries[a].state \in states}

ReadyAt(entries, n) ==
    {a \in EntriesIn(entries, {"ready"}) : entries[a].meta.auth.priority = n}

Websocket(entries, S) == {a \in S : entries[a].meta.auth.ws}

rebuildIndexesLocked(shard, entries) ==
    [entries |-> entries,
     ready   |-> [n \in Priorities |->
                    LET S == ReadyAt(entries, n)
                        old == shard.ready[n]
                    IN  [all |-> restoreReadyViewCursors(
                                    buildReadyView(entries, S), old.all),
                         ws  |-> restoreReadyViewCursors(
                                    buildReadyView(entries,
                                                   Websocket(entries, S)),
                                    old.ws)]],
     blocked |-> EntriesIn(entries, {"cooldown", "other"})]

(* The scheduling state that isAuthBlockedForModel gives an auth.          *)
Evaluate(meta, model, at) ==
    LET verdict == isAuthBlockedForModel(meta.auth, model, at)
    IN  [meta  |-> meta,
         state |-> IF verdict.reason = "none" THEN "ready" ELSE verdict.reason,
         nextRetryAt |-> verdict.next]

(* Mutant: a change of the websocket flag alone does not count.            *)
IndexKeyWithoutTransport(entry) ==
    <<entry.state, entry.nextRetryAt, entry.meta.auth.priority,
      entry.meta.auth.parent>>

(* What the indexes depend on: while it stays, they are not rebuilt.       *)
IndexKey(entry) ==
    <<entry.state, entry.nextRetryAt, entry.meta.auth.priority,
      entry.meta.auth.parent, entry.meta.auth.ws>>

upsertEntryLocked(shard, a, meta, model, at) ==
    LET previous == shard.entries[a]
        entry    == Evaluate(meta, model, at)
        entries  == [shard.entries EXCEPT ![a] = entry]
    IN  IF previous # None /\ IndexKey(previous) = IndexKey(entry)
        THEN [shard EXCEPT !.entries = entries]
        ELSE rebuildIndexesLocked(shard, entries)

removeEntryLocked(shard, a) ==
    IF shard.entries[a] = None
    THEN shard
    ELSE rebuildIndexesLocked(shard, [shard.entries EXCEPT ![a] = None])

(* Mutant: the instant of the retry time itself is left out.               *)
promoteLater(shard, model, at) ==
    LET due == {a \in shard.blocked : shard.entries[a].nextRetryAt < at}
    IN  IF due = {} THEN shard
        ELSE rebuildIndexesLocked(shard,
                [a \in Auths |->
                   IF a \in due
                   THEN Evaluate(shard.entries[a].meta, model, at)
                   ELSE shard.entries[a]])

(* Only a blocked entry whose retry time has come is looked at again.      *)
promoteExpiredLocked(shard, model, at) ==
    LET due == {a \in shard.blocked : shard.entries[a].nextRetryAt <= at}
    IN  IF due = {} THEN shard
        ELSE rebuildIndexesLocked(shard,
                [a \in Auths |->
                   IF a \in due
                   THEN Evaluate(shard.entries[a].meta, model, at)
                   ELSE shard.entries[a]])

----------------------------------------------------------------------------
(* Provider schedulers. *)

supportsModel(meta, model) == model = AnyModel \/ model \in meta.models

NoProvider == None

EmptyProvider ==
    [auths  |-> [a \in Auths |-> None],
     shards |-> [m \in ModelKeys |-> NoShard]]

providerUpsert(state, a, meta, at) ==
    [auths  |-> [state.auths EXCEPT ![a] = meta],
     shards |-> [m \in ModelKeys |->
                   IF state.shards[m] = NoShard THEN NoShard
                   ELSE IF supportsModel(meta, m)
                   THEN upsertEntryLocked(state.shards[m], a, meta, m, at)
                   ELSE removeEntryLocked(state.shards[m], a)]]

providerRemove(state, a) ==
    [auths  |-> [state.auths EXCEPT ![a] = None],
     shards |-> [m \in ModelKeys |->
                   IF state.shards[m] = NoShard THEN NoShard
                   ELSE removeEntryLocked(state.shards[m], a)]]

(* The shard of a model, built on first use and brought up to date.        *)
ensureModelLocked(state, model, at) ==
    IF state.shards[model] # NoShard
    THEN promoteExpiredLocked(state.shards[model], model, at)
    ELSE rebuildIndexesLocked(EmptyShard,
            [a \in Auths |->
               IF state.auths[a] = None \/ ~ supportsModel(state.auths[a], model)
               THEN None
               ELSE Evaluate(state.auths[a], model, at)])

----------------------------------------------------------------------------
(* Synchronizing auths. *)

WithoutAuth(state, a) ==
    IF authProviders[a] = None THEN state
    ELSE [state EXCEPT ![authProviders[a]] = providerRemove(@, a)]

removeAuthLocked(a) ==
    /\ providers' = WithoutAuth(providers, a)
    /\ authProviders' = [authProviders EXCEPT ![a] = None]

(* Mutant: the auth stays with its previous provider too.                  *)
upsertKeepingPrevious(a, auth) ==
    LET meta == [auth |-> auth, models |-> registered[a]]
        p    == auth.provider
        home == IF providers[p] = NoProvider THEN EmptyProvider ELSE providers[p]
    IN  /\ providers' = [providers EXCEPT ![p] =
                           providerUpsert(home, a, meta, now)]
        /\ authProviders' = [authProviders EXCEPT ![a] = p]

upsertAuthLocked(a, auth) ==
    LET meta   == [auth |-> auth, models |-> registered[a]]
        p      == auth.provider
        left   == IF authProviders[a] \in {None, p} THEN providers
                  ELSE WithoutAuth(providers, a)
        home   == IF left[p] = NoProvider THEN EmptyProvider ELSE left[p]
    IN  /\ providers' = [left EXCEPT ![p] = providerUpsert(home, a, meta, now)]
        /\ authProviders' = [authProviders EXCEPT ![a] = p]

UpsertAuth(a) ==
    /\ \E auth \in Snapshots[a] :
          IF auth.disabled THEN removeAuthLocked(a)
          ELSE upsertAuthLocked(a, auth)
    /\ UNCHANGED <<strategy, mixedCursors, registered, now>>

RemoveAuth(a) ==
    /\ removeAuthLocked(a)
    /\ UNCHANGED <<strategy, mixedCursors, registered, now>>

NoMixedCursors == [k \in ProviderLists \X ModelKeys |-> 0]

(* rebuild starts from nothing, with the auths its caller lists: those     *)
(* last upserted.  No shard exists while they are upserted again.          *)
Rebuild ==
    /\ providers' = [p \in Providers |->
          IF \A a \in Auths : authProviders[a] # p THEN NoProvider
          ELSE [EmptyProvider EXCEPT !.auths = [a \in Auths |->
                  IF authProviders[a] # p THEN None
                  ELSE [auth   |-> providers[p].auths[a].auth,
                        models |-> registered[a]]]]]
    /\ mixedCursors' = NoMixedCursors
    /\ UNCHANGED <<strategy, authProviders, registered, now>>

SetSelector(s) ==
    /\ strategy' = s
    /\ mixedCursors' = NoMixedCursors
    /\ UNCHANGED <<providers, authProviders, registered, now>>

----------------------------------------------------------------------------
(* Picking. *)

(* The priority levels with an allowed ready auth, of either transport.    *)
LevelsWith(shard, class, allowed) ==
    {n \in Priorities : Range(shard.ready[n][class].flat) \cap allowed # {}}

(* Mutant: the levels are searched in ascending order.                     *)
Lowest(S) == CHOOSE n \in S : \A k \in S : n <= k

Highest(S) == CHOOSE n \in S : \A k \in S : k <= n

highestReadyPriorityLocked(shard, preferWebsocket, allowed) ==
    LET ws  == IF preferWebsocket THEN LevelsWith(shard, "ws", allowed) ELSE {}
        all == LevelsWith(shard, "all", allowed)
    IN  IF ws # {} THEN Highest(ws)
        ELSE IF all # {} THEN Highest(all) ELSE None

pickReadyAtPriorityLocked(shard, preferWebsocket, n, how, allowed) ==
    LET class == IF preferWebsocket
                    /\ pickFirst(shard.ready[n].ws, allowed) # None
                 THEN "ws" ELSE "all"
        view == shard.ready[n][class]
        picked == IF how = "fill-first"
                  THEN [auth |-> pickFirst(view, allowed), view |-> view]
                  ELSE pickRoundRobin(view, allowed)
    IN  [auth  |-> picked.auth,
         shard |-> [shard EXCEPT !.ready[n][class] = picked.view]]

pickReadyLocked(shard, preferWebsocket, allowed) ==
    LET n == highestReadyPriorityLocked(shard, preferWebsocket, allowed)
    IN  IF n = None THEN [auth |-> None, shard |-> shard]
        ELSE pickReadyAtPriorityLocked(shard, preferWebsocket, n, strategy,
                                       allowed)

(* Mutant: every waiting auth counts as cooling down.                      *)
WaitingState(entry) == entry.nextRetryAt # None

CoolingDown(entry) == entry.state = "cooldown"

(* The error of a failed pick, from the summaries of the shards asked.     *)
Unavailable(shards, allowed, at) ==
    LET asked    == {x \in (DOMAIN shards) \X allowed :
                        shards[x[1]].entries[x[2]] # None}
        cooling  == {x \in asked : CoolingDown(shards[x[1]].entries[x[2]])}
        earliest == {shards[x[1]].entries[x[2]].nextRetryAt : x \in cooling}
    IN  IF asked = {} THEN [code |-> "auth_not_found", resetIn |-> None]
        ELSE IF cooling = asked
        THEN [code |-> "model_cooldown",
              resetIn |-> LET first == CHOOSE t \in earliest :
                                           \A u \in earliest : t <= u
                          IN  IF first < at THEN 0 ELSE first - at]
        ELSE [code |-> "auth_unavailable", resetIn |-> None]

NotFound == [code |-> "auth_not_found", resetIn |-> None]
Found    == [code |-> "ok", resetIn |-> None]

Allowed(pinned, tried) ==
    (IF pinned = None THEN Auths ELSE {pinned}) \ tried

(* What a pick from one shard returns, and the provider map it leaves.     *)
SingleOutcome(p, model, picked, allowed) ==
    [auth      |-> picked.auth,
     providers |-> [providers EXCEPT ![p].shards[model] = picked.shard],
     error     |-> IF picked.auth # None THEN Found
                   ELSE Unavailable([q \in {p} |-> picked.shard], allowed, now)]

PickedSingle(p, model, pinned, tried, websocket) ==
    IF providers[p] = NoProvider
    THEN [auth |-> None, providers |-> providers, error |-> NotFound]
    ELSE SingleOutcome(p, model,
            pickReadyLocked(ensureModelLocked(providers[p], model, now),
                            websocket /\ p = Codex /\ pinned = None,
                            Allowed(pinned, tried)),
            Allowed(pinned, tried))

PickSingle(p, model, pinned, tried, websocket) ==
    /\ providers' =
          PickedSingle(p, model, pinned, tried, websocket).providers
    /\ UNCHANGED <<strategy, authProviders, mixedCursors, registered, now>>

(* A pinned auth is looked up in the provider that holds it.               *)
PickedPinned(list, model, pinned, tried) ==
    LET p == authProviders[pinned]
    IN  IF p = None \/ p \notin Range(list)
        THEN [auth |-> None, providers |-> providers, error |-> NotFound]
        ELSE PickedSingle(p, model, pinned, tried, FALSE)

(* The shards of the listed providers, all brought up to date first.       *)
MixedShards(list, model) ==
    [p \in {q \in Range(list) : providers[q] # NoProvider} |->
        ensureModelLocked(providers[p], model, now)]

StoreShards(shards, model) ==
    [p \in Providers |->
       IF p \in DOMAIN shards
       THEN [providers[p] EXCEPT !.shards[model] = shards[p]]
       ELSE providers[p]]

ReadyCount(shards, p, n) ==
    IF p \in DOMAIN shards THEN Len(shards[p].ready[n].all.flat) ELSE 0

(* Slots before position i of the list.                                    *)
SegmentStart(shards, list, i, n) ==
    LET start[k \in 1..(Len(list) + 1)] ==
          IF k = 1 THEN 0 ELSE start[k - 1] + ReadyCount(shards, list[k - 1], n)
    IN  start[i]

(* Mutant: the cursor stays on the slot that was served.                   *)
NextSlotStuck(slot) == slot

NextSlot(slot) == slot + 1

(* The highest priority level with an allowed ready auth in any shard.     *)
BestLevel(shards, allowed) ==
    LET levels == {highestReadyPriorityLocked(shards[p], FALSE, allowed) :
                      p \in DOMAIN shards} \ {None}
    IN  IF levels = {} THEN None ELSE Highest(levels)

Willing(shards, n, allowed) ==
    {p \in DOMAIN shards :
        Range(shards[p].ready[n].all.flat) \cap allowed # {}}

StartSlot(shards, list, model, n) ==
    mixedCursors[<<list, model>>] % SegmentStart(shards, list, Len(list) + 1, n)

(* The position in the list of the provider whose segment holds the slot.  *)
Segment(shards, list, n, slot) ==
    CHOOSE i \in DOMAIN list :
       /\ SegmentStart(shards, list, i, n) <= slot
       /\ slot < SegmentStart(shards, list, i + 1, n)

(* Fill-first goes through the list, round-robin from the start slot on.   *)
Serving(shards, list, model, allowed, n) ==
    LET from == IF strategy = "fill-first" THEN 0
                ELSE Segment(shards, list, n,
                             StartSlot(shards, list, model, n)) - 1
    IN  NextFrom(list, from, Willing(shards, n, allowed)) + 1

(* Provider list[i] serves at level n.                                     *)
MixedOutcome(list, model, shards, n, i, picked) ==
    LET start == StartSlot(shards, list, model, n)
        slot  == IF i = Segment(shards, list, n, start) THEN start
                 ELSE SegmentStart(shards, list, i, n)
    IN  [auth      |-> picked.auth,
         providers |-> StoreShards([shards EXCEPT ![list[i]] = picked.shard],
                                   model),
         cursors   |-> IF strategy = "fill-first" THEN mixedCursors
                       ELSE [mixedCursors EXCEPT ![<<list, model>>] =
                                NextSlot(slot)],
         error     |-> Found]

PickedAt(list, model, shards, allowed, n, i) ==
    MixedOutcome(list, model, shards, n, i,
       pickReadyAtPriorityLocked(shards[list[i]], FALSE, n, strategy, allowed))

PickedFrom(list, model, shards, allowed, n) ==
    IF n = None
    THEN [auth |-> None, providers |-> StoreShards(shards, model),
          cursors |-> mixedCursors,
          error |-> Unavailable(shards, allowed, now)]
    ELSE PickedAt(list, model, shards, allowed, n,
                  Serving(shards, list, model, allowed, n))

(* The outcome of pickMixed with no pinned auth.                           *)
PickedMixed(list, model, tried) ==
    LET shards == MixedShards(list, model)
    IN  PickedFrom(list, model, shards, Auths \ tried,
                   BestLevel(shards, Auths \ tried))

PickMixed(list, model, tried) ==
    /\ \E outcome \in {PickedMixed(list, model, tried)} :
          /\ providers' = outcome.providers
          /\ mixedCursors' = outcome.cursors
    /\ UNCHANGED <<strategy, authProviders, registered, now>>

PickPinned(list, model, pinned, tried) ==
    /\ providers' = PickedPinned(list, model, pinned, tried).providers
    /\ UNCHANGED <<strategy, authProviders, mixedCursors, registered, now>>

(* The registry lists other models for an auth; the scheduler learns of it *)
(* only when that auth is upserted again.                                  *)
RegisterModels(a) ==
    /\ \E S \in SUBSET Models : registered' = [registered EXCEPT ![a] = S]
    /\ UNCHANGED <<strategy, providers, authProviders, mixedCursors, now>>

Tick ==
    /\ now < MaxNow
    /\ now' = now + 1
    /\ UNCHANGED <<strategy, providers, authProviders, mixedCursors, registered>>

----------------------------------------------------------------------------
TriedSets == {S \in SUBSET Auths : Cardinality(S) <= MaxTried}

Init ==
    /\ strategy \in Strategies
    /\ providers = [p \in Providers |-> NoProvider]
    /\ authProviders = [a \in Auths |-> None]
    /\ mixedCursors = NoMixedCursors
    /\ registered = [a \in Auths |-> Models]
    /\ now = 0

Synchronize ==
    \/ \E a \in Auths : UpsertAuth(a) \/ RemoveAuth(a)
    \/ Rebuild
    \/ \E s \in Strategies : SetSelector(s)

Pick ==
    \E m \in Requested, tried \in TriedSets :
       \/ \E p \in Providers, pinned \in Auths \cup {None},
             websocket \in BOOLEAN : PickSingle(p, m, pinned, tried, websocket)
       \/ \E list \in ProviderLists :
             \/ PickMixed(list, m, tried)
             \/ \E pinned \in Auths : PickPinned(list, m, pinned, tried)

Environment == Tick \/ \E a \in Relisted : RegisterModels(a)

Next == Synchronize \/ Pick \/ Environment

Spec == Init /\ [][Next]_vars

----------------------------------------------------------------------------
States == {"ready", "cooldown", "other", "disabled"}

Metas == [auth : UNION {Snapshots[a] : a \in Auths}, models : SUBSET Models]

Entries == [meta : Metas, state : States, nextRetryAt : Times]

Views ==
    [flat : Seq(Auths), cursor : Nat,
     parentOrder : Seq(Parents), parentCursor : Nat,
     items : [Parents -> Seq(Auths)], turn : [Parents -> Nat]]

ModelShards ==
    [entries : [Auths -> Entries \cup {None}],
     ready   : [Priorities -> [all : Views, ws : Views]],
     blocked : SUBSET Auths]

ProviderSchedulers ==
    [auths  : [Auths -> Metas \cup {None}],
     shards : [ModelKeys -> ModelShards \cup {None}]]

(* The absent value is none of the things it stands for the absence of.    *)
ASSUME NoneIsNothing ==
    None \notin Metas \cup Entries \cup ModelShards \cup ProviderSchedulers

CursorsWithin(view) ==
    /\ view.cursor \in 0..Len(view.flat)
    /\ view.parentCursor \in 0..Len(view.parentOrder)
    /\ \A g \in Parents : view.turn[g] \in 0..Len(view.items[g])

Shards ==
    {s \in Providers \X ModelKeys :
        /\ providers[s[1]] # NoProvider
        /\ providers[s[1]].shards[s[2]] # NoShard}

(* The type invariant; no cursor leaves its rotation, and a blocked entry  *)
(* always has a time at which it is looked at again.                       *)
TypeOK ==
    /\ strategy \in Strategies
    /\ providers \in [Providers -> ProviderSchedulers \cup {None}]
    /\ \A s \in Shards :
          LET shard == providers[s[1]].shards[s[2]]
          IN  /\ \A n \in Priorities : /\ CursorsWithin(shard.ready[n].all)
                                       /\ CursorsWithin(shard.ready[n].ws)
              /\ \A a \in shard.blocked : shard.entries[a].nextRetryAt # None
    /\ authProviders \in [Auths -> Providers \cup {None}]
    /\ mixedCursors \in [ProviderLists \X ModelKeys -> 0..Cardinality(Auths)]
    /\ registered \in [Auths -> SUBSET Models]
    /\ now \in 0..MaxNow

(* The views apart from the cursors. *)
Arrangement(ready) ==
    [n \in Priorities |->
       [class \in {"all", "ws"} |->
          <<ready[n][class].flat, ready[n][class].parentOrder,
            ready[n][class].items>>]]

(* The incrementally kept indexes are those that a rebuild from the        *)
(* entries would give, although upsertEntryLocked skips the rebuild when   *)
(* it sees no relevant change: no auth is missing from a view it belongs   *)
(* to, stays in one it left, or waits outside the blocked queue.           *)
IndexesCoherent ==
    \A s \in Shards :
        LET shard == providers[s[1]].shards[s[2]]
            fresh == rebuildIndexesLocked(EmptyShard, shard.entries)
        IN  /\ Arrangement(shard.ready) = Arrangement(fresh.ready)
            /\ shard.blocked = fresh.blocked

(* Each auth is known to one provider, the one authProviders names, and    *)
(* every shard of it, whenever it was built, holds exactly the provider's  *)
(* auths that support its model, with the latest snapshot of each.         *)
ShardsComplete ==
    /\ \A p \in Providers, a \in Auths :
          (authProviders[a] = p) <=>
             (providers[p] # NoProvider /\ providers[p].auths[a] # None)
    /\ \A s \in Shards, a \in Auths :
          LET meta  == providers[s[1]].auths[a]
              entry == providers[s[1]].shards[s[2]].entries[a]
          IN  /\ (entry # None) <=> (meta # None /\ supportsModel(meta, s[2]))
              /\ entry # None => entry.meta = meta

----------------------------------------------------------------------------
(* What a pick promises, said over the latest snapshots alone, as the      *)
(* plain selectors of selector.go compute it.                              *)

Candidates(p, model, allowed) ==
    IF providers[p] = NoProvider THEN {}
    ELSE {a \in allowed : /\ providers[p].auths[a] # None
                          /\ supportsModel(providers[p].auths[a], model)}

Snapshot(p, a) == providers[p].auths[a].auth

Free(p, model, allowed) ==
    {a \in Candidates(p, model, allowed) :
        isAuthBlockedForModel(Snapshot(p, a), model, now) = NotBlocked}

(* Free by its snapshot, but told an earlier pick to come back later.      *)
HeldBack(p, model) ==
    {a \in Auths : /\ <<p, model>> \in Shards
                   /\ a \in providers[p].shards[model].blocked
                   /\ providers[p].shards[model].entries[a].nextRetryAt > now}

Best(p, S) ==
    {a \in S : \A b \in S : Snapshot(p, b).priority <= Snapshot(p, a).priority}

WithTransport(p, S) == {a \in S : Snapshot(p, a).ws}

Preferred(p, S, websocket, pinned) ==
    IF websocket /\ p = Codex /\ pinned = None /\ WithTransport(p, S) # {}
    THEN WithTransport(p, S) ELSE S

(* A pick returns an auth that is not blocked now, was not tried, is the   *)
(* pinned one if any, and is of the highest priority among those (among    *)
(* the websocket ones for a websocket request to codex); fill-first takes  *)
(* the first ID; it fails only if there is none.                           *)
PickSound ==
    \A p \in Providers, m \in Requested, pinned \in Auths \cup {None},
       tried \in TriedSets, websocket \in BOOLEAN :
        LET got  == PickedSingle(p, m, pinned, tried, websocket).auth
            free == Free(p, m, Allowed(pinned, tried)) \ HeldBack(p, m)
            best == Best(p, Preferred(p, free, websocket, pinned))
        IN  IF free = {} THEN got = None
            ELSE /\ got \in best
                 /\ strategy = "fill-first" => \A a \in best : got <= a

(* A pick over several providers returns an auth that is free in one of    *)
(* them, of the highest priority over all of them, and fails only if none  *)
(* has a free auth; a pinned auth is found in whichever provider holds it. *)
MixedPickSound ==
    \A list \in ProviderLists, m \in Requested, tried \in TriedSets :
        LET free(p, S) == Free(p, m, S \ tried) \ HeldBack(p, m)
            pool == {x \in Range(list) \X Auths : x[2] \in free(x[1], Auths)}
            priority(x) == Snapshot(x[1], x[2]).priority
            got  == PickedMixed(list, m, tried).auth
        IN  /\ IF pool = {} THEN got = None
               ELSE \E x \in pool :
                       /\ x[2] = got
                       /\ \A y \in pool : priority(y) <= priority(x)
            /\ \A pinned \in Auths :
                  PickedPinned(list, m, pinned, tried).auth =
                     IF \E p \in Range(list) : pinned \in free(p, {pinned})
                     THEN pinned ELSE None

(* A failed pick says why: auth_not_found only without any candidate, and  *)
(* model_cooldown only if every candidate is over quota and its reported   *)
(* retry time is not before now + resetIn.                                 *)
FailureExplained ==
    \A p \in Providers, m \in Requested, tried \in TriedSets :
        LET outcome == PickedSingle(p, m, None, tried, FALSE)
            waiting == Candidates(p, m, Auths \ tried)
            entry(a) == outcome.providers[p].shards[m].entries[a]
        IN  /\ outcome.error.code = "auth_not_found" <=> waiting = {}
            /\ outcome.error.code = "model_cooldown" =>
                  \A a \in waiting :
                     /\ Snapshot(p, a).states[m].exceeded
                     /\ entry(a).nextRetryAt >= now + outcome.error.resetIn

(* selectorStrategy "maps a selector implementation to the scheduler       *)
(* semantics it should emulate": the selector never returns an auth while  *)
(* one of higher priority is free.                                         *)
EmulatesSelector ==
    \A p \in Providers, m \in Requested :
        LET got == PickedSingle(p, m, None, {}, FALSE).auth
        IN  got # None => got \in Best(p, Free(p, m, Auths))
=============================================================================
