--------------------------- MODULE UpdatePipeline ---------------------------
(***************************************************************************)
(* How a change of an auth file, of the configuration or of a websocket    *)
(* relay reaches the core auth manager: internal/watcher (events.go,       *)
(* clients.go, config_reload.go, dispatcher.go) and the queue consumer of  *)
(* sdk/cliproxy/service.go.                                                *)
(*                                                                         *)
(* Threads: the event goroutine of fsnotify; reload goroutines (the start  *)
(* and the callbacks of the debounce timer, which can overlap); the calls  *)
(* of the relay sessions; the dispatch loop; the consumer.  A step is what *)
(* a thread does between two points where another one can see it: a read   *)
(* of the disk, a section under clientsMutex or dispatchMu, a channel      *)
(* operation.                                                              *)
(*                                                                         *)
(* A credential is a version number, 0 when there is none.  Each auth file *)
(* and each configured key yields one credential.                          *)
(***************************************************************************)
EXTENDS Naturals, Sequences, SequencesExt, FiniteSets

CONSTANTS Files,        \* auth files, each the identifier of its credential
          Keys,         \* credentials that come from the configuration
          Relays,       \* credentials that come from websocket sessions
          Affected,     \* credentials of the providers whose exclusion list changes
          Versions,     \* contents of a file or of a configured key
          Partial,      \* content of a file that is being written
          Reloaders,    \* goroutines that reload
          Starter,      \* the one that runs the reload of start
          QueueCap,     \* capacity of the channel to the service (256)
          MaxOps        \* bound on the changes of files, configuration and relays

Vals == Versions \cup {0}
Ids == Files \cup Keys \cup Relays

ASSUME PipelineAssumption ==
  /\ IsFiniteSet(Files) /\ IsFiniteSet(Keys) /\ IsFiniteSet(Relays)
  /\ Versions \subseteq Nat \ {0} /\ Versions # {}
  /\ Partial \notin Nat
  /\ Starter \in Reloaders
  /\ QueueCap \in Nat \ {0}
  /\ MaxOps \in Nat
  /\ Files \cap Keys = {} /\ Files \cap Relays = {} /\ Keys \cap Relays = {}

VARIABLES
  disk,        \* disk[f]: content of an auth file, 0 when it does not exist
  cfgDisk,     \* cfgDisk[k]: the configuration file
  events,      \* what fsnotify has not delivered yet
  ops,         \* how many changes were made outside, for the bound
  (* under clientsMutex *)
  hash,        \* lastAuthHashes and fileAuthsByPath: content applied last, 0 when unknown
  current,     \* currentAuths
  runtime,     \* runtimeAuths
  removed,     \* lastRemoveTimes: files with an earlier removal
  cfg,         \* the configuration in use
  cfgHash,     \* lastConfigHash: the content it names, <<>> before the first reload
  timer,       \* the debounce timer of the configuration is armed
  (* threads *)
  ev,          \* the event goroutine
  rl,          \* rl[r]: a reload
  calls,       \* relay calls between the lock and the dispatch
  relayDone,   \* relayDone[x]: the calls of session x that were made
  (* under dispatchMu, then the channel and its two ends *)
  pending,     \* pendingOrder and pendingUpdates
  batch,       \* what the dispatch loop still has to send
  queue,       \* the channel
  core,        \* core[i]: version of i in the core auth manager
  (* history *)
  crossed,     \* ids whose last update was prepared while another one was not dispatched
  orphans,     \* ids taken out of current with no update for them
  stale,       \* files that a diff judged by another content than the recorded one
  lostRemoval, \* files with a removal dropped by the debounce
  raced        \* the configuration changed during a reload, or two reloads overlapped

watched == <<hash, current, runtime, removed, cfg, cfgHash, timer>>
outside == <<disk, cfgDisk, events, ops>>
channel == <<pending, batch, queue, core>>
history == <<crossed, orphans, stale, lostRemoval, raced>>
vars == <<outside, watched, ev, rl, calls, relayDone, channel, history>>

NoUpdates == [i \in {} |-> 0]
EvIdle == [pc |-> "idle", file |-> Partial, data |-> 0, upds |-> NoUpdates]
RlIdle == [pc |-> "idle", start |-> FALSE, cfg |-> NoUpdates, force |-> FALSE,
           left |-> {}, snap |-> NoUpdates, upds |-> NoUpdates]

(* What the file synthesizer makes of a content: nothing of a partial one. *)
Credential(content) == IF content = Partial THEN 0 ELSE content

-----------------------------------------------------------------------------
(* The dispatcher *)

(* Mutant: the first pending update of an id wins. *)
ReplacedKeepingFirst(q, upds) == q

(* An update takes the place of the pending one of the same id... *)
Replaced(q, upds) ==
  [n \in DOMAIN q |-> IF q[n].id \in DOMAIN upds THEN [q[n] EXCEPT !.val = upds[q[n].id]] ELSE q[n]]

(* ...or is appended: dispatchAuthUpdates.  The order of the identifiers   *)
(* in one call is that of a map iteration; one order stands for all.       *)
Merged(q, upds) ==
  LET new == SetToSeq(DOMAIN upds \ { q[n].id : n \in DOMAIN q })
  IN Replaced(q, upds) \o [n \in DOMAIN new |-> [id |-> new[n], val |-> upds[new[n]]]]

Dispatch(upds) ==
  /\ pending' = Merged(pending, upds)
  /\ UNCHANGED <<batch, queue, core>>

(* Mutant: a batch replaces what is left of the one before. *)
TakeBatchEarly ==
  /\ pending # <<>>
  /\ batch' = pending
  /\ pending' = <<>>
  /\ UNCHANGED <<outside, watched, ev, rl, calls, relayDone, queue, core, history>>

(* nextPendingBatch: the dispatch loop takes everything that is pending. *)
TakeBatch ==
  /\ batch = <<>> /\ pending # <<>>
  /\ batch' = pending
  /\ pending' = <<>>
  /\ UNCHANGED <<outside, watched, ev, rl, calls, relayDone, queue, core, history>>

(* Mutant: one update more than the channel can hold. *)
SendUnbounded ==
  /\ batch # <<>> /\ Len(queue) <= QueueCap
  /\ queue' = Append(queue, Head(batch))
  /\ batch' = Tail(batch)
  /\ UNCHANGED <<outside, watched, ev, rl, calls, relayDone, pending, core, history>>

(* The send of dispatchLoop, which blocks while the channel is full. *)
Send ==
  /\ batch # <<>> /\ Len(queue) < QueueCap
  /\ queue' = Append(queue, Head(batch))
  /\ batch' = Tail(batch)
  /\ UNCHANGED <<outside, watched, ev, rl, calls, relayDone, pending, core, history>>

(* consumeAuthUpdates and handleAuthUpdate. *)
Consume ==
  /\ queue # <<>>
  /\ queue' = Tail(queue)
  /\ core' = [core EXCEPT ![Head(queue).id] = Head(queue).val]
  /\ UNCHANGED <<outside, watched, ev, rl, calls, relayDone, pending, batch, history>>

-----------------------------------------------------------------------------
(* Updates are prepared under clientsMutex and dispatched after it is      *)
(* released: until then the goroutine holds them.                          *)

EvHolds(i) == i \in DOMAIN ev.upds
RlHolds(r, i) == i \in DOMAIN rl[r].upds
CallHolds(i) == \E c \in calls : c.id = i

(* Updates of ids are prepared; busy are the ids somebody else holds an    *)
(* update of at that moment.                                               *)
Prepare(ids, busy) ==
  /\ crossed' = (crossed \ ids) \cup (ids \cap busy)
  /\ orphans' = orphans \ ids

-----------------------------------------------------------------------------
(* What happens outside: files, configuration *)

(* An auth file is created, written or replaced, in one go or by way of an *)
(* empty or half written file; or it is removed.                           *)
ChangeFile(f, content) ==
  /\ ops < MaxOps
  /\ content # disk[f] \/ content # 0
  /\ content = Partial => disk[f] # Partial
  /\ disk' = [disk EXCEPT ![f] = content]
  /\ events' = Append(events, [op |-> IF content = 0 THEN "remove" ELSE "write", file |-> f])
  /\ ops' = ops + 1
  /\ UNCHANGED <<cfgDisk, watched, ev, rl, calls, relayDone, channel, history>>

Reloading == \E r \in Reloaders : rl[r].pc # "idle"

(* The configuration file is written.  Its event only arms the timer       *)
(* (scheduleConfigReload), which is part of this step.                     *)
ChangeConfig(c) ==
  /\ ops < MaxOps
  /\ c # cfgDisk
  /\ cfgDisk' = c
  /\ ops' = ops + 1
  /\ timer' = TRUE
  /\ raced' = (raced \/ Reloading)
  /\ UNCHANGED <<disk, events, hash, current, runtime, removed, cfg, cfgHash, ev, rl, calls,
                 relayDone, channel, crossed, orphans, stale, lostRemoval>>

-----------------------------------------------------------------------------
(* The event goroutine: handleEvent *)

(* It receives an event.  A removal within one second of an earlier one is *)
(* dropped (shouldDebounceRemove); whether that second has passed is left  *)
(* open.  Another one waits for replaceCheckDelay; a write reads the file  *)
(* for authFileUnchanged.                                                  *)
EvTake ==
  /\ ev.pc = "idle" /\ events # <<>>
  /\ events' = Tail(events)
  /\ LET e == Head(events) IN
       \/ /\ e.op = "remove" /\ e.file \in removed
          /\ lostRemoval' = lostRemoval \cup {e.file}
          /\ UNCHANGED <<ev, removed>>
       \/ /\ e.op = "remove"
          /\ removed' = removed \cup {e.file}
          /\ ev' = [EvIdle EXCEPT !.pc = "sleep", !.file = e.file]
          /\ UNCHANGED lostRemoval
       \/ /\ e.op = "write"
          /\ ev' = [EvIdle EXCEPT !.pc = "check", !.file = e.file, !.data = disk[e.file]]
          /\ UNCHANGED <<removed, lostRemoval>>
  /\ UNCHANGED <<disk, cfgDisk, ops, hash, current, runtime, cfg, cfgHash, timer,
                 rl, calls, relayDone, channel, crossed, orphans, stale, raced>>

(* After the delay the file may be there again: then the removal is        *)
(* treated as a write.                                                     *)
EvStat ==
  /\ ev.pc = "sleep"
  /\ ev' = IF disk[ev.file] = 0 THEN [ev EXCEPT !.pc = "gone"]
           ELSE [ev EXCEPT !.pc = "check", !.data = disk[ev.file]]
  /\ UNCHANGED <<outside, watched, rl, calls, relayDone, channel, history>>

(* authFileUnchanged compares what it read; if that is news the file is    *)
(* read again by addOrUpdateClient, which gives up when it is missing,     *)
(* empty or malformed.                                                     *)
EvCheck ==
  /\ ev.pc = "check"
  /\ ev' = IF \/ ev.data \in Versions /\ hash[ev.file] = ev.data
              \/ disk[ev.file] \notin Versions
           THEN EvIdle
           ELSE [ev EXCEPT !.pc = "apply", !.data = disk[ev.file]]
  /\ UNCHANGED <<outside, watched, rl, calls, relayDone, channel, history>>

(* Mutant: a removal does not forget the hash. *)
RecordedUnlessGone(f, data) == IF data = 0 THEN hash ELSE [hash EXCEPT ![f] = data]

(* The caches of an auth file after its content was applied. *)
Recorded(f, data) == [hash EXCEPT ![f] = data]

(* The next state of the event goroutine: dispatch what was prepared. *)
EvDispatches(upds) ==
  IF upds = NoUpdates THEN EvIdle ELSE [ev EXCEPT !.pc = "dispatch", !.upds = upds]

(* The locked section of addOrUpdateClient, with computePerPathUpdatesLocked *)
EvApply ==
  /\ ev.pc = "apply"
  /\ IF hash[ev.file] = ev.data
     THEN ev' = EvIdle /\ UNCHANGED <<hash, current, history>>
     ELSE LET f == ev.file
              upds == IF current[f] = ev.data THEN NoUpdates ELSE [i \in {f} |-> ev.data]
          IN /\ hash' = Recorded(f, ev.data)
             /\ current' = [current EXCEPT ![f] = ev.data]
             /\ ev' = EvDispatches(upds)
             /\ Prepare(DOMAIN upds, { i \in Ids : CallHolds(i) \/ \E r \in Reloaders : RlHolds(r, i) })
             /\ stale' = stale \ {f}
             /\ lostRemoval' = lostRemoval \ {f}
             /\ UNCHANGED raced
  /\ UNCHANGED <<outside, runtime, removed, cfg, cfgHash, timer, rl, calls, relayDone, channel>>

(* isKnownAuthFile, then the locked section of removeClient. *)
EvGone ==
  /\ ev.pc = "gone"
  /\ IF hash[ev.file] = 0
     THEN ev' = EvIdle /\ UNCHANGED <<hash, current, history>>
     ELSE LET f == ev.file IN
          /\ hash' = Recorded(f, 0)
          /\ current' = [current EXCEPT ![f] = 0]
          /\ ev' = EvDispatches([i \in {f} |-> 0])
          /\ Prepare({f}, { i \in Ids : CallHolds(i) \/ \E r \in Reloaders : RlHolds(r, i) })
          /\ stale' = stale \ {f}
          /\ lostRemoval' = lostRemoval \ {f}
          /\ UNCHANGED raced
  /\ UNCHANGED <<outside, runtime, removed, cfg, cfgHash, timer, rl, calls, relayDone, channel>>

EvDispatch ==
  /\ ev.pc = "dispatch"
  /\ Dispatch(ev.upds)
  /\ ev' = EvIdle
  /\ UNCHANGED <<outside, watched, rl, calls, relayDone, history>>

-----------------------------------------------------------------------------
(* A reload: start, or the callback of the debounce timer *)

Rl(r, pc) == rl[r].pc = pc
Goto(r, pc) == rl' = [rl EXCEPT ![r].pc = pc]

(* The timer fires, and a goroutine is as good as another: its callback,   *)
(* reloadConfigIfChanged, reads the file, returns if the recorded hash is  *)
(* that of the content and loads it otherwise.                             *)
RlFire(r) ==
  /\ timer /\ Rl(r, "idle") /\ r = CHOOSE q \in Reloaders : Rl(q, "idle")
  /\ timer' = FALSE
  /\ rl' = IF cfgHash = cfgDisk THEN rl
           ELSE [rl EXCEPT ![r].pc = "set", ![r].cfg = cfgDisk]
  /\ raced' = IF cfgHash = cfgDisk THEN raced ELSE Reloading
  /\ UNCHANGED <<outside, hash, current, runtime, removed, cfg, cfgHash, ev, calls, relayDone,
                 channel, crossed, orphans, stale, lostRemoval>>

(* The loaded configuration becomes the one in use.  Whether the exclusion *)
(* lists changed (drop) or a setting that forces a refresh did (force) is  *)
(* up to the parts of the configuration the model leaves out.              *)
RlSet(r, drop, force) ==
  /\ Rl(r, "set")
  /\ cfg' = rl[r].cfg
  /\ rl' = [rl EXCEPT ![r].pc = IF drop THEN "drop" ELSE "refresh", ![r].force = force]
  /\ UNCHANGED <<outside, hash, current, runtime, removed, cfgHash, timer, ev, calls, relayDone,
                 channel, history>>

(* reloadClients takes the credentials of the affected providers out of    *)
(* currentAuths, so that the diff finds them new.                          *)
RlDrop(r) ==
  /\ Rl(r, "drop")
  /\ current' = [i \in Ids |-> IF i \in Affected THEN 0 ELSE current[i]]
  /\ orphans' = orphans \cup { i \in Affected \cap Ids : current[i] # 0 }
  /\ Goto(r, "refresh")
  /\ UNCHANGED <<outside, hash, runtime, removed, cfg, cfgHash, timer, ev, calls, relayDone,
                 channel, crossed, stale, lostRemoval, raced>>

(* The rescan of reloadClients, under the lock from end to end; only the   *)
(* reload of start does it.                                                *)
RlScan(r) ==
  /\ Rl(r, "scan")
  /\ hash' = [f \in Files |-> Credential(disk[f])]
  /\ Goto(r, "refresh")
  /\ UNCHANGED <<outside, current, runtime, removed, cfg, cfgHash, timer, ev, calls, relayDone,
                 channel, history>>

(* refreshAuthState: the configuration in use is read, then, without the   *)
(* lock, one auth file after the other.                                    *)
RlRefresh(r) ==
  /\ Rl(r, "refresh")
  /\ rl' = [rl EXCEPT ![r].pc = "snapshot", ![r].cfg = cfg, ![r].left = Files]
  /\ UNCHANGED <<outside, watched, ev, calls, relayDone, channel, history>>

RlRead(r, f) ==
  /\ Rl(r, "snapshot") /\ f \in rl[r].left
  /\ rl' = [rl EXCEPT ![r].left = @ \ {f},
                      ![r].snap = [g \in DOMAIN rl[r].snap \cup {f} |->
                                     IF g = f THEN Credential(disk[f]) ELSE rl[r].snap[g]]]
  /\ UNCHANGED <<outside, watched, ev, calls, relayDone, channel, history>>

(* Mutant: the runtime credentials are not merged. *)
NewStateWithoutRuntime(r) == [i \in Ids |-> IF i \in Files THEN rl[r].snap[i]
                                            ELSE IF i \in Keys THEN rl[r].cfg[i]
                                            ELSE 0]

(* Mutant: a key that is gone from the configuration stays. *)
NewStateKeepingKeys(r) == [i \in Ids |-> IF i \in Files THEN rl[r].snap[i]
                                         ELSE IF i \in Relays THEN runtime[i]
                                         ELSE IF rl[r].cfg[i] = 0 THEN current[i]
                                         ELSE rl[r].cfg[i]]

(* What the snapshot of r and the runtime credentials add up to. *)
NewState(r) == [i \in Ids |-> IF i \in Files THEN rl[r].snap[i]
                              ELSE IF i \in Keys THEN rl[r].cfg[i]
                              ELSE runtime[i]]

(* prepareAuthUpdatesLocked *)
RlDiff(r) ==
  /\ Rl(r, "snapshot") /\ rl[r].left = {}
  /\ LET changed == { i \in Ids : \/ NewState(r)[i] # current[i]
                                  \/ rl[r].force /\ NewState(r)[i] # 0 }
     IN /\ rl' = [rl EXCEPT ![r].pc = "dispatch",
                            ![r].upds = [i \in changed |-> NewState(r)[i]]]
        /\ Prepare(changed, { i \in Ids : \/ EvHolds(i) \/ CallHolds(i)
                                         \/ \E q \in Reloaders \ {r} : RlHolds(q, i) })
  /\ current' = NewState(r)
  /\ stale' = { i \in Files : rl[r].snap[i] # hash[i] }
  /\ UNCHANGED <<outside, hash, runtime, removed, cfg, cfgHash, timer, ev, calls, relayDone,
                 channel, lostRemoval, raced>>

(* A reload of start ends here, a reload of the configuration goes on. *)
RlDispatch(r) ==
  /\ Rl(r, "dispatch")
  /\ Dispatch(rl[r].upds)
  /\ rl' = [rl EXCEPT ![r] = IF rl[r].start THEN RlIdle ELSE [RlIdle EXCEPT !.pc = "record"]]
  /\ UNCHANGED <<outside, watched, ev, calls, relayDone, history>>

(* reloadConfigIfChanged reads the file once more and records its hash. *)
RlRecord(r) ==
  /\ Rl(r, "record")
  /\ cfgHash' = cfgDisk
  /\ rl' = [rl EXCEPT ![r] = RlIdle]
  /\ UNCHANGED <<outside, hash, current, runtime, removed, cfg, timer, ev, calls, relayDone,
                 channel, history>>

-----------------------------------------------------------------------------
(* Relay sessions: emitAuthUpdate and dispatchRuntimeAuthUpdate.  A session *)
(* makes one call when it is connected and one when it is closed, from two *)
(* goroutines.                                                             *)

RelayVersion == CHOOSE v \in Versions : TRUE

RelayCall(x, v) ==
  /\ v \notin relayDone[x] /\ ops < MaxOps
  /\ ops' = ops + 1
  /\ relayDone' = [relayDone EXCEPT ![x] = @ \cup {v}]
  /\ runtime' = [runtime EXCEPT ![x] = v]
  /\ current' = [current EXCEPT ![x] = v]
  /\ calls' = calls \cup {[id |-> x, val |-> v]}
  /\ Prepare({x}, { i \in Ids : CallHolds(i) \/ \E r \in Reloaders : RlHolds(r, i) })
  /\ UNCHANGED <<disk, cfgDisk, events, hash, removed, cfg, cfgHash, timer, ev, rl, channel,
                 stale, lostRemoval, raced>>

RelayDispatch(c) ==
  /\ c \in calls
  /\ Dispatch([i \in {c.id} |-> c.val])
  /\ calls' = calls \ {c}
  /\ UNCHANGED <<outside, watched, ev, rl, relayDone, history>>

-----------------------------------------------------------------------------
(* What every initial state has in common. *)
NothingGoesOn ==
  /\ disk \in [Files -> Versions \cup {0}]
  /\ cfgDisk \in [Keys -> Vals]
  /\ events = <<>>
  /\ runtime = [x \in Relays |-> 0]
  /\ removed = {} /\ cfg = cfgDisk /\ cfgHash = <<>> /\ timer = FALSE
  /\ ev = EvIdle
  /\ calls = {} /\ relayDone = [x \in Relays |-> {}]
  /\ pending = <<>> /\ batch = <<>> /\ queue = <<>>
  /\ crossed = {} /\ stale = {} /\ lostRemoval = {} /\ raced = FALSE

(* The watcher starts and knows nothing yet, but the manager has loaded    *)
(* the auth files already.  The start counts as one of the operations.     *)
Starting ==
  /\ ops = 1
  /\ hash = [f \in Files |-> 0] /\ current = [i \in Ids |-> 0]
  /\ rl = [r \in Reloaders |-> IF r = Starter THEN [RlIdle EXCEPT !.pc = "scan", !.start = TRUE]
                               ELSE RlIdle]
  /\ core = [i \in Ids |-> IF i \in Files THEN disk[i] ELSE 0]
  /\ orphans = { f \in Files : disk[f] # 0 }

(* The state a start with no interference leads to. *)
Settled ==
  /\ ops = 0
  /\ hash = disk
  /\ current = [i \in Ids |-> IF i \in Files THEN disk[i] ELSE IF i \in Keys THEN cfgDisk[i] ELSE 0]
  /\ rl = [r \in Reloaders |-> RlIdle]
  /\ core = current
  /\ orphans = {}

Init == NothingGoesOn /\ (Starting \/ Settled)

Environment ==
  \/ \E f \in Files, content \in Vals \cup {Partial} : ChangeFile(f, content)
  \/ \E c \in [Keys -> Vals] : ChangeConfig(c)

EventStep == EvTake \/ EvStat \/ EvCheck \/ EvApply \/ EvGone \/ EvDispatch

ReloadStep(r) ==
  \/ RlFire(r) \/ \E drop, force \in BOOLEAN : RlSet(r, drop, force)
  \/ RlDrop(r) \/ RlScan(r) \/ RlRefresh(r) \/ \E f \in Files : RlRead(r, f)
  \/ RlDiff(r) \/ RlDispatch(r) \/ RlRecord(r)

RelayStep == \/ \E x \in Relays, v \in {0, RelayVersion} : RelayCall(x, v)
             \/ \E c \in calls : RelayDispatch(c)

(* The event goroutine and the reloads have nothing to do. *)
Idle == ev = EvIdle /\ events = <<>> /\ \A r \in Reloaders : rl[r] = RlIdle

(* Every change was made and has gone all the way: nothing is left to do.  *)
(* Any other state without a step is a deadlock.                           *)
Finished ==
  /\ ops = MaxOps /\ Idle /\ ~timer
  /\ calls = {} /\ pending = <<>> /\ batch = <<>> /\ queue = <<>>
  /\ UNCHANGED vars

Next == \/ Environment \/ EventStep \/ RelayStep
        \/ \E r \in Reloaders : ReloadStep(r)
        \/ TakeBatch \/ Send \/ Consume \/ Finished

Spec == Init /\ [][Next]_vars

-----------------------------------------------------------------------------
(* Properties *)

(* A set of updates: the new version of some of the ids.                   *)
UpdateSets == UNION { [S -> Vals] : S \in SUBSET Ids }

(* Every variable holds what the code could hold there. *)
TypeOK ==
  /\ disk \in [Files -> Vals \cup {Partial}] /\ cfgDisk \in [Keys -> Vals] /\ ops \in Nat
  /\ events \in Seq([op : {"write", "remove"}, file : Files])
  /\ hash \in [Files -> Vals] /\ current \in [Ids -> Vals] /\ runtime \in [Relays -> Vals]
  /\ removed \subseteq Files /\ cfg \in [Keys -> Vals] /\ timer \in BOOLEAN
  /\ cfgHash \in [Keys -> Vals] \cup {<<>>}
  /\ ev \in [pc : {"idle", "sleep", "check", "gone", "apply", "dispatch"},
             file : Files \cup {Partial}, data : Vals \cup {Partial}, upds : UpdateSets]
  /\ rl \in [Reloaders ->
              [pc : {"idle", "set", "drop", "scan", "refresh", "snapshot", "dispatch", "record"},
               start : BOOLEAN, cfg : [Keys -> Vals] \cup {NoUpdates}, force : BOOLEAN,
               left : SUBSET Files, snap : UpdateSets, upds : UpdateSets]]
  /\ calls \subseteq [id : Relays, val : Vals]
  /\ \A q \in {pending, batch, queue} : q \in Seq([id : Ids, val : Vals])
  /\ Len(queue) <= QueueCap
  /\ core \in [Ids -> Vals]

OnItsWay(i) == \/ EvHolds(i) \/ CallHolds(i) \/ \E r \in Reloaders : RlHolds(r, i)
               \/ \E q \in {pending, batch, queue} : \E n \in DOMAIN q : q[n].id = i

(* Once the updates of a credential have arrived, the manager has the      *)
(* version the watcher believes it has.  Two things break that: two        *)
(* goroutines prepared updates of it one after the other and may have      *)
(* dispatched them the other way round; or the watcher changed its mind    *)
(* without an update: the load before start, and a credential of an        *)
(* affected provider that is gone when the diff is made.                   *)
CoreFollowsWatcher ==
  \A i \in Ids : OnItsWay(i) \/ i \in crossed \cup orphans \/ core[i] = current[i]

(* When nothing is going on any more, the watcher has what is in the auth  *)
(* directory.  What breaks that: a snapshot that was older than what the   *)
(* events had told already, or that saw a half written file, and a second  *)
(* removal within the debounce window.                                     *)
FilesCaughtUp ==
  Idle => \A f \in Files : \/ f \in stale \cup lostRemoval
                           \/ disk[f] = Partial
                           \/ current[f] = disk[f]

(* The same for the configuration, unless it changed once more while a     *)
(* reload was running, which may record the hash of a content it has not   *)
(* loaded, or a reload overtook another one.                               *)
ConfigCaughtUp ==
  Idle /\ ~timer => \A k \in Keys : raced \/ current[k] = cfgDisk[k]

(* A reload does not lose a relay credential that came or went while it    *)
(* took its snapshot: it merges the runtime credentials under the lock.    *)
RelaysKept ==
  \A x \in Relays : \/ current[x] = runtime[x]
                    \/ \E r \in Reloaders : rl[r].pc \in {"refresh", "snapshot"}

(* The values of the updates of i among the first n of the sequence s.     *)
UpdatesUpTo(s, i) ==
  LET upTo[n \in 0 .. Len(s)] ==
        IF n = 0 THEN <<>>
        ELSE IF s[n].id = i THEN Append(upTo[n - 1], s[n].val) ELSE upTo[n - 1]
  IN upTo

(* The values of the updates of i in the sequence s of updates.            *)
Updates(s, i) == UpdatesUpTo(s, i)[Len(s)]

(* What is on its way to i, oldest first. *)
updatesOf(i) ==
  Updates(queue \o batch \o pending, i)

Channel == INSTANCE CoalescingChannel WITH todo <- [i \in Ids |-> updatesOf(i)]

(* An update that the dispatcher has accepted reaches the manager, after   *)
(* the ones of the same credential that were accepted before it.           *)
DeliversInOrder == Channel!ChannelSpec
=============================================================================
