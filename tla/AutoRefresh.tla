----------------------------- MODULE AutoRefresh -----------------------------
(***************************************************************************)
(* The background refresh of tokens (sdk/cliproxy/auth): the loop of       *)
(* authAutoRefreshLoop with its heap of next checks, its workers and the   *)
(* channel between them, the manager's records they read and write, and    *)
(* the service, which registers, updates and disables records meanwhile.   *)
(*                                                                         *)
(* All times are ticks relative to the present; a time that is long past   *)
(* stays at -MaxLag.  The loop reads the clock once per turn: lag is how   *)
(* long ago that was, which is more than nothing only after it has waited  *)
(* for room in the channel of jobs.  Its other steps take no time that     *)
(* counts against backoffs of a minute and more.                           *)
(***************************************************************************)
EXTENDS Integers, Sequences, FiniteSets, FiniteSetsExt

CONSTANTS Auths,      \* credentials with a token that is refreshed
          Workers,    \* refreshMaxConcurrency, or auth-auto-refresh-workers
          JobCap,     \* capacity of the channel of jobs
          Interval,   \* the interval of the loop: 15 minutes by Service.Run
          Pending,    \* refreshPendingBackoff
          Failure,    \* refreshFailureBackoff
          Life,       \* bound: ticks from a refresh until the next is due
          MaxLag,     \* bound: ticks that the loop is held up by a full channel
          Managed,    \* bound: the ones that the service touches after the start
          MaxOps      \* bound on how often it does

ASSUME RefreshAssumption ==
  /\ Auths # {} /\ IsFiniteSet(Workers)
  /\ JobCap \in Nat \ {0} /\ MaxLag \in Nat /\ Life \in Nat /\ MaxOps \in Nat /\ Managed \subseteq Auths
  /\ Interval \in Nat \ {0} /\ Pending \in Nat /\ Failure \in Nat

None == "none"
Never == Interval + Pending + Failure + Life + MaxLag + 1   \* no entry, or no timer

VARIABLES
  auth,     \* auth[a]: the record of the manager
  heap,     \* heap[a]: the time of the next check, or Never
  dirty,    \* auths to be scheduled anew
  wake,     \* whether wakeCh holds a token
  jobs,     \* the channel of jobs
  timer,    \* when the timer fires, or Never
  loop,     \* the goroutine of the loop
  wk,       \* wk[w]: the worker w
  op,       \* the goroutine of the service
  wish,     \* wish[a]: whether the service wants a enabled, and what may thwart it
  excuse    \* excuse[a]: a second refresh may have begun while one is under way

vars == <<auth, heap, dirty, wake, jobs, timer, loop, wk, op, wish, excuse>>

(* How many refreshes of a are under way: with the loop, queued, or with a *)
(* worker.                                                                 *)
Holders(a) ==
  Cardinality({k \in DOMAIN jobs : jobs[k] = a})
  + Cardinality({w \in Workers : wk[w].pc = "call" /\ wk[w].auth = a})
  + (IF loop.cur = a /\ loop.pc = "send" THEN 1 ELSE 0)
Held(a) == Holders(a) > 0

(* What nextRefreshCheckAt returns for a record, with a clock read lag     *)
(* ticks ago: Never for one that is missing or disabled, else the end of   *)
(* a backoff, the time it is due, or now.                                  *)
NextCheck(r, lag) ==
  IF ~r.on THEN Never
  ELSE IF r.nra > -lag THEN r.nra
  ELSE Max({r.due, -lag})

(* The two steps of queueReschedule: the mark, and the token for the loop. *)
(* Before the loop is published there are none.                            *)
Marked(a) == IF loop.pc = "off" THEN dirty ELSE dirty \cup {a}
Awake == loop.pc # "off"

-----------------------------------------------------------------------------
(* The loop *)

loopElse == <<wk, op, wish>>

(* StartAutoRefresh publishes the loop, so that updates reach it... *)
Publish ==
  /\ loop.pc = "off"
  /\ loop' = [loop EXCEPT !.pc = "rebuild"]
  /\ UNCHANGED <<loopElse, auth, heap, dirty, wake, jobs, timer, excuse>>

(* ...reads all records under the lock of the manager... *)
RebuildRead ==
  /\ loop.pc = "rebuild"
  /\ loop' = [loop EXCEPT !.pc = "fill", !.read = [a \in Auths |-> NextCheck(auth[a], 0)]]
  /\ UNCHANGED <<loopElse, auth, heap, dirty, wake, jobs, timer, excuse>>

(* resetTimer: the wait until the earliest entry of the heap is computed   *)
(* with the clock that was read lag ticks ago, but begins at the present.  *)
ResetTimer(lag) ==
  LET next == Min({heap'[a] : a \in Auths}) IN
    timer' = IF next = Never THEN Never ELSE Max({next + lag, 0})

(* ...fills the heap under that of the loop, and starts it. *)
RebuildFill ==
  /\ loop.pc = "fill"
  /\ heap' = loop.read
  /\ ResetTimer(0)
  /\ loop' = [loop EXCEPT !.pc = "select", !.read = [a \in Auths |-> Never]]
  /\ UNCHANGED <<loopElse, auth, dirty, wake, jobs, excuse>>

(* select: a token in wakeCh. *)
LoopWakes ==
  /\ loop.pc = "select" /\ wake
  /\ wake' = FALSE
  /\ loop' = [loop EXCEPT !.pc = "drain"]
  /\ UNCHANGED <<loopElse, auth, heap, dirty, jobs, timer, excuse>>

(* select: the timer has fired; popDue takes what is due off the heap. *)
LoopDue ==
  /\ loop.pc = "select" /\ timer <= 0
  /\ loop' = [loop EXCEPT !.pc = "due", !.batch = {a \in Auths : heap[a] <= 0}]
  /\ heap' = [a \in Auths |-> IF heap[a] <= 0 THEN Never ELSE heap[a]]
  /\ timer' = Never
  /\ UNCHANGED <<loopElse, auth, dirty, wake, jobs, excuse>>

(* handleDueAuth decides with what it reads under one lock.  The time of   *)
(* expiry is compared with the present, the other times with the clock     *)
(* that was read before.                                                   *)
HandleDue(a) ==
  /\ loop.pc = "due" /\ a \in loop.batch
  /\ LET r == auth[a]  next == NextCheck(r, loop.lag) IN
       \E late \in {0, loop.lag} :
         IF r.on /\ r.nra <= -loop.lag /\ r.due <= -late
         THEN IF r.exec
              THEN /\ loop' = [loop EXCEPT !.pc = "pend", !.cur = a, !.batch = @ \ {a}]
                   /\ UNCHANGED heap
              ELSE /\ loop' = [loop EXCEPT !.batch = @ \ {a}]
                   /\ heap' = [heap EXCEPT ![a] = Interval - loop.lag]
         ELSE /\ loop' = [loop EXCEPT !.batch = @ \ {a}]
              /\ heap' = [heap EXCEPT ![a] = next]
  /\ UNCHANGED <<loopElse, auth, dirty, wake, jobs, timer, excuse>>

(* Mutant: the backoff of the attempt is not set. *)
MarkPendingForgets ==
  /\ loop.pc = "pend"
  /\ dirty' = dirty \cup {loop.cur} /\ wake' = TRUE
  /\ loop' = [loop EXCEPT !.pc = "send"]
  /\ UNCHANGED <<loopElse, auth, heap, excuse, jobs, timer>>

(* markRefreshPending looks again under the lock for writing.  The mark    *)
(* that it leaves for its own goroutine is seen in a later turn.           *)
MarkPending ==
  /\ loop.pc = "pend"
  /\ LET a == loop.cur  r == auth[a] IN
       IF r.on /\ r.nra <= -loop.lag
       THEN /\ auth' = [auth EXCEPT ![a].nra = Pending - loop.lag]
            /\ dirty' = dirty \cup {a} /\ wake' = TRUE
            /\ loop' = [loop EXCEPT !.pc = "send"]
            /\ excuse' = [excuse EXCEPT ![a] = @ \/ Pending <= loop.lag]
            /\ UNCHANGED heap
       ELSE /\ heap' = [heap EXCEPT ![a] = NextCheck(r, loop.lag)]
            /\ loop' = [loop EXCEPT !.pc = "due", !.cur = None]
            /\ UNCHANGED <<auth, dirty, wake, excuse>>
  /\ UNCHANGED <<loopElse, jobs, timer>>

(* Mutant: the job is sent whether there is room or not. *)
SendJobAnyway ==
  /\ loop.pc = "send"
  /\ jobs' = Append(jobs, loop.cur)
  /\ loop' = [loop EXCEPT !.pc = "due", !.cur = None]
  /\ UNCHANGED <<loopElse, auth, heap, dirty, wake, timer, excuse>>

(* The job is sent when there is room for it. *)
SendJob ==
  /\ loop.pc = "send" /\ Len(jobs) < JobCap
  /\ jobs' = Append(jobs, loop.cur)
  /\ loop' = [loop EXCEPT !.pc = "due", !.cur = None]
  /\ UNCHANGED <<loopElse, auth, heap, dirty, wake, timer, excuse>>

(* drainDirty, also when all due ones are handled. *)
DrainDirty ==
  /\ loop.pc = "drain" \/ (loop.pc = "due" /\ loop.batch = {})
  /\ loop' = [loop EXCEPT !.pc = "apply", !.batch = dirty]
  /\ dirty' = {}
  /\ UNCHANGED <<loopElse, auth, heap, wake, jobs, timer, excuse>>

(* Mutant: the timer is left as it was. *)
ApplyDirtyOnly ==
  /\ loop.pc = "apply"
  /\ IF loop.batch = {}
     THEN /\ loop' = [loop EXCEPT !.pc = "select", !.lag = 0]
          /\ UNCHANGED heap
     ELSE \E a \in loop.batch :
            /\ loop' = [loop EXCEPT !.batch = @ \ {a}]
            /\ heap' = [heap EXCEPT ![a] = NextCheck(auth[a], loop.lag)]
  /\ UNCHANGED <<loopElse, auth, dirty, wake, jobs, excuse, timer>>

(* applyDirty schedules them one by one; then the timer is set. *)
ApplyDirty ==
  /\ loop.pc = "apply"
  /\ IF loop.batch = {}
     THEN /\ loop' = [loop EXCEPT !.pc = "select", !.lag = 0]
          /\ UNCHANGED heap /\ ResetTimer(loop.lag)
     ELSE \E a \in loop.batch :
            /\ loop' = [loop EXCEPT !.batch = @ \ {a}]
            /\ heap' = [heap EXCEPT ![a] = NextCheck(auth[a], loop.lag)]
            /\ UNCHANGED timer
  /\ UNCHANGED <<loopElse, auth, dirty, wake, jobs, excuse>>

-----------------------------------------------------------------------------
(* A worker *)

Idle == [pc |-> "idle", auth |-> None, on |-> FALSE]

workElse == <<heap, timer, loop, op>>

(* refreshAuth reads the record and gives a clone of it to the executor.   *)
TakeJob(w) ==
  /\ wk[w].pc = "idle" /\ jobs # <<>>
  /\ jobs' = Tail(jobs)
  /\ LET a == Head(jobs) IN
       wk' = [wk EXCEPT ![w] = [pc |-> "call", auth |-> a, on |-> auth[a].on]]
  /\ UNCHANGED <<workElse, auth, dirty, wake, wish, excuse>>

(* The refresh has failed: the failure is noted in the record as it is now. *)
RefreshFails(w) ==
  /\ wk[w].pc = "call"
  /\ auth' = [auth EXCEPT ![wk[w].auth].nra = Failure]
  /\ wk' = [wk EXCEPT ![w].pc = "mark", ![w].on = FALSE]
  /\ excuse' = [excuse EXCEPT ![wk[w].auth] = Holders(wk[w].auth) > 1]
  /\ UNCHANGED <<workElse, dirty, wake, jobs, wish>>

(* Mutant: a credential with a new token is enabled. *)
RefreshEnables(w) ==
  /\ wk[w].pc = "call"
  /\ auth' = [auth EXCEPT ![wk[w].auth] = [@ EXCEPT !.on = TRUE, !.due = Life, !.nra = -MaxLag]]
  /\ wk' = [wk EXCEPT ![w].pc = "mark", ![w].on = FALSE]
  /\ excuse' = [excuse EXCEPT ![wk[w].auth] = Holders(wk[w].auth) > 1]
  /\ UNCHANGED <<workElse, dirty, wake, jobs, wish>>

(* It has succeeded: the clone with the new token replaces the record.     *)
(* (Without a refresh token the executors return the record as it is, and  *)
(* it is due again at once.)                                               *)
RefreshSucceeds(w) ==
  /\ wk[w].pc = "call"
  /\ \E due \in {auth[wk[w].auth].due, Life} :
       auth' = [auth EXCEPT ![wk[w].auth] = [@ EXCEPT !.on = wk[w].on, !.due = due, !.nra = -MaxLag]]
  /\ wk' = [wk EXCEPT ![w].pc = "mark", ![w].on = FALSE]
  /\ excuse' = [excuse EXCEPT ![wk[w].auth] = Holders(wk[w].auth) > 1]
  /\ UNCHANGED <<workElse, dirty, wake, jobs, wish>>

(* The record is scheduled anew.  Update and refreshAuth do that and then, *)
(* again, the worker; here it is done once.                                *)
WorkerMarks(w) ==
  /\ \/ /\ wk[w].pc = "mark"
        /\ dirty' = Marked(wk[w].auth) /\ UNCHANGED wake
        /\ wk' = [wk EXCEPT ![w] = [@ EXCEPT !.pc = "wake"]]
     \/ /\ wk[w].pc = "wake"
        /\ wake' = Awake /\ UNCHANGED dirty
        /\ wk' = [wk EXCEPT ![w] = Idle]
  /\ UNCHANGED <<workElse, auth, jobs, wish, excuse>>

-----------------------------------------------------------------------------
(* The service *)

(* A record that is not there. *)
Absent == [reg |-> FALSE, on |-> FALSE, exec |-> FALSE, due |-> -MaxLag, nra |-> -MaxLag]

opElse == <<heap, jobs, timer, loop, wk>>

(* applyCoreAuthAddOrUpdate, which first registers the executor of the     *)
(* provider, for the other credentials of that provider as well, and the   *)
(* removal read the record...                                              *)
OpRead(a) ==
  /\ op.pc = "idle" /\ op.count < MaxOps
  /\ \E on \in BOOLEAN, due \in {-MaxLag, Life}, others \in SUBSET Auths :
       LET r == auth[a]
           new == IF on THEN [reg |-> TRUE, on |-> TRUE, exec |-> TRUE, due |-> due,
                              nra |-> IF r.on THEN r.nra ELSE -MaxLag]
                  ELSE [r EXCEPT !.on = FALSE] IN
         /\ on \/ (r.reg /\ due = Life)
         /\ op' = [pc |-> "write", auth |-> a, new |-> new, count |-> op.count + 1]
         /\ auth' = [b \in Auths |-> [auth[b] EXCEPT !.exec = @ \/ (on /\ b \in others \cup {a})]]
  /\ UNCHANGED <<opElse, dirty, wake, wish, excuse>>

(* ...a file that the management API registers has no executor yet...      *)
OpRegister(a) ==
  /\ op.pc = "idle" /\ op.count < MaxOps /\ ~auth[a].reg
  /\ \E due \in {-MaxLag, Life} :
       op' = [pc |-> "write", auth |-> a, count |-> op.count + 1,
              new |-> [reg |-> TRUE, on |-> TRUE, exec |-> FALSE, due |-> due, nra |-> -MaxLag]]
  /\ UNCHANGED <<opElse, auth, dirty, wake, wish, excuse>>

(* ...and Register or Update puts the new one in its place.                *)
OpWrite ==
  /\ op.pc = "write"
  /\ LET a == op.auth IN
       /\ auth' = [auth EXCEPT ![a] = op.new]
       /\ wish' = [wish EXCEPT ![a] = [on |-> op.new.on,
                     torn |-> \E w \in Workers : wk[w].pc = "call" /\ wk[w].auth = a]]
       /\ excuse' = [excuse EXCEPT ![a] = @ \/ Held(a)]
  /\ op' = [op EXCEPT !.pc = "mark", !.new = Absent]
  /\ UNCHANGED <<opElse, dirty, wake>>

(* Mutant: the loop is woken before the mark is there. *)
OpMarksLate ==
  /\ \/ op.pc = "wake" /\ dirty' = Marked(op.auth) /\ UNCHANGED wake
     \/ op.pc = "mark" /\ wake' = Awake /\ UNCHANGED dirty
  /\ op' = IF op.pc = "mark" THEN [op EXCEPT !.pc = "wake"]
           ELSE [op EXCEPT !.pc = "idle", !.auth = None]
  /\ UNCHANGED <<opElse, auth, wish, excuse>>

(* queueReschedule. *)
OpMarks ==
  /\ \/ op.pc = "mark" /\ dirty' = Marked(op.auth) /\ UNCHANGED wake
     \/ op.pc = "wake" /\ wake' = Awake /\ UNCHANGED dirty
  /\ op' = IF op.pc = "mark" THEN [op EXCEPT !.pc = "wake"]
           ELSE [op EXCEPT !.pc = "idle", !.auth = None]
  /\ UNCHANGED <<opElse, auth, wish, excuse>>

-----------------------------------------------------------------------------
(* Time passes while every goroutine waits: the loop in its select or for  *)
(* room in the channel, a worker for a job or an answer, and the service   *)
(* for something to do.                                                    *)
LoopWaits ==
  \/ loop.pc = "off"
  \/ loop.pc = "select" /\ ~wake /\ timer > 0
  \/ loop.pc = "send" /\ Len(jobs) = JobCap /\ loop.lag < MaxLag
WorkerWaits(w) == wk[w].pc = "call" \/ (wk[w].pc = "idle" /\ jobs = <<>>)

(* Unless the loop has read the clock before, all times that are past are  *)
(* alike.                                                                  *)
Sooner(t, past) == IF t > 1 \/ loop.pc = "send" THEN Max({t - 1, -MaxLag}) ELSE past

Tick ==
  /\ LoopWaits /\ (\A w \in Workers : WorkerWaits(w)) /\ op.pc = "idle"
  /\ auth' = [a \in Auths |-> [auth[a] EXCEPT !.due = Sooner(@, -MaxLag), !.nra = Sooner(@, -MaxLag)]]
  /\ heap' = [a \in Auths |-> IF heap[a] = Never THEN Never ELSE Sooner(heap[a], 0)]
  /\ timer' = IF timer = Never THEN Never ELSE Max({timer - 1, 0})
  /\ loop' = [loop EXCEPT !.lag = IF loop.pc = "send" THEN @ + 1 ELSE @]
  /\ excuse' = [a \in Auths |-> excuse[a] \/ (Held(a) /\ auth[a].nra = 1)]
  /\ UNCHANGED <<dirty, wake, jobs, wk, op, wish>>

(* A credential that the service has loaded. *)
Loaded(due) == [reg |-> TRUE, on |-> TRUE, exec |-> TRUE, due |-> due, nra |-> -MaxLag]

(* The credentials that are there at start have been loaded before. *)
Init ==
  /\ auth \in [Auths -> {Absent, Loaded(-MaxLag), Loaded(Life)}]
  /\ \A a \in Auths \ Managed : auth[a] = Loaded(-MaxLag)
  /\ heap = [a \in Auths |-> Never]
  /\ dirty = {} /\ wake = FALSE /\ jobs = <<>> /\ timer = Never
  /\ loop = [pc |-> "off", batch |-> {}, cur |-> None, lag |-> 0,
             read |-> [a \in Auths |-> Never]]
  /\ wk = [w \in Workers |-> Idle]
  /\ op = [pc |-> "idle", auth |-> None, new |-> Absent, count |-> 0]
  /\ wish = [a \in Auths |-> [on |-> auth[a].on, torn |-> FALSE]]
  /\ excuse = [a \in Auths |-> FALSE]

LoopStep ==
  \/ Publish \/ RebuildRead \/ RebuildFill \/ LoopWakes \/ LoopDue
  \/ (\E a \in Auths : HandleDue(a))
  \/ MarkPending \/ SendJob \/ DrainDirty \/ ApplyDirty
WorkerStep(w) == TakeJob(w) \/ RefreshFails(w) \/ RefreshSucceeds(w) \/ WorkerMarks(w)
OpStep == (\E a \in Managed : OpRead(a) \/ OpRegister(a)) \/ OpWrite \/ OpMarks

Next == LoopStep \/ (\E w \in Workers : WorkerStep(w)) \/ OpStep \/ Tick

(* The goroutines go on; a refresh need not return, since most executors   *)
(* set no timeout.  select takes a ready branch at random, so that it      *)
(* cannot pass over one of them for ever.  Time passes: again and again    *)
(* everybody waits, and that takes a while.                                *)
Quiet ==
  /\ LoopWaits \/ (loop.pc = "send" /\ Len(jobs) = JobCap)
  /\ (\A w \in Workers : WorkerWaits(w)) /\ op.pc = "idle"

Spec ==
  /\ Init /\ [][Next]_vars
  /\ WF_vars(LoopStep) /\ SF_vars(LoopDue)
  /\ \A w \in Workers : WF_vars(wk[w].pc # "call" /\ WorkerStep(w))
  /\ WF_vars(OpWrite \/ OpMarks) /\ []<>Quiet /\ SF_vars(Tick)

-----------------------------------------------------------------------------
(* Properties *)

Times == -MaxLag..Max({Interval, Pending, Failure, Life})

(* Every variable holds what the code could hold there. *)
TypeOK ==
  /\ \A a \in Auths : /\ auth[a].due \in Times /\ auth[a].nra \in Times
                      /\ auth[a].on => auth[a].reg
                      /\ heap[a] \in Times \cup {Never}
  /\ dirty \subseteq Auths /\ wake \in BOOLEAN /\ timer \in 0..Max(Times) + MaxLag \cup {Never}
  /\ Len(jobs) <= JobCap /\ loop.batch \subseteq Auths /\ loop.lag \in 0..MaxLag
  /\ loop.pc \in {"off", "rebuild", "fill", "select", "due", "pend", "send", "drain",
                  "apply"}
  /\ \A w \in Workers : wk[w].pc \in {"idle", "call", "mark", "wake"}
  /\ op.pc \in {"idle", "write", "mark", "wake"}

(* Whoever is about to mark a, or to wake the loop behind a mark. *)
ToMark(a) == \/ op.pc = "mark" /\ op.auth = a
             \/ \E w \in Workers : wk[w].pc = "mark" /\ wk[w].auth = a
ToWake == op.pc = "wake" \/ \E w \in Workers : wk[w].pc = "wake"

(* While the loop sleeps, a mark is never left without a token or someone  *)
(* about to leave one; and what is not marked, or about to be, is in the   *)
(* heap for the time it has to be looked at, with the timer set for it.    *)
(* The time is that of its record, or Interval, 15 minutes in the program, *)
(* for one whose provider had no executor when it was due.  That holds     *)
(* from the first rebuild on, whatever the workers and the service write   *)
(* while the loop is at work.                                              *)
SleepIsSafe ==
  loop.pc = "select" =>
    /\ dirty # {} => wake \/ ToWake
    /\ \A a \in Auths \ dirty : ~ToMark(a) =>
         IF auth[a].on
         THEN /\ heap[a] <= Max({NextCheck(auth[a], 0), Interval})
              /\ timer <= Max({heap[a], 0}) + MaxLag
         ELSE heap[a] = Never

(* Two refreshes of one credential are queued or running at a time only    *)
(* if the backoff that the first one set has run out, or its record was    *)
(* replaced by the service, which carries over the backoff of a record it  *)
(* has read before.                                                        *)
OverlapExplained ==
  \A a \in Auths : Holders(a) > 1 => excuse[a]

(* A credential is enabled or disabled as the service has wanted it last,  *)
(* unless it was changed during a refresh: the clone that the refresh      *)
(* stores undoes the change, and the credential may be enabled again.      *)
ChangesStick ==
  \A a \in Auths : auth[a].on # wish[a].on => wish[a].torn

(* A credential whose refresh is due is refreshed, or the attempt queued,  *)
(* or it is disabled or renewed by someone else: no update, restart of the *)
(* heap, full channel or busy worker makes the loop forget it.  Only when  *)
(* every worker is with a refresh that does not return may one wait for    *)
(* ever.                                                                   *)
AllStuck == [](\A w \in Workers : wk[w].pc = "call")

DueIsAttempted ==
  \A a \in Auths :
    (auth[a].on /\ auth[a].exec /\ auth[a].due <= 0) ~>
      (Held(a) \/ ~auth[a].on \/ auth[a].due > 0 \/ AllStuck)
=============================================================================
