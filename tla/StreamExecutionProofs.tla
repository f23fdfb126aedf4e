------------------------ MODULE StreamExecutionProofs ------------------------
(***************************************************************************)
(* Theorems of StreamExecution for any number of credentials, models,      *)
(* retries, attempts and chunks.                                           *)
(***************************************************************************)
EXTENDS StreamExecution, SequenceTheorems, TLAPS

(* Types *)

Chunks == [kind : {"data"}, att : Nat, num : Nat]
Failures == [kind : {"err"}, err : Errors]
Items == {Nothing, Empty} \cup Failures \cup Chunks
Sources == {Nothing} \cup [kind : {"att"}, att : Nat] \cup [kind : {"errstream"}, err : Errors]
Results == Failures \cup {[kind |-> "response"]} \cup [kind : {"att"}, att : Nat]
           \cup [kind : {"errstream"}, err : Errors]
Attempt == [prod : {"read", "send", "ended"}, item : Items, sent : 0..MaxChunks,
            upstream : {"open", "complete", "failed", "aborted"},
            reader : {"boot", "wrap", "discard", "done"}, buffered : Seq(Items), cur : Items,
            failed : BOOLEAN, good : Nat, bad : Nat]
CallType == [pc : {"idle", "pick", "exec", "boot", "wait"}, round : 0..RequestRetry,
             tried : 0..NumAuths, attempted : 0..NumAuths, left : 0..PoolSize,
             lastErr : {Nothing} \cup Failures, boot : BOOLEAN]
HandlerType == [pc : {"none", "read", "retry", "senddata", "senderr", "close", "closeData", "done"},
                src : Sources, sent : BOOLEAN, retries : 0..BootstrapRetries, item : Items]
WriterType == [pc : {"call", "peek", "forward", "done"}, outcome : {"none", "ok", "error", "gone"}]

Flags == streaming \in BOOLEAN /\ gone \in BOOLEAN /\ cancelled \in BOOLEAN /\ dataClosed \in BOOLEAN

Rest ==
  /\ Flags
  /\ call \in CallType /\ call.attempted <= call.tried
  /\ h \in HandlerType /\ h.item.kind # "empty"
  /\ errChan \in [content : {Nothing} \cup Failures, closed : BOOLEAN]
  /\ w \in WriterType
  /\ delivered \in Seq(Chunks)

Types == Rest /\ att \in Seq(Attempt)

(* Which goroutine is at work: a run of Execute is for the writer, or for  *)
(* the handler's retry; before the first one has returned there is no      *)
(* handler goroutine, and without streaming there never is one.            *)
Control ==
  /\ call.pc # "idle" => /\ h.pc \in {"none", "retry"} /\ ~h.sent
                         /\ h.pc = "none" => w.pc = "call"
  /\ h.pc = "retry" => call.pc # "idle"
  /\ h.pc # "none" => w.pc # "call" /\ streaming
  /\ h.pc = "none" => ~dataClosed /\ ~h.sent
  /\ dataClosed => h.pc = "done"
  /\ ~h.sent => delivered = <<>> /\ h.pc # "senddata"
  /\ h.pc = "read" => h.src.kind \in {"att", "errstream"}
  /\ h.pc = "read" /\ h.src.kind = "errstream" => ~h.sent
  /\ h.pc = "senddata" => h.src.kind = "att" /\ h.item.kind = "data"
  /\ h.pc = "senderr" => h.item.kind = "err"
  /\ ~streaming => w.pc \in {"call", "done"}
  /\ w.pc = "done" <=> w.outcome # "none"
  /\ ~gone /\ w.pc # "done" => ~cancelled
  /\ w.pc = "peek" => delivered = <<>>
  /\ w.pc = "forward" => delivered # <<>>
  /\ (call.pc = "boot" \/ call.boot) => streaming
  /\ call.pc = "wait" => call.round < RequestRetry

(* What an attempt may look like: One is 1 for a chunk with data, Held for *)
(* the one that the bootstrap has buffered.                                *)
One(x) == IF x.kind = "data" THEN 1 ELSE 0
First(n) == {<<Data(n, 1)>>, <<Empty, Data(n, 1)>>}
NoData == {<<>>, <<Empty>>}
Held(a, n) == IF a.buffered \in First(n) THEN 1 ELSE 0

InBootstrap(a) ==
  /\ ~a.failed /\ a.good = 0 /\ a.bad = 0 /\ a.buffered \in NoData
  /\ a.item = Empty => a.buffered = <<>>
  /\ a.sent = One(a.item)
  /\ a.prod = "ended" => a.upstream \in {"complete", "aborted"}

InWrapper(a, n) ==
  /\ a.good = 0 /\ a.bad = IF a.failed THEN 1 ELSE 0
  /\ a.buffered \in NoData \cup First(n)
  /\ a.item # Empty
  /\ a.failed => /\ a.prod = "ended" /\ a.buffered = <<>>
                 /\ a.upstream \in {"failed", "aborted"}
  /\ a.prod = "ended" /\ ~a.failed => a.upstream \in {"complete", "aborted"}
  /\ a.cur.kind = "err" => a.failed
  /\ a.cur.kind = "data" => /\ a.cur.att = n /\ a.cur.num = a.sent - One(a.item)
                            /\ Held(a, n) = 0
  /\ Held(a, n) = 1 => a.sent = 1 + One(a.item)

Discarded(a) ==
  /\ a.good = 0 /\ a.bad <= 1
  /\ a.bad = 1 => a.prod = "ended" /\ a.upstream \in {"failed", "aborted"}

Ended(a) ==
  /\ a.prod = "ended" /\ a.good + a.bad <= 1
  /\ a.good = 1 => a.upstream \in {"complete", "aborted"}
  /\ a.bad = 1 => \/ a.upstream \in {"failed", "aborted"}
                  \/ a.upstream = "complete" /\ a.sent = 0

Sound(a, n) ==
  /\ a.prod = "send" <=> a.item # Nothing
  /\ a.item.kind = "data" => a.item.att = n /\ a.item.num = a.sent /\ a.sent > 0
  /\ a.item.kind = "err" => a.upstream \in {"failed", "aborted"}
  /\ a.cur # Nothing => a.reader = "wrap"
  /\ a.reader = "boot" => InBootstrap(a)
  /\ a.reader = "wrap" => InWrapper(a, n)
  /\ a.reader = "discard" => Discarded(a)
  /\ a.reader = "done" => Ended(a)

Attempts ==
  /\ \A n \in DOMAIN att : Sound(att[n], n)
  /\ \A n \in DOMAIN att : att[n].reader = "boot" => n = Latest /\ call.pc = "boot"
  /\ call.pc = "boot" => Latest \in DOMAIN att /\ att[Latest].reader = "boot"

(* Only the cancellation of the request cuts a stream short.               *)
Uncut == ~cancelled => \A n \in DOMAIN att : att[n].upstream # "aborted"

(* The handler follows the latest attempt: what has been delivered, what   *)
(* it holds, and what is still in the chain are all that was sent, in      *)
(* order.                                                                  *)
Reads == h.pc \in {"read", "senddata"} /\ h.src.kind = "att"
Passed == Len(delivered) + (IF h.pc = "senddata" THEN 1 ELSE 0)

Position(a, n) ==
  /\ a.reader = "wrap" => /\ a.sent = Passed + One(a.cur) + Held(a, n) + One(a.item)
                          /\ a.failed => a.cur.kind = "err"
  /\ a.reader # "boot"
  /\ ~cancelled => a.reader = "wrap" \/ (a.reader = "done" /\ a.sent = Passed /\ a.good = 1)

Follows ==
  /\ Reads => /\ h.src.att = Latest /\ Latest \in DOMAIN att
              /\ \A k \in DOMAIN delivered : delivered[k] = Data(Latest, k)
              /\ h.pc = "senddata" => h.item = Data(Latest, Passed)
              /\ Position(att[Latest], Latest)
  /\ OneAttemptDelivered

(* What the handler ended with, unless it was told to: everything was      *)
(* delivered, or an error is waiting for the writer.                       *)
Whole == /\ h.src.kind = "att" /\ h.src.att = Latest /\ Latest \in DOMAIN att
         /\ att[Latest].reader = "done" /\ att[Latest].good = 1
         /\ att[Latest].upstream = "complete"
         /\ Len(delivered) = att[Latest].sent
         /\ \A k \in DOMAIN delivered : delivered[k] = Data(Latest, k)
Pending == errChan.content # Nothing
Over == streaming /\ ~gone /\ w.outcome = "ok"

(* An attempt whose wrapper is at work for nobody has failed. *)
Owned(n) == h.pc \notin {"none", "retry"} /\ h.src.kind = "att" /\ h.src.att = n
RecordedAt(a, n) ==
  /\ a.reader \in {"discard", "done"} => a.good + a.bad = 1
  /\ a.reader = "wrap" /\ ~a.failed => ~cancelled /\ Owned(n)
Recorded == \A n \in DOMAIN att : RecordedAt(att[n], n)

Marks ==
  /\ ~cancelled /\ h.pc \in {"close", "closeData", "done"} => Pending \/ Whole
  /\ Over => h.pc = "done" /\ (IF delivered = <<>> THEN Pending \/ Whole ELSE Whole)
  /\ ~cancelled => Recorded
  /\ Over /\ delivered # <<>> => Recorded
  /\ ~streaming /\ ~gone /\ w.outcome = "ok" => Recorded

-----------------------------------------------------------------------------
(* The control: which goroutines are at work *)

(* The kinds of what goes through the channels.                            *)
LEMMA Kinds ==
  /\ \A x \in Items : x.kind \in {"nothing", "empty", "err", "data"}
  /\ \A x \in Items : /\ x.kind = "nothing" <=> x = Nothing
                      /\ x.kind = "empty" <=> x = Empty
                      /\ x.kind = "err" <=> x \in Failures
                      /\ x.kind = "data" <=> x \in Chunks
  /\ \A e \in Errors : Err(e) \in Failures /\ Err(e).kind = "err" /\ Err(e).err = e
  /\ \A x \in Failures : x = Err(x.err) /\ x.err \in Errors
  /\ \A n, k \in Nat : Data(n, k) \in Chunks
  /\ \A x \in Chunks : x = Data(x.att, x.num)
  /\ Nothing.kind = "nothing" /\ Empty.kind = "empty"
  BY DEF Items, Failures, Chunks, Nothing, Empty, Err, Data

(* A run that has not begun yet, and a new round.                          *)
LEMMA FreshCalls ==
  /\ NoCall \in CallType /\ NoCall.pc = "idle" /\ NoCall.attempted <= NoCall.tried
  /\ ~NoCall.boot
  /\ \A k \in 0..RequestRetry : /\ Round(k) \in CallType /\ Round(k).pc = "pick"
                                /\ Round(k).attempted <= Round(k).tried /\ ~Round(k).boot
<1>1. 0 \in 0..RequestRetry /\ 0 \in 0..NumAuths /\ 0 \in 0..PoolSize
  BY StreamAssumption
<1>2. ASSUME NEW k \in 0..RequestRetry
      PROVE  /\ Round(k) \in CallType /\ Round(k).pc = "pick"
             /\ Round(k).attempted <= Round(k).tried /\ ~Round(k).boot
  BY <1>1 DEF Round, CallType
<1>3. [Round(0) EXCEPT !.pc = "idle"].attempted = Round(0).attempted
      /\ [Round(0) EXCEPT !.pc = "idle"].tried = Round(0).tried
      /\ [Round(0) EXCEPT !.pc = "idle"].boot = Round(0).boot
  BY DEF Round
<1>4. [Round(0) EXCEPT !.pc = "idle"] \in CallType /\ [Round(0) EXCEPT !.pc = "idle"].pc = "idle"
  BY <1>1, <1>2 DEF CallType
<1> QED
  BY <1>1, <1>2, <1>3, <1>4 DEF NoCall

(* What Return does to the goroutines.                                     *)
LEMMA ReturnDoes ==
  ASSUME Rest, Control, call.pc # "idle", NEW res \in Results,
         res.kind = "response" => ~streaming, Return(res), UNCHANGED callElse
  PROVE  /\ Rest' /\ Control'
         /\ call'.pc = "idle" /\ h'.pc \in {"none", "read", "senderr"}
         /\ h'.pc = "read" => h'.src = res
         /\ res.kind = "err" => h'.pc # "read" /\ (~streaming => w'.outcome # "ok")
         /\ streaming => w'.outcome = w.outcome /\ cancelled' = cancelled
         /\ h'.pc # "none" => streaming
         /\ cancelled => cancelled'
<1>1. call' = NoCall /\ NoCall \in CallType /\ NoCall.pc = "idle" /\ NoCall.attempted <= NoCall.tried
      /\ ~NoCall.boot
  BY FreshCalls DEF Return
<1>2. h \in HandlerType /\ w \in WriterType /\ errChan \in [content : {Nothing} \cup Failures, closed : BOOLEAN]
  BY DEF Rest
<1>3. UNCHANGED <<streaming, dataClosed, delivered, gone>>
  BY DEF callElse
<1>4. CASE h.pc = "retry"
  <2>1. /\ h' = IF res.kind = "err" THEN [h EXCEPT !.pc = "senderr", !.item = res]
                ELSE [h EXCEPT !.pc = "read", !.src = res]
        /\ UNCHANGED <<w, errChan, cancelled>> /\ streaming
    BY <1>4 DEF Return, Control
  <2>2. /\ h'.sent = h.sent /\ h'.retries = h.retries
        /\ res.kind = "err" => h'.pc = "senderr" /\ h'.item = res
        /\ res.kind # "err" => h'.pc = "read" /\ h'.src = res /\ h'.item = h.item
    BY <1>2, <2>1 DEF HandlerType
  <2>3. res.kind = "err" => res \in Items
    BY DEF Results, Items
  <2>4. res.kind # "err" => res \in Sources /\ res.kind \in {"att", "errstream"}
    BY <2>1 DEF Results, Sources, Failures
  <2>5. h' \in HandlerType /\ h'.item.kind # "empty"
    BY <1>2, <2>1, <2>2, <2>3, <2>4 DEF HandlerType, Rest
  <2> QED
    BY <1>1, <1>2, <1>3, <1>4, <2>1, <2>2, <2>4, <2>5 DEF Rest, Flags, Control
<1>5. CASE h.pc # "retry" /\ streaming
  <2>1. /\ h.pc = "none" /\ w.pc = "call" /\ w' = [w EXCEPT !.pc = "peek"] /\ UNCHANGED cancelled
        /\ IF res.kind = "err" THEN errChan' = [content |-> res, closed |-> TRUE] /\ UNCHANGED h
           ELSE h' = [h EXCEPT !.pc = "read", !.src = res] /\ UNCHANGED errChan
    BY <1>5 DEF Return, Control
  <2>2. w' \in WriterType /\ w'.pc = "peek" /\ w'.outcome = w.outcome
    BY <1>2, <2>1 DEF WriterType
  <2>3. res.kind = "err" => res \in {Nothing} \cup Failures
    BY DEF Results
  <2>4. res.kind # "err" => res \in Sources /\ res.kind \in {"att", "errstream"}
    BY <1>5 DEF Results, Sources, Failures
  <2>5. res.kind # "err" => h' \in HandlerType /\ h'.pc = "read" /\ h'.src = res
                            /\ h'.sent = h.sent /\ h'.item = h.item
    BY <1>2, <2>1, <2>4 DEF HandlerType
  <2>6. errChan' \in [content : {Nothing} \cup Failures, closed : BOOLEAN]
    <3>1. CASE res.kind = "err"
      <4>1. errChan' = [content |-> res, closed |-> TRUE] /\ res \in {Nothing} \cup Failures
        BY <2>1, <2>3, <3>1
      <4> QED
        BY <4>1
    <3>2. CASE res.kind # "err"
      BY <1>2, <2>1, <3>2
    <3> QED
      BY <3>1, <3>2
  <2> QED
    BY <1>1, <1>2, <1>3, <1>5, <2>1, <2>2, <2>3, <2>4, <2>5, <2>6 DEF Rest, Flags, Control
<1>6. CASE ~streaming
  <2>1. /\ h.pc = "none" /\ w.pc = "call" /\ UNCHANGED <<h, errChan>> /\ cancelled' = TRUE
        /\ w' = [w EXCEPT !.pc = "done", !.outcome = IF res.kind = "err" THEN "error" ELSE "ok"]
    BY <1>6 DEF Return, Control
  <2>2. w' \in WriterType /\ w'.pc = "done" /\ w'.outcome = IF res.kind = "err" THEN "error" ELSE "ok"
    BY <1>2, <2>1 DEF WriterType
  <2>3. Rest'
    BY <1>1, <1>2, <1>3, <1>6, <2>1, <2>2 DEF Rest, Flags
  <2>4. Control'
    BY <1>1, <1>3, <1>6, <2>1, <2>2 DEF Control
  <2>5. h'.pc = "none" /\ call'.pc = "idle" /\ (cancelled => cancelled')
    BY <1>1, <2>1
  <2>6. res.kind = "err" => w'.outcome # "ok"
    BY <2>2
  <2> QED
    BY <1>6, <2>3, <2>4, <2>5, <2>6
<1> QED
  BY <1>4, <1>5, <1>6 DEF Rest, Flags

(* What a step of a run leaves of the others, unless it hands over the     *)
(* stream of an attempt or the response.                                   *)
Onward ==
  /\ h'.pc \in {"none", "retry", "senderr", "read"}
  /\ h'.pc = "read" => h'.src.kind = "errstream"
  /\ h'.pc # "none" => streaming
  /\ streaming => w'.outcome = w.outcome /\ cancelled' = cancelled
  /\ ~streaming => w'.outcome # "ok"
  /\ cancelled => cancelled'

(* A run that returns an error, or the error as a stream.                  *)
LEMMA ReturnsError ==
  ASSUME Rest, Control, call.pc # "idle", NEW res \in Results,
         \/ res.kind = "err"
         \/ res.kind = "errstream" /\ streaming,
         Return(res), UNCHANGED callElse
  PROVE  Rest' /\ Control' /\ Onward /\ call'.pc = "idle"
<1>1. res.kind # "response"
  OBVIOUS
<1>2. /\ Rest' /\ Control' /\ call'.pc = "idle" /\ h'.pc \in {"none", "read", "senderr"}
      /\ h'.pc = "read" => h'.src = res
      /\ res.kind = "err" => h'.pc # "read" /\ (~streaming => w'.outcome # "ok")
      /\ streaming => w'.outcome = w.outcome /\ cancelled' = cancelled
      /\ h'.pc # "none" => streaming
      /\ cancelled => cancelled'
  BY <1>1, ReturnDoes
<1>3. ~streaming => w'.outcome # "ok"
  BY <1>2
<1> QED
  BY <1>2, <1>3 DEF Onward

(* Nobody has got a response before a run returns.                         *)
LEMMA NoResponseYet ==
  ASSUME Control, call.pc # "idle"
  PROVE  /\ h.pc \in {"none", "retry"} /\ ~h.sent
         /\ h.pc # "none" => streaming
         /\ ~streaming => w.outcome = "none"
  BY DEF Control

(* A run that stays with itself: only its counters change.                 *)
LEMMA CallMoves ==
  ASSUME Rest, Control, call.pc # "idle", NEW c \in CallType, c.attempted <= c.tried,
         c.pc \in {"pick", "exec", "wait"} \/ (c.pc = "boot" /\ streaming),
         c.boot => streaming, c.pc = "wait" => c.round < RequestRetry,
         call' = c, UNCHANGED callElse, UNCHANGED <<h, w, errChan, cancelled>>
  PROVE  Rest' /\ Control' /\ Onward
<1>1. Rest'
  BY DEF Rest, Flags, callElse
<1>2. Control'
  BY DEF Control, callElse
<1>3. /\ h'.pc = h.pc /\ w'.outcome = w.outcome /\ cancelled' = cancelled
  OBVIOUS
<1>4. ~streaming => w'.outcome # "ok"
  BY <1>3, NoResponseYet
<1>5. h'.pc \in {"none", "retry"} /\ (h'.pc # "none" => streaming)
  BY <1>3, NoResponseYet
<1> QED
  BY <1>1, <1>2, <1>3, <1>4, <1>5 DEF Onward

(* The same where a round has failed.                                      *)
LEMMA RoundFailsDoes ==
  ASSUME Rest, Control, call.pc # "idle", NEW e \in Errors, RoundFails(e), UNCHANGED callElse
  PROVE  Rest' /\ Control' /\ Onward /\ call'.pc \in {"idle", "wait"}
<1>1. CASE Return(Err(e))
  <2>1. Err(e) \in Results /\ Err(e).kind = "err"
    BY Kinds DEF Results
  <2> QED
    BY <1>1, <2>1, ReturnsError
<1>2. CASE /\ e # "invalid" /\ call.round < RequestRetry
           /\ call' = [call EXCEPT !.pc = "wait"]
           /\ UNCHANGED <<h, w, errChan, cancelled>>
  <2>1. call \in CallType /\ call.attempted <= call.tried
    BY DEF Rest
  <2>2. [call EXCEPT !.pc = "wait"] \in CallType
        /\ [call EXCEPT !.pc = "wait"].pc = "wait"
        /\ [call EXCEPT !.pc = "wait"].attempted <= [call EXCEPT !.pc = "wait"].tried
        /\ [call EXCEPT !.pc = "wait"].boot = call.boot
        /\ [call EXCEPT !.pc = "wait"].round = call.round
    BY <2>1 DEF CallType
  <2>3. call.boot => streaming
    BY DEF Control
  <2> QED
    BY <1>2, <2>2, <2>3, CallMoves
<1> QED
  BY <1>1, <1>2 DEF RoundFails

LEMMA NextAttemptDoes ==
  ASSUME Rest, Control, call.pc # "idle", NEW e \in Errors, NEW boot \in BOOLEAN, boot => streaming,
         NextAttempt(e, boot), UNCHANGED callElse
  PROVE  Rest' /\ Control' /\ Onward /\ call'.pc \in {"idle", "wait", "exec", "pick"}
<1>1. CASE e = "invalid"
  BY <1>1, RoundFailsDoes DEF NextAttempt
<1>2. CASE e # "invalid"
  <2>1. call \in CallType /\ call.attempted <= call.tried /\ call.left \in Nat
    BY StreamAssumption DEF Rest, CallType
  <2>2. CASE call.left > 0
    <3> DEFINE c == [call EXCEPT !.pc = "exec", !.left = call.left - 1]
    <3>1. call.left - 1 \in 0..PoolSize
      BY <2>1, <2>2, StreamAssumption DEF CallType
    <3>2. c \in CallType /\ c.pc = "exec" /\ c.attempted <= c.tried /\ c.boot = call.boot
      BY <2>1, <3>1 DEF CallType
    <3>4. call.boot => streaming
      BY DEF Control
    <3>3. call' = c /\ UNCHANGED <<h, w, errChan, cancelled>>
      BY <1>2, <2>2 DEF NextAttempt
    <3> HIDE DEF c
    <3> QED
      BY <3>2, <3>3, <3>4, CallMoves
  <2>3. CASE ~(call.left > 0)
    <3> DEFINE c == [call EXCEPT !.pc = "pick", !.lastErr = Err(e), !.boot = boot]
    <3>1. c \in CallType /\ c.pc = "pick" /\ c.attempted <= c.tried /\ c.boot = boot
      BY <2>1, Kinds DEF CallType
    <3>2. call' = c /\ UNCHANGED <<h, w, errChan, cancelled>>
      BY <1>2, <2>3 DEF NextAttempt
    <3> HIDE DEF c
    <3> QED
      BY <3>1, <3>2, CallMoves
  <2> QED
    BY <2>2, <2>3
<1> QED
  BY <1>1, <1>2

(* Steps of a run that concern no attempt.                                 *)
LEMMA CallStill ==
  ASSUME Rest, Control, CallPick \/ CallExhausted \/ CallCancelled \/ CallWait, Len(att) \in Nat
  PROVE  /\ Rest' /\ Control' /\ Onward /\ att' = att
         /\ call.pc \notin {"idle", "boot"} /\ call'.pc # "boot"
<1>1. /\ att' = att /\ UNCHANGED callElse /\ call.pc \in {"pick", "wait"}
      /\ call \in CallType /\ call.attempted <= call.tried /\ (call.boot => streaming)
  BY DEF CallPick, CallExhausted, CallCancelled, CallWait, Rest, Control
<1>2. CASE CallPick
  <2>1. PICK models \in 0..Min({PoolSize, MaxAttempts - Len(att)}) :
          call' = IF models = 0 THEN [call EXCEPT !.tried = @ + 1]
                  ELSE [call EXCEPT !.pc = "exec", !.tried = @ + 1, !.attempted = @ + 1,
                                    !.left = models - 1]
    BY <1>2 DEF CallPick
  <2>2. Min({PoolSize, MaxAttempts - Len(att)}) <= PoolSize
        /\ Min({PoolSize, MaxAttempts - Len(att)}) \in Int
    <3> DEFINE S == {PoolSize, MaxAttempts - Len(att)}
    <3>1. PoolSize \in Int /\ MaxAttempts - Len(att) \in Int
      BY StreamAssumption
    <3>2. \E x \in S : \A y \in S : x <= y
      BY <3>1
    <3>3. Min(S) \in S /\ \A y \in S : Min(S) <= y
      BY <3>2 DEF Min
    <3> QED
      BY <3>1, <3>3
  <2>3. /\ call.pc = "pick" /\ call.tried \in 0..NumAuths /\ call.attempted \in 0..NumAuths
        /\ call.tried + 1 \in 0..NumAuths /\ call.attempted + 1 \in 0..NumAuths
        /\ models # 0 => models - 1 \in 0..PoolSize
        /\ UNCHANGED <<h, w, errChan, cancelled>>
    <3>1. call.pc = "pick" /\ call.tried < NumAuths /\ UNCHANGED <<h, w, errChan, cancelled>>
      BY <1>2 DEF CallPick
    <3>2. call.tried \in 0..NumAuths /\ call.attempted \in 0..NumAuths
      BY <1>1 DEF CallType
    <3>3. call.tried + 1 \in 0..NumAuths /\ call.attempted + 1 \in 0..NumAuths
      BY <1>1, <3>1, <3>2, StreamAssumption
    <3>4. models # 0 => models - 1 \in 0..PoolSize
      BY <2>1, <2>2, StreamAssumption
    <3> QED
      BY <3>1, <3>2, <3>3, <3>4
  <2>4. /\ call' \in CallType /\ call'.pc \in {"pick", "exec"} /\ call'.attempted <= call'.tried
        /\ call'.boot = call.boot
    <3>1. CASE models = 0
      BY <1>1, <2>1, <2>3, <3>1 DEF CallType
    <3>2. CASE models # 0
      <4> DEFINE c == [call EXCEPT !.pc = "exec", !.tried = call.tried + 1,
                                   !.attempted = call.attempted + 1, !.left = models - 1]
      <4>1. call' = c
        BY <2>1, <3>2
      <4>2. c \in CallType /\ c.pc = "exec" /\ c.boot = call.boot
            /\ c.attempted = call.attempted + 1 /\ c.tried = call.tried + 1
        BY <1>1, <2>3, <3>2 DEF CallType
      <4>3. call.attempted + 1 <= call.tried + 1
        BY <1>1, <2>3
      <4> HIDE DEF c
      <4> QED
        BY <4>1, <4>2, <4>3
    <3> QED
      BY <3>1, <3>2
  <2> QED
    BY <1>1, <2>3, <2>4, CallMoves
<1>3. CASE CallExhausted
  <2>1. CASE call.lastErr = Nothing
    <3>1. "none left" \in Errors /\ RoundFails("none left")
      BY <1>3, <2>1 DEF CallExhausted, Errors
    <3> QED
      BY <1>1, <3>1, RoundFailsDoes
  <2>2. CASE call.lastErr # Nothing
    <3>1. call.lastErr.err \in Errors
      BY <1>1, <2>2 DEF CallType, Failures
    <3>2. CASE call.boot
      <4>1. [kind |-> "errstream", err |-> call.lastErr.err] \in Results
        BY <3>1 DEF Results
      <4>2. Return([kind |-> "errstream", err |-> call.lastErr.err])
        BY <1>3, <2>2, <3>2 DEF CallExhausted
      <4> QED
        BY <1>1, <3>2, <4>1, <4>2, ReturnsError
    <3>3. CASE ~call.boot
      BY <1>1, <1>3, <2>2, <3>1, <3>3, RoundFailsDoes DEF CallExhausted
    <3> QED
      BY <3>2, <3>3
  <2> QED
    BY <2>1, <2>2
<1>4. CASE CallCancelled
  <2>1. "cancelled" \in Errors /\ RoundFails("cancelled")
    BY <1>4 DEF CallCancelled, Errors
  <2> QED
    BY <1>1, <2>1, RoundFailsDoes
<1>5. CASE CallWait
  <2>1. CASE call' = Round(call.round + 1) /\ UNCHANGED <<h, w, errChan, cancelled>>
    <3>1. call.round + 1 \in 0..RequestRetry
      BY <1>1, <1>5, StreamAssumption DEF CallWait, Control, CallType
    <3>2. /\ Round(call.round + 1) \in CallType /\ Round(call.round + 1).pc = "pick"
          /\ Round(call.round + 1).attempted <= Round(call.round + 1).tried
          /\ ~Round(call.round + 1).boot
      BY <3>1, FreshCalls
    <3> QED
      BY <1>1, <2>1, <3>2, CallMoves
  <2>2. CASE cancelled /\ Return(Err("cancelled"))
    <3>1. Err("cancelled") \in Results /\ Err("cancelled").kind = "err"
      BY Kinds DEF Results, Errors
    <3> QED
      BY <1>1, <2>2, <3>1, ReturnsError
  <2> QED
    BY <1>5, <2>1, <2>2 DEF CallWait
<1> QED
  BY <1>2, <1>3, <1>4, <1>5

(* A run that returns the stream of attempt n.                             *)
Handed(n) ==
  /\ call'.pc = "idle" /\ h'.pc = "read" /\ h'.src.kind = "att" /\ h'.src.att = n
  /\ w'.outcome = w.outcome /\ cancelled' = cancelled

LEMMA ReturnsStream ==
  ASSUME Rest, Control, call.pc # "idle", streaming, NEW n \in Nat,
         Return([kind |-> "att", att |-> n]), UNCHANGED callElse
  PROVE  Rest' /\ Control' /\ Handed(n)
<1> DEFINE res == [kind |-> "att", att |-> n]
<1>1. res \in Results /\ res.kind = "att" /\ res.att = n
  BY DEF Results
<1>2. Return(res)
  OBVIOUS
<1>3. res.kind = "err" \/ h'.pc = "read"
  BY <1>1, <1>2 DEF Return, Control, Rest, HandlerType
<1> HIDE DEF res
<1>4. /\ Rest' /\ Control' /\ call'.pc = "idle"
      /\ h'.pc = "read" => h'.src = res
      /\ w'.outcome = w.outcome /\ cancelled' = cancelled
  BY <1>1, <1>2, ReturnDoes
<1> QED
  BY <1>1, <1>3, <1>4 DEF Handed

-----------------------------------------------------------------------------
(* The invariant, and how it is kept where little changes *)

IInv == Types /\ Control /\ Attempts /\ Follows /\ Marks

LEMMA Sequence ==
  ASSUME att \in Seq(Attempt)
  PROVE  /\ Len(att) \in Nat /\ DOMAIN att = 1..Len(att)
         /\ \A n \in DOMAIN att : att[n] \in Attempt
  OBVIOUS

LEMMA FollowsOnward ==
  ASSUME Follows, Onward, UNCHANGED callElse
  PROVE  Follows'
<1>1. ~Reads'
  BY DEF Onward, Reads
<1>2. OneAttemptDelivered'
  BY DEF Follows, OneAttemptDelivered, callElse
<1> QED
  BY <1>1, <1>2 DEF Follows

LEMMA MarksOnward ==
  ASSUME Control, Marks, call.pc # "idle", Onward, UNCHANGED callElse, ~cancelled' => Recorded'
  PROVE  Marks'
<1>1. h'.pc \notin {"close", "closeData", "done"}
  BY DEF Onward
<1>2. ~Over'
  <2>1. ~Over
    BY DEF Control, Marks
  <2> QED
    BY <2>1 DEF Onward, Over, callElse
<1>3. ~(~streaming' /\ w'.outcome = "ok")
  BY DEF Onward, callElse
<1> QED
  BY <1>1, <1>2, <1>3 DEF Marks

(* While a run is under way, no attempt is read by the handler.            *)
LEMMA RecordedOnward ==
  ASSUME Control, Marks, call.pc # "idle", ~cancelled,
         \A n \in DOMAIN att' :
           \/ n \in DOMAIN att /\ att'[n] = att[n]
           \/ RecordedAt(att[n], n)'
  PROVE  Recorded'
<1>1. Recorded /\ \A n \in DOMAIN att : ~Owned(n)
  BY DEF Marks, Control, Owned
<1> QED
  BY <1>1 DEF Recorded, RecordedAt

LEMMA AttemptsSame ==
  ASSUME Attempts, att' = att, call'.pc = "boot" <=> call.pc = "boot"
  PROVE  Attempts'
  BY DEF Attempts, Latest

LEMMA AttemptsNew ==
  ASSUME Types, Attempts, call.pc # "boot", NEW a \in Attempt, att' = Append(att, a),
         Sound(a, Len(att) + 1), a.reader = "boot" <=> call'.pc = "boot"
  PROVE  /\ Attempts' /\ att' \in Seq(Attempt) /\ Len(att') = Len(att) + 1
         /\ att'[Len(att) + 1] = a
         /\ \A n \in DOMAIN att' : (n \in DOMAIN att /\ att'[n] = att[n]) \/ (n = Len(att) + 1 /\ att'[n] = a)
<1>1. /\ att' \in Seq(Attempt) /\ Len(att) \in Nat /\ Len(att') = Len(att) + 1
      /\ DOMAIN att = 1..Len(att) /\ DOMAIN att' = 1..(Len(att) + 1)
      /\ att'[Len(att) + 1] = a
      /\ \A n \in DOMAIN att : att'[n] = att[n]
  BY DEF Types
<1>2. \A n \in DOMAIN att' : (n \in DOMAIN att /\ att'[n] = att[n]) \/ (n = Len(att) + 1 /\ att'[n] = a)
  BY <1>1
<1>3. \A n \in DOMAIN att : att[n].reader # "boot"
  BY DEF Attempts
<1>4. Attempts'
  BY <1>1, <1>2, <1>3 DEF Attempts, Latest
<1> QED
  BY <1>1, <1>2, <1>4

LEMMA AttemptsOne ==
  ASSUME Types, Attempts, NEW n \in DOMAIN att, NEW a \in Attempt, att' = [att EXCEPT ![n] = a],
         Sound(a, n),
         call'.pc = "boot" => call.pc = "boot" /\ (n = Latest => a.reader = "boot"),
         call'.pc # "boot" => call.pc # "boot" \/ n = Latest,
         a.reader = "boot" => att[n].reader = "boot" /\ call'.pc = "boot"
  PROVE  /\ Attempts' /\ att' \in Seq(Attempt) /\ Len(att') = Len(att) /\ DOMAIN att' = DOMAIN att
         /\ att'[n] = a
         /\ \A m \in DOMAIN att : m # n => att'[m] = att[m]
<1>1. /\ att' \in Seq(Attempt) /\ Len(att) \in Nat /\ Len(att') = Len(att)
      /\ DOMAIN att = 1..Len(att) /\ DOMAIN att' = DOMAIN att
      /\ att'[n] = a
      /\ \A m \in DOMAIN att : m # n => att'[m] = att[m]
  BY DEF Types
<1>2. Attempts'
  BY <1>1 DEF Attempts, Latest
<1> QED
  BY <1>1, <1>2

-----------------------------------------------------------------------------
(* The steps of a run *)

LEMMA KeepsCallStill ==
  ASSUME IInv, CallPick \/ CallExhausted \/ CallCancelled \/ CallWait
  PROVE  IInv'
<1>1. Rest /\ Control /\ Attempts /\ Follows /\ Marks /\ att \in Seq(Attempt) /\ Len(att) \in Nat
  BY Sequence DEF IInv, Types
<1>2. /\ Rest' /\ Control' /\ Onward /\ att' = att
      /\ call.pc \notin {"idle", "boot"} /\ call'.pc # "boot"
  BY <1>1, CallStill
<1>3. UNCHANGED callElse
  BY DEF CallPick, CallExhausted, CallCancelled, CallWait
<1>4. Types' /\ Attempts' /\ Follows'
  BY <1>1, <1>2, <1>3, AttemptsSame, FollowsOnward DEF Types
<1>5. ~cancelled' => Recorded'
  <2>1. HAVE ~cancelled'
  <2>2. ~cancelled
    BY <1>2, <2>1 DEF Onward
  <2>3. \A n \in DOMAIN att' : n \in DOMAIN att /\ att'[n] = att[n]
    BY <1>2
  <2> QED
    BY <1>1, <1>2, <2>2, <2>3, RecordedOnward
<1> QED
  BY <1>1, <1>2, <1>3, <1>4, <1>5, MarksOnward DEF IInv

(* The attempts as they begin.                                             *)
LEMMA NewAttempts ==
  /\ Opened \in Attempt /\ Opened.reader = "boot" /\ \A n \in Nat : Sound(Opened, n)
  /\ Answered \in Attempt /\ Answered.reader = "done" /\ Answered.good + Answered.bad = 1
  /\ \A n \in Nat : Sound(Answered, n)
  /\ \A m \in {0, 1} : /\ Refused(m) \in Attempt /\ Refused(m).reader = "done"
                       /\ Refused(m).good + Refused(m).bad = m
                       /\ \A n \in Nat : Sound(Refused(m), n)
<1>1. 0 \in 0..MaxChunks
  BY StreamAssumption
<1>2. Nothing \in Items /\ <<>> \in Seq(Items) /\ One(Nothing) = 0 /\ Nothing.kind = "nothing"
      /\ Nothing # Empty /\ <<>> \in NoData
  BY DEF Items, One, Nothing, Empty, NoData
<1>3. Opened \in Attempt /\ Opened.reader = "boot"
      /\ Opened.item = Nothing /\ Opened.cur = Nothing /\ Opened.prod = "read"
      /\ Opened.sent = 0 /\ ~Opened.failed /\ Opened.good = 0 /\ Opened.bad = 0 /\ Opened.buffered = <<>>
  BY <1>1, <1>2 DEF Opened, Attempt
<1>4. \A n \in Nat : Sound(Opened, n)
  BY <1>2, <1>3 DEF Sound, InBootstrap
<1>5. /\ Answered \in Attempt /\ Answered.reader = "done" /\ Answered.good = 1 /\ Answered.bad = 0
      /\ Answered.item = Nothing /\ Answered.cur = Nothing /\ Answered.prod = "ended"
      /\ Answered.upstream = "complete"
  BY <1>3 DEF Answered, Attempt
<1>6. \A n \in Nat : Sound(Answered, n)
  BY <1>2, <1>5 DEF Sound, Ended
<1>7. ASSUME NEW m \in {0, 1}
      PROVE  /\ Refused(m) \in Attempt /\ Refused(m).reader = "done" /\ Refused(m).good = 0
             /\ Refused(m).bad = m /\ Refused(m).item = Nothing /\ Refused(m).cur = Nothing
             /\ Refused(m).prod = "ended" /\ Refused(m).upstream = "failed"
  <2> DEFINE a == [Opened EXCEPT !.prod = "ended", !.reader = "done", !.upstream = "failed", !.bad = m]
  <2>1. Refused(m) = a
    BY DEF Refused
  <2>2. m \in Nat
    OBVIOUS
  <2>3. a \in Attempt
    BY <1>3, <2>2 DEF Attempt
  <2>4. /\ a.reader = "done" /\ a.good = Opened.good /\ a.bad = m /\ a.item = Opened.item
        /\ a.cur = Opened.cur /\ a.prod = "ended" /\ a.upstream = "failed"
    BY <1>3 DEF Attempt
  <2> HIDE DEF a
  <2> QED
    BY <1>3, <2>1, <2>3, <2>4
<1>8. \A m \in {0, 1} : \A n \in Nat : Sound(Refused(m), n)
  BY <1>2, <1>7 DEF Sound, Ended
<1> QED
  BY <1>3, <1>4, <1>5, <1>6, <1>7, <1>8

LEMMA KeepsCallExec ==
  ASSUME IInv, CallExec
  PROVE  IInv'
<1>1. /\ Types /\ Rest /\ Control /\ Attempts /\ Follows /\ Marks /\ att \in Seq(Attempt) /\ Len(att) \in Nat
      /\ call \in CallType /\ call.attempted <= call.tried /\ (call.boot => streaming)
      /\ call.pc = "exec" /\ UNCHANGED callElse
  BY Sequence DEF IInv, Types, Rest, Control, CallExec
<1>2. Len(att) + 1 \in Nat
  BY <1>1
<1>3. ASSUME NEW a \in {Opened, Answered, Refused(0), Refused(1)}, att' = Append(att, a),
             Rest', Control', a.reader = "boot" <=> call'.pc = "boot"
      PROVE  /\ Types' /\ Attempts' /\ att'[Len(att) + 1] = a
             /\ \A n \in DOMAIN att' : \/ n \in DOMAIN att /\ att'[n] = att[n]
                                       \/ n = Len(att) + 1 /\ att'[n] = a
  <2>1. a \in Attempt /\ Sound(a, Len(att) + 1)
    BY <1>2, <1>3, NewAttempts
  <2>2. /\ Attempts' /\ att' \in Seq(Attempt) /\ att'[Len(att) + 1] = a
        /\ \A n \in DOMAIN att' : \/ n \in DOMAIN att /\ att'[n] = att[n]
                                  \/ n = Len(att) + 1 /\ att'[n] = a
    BY <1>1, <1>3, <2>1, AttemptsNew
  <2> QED
    BY <1>3, <2>2 DEF Types
<1>4. ASSUME NEW a \in {Opened, Answered, Refused(0), Refused(1)}, att' = Append(att, a),
             Rest', Control', Onward, a.reader = "boot" <=> call'.pc = "boot",
             ~cancelled => a.reader # "wrap" /\ (a.reader # "boot" => a.good + a.bad = 1)
      PROVE  IInv'
  <2>1. /\ Types' /\ Attempts'
        /\ \A n \in DOMAIN att' : \/ n \in DOMAIN att /\ att'[n] = att[n]
                                  \/ n = Len(att) + 1 /\ att'[n] = a
    BY <1>3, <1>4
  <2>2. Follows'
    BY <1>1, <1>4, FollowsOnward
  <2>3. ~cancelled' => Recorded'
    <3>1. HAVE ~cancelled'
    <3>2. ~cancelled
      BY <1>4, <3>1 DEF Onward
    <3>3. ASSUME NEW n \in DOMAIN att'
          PROVE  (n \in DOMAIN att /\ att'[n] = att[n]) \/ RecordedAt(att[n], n)'
      <4>1. CASE n \in DOMAIN att /\ att'[n] = att[n]
        BY <4>1
      <4>2. CASE n = Len(att) + 1 /\ att'[n] = a
        <5>1. a.reader \in {"boot", "done"}
          BY <1>4, <3>2, NewAttempts
        <5> QED
          BY <1>4, <3>2, <4>2, <5>1 DEF RecordedAt
      <4> QED
        BY <2>1, <3>3, <4>1, <4>2
    <3> QED
      BY <1>1, <3>2, <3>3, RecordedOnward
  <2>4. Marks'
    BY <1>1, <1>4, <2>3, MarksOnward
  <2> QED
    BY <1>4, <2>1, <2>2, <2>4 DEF IInv
<1>5. CASE /\ streaming /\ att' = Append(att, Opened) /\ call' = [call EXCEPT !.pc = "boot"]
           /\ UNCHANGED <<h, w, errChan, cancelled>>
  <2> DEFINE c == [call EXCEPT !.pc = "boot"]
  <2>1. c \in CallType /\ c.pc = "boot" /\ c.attempted <= c.tried /\ c.boot = call.boot
    BY <1>1 DEF CallType
  <2>2. call' = c
    BY <1>5
  <2> HIDE DEF c
  <2>3. Rest' /\ Control' /\ Onward
    BY <1>1, <1>5, <2>1, <2>2, CallMoves
  <2> QED
    BY <1>4, <1>5, <2>1, <2>2, <2>3, NewAttempts
<1>6. CASE ~streaming /\ att' = Append(att, Answered) /\ Return([kind |-> "response"])
  <2>1. [kind |-> "response"] \in Results /\ [kind |-> "response"].kind = "response"
    BY DEF Results
  <2>2. /\ Rest' /\ Control' /\ call'.pc = "idle" /\ h'.pc = "none"
        /\ cancelled' = TRUE
    <3>1. /\ Rest' /\ Control' /\ call'.pc = "idle" /\ h'.pc \in {"none", "read", "senderr"}
          /\ h'.pc # "none" => streaming
      BY <1>1, <1>6, <2>1, ReturnDoes
    <3>2. cancelled' = TRUE
      BY <1>1, <1>6 DEF Return, Control
    <3> QED
      BY <1>6, <3>1, <3>2
  <2>3. /\ Types' /\ Attempts'
        /\ \A n \in DOMAIN att' : \/ n \in DOMAIN att /\ att'[n] = att[n]
                                  \/ n = Len(att) + 1 /\ att'[n] = Answered
    BY <1>3, <1>6, <2>2, NewAttempts
  <2>4. Follows'
    BY <1>1, <2>2 DEF Follows, Reads, OneAttemptDelivered, callElse
  <2>5. ASSUME ~gone
        PROVE  Recorded'
    <3>1. ~cancelled
      BY <1>1, <1>6, <2>5, NoResponseYet DEF Control
    <3>2. ASSUME NEW n \in DOMAIN att'
          PROVE  (n \in DOMAIN att /\ att'[n] = att[n]) \/ RecordedAt(att[n], n)'
      BY <2>3, <3>2, NewAttempts DEF RecordedAt
    <3> QED
      BY <1>1, <3>1, <3>2, RecordedOnward
  <2>6. Marks'
    BY <1>1, <1>6, <2>2, <2>5 DEF Marks, Over, callElse
  <2> QED
    BY <2>2, <2>3, <2>4, <2>6 DEF IInv
<1>7. CASE cancelled /\ att' = Append(att, Refused(0)) /\ RoundFails("cancelled")
  <2>1. Rest' /\ Control' /\ Onward /\ call'.pc \in {"idle", "wait"}
    BY <1>1, <1>7, RoundFailsDoes DEF Errors
  <2> QED
    BY <1>4, <1>7, <2>1, NewAttempts
<1>8. CASE /\ ~cancelled /\ att' = Append(att, Refused(1))
           /\ \E e \in UpstreamErrors : NextAttempt(e, FALSE)
  <2>1. PICK e \in UpstreamErrors : NextAttempt(e, FALSE)
    BY <1>8
  <2>2. e \in Errors
    BY DEF Errors
  <2>3. Rest' /\ Control' /\ Onward /\ call'.pc \in {"idle", "wait", "exec", "pick"}
    BY <1>1, <2>1, <2>2, NextAttemptDoes
  <2> QED
    BY <1>4, <1>8, <2>3, NewAttempts
<1> QED
  BY <1>5, <1>6, <1>7, <1>8 DEF CallExec

-----------------------------------------------------------------------------
(* The chain of channels *)

(* What the bootstrap may have buffered.                                   *)
LEMMA Buffers ==
  ASSUME NEW n \in Nat
  PROVE  /\ Data(n, 1) # Empty /\ Append(<<>>, Empty) = <<Empty>>
         /\ <<>> \notin First(n) /\ <<Empty>> \notin First(n) /\ <<>> # <<Empty>>
         /\ Append(<<>>, Data(n, 1)) \in First(n) /\ Append(<<Empty>>, Data(n, 1)) \in First(n)
         /\ \A b \in First(n) : \/ Head(b) = Data(n, 1) /\ Tail(b) = <<>>
                                \/ Head(b) = Empty /\ Tail(b) \in First(n)
         /\ Head(<<Empty>>) = Empty /\ Tail(<<Empty>>) = <<>>
<1>1. Data(n, 1).kind = "data" /\ Empty.kind = "empty"
  BY DEF Data, Empty
<1> DEFINE d == Data(n, 1)
<1> HIDE DEF d
<1>2. d # Empty
  BY <1>1 DEF d
<1>3. /\ Append(<<>>, Empty) = <<Empty>> /\ Append(<<>>, d) = <<d>> /\ Append(<<Empty>>, d) = <<Empty, d>>
      /\ Head(<<d>>) = d /\ Tail(<<d>>) = <<>>
      /\ Head(<<Empty>>) = Empty /\ Tail(<<Empty>>) = <<>>
      /\ Head(<<Empty, d>>) = Empty /\ Tail(<<Empty, d>>) = <<d>>
  <2>1. \A x : Append(<<>>, x) = <<x>>
    OBVIOUS
  <2>2. ASSUME NEW x, NEW y
        PROVE  Append(<<x>>, y) = <<x, y>>
    <3>1. <<x>> \in Seq({x, y}) /\ <<x, y>> \in Seq({x, y}) /\ y \in {x, y}
      OBVIOUS
    <3>2. /\ Append(<<x>>, y) \in Seq({x, y}) /\ Len(Append(<<x>>, y)) = 2
          /\ Append(<<x>>, y)[1] = x /\ Append(<<x>>, y)[2] = y
      BY <3>1, AppendProperties
    <3>3. Len(<<x, y>>) = 2 /\ <<x, y>>[1] = x /\ <<x, y>>[2] = y
      OBVIOUS
    <3>4. \A i \in 1..2 : Append(<<x>>, y)[i] = <<x, y>>[i]
      BY <3>2, <3>3
    <3> QED
      BY <3>1, <3>2, <3>3, <3>4, SeqEqual
  <2>3. \A x : Head(<<x>>) = x /\ Tail(<<x>>) = <<>>
    OBVIOUS
  <2>4. \A x, y : Head(<<x, y>>) = x
    OBVIOUS
  <2>5. \A x, y : Tail(<<x, y>>) = <<y>>
    OBVIOUS
  <2> QED
    BY <2>1, <2>2, <2>3, <2>4, <2>5
<1>4. <<>> # <<Empty>> /\ <<>> # <<d>> /\ <<>> # <<Empty, d>> /\ <<Empty>> # <<Empty, d>> /\ <<Empty>> # <<d>>
  <2>1. Len(<<>>) = 0 /\ Len(<<Empty>>) = 1 /\ Len(<<d>>) = 1 /\ Len(<<Empty, d>>) = 2
    OBVIOUS
  <2>2. <<Empty>>[1] = Empty /\ <<d>>[1] = d
    OBVIOUS
  <2> QED
    BY <1>2, <2>1, <2>2
<1>5. First(n) = {<<d>>, <<Empty, d>>}
  BY DEF First, d
<1> QED
  BY <1>2, <1>3, <1>4, <1>5 DEF d

(* The producer has got rid of its chunk.                                  *)
LEMMA TakenIs ==
  ASSUME att \in Seq(Attempt), NEW n \in DOMAIN att
  PROVE  /\ Taken(n) \in Attempt /\ Taken(n).item = Nothing
         /\ Taken(n).prod = IF att[n].item.kind = "err" THEN "ended" ELSE "read"
         /\ Taken(n).sent = att[n].sent /\ Taken(n).upstream = att[n].upstream
         /\ Taken(n).reader = att[n].reader /\ Taken(n).buffered = att[n].buffered
         /\ Taken(n).cur = att[n].cur /\ Taken(n).failed = att[n].failed
         /\ Taken(n).good = att[n].good /\ Taken(n).bad = att[n].bad
<1>1. att[n] \in Attempt
  BY Sequence
<1>2. Nothing \in Items
  BY DEF Items
<1> DEFINE p == IF att[n].item.kind = "err" THEN "ended" ELSE "read"
<1>3. p \in {"read", "send", "ended"}
  OBVIOUS
<1>4. Taken(n) = [att[n] EXCEPT !.item = Nothing, !.prod = p]
  BY DEF Taken
<1> HIDE DEF p
<1>5. [att[n] EXCEPT !.item = Nothing, !.prod = p] \in Attempt
  BY <1>1, <1>2, <1>3 DEF Attempt
<1> QED
  BY <1>1, <1>4, <1>5 DEF Attempt, p

(* The bootstrap gives the attempt up, or goes on with it.                 *)
LEMMA BootstrapOnward ==
  ASSUME IInv, call.pc = "boot", NEW a \in Attempt, att' = [att EXCEPT ![Latest] = a],
         Sound(a, Latest), Rest', Control', Onward, UNCHANGED callElse,
         a.reader = "boot" <=> call'.pc = "boot",
         ~cancelled => a.reader = "boot" \/ (a.reader \in {"discard", "done"} /\ a.good + a.bad = 1)
  PROVE  IInv'
<1>1. /\ Types /\ Control /\ Attempts /\ Follows /\ Marks /\ Latest \in DOMAIN att
      /\ att[Latest].reader = "boot"
  BY DEF IInv, Attempts
<1>2. /\ Attempts' /\ att' \in Seq(Attempt) /\ DOMAIN att' = DOMAIN att /\ att'[Latest] = a
      /\ \A m \in DOMAIN att : m # Latest => att'[m] = att[m]
  BY <1>1, AttemptsOne
<1>3. Follows'
  BY <1>1, FollowsOnward
<1>4. ~cancelled' => Recorded'
  <2>1. HAVE ~cancelled'
  <2>2. ~cancelled
    BY <2>1 DEF Onward
  <2>3. ASSUME NEW n \in DOMAIN att'
        PROVE  (n \in DOMAIN att /\ att'[n] = att[n]) \/ RecordedAt(att[n], n)'
    <3>1. CASE n = Latest
      <4>1. att'[n] = a
        BY <1>2, <3>1
      <4> QED
        BY <2>2, <4>1 DEF RecordedAt
    <3>2. CASE n # Latest
      BY <1>2, <3>2
    <3> QED
      BY <3>1, <3>2
  <2> QED
    BY <1>1, <2>2, <2>3, RecordedOnward
<1>5. Marks'
  BY <1>1, <1>4, MarksOnward
<1> QED
  BY <1>2, <1>3, <1>5 DEF IInv, Types

(* The bootstrap hands the stream of the attempt over.                     *)
LEMMA BootstrapHands ==
  ASSUME IInv, call.pc = "boot", NEW a \in Attempt, att' = [att EXCEPT ![Latest] = a],
         Sound(a, Latest), Rest', Control', Handed(Latest), UNCHANGED callElse,
         a.reader = "wrap", ~a.failed, a.sent = One(a.cur) + Held(a, Latest) + One(a.item)
  PROVE  IInv'
<1>1. /\ Types /\ Rest /\ Control /\ Attempts /\ Follows /\ Marks /\ Latest \in DOMAIN att
      /\ att[Latest].reader = "boot" /\ streaming /\ call'.pc = "idle"
  BY DEF IInv, Types, Attempts, Control, Handed
<1>2. /\ Attempts' /\ att' \in Seq(Attempt) /\ DOMAIN att' = DOMAIN att /\ att'[Latest] = a
      /\ \A m \in DOMAIN att : m # Latest => att'[m] = att[m]
      /\ Len(att') = Len(att)
  BY <1>1, AttemptsOne
<1>3. Latest' = Latest
  BY <1>2 DEF Latest
<1>4. /\ delivered = <<>> /\ delivered' = <<>> /\ h'.pc = "read" /\ h'.src.kind = "att" /\ h'.src.att = Latest
      /\ cancelled' = cancelled /\ w'.outcome = w.outcome /\ h.pc \in {"none", "retry"}
      /\ streaming' /\ gone' = gone
  BY <1>1 DEF Handed, Control, callElse
<1>5. Position(att[Latest], Latest)'
  <2>1. att'[Latest'] = a /\ Passed' = 0 /\ a.sent \in Nat
    BY <1>2, <1>3, <1>4 DEF Passed, Attempt
  <2>2. Latest \in Nat /\ a.sent = 0 + One(a.cur) + Held(a, Latest) + One(a.item)
    <3>1. One(a.cur) + Held(a, Latest) + One(a.item) = 0 + One(a.cur) + Held(a, Latest) + One(a.item)
      BY DEF One, Held
    <3> QED
      BY <3>1, <1>1, Sequence DEF Latest, Types
  <2> QED
    BY <1>3, <2>1, <2>2 DEF Position
<1>6. Follows'
  <2>1. OneAttemptDelivered'
    BY <1>4 DEF OneAttemptDelivered
  <2>2. Latest' \in DOMAIN att'
    BY <1>1, <1>2, <1>3
  <2> QED
    BY <1>3, <1>4, <1>5, <2>1, <2>2 DEF Follows
<1>7. ~cancelled => Recorded'
  <2>1. HAVE ~cancelled
  <2>2. Recorded /\ \A n \in DOMAIN att : ~Owned(n)
    BY <1>1, <1>4, <2>1 DEF Marks, Owned
  <2>3. Owned(Latest)'
    BY <1>3, <1>4 DEF Owned
  <2>4. ASSUME NEW n \in DOMAIN att'
        PROVE  RecordedAt(att[n], n)'
    <3>1. CASE n = Latest
      BY <1>2, <1>4, <2>1, <1>3, <2>3, <3>1 DEF RecordedAt
    <3>2. CASE n # Latest
      <4>1. n \in DOMAIN att /\ att'[n] = att[n]
        BY <1>2, <3>2
      <4>2. RecordedAt(att[n], n) /\ ~Owned(n)
        BY <2>2, <4>1 DEF Recorded
      <4> QED
        BY <4>1, <4>2 DEF RecordedAt
    <3> QED
      BY <3>1, <3>2
  <2> QED
    BY <2>4 DEF Recorded
<1>8. Marks'
  <2>1. ~Over /\ ~Over'
    BY <1>1, <1>4 DEF Marks, Over
  <2> QED
    BY <1>4, <1>7, <2>1 DEF Marks
<1> QED
  BY <1>2, <1>6, <1>8 DEF IInv, Types

LEMMA KeepsBootstrap ==
  ASSUME IInv, Bootstrap
  PROVE  IInv'
<1> DEFINE b == att[Latest]
<1>1. /\ Rest /\ Control /\ Attempts /\ att \in Seq(Attempt) /\ call.pc = "boot" /\ streaming
      /\ Latest \in DOMAIN att /\ Latest \in Nat /\ b.reader = "boot" /\ UNCHANGED callElse
  BY Sequence DEF IInv, Types, Attempts, Control, Bootstrap, Latest
<1>2. b \in Attempt /\ Sound(b, Latest)
  BY <1>1, Sequence DEF Attempts
<1>3. /\ InBootstrap(b) /\ b.cur = Nothing
      /\ b.prod = "send" <=> b.item # Nothing
      /\ b.item.kind = "data" => b.item.att = Latest /\ b.item.num = b.sent /\ b.sent > 0
      /\ b.item.kind = "err" => b.upstream \in {"failed", "aborted"}
  BY <1>1, <1>2 DEF Sound
<1>4. /\ ~b.failed /\ b.good = 0 /\ b.bad = 0 /\ b.buffered \in NoData /\ b.sent = One(b.item)
      /\ b.item = Empty => b.buffered = <<>>
      /\ b.prod = "ended" => b.upstream \in {"complete", "aborted"}
  BY <1>3 DEF InBootstrap
<1>5. b.buffered \in {<<>>, <<Empty>>}
  BY <1>4 DEF NoData
<1>6. /\ Taken(Latest) \in Attempt /\ Taken(Latest).item = Nothing
      /\ Taken(Latest).prod = IF b.item.kind = "err" THEN "ended" ELSE "read"
      /\ Taken(Latest).sent = b.sent /\ Taken(Latest).upstream = b.upstream
      /\ Taken(Latest).reader = b.reader /\ Taken(Latest).buffered = b.buffered
      /\ Taken(Latest).cur = b.cur /\ Taken(Latest).failed = b.failed
      /\ Taken(Latest).good = b.good /\ Taken(Latest).bad = b.bad
  BY <1>1, TakenIs
<1>7. Nothing.kind = "nothing" /\ Empty.kind = "empty" /\ One(Nothing) = 0 /\ One(Empty) = 0
      /\ Nothing # Empty /\ b.item \in Items
  BY <1>2 DEF Nothing, Empty, One, Attempt
<1> DEFINE t == Taken(Latest)
<1> HIDE DEF b, t
<1>8. CASE /\ b.item.kind = "data"
           /\ att' = [att EXCEPT ![Latest] = [t EXCEPT !.reader = "wrap", !.buffered = Append(@, b.item)]]
           /\ Return([kind |-> "att", att |-> Latest])
  <2> DEFINE a == [t EXCEPT !.reader = "wrap", !.buffered = Append(t.buffered, b.item)]
  <2>1. b.item = Data(Latest, 1) /\ b.sent = 1
    <3>1. b.sent = 1
      BY <1>4, <1>8 DEF One
    <3> QED
      BY <1>3, <1>7, <1>8, <3>1, Kinds
  <2>2. Append(b.buffered, b.item) \in Seq(Items) /\ Append(b.buffered, b.item) \in First(Latest)
    <3>1. b.buffered \in Seq(Items)
      BY <1>2 DEF Attempt
    <3>2. Append(b.buffered, b.item) \in First(Latest)
      BY <1>1, <1>5, <2>1, Buffers
    <3> QED
      BY <1>7, <3>1, <3>2
  <2>3. /\ a \in Attempt /\ a.reader = "wrap" /\ a.buffered = Append(b.buffered, b.item)
        /\ a.item = Nothing /\ a.prod = "read" /\ a.sent = 1 /\ a.cur = Nothing /\ ~a.failed
        /\ a.good = 0 /\ a.bad = 0
    <3>1. t.buffered = b.buffered
      BY <1>6 DEF t
    <3>2. Append(t.buffered, b.item) \in Seq(Items)
      BY <2>2, <3>1
    <3>3. a \in Attempt
      BY <1>6, <3>2 DEF Attempt, t
    <3>4. /\ a.reader = "wrap" /\ a.buffered = Append(t.buffered, b.item)
          /\ a.item = t.item /\ a.prod = t.prod /\ a.sent = t.sent /\ a.cur = t.cur /\ a.failed = t.failed
          /\ a.good = t.good /\ a.bad = t.bad
      BY <1>6 DEF Attempt, t
    <3> HIDE DEF a
    <3> QED
      BY <1>3, <1>4, <1>6, <1>8, <2>1, <3>1, <3>3, <3>4 DEF t
  <2>4. att' = [att EXCEPT ![Latest] = a]
    BY <1>8
  <2> HIDE DEF a
  <2>5. Held(a, Latest) = 1
    BY <2>2, <2>3 DEF Held
  <2>6. Sound(a, Latest)
    <3>1. InWrapper(a, Latest)
      BY <1>7, <2>2, <2>3, <2>5 DEF InWrapper
    <3> QED
      BY <1>7, <2>3, <3>1 DEF Sound
  <2>7. Rest' /\ Control' /\ Handed(Latest)
    BY <1>1, <1>8, ReturnsStream
  <2>8. a.sent = One(a.cur) + Held(a, Latest) + One(a.item)
    BY <1>7, <2>3, <2>5
  <2> QED
    BY <1>1, <2>3, <2>4, <2>6, <2>7, <2>8, BootstrapHands
<1>9. CASE /\ b.item.kind = "empty"
           /\ att' = [att EXCEPT ![Latest] = [t EXCEPT !.buffered = Append(@, Empty)]]
           /\ UNCHANGED <<call, h, w, errChan, cancelled>>
  <2> DEFINE a == [t EXCEPT !.buffered = Append(t.buffered, Empty)]
  <2>1. b.item = Empty /\ b.buffered = <<>> /\ b.sent = 0
    BY <1>4, <1>7, <1>9, Kinds
  <2>2. Append(t.buffered, Empty) = <<Empty>> /\ <<Empty>> \in Seq(Items)
    BY <1>1, <1>6, <2>1, Buffers DEF t, Items
  <2>3. a \in Attempt
    BY <1>6, <2>2 DEF Attempt, t
  <2>4. /\ a.buffered = Append(t.buffered, Empty)
        /\ a.reader = t.reader /\ a.item = t.item /\ a.prod = t.prod /\ a.sent = t.sent /\ a.cur = t.cur
        /\ a.failed = t.failed /\ a.good = t.good /\ a.bad = t.bad
    BY <1>6 DEF Attempt, t
  <2>5. att' = [att EXCEPT ![Latest] = a]
    BY <1>9
  <2> HIDE DEF a
  <2>6. /\ a.reader = "boot" /\ a.buffered = <<Empty>> /\ a.item = Nothing /\ a.prod = "read" /\ a.sent = 0
        /\ a.cur = Nothing /\ ~a.failed /\ a.good = 0 /\ a.bad = 0
    BY <1>1, <1>3, <1>4, <1>6, <1>9, <2>1, <2>2, <2>4 DEF t
  <2>7. Sound(a, Latest)
    BY <1>7, <2>6 DEF Sound, InBootstrap, NoData
  <2>8. Rest' /\ Control' /\ Onward
    <3>1. call \in CallType /\ call.attempted <= call.tried /\ (call.boot => streaming)
      BY <1>1 DEF Rest, Control
    <3>2. call' = call
      BY <1>9
    <3> QED
      BY <1>1, <1>9, <3>1, <3>2, CallMoves
  <2>9. a.reader = "boot" <=> call'.pc = "boot"
    BY <1>1, <1>9, <2>6
  <2> QED
    BY <1>1, <2>3, <2>5, <2>6, <2>7, <2>8, <2>9, BootstrapOnward
<1>10. CASE /\ b.item.kind = "err" /\ ~cancelled
            /\ att' = [att EXCEPT ![Latest] = [t EXCEPT !.reader = "discard", !.bad = @ + 1]]
            /\ NextAttempt(b.item.err, TRUE)
  <2> DEFINE a == [t EXCEPT !.reader = "discard", !.bad = t.bad + 1]
  <2>1. b.item.err \in Errors /\ t.bad = 0 /\ t.bad + 1 \in Nat
    BY <1>4, <1>6, <1>7, <1>10, Kinds DEF t
  <2>2. a \in Attempt
    BY <1>6, <2>1 DEF Attempt, t
  <2>3. /\ a.reader = "discard" /\ a.bad = t.bad + 1 /\ a.good = t.good
        /\ a.item = t.item /\ a.prod = t.prod /\ a.cur = t.cur /\ a.upstream = t.upstream
    BY <1>6 DEF Attempt, t
  <2>4. att' = [att EXCEPT ![Latest] = a]
    BY <1>10
  <2> HIDE DEF a
  <2>5. /\ a.reader = "discard" /\ a.bad = 1 /\ a.good = 0 /\ a.item = Nothing /\ a.prod = "ended"
        /\ a.cur = Nothing /\ a.upstream \in {"failed", "aborted"}
    BY <1>3, <1>4, <1>6, <1>10, <2>1, <2>3 DEF t
  <2>6. Sound(a, Latest)
    BY <1>7, <2>5 DEF Sound, Discarded
  <2>7. Rest' /\ Control' /\ Onward /\ call'.pc \in {"idle", "wait", "exec", "pick"}
    BY <1>1, <1>10, <2>1, NextAttemptDoes
  <2>8. a.good + a.bad = 1 /\ call'.pc # "boot" /\ a.reader # "boot"
    BY <2>5, <2>7
  <2> QED
    BY <1>1, <2>2, <2>4, <2>5, <2>6, <2>7, <2>8, BootstrapOnward
<1>11. CASE /\ b.prod = "ended" /\ b.buffered = <<>>
            /\ att' = [att EXCEPT ![Latest].reader = "done", ![Latest].bad = @ + 1]
            /\ NextAttempt("transient", TRUE)
  <2> DEFINE a == [b EXCEPT !.reader = "done", !.bad = b.bad + 1]
  <2>1. b.item = Nothing /\ b.sent = 0 /\ b.bad = 0 /\ b.bad + 1 \in Nat
    BY <1>3, <1>4, <1>7, <1>11
  <2>2. a \in Attempt
    BY <1>2, <2>1 DEF Attempt
  <2>3. /\ a.reader = "done" /\ a.bad = b.bad + 1 /\ a.good = b.good /\ a.sent = b.sent
        /\ a.item = b.item /\ a.prod = b.prod /\ a.cur = b.cur /\ a.upstream = b.upstream
    BY <1>2 DEF Attempt
  <2>4. att' = [att EXCEPT ![Latest] = a]
    <3>1. b = att[Latest] /\ att[Latest] \in Attempt
      BY <1>2 DEF b
    <3> QED
      BY <1>1, <1>2, <1>11, <3>1 DEF Attempt
  <2> HIDE DEF a
  <2>5. /\ a.reader = "done" /\ a.bad = 1 /\ a.good = 0 /\ a.item = Nothing /\ a.prod = "ended"
        /\ a.cur = Nothing /\ a.upstream \in {"complete", "aborted"} /\ a.sent = 0
    BY <1>3, <1>4, <1>11, <2>1, <2>3
  <2>6. Sound(a, Latest)
    BY <1>7, <2>5 DEF Sound, Ended
  <2>7. Rest' /\ Control' /\ Onward /\ call'.pc \in {"idle", "wait", "exec", "pick"}
    BY <1>1, <1>11, NextAttemptDoes DEF Errors, UpstreamErrors
  <2>8. a.good + a.bad = 1 /\ call'.pc # "boot" /\ a.reader # "boot"
    BY <2>5, <2>7
  <2> QED
    BY <1>1, <2>2, <2>4, <2>5, <2>6, <2>7, <2>8, BootstrapOnward
<1>12. CASE /\ b.prod = "ended" /\ b.buffered # <<>>
            /\ att' = [att EXCEPT ![Latest].reader = "wrap"]
            /\ Return([kind |-> "att", att |-> Latest])
  <2> DEFINE a == [b EXCEPT !.reader = "wrap"]
  <2>1. b.item = Nothing /\ b.sent = 0 /\ b.buffered = <<Empty>>
    BY <1>3, <1>4, <1>5, <1>7, <1>12
  <2>2. a \in Attempt
    BY <1>2 DEF Attempt
  <2>3. /\ a.reader = "wrap" /\ a.bad = b.bad /\ a.good = b.good /\ a.sent = b.sent /\ a.failed = b.failed
        /\ a.item = b.item /\ a.prod = b.prod /\ a.cur = b.cur /\ a.upstream = b.upstream
        /\ a.buffered = b.buffered
    BY <1>2 DEF Attempt
  <2>4. att' = [att EXCEPT ![Latest] = a]
    BY <1>12 DEF b
  <2> HIDE DEF a
  <2>5. Held(a, Latest) = 0
    BY <1>1, <2>1, <2>3, Buffers DEF Held
  <2>6. Sound(a, Latest)
    <3>1. InWrapper(a, Latest)
      BY <1>3, <1>4, <1>7, <1>12, <2>1, <2>3, <2>5 DEF InWrapper
    <3> QED
      BY <1>3, <1>7, <1>12, <2>1, <2>3, <3>1 DEF Sound
  <2>7. Rest' /\ Control' /\ Handed(Latest)
    BY <1>1, <1>12, ReturnsStream
  <2>8. a.sent = One(a.cur) + Held(a, Latest) + One(a.item)
    BY <1>3, <1>7, <2>1, <2>3, <2>5
  <2> QED
    BY <1>1, <1>4, <2>2, <2>3, <2>4, <2>6, <2>7, <2>8, BootstrapHands
<1>13. CASE /\ cancelled /\ att' = [att EXCEPT ![Latest].reader = "discard"] /\ RoundFails("cancelled")
  <2> DEFINE a == [b EXCEPT !.reader = "discard"]
  <2>1. a \in Attempt
    BY <1>2 DEF Attempt
  <2>2. /\ a.reader = "discard" /\ a.bad = b.bad /\ a.good = b.good
        /\ a.item = b.item /\ a.prod = b.prod /\ a.cur = b.cur /\ a.upstream = b.upstream
        /\ a.sent = b.sent
    BY <1>2 DEF Attempt
  <2>3. att' = [att EXCEPT ![Latest] = a]
    BY <1>13 DEF b
  <2> HIDE DEF a
  <2>4. Sound(a, Latest)
    BY <1>3, <1>4, <2>2 DEF Sound, Discarded
  <2>5. Rest' /\ Control' /\ Onward /\ call'.pc \in {"idle", "wait"}
    BY <1>1, <1>13, RoundFailsDoes DEF Errors
  <2> QED
    BY <1>1, <1>13, <2>1, <2>2, <2>3, <2>4, <2>5, BootstrapOnward
<1> QED
  BY <1>8, <1>9, <1>10, <1>11, <1>12, <1>13 DEF Bootstrap, b, t

(* A step of the producer or of a reader of attempt n, that changes        *)
(* nothing but the attempt.                                                *)
othersSame == UNCHANGED <<callElse, call, h, w, errChan, cancelled>>

LEMMA AttemptStep ==
  ASSUME IInv, NEW n \in DOMAIN att, NEW a \in Attempt, att' = [att EXCEPT ![n] = a], othersSame,
         Sound(a, n), att[n].reader # "done", a.reader = "boot" <=> att[n].reader = "boot",
         Position(att[n], n) /\ n = Latest /\ Reads => Position(a, n),
         RecordedAt(att[n], n) => RecordedAt(a, n)
  PROVE  IInv'
<1>1. /\ Types /\ Rest /\ Control /\ Attempts /\ Follows /\ Marks
      /\ n = Latest => (att[n].reader = "boot" => call.pc = "boot")
      /\ call.pc = "boot" => (n = Latest => att[n].reader = "boot")
      /\ att[n].reader = "boot" => call.pc = "boot"
  BY DEF IInv, Types, Attempts
<1>2. UNCHANGED <<streaming, call, h, errChan, dataClosed, w, delivered, gone, cancelled>>
  BY DEF othersSame, callElse
<1>3. /\ Attempts' /\ att' \in Seq(Attempt) /\ DOMAIN att' = DOMAIN att /\ att'[n] = a
      /\ \A m \in DOMAIN att : m # n => att'[m] = att[m]
      /\ Len(att') = Len(att)
  <2>1. call'.pc = call.pc
    BY <1>2
  <2> QED
    BY <1>1, <2>1, AttemptsOne
<1>4. Latest' = Latest
  BY <1>3 DEF Latest
<1>5. Rest' /\ Control'
  BY <1>1, <1>2 DEF Rest, Flags, Control
<1>6. Follows'
  <2>1. OneAttemptDelivered'
    BY <1>1, <1>2 DEF Follows, OneAttemptDelivered
  <2>2. ASSUME Reads'
        PROVE  /\ h'.src.att = Latest' /\ Latest' \in DOMAIN att'
               /\ \A k \in DOMAIN delivered' : delivered'[k] = Data(Latest', k)
               /\ h'.pc = "senddata" => h'.item = Data(Latest', Passed')
               /\ Position(att[Latest], Latest)'
    <3>1. Reads /\ Passed' = Passed
      BY <1>2, <2>2 DEF Reads, Passed
    <3>2. /\ h.src.att = Latest /\ Latest \in DOMAIN att
          /\ \A k \in DOMAIN delivered : delivered[k] = Data(Latest, k)
          /\ h.pc = "senddata" => h.item = Data(Latest, Passed)
          /\ Position(att[Latest], Latest)
      BY <1>1, <3>1 DEF Follows
    <3>3. Position(att'[Latest], Latest)
      BY <1>3, <3>1, <3>2
    <3>4. Position(att[Latest], Latest)'
      BY <1>2, <1>4, <3>1, <3>3 DEF Position
    <3> QED
      BY <1>2, <1>3, <1>4, <3>1, <3>2, <3>4
  <2> QED
    BY <2>1, <2>2 DEF Follows
<1>7. Recorded => Recorded'
  <2>1. HAVE Recorded
  <2>2. ASSUME NEW m \in DOMAIN att'
        PROVE  RecordedAt(att[m], m)'
    <3>1. RecordedAt(att'[m], m)
      BY <1>3, <2>1 DEF Recorded
    <3> QED
      BY <1>2, <3>1 DEF RecordedAt, Owned
  <2> QED
    BY <2>2 DEF Recorded
<1>8. Whole => Whole'
  <2>1. HAVE Whole
  <2>2. n # Latest /\ Latest \in DOMAIN att
    BY <2>1 DEF Whole
  <2>3. att'[Latest] = att[Latest]
    BY <1>3, <2>2
  <2> QED
    BY <1>2, <1>3, <1>4, <2>1, <2>3 DEF Whole
<1>9. Marks'
  BY <1>1, <1>2, <1>7, <1>8 DEF Marks, Over, Pending
<1> QED
  BY <1>3, <1>5, <1>6, <1>9 DEF IInv, Types

(* The attempt and what is known of it.                                    *)
LEMMA AttemptOf ==
  ASSUME IInv, NEW n \in DOMAIN att
  PROVE  /\ att[n] \in Attempt /\ Sound(att[n], n) /\ n \in Nat /\ att \in Seq(Attempt)
         /\ Nothing.kind = "nothing" /\ Empty.kind = "empty" /\ One(Nothing) = 0 /\ One(Empty) = 0
         /\ Nothing # Empty /\ Nothing \in Items /\ Empty \in Items
         /\ One(att[n].item) \in {0, 1} /\ One(att[n].cur) \in {0, 1} /\ Held(att[n], n) \in {0, 1}
         /\ Passed \in Nat
<1>1. att[n] \in Attempt /\ Sound(att[n], n) /\ n \in Nat /\ att \in Seq(Attempt) /\ delivered \in Seq(Chunks)
  BY Sequence DEF IInv, Types, Rest, Attempts
<1>2. Len(delivered) \in Nat
  BY <1>1
<1> QED
  BY <1>1, <1>2 DEF Nothing, Empty, One, Held, Items, Passed

LEMMA KeepsDiscard ==
  ASSUME IInv, NEW n \in DOMAIN att, Discard(n)
  PROVE  IInv'
<1> DEFINE b == att[n]
<1>1. b \in Attempt /\ Sound(b, n) /\ b.reader = "discard" /\ othersSame /\ att \in Seq(Attempt)
      /\ Nothing.kind = "nothing"
  BY AttemptOf DEF Discard, othersSame
<1>2. /\ Discarded(b) /\ b.cur = Nothing
      /\ b.item.kind = "err" => b.upstream \in {"failed", "aborted"}
  BY <1>1 DEF Sound
<1>3. CASE b.prod = "send" /\ att' = [att EXCEPT ![n] = Taken(n)]
  <2> DEFINE a == Taken(n)
  <2>1. /\ a \in Attempt /\ a.item = Nothing /\ a.reader = "discard" /\ a.cur = Nothing
        /\ a.prod \in {"read", "ended"} /\ a.upstream = b.upstream /\ a.sent = b.sent
        /\ a.good = b.good /\ a.bad = b.bad
    BY <1>1, <1>2, TakenIs
  <2> HIDE DEF a, b
  <2>2. Sound(a, n)
    BY <1>1, <1>2, <1>3, <2>1 DEF Sound, Discarded
  <2>3. (Position(b, n) => Position(a, n)) /\ (RecordedAt(b, n) => RecordedAt(a, n))
    BY <1>1, <2>1 DEF Position, RecordedAt
  <2>4. att' = [att EXCEPT ![n] = a]
    BY <1>3 DEF a
  <2> QED
    BY <1>1, <2>1, <2>2, <2>3, <2>4, AttemptStep DEF b
<1>4. CASE b.prod = "ended" /\ att' = [att EXCEPT ![n].reader = "done"]
  <2> DEFINE a == [b EXCEPT !.reader = "done"]
  <2>1. a \in Attempt
    BY <1>1 DEF Attempt
  <2>2. /\ a.reader = "done" /\ a.item = b.item /\ a.cur = b.cur /\ a.prod = b.prod
        /\ a.upstream = b.upstream /\ a.sent = b.sent /\ a.good = b.good /\ a.bad = b.bad
    BY <1>1 DEF Attempt
  <2>3. att' = [att EXCEPT ![n] = a]
    BY <1>4
  <2> HIDE DEF a, b
  <2>4. b.good \in Nat /\ b.bad \in Nat
    BY <1>1 DEF Attempt
  <2>5. Sound(a, n)
    BY <1>1, <1>2, <1>4, <2>2, <2>4 DEF Sound, Discarded, Ended
  <2>6. (Position(b, n) => Position(a, n)) /\ (RecordedAt(b, n) => RecordedAt(a, n))
    BY <1>1, <2>2 DEF Position, RecordedAt
  <2> QED
    BY <1>1, <2>1, <2>2, <2>3, <2>5, <2>6, AttemptStep DEF b
<1> QED
  BY <1>1, <1>3, <1>4 DEF Discard

(* What reading the upstream makes of attempt b.                           *)
Reading(b, p, x, k, u) == [b EXCEPT !.prod = p, !.item = x, !.sent = k, !.upstream = u]
ReadFrom(b, p, x, k, u) ==
  LET a == Reading(b, p, x, k, u) IN
    /\ a \in Attempt /\ a.prod = p /\ a.item = x /\ a.sent = k /\ a.upstream = u
    /\ a.reader = b.reader /\ a.buffered = b.buffered /\ a.cur = b.cur
    /\ a.failed = b.failed /\ a.good = b.good /\ a.bad = b.bad

LEMMA ReadingFields ==
  ASSUME NEW b \in Attempt, NEW p \in {"send", "ended"}, NEW x \in Items, NEW k \in 0..MaxChunks,
         NEW u \in {"open", "complete", "failed", "aborted"}
  PROVE  ReadFrom(b, p, x, k, u)
<1> DEFINE a == [b EXCEPT !.prod = p, !.item = x, !.sent = k, !.upstream = u]
<1>1. a \in Attempt
  BY DEF Attempt
<1>2. /\ a.prod = p /\ a.item = x /\ a.sent = k /\ a.upstream = u
      /\ a.reader = b.reader /\ a.buffered = b.buffered /\ a.cur = b.cur
      /\ a.failed = b.failed /\ a.good = b.good /\ a.bad = b.bad
  BY DEF Attempt
<1>3. Reading(b, p, x, k, u) = a
  BY DEF Reading
<1> HIDE DEF a
<1> QED
  BY <1>1, <1>2, <1>3 DEF ReadFrom

(* A step of the producer of attempt b makes it a.                         *)
Produced(b, a, n) ==
  /\ a.reader = b.reader /\ a.buffered = b.buffered /\ a.cur = b.cur /\ a.failed = b.failed
  /\ a.good = b.good /\ a.bad = b.bad
  /\ a.prod = "send" <=> a.item # Nothing
  /\ a.item.kind = "data" => a.item.att = n /\ a.item.num = a.sent /\ a.sent > 0
  /\ a.item.kind = "err" => a.upstream \in {"failed", "aborted"}
  /\ a.sent = b.sent - One(b.item) + One(a.item)
  /\ a.item = Empty => b.reader = "boot" /\ b.buffered = <<>>
  /\ a.prod = "ended" => a.upstream \in {"complete", "aborted"}

LEMMA ProducerStep ==
  ASSUME IInv, NEW n \in DOMAIN att, att[n].prod # "ended", othersSame,
         NEW a \in Attempt, att' = [att EXCEPT ![n] = a], Produced(att[n], a, n)
  PROVE  IInv'
<1> DEFINE b == att[n]
<1>1. /\ b \in Attempt /\ Sound(b, n) /\ b.prod # "ended" /\ othersSame /\ att \in Seq(Attempt) /\ n \in Nat
      /\ Nothing.kind = "nothing" /\ Nothing # Empty /\ One(Nothing) = 0 /\ One(Empty) = 0
      /\ Empty.kind = "empty" /\ Empty \in Items
      /\ Passed \in Nat /\ One(b.cur) \in {0, 1} /\ Held(b, n) \in {0, 1} /\ One(b.item) \in {0, 1}
  BY AttemptOf
<1>2. /\ b.reader # "done"
      /\ b.cur # Nothing => b.reader = "wrap"
      /\ b.reader = "boot" => InBootstrap(b)
      /\ b.reader = "wrap" => InWrapper(b, n) /\ ~b.failed
      /\ b.reader = "discard" => Discarded(b) /\ b.bad # 1
      /\ b.sent \in Nat /\ a.sent \in Nat
  BY <1>1 DEF Sound, InWrapper, Discarded, Ended, Attempt
<1>3. /\ Produced(b, a, n) /\ att' = [att EXCEPT ![n] = a]
      /\ a.reader = b.reader /\ a.buffered = b.buffered /\ a.cur = b.cur /\ a.failed = b.failed
      /\ a.good = b.good /\ a.bad = b.bad
      /\ a.prod = "send" <=> a.item # Nothing
      /\ a.item.kind = "data" => a.item.att = n /\ a.item.num = a.sent /\ a.sent > 0
      /\ a.item.kind = "err" => a.upstream \in {"failed", "aborted"}
      /\ a.sent = b.sent - One(b.item) + One(a.item)
      /\ a.item = Empty => b.reader = "boot" /\ b.buffered = <<>>
      /\ a.prod = "ended" => a.upstream \in {"complete", "aborted"}
  BY DEF Produced
<1> HIDE DEF b
<1>4. Held(a, n) = Held(b, n) /\ One(a.item) \in {0, 1}
  BY <1>3 DEF Held, One
<1>5. b.reader = "boot" => InBootstrap(a)
  BY <1>1, <1>2, <1>3, <1>4 DEF InBootstrap
<1>6. b.reader = "wrap" => InWrapper(a, n)
  <2>1. HAVE b.reader = "wrap"
  <2>2. InWrapper(b, n) /\ ~b.failed
    BY <1>2, <2>1
  <2>3. b.sent - One(b.item) = a.sent - One(a.item)
    BY <1>1, <1>2, <1>3, <1>4
  <2>4. b.sent = 1 + One(b.item) => a.sent = 1 + One(a.item)
    BY <1>1, <1>2, <1>3, <1>4
  <2> QED
    BY <1>3, <1>4, <2>1, <2>2, <2>3, <2>4 DEF InWrapper
<1>7. b.reader = "discard" => Discarded(a)
  BY <1>2, <1>3 DEF Discarded
<1>8. Sound(a, n)
  BY <1>2, <1>3, <1>5, <1>6, <1>7 DEF Sound
<1>9. Position(b, n) => Position(a, n)
  <2>1. HAVE Position(b, n)
  <2>2. b.reader = "wrap" => a.sent = Passed + One(a.cur) + Held(a, n) + One(a.item)
    <3>1. HAVE b.reader = "wrap"
    <3>2. b.sent = Passed + One(b.cur) + Held(b, n) + One(b.item)
      BY <1>1, <1>2, <2>1, <3>1 DEF Position
    <3> QED
      BY <1>1, <1>2, <1>3, <1>4, <3>2
  <2> QED
    BY <1>2, <1>3, <2>1, <2>2 DEF Position
<1>10. RecordedAt(b, n) => RecordedAt(a, n)
  BY <1>3 DEF RecordedAt
<1> QED
  BY <1>1, <1>2, <1>3, <1>8, <1>9, <1>10, AttemptStep DEF b

LEMMA KeepsProdRead ==
  ASSUME IInv, NEW n \in DOMAIN att, ProdRead(n)
  PROVE  IInv'
<1> DEFINE b == att[n]
<1>1. /\ b \in Attempt /\ Sound(b, n) /\ b.prod = "read" /\ othersSame /\ att \in Seq(Attempt) /\ n \in Nat
      /\ Nothing.kind = "nothing" /\ Nothing # Empty /\ One(Nothing) = 0 /\ One(Empty) = 0
      /\ Empty.kind = "empty" /\ Empty \in Items
  BY AttemptOf DEF ProdRead, othersSame
<1>2. b.item = Nothing /\ b.sent \in Nat
  BY <1>1 DEF Sound, Attempt
<1> HIDE DEF b
<1>3. ASSUME NEW a \in Attempt, att' = [att EXCEPT ![n] = a],
             a.reader = b.reader, a.buffered = b.buffered, a.cur = b.cur, a.failed = b.failed,
             a.good = b.good, a.bad = b.bad,
             a.prod = "send" <=> a.item # Nothing,
             a.item.kind = "data" => a.item.att = n /\ a.item.num = a.sent /\ a.sent > 0,
             a.item.kind = "err" => a.upstream \in {"failed", "aborted"},
             a.sent = b.sent + One(a.item),
             a.item = Empty => b.reader = "boot" /\ b.buffered = <<>>,
             a.prod = "ended" => a.upstream \in {"complete", "aborted"}
      PROVE  IInv'
  <2>1. a.sent = b.sent - One(b.item) + One(a.item)
    BY <1>1, <1>2, <1>3
  <2>2. Produced(b, a, n)
    BY <1>3, <2>1 DEF Produced
  <2> QED
    BY <1>1, <1>3, <2>2, ProducerStep DEF b
<1>4. \A p \in {"send", "ended"}, x \in Items, k \in 0..MaxChunks,
         u \in {"open", "complete", "failed", "aborted"} : ReadFrom(b, p, x, k, u)
  BY <1>1, ReadingFields
<1>5. /\ b.sent \in 0..MaxChunks /\ b.upstream \in {"open", "complete", "failed", "aborted"}
      /\ Nothing \in Items /\ b = [b EXCEPT !.sent = b.sent] /\ b = [b EXCEPT !.upstream = b.upstream]
      /\ b = [b EXCEPT !.item = Nothing]
  BY <1>1, <1>2 DEF Attempt, Items
<1>6. CASE /\ b.sent < MaxChunks
           /\ att' = [att EXCEPT ![n].prod = "send", ![n].item = Data(n, b.sent + 1),
                                 ![n].sent = @ + 1]
  <2> DEFINE x == Data(n, b.sent + 1)
             a == Reading(b, "send", x, b.sent + 1, b.upstream)
  <2>1. /\ x \in Items /\ x.kind = "data" /\ x.att = n /\ x.num = b.sent + 1 /\ b.sent + 1 \in 0..MaxChunks
        /\ x # Nothing /\ x # Empty /\ One(x) = 1
    BY <1>1, <1>2, <1>6, StreamAssumption DEF Data, Items, Chunks, One
  <2>2. att' = [att EXCEPT ![n] = a]
    BY <1>1, <1>6 DEF b, Attempt, Reading
  <2> HIDE DEF x
  <2>3. /\ a \in Attempt /\ a.prod = "send" /\ a.item = x /\ a.sent = b.sent + 1
        /\ a.reader = b.reader /\ a.buffered = b.buffered /\ a.cur = b.cur
        /\ a.failed = b.failed /\ a.good = b.good /\ a.bad = b.bad
    BY <1>4, <1>5, <2>1 DEF ReadFrom
  <2> HIDE DEF a
  <2>4. /\ a.sent = b.sent + One(a.item) /\ a.sent > 0 /\ a.item.num = a.sent /\ a.item.att = n
        /\ a.item.kind \notin {"err"} /\ a.item # Empty /\ (a.prod = "send" <=> a.item # Nothing)
        /\ a.prod = "ended" => a.upstream \in {"complete", "aborted"}
    BY <1>2, <2>1, <2>3
  <2> QED
    BY <1>3, <2>2, <2>3, <2>4
<1>7. CASE /\ b.reader = "boot" /\ b.buffered = <<>> /\ b.sent = 0
           /\ att' = [att EXCEPT ![n].prod = "send", ![n].item = Empty]
  <2> DEFINE a == Reading(b, "send", Empty, b.sent, b.upstream)
  <2>1. att' = [att EXCEPT ![n] = a]
    BY <1>1, <1>7 DEF b, Attempt, Reading
  <2>2. /\ a \in Attempt /\ a.prod = "send" /\ a.item = Empty /\ a.sent = b.sent
        /\ a.reader = b.reader /\ a.buffered = b.buffered /\ a.cur = b.cur
        /\ a.failed = b.failed /\ a.good = b.good /\ a.bad = b.bad
    BY <1>1, <1>4, <1>5 DEF ReadFrom
  <2> HIDE DEF a
  <2>9. /\ a.sent = b.sent + One(a.item) /\ a.item.kind \notin {"data", "err"} /\ (a.prod = "send" <=> a.item # Nothing)
        /\ a.prod = "ended" => a.upstream \in {"complete", "aborted"}
    BY <1>1, <1>2, <2>2
  <2> QED
    BY <1>1, <1>2, <1>3, <1>7, <2>1, <2>2, <2>9
<1>8. ASSUME NEW e \in Errors, NEW u \in {"failed", "aborted"},
             att' = [att EXCEPT ![n].prod = "send", ![n].item = Err(e), ![n].upstream = u]
      PROVE  IInv'
  <2> DEFINE a == Reading(b, "send", Err(e), b.sent, u)
  <2>1. Err(e) \in Items /\ Err(e).kind = "err" /\ Err(e) # Nothing /\ Err(e) # Empty /\ One(Err(e)) = 0
    BY <1>1, Kinds DEF Items, One
  <2>2. att' = [att EXCEPT ![n] = a]
    BY <1>1, <1>8 DEF b, Attempt, Reading
  <2>3. /\ a \in Attempt /\ a.prod = "send" /\ a.item = Err(e) /\ a.sent = b.sent /\ a.upstream = u
        /\ a.reader = b.reader /\ a.buffered = b.buffered /\ a.cur = b.cur
        /\ a.failed = b.failed /\ a.good = b.good /\ a.bad = b.bad
    BY <1>4, <1>5, <2>1 DEF ReadFrom
  <2> HIDE DEF a
  <2>9. /\ a.sent = b.sent + One(a.item) /\ a.item.kind \notin {"data"} /\ (a.prod = "send" <=> a.item # Nothing)
        /\ a.prod = "ended" => a.upstream \in {"complete", "aborted"}
    BY <1>1, <1>2, <2>1, <2>3
  <2> QED
    BY <1>2, <1>3, <2>1, <2>2, <2>3, <2>9
<1>9. ASSUME NEW u \in {"complete", "aborted"},
             att' = [att EXCEPT ![n].prod = "ended", ![n].upstream = u]
      PROVE  IInv'
  <2> DEFINE a == Reading(b, "ended", Nothing, b.sent, u)
  <2>1. att' = [att EXCEPT ![n] = a]
    BY <1>1, <1>2, <1>9 DEF b, Attempt, Reading
  <2>2. /\ a \in Attempt /\ a.prod = "ended" /\ a.item = Nothing /\ a.sent = b.sent /\ a.upstream = u
        /\ a.reader = b.reader /\ a.buffered = b.buffered /\ a.cur = b.cur
        /\ a.failed = b.failed /\ a.good = b.good /\ a.bad = b.bad
    BY <1>4, <1>5 DEF ReadFrom
  <2> HIDE DEF a
  <2>9. /\ a.sent = b.sent + One(a.item) /\ a.item.kind \notin {"data", "err"} /\ (a.prod = "send" <=> a.item # Nothing)
        /\ a.prod = "ended" => a.upstream \in {"complete", "aborted"}
    BY <1>1, <1>2, <2>2
  <2> QED
    BY <1>1, <1>2, <1>3, <2>1, <2>2, <2>9
<1> QED
  BY <1>6, <1>7, <1>8, <1>9 DEF ProdRead, b, Errors

LEMMA KeepsProdGivesUp ==
  ASSUME IInv, NEW n \in DOMAIN att, ProdGivesUp(n)
  PROVE  IInv'
<1> DEFINE b == att[n]
           k == b.sent - One(b.item)
           a == Reading(b, "ended", Nothing, k, "aborted")
<1>1. /\ b \in Attempt /\ Sound(b, n) /\ b.prod = "send" /\ othersSame /\ att \in Seq(Attempt)
      /\ Nothing.kind = "nothing" /\ Nothing # Empty /\ One(Nothing) = 0 /\ Nothing \in Items
  BY AttemptOf DEF ProdGivesUp, othersSame
<1>2. b.sent \in 0..MaxChunks /\ (b.item.kind = "data" => b.sent > 0)
  BY <1>1 DEF Sound, Attempt
<1>3. k \in 0..MaxChunks /\ k = IF b.item.kind = "data" THEN b.sent - 1 ELSE b.sent
  BY <1>2, StreamAssumption DEF One
<1>4. att' = [att EXCEPT ![n] = a]
  BY <1>1, <1>3 DEF ProdGivesUp, Reading, Attempt
<1> HIDE DEF b, k
<1>5. /\ a \in Attempt /\ a.prod = "ended" /\ a.item = Nothing /\ a.sent = k /\ a.upstream = "aborted"
      /\ a.reader = b.reader /\ a.buffered = b.buffered /\ a.cur = b.cur
      /\ a.failed = b.failed /\ a.good = b.good /\ a.bad = b.bad
  <2>1. \A p \in {"send", "ended"}, x \in Items, i \in 0..MaxChunks,
           u \in {"open", "complete", "failed", "aborted"} : ReadFrom(b, p, x, i, u)
    BY <1>1, ReadingFields
  <2>2. ReadFrom(b, "ended", Nothing, k, "aborted")
    BY <1>1, <1>3, <2>1
  <2> QED
    BY <2>2 DEF ReadFrom
<1> HIDE DEF a
<1>6. a.sent = b.sent - One(b.item) + One(a.item)
  BY <1>1, <1>2, <1>3, <1>5 DEF k
<1>7. Produced(b, a, n)
  BY <1>1, <1>5, <1>6 DEF Produced
<1> QED
  BY <1>1, <1>4, <1>5, <1>7, ProducerStep DEF b

(* The wrapper takes a chunk x.                                            *)
LEMMA HoldingFields ==
  ASSUME NEW c \in Attempt, NEW x \in Items, c.bad + 1 \in Nat
  PROVE  /\ Holding(c, x) \in Attempt /\ Holding(c, x).cur = x
         /\ Holding(c, x).prod = c.prod /\ Holding(c, x).item = c.item /\ Holding(c, x).sent = c.sent
         /\ Holding(c, x).upstream = c.upstream /\ Holding(c, x).reader = c.reader
         /\ Holding(c, x).buffered = c.buffered /\ Holding(c, x).good = c.good
         /\ Holding(c, x).failed = (c.failed \/ x.kind = "err")
         /\ Holding(c, x).bad = IF x.kind = "err" /\ ~c.failed THEN c.bad + 1 ELSE c.bad
<1>1. CASE x.kind = "err" /\ ~c.failed
  <2> DEFINE a == [c EXCEPT !.cur = x, !.failed = TRUE, !.bad = c.bad + 1]
  <2>1. Holding(c, x) = a
    BY <1>1 DEF Holding
  <2>2. /\ a \in Attempt /\ a.cur = x
        /\ a.prod = c.prod /\ a.item = c.item /\ a.sent = c.sent /\ a.upstream = c.upstream
        /\ a.reader = c.reader /\ a.buffered = c.buffered /\ a.good = c.good
        /\ a.failed = TRUE /\ a.bad = c.bad + 1
    BY DEF Attempt
  <2> HIDE DEF a
  <2> QED
    BY <1>1, <2>1, <2>2
<1>2. CASE ~(x.kind = "err" /\ ~c.failed)
  <2> DEFINE a == [c EXCEPT !.cur = x]
  <2>1. Holding(c, x) = a
    BY <1>2 DEF Holding
  <2>2. /\ a \in Attempt /\ a.cur = x
        /\ a.prod = c.prod /\ a.item = c.item /\ a.sent = c.sent /\ a.upstream = c.upstream
        /\ a.reader = c.reader /\ a.buffered = c.buffered /\ a.good = c.good
        /\ a.failed = c.failed /\ a.bad = c.bad
    BY DEF Attempt
  <2>3. c.failed \in BOOLEAN
    BY DEF Attempt
  <2> HIDE DEF a
  <2> QED
    BY <1>2, <2>1, <2>2, <2>3
<1> QED
  BY <1>1, <1>2

LEMMA KeepsWrapTake ==
  ASSUME IInv, NEW n \in DOMAIN att, WrapTake(n)
  PROVE  IInv'
<1> DEFINE b == att[n]
<1>1. /\ b \in Attempt /\ Sound(b, n) /\ b.reader = "wrap" /\ b.cur = Nothing /\ othersSame
      /\ att \in Seq(Attempt) /\ n \in Nat
      /\ Nothing.kind = "nothing" /\ Empty.kind = "empty" /\ Nothing # Empty
      /\ One(Nothing) = 0 /\ One(Empty) = 0 /\ Empty \in Items
      /\ Passed \in Nat /\ One(b.item) \in {0, 1} /\ Held(b, n) \in {0, 1}
  BY AttemptOf DEF WrapTake, othersSame
<1>2. /\ InWrapper(b, n)
      /\ b.prod = "send" <=> b.item # Nothing
      /\ b.item.kind = "data" => b.item.att = n /\ b.item.num = b.sent /\ b.sent > 0
      /\ b.item.kind = "err" => b.upstream \in {"failed", "aborted"}
      /\ b.sent \in Nat
  BY <1>1 DEF Sound, Attempt
<1>3. /\ b.good = 0 /\ b.bad = IF b.failed THEN 1 ELSE 0
      /\ b.buffered \in NoData \cup First(n) /\ b.item # Empty
      /\ b.failed => /\ b.prod = "ended" /\ b.buffered = <<>>
                     /\ b.upstream \in {"failed", "aborted"}
      /\ b.prod = "ended" /\ ~b.failed => b.upstream \in {"complete", "aborted"}
      /\ Held(b, n) = 1 => b.sent = 1 + One(b.item)
  BY <1>2 DEF InWrapper
<1>4. b.failed \in BOOLEAN /\ b.bad + 1 \in Nat /\ b.bad \in Nat /\ b.item \in Items
  BY <1>1 DEF Attempt
<1>5. Position(b, n) => b.sent = Passed + Held(b, n) + One(b.item) /\ ~b.failed
  BY <1>1, <1>2 DEF Position
<1> HIDE DEF b
<1>6. CASE /\ b.buffered # <<>>
           /\ att' = [att EXCEPT ![n] = Holding([b EXCEPT !.buffered = Tail(b.buffered)], Head(b.buffered))]
  <2> DEFINE c == [b EXCEPT !.buffered = Tail(b.buffered)]
             x == Head(b.buffered)
             a == Holding(c, x)
  <2>1. ~b.failed
    BY <1>3, <1>6
  <2>2. \/ x = Empty /\ Tail(b.buffered) = <<>> /\ Held(b, n) = 0
        \/ x = Data(n, 1) /\ Tail(b.buffered) = <<>> /\ Held(b, n) = 1
        \/ x = Empty /\ Tail(b.buffered) \in First(n) /\ Held(b, n) = 1
    BY <1>1, <1>3, <1>6, Buffers DEF NoData, Held
  <2>3. x \in Items /\ x.kind # "err" /\ x # Nothing
    BY <1>1, <2>2, Kinds DEF Items, Data
  <2>4. Tail(b.buffered) \in Seq(Items)
    BY <1>1, <1>6 DEF Attempt
  <2>5. /\ c \in Attempt /\ c.buffered = Tail(b.buffered)
        /\ c.prod = b.prod /\ c.item = b.item /\ c.sent = b.sent /\ c.upstream = b.upstream
        /\ c.reader = b.reader /\ c.good = b.good /\ c.failed = b.failed /\ c.bad = b.bad
    BY <1>1, <2>4 DEF Attempt
  <2>6. att' = [att EXCEPT ![n] = a]
    BY <1>6
  <2> HIDE DEF c, x
  <2>7. /\ a \in Attempt /\ a.cur = x /\ a.buffered = Tail(b.buffered)
        /\ a.prod = b.prod /\ a.item = b.item /\ a.sent = b.sent /\ a.upstream = b.upstream
        /\ a.reader = "wrap" /\ a.good = 0 /\ ~a.failed /\ a.bad = 0
    BY <1>1, <1>3, <1>4, <2>1, <2>3, <2>5, HoldingFields
  <2> HIDE DEF a
  <2>8. \/ a.cur = Empty /\ a.buffered = <<>> /\ Held(a, n) = 0 /\ One(a.cur) = 0 /\ Held(b, n) = 0
        \/ a.cur = Data(n, 1) /\ a.buffered = <<>> /\ Held(a, n) = 0 /\ One(a.cur) = 1 /\ Held(b, n) = 1
        \/ a.cur = Empty /\ a.buffered \in First(n) /\ Held(a, n) = 1 /\ One(a.cur) = 0 /\ Held(b, n) = 1
    <3>1. One(Data(n, 1)) = 1
      BY DEF One, Data
    <3> QED
      BY <1>1, <2>2, <2>7, <3>1, Buffers DEF Held
  <2>9. InWrapper(a, n)
    <3>1. a.cur.kind = "data" => a.cur.att = n /\ a.cur.num = 1 /\ Held(b, n) = 1 /\ Held(a, n) = 0
      BY <1>1, <2>8 DEF Data
    <3>2. a.cur.kind = "data" => 1 = a.sent - One(a.item)
      BY <1>1, <1>2, <1>3, <2>7, <3>1
    <3>3. a.buffered \in NoData \cup First(n)
      BY <2>8 DEF NoData
    <3>4. Held(a, n) = 1 => a.sent = 1 + One(a.item)
      BY <1>3, <2>7, <2>8
    <3>5. a.cur.kind # "err"
      BY <2>3, <2>7
    <3> QED
      BY <1>3, <1>4, <2>1, <2>7, <3>1, <3>2, <3>3, <3>4, <3>5 DEF InWrapper
  <2>10. Sound(a, n)
    BY <1>2, <2>7, <2>9 DEF Sound
  <2>11. Position(b, n) => Position(a, n)
    <3>1. HAVE Position(b, n)
    <3>2. b.sent = Passed + Held(b, n) + One(b.item)
      BY <1>5, <3>1
    <3>3. a.sent = Passed + One(a.cur) + Held(a, n) + One(a.item)
      BY <1>1, <2>7, <2>8, <3>2
    <3> QED
      BY <2>7, <3>3 DEF Position
  <2>12. RecordedAt(b, n) => RecordedAt(a, n)
    BY <1>1, <2>1, <2>7 DEF RecordedAt
  <2> QED
    BY <1>1, <2>6, <2>7, <2>10, <2>11, <2>12, AttemptStep DEF b
<1>7. CASE /\ b.buffered = <<>> /\ b.prod = "send"
           /\ att' = [att EXCEPT ![n] = Holding(Taken(n), @.item)]
  <2> DEFINE c == Taken(n)
             a == Holding(c, b.item)
  <2>1. ~b.failed /\ b.bad = 0
    BY <1>3, <1>7
  <2>2. /\ c \in Attempt /\ c.item = Nothing
        /\ c.prod = IF b.item.kind = "err" THEN "ended" ELSE "read"
        /\ c.sent = b.sent /\ c.upstream = b.upstream /\ c.reader = b.reader
        /\ c.buffered = b.buffered /\ c.failed = b.failed /\ c.good = b.good /\ c.bad = b.bad
    BY <1>1, TakenIs DEF b
  <2>3. att' = [att EXCEPT ![n] = a]
    BY <1>7 DEF b
  <2> HIDE DEF c
  <2>4. /\ a \in Attempt /\ a.cur = b.item /\ a.item = Nothing /\ a.prod = c.prod
        /\ a.sent = b.sent /\ a.upstream = b.upstream /\ a.reader = "wrap" /\ a.buffered = <<>>
        /\ a.good = 0 /\ a.failed = (b.item.kind = "err") /\ a.bad = IF b.item.kind = "err" THEN 1 ELSE 0
    BY <1>1, <1>3, <1>4, <1>7, <2>1, <2>2, HoldingFields
  <2> HIDE DEF a
  <2>5. Held(a, n) = 0 /\ Held(b, n) = 0
    BY <1>1, <1>7, <2>4, Buffers DEF Held
  <2>6. InWrapper(a, n)
    <3>1. a.cur.kind = "data" => a.cur.num = a.sent - One(a.item)
      BY <1>1, <1>2, <2>4
    <3>2. a.prod = "ended" <=> b.item.kind = "err"
      BY <2>2, <2>4
    <3>3. a.failed <=> b.item.kind = "err"
      BY <2>4
    <3>4. /\ a.item # Empty /\ a.buffered \in NoData /\ Held(a, n) # 1
          /\ a.bad = IF a.failed THEN 1 ELSE 0
      BY <1>1, <2>4, <2>5, <3>3 DEF NoData
    <3>5. a.cur.kind = "data" => a.cur.att = n
      BY <1>2, <2>4
    <3>6. a.failed => a.prod = "ended" /\ a.buffered = <<>> /\ a.upstream \in {"failed", "aborted"}
      BY <1>2, <2>4, <3>2, <3>3
    <3> QED
      BY <2>4, <2>5, <3>1, <3>2, <3>3, <3>4, <3>5, <3>6 DEF InWrapper
  <2>7. Sound(a, n)
    BY <1>1, <2>2, <2>4, <2>6 DEF Sound
  <2>8. Position(b, n) => Position(a, n)
    <3>1. HAVE Position(b, n)
    <3>2. b.sent = Passed + One(b.item)
      BY <1>1, <1>5, <2>5, <3>1
    <3>3. a.sent = Passed + One(a.cur) + Held(a, n) + One(a.item)
      BY <1>1, <2>4, <2>5, <3>2
    <3> QED
      BY <2>4, <3>3 DEF Position
  <2>9. RecordedAt(b, n) => RecordedAt(a, n)
    BY <1>1, <2>1, <2>4 DEF RecordedAt
  <2> QED
    BY <1>1, <2>3, <2>4, <2>7, <2>8, <2>9, AttemptStep DEF b
<1>8. CASE /\ b.buffered = <<>> /\ b.prod = "ended"
           /\ att' = [att EXCEPT ![n].reader = "done", ![n].good = IF b.failed THEN @ ELSE @ + 1]
  <2> DEFINE g == IF b.failed THEN 0 ELSE 1
             a == [b EXCEPT !.reader = "done", !.good = g]
  <2>1. g \in Nat
    OBVIOUS
  <2>2. att' = [att EXCEPT ![n] = a]
    <3>1. att' = [att EXCEPT ![n] = [b EXCEPT !.reader = "done",
                                             !.good = IF b.failed THEN b.good ELSE b.good + 1]]
      BY <1>1, <1>8 DEF b, Attempt
    <3>2. (IF b.failed THEN b.good ELSE b.good + 1) = g
      BY <1>3
    <3> QED
      BY <3>1, <3>2
  <2> HIDE DEF g
  <2>3. a \in Attempt
    BY <1>1, <2>1 DEF Attempt
  <2>4. /\ a.reader = "done" /\ a.good = g /\ a.bad = b.bad /\ a.item = b.item /\ a.prod = b.prod
        /\ a.cur = b.cur /\ a.sent = b.sent /\ a.upstream = b.upstream
    BY <1>1 DEF Attempt
  <2> HIDE DEF a
  <2>5. a.good + a.bad = 1 /\ (a.good = 1 <=> ~b.failed) /\ (a.bad = 1 => b.failed)
    BY <1>3, <2>4 DEF g
  <2>6. b.item = Nothing /\ Held(b, n) = 0
    BY <1>1, <1>2, <1>8, Buffers DEF Held
  <2>7. Sound(a, n)
    BY <1>1, <1>3, <1>8, <2>4, <2>5, <2>6 DEF Sound, Ended
  <2>8. Position(b, n) => Position(a, n)
    <3>1. HAVE Position(b, n)
    <3>2. a.sent = Passed /\ a.good = 1
      BY <1>1, <1>5, <2>4, <2>5, <2>6, <3>1
    <3> QED
      BY <2>4, <3>2 DEF Position
  <2>9. RecordedAt(b, n) => RecordedAt(a, n)
    BY <2>4, <2>5 DEF RecordedAt
  <2> QED
    BY <1>1, <2>2, <2>3, <2>4, <2>7, <2>8, <2>9, AttemptStep DEF b
<1> QED
  <2>1. \/ /\ b.buffered # <<>>
           /\ att' = [att EXCEPT ![n] = Holding([att[n] EXCEPT !.buffered = Tail(att[n].buffered)],
                                                Head(att[n].buffered))]
        \/ /\ b.buffered = <<>> /\ b.prod = "send"
           /\ att' = [att EXCEPT ![n] = Holding(Taken(n), att[n].item)]
        \/ /\ b.buffered = <<>> /\ b.prod = "ended"
           /\ att' = [att EXCEPT ![n].reader = "done",
                                 ![n].good = IF att[n].failed THEN @ ELSE @ + 1]
    BY DEF WrapTake, b
  <2> QED
    BY <1>6, <1>7, <1>8, <2>1 DEF b

LEMMA KeepsWrapAbandon ==
  ASSUME IInv, NEW n \in DOMAIN att, WrapAbandon(n)
  PROVE  IInv'
<1> DEFINE b == att[n]
           a == [b EXCEPT !.reader = "discard", !.cur = Nothing]
<1>1. /\ b \in Attempt /\ Sound(b, n) /\ b.cur # Nothing /\ cancelled /\ othersSame
      /\ att \in Seq(Attempt) /\ Nothing \in Items
      /\ att' = [att EXCEPT ![n].reader = "discard", ![n].cur = Nothing]
  BY AttemptOf DEF WrapAbandon, othersSame
<1>2. a \in Attempt
  BY <1>1 DEF Attempt
<1>3. /\ a.reader = "discard" /\ a.cur = Nothing /\ a.item = b.item /\ a.prod = b.prod
      /\ a.upstream = b.upstream /\ a.sent = b.sent /\ a.good = b.good /\ a.bad = b.bad
  BY <1>1 DEF Attempt
<1>4. att' = [att EXCEPT ![n] = a]
  BY <1>1 DEF Attempt
<1> HIDE DEF a, b
<1>5. b.reader = "wrap" /\ InWrapper(b, n) /\ b.failed \in BOOLEAN
  BY <1>1 DEF Sound, Attempt
<1>6. Sound(a, n)
  BY <1>1, <1>3, <1>5 DEF Sound, InWrapper, Discarded
<1>7. (Position(b, n) => Position(a, n)) /\ (RecordedAt(b, n) => RecordedAt(a, n))
  BY <1>1, <1>3, <1>5 DEF Position, RecordedAt, InWrapper
<1> QED
  BY <1>1, <1>2, <1>3, <1>4, <1>5, <1>6, <1>7, AttemptStep DEF b

-----------------------------------------------------------------------------
(* The handler's goroutine *)

(* While it runs, no run of Execute is under way and no response is over   *)
(* as a good one.                                                          *)
LEMMA HandlerRuns ==
  ASSUME IInv, h.pc \in {"read", "senddata", "senderr", "close", "closeData"}
  PROVE  /\ call.pc = "idle" /\ streaming /\ w.pc # "call" /\ ~Over /\ ~dataClosed
         /\ h \in HandlerType /\ h.item.kind # "empty" /\ call \in CallType /\ call.attempted <= call.tried
  BY DEF IInv, Types, Rest, Control, Marks

(* What handling an error does: the handler waits for another run, or has  *)
(* the error in hand.                                                      *)
LEMMA HandleErrDoes ==
  ASSUME IInv, h.pc = "read", NEW e \in Errors, HandleErr(e), UNCHANGED <<callElse, w, errChan, cancelled>>
  PROVE  /\ Rest' /\ Control'
         /\ \/ h'.pc = "retry"
            \/ h'.pc = "senderr" /\ h'.src = h.src
         /\ call'.pc # "boot"
<1>1. /\ call.pc = "idle" /\ streaming /\ w.pc # "call" /\ ~dataClosed /\ h \in HandlerType
      /\ call \in CallType /\ call.attempted <= call.tried
      /\ Rest /\ Control
  BY HandlerRuns DEF IInv, Types
<1>2. Err(e) \in Items /\ Err(e).kind = "err"
  BY Kinds DEF Items
<1>3. CASE ~h.sent /\ h.retries < BootstrapRetries /\ Eligible(e)
  <2> DEFINE g == [h EXCEPT !.pc = "retry", !.retries = h.retries + 1]
  <2>1. h' = g /\ call' = Round(0)
    BY <1>3 DEF HandleErr
  <2>2. h.retries + 1 \in 0..BootstrapRetries
    BY <1>1, <1>3, StreamAssumption DEF HandlerType
  <2>3. g \in HandlerType /\ g.pc = "retry" /\ g.sent = h.sent /\ g.item = h.item
    BY <1>1, <2>2 DEF HandlerType
  <2>4. /\ Round(0) \in CallType /\ Round(0).pc = "pick" /\ Round(0).attempted <= Round(0).tried
        /\ ~Round(0).boot
    BY FreshCalls, StreamAssumption
  <2> HIDE DEF g
  <2>5. Rest'
    BY <1>1, <2>1, <2>3, <2>4 DEF Rest, Flags, callElse
  <2>6. Control'
    BY <1>1, <1>3, <2>1, <2>3, <2>4 DEF Control, callElse
  <2> QED
    BY <2>1, <2>3, <2>4, <2>5, <2>6
<1>4. CASE ~(~h.sent /\ h.retries < BootstrapRetries /\ Eligible(e))
  <2> DEFINE g == [h EXCEPT !.pc = "senderr", !.item = Err(e)]
  <2>1. h' = g /\ UNCHANGED call
    BY <1>4 DEF HandleErr
  <2>2. g \in HandlerType /\ g.pc = "senderr" /\ g.sent = h.sent /\ g.item = Err(e) /\ g.src = h.src
    BY <1>1, <1>2 DEF HandlerType
  <2> HIDE DEF g
  <2>3. Rest'
    BY <1>1, <1>2, <2>1, <2>2 DEF Rest, Flags, callElse
  <2>4. Control'
    BY <1>1, <1>2, <2>1, <2>2 DEF Control, callElse
  <2> QED
    BY <1>1, <2>1, <2>2, <2>3, <2>4
<1> QED
  BY <1>3, <1>4

LEMMA KeepsHandlerTakeError ==
  ASSUME IInv, HandlerTakeError
  PROVE  IInv'
<1>1. /\ h.pc = "read" /\ h.src.kind = "errstream" /\ HandleErr(h.src.err)
      /\ UNCHANGED <<callElse, att, w, errChan, cancelled>>
  BY DEF HandlerTakeError
<1>2. /\ Types /\ Attempts /\ Follows /\ Marks /\ call.pc = "idle" /\ streaming /\ ~Over /\ h.src \in Sources
  BY <1>1, HandlerRuns DEF IInv, HandlerType
<1>3. h.src.err \in Errors
  BY <1>1, <1>2 DEF Sources, Nothing
<1>4. /\ Rest' /\ Control' /\ h'.pc \in {"retry", "senderr"} /\ call'.pc # "boot"
  BY <1>1, <1>3, HandleErrDoes
<1>5. Types' /\ Attempts'
  BY <1>1, <1>2, <1>4, AttemptsSame DEF Types
<1>6. Follows'
  BY <1>1, <1>2, <1>4 DEF Follows, Reads, OneAttemptDelivered, callElse
<1>7. Recorded => Recorded'
  BY <1>1 DEF Recorded, RecordedAt, Owned
<1>8. Marks'
  BY <1>1, <1>2, <1>4, <1>7 DEF Marks, Over, callElse
<1> QED
  BY <1>4, <1>5, <1>6, <1>8 DEF IInv

LEMMA KeepsHandlerTake ==
  ASSUME IInv, HandlerTake
  PROVE  IInv'
<1> DEFINE b == att[Latest]
           a == [b EXCEPT !.cur = Nothing]
<1>1. /\ h.pc = "read" /\ h.src.kind = "att" /\ Reads
      /\ att[h.src.att].cur # Nothing
      /\ att' = [att EXCEPT ![h.src.att].cur = Nothing]
      /\ UNCHANGED <<callElse, w, errChan, cancelled>>
  BY DEF HandlerTake, Reads
<1>2. /\ Types /\ Rest /\ Control /\ Attempts /\ Follows /\ Marks /\ call.pc = "idle" /\ streaming
      /\ ~Over /\ w.pc # "call" /\ ~dataClosed /\ h \in HandlerType /\ h.item.kind # "empty"
      /\ call \in CallType /\ delivered \in Seq(Chunks)
  BY <1>1, HandlerRuns DEF IInv, Types, Rest
<1>3. /\ h.src.att = Latest /\ Latest \in DOMAIN att
      /\ \A k \in DOMAIN delivered : delivered[k] = Data(Latest, k)
      /\ Position(b, Latest) /\ Passed = Len(delivered)
  BY <1>1, <1>2 DEF Follows, Passed
<1>4. /\ b \in Attempt /\ Sound(b, Latest) /\ b.cur # Nothing /\ b.reader = "wrap" /\ InWrapper(b, Latest)
      /\ Nothing.kind = "nothing" /\ One(Nothing) = 0 /\ Nothing \in Items /\ b.cur \in Items
      /\ Passed \in Nat /\ One(b.item) \in {0, 1} /\ Held(b, Latest) \in {0, 1} /\ b.sent \in Nat
  <2>1. /\ b \in Attempt /\ Sound(b, Latest)
        /\ Nothing.kind = "nothing" /\ One(Nothing) = 0 /\ Nothing \in Items
        /\ Passed \in Nat /\ One(b.item) \in {0, 1} /\ Held(b, Latest) \in {0, 1}
    BY <1>3, AttemptOf
  <2>2. b.cur # Nothing
    BY <1>1, <1>3
  <2> HIDE DEF b
  <2>3. b.reader = "wrap" /\ InWrapper(b, Latest)
    BY <2>1, <2>2 DEF Sound
  <2> QED
    BY <2>1, <2>2, <2>3 DEF Attempt
<1>5. a \in Attempt
  BY <1>4 DEF Attempt
<1>6. /\ a.cur = Nothing /\ a.reader = "wrap" /\ a.item = b.item /\ a.prod = b.prod /\ a.sent = b.sent
      /\ a.upstream = b.upstream /\ a.buffered = b.buffered /\ a.failed = b.failed
      /\ a.good = b.good /\ a.bad = b.bad
  BY <1>4 DEF Attempt
<1>7. att' = [att EXCEPT ![Latest] = a]
  BY <1>1, <1>3
<1> HIDE DEF a
<1>8. Held(a, Latest) = Held(b, Latest)
  BY <1>6 DEF Held
<1>9. Sound(a, Latest)
  BY <1>4, <1>6, <1>8 DEF Sound, InWrapper
<1>10. ASSUME call'.pc # "boot"
       PROVE  /\ Attempts' /\ att' \in Seq(Attempt) /\ Len(att') = Len(att) /\ DOMAIN att' = DOMAIN att
              /\ att'[Latest] = a /\ Latest' = Latest
              /\ \A m \in DOMAIN att : m # Latest => att'[m] = att[m]
  <2>1. /\ Attempts' /\ att' \in Seq(Attempt) /\ Len(att') = Len(att) /\ DOMAIN att' = DOMAIN att
        /\ att'[Latest] = a
        /\ \A m \in DOMAIN att : m # Latest => att'[m] = att[m]
    BY <1>2, <1>3, <1>4, <1>5, <1>6, <1>7, <1>9, <1>10, AttemptsOne
  <2> QED
    BY <2>1 DEF Latest
<1>11. OneAttemptDelivered'
  BY <1>1, <1>2 DEF Follows, OneAttemptDelivered, callElse
<1>12. ASSUME call'.pc # "boot", h'.src = h.src, h'.pc \notin {"none", "retry"}
       PROVE  Recorded => Recorded'
  <2>1. HAVE Recorded
  <2>2. ASSUME NEW m \in DOMAIN att'
        PROVE  RecordedAt(att[m], m)'
    <3>1. m \in DOMAIN att /\ RecordedAt(att[m], m)
      BY <1>10, <1>12, <2>1 DEF Recorded
    <3>2. Owned(m) => Owned(m)'
      BY <1>12 DEF Owned
    <3>3. /\ att'[m].reader = att[m].reader /\ att'[m].failed = att[m].failed
          /\ att'[m].good = att[m].good /\ att'[m].bad = att[m].bad
      <4>1. CASE m = Latest
        <5>1. att'[m] = a
          BY <1>10, <1>12, <4>1
        <5>2. att[m] = b
          BY <4>1
        <5> HIDE DEF b
        <5> QED
          BY <1>4, <1>6, <5>1, <5>2
      <4>2. CASE m # Latest
        BY <1>10, <1>12, <3>1, <4>2
      <4> QED
        BY <4>1, <4>2
    <3> QED
      BY <1>1, <3>1, <3>2, <3>3 DEF RecordedAt
  <2> QED
    BY <2>2 DEF Recorded
<1>13. b.sent = Passed + One(b.cur) + Held(b, Latest) + One(b.item) /\ (b.failed => b.cur.kind = "err")
  BY <1>3, <1>4 DEF Position
<1>14. CASE b.cur.kind = "err" /\ HandleErr(b.cur.err)
  <2>1. b.cur.err \in Errors
    BY <1>4, <1>14, Kinds
  <2>2. /\ Rest' /\ Control' /\ call'.pc # "boot"
        /\ h'.pc = "retry" \/ (h'.pc = "senderr" /\ h'.src = h.src)
    BY <1>1, <1>14, <2>1, HandleErrDoes
  <2>3. Follows'
    BY <1>11, <2>2 DEF Follows, Reads
  <2>4. Recorded => Recorded'
    <3>1. CASE h'.pc = "retry"
      <4>1. HAVE Recorded
      <4>2. b.failed
        BY <1>4, <1>14 DEF InWrapper
      <4>3. ASSUME NEW m \in DOMAIN att'
            PROVE  RecordedAt(att[m], m)'
        <5>1. CASE m = Latest
          BY <1>6, <1>10, <2>2, <4>2, <5>1 DEF RecordedAt
        <5>2. CASE m # Latest
          <6>1. m \in DOMAIN att /\ att'[m] = att[m] /\ RecordedAt(att[m], m) /\ ~Owned(m)
            BY <1>3, <1>10, <2>2, <4>1, <5>2 DEF Recorded, Owned
          <6> QED
            BY <6>1 DEF RecordedAt
        <5> QED
          BY <5>1, <5>2
      <4> QED
        BY <4>3 DEF Recorded
    <3>2. CASE h'.pc = "senderr" /\ h'.src = h.src
      BY <1>12, <2>2, <3>2
    <3> QED
      BY <2>2, <3>1, <3>2
  <2>5. Marks'
    BY <1>1, <1>2, <2>2, <2>4 DEF Marks, Over, callElse
  <2> QED
    BY <1>10, <2>2, <2>3, <2>5 DEF IInv, Types
<1>15. CASE b.cur.kind = "data" /\ HandleData(b.cur)
  <2>1. /\ call' = call /\ b.cur.att = Latest /\ b.cur.num = Passed + 1 /\ Held(b, Latest) = 0
        /\ b.cur = Data(Latest, Passed + 1) /\ One(b.cur) = 1
    <3>1. b.cur.att = Latest /\ b.cur.num = b.sent - One(b.item) /\ Held(b, Latest) = 0 /\ One(b.cur) = 1
      BY <1>4, <1>15 DEF InWrapper, One
    <3>2. b.cur.num = Passed + 1
      BY <1>4, <1>13, <3>1
    <3>3. b.cur = Data(b.cur.att, b.cur.num)
      BY <1>4, <1>15, Kinds
    <3> QED
      BY <1>15, <3>1, <3>2, <3>3 DEF HandleData
  <2>2. CASE h' = [h EXCEPT !.pc = "senddata", !.item = b.cur, !.sent = TRUE]
    <3>1. /\ h' \in HandlerType /\ h'.pc = "senddata" /\ h'.item = b.cur /\ h'.sent = TRUE /\ h'.src = h.src
      BY <1>2, <1>4, <2>2 DEF HandlerType
    <3>2. Rest'
      BY <1>1, <1>2, <1>15, <2>1, <3>1 DEF Rest, Flags, callElse
    <3>3. Control'
      BY <1>1, <1>2, <1>15, <2>1, <3>1 DEF Control, callElse
    <3>4. call'.pc # "boot"
      BY <1>2, <2>1
    <3>5. Passed' = Passed + 1 /\ Passed' \in Nat
      BY <1>1, <1>3, <1>4, <3>1 DEF Passed, callElse
    <3>6. Position(att[Latest], Latest)'
      <4>1. a.sent = (Passed + 1) + One(a.cur) + Held(a, Latest) + One(a.item)
        BY <1>4, <1>6, <1>8, <1>13, <2>1
      <4>2. ~a.failed
        BY <1>6, <1>13, <1>15
      <4>3. att'[Latest'] = a /\ Latest' = Latest
        BY <1>10, <3>4
      <4> QED
        BY <1>6, <3>5, <4>1, <4>2, <4>3 DEF Position
    <3>7. Follows'
      <4>1. h'.src.att = Latest' /\ Latest' \in DOMAIN att'
        BY <1>3, <1>10, <3>1, <3>4
      <4>2. \A k \in DOMAIN delivered' : delivered'[k] = Data(Latest', k)
        BY <1>1, <1>3, <1>10, <3>4 DEF callElse
      <4>3. h'.item = Data(Latest', Passed')
        BY <1>10, <2>1, <3>1, <3>4, <3>5
      <4> QED
        BY <1>11, <3>6, <4>1, <4>2, <4>3 DEF Follows
    <3>8. Recorded => Recorded'
      BY <1>12, <3>1, <3>4
    <3>9. Marks'
      BY <1>1, <1>2, <3>1, <3>8 DEF Marks, Over, callElse
    <3> QED
      BY <1>10, <3>2, <3>3, <3>4, <3>7, <3>9 DEF IInv, Types
  <2>3. CASE h' = [h EXCEPT !.pc = "senderr", !.item = Err("other")]
    <3>1. Err("other") \in Items /\ Err("other").kind = "err"
      BY Kinds DEF Items, Errors, UpstreamErrors
    <3>2. /\ h' \in HandlerType /\ h'.pc = "senderr" /\ h'.item = Err("other") /\ h'.sent = h.sent
          /\ h'.src = h.src
      BY <1>2, <2>3, <3>1 DEF HandlerType
    <3>3. Rest'
      BY <1>1, <1>2, <2>1, <3>1, <3>2 DEF Rest, Flags, callElse
    <3>4. Control'
      BY <1>1, <1>2, <2>1, <3>1, <3>2 DEF Control, callElse
    <3>5. call'.pc # "boot"
      BY <1>2, <2>1
    <3>6. Follows'
      BY <1>11, <3>2 DEF Follows, Reads
    <3>7. Recorded => Recorded'
      BY <1>12, <3>2, <3>5
    <3>8. Marks'
      BY <1>1, <1>2, <3>2, <3>7 DEF Marks, Over, callElse
    <3> QED
      BY <1>10, <3>3, <3>4, <3>5, <3>6, <3>8 DEF IInv, Types
  <2> QED
    BY <1>15, <2>2, <2>3 DEF HandleData
<1>16. CASE b.cur.kind = "empty" /\ UNCHANGED <<h, call>>
  <2>1. One(b.cur) = 0 /\ ~b.failed
    BY <1>13, <1>16 DEF One
  <2>2. Rest' /\ Control' /\ call'.pc # "boot" /\ Passed' = Passed
    BY <1>1, <1>2, <1>16 DEF Rest, Flags, Control, Passed, callElse
  <2>3. Position(att[Latest], Latest)'
    <3>1. a.sent = Passed + One(a.cur) + Held(a, Latest) + One(a.item)
      BY <1>4, <1>6, <1>8, <1>13, <2>1
    <3>2. att'[Latest'] = a /\ Latest' = Latest
      BY <1>10, <2>2
    <3> QED
      BY <1>6, <2>1, <2>2, <3>1, <3>2 DEF Position
  <2>4. Follows'
    <3>1. h'.src.att = Latest' /\ Latest' \in DOMAIN att' /\ h'.pc = "read"
      BY <1>1, <1>3, <1>10, <1>16, <2>2
    <3>2. \A k \in DOMAIN delivered' : delivered'[k] = Data(Latest', k)
      BY <1>1, <1>3, <1>10, <2>2 DEF callElse
    <3> QED
      BY <1>11, <2>3, <3>1, <3>2 DEF Follows
  <2>5. Recorded => Recorded'
    BY <1>1, <1>12, <1>16, <2>2
  <2>6. Marks'
    BY <1>1, <1>2, <1>16, <2>5 DEF Marks, Over, callElse
  <2> QED
    BY <1>10, <2>2, <2>4, <2>6 DEF IInv, Types
<1> QED
  <2>1. LET item == b.cur IN
          \/ item.kind = "err" /\ HandleErr(item.err)
          \/ item.kind = "data" /\ HandleData(item)
          \/ item.kind = "empty" /\ UNCHANGED <<h, call>>
    BY <1>3 DEF HandlerTake
  <2> QED
    BY <1>14, <1>15, <1>16, <2>1

(* A step that leaves the attempts and the run alone, and after which the  *)
(* handler still has the same stream.                                      *)
LEMMA SameAttempts ==
  ASSUME IInv, UNCHANGED <<att, call>>
  PROVE  /\ att' \in Seq(Attempt) /\ Attempts' /\ Latest' = Latest
         /\ h'.src = h.src /\ h.pc \notin {"none", "retry"} /\ h'.pc \notin {"none", "retry"}
            /\ cancelled' = cancelled /\ Recorded => Recorded'
  BY AttemptsSame DEF IInv, Types, Latest, Recorded, RecordedAt, Owned

LEMMA KeepsHandlerStops ==
  ASSUME IInv, Uncut, HandlerStops
  PROVE  IInv'
<1> DEFINE g == [h EXCEPT !.pc = "close", !.item = Nothing]
<1>1. /\ h.pc \in {"read", "senddata", "senderr"}
      /\ ~cancelled => h.pc = "read" /\ h.src.kind = "att" /\ att[h.src.att].reader \in {"discard", "done"}
      /\ h' = g /\ UNCHANGED <<callElse, call, att, w, errChan, cancelled>>
  BY DEF HandlerStops, Finish
<1>2. /\ Types /\ Rest /\ Control /\ Follows /\ Marks /\ call.pc = "idle" /\ streaming
      /\ ~Over /\ w.pc # "call" /\ ~dataClosed /\ h \in HandlerType
  BY <1>1, HandlerRuns DEF IInv, Types
<1>3. Nothing \in Items /\ Nothing.kind = "nothing"
  BY DEF Items, Nothing
<1>4. g \in HandlerType /\ g.pc = "close" /\ g.item = Nothing /\ g.sent = h.sent /\ g.src = h.src
  BY <1>2, <1>3 DEF HandlerType
<1> HIDE DEF g
<1>5. Rest' /\ Control'
  BY <1>1, <1>2, <1>3, <1>4 DEF Rest, Flags, Control, callElse
<1>6. att' \in Seq(Attempt) /\ Attempts' /\ Latest' = Latest /\ (Recorded => Recorded')
  BY <1>1, <1>4, SameAttempts
<1>7. Follows'
  BY <1>1, <1>2, <1>4 DEF Follows, Reads, OneAttemptDelivered, callElse
<1>8. ~cancelled => Whole'
  <2>1. HAVE ~cancelled
  <2>2. Reads /\ Passed = Len(delivered) + 0 /\ delivered \in Seq(Chunks)
    BY <1>1, <1>2, <2>1 DEF Reads, Passed, Rest
  <2>3. /\ h.src.att = Latest /\ Latest \in DOMAIN att
        /\ \A k \in DOMAIN delivered : delivered[k] = Data(Latest, k)
        /\ Position(att[Latest], Latest)
    BY <1>2, <2>2 DEF Follows
  <2>4. /\ att[Latest].reader = "done" /\ att[Latest].sent = Passed /\ att[Latest].good = 1
    BY <1>1, <2>1, <2>3 DEF Position
  <2>5. Len(delivered) = att[Latest].sent
    BY <2>2, <2>4
  <2>6. att[Latest].upstream = "complete"
    <3>1. Sound(att[Latest], Latest) /\ att[Latest].upstream # "aborted"
      BY <2>1, <2>3, AttemptOf DEF Uncut
    <3> QED
      BY <2>4, <3>1 DEF Sound, Ended
  <2> QED
    BY <1>1, <1>4, <1>6, <2>1, <2>3, <2>4, <2>5, <2>6 DEF Whole, callElse
<1>9. Marks'
  BY <1>1, <1>2, <1>4, <1>6, <1>8 DEF Marks, Over, callElse
<1> QED
  BY <1>5, <1>6, <1>7, <1>9 DEF IInv, Types

LEMMA KeepsHandlerSendErr ==
  ASSUME IInv, HandlerSendErr
  PROVE  IInv'
<1> DEFINE g == [h EXCEPT !.pc = "close", !.item = Nothing]
           ec == [errChan EXCEPT !.content = h.item]
<1>1. /\ h.pc = "senderr" /\ errChan' = ec
      /\ h' = g /\ UNCHANGED <<callElse, call, att, w, cancelled>>
  BY DEF HandlerSendErr, Finish
<1>2. /\ Types /\ Rest /\ Control /\ Follows /\ Marks /\ call.pc = "idle" /\ streaming
      /\ ~Over /\ w.pc # "call" /\ ~dataClosed /\ h \in HandlerType
      /\ errChan \in [content : {Nothing} \cup Failures, closed : BOOLEAN]
  BY <1>1, HandlerRuns DEF IInv, Types, Rest
<1>3. Nothing \in Items /\ Nothing.kind = "nothing" /\ h.item \in Failures /\ h.item # Nothing
  <2>1. h.item.kind = "err" /\ h.item \in Items
    BY <1>1, <1>2 DEF Control, HandlerType
  <2> QED
    BY <2>1, Kinds DEF Items
<1>4. g \in HandlerType /\ g.pc = "close" /\ g.item = Nothing /\ g.sent = h.sent /\ g.src = h.src
  BY <1>2, <1>3 DEF HandlerType
<1>5. ec \in [content : {Nothing} \cup Failures, closed : BOOLEAN] /\ ec.content # Nothing
  BY <1>2, <1>3
<1> HIDE DEF g, ec
<1>6. Rest' /\ Control'
  BY <1>1, <1>2, <1>3, <1>4, <1>5 DEF Rest, Flags, Control, callElse
<1>7. att' \in Seq(Attempt) /\ Attempts' /\ (Recorded => Recorded')
  BY <1>1, <1>4, SameAttempts
<1>8. Follows'
  BY <1>1, <1>2, <1>4 DEF Follows, Reads, OneAttemptDelivered, callElse
<1>9. Marks'
  BY <1>1, <1>2, <1>4, <1>5, <1>7 DEF Marks, Over, Pending, callElse
<1> QED
  BY <1>6, <1>7, <1>8, <1>9 DEF IInv, Types

LEMMA KeepsHandlerCloses ==
  ASSUME IInv, HandlerCloses
  PROVE  IInv'
<1>1. /\ h.pc \in {"close", "closeData"} /\ UNCHANGED <<streaming, delivered, gone, call, att, w, cancelled>>
      /\ h' = [h EXCEPT !.pc = IF h.pc = "close" THEN "closeData" ELSE "done"]
      /\ IF h.pc = "close" THEN errChan' = [errChan EXCEPT !.closed = TRUE] /\ UNCHANGED dataClosed
         ELSE dataClosed' = TRUE /\ UNCHANGED errChan
  BY DEF HandlerCloses, callElse
<1>2. /\ Types /\ Rest /\ Control /\ Follows /\ Marks /\ call.pc = "idle" /\ streaming
      /\ ~Over /\ w.pc # "call" /\ ~dataClosed /\ h \in HandlerType
      /\ errChan \in [content : {Nothing} \cup Failures, closed : BOOLEAN]
      /\ h.item.kind # "empty"
  BY <1>1, HandlerRuns DEF IInv, Types, Rest
<1> DEFINE p == IF h.pc = "close" THEN "closeData" ELSE "done"
           g == [h EXCEPT !.pc = p]
<1>3. p \in {"closeData", "done"} /\ h' = g /\ (h.pc = "closeData" <=> p = "done")
  BY <1>1
<1> HIDE DEF p
<1>4. g \in HandlerType /\ g.pc = p /\ g.item = h.item /\ g.sent = h.sent /\ g.src = h.src
  BY <1>2, <1>3 DEF HandlerType
<1> HIDE DEF g
<1>5. errChan' \in [content : {Nothing} \cup Failures, closed : BOOLEAN] /\ errChan'.content = errChan.content
  BY <1>1, <1>2
<1>6. dataClosed' \in BOOLEAN /\ (dataClosed' => p = "done")
  <2>1. CASE h.pc = "close"
    BY <1>1, <1>2, <2>1 DEF Rest, Flags
  <2>2. CASE h.pc = "closeData"
    BY <1>1, <1>3, <2>2
  <2> QED
    BY <1>1, <2>1, <2>2
<1>7. Rest'
  BY <1>1, <1>2, <1>3, <1>4, <1>5, <1>6 DEF Rest, Flags
<1>8. Control'
  BY <1>1, <1>2, <1>3, <1>4, <1>6 DEF Control
<1>9. att' \in Seq(Attempt) /\ Attempts' /\ Latest' = Latest /\ (Recorded => Recorded')
  BY <1>1, <1>3, <1>4, SameAttempts
<1>10. Follows'
  BY <1>1, <1>2, <1>3, <1>4 DEF Follows, Reads, OneAttemptDelivered
<1>11. (Pending => Pending') /\ (Whole => Whole')
  BY <1>1, <1>3, <1>4, <1>5, <1>9 DEF Pending, Whole
<1>12. Marks'
  BY <1>1, <1>2, <1>3, <1>4, <1>9, <1>11 DEF Marks, Over
<1> QED
  BY <1>7, <1>8, <1>9, <1>10, <1>12 DEF IInv, Types

-----------------------------------------------------------------------------
(* The writer and the client *)

LEMMA KeepsWriterData ==
  ASSUME IInv, WriterData
  PROVE  IInv'
<1> DEFINE g == [h EXCEPT !.pc = "read", !.item = Nothing]
           v == [w EXCEPT !.pc = "forward"]
<1>1. /\ w.pc \in {"peek", "forward"} /\ h.pc = "senddata" /\ delivered' = Append(delivered, h.item)
      /\ h' = g /\ w' = v
      /\ UNCHANGED <<streaming, dataClosed, gone, call, att, errChan, cancelled>>
  BY DEF WriterData
<1>2. /\ Types /\ Rest /\ Control /\ Follows /\ Marks /\ call.pc = "idle" /\ streaming
      /\ ~Over /\ ~dataClosed /\ h \in HandlerType /\ w \in WriterType /\ delivered \in Seq(Chunks)
  BY <1>1, HandlerRuns DEF IInv, Types, Rest
<1>3. Nothing \in Items /\ Nothing.kind = "nothing"
  BY DEF Items, Nothing
<1>4. /\ g \in HandlerType /\ g.pc = "read" /\ g.item = Nothing /\ g.sent = h.sent /\ g.src = h.src
      /\ v \in WriterType /\ v.pc = "forward" /\ v.outcome = w.outcome
  BY <1>2, <1>3 DEF HandlerType, WriterType
<1> HIDE DEF g, v
<1>5. h.src.kind = "att" /\ h.item.kind = "data" /\ h.sent /\ h.item \in Chunks /\ Reads
  <2>1. h.src.kind = "att" /\ h.item.kind = "data" /\ h.sent /\ h.item \in Items
    BY <1>1, <1>2 DEF Control, HandlerType
  <2> QED
    BY <1>1, <2>1, Kinds DEF Reads
<1>6. /\ delivered' \in Seq(Chunks) /\ delivered' # <<>> /\ Len(delivered') = Len(delivered) + 1
      /\ DOMAIN delivered' = 1..(Len(delivered) + 1) /\ DOMAIN delivered = 1..Len(delivered)
      /\ Len(delivered) \in Nat
      /\ \A k \in DOMAIN delivered : delivered'[k] = delivered[k]
      /\ delivered'[Len(delivered) + 1] = h.item
  BY <1>1, <1>2, <1>5
<1>7. Rest'
  BY <1>1, <1>2, <1>3, <1>4, <1>6 DEF Rest, Flags
<1>8. Control'
  BY <1>1, <1>2, <1>3, <1>4, <1>5, <1>6 DEF Control
<1>9. att' \in Seq(Attempt) /\ Attempts' /\ Latest' = Latest /\ (Recorded => Recorded')
  BY <1>1, <1>4, SameAttempts
<1>10. /\ h.src.att = Latest /\ Latest \in DOMAIN att
       /\ \A k \in DOMAIN delivered : delivered[k] = Data(Latest, k)
       /\ h.item = Data(Latest, Passed)
       /\ Position(att[Latest], Latest) /\ Passed = Len(delivered) + 1
  BY <1>1, <1>2, <1>5 DEF Follows, Passed
<1>11. Passed' = Passed
  BY <1>1, <1>4, <1>6, <1>10 DEF Passed
<1>12. \A k \in DOMAIN delivered' : delivered'[k] = Data(Latest, k)
  <2>1. TAKE k \in DOMAIN delivered'
  <2>2. k \in DOMAIN delivered \/ k = Len(delivered) + 1
    BY <1>6
  <2> QED
    BY <1>6, <1>10, <2>2
<1>13. Follows'
  <2>1. OneAttemptDelivered'
    <3>1. delivered'[1] = Data(Latest, 1)
      BY <1>6, <1>12
    <3>2. delivered'[1].att = Latest
      BY <3>1 DEF Data
    <3> QED
      BY <1>12, <3>2 DEF OneAttemptDelivered
  <2>2. Position(att[Latest], Latest)'
    BY <1>1, <1>9, <1>10, <1>11 DEF Position
  <2> QED
    BY <1>1, <1>4, <1>9, <1>10, <1>12, <2>1, <2>2 DEF Follows
<1>14. Marks'
  BY <1>1, <1>2, <1>4, <1>9 DEF Marks, Over
<1> QED
  BY <1>7, <1>8, <1>9, <1>13, <1>14 DEF IInv, Types

(* The writer ends the response with outcome o.                            *)
LEMMA WriterDone ==
  ASSUME IInv, w.pc \in {"peek", "forward"}, NEW o \in {"ok", "error", "gone"}, Done(o),
         UNCHANGED <<callElse, call, att, h>>,
         errChan' \in [content : {Nothing} \cup Failures, closed : BOOLEAN],
         o = "ok" => errChan' = errChan /\ dataClosed /\ (w.pc = "forward" => ~Pending)
  PROVE  IInv'
<1> DEFINE v == [w EXCEPT !.pc = "done", !.outcome = o]
<1>1. /\ w' = v /\ cancelled' = TRUE
      /\ UNCHANGED <<streaming, dataClosed, delivered, gone, call, att, h>>
  BY DEF Done, callElse
<1>2. /\ Types /\ Rest /\ Control /\ Follows /\ Marks /\ streaming /\ w \in WriterType
      /\ ~gone => ~cancelled
  BY DEF IInv, Types, Rest, Control
<1>3. v \in WriterType /\ v.pc = "done" /\ v.outcome = o
  BY <1>2 DEF WriterType
<1> HIDE DEF v
<1>4. Rest' /\ Control'
  BY <1>1, <1>2, <1>3 DEF Rest, Flags, Control
<1>5. att' \in Seq(Attempt) /\ Attempts' /\ Latest' = Latest
  BY <1>1, SameAttempts
<1>6. Follows'
  <2>1. Position(att[Latest], Latest) => Position(att[Latest], Latest)'
    BY <1>1, <1>5 DEF Position, Passed
  <2>2. OneAttemptDelivered'
    BY <1>1, <1>2 DEF Follows, OneAttemptDelivered
  <2>3. Reads' = Reads /\ Passed' = Passed
    BY <1>1 DEF Reads, Passed
  <2> QED
    BY <1>1, <1>2, <1>5, <2>1, <2>2, <2>3 DEF Follows
<1>7. ASSUME o = "ok", ~gone
      PROVE  /\ h.pc = "done" /\ (Pending' \/ Whole')
             /\ delivered # <<>> => Whole'
             /\ delivered # <<>> => Recorded'
  <2>1. h.pc = "done" /\ (Pending \/ Whole) /\ Recorded
    BY <1>2, <1>7 DEF Control, Marks
  <2>2. (Pending => Pending') /\ (Whole => Whole')
    BY <1>1, <1>5, <1>7 DEF Pending, Whole
  <2>3. delivered # <<>> => Whole
    BY <1>2, <1>7, <2>1 DEF Control
  <2>4. ASSUME Whole
        PROVE  Recorded'
    <3>1. ASSUME NEW m \in DOMAIN att'
          PROVE  RecordedAt(att[m], m)'
      <4>1. m \in DOMAIN att /\ att'[m] = att[m] /\ RecordedAt(att[m], m)
        BY <1>1, <2>1 DEF Recorded
      <4>2. ~(att[m].reader = "wrap" /\ ~att[m].failed)
        BY <2>4, <4>1 DEF RecordedAt, Owned, Whole
      <4> QED
        BY <4>1, <4>2 DEF RecordedAt
    <3> QED
      BY <3>1 DEF Recorded
  <2> QED
    BY <2>1, <2>2, <2>3, <2>4
<1>8. Marks'
  BY <1>1, <1>2, <1>3, <1>7 DEF Marks, Over
<1> QED
  BY <1>4, <1>5, <1>6, <1>8 DEF IInv, Types

LEMMA KeepsWriterEnds ==
  ASSUME IInv, WriterErr \/ WriterEnd \/ WriterGone
  PROVE  IInv'
<1>1. /\ errChan \in [content : {Nothing} \cup Failures, closed : BOOLEAN]
  BY DEF IInv, Types, Rest
<1>2. CASE WriterErr
  <2>1. [errChan EXCEPT !.content = Nothing] \in [content : {Nothing} \cup Failures, closed : BOOLEAN]
    BY <1>1
  <2> QED
    BY <1>2, <2>1, WriterDone DEF WriterErr
<1>3. CASE WriterEnd
  <2>1. CASE w.pc = "forward" /\ errChan.content # Nothing
    BY <1>1, <1>3, <2>1, WriterDone DEF WriterEnd
  <2>2. CASE ~(w.pc = "forward" /\ errChan.content # Nothing)
    BY <1>1, <1>3, <2>2, WriterDone DEF WriterEnd, Pending
  <2> QED
    BY <2>1, <2>2
<1>4. CASE WriterGone
  BY <1>1, <1>4, WriterDone DEF WriterGone
<1> QED
  BY <1>2, <1>3, <1>4

LEMMA KeepsClient ==
  ASSUME IInv, ClientLeaves \/ CancelPassedOn
  PROVE  IInv'
<1>1. /\ UNCHANGED <<streaming, dataClosed, delivered, call, att, h, w, errChan>>
      /\ gone' = TRUE /\ (cancelled => cancelled') /\ cancelled' \in BOOLEAN
      /\ cancelled' = cancelled \/ gone
  BY DEF ClientLeaves, CancelPassedOn, callElse, IInv, Types, Rest, Flags
<1>2. Types /\ Rest /\ Control /\ Follows /\ Marks
  BY DEF IInv, Types
<1>3. Rest' /\ Control'
  BY <1>1, <1>2 DEF Rest, Flags, Control
<1>4. att' \in Seq(Attempt) /\ Attempts' /\ Latest' = Latest
  BY <1>1, SameAttempts
<1>5. Follows'
  <2>1. Position(att[Latest], Latest) => Position(att[Latest], Latest)'
    BY <1>1, <1>4 DEF Position, Passed
  <2>2. OneAttemptDelivered'
    BY <1>1, <1>2 DEF Follows, OneAttemptDelivered
  <2>3. Reads' = Reads /\ Passed' = Passed
    BY <1>1 DEF Reads, Passed
  <2> QED
    BY <1>1, <1>2, <1>4, <2>1, <2>2, <2>3 DEF Follows
<1>6. ~cancelled' => (Recorded => Recorded')
  BY <1>1 DEF Recorded, RecordedAt, Owned
<1>7. (Whole => Whole') /\ (Pending => Pending')
  BY <1>1, <1>4 DEF Whole, Pending
<1>8. Marks'
  BY <1>1, <1>2, <1>6, <1>7 DEF Marks, Over
<1> QED
  BY <1>3, <1>4, <1>5, <1>8 DEF IInv, Types

LEMMA KeepsStutter ==
  ASSUME IInv, UNCHANGED vars
  PROVE  IInv'
<1>1. /\ UNCHANGED <<streaming, call, att, h, errChan, dataClosed, w, delivered, gone, cancelled>>
  BY DEF vars
<1>2. Types /\ Rest /\ Control /\ Attempts /\ Follows /\ Marks
  BY DEF IInv, Types
<1>3. Rest' /\ Control' /\ att' \in Seq(Attempt)
  BY <1>1, <1>2 DEF Rest, Flags, Control, Types
<1>4. Attempts' /\ Latest' = Latest
  BY <1>1, SameAttempts
<1>5. Follows'
  BY <1>1, <1>2, <1>4 DEF Follows, Reads, Passed, Position, OneAttemptDelivered
<1>6. (Recorded => Recorded') /\ (Whole => Whole') /\ (Pending => Pending')
  BY <1>1, <1>4 DEF Recorded, RecordedAt, Owned, Whole, Pending
<1>7. Marks'
  BY <1>1, <1>2, <1>6 DEF Marks, Over
<1> QED
  BY <1>3, <1>4, <1>5, <1>7 DEF IInv, Types

-----------------------------------------------------------------------------
(* The invariant *)

LEMMA Starts ==
  ASSUME Init
  PROVE  IInv
<1>1. /\ streaming \in BOOLEAN /\ call = Round(0) /\ att = <<>>
      /\ h = [pc |-> "none", src |-> Nothing, sent |-> FALSE, retries |-> 0, item |-> Nothing]
      /\ errChan = [content |-> Nothing, closed |-> FALSE] /\ dataClosed = FALSE
      /\ w = [pc |-> "call", outcome |-> "none"] /\ delivered = <<>>
      /\ gone = FALSE /\ cancelled = FALSE
  BY DEF Init
<1>2. /\ Round(0) \in CallType /\ Round(0).pc = "pick" /\ Round(0).attempted <= Round(0).tried
      /\ ~Round(0).boot
  BY FreshCalls, StreamAssumption
<1>3. Nothing \in Items /\ Nothing \in Sources /\ Nothing.kind = "nothing" /\ 0 \in 0..BootstrapRetries
      /\ <<>> \in Seq(Chunks) /\ <<>> \in Seq(Attempt) /\ DOMAIN <<>> = {}
  BY StreamAssumption DEF Items, Sources, Nothing
<1>4. h \in HandlerType /\ h.pc = "none" /\ ~h.sent /\ h.item = Nothing
      /\ w \in WriterType /\ w.pc = "call" /\ w.outcome = "none"
  BY <1>1, <1>3 DEF HandlerType, WriterType
<1>5. Types
  BY <1>1, <1>2, <1>3, <1>4 DEF Types, Rest, Flags
<1>6. Control
  BY <1>1, <1>2, <1>4 DEF Control
<1>7. Attempts
  BY <1>1, <1>2, <1>3 DEF Attempts
<1>8. Follows
  BY <1>1, <1>3, <1>4 DEF Follows, Reads, OneAttemptDelivered
<1>9. Marks
  BY <1>1, <1>3, <1>4 DEF Marks, Over, Recorded
<1> QED
  BY <1>5, <1>6, <1>7, <1>8, <1>9 DEF IInv

LEMMA Steps ==
  ASSUME IInv, Uncut, [Next]_vars
  PROVE  IInv'
<1>1. CASE CallStep
  BY <1>1, KeepsCallStill, KeepsCallExec, KeepsBootstrap DEF CallStep
<1>2. CASE HandlerStep
  BY <1>2, KeepsHandlerTake, KeepsHandlerTakeError, KeepsHandlerStops, KeepsHandlerSendErr,
     KeepsHandlerCloses DEF HandlerStep
<1>3. CASE WriterStep
  BY <1>3, KeepsWriterData, KeepsWriterEnds DEF WriterStep
<1>4. CASE ClientLeaves \/ CancelPassedOn
  BY <1>4, KeepsClient
<1>5. ASSUME NEW n \in DOMAIN att, ProdRead(n) \/ ProdGivesUp(n) \/ Discard(n) \/ WrapStep(n)
      PROVE  IInv'
  BY <1>5, KeepsProdRead, KeepsProdGivesUp, KeepsDiscard, KeepsWrapTake, KeepsWrapAbandon DEF WrapStep
<1>6. CASE UNCHANGED vars
  BY <1>6, KeepsStutter
<1> QED
  BY <1>1, <1>2, <1>3, <1>4, <1>5, <1>6 DEF Next

(* Upstreams are cut short under a cancelled context only, and it stays so. *)
UncutAll == \A n \in DOMAIN att : att[n].upstream # "aborted"

LEMMA UncutOne ==
  ASSUME att \in Seq(Attempt), UncutAll, NEW n \in DOMAIN att, NEW a, a.upstream # "aborted",
         att' = [att EXCEPT ![n] = a]
  PROVE  UncutAll'
BY DEF UncutAll

LEMMA UncutMore ==
  ASSUME att \in Seq(Attempt), UncutAll, NEW a, a.upstream # "aborted", att' = Append(att, a)
  PROVE  UncutAll'
BY DEF UncutAll

LEMMA StaysCancelled ==
  ASSUME [Next]_vars, cancelled \in BOOLEAN, ~cancelled'
  PROVE  ~cancelled
<1>1. ASSUME NEW res, Return(res) PROVE ~cancelled
  BY <1>1 DEF Return
<1>2. ASSUME NEW e, RoundFails(e) PROVE ~cancelled
  BY <1>1, <1>2 DEF RoundFails
<1>3. ASSUME NEW e, NEW b, NextAttempt(e, b) PROVE ~cancelled
  BY <1>2, <1>3 DEF NextAttempt
<1>4. CASE CallStep
  BY <1>1, <1>2, <1>3, <1>4
     DEF CallStep, CallPick, CallExhausted, CallCancelled, CallExec, CallWait, Bootstrap
<1>5. CASE HandlerStep
  BY <1>5 DEF HandlerStep, HandlerTake, HandlerTakeError, HandlerStops, HandlerSendErr, HandlerCloses
<1>6. CASE WriterStep
  BY <1>6 DEF WriterStep, WriterData, WriterErr, WriterEnd, WriterGone, Done
<1>7. CASE ClientLeaves \/ CancelPassedOn
  BY <1>7 DEF ClientLeaves, CancelPassedOn
<1>8. ASSUME NEW n \in DOMAIN att, ProdRead(n) \/ ProdGivesUp(n) \/ Discard(n) \/ WrapStep(n)
      PROVE  ~cancelled
  BY <1>8 DEF ProdRead, ProdGivesUp, Discard, WrapStep, WrapTake, WrapAbandon
<1>9. CASE UNCHANGED vars
  BY <1>9 DEF vars
<1> QED
  BY <1>4, <1>5, <1>6, <1>7, <1>8, <1>9 DEF Next

LEMMA UncutKept ==
  ASSUME IInv, Uncut, [Next]_vars
  PROVE  Uncut'
<1> SUFFICES ASSUME ~cancelled' PROVE UncutAll'
  BY DEF Uncut, UncutAll
<1>1. att \in Seq(Attempt) /\ cancelled \in BOOLEAN
  BY DEF IInv, Types, Rest, Flags
<1>2. ~cancelled /\ UncutAll
  BY <1>1, StaysCancelled DEF Uncut, UncutAll
<1>3. \A n \in DOMAIN att : att[n] \in Attempt
  BY <1>1, Sequence
<1>4. ASSUME NEW n \in DOMAIN att, NEW a, att' = [att EXCEPT ![n] = a], a.upstream = att[n].upstream
      PROVE  UncutAll'
  BY <1>1, <1>2, <1>4, UncutOne DEF UncutAll
<1>5. CASE CallStep
  <2>1. CASE CallExec
    <3>1. PICK a \in {Opened, Answered, Refused(0), Refused(1)} : att' = Append(att, a)
      BY <2>1 DEF CallExec
    <3>2. a.upstream # "aborted"
      <4>1. Opened.upstream = "open" /\ Answered.upstream = "complete"
        BY DEF Opened, Answered
      <4>2. Refused(0).upstream = "failed" /\ Refused(1).upstream = "failed"
        BY DEF Opened, Refused
      <4> QED
        BY <3>1, <4>1, <4>2
    <3> QED
      BY <1>1, <1>2, <3>1, <3>2, UncutMore
  <2>2. CASE Bootstrap
    <3>1. Latest \in DOMAIN att
      BY <2>2 DEF IInv, Attempts, Bootstrap
    <3> DEFINE b == att[Latest]
               t == Taken(Latest)
    <3>2. b \in Attempt /\ t \in Attempt /\ t.upstream = b.upstream
      BY <1>1, <1>3, <3>1, TakenIs
    <3> DEFINE r1 == [t EXCEPT !.reader = "wrap", !.buffered = Append(@, b.item)]
               r2 == [t EXCEPT !.buffered = Append(@, Empty)]
               r3 == [t EXCEPT !.reader = "discard", !.bad = @ + 1]
               r4 == [b EXCEPT !.reader = "done", !.bad = @ + 1]
               r5 == [b EXCEPT !.reader = "wrap"]
               r6 == [b EXCEPT !.reader = "discard"]
    <3>3. \E a \in {r1, r2, r3, r4, r5, r6} : att' = [att EXCEPT ![Latest] = a]
      BY <1>1, <2>2, <3>1, <3>2 DEF Bootstrap, Attempt
    <3> HIDE DEF t
    <3>4. /\ r1.upstream = b.upstream /\ r2.upstream = b.upstream /\ r3.upstream = b.upstream
          /\ r4.upstream = b.upstream /\ r5.upstream = b.upstream /\ r6.upstream = b.upstream
      BY <3>2 DEF Attempt
    <3> HIDE DEF r1, r2, r3, r4, r5, r6
    <3> QED
      BY <1>4, <3>1, <3>3, <3>4
  <2>3. CASE CallPick \/ CallExhausted \/ CallCancelled \/ CallWait
    BY <1>2, <2>3 DEF CallPick, CallExhausted, CallCancelled, CallWait, UncutAll
  <2> QED
    BY <1>5, <2>1, <2>2, <2>3 DEF CallStep
<1>6. CASE HandlerStep
  <2>1. CASE HandlerTake
    <3>1. h.src.att \in DOMAIN att
      BY <2>1 DEF IInv, Follows, Reads, HandlerTake
    <3> DEFINE a == [att[h.src.att] EXCEPT !.cur = Nothing]
    <3>2. att' = [att EXCEPT ![h.src.att] = a]
      BY <2>1 DEF HandlerTake
    <3>3. a.upstream = att[h.src.att].upstream
      BY <1>3, <3>1 DEF Attempt
    <3> HIDE DEF a
    <3> QED
      BY <1>4, <3>1, <3>2, <3>3
  <2>2. CASE ~HandlerTake
    BY <1>2, <1>6, <2>2 DEF HandlerStep, HandlerTakeError, HandlerStops, HandlerSendErr, HandlerCloses, UncutAll
  <2> QED
    BY <2>1, <2>2
<1>7. CASE WriterStep
  BY <1>2, <1>7 DEF WriterStep, WriterData, WriterErr, WriterEnd, WriterGone, UncutAll
<1>8. CASE ClientLeaves \/ CancelPassedOn
  BY <1>2, <1>8 DEF ClientLeaves, CancelPassedOn, UncutAll
<1>9. ASSUME NEW n \in DOMAIN att, ProdRead(n) \/ ProdGivesUp(n) \/ Discard(n) \/ WrapStep(n)
      PROVE  UncutAll'
  <2> DEFINE b == att[n]
             t == Taken(n)
             c == [b EXCEPT !.buffered = Tail(b.buffered)]
  <2>1. /\ b \in Attempt /\ t \in Attempt /\ t.upstream = b.upstream /\ c.upstream = b.upstream
        /\ b.upstream # "aborted"
    BY <1>1, <1>2, <1>3, TakenIs DEF UncutAll, Attempt
  <2>2. ASSUME NEW a, att' = [att EXCEPT ![n] = a], a.upstream # "aborted"
        PROVE  UncutAll'
    BY <1>1, <1>2, <2>2, UncutOne
  <2>3. CASE ProdRead(n)
    <3> DEFINE r1 == [b EXCEPT !.prod = "send", !.item = Data(n, b.sent + 1), !.sent = b.sent + 1]
               r2 == [b EXCEPT !.prod = "send", !.item = Empty]
               r3(e) == [b EXCEPT !.prod = "send", !.item = Err(e), !.upstream = "failed"]
               r4 == [b EXCEPT !.prod = "ended", !.upstream = "complete"]
    <3>1. \/ att' = [att EXCEPT ![n] = r1]
          \/ att' = [att EXCEPT ![n] = r2]
          \/ \E e \in UpstreamErrors : att' = [att EXCEPT ![n] = r3(e)]
          \/ att' = [att EXCEPT ![n] = r4]
      BY <1>2, <2>3 DEF ProdRead
    <3>2. /\ r1.upstream = b.upstream /\ r2.upstream = b.upstream
          /\ \A e : r3(e).upstream = "failed"
          /\ r4.upstream = "complete"
      BY <2>1 DEF Attempt
    <3> HIDE DEF b, r1, r2, r3, r4
    <3> QED
      BY <2>1, <2>2, <3>1, <3>2
  <2>4. CASE Discard(n)
    <3> DEFINE r1 == [b EXCEPT !.reader = "done"]
    <3>1. att' = [att EXCEPT ![n] = t] \/ att' = [att EXCEPT ![n] = r1]
      BY <1>1, <2>1, <2>4 DEF Discard
    <3>2. r1.upstream = b.upstream
      BY <2>1 DEF Attempt
    <3> HIDE DEF b, t, r1
    <3> QED
      BY <2>1, <2>2, <3>1, <3>2
  <2>5. CASE WrapTake(n)
    <3> DEFINE r1(k) == [b EXCEPT !.reader = "done", !.good = k]
    <3>1. \/ \E x : att' = [att EXCEPT ![n] = Holding(c, x)]
          \/ \E x : att' = [att EXCEPT ![n] = Holding(t, x)]
          \/ \E k : att' = [att EXCEPT ![n] = r1(k)]
      <4>1. CASE att' = [att EXCEPT ![n] = Holding([att[n] EXCEPT !.buffered = Tail(@)],
                                                   Head(@.buffered))]
        BY <4>1
      <4>2. CASE att' = [att EXCEPT ![n] = Holding(Taken(n), @.item)]
        BY <4>2
      <4>3. CASE att' = [att EXCEPT ![n].reader = "done",
                                    ![n].good = IF att[n].failed THEN @ ELSE @ + 1]
        <5>1. att' = [att EXCEPT ![n] = r1(IF b.failed THEN b.good ELSE b.good + 1)]
          BY <1>1, <2>1, <4>3
        <5> QED
          BY <5>1
      <4> QED
        BY <2>5, <4>1, <4>2, <4>3 DEF WrapTake
    <3>2. /\ \A x : Holding(c, x).upstream = b.upstream
          /\ \A k : r1(k).upstream = b.upstream
      BY <2>1 DEF Attempt, Holding
    <3> HIDE DEF b, c
    <3>3. \A x : Holding(t, x).upstream = b.upstream
      <4> HIDE DEF t
      <4> QED
        BY <2>1 DEF Attempt, Holding
    <3> HIDE DEF t, r1
    <3> QED
      BY <2>1, <2>2, <3>1, <3>2, <3>3
  <2>6. CASE ProdGivesUp(n) \/ WrapAbandon(n)
    BY <1>2, <2>6 DEF ProdGivesUp, WrapAbandon
  <2> QED
    BY <1>9, <2>3, <2>4, <2>5, <2>6 DEF WrapStep
<1>10. CASE UNCHANGED vars
  BY <1>2, <1>10 DEF vars, UncutAll
<1> QED
  BY <1>5, <1>6, <1>7, <1>8, <1>9, <1>10 DEF Next

LEMMA Invariance == Spec => []IInv
<1>1. Init => IInv /\ Uncut
  <2>1. Init => Uncut
    BY DEF Init, Uncut
  <2> QED
    BY <2>1, Starts
<1>2. IInv /\ Uncut /\ [Next]_vars => (IInv /\ Uncut)'
  BY Steps, UncutKept
<1> QED
  BY <1>1, <1>2, PTL DEF Spec

-----------------------------------------------------------------------------
(* The theorems *)

(* Every variable holds what the code could hold there: the counters of a  *)
(* run and of the handler stay within their limits, and a producer has a   *)
(* chunk in hand exactly while it waits to send it.                        *)
THEOREM TypeCorrect == Spec => []TypeOK
<1>1. IInv => TypeOK
  <2> SUFFICES ASSUME IInv PROVE TypeOK
    OBVIOUS
  <2>1. Types /\ Rest /\ Control /\ Attempts
    BY DEF IInv, Types
  <2>2. /\ streaming \in BOOLEAN /\ gone \in BOOLEAN /\ cancelled \in BOOLEAN /\ dataClosed \in BOOLEAN
    BY <2>1 DEF Rest, Flags
  <2>3. /\ call.pc \in {"idle", "pick", "exec", "boot", "wait"} /\ call.round \in 0..RequestRetry
        /\ call.tried \in 0..NumAuths /\ call.attempted \in 0..call.tried /\ call.left \in 0..PoolSize
    <3>1. /\ call.pc \in {"idle", "pick", "exec", "boot", "wait"} /\ call.round \in 0..RequestRetry
          /\ call.tried \in 0..NumAuths /\ call.attempted \in 0..NumAuths /\ call.left \in 0..PoolSize
          /\ call.attempted <= call.tried
      BY <2>1 DEF Rest, CallType
    <3> QED
      BY <3>1, StreamAssumption
  <2>4. /\ h.pc \in {"none", "read", "retry", "senddata", "senderr", "close", "closeData", "done"}
        /\ h.retries \in 0..BootstrapRetries /\ h.item \in Items /\ h.item.kind # "empty"
    BY <2>1 DEF Rest, HandlerType
  <2>5. h.item.kind \in {"nothing", "data", "err"}
    BY <2>4, Kinds
  <2>6. errChan.content.kind \in {"nothing", "err"} /\ errChan.closed \in BOOLEAN
    <3>1. errChan.content \in {Nothing} \cup Failures /\ errChan.closed \in BOOLEAN
      BY <2>1 DEF Rest
    <3> QED
      BY <3>1 DEF Nothing, Failures
  <2>7. w.pc \in {"call", "peek", "forward", "done"} /\ w.outcome \in {"none", "ok", "error", "gone"}
    BY <2>1 DEF Rest, WriterType
  <2>8. ASSUME NEW n \in DOMAIN att
        PROVE  /\ att[n].prod \in {"read", "send", "ended"} /\ att[n].sent \in 0..MaxChunks
               /\ att[n].prod = "send" <=> att[n].item # Nothing
               /\ att[n].reader \in {"boot", "wrap", "discard", "done"}
               /\ att[n].upstream \in {"open", "complete", "failed", "aborted"}
    <3>1. att[n] \in Attempt /\ Sound(att[n], n)
      BY <2>1, AttemptOf
    <3> QED
      BY <3>1 DEF Attempt, Sound
  <2> QED
    BY <2>2, <2>3, <2>4, <2>5, <2>6, <2>7, <2>8 DEF TypeOK
<1> QED
  BY <1>1, Invariance, PTL

(* Whatever the goroutines, the retries and the credentials do, the client *)
(* gets the beginning of the stream of one attempt: no chunk of another    *)
(* attempt, none twice, none left out.                                     *)
THEOREM DeliveredInOrder == Spec => []OneAttemptDelivered
<1>1. IInv => OneAttemptDelivered
  BY DEF IInv, Follows
<1> QED
  BY <1>1, Invariance, PTL

(* No attempt is marked twice, however it was read and given up, and when  *)
(* the client has its response to the end, every attempt has its result.   *)
THEOREM RecordedCorrectly == Spec => []RecordedOnce
<1>1. IInv => RecordedOnce
  <2> SUFFICES ASSUME IInv PROVE RecordedOnce
    OBVIOUS
  <2>1. ASSUME NEW n \in DOMAIN att
        PROVE  att[n].good + att[n].bad <= 1
    <3> DEFINE b == att[n]
    <3>1. b \in Attempt /\ Sound(b, n)
      BY AttemptOf
    <3> HIDE DEF b
    <3>2. b.good \in Nat /\ b.bad \in Nat /\ b.reader \in {"boot", "wrap", "discard", "done"}
      BY <3>1 DEF Attempt
    <3>3. b.good + b.bad <= 1
      BY <3>1, <3>2 DEF Sound, InBootstrap, InWrapper, Discarded, Ended
    <3> QED
      BY <3>3 DEF b
  <2>2. ASSUME AllEnded, ~gone, w.outcome = "ok", streaming => delivered # <<>>
        PROVE  \A n \in DOMAIN att : att[n].good + att[n].bad = 1
    <3>1. Recorded
      BY <2>2 DEF IInv, Marks, Over
    <3> QED
      BY <2>2, <3>1 DEF Recorded, RecordedAt, AllEnded
  <2> QED
    BY <2>1, <2>2 DEF RecordedOnce
<1> QED
  BY <1>1, Invariance, PTL

(* A credential is marked for what its upstream did: a success only for a  *)
(* stream that came to its end, a failure only for one that failed or had  *)
(* no chunk; and either of them for one that the cancelled request cut     *)
(* short.                                                                  *)
THEOREM ResultsTrue == Spec => []ResultTrue
<1>1. IInv => ResultTrue
  <2> SUFFICES ASSUME IInv, NEW n \in DOMAIN att
               PROVE  /\ att[n].good = 1 => att[n].upstream \in {"complete", "aborted"}
                      /\ att[n].bad = 1 => \/ att[n].upstream \in {"failed", "aborted"}
                                           \/ att[n].upstream = "complete" /\ att[n].sent = 0
    BY DEF ResultTrue
  <2> DEFINE b == att[n]
  <2>1. b \in Attempt /\ Sound(b, n)
    BY AttemptOf
  <2> HIDE DEF b
  <2>2. b.good \in Nat /\ b.bad \in Nat /\ b.reader \in {"boot", "wrap", "discard", "done"}
    BY <2>1 DEF Attempt
  <2>3. /\ b.good = 1 => b.upstream \in {"complete", "aborted"}
        /\ b.bad = 1 => b.upstream \in {"failed", "aborted"} \/ (b.upstream = "complete" /\ b.sent = 0)
    BY <2>1, <2>2 DEF Sound, InBootstrap, InWrapper, Discarded, Ended
  <2> QED
    BY <2>3 DEF b
<1> QED
  BY <1>1, Invariance, PTL

(* A streaming response that ends well while the client is there is the    *)
(* whole stream of an attempt marked a success; the one exception is the   *)
(* empty stream of the peek that overlooks an error in errChan.            *)
THEOREM CompleteWhenOk == Spec => []OkIsComplete
<1>1. IInv => OkIsComplete
  <2> SUFFICES ASSUME IInv, Over
               PROVE  \/ /\ delivered # <<>>
                         /\ att[delivered[1].att].good = 1
                         /\ att[delivered[1].att].upstream = "complete"
                         /\ Len(delivered) = att[delivered[1].att].sent
                      \/ /\ delivered = <<>>
                         /\ \/ errChan.content # Nothing
                            \/ /\ att[Latest].good = 1 /\ att[Latest].sent = 0
                               /\ att[Latest].upstream = "complete"
    BY DEF OkIsComplete, Over
  <2>1. (IF delivered = <<>> THEN Pending \/ Whole ELSE Whole) /\ delivered \in Seq(Chunks)
    BY DEF IInv, Marks, Types, Rest
  <2>2. CASE delivered # <<>>
    <3>1. Whole /\ 1 \in DOMAIN delivered
      BY <2>1, <2>2
    <3>2. delivered[1] = Data(Latest, 1)
      BY <3>1 DEF Whole
    <3>3. delivered[1].att = Latest
      BY <3>2 DEF Data
    <3> QED
      BY <2>2, <3>1, <3>3 DEF Whole
  <2>3. CASE delivered = <<>>
    <3>1. Len(delivered) = 0
      BY <2>3
    <3> QED
      BY <2>1, <2>3, <3>1 DEF Whole, Pending
  <2> QED
    BY <2>2, <2>3
<1> QED
  BY <1>1, Invariance, PTL
==============================================================================
