--------------------------- MODULE StreamExecution ---------------------------
(***************************************************************************)
(* One client request on its way through the program: the attempts of      *)
(* Manager.Execute and Manager.ExecuteStream (sdk/cliproxy/auth), the      *)
(* goroutine of ExecuteStreamWithAuthManager (sdk/api/handlers) and the    *)
(* response writer, and for a streaming request the chain of unbuffered    *)
(* channels from the upstream to the client:                               *)
(*                                                                         *)
(*   producer --> wrapper --> handler --> writer --> client                *)
(*                                                                         *)
(* An attempt is one call of an executor.  Its producer reads the upstream *)
(* and sends chunks; the first reader is the bootstrap of the attempt, the *)
(* next one the goroutine of wrapStreamResult, and one that discards what  *)
(* comes when the attempt is given up.  Chunks are numbered per attempt.   *)
(* Credentials are interchangeable here and only counted.                  *)
(***************************************************************************)
EXTENDS Naturals, Sequences, SequencesExt

CONSTANTS NumAuths,          \* credentials that can serve the model
          PoolSize,          \* upstream models of a credential, at most
          MaxCredentials,    \* max-retry-credentials, 0 for no limit
          RequestRetry,      \* request-retry, the largest of the credentials
          BootstrapRetries,  \* streaming.bootstrap-retries
          MaxChunks,         \* bound on the chunks an upstream sends
          MaxAttempts        \* bound on the attempts: no credential is left after them

ASSUME StreamAssumption ==
  /\ NumAuths \in Nat /\ PoolSize \in Nat /\ MaxCredentials \in Nat
  /\ RequestRetry \in Nat /\ BootstrapRetries \in Nat /\ MaxChunks \in Nat /\ MaxAttempts \in Nat

(* Errors, by how the code tells them apart: the request is at fault, the  *)
(* handler may try again (401, 402, 403, 408, 429, 5xx, none), any other   *)
(* status, no credential left, and the context.                            *)
UpstreamErrors == {"invalid", "transient", "other"}
Errors == UpstreamErrors \cup {"none left", "cancelled"}

VARIABLES
  streaming,   \* whether the request is a streaming one
  call,        \* the run of Execute or ExecuteStream
  att,         \* att[n]: the n-th attempt
  h,           \* the goroutine of ExecuteStreamWithAuthManager
  errChan,     \* its errChan: content, and whether it is closed
  dataClosed,  \* dataChan is closed
  w,           \* the request goroutine, which writes the response
  delivered,   \* chunks written to the client
  gone,        \* the client has left: the context of the request is done
  cancelled    \* the context of the execution is done

vars == <<streaming, call, att, h, errChan, dataClosed, w, delivered, gone, cancelled>>

-----------------------------------------------------------------------------
(* Chunks and attempts *)

Data(n, k) == [kind |-> "data", att |-> n, num |-> k]
Empty == [kind |-> "empty"]
Err(e) == [kind |-> "err", err |-> e]
Nothing == [kind |-> "nothing"]

(* A call of an executor that returned a stream. *)
Opened == [prod |-> "read", item |-> Nothing, sent |-> 0, upstream |-> "open",
           reader |-> "boot", buffered |-> <<>>, cur |-> Nothing, failed |-> FALSE,
           good |-> 0, bad |-> 0]

(* One without a stream: a response, or an error. *)
Answered == [Opened EXCEPT !.prod = "ended", !.reader = "done",
                           !.upstream = "complete", !.good = 1]
Refused(marked) == [Opened EXCEPT !.prod = "ended", !.reader = "done",
                                  !.upstream = "failed", !.bad = marked]

Latest == Len(att)

(* A run of Execute, ExecuteCount or ExecuteStream; round counts its       *)
(* retries, tried, attempted and left belong to one executeMixedOnce.      *)
Round(k) == [pc |-> "pick", round |-> k, tried |-> 0, attempted |-> 0, left |-> 0,
             lastErr |-> Nothing, boot |-> FALSE]
NoCall == [Round(0) EXCEPT !.pc = "idle"]

-----------------------------------------------------------------------------
(* Execute, ExecuteCount, ExecuteStream *)

(* The run ends with res: a response, the stream of an attempt, or an      *)
(* error.  A streaming caller gets the error of a bootstrap as a stream    *)
(* with one chunk (streamErrorResult).                                     *)
Return(res) ==
  /\ call' = NoCall
  /\ \/ /\ h.pc = "retry"
        /\ h' = IF res.kind = "err" THEN [h EXCEPT !.pc = "senderr", !.item = res]
                ELSE [h EXCEPT !.pc = "read", !.src = res]
        /\ UNCHANGED <<w, errChan, cancelled>>
     \/ /\ h.pc # "retry" /\ streaming
        /\ w' = [w EXCEPT !.pc = "peek"]
        /\ IF res.kind = "err" THEN /\ errChan' = [content |-> res, closed |-> TRUE]
                                    /\ UNCHANGED h
           ELSE /\ h' = [h EXCEPT !.pc = "read", !.src = res]
                /\ UNCHANGED errChan
        /\ UNCHANGED cancelled
     \/ /\ ~streaming
        /\ w' = [w EXCEPT !.pc = "done", !.outcome = IF res.kind = "err" THEN "error" ELSE "ok"]
        /\ cancelled' = TRUE
        /\ UNCHANGED <<h, errChan>>

(* executeMixedOnce has failed with e: shouldRetryAfterError may find a    *)
(* credential whose cooldown is worth waiting for, but not for a request   *)
(* that is itself at fault.                                                *)
RoundFails(e) ==
  \/ Return(Err(e))
  \/ /\ e # "invalid" /\ call.round < RequestRetry
     /\ call' = [call EXCEPT !.pc = "wait"]
     /\ UNCHANGED <<h, w, errChan, cancelled>>

(* An attempt has failed with e and the failure is marked: the next model  *)
(* of the credential, or the next credential, unless the request is at     *)
(* fault.                                                                  *)
NextAttempt(e, boot) ==
  IF e = "invalid" THEN RoundFails(e)
  ELSE /\ call' = IF call.left > 0
                  THEN [call EXCEPT !.pc = "exec", !.left = @ - 1]
                  ELSE [call EXCEPT !.pc = "pick", !.lastErr = Err(e), !.boot = boot]
       /\ UNCHANGED <<h, w, errChan, cancelled>>

callElse == <<streaming, dataClosed, delivered, gone>>

(* pickNextMixed finds a credential that was not tried yet.  One without   *)
(* models for this request is skipped.                                     *)
CallPick ==
  /\ call.pc = "pick" /\ call.tried < NumAuths
  /\ MaxCredentials > 0 => call.attempted < MaxCredentials
  /\ \E models \in 0..Min({PoolSize, MaxAttempts - Len(att)}) :
       call' = IF models = 0 THEN [call EXCEPT !.tried = @ + 1]
               ELSE [call EXCEPT !.pc = "exec", !.tried = @ + 1, !.attempted = @ + 1,
                                 !.left = models - 1]
  /\ UNCHANGED <<callElse, att, h, w, errChan, cancelled>>

(* It finds none, which also happens when all are blocked, or the limit of *)
(* credentials is reached.                                                 *)
CallExhausted ==
  /\ call.pc = "pick"
  /\ IF call.lastErr = Nothing THEN RoundFails("none left")
     ELSE IF call.boot THEN Return([kind |-> "errstream", err |-> call.lastErr.err])
     ELSE RoundFails(call.lastErr.err)
  /\ UNCHANGED <<callElse, att>>

(* executeStreamMixedOnce looks at the context after a failed attempt.      *)
CallCancelled ==
  /\ call.pc = "pick" /\ call.lastErr # Nothing /\ streaming /\ cancelled
  /\ RoundFails("cancelled")
  /\ UNCHANGED <<callElse, att>>

(* The executor returns.  An error after the context is done marks nothing.*)
CallExec ==
  /\ call.pc = "exec"
  /\ \/ /\ streaming
        /\ att' = Append(att, Opened)
        /\ call' = [call EXCEPT !.pc = "boot"]
        /\ UNCHANGED <<h, w, errChan, cancelled>>
     \/ /\ ~streaming
        /\ att' = Append(att, Answered)
        /\ Return([kind |-> "response"])
     \/ /\ cancelled
        /\ att' = Append(att, Refused(0))
        /\ RoundFails("cancelled")
     \/ /\ ~cancelled
        /\ att' = Append(att, Refused(1))
        /\ \E e \in UpstreamErrors : NextAttempt(e, FALSE)
  /\ UNCHANGED callElse

(* waitForCooldown. *)
CallWait ==
  /\ call.pc = "wait"
  /\ \/ /\ call' = Round(call.round + 1)
        /\ UNCHANGED <<h, w, errChan, cancelled>>
     \/ cancelled /\ Return(Err("cancelled"))
  /\ UNCHANGED <<callElse, att>>

-----------------------------------------------------------------------------
(* The producer of an attempt: the goroutine of an executor *)

(* It reads the upstream.  When the context is done the transport gives up *)
(* and the read fails, unless there is something left to read; the         *)
(* executors over a websocket may close their stream without a word then.  *)
ProdRead(n) ==
  /\ att[n].prod = "read"
  /\ \/ /\ att[n].sent < MaxChunks
        /\ att' = [att EXCEPT ![n].prod = "send", ![n].item = Data(n, att[n].sent + 1),
                              ![n].sent = @ + 1]
     \/ /\ att[n].reader = "boot" /\ att[n].buffered = <<>> /\ att[n].sent = 0
        /\ att' = [att EXCEPT ![n].prod = "send", ![n].item = Empty]
     \/ \E e \in UpstreamErrors :
          att' = [att EXCEPT ![n].prod = "send", ![n].item = Err(e), ![n].upstream = "failed"]
     \/ /\ cancelled
        /\ att' = [att EXCEPT ![n].prod = "send", ![n].item = Err("cancelled"),
                              ![n].upstream = "aborted"]
     \/ /\ cancelled
        /\ att' = [att EXCEPT ![n].prod = "ended", ![n].upstream = "aborted"]
     \/ att' = [att EXCEPT ![n].prod = "ended", ![n].upstream = "complete"]
  /\ UNCHANGED <<callElse, call, h, w, errChan, cancelled>>

(* Some of them send under a select with the context: the chunk, even one  *)
(* with an error, is dropped and the stream closed.                        *)
ProdGivesUp(n) ==
  /\ att[n].prod = "send" /\ cancelled
  /\ att' = [att EXCEPT ![n].prod = "ended", ![n].item = Nothing, ![n].upstream = "aborted",
                        ![n].sent = IF att[n].item.kind = "data" THEN @ - 1 ELSE @]
  /\ UNCHANGED <<callElse, call, h, w, errChan, cancelled>>

(* What attempt n is when its producer has got rid of its chunk; after an  *)
(* error it returns.                                                       *)
Taken(n) == [att[n] EXCEPT !.item = Nothing,
                           !.prod = IF att[n].item.kind = "err" THEN "ended" ELSE "read"]

-----------------------------------------------------------------------------
(* The readers of an attempt *)

(* readStreamBootstrap and what executeStreamWithModelPool makes of it.    *)
Bootstrap ==
  /\ call.pc = "boot"
  /\ \/ /\ att[Latest].item.kind = "data"
        /\ att' = [att EXCEPT ![Latest] = [Taken(Latest) EXCEPT !.reader = "wrap",
                                          !.buffered = Append(@, att[Latest].item)]]
        /\ Return([kind |-> "att", att |-> Latest])
     \/ /\ att[Latest].item.kind = "empty"
        /\ att' = [att EXCEPT ![Latest] = [Taken(Latest) EXCEPT !.buffered = Append(@, Empty)]]
        /\ UNCHANGED <<call, h, w, errChan, cancelled>>
     \/ /\ att[Latest].item.kind = "err" /\ ~cancelled
        /\ att' = [att EXCEPT ![Latest] = [Taken(Latest) EXCEPT !.reader = "discard", !.bad = @ + 1]]
        /\ NextAttempt(att[Latest].item.err, TRUE)
     \/ /\ att[Latest].prod = "ended" /\ att[Latest].buffered = <<>>
        /\ att' = [att EXCEPT ![Latest].reader = "done", ![Latest].bad = @ + 1]
        /\ NextAttempt("transient", TRUE)
     \/ /\ att[Latest].prod = "ended" /\ att[Latest].buffered # <<>>
        /\ att' = [att EXCEPT ![Latest].reader = "wrap"]
        /\ Return([kind |-> "att", att |-> Latest])
     \/ /\ cancelled
        /\ att' = [att EXCEPT ![Latest].reader = "discard"]
        /\ RoundFails("cancelled")
  /\ UNCHANGED callElse

(* discardStreamChunks. *)
Discard(n) ==
  /\ att[n].reader = "discard"
  /\ \/ att[n].prod = "send" /\ att' = [att EXCEPT ![n] = Taken(n)]
     \/ att[n].prod = "ended" /\ att' = [att EXCEPT ![n].reader = "done"]
  /\ UNCHANGED <<callElse, call, h, w, errChan, cancelled>>

(* Mutant: forgets that it has marked the failure. *)
HoldingUnflagged(a, item) ==
  IF item.kind = "err" THEN [a EXCEPT !.cur = item, !.bad = @ + 1] ELSE [a EXCEPT !.cur = item]

(* The goroutine of wrapStreamResult has its next chunk; the first error   *)
(* is marked before it is sent on.                                         *)
Holding(a, item) ==
  IF item.kind = "err" /\ ~a.failed
  THEN [a EXCEPT !.cur = item, !.failed = TRUE, !.bad = @ + 1]
  ELSE [a EXCEPT !.cur = item]

(* It takes what the bootstrap has buffered, then what the producer sends; *)
(* at the end it marks the success.                                        *)
WrapTake(n) ==
  /\ att[n].reader = "wrap" /\ att[n].cur = Nothing
  /\ \/ /\ att[n].buffered # <<>>
        /\ att' = [att EXCEPT ![n] = Holding([att[n] EXCEPT !.buffered = Tail(@)], Head(@.buffered))]
     \/ /\ att[n].buffered = <<>> /\ att[n].prod = "send"
        /\ att' = [att EXCEPT ![n] = Holding(Taken(n), @.item)]
     \/ /\ att[n].buffered = <<>> /\ att[n].prod = "ended"
        /\ att' = [att EXCEPT ![n].reader = "done", ![n].good = IF att[n].failed THEN @ ELSE @ + 1]
  /\ UNCHANGED <<callElse, call, h, w, errChan, cancelled>>

(* Mutant: falls out of the loop as if the stream were at its end. *)
WrapAbandonAsSuccess(n) ==
  /\ cancelled /\ att[n].cur # Nothing
  /\ att' = [att EXCEPT ![n].reader = "discard", ![n].cur = Nothing,
                        ![n].good = IF att[n].failed THEN @ ELSE @ + 1]
  /\ UNCHANGED <<callElse, call, h, w, errChan, cancelled>>

(* Mutant: does not discard the rest of the stream. *)
WrapAbandonUndrained(n) ==
  /\ cancelled /\ att[n].cur # Nothing
  /\ att' = [att EXCEPT ![n].reader = "done", ![n].cur = Nothing]
  /\ UNCHANGED <<callElse, call, h, w, errChan, cancelled>>

(* Nobody takes the chunk and the context is done: no result is marked, the *)
(* rest is discarded.                                                      *)
WrapAbandon(n) ==
  /\ cancelled /\ att[n].cur # Nothing
  /\ att' = [att EXCEPT ![n].reader = "discard", ![n].cur = Nothing]
  /\ UNCHANGED <<callElse, call, h, w, errChan, cancelled>>

-----------------------------------------------------------------------------
(* The goroutine of ExecuteStreamWithAuthManager *)

(* bootstrapEligible: an error without a status counts, too. *)
Eligible(e) == e \in {"transient", "cancelled"}

(* Mutant: one retry too many. *)
HandleErrOnceMore(e) ==
  IF ~h.sent /\ h.retries <= BootstrapRetries /\ Eligible(e)
  THEN /\ h' = [h EXCEPT !.pc = "retry", !.retries = @ + 1]
       /\ call' = Round(0)
  ELSE /\ h' = [h EXCEPT !.pc = "senderr", !.item = Err(e)]
       /\ UNCHANGED call

(* Mutant: starts again although the client has a part of the stream. *)
HandleErrAnyTime(e) ==
  IF h.retries < BootstrapRetries /\ Eligible(e)
  THEN /\ h' = [h EXCEPT !.pc = "retry", !.retries = @ + 1]
       /\ call' = Round(0)
  ELSE /\ h' = [h EXCEPT !.pc = "senderr", !.item = Err(e)]
       /\ UNCHANGED call

(* An error from the stream: before the first payload another run of       *)
(* ExecuteStream may replace it.                                           *)
HandleErr(e) ==
  IF ~h.sent /\ h.retries < BootstrapRetries /\ Eligible(e)
  THEN /\ h' = [h EXCEPT !.pc = "retry", !.retries = @ + 1]
       /\ call' = Round(0)
  ELSE /\ h' = [h EXCEPT !.pc = "senderr", !.item = Err(e)]
       /\ UNCHANGED call

(* A payload is passed on, or, for openai-response, found to be no JSON.   *)
HandleData(item) ==
  /\ \/ h' = [h EXCEPT !.pc = "senddata", !.item = item, !.sent = TRUE]
     \/ h' = [h EXCEPT !.pc = "senderr", !.item = Err("other")]
  /\ UNCHANGED call

Finish == h' = [h EXCEPT !.pc = "close", !.item = Nothing]

(* It takes a chunk from the wrapper of an attempt. *)
HandlerTake ==
  /\ h.pc = "read" /\ h.src.kind = "att" /\ att[h.src.att].cur # Nothing
  /\ att' = [att EXCEPT ![h.src.att].cur = Nothing]
  /\ LET item == att[h.src.att].cur IN
       \/ item.kind = "err" /\ HandleErr(item.err)
       \/ item.kind = "data" /\ HandleData(item)
       \/ item.kind = "empty" /\ UNCHANGED <<h, call>>
  /\ UNCHANGED <<callElse, w, errChan, cancelled>>

(* It takes the one chunk of a streamErrorResult. *)
HandlerTakeError ==
  /\ h.pc = "read" /\ h.src.kind = "errstream"
  /\ HandleErr(h.src.err)
  /\ UNCHANGED <<callElse, att, w, errChan, cancelled>>

(* The stream is at its end, or the context is done. *)
HandlerStops ==
  /\ \/ /\ h.pc = "read"
        /\ \/ cancelled
           \/ h.src.kind = "att" /\ att[h.src.att].reader \in {"discard", "done"}
     \/ h.pc \in {"senddata", "senderr"} /\ cancelled
  /\ Finish
  /\ UNCHANGED <<callElse, call, att, w, errChan, cancelled>>

(* errChan has room for one error. *)
HandlerSendErr ==
  /\ h.pc = "senderr" /\ errChan.content = Nothing
  /\ errChan' = [errChan EXCEPT !.content = h.item]
  /\ Finish
  /\ UNCHANGED <<callElse, call, att, w, cancelled>>

(* The deferred closes: errChan first, then dataChan. *)
HandlerCloses ==
  \/ /\ h.pc = "close"
     /\ errChan' = [errChan EXCEPT !.closed = TRUE]
     /\ h' = [h EXCEPT !.pc = "closeData"]
     /\ UNCHANGED <<callElse, call, att, w, cancelled>>
  \/ /\ h.pc = "closeData"
     /\ dataClosed' = TRUE
     /\ h' = [h EXCEPT !.pc = "done"]
     /\ UNCHANGED <<streaming, delivered, gone, call, att, w, errChan, cancelled>>

-----------------------------------------------------------------------------
(* The request goroutine: the handlers' peek and ForwardStream *)

(* The response ends, and with it cliCancel is called. *)
Done(outcome) ==
  /\ w' = [w EXCEPT !.pc = "done", !.outcome = outcome]
  /\ cancelled' = TRUE

(* A chunk goes from dataChan to the client; the first one ends the peek.  *)
WriterData ==
  /\ w.pc \in {"peek", "forward"} /\ h.pc = "senddata"
  /\ delivered' = Append(delivered, h.item)
  /\ h' = [h EXCEPT !.pc = "read", !.item = Nothing]
  /\ w' = [w EXCEPT !.pc = "forward"]
  /\ UNCHANGED <<streaming, dataClosed, gone, call, att, errChan, cancelled>>

(* An error from errChan: an error response, or the end of the stream.     *)
WriterErr ==
  /\ w.pc \in {"peek", "forward"} /\ errChan.content # Nothing
  /\ errChan' = [errChan EXCEPT !.content = Nothing]
  /\ Done("error")
  /\ UNCHANGED <<callElse, call, att, h>>

(* Mutant: ForwardStream does not look for a pending error. *)
WriterEndUnchecked ==
  /\ w.pc \in {"peek", "forward"} /\ dataClosed
  /\ Done("ok")
  /\ UNCHANGED <<callElse, call, att, h, errChan>>

(* dataChan is closed.  ForwardStream looks for a pending error first, the *)
(* peek does not.                                                          *)
WriterEnd ==
  /\ w.pc \in {"peek", "forward"} /\ dataClosed
  /\ IF w.pc = "forward" /\ errChan.content # Nothing THEN Done("error") ELSE Done("ok")
  /\ UNCHANGED <<callElse, call, att, h, errChan>>

(* The client has left. *)
WriterGone ==
  /\ w.pc \in {"peek", "forward"} /\ gone
  /\ Done("gone")
  /\ UNCHANGED <<callElse, call, att, h, errChan>>

(* The client leaves; a goroutine of GetContextWithCancel passes it on.    *)
ClientLeaves ==
  /\ w.pc # "done" /\ ~gone
  /\ gone' = TRUE
  /\ UNCHANGED <<streaming, dataClosed, delivered, call, att, h, w, errChan, cancelled>>

CancelPassedOn ==
  /\ gone /\ ~cancelled
  /\ cancelled' = TRUE
  /\ UNCHANGED <<callElse, call, att, h, w, errChan>>
-----------------------------------------------------------------------------
Init ==
  /\ streaming \in BOOLEAN
  /\ call = Round(0) /\ att = <<>>
  /\ h = [pc |-> "none", src |-> Nothing, sent |-> FALSE, retries |-> 0, item |-> Nothing]
  /\ errChan = [content |-> Nothing, closed |-> FALSE] /\ dataClosed = FALSE
  /\ w = [pc |-> "call", outcome |-> "none"] /\ delivered = <<>>
  /\ gone = FALSE /\ cancelled = FALSE

CallStep == CallPick \/ CallExhausted \/ CallCancelled \/ CallExec \/ CallWait \/ Bootstrap
WrapStep(n) == WrapTake(n) \/ WrapAbandon(n)
HandlerStep == HandlerTake \/ HandlerTakeError \/ HandlerStops \/ HandlerSendErr \/ HandlerCloses
WriterStep == WriterData \/ WriterErr \/ WriterEnd \/ WriterGone

(* The request is over and no goroutine of it is left. *)
AllEnded ==
  /\ w.pc = "done" /\ call.pc = "idle" /\ h.pc \in {"none", "done"}
  /\ \A n \in DOMAIN att : att[n].prod = "ended" /\ att[n].reader = "done"

Next ==
  \/ CallStep \/ HandlerStep \/ WriterStep \/ ClientLeaves \/ CancelPassedOn
  \/ \E n \in DOMAIN att : ProdRead(n) \/ ProdGivesUp(n) \/ Discard(n) \/ WrapStep(n)
  \/ AllEnded /\ UNCHANGED vars

(* Every goroutine goes on when it can.  An upstream need not answer, but  *)
(* once the context is done the transport makes a call or a read return.   *)
Spec ==
  /\ Init /\ [][Next]_vars
  /\ WF_vars(CallStep /\ (call.pc \in {"exec", "boot"} => cancelled))
  /\ WF_vars(HandlerStep) /\ WF_vars(WriterStep) /\ WF_vars(CancelPassedOn)
  /\ \A n \in 1..MaxAttempts :
       /\ WF_vars(n \in DOMAIN att /\ WrapStep(n))
       /\ WF_vars(n \in DOMAIN att /\ Discard(n))
       /\ WF_vars(n \in DOMAIN att /\ cancelled /\ ProdRead(n))

-----------------------------------------------------------------------------
(* Properties *)

(* Every variable holds what the code could hold there. *)
TypeOK ==
  /\ streaming \in BOOLEAN /\ gone \in BOOLEAN /\ cancelled \in BOOLEAN /\ dataClosed \in BOOLEAN
  /\ call.pc \in {"idle", "pick", "exec", "boot", "wait"} /\ call.round \in 0..RequestRetry
  /\ call.tried \in 0..NumAuths /\ call.attempted \in 0..call.tried /\ call.left \in 0..PoolSize
  /\ h.pc \in {"none", "read", "retry", "senddata", "senderr", "close", "closeData", "done"}
  /\ h.retries \in 0..BootstrapRetries
  /\ h.item.kind \in {"nothing", "data", "err"}
  /\ errChan.content.kind \in {"nothing", "err"} /\ errChan.closed \in BOOLEAN
  /\ w.pc \in {"call", "peek", "forward", "done"} /\ w.outcome \in {"none", "ok", "error", "gone"}
  /\ \A n \in DOMAIN att :
       /\ att[n].prod \in {"read", "send", "ended"} /\ att[n].sent \in 0..MaxChunks
       /\ att[n].prod = "send" <=> att[n].item # Nothing
       /\ att[n].reader \in {"boot", "wrap", "discard", "done"}
       /\ att[n].upstream \in {"open", "complete", "failed", "aborted"}

(* What reached the client is the beginning of the stream of one attempt,  *)
(* however many attempts and goroutines there were: no chunk of another    *)
(* attempt, none twice, none left out.                                     *)
OneAttemptDelivered ==
  \A k \in DOMAIN delivered : delivered[k] = Data(delivered[1].att, k)

(* No result of an attempt is recorded twice, in particular not a success  *)
(* after a failure; and behind a response that the client got to its end   *)
(* every attempt has one, the abandoned ones too.  (An attempt that is cut *)
(* short by the client, or given up by the handler, may have none.)        *)
RecordedOnce ==
  /\ \A n \in DOMAIN att : att[n].good + att[n].bad <= 1
  /\ (AllEnded /\ ~gone /\ w.outcome = "ok" /\ (streaming => delivered # <<>>)) =>
       \A n \in DOMAIN att : att[n].good + att[n].bad = 1

(* A credential is marked for what its upstream did: a success for a       *)
(* complete stream; a failure for an error and for a stream without a      *)
(* chunk.  A stream that the cancellation of the request cut short says    *)
(* nothing about the upstream, and yet, against the intent of the checks   *)
(* of ctx.Err() elsewhere, it may be marked either way: a failure for the  *)
(* read that fails under it, a success when the executor closes the stream *)
(* without a word.                                                         *)
ResultTrue ==
  \A n \in DOMAIN att :
    /\ att[n].good = 1 => att[n].upstream \in {"complete", "aborted"}
    /\ att[n].bad = 1 => \/ att[n].upstream \in {"failed", "aborted"}
                         \/ att[n].upstream = "complete" /\ att[n].sent = 0

(* A response that ends well while the client is there is complete: the    *)
(* upstream of the attempt it came from was at its end, the attempt is     *)
(* marked a success and everything it sent has been written.  The one way  *)
(* around that is the peek: it may see dataChan closed before it looks at  *)
(* the error in errChan, and then answers 200 with an empty stream.        *)
OkIsComplete ==
  (streaming /\ ~gone /\ w.outcome = "ok") =>
    \/ /\ delivered # <<>>
       /\ att[delivered[1].att].good = 1
       /\ att[delivered[1].att].upstream = "complete"
       /\ Len(delivered) = att[delivered[1].att].sent
    \/ /\ delivered = <<>>
       /\ \/ errChan.content # Nothing
          \/ /\ att[Latest].good = 1 /\ att[Latest].sent = 0
             /\ att[Latest].upstream = "complete"

(* Once the client has left, or the response is complete, every goroutine  *)
(* of the request ends: nobody stays blocked on a send that is never read. *)
NothingLeaks == gone \/ cancelled ~> AllEnded
=============================================================================
