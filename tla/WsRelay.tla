------------------------------- MODULE WsRelay -------------------------------
(***************************************************************************)
(* internal/wsrelay: requests that are carried out by a remote client over *)
(* a websocket.  The goroutines are                                        *)
(*                                                                         *)
(*   handshake   handleWebsocket of a connection                           *)
(*   reader      session.run, which dispatches what the client sends       *)
(*   heartbeat   pings, and cleans up when one fails                       *)
(*   Stop        the shutdown, which cleans up every session               *)
(*   caller      NonStream, or the goroutine of Stream                     *)
(*   watcher     the goroutine of request that waits for ctx.Done          *)
(*                                                                         *)
(* A clean-up runs once per session (closeOnce), in the goroutine that was *)
(* first to ask for it.  Provider names are drawn at random for every      *)
(* connection (the service has no ProviderFactory): a session is its name. *)
(*                                                                         *)
(* A send on a closed channel ends the process when it happens in a        *)
(* goroutine of this package.  The clean-up overwrites the map of pending  *)
(* requests without a lock, so that an operation on it at that moment may  *)
(* find it half empty and panic; in a caller, the server recovers that.    *)
(***************************************************************************)
EXTENDS Naturals, Sequences, FiniteSets

CONSTANTS Sessions,    \* connections of remote clients
          Requests,    \* requests of callers, each with its own message id
          Buffer,      \* capacity of the channel of a request (8 in the code)
          MaxChunks    \* bound on the messages of a stream before its end

ASSUME RelayAssumption ==
  /\ Buffer \in Nat \ {0} /\ MaxChunks \in Nat
  /\ "none" \notin Requests /\ "none" \notin Sessions

None == "none"

VARIABLES
  conn,       \* conn[s]: handshake, peer and reader of a connection
  sessions,   \* Manager.sessions, names and sessions being one
  clean,      \* clean[s]: how far the clean-up of the session is
  stop,       \* Manager.Stop: its list of sessions
  pending,    \* pending[s]: the ids in session.pending
  req,        \* req[r]: the channel of a request, its caller and its watcher
  peer,       \* peer[r]: what the remote client has done about it
  cred,       \* cred[s]: the latest update the service has emitted for the name
  crash       \* the panic that ended the process, if any

vars == <<conn, sessions, clean, stop, pending, req, peer, cred, crash>>

(* Messages of the remote client; those of a stream, the first of which is *)
(* its start, are numbered.                                                *)
Part(k) == [kind |-> "part", num |-> k]
Word(w) == [kind |-> w, num |-> 0]
Terminal(m) == m.kind \in {"resp", "error", "end"}

(* What the reader is dispatching. *)
NoMsg == [to |-> None, body |-> Word(None), given |-> FALSE]
Reading(s) == conn[s].msg # NoMsg

Closed(s) == clean[s].pc # "open"

(* The operations on session.pending that the overwriting may disturb. *)
Racing(s) == clean[s].pc = "reset"

Up == crash.who = None

(* pending.LoadAndDelete, and close of the request it returns, which is    *)
(* otherwise q.                                                            *)
Drop(s, r, q) ==
  /\ pending' = [pending EXCEPT ![s] = @ \ {r}]
  /\ req' = [req EXCEPT ![r] = [q EXCEPT !.shut = @ \/ r \in pending[s]]]

(* Mutant: the channel takes everything. *)
OfferUnbounded(q, m) == [q EXCEPT !.ch = Append(@, m)]

(* select { case req.ch <- m: default: } on the channel of q. *)
Offer(q, m) == IF Len(q.ch) < Buffer THEN [q EXCEPT !.ch = Append(@, m)]
               ELSE [q EXCEPT !.lost = TRUE]

-----------------------------------------------------------------------------
(* Connections *)

(* newSession, which starts the heartbeat. *)
Connect(s) ==
  /\ Up /\ conn[s].pc = "no"
  /\ conn' = [conn EXCEPT ![s].pc = "new"]
  /\ UNCHANGED <<sessions, clean, stop, pending, req, peer, cred, crash>>

StoreSession(s) ==
  /\ Up /\ conn[s].pc = "new"
  /\ conn' = [conn EXCEPT ![s].pc = "stored"]
  /\ sessions' = sessions \cup {s}
  /\ UNCHANGED <<clean, stop, pending, req, peer, cred, crash>>

(* onConnected, then the reader starts. *)
Announce(s) ==
  /\ Up /\ conn[s].pc = "stored"
  /\ conn' = [conn EXCEPT ![s].pc = "up", ![s].reader = "read"]
  /\ cred' = [cred EXCEPT ![s] = "add"]
  /\ UNCHANGED <<sessions, clean, stop, pending, req, peer, crash>>

(* The remote client goes away, or the network between. *)
PeerLeaves(s) ==
  /\ Up /\ conn[s].pc # "no" /\ ~conn[s].gone
  /\ conn' = [conn EXCEPT ![s].gone = TRUE]
  /\ UNCHANGED <<sessions, clean, stop, pending, req, peer, cred, crash>>

-----------------------------------------------------------------------------
(* The clean-up of a session *)

(* closeOnce lets the first one in: closed is closed, Range begins. *)
Begin(s, by) ==
  /\ ~Closed(s)
  /\ clean' = [clean EXCEPT ![s] = [pc |-> "range", by |-> by, during |-> conn[s].pc,
                                    must |-> pending[s], seen |-> {}, at |-> None]]

(* A ping cannot be written. *)
HeartbeatFails(s) ==
  /\ Up /\ conn[s].gone /\ Begin(s, "heartbeat")
  /\ UNCHANGED <<conn, sessions, stop, pending, req, peer, cred, crash>>

(* Nothing can be read any more; the reader ends behind the clean-up. *)
ReadFails(s) ==
  /\ Up /\ conn[s].reader = "read" /\ ~Reading(s)
  /\ (conn[s].gone \/ clean[s].pc \in {"unmap", "emit", "done"})
  /\ conn' = [conn EXCEPT ![s].reader = "ended"]
  /\ \/ Begin(s, "reader")
     \/ Closed(s) /\ UNCHANGED clean
  /\ UNCHANGED <<sessions, stop, pending, req, peer, cred, crash>>

(* Stop takes all sessions away from the manager... *)
StopTakes ==
  /\ Up /\ stop.pc = "no"
  /\ stop' = [pc |-> "clean", list |-> sessions]
  /\ sessions' = {}
  /\ UNCHANGED <<conn, clean, pending, req, peer, cred, crash>>

(* ...and cleans up one after the other, or waits for who does it already. *)
StopCleans(s) ==
  /\ Up /\ s \in stop.list
  /\ \/ Begin(s, "stop") /\ UNCHANGED stop
     \/ /\ clean[s].pc = "done" /\ UNCHANGED clean
        /\ stop' = [stop EXCEPT !.list = @ \ {s}]
  /\ UNCHANGED <<conn, sessions, pending, req, peer, cred, crash>>

(* Range comes to a request that it has not visited.  Requests stored      *)
(* after it began may or may not be seen.                                  *)
RangePick(s, r) ==
  /\ Up /\ clean[s].pc = "range" /\ clean[s].at = None
  /\ r \in pending[s] \ clean[s].seen
  /\ clean' = [clean EXCEPT ![s].at = r, ![s].seen = @ \cup {r}]
  /\ UNCHANGED <<conn, sessions, stop, pending, req, peer, cred, crash>>

(* Mutant: the error is offered, but the channel left open. *)
RangeVisitUnclosed(s) ==
  /\ Up /\ clean[s].pc = "range" /\ clean[s].at # None
  /\ ~req[clean[s].at].shut
  /\ req' = [req EXCEPT ![clean[s].at] = Offer(@, Word("error"))]
  /\ clean' = [clean EXCEPT ![s].at = None]
  /\ UNCHANGED <<conn, sessions, stop, pending, peer, cred, crash>>

(* The request gets the error, if there is room, and its channel closed. *)
RangeVisit(s) ==
  /\ Up /\ clean[s].pc = "range" /\ clean[s].at # None
  /\ LET r == clean[s].at IN
       \/ /\ req[r].shut
          /\ crash' = [who |-> "range", session |-> s, request |-> r, reset |-> FALSE]
          /\ UNCHANGED <<req, clean>>
       \/ /\ ~req[r].shut
          /\ req' = [req EXCEPT ![r] = [Offer(@, Word("error")) EXCEPT !.shut = TRUE]]
          /\ clean' = [clean EXCEPT ![s].at = None]
          /\ UNCHANGED crash
  /\ UNCHANGED <<conn, sessions, stop, pending, peer, cred>>

RangeEnds(s) ==
  /\ Up /\ clean[s].pc = "range" /\ clean[s].at = None
  /\ clean[s].must \cap pending[s] \subseteq clean[s].seen
  /\ clean' = [clean EXCEPT ![s].pc = "reset"]
  /\ UNCHANGED <<conn, sessions, stop, pending, req, peer, cred, crash>>

(* s.pending = sync.Map{}, and conn.Close. *)
Reset(s) ==
  /\ Up /\ clean[s].pc = "reset"
  /\ pending' = [pending EXCEPT ![s] = {}]
  /\ clean' = [clean EXCEPT ![s].pc = "unmap"]
  /\ UNCHANGED <<conn, sessions, stop, req, peer, cred, crash>>

(* Mutant: the manager keeps the session. *)
UnmapNothing(s) ==
  /\ Up /\ clean[s].pc = "unmap"
  /\ clean' = [clean EXCEPT ![s].pc = "emit"]
  /\ UNCHANGED <<conn, sessions, stop, pending, req, peer, cred, crash>>

(* handleSessionClosed: the manager forgets the session... *)
Unmap(s) ==
  /\ Up /\ clean[s].pc = "unmap"
  /\ sessions' = sessions \ {s}
  /\ clean' = [clean EXCEPT ![s].pc = "emit"]
  /\ UNCHANGED <<conn, stop, pending, req, peer, cred, crash>>

(* ...and the service its credential (onDisconnected). *)
Emit(s) ==
  /\ Up /\ clean[s].pc = "emit"
  /\ cred' = [cred EXCEPT ![s] = "delete"]
  /\ clean' = [clean EXCEPT ![s].pc = "done"]
  /\ UNCHANGED <<conn, sessions, stop, pending, req, peer, crash>>

-----------------------------------------------------------------------------
(* The reader *)

(* What the client may send next about r: an answer, a stream to its end,  *)
(* or at any point an error.                                               *)
Messages(r) ==
  IF peer[r].end # None THEN {}
  ELSE {Part(k) : k \in {peer[r].sent + 1} \cap 1..MaxChunks}
       \cup {Word(IF peer[r].sent = 0 THEN "resp" ELSE "end"), Word("error")}

(* A message arrives and its request is looked up in pending. *)
Read(s, r) ==
  /\ Up /\ conn[s].reader = "read" /\ ~Reading(s) /\ clean[s].pc \in {"open", "range", "reset"}
  /\ peer[r].at = s
  /\ \E m \in Messages(r) :
       /\ peer' = [peer EXCEPT ![r] = IF Terminal(m) THEN [@ EXCEPT !.end = m.kind]
                                      ELSE [@ EXCEPT !.sent = m.num]]
       /\ \/ /\ conn' = IF r \in pending[s]
                        THEN [conn EXCEPT ![s].msg = [to |-> r, body |-> m, given |-> FALSE]]
                        ELSE conn
             /\ UNCHANGED crash
          \/ /\ Racing(s)
             /\ crash' = [who |-> "dispatch", session |-> s, request |-> r, reset |-> TRUE]
             /\ UNCHANGED conn
  /\ UNCHANGED <<sessions, clean, stop, pending, req, cred>>

(* It is put into the channel of the request, if there is room. *)
Deliver(s) ==
  /\ Up /\ Reading(s) /\ ~conn[s].msg.given
  /\ LET r == conn[s].msg.to  m == conn[s].msg.body IN
       \/ /\ req[r].shut
          /\ crash' = [who |-> "dispatch", session |-> s, request |-> r, reset |-> FALSE]
          /\ UNCHANGED <<conn, req>>
       \/ /\ ~req[r].shut
          /\ req' = [req EXCEPT ![r] = Offer(@, m)]
          /\ conn' = IF Terminal(m) THEN [conn EXCEPT ![s].msg.given = TRUE]
                     ELSE [conn EXCEPT ![s].msg = NoMsg]
          /\ UNCHANGED crash
  /\ UNCHANGED <<sessions, clean, stop, pending, peer, cred>>

(* After the last message the request is no longer pending. *)
Retire(s) ==
  /\ Up /\ Reading(s) /\ conn[s].msg.given
  /\ LET r == conn[s].msg.to IN
       \/ /\ Drop(s, r, req[r])
          /\ conn' = [conn EXCEPT ![s].msg = NoMsg]
          /\ UNCHANGED crash
       \/ /\ Racing(s)
          /\ crash' = [who |-> "dispatch", session |-> s, request |-> r, reset |-> TRUE]
          /\ UNCHANGED <<conn, pending, req>>
  /\ UNCHANGED <<sessions, clean, stop, peer, cred>>

-----------------------------------------------------------------------------
(* A caller *)

callerElse == <<conn, sessions, clean, stop, cred, crash>>

Return(q, outcome) == [q EXCEPT !.pc = "done", !.outcome = outcome]

(* Manager.Send looks the session up. *)
CallerSend(r) ==
  /\ Up /\ req[r].pc = "idle"
  /\ \E s \in Sessions, stream \in BOOLEAN :
       req' = [req EXCEPT ![r] = IF s \in sessions
                                 THEN [@ EXCEPT !.pc = "store", !.sess = s, !.stream = stream]
                                 ELSE Return([@ EXCEPT !.stream = stream], "error")]
  /\ UNCHANGED <<callerElse, pending, peer>>

(* An operation on a map that is being overwritten. *)
CallerPanics(r) ==
  /\ Up /\ req[r].pc \in {"store", "load", "drop"} /\ Racing(req[r].sess)
  /\ req' = [req EXCEPT ![r] = Return(@, "panic")]
  /\ UNCHANGED <<callerElse, pending, peer>>

CallerStore(r) ==
  /\ Up /\ req[r].pc = "store"
  /\ pending' = [pending EXCEPT ![req[r].sess] = @ \cup {r}]
  /\ req' = [req EXCEPT ![r].pc = "load"]
  /\ UNCHANGED <<callerElse, peer>>

(* The request is loaded again without a look at ok: nil is no request. *)
CallerLoad(r) ==
  /\ Up /\ req[r].pc = "load"
  /\ req' = [req EXCEPT ![r] = IF r \in pending[@.sess] THEN [@ EXCEPT !.pc = "check"]
                               ELSE Return(@, "panic")]
  /\ UNCHANGED <<callerElse, pending, peer>>

(* session.send looks whether the session is closed... *)
CallerCheck(r) ==
  /\ Up /\ req[r].pc = "check"
  /\ req' = [req EXCEPT ![r].pc = IF Closed(req[r].sess) THEN "drop" ELSE "write"]
  /\ UNCHANGED <<callerElse, pending, peer>>

(* ...and writes, which may fail; a peer that is gone gets nothing.  Then  *)
(* the watcher is started.                                                 *)
CallerWrite(r) ==
  /\ Up /\ req[r].pc = "write"
  /\ LET s == req[r].sess  broken == conn[s].gone \/ clean[s].pc \in {"unmap", "emit", "done"} IN
       \/ /\ broken
          /\ req' = [req EXCEPT ![r].pc = "drop"]
          /\ UNCHANGED peer
       \/ /\ clean[s].pc \notin {"unmap", "emit", "done"}
          /\ req' = [req EXCEPT ![r].pc = "wait", ![r].watch = TRUE]
          /\ peer' = IF conn[s].gone THEN peer ELSE [peer EXCEPT ![r].at = s]
  /\ UNCHANGED <<callerElse, pending>>

(* After a failed send the request is dropped. *)
CallerDrop(r) ==
  /\ Up /\ req[r].pc = "drop"
  /\ Drop(req[r].sess, r, Return(req[r], "error"))
  /\ UNCHANGED <<callerElse, peer>>

(* A message comes from the channel. *)
CallerTake(r) ==
  /\ Up /\ req[r].pc = "wait" /\ req[r].ch # <<>>
  /\ LET m == Head(req[r].ch)
         q == [req[r] EXCEPT !.ch = Tail(@)] IN
       req' = [req EXCEPT ![r] = CASE m.kind = "error" -> Return(q, "error")
                                   [] m.kind \in {"resp", "end"} -> Return(q, "ok")
                                   [] OTHER -> [q EXCEPT !.got = Append(@, m.num)]]
  /\ UNCHANGED <<callerElse, pending, peer>>

(* Mutant: the goroutine of Stream calls a closed channel the end, too. *)
CallerClosedIsEnd(r) ==
  /\ Up /\ req[r].pc = "wait" /\ req[r].ch = <<>> /\ req[r].shut
  /\ req' = [req EXCEPT ![r] = Return(@, IF @.got # <<>> THEN "ok" ELSE "error")]
  /\ UNCHANGED <<callerElse, pending, peer>>

(* The channel is closed: the goroutine of Stream reports an error, but    *)
(* NonStream returns what it has when a stream had begun.                  *)
CallerClosed(r) ==
  /\ Up /\ req[r].pc = "wait" /\ req[r].ch = <<>> /\ req[r].shut
  /\ req' = [req EXCEPT ![r] = Return(@, IF ~@.stream /\ @.got # <<>> THEN "ok" ELSE "error")]
  /\ UNCHANGED <<callerElse, pending, peer>>

(* The context of the request is done, while it waits or afterwards. *)
Cancel(r) ==
  /\ Up /\ req[r].pc \in {"wait", "done"} /\ req[r].cancelled = "no" /\ req[r].watch
  /\ req' = [req EXCEPT ![r].cancelled = IF req[r].pc = "wait" THEN "waiting" ELSE "after"]
  /\ UNCHANGED <<callerElse, pending, peer>>

CallerGivesUp(r) ==
  /\ Up /\ req[r].pc = "wait" /\ req[r].cancelled # "no"
  /\ req' = [req EXCEPT ![r] = Return(@, "cancelled")]
  /\ UNCHANGED <<callerElse, pending, peer>>

(* Mutant: the watcher drops the request when the session is closed, too. *)
WatchBoth(r) ==
  /\ Up /\ req[r].watch
  /\ req[r].cancelled # "no" \/ Closed(req[r].sess)
  /\ Drop(req[r].sess, r, [req[r] EXCEPT !.watch = FALSE])
  /\ UNCHANGED <<conn, sessions, clean, stop, peer, cred, crash>>

(* The watcher drops the request when its context is done; with the        *)
(* session closed it may as well just return.                              *)
Watch(r) ==
  /\ Up /\ req[r].watch
  /\ LET s == req[r].sess IN
       \/ /\ req[r].cancelled # "no"
          /\ Drop(s, r, [req[r] EXCEPT !.watch = FALSE])
          /\ UNCHANGED crash
       \/ /\ req[r].cancelled # "no" /\ Racing(s)
          /\ crash' = [who |-> "watcher", session |-> s, request |-> r, reset |-> TRUE]
          /\ UNCHANGED <<req, pending>>
       \/ /\ Closed(s)
          /\ req' = [req EXCEPT ![r].watch = FALSE]
          /\ UNCHANGED <<pending, crash>>
  /\ UNCHANGED <<conn, sessions, clean, stop, peer, cred>>

-----------------------------------------------------------------------------
Init ==
  /\ conn = [s \in Sessions |-> [pc |-> "no", gone |-> FALSE, reader |-> "no", msg |-> NoMsg]]
  /\ sessions = {} /\ stop = [pc |-> "no", list |-> {}]
  /\ clean = [s \in Sessions |-> [pc |-> "open", by |-> None, during |-> "no",
                                  must |-> {}, seen |-> {}, at |-> None]]
  /\ pending = [s \in Sessions |-> {}]
  /\ req = [r \in Requests |-> [pc |-> "idle", sess |-> None, stream |-> FALSE, ch |-> <<>>,
                                shut |-> FALSE, lost |-> FALSE, got |-> <<>>, watch |-> FALSE,
                                cancelled |-> "no", outcome |-> None]]
  /\ peer = [r \in Requests |-> [at |-> None, sent |-> 0, end |-> None]]
  /\ cred = [s \in Sessions |-> None]
  /\ crash = [who |-> None, session |-> None, request |-> None, reset |-> FALSE]

HandshakeStep(s) == StoreSession(s) \/ Announce(s)
CleanStep(s) == (\E r \in Requests : RangePick(s, r)) \/ RangeVisit(s) \/ RangeEnds(s)
                \/ Reset(s) \/ Unmap(s) \/ Emit(s)
ReaderStep(s) == (\E r \in Requests : Read(s, r)) \/ Deliver(s) \/ Retire(s) \/ ReadFails(s)
CallerStep(r) == CallerSend(r) \/ CallerPanics(r) \/ CallerStore(r) \/ CallerLoad(r)
                 \/ CallerCheck(r) \/ CallerWrite(r) \/ CallerDrop(r) \/ CallerTake(r)
                 \/ CallerClosed(r) \/ CallerGivesUp(r)

(* Nothing is left to do, or the process has ended. *)
Finished ==
  \/ ~Up
  \/ /\ \A s \in Sessions : clean[s].pc = "done" /\ conn[s].reader = "ended"
     /\ \A r \in Requests : req[r].pc = "done"
     /\ stop.pc = "clean" /\ stop.list = {}

Next ==
  \/ \E s \in Sessions : \/ Connect(s) \/ HandshakeStep(s) \/ PeerLeaves(s) \/ HeartbeatFails(s)
                         \/ CleanStep(s) \/ ReaderStep(s) \/ StopCleans(s)
  \/ StopTakes
  \/ \E r \in Requests : CallerStep(r) \/ Cancel(r) \/ Watch(r)
  \/ Finished /\ UNCHANGED vars

(* Every goroutine goes on.  A read comes back once the peer is gone (the  *)
(* read deadline) or the connection is closed; a caller need not call.     *)
Spec ==
  /\ Init /\ [][Next]_vars
  /\ \A s \in Sessions : /\ WF_vars(HandshakeStep(s)) /\ WF_vars(CleanStep(s))
                         /\ WF_vars(Deliver(s) \/ Retire(s)) /\ WF_vars(ReadFails(s))
  /\ \A r \in Requests : WF_vars(req[r].pc # "idle" /\ CallerStep(r))

-----------------------------------------------------------------------------
(* Properties *)

(* Every variable holds what the code could hold there; a channel never    *)
(* holds more than it has room for, and a closed session is at one step of *)
(* its clean-up.                                                           *)
TypeOK ==
  /\ \A s \in Sessions :
       /\ conn[s].pc \in {"no", "new", "stored", "up"} /\ conn[s].gone \in BOOLEAN
       /\ conn[s].reader \in {"no", "read", "ended"} /\ cred[s] \in {None, "add", "delete"}
       /\ clean[s].pc \in {"open", "range", "reset", "unmap", "emit", "done"}
       /\ pending[s] \subseteq Requests /\ clean[s].seen \subseteq Requests
  /\ sessions \subseteq Sessions /\ stop.list \subseteq Sessions
  /\ \A r \in Requests :
       /\ req[r].pc \in {"idle", "store", "load", "check", "write", "drop", "wait", "done"}
       /\ req[r].outcome \in {None, "ok", "error", "panic", "cancelled"}
       /\ Len(req[r].ch) <= Buffer /\ Len(req[r].got) <= MaxChunks
       /\ peer[r].sent \in 0..MaxChunks /\ peer[r].end \in {None, "resp", "error", "end"}

(* What a caller takes for a success is what the client sent, complete and *)
(* in order, unless a message did not fit into the channel or the caller   *)
(* had cancelled: then NonStream may return the beginning of a stream that *)
(* was cut off as the whole.  Stream never does: it calls a stream ended   *)
(* only when the client ended it.                                          *)
SuccessIsComplete ==
  \A r \in Requests : req[r].outcome = "ok" =>
    \/ peer[r].end \in {"resp", "end"} /\ req[r].got = [k \in 1..peer[r].sent |-> k]
    \/ req[r].lost /\ (req[r].stream => peer[r].end \in {"resp", "end"})
    \/ req[r].cancelled = "waiting" /\ ~req[r].stream

(* A panic needs two goroutines at one request: a reader is only hit when  *)
(* the request was cancelled or another goroutine cleans up, a clean-up    *)
(* when the request was cancelled, when its send has just failed, or when  *)
(* the reader, not being the one that cleans up, retired it; and the       *)
(* overwritten map hits only those that use it at that moment.  With       *)
(* neither cancelled requests nor closing sessions the relay never panics. *)
PanicsExplained ==
  /\ ~Up =>
       LET s == crash.session  q == req[crash.request] IN
         CASE crash.who = "watcher" -> crash.reset /\ q.cancelled # "no"
           [] crash.who = "dispatch" -> \/ ~crash.reset /\ q.cancelled = "waiting"
                                        \/ clean[s].by \in {"heartbeat", "stop"}
           [] crash.who = "range" -> \/ q.cancelled = "waiting" \/ q.outcome = "error"
                                     \/ clean[s].by \in {"heartbeat", "stop"}
  /\ \A r \in Requests : req[r].outcome = "panic" => Closed(req[r].sess)

(* When a connection is over, the manager does not know its session and    *)
(* the service not its credential, unless the clean-up began while the     *)
(* handshake was still under way: then both may stay for good.             *)
NoGhosts ==
  \A s \in Sessions :
    (Up /\ clean[s].pc = "done" /\ conn[s].pc = "up") =>
      \/ s \notin sessions /\ cred[s] = "delete"
      \/ clean[s].during \in {"new", "stored"}

(* Every caller that has sent its request returns once the peer is gone or *)
(* the session closed: no request is stored too late to be found by the    *)
(* clean-up and left waiting.                                              *)
CallersReturn ==
  \A r \in Requests, s \in Sessions :
    (req[r].sess = s /\ (conn[s].gone \/ Closed(s))) ~> (req[r].pc = "done" \/ ~Up)
=============================================================================
