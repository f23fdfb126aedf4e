---------------------------- MODULE WsRelayProofs ----------------------------
(***************************************************************************)
(* Theorems of WsRelay for any number of connections and requests, any     *)
(* capacity of the channels and any length of the streams.                 *)
(***************************************************************************)
EXTENDS WsRelay, FunctionTheorems, FiniteSetTheorems, TLAPS

(* Types *)

Body == [kind : {"part", "resp", "error", "end", None}, num : 0..MaxChunks]
Channel == Seq(Body)
ConnType == [pc : {"no", "new", "stored", "up"}, gone : BOOLEAN,
             reader : {"no", "read", "ended"},
             msg : [to : Requests \cup {None}, body : Body, given : BOOLEAN]]
CleanType == [pc : {"open", "range", "reset", "unmap", "emit", "done"},
              by : {None, "heartbeat", "reader", "stop"},
              during : {"no", "new", "stored", "up"},
              must : SUBSET Requests, seen : SUBSET Requests, at : Requests \cup {None}]
ReqType == [pc : {"idle", "store", "load", "check", "write", "drop", "wait", "done"},
            sess : Sessions \cup {None}, stream : BOOLEAN, ch : Channel, shut : BOOLEAN,
            lost : BOOLEAN, got : Seq(1..MaxChunks), watch : BOOLEAN,
            cancelled : {"no", "waiting", "after"},
            outcome : {None, "ok", "error", "panic", "cancelled"}]
PeerType == [at : Sessions \cup {None}, sent : 0..MaxChunks, end : {None, "resp", "error", "end"}]
StopType == [pc : {"no", "clean"}, list : SUBSET Sessions]

(* A request that is under way has a session, and its channel holds what   *)
(* it can hold.                                                            *)
ReqOK(q) ==
  /\ q \in ReqType
  /\ q.pc \in {"store", "load", "check", "write", "drop", "wait"} => q.sess \in Sessions
  /\ q.watch => q.sess \in Sessions
  /\ Len(q.ch) <= Buffer
  /\ \A k \in DOMAIN q.ch : q.ch[k].kind # None /\ (q.ch[k].kind = "part" => q.ch[k].num > 0)

Types ==
  /\ conn \in [Sessions -> ConnType] /\ sessions \subseteq Sessions
  /\ clean \in [Sessions -> CleanType] /\ stop \in StopType
  /\ pending \in [Sessions -> SUBSET Requests]
  /\ req \in [Requests -> ReqType] /\ peer \in [Requests -> PeerType]
  /\ cred \in [Sessions -> {None, "add", "delete"}]
  /\ \A s \in Sessions : Reading(s) => /\ conn[s].msg.to \in Requests
                                       /\ conn[s].msg.body.kind # None
                                       /\ conn[s].msg.body.kind = "part" => conn[s].msg.body.num > 0
  /\ \A r \in Requests : ReqOK(req[r])

(* A message that is offered, whether there is room for it or not.         *)
LEMMA OfferType ==
  ASSUME NEW q, ReqOK(q), NEW m \in Body, m.kind # None, m.kind = "part" => m.num > 0
  PROVE  ReqOK(Offer(q, m)) /\ Offer(q, m).pc = q.pc /\ Offer(q, m).sess = q.sess
<1>1. q.ch \in Seq(Body) /\ Len(q.ch) \in Nat /\ DOMAIN q.ch = 1..Len(q.ch) /\ q \in ReqType
  BY DEF ReqOK, ReqType, Channel
<1>2. CASE Len(q.ch) < Buffer
  <2>1. Offer(q, m) = [q EXCEPT !.ch = Append(q.ch, m)]
    BY <1>2 DEF Offer
  <2>2. /\ Append(q.ch, m) \in Seq(Body) /\ Len(Append(q.ch, m)) = Len(q.ch) + 1
        /\ \A k \in 1..Len(q.ch) : Append(q.ch, m)[k] = q.ch[k]
        /\ Append(q.ch, m)[Len(q.ch) + 1] = m
    BY <1>1
  <2>3. Len(Append(q.ch, m)) <= Buffer
    BY <1>1, <1>2, <2>2, RelayAssumption
  <2>4. \A k \in DOMAIN Append(q.ch, m) :
          /\ Append(q.ch, m)[k].kind # None
          /\ Append(q.ch, m)[k].kind = "part" => Append(q.ch, m)[k].num > 0
    <3> TAKE k \in DOMAIN Append(q.ch, m)
    <3>1. k \in 1..Len(q.ch) \/ k = Len(q.ch) + 1
      BY <1>1, <2>2
    <3> QED
      BY <1>1, <2>2, <3>1 DEF ReqOK
  <2>5. Offer(q, m) \in ReqType
    BY <1>1, <2>1, <2>2 DEF ReqType, Channel
  <2> QED
    BY <2>1, <2>3, <2>4, <2>5 DEF ReqType, ReqOK
<1>3. CASE ~(Len(q.ch) < Buffer)
  <2>1. Offer(q, m) = [q EXCEPT !.lost = TRUE]
    BY <1>3 DEF Offer
  <2> QED
    BY <1>1, <2>1 DEF ReqType, ReqOK
<1> QED
  BY <1>2, <1>3
(* A connection and a clean-up with new fields.                            *)
LEMMA NewFields ==
  /\ \A c \in ConnType : /\ [c EXCEPT !.pc = "up", !.reader = "read"] \in ConnType
                         /\ [c EXCEPT !.gone = TRUE] \in ConnType
                         /\ [c EXCEPT !.reader = "ended"] \in ConnType
                         /\ [c EXCEPT !.pc = "up", !.reader = "read"].msg = c.msg
                         /\ [c EXCEPT !.gone = TRUE].msg = c.msg
                         /\ [c EXCEPT !.reader = "ended"].msg = c.msg
  /\ \A c \in CleanType, r \in Requests : [c EXCEPT !.at = r, !.seen = c.seen \cup {r}] \in CleanType
<1>1. ASSUME NEW c \in ConnType
      PROVE  /\ [c EXCEPT !.pc = "up", !.reader = "read"] \in ConnType
             /\ [c EXCEPT !.gone = TRUE] \in ConnType
             /\ [c EXCEPT !.reader = "ended"] \in ConnType
             /\ [c EXCEPT !.pc = "up", !.reader = "read"].msg = c.msg
             /\ [c EXCEPT !.gone = TRUE].msg = c.msg
             /\ [c EXCEPT !.reader = "ended"].msg = c.msg
  BY DEF ConnType
<1>2. ASSUME NEW c \in CleanType, NEW r \in Requests
      PROVE  [c EXCEPT !.at = r, !.seen = c.seen \cup {r}] \in CleanType
  <2>1. c.seen \cup {r} \in SUBSET Requests
    BY DEF CleanType
  <2> QED
    BY <2>1 DEF CleanType
<1> QED
  BY <1>1, <1>2

(* The initial states.                                                     *)
LEMMA TypesInit == Init => Types
<1> SUFFICES ASSUME Init PROVE Types
  OBVIOUS
<1>1. NoMsg \in [to : Requests \cup {None}, body : Body, given : BOOLEAN]
  BY RelayAssumption DEF NoMsg, Word, Body
<1>2. conn \in [Sessions -> ConnType] /\ \A s \in Sessions : ~Reading(s)
  BY <1>1 DEF Init, ConnType, Reading
<1>3. clean \in [Sessions -> CleanType]
  BY DEF Init, CleanType
<1>4. <<>> \in Channel /\ <<>> \in Seq(1..MaxChunks)
  BY DEF Channel
<1>5. req \in [Requests -> ReqType]
  BY <1>4 DEF Init, ReqType
<1>6. \A r \in Requests : ReqOK(req[r])
  <2>1. \A r \in Requests : req[r].pc = "idle" /\ req[r].ch = <<>> /\ ~req[r].watch
    BY DEF Init
  <2> QED
    BY <1>5, <2>1, RelayAssumption DEF ReqOK
<1>7. peer \in [Requests -> PeerType]
  BY RelayAssumption DEF Init, PeerType
<1>8. stop \in StopType /\ sessions \subseteq Sessions /\ pending \in [Sessions -> SUBSET Requests]
      /\ cred \in [Sessions -> {None, "add", "delete"}]
  BY DEF Init, StopType
<1> QED
  BY <1>2, <1>3, <1>5, <1>6, <1>7, <1>8 DEF Types

(* The connections and their clean-up, but for what touches a request.     *)
LEMMA TypesSession ==
  ASSUME Types, NEW s \in Sessions,
         \/ Connect(s) \/ HandshakeStep(s) \/ PeerLeaves(s) \/ HeartbeatFails(s) \/ ReadFails(s)
         \/ StopTakes \/ StopCleans(s) \/ (\E r \in Requests : RangePick(s, r)) \/ RangeEnds(s)
         \/ Reset(s) \/ Unmap(s) \/ Emit(s)
  PROVE  Types' /\ \A t \in Sessions : conn'[t].msg = conn[t].msg
<1>0. req' = req /\ peer' = peer
  BY DEF Connect, HandshakeStep, StoreSession, Announce, PeerLeaves, HeartbeatFails, ReadFails, StopTakes,
         StopCleans, RangePick, RangeEnds, Reset, Unmap, Emit
<1>1. conn' \in [Sessions -> ConnType] /\ \A t \in Sessions : conn'[t].msg = conn[t].msg
  <2>1. conn \in [Sessions -> ConnType]
    BY DEF Types
  <2>2. \/ conn' = conn
        \/ conn' = [conn EXCEPT ![s].pc = "new"]
        \/ conn' = [conn EXCEPT ![s].pc = "stored"]
        \/ conn' = [conn EXCEPT ![s].pc = "up", ![s].reader = "read"]
        \/ conn' = [conn EXCEPT ![s].gone = TRUE]
        \/ conn' = [conn EXCEPT ![s].reader = "ended"]
    BY DEF Connect, HandshakeStep, StoreSession, Announce, PeerLeaves, HeartbeatFails, ReadFails,
           StopTakes, StopCleans, RangePick, RangeEnds, Reset, Unmap, Emit
  <2>3. ASSUME NEW c \in ConnType, conn' = [conn EXCEPT ![s] = c], c.msg = conn[s].msg
        PROVE  <1>1
    BY <2>1, <2>3
  <2>4. CASE conn' = conn
    BY <2>1, <2>4
  <2>5. CASE conn' = [conn EXCEPT ![s].pc = "new"] \/ conn' = [conn EXCEPT ![s].pc = "stored"]
    BY <2>1, <2>5 DEF ConnType
  <2>6. CASE conn' = [conn EXCEPT ![s].pc = "up", ![s].reader = "read"]
    <3>1. conn' = [conn EXCEPT ![s] = [conn[s] EXCEPT !.pc = "up", !.reader = "read"]]
      BY <2>1, <2>6
    <3> QED
      BY <2>1, <2>3, <3>1, NewFields
  <2>7. CASE conn' = [conn EXCEPT ![s].gone = TRUE]
    <3>1. conn' = [conn EXCEPT ![s] = [conn[s] EXCEPT !.gone = TRUE]]
      BY <2>7
    <3> QED
      BY <2>1, <2>3, <3>1, NewFields
  <2>8. CASE conn' = [conn EXCEPT ![s].reader = "ended"]
    <3>1. conn' = [conn EXCEPT ![s] = [conn[s] EXCEPT !.reader = "ended"]]
      BY <2>8
    <3> QED
      BY <2>1, <2>3, <3>1, NewFields
  <2> QED
    BY <2>2, <2>4, <2>5, <2>6, <2>7, <2>8
<1>2. clean' \in [Sessions -> CleanType]
  <2>1. clean \in [Sessions -> CleanType] /\ conn \in [Sessions -> ConnType]
        /\ pending \in [Sessions -> SUBSET Requests]
    BY DEF Types
  <2>2. \/ clean' = clean
        \/ \E by \in {"heartbeat", "reader", "stop"} : Begin(s, by)
        \/ \E r \in Requests : clean' = [clean EXCEPT ![s].at = r, ![s].seen = @ \cup {r}]
        \/ \E pc \in {"reset", "unmap", "emit", "done"} : clean' = [clean EXCEPT ![s].pc = pc]
    BY DEF Connect, HandshakeStep, StoreSession, Announce, PeerLeaves, HeartbeatFails, ReadFails,
           StopTakes, StopCleans, RangePick, RangeEnds, Reset, Unmap, Emit
  <2>3. ASSUME NEW by \in {"heartbeat", "reader", "stop"}, Begin(s, by) PROVE <1>2
    <3>1. conn[s].pc \in {"no", "new", "stored", "up"} /\ pending[s] \subseteq Requests
      BY <2>1 DEF ConnType
    <3> QED
      BY <2>1, <2>3, <3>1 DEF Begin, CleanType
  <2>4. ASSUME NEW r \in Requests, clean' = [clean EXCEPT ![s].at = r, ![s].seen = @ \cup {r}]
        PROVE  <1>2
    <3>1. clean'[s] = [clean[s] EXCEPT !.at = r, !.seen = clean[s].seen \cup {r}]
          /\ \A t \in Sessions : t # s => clean'[t] = clean[t]
      BY <2>1, <2>4
    <3>2. clean'[s] \in CleanType
      <4>1. clean[s] \in CleanType
        BY <2>1
      <4>2. [clean[s] EXCEPT !.at = r, !.seen = clean[s].seen \cup {r}] \in CleanType
        BY ONLY <4>1, NewFields, r \in Requests
      <4> QED
        BY ONLY <3>1, <4>2
    <3> QED
      BY <2>1, <2>4, <3>1, <3>2
  <2>5. ASSUME NEW pc \in {"reset", "unmap", "emit", "done"}, clean' = [clean EXCEPT ![s].pc = pc]
        PROVE  <1>2
    BY <2>1, <2>5 DEF CleanType
  <2> QED
    BY <2>1, <2>2, <2>3, <2>4, <2>5
<1>3. sessions' \subseteq Sessions /\ stop' \in StopType
  <2>1. stop \in StopType /\ sessions \subseteq Sessions
    BY DEF Types
  <2>2. \/ stop' = stop
        \/ stop' = [pc |-> "clean", list |-> sessions]
        \/ stop' = [stop EXCEPT !.list = @ \ {s}]
    BY DEF Connect, HandshakeStep, StoreSession, Announce, PeerLeaves, HeartbeatFails, ReadFails,
           StopTakes, StopCleans, RangePick, RangeEnds, Reset, Unmap, Emit
  <2>3. sessions' \in {sessions, {}, sessions \cup {s}, sessions \ {s}}
    BY DEF Connect, HandshakeStep, StoreSession, Announce, PeerLeaves, HeartbeatFails, ReadFails,
           StopTakes, StopCleans, RangePick, RangeEnds, Reset, Unmap, Emit
  <2>4. stop' \in StopType
    BY <2>1, <2>2 DEF StopType
  <2> QED
    BY <2>1, <2>3, <2>4
<1>4. pending' \in [Sessions -> SUBSET Requests] /\ cred' \in [Sessions -> {None, "add", "delete"}]
  BY DEF Types, Connect, HandshakeStep, StoreSession, Announce, PeerLeaves, HeartbeatFails,
         ReadFails, StopTakes, StopCleans, RangePick, RangeEnds, Reset, Unmap, Emit
<1> QED
  BY <1>0, <1>1, <1>2, <1>3, <1>4 DEF Types, Reading

(* Steps that give one request a new value.                                *)
LEMMA TypesRequest ==
  ASSUME Types, NEW r \in Requests, NEW q, ReqOK(q), req' = [req EXCEPT ![r] = q],
         UNCHANGED <<conn, sessions, clean, stop, cred>>,
         pending' \in [Sessions -> SUBSET Requests], peer' \in [Requests -> PeerType]
  PROVE  Types'
<1>1. req' \in [Requests -> ReqType] /\ \A p \in Requests : ReqOK(req'[p])
  BY DEF Types, ReqOK
<1> QED
  BY <1>1 DEF Types, Reading

(* Changes of the fields of a request that keep it in order.               *)
LEMMA RequestFields ==
  ASSUME NEW q, ReqOK(q)
  PROVE  /\ q \in ReqType
         /\ \A o \in {"ok", "error", "panic", "cancelled"} :
              ReqOK([q EXCEPT !.pc = "done", !.outcome = o])
         /\ \A b \in BOOLEAN : ReqOK([q EXCEPT !.stream = b]) /\ ReqOK([q EXCEPT !.shut = b])
         /\ \A pc \in {"store", "load", "check", "write", "drop"} :
              q.sess \in Sessions => ReqOK([q EXCEPT !.pc = pc])
         /\ q.sess \in Sessions => ReqOK([q EXCEPT !.pc = "wait", !.watch = TRUE])
         /\ \A s \in Sessions, b \in BOOLEAN :
              ReqOK([q EXCEPT !.pc = "store", !.sess = s, !.stream = b])
         /\ \A c \in {"waiting", "after"} : ReqOK([q EXCEPT !.cancelled = c])
         /\ ReqOK([q EXCEPT !.watch = FALSE])
<1>1. /\ q \in ReqType /\ Len(q.ch) <= Buffer
      /\ q.pc \in {"store", "load", "check", "write", "drop", "wait"} => q.sess \in Sessions
      /\ q.watch => q.sess \in Sessions
      /\ \A k \in DOMAIN q.ch : q.ch[k].kind # None /\ (q.ch[k].kind = "part" => q.ch[k].num > 0)
  BY DEF ReqOK
<1>2. ASSUME NEW p \in ReqType, p.ch = q.ch,
             p.pc \in {"store", "load", "check", "write", "drop", "wait"} => p.sess \in Sessions,
             p.watch => p.sess \in Sessions
      PROVE  ReqOK(p)
  BY <1>1, <1>2 DEF ReqOK
<1>3. ASSUME NEW o \in {"ok", "error", "panic", "cancelled"}
      PROVE  ReqOK([q EXCEPT !.pc = "done", !.outcome = o])
  <2> DEFINE p == [q EXCEPT !.pc = "done", !.outcome = o]
  <2>1. /\ p \in ReqType /\ p.ch = q.ch /\ p.pc = "done"
        /\ p.watch = q.watch /\ p.sess = q.sess
    BY <1>1 DEF ReqType
  <2> HIDE DEF p
  <2>2. ReqOK(p)
    BY <1>1, <1>2, <2>1
  <2> QED
    BY <2>2 DEF p
<1>4. ASSUME NEW b \in BOOLEAN PROVE ReqOK([q EXCEPT !.stream = b]) /\ ReqOK([q EXCEPT !.shut = b])
  <2> DEFINE p == [q EXCEPT !.stream = b]
             d == [q EXCEPT !.shut = b]
  <2>1. /\ p \in ReqType /\ p.ch = q.ch /\ p.pc = q.pc
        /\ p.watch = q.watch /\ p.sess = q.sess
    BY <1>1 DEF ReqType
  <2>2. /\ d \in ReqType /\ d.ch = q.ch /\ d.pc = q.pc
        /\ d.watch = q.watch /\ d.sess = q.sess
    BY <1>1 DEF ReqType
  <2> HIDE DEF p, d
  <2>3. ReqOK(p) /\ ReqOK(d)
    BY <1>1, <1>2, <2>1, <2>2
  <2> QED
    BY <2>3 DEF p, d
<1>5. ASSUME NEW pc \in {"store", "load", "check", "write", "drop"}, q.sess \in Sessions
      PROVE  ReqOK([q EXCEPT !.pc = pc])
  <2> DEFINE p == [q EXCEPT !.pc = pc]
  <2>1. p \in ReqType /\ p.ch = q.ch /\ p.sess = q.sess
    BY <1>1 DEF ReqType
  <2> HIDE DEF p
  <2>2. ReqOK(p)
    BY <1>1, <1>2, <1>5, <2>1
  <2> QED
    BY <2>2 DEF p
<1>6. ASSUME q.sess \in Sessions PROVE ReqOK([q EXCEPT !.pc = "wait", !.watch = TRUE])
  <2> DEFINE p == [q EXCEPT !.pc = "wait", !.watch = TRUE]
  <2>1. p \in ReqType /\ p.ch = q.ch /\ p.sess = q.sess
    BY <1>1 DEF ReqType
  <2> HIDE DEF p
  <2>2. ReqOK(p)
    BY <1>1, <1>2, <1>6, <2>1
  <2> QED
    BY <2>2 DEF p
<1>7. ASSUME NEW s \in Sessions, NEW b \in BOOLEAN
      PROVE  ReqOK([q EXCEPT !.pc = "store", !.sess = s, !.stream = b])
  <2> DEFINE p == [q EXCEPT !.pc = "store", !.sess = s, !.stream = b]
  <2>1. p \in ReqType /\ p.ch = q.ch /\ p.sess = s
    BY <1>1 DEF ReqType
  <2> HIDE DEF p
  <2>2. ReqOK(p)
    BY <1>1, <1>2, <2>1
  <2> QED
    BY <2>2 DEF p
<1>8. ASSUME NEW c \in {"waiting", "after"} PROVE ReqOK([q EXCEPT !.cancelled = c])
  <2> DEFINE p == [q EXCEPT !.cancelled = c]
  <2>1. p \in ReqType /\ p.ch = q.ch /\ p.pc = q.pc /\ p.watch = q.watch /\ p.sess = q.sess
    BY <1>1 DEF ReqType
  <2> HIDE DEF p
  <2>2. ReqOK(p)
    BY <1>1, <1>2, <2>1
  <2> QED
    BY <2>2 DEF p
<1>9. ReqOK([q EXCEPT !.watch = FALSE])
  <2> DEFINE p == [q EXCEPT !.watch = FALSE]
  <2>1. p \in ReqType /\ p.ch = q.ch /\ p.pc = q.pc /\ p.watch = FALSE /\ p.sess = q.sess
    BY <1>1 DEF ReqType
  <2> HIDE DEF p
  <2>2. ReqOK(p)
    BY <1>1, <1>2, <2>1
  <2> QED
    BY <2>2 DEF p
<1> QED
  BY <1>1, <1>3, <1>4, <1>5, <1>6, <1>7, <1>8, <1>9

(* The caller takes a message, or finds the channel closed.                *)
LEMMA TakenType ==
  ASSUME NEW q, ReqOK(q), q.ch # <<>>
  PROVE  /\ Head(q.ch) \in Body /\ Head(q.ch).kind # None
         /\ ReqOK([q EXCEPT !.ch = Tail(@)])
         /\ Head(q.ch).kind = "part" =>
              ReqOK([[q EXCEPT !.ch = Tail(@)] EXCEPT !.got = Append(@, Head(q.ch).num)])
<1>1. /\ q \in ReqType /\ Len(q.ch) <= Buffer
      /\ q.pc \in {"store", "load", "check", "write", "drop", "wait"} => q.sess \in Sessions
      /\ q.watch => q.sess \in Sessions
      /\ \A k \in DOMAIN q.ch : q.ch[k].kind # None /\ (q.ch[k].kind = "part" => q.ch[k].num > 0)
  BY DEF ReqOK
<1>2. q.ch \in Seq(Body) /\ q.got \in Seq(1..MaxChunks)
  BY <1>1 DEF ReqType, Channel
<1>3. /\ Len(q.ch) \in Nat \ {0} /\ Tail(q.ch) \in Seq(Body) /\ Len(Tail(q.ch)) = Len(q.ch) - 1
      /\ \A k \in 1..Len(q.ch) - 1 : Tail(q.ch)[k] = q.ch[k + 1]
      /\ Head(q.ch) = q.ch[1] /\ DOMAIN q.ch = 1..Len(q.ch)
      /\ DOMAIN Tail(q.ch) = 1..Len(q.ch) - 1 /\ Head(q.ch) \in Body
  BY <1>2
<1>4. /\ Head(q.ch).kind # None /\ (Head(q.ch).kind = "part" => Head(q.ch).num \in 1..MaxChunks)
      /\ \A k \in DOMAIN Tail(q.ch) : /\ Tail(q.ch)[k].kind # None
                                      /\ Tail(q.ch)[k].kind = "part" => Tail(q.ch)[k].num > 0
      /\ Len(Tail(q.ch)) <= Buffer
  <2>1. 1 \in DOMAIN q.ch /\ \A k \in DOMAIN Tail(q.ch) : k + 1 \in DOMAIN q.ch
    BY <1>3
  <2>2. Head(q.ch).num \in 0..MaxChunks
    BY <1>3 DEF Body
  <2> QED
    BY <1>1, <1>3, <2>1, <2>2, RelayAssumption
<1> DEFINE p == [q EXCEPT !.ch = Tail(@)]
<1>5. p \in ReqType /\ p.ch = Tail(q.ch) /\ p.pc = q.pc /\ p.watch = q.watch /\ p.sess = q.sess
      /\ p.got = q.got
  BY <1>1, <1>3 DEF ReqType, Channel
<1> HIDE DEF p
<1>6. ReqOK(p)
  BY <1>1, <1>4, <1>5 DEF ReqOK
<1>7. ASSUME Head(q.ch).kind = "part"
      PROVE  ReqOK([p EXCEPT !.got = Append(@, Head(q.ch).num)])
  <2> DEFINE g == [p EXCEPT !.got = Append(@, Head(q.ch).num)]
  <2>1. Append(p.got, Head(q.ch).num) \in Seq(1..MaxChunks)
    BY <1>2, <1>4, <1>5, <1>7
  <2>2. g \in ReqType /\ g.ch = p.ch /\ g.pc = p.pc /\ g.watch = p.watch /\ g.sess = p.sess
    BY <1>5, <2>1 DEF ReqType
  <2> HIDE DEF g
  <2>3. ReqOK(g)
    BY <1>6, <2>2 DEF ReqOK
  <2> QED
    BY <2>3 DEF g
<1> QED
  BY <1>3, <1>4, <1>6, <1>7 DEF p

(* The caller and the watcher.                                             *)
LEMMA TypesCaller ==
  ASSUME Types, NEW r \in Requests, CallerStep(r) \/ Cancel(r) \/ Watch(r)
  PROVE  Types'
<1> DEFINE q == req[r]
<1>0. /\ req \in [Requests -> ReqType] /\ ReqOK(q) /\ peer \in [Requests -> PeerType]
      /\ pending \in [Sessions -> SUBSET Requests]
  BY DEF Types
<1>1. /\ q \in ReqType /\ (q.pc \in {"store", "load", "check", "write", "drop", "wait"} => q.sess \in Sessions)
      /\ (q.watch => q.sess \in Sessions)
  BY <1>0 DEF ReqOK
<1>2. UNCHANGED <<conn, sessions, clean, stop, cred>>
  BY DEF CallerStep, Cancel, Watch, CallerSend, CallerPanics, CallerStore, CallerLoad, CallerCheck,
         CallerWrite, CallerDrop, CallerTake, CallerClosed, CallerGivesUp, callerElse
<1>3. /\ \A s \in Sessions : [pending EXCEPT ![s] = @ \ {r}] \in [Sessions -> SUBSET Requests]
      /\ \A s \in Sessions : [pending EXCEPT ![s] = @ \cup {r}] \in [Sessions -> SUBSET Requests]
  BY <1>0
<1> HIDE DEF q
<1>4. ASSUME NEW d, ReqOK(d), req' = [req EXCEPT ![r] = d],
             pending' \in [Sessions -> SUBSET Requests], peer' \in [Requests -> PeerType]
      PROVE  Types'
  BY <1>2, <1>4, TypesRequest
<1>5. \A s \in Sessions : \A p : ReqOK(p) => ReqOK([p EXCEPT !.shut = @ \/ r \in pending[s]])
  <2> SUFFICES ASSUME NEW s \in Sessions, NEW p, ReqOK(p)
               PROVE  ReqOK([p EXCEPT !.shut = p.shut \/ r \in pending[s]])
    OBVIOUS
  <2>1. (p.shut \/ r \in pending[s]) \in BOOLEAN
    OBVIOUS
  <2> QED
    BY <2>1, RequestFields
<1>6. ASSUME NEW s \in Sessions, NEW p, ReqOK(p), Drop(s, r, p), peer' = peer PROVE Types'
  <2>1. req' = [req EXCEPT ![r] = [p EXCEPT !.shut = @ \/ r \in pending[s]]]
        /\ pending' = [pending EXCEPT ![s] = @ \ {r}]
    BY <1>6 DEF Drop
  <2> QED
    BY <1>0, <1>3, <1>4, <1>5, <1>6, <2>1
<1>7. CASE CallerSend(r)
  <2>1. PICK s \in Sessions, stream \in BOOLEAN :
          req' = [req EXCEPT ![r] = IF s \in sessions
                                    THEN [q EXCEPT !.pc = "store", !.sess = s, !.stream = stream]
                                    ELSE Return([q EXCEPT !.stream = stream], "error")]
    BY <1>7 DEF CallerSend, q
  <2>2. ReqOK([q EXCEPT !.pc = "store", !.sess = s, !.stream = stream])
    BY <1>0, RequestFields
  <2>3. ReqOK(Return([q EXCEPT !.stream = stream], "error"))
    <3>1. ReqOK([q EXCEPT !.stream = stream])
      BY <1>0, RequestFields
    <3> QED
      BY <3>1, RequestFields DEF Return
  <2>4. pending' = pending /\ peer' = peer
    BY <1>7 DEF CallerSend
  <2> QED
    BY <1>0, <1>4, <2>1, <2>2, <2>3, <2>4
<1>8. CASE CallerPanics(r) \/ CallerGivesUp(r) \/ CallerClosed(r)
  <2>1. \E o \in {"panic", "cancelled", "ok", "error"} : req' = [req EXCEPT ![r] = Return(q, o)]
    BY <1>8 DEF CallerPanics, CallerGivesUp, CallerClosed, q
  <2>2. \A o \in {"panic", "cancelled", "ok", "error"} : ReqOK(Return(q, o))
    BY <1>0, RequestFields DEF Return
  <2>3. pending' = pending /\ peer' = peer
    BY <1>8 DEF CallerPanics, CallerGivesUp, CallerClosed
  <2> QED
    BY <1>0, <1>4, <2>1, <2>2, <2>3
<1>9. CASE CallerStore(r)
  <2>1. /\ q.pc = "store" /\ req' = [req EXCEPT ![r] = [q EXCEPT !.pc = "load"]] /\ peer' = peer
        /\ pending' = [pending EXCEPT ![q.sess] = @ \cup {r}]
    BY <1>9 DEF CallerStore, q
  <2>2. ReqOK([q EXCEPT !.pc = "load"]) /\ q.sess \in Sessions
    BY <1>0, <1>1, <2>1, RequestFields
  <2> QED
    BY <1>0, <1>3, <1>4, <2>1, <2>2
<1>10. CASE CallerLoad(r) \/ CallerCheck(r)
  <2>1. /\ q.pc \in {"load", "check"} /\ pending' = pending /\ peer' = peer
        /\ \/ \E pc \in {"check", "drop", "write"} : req' = [req EXCEPT ![r] = [q EXCEPT !.pc = pc]]
           \/ req' = [req EXCEPT ![r] = Return(q, "panic")]
    BY <1>10 DEF CallerLoad, CallerCheck, callerElse, q
  <2>2. /\ \A pc \in {"check", "drop", "write"} : ReqOK([q EXCEPT !.pc = pc])
        /\ ReqOK(Return(q, "panic"))
    BY <1>0, <1>1, <2>1, RequestFields DEF Return
  <2> QED
    BY <1>0, <1>4, <2>1, <2>2
<1>11. CASE CallerWrite(r)
  <2>1. /\ q.pc = "write" /\ pending' = pending
        /\ peer' = peer \/ peer' = [peer EXCEPT ![r].at = q.sess]
        /\ \/ req' = [req EXCEPT ![r] = [q EXCEPT !.pc = "drop"]]
           \/ req' = [req EXCEPT ![r] = [q EXCEPT !.pc = "wait", !.watch = TRUE]]
    <3>1. req[r].pc = "write" /\ pending' = pending
      BY <1>11 DEF CallerWrite
    <3>2. peer' = peer \/ peer' = [peer EXCEPT ![r].at = req[r].sess]
      BY <1>11 DEF CallerWrite
    <3>3. \/ req' = [req EXCEPT ![r].pc = "drop"]
          \/ req' = [req EXCEPT ![r].pc = "wait", ![r].watch = TRUE]
      BY <1>11 DEF CallerWrite
    <3>4. \/ req' = [req EXCEPT ![r] = [req[r] EXCEPT !.pc = "drop"]]
          \/ req' = [req EXCEPT ![r] = [req[r] EXCEPT !.pc = "wait", !.watch = TRUE]]
      BY <1>0, <3>3
    <3> QED
      BY <3>1, <3>2, <3>4 DEF q
  <2>2. q.sess \in Sessions
    BY <1>1, <2>1
  <2>3. ReqOK([q EXCEPT !.pc = "drop"]) /\ ReqOK([q EXCEPT !.pc = "wait", !.watch = TRUE])
    BY <1>0, <2>2, RequestFields
  <2>4. peer' \in [Requests -> PeerType]
    BY <1>0, <2>1, <2>2 DEF PeerType
  <2> QED
    BY <1>0, <1>4, <2>1, <2>3, <2>4
<1>12. CASE CallerDrop(r)
  <2>1. q.pc = "drop" /\ Drop(q.sess, r, Return(q, "error")) /\ peer' = peer
    BY <1>12 DEF CallerDrop, callerElse, q
  <2>2. q.sess \in Sessions /\ ReqOK(Return(q, "error"))
    BY <1>0, <1>1, <2>1, RequestFields DEF Return
  <2> QED
    BY <1>6, <2>1, <2>2
<1>13. CASE CallerTake(r)
  <2> DEFINE d == [q EXCEPT !.ch = Tail(@)]
             m == Head(q.ch)
  <2>1. /\ q.ch # <<>> /\ pending' = pending /\ peer' = peer
        /\ req' = [req EXCEPT ![r] = CASE m.kind = "error" -> Return(d, "error")
                                       [] m.kind \in {"resp", "end"} -> Return(d, "ok")
                                       [] OTHER -> [d EXCEPT !.got = Append(@, m.num)]]
    BY <1>13 DEF CallerTake, callerElse, q
  <2>2. /\ m.kind \in {"part", "resp", "error", "end"} /\ ReqOK(d)
        /\ m.kind = "part" => ReqOK([d EXCEPT !.got = Append(@, m.num)])
    BY <1>0, <2>1, TakenType DEF Body
  <2> HIDE DEF d, m
  <2>3. ReqOK(Return(d, "error")) /\ ReqOK(Return(d, "ok"))
    BY <2>2, RequestFields DEF Return
  <2>4. ReqOK(CASE m.kind = "error" -> Return(d, "error")
                [] m.kind \in {"resp", "end"} -> Return(d, "ok")
                [] OTHER -> [d EXCEPT !.got = Append(@, m.num)])
    BY <2>2, <2>3
  <2> QED
    BY <1>0, <1>4, <2>1, <2>4
<1>14. CASE Cancel(r)
  <2>1. /\ pending' = pending /\ peer' = peer
        /\ \E c \in {"waiting", "after"} : req' = [req EXCEPT ![r] = [q EXCEPT !.cancelled = c]]
    BY <1>14 DEF Cancel, callerElse, q
  <2>2. \A c \in {"waiting", "after"} : ReqOK([q EXCEPT !.cancelled = c])
    BY <1>0, RequestFields
  <2> QED
    BY <1>0, <1>4, <2>1, <2>2
<1>15. CASE Watch(r)
  <2>1. /\ q.watch /\ peer' = peer
        /\ \/ Drop(q.sess, r, [q EXCEPT !.watch = FALSE])
           \/ req' = req /\ pending' = pending
           \/ req' = [req EXCEPT ![r] = [q EXCEPT !.watch = FALSE]] /\ pending' = pending
    BY <1>15 DEF Watch, q
  <2>2. q.sess \in Sessions /\ ReqOK([q EXCEPT !.watch = FALSE])
    BY <1>0, <1>1, <2>1, RequestFields
  <2>3. req = [req EXCEPT ![r] = q]
    BY <1>0 DEF q
  <2> QED
    BY <1>0, <1>4, <1>6, <2>1, <2>2, <2>3
<1> QED
  BY <1>7, <1>8, <1>9, <1>10, <1>11, <1>12, <1>13, <1>14, <1>15 DEF CallerStep

(* The clean-up visits a request: it gets the error, and is shut.          *)
LEMMA TypesVisit ==
  ASSUME Types, NEW s \in Sessions, RangeVisit(s)
  PROVE  Types'
<1> DEFINE r == clean[s].at
<1>0. /\ req \in [Requests -> ReqType] /\ clean \in [Sessions -> CleanType]
      /\ \A p \in Requests : ReqOK(req[p])
      /\ Word("error") \in Body /\ Word("error").kind = "error"
  BY RelayAssumption DEF Types, Word, Body
<1>1. UNCHANGED <<conn, sessions, stop, pending, peer, cred>> /\ r # None
  BY DEF RangeVisit
<1>2. r \in Requests /\ clean[s] \in CleanType
  BY <1>0, <1>1 DEF CleanType
<1>3. CASE req' = req /\ clean' = clean
  BY <1>1, <1>3 DEF Types, Reading
<1>4. CASE /\ req' = [req EXCEPT ![r] = [Offer(@, Word("error")) EXCEPT !.shut = TRUE]]
           /\ clean' = [clean EXCEPT ![s].at = None]
  <2>1. ReqOK([Offer(req[r], Word("error")) EXCEPT !.shut = TRUE])
    <3>1. ReqOK(Offer(req[r], Word("error")))
      BY <1>0, <1>2, OfferType DEF None
    <3> QED
      BY <3>1, RequestFields
  <2>2. req' \in [Requests -> ReqType] /\ \A p \in Requests : ReqOK(req'[p])
    BY <1>0, <1>4, <2>1 DEF ReqOK
  <2>3. clean' \in [Sessions -> CleanType]
    BY <1>0, <1>4 DEF CleanType
  <2> QED
    BY <1>1, <2>2, <2>3 DEF Types, Reading
<1> QED
  BY <1>3, <1>4 DEF RangeVisit

(* The reader takes a message, delivers it and retires its request.        *)
LEMMA TypesReader ==
  ASSUME Types, NEW s \in Sessions, (\E r \in Requests : Read(s, r)) \/ Deliver(s) \/ Retire(s)
  PROVE  Types'
<1>0. /\ req \in [Requests -> ReqType] /\ conn \in [Sessions -> ConnType]
      /\ peer \in [Requests -> PeerType] /\ pending \in [Sessions -> SUBSET Requests]
      /\ \A p \in Requests : ReqOK(req[p])
      /\ Reading(s) => /\ conn[s].msg.to \in Requests /\ conn[s].msg.body.kind # None
                       /\ conn[s].msg.body.kind = "part" => conn[s].msg.body.num > 0
      /\ NoMsg \in [to : Requests \cup {None}, body : Body, given : BOOLEAN]
  BY RelayAssumption DEF Types, NoMsg, Word, Body
<1>1. UNCHANGED <<sessions, clean, stop, cred>>
  BY DEF Read, Deliver, Retire
<1>2. ASSUME NEW m, m \in [to : Requests \cup {None}, body : Body, given : BOOLEAN],
             \/ m = NoMsg
             \/ /\ m.to \in Requests /\ m.body.kind # None
                /\ m.body.kind = "part" => m.body.num > 0,
             conn' = [conn EXCEPT ![s].msg = m],
             req' \in [Requests -> ReqType], \A p \in Requests : ReqOK(req'[p]),
             peer' \in [Requests -> PeerType], pending' \in [Sessions -> SUBSET Requests]
      PROVE  Types'
  <2>1. conn' \in [Sessions -> ConnType] /\ conn'[s].msg = m
        /\ \A t \in Sessions : t # s => conn'[t] = conn[t]
    BY <1>0, <1>2 DEF ConnType
  <2> QED
    BY <1>1, <1>2, <2>1 DEF Types, Reading
<1>3. ASSUME conn' = conn, req' = req, pending' = pending, peer' \in [Requests -> PeerType]
      PROVE  Types'
  BY <1>1, <1>3 DEF Types, Reading
<1>4. ASSUME NEW r \in Requests, Read(s, r) PROVE Types'
  <2>1. PICK m \in Messages(r) :
          /\ peer' = [peer EXCEPT ![r] = IF Terminal(m) THEN [@ EXCEPT !.end = m.kind]
                                         ELSE [@ EXCEPT !.sent = m.num]]
          /\ \/ conn' = conn
             \/ conn' = [conn EXCEPT ![s].msg = [to |-> r, body |-> m, given |-> FALSE]]
          /\ req' = req /\ pending' = pending
    BY <1>4 DEF Read
  <2>2. m \in Body /\ m.kind # None /\ (m.kind = "part" => m.num > 0) /\ m.num \in 0..MaxChunks
    <3>1. peer[r].sent \in 0..MaxChunks /\ MaxChunks \in Nat
      BY <1>0, RelayAssumption DEF PeerType
    <3>2. CASE m \in {Part(k) : k \in {peer[r].sent + 1} \cap 1..MaxChunks}
      <4>1. PICK k \in {peer[r].sent + 1} \cap 1..MaxChunks : m = Part(k)
        BY <3>2
      <4> QED
        BY <3>1, <4>1 DEF Part, Body, None
    <3>3. CASE m \in {Word("resp"), Word("end"), Word("error")}
      BY <3>1, <3>3 DEF Word, Body, None
    <3> QED
      BY <2>1, <3>2, <3>3 DEF Messages
  <2>3. peer' \in [Requests -> PeerType]
    <3>1. m.kind \in {"part", "resp", "error", "end"}
      BY <2>2 DEF Body
    <3>2. peer[r] \in PeerType
      BY <1>0
    <3>3. [peer[r] EXCEPT !.sent = m.num] \in PeerType
      BY <2>2, <3>2 DEF PeerType
    <3>4. Terminal(m) => [peer[r] EXCEPT !.end = m.kind] \in PeerType
      BY <3>2 DEF PeerType, Terminal
    <3> QED
      BY <1>0, <2>1, <3>3, <3>4
  <2> QED
    BY <1>0, <1>2, <1>3, <2>1, <2>2, <2>3 DEF Types
<1>5. CASE Deliver(s)
  <2> DEFINE r == conn[s].msg.to
             m == conn[s].msg.body
             g == [conn[s].msg EXCEPT !.given = TRUE]
  <2>1. /\ r \in Requests /\ m.kind # None /\ (m.kind = "part" => m.num > 0)
        /\ peer' = peer /\ pending' = pending
        /\ conn[s].msg \in [to : Requests \cup {None}, body : Body, given : BOOLEAN]
    BY <1>0, <1>5 DEF Deliver, ConnType
  <2>2. CASE conn' = conn /\ req' = req
    BY <1>0, <1>3, <2>1, <2>2
  <2>3. CASE /\ req' = [req EXCEPT ![r] = Offer(@, m)]
             /\ conn' = IF Terminal(m) THEN [conn EXCEPT ![s].msg.given = TRUE]
                        ELSE [conn EXCEPT ![s].msg = NoMsg]
    <3>1. ReqOK(Offer(req[r], m))
      BY <1>0, <2>1, OfferType
    <3>2. req' \in [Requests -> ReqType] /\ \A p \in Requests : ReqOK(req'[p])
      BY <1>0, <2>1, <2>3, <3>1 DEF ReqOK
    <3>3. /\ g \in [to : Requests \cup {None}, body : Body, given : BOOLEAN]
          /\ g.to = r /\ g.body = m
      BY <2>1
    <3>4. conn' = [conn EXCEPT ![s].msg = g] \/ conn' = [conn EXCEPT ![s].msg = NoMsg]
      BY <2>3
    <3> HIDE DEF g, r, m
    <3> QED
      BY <1>0, <1>2, <2>1, <3>2, <3>3, <3>4
  <2> QED
    BY <1>5, <2>2, <2>3 DEF Deliver
<1>6. CASE Retire(s)
  <2> DEFINE r == conn[s].msg.to
  <2>1. r \in Requests /\ peer' = peer
    BY <1>0, <1>6 DEF Retire
  <2>2. CASE conn' = conn /\ req' = req /\ pending' = pending
    BY <1>0, <1>3, <2>1, <2>2
  <2>3. CASE Drop(s, r, req[r]) /\ conn' = [conn EXCEPT ![s].msg = NoMsg]
    <3>1. /\ req' = [req EXCEPT ![r] = [req[r] EXCEPT !.shut = @ \/ r \in pending[s]]]
          /\ pending' = [pending EXCEPT ![s] = @ \ {r}]
      BY <2>3 DEF Drop
    <3>2. ReqOK([req[r] EXCEPT !.shut = @ \/ r \in pending[s]])
      <4>1. (req[r].shut \/ r \in pending[s]) \in BOOLEAN
        OBVIOUS
      <4> QED
        BY <1>0, <2>1, <4>1, RequestFields
    <3>3. req' \in [Requests -> ReqType] /\ \A p \in Requests : ReqOK(req'[p])
      BY <1>0, <2>1, <3>1, <3>2 DEF ReqOK
    <3>4. pending' \in [Sessions -> SUBSET Requests]
      BY <1>0, <3>1
    <3> QED
      BY <1>0, <1>2, <2>1, <2>3, <3>3, <3>4
  <2> QED
    BY <1>6, <2>2, <2>3 DEF Retire
<1> QED
  BY <1>4, <1>5, <1>6

(* Every step.                                                             *)
LEMMA TypesStep == Types /\ [Next]_vars => Types'
<1> SUFFICES ASSUME Types, [Next]_vars PROVE Types'
  OBVIOUS
<1>1. ASSUME NEW s \in Sessions,
             \/ Connect(s) \/ HandshakeStep(s) \/ PeerLeaves(s) \/ HeartbeatFails(s)
             \/ CleanStep(s) \/ ReaderStep(s) \/ StopCleans(s)
      PROVE  Types'
  BY <1>1, TypesSession, TypesVisit, TypesReader DEF CleanStep, ReaderStep
<1>2. CASE StopTakes
  <2>1. CASE Sessions = {}
    BY <1>2, <2>1 DEF StopTakes, Types, StopType, Reading
  <2>2. CASE Sessions # {}
    BY <1>2, <2>2, TypesSession
  <2> QED
    BY <2>1, <2>2
<1>3. ASSUME NEW r \in Requests, CallerStep(r) \/ Cancel(r) \/ Watch(r) PROVE Types'
  BY <1>3, TypesCaller
<1>4. CASE UNCHANGED vars
  BY <1>4 DEF vars, Types, Reading
<1> QED
  BY <1>1, <1>2, <1>3, <1>4 DEF Next

-----------------------------------------------------------------------------
(* What is left of a connection *)

(* What a goroutine at a connection says about its handshake; and what the *)
(* steps of the clean-up leave behind, unless it overtook the handshake.   *)
LifeOf(s, c, k, ss, list, x) ==
  /\ c.reader = "read" => c.pc = "up"
  /\ c.gone => c.pc # "no"
  /\ s \in ss \cup list => c.pc \in {"stored", "up"}
  /\ k.pc # "open" => k.during # "no"
  /\ k.pc # "open" /\ k.during = "up" => c.pc = "up"
  /\ k.pc \in {"emit", "done"} /\ k.during = "up" => s \notin ss
  /\ k.pc = "done" /\ k.during = "up" => x = "delete"
Lives == \A s \in Sessions : LifeOf(s, conn[s], clean[s], sessions, stop.list, cred[s])

(* The steps of the connection itself and of its clean-up.                 *)
LEMMA LivesSession ==
  ASSUME Types, Lives, NEW s \in Sessions,
         \/ Connect(s) \/ HandshakeStep(s) \/ PeerLeaves(s) \/ HeartbeatFails(s)
         \/ CleanStep(s) \/ ReaderStep(s) \/ StopCleans(s)
  PROVE  Lives'
<1>0. /\ conn \in [Sessions -> ConnType] /\ clean \in [Sessions -> CleanType]
      /\ cred \in [Sessions -> {None, "add", "delete"}] /\ stop \in StopType
      /\ conn[s] \in ConnType /\ clean[s] \in CleanType
      /\ LifeOf(s, conn[s], clean[s], sessions, stop.list, cred[s])
  BY DEF Types, Lives
<1>1. ASSUME NEW t \in Sessions, t # s
      PROVE  /\ conn'[t] = conn[t] /\ clean'[t] = clean[t] /\ cred'[t] = cred[t]
             /\ t \in sessions' => t \in sessions
             /\ t \in stop'.list => t \in stop.list
  BY <1>0, <1>1 DEF Connect, HandshakeStep, StoreSession, Announce, PeerLeaves, HeartbeatFails, Begin,
       CleanStep, RangePick, RangeVisit, RangeEnds, Reset, Unmap, Emit, ReaderStep, Read, Deliver,
       Retire, ReadFails, StopCleans, StopType
<1>2. LifeOf(s, conn'[s], clean'[s], sessions', stop'.list, cred'[s])
  <2>1. CASE Connect(s) \/ StoreSession(s)
    BY <1>0, <2>1 DEF Connect, StoreSession, LifeOf, ConnType
  <2>2. CASE Announce(s)
    BY <1>0, <2>2 DEF Announce, LifeOf, ConnType
  <2>3. CASE PeerLeaves(s)
    BY <1>0, <2>3 DEF PeerLeaves, LifeOf, ConnType
  <2>4. ASSUME NEW by, Begin(s, by), conn[s].pc # "no", UNCHANGED <<sessions, cred>>,
               stop'.list = stop.list, conn'[s].pc = conn[s].pc, conn'[s].gone = conn[s].gone,
               conn'[s].reader # "read" \/ conn'[s].reader = conn[s].reader
        PROVE  <1>2
    BY <1>0, <2>4 DEF Begin, LifeOf, CleanType, Closed
  <2>5. CASE HeartbeatFails(s)
    BY <1>0, <2>4, <2>5 DEF HeartbeatFails, LifeOf
  <2>6. CASE ReadFails(s)
    <3>1. /\ conn'[s].pc = conn[s].pc /\ conn'[s].gone = conn[s].gone
          /\ conn'[s].reader = "ended" /\ conn[s].pc = "up"
      BY <1>0, <2>6 DEF ReadFails, LifeOf, ConnType
    <3>2. UNCHANGED <<sessions, cred, stop>> /\ (Begin(s, "reader") \/ clean' = clean)
      BY <2>6 DEF ReadFails
    <3>3. CASE Begin(s, "reader")
      BY <2>4, <3>1, <3>2, <3>3
    <3>4. CASE clean' = clean
      BY <1>0, <3>1, <3>2, <3>4 DEF LifeOf
    <3> QED
      BY <3>2, <3>3, <3>4
  <2>7. CASE StopCleans(s)
    <3>1. s \in stop.list /\ UNCHANGED <<conn, sessions, cred>>
      BY <2>7 DEF StopCleans
    <3>2. CASE Begin(s, "stop") /\ stop' = stop
      <4>1. conn[s].pc # "no"
        BY <1>0, <3>1 DEF LifeOf
      <4> QED
        BY <2>4, <3>1, <3>2, <4>1
    <3>3. CASE clean' = clean /\ stop' = [stop EXCEPT !.list = @ \ {s}]
      BY <1>0, <3>1, <3>3 DEF LifeOf, StopType
    <3> QED
      BY <2>7, <3>2, <3>3 DEF StopCleans
  <2>8. CASE Unmap(s)
    BY <1>0, <2>8 DEF Unmap, LifeOf, CleanType
  <2>9. CASE Emit(s)
    BY <1>0, <2>9 DEF Emit, LifeOf, CleanType
  <2>10. CASE (\E r \in Requests : RangePick(s, r)) \/ RangeVisit(s) \/ RangeEnds(s) \/ Reset(s)
    <3>1. UNCHANGED <<conn, sessions, stop, cred>> /\ clean[s].pc \in {"range", "reset"}
      BY <2>10 DEF RangePick, RangeVisit, RangeEnds, Reset
    <3>2. clean'[s].pc \in {"range", "reset", "unmap"} /\ clean'[s].during = clean[s].during
      <4>1. ASSUME NEW r \in Requests, RangePick(s, r) PROVE <3>2
        <5> DEFINE k == clean[s]
                   n == [k EXCEPT !.at = r, !.seen = k.seen \cup {r}]
        <5>1. clean'[s] = n /\ k.pc = "range"
          BY <1>0, <4>1 DEF RangePick
        <5>2. n.pc = k.pc /\ n.during = k.during
          BY <1>0 DEF CleanType
        <5> HIDE DEF k, n
        <5> QED
          BY <5>1, <5>2 DEF k
      <4>2. CASE RangeVisit(s)
        BY <1>0, <3>1, <4>2 DEF RangeVisit, CleanType
      <4>3. CASE RangeEnds(s) \/ Reset(s)
        BY <1>0, <4>3 DEF RangeEnds, Reset, CleanType
      <4> QED
        BY <2>10, <4>1, <4>2, <4>3
    <3> QED
      BY <1>0, <3>1, <3>2 DEF LifeOf
  <2>11. CASE (\E r \in Requests : Read(s, r)) \/ Deliver(s) \/ Retire(s)
    <3>1. /\ UNCHANGED <<clean, sessions, stop, cred>>
          /\ conn'[s].pc = conn[s].pc /\ conn'[s].gone = conn[s].gone /\ conn'[s].reader = conn[s].reader
      BY <1>0, <2>11 DEF Read, Deliver, Retire, ConnType
    <3> QED
      BY <1>0, <3>1 DEF LifeOf
  <2> QED
    BY <2>1, <2>2, <2>3, <2>5, <2>6, <2>7, <2>8, <2>9, <2>10, <2>11
       DEF HandshakeStep, CleanStep, ReaderStep
<1> QED
  BY <1>1, <1>2 DEF Lives, LifeOf

(* Every step.                                                             *)
LEMMA LivesStep == Types /\ Lives /\ [Next]_vars => Lives'
<1> SUFFICES ASSUME Types, Lives, [Next]_vars PROVE Lives'
  OBVIOUS
<1>1. CASE StopTakes
  <2>1. UNCHANGED <<conn, clean, cred>> /\ sessions' = {} /\ stop'.list = sessions
    BY <1>1 DEF StopTakes
  <2> QED
    BY <2>1 DEF Lives, LifeOf
<1>2. ASSUME NEW r \in Requests, CallerStep(r) \/ Cancel(r) \/ Watch(r) PROVE Lives'
  <2>1. UNCHANGED <<conn, clean, sessions, stop, cred>>
    BY <1>2 DEF CallerStep, Cancel, Watch, CallerSend, CallerPanics, CallerStore, CallerLoad, CallerCheck,
         CallerWrite, CallerDrop, CallerTake, CallerClosed, CallerGivesUp, callerElse
  <2> QED
    BY <2>1 DEF Lives
<1>3. CASE UNCHANGED vars
  BY <1>3 DEF vars, Lives
<1> QED
  BY <1>1, <1>2, <1>3, LivesSession DEF Next

(* When a connection is over, neither the manager nor the service keeps    *)
(* anything of it, unless its clean-up began before the handshake had      *)
(* ended: handleSessionClosed comes after handleWebsocket stored the       *)
(* session, and onDisconnected after onConnected.                          *)
THEOREM NothingLeft == Spec => []NoGhosts
<1>1. Init => Types /\ Lives
  <2>1. Init => Lives
    BY DEF Init, Lives, LifeOf
  <2> QED
    BY <2>1, TypesInit
<1>2. Types /\ Lives /\ [Next]_vars => (Types /\ Lives)'
  BY TypesStep, LivesStep
<1>3. Types /\ Lives => NoGhosts
  <2> SUFFICES ASSUME Types, Lives, NEW s \in Sessions, clean[s].pc = "done",
                      clean[s].during \notin {"new", "stored"}
               PROVE  s \notin sessions /\ cred[s] = "delete"
    BY DEF NoGhosts
  <2>1. clean[s].during = "up"
    BY DEF Types, Lives, LifeOf, CleanType
  <2> QED
    BY <2>1 DEF Lives, LifeOf
<1> QED
  BY <1>1, <1>2, <1>3, PTL DEF Spec

-----------------------------------------------------------------------------
(* The messages of a stream *)

(* A count that has reached what it must be, and has not passed it but for *)
(* messages that did not fit into the channel.                             *)
Reached(q, a, b) == a >= b /\ (~q.lost => a = b)
HasTerminal(q) == \E i \in DOMAIN q.ch : Terminal(q.ch[i])

(* The caller has the first messages of the stream, the channel the next   *)
(* ones, and its end only when all are there.                              *)
InChannel(q, p) ==
  /\ Len(q.got) <= MaxChunks
  /\ ~q.lost => \A k \in 1..Len(q.got) : q.got[k] = k
  /\ q.pc # "done" => \A i \in DOMAIN q.ch :
       /\ q.ch[i].kind = "part" => Reached(q, q.ch[i].num, Len(q.got) + i)
       /\ q.ch[i].kind \in {"resp", "end"} => /\ p.end \in {"resp", "end"}
                                              /\ Reached(q, p.sent, Len(q.got) + i - 1)

(* The reader has the message that follows. *)
InFlight(q, p, m) ==
  /\ m.given => Terminal(m.body)
  /\ Terminal(m.body) => p.end # None
  /\ m.body.kind \in {"resp", "end"} => p.end \in {"resp", "end"}
  /\ (q.pc # "done" /\ ~q.shut /\ ~m.given) =>
       /\ m.body.kind = "part" => /\ m.body.num = p.sent
                                  /\ Reached(q, p.sent, Len(q.got) + Len(q.ch) + 1)
       /\ m.body.kind \in {"resp", "end"} => Reached(q, p.sent, Len(q.got) + Len(q.ch))
  /\ (q.pc # "done" /\ m.given) => q.lost \/ HasTerminal(q)

(* The caller knows of every message the client has sent. *)
UpToDate(q, p) ==
  (q.pc # "done" /\ ~q.shut /\ p.end = None) => Reached(q, p.sent, Len(q.got) + Len(q.ch))

(* A channel is shut with the end of the stream or an error in it, or for  *)
(* a caller that has cancelled.                                            *)
Waiting(q) ==
  /\ q.watch \/ q.cancelled # "no" => q.pc \in {"wait", "done"}
  /\ q.cancelled = "after" => q.pc = "done"
  /\ q.pc # "done" => q.outcome = None
  /\ (q.pc # "done" /\ q.shut) => q.lost \/ q.cancelled = "waiting" \/ HasTerminal(q)

Success(q, p) ==
  q.outcome = "ok" =>
    \/ p.end \in {"resp", "end"} /\ q.got = [k \in 1..p.sent |-> k]
    \/ q.lost /\ (q.stream => p.end \in {"resp", "end"})
    \/ q.cancelled = "waiting" /\ ~q.stream

Over(k) == k.pc \in {"unmap", "emit", "done"}

Streams ==
  /\ \A r \in Requests :
       /\ InChannel(req[r], peer[r]) /\ Waiting(req[r]) /\ Success(req[r], peer[r])
       /\ peer[r].at # None => peer[r].at = req[r].sess /\ req[r].pc \in {"wait", "done"}
       /\ (Up /\ \A s \in Sessions : conn[s].msg.to # r) => UpToDate(req[r], peer[r])
  /\ \A r \in Requests, s \in Sessions :
       /\ conn[s].msg.to = r => peer[r].at = s /\ InFlight(req[r], peer[r], conn[s].msg)
       /\ (req[r].sess = s /\ req[r].pc \in {"load", "check", "write", "wait"}) =>
            r \in pending[s] \/ req[r].shut \/ Over(clean[s])

(* A message more in the channel, or one that did not fit.                 *)
LEMMA OfferStream ==
  ASSUME NEW q, NEW p, NEW m, ReqOK(q), p \in PeerType, m \in Body,
         m.kind # None, m.kind = "part" => m.num > 0,
         InChannel(q, p), Waiting(q), Success(q, p),
         (q.pc # "done" /\ m.kind = "part") => Reached(q, m.num, Len(q.got) + Len(q.ch) + 1),
         (q.pc # "done" /\ m.kind \in {"resp", "end"}) =>
            p.end \in {"resp", "end"} /\ Reached(q, p.sent, Len(q.got) + Len(q.ch))
  PROVE  LET d == Offer(q, m) IN
         /\ ReqOK(d) /\ InChannel(d, p) /\ Waiting(d) /\ Success(d, p)
         /\ d.pc = q.pc /\ d.sess = q.sess /\ d.shut = q.shut /\ d.got = q.got
         /\ q.lost \/ HasTerminal(q) => d.lost \/ HasTerminal(d)
         /\ Terminal(m) => d.lost \/ HasTerminal(d)
         /\ \A a, b \in Int : Reached(q, a, b) => Reached(d, a, b)
         /\ Len(d.ch) <= Len(q.ch) + 1 /\ (d.lost \/ Len(d.ch) = Len(q.ch) + 1)
         /\ Len(d.ch) \in Nat /\ Len(q.ch) \in Nat
<1>1. q \in ReqType /\ q.ch \in Seq(Body) /\ Len(q.ch) \in Nat /\ DOMAIN q.ch = 1..Len(q.ch)
      /\ q.got \in Seq(1..MaxChunks) /\ Len(q.got) \in Nat
  BY DEF ReqOK, ReqType, Channel
<1> DEFINE d == Offer(q, m)
<1>2. ReqOK(d)
  BY OfferType
<1>3. CASE Len(q.ch) < Buffer
  <2>1. /\ d.pc = q.pc /\ d.sess = q.sess /\ d.shut = q.shut /\ d.got = q.got /\ d.lost = q.lost
        /\ d.ch = Append(q.ch, m) /\ d.outcome = q.outcome /\ d.stream = q.stream
        /\ d.watch = q.watch /\ d.cancelled = q.cancelled
    BY <1>1, <1>3 DEF Offer, ReqType
  <2>2. /\ Len(d.ch) = Len(q.ch) + 1 /\ d.ch[Len(q.ch) + 1] = m /\ DOMAIN d.ch = 1..Len(q.ch) + 1
        /\ \A i \in 1..Len(q.ch) : d.ch[i] = q.ch[i]
    BY <1>1, <2>1
  <2> HIDE DEF d
  <2>3. /\ HasTerminal(q) => HasTerminal(d)
        /\ Terminal(m) => HasTerminal(d)
    <3>1. ASSUME NEW i \in DOMAIN q.ch, Terminal(q.ch[i]) PROVE HasTerminal(d)
      <4>1. i \in DOMAIN d.ch /\ d.ch[i] = q.ch[i]
        BY <1>1, <2>2
      <4> QED
        BY <3>1, <4>1 DEF HasTerminal
    <3>2. ASSUME Terminal(m) PROVE HasTerminal(d)
      <4>1. Len(q.ch) + 1 \in DOMAIN d.ch
        BY <1>1, <2>2
      <4> QED
        BY <2>2, <3>2, <4>1 DEF HasTerminal
    <3>3. HasTerminal(q) => \E i \in DOMAIN q.ch : Terminal(q.ch[i])
      BY DEF HasTerminal
    <3> QED
      BY <3>1, <3>2, <3>3
  <2>4. \A a, b : Reached(q, a, b) => Reached(d, a, b)
    BY <2>1 DEF Reached
  <2>5. InChannel(d, p)
    <3>1. ASSUME d.pc # "done", NEW i \in DOMAIN d.ch
          PROVE  /\ d.ch[i].kind = "part" => Reached(d, d.ch[i].num, Len(d.got) + i)
                 /\ d.ch[i].kind \in {"resp", "end"} => /\ p.end \in {"resp", "end"}
                                                        /\ Reached(d, p.sent, Len(d.got) + i - 1)
      <4>1. CASE i \in DOMAIN q.ch
        BY <1>1, <2>1, <2>2, <2>4, <3>1, <4>1 DEF InChannel
      <4>2. CASE i = Len(q.ch) + 1
        <5>1. /\ Len(q.got) + i = Len(q.got) + Len(q.ch) + 1
              /\ Len(q.got) + i - 1 = Len(q.got) + Len(q.ch)
          <6>1. \A a, b \in Nat : a + (b + 1) = a + b + 1 /\ a + (b + 1) - 1 = a + b
            OBVIOUS
          <6> QED
            BY <1>1, <4>2, <6>1
        <5> QED
          BY <2>1, <2>2, <2>4, <3>1, <4>2, <5>1
      <4> QED
        BY <1>1, <2>2, <4>1, <4>2
    <3> QED
      BY <2>1, <3>1 DEF InChannel
  <2>6. Waiting(d) /\ Success(d, p)
    BY <2>1, <2>3 DEF Waiting, Success
  <2> QED
    BY <1>1, <1>2, <2>1, <2>2, <2>3, <2>4, <2>5, <2>6 DEF d
<1>4. CASE ~(Len(q.ch) < Buffer)
  <2>1. /\ d.pc = q.pc /\ d.sess = q.sess /\ d.shut = q.shut /\ d.got = q.got /\ d.lost
        /\ d.ch = q.ch /\ d.outcome = q.outcome /\ d.stream = q.stream
        /\ d.watch = q.watch /\ d.cancelled = q.cancelled
    BY <1>1, <1>4 DEF Offer, ReqType
  <2> HIDE DEF d
  <2>2. \A a, b : Reached(q, a, b) => Reached(d, a, b)
    BY <2>1 DEF Reached
  <2>3. InChannel(d, p)
    BY <2>1, <2>2 DEF InChannel
  <2>4. Waiting(d)
    BY <2>1 DEF Waiting
  <2>5. Success(d, p)
    BY <2>1 DEF Success
  <2> QED
    BY <1>1, <1>2, <2>1, <2>2, <2>3, <2>4, <2>5 DEF d
<1> QED
  BY <1>3, <1>4

(* A request of which neither the channel nor what the caller got changes. *)
Alike(q, d) ==
  /\ d.ch = q.ch /\ d.got = q.got /\ d.lost = q.lost
  /\ q.shut => d.shut
  /\ q.pc = "done" => d.pc = "done"
LEMMA AlikeStream ==
  ASSUME NEW q, NEW d, NEW p, Alike(q, d)
  PROVE  /\ InChannel(q, p) => InChannel(d, p)
         /\ \A m : InFlight(q, p, m) => InFlight(d, p, m)
         /\ UpToDate(q, p) => UpToDate(d, p)
         /\ q.lost \/ HasTerminal(q) <=> d.lost \/ HasTerminal(d)
<1>1. \A a, b : Reached(q, a, b) <=> Reached(d, a, b)
  BY DEF Alike, Reached
<1>2. q.lost \/ HasTerminal(q) <=> d.lost \/ HasTerminal(d)
  BY DEF Alike, HasTerminal
<1>3. InChannel(q, p) => InChannel(d, p)
  BY <1>1 DEF Alike, InChannel
<1>4. ASSUME NEW m, InFlight(q, p, m) PROVE InFlight(d, p, m)
  BY <1>1, <1>2, <1>4 DEF Alike, InFlight
<1>5. UpToDate(q, p) => UpToDate(d, p)
  BY <1>1 DEF Alike, UpToDate
<1> QED
  BY <1>2, <1>3, <1>4, <1>5

(* A caller that has returned.                                             *)
LEMMA DoneStream ==
  ASSUME NEW q, NEW d, NEW p, d.pc = "done", d.got = q.got, d.lost = q.lost
  PROVE  /\ InChannel(q, p) => InChannel(d, p)
         /\ \A m : InFlight(q, p, m) => InFlight(d, p, m)
         /\ UpToDate(q, p) => UpToDate(d, p)
         /\ Waiting(d)
<1>1. InChannel(q, p) => InChannel(d, p)
  BY DEF InChannel
<1>2. \A m : InFlight(q, p, m) => InFlight(d, p, m)
  BY DEF InFlight
<1> QED
  BY <1>1, <1>2 DEF UpToDate, Waiting

(* The caller takes the next part of the stream.                           *)
LEMMA TakePart ==
  ASSUME NEW q, NEW p, ReqOK(q), p \in PeerType, q.pc = "wait", q.ch # <<>>,
         InChannel(q, p), Waiting(q), Head(q.ch).kind = "part"
  PROVE  LET d == [[q EXCEPT !.ch = Tail(@)] EXCEPT !.got = Append(@, Head(q.ch).num)] IN
         /\ InChannel(d, p) /\ Waiting(d) /\ Success(d, p)
         /\ \A m : InFlight(q, p, m) => InFlight(d, p, m)
         /\ UpToDate(q, p) => UpToDate(d, p)
         /\ d.pc = q.pc /\ d.sess = q.sess /\ d.shut = q.shut
<1>1. /\ q \in ReqType /\ q.ch \in Seq(Body) /\ Len(q.ch) \in Nat \ {0} /\ DOMAIN q.ch = 1..Len(q.ch)
      /\ q.got \in Seq(1..MaxChunks) /\ Len(q.got) \in Nat /\ Head(q.ch) = q.ch[1]
      /\ MaxChunks \in Nat
  BY RelayAssumption DEF ReqOK, ReqType, Channel
<1> DEFINE n == Head(q.ch).num
           d == [[q EXCEPT !.ch = Tail(@)] EXCEPT !.got = Append(@, Head(q.ch).num)]
<1>2. n \in 1..MaxChunks
  <2>1. 1 \in DOMAIN q.ch /\ q.ch[1] \in Body
    BY <1>1
  <2>2. n \in 0..MaxChunks /\ n > 0
    BY <1>1, <2>1 DEF Body, ReqOK
  <2> QED
    BY <1>1, <2>2
<1>3. /\ d.ch = Tail(q.ch) /\ d.got = Append(q.got, n) /\ d.lost = q.lost /\ d.pc = "wait"
      /\ d.shut = q.shut /\ d.watch = q.watch /\ d.cancelled = q.cancelled /\ d.outcome = q.outcome
      /\ d.sess = q.sess
  BY <1>1 DEF ReqType
<1>4. /\ Len(d.ch) = Len(q.ch) - 1 /\ DOMAIN d.ch = 1..Len(q.ch) - 1
      /\ \A i \in 1..Len(q.ch) - 1 : d.ch[i] = q.ch[i + 1]
      /\ Len(d.got) = Len(q.got) + 1 /\ d.got[Len(q.got) + 1] = n
      /\ \A k \in 1..Len(q.got) : d.got[k] = q.got[k]
  BY <1>1, <1>2, <1>3
<1>5. /\ Reached(q, n, Len(q.got) + 1)
      /\ \A a, b : Reached(q, a, b) <=> Reached(d, a, b)
  <2>1. 1 \in DOMAIN q.ch
    BY <1>1
  <2> QED
    BY <1>1, <1>3, <2>1 DEF InChannel, Reached
<1> HIDE DEF d, n
<1>6. Head(q.ch).kind = "part" /\ ~Terminal(q.ch[1])
  BY <1>1 DEF Terminal
<1> DEFINE g == Len(q.got)
           c == Len(q.ch)
<1>7. Len(d.got) + Len(d.ch) = Len(q.got) + Len(q.ch)
  <2>1. g \in Nat /\ c \in Nat /\ Len(d.got) = g + 1 /\ Len(d.ch) = c - 1
    BY <1>1, <1>4
  <2> HIDE DEF g, c
  <2>2. Len(d.got) + Len(d.ch) = g + c
    BY <2>1
  <2> QED
    BY <2>2 DEF g, c
<1>8. InChannel(d, p)
  <2>1. Len(d.got) <= MaxChunks
    BY <1>1, <1>2, <1>4, <1>5 DEF Reached
  <2>2. ASSUME ~d.lost, NEW k \in 1..Len(d.got) PROVE d.got[k] = k
    <3>1. CASE k \in 1..Len(q.got)
      BY <1>3, <1>4, <2>2, <3>1 DEF InChannel
    <3>2. CASE k = Len(q.got) + 1
      BY <1>3, <1>4, <1>5, <2>2, <3>2 DEF Reached
    <3> QED
      BY <1>1, <1>4, <3>1, <3>2
  <2>3. ASSUME NEW i \in DOMAIN d.ch
        PROVE  /\ d.ch[i].kind = "part" => Reached(d, d.ch[i].num, Len(d.got) + i)
               /\ d.ch[i].kind \in {"resp", "end"} => /\ p.end \in {"resp", "end"}
                                                      /\ Reached(d, p.sent, Len(d.got) + i - 1)
    <3>1. /\ i \in 1..Len(q.ch) - 1 /\ i + 1 \in DOMAIN q.ch /\ d.ch[i] = q.ch[i + 1]
          /\ Len(d.got) + i = Len(q.got) + (i + 1)
          /\ Len(d.got) + i - 1 = Len(q.got) + (i + 1) - 1
      <4>1. i \in 1..c - 1 /\ d.ch[i] = q.ch[i + 1] /\ Len(d.got) = g + 1
            /\ DOMAIN q.ch = 1..c /\ g \in Nat /\ c \in Nat
        BY <1>1, <1>4
      <4> HIDE DEF g, c
      <4>2. /\ i + 1 \in DOMAIN q.ch /\ Len(d.got) + i = g + (i + 1)
            /\ Len(d.got) + i - 1 = g + (i + 1) - 1
        <5>1. \A a, b \in Nat : \A j \in 1..b - 1 :
                j + 1 \in 1..b /\ (a + 1) + j = a + (j + 1) /\ (a + 1) + j - 1 = a + (j + 1) - 1
          OBVIOUS
        <5> QED
          BY <4>1, <5>1
      <4> QED
        BY <4>1, <4>2 DEF g, c
    <3> QED
      BY <1>5, <3>1 DEF InChannel
  <2> QED
    BY <2>1, <2>2, <2>3 DEF InChannel
<1>9. HasTerminal(q) => HasTerminal(d)
  <2> SUFFICES ASSUME NEW i \in DOMAIN q.ch, Terminal(q.ch[i]) PROVE HasTerminal(d)
    BY DEF HasTerminal
  <2>1. i # 1
    BY <1>6
  <2>2. i - 1 \in DOMAIN d.ch /\ d.ch[i - 1] = q.ch[i]
    <3>1. c \in Nat /\ i \in 1..c /\ DOMAIN d.ch = 1..c - 1
          /\ \A x \in 1..c - 1 : d.ch[x] = q.ch[x + 1]
      BY <1>1, <1>4
    <3> HIDE DEF c
    <3>2. i - 1 \in 1..c - 1 /\ (i - 1) + 1 = i
      BY <2>1, <3>1
    <3> QED
      BY <3>1, <3>2
  <2> QED
    BY <2>2 DEF HasTerminal
<1>10. Waiting(d)
  BY <1>3, <1>9 DEF Waiting
<1>11. Success(d, p)
  BY <1>3 DEF Waiting, Success, None
<1>12. ASSUME NEW m, InFlight(q, p, m) PROVE InFlight(d, p, m)
  BY <1>3, <1>5, <1>7, <1>9, <1>12 DEF InFlight
<1>13. UpToDate(q, p) => UpToDate(d, p)
  BY <1>3, <1>5, <1>7 DEF UpToDate
<1> QED
  BY <1>3, <1>8, <1>10, <1>11, <1>12, <1>13 DEF d

(* The caller takes the answer, or the end of the stream.                  *)
LEMMA TakeEnd ==
  ASSUME NEW q, NEW p, ReqOK(q), p \in PeerType, q.pc = "wait", q.ch # <<>>,
         InChannel(q, p), Head(q.ch).kind \in {"resp", "end"}
  PROVE  Success(Return([q EXCEPT !.ch = Tail(@)], "ok"), p)
<1>1. /\ q \in ReqType /\ q.ch \in Seq(Body) /\ Len(q.ch) \in Nat \ {0} /\ DOMAIN q.ch = 1..Len(q.ch)
      /\ q.got \in Seq(1..MaxChunks) /\ Len(q.got) \in Nat /\ Head(q.ch) = q.ch[1]
  BY DEF ReqOK, ReqType, Channel
<1>2. /\ 1 \in DOMAIN q.ch /\ Len(q.got) + 1 - 1 = Len(q.got) /\ q.pc # "done"
  BY <1>1
<1>3. p.end \in {"resp", "end"} /\ Reached(q, p.sent, Len(q.got))
  BY <1>1, <1>2 DEF InChannel
<1> DEFINE d == Return([q EXCEPT !.ch = Tail(@)], "ok")
<1>4. d.got = q.got /\ d.lost = q.lost /\ d.stream = q.stream
  BY <1>1 DEF ReqType, Return
<1> HIDE DEF d
<1>5. ASSUME d.lost PROVE Success(d, p)
  BY <1>3, <1>5 DEF Success
<1>6. ASSUME ~d.lost PROVE Success(d, p)
  <2>1. p.sent = Len(q.got) /\ \A k \in 1..Len(q.got) : q.got[k] = k
    BY <1>3, <1>4, <1>6 DEF InChannel, Reached
  <2>2. q.got = [k \in 1..Len(q.got) |-> q.got[k]]
    BY <1>1
  <2>3. q.got = [k \in 1..p.sent |-> k]
    BY <2>1, <2>2
  <2> QED
    BY <1>3, <1>4, <2>3 DEF Success
<1> QED
  BY <1>5, <1>6 DEF d

(* What must hold of a request with an answer of its client, given the     *)
(* message that the reader of each session has in hand.                    *)
StreamOf(r, q, p, at, held, over, up) ==
  /\ InChannel(q, p) /\ Waiting(q) /\ Success(q, p)
  /\ p.at # None => p.at = q.sess /\ q.pc \in {"wait", "done"}
  /\ (up /\ \A s \in Sessions : at[s].to # r) => UpToDate(q, p)
  /\ \A s \in Sessions : at[s].to = r => p.at = s /\ InFlight(q, p, at[s])
  /\ \A s \in Sessions : (q.sess = s /\ q.pc \in {"load", "check", "write", "wait"}) =>
                            r \in held[s] \/ q.shut \/ s \in over

Held == [s \in Sessions |-> conn[s].msg]
Ended == {s \in Sessions : Over(clean[s])}

LEMMA StreamsAsOf ==
  Streams <=> \A r \in Requests : StreamOf(r, req[r], peer[r], Held, pending, Ended, Up)
BY DEF Streams, StreamOf, Held, Ended

(* A step that concerns one request only.                                  *)
LEMMA StreamsFrame ==
  ASSUME Types, Streams, Up, NEW r \in Requests, NEW d, NEW e,
         req' = [req EXCEPT ![r] = d], peer' = [peer EXCEPT ![r] = e],
         \A s \in Sessions : Over(clean[s]) => Over(clean'[s]),
         \A t \in Requests \ {r}, s \in Sessions :
            /\ conn'[s].msg.to = t <=> conn[s].msg.to = t
            /\ conn'[s].msg.to = t => conn'[s].msg = conn[s].msg
            /\ t \in pending[s] => t \in pending'[s] \/ Over(clean'[s]),
         StreamOf(r, d, e, Held', pending', Ended', Up')
  PROVE  Streams'
<1>1. /\ req'[r] = d /\ peer'[r] = e
      /\ \A t \in Requests \ {r} : req'[t] = req[t] /\ peer'[t] = peer[t]
  BY DEF Types
<1>2. ASSUME NEW t \in Requests \ {r}
      PROVE  StreamOf(t, req'[t], peer'[t], Held', pending', Ended', Up')
  <2>1. StreamOf(t, req[t], peer[t], Held, pending, Ended, Up)
    BY StreamsAsOf
  <2>2. /\ \A s \in Sessions : Held'[s].to = t <=> Held[s].to = t
        /\ \A s \in Sessions : Held'[s].to = t => Held'[s] = Held[s]
    BY DEF Held
  <2>3. \A s \in Sessions : t \in pending[s] \/ s \in Ended => t \in pending'[s] \/ s \in Ended'
    BY DEF Ended
  <2> QED
    BY <1>1, <2>1, <2>2, <2>3 DEF StreamOf
<1>3. \A t \in Requests : StreamOf(t, req'[t], peer'[t], Held', pending', Ended', Up')
  BY <1>1, <1>2
<1> QED
  BY <1>3 DEF Streams, StreamOf, Held, Ended

(* The sessions, but for what touches a request.                           *)
LEMMA StreamsSession ==
  ASSUME Types, Streams, NEW s \in Sessions,
         \/ Connect(s) \/ HandshakeStep(s) \/ PeerLeaves(s) \/ HeartbeatFails(s) \/ ReadFails(s)
         \/ StopCleans(s) \/ (\E r \in Requests : RangePick(s, r)) \/ RangeEnds(s)
         \/ Reset(s) \/ Unmap(s) \/ Emit(s)
  PROVE  Streams'
<1>0. clean \in [Sessions -> CleanType] /\ conn \in [Sessions -> ConnType]
      /\ pending \in [Sessions -> SUBSET Requests]
  BY DEF Types
<1>1. req' = req /\ peer' = peer /\ crash' = crash
  BY DEF Connect, HandshakeStep, StoreSession, Announce, PeerLeaves, HeartbeatFails, ReadFails,
         StopCleans, RangePick, RangeEnds, Reset, Unmap, Emit
<1>2. \A t \in Sessions : conn'[t].msg = conn[t].msg
  BY TypesSession
<1>3. /\ \A t \in Sessions \ {s} : clean'[t] = clean[t] /\ pending'[t] = pending[t]
      /\ Over(clean[s]) => Over(clean'[s])
      /\ pending'[s] = pending[s] \/ Over(clean'[s])
  <2>1. CASE \/ Connect(s) \/ HandshakeStep(s) \/ PeerLeaves(s)
             \/ ((ReadFails(s) \/ StopCleans(s)) /\ UNCHANGED clean)
    <3>1. clean' = clean /\ pending' = pending
      BY <2>1 DEF Connect, HandshakeStep, StoreSession, Announce, PeerLeaves, ReadFails, StopCleans
    <3> QED
      BY <3>1
  <2>2. ASSUME NEW by, Begin(s, by), pending' = pending PROVE <1>3
    BY <1>0, <2>2 DEF Begin, Closed, Over
  <2>3. ASSUME NEW r \in Requests, RangePick(s, r) PROVE <1>3
    BY <1>0, <2>3 DEF RangePick, Over
  <2>4. CASE RangeEnds(s) \/ Reset(s) \/ Unmap(s) \/ Emit(s)
    BY <1>0, <2>4 DEF RangeEnds, Reset, Unmap, Emit, Over, CleanType
  <2>5. HeartbeatFails(s) => pending' = pending /\ Begin(s, "heartbeat")
    BY DEF HeartbeatFails
  <2>6. ReadFails(s) => pending' = pending /\ (UNCHANGED clean \/ Begin(s, "reader"))
    BY DEF ReadFails
  <2>7. StopCleans(s) => pending' = pending /\ (UNCHANGED clean \/ Begin(s, "stop"))
    BY DEF StopCleans
  <2> QED
    BY <2>1, <2>2, <2>3, <2>4, <2>5, <2>6, <2>7
<1>4. \A t \in Sessions : /\ Over(clean[t]) => Over(clean'[t])
                          /\ pending'[t] = pending[t] \/ Over(clean'[t])
  BY <1>3
<1> QED
  BY <1>1, <1>2, <1>4 DEF Streams, Up

(* The clean-up visits a request.                                          *)
LEMMA StreamsVisit ==
  ASSUME Types, Streams, NEW s \in Sessions, RangeVisit(s)
  PROVE  Streams'
<1> DEFINE r == clean[s].at
           m == Word("error")
           o == Offer(req[r], m)
           d == [o EXCEPT !.shut = TRUE]
<1>0. /\ req \in [Requests -> ReqType] /\ clean \in [Sessions -> CleanType]
      /\ peer \in [Requests -> PeerType] /\ pending \in [Sessions -> SUBSET Requests]
      /\ \A p \in Requests : ReqOK(req[p])
      /\ m \in Body /\ m.kind = "error" /\ Terminal(m) /\ m.kind # None
  BY RelayAssumption DEF Types, Word, Body, Terminal, None
<1>1. UNCHANGED <<conn, pending, peer>> /\ r # None /\ Up
  BY DEF RangeVisit
<1>2. r \in Requests
  BY <1>0, <1>1 DEF CleanType
<1>3. CASE req' = req /\ clean' = clean
  BY <1>1, <1>3 DEF Streams
<1>4. CASE ~req[r].shut /\ req' = [req EXCEPT ![r] = d] /\ clean' = [clean EXCEPT ![s].at = None]
  <2>1. StreamOf(r, req[r], peer[r], Held, pending, Ended, Up)
    BY <1>2, StreamsAsOf
  <2>2. /\ ReqOK(o) /\ InChannel(o, peer[r]) /\ Waiting(o) /\ Success(o, peer[r])
        /\ o.pc = req[r].pc /\ o.sess = req[r].sess
        /\ (req[r].lost \/ HasTerminal(req[r]) => o.lost \/ HasTerminal(o))
        /\ (o.lost \/ HasTerminal(o))
    <3> HIDE DEF m, r
    <3>1. /\ ReqOK(req[r]) /\ peer[r] \in PeerType /\ InChannel(req[r], peer[r])
          /\ Waiting(req[r]) /\ Success(req[r], peer[r])
      BY <1>0, <1>2, <2>1 DEF StreamOf
    <3>2. m.kind # "part" /\ m.kind \notin {"resp", "end"}
      BY <1>0
    <3>3. m \in Body /\ m.kind # None /\ Terminal(m)
      BY <1>0
    <3>4. /\ ReqOK(Offer(req[r], m)) /\ InChannel(Offer(req[r], m), peer[r])
          /\ Waiting(Offer(req[r], m)) /\ Success(Offer(req[r], m), peer[r])
          /\ Offer(req[r], m).pc = req[r].pc /\ Offer(req[r], m).sess = req[r].sess
          /\ Offer(req[r], m).lost \/ HasTerminal(Offer(req[r], m))
      <4> DEFINE q == req[r]
                 p == peer[r]
      <4>1. /\ ReqOK(q) /\ p \in PeerType /\ InChannel(q, p) /\ Waiting(q) /\ Success(q, p)
            /\ m \in Body /\ m.kind # None /\ Terminal(m)
            /\ m.kind # "part" /\ m.kind \notin {"resp", "end"}
        BY <3>1, <3>2, <3>3
      <4> HIDE DEF o, d, q, p
      <4>2. /\ ReqOK(Offer(q, m)) /\ InChannel(Offer(q, m), p)
            /\ Waiting(Offer(q, m)) /\ Success(Offer(q, m), p)
            /\ Offer(q, m).pc = q.pc /\ Offer(q, m).sess = q.sess
            /\ Offer(q, m).lost \/ HasTerminal(Offer(q, m))
        BY ONLY <4>1, OfferStream
      <4> QED
        BY <4>2 DEF q, p
    <3> QED
      BY <3>4
  <2>3. /\ d.ch = o.ch /\ d.got = o.got /\ d.lost = o.lost /\ d.shut /\ d.pc = o.pc
        /\ d.sess = o.sess /\ d.outcome = o.outcome /\ d.stream = o.stream /\ d.watch = o.watch
        /\ d.cancelled = o.cancelled
    BY <2>2 DEF ReqOK, ReqType
  <2> HIDE DEF o, d, r, m
  <2>4. /\ InChannel(d, peer[r]) /\ (d.lost \/ HasTerminal(d))
    <3>1. Alike(o, d)
      BY <2>3 DEF Alike
    <3> QED
      BY <2>2, <3>1, AlikeStream
  <2>5. Waiting(d)
    BY <2>2, <2>3, <2>4 DEF Waiting
  <2>6. Success(d, peer[r])
    BY <2>2, <2>3 DEF Success
  <2>7. UpToDate(d, peer[r])
    BY <2>3 DEF UpToDate
  <2>8. \A n : InFlight(req[r], peer[r], n) => InFlight(d, peer[r], n)
    BY <2>2, <2>3, <2>4 DEF InFlight
  <2>9. Held' = Held /\ \A t \in Sessions : Over(clean[t]) => Over(clean'[t])
    BY <1>0, <1>1, <1>4 DEF Held, Over, CleanType
  <2>10. StreamOf(r, d, peer[r], Held', pending', Ended', Up')
    BY <1>1, <2>1, <2>2, <2>3, <2>4, <2>5, <2>6, <2>7, <2>8, <2>9 DEF StreamOf
  <2>11. peer' = [peer EXCEPT ![r] = peer[r]]
    BY <1>0, <1>1
  <2> QED
    BY <1>1, <1>2, <1>4, <2>9, <2>10, <2>11, StreamsFrame
<1> QED
  BY <1>3, <1>4 DEF RangeVisit

(* The reader takes a message of a request: it follows what the channel    *)
(* has, as the reader had nothing in hand.                                 *)
LEMMA StreamsRead ==
  ASSUME Types, Streams, NEW s \in Sessions, NEW r \in Requests, Read(s, r)
  PROVE  Streams'
<1> DEFINE q == req[r]
           p == peer[r]
<1>0. /\ conn \in [Sessions -> ConnType] /\ peer \in [Requests -> PeerType]
      /\ req \in [Requests -> ReqType] /\ q \in ReqType /\ p \in PeerType
      /\ StreamOf(r, q, p, Held, pending, Ended, Up)
      /\ Len(q.got) \in Nat /\ Len(q.ch) \in Nat
  <2>1. req \in [Requests -> ReqType] /\ q \in ReqType
    BY DEF Types
  <2>2. q.got \in Seq(1..MaxChunks) /\ q.ch \in Seq(Body)
    BY <2>1 DEF ReqType, Channel
  <2> QED
    BY <2>1, <2>2, StreamsAsOf DEF Types
<1>1. /\ Up /\ conn[s].msg = NoMsg /\ p.at = s /\ clean[s].pc \in {"open", "range", "reset"}
      /\ UNCHANGED <<clean, pending, req>>
  BY DEF Read, Reading
<1>2. PICK m \in Messages(r) :
        /\ peer' = [peer EXCEPT ![r] = IF Terminal(m) THEN [@ EXCEPT !.end = m.kind]
                                       ELSE [@ EXCEPT !.sent = m.num]]
        /\ \/ /\ conn' = IF r \in pending[s]
                         THEN [conn EXCEPT ![s].msg = [to |-> r, body |-> m, given |-> FALSE]]
                         ELSE conn
              /\ crash' = crash
           \/ conn' = conn /\ ~Up'
  <2>1. PICK m \in Messages(r) :
          /\ peer' = [peer EXCEPT ![r] = IF Terminal(m) THEN [@ EXCEPT !.end = m.kind]
                                         ELSE [@ EXCEPT !.sent = m.num]]
          /\ \/ /\ conn' = IF r \in pending[s]
                           THEN [conn EXCEPT ![s].msg = [to |-> r, body |-> m, given |-> FALSE]]
                           ELSE conn
                /\ UNCHANGED crash
             \/ /\ crash' = [who |-> "dispatch", session |-> s, request |-> r, reset |-> TRUE]
                /\ UNCHANGED conn
    BY DEF Read
  <2>2. crash' = [who |-> "dispatch", session |-> s, request |-> r, reset |-> TRUE] => ~Up'
    BY DEF Up, None
  <2> QED
    BY <2>1, <2>2
<1> DEFINE e == IF Terminal(m) THEN [p EXCEPT !.end = m.kind] ELSE [p EXCEPT !.sent = m.num]
<1>3. /\ p.end = None /\ p.sent \in Nat
      /\ \/ m.kind = "part" /\ m.num = p.sent + 1
         \/ m.kind \in {"resp", "error", "end"}
  <2>1. p.end = None
    BY <1>2 DEF Messages
  <2>2. p.sent \in Nat
    BY <1>0, RelayAssumption DEF PeerType
  <2>3. m \in {Part(k) : k \in {p.sent + 1} \cap 1..MaxChunks} \/ m.kind \in {"resp", "error", "end"}
    BY <1>2 DEF Messages, Word
  <2> QED
    BY <2>1, <2>2, <2>3 DEF Part
<1>4. /\ e.at = s
      /\ Terminal(m) => e.end = m.kind /\ e.sent = p.sent
      /\ ~Terminal(m) => e.end = None /\ e.sent = m.num
      /\ Terminal(m) <=> m.kind \in {"resp", "error", "end"}
  BY <1>0, <1>1, <1>3 DEF PeerType, Terminal
<1>5. peer' = [peer EXCEPT ![r] = e]
  BY <1>2
<1> HIDE DEF q, p, e
<1>6. /\ \A t \in Sessions : Held[t].to # r
      /\ UpToDate(q, p)
  <2>1. Held[s].to = None /\ None \notin Requests
    BY <1>1, RelayAssumption DEF Held, NoMsg, None
  <2> QED
    BY <1>0, <1>1, <2>1 DEF StreamOf
<1>7. InChannel(q, e) /\ Success(q, e)
  <2>1. \A i \in DOMAIN q.ch : q.pc # "done" => q.ch[i].kind \notin {"resp", "end"}
    BY <1>0, <1>3 DEF StreamOf, InChannel, None
  <2>2. InChannel(q, e)
    BY <1>0, <2>1 DEF StreamOf, InChannel
  <2>3. Success(q, e)
    BY <1>0, <1>3 DEF StreamOf, Success, None
  <2> QED
    BY <2>2, <2>3
<1>8. CASE conn' = [conn EXCEPT ![s].msg = [to |-> r, body |-> m, given |-> FALSE]] /\ crash' = crash
  <2> DEFINE f == [to |-> r, body |-> m, given |-> FALSE]
  <2>1. /\ conn'[s].msg = f
        /\ \A t \in Sessions \ {s} : conn'[t] = conn[t]
    BY <1>0, <1>8 DEF ConnType
  <2>2. f.to = r /\ f.body = m /\ f.given = FALSE
    OBVIOUS
  <2> HIDE DEF f
  <2>3. InFlight(q, e, f)
    <3>1. /\ m.kind \in {"resp", "end"} => e.end \in {"resp", "end"}
          /\ Terminal(m) => e.end # None
      BY <1>4 DEF None
    <3>2. ASSUME q.pc # "done", ~q.shut, m.kind = "part"
          PROVE  m.num = e.sent /\ Reached(q, e.sent, Len(q.got) + Len(q.ch) + 1)
      <4>1. Reached(q, p.sent, Len(q.got) + Len(q.ch)) /\ e.sent = p.sent + 1 /\ m.num = e.sent
        BY <1>3, <1>4, <1>6, <3>2 DEF UpToDate
      <4>2. \A a, b \in Nat : Reached(q, a, b) => Reached(q, a + 1, b + 1)
        BY DEF Reached
      <4>3. Len(q.got) + Len(q.ch) \in Nat
        <5>1. \A a, b \in Nat : a + b \in Nat
          OBVIOUS
        <5> QED
          BY <1>0, <5>1
      <4> QED
        BY <1>3, <4>1, <4>2, <4>3
    <3>3. ASSUME q.pc # "done", ~q.shut, m.kind \in {"resp", "end"}
          PROVE  Reached(q, e.sent, Len(q.got) + Len(q.ch))
      BY <1>3, <1>4, <1>6, <3>3 DEF UpToDate
    <3> QED
      BY <2>2, <3>1, <3>2, <3>3 DEF InFlight
  <2>4. /\ Held'[s] = f
        /\ \A t \in Sessions \ {s} : Held'[t] = Held[t]
    BY <2>1 DEF Held
  <2>5. StreamOf(r, q, e, Held', pending', Ended', Up')
    <3>1. Held'[s].to = r /\ Ended' = Ended /\ pending' = pending
      BY <1>1, <2>2, <2>4 DEF Ended, Over
    <3>2. \A t \in Sessions : Held'[t].to = r => t = s
      BY <1>6, <2>4
    <3> QED
      BY <1>0, <1>4, <1>1, <1>7, <2>3, <2>4, <3>1, <3>2 DEF StreamOf
  <2>6. \A t \in Requests \ {r}, u \in Sessions :
          /\ conn'[u].msg.to = t <=> conn[u].msg.to = t
          /\ conn'[u].msg.to = t => conn'[u].msg = conn[u].msg
    <3>1. conn[s].msg.to = None /\ None \notin Requests
      BY <1>1, RelayAssumption DEF NoMsg, None
    <3> QED
      BY <2>1, <2>2, <3>1
  <2>7. req' = [req EXCEPT ![r] = q]
    BY <1>0, <1>1 DEF q
  <2>8. \A t \in Requests \ {r}, u \in Sessions :
          /\ conn'[u].msg.to = t <=> conn[u].msg.to = t
          /\ conn'[u].msg.to = t => conn'[u].msg = conn[u].msg
          /\ t \in pending[u] => t \in pending'[u] \/ Over(clean'[u])
    BY <1>1, <2>6
  <2>9. \A u \in Sessions : Over(clean[u]) => Over(clean'[u])
    BY <1>1
  <2> QED
    BY <1>1, <1>5, <2>5, <2>7, <2>8, <2>9, StreamsFrame
<1>9. CASE conn' = conn /\ ((crash' = crash /\ r \notin pending[s]) \/ ~Up')
  <2>1. Held' = Held /\ Ended' = Ended /\ pending' = pending
    BY <1>1, <1>9 DEF Held, Ended, Over
  <2>2. Up' => UpToDate(q, e)
    <3>1. SUFFICES ASSUME r \notin pending[s], q.pc # "done", ~q.shut PROVE FALSE
      BY <1>9 DEF UpToDate
    <3>2. q.pc = "wait" /\ q.sess = s /\ s \notin Ended
      BY <1>0, <1>1, <3>1, RelayAssumption DEF StreamOf, Ended, Over, None
    <3> QED
      BY <1>0, <3>1, <3>2 DEF StreamOf
  <2>3. StreamOf(r, q, e, Held', pending', Ended', Up')
    BY <1>0, <1>1, <1>4, <1>6, <1>7, <2>1, <2>2 DEF StreamOf
  <2>4. req' = [req EXCEPT ![r] = q]
    BY <1>0, <1>1 DEF q
  <2> QED
    BY <1>1, <1>5, <1>9, <2>3, <2>4, StreamsFrame
<1> QED
  BY <1>2, <1>8, <1>9

(* The reader puts the message into the channel.                           *)
LEMMA StreamsDeliver ==
  ASSUME Types, Streams, NEW s \in Sessions, Deliver(s)
  PROVE  Streams'
<1> DEFINE r == conn[s].msg.to
           m == conn[s].msg.body
           q == req[r]
           p == peer[r]
           d == Offer(q, m)
           c == IF Terminal(m) THEN [conn[s].msg EXCEPT !.given = TRUE] ELSE NoMsg
<1>0. /\ conn \in [Sessions -> ConnType] /\ req \in [Requests -> ReqType]
      /\ peer \in [Requests -> PeerType] /\ r \in Requests /\ ReqOK(q) /\ p \in PeerType
      /\ conn[s].msg \in [to : Requests \cup {None}, body : Body, given : BOOLEAN]
      /\ m \in Body /\ m.kind # None /\ (m.kind = "part" => m.num > 0)
      /\ m.kind \in {"part", "resp", "error", "end"}
  <2>1. /\ conn \in [Sessions -> ConnType] /\ req \in [Requests -> ReqType]
        /\ peer \in [Requests -> PeerType] /\ r \in Requests
        /\ m.kind # None /\ (m.kind = "part" => m.num > 0)
        /\ \A t \in Requests : ReqOK(req[t])
    BY DEF Deliver, Types
  <2>2. conn[s].msg \in [to : Requests \cup {None}, body : Body, given : BOOLEAN]
    BY <2>1 DEF ConnType
  <2>3. m \in Body
    BY <2>2
  <2> QED
    BY <2>1, <2>2, <2>3 DEF Body
<1>1. /\ Up /\ ~conn[s].msg.given /\ UNCHANGED <<clean, pending, peer>>
      /\ \/ conn' = conn /\ req' = req /\ ~Up'
         \/ /\ ~q.shut /\ req' = [req EXCEPT ![r] = d] /\ conn' = [conn EXCEPT ![s].msg = c]
            /\ crash' = crash
  <2>1. /\ Up /\ ~conn[s].msg.given /\ UNCHANGED <<clean, pending, peer>>
        /\ \/ /\ crash' = [who |-> "dispatch", session |-> s, request |-> r, reset |-> FALSE]
              /\ UNCHANGED <<conn, req>>
           \/ /\ ~q.shut
              /\ req' = [req EXCEPT ![r] = Offer(@, m)]
              /\ conn' = IF Terminal(m) THEN [conn EXCEPT ![s].msg.given = TRUE]
                         ELSE [conn EXCEPT ![s].msg = NoMsg]
              /\ UNCHANGED crash
    BY DEF Deliver
  <2>2. crash' = [who |-> "dispatch", session |-> s, request |-> r, reset |-> FALSE] => ~Up'
    BY DEF Up, None
  <2>3. [conn EXCEPT ![s].msg.given = TRUE] =
          [conn EXCEPT ![s].msg = [conn[s].msg EXCEPT !.given = TRUE]]
    OBVIOUS
  <2> QED
    BY <2>1, <2>2, <2>3
<1>2. CASE conn' = conn /\ req' = req /\ ~Up'
  BY <1>1, <1>2 DEF Streams
<1>3. CASE /\ ~q.shut /\ req' = [req EXCEPT ![r] = d] /\ conn' = [conn EXCEPT ![s].msg = c]
           /\ crash' = crash
  <2>1. /\ StreamOf(r, q, p, Held, pending, Ended, Up)
        /\ p.at = s /\ InFlight(q, p, conn[s].msg)
        /\ \A t \in Sessions : conn[t].msg.to = r => t = s
    <3>1. /\ StreamOf(r, q, p, Held, pending, Ended, Up) /\ Held[s] = conn[s].msg
          /\ \A t \in Sessions : Held[t].to = conn[t].msg.to
      BY <1>0, StreamsAsOf DEF Held
    <3> QED
      BY <3>1 DEF StreamOf
  <2>2. /\ c = NoMsg \/ (c.to = r /\ c.body = m /\ c.given)
        /\ Terminal(m) => c.to = r /\ c.body = m /\ c.given
        /\ ~Terminal(m) => c = NoMsg
    BY <1>0
  <2>3. /\ conn'[s].msg = c
        /\ \A t \in Sessions \ {s} : conn'[t] = conn[t]
    BY <1>0, <1>3 DEF ConnType
  <2>4. conn[s].msg.to = r /\ conn[s].msg.body = m /\ ~conn[s].msg.given
    BY <1>1
  <2>5. peer' = [peer EXCEPT ![r] = p]
    BY <1>0, <1>1
  <2>6. NoMsg.to = None /\ None \notin Requests
    BY RelayAssumption DEF NoMsg, None
  <2> DEFINE a == Len(q.got)
             b == Len(q.ch)
  <2> HIDE DEF r, m, p, q, c
  <2>7. /\ Terminal(m) => p.end # None
        /\ m.kind \in {"resp", "end"} => p.end \in {"resp", "end"}
        /\ (q.pc # "done" /\ m.kind = "part") => m.num = p.sent /\ Reached(q, p.sent, a + b + 1)
        /\ (q.pc # "done" /\ m.kind \in {"resp", "end"}) => Reached(q, p.sent, a + b)
    BY <1>3, <2>1, <2>4 DEF InFlight
  <2>8. a \in Nat /\ b \in Nat /\ Len(d.got) \in Nat /\ Len(d.ch) \in Nat /\ p.sent \in Int
    <3>1. q.got \in Seq(1..MaxChunks) /\ q.ch \in Seq(Body) /\ p.sent \in 0..MaxChunks
      BY <1>0 DEF ReqOK, ReqType, PeerType, Channel
    <3>2. ReqOK(d)
      BY <1>0, OfferType
    <3>3. d.got \in Seq(1..MaxChunks) /\ d.ch \in Seq(Body)
      BY <3>2 DEF ReqOK, ReqType, Channel
    <3> QED
      BY <3>1, <3>3, RelayAssumption
  <2>9. /\ ReqOK(d) /\ InChannel(d, p) /\ Waiting(d) /\ Success(d, p)
        /\ d.pc = q.pc /\ d.sess = q.sess /\ d.shut = q.shut /\ d.got = q.got
        /\ Terminal(m) => d.lost \/ HasTerminal(d)
        /\ \A x, y \in Int : Reached(q, x, y) => Reached(d, x, y)
        /\ Len(d.ch) <= b + 1 /\ (d.lost \/ Len(d.ch) = b + 1)
    <3>1. /\ ReqOK(q) /\ p \in PeerType /\ m \in Body /\ m.kind # None /\ (m.kind = "part" => m.num > 0)
          /\ InChannel(q, p) /\ Waiting(q) /\ Success(q, p)
          /\ (q.pc # "done" /\ m.kind = "part") => Reached(q, m.num, Len(q.got) + Len(q.ch) + 1)
          /\ (q.pc # "done" /\ m.kind \in {"resp", "end"}) =>
                p.end \in {"resp", "end"} /\ Reached(q, p.sent, Len(q.got) + Len(q.ch))
      BY <1>0, <2>1, <2>7 DEF StreamOf
    <3> QED
      BY ONLY <3>1, OfferStream DEF d, b
  <2> HIDE DEF d, a, b
  <2>10. /\ Held'[s] = c /\ Ended' = Ended /\ pending' = pending
         /\ \A t \in Sessions \ {s} : Held'[t] = Held[t] /\ Held'[t].to # r
    BY <1>1, <2>1, <2>3 DEF Held, Ended, Over
  <2>11. StreamOf(r, d, p, Held', pending', Ended', Up')
    <3>1. ASSUME Terminal(m)
          PROVE  /\ Held'[s].to = r /\ InFlight(d, p, Held'[s])
                 /\ UpToDate(d, p)
      <4>1. c.to = r /\ c.body = m /\ c.given
        BY <2>2, <3>1
      <4> QED
        BY <2>7, <2>9, <2>10, <3>1, <4>1 DEF InFlight, UpToDate
    <3>2. ASSUME ~Terminal(m)
          PROVE  Held'[s].to # r /\ UpToDate(d, p)
      <4>1. c.to # r
        BY <1>0, <2>2, <2>6, <3>2
      <4>2. m.kind = "part"
        BY <1>0, <3>2 DEF Terminal
      <4>3. ASSUME d.pc # "done" PROVE Reached(d, p.sent, Len(d.got) + Len(d.ch))
        <5>1. Reached(q, p.sent, a + b + 1) /\ a + b + 1 \in Int
          BY <2>7, <2>8, <2>9, <4>2, <4>3
        <5>2. Reached(d, p.sent, a + b + 1)
          BY <2>8, <2>9, <5>1
        <5>3. Len(d.got) = a
          BY <2>9 DEF a
        <5>4. \A x \in Nat : (x <= b + 1 /\ (d.lost \/ x = b + 1)) => Reached(d, p.sent, a + x)
          BY <2>8, <5>2 DEF Reached
        <5> QED
          BY <2>8, <2>9, <5>3, <5>4
      <4> QED
        BY <2>10, <4>1, <4>3 DEF UpToDate
    <3> QED
      BY <2>1, <2>9, <2>10, <3>1, <3>2 DEF StreamOf
  <2>12. \A t \in Requests \ {r}, u \in Sessions :
           /\ conn'[u].msg.to = t <=> conn[u].msg.to = t
           /\ conn'[u].msg.to = t => conn'[u].msg = conn[u].msg
           /\ t \in pending[u] => t \in pending'[u] \/ Over(clean'[u])
    BY <1>1, <2>2, <2>3, <2>4, <2>6
  <2>13. \A u \in Sessions : Over(clean[u]) => Over(clean'[u])
    BY <1>1
  <2>14. Up /\ r \in Requests /\ req' = [req EXCEPT ![r] = d]
    BY <1>0, <1>1, <1>3
  <2> QED
    BY ONLY <2>5, <2>11, <2>12, <2>13, <2>14, Types, Streams, StreamsFrame
<1> QED
  BY <1>1, <1>2, <1>3

(* The reader retires the request after its last message.                  *)
LEMMA StreamsRetire ==
  ASSUME Types, Streams, NEW s \in Sessions, Retire(s)
  PROVE  Streams'
<1> DEFINE r == conn[s].msg.to
           q == req[r]
           p == peer[r]
           d == [q EXCEPT !.shut = @ \/ r \in pending[s]]
<1>0. /\ conn \in [Sessions -> ConnType] /\ req \in [Requests -> ReqType]
      /\ peer \in [Requests -> PeerType] /\ pending \in [Sessions -> SUBSET Requests]
      /\ r \in Requests /\ q \in ReqType /\ Up /\ conn[s].msg.given
      /\ UNCHANGED <<clean, peer>>
  BY DEF Retire, Types
<1>1. \/ conn' = conn /\ req' = req /\ pending' = pending /\ ~Up'
      \/ /\ req' = [req EXCEPT ![r] = d] /\ pending' = [pending EXCEPT ![s] = @ \ {r}]
         /\ conn' = [conn EXCEPT ![s].msg = NoMsg]
  <2>1. crash' = [who |-> "dispatch", session |-> s, request |-> r, reset |-> TRUE] => ~Up'
    BY DEF Up, None
  <2> QED
    BY <2>1 DEF Retire, Drop
<1>2. CASE conn' = conn /\ req' = req /\ pending' = pending /\ ~Up'
  BY <1>0, <1>2 DEF Streams
<1>3. CASE /\ req' = [req EXCEPT ![r] = d] /\ pending' = [pending EXCEPT ![s] = @ \ {r}]
           /\ conn' = [conn EXCEPT ![s].msg = NoMsg]
  <2>1. /\ StreamOf(r, q, p, Held, pending, Ended, Up)
        /\ p.at = s /\ InFlight(q, p, conn[s].msg)
        /\ \A t \in Sessions : conn[t].msg.to = r => t = s
    <3>1. /\ StreamOf(r, q, p, Held, pending, Ended, Up) /\ Held[s] = conn[s].msg
          /\ \A t \in Sessions : Held[t].to = conn[t].msg.to
      BY <1>0, StreamsAsOf DEF Held
    <3> QED
      BY <3>1 DEF StreamOf
  <2>2. /\ conn'[s].msg = NoMsg
        /\ \A t \in Sessions \ {s} : conn'[t] = conn[t]
    BY <1>0, <1>3 DEF ConnType
  <2>3. NoMsg.to = None /\ None \notin Requests
    BY RelayAssumption DEF NoMsg, None
  <2>4. peer' = [peer EXCEPT ![r] = p]
    BY <1>0
  <2>5. /\ d.ch = q.ch /\ d.got = q.got /\ d.lost = q.lost /\ d.pc = q.pc /\ d.sess = q.sess
        /\ d.outcome = q.outcome /\ d.stream = q.stream /\ d.watch = q.watch
        /\ d.cancelled = q.cancelled /\ (q.shut => d.shut) /\ (r \in pending[s] => d.shut)
    BY <1>0 DEF ReqType
  <2>6. conn[s].msg.to = r /\ conn[s].msg.given /\ p.end # None /\ (q.pc # "done" => q.lost \/ HasTerminal(q))
    BY <1>0, <2>1 DEF InFlight
  <2> HIDE DEF r, q, p, d
  <2>7. Alike(q, d)
    BY <2>5 DEF Alike
  <2>8. /\ InChannel(d, p) /\ UpToDate(d, p)
        /\ \A m : InFlight(q, p, m) => InFlight(d, p, m)
    BY <2>1, <2>6, <2>7, AlikeStream DEF StreamOf, UpToDate
  <2>9. Waiting(d)
    BY <2>1, <2>5, <2>6, <2>7, AlikeStream DEF StreamOf, Waiting
  <2>10. Success(d, p)
    BY <2>1, <2>5 DEF StreamOf, Success
  <2>11. /\ Held'[s] = NoMsg /\ Ended' = Ended
         /\ \A t \in Sessions \ {s} : Held'[t] = Held[t]
         /\ \A t \in Sessions \ {s} : pending'[t] = pending[t]
         /\ \A t \in Requests \ {r} : t \in pending[s] => t \in pending'[s]
    BY <1>0, <1>3, <2>2 DEF Held, Ended, Over
  <2>12. \A t \in Sessions : Held'[t].to # r
    BY <1>0, <2>1, <2>2, <2>3 DEF Held
  <2>13. StreamOf(r, d, p, Held', pending', Ended', Up')
    <3>1. \A t \in Sessions : (d.sess = t /\ d.pc \in {"load", "check", "write", "wait"}) =>
                                r \in pending'[t] \/ d.shut \/ t \in Ended'
      <4> TAKE t \in Sessions
      <4>1. CASE t = s
        BY <2>1, <2>5, <2>11, <4>1 DEF StreamOf
      <4>2. CASE t # s
        BY <2>1, <2>5, <2>11, <4>2 DEF StreamOf
      <4> QED
        BY <4>1, <4>2
    <3> QED
      BY <2>1, <2>5, <2>8, <2>9, <2>10, <2>12, <3>1 DEF StreamOf
  <2>14. \A t \in Requests \ {r}, u \in Sessions :
           /\ conn'[u].msg.to = t <=> conn[u].msg.to = t
           /\ conn'[u].msg.to = t => conn'[u].msg = conn[u].msg
           /\ t \in pending[u] => t \in pending'[u] \/ Over(clean'[u])
    <3> TAKE t \in Requests \ {r}, u \in Sessions
    <3>1. CASE u = s
      BY <2>2, <2>3, <2>6, <2>11, <3>1
    <3>2. CASE u # s
      BY <2>2, <2>11, <3>2
    <3> QED
      BY <3>1, <3>2
  <2>15. \A u \in Sessions : Over(clean[u]) => Over(clean'[u])
    BY <1>0
  <2>16. Up /\ r \in Requests /\ req' = [req EXCEPT ![r] = d]
    BY <1>0, <1>3
  <2> QED
    BY ONLY <2>4, <2>13, <2>14, <2>15, <2>16, Types, Streams, StreamsFrame
<1> QED
  BY <1>1, <1>2, <1>3

(* A step of a caller or of its watcher.                                   *)
LEMMA CallerFrame ==
  ASSUME Types, Streams, Up, NEW r \in Requests, NEW d, NEW e,
         req' = [req EXCEPT ![r] = d], peer' = [peer EXCEPT ![r] = e],
         UNCHANGED <<conn, clean, crash>>,
         \A t \in Requests \ {r}, s \in Sessions : t \in pending[s] => t \in pending'[s],
         e.at = peer[r].at \/ peer[r].at = None,
         InChannel(d, e), Waiting(d), Success(d, e),
         e.at # None => e.at = d.sess /\ d.pc \in {"wait", "done"},
         \A m : InFlight(req[r], peer[r], m) => InFlight(d, e, m),
         UpToDate(req[r], peer[r]) => UpToDate(d, e),
         \A s \in Sessions : (d.sess = s /\ d.pc \in {"load", "check", "write", "wait"}) =>
                               r \in pending'[s] \/ d.shut \/ Over(clean[s])
  PROVE  Streams'
<1>1. StreamOf(r, req[r], peer[r], Held, pending, Ended, Up)
  BY StreamsAsOf
<1>2. Held' = Held /\ Ended' = Ended /\ Up' = Up /\ Ended = {s \in Sessions : Over(clean[s])}
  BY DEF Held, Ended, Over, Up
<1>3. \A s \in Sessions : Held[s].to = r => e.at = s /\ InFlight(d, e, Held[s])
  <2> SUFFICES ASSUME NEW s \in Sessions, Held[s].to = r
               PROVE  e.at = s /\ InFlight(d, e, Held[s])
    OBVIOUS
  <2>1. peer[r].at = s /\ InFlight(req[r], peer[r], Held[s]) /\ s # None
    BY <1>1, RelayAssumption DEF StreamOf, None
  <2> QED
    BY <2>1
<1>4. StreamOf(r, d, e, Held', pending', Ended', Up')
  BY <1>1, <1>2, <1>3 DEF StreamOf
<1>5. \A t \in Requests \ {r}, u \in Sessions :
        /\ conn'[u].msg.to = t <=> conn[u].msg.to = t
        /\ conn'[u].msg.to = t => conn'[u].msg = conn[u].msg
        /\ t \in pending[u] => t \in pending'[u] \/ Over(clean'[u])
  OBVIOUS
<1>6. \A u \in Sessions : Over(clean[u]) => Over(clean'[u])
  OBVIOUS
<1> QED
  BY <1>4, <1>5, <1>6, StreamsFrame

(* A caller that returns, or never began; its request may be dropped.      *)
LEMMA CallerEnds ==
  ASSUME Types, Streams, Up, NEW r \in Requests, NEW d,
         req' = [req EXCEPT ![r] = d], peer' = peer, UNCHANGED <<conn, clean, crash>>,
         \A t \in Requests \ {r}, s \in Sessions : t \in pending[s] => t \in pending'[s],
         d.pc = "done", d.got = req[r].got, d.lost = req[r].lost,
         d.sess = req[r].sess \/ peer[r].at = None, Success(d, peer[r])
  PROVE  Streams'
<1>1. StreamOf(r, req[r], peer[r], Held, pending, Ended, Up)
  BY StreamsAsOf
<1>2. peer' = [peer EXCEPT ![r] = peer[r]]
  BY DEF Types
<1>3. /\ InChannel(d, peer[r]) /\ Waiting(d)
      /\ \A m : InFlight(req[r], peer[r], m) => InFlight(d, peer[r], m)
      /\ UpToDate(req[r], peer[r]) => UpToDate(d, peer[r])
  BY <1>1, DoneStream DEF StreamOf
<1>4. peer[r].at # None => peer[r].at = d.sess /\ d.pc \in {"wait", "done"}
  BY <1>1 DEF StreamOf
<1>5. \A s \in Sessions : (d.sess = s /\ d.pc \in {"load", "check", "write", "wait"}) =>
                             r \in pending'[s] \/ d.shut \/ Over(clean[s])
  OBVIOUS
<1> QED
  BY ONLY <1>2, <1>3, <1>4, <1>5, CallerFrame, Types, Streams, Up, r \in Requests,
     req' = [req EXCEPT ![r] = d], UNCHANGED <<conn, clean, crash>>, Success(d, peer[r]),
     \A t \in Requests \ {r}, s \in Sessions : t \in pending[s] => t \in pending'[s]

(* A caller that goes on, its channel being left alone.                    *)
LEMMA CallerGoesOn ==
  ASSUME Types, Streams, Up, NEW r \in Requests, NEW d,
         req' = [req EXCEPT ![r] = d], peer' = peer, UNCHANGED <<conn, clean, crash>>,
         \A t \in Requests \ {r}, s \in Sessions : t \in pending[s] => t \in pending'[s],
         Alike(req[r], d), Waiting(d), Success(d, peer[r]),
         peer[r].at # None => d.sess = req[r].sess /\ d.pc \in {"wait", "done"},
         \A s \in Sessions : (d.sess = s /\ d.pc \in {"load", "check", "write", "wait"}) =>
                                r \in pending'[s] \/ d.shut \/ Over(clean[s])
  PROVE  Streams'
<1>1. StreamOf(r, req[r], peer[r], Held, pending, Ended, Up)
  BY StreamsAsOf
<1>2. peer' = [peer EXCEPT ![r] = peer[r]]
  BY DEF Types
<1>3. /\ InChannel(d, peer[r])
      /\ \A m : InFlight(req[r], peer[r], m) => InFlight(d, peer[r], m)
      /\ UpToDate(req[r], peer[r]) => UpToDate(d, peer[r])
  BY <1>1, AlikeStream DEF StreamOf
<1>4. peer[r].at # None => peer[r].at = d.sess /\ d.pc \in {"wait", "done"}
  BY <1>1 DEF StreamOf
<1> QED
  BY <1>2, <1>3, <1>4, CallerFrame

(* The caller and the watcher.                                             *)
LEMMA StreamsCaller ==
  ASSUME Types, Streams, NEW r \in Requests, CallerStep(r) \/ Cancel(r) \/ Watch(r)
  PROVE  Streams'
<1> DEFINE q == req[r]
           p == peer[r]
<1>0. /\ req \in [Requests -> ReqType] /\ q \in ReqType /\ p \in PeerType /\ ReqOK(q)
      /\ pending \in [Sessions -> SUBSET Requests] /\ peer \in [Requests -> PeerType]
      /\ StreamOf(r, q, p, Held, pending, Ended, Up) /\ req = [req EXCEPT ![r] = q]
  BY StreamsAsOf DEF Types
<1>1. Up /\ UNCHANGED <<conn, clean>>
  BY DEF CallerStep, Cancel, Watch, CallerSend, CallerPanics, CallerStore, CallerLoad, CallerCheck,
         CallerWrite, CallerDrop, CallerTake, CallerClosed, CallerGivesUp, callerElse
<1>2. /\ InChannel(q, p) /\ Waiting(q) /\ Success(q, p)
      /\ p.at # None => p.at = q.sess /\ q.pc \in {"wait", "done"}
      /\ \A s \in Sessions : (q.sess = s /\ q.pc \in {"load", "check", "write", "wait"}) =>
                                r \in pending[s] \/ q.shut \/ Over(clean[s])
  BY <1>0 DEF StreamOf, Ended
<1> HIDE DEF q, p
<1>3. ASSUME NEW o, NEW d, d = Return(q, o), req' = [req EXCEPT ![r] = d], peer' = peer,
             crash' = crash, pending' = pending,
             o = "ok" => \/ q.lost /\ ~q.stream
                         \/ q.cancelled = "waiting" /\ ~q.stream
      PROVE  Streams'
  <2>1. /\ d.pc = "done" /\ d.got = q.got /\ d.lost = q.lost /\ d.sess = q.sess /\ d.outcome = o
        /\ d.stream = q.stream /\ d.cancelled = q.cancelled
    BY <1>0, <1>3 DEF Return, ReqType
  <2>2. Success(d, p)
    BY <1>3, <2>1 DEF Success
  <2> QED
    BY <1>1, <1>3, <2>1, <2>2, CallerEnds DEF q, p
<1>4. CASE CallerSend(r)
  <2>1. PICK s \in Sessions, stream \in BOOLEAN :
          req' = [req EXCEPT ![r] = IF s \in sessions
                                    THEN [q EXCEPT !.pc = "store", !.sess = s, !.stream = stream]
                                    ELSE Return([q EXCEPT !.stream = stream], "error")]
    BY <1>4 DEF CallerSend, q
  <2>2. pending' = pending /\ peer' = peer /\ crash' = crash /\ q.pc = "idle"
    BY <1>4 DEF CallerSend, callerElse, q
  <2>3. CASE req' = [req EXCEPT ![r] = [q EXCEPT !.pc = "store", !.sess = s, !.stream = stream]]
    <3> DEFINE d == [q EXCEPT !.pc = "store", !.sess = s, !.stream = stream]
    <3>1. /\ d.ch = q.ch /\ d.got = q.got /\ d.lost = q.lost /\ d.shut = q.shut /\ d.pc = "store"
          /\ d.watch = q.watch /\ d.cancelled = q.cancelled /\ d.outcome = q.outcome
      BY <1>0 DEF ReqType
    <3> HIDE DEF d
    <3>2. Alike(q, d)
      BY <2>2, <3>1 DEF Alike
    <3>3. Waiting(d) /\ Success(d, p)
      BY <1>2, <2>2, <3>1, <3>2, AlikeStream DEF Waiting, Success, None
    <3> QED
      BY <1>1, <1>2, <2>2, <2>3, <3>1, <3>2, <3>3, CallerGoesOn DEF d, q, p
  <2>4. CASE req' = [req EXCEPT ![r] = Return([q EXCEPT !.stream = stream], "error")]
    <3> DEFINE d == Return([q EXCEPT !.stream = stream], "error")
    <3>1. d.pc = "done" /\ d.got = q.got /\ d.lost = q.lost /\ d.sess = q.sess /\ d.outcome = "error"
      BY <1>0 DEF Return, ReqType
    <3> HIDE DEF d
    <3>2. Success(d, p)
      BY <3>1 DEF Success
    <3>3. req' = [req EXCEPT ![r] = d]
      BY <2>4 DEF d
    <3> QED
      BY <1>1, <2>2, <3>1, <3>2, <3>3, CallerEnds DEF q, p
  <2> QED
    BY <2>1, <2>3, <2>4
<1>5. CASE CallerPanics(r) \/ CallerGivesUp(r)
  <2>1. /\ pending' = pending /\ peer' = peer /\ crash' = crash
        /\ \E o \in {"panic", "cancelled"} : req' = [req EXCEPT ![r] = Return(q, o)]
    BY <1>5 DEF CallerPanics, CallerGivesUp, callerElse, q
  <2> QED
    BY <1>3, <2>1
<1>6. CASE CallerClosed(r)
  <2>1. /\ pending' = pending /\ peer' = peer /\ crash' = crash
        /\ q.pc = "wait" /\ q.ch = <<>> /\ q.shut
        /\ \/ req' = [req EXCEPT ![r] = Return(q, "error")]
           \/ ~q.stream /\ req' = [req EXCEPT ![r] = Return(q, "ok")]
    BY <1>6 DEF CallerClosed, callerElse, q
  <2>2. q.lost \/ q.cancelled = "waiting"
    <3>1. ~HasTerminal(q)
      BY <2>1 DEF HasTerminal
    <3> QED
      BY <1>2, <2>1, <3>1 DEF Waiting
  <2> QED
    BY <1>3, <2>1, <2>2
<1>7. CASE CallerStore(r)
  <2>1. /\ q.pc = "store" /\ req' = [req EXCEPT ![r] = [q EXCEPT !.pc = "load"]] /\ peer' = peer
        /\ pending' = [pending EXCEPT ![q.sess] = @ \cup {r}] /\ crash' = crash
    BY <1>7 DEF CallerStore, callerElse, q
  <2> DEFINE d == [q EXCEPT !.pc = "load"]
  <2>2. /\ d.ch = q.ch /\ d.got = q.got /\ d.lost = q.lost /\ d.shut = q.shut /\ d.pc = "load"
        /\ d.watch = q.watch /\ d.cancelled = q.cancelled /\ d.outcome = q.outcome
        /\ d.sess = q.sess
    BY <1>0 DEF ReqType
  <2>3. /\ \A t \in Requests \ {r}, s \in Sessions : t \in pending[s] => t \in pending'[s]
        /\ \A s \in Sessions : q.sess = s => r \in pending'[s]
    BY <1>0, <2>1
  <2>4. req' = [req EXCEPT ![r] = d]
    BY <2>1
  <2> HIDE DEF d
  <2>5. Alike(q, d)
    BY <2>1, <2>2 DEF Alike
  <2>6. Waiting(d) /\ Success(d, p)
    BY <1>2, <2>1, <2>2, <2>5, AlikeStream DEF Waiting, Success, None
  <2>7. peer[r].at = None
    BY <1>2, <2>1 DEF p
  <2>8. \A s \in Sessions : (d.sess = s /\ d.pc \in {"load", "check", "write", "wait"}) =>
                              r \in pending'[s] \/ d.shut \/ Over(clean[s])
    BY <2>2, <2>3
  <2> QED
    BY <1>1, <2>1, <2>3, <2>4, <2>5, <2>6, <2>7, <2>8, CallerGoesOn DEF q, p
<1>8. CASE CallerLoad(r) \/ CallerCheck(r)
  <2>1. /\ q.pc \in {"load", "check"} /\ pending' = pending /\ peer' = peer /\ crash' = crash
        /\ \/ \E pc \in {"check", "drop", "write"} : req' = [req EXCEPT ![r] = [q EXCEPT !.pc = pc]]
           \/ req' = [req EXCEPT ![r] = Return(q, "panic")]
    BY <1>8 DEF CallerLoad, CallerCheck, callerElse, q
  <2>2. ASSUME NEW pc \in {"check", "drop", "write"}, req' = [req EXCEPT ![r] = [q EXCEPT !.pc = pc]]
        PROVE  Streams'
    <3> DEFINE d == [q EXCEPT !.pc = pc]
    <3>1. /\ d.ch = q.ch /\ d.got = q.got /\ d.lost = q.lost /\ d.shut = q.shut /\ d.pc = pc
          /\ d.watch = q.watch /\ d.cancelled = q.cancelled /\ d.outcome = q.outcome
          /\ d.sess = q.sess
      BY <1>0 DEF ReqType
    <3>2. req' = [req EXCEPT ![r] = d]
      BY <2>2
    <3> HIDE DEF d
    <3>3. Alike(q, d)
      BY <2>1, <3>1 DEF Alike
    <3>4. Waiting(d) /\ Success(d, p)
      BY <1>2, <2>1, <3>1, <3>3, AlikeStream DEF Waiting, Success, None
    <3>5. \A s \in Sessions : (d.sess = s /\ d.pc \in {"load", "check", "write", "wait"}) =>
                                r \in pending'[s] \/ d.shut \/ Over(clean[s])
      BY <1>2, <2>1, <3>1
    <3> QED
      BY <1>1, <1>2, <2>1, <3>1, <3>2, <3>3, <3>4, <3>5, CallerGoesOn DEF q, p
  <2> QED
    BY <1>3, <2>1, <2>2
<1>9. CASE CallerWrite(r)
  <2>1. /\ q.pc = "write" /\ pending' = pending /\ crash' = crash
        /\ \/ /\ req' = [req EXCEPT ![r] = [q EXCEPT !.pc = "drop"]]
              /\ peer' = peer
           \/ /\ req' = [req EXCEPT ![r] = [q EXCEPT !.pc = "wait", !.watch = TRUE]]
              /\ peer' = peer \/ peer' = [peer EXCEPT ![r] = [p EXCEPT !.at = q.sess]]
    <3>1. req[r].pc = "write" /\ pending' = pending /\ crash' = crash
      BY <1>9 DEF CallerWrite, callerElse
    <3>2. \/ /\ req' = [req EXCEPT ![r].pc = "drop"]
             /\ peer' = peer
          \/ /\ req' = [req EXCEPT ![r].pc = "wait", ![r].watch = TRUE]
             /\ peer' = peer \/ peer' = [peer EXCEPT ![r].at = req[r].sess]
      BY <1>9 DEF CallerWrite
    <3>3. /\ [req EXCEPT ![r].pc = "drop"] = [req EXCEPT ![r] = [req[r] EXCEPT !.pc = "drop"]]
          /\ [req EXCEPT ![r].pc = "wait", ![r].watch = TRUE] =
               [req EXCEPT ![r] = [req[r] EXCEPT !.pc = "wait", !.watch = TRUE]]
      BY <1>0
    <3>4. [peer EXCEPT ![r].at = req[r].sess] = [peer EXCEPT ![r] = [peer[r] EXCEPT !.at = req[r].sess]]
      BY <1>0
    <3> QED
      BY <3>1, <3>2, <3>3, <3>4 DEF q, p
  <2>2. CASE req' = [req EXCEPT ![r] = [q EXCEPT !.pc = "drop"]] /\ peer' = peer
    <3> DEFINE d == [q EXCEPT !.pc = "drop"]
    <3>1. /\ d.ch = q.ch /\ d.got = q.got /\ d.lost = q.lost /\ d.shut = q.shut /\ d.pc = "drop"
          /\ d.watch = q.watch /\ d.cancelled = q.cancelled /\ d.outcome = q.outcome
      BY <1>0 DEF ReqType
    <3>2. req' = [req EXCEPT ![r] = d]
      BY <2>2
    <3> HIDE DEF d
    <3>3. Alike(q, d)
      BY <2>1, <3>1 DEF Alike
    <3>4. Waiting(d) /\ Success(d, p)
      BY <1>2, <2>1, <3>1, <3>3, AlikeStream DEF Waiting, Success, None
    <3>5. peer[r].at = None /\ d.pc \notin {"load", "check", "write", "wait"}
      BY <1>2, <2>1, <3>1 DEF p
    <3> QED
      BY <1>1, <2>1, <2>2, <3>2, <3>3, <3>4, <3>5, CallerGoesOn DEF q, p
  <2>3. CASE /\ req' = [req EXCEPT ![r] = [q EXCEPT !.pc = "wait", !.watch = TRUE]]
             /\ peer' = peer \/ peer' = [peer EXCEPT ![r] = [p EXCEPT !.at = q.sess]]
    <3> DEFINE d == [q EXCEPT !.pc = "wait", !.watch = TRUE]
    <3>1. /\ d.ch = q.ch /\ d.got = q.got /\ d.lost = q.lost /\ d.shut = q.shut /\ d.pc = "wait"
          /\ d.cancelled = q.cancelled /\ d.outcome = q.outcome /\ d.sess = q.sess
      BY <1>0 DEF ReqType
    <3>2. req' = [req EXCEPT ![r] = d]
      BY <2>3
    <3> HIDE DEF d
    <3>3. Alike(q, d)
      BY <2>1, <3>1 DEF Alike
    <3>4. Waiting(d) /\ \A x : Success(d, x)
      BY <1>2, <2>1, <3>1, <3>3, AlikeStream DEF Waiting, Success, None
    <3>5. peer[r].at = None
      BY <1>2, <2>1 DEF p
    <3>6. PICK e : /\ peer' = [peer EXCEPT ![r] = e]
                   /\ e.at = None \/ e.at = q.sess
                   /\ e.sent = p.sent /\ e.end = p.end
      <4>1. CASE peer' = peer
        BY <1>0, <3>5, <4>1 DEF p
      <4>2. CASE peer' = [peer EXCEPT ![r] = [p EXCEPT !.at = q.sess]]
        <5> DEFINE e == [p EXCEPT !.at = q.sess]
        <5>1. e.at = q.sess /\ e.sent = p.sent /\ e.end = p.end
          BY <1>0 DEF PeerType
        <5>2. peer' = [peer EXCEPT ![r] = e]
          BY <4>2
        <5> HIDE DEF e
        <5> QED
          BY <5>1, <5>2
      <4> QED
        BY <2>3, <4>1, <4>2
    <3>7. /\ InChannel(d, e)
          /\ \A m : InFlight(q, p, m) => InFlight(d, e, m)
          /\ UpToDate(q, p) => UpToDate(d, e)
      <4>1. /\ InChannel(q, p) => InChannel(q, e)
            /\ \A m : InFlight(q, p, m) => InFlight(q, e, m)
            /\ UpToDate(q, p) => UpToDate(q, e)
        BY <3>6 DEF InChannel, InFlight, UpToDate
      <4> QED
        BY <1>2, <3>3, <4>1, AlikeStream
    <3>8. e.at # None => e.at = d.sess /\ d.pc \in {"wait", "done"}
      BY <3>1, <3>6
    <3>9. \A s \in Sessions : (d.sess = s /\ d.pc \in {"load", "check", "write", "wait"}) =>
                                r \in pending'[s] \/ d.shut \/ Over(clean[s])
      BY <1>2, <2>1, <3>1
    <3>10. UNCHANGED <<conn, clean, crash>>
           /\ \A t \in Requests \ {r}, s \in Sessions : t \in pending[s] => t \in pending'[s]
      BY <1>1, <2>1
    <3> QED
      BY <1>1, <3>2, <3>4, <3>5, <3>6, <3>7, <3>8, <3>9, <3>10, CallerFrame DEF q, p
  <2> QED
    BY <2>1, <2>2, <2>3
<1>10. CASE CallerDrop(r)
  <2> DEFINE a == Return(q, "error")
             d == [a EXCEPT !.shut = @ \/ r \in pending[q.sess]]
  <2>1. /\ req' = [req EXCEPT ![r] = d] /\ pending' = [pending EXCEPT ![q.sess] = @ \ {r}]
        /\ peer' = peer /\ crash' = crash
    BY <1>10 DEF CallerDrop, Drop, callerElse, q
  <2>2. d.pc = "done" /\ d.got = q.got /\ d.lost = q.lost /\ d.sess = q.sess /\ d.outcome = "error"
    BY <1>0 DEF Return, ReqType
  <2>3. \A t \in Requests \ {r}, s \in Sessions : t \in pending[s] => t \in pending'[s]
    BY <1>0, <2>1
  <2> HIDE DEF d, a
  <2>4. Success(d, p)
    BY <2>2 DEF Success
  <2> QED
    BY <1>1, <2>1, <2>2, <2>3, <2>4, CallerEnds DEF q, p
<1>11. CASE CallerTake(r)
  <2> DEFINE a == [q EXCEPT !.ch = Tail(@)]
             m == Head(q.ch)
  <2>1. /\ q.pc = "wait" /\ q.ch # <<>> /\ pending' = pending /\ peer' = peer /\ crash' = crash
        /\ req' = [req EXCEPT ![r] = CASE m.kind = "error" -> Return(a, "error")
                                       [] m.kind \in {"resp", "end"} -> Return(a, "ok")
                                       [] OTHER -> [a EXCEPT !.got = Append(@, m.num)]]
    BY <1>11 DEF CallerTake, callerElse, q
  <2>2. m.kind \in {"part", "resp", "error", "end"}
    <3>1. m \in Body /\ m.kind # None
      BY <1>0, <2>1, TakenType
    <3> QED
      BY <3>1 DEF Body
  <2>3. ASSUME NEW o, req' = [req EXCEPT ![r] = Return(a, o)], Success(Return(a, o), p)
        PROVE  Streams'
    <3> DEFINE d == Return(a, o)
    <3>1. d.pc = "done" /\ d.got = q.got /\ d.lost = q.lost /\ d.sess = q.sess
      BY <1>0 DEF Return, ReqType
    <3>2. req' = [req EXCEPT ![r] = d] /\ Success(d, p)
      BY <2>3
    <3> HIDE DEF d
    <3> QED
      BY <1>1, <2>1, <3>1, <3>2, CallerEnds DEF q, p
  <2>4. CASE m.kind = "error"
    <3>1. Return(a, "error").outcome = "error"
      BY <1>0 DEF Return, ReqType
    <3>2. Success(Return(a, "error"), p)
      BY <3>1 DEF Success
    <3> QED
      BY <2>1, <2>3, <2>4, <3>2
  <2>5. CASE m.kind \in {"resp", "end"}
    <3>1. Success(Return(a, "ok"), p)
      BY <1>0, <1>2, <2>1, <2>5, TakeEnd
    <3>2. m.kind # "error"
      BY <2>5
    <3> QED
      BY <2>1, <2>3, <2>5, <3>1, <3>2
  <2>6. CASE m.kind = "part"
    <3> DEFINE d == [a EXCEPT !.got = Append(@, m.num)]
    <3>1. req' = [req EXCEPT ![r] = d]
      BY <2>1, <2>6
    <3>2. /\ InChannel(d, p) /\ Waiting(d) /\ Success(d, p)
          /\ \A n : InFlight(q, p, n) => InFlight(d, p, n)
          /\ UpToDate(q, p) => UpToDate(d, p)
          /\ d.pc = q.pc /\ d.sess = q.sess /\ d.shut = q.shut
      BY ONLY <1>0, <1>2, <2>1, <2>6, TakePart
    <3> HIDE DEF d, a, m
    <3>3. peer' = [peer EXCEPT ![r] = p]
      BY <1>0, <2>1 DEF p
    <3>4. \A s \in Sessions : (d.sess = s /\ d.pc \in {"load", "check", "write", "wait"}) =>
                                r \in pending'[s] \/ d.shut \/ Over(clean[s])
      BY <1>2, <2>1, <3>2
    <3>5. UNCHANGED <<conn, clean, crash>>
          /\ \A t \in Requests \ {r}, s \in Sessions : t \in pending[s] => t \in pending'[s]
      BY <1>1, <2>1
    <3>6. p.at # None => p.at = d.sess /\ d.pc \in {"wait", "done"}
      BY <1>2, <3>2
    <3> QED
      BY <1>1, <3>1, <3>2, <3>3, <3>4, <3>5, <3>6, CallerFrame DEF q, p
  <2> QED
    BY <2>2, <2>4, <2>5, <2>6
<1>12. CASE Cancel(r)
  <2>1. PICK c \in {"waiting", "after"} :
          /\ pending' = pending /\ peer' = peer /\ crash' = crash
          /\ q.pc \in {"wait", "done"} /\ q.cancelled = "no" /\ (c = "after" => q.pc = "done")
          /\ req' = [req EXCEPT ![r] = [q EXCEPT !.cancelled = c]]
    BY <1>12 DEF Cancel, callerElse, q
  <2> DEFINE d == [q EXCEPT !.cancelled = c]
  <2>2. /\ d.ch = q.ch /\ d.got = q.got /\ d.lost = q.lost /\ d.shut = q.shut /\ d.pc = q.pc
        /\ d.watch = q.watch /\ d.cancelled = c /\ d.outcome = q.outcome
        /\ d.sess = q.sess /\ d.stream = q.stream
    BY <1>0 DEF ReqType
  <2>3. req' = [req EXCEPT ![r] = d]
    BY <2>1
  <2> HIDE DEF d
  <2>4. Alike(q, d)
    BY <2>2 DEF Alike
  <2>5. Waiting(d)
    BY <1>2, <2>1, <2>2, <2>4, AlikeStream DEF Waiting
  <2>6. Success(d, p)
    BY <1>2, <2>1, <2>2 DEF Success
  <2>7. peer[r].at # None => d.sess = q.sess /\ d.pc \in {"wait", "done"}
    BY <2>1, <2>2
  <2>8. \A s \in Sessions : (d.sess = s /\ d.pc \in {"load", "check", "write", "wait"}) =>
                              r \in pending'[s] \/ d.shut \/ Over(clean[s])
    BY <1>2, <2>1, <2>2
  <2> QED
    BY <1>1, <2>1, <2>3, <2>4, <2>5, <2>6, <2>7, <2>8, CallerGoesOn DEF q, p
<1>13. CASE Watch(r)
  <2>1. /\ q.watch /\ peer' = peer
        /\ \/ q.cancelled # "no" /\ Drop(q.sess, r, [q EXCEPT !.watch = FALSE]) /\ crash' = crash
           \/ req' = req /\ pending' = pending /\ ~Up'
           \/ req' = [req EXCEPT ![r] = [q EXCEPT !.watch = FALSE]] /\ pending' = pending /\ crash' = crash
    <3>1. \A s : crash' = [who |-> "watcher", session |-> s, request |-> r, reset |-> TRUE] => ~Up'
      BY DEF Up, None
    <3> QED
      BY <1>13, <3>1 DEF Watch, q
  <2>2. CASE req' = req /\ pending' = pending /\ ~Up'
    BY <1>1, <2>1, <2>2 DEF Streams
  <2>3. ASSUME NEW b \in BOOLEAN,
               b => q.cancelled # "no",
               req' = [req EXCEPT ![r] = [[q EXCEPT !.watch = FALSE] EXCEPT !.shut = q.shut \/ b]],
               crash' = crash,
               \A t \in Requests \ {r}, s \in Sessions : t \in pending[s] => t \in pending'[s],
               \A s \in Sessions : q.sess = s /\ r \in pending[s] => r \in pending'[s] \/ b
        PROVE  Streams'
    <3> DEFINE d == [[q EXCEPT !.watch = FALSE] EXCEPT !.shut = q.shut \/ b]
    <3>1. /\ d.ch = q.ch /\ d.got = q.got /\ d.lost = q.lost /\ d.pc = q.pc
          /\ d.watch = FALSE /\ d.cancelled = q.cancelled /\ d.outcome = q.outcome
          /\ d.sess = q.sess /\ d.stream = q.stream
      BY <1>0 DEF ReqType
    <3>2. d.shut <=> q.shut \/ b
      BY <1>0 DEF ReqType
    <3>3. req' = [req EXCEPT ![r] = d]
      BY <2>3
    <3> HIDE DEF d
    <3>4. Alike(q, d)
      BY <3>1, <3>2 DEF Alike
    <3>5. Waiting(d)
      <4>1. (q.pc # "done" /\ b) => q.cancelled = "waiting"
        BY <1>0, <1>2, <2>3 DEF Waiting, ReqType
      <4> QED
        BY <1>2, <3>1, <3>2, <3>4, <4>1, AlikeStream DEF Waiting
    <3>6. Success(d, p)
      BY <1>2, <3>1 DEF Success
    <3>7. peer[r].at # None => d.sess = q.sess /\ d.pc \in {"wait", "done"}
      BY <1>2, <3>1 DEF p
    <3>8. \A s \in Sessions : (d.sess = s /\ d.pc \in {"load", "check", "write", "wait"}) =>
                                r \in pending'[s] \/ d.shut \/ Over(clean[s])
      BY <1>2, <2>3, <3>1, <3>2
    <3> QED
      BY <1>1, <2>1, <2>3, <3>3, <3>4, <3>5, <3>6, <3>7, <3>8, CallerGoesOn DEF q, p
  <2>4. CASE q.cancelled # "no" /\ Drop(q.sess, r, [q EXCEPT !.watch = FALSE]) /\ crash' = crash
    <3> DEFINE a == [q EXCEPT !.watch = FALSE]
               b == r \in pending[q.sess]
    <3>1. req' = [req EXCEPT ![r] = [a EXCEPT !.shut = @ \/ b]]
          /\ pending' = [pending EXCEPT ![q.sess] = @ \ {r}]
      BY <2>4 DEF Drop
    <3>2. a.shut = q.shut
      BY <1>0 DEF ReqType
    <3>3. /\ \A t \in Requests \ {r}, s \in Sessions : t \in pending[s] => t \in pending'[s]
          /\ \A s \in Sessions : q.sess = s /\ r \in pending[s] => r \in pending'[s] \/ b
      BY <1>0, <3>1
    <3>4. req' = [req EXCEPT ![r] = [a EXCEPT !.shut = q.shut \/ b]] /\ b \in BOOLEAN
      BY <3>1, <3>2
    <3> HIDE DEF b
    <3> QED
      BY <2>3, <2>4, <3>3, <3>4
  <2>5. CASE /\ req' = [req EXCEPT ![r] = [q EXCEPT !.watch = FALSE]] /\ pending' = pending
             /\ crash' = crash
    <3>1. [[q EXCEPT !.watch = FALSE] EXCEPT !.shut = q.shut \/ FALSE] = [q EXCEPT !.watch = FALSE]
      BY <1>0 DEF ReqType
    <3> QED
      BY <2>3, <2>5, <3>1
  <2> QED
    BY <2>1, <2>2, <2>4, <2>5
<1> QED
  BY <1>4, <1>5, <1>6, <1>7, <1>8, <1>9, <1>10, <1>11, <1>12, <1>13 DEF CallerStep

LEMMA StreamsInit == Init => Streams
<1> SUFFICES ASSUME Init PROVE Streams
  OBVIOUS
<1>1. ASSUME NEW r \in Requests
      PROVE  /\ InChannel(req[r], peer[r]) /\ Waiting(req[r]) /\ Success(req[r], peer[r])
             /\ UpToDate(req[r], peer[r]) /\ peer[r].at = None /\ req[r].pc = "idle"
  <2>1. /\ req[r].pc = "idle" /\ req[r].ch = <<>> /\ req[r].got = <<>> /\ ~req[r].shut
        /\ ~req[r].watch /\ req[r].cancelled = "no" /\ req[r].outcome = None
        /\ peer[r].at = None /\ peer[r].sent = 0
    BY DEF Init
  <2>2. Len(req[r].got) = 0 /\ Len(req[r].ch) = 0 /\ DOMAIN req[r].ch = {} /\ 1..Len(req[r].got) = {}
    BY <2>1
  <2>3. InChannel(req[r], peer[r])
    BY <2>2, RelayAssumption DEF InChannel
  <2>4. Waiting(req[r]) /\ Success(req[r], peer[r])
    BY <2>1 DEF Waiting, Success, None
  <2>5. UpToDate(req[r], peer[r])
    BY <2>1, <2>2 DEF UpToDate, Reached
  <2> QED
    BY <2>1, <2>3, <2>4, <2>5
<1>2. \A s \in Sessions : conn[s].msg.to = None
  BY DEF Init, NoMsg
<1> QED
  BY <1>1, <1>2, RelayAssumption DEF Streams, None

(* Every step.                                                             *)
LEMMA StreamsStep == Types /\ Streams /\ [Next]_vars => Streams'
<1> SUFFICES ASSUME Types, Streams, [Next]_vars PROVE Streams'
  OBVIOUS
<1>1. ASSUME NEW s \in Sessions,
             \/ Connect(s) \/ HandshakeStep(s) \/ PeerLeaves(s) \/ HeartbeatFails(s)
             \/ CleanStep(s) \/ ReaderStep(s) \/ StopCleans(s)
      PROVE  Streams'
  BY <1>1, StreamsSession, StreamsVisit, StreamsRead, StreamsDeliver, StreamsRetire
     DEF CleanStep, ReaderStep
<1>2. CASE StopTakes
  BY <1>2 DEF StopTakes, Streams, Up
<1>3. ASSUME NEW r \in Requests, CallerStep(r) \/ Cancel(r) \/ Watch(r) PROVE Streams'
  BY <1>3, StreamsCaller
<1>4. CASE UNCHANGED vars
  BY <1>4 DEF vars, Streams, Up
<1> QED
  BY <1>1, <1>2, <1>3, <1>4 DEF Next

LEMMA StreamsAlways == Spec => [](Types /\ Streams)
<1>1. Init => Types /\ Streams
  BY TypesInit, StreamsInit
<1>2. Types /\ Streams /\ [Next]_vars => (Types /\ Streams)'
  BY TypesStep, StreamsStep
<1> QED
  BY <1>1, <1>2, PTL DEF Spec

(* Every variable holds what the code could hold there; no channel has     *)
(* more messages than its capacity, and no caller more than were sent.     *)
THEOREM TypeCorrect == Spec => []TypeOK
<1>1. Types /\ Streams => TypeOK
  <2> SUFFICES ASSUME Types, Streams PROVE TypeOK
    OBVIOUS
  <2>1. \A s \in Sessions :
          /\ conn[s].pc \in {"no", "new", "stored", "up"} /\ conn[s].gone \in BOOLEAN
          /\ conn[s].reader \in {"no", "read", "ended"} /\ cred[s] \in {None, "add", "delete"}
    BY DEF Types, ConnType
  <2>2. \A s \in Sessions :
          /\ clean[s].pc \in {"open", "range", "reset", "unmap", "emit", "done"}
          /\ pending[s] \subseteq Requests /\ clean[s].seen \subseteq Requests
    BY DEF Types, CleanType
  <2>3. sessions \subseteq Sessions /\ stop.list \subseteq Sessions
    BY DEF Types, StopType
  <2>4. ASSUME NEW r \in Requests
        PROVE  /\ req[r].pc \in {"idle", "store", "load", "check", "write", "drop", "wait", "done"}
               /\ req[r].outcome \in {None, "ok", "error", "panic", "cancelled"}
               /\ Len(req[r].ch) <= Buffer /\ Len(req[r].got) <= MaxChunks
    <3>1. req[r] \in ReqType /\ ReqOK(req[r]) /\ InChannel(req[r], peer[r])
      BY DEF Types, Streams
    <3> QED
      BY <3>1 DEF ReqType, ReqOK, InChannel
  <2>5. \A r \in Requests : peer[r].sent \in 0..MaxChunks /\ peer[r].end \in {None, "resp", "error", "end"}
    BY DEF Types, PeerType
  <2> QED
    BY <2>1, <2>2, <2>3, <2>4, <2>5 DEF TypeOK
<1> QED
  BY <1>1, StreamsAlways, PTL

(* What a caller takes for a success is complete and in order, unless a    *)
(* message did not fit into its channel, or NonStream was cut off: between *)
(* the client, the reader and the channel no message is lost, repeated or  *)
(* overtaken, whoever cleans up or cancels meanwhile.                      *)
THEOREM CompleteOrCutOff == Spec => []SuccessIsComplete
<1>1. Streams => SuccessIsComplete
  BY DEF Streams, Success, SuccessIsComplete
<1> QED
  BY <1>1, StreamsAlways, PTL

-----------------------------------------------------------------------------
(* Panics *)

(* Who cleans up: not the reader while it still reads.                     *)
Open(k) == k.pc = "open"
Other(k) == k.by \in {"heartbeat", "stop"}
Cleaner(k, c) ==
  /\ Open(k) => k.at = None /\ k.seen = {}
  /\ ~Open(k) => Other(k) \/ k.by = "reader"
  /\ k.by = "reader" => c.reader = "ended"
  /\ c.reader # "read" => c.msg = NoMsg
  /\ c.pc # "up" => c.reader = "no"
  /\ k.at # None => k.at \in k.seen

(* A message about r is on its way to its channel, or may still come.      *)
Unfinished(r, q, p, m) ==
  \/ m.to = r /\ ~m.given
  \/ p.end = None /\ (p.at # None \/ q.pc # "done")

(* The caller has returned, but its watcher not.                           *)
Left(q) == q.watch /\ q.pc = "done"
Excused(q) == q.cancelled = "waiting" \/ q.outcome = "error"

(* A request before it is stored.                                          *)
Early(q) ==
  /\ q.pc = "idle" => q.sess = None
  /\ q.pc \in {"idle", "store"} => q.ch = <<>> /\ ~q.shut
  /\ q.outcome = "panic" => q.sess # None

(* The fate of the request r in the session s: q and p are the request and *)
(* its client, m the message that the reader has, held the pending ids, k  *)
(* the clean-up.  While more may come for the channel it is only closed    *)
(* for a cancelled request or by a clean-up; and one that is pending, or   *)
(* that the clean-up is about to close, is still open unless somebody else *)
(* has a right to close it, too.                                           *)
Fate(r, s, q, p, m, held, k) ==
  /\ r \in held \cup k.seen => q.sess = s /\ q.pc \notin {"idle", "store"}
  /\ q.sess = s =>
       /\ (Unfinished(r, q, p, m) /\ (q.shut \/ q.pc = "done" \/ HasTerminal(q))) =>
            q.cancelled = "waiting" \/ ~Open(k)
       /\ q.pc = "load" => r \in held \/ ~Open(k)
       /\ q.outcome = "panic" => ~Open(k)
  /\ r \in held /\ q.shut => r \in k.seen /\ k.at # r
  /\ (r \in held \ k.seen /\ (HasTerminal(q) \/ Left(q))) => Excused(q) \/ (m.to = r /\ m.given)
  /\ (k.at = r /\ (q.shut \/ HasTerminal(q) \/ Left(q))) => Excused(q) \/ Other(k)

(* What the crash c of the request q in a session with clean-up k is due   *)
(* to.                                                                     *)
Blame(c, q, k) ==
  \/ c.who = "watcher" /\ c.reset /\ q.cancelled # "no"
  \/ c.who = "dispatch" /\ (Other(k) \/ (~c.reset /\ q.cancelled = "waiting"))
  \/ c.who = "range" /\ (Other(k) \/ Excused(q))

Fates ==
  /\ \A s \in Sessions : Cleaner(clean[s], conn[s])
  /\ \A r \in Requests : Early(req[r])
  /\ \A r \in Requests, s \in Sessions :
       Fate(r, s, req[r], peer[r], conn[s].msg, pending[s], clean[s])
  /\ ~Up => /\ crash.session \in Sessions /\ crash.request \in Requests
            /\ Blame(crash, req[crash.request], clean[crash.session])

(* A step that is not about r.                                             *)
LEMMA FateStays ==
  ASSUME NEW r, NEW s, NEW q, NEW p, NEW m, NEW n, NEW held, NEW left, NEW k, NEW l,
         Fate(r, s, q, p, m, held, k),
         m.to = r \/ n.to = r => n = m,
         r \in left => r \in held,
         r \in held => r \in left \/ ~Open(l),
         ~Open(k) => ~Open(l),
         r \in l.seen <=> r \in k.seen,
         l.at = r => k.at = r /\ l.by = k.by
  PROVE  Fate(r, s, q, p, n, left, l)
<1>1. Unfinished(r, q, p, n) => Unfinished(r, q, p, m)
  BY DEF Unfinished
<1>2. r \in left \cup l.seen => q.sess = s /\ q.pc \notin {"idle", "store"}
  BY DEF Fate
<1>3. q.sess = s =>
       /\ (Unfinished(r, q, p, n) /\ (q.shut \/ q.pc = "done" \/ HasTerminal(q))) =>
            q.cancelled = "waiting" \/ ~Open(l)
       /\ q.pc = "load" => r \in left \/ ~Open(l)
       /\ q.outcome = "panic" => ~Open(l)
  BY <1>1 DEF Fate
<1>4. r \in left /\ q.shut => r \in l.seen /\ l.at # r
  BY DEF Fate
<1>5. (r \in left \ l.seen /\ (HasTerminal(q) \/ Left(q))) => Excused(q) \/ (n.to = r /\ n.given)
  BY DEF Fate
<1>6. (l.at = r /\ (q.shut \/ HasTerminal(q) \/ Left(q))) => Excused(q) \/ Other(l)
  BY DEF Fate, Other
<1> QED
  BY <1>2, <1>3, <1>4, <1>5, <1>6 DEF Fate

(* A step that concerns one request of one session only.                   *)
LEMMA FatesFrame ==
  ASSUME Types, Fates, NEW r \in Requests, NEW d, NEW e,
         req' = [req EXCEPT ![r] = d], peer' = [peer EXCEPT ![r] = e],
         \A s \in Sessions : Cleaner(clean'[s], conn'[s]),
         \A s \in Sessions :
            /\ ~Open(clean[s]) => ~Open(clean'[s])
            /\ clean'[s].by = clean[s].by,
         \A t \in Requests \ {r}, s \in Sessions :
            /\ conn[s].msg.to = t \/ conn'[s].msg.to = t => conn'[s].msg = conn[s].msg
            /\ t \in pending'[s] <=> t \in pending[s]
            /\ t \in clean'[s].seen <=> t \in clean[s].seen
            /\ clean'[s].at = t => clean[s].at = t,
         Early(d),
         \A s \in Sessions : Fate(r, s, d, e, conn'[s].msg, pending'[s], clean'[s]),
         ~Up' => /\ crash'.session \in Sessions /\ crash'.request = r
                 /\ Blame(crash', d, clean'[crash'.session])
  PROVE  Fates'
<1>1. /\ req'[r] = d /\ peer'[r] = e
      /\ \A t \in Requests \ {r} : req'[t] = req[t] /\ peer'[t] = peer[t]
  BY DEF Types
<1>2. \A t \in Requests : Early(req'[t])
  BY <1>1 DEF Fates
<1>3. ASSUME NEW t \in Requests \ {r}, NEW s \in Sessions
      PROVE  Fate(t, s, req'[t], peer'[t], conn'[s].msg, pending'[s], clean'[s])
  <2>1. Fate(t, s, req[t], peer[t], conn[s].msg, pending[s], clean[s])
    BY DEF Fates
  <2>2. /\ conn[s].msg.to = t \/ conn'[s].msg.to = t => conn'[s].msg = conn[s].msg
        /\ t \in pending'[s] <=> t \in pending[s]
        /\ t \in clean'[s].seen <=> t \in clean[s].seen
        /\ clean'[s].at = t => clean[s].at = t
        /\ ~Open(clean[s]) => ~Open(clean'[s])
        /\ clean'[s].by = clean[s].by
    OBVIOUS
  <2>3. Fate(t, s, req[t], peer[t], conn'[s].msg, pending'[s], clean'[s])
    BY <2>1, <2>2, FateStays
  <2> QED
    BY <1>1, <2>3
<1>4. \A t \in Requests, s \in Sessions :
        Fate(t, s, req'[t], peer'[t], conn'[s].msg, pending'[s], clean'[s])
  BY <1>1, <1>3
<1>5. ~Up' => /\ crash'.session \in Sessions /\ crash'.request \in Requests
              /\ Blame(crash', req'[crash'.request], clean'[crash'.session])
  BY <1>1
<1> QED
  BY <1>2, <1>4, <1>5 DEF Fates

(* The steps of the connections and their clean-up, but for the visits and *)
(* the reader.                                                             *)
LEMMA FatesSession ==
  ASSUME Types, Fates, NEW s \in Sessions,
         \/ Connect(s) \/ HandshakeStep(s) \/ PeerLeaves(s) \/ HeartbeatFails(s) \/ ReadFails(s)
         \/ StopTakes \/ StopCleans(s) \/ RangeEnds(s) \/ Reset(s) \/ Unmap(s) \/ Emit(s)
  PROVE  Fates'
<1>1. /\ req' = req /\ peer' = peer /\ crash' = crash /\ Up
      /\ \A t \in Sessions \ {s} : /\ conn'[t] = conn[t] /\ clean'[t] = clean[t]
                                   /\ pending'[t] = pending[t]
      /\ conn'[s].msg = conn[s].msg
      /\ \/ conn'[s].reader = conn[s].reader /\ (conn'[s].pc = conn[s].pc \/ conn[s].pc # "up")
         \/ conn'[s].reader = "read" /\ conn[s].pc = "stored" /\ conn'[s].pc = "up"
         \/ /\ conn'[s].reader = "ended" /\ conn[s].reader = "read"
            /\ conn'[s].msg = NoMsg /\ conn'[s].pc = conn[s].pc
  <2>1. conn \in [Sessions -> ConnType] /\ clean \in [Sessions -> CleanType]
        /\ pending \in [Sessions -> SUBSET Requests]
    BY DEF Types
  <2>2. UNCHANGED <<req, peer, crash>> /\ Up
    BY DEF Connect, HandshakeStep, StoreSession, Announce, PeerLeaves, HeartbeatFails, ReadFails,
           StopTakes, StopCleans, RangeEnds, Reset, Unmap, Emit
  <2>3. \A t \in Sessions \ {s} : conn'[t] = conn[t]
    BY <2>1 DEF Connect, HandshakeStep, StoreSession, Announce, PeerLeaves, HeartbeatFails, ReadFails,
           StopTakes, StopCleans, RangeEnds, Reset, Unmap, Emit
  <2>4. \A t \in Sessions \ {s} : clean'[t] = clean[t] /\ pending'[t] = pending[t]
    BY <2>1 DEF Connect, HandshakeStep, StoreSession, Announce, PeerLeaves, HeartbeatFails, ReadFails,
           StopTakes, StopCleans, RangeEnds, Reset, Unmap, Emit, Begin
  <2>5. conn'[s].msg = conn[s].msg
    BY TypesSession
  <2>6. \/ conn'[s].reader = conn[s].reader /\ (conn'[s].pc = conn[s].pc \/ conn[s].pc # "up")
        \/ conn'[s].reader = "read" /\ conn[s].pc = "stored" /\ conn'[s].pc = "up"
        \/ /\ conn'[s].reader = "ended" /\ conn[s].reader = "read"
           /\ conn'[s].msg = NoMsg /\ conn'[s].pc = conn[s].pc
    <3>1. CASE Announce(s)
      <4>1. conn'[s] = [conn[s] EXCEPT !.pc = "up", !.reader = "read"] /\ conn[s] \in ConnType
        BY <2>1, <3>1 DEF Announce
      <4> QED
        BY <3>1, <4>1 DEF Announce, ConnType
    <3>2. CASE ReadFails(s)
      BY <2>1, <2>5, <3>2 DEF ReadFails, ConnType, Reading
    <3>3. CASE Connect(s) \/ StoreSession(s) \/ PeerLeaves(s)
      BY <2>1, <3>3 DEF Connect, StoreSession, PeerLeaves, ConnType
    <3>4. CASE \/ HeartbeatFails(s) \/ StopTakes \/ StopCleans(s) \/ RangeEnds(s) \/ Reset(s)
               \/ Unmap(s) \/ Emit(s)
      BY <3>4 DEF HeartbeatFails, StopTakes, StopCleans, RangeEnds, Reset, Unmap, Emit
    <3> QED
      BY <3>1, <3>2, <3>3, <3>4 DEF HandshakeStep
  <2> QED
    BY <2>2, <2>3, <2>4, <2>5, <2>6
<1>2. \/ clean'[s] = clean[s]
      \/ /\ Open(clean[s]) /\ ~Open(clean'[s]) /\ clean'[s].at = None /\ clean'[s].seen = {}
         /\ Other(clean'[s]) \/ (clean'[s].by = "reader" /\ conn'[s].reader = "ended")
      \/ /\ ~Open(clean[s]) /\ ~Open(clean'[s]) /\ clean'[s].at = clean[s].at
         /\ clean'[s].seen = clean[s].seen /\ clean'[s].by = clean[s].by
  <2>1. clean \in [Sessions -> CleanType] /\ conn \in [Sessions -> ConnType]
    BY DEF Types
  <2>2. ASSUME NEW by \in {"heartbeat", "reader", "stop"}, Begin(s, by),
               by = "reader" => conn'[s].reader = "ended"
        PROVE  /\ Open(clean[s]) /\ ~Open(clean'[s]) /\ clean'[s].at = None /\ clean'[s].seen = {}
               /\ Other(clean'[s]) \/ (clean'[s].by = "reader" /\ conn'[s].reader = "ended")
    BY <2>1, <2>2 DEF Begin, Open, Other, Closed
  <2>3. CASE HeartbeatFails(s) \/ StopCleans(s) \/ StopTakes
    BY <2>2, <2>3 DEF HeartbeatFails, StopCleans, StopTakes
  <2>4. CASE ReadFails(s)
    <3>1. conn'[s].reader = "ended"
      BY <2>1, <2>4 DEF ReadFails, ConnType
    <3> QED
      BY <2>2, <2>4, <3>1 DEF ReadFails
  <2>5. CASE RangeEnds(s) \/ Reset(s) \/ Unmap(s) \/ Emit(s)
    <3>1. \E pc \in {"reset", "unmap", "emit", "done"} : clean' = [clean EXCEPT ![s].pc = pc]
      BY <2>5 DEF RangeEnds, Reset, Unmap, Emit
    <3>2. clean[s].pc # "open"
      BY <2>5 DEF RangeEnds, Reset, Unmap, Emit
    <3> QED
      BY <2>1, <3>1, <3>2 DEF CleanType, Open
  <2>6. CASE Connect(s) \/ HandshakeStep(s) \/ PeerLeaves(s)
    BY <2>6 DEF Connect, HandshakeStep, StoreSession, Announce, PeerLeaves
  <2> QED
    BY <2>3, <2>4, <2>5, <2>6
<1>3. pending'[s] = pending[s] \/ (pending'[s] = {} /\ ~Open(clean'[s]))
  <2>1. CASE Reset(s)
    BY <2>1 DEF Reset, Types, Open, CleanType
  <2>2. CASE ~Reset(s)
    BY <2>2 DEF Connect, HandshakeStep, StoreSession, Announce, PeerLeaves, HeartbeatFails, ReadFails,
         StopTakes, StopCleans, RangeEnds, Unmap, Emit
  <2> QED
    BY <2>1, <2>2
<1>4. \A t \in Sessions : Cleaner(clean'[t], conn'[t])
  <2>1. \A t \in Sessions \ {s} : Cleaner(clean'[t], conn'[t])
    BY <1>1 DEF Fates
  <2>2. Cleaner(clean[s], conn[s])
    BY DEF Fates
  <2>3. clean'[s].by = "reader" => conn'[s].reader = "ended"
    BY <1>1, <1>2, <2>2 DEF Cleaner, Other
  <2>4. /\ conn'[s].reader # "read" => conn'[s].msg = NoMsg
        /\ conn'[s].pc # "up" => conn'[s].reader = "no"
    BY <1>1, <2>2 DEF Cleaner
  <2>5. Cleaner(clean'[s], conn'[s])
    BY <1>2, <2>2, <2>3, <2>4 DEF Cleaner, Open, Other
  <2> QED
    BY <2>1, <2>5
<1>5. ASSUME NEW r \in Requests, NEW t \in Sessions
      PROVE  Fate(r, t, req[r], peer[r], conn'[t].msg, pending'[t], clean'[t])
  <2>1. Fate(r, t, req[r], peer[r], conn[t].msg, pending[t], clean[t]) /\ Cleaner(clean[t], conn[t])
    BY DEF Fates
  <2>2. /\ conn'[t].msg = conn[t].msg
        /\ r \in pending'[t] => r \in pending[t]
        /\ r \in pending[t] => r \in pending'[t] \/ ~Open(clean'[t])
        /\ ~Open(clean[t]) => ~Open(clean'[t])
        /\ r \in clean'[t].seen <=> r \in clean[t].seen
        /\ clean'[t].at = r => clean[t].at = r /\ clean'[t].by = clean[t].by
    <3>1. r # None
      BY RelayAssumption DEF None
    <3>2. CASE t # s
      BY <1>1, <3>2
    <3>3. CASE t = s
      BY <1>1, <1>2, <1>3, <2>1, <3>1, <3>3 DEF Cleaner
    <3> QED
      BY <3>2, <3>3
  <2> QED
    BY <2>1, <2>2, FateStays
<1>6. (~Up)' = FALSE
  BY <1>1 DEF Up
<1> QED
  BY <1>1, <1>4, <1>5, <1>6 DEF Fates

(* A request in a session that is not its own.                             *)
LEMMA FateElsewhere ==
  ASSUME NEW r, NEW s, NEW d, NEW e, NEW m, NEW held, NEW k,
         d.sess # s, r \notin held \cup k.seen, k.at = r => r \in k.seen
  PROVE  Fate(r, s, d, e, m, held, k)
BY DEF Fate

(* What an offer leaves alone.                                             *)
LEMMA OfferFate ==
  ASSUME NEW q, NEW m \in Body, ReqOK(q)
  PROVE  LET o == Offer(q, m) IN
         /\ o.pc = q.pc /\ o.sess = q.sess /\ o.shut = q.shut /\ o.outcome = q.outcome
         /\ o.watch = q.watch /\ o.cancelled = q.cancelled
         /\ HasTerminal(o) => HasTerminal(q) \/ Terminal(m)
         /\ o \in ReqType
<1>1. q \in ReqType /\ q.ch \in Seq(Body) /\ Len(q.ch) \in Nat /\ DOMAIN q.ch = 1..Len(q.ch)
  BY DEF ReqOK, ReqType, Channel
<1> DEFINE o == Offer(q, m)
<1>2. CASE Len(q.ch) < Buffer
  <2>1. /\ o.pc = q.pc /\ o.sess = q.sess /\ o.shut = q.shut /\ o.outcome = q.outcome
        /\ o.watch = q.watch /\ o.cancelled = q.cancelled /\ o.ch = Append(q.ch, m)
    BY <1>1, <1>2 DEF Offer, ReqType
  <2>2. /\ o.ch[Len(q.ch) + 1] = m /\ DOMAIN o.ch = 1..Len(q.ch) + 1
        /\ \A i \in 1..Len(q.ch) : o.ch[i] = q.ch[i]
    BY <1>1, <2>1
  <2>3. o \in ReqType
    <3>1. o = [q EXCEPT !.ch = Append(q.ch, m)] /\ Append(q.ch, m) \in Channel
      BY <1>1, <1>2 DEF Offer, Channel
    <3> HIDE DEF o
    <3> QED
      BY <1>1, <3>1 DEF ReqType
  <2> HIDE DEF o
  <2>4. HasTerminal(o) => HasTerminal(q) \/ Terminal(m)
    <3> SUFFICES ASSUME NEW i \in DOMAIN o.ch, Terminal(o.ch[i]), ~Terminal(m)
                 PROVE  HasTerminal(q)
      BY DEF HasTerminal
    <3>1. i # Len(q.ch) + 1
      BY <2>2
    <3>2. i \in DOMAIN q.ch /\ o.ch[i] = q.ch[i]
      BY <1>1, <2>2, <3>1
    <3> QED
      BY <3>2 DEF HasTerminal
  <2> QED
    BY <2>1, <2>3, <2>4 DEF o
<1>3. CASE ~(Len(q.ch) < Buffer)
  <2>1. /\ o.pc = q.pc /\ o.sess = q.sess /\ o.shut = q.shut /\ o.outcome = q.outcome
        /\ o.watch = q.watch /\ o.cancelled = q.cancelled /\ o.ch = q.ch /\ o \in ReqType
    BY <1>1, <1>3 DEF Offer, ReqType
  <2> QED
    BY <2>1 DEF HasTerminal
<1> QED
  BY <1>2, <1>3

(* A step that only ends the process.                                      *)
LEMMA FatesCrash ==
  ASSUME Fates, NEW s \in Sessions, NEW r \in Requests, UNCHANGED <<conn, clean, pending, req, peer>>,
         crash'.session = s, crash'.request = r, Blame(crash', req[r], clean[s])
  PROVE  Fates'
BY DEF Fates

(* Range comes to a request.                                               *)
LEMMA FatesPick ==
  ASSUME Types, Fates, NEW s \in Sessions, NEW r \in Requests, RangePick(s, r)
  PROVE  Fates'
<1>1. /\ UNCHANGED <<conn, pending, req, peer, crash>> /\ Up
      /\ clean[s].pc = "range" /\ clean[s].at = None /\ r \in pending[s] \ clean[s].seen
      /\ clean' = [clean EXCEPT ![s].at = r, ![s].seen = @ \cup {r}]
      /\ clean \in [Sessions -> CleanType]
      /\ r # None
  BY RelayAssumption DEF RangePick, Types, None
<1>2. /\ \A u \in Sessions \ {s} : clean'[u] = clean[u]
      /\ clean'[s] = [clean[s] EXCEPT !.at = r, !.seen = clean[s].seen \cup {r}]
  BY <1>1
<1>3. /\ clean'[s].at = r /\ clean'[s].seen = clean[s].seen \cup {r}
      /\ clean'[s].pc = "range" /\ clean'[s].by = clean[s].by
  BY <1>1, <1>2 DEF CleanType
<1>4. Cleaner(clean[s], conn[s]) /\ Fate(r, s, req[r], peer[r], conn[s].msg, pending[s], clean[s])
  BY DEF Fates
<1>5. /\ req' = [req EXCEPT ![r] = req[r]] /\ peer' = [peer EXCEPT ![r] = peer[r]]
  BY <1>1 DEF Types
<1>6. \A u \in Sessions : Cleaner(clean'[u], conn'[u])
  <2>1. Cleaner(clean'[s], conn[s])
    BY <1>1, <1>3, <1>4 DEF Cleaner, Open, Other
  <2> QED
    BY <1>1, <1>2, <2>1 DEF Fates
<1>7. /\ \A u \in Sessions : /\ ~Open(clean[u]) => ~Open(clean'[u])
                             /\ clean'[u].by = clean[u].by
      /\ \A t \in Requests \ {r}, u \in Sessions :
            /\ t \in clean'[u].seen <=> t \in clean[u].seen
            /\ clean'[u].at = t => clean[u].at = t
  BY <1>1, <1>2, <1>3 DEF Open
<1>8. Fate(r, s, req[r], peer[r], conn[s].msg, pending[s], clean'[s])
  <2>1. ~req[r].shut
    BY <1>1, <1>4 DEF Fate
  <2>2. HasTerminal(req[r]) \/ Left(req[r]) => Excused(req[r]) \/ Other(clean'[s])
    <3>1. (conn[s].msg.to = r /\ conn[s].msg.given) => Other(clean[s])
      BY <1>1, <1>4 DEF Cleaner, NoMsg, Open
    <3> QED
      BY <1>1, <1>3, <1>4, <3>1 DEF Fate, Other
  <2> QED
    BY <1>1, <1>3, <1>4, <2>1, <2>2 DEF Fate, Open
<1>9. \A u \in Sessions : Fate(r, u, req[r], peer[r], conn'[u].msg, pending'[u], clean'[u])
  BY <1>1, <1>2, <1>8 DEF Fates
<1>10. Up' /\ Early(req[r])
  BY <1>1 DEF Up, Fates
<1>11. \A t \in Requests \ {r}, u \in Sessions :
          /\ conn[u].msg.to = t \/ conn'[u].msg.to = t => conn'[u].msg = conn[u].msg
          /\ t \in pending'[u] <=> t \in pending[u]
          /\ t \in clean'[u].seen <=> t \in clean[u].seen
          /\ clean'[u].at = t => clean[u].at = t
  BY <1>1, <1>7
<1> QED
  BY <1>5, <1>6, <1>7, <1>9, <1>10, <1>11, FatesFrame

(* The clean-up comes to a request: it finds the channel shut, or shuts it. *)
LEMMA FatesVisit ==
  ASSUME Types, Fates, NEW s \in Sessions, RangeVisit(s)
  PROVE  Fates'
<1> DEFINE r == clean[s].at
           q == req[r]
           o == Offer(q, Word("error"))
           d == [o EXCEPT !.shut = TRUE]
<1>0. /\ clean \in [Sessions -> CleanType] /\ req \in [Requests -> ReqType]
      /\ Word("error") \in Body
      /\ \A t \in Requests : ReqOK(req[t])
  BY RelayAssumption DEF Types, Word, Body
<1>1. /\ UNCHANGED <<conn, pending, peer>> /\ Up /\ clean[s].pc = "range" /\ r # None
  BY DEF RangeVisit
<1>2. r \in Requests /\ ReqOK(q) /\ r # None
  BY <1>0, <1>1 DEF CleanType
<1>3. Cleaner(clean[s], conn[s]) /\ Fate(r, s, q, peer[r], conn[s].msg, pending[s], clean[s])
  BY <1>2 DEF Fates
<1>4. r \in clean[s].seen /\ q.sess = s /\ q.pc \notin {"idle", "store"}
  BY <1>2, <1>3 DEF Cleaner, Fate
<1>5. CASE /\ q.shut /\ UNCHANGED <<req, clean>>
           /\ crash' = [who |-> "range", session |-> s, request |-> r, reset |-> FALSE]
  <2>1. Excused(q) \/ Other(clean[s])
    BY <1>3, <1>5 DEF Fate
  <2>2. Blame(crash', q, clean[s]) /\ crash'.session = s /\ crash'.request = r
    BY <1>5, <2>1 DEF Blame
  <2> HIDE DEF r, q
  <2>3. Blame(crash', req[r], clean[s])
    BY <2>2 DEF q
  <2> QED
    BY <1>1, <1>2, <1>5, <2>2, <2>3, FatesCrash
<1>6. CASE /\ ~q.shut /\ req' = [req EXCEPT ![r] = [Offer(@, Word("error")) EXCEPT !.shut = TRUE]]
           /\ clean' = [clean EXCEPT ![s].at = None] /\ crash' = crash
  <2>1. /\ o.pc = q.pc /\ o.sess = q.sess /\ o.outcome = q.outcome /\ o \in ReqType
    BY <1>0, <1>2, OfferFate
  <2>2. req' = [req EXCEPT ![r] = d] /\ peer' = [peer EXCEPT ![r] = peer[r]]
    BY <1>0, <1>1, <1>2, <1>6 DEF Types
  <2> HIDE DEF o
  <2>3. d.pc = q.pc /\ d.sess = q.sess /\ d.outcome = q.outcome /\ d.shut
    BY <2>1 DEF ReqType
  <2>4. /\ \A u \in Sessions \ {s} : clean'[u] = clean[u]
        /\ clean'[s] = [clean[s] EXCEPT !.at = None]
    BY <1>0, <1>6
  <2>5. /\ clean'[s].at = None /\ clean'[s].seen = clean[s].seen /\ clean'[s].by = clean[s].by
        /\ clean'[s].pc = "range"
    BY <1>0, <1>1, <2>4 DEF CleanType
  <2> HIDE DEF d
  <2>6. \A u \in Sessions : Cleaner(clean'[u], conn'[u])
    <3>1. Cleaner(clean'[s], conn[s])
      BY <1>1, <1>3, <2>5 DEF Cleaner, Open, Other
    <3> QED
      BY <1>1, <2>4, <3>1 DEF Fates
  <2>7. Early(d)
    <3>1. Early(q)
      BY <1>2 DEF Fates
    <3> QED
      BY <1>4, <2>3, <3>1 DEF Early
  <2>8. Fate(r, s, d, peer[r], conn[s].msg, pending[s], clean'[s])
    BY <1>2, <1>4, <2>3, <2>5 DEF Fate, Open
  <2>9. ASSUME NEW u \in Sessions
        PROVE  Fate(r, u, d, peer[r], conn'[u].msg, pending'[u], clean'[u])
    <3>1. CASE u = s
      BY <1>1, <2>8, <3>1
    <3>2. CASE u # s
      <4>1. /\ Fate(r, u, q, peer[r], conn[u].msg, pending[u], clean[u])
            /\ Cleaner(clean[u], conn[u])
        BY <1>2 DEF Fates
      <4>2. r \notin pending[u] \cup clean[u].seen /\ (clean[u].at = r => r \in clean[u].seen)
        BY <1>2, <1>4, <3>2, <4>1 DEF Fate, Cleaner
      <4> HIDE DEF r, q
      <4>3. d.sess # u /\ r \notin pending'[u] \cup clean'[u].seen
            /\ (clean'[u].at = r => r \in clean'[u].seen)
        BY <1>1, <1>4, <2>3, <2>4, <3>2, <4>2
      <4> QED
        BY <4>3, FateElsewhere
    <3> QED
      BY <3>1, <3>2
  <2>10. Up'
    BY <1>1, <1>6 DEF Up
  <2>11. \A u \in Sessions : /\ ~Open(clean[u]) => ~Open(clean'[u])
                             /\ clean'[u].by = clean[u].by
    BY <1>1, <2>4, <2>5 DEF Open
  <2>12. \A t \in Requests \ {r}, u \in Sessions :
            /\ conn[u].msg.to = t \/ conn'[u].msg.to = t => conn'[u].msg = conn[u].msg
            /\ t \in pending'[u] <=> t \in pending[u]
            /\ t \in clean'[u].seen <=> t \in clean[u].seen
            /\ clean'[u].at = t => clean[u].at = t
    <3>1. \A t \in Requests : t # None
      BY RelayAssumption DEF None
    <3> HIDE DEF r
    <3> QED
      BY <1>1, <2>4, <2>5, <3>1
  <2> HIDE DEF r, q
  <2> QED
    BY <1>2, <2>2, <2>6, <2>7, <2>9, <2>10, <2>11, <2>12, FatesFrame
<1> QED
  BY <1>5, <1>6 DEF RangeVisit

(* The reader takes a message off the connection.                          *)
LEMMA FatesRead ==
  ASSUME Types, Streams, Fates, NEW s \in Sessions, NEW r \in Requests, Read(s, r)
  PROVE  Fates'
<1> DEFINE q == req[r]
           p == peer[r]
<1>0. /\ conn \in [Sessions -> ConnType] /\ peer \in [Requests -> PeerType]
      /\ req \in [Requests -> ReqType] /\ s # None /\ r # None
  BY RelayAssumption DEF Types, None
<1>1. PICK m \in Messages(r) :
        /\ peer' = [peer EXCEPT ![r] = IF Terminal(m) THEN [p EXCEPT !.end = m.kind]
                                       ELSE [p EXCEPT !.sent = m.num]]
        /\ \/ /\ conn' = IF r \in pending[s]
                         THEN [conn EXCEPT ![s].msg = [to |-> r, body |-> m, given |-> FALSE]]
                         ELSE conn
              /\ UNCHANGED crash
           \/ /\ Racing(s)
              /\ crash' = [who |-> "dispatch", session |-> s, request |-> r, reset |-> TRUE]
              /\ UNCHANGED conn
  BY DEF Read
<1>2. /\ Up /\ conn[s].reader = "read" /\ conn[s].msg = NoMsg /\ p.at = s
      /\ UNCHANGED <<clean, pending, req>>
  BY DEF Read, Reading
<1>3. q.sess = s /\ p.end = None
  BY <1>0, <1>1, <1>2 DEF Streams, Messages
<1> DEFINE e == IF Terminal(m) THEN [p EXCEPT !.end = m.kind] ELSE [p EXCEPT !.sent = m.num]
<1>4. e.at = s
  BY <1>0, <1>2 DEF PeerType
<1>5. req' = [req EXCEPT ![r] = q] /\ peer' = [peer EXCEPT ![r] = e]
  BY <1>0, <1>1, <1>2
<1> HIDE DEF e
<1>6. /\ \A u \in Sessions \ {s} : conn'[u] = conn[u]
      /\ conn'[s].reader = "read" /\ conn'[s].pc = conn[s].pc
      /\ conn'[s].msg = NoMsg \/ (conn'[s].msg.to = r /\ ~conn'[s].msg.given)
  <2>1. CASE conn' = conn
    BY <1>2, <2>1
  <2>2. CASE conn' = [conn EXCEPT ![s].msg = [to |-> r, body |-> m, given |-> FALSE]]
    BY <1>0, <1>2, <2>2 DEF ConnType
  <2> QED
    BY <1>1, <2>1, <2>2
<1>7. Cleaner(clean[s], conn[s]) /\ Fate(r, s, q, p, conn[s].msg, pending[s], clean[s]) /\ Early(q)
  BY DEF Fates
<1>8. \A u \in Sessions : Cleaner(clean'[u], conn'[u])
  <2>1. Cleaner(clean[s], conn'[s])
    BY <1>2, <1>6, <1>7 DEF Cleaner
  <2> QED
    BY <1>2, <1>6, <2>1 DEF Fates
<1>9. Fate(r, s, q, e, conn'[s].msg, pending[s], clean[s])
  <2>1. Unfinished(r, q, p, conn[s].msg)
    BY <1>0, <1>2, <1>3 DEF Unfinished
  <2>2. ~(conn[s].msg.to = r /\ conn[s].msg.given)
    BY <1>2 DEF NoMsg
  <2> QED
    BY <1>7, <2>1, <2>2 DEF Fate
<1>10. ASSUME NEW u \in Sessions
       PROVE  Fate(r, u, q, e, conn'[u].msg, pending'[u], clean'[u])
  <2>1. CASE u = s
    BY <1>2, <1>9, <2>1
  <2>2. CASE u # s
    <3>1. Fate(r, u, q, p, conn[u].msg, pending[u], clean[u]) /\ Cleaner(clean[u], conn[u])
      BY DEF Fates
    <3>2. r \notin pending[u] \cup clean[u].seen /\ (clean[u].at = r => r \in clean[u].seen)
      BY <1>0, <1>3, <2>2, <3>1 DEF Fate, Cleaner
    <3> HIDE DEF q
    <3> QED
      BY <1>2, <1>3, <2>2, <3>2, FateElsewhere
  <2> QED
    BY <2>1, <2>2
<1>11. ~Up' => /\ crash'.session \in Sessions /\ crash'.request = r
               /\ Blame(crash', q, clean'[crash'.session])
  <2>1. CASE crash' = crash
    BY <1>2, <2>1 DEF Up
  <2>2. CASE /\ Racing(s)
             /\ crash' = [who |-> "dispatch", session |-> s, request |-> r, reset |-> TRUE]
    <3>1. Other(clean[s])
      BY <1>2, <1>7, <2>2 DEF Racing, Cleaner, Open
    <3> QED
      BY <1>2, <2>2, <3>1 DEF Blame
  <2> QED
    BY <1>1, <2>1, <2>2
<1>12. \A t \in Requests \ {r}, u \in Sessions :
          /\ conn[u].msg.to = t \/ conn'[u].msg.to = t => conn'[u].msg = conn[u].msg
          /\ t \in pending'[u] <=> t \in pending[u]
          /\ t \in clean'[u].seen <=> t \in clean[u].seen
          /\ clean'[u].at = t => clean[u].at = t
  <2>1. \A t \in Requests : t # None
    BY RelayAssumption DEF None
  <2>2. NoMsg.to = None
    BY DEF NoMsg
  <2> QED
    BY <1>2, <1>6, <2>1, <2>2
<1>13. \A u \in Sessions : /\ ~Open(clean[u]) => ~Open(clean'[u])
                           /\ clean'[u].by = clean[u].by
  BY <1>2
<1> HIDE DEF q
<1> QED
  BY <1>5, <1>7, <1>8, <1>10, <1>11, <1>12, <1>13, FatesFrame

(* The reader of s goes on from its message c to request r, whose state is *)
(* now d; no other request is touched.                                     *)
ReaderMoves(s, r, d, c) ==
  /\ Reading(s) /\ Up
  /\ r \in Requests /\ r = conn[s].msg.to
  /\ conn' = [conn EXCEPT ![s].msg = c] /\ req' = [req EXCEPT ![r] = d]
  /\ UNCHANGED <<clean, peer, crash>>
  /\ c = NoMsg \/ c.to = r
  /\ d.pc = req[r].pc /\ d.sess = req[r].sess /\ d.outcome = req[r].outcome
  /\ pending' \in [Sessions -> SUBSET Requests]
  /\ \A u \in Sessions, t \in Requests :
        (t # r \/ u # s) => (t \in pending'[u] <=> t \in pending[u])
  /\ Fate(r, s, d, peer[r], c, pending'[s], clean[s])

(* A step of the reader about the message it has in hand.                  *)
LEMMA FatesReader ==
  ASSUME Types, Streams, Fates, NEW s \in Sessions, NEW r, NEW d, NEW c,
         ReaderMoves(s, r, d, c)
  PROVE  Fates'
<1> USE DEF ReaderMoves
<1>0. /\ conn \in [Sessions -> ConnType] /\ peer \in [Requests -> PeerType]
      /\ req \in [Requests -> ReqType] /\ s # None /\ r # None
  BY RelayAssumption DEF Types, None
<1>1. peer' = [peer EXCEPT ![r] = peer[r]]
  BY <1>0
<1>2. peer[r].at = s /\ req[r].sess = s /\ req[r].pc \in {"wait", "done"}
  BY <1>0 DEF Streams
<1>3. /\ \A u \in Sessions \ {s} : conn'[u] = conn[u]
      /\ conn'[s].msg = c /\ conn'[s].reader = conn[s].reader /\ conn'[s].pc = conn[s].pc
  BY <1>0 DEF ConnType
<1>4. Cleaner(clean[s], conn[s]) /\ Early(req[r])
  BY DEF Fates
<1>5. \A u \in Sessions : Cleaner(clean'[u], conn'[u])
  <2>1. Cleaner(clean[s], conn'[s])
    BY <1>3, <1>4 DEF Cleaner, Reading
  <2> QED
    BY <1>3, <2>1 DEF Fates
<1>6. Early(d)
  BY <1>2, <1>4 DEF Early
<1>7. ASSUME NEW u \in Sessions
      PROVE  Fate(r, u, d, peer[r], conn'[u].msg, pending'[u], clean'[u])
  <2>1. CASE u = s
    BY <1>3, <2>1
  <2>2. CASE u # s
    <3>1. Fate(r, u, req[r], peer[r], conn[u].msg, pending[u], clean[u]) /\ Cleaner(clean[u], conn[u])
      BY DEF Fates
    <3>2. r \notin pending[u] \cup clean[u].seen /\ (clean[u].at = r => r \in clean[u].seen)
      BY <1>0, <1>2, <2>2, <3>1 DEF Fate, Cleaner
    <3>3. r \notin pending'[u] \cup clean'[u].seen /\ (clean'[u].at = r => r \in clean'[u].seen)
      BY <2>2, <3>2
    <3> QED
      BY <1>2, <2>2, <3>3, FateElsewhere
  <2> QED
    BY <2>1, <2>2
<1>8. Up'
  BY DEF Up
<1>9. \A t \in Requests \ {r}, u \in Sessions :
          /\ conn[u].msg.to = t \/ conn'[u].msg.to = t => conn'[u].msg = conn[u].msg
          /\ t \in pending'[u] <=> t \in pending[u]
          /\ t \in clean'[u].seen <=> t \in clean[u].seen
          /\ clean'[u].at = t => clean[u].at = t
  <2>1. \A t \in Requests : t # None
    BY RelayAssumption DEF None
  <2>2. NoMsg.to = None
    BY DEF NoMsg
  <2> QED
    BY <1>3, <2>1, <2>2
<1>10. \A u \in Sessions : /\ ~Open(clean[u]) => ~Open(clean'[u])
                           /\ clean'[u].by = clean[u].by
  OBVIOUS
<1> QED
  BY <1>1, <1>5, <1>6, <1>7, <1>8, <1>9, <1>10, FatesFrame

(* It delivers the message, but not into a channel that is shut.           *)
LEMMA FatesDeliver ==
  ASSUME Types, Streams, Fates, NEW s \in Sessions, Deliver(s)
  PROVE  Fates'
<1> DEFINE r == conn[s].msg.to
           m == conn[s].msg.body
           q == req[r]
           p == peer[r]
           d == Offer(q, m)
           c == IF Terminal(m) THEN [conn[s].msg EXCEPT !.given = TRUE] ELSE NoMsg
<1>0. /\ conn \in [Sessions -> ConnType] /\ req \in [Requests -> ReqType]
      /\ r \in Requests /\ ReqOK(q) /\ m \in Body /\ r # None /\ s # None
      /\ conn[s].msg \in [to : Requests \cup {None}, body : Body, given : BOOLEAN]
  <2>1. /\ conn \in [Sessions -> ConnType] /\ req \in [Requests -> ReqType]
        /\ r \in Requests /\ \A t \in Requests : ReqOK(req[t]) /\ t # None /\ s # None
    BY RelayAssumption DEF Deliver, Types, None
  <2>2. conn[s].msg \in [to : Requests \cup {None}, body : Body, given : BOOLEAN]
    BY <2>1 DEF ConnType
  <2> QED
    BY <2>1, <2>2
<1>1. /\ Up /\ Reading(s) /\ ~conn[s].msg.given /\ UNCHANGED <<clean, pending, peer>>
      /\ \/ /\ q.shut /\ UNCHANGED <<conn, req>>
            /\ crash' = [who |-> "dispatch", session |-> s, request |-> r, reset |-> FALSE]
         \/ /\ ~q.shut /\ req' = [req EXCEPT ![r] = d] /\ conn' = [conn EXCEPT ![s].msg = c]
            /\ crash' = crash
  <2>1. [conn EXCEPT ![s].msg.given = TRUE] =
          [conn EXCEPT ![s].msg = [conn[s].msg EXCEPT !.given = TRUE]]
    OBVIOUS
  <2> QED
    BY <2>1 DEF Deliver
<1>2. /\ Cleaner(clean[s], conn[s]) /\ Fate(r, s, q, p, conn[s].msg, pending[s], clean[s])
      /\ conn[s].reader = "read"
  BY <1>0, <1>1 DEF Fates, Cleaner, Reading
<1>3. p.at = s /\ q.sess = s /\ q.pc \in {"wait", "done"} /\ InFlight(q, p, conn[s].msg)
  BY <1>0 DEF Streams
<1>4. CASE /\ q.shut /\ UNCHANGED <<conn, req>>
           /\ crash' = [who |-> "dispatch", session |-> s, request |-> r, reset |-> FALSE]
  <2>1. Unfinished(r, q, p, conn[s].msg)
    BY <1>1 DEF Unfinished
  <2>2. q.cancelled = "waiting" \/ Other(clean[s])
    BY <1>2, <1>3, <1>4, <2>1 DEF Fate, Cleaner
  <2>3. Blame(crash', q, clean[s]) /\ crash'.session = s /\ crash'.request = r
    BY <1>4, <2>2 DEF Blame
  <2> HIDE DEF r
  <2>4. Blame(crash', req[r], clean[s])
    BY <2>3
  <2> HIDE DEF q
  <2> QED
    BY <1>0, <1>1, <1>4, <2>3, <2>4, FatesCrash
<1>5. CASE /\ ~q.shut /\ req' = [req EXCEPT ![r] = d] /\ conn' = [conn EXCEPT ![s].msg = c]
           /\ crash' = crash
  <2>1. /\ d.pc = q.pc /\ d.sess = q.sess /\ d.shut = q.shut /\ d.outcome = q.outcome
        /\ d.watch = q.watch /\ d.cancelled = q.cancelled
        /\ HasTerminal(d) => HasTerminal(q) \/ Terminal(m)
    BY <1>0, OfferFate
  <2>2. \/ Terminal(m) /\ c.to = r /\ c.given
        \/ ~Terminal(m) /\ c = NoMsg
    BY <1>0
  <2> HIDE DEF d, c
  <2>3. Terminal(m) => p.end # None
    BY <1>3 DEF InFlight
  <2>4. NoMsg.to = None
    BY DEF NoMsg
  <2>5. Unfinished(r, d, p, c) => Unfinished(r, q, p, conn[s].msg) /\ ~Terminal(m)
    BY <1>0, <2>1, <2>2, <2>3, <2>4 DEF Unfinished
  <2>6. (Unfinished(r, d, p, c) /\ (d.shut \/ d.pc = "done" \/ HasTerminal(d))) =>
            d.cancelled = "waiting" \/ ~Open(clean[s])
    BY <1>2, <1>3, <2>1, <2>5 DEF Fate
  <2>7. (r \in pending[s] \ clean[s].seen /\ (HasTerminal(d) \/ Left(d))) =>
           Excused(d) \/ (c.to = r /\ c.given)
    BY <1>1, <1>2, <2>1, <2>2 DEF Fate, Excused, Left
  <2>8. clean[s].at = r => Other(clean[s])
    BY <1>0, <1>2 DEF Cleaner, Open
  <2>9. Fate(r, s, d, p, c, pending'[s], clean[s])
    <3>1. r \in pending[s] \cup clean[s].seen => d.sess = s /\ d.pc \notin {"idle", "store"}
      BY <1>3, <2>1
    <3>2. d.outcome = "panic" => ~Open(clean[s])
      BY <1>2, <1>3, <2>1 DEF Fate
    <3> QED
      BY <1>1, <1>3, <1>5, <2>1, <2>6, <2>7, <2>8, <3>1, <3>2 DEF Fate
  <2>10. pending' \in [Sessions -> SUBSET Requests]
         /\ \A u \in Sessions, t \in Requests : t \in pending'[u] <=> t \in pending[u]
    BY <1>1 DEF Types
  <2> HIDE DEF m, r
  <2>11. d.pc = req[r].pc /\ d.sess = req[r].sess /\ d.outcome = req[r].outcome
    BY <2>1
  <2>12. Fate(r, s, d, peer[r], c, pending'[s], clean[s]) /\ (c = NoMsg \/ c.to = r) /\ r = conn[s].msg.to
    BY <2>2, <2>9 DEF r
  <2> HIDE DEF q, p
  <2> QED
    <3>1. ReaderMoves(s, r, d, c)
      BY <1>0, <1>1, <1>5, <2>10, <2>11, <2>12 DEF ReaderMoves
    <3> QED
      BY <3>1, FatesReader
<1> QED
  BY <1>1, <1>4, <1>5

(* It retires the request of the last message.                             *)
LEMMA FatesRetire ==
  ASSUME Types, Streams, Fates, NEW s \in Sessions, Retire(s)
  PROVE  Fates'
<1> DEFINE r == conn[s].msg.to
           q == req[r]
           p == peer[r]
           d == [q EXCEPT !.shut = @ \/ r \in pending[s]]
<1>0. /\ conn \in [Sessions -> ConnType] /\ req \in [Requests -> ReqType]
      /\ pending \in [Sessions -> SUBSET Requests]
      /\ r \in Requests /\ q \in ReqType /\ r # None /\ s # None
  BY RelayAssumption DEF Retire, Types, None
<1>1. /\ Up /\ Reading(s) /\ conn[s].msg.given /\ UNCHANGED <<clean, peer>>
      /\ \/ /\ Racing(s) /\ UNCHANGED <<conn, pending, req>>
            /\ crash' = [who |-> "dispatch", session |-> s, request |-> r, reset |-> TRUE]
         \/ /\ req' = [req EXCEPT ![r] = d] /\ conn' = [conn EXCEPT ![s].msg = NoMsg]
            /\ pending' = [pending EXCEPT ![s] = @ \ {r}] /\ crash' = crash
  BY DEF Retire, Drop
<1>2. /\ Cleaner(clean[s], conn[s]) /\ Fate(r, s, q, p, conn[s].msg, pending[s], clean[s])
      /\ conn[s].reader = "read"
  BY <1>0, <1>1 DEF Fates, Cleaner, Reading
<1>3. p.at = s /\ q.sess = s /\ q.pc \in {"wait", "done"} /\ p.end # None
  <2>1. p.at = s /\ InFlight(q, p, conn[s].msg)
    BY <1>0 DEF Streams
  <2>2. p.at # None => p.at = q.sess /\ q.pc \in {"wait", "done"}
    BY <1>0 DEF Streams
  <2> HIDE DEF q, p
  <2> QED
    BY <1>0, <1>1, <2>1, <2>2 DEF InFlight
<1>4. CASE /\ Racing(s) /\ UNCHANGED <<conn, pending, req>>
           /\ crash' = [who |-> "dispatch", session |-> s, request |-> r, reset |-> TRUE]
  <2>1. Other(clean[s])
    BY <1>2, <1>4 DEF Racing, Cleaner, Open
  <2>2. \A x : Blame(crash', x, clean[s])
    BY <1>4, <2>1 DEF Blame
  <2>3. crash'.session = s /\ crash'.request = r
    BY <1>4
  <2> HIDE DEF r
  <2> QED
    BY <1>0, <1>1, <1>4, <2>2, <2>3, FatesCrash
<1>5. CASE /\ req' = [req EXCEPT ![r] = d] /\ conn' = [conn EXCEPT ![s].msg = NoMsg]
           /\ pending' = [pending EXCEPT ![s] = @ \ {r}] /\ crash' = crash
  <2>1. /\ d.pc = q.pc /\ d.sess = q.sess /\ d.outcome = q.outcome
    BY <1>0 DEF ReqType
  <2> HIDE DEF d
  <2>2. ~Unfinished(r, d, p, NoMsg)
    BY <1>0, <1>3 DEF Unfinished, NoMsg
  <2>3. clean[s].at = r => Other(clean[s])
    BY <1>0, <1>2 DEF Cleaner, Open
  <2>4. r \notin pending'[s]
    BY <1>0, <1>5
  <2>5. Fate(r, s, d, p, NoMsg, pending'[s], clean[s])
    <3>1. r \in pending'[s] \cup clean[s].seen => d.sess = s /\ d.pc \notin {"idle", "store"}
      BY <1>3, <2>1
    <3>2. d.outcome = "panic" => ~Open(clean[s])
      BY <1>2, <1>3, <2>1 DEF Fate
    <3> QED
      BY <1>3, <2>1, <2>2, <2>3, <2>4, <3>1, <3>2 DEF Fate
  <2> HIDE DEF r
  <2>6. pending' \in [Sessions -> SUBSET Requests]
         /\ \A u \in Sessions, t \in Requests :
              (t # r \/ u # s) => (t \in pending'[u] <=> t \in pending[u])
    BY <1>0, <1>5
  <2>7. d.pc = req[r].pc /\ d.sess = req[r].sess /\ d.outcome = req[r].outcome
    BY <2>1
  <2>8. Fate(r, s, d, peer[r], NoMsg, pending'[s], clean[s]) /\ r = conn[s].msg.to
    BY <2>5 DEF r
  <2>9. req' = [req EXCEPT ![r] = d] /\ conn' = [conn EXCEPT ![s].msg = NoMsg]
        /\ UNCHANGED <<clean, peer, crash>> /\ Up /\ Reading(s)
    BY <1>1, <1>5
  <2>10. r \in Requests
    BY <1>0
  <2> HIDE DEF q, p
  <2> QED
    <3>1. ReaderMoves(s, r, d, NoMsg)
      BY ONLY <2>6, <2>7, <2>8, <2>9, <2>10 DEF ReaderMoves
    <3> QED
      BY ONLY Types, Streams, Fates, s \in Sessions, <3>1, FatesReader
<1> QED
  BY <1>1, <1>4, <1>5

(* A step of the caller of r, or of its watcher, by the session of r.      *)
LEMMA FatesCaller ==
  ASSUME Types, Fates, Up, NEW r \in Requests, NEW d, NEW e,
         req' = [req EXCEPT ![r] = d], peer' = [peer EXCEPT ![r] = e],
         UNCHANGED <<conn, clean, crash>>, Early(d),
         \A t \in Requests \ {r}, s \in Sessions : t \in pending'[s] <=> t \in pending[s],
         \A s \in Sessions : d.sess # s => r \notin pending'[s] \cup clean[s].seen,
         \A s \in Sessions : d.sess = s => Fate(r, s, d, e, conn[s].msg, pending'[s], clean[s])
  PROVE  Fates'
<1>1. ASSUME NEW s \in Sessions
      PROVE  Fate(r, s, d, e, conn'[s].msg, pending'[s], clean'[s])
  <2>1. CASE d.sess = s
    BY <2>1
  <2>2. CASE d.sess # s
    <3>1. Cleaner(clean[s], conn[s]) /\ r # None
      BY RelayAssumption DEF Fates, None
    <3>2. clean[s].at = r => r \in clean[s].seen
      BY <3>1 DEF Cleaner
    <3> QED
      BY <2>2, <3>2, FateElsewhere
  <2> QED
    BY <2>1, <2>2
<1>2. \A s \in Sessions : Cleaner(clean'[s], conn'[s])
  BY DEF Fates
<1>3. Up'
  BY DEF Up
<1>4. \A t \in Requests \ {r}, u \in Sessions :
          /\ conn[u].msg.to = t \/ conn'[u].msg.to = t => conn'[u].msg = conn[u].msg
          /\ t \in pending'[u] <=> t \in pending[u]
          /\ t \in clean'[u].seen <=> t \in clean[u].seen
          /\ clean'[u].at = t => clean[u].at = t
  OBVIOUS
<1>5. \A u \in Sessions : /\ ~Open(clean[u]) => ~Open(clean'[u])
                          /\ clean'[u].by = clean[u].by
  OBVIOUS
<1> QED
  BY <1>1, <1>2, <1>3, <1>4, <1>5, FatesFrame

(* A caller that goes on, its channel and its watcher as they were.        *)
LEMMA FateGoesOn ==
  ASSUME NEW r, NEW s, NEW q, NEW p, NEW m, NEW held, NEW k, Fate(r, s, q, p, m, held, k),
         Waiting(q), NEW d, NEW e, d.sess = s, q.sess = s,
         d.ch = q.ch, d.shut = q.shut, d.cancelled = q.cancelled, d.outcome = q.outcome,
         d.pc \notin {"idle", "store", "load", "done"}, q.pc # "done", e.end = p.end
  PROVE  Fate(r, s, d, e, m, held, k)
<1>1. ~Left(d)
  BY DEF Left
<1>2. HasTerminal(d) <=> HasTerminal(q)
  BY DEF HasTerminal
<1>3. Unfinished(r, d, e, m) => Unfinished(r, q, p, m)
  BY DEF Unfinished
<1>4. Excused(d) <=> Excused(q)
  BY DEF Excused
<1>5. r \in held \cup k.seen => d.sess = s /\ d.pc \notin {"idle", "store"}
  OBVIOUS
<1>6. /\ (Unfinished(r, d, e, m) /\ (d.shut \/ d.pc = "done" \/ HasTerminal(d))) =>
            d.cancelled = "waiting" \/ ~Open(k)
      /\ d.outcome = "panic" => ~Open(k)
  BY <1>2, <1>3 DEF Fate
<1>7. (r \in held \ k.seen /\ (HasTerminal(d) \/ Left(d))) => Excused(d) \/ (m.to = r /\ m.given)
  BY <1>1, <1>2, <1>4 DEF Fate
<1>8. (k.at = r /\ (d.shut \/ HasTerminal(d) \/ Left(d))) => Excused(d) \/ Other(k)
  BY <1>1, <1>2, <1>4 DEF Fate
<1>9. r \in held /\ d.shut => r \in k.seen /\ k.at # r
  BY DEF Fate
<1> QED
  BY <1>5, <1>6, <1>7, <1>8, <1>9 DEF Fate

(* A caller that returns while it waits, because of what its channel held  *)
(* or with an excuse.                                                      *)
LEMMA FateReturns ==
  ASSUME NEW r, NEW s, NEW q, NEW p, NEW m, NEW held, NEW k, Fate(r, s, q, p, m, held, k),
         Waiting(q), NEW d,
         d.sess = s, q.sess = s, d.shut = q.shut, d.cancelled = q.cancelled,
         q.pc = "wait", d.pc = "done", d.outcome # "panic",
         HasTerminal(q) \/ q.shut \/ q.cancelled = "waiting"
  PROVE  Fate(r, s, d, p, m, held, k)
<1>1. Excused(q) => Excused(d)
  BY DEF Excused, Waiting, None
<1>2. Unfinished(r, d, p, m) => Unfinished(r, q, p, m)
  BY DEF Unfinished
<1>3. r \in held \cup k.seen => d.sess = s /\ d.pc \notin {"idle", "store"}
  OBVIOUS
<1>4. Unfinished(r, d, p, m) => d.cancelled = "waiting" \/ ~Open(k)
  BY <1>2 DEF Fate
<1>5. r \in held /\ d.shut => r \in k.seen /\ k.at # r
  BY DEF Fate
<1>6. r \in held \ k.seen => Excused(d) \/ (m.to = r /\ m.given)
  BY <1>1 DEF Fate, Excused
<1>7. k.at = r => Excused(d) \/ Other(k)
  BY <1>1 DEF Fate, Excused
<1> QED
  BY <1>3, <1>4, <1>5, <1>6, <1>7 DEF Fate

(* The caller until its request is sent.                                   *)
LEMMA FatesSending ==
  ASSUME Types, Streams, Fates, NEW r \in Requests,
         CallerSend(r) \/ CallerPanics(r) \/ CallerStore(r) \/ CallerLoad(r) \/ CallerCheck(r)
         \/ CallerWrite(r) \/ CallerDrop(r)
  PROVE  Fates'
<1> DEFINE q == req[r]
           p == peer[r]
<1>0. /\ req \in [Requests -> ReqType] /\ peer \in [Requests -> PeerType]
      /\ pending \in [Sessions -> SUBSET Requests]
      /\ q \in ReqType /\ p \in PeerType /\ ReqOK(q) /\ r # None /\ \A s \in Sessions : s # None
  BY RelayAssumption DEF Types, None
<1>1. Up /\ UNCHANGED <<conn, clean, crash>>
  BY DEF CallerSend, CallerPanics, CallerStore, CallerLoad, CallerCheck, CallerWrite, CallerDrop,
         callerElse
<1>2. Early(q) /\ Waiting(q) /\ (p.at # None => q.pc \in {"wait", "done"})
  BY DEF Fates, Streams
<1>3. \A s \in Sessions : /\ Fate(r, s, q, p, conn[s].msg, pending[s], clean[s])
                          /\ q.sess # s => r \notin pending[s] \cup clean[s].seen
                          /\ Cleaner(clean[s], conn[s])
  <2>1. \A s \in Sessions : /\ Fate(r, s, q, p, conn[s].msg, pending[s], clean[s])
                            /\ Cleaner(clean[s], conn[s])
    BY DEF Fates
  <2> QED
    BY <2>1 DEF Fate
<1>4. ~Left(q) \/ q.pc = "done"
  BY DEF Left
<1>5. \A s \in Sessions : conn[s].msg.to = r => q.pc \in {"wait", "done"}
  BY <1>0, <1>2 DEF Streams
<1>6. CASE CallerSend(r)
  <2>1. q.pc = "idle" /\ pending' = pending /\ peer' = peer
        /\ q.sess = None /\ q.ch = <<>> /\ ~q.shut /\ q.outcome = None /\ ~q.watch
    BY <1>2, <1>6 DEF CallerSend, callerElse, Early, Waiting
  <2>2. PICK d : /\ req' = [req EXCEPT ![r] = d]
                 /\ d.ch = <<>> /\ ~d.shut /\ ~d.watch
                 /\ \/ d.pc = "store" /\ d.outcome = None /\ d.sess \in Sessions
                    \/ d.pc = "done" /\ d.outcome = "error" /\ d.sess = None
    <3>1. PICK s \in Sessions, b \in BOOLEAN :
             req' = [req EXCEPT ![r] = IF s \in sessions
                                       THEN [q EXCEPT !.pc = "store", !.sess = s, !.stream = b]
                                       ELSE Return([q EXCEPT !.stream = b], "error")]
      BY <1>6 DEF CallerSend
    <3>2. CASE s \in sessions
      <4> DEFINE d == [q EXCEPT !.pc = "store", !.sess = s, !.stream = b]
      <4>1. /\ d.ch = <<>> /\ ~d.shut /\ ~d.watch /\ d.pc = "store" /\ d.outcome = None /\ d.sess = s
        BY <1>0, <2>1 DEF ReqType
      <4>2. req' = [req EXCEPT ![r] = d]
        BY <3>1, <3>2
      <4> HIDE DEF d
      <4> QED
        BY <4>1, <4>2
    <3>3. CASE s \notin sessions
      <4> DEFINE d == Return([q EXCEPT !.stream = b], "error")
      <4>1. /\ d.ch = <<>> /\ ~d.shut /\ ~d.watch /\ d.pc = "done" /\ d.outcome = "error"
            /\ d.sess = None
        BY <1>0, <2>1 DEF ReqType, Return
      <4>2. req' = [req EXCEPT ![r] = d]
        BY <3>1, <3>3
      <4> HIDE DEF d
      <4> QED
        BY <4>1, <4>2
    <3> QED
      BY <3>2, <3>3
  <2>3. Early(d) /\ peer' = [peer EXCEPT ![r] = p]
    BY <1>0, <2>1, <2>2 DEF Early, None
  <2>4. \A s \in Sessions : r \notin pending[s] \cup clean[s].seen
    BY <1>0, <1>3, <2>1
  <2>5. ASSUME NEW s \in Sessions, d.sess = s
        PROVE  Fate(r, s, d, p, conn[s].msg, pending'[s], clean[s])
    <3>1. d.pc = "store" /\ d.outcome = None
      BY <1>0, <2>2, <2>5
    <3>2. ~HasTerminal(d)
      BY <2>2 DEF HasTerminal
    <3>3. clean[s].at # r
      BY <1>0, <1>3, <2>4 DEF Cleaner
    <3> QED
      BY <2>1, <2>2, <2>4, <3>1, <3>2, <3>3 DEF Fate, None
  <2> HIDE DEF p, q
  <2> QED
    BY <1>1, <2>1, <2>2, <2>3, <2>4, <2>5, FatesCaller
<1>7. CASE CallerPanics(r)
  <2> DEFINE d == Return(q, "panic")
  <2>1. /\ q.pc \in {"store", "load", "drop"} /\ clean[q.sess].pc = "reset"
        /\ pending' = pending /\ peer' = peer /\ req' = [req EXCEPT ![r] = d]
    BY <1>7 DEF CallerPanics, callerElse, Racing
  <2>2. /\ d.pc = "done" /\ d.outcome = "panic" /\ d.sess = q.sess /\ d.ch = q.ch /\ d.shut = q.shut
        /\ d.watch = q.watch /\ d.cancelled = q.cancelled
    BY <1>0 DEF ReqType, Return
  <2>3. q.sess \in Sessions /\ ~q.watch /\ q.outcome = None
    BY <1>0, <1>2, <2>1 DEF ReqOK, Waiting
  <2> HIDE DEF d
  <2>4. Early(d) /\ peer' = [peer EXCEPT ![r] = p]
    BY <1>0, <2>1, <2>2, <2>3 DEF Early
  <2>5. ASSUME NEW s \in Sessions, d.sess = s
        PROVE  Fate(r, s, d, p, conn[s].msg, pending'[s], clean[s])
    <3>1. ~Open(clean[s]) /\ ~Left(d) /\ q.sess = s
      BY <2>1, <2>2, <2>3, <2>5 DEF Open, Left
    <3>2. (HasTerminal(d) <=> HasTerminal(q)) /\ (Excused(q) => Excused(d))
      BY <2>2, <2>3 DEF HasTerminal, Excused, None
    <3>3. Fate(r, s, q, p, conn[s].msg, pending[s], clean[s])
      BY <1>3
    <3> QED
      BY <2>1, <2>2, <3>1, <3>2, <3>3 DEF Fate
  <2>6. \A s \in Sessions : d.sess # s => r \notin pending'[s] \cup clean[s].seen
    BY <1>3, <2>1, <2>2
  <2> HIDE DEF p, q
  <2> QED
    BY <1>1, <2>1, <2>4, <2>5, <2>6, FatesCaller
<1>8. CASE CallerStore(r)
  <2> DEFINE d == [q EXCEPT !.pc = "load"]
  <2>1. /\ q.pc = "store" /\ peer' = peer /\ req' = [req EXCEPT ![r] = d]
        /\ pending' = [pending EXCEPT ![q.sess] = @ \cup {r}]
    BY <1>8 DEF CallerStore, callerElse
  <2>2. /\ d.pc = "load" /\ d.outcome = q.outcome /\ d.sess = q.sess /\ d.ch = q.ch /\ d.shut = q.shut
        /\ d.watch = q.watch /\ d.cancelled = q.cancelled
    BY <1>0 DEF ReqType
  <2>3. q.sess \in Sessions /\ ~q.watch /\ q.outcome = None /\ q.ch = <<>> /\ ~q.shut
    BY <1>0, <1>2, <2>1 DEF ReqOK, Waiting, Early
  <2> HIDE DEF d
  <2>4. Early(d) /\ peer' = [peer EXCEPT ![r] = p]
    BY <1>0, <2>1, <2>2, <2>3 DEF Early
  <2>5. /\ \A s \in Sessions \ {q.sess} : pending'[s] = pending[s]
        /\ pending'[q.sess] = pending[q.sess] \cup {r}
    BY <1>0, <2>1, <2>3
  <2>6. ASSUME NEW s \in Sessions, d.sess = s
        PROVE  Fate(r, s, d, p, conn[s].msg, pending'[s], clean[s])
    <3>1. ~HasTerminal(d) /\ ~Left(d) /\ r \in pending'[s]
      BY <2>2, <2>3, <2>5, <2>6 DEF HasTerminal, Left
    <3>2. clean[s].at # r
      BY <1>0, <1>3, <2>1 DEF Fate, Cleaner
    <3> QED
      BY <2>2, <2>3, <2>6, <3>1, <3>2 DEF Fate, None
  <2>7. \A s \in Sessions : d.sess # s => r \notin pending'[s] \cup clean[s].seen
    BY <1>3, <2>2, <2>5
  <2>8. \A t \in Requests \ {r}, s \in Sessions : t \in pending'[s] <=> t \in pending[s]
    BY <2>5
  <2> HIDE DEF p, q
  <2> QED
    BY <1>1, <2>1, <2>4, <2>6, <2>7, <2>8, FatesCaller
<1>9. CASE CallerLoad(r)
  <2>1. /\ q.pc = "load" /\ peer' = peer /\ pending' = pending
        /\ req' = [req EXCEPT ![r] = IF r \in pending[q.sess] THEN [q EXCEPT !.pc = "check"]
                                     ELSE Return(q, "panic")]
    BY <1>9 DEF CallerLoad, callerElse
  <2>2. q.sess \in Sessions /\ ~q.watch /\ q.outcome = None
    BY <1>0, <1>2, <2>1 DEF ReqOK, Waiting
  <2>3. PICK d : /\ req' = [req EXCEPT ![r] = d]
                 /\ d.sess = q.sess /\ d.ch = q.ch /\ d.shut = q.shut
                 /\ d.watch = q.watch /\ d.cancelled = q.cancelled
                 /\ \/ d.pc = "check" /\ d.outcome = q.outcome
                    \/ r \notin pending[q.sess] /\ d.pc = "done" /\ d.outcome = "panic"
    <3>1. CASE r \in pending[q.sess]
      <4> DEFINE d == [q EXCEPT !.pc = "check"]
      <4>1. /\ d.sess = q.sess /\ d.ch = q.ch /\ d.shut = q.shut /\ d.watch = q.watch
            /\ d.cancelled = q.cancelled /\ d.pc = "check" /\ d.outcome = q.outcome
        BY <1>0 DEF ReqType
      <4>2. req' = [req EXCEPT ![r] = d]
        BY <2>1, <3>1
      <4> HIDE DEF d
      <4> QED
        BY <4>1, <4>2
    <3>2. CASE r \notin pending[q.sess]
      <4> DEFINE d == Return(q, "panic")
      <4>1. /\ d.sess = q.sess /\ d.ch = q.ch /\ d.shut = q.shut /\ d.watch = q.watch
            /\ d.cancelled = q.cancelled /\ d.pc = "done" /\ d.outcome = "panic"
        BY <1>0 DEF ReqType, Return
      <4>2. req' = [req EXCEPT ![r] = d]
        BY <2>1, <3>2
      <4> HIDE DEF d
      <4> QED
        BY <3>2, <4>1, <4>2
    <3> QED
      BY <3>1, <3>2
  <2>4. Early(d) /\ peer' = [peer EXCEPT ![r] = p]
    BY <1>0, <2>1, <2>2, <2>3 DEF Early
  <2>5. ASSUME NEW s \in Sessions, d.sess = s
        PROVE  Fate(r, s, d, p, conn[s].msg, pending'[s], clean[s])
    <3>1. Fate(r, s, q, p, conn[s].msg, pending[s], clean[s]) /\ q.sess = s
      BY <1>3, <2>3, <2>5
    <3>2. CASE d.pc = "check" /\ d.outcome = q.outcome
      <4>1. Fate(r, s, d, p, conn[s].msg, pending[s], clean[s])
        BY <1>2, <2>1, <2>3, <3>1, <3>2, FateGoesOn
      <4> QED
        BY <2>1, <4>1
    <3>3. CASE r \notin pending[q.sess] /\ d.pc = "done" /\ d.outcome = "panic"
      <4>1. ~Open(clean[s]) /\ r \notin pending[s]
        BY <2>1, <3>1, <3>3 DEF Fate
      <4>2. (HasTerminal(d) <=> HasTerminal(q)) /\ (Excused(q) => Excused(d)) /\ ~Left(d)
        BY <2>2, <2>3 DEF HasTerminal, Excused, None, Left
      <4> QED
        BY <2>1, <2>3, <3>1, <3>3, <4>1, <4>2 DEF Fate
    <3> QED
      BY <2>3, <3>2, <3>3
  <2>6. \A s \in Sessions : d.sess # s => r \notin pending'[s] \cup clean[s].seen
    BY <1>3, <2>1, <2>3
  <2> HIDE DEF p, q
  <2> QED
    BY <1>1, <2>1, <2>3, <2>4, <2>5, <2>6, FatesCaller
<1>10. CASE CallerCheck(r) \/ CallerWrite(r)
  <2>1. q.pc \in {"check", "write"} /\ pending' = pending
    BY <1>10 DEF CallerCheck, CallerWrite, callerElse
  <2>2. q.sess \in Sessions /\ ~q.watch /\ q.outcome = None
    BY <1>0, <1>2, <2>1 DEF ReqOK, Waiting
  <2>3. PICK d : /\ req' = [req EXCEPT ![r] = d]
                 /\ d.sess = q.sess /\ d.ch = q.ch /\ d.shut = q.shut /\ d.cancelled = q.cancelled
                 /\ d.outcome = q.outcome /\ d.pc \in {"drop", "write", "wait"}
    <3>1. \E pc \in {"drop", "write"} : req' = [req EXCEPT ![r] = [q EXCEPT !.pc = pc]]
          \/ req' = [req EXCEPT ![r] = [q EXCEPT !.pc = "wait", !.watch = TRUE]]
      <4>1. CASE CallerCheck(r)
        BY <1>0, <4>1 DEF CallerCheck
      <4>2. CASE CallerWrite(r)
        <5>1. \/ req' = [req EXCEPT ![r].pc = "drop"]
              \/ req' = [req EXCEPT ![r].pc = "wait", ![r].watch = TRUE]
          BY <4>2 DEF CallerWrite
        <5>2. CASE req' = [req EXCEPT ![r].pc = "wait", ![r].watch = TRUE]
          <6>1. [req EXCEPT ![r].pc = "wait", ![r].watch = TRUE] =
                  [req EXCEPT ![r] = [req[r] EXCEPT !.pc = "wait", !.watch = TRUE]]
            BY <1>0
          <6> QED
            BY <5>2, <6>1
        <5> QED
          BY <5>1, <5>2
      <4> QED
        BY <1>10, <4>1, <4>2
    <3>2. CASE \E pc \in {"drop", "write"} : req' = [req EXCEPT ![r] = [q EXCEPT !.pc = pc]]
      <4>1. PICK pc \in {"drop", "write"} : req' = [req EXCEPT ![r] = [q EXCEPT !.pc = pc]]
        BY <3>2
      <4> DEFINE d == [q EXCEPT !.pc = pc]
      <4>2. /\ d.sess = q.sess /\ d.ch = q.ch /\ d.shut = q.shut /\ d.cancelled = q.cancelled
            /\ d.outcome = q.outcome /\ d.pc \in {"drop", "write", "wait"}
        BY <1>0 DEF ReqType
      <4>3. req' = [req EXCEPT ![r] = d]
        BY <4>1
      <4> HIDE DEF d
      <4> QED
        BY <4>2, <4>3
    <3>3. CASE req' = [req EXCEPT ![r] = [q EXCEPT !.pc = "wait", !.watch = TRUE]]
      <4> DEFINE d == [q EXCEPT !.pc = "wait", !.watch = TRUE]
      <4>2. /\ d.sess = q.sess /\ d.ch = q.ch /\ d.shut = q.shut /\ d.cancelled = q.cancelled
            /\ d.outcome = q.outcome /\ d.pc \in {"drop", "write", "wait"}
        BY <1>0 DEF ReqType
      <4>3. req' = [req EXCEPT ![r] = d]
        BY <3>3
      <4> HIDE DEF d
      <4> QED
        BY <4>2, <4>3
    <3> QED
      BY <3>1, <3>2, <3>3
  <2>4. PICK e : peer' = [peer EXCEPT ![r] = e] /\ e.end = p.end
    <3>1. CASE peer' = peer
      <4>1. peer' = [peer EXCEPT ![r] = p]
        BY <1>0, <3>1
      <4> QED
        BY <4>1
    <3>2. CASE peer' = [peer EXCEPT ![r].at = q.sess]
      <4> DEFINE e == [p EXCEPT !.at = q.sess]
      <4>1. peer' = [peer EXCEPT ![r] = e] /\ e.end = p.end
        BY <1>0, <3>2 DEF PeerType
      <4> HIDE DEF e
      <4> QED
        BY <4>1
    <3> QED
      BY <1>10, <3>1, <3>2 DEF CallerCheck, CallerWrite
  <2>5. Early(d)
    BY <1>0, <2>2, <2>3 DEF Early, None
  <2>6. ASSUME NEW s \in Sessions, d.sess = s
        PROVE  Fate(r, s, d, e, conn[s].msg, pending'[s], clean[s])
    <3>1. Fate(r, s, q, p, conn[s].msg, pending[s], clean[s]) /\ q.sess = s
      BY <1>3, <2>3, <2>6
    <3>2. Fate(r, s, d, e, conn[s].msg, pending[s], clean[s])
      BY <1>2, <2>1, <2>3, <2>4, <2>6, <3>1, FateGoesOn
    <3> QED
      BY <2>1, <3>2
  <2>7. \A s \in Sessions : d.sess # s => r \notin pending'[s] \cup clean[s].seen
    BY <1>3, <2>1, <2>3
  <2> HIDE DEF p, q
  <2> QED
    BY <1>1, <2>1, <2>3, <2>4, <2>5, <2>6, <2>7, FatesCaller
<1>11. CASE CallerDrop(r)
  <2> DEFINE a == Return(q, "error")
             d == [a EXCEPT !.shut = @ \/ r \in pending[q.sess]]
  <2>1. /\ req' = [req EXCEPT ![r] = d] /\ pending' = [pending EXCEPT ![q.sess] = @ \ {r}]
        /\ peer' = peer /\ q.pc = "drop"
    BY <1>11 DEF CallerDrop, Drop, callerElse
  <2>2. d.pc = "done" /\ d.sess = q.sess /\ d.outcome = "error"
    BY <1>0 DEF Return, ReqType
  <2>3. q.sess \in Sessions /\ p.at = None
    BY <1>0, <1>2, <2>1 DEF ReqOK
  <2> HIDE DEF d, a
  <2>4. Early(d) /\ peer' = [peer EXCEPT ![r] = p]
    BY <1>0, <2>1, <2>2 DEF Early
  <2>5. /\ \A s \in Sessions \ {q.sess} : pending'[s] = pending[s]
        /\ pending'[q.sess] = pending[q.sess] \ {r}
    BY <1>0, <2>1, <2>3
  <2>6. ASSUME NEW s \in Sessions, d.sess = s
        PROVE  Fate(r, s, d, p, conn[s].msg, pending'[s], clean[s])
    <3>1. ~Unfinished(r, d, p, conn[s].msg)
      BY <1>5, <2>1, <2>2, <2>3 DEF Unfinished
    <3>2. Excused(d) /\ r \notin pending'[s]
      BY <2>2, <2>5, <2>6 DEF Excused
    <3> QED
      BY <2>2, <2>6, <3>1, <3>2 DEF Fate
  <2>7. \A s \in Sessions : d.sess # s => r \notin pending'[s] \cup clean[s].seen
    BY <1>3, <2>2, <2>5
  <2>8. \A t \in Requests \ {r}, s \in Sessions : t \in pending'[s] <=> t \in pending[s]
    BY <2>5
  <2> HIDE DEF p, q
  <2> QED
    BY <1>1, <2>1, <2>4, <2>6, <2>7, <2>8, FatesCaller
<1> QED
  BY <1>6, <1>7, <1>8, <1>9, <1>10, <1>11

(* The caller while it waits, its cancellation and its watcher.            *)
LEMMA FatesWaiting ==
  ASSUME Types, Streams, Fates, NEW r \in Requests,
         CallerTake(r) \/ CallerClosed(r) \/ CallerGivesUp(r) \/ Cancel(r) \/ Watch(r)
  PROVE  Fates'
<1> DEFINE q == req[r]
           p == peer[r]
<1>0. /\ req \in [Requests -> ReqType] /\ peer \in [Requests -> PeerType]
      /\ pending \in [Sessions -> SUBSET Requests]
      /\ q \in ReqType /\ p \in PeerType /\ ReqOK(q) /\ r # None /\ \A s \in Sessions : s # None
  BY RelayAssumption DEF Types, None
<1>1. Up /\ UNCHANGED <<conn, clean, peer>> /\ peer' = [peer EXCEPT ![r] = p]
  BY <1>0 DEF CallerTake, CallerClosed, CallerGivesUp, Cancel, Watch, callerElse
<1>2. Early(q) /\ Waiting(q)
  BY DEF Fates, Streams
<1>3. \A s \in Sessions : /\ Fate(r, s, q, p, conn[s].msg, pending[s], clean[s])
                          /\ q.sess # s => r \notin pending[s] \cup clean[s].seen
                          /\ Cleaner(clean[s], conn[s])
  <2>1. \A s \in Sessions : /\ Fate(r, s, q, p, conn[s].msg, pending[s], clean[s])
                            /\ Cleaner(clean[s], conn[s])
    BY DEF Fates
  <2> QED
    BY <2>1 DEF Fate
<1>4. ASSUME NEW d, req' = [req EXCEPT ![r] = d], UNCHANGED <<pending, crash>>,
             d.pc \in {"wait", "done"}, d.sess = q.sess, d.outcome # "panic",
             \A s \in Sessions : q.sess = s => Fate(r, s, d, p, conn[s].msg, pending[s], clean[s])
      PROVE  Fates'
  <2>1. Early(d)
    BY <1>4 DEF Early
  <2>2. \A s \in Sessions : d.sess # s => r \notin pending'[s] \cup clean[s].seen
    BY <1>3, <1>4
  <2>3. \A s \in Sessions : d.sess = s => Fate(r, s, d, p, conn[s].msg, pending'[s], clean[s])
    BY <1>4
  <2> HIDE DEF p, q
  <2> QED
    BY <1>1, <1>4, <2>1, <2>2, <2>3, FatesCaller
<1>5. ASSUME NEW d, req' = [req EXCEPT ![r] = d], UNCHANGED <<pending, crash>>, q.pc = "wait",
             d.sess = q.sess, d.shut = q.shut, d.cancelled = q.cancelled, d.pc = "done",
             d.outcome # "panic", HasTerminal(q) \/ q.shut \/ q.cancelled = "waiting"
      PROVE  Fates'
  <2>1. \A s \in Sessions : q.sess = s => Fate(r, s, d, p, conn[s].msg, pending[s], clean[s])
    BY <1>2, <1>3, <1>5, FateReturns
  <2> QED
    BY <1>4, <1>5, <2>1
<1>6. CASE CallerTake(r)
  <2> DEFINE a == [q EXCEPT !.ch = Tail(@)]
             m == Head(q.ch)
  <2>1. /\ q.pc = "wait" /\ q.ch # <<>> /\ pending' = pending /\ crash' = crash
        /\ req' = [req EXCEPT ![r] = CASE m.kind = "error" -> Return(a, "error")
                                       [] m.kind \in {"resp", "end"} -> Return(a, "ok")
                                       [] OTHER -> [a EXCEPT !.got = Append(@, m.num)]]
    BY <1>6 DEF CallerTake, callerElse
  <2>2. /\ m = q.ch[1] /\ Len(q.ch) \in Nat \ {0} /\ DOMAIN q.ch = 1..Len(q.ch) /\ q.ch \in Seq(Body)
        /\ m.kind \in {"part", "resp", "error", "end"}
    <3>1. m \in Body /\ m.kind # None
      BY <1>0, <2>1, TakenType
    <3>2. q.ch \in Seq(Body)
      BY <1>0 DEF ReqType, Channel
    <3> QED
      BY <2>1, <3>1, <3>2 DEF Body
  <2>3. CASE m.kind # "part"
    <3>1. PICK o \in {"error", "ok"} : req' = [req EXCEPT ![r] = Return(a, o)]
      BY <2>1, <2>2, <2>3
    <3> DEFINE d == Return(a, o)
    <3>2. /\ d.sess = q.sess /\ d.shut = q.shut /\ d.cancelled = q.cancelled /\ d.pc = "done"
          /\ d.outcome # "panic" /\ req' = [req EXCEPT ![r] = d]
      BY <1>0, <3>1 DEF Return, ReqType
    <3>3. HasTerminal(q)
      <4>1. 1 \in DOMAIN q.ch /\ Terminal(q.ch[1])
        BY <2>2, <2>3 DEF Terminal
      <4> QED
        BY <4>1 DEF HasTerminal
    <3> HIDE DEF d
    <3> QED
      BY <1>5, <2>1, <3>2, <3>3
  <2>4. CASE m.kind = "part"
    <3> DEFINE d == [a EXCEPT !.got = Append(@, m.num)]
    <3>1. /\ d.sess = q.sess /\ d.shut = q.shut /\ d.cancelled = q.cancelled /\ d.pc = "wait"
          /\ d.outcome = q.outcome /\ d.ch = Tail(q.ch)
      BY <1>0, <2>1 DEF ReqType
    <3>2. req' = [req EXCEPT ![r] = d]
      BY <2>1, <2>4
    <3> HIDE DEF d
    <3>3. \A s \in Sessions : q.sess = s => Fate(r, s, d, p, conn[s].msg, pending[s], clean[s])
      <4> SUFFICES ASSUME NEW s \in Sessions, q.sess = s
                   PROVE  Fate(r, s, d, p, conn[s].msg, pending[s], clean[s])
        OBVIOUS
      <4>1. HasTerminal(d) => HasTerminal(q)
        <5>1. DOMAIN Tail(q.ch) = 1..Len(q.ch) - 1 /\ \A i \in 1..Len(q.ch) - 1 :
                Tail(q.ch)[i] = q.ch[i + 1] /\ i + 1 \in 1..Len(q.ch)
          BY <2>1, <2>2
        <5> QED
          BY <2>2, <3>1, <5>1 DEF HasTerminal
      <4>2. Unfinished(r, d, p, conn[s].msg) => Unfinished(r, q, p, conn[s].msg)
        BY <2>1, <3>1 DEF Unfinished
      <4>3. ~Left(d) /\ (Excused(q) => Excused(d))
        BY <3>1 DEF Left, Excused
      <4> QED
        BY <1>3, <2>1, <3>1, <4>1, <4>2, <4>3 DEF Fate
    <3>4. d.outcome # "panic"
      BY <1>2, <2>1, <3>1 DEF Waiting, None
    <3> QED
      BY <1>4, <2>1, <3>1, <3>2, <3>3, <3>4
  <2> QED
    BY <2>3, <2>4
<1>7. CASE CallerClosed(r)
  <2>1. PICK o \in {"ok", "error"} : /\ req' = [req EXCEPT ![r] = Return(q, o)] /\ q.shut
                                     /\ q.pc = "wait" /\ UNCHANGED <<pending, crash>>
    BY <1>7 DEF CallerClosed, callerElse
  <2> DEFINE d == Return(q, o)
  <2>2. /\ d.sess = q.sess /\ d.shut = q.shut /\ d.cancelled = q.cancelled /\ d.pc = "done"
        /\ d.outcome # "panic" /\ req' = [req EXCEPT ![r] = d]
    BY <1>0, <2>1 DEF Return, ReqType
  <2> HIDE DEF d
  <2> QED
    BY <1>5, <2>1, <2>2
<1>8. CASE CallerGivesUp(r)
  <2>1. /\ req' = [req EXCEPT ![r] = Return(q, "cancelled")]
        /\ q.pc = "wait" /\ UNCHANGED <<pending, crash>> /\ q.cancelled = "waiting"
    BY <1>0, <1>2, <1>8 DEF CallerGivesUp, callerElse, Waiting, ReqType
  <2> DEFINE d == Return(q, "cancelled")
  <2>2. /\ d.sess = q.sess /\ d.shut = q.shut /\ d.cancelled = q.cancelled /\ d.pc = "done"
        /\ d.outcome # "panic" /\ req' = [req EXCEPT ![r] = d]
    BY <1>0, <2>1 DEF Return, ReqType
  <2> HIDE DEF d
  <2> QED
    BY <1>5, <2>1, <2>2
<1>9. CASE Cancel(r)
  <2>1. PICK c \in {"waiting", "after"} :
          /\ UNCHANGED <<pending, crash>> /\ q.pc \in {"wait", "done"} /\ q.cancelled = "no"
          /\ req' = [req EXCEPT ![r] = [q EXCEPT !.cancelled = c]]
    BY <1>9 DEF Cancel, callerElse
  <2> DEFINE d == [q EXCEPT !.cancelled = c]
  <2>2. /\ d.ch = q.ch /\ d.shut = q.shut /\ d.pc = q.pc /\ d.watch = q.watch
        /\ d.outcome = q.outcome /\ d.sess = q.sess
    BY <1>0 DEF ReqType
  <2>3. req' = [req EXCEPT ![r] = d]
    BY <2>1
  <2> HIDE DEF d
  <2>4. ASSUME NEW s \in Sessions, q.sess = s
        PROVE  Fate(r, s, d, p, conn[s].msg, pending[s], clean[s])
    <3>1. /\ HasTerminal(d) <=> HasTerminal(q)
          /\ Unfinished(r, d, p, conn[s].msg) <=> Unfinished(r, q, p, conn[s].msg)
          /\ Left(d) <=> Left(q)
          /\ Excused(q) => Excused(d)
      BY <2>1, <2>2 DEF HasTerminal, Unfinished, Left, Excused
    <3>2. Fate(r, s, q, p, conn[s].msg, pending[s], clean[s]) /\ q.cancelled # "waiting"
      BY <1>3, <2>1
    <3> QED
      BY <2>2, <2>4, <3>1, <3>2 DEF Fate
  <2>5. Early(d)
    BY <1>2, <2>2 DEF Early
  <2>6. \A s \in Sessions : d.sess # s => r \notin pending'[s] \cup clean[s].seen
    BY <1>3, <2>1, <2>2
  <2>7. \A s \in Sessions : d.sess = s => Fate(r, s, d, p, conn[s].msg, pending'[s], clean[s])
    BY <2>1, <2>2, <2>4
  <2> HIDE DEF p, q
  <2> QED
    BY <1>1, <2>1, <2>3, <2>5, <2>6, <2>7, FatesCaller
<1>10. CASE Watch(r)
  <2>1. /\ q.watch /\ q.sess \in Sessions /\ q.pc \in {"wait", "done"}
    BY <1>0, <1>2, <1>10 DEF Watch, ReqOK, Waiting
  <2>2. CASE /\ q.cancelled # "no" /\ UNCHANGED <<req, pending>>
             /\ crash' = [who |-> "watcher", session |-> q.sess, request |-> r, reset |-> TRUE]
    <3>1. Blame(crash', q, clean[q.sess]) /\ crash'.session = q.sess /\ crash'.request = r
      BY <2>2 DEF Blame
    <3> DEFINE s == q.sess
    <3>2. s \in Sessions /\ Blame(crash', req[r], clean[s]) /\ crash'.session = s
      BY <2>1, <3>1
    <3> HIDE DEF s, q
    <3> QED
      BY <1>1, <2>2, <3>1, <3>2, FatesCrash
  <2>3. CASE q.cancelled # "no" /\ Drop(q.sess, r, [q EXCEPT !.watch = FALSE]) /\ crash' = crash
    <3> DEFINE a == [q EXCEPT !.watch = FALSE]
               d == [a EXCEPT !.shut = @ \/ r \in pending[q.sess]]
    <3>1. /\ req' = [req EXCEPT ![r] = d] /\ pending' = [pending EXCEPT ![q.sess] = @ \ {r}]
      BY <2>3 DEF Drop
    <3>2. /\ d.ch = q.ch /\ d.pc = q.pc /\ d.watch = FALSE
          /\ d.outcome = q.outcome /\ d.sess = q.sess /\ d.cancelled = q.cancelled
      BY <1>0 DEF ReqType
    <3> HIDE DEF d, a
    <3>3. /\ \A s \in Sessions \ {q.sess} : pending'[s] = pending[s]
          /\ pending'[q.sess] = pending[q.sess] \ {r}
      BY <1>0, <2>1, <3>1
    <3>4. q.cancelled = "waiting" \/ q.pc = "done"
      BY <1>0, <1>2, <2>3 DEF Waiting, ReqType
    <3>5. ASSUME NEW s \in Sessions, d.sess = s
          PROVE  Fate(r, s, d, p, conn[s].msg, pending'[s], clean[s])
      <4>1. /\ Unfinished(r, d, p, conn[s].msg) <=> Unfinished(r, q, p, conn[s].msg)
            /\ Excused(d) <=> Excused(q)
            /\ r \notin pending'[s]
        BY <3>2, <3>3, <3>5 DEF Unfinished, Excused
      <4>2. Fate(r, s, q, p, conn[s].msg, pending[s], clean[s]) /\ q.sess = s
        BY <1>3, <3>2, <3>5
      <4>3. q.pc = "done" => Left(q)
        BY <2>1 DEF Left
      <4>4. Unfinished(r, d, p, conn[s].msg) => d.cancelled = "waiting" \/ ~Open(clean[s])
        BY <3>2, <3>4, <4>1, <4>2 DEF Fate
      <4>5. clean[s].at = r => Excused(d) \/ Other(clean[s])
        BY <3>4, <4>1, <4>2, <4>3 DEF Fate, Excused
      <4> QED
        BY <2>1, <3>2, <4>1, <4>2, <4>4, <4>5 DEF Fate
    <3>6. Early(d)
      BY <1>2, <2>1, <3>2 DEF Early
    <3>7. \A s \in Sessions : d.sess # s => r \notin pending'[s] \cup clean[s].seen
      BY <1>3, <3>2, <3>3
    <3>8. \A t \in Requests \ {r}, s \in Sessions : t \in pending'[s] <=> t \in pending[s]
      BY <3>3
    <3>9. crash' = crash
      BY <2>3
    <3> HIDE DEF p, q
    <3> QED
      BY <1>1, <3>1, <3>5, <3>6, <3>7, <3>8, <3>9, FatesCaller
  <2>4. CASE req' = [req EXCEPT ![r] = [q EXCEPT !.watch = FALSE]] /\ UNCHANGED <<pending, crash>>
    <3> DEFINE d == [q EXCEPT !.watch = FALSE]
    <3>1. /\ d.ch = q.ch /\ d.pc = q.pc /\ d.watch = FALSE /\ d.shut = q.shut
          /\ d.outcome = q.outcome /\ d.sess = q.sess /\ d.cancelled = q.cancelled
      BY <1>0 DEF ReqType
    <3>2. req' = [req EXCEPT ![r] = d]
      BY <2>4
    <3> HIDE DEF d
    <3>3. ASSUME NEW s \in Sessions, d.sess = s
          PROVE  Fate(r, s, d, p, conn[s].msg, pending'[s], clean[s])
      <4>1. /\ Unfinished(r, d, p, conn[s].msg) <=> Unfinished(r, q, p, conn[s].msg)
            /\ Excused(d) <=> Excused(q)
            /\ ~Left(d)
            /\ HasTerminal(d) <=> HasTerminal(q)
        BY <3>1 DEF Unfinished, Excused, Left, HasTerminal
      <4>2. Fate(r, s, q, p, conn[s].msg, pending[s], clean[s]) /\ q.sess = s
        BY <1>3, <3>1, <3>3
      <4> QED
        BY <2>4, <3>1, <4>1, <4>2 DEF Fate
    <3>4. Early(d)
      BY <1>2, <3>1 DEF Early
    <3>5. \A s \in Sessions : d.sess # s => r \notin pending'[s] \cup clean[s].seen
      BY <1>3, <2>4, <3>1
    <3> HIDE DEF p, q
    <3> QED
      BY <1>1, <2>4, <3>2, <3>3, <3>4, <3>5, FatesCaller
  <2> QED
    BY <1>10, <2>2, <2>3, <2>4 DEF Watch
<1> QED
  BY <1>6, <1>7, <1>8, <1>9, <1>10

(* Every step.                                                             *)
LEMMA FatesStep == Types /\ Streams /\ Fates /\ [Next]_vars => Fates'
<1> SUFFICES ASSUME Types, Streams, Fates, [Next]_vars PROVE Fates'
  OBVIOUS
<1>1. ASSUME NEW s \in Sessions,
             \/ Connect(s) \/ HandshakeStep(s) \/ PeerLeaves(s) \/ HeartbeatFails(s)
             \/ CleanStep(s) \/ ReaderStep(s) \/ StopCleans(s)
      PROVE  Fates'
  BY <1>1, FatesSession, FatesPick, FatesVisit, FatesRead, FatesDeliver, FatesRetire
     DEF CleanStep, ReaderStep
<1>2. CASE StopTakes
  BY <1>2 DEF StopTakes, Fates, Up
<1>3. ASSUME NEW r \in Requests, CallerStep(r) \/ Cancel(r) \/ Watch(r) PROVE Fates'
  BY <1>3, FatesSending, FatesWaiting DEF CallerStep
<1>4. CASE UNCHANGED vars
  BY <1>4 DEF vars, Fates, Up
<1> QED
  BY <1>1, <1>2, <1>3, <1>4 DEF Next

(* The relay only panics for a reason: a clean-up by another goroutine     *)
(* than the reader, a cancelled request, a send that has failed, or the    *)
(* map that is overwritten at that moment.  Between them the reader and    *)
(* its own clean-up never close a channel twice or send into a closed one. *)
THEOREM PanicsCorrect == Spec => []PanicsExplained
<1>1. Init => Fates
  <2> SUFFICES ASSUME Init PROVE Fates
    OBVIOUS
  <2>1. \A s \in Sessions : /\ conn[s].reader = "no" /\ conn[s].msg = NoMsg /\ clean[s].pc = "open"
                            /\ clean[s].by = None /\ clean[s].seen = {} /\ clean[s].at = None
                            /\ pending[s] = {}
    BY DEF Init
  <2>2. \A r \in Requests : /\ req[r].pc = "idle" /\ req[r].sess = None /\ req[r].ch = <<>>
                            /\ ~req[r].shut /\ req[r].outcome = None /\ r # None
    BY RelayAssumption DEF Init, None
  <2>3. \A s \in Sessions : s # None
    BY RelayAssumption DEF None
  <2>4. \A s \in Sessions : Cleaner(clean[s], conn[s])
    BY <2>1 DEF Cleaner, Open, None
  <2>5. \A r \in Requests : Early(req[r])
    BY <2>2 DEF Early, None
  <2>6. \A r \in Requests, s \in Sessions :
          Fate(r, s, req[r], peer[r], conn[s].msg, pending[s], clean[s])
    BY <2>1, <2>2, <2>3 DEF Fate
  <2>7. Up
    BY DEF Init, Up
  <2> QED
    BY <2>4, <2>5, <2>6, <2>7 DEF Fates
<1>2. Types /\ Streams /\ Fates /\ [Next]_vars => Fates'
  BY FatesStep
<1>3. Types /\ Fates => PanicsExplained
  <2> SUFFICES ASSUME Types, Fates PROVE PanicsExplained
    OBVIOUS
  <2>1. ASSUME ~Up
        PROVE  LET s == crash.session  q == req[crash.request] IN
                 CASE crash.who = "watcher" -> crash.reset /\ q.cancelled # "no"
                   [] crash.who = "dispatch" -> \/ ~crash.reset /\ q.cancelled = "waiting"
                                                \/ clean[s].by \in {"heartbeat", "stop"}
                   [] crash.who = "range" -> \/ q.cancelled = "waiting" \/ q.outcome = "error"
                                             \/ clean[s].by \in {"heartbeat", "stop"}
    <3>1. Blame(crash, req[crash.request], clean[crash.session])
      BY <2>1 DEF Fates
    <3>2. crash.who \in {"watcher", "dispatch", "range"}
      BY <3>1 DEF Blame
    <3> QED
      BY <3>1, <3>2 DEF Blame, Other, Excused
  <2>2. ASSUME NEW r \in Requests, req[r].outcome = "panic" PROVE Closed(req[r].sess)
    <3>1. req[r].sess \in Sessions
      BY <2>2 DEF Fates, Early, Types, ReqType
    <3> QED
      BY <2>2, <3>1 DEF Fates, Fate, Closed, Open
  <2> QED
    BY <2>1, <2>2 DEF PanicsExplained
<1> QED
  BY <1>1, <1>2, <1>3, StreamsAlways, PTL DEF Spec
==============================================================================
