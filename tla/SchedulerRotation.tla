------------------------- MODULE SchedulerRotation -------------------------
(***************************************************************************)
(* AuthScheduler with a record of who was served: the auths that           *)
(* consecutive, unfiltered round-robin picks of one request returned while *)
(* the membership of the shards they use stayed the same.  Cursors survive *)
(* rebuilds of the indexes, so neither do upserts that change no           *)
(* membership (a result is recorded after every request) interrupt it.     *)
(***************************************************************************)
EXTENDS AuthScheduler

VARIABLE served    \* [request, members, auths] of the current rotation

rotationVars == <<vars, served>>

(* A request for one provider or, with a list, for several.                *)
Requests ==
    [providers : {<<p>> : p \in Providers} \cup ProviderLists,
     model : Requested, websocket : BOOLEAN]

NoRotation == [request |-> None, members |-> None, auths |-> <<>>]

(* Which auths are ready, in which order and groups, in the shards that a  *)
(* request uses.                                                           *)
Members(request) ==
    [p \in {q \in Range(request.providers) : <<q, request.model>> \in Shards} |->
       Arrangement(providers[p].shards[request.model].ready)]

(* The number of auths that take turns: those of the level and transport   *)
(* that auth a was served from.                                            *)
Level(request, a) ==
    LET p == authProviders[a] IN Snapshot(p, a).priority

View(p, request, n) ==
    LET bucket == providers[p].shards[request.model].ready[n]
    IN  IF Len(request.providers) = 1 /\ request.websocket /\ p = Codex
           /\ bucket.ws.flat # <<>>
        THEN bucket.ws ELSE bucket.all

Turns(request, n) ==
    Cardinality(UNION {Range(View(p, request, n).flat) : p \in DOMAIN Members(request)})

LastOf(seq, n) == IF Len(seq) <= n THEN seq ELSE SubSeq(seq, Len(seq) - n + 1, Len(seq))

(* Serve a to an unfiltered request: the rotation goes on if the request   *)
(* and the membership it finds are those of the last one.                  *)
Serve(request, a) ==
    LET goesOn == /\ served.request = request
                  /\ served.members = Members(request)'
        auths  == IF goesOn THEN Append(served.auths, a) ELSE <<a>>
    IN  served' = [request |-> request, members |-> Members(request)',
                   auths |-> LastOf(auths, Turns(request, Level(request, a))')]

(* A step that serves nobody ends the rotation if it changes membership.   *)
Keep ==
    \E request \in {served.request} :
       served' = IF served.auths # <<>> /\ Members(request)' # served.members
                 THEN NoRotation ELSE served

Unfiltered(request) ==
    LET list == request.providers
    IN  IF Len(list) = 1
        THEN PickedSingle(list[1], request.model, None, {}, request.websocket).auth
        ELSE PickedMixed(list, request.model, {}).auth

RotatingPick ==
    \E request \in Requests :
       \E a \in {Unfiltered(request)} :
          /\ LET list == request.providers
             IN  IF Len(list) = 1
                 THEN PickSingle(list[1], request.model, None, {},
                                 request.websocket)
                 ELSE PickMixed(list, request.model, {})
          /\ IF a = None \/ strategy # "round-robin"
             THEN served' = NoRotation
             ELSE Serve(request, a)

(* A pick that tried auths before, or is pinned, takes turns out of order. *)
FilteredPick ==
    \E m \in Requested, tried \in TriedSets :
       /\ served' = NoRotation
       /\ \/ \E p \in Providers, pinned \in Auths \cup {None} :
                /\ tried # {} \/ pinned # None
                /\ PickSingle(p, m, pinned, tried, FALSE)
          \/ \E list \in ProviderLists :
                \/ tried # {} /\ PickMixed(list, m, tried)
                \/ \E pinned \in Auths : PickPinned(list, m, pinned, tried)

RotationInit == Init /\ served = NoRotation

RotationNext ==
    \/ RotatingPick
    \/ FilteredPick
    \/ \E a \in Auths : (UpsertAuth(a) \/ RemoveAuth(a)) /\ Keep
    \/ (Rebuild \/ \E s \in Strategies : SetSelector(s)) /\ served' = NoRotation
    \/ Environment /\ Keep

RotationSpec == RotationInit /\ [][RotationNext]_rotationVars

----------------------------------------------------------------------------
Distinct(seq) == Cardinality(Range(seq)) = Len(seq)

Grouped(p, request, n) == View(p, request, n).parentOrder # <<>>

ParentsServed(request, auths) ==
    [i \in DOMAIN auths |-> Snapshot(authProviders[auths[i]], auths[i]).parent]

(* Round-robin is fair while the membership stays: as many picks in a row  *)
(* as there are ready auths of the best priority serve each of them once,  *)
(* over one provider or several; where auths are grouped by virtual        *)
(* parent, as many picks in a row as there are parents serve each parent   *)
(* once.  A lost cursor, or one that a rebuild resets, would send          *)
(* consecutive requests to the same credential.                            *)
FairRotation ==
    LET request == served.request
        auths   == served.auths
    IN  auths # <<>> =>
          LET n == Level(request, Last(auths))
              p == request.providers[1]
          IN  IF \A q \in Range(request.providers) :
                    <<q, request.model>> \in Shards => ~ Grouped(q, request, n)
              THEN Distinct(auths)
              ELSE Len(request.providers) = 1 =>
                   Distinct(ParentsServed(request,
                      LastOf(auths, Len(View(p, request, n).parentOrder))))

(* A pick over several providers serves each in proportion to its ready    *)
(* auths: no window of as many picks as there are such auths serves one    *)
(* provider more often than it has auths.                                  *)
ProportionalShares ==
    LET request == served.request
        auths   == served.auths
    IN  auths # <<>> =>
          \A p \in Range(request.providers) :
             <<p, request.model>> \in Shards =>
                Cardinality({i \in DOMAIN auths : authProviders[auths[i]] = p})
                  <= Len(View(p, request, Level(request, Last(auths))).flat)
=============================================================================
