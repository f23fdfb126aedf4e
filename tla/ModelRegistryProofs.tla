------------------------ MODULE ModelRegistryProofs ------------------------
(***************************************************************************)
(* Theorems of ModelRegistry for every set of clients, models and          *)
(* providers: the type invariant, that the reference counts equal the      *)
(* bindings they summarise, and that the cached listing is never stale.    *)
(***************************************************************************)
EXTENDS ModelRegistry, FiniteSetTheorems, WellFoundedInduction, TLAPS

(* The bindings of model m held by the clients of C under the lists f.     *)
Held(f, m, C) ==
    {b \in Clients \X (1..MaxDup) : b[1] \in C /\ b[2] <= f[b[1]][m]}

OwnersOf(prov, p) == {c \in Clients : prov[c] = p}

(* How much of n falls to the clients of C, to provider q, and to a new q. *)
Own(c, C, n) == IF c \in C THEN n ELSE 0
Share(p, q, n) == IF p = q THEN n ELSE 0
Moved(oldP, newP, q, n) == IF oldP # newP /\ newP = q THEN n ELSE 0

----------------------------------------------------------------------------
(* Counting bindings. *)

(* A client that lists a model n times holds n bindings of it.             *)
LEMMA OwnCount ==
    ASSUME NEW c, NEW n \in Nat
    PROVE  /\ IsFiniteSet({c} \X (1..n))
           /\ Cardinality({c} \X (1..n)) = n
<1>1. IsFiniteSet({c}) /\ Cardinality({c}) = 1
  BY FS_Singleton
<1>2. IsFiniteSet(1..n) /\ Cardinality(1..n) = n
  BY FS_Interval
<1>3. /\ IsFiniteSet({c} \X (1..n))
      /\ Cardinality({c} \X (1..n)) = Cardinality({c}) * Cardinality(1..n)
  BY <1>1, <1>2, FS_Product
<1>4. Cardinality({c} \X (1..n)) = 1 * n
  BY <1>1, <1>2, <1>3
<1> QED
  BY <1>3, <1>4

(* The bindings of a model are finitely many.                              *)
LEMMA HeldFinite ==
    ASSUME NEW f, NEW m, NEW C
    PROVE  /\ IsFiniteSet(Held(f, m, C))
           /\ Cardinality(Held(f, m, C)) \in Nat
<1>1. IsFiniteSet(Clients) /\ MaxDup \in Int
  BY ConstantsAssumption
<1>2. IsFiniteSet(1..MaxDup)
  BY <1>1, FS_Interval
<1>3. IsFiniteSet(Clients \X (1..MaxDup))
  BY <1>1, <1>2, FS_Product
<1>4. Held(f, m, C) \in SUBSET (Clients \X (1..MaxDup))
  BY DEF Held
<1>5. IsFiniteSet(Held(f, m, C))
  BY <1>3, <1>4, FS_Subset
<1> QED
  BY <1>5, FS_CardinalityType

(* More clients hold no fewer bindings.                                    *)
LEMMA HeldMonotone ==
    ASSUME NEW f, NEW m, NEW C, NEW D, C \subseteq D
    PROVE  Cardinality(Held(f, m, C)) <= Cardinality(Held(f, m, D))
<1>1. Held(f, m, C) \in SUBSET Held(f, m, D)
  BY DEF Held
<1> QED
  BY <1>1, HeldFinite, FS_Subset

(* The bindings of C are those of the other clients and client c's own.    *)
LEMMA HeldSplit ==
    ASSUME NEW f \in [Clients -> ModelLists], NEW m \in Models,
           NEW C \in SUBSET Clients, NEW c \in Clients
    PROVE  Cardinality(Held(f, m, C)) =
             Cardinality(Held(f, m, C \ {c})) + Own(c, C, f[c][m])
<1> DEFINE rest == Held(f, m, C \ {c})
           own  == {c} \X (1..f[c][m])
<1>1. f[c][m] \in Nat /\ f[c][m] <= MaxDup /\ MaxDup \in Nat
  BY ConstantsAssumption DEF ModelLists
<1>2. CASE c \in C
  <2>1. Held(f, m, C) = rest \cup own
    BY <1>1, <1>2 DEF Held
  <2>2. rest \cap own = {}
    BY DEF Held
  <2>3. IsFiniteSet(rest) /\ Cardinality(rest) \in Nat
    BY HeldFinite
  <2>4. IsFiniteSet(own) /\ Cardinality(own) = f[c][m]
    BY <1>1, OwnCount
  <2>5. Cardinality(rest \cup own) =
          Cardinality(rest) + Cardinality(own) - Cardinality(rest \cap own)
    BY <2>3, <2>4, FS_Union
  <2>6. Cardinality(rest \cap own) = 0
    BY <2>2, FS_EmptySet
  <2>7. Cardinality(rest \cup own) = Cardinality(rest) + f[c][m]
    <3> HIDE DEF rest, own
    <3> QED
      BY <1>1, <2>3, <2>4, <2>5, <2>6
  <2>8. Own(c, C, f[c][m]) = f[c][m]
    BY <1>2 DEF Own
  <2> QED
    BY <2>1, <2>7, <2>8
<1>3. CASE c \notin C
  <2>1. C \ {c} = C
    BY <1>3
  <2>2. Cardinality(rest) \in Nat
    BY HeldFinite
  <2> QED
    BY <1>3, <2>1, <2>2 DEF Own
<1> QED
  BY <1>2, <1>3

(* What the clients other than c hold does not depend on c's list.         *)
LEMMA HeldByOthers ==
    ASSUME NEW f, NEW g, NEW m, NEW c, NEW C \in SUBSET Clients,
           \A d \in Clients \ {c} : f[d] = g[d]
    PROVE  Held(g, m, C \ {c}) = Held(f, m, C \ {c})
BY DEF Held

----------------------------------------------------------------------------
(* The arithmetic of one model's counters. *)

LEMMA ProvideCounts ==
    ASSUME NEW counts \in [Providers -> Nat], NEW n \in Nat,
           NEW p \in Providers \cup {NoProvider}
    PROVE  /\ Provide(counts, p, n) \in [Providers -> Nat]
           /\ \A q \in Providers :
                 Provide(counts, p, n)[q] = counts[q] + Share(p, q, n)
BY ConstantsAssumption DEF Provide, Share

LEMMA WithdrawCounts ==
    ASSUME NEW counts \in [Providers -> Nat], NEW n \in Nat,
           NEW p \in Providers \cup {NoProvider},
           p \in Providers => n <= counts[p]
    PROVE  /\ Withdraw(counts, p, n) \in [Providers -> Nat]
           /\ \A q \in Providers :
                 Withdraw(counts, p, n)[q] = counts[q] - Share(p, q, n)
BY ConstantsAssumption DEF Withdraw, Share

(* Unblocking a client touches no counter.                                 *)
LEMMA UnblockCounts ==
    ASSUME NEW reg \in Registration, NEW c \in Clients
    PROVE  /\ Unblock(reg, c) \in Registration
           /\ Unblock(reg, c).count = reg.count
           /\ Unblock(reg, c).providers = reg.providers
BY DEF Unblock, Registration

(* Replacing the provider counters of a registration keeps its type.       *)
LEMMA SetProviders ==
    ASSUME NEW reg \in Registration, NEW counts \in [Providers -> Nat]
    PROVE  LET out == [reg EXCEPT !.providers = counts]
           IN  /\ out \in Registration
               /\ out.count = reg.count
               /\ out.providers = counts
BY DEF Registration

LEMMA AddCounts ==
    ASSUME NEW reg \in Registration, NEW n \in Nat,
           NEW p \in Providers \cup {NoProvider}
    PROVE  /\ addModelRegistration(reg, p, n) \in Registration
           /\ addModelRegistration(reg, p, n).count = reg.count + n
           /\ \A q \in Providers :
                 addModelRegistration(reg, p, n).providers[q] =
                   reg.providers[q] + Share(p, q, n)
<1> DEFINE counts == Provide(reg.providers, p, n)
<1>1. reg.count \in Nat /\ reg.providers \in [Providers -> Nat]
  BY DEF Registration
<1>2. /\ counts \in [Providers -> Nat]
      /\ \A q \in Providers :
            counts[q] = reg.providers[q] + Share(p, q, n)
  BY <1>1, ProvideCounts
<1>3. addModelRegistration(reg, p, n) =
        [reg EXCEPT !.count = reg.count + n, !.providers = counts]
  BY DEF addModelRegistration, Registration
<1> HIDE DEF counts
<1>4. reg.count + n \in Nat
  BY <1>1
<1>5. LET out == [reg EXCEPT !.count = reg.count + n, !.providers = counts]
      IN  /\ out \in Registration
          /\ out.count = reg.count + n
          /\ out.providers = counts
  BY <1>1, <1>2, <1>4 DEF Registration
<1> QED
  BY <1>2, <1>3, <1>5

LEMMA RemoveCounts ==
    ASSUME NEW reg \in Registration, NEW c \in Clients, NEW n \in Nat,
           NEW p \in Providers \cup {NoProvider},
           n < reg.count,
           p \in Providers => n <= reg.providers[p]
    PROVE  /\ removeModelRegistration(reg, c, p, n) \in Registration
           /\ removeModelRegistration(reg, c, p, n).count = reg.count - n
           /\ \A q \in Providers :
                 removeModelRegistration(reg, c, p, n).providers[q] =
                   reg.providers[q] - Share(p, q, n)
<1> DEFINE free   == Unblock(reg, c)
           counts == Withdraw(reg.providers, p, n)
<1>1. reg.count \in Nat /\ reg.providers \in [Providers -> Nat]
  BY DEF Registration
<1>2. /\ counts \in [Providers -> Nat]
      /\ \A q \in Providers :
            counts[q] = reg.providers[q] - Share(p, q, n)
  BY <1>1, WithdrawCounts
<1>3. /\ free \in Registration
      /\ free.count = reg.count
      /\ free.providers = reg.providers
  BY UnblockCounts
<1>4. removeModelRegistration(reg, c, p, n) =
        [free EXCEPT !.count = reg.count - n, !.providers = counts]
  BY <1>1, <1>3 DEF removeModelRegistration, Registration
<1>5. reg.count - n \in Nat
  BY <1>1
<1> HIDE DEF free, counts
<1>6. LET out == [free EXCEPT !.count = reg.count - n, !.providers = counts]
      IN  /\ out \in Registration
          /\ out.count = reg.count - n
          /\ out.providers = counts
  BY <1>2, <1>3, <1>5 DEF Registration
<1> QED
  BY <1>2, <1>4, <1>6

(* out counts what reg counts, with n bindings moved to provider newP.     *)
Refreshed(out, reg, oldP, newP, n) ==
    /\ out \in Registration
    /\ out.count = reg.count
    /\ \A q \in Providers :
          out.providers[q] = reg.providers[q] + Moved(oldP, newP, q, n)

LEMMA RefreshCounts ==
    ASSUME NEW reg \in Registration, NEW c \in Clients, NEW n \in Nat,
           NEW oldP \in Providers \cup {NoProvider},
           NEW newP \in Providers \cup {NoProvider}
    PROVE  Refreshed(RefreshBinding(reg, c, oldP, newP, n), reg, oldP, newP, n)
<1> DEFINE free   == Unblock(reg, c)
           counts == Provide(reg.providers, newP, n)
<1>1. reg.count \in Nat /\ reg.providers \in [Providers -> Nat]
  BY DEF Registration
<1>2. /\ counts \in [Providers -> Nat]
      /\ \A q \in Providers :
            counts[q] = reg.providers[q] + Share(newP, q, n)
  BY <1>1, ProvideCounts
<1>3. /\ free \in Registration
      /\ free.count = reg.count
      /\ free.providers = reg.providers
  BY UnblockCounts
<1>4. CASE oldP = newP
  <2>1. RefreshBinding(reg, c, oldP, newP, n) = free
    BY <1>4 DEF RefreshBinding
  <2> QED
    BY <1>1, <1>3, <1>4, <2>1 DEF Moved, Refreshed
<1>5. CASE oldP # newP
  <2>1. RefreshBinding(reg, c, oldP, newP, n) =
          [free EXCEPT !.providers = counts]
    BY <1>3, <1>5 DEF RefreshBinding, Registration
  <2>2. \A q \in Providers :
          Moved(oldP, newP, q, n) = Share(newP, q, n)
    BY <1>5 DEF Share, Moved
  <2> HIDE DEF free, counts
  <2> QED
    BY <1>2, <1>3, <2>1, <2>2, SetProviders DEF Refreshed
<1> QED
  BY <1>4, <1>5

(* Reconciling client c takes its old share out of the counters and puts   *)
(* its new share in, whatever the provider change and whether the list of  *)
(* c grew, shrank or dropped the model.                                    *)
LEMMA ReconcileCounts ==
    ASSUME NEW reg \in Registration, NEW c \in Clients,
           NEW old \in Nat, NEW new \in Nat,
           NEW oldP \in Providers \cup {NoProvider},
           NEW newP \in Providers \cup {NoProvider},
           old <= reg.count,
           \A p \in Providers :
               /\ Share(oldP, p, old) <= reg.providers[p]
               /\ reg.providers[p] - Share(oldP, p, old) <= reg.count - old
    PROVE  /\ Reconcile(reg, c, old, new, oldP, newP) \in Registration
           /\ Reconcile(reg, c, old, new, oldP, newP).count =
                (reg.count - old) + new
           /\ \A p \in Providers :
                 Reconcile(reg, c, old, new, oldP, newP).providers[p] =
                   (reg.providers[p] - Share(oldP, p, old))
                     + Share(newP, p, new)
<1> DEFINE rest == reg.count - old
           restOf == [p \in Providers |->
                         reg.providers[p] - Share(oldP, p, old)]
           overlap == Lesser(old, new)
           moved == MoveOverlap(reg, oldP, newP, overlap)
<1>0. /\ rest \in Nat
      /\ restOf \in [Providers -> Nat]
      /\ \A p \in Providers : restOf[p] <= rest
      /\ reg.count = rest + old
      /\ \A p \in Providers :
            /\ reg.providers[p] = restOf[p] + Share(oldP, p, old)
            /\ restOf[p] = reg.providers[p] - Share(oldP, p, old)
  BY DEF Registration, Share
<1> HIDE DEF rest, restOf
<1> SUFFICES
      /\ Reconcile(reg, c, old, new, oldP, newP) \in Registration
      /\ Reconcile(reg, c, old, new, oldP, newP).count = rest + new
      /\ \A p \in Providers :
            Reconcile(reg, c, old, new, oldP, newP).providers[p] =
              restOf[p] + Share(newP, p, new)
  BY <1>0 DEF rest
<1>1. overlap \in Nat /\ overlap <= old /\ overlap <= new
  BY <1>0 DEF Lesser
<1>2. /\ moved \in Registration
      /\ moved.count = reg.count
      /\ \A p \in Providers :
            moved.providers[p] = reg.providers[p] -
              Moved(newP, oldP, p, overlap)
  BY <1>0, <1>1, ConstantsAssumption
  DEF MoveOverlap, Withdraw, Registration, Share, Moved
<1>3. oldP \in Providers => reg.providers[oldP] = restOf[oldP] + old
  BY <1>0 DEF Share
<1>4. CASE old = 0 /\ new = 0
  BY <1>0, <1>4 DEF Reconcile, Share
<1>5. CASE new = 0 /\ old # 0
  <2> DEFINE out == removeModelRegistration(moved, c, oldP, old)
  <2>1. Reconcile(reg, c, old, new, oldP, newP) = out
    BY <1>0, <1>5 DEF Reconcile
  <2>2. overlap = 0
    BY <1>0, <1>1, <1>5
  <2>3. \A p \in Providers : moved.providers[p] = reg.providers[p]
    BY <1>0, <1>2, <2>2 DEF Moved, Registration
  <2>4. CASE rest = 0
    <3>1. out = NoRegistration
      BY <1>0, <1>2, <2>4 DEF removeModelRegistration
    <3>2. \A p \in Providers : restOf[p] = 0
      BY <1>0, <2>4
    <3> QED
      BY <1>0, <1>5, <2>1, <2>4, <3>1, <3>2 DEF NoRegistration, Registration, Share, Moved
  <2>5. CASE rest # 0
    <3>1. old < moved.count
      BY <1>0, <1>2, <2>5
    <3>2. oldP \in Providers => old <= moved.providers[oldP]
      BY <1>0, <1>3, <2>3
    <3>3. /\ out \in Registration
          /\ out.count = moved.count - old
          /\ \A p \in Providers :
                out.providers[p] = moved.providers[p] - Share(oldP, p, old)
      BY <1>0, <1>2, <3>1, <3>2, RemoveCounts
    <3> HIDE DEF out, moved
    <3> QED
      BY <1>0, <1>2, <1>5, <2>1, <2>3, <3>3 DEF Share
  <2> QED
    BY <1>0, <2>4, <2>5
<1>6. CASE new # 0 /\ new < old
  <2> DEFINE cut == removeModelRegistration(moved, c, oldP, old - new)
             out == RefreshBinding(cut, c, oldP, newP, overlap)
  <2>1. Reconcile(reg, c, old, new, oldP, newP) = out
    BY <1>0, <1>6 DEF Reconcile
  <2>2. overlap = new
    BY <1>0, <1>6 DEF Lesser
  <2>3. /\ old - new \in Nat
        /\ old - new < moved.count
        /\ oldP \in Providers => old - new <= moved.providers[oldP]
    BY <1>0, <1>2, <1>3, <1>6, <2>2 DEF Moved
  <2> HIDE DEF moved, overlap
  <2>4. /\ cut \in Registration
        /\ cut.count = moved.count - (old - new)
        /\ \A p \in Providers :
              cut.providers[p] = moved.providers[p]
                                   - Share(oldP, p, old - new)
    BY <1>0, <1>2, <2>3, RemoveCounts
  <2> HIDE DEF cut
  <2>5. Refreshed(out, cut, oldP, newP, overlap)
    <3>1. overlap \in Nat /\ cut \in Registration
      BY <1>1, <2>4
    <3> QED
      BY <3>1, RefreshCounts
  <2> HIDE DEF out
  <2> QED
    BY <1>0, <1>2, <2>1, <2>2, <2>4, <2>5, <1>6 DEF Share, Moved, Refreshed
<1>7. CASE new # 0 /\ ~ (new < old)
  <2> DEFINE grown == addModelRegistration(moved, newP, new - old)
             out == RefreshBinding(grown, c, oldP, newP, overlap)
  <2>1. Reconcile(reg, c, old, new, oldP, newP) = out
    BY <1>0, <1>7 DEF Reconcile
  <2>2. overlap = old /\ new - old \in Nat
    BY <1>0, <1>7 DEF Lesser
  <2> HIDE DEF moved, overlap
  <2>3. /\ grown \in Registration
        /\ grown.count = moved.count + (new - old)
        /\ \A p \in Providers :
              grown.providers[p] = moved.providers[p]
                                     + Share(newP, p, new - old)
    BY <1>0, <1>2, <2>2, AddCounts
  <2> HIDE DEF grown
  <2>4. Refreshed(out, grown, oldP, newP, overlap)
    <3>1. overlap \in Nat /\ grown \in Registration
      BY <1>1, <2>3
    <3> QED
      BY <3>1, RefreshCounts
  <2> HIDE DEF out
  <2> QED
    BY <1>0, <1>2, <2>1, <2>2, <2>3, <2>4, <1>7
    DEF Share, Moved, Refreshed
<1> QED
  BY <1>0, <1>4, <1>5, <1>6, <1>7

----------------------------------------------------------------------------
(* From one registration to the registry. *)

(* The counters of registration reg of model m summarise lists f and       *)
(* providers prov.                                                         *)
Tally(reg, m, f, prov) ==
    /\ reg.count = Cardinality(Held(f, m, Clients))
    /\ \A p \in Providers :
          reg.providers[p] = Cardinality(Held(f, m, OwnersOf(prov, p)))

(* The bindings of model m that clients other than c hold, all of them and *)
(* those of each provider.                                                 *)
Others(f, m, c) == Cardinality(Held(f, m, Clients \ {c}))

OthersOf(f, m, c, prov) ==
    [p \in Providers |-> Cardinality(Held(f, m, OwnersOf(prov, p) \ {c}))]

LEMMA OthersBound ==
    ASSUME NEW f, NEW m, NEW c, NEW prov
    PROVE  /\ Others(f, m, c) \in Nat
           /\ OthersOf(f, m, c, prov) \in [Providers -> Nat]
           /\ \A p \in Providers :
                 OthersOf(f, m, c, prov)[p] <= Others(f, m, c)
<1>1. Others(f, m, c) \in Nat
  BY HeldFinite DEF Others
<1>2. \A p \in Providers :
         Cardinality(Held(f, m, OwnersOf(prov, p) \ {c})) \in Nat
  BY HeldFinite
<1>3. ASSUME NEW p \in Providers
      PROVE  Cardinality(Held(f, m, OwnersOf(prov, p) \ {c}))
               <= Others(f, m, c)
  <2>1. OwnersOf(prov, p) \ {c} \subseteq Clients \ {c}
    BY DEF OwnersOf
  <2> QED
    BY <2>1, HeldMonotone DEF Others
<1> QED
  BY <1>1, <1>2, <1>3 DEF OthersOf

(* A tally is the others' part plus client c's own.                        *)
LEMMA TallySplit ==
    ASSUME NEW f \in [Clients -> ModelLists], NEW m \in Models,
           NEW prov \in [Clients -> Providers \cup {NoProvider}],
           NEW c \in Clients, NEW reg \in Registration
    PROVE  Tally(reg, m, f, prov) <=>
             /\ reg.count = Others(f, m, c) + f[c][m]
             /\ \A p \in Providers :
                   reg.providers[p] = OthersOf(f, m, c, prov)[p]
                                        + Share(prov[c], p, f[c][m])
<1>1. Cardinality(Held(f, m, Clients)) = Others(f, m, c) + f[c][m]
  BY HeldSplit DEF Others, Own
<1>2. ASSUME NEW p \in Providers
      PROVE  Cardinality(Held(f, m, OwnersOf(prov, p))) =
               OthersOf(f, m, c, prov)[p] + Share(prov[c], p, f[c][m])
  <2>1. OwnersOf(prov, p) \in SUBSET Clients
    BY DEF OwnersOf
  <2>2. Own(c, OwnersOf(prov, p), f[c][m]) = Share(prov[c], p, f[c][m])
    BY DEF Own, Share, OwnersOf
  <2>3. Cardinality(Held(f, m, OwnersOf(prov, p))) =
          Cardinality(Held(f, m, OwnersOf(prov, p) \ {c}))
            + Own(c, OwnersOf(prov, p), f[c][m])
    BY <2>1, HeldSplit
  <2> QED
    BY <2>2, <2>3 DEF OthersOf
<1> QED
  BY <1>1, <1>2 DEF Tally

(* What the others hold survives a change of c's list and provider.        *)
LEMMA OthersStay ==
    ASSUME NEW f, NEW g, NEW prov, NEW owns, NEW m, NEW c,
           \A d \in Clients \ {c} : f[d] = g[d],
           \A d \in Clients \ {c} : prov[d] = owns[d]
    PROVE  /\ Others(g, m, c) = Others(f, m, c)
           /\ OthersOf(g, m, c, owns) = OthersOf(f, m, c, prov)
<1>1. Held(g, m, Clients \ {c}) = Held(f, m, Clients \ {c})
  BY HeldByOthers
<1>2. ASSUME NEW p \in Providers
      PROVE  Held(g, m, OwnersOf(owns, p) \ {c}) =
               Held(f, m, OwnersOf(prov, p) \ {c})
  <2>1. OwnersOf(owns, p) \ {c} = OwnersOf(prov, p) \ {c}
    BY DEF OwnersOf
  <2>2. OwnersOf(prov, p) \in SUBSET Clients
    BY DEF OwnersOf
  <2>3. Held(g, m, OwnersOf(prov, p) \ {c}) =
          Held(f, m, OwnersOf(prov, p) \ {c})
    BY <2>2, HeldByOthers
  <2> QED
    BY <2>1, <2>3
<1>3. OthersOf(g, m, c, owns) = OthersOf(f, m, c, prov)
  BY <1>2 DEF OthersOf
<1> QED
  BY <1>1, <1>3 DEF Others

(* A registration that holds the others' part plus c's new share is the    *)
(* tally of the new lists and providers.                                   *)
LEMMA TallyRebound ==
    ASSUME NEW f \in [Clients -> ModelLists], NEW m \in Models,
           NEW prov \in [Clients -> Providers \cup {NoProvider}],
           NEW c \in Clients, NEW list \in ModelLists,
           NEW newP \in Providers \cup {NoProvider},
           NEW reg \in Registration,
           reg.count = Others(f, m, c) + list[m],
           \A p \in Providers :
               reg.providers[p] = OthersOf(f, m, c, prov)[p]
                                    + Share(newP, p, list[m])
    PROVE  Tally(reg, m, [f EXCEPT ![c] = list], [prov EXCEPT ![c] = newP])
<1> DEFINE g == [f EXCEPT ![c] = list]
           owns == [prov EXCEPT ![c] = newP]
<1>1. /\ g \in [Clients -> ModelLists] /\ g[c] = list
      /\ owns \in [Clients -> Providers \cup {NoProvider}]
      /\ owns[c] = newP
      /\ \A d \in Clients \ {c} : f[d] = g[d]
      /\ \A d \in Clients \ {c} : prov[d] = owns[d]
  OBVIOUS
<1> HIDE DEF g, owns
<1>2. /\ Others(g, m, c) = Others(f, m, c)
      /\ OthersOf(g, m, c, owns) = OthersOf(f, m, c, prov)
  BY <1>1, OthersStay
<1>3. Tally(reg, m, g, owns)
  BY <1>1, <1>2, TallySplit
<1> QED
  BY <1>3 DEF g, owns

----------------------------------------------------------------------------
(* The three ways a registration changes hands: each turns a tally of the  *)
(* old lists into a tally of the new ones.                                 *)

LEMMA ReconcileTally ==
    ASSUME NEW f \in [Clients -> ModelLists], NEW m \in Models,
           NEW prov \in [Clients -> Providers \cup {NoProvider}],
           NEW c \in Clients, NEW list \in ModelLists,
           NEW p \in Providers \cup {NoProvider},
           NEW reg \in Registration,
           Tally(reg, m, f, prov)
    PROVE  LET out == Reconcile(reg, c, f[c][m], list[m], prov[c], p)
           IN  /\ out \in Registration
               /\ Tally(out, m, [f EXCEPT ![c] = list],
                                [prov EXCEPT ![c] = p])
<1> DEFINE rest   == Others(f, m, c)
           restOf == OthersOf(f, m, c, prov)
           out    == Reconcile(reg, c, f[c][m], list[m], prov[c], p)
<1>1. f[c][m] \in Nat /\ list[m] \in Nat /\ prov[c] \in Providers \cup {NoProvider}
  BY ConstantsAssumption DEF ModelLists
<1>2. /\ reg.count = rest + f[c][m]
      /\ \A q \in Providers :
            reg.providers[q] = restOf[q] + Share(prov[c], q, f[c][m])
  BY TallySplit
<1>3. /\ rest \in Nat
      /\ restOf \in [Providers -> Nat]
      /\ \A q \in Providers : restOf[q] <= rest
  BY OthersBound
<1> HIDE DEF rest, restOf
<1>4. /\ out \in Registration
      /\ out.count = rest + list[m]
      /\ \A q \in Providers :
            out.providers[q] = restOf[q] + Share(p, q, list[m])
  <2> DEFINE old == f[c][m]
             oldP == prov[c]
             new == list[m]
  <2>1. /\ old \in Nat /\ new \in Nat
        /\ oldP \in Providers \cup {NoProvider}
        /\ old <= reg.count
        /\ \A q \in Providers :
              /\ Share(oldP, q, old) <= reg.providers[q]
              /\ reg.providers[q] - Share(oldP, q, old) <= reg.count - old
    BY <1>1, <1>2, <1>3 DEF Share
  <2> HIDE DEF old, oldP, new, out
  <2>2. /\ Reconcile(reg, c, old, new, oldP, p) \in Registration
        /\ Reconcile(reg, c, old, new, oldP, p).count =
             (reg.count - old) + new
        /\ \A q \in Providers :
              Reconcile(reg, c, old, new, oldP, p).providers[q] =
                (reg.providers[q] - Share(oldP, q, old)) + Share(p, q, new)
    <3>1. Reconcile(reg, c, old, new, oldP, p) \in Registration
      BY <2>1, ReconcileCounts
    <3>2. Reconcile(reg, c, old, new, oldP, p).count = (reg.count - old) + new
      BY <2>1, ReconcileCounts
    <3>3. ASSUME NEW q \in Providers
          PROVE  Reconcile(reg, c, old, new, oldP, p).providers[q] =
                   (reg.providers[q] - Share(oldP, q, old)) + Share(p, q, new)
      BY <2>1, ReconcileCounts
    <3> QED
      BY <3>1, <3>2, <3>3
  <2>3. /\ reg.count - old = rest
        /\ \A q \in Providers :
              reg.providers[q] - Share(oldP, q, old) = restOf[q]
    BY <1>1, <1>2, <1>3 DEF Share, old, oldP
  <2> QED
    BY <2>2, <2>3 DEF old, oldP, new, out
<1> HIDE DEF out
<1>5. Tally(out, m, [f EXCEPT ![c] = list], [prov EXCEPT ![c] = p])
  BY <1>4, TallyRebound DEF rest, restOf
<1> QED
  BY <1>4, <1>5 DEF out

(* Unregistration is the reconciliation of an emptied list.                *)
LEMMA UnregisterTally ==
    ASSUME NEW f \in [Clients -> ModelLists], NEW m \in Models,
           NEW prov \in [Clients -> Providers \cup {NoProvider}],
           NEW c \in Clients,
           NEW reg \in Registration,
           Tally(reg, m, f, prov)
    PROVE  LET out == IF f[c][m] = 0 THEN reg
                      ELSE removeModelRegistration(reg, c, prov[c], f[c][m])
           IN  /\ out \in Registration
               /\ Tally(out, m, [f EXCEPT ![c] = NoModels],
                                [prov EXCEPT ![c] = NoProvider])
<1> DEFINE rest   == Others(f, m, c)
           restOf == OthersOf(f, m, c, prov)
           out    == Reconcile(reg, c, f[c][m], 0, prov[c], prov[c])
<1>1. /\ f[c][m] \in Nat
      /\ prov[c] \in Providers \cup {NoProvider}
      /\ NoModels \in ModelLists /\ NoModels[m] = 0
  BY ConstantsAssumption DEF ModelLists, NoModels
<1>2. /\ reg.count = rest + f[c][m]
      /\ \A q \in Providers :
            reg.providers[q] = restOf[q] + Share(prov[c], q, f[c][m])
  BY TallySplit
<1>3. /\ rest \in Nat
      /\ restOf \in [Providers -> Nat]
      /\ \A q \in Providers : restOf[q] <= rest
  BY OthersBound
<1> HIDE DEF rest, restOf
<1>4. /\ out \in Registration
      /\ out.count = rest + 0
      /\ \A q \in Providers :
            out.providers[q] = restOf[q] + Share(prov[c], q, 0)
  <2> DEFINE old == f[c][m]
             oldP == prov[c]
  <2>1. /\ old \in Nat
        /\ oldP \in Providers \cup {NoProvider}
        /\ old <= reg.count
        /\ \A q \in Providers :
              /\ Share(oldP, q, old) <= reg.providers[q]
              /\ reg.providers[q] - Share(oldP, q, old) <= reg.count - old
    BY <1>1, <1>2, <1>3 DEF Share
  <2> HIDE DEF old, oldP
  <2>2. /\ Reconcile(reg, c, old, 0, oldP, oldP) \in Registration
        /\ Reconcile(reg, c, old, 0, oldP, oldP).count = (reg.count - old) + 0
        /\ \A q \in Providers :
              Reconcile(reg, c, old, 0, oldP, oldP).providers[q] =
                (reg.providers[q] - Share(oldP, q, old)) + Share(oldP, q, 0)
    BY <2>1, ReconcileCounts
  <2>3. /\ reg.count - old = rest
        /\ \A q \in Providers :
              reg.providers[q] - Share(oldP, q, old) = restOf[q]
    BY <1>1, <1>2, <1>3 DEF Share, old, oldP
  <2> QED
    BY <2>2, <2>3 DEF old, oldP
<1>5. out = IF f[c][m] = 0 THEN reg
            ELSE removeModelRegistration(reg, c, prov[c], f[c][m])
  BY <1>1 DEF Reconcile, MoveOverlap
<1> HIDE DEF out
<1>6. /\ out.count = rest + NoModels[m]
      /\ \A q \in Providers :
            out.providers[q] = restOf[q] + Share(NoProvider, q, NoModels[m])
  BY <1>1, <1>4 DEF Share
<1>7. Tally(out, m, [f EXCEPT ![c] = NoModels],
                    [prov EXCEPT ![c] = NoProvider])
  BY <1>1, <1>4, <1>6, TallyRebound DEF rest, restOf
<1> QED
  BY <1>4, <1>5, <1>7

(* A client that listed nothing only adds.                                 *)
LEMMA AdditionTally ==
    ASSUME NEW f \in [Clients -> ModelLists], NEW m \in Models,
           NEW prov \in [Clients -> Providers \cup {NoProvider}],
           NEW c \in Clients, NEW list \in ModelLists,
           NEW p \in Providers \cup {NoProvider},
           NEW reg \in Registration,
           f[c] = NoModels,
           Tally(reg, m, f, prov)
    PROVE  LET out == IF list[m] = 0 THEN reg
                      ELSE addModelRegistration(reg, p, list[m])
           IN  /\ out \in Registration
               /\ Tally(out, m, [f EXCEPT ![c] = list],
                                [prov EXCEPT ![c] = p])
<1> DEFINE rest   == Others(f, m, c)
           restOf == OthersOf(f, m, c, prov)
           out    == IF list[m] = 0 THEN reg
                     ELSE addModelRegistration(reg, p, list[m])
<1>1. f[c][m] = 0 /\ list[m] \in Nat
  BY ConstantsAssumption DEF ModelLists, NoModels
<1>2. /\ reg.count = rest + f[c][m]
      /\ \A q \in Providers :
            reg.providers[q] = restOf[q] + Share(prov[c], q, f[c][m])
  BY TallySplit
<1>3. rest \in Nat /\ restOf \in [Providers -> Nat]
  BY OthersBound
<1> HIDE DEF rest, restOf
<1>4. reg.count = rest /\ \A q \in Providers : reg.providers[q] = restOf[q]
  BY <1>1, <1>2, <1>3 DEF Share
<1>5. /\ out \in Registration
      /\ out.count = rest + list[m]
      /\ \A q \in Providers :
            out.providers[q] = restOf[q] + Share(p, q, list[m])
  <2>1. CASE list[m] = 0
    BY <1>3, <1>4, <2>1 DEF Share
  <2>2. CASE list[m] # 0
    <3>1. out = addModelRegistration(reg, p, list[m])
      BY <2>2
    <3>2. /\ out \in Registration /\ out.count = reg.count + list[m]
          /\ \A q \in Providers :
                out.providers[q] = reg.providers[q] + Share(p, q, list[m])
      BY <1>1, <3>1, AddCounts
    <3> HIDE DEF out
    <3> QED
      BY <1>4, <3>2
  <2> QED
    BY <2>1, <2>2
<1> HIDE DEF out
<1>6. Tally(out, m, [f EXCEPT ![c] = list], [prov EXCEPT ![c] = p])
  BY <1>5, TallyRebound DEF rest, restOf
<1> QED
  BY <1>5, <1>6 DEF out

----------------------------------------------------------------------------
(* The invariant. *)

(* TypeOK is not inductive without CountsMatchBindings in this proof: the  *)
(* counters stay natural numbers because nothing more than what a client   *)
(* holds is ever taken from them.                                          *)
IInv == TypeOK /\ CountsMatchBindings

Tallied ==
    \A m \in Models : Tally(models[m], m, clientModels, clientProviders)

LEMMA TalliedIsCounts == CountsMatchBindings <=> Tallied
<1>1. \A m : Bindings(m) = Held(clientModels, m, Clients)
  BY DEF Bindings, Held
<1>2. \A m, p : BindingsOf(m, p) =
                  Held(clientModels, m, OwnersOf(clientProviders, p))
  BY DEF Bindings, BindingsOf, Held, OwnersOf
<1> QED
  BY <1>1, <1>2 DEF CountsMatchBindings, Tallied, Tally

LEMMA CountsStay ==
    ASSUME CountsMatchBindings,
           UNCHANGED <<clientModels, clientProviders>>,
           \A m \in Models : /\ models'[m].count = models[m].count
                             /\ models'[m].providers = models[m].providers
    PROVE  CountsMatchBindings'
<1>1. \A m : Bindings(m)' = Bindings(m)
  BY DEF Bindings
<1>2. \A m, p : BindingsOf(m, p)' = BindingsOf(m, p)
  BY DEF Bindings, BindingsOf
<1> QED
  BY <1>1, <1>2 DEF CountsMatchBindings

(* The three effects of RegisterClient and UnregisterClient keep both.     *)
LEMMA RebindingStep ==
    ASSUME IInv, NEW c \in Clients, NEW list \in ModelLists,
           NEW p \in Providers \cup {NoProvider}, NEW regs,
           \A m \in Models :
               /\ regs[m] \in Registration
               /\ Tally(regs[m], m, [clientModels EXCEPT ![c] = list],
                        [clientProviders EXCEPT ![c] = p]),
           models' = [m \in Models |-> regs[m]],
           clientModels' = [clientModels EXCEPT ![c] = list],
           clientProviders' = [clientProviders EXCEPT ![c] = p],
           cache' = NoCache,
           UNCHANGED <<now, asOf>>
    PROVE  IInv'
<1>1. TypeOK'
  BY DEF IInv, TypeOK
<1>2. \A m \in Models : Tally(models'[m], m, clientModels', clientProviders')
  OBVIOUS
<1>3. \A m : Bindings(m)' = Held(clientModels', m, Clients)
  BY DEF Bindings, Held
<1>4. \A m, q : BindingsOf(m, q)' =
                  Held(clientModels', m, OwnersOf(clientProviders', q))
  BY DEF Bindings, BindingsOf, Held, OwnersOf
<1>5. CountsMatchBindings'
  BY <1>2, <1>3, <1>4 DEF CountsMatchBindings, Tally
<1> QED
  BY <1>1, <1>5 DEF IInv

LEMMA UnregisterStep ==
    ASSUME IInv, NEW c \in Clients,
           unregisterClientInternal(c), cache' = NoCache,
           UNCHANGED <<now, asOf>>
    PROVE  IInv'
<1> DEFINE regs == [m \in Models |->
                      IF clientModels[c][m] = 0
                      THEN models[m]
                      ELSE removeModelRegistration(models[m], c,
                               clientProviders[c], clientModels[c][m])]
<1>1. /\ Tallied
      /\ models \in [Models -> Registration]
      /\ clientModels \in [Clients -> ModelLists]
      /\ clientProviders \in [Clients -> Providers \cup {NoProvider}]
  BY TalliedIsCounts DEF IInv, TypeOK
<1>2. \A m \in Models :
         /\ regs[m] \in Registration
         /\ Tally(regs[m], m, [clientModels EXCEPT ![c] = NoModels],
                  [clientProviders EXCEPT ![c] = NoProvider])
  BY <1>1, UnregisterTally DEF Tallied
<1>3. NoModels \in ModelLists
  BY ConstantsAssumption DEF NoModels, ModelLists
<1>4. /\ models' = [m \in Models |-> regs[m]]
      /\ clientModels' = [clientModels EXCEPT ![c] = NoModels]
      /\ clientProviders' = [clientProviders EXCEPT ![c] = NoProvider]
  BY DEF unregisterClientInternal
<1> HIDE DEF regs
<1> QED
  BY <1>2, <1>3, <1>4, RebindingStep

LEMMA RegisterStep ==
    ASSUME IInv, NEW c \in Clients, NEW p \in Arguments,
           NEW list \in BoundedLists, RegisterClient(c, p, list)
    PROVE  IInv'
<1>1. /\ Tallied
      /\ models \in [Models -> Registration]
      /\ clientModels \in [Clients -> ModelLists]
      /\ clientProviders \in [Clients -> Providers \cup {NoProvider}]
      /\ list \in ModelLists
      /\ p \in Providers \cup {NoProvider}
  BY TalliedIsCounts, ConstantsAssumption DEF IInv, TypeOK, BoundedLists
<1>2. CASE list = NoModels
  BY <1>2, UnregisterStep DEF RegisterClient
<1>3. CASE list # NoModels /\ clientModels[c] = NoModels
  <2> DEFINE regs == [m \in Models |->
                        IF list[m] = 0 THEN models[m]
                        ELSE addModelRegistration(models[m], p, list[m])]
  <2>1. \A m \in Models :
           /\ regs[m] \in Registration
           /\ Tally(regs[m], m, [clientModels EXCEPT ![c] = list],
                    [clientProviders EXCEPT ![c] = p])
    BY <1>1, <1>3, AdditionTally DEF Tallied
  <2>2. /\ models' = [m \in Models |-> regs[m]]
        /\ clientModels' = [clientModels EXCEPT ![c] = list]
        /\ clientProviders' = [clientProviders EXCEPT ![c] = p]
        /\ cache' = NoCache
        /\ UNCHANGED <<now, asOf>>
    BY <1>3 DEF RegisterClient, PureAddition
  <2> HIDE DEF regs
  <2> QED
    BY <1>1, <2>1, <2>2, RebindingStep
<1>4. CASE list # NoModels /\ clientModels[c] # NoModels
  <2> DEFINE regs == [m \in Models |->
                        Reconcile(models[m], c, clientModels[c][m], list[m],
                                  clientProviders[c], p)]
  <2>1. \A m \in Models :
           /\ regs[m] \in Registration
           /\ Tally(regs[m], m, [clientModels EXCEPT ![c] = list],
                    [clientProviders EXCEPT ![c] = p])
    BY <1>1, ReconcileTally DEF Tallied
  <2>2. /\ models' = [m \in Models |-> regs[m]]
        /\ clientModels' = [clientModels EXCEPT ![c] = list]
        /\ clientProviders' = [clientProviders EXCEPT ![c] = p]
        /\ cache' = NoCache
        /\ UNCHANGED <<now, asOf>>
    BY <1>4 DEF RegisterClient, ReconcileExisting
  <2> HIDE DEF regs
  <2> QED
    BY <1>1, <2>1, <2>2, RebindingStep
<1> QED
  BY <1>2, <1>3, <1>4

(* Marks move no counter.                                                  *)
LEMMA MarkStep ==
    ASSUME IInv,
           \/ \E c \in Clients, m \in Models :
                 \/ SetModelQuotaExceeded(c, m)
                 \/ ClearModelQuotaExceeded(c, m)
                 \/ \E reason \in Reasons : SuspendClientModel(c, m, reason)
                 \/ ResumeClientModel(c, m)
           \/ CleanupExpiredQuotas
    PROVE  IInv'
<1>1. /\ UNCHANGED <<clientModels, clientProviders, now, asOf>>
      /\ cache' = NoCache
  BY DEF SetModelQuotaExceeded, ClearModelQuotaExceeded, SuspendClientModel,
         ResumeClientModel, CleanupExpiredQuotas
<1> DEFINE Marked ==
             /\ models' \in [Models -> Registration]
             /\ \A m \in Models : /\ models'[m].count = models[m].count
                                  /\ models'[m].providers = models[m].providers
<1>2. Marked
  <2>1. models \in [Models -> Registration] /\ now \in Time
    BY DEF IInv, TypeOK
  <2>2. ASSUME NEW m \in Models, NEW reg \in Registration,
               reg.count = models[m].count,
               reg.providers = models[m].providers,
               models' = [models EXCEPT ![m] = reg]
        PROVE  Marked
    BY <2>1, <2>2
  <2>3. ASSUME NEW c \in Clients, NEW m \in Models,
               NEW t \in Time \cup {None},
               models' = [models EXCEPT ![m].quota[c] = t]
        PROVE  Marked
    <3> DEFINE reg == [models[m] EXCEPT !.quota[c] = t]
    <3>1. /\ reg \in Registration
          /\ reg.count = models[m].count
          /\ reg.providers = models[m].providers
      BY <2>1 DEF Registration
    <3>2. models' = [models EXCEPT ![m] = reg]
      BY <2>3
    <3> HIDE DEF reg, Marked
    <3> QED
      BY <2>2, <3>1, <3>2
  <2>4. ASSUME NEW c \in Clients, NEW m \in Models,
               NEW reason \in Reasons \cup {None},
               models' = [models EXCEPT ![m].suspended[c] = reason]
        PROVE  Marked
    <3> DEFINE reg == [models[m] EXCEPT !.suspended[c] = reason]
    <3>1. /\ reg \in Registration
          /\ reg.count = models[m].count
          /\ reg.providers = models[m].providers
      BY <2>1 DEF Registration
    <3>2. models' = [models EXCEPT ![m] = reg]
      BY <2>4
    <3> HIDE DEF reg, Marked
    <3> QED
      BY <2>2, <3>1, <3>2
  <2>5. ASSUME CleanupExpiredQuotas
        PROVE  Marked
    BY <2>1, <2>5 DEF CleanupExpiredQuotas, Registration
  <2>6. ASSUME NEW c \in Clients, NEW m \in Models,
               \/ SetModelQuotaExceeded(c, m)
               \/ ClearModelQuotaExceeded(c, m)
               \/ \E reason \in Reasons : SuspendClientModel(c, m, reason)
               \/ ResumeClientModel(c, m)
        PROVE  Marked
    <3> HIDE DEF Marked
    <3> QED
      BY <2>1, <2>3, <2>4, <2>6
      DEF SetModelQuotaExceeded, ClearModelQuotaExceeded, SuspendClientModel,
          ResumeClientModel
  <2> QED
    BY <2>5, <2>6
<1>3. TypeOK'
  BY <1>1, <1>2 DEF IInv, TypeOK
<1>4. CountsMatchBindings'
  BY <1>1, <1>2, CountsStay DEF IInv
<1> QED
  BY <1>3, <1>4 DEF IInv

(* The earliest recovery exists, and is an instant.                        *)
LEMMA BuiltEntry ==
    ASSUME TypeOK, NEW at \in Time
    PROVE  LET entry == buildAvailableModelsLocked(at)
           IN  /\ entry \in CacheEntry
               /\ entry.listed = ListedModels(at)
               /\ IF RecoveryTimes(at) = {} THEN entry.expiresAt = None
                  ELSE /\ entry.expiresAt \in Nat
                       /\ \A u \in RecoveryTimes(at) : entry.expiresAt <= u
<1> DEFINE S == RecoveryTimes(at)
           R == {ss \in Nat \X Nat : ss[1] < ss[2]}
           first == CHOOSE t \in S : \A u \in S : t <= u
<1>1. S \subseteq 0..(MaxNow + Window)
  BY ConstantsAssumption
  DEF TypeOK, RecoveryTimes, OverQuota, Registration, Time
<1>2. CASE S = {}
  BY <1>2 DEF buildAvailableModelsLocked, CacheEntry, ListedModels
<1>3. CASE S # {}
  <2> HIDE DEF S
  <2>1. S \subseteq Nat
    BY <1>1, ConstantsAssumption
  <2>2. IsWellFoundedOn(R, Nat)
    BY NatLessThanWellFounded DEF OpToRel
  <2>3. \A x, y \in Nat : x < y => <<x, y>> \in R
    OBVIOUS
  <2> HIDE DEF R
  <2>4. PICK t \in S : \A u \in S : ~ (<<u, t>> \in R)
    BY <1>3, <2>1, <2>2, WFMin
  <2>5. ASSUME NEW u \in S PROVE t <= u
    <3>1. u \in Nat /\ t \in Nat
      BY <2>1
    <3>2. ~ (u < t)
      BY <2>3, <2>4, <3>1
    <3> QED
      BY <3>1, <3>2
  <2>6. first \in S /\ \A u \in S : first <= u
    BY <2>4, <2>5
  <2> QED
    BY <1>1, <1>3, <2>6
    DEF buildAvailableModelsLocked, CacheEntry, ListedModels, S
<1> QED
  BY <1>2, <1>3

(* Readers and the clock move no registration.                             *)
LEMMA ReaderStep ==
    ASSUME IInv,
           \/ \E r \in Readers : ReadClock(r) \/ GetAvailableModels(r)
           \/ Tick
           \/ UNCHANGED vars
    PROVE  IInv'
<1>1. UNCHANGED <<models, clientModels, clientProviders>>
  BY DEF ReadClock, GetAvailableModels, Tick, vars
<1>2. CountsMatchBindings'
  BY <1>1, CountsStay DEF IInv
<1> DEFINE Typed == /\ cache' \in CacheEntry \cup {NoCache}
                    /\ now' \in Time
                    /\ asOf' \in [Readers -> Time \cup {None}]
<1>3. Typed
  <2>1. ASSUME NEW r \in Readers, ReadClock(r)
        PROVE  Typed
    BY <2>1 DEF ReadClock, IInv, TypeOK
  <2>2. ASSUME NEW r \in Readers, GetAvailableModels(r)
        PROVE  Typed
    <3>1. asOf[r] \in Time
      BY <2>2 DEF GetAvailableModels, IInv, TypeOK
    <3>2. buildAvailableModelsLocked(asOf[r]) \in CacheEntry
      BY <3>1, BuiltEntry DEF IInv
    <3> QED
      BY <2>2, <3>2 DEF GetAvailableModels, IInv, TypeOK
  <2>3. ASSUME Tick
        PROVE  Typed
    BY <2>3, ConstantsAssumption DEF Tick, IInv, TypeOK, Time
  <2>4. ASSUME UNCHANGED vars
        PROVE  Typed
    BY <2>4 DEF vars, IInv, TypeOK
  <2> QED
    BY <2>1, <2>2, <2>3, <2>4
<1>4. TypeOK'
  BY <1>1, <1>3 DEF IInv, TypeOK
<1> QED
  BY <1>2, <1>4 DEF IInv

(* Nothing is registered and nothing is listed at the start.               *)
LEMMA InitInvariant == Init => IInv
<1> SUFFICES ASSUME Init PROVE IInv
  OBVIOUS
<1>1. TypeOK
  BY ConstantsAssumption
  DEF Init, TypeOK, Registration, NoRegistration, NoModels, ModelLists, Time
<1>2. \A m \in Models : \A C : Held(clientModels, m, C) = {}
  BY ConstantsAssumption DEF Init, Held, NoModels
<1>3. Tallied
  BY <1>2, FS_EmptySet DEF Tallied, Tally, Init, NoRegistration
<1> QED
  BY <1>1, <1>3, TalliedIsCounts DEF IInv

LEMMA NextInvariant == IInv /\ [Next]_vars => IInv'
<1> SUFFICES ASSUME IInv, [Next]_vars PROVE IInv'
  OBVIOUS
<1>1. ASSUME NEW c \in Clients, NEW p \in Arguments,
             NEW list \in BoundedLists, RegisterClient(c, p, list)
      PROVE  IInv'
  BY <1>1, RegisterStep
<1>2. ASSUME NEW c \in Clients, UnregisterClient(c)
      PROVE  IInv'
  BY <1>2, UnregisterStep DEF UnregisterClient
<1> QED
  BY <1>1, <1>2, MarkStep, ReaderStep DEF Next

LEMMA Invariance == Spec => []IInv
BY InitInvariant, NextInvariant, PTL DEF Spec

(* Every variable of the registry keeps its type, whatever the clients,    *)
(* models, providers and bounds.                                           *)
THEOREM TypeCorrect == Spec => []TypeOK
<1>1. IInv => TypeOK
  BY DEF IInv
<1> QED
  BY <1>1, Invariance, PTL

(* The reference counts of every model and provider equal the bindings     *)
(* they summarise after any sequence of registrations, re-registrations    *)
(* with other lists or another provider, and unregistrations.              *)
THEOREM CountsCorrect == Spec => []CountsMatchBindings
<1>1. IInv => CountsMatchBindings
  BY DEF IInv
<1> QED
  BY <1>1, Invariance, PTL

----------------------------------------------------------------------------
(* The cached listing. *)

(* What is cached was built for the registrations as they are, at an       *)
(* instant that has passed; readers hold clocks that they have read.       *)
BuiltOnce ==
    /\ cache # NoCache =>
          \E at \in 0..now : cache = buildAvailableModelsLocked(at)
    /\ \A r \in Readers : asOf[r] # None => asOf[r] <= now

LEMMA CacheInit == Init => BuiltOnce
BY DEF Init, BuiltOnce, NoCache

(* A step that changes registrations drops the entry.                      *)
LEMMA CacheStep == TypeOK /\ BuiltOnce /\ [Next]_vars => BuiltOnce'
<1> SUFFICES ASSUME TypeOK, BuiltOnce, [Next]_vars PROVE BuiltOnce'
  OBVIOUS
<1>0. now \in Nat /\ asOf \in [Readers -> Time \cup {None}] /\ None \notin Time
  BY ConstantsAssumption DEF TypeOK, Time
<1>1. ASSUME cache' = NoCache, UNCHANGED <<now, asOf>> PROVE BuiltOnce'
  BY <1>1 DEF BuiltOnce
<1>2. ASSUME UNCHANGED <<models, asOf, cache>>, now' >= now, now' \in Nat PROVE BuiltOnce'
  <2>1. \A at : buildAvailableModelsLocked(at)' = buildAvailableModelsLocked(at)
    BY <1>2 DEF buildAvailableModelsLocked, ListedModels, Listed, RecoveryTimes, OverQuota,
                OtherSuspended, CooldownSuspended, Registered
  <2>2. ASSUME cache' # NoCache PROVE (\E at \in 0..now : cache = buildAvailableModelsLocked(at))'
    <3>1. PICK at \in 0..now : cache = buildAvailableModelsLocked(at)
      BY <1>2, <2>2 DEF BuiltOnce, NoCache
    <3>2. at \in 0..now' /\ cache' = buildAvailableModelsLocked(at)'
      BY <1>0, <1>2, <2>1, <3>1
    <3> QED
      BY <3>2
  <2>3. \A r \in Readers : asOf'[r] # None => asOf'[r] <= now'
    BY <1>0, <1>2, ConstantsAssumption DEF BuiltOnce, Time
  <2> QED
    BY <2>2, <2>3 DEF BuiltOnce, NoCache
<1>3. ASSUME NEW r \in Readers, ReadClock(r) PROVE BuiltOnce'
  <2>1. UNCHANGED <<models, cache, now>> /\ asOf' = [asOf EXCEPT ![r] = now]
    BY <1>3 DEF ReadClock
  <2>2. \A at : buildAvailableModelsLocked(at)' = buildAvailableModelsLocked(at)
    BY <2>1 DEF buildAvailableModelsLocked, ListedModels, Listed, RecoveryTimes, OverQuota,
                OtherSuspended, CooldownSuspended, Registered
  <2>3. \A u \in Readers : asOf'[u] # None => asOf'[u] <= now'
    BY <1>0, <2>1 DEF BuiltOnce
  <2> QED
    BY <2>1, <2>2, <2>3 DEF BuiltOnce, NoCache
<1>4. ASSUME NEW r \in Readers, GetAvailableModels(r) PROVE BuiltOnce'
  <2>1. /\ UNCHANGED <<models, now>> /\ asOf' = [asOf EXCEPT ![r] = None] /\ asOf[r] # None
        /\ cache' = IF Serves(cache, asOf[r]) THEN cache ELSE buildAvailableModelsLocked(asOf[r])
    BY <1>4 DEF GetAvailableModels
  <2>2. \A at : buildAvailableModelsLocked(at)' = buildAvailableModelsLocked(at)
    BY <2>1 DEF buildAvailableModelsLocked, ListedModels, Listed, RecoveryTimes, OverQuota,
                OtherSuspended, CooldownSuspended, Registered
  <2>3. asOf[r] \in 0..now
    BY <1>0, <2>1, ConstantsAssumption DEF BuiltOnce, Time
  <2>4. \E at \in 0..now : cache' = buildAvailableModelsLocked(at)
    <3>1. CASE Serves(cache, asOf[r])
      BY <2>1, <3>1 DEF BuiltOnce, Serves
    <3>2. CASE ~ Serves(cache, asOf[r])
      BY <2>1, <2>3, <3>2
    <3> QED
      BY <3>1, <3>2
  <2>5. \A u \in Readers : asOf'[u] # None => asOf'[u] <= now'
    BY <1>0, <2>1 DEF BuiltOnce
  <2> QED
    BY <2>1, <2>2, <2>4, <2>5 DEF BuiltOnce
<1>5. CASE Tick
  BY <1>0, <1>2, <1>5 DEF Tick
<1>6. CASE UNCHANGED vars
  BY <1>0, <1>2, <1>6 DEF vars
<1>7. CASE \/ \E c \in Clients, p \in Arguments, list \in BoundedLists : RegisterClient(c, p, list)
           \/ \E c \in Clients : UnregisterClient(c)
           \/ \E c \in Clients, m \in Models :
                 \/ SetModelQuotaExceeded(c, m) \/ ClearModelQuotaExceeded(c, m)
                 \/ \E reason \in Reasons : SuspendClientModel(c, m, reason)
                 \/ ResumeClientModel(c, m)
           \/ CleanupExpiredQuotas
  BY <1>1, <1>7 DEF RegisterClient, UnregisterClient, SetModelQuotaExceeded,
     ClearModelQuotaExceeded, SuspendClientModel, ResumeClientModel, CleanupExpiredQuotas
<1> QED
  BY <1>3, <1>4, <1>5, <1>6, <1>7 DEF Next

(* Until the first recovery after the instant an entry was built for,      *)
(* nothing that is listed changes with time alone.                         *)
LEMMA ListingHolds ==
    ASSUME TypeOK, NEW built \in Time, NEW at \in Nat, built <= at,
           \A u \in RecoveryTimes(built) : at < u
    PROVE  ListedModels(at) = ListedModels(built)
<1>1. ASSUME NEW m \in Models
      PROVE  OverQuota(m, at) = OverQuota(m, built)
  <2>1. ASSUME NEW c \in Clients, models[m].quota[c] # None
        PROVE  Recovered(models[m].quota[c], at) <=> Recovered(models[m].quota[c], built)
    <3> DEFINE t == models[m].quota[c]
    <3>1. t \in Nat /\ Window \in Nat /\ built \in Nat
      BY <2>1, ConstantsAssumption DEF TypeOK, Registration, Time
    <3>2. ~ Recovered(t, built) => t + Window \in RecoveryTimes(built)
      BY <2>1 DEF RecoveryTimes, OverQuota
    <3> HIDE DEF t
    <3> QED
      BY <3>1, <3>2 DEF Recovered, t
  <2> QED
    BY <2>1 DEF OverQuota
<1>2. \A m \in Models : Listed(m, at) <=> Listed(m, built)
  BY <1>1 DEF Listed
<1> QED
  BY <1>2 DEF ListedModels

(* A listing that is answered from the cache was right at an instant       *)
(* between the call and the answer: the entry serves until the first       *)
(* recovery it has counted on, and every change of a registration or a     *)
(* mark drops it, whatever clock a reader brings.                          *)
THEOREM CacheCorrect == Spec => []CacheHonest
<1>1. TypeOK /\ BuiltOnce => CacheHonest
  <2> SUFFICES ASSUME TypeOK, BuiltOnce, cache # NoCache, NEW at \in 0..now, Serves(cache, at)
               PROVE  \E t \in at..now : cache.listed = ListedModels(t)
    BY DEF CacheHonest
  <2>1. PICK built \in 0..now : cache = buildAvailableModelsLocked(built)
    BY DEF BuiltOnce
  <2>2. now \in Time /\ now \in Nat /\ built \in Time /\ built \in Nat /\ at \in Nat
    BY ConstantsAssumption DEF TypeOK, Time
  <2>3. /\ cache \in CacheEntry /\ cache.listed = ListedModels(built)
        /\ IF RecoveryTimes(built) = {} THEN cache.expiresAt = None
           ELSE /\ cache.expiresAt \in Nat
                /\ \A u \in RecoveryTimes(built) : cache.expiresAt <= u
    BY <2>1, <2>2, BuiltEntry
  <2>4. CASE at <= built
    BY <2>2, <2>3, <2>4
  <2>5. CASE built < at
    <3>1. ASSUME NEW u \in RecoveryTimes(built) PROVE at < u
      <4>1. u \in Nat
        BY ConstantsAssumption DEF TypeOK, RecoveryTimes, OverQuota, Registration, Time
      <4>2. cache.expiresAt <= u /\ cache.expiresAt \in Nat
        BY <2>3, <3>1
      <4>3. at < cache.expiresAt
        BY <4>2, ConstantsAssumption DEF Serves
      <4> QED
        BY <2>2, <4>1, <4>2, <4>3
    <3>2. ListedModels(at) = ListedModels(built)
      BY <2>2, <2>5, <3>1, ListingHolds
    <3> QED
      BY <2>2, <2>3, <3>2
  <2> QED
    BY <2>2, <2>4, <2>5
<1>2. IInv /\ BuiltOnce /\ [Next]_vars => BuiltOnce'
  BY CacheStep DEF IInv
<1>3. IInv => TypeOK
  BY DEF IInv
<1> QED
  BY <1>1, <1>2, <1>3, CacheInit, Invariance, PTL DEF Spec

----------------------------------------------------------------------------
(* The number of available clients. *)

(* Where a model is listed once, its bindings are as many as its listers.  *)
LEMMA BindingsAreListers ==
    ASSUME NEW m, \A c \in Clients : clientModels[c][m] \in Nat /\ clientModels[c][m] <= 1
    PROVE  IsFiniteSet(Listers(m)) /\ Cardinality(Bindings(m)) = Cardinality(Listers(m))
<1> DEFINE f == [b \in Bindings(m) |-> b[1]]
<1>1. IsFiniteSet(Listers(m))
  BY ConstantsAssumption, FS_Subset DEF Listers
<1>2. ASSUME NEW b \in Bindings(m)
      PROVE  b[1] \in Listers(m) /\ b[2] = 1 /\ b = <<b[1], b[2]>>
  <2>1. /\ b[1] \in Clients /\ b[2] \in 1..MaxDup /\ b[2] <= clientModels[b[1]][m]
        /\ b = <<b[1], b[2]>>
    BY DEF Bindings
  <2> QED
    BY <2>1, ConstantsAssumption DEF Listers
<1>3. ASSUME NEW c \in Listers(m)
      PROVE  <<c, 1>> \in Bindings(m) /\ f[<<c, 1>>] = c
  <2>1. c \in Clients /\ 1 <= clientModels[c][m] /\ 1 \in 1..MaxDup
    BY ConstantsAssumption DEF Listers
  <2> QED
    BY <2>1 DEF Bindings
<1>4. f \in [Bindings(m) -> Listers(m)]
  BY <1>2
<1>5. \A a, b \in Bindings(m) : f[a] = f[b] => a = b
  BY <1>2
<1> HIDE DEF f
<1>6. f \in Injection(Bindings(m), Listers(m))
  BY <1>4, <1>5 DEF Injection, IsInjective
<1>7. f \in Surjection(Bindings(m), Listers(m))
  BY <1>3, <1>4 DEF Surjection
<1> QED
  BY <1>1, <1>6, <1>7, FS_Injection

(* What is left of a set when two others are taken from it, against the    *)
(* difference of the three sizes: no less; and if both are part of it,     *)
(* more by the size of their overlap.                                      *)
Difference(L, E, S) ==
    /\ Cardinality(L \ (E \cup S)) \in Nat
    /\ Cardinality(E \cap S) \in Nat
    /\ Cardinality(L) - Cardinality(E) - Cardinality(S)
          <= Cardinality(L \ (E \cup S))
    /\ E \cup S \subseteq L =>
          Cardinality(L) - Cardinality(E) - Cardinality(S)
             = Cardinality(L \ (E \cup S)) - Cardinality(E \cap S)

(* That holds for finite sets.                                            *)
LEMMA DifferenceCount ==
    ASSUME NEW L, NEW E, NEW S, IsFiniteSet(L), IsFiniteSet(E), IsFiniteSet(S)
    PROVE  Difference(L, E, S)
<1> DEFINE M == E \cup S
           F == L \ M
<1>1. IsFiniteSet(M) /\ IsFiniteSet(F)
  BY FS_Union, FS_Subset
<1>2. /\ Cardinality(M) = Cardinality(E) + Cardinality(S) - Cardinality(E \cap S)
      /\ IsFiniteSet(E \cap S)
  BY FS_Union, FS_Subset
<1>3. /\ IsFiniteSet(F \cup M)
      /\ Cardinality(F \cup M) = Cardinality(F) + Cardinality(M) - Cardinality(F \cap M)
      /\ IsFiniteSet(F \cap M)
  BY <1>1, FS_Union, FS_Subset
<1>4. Cardinality(F \cap M) = 0
  <2>1. F \cap M = {}
    OBVIOUS
  <2> QED
    BY <2>1, FS_EmptySet
<1>5. Cardinality(L) <= Cardinality(F \cup M)
  <2>1. L \in SUBSET (F \cup M)
    OBVIOUS
  <2> HIDE DEF F, M
  <2> QED
    BY <1>3, <2>1, FS_Subset
<1>6. M \subseteq L => Cardinality(L) = Cardinality(F \cup M)
  <2>1. M \subseteq L => L = F \cup M
    OBVIOUS
  <2> HIDE DEF F, M
  <2> QED
    BY <2>1
<1>7. /\ Cardinality(L) \in Nat /\ Cardinality(E) \in Nat /\ Cardinality(S) \in Nat
      /\ Cardinality(M) \in Nat /\ Cardinality(F) \in Nat /\ Cardinality(E \cap S) \in Nat
  BY <1>1, <1>2, FS_CardinalityType
<1> HIDE DEF F, M
<1> DEFINE left == Cardinality(L) - Cardinality(E) - Cardinality(S)
<1>8. left <= Cardinality(F)
  BY <1>2, <1>3, <1>4, <1>5, <1>7
<1>9. M \subseteq L => left = Cardinality(F) - Cardinality(E \cap S)
  BY <1>2, <1>3, <1>4, <1>6, <1>7
<1> QED
  BY <1>7, <1>8, <1>9 DEF F, M, Difference

(* GetModelCount against the free clients, in a state with right counters. *)
LEMMA CountNow ==
    ASSUME TypeOK, CountsMatchBindings, NEW m \in Models, ListedOnce(m)
    PROVE  LET free == Cardinality(FreeClients(m))
               short == Cardinality(MarkedTwice(m))
           IN  /\ GetModelCount(m) <= free
               /\ MarkedClients(m) \subseteq Listers(m) =>
                     GetModelCount(m) = IF free < short THEN 0 ELSE free - short
<1> DEFINE left == models[m].count - Cardinality(OverQuota(m, now)) - Cardinality(Suspended(m))
           free == Cardinality(FreeClients(m))
           short == Cardinality(MarkedTwice(m))
<1>1. \A c \in Clients : clientModels[c][m] \in Nat /\ clientModels[c][m] <= 1
  BY ConstantsAssumption DEF TypeOK, ModelLists, ListedOnce
<1>2. IsFiniteSet(Listers(m)) /\ Cardinality(Bindings(m)) = Cardinality(Listers(m))
  BY <1>1, BindingsAreListers
<1>3. IsFiniteSet(OverQuota(m, now)) /\ IsFiniteSet(Suspended(m))
  BY ConstantsAssumption, FS_Subset DEF OverQuota, Suspended
<1>4. left = Cardinality(Listers(m)) - Cardinality(OverQuota(m, now)) - Cardinality(Suspended(m))
  BY <1>2 DEF CountsMatchBindings
<1>5. /\ free \in Nat /\ short \in Nat /\ left <= free
      /\ MarkedClients(m) \subseteq Listers(m) => left = free - short
  <2> DEFINE L == Listers(m)
             E == OverQuota(m, now)
             S == Suspended(m)
  <2>1. IsFiniteSet(L) /\ IsFiniteSet(E) /\ IsFiniteSet(S)
    BY <1>2, <1>3
  <2>2. /\ free = Cardinality(L \ (E \cup S)) /\ short = Cardinality(E \cap S)
        /\ MarkedClients(m) = E \cup S
    BY DEF FreeClients, MarkedClients, MarkedTwice
  <2>3. left = Cardinality(L) - Cardinality(E) - Cardinality(S)
    BY <1>4
  <2> HIDE DEF L, E, S, left, free, short
  <2>4. Difference(L, E, S)
    BY <2>1, DifferenceCount
  <2>5. MarkedClients(m) \subseteq Listers(m) => E \cup S \subseteq L
    BY <2>2 DEF L
  <2> QED
    BY <2>2, <2>3, <2>4, <2>5 DEF Difference
<1>6. left \in Int
  <2>1. /\ Cardinality(Listers(m)) \in Nat /\ Cardinality(OverQuota(m, now)) \in Nat
        /\ Cardinality(Suspended(m)) \in Nat
    BY <1>2, <1>3, FS_CardinalityType
  <2> QED
    BY <1>4, <2>1
<1>7. GetModelCount(m) = IF left < 0 THEN 0 ELSE left
  BY DEF GetModelCount
<1> HIDE DEF left, free, short
<1>8. /\ GetModelCount(m) <= free
      /\ MarkedClients(m) \subseteq Listers(m) =>
            GetModelCount(m) = IF free < short THEN 0 ELSE free - short
  BY <1>5, <1>6, <1>7
<1> QED
  BY <1>8 DEF free, short

(* GetModelCount is at most the number of clients that are free to serve a *)
(* model that nobody lists twice, so an automatic request goes to a model  *)
(* somebody can serve, in spite of marks on clients that were removed and  *)
(* of clients with both marks.                                             *)
THEOREM CountsHonest == Spec => []CountHonest
<1>1. TypeOK /\ CountsMatchBindings => CountHonest
  BY CountNow DEF CountHonest
<1> QED
  BY <1>1, TypeCorrect, CountsCorrect, PTL

(* By how much GetModelCount is short of the free clients: the clients     *)
(* that are both over quota and suspended, as a 429 leaves them, are taken *)
(* off twice.                                                              *)
THEOREM CountsExact == Spec => []CountExact
<1>1. TypeOK /\ CountsMatchBindings => CountExact
  BY CountNow DEF CountExact
<1> QED
  BY <1>1, TypeCorrect, CountsCorrect, PTL
=============================================================================
