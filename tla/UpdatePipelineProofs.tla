------------------------ MODULE UpdatePipelineProofs ------------------------
(***************************************************************************)
(* Theorems about UpdatePipeline, for any number of auth files, configured *)
(* keys, relay sessions, versions and reload goroutines, any capacity of   *)
(* the channel and any number of changes.                                  *)
(*                                                                         *)
(* The inductive invariant IInv has five parts: the types, with what a     *)
(* goroutine holds at each of its program points (Kinds); that one         *)
(* goroutine at a time holds an update of a credential, and that the last  *)
(* update on its way is the version the watcher believes in (Agrees); what *)
(* may keep the recorded content of a file from the one on the disk        *)
(* (FilesTracked); what the one reload that may be running has read of the *)
(* configuration (ConfigTracked); and RelaysKept, which is inductive.      *)
(***************************************************************************)
EXTENDS UpdatePipeline, FiniteSetTheorems, SequenceTheorems, WellFoundedInduction, TLAPS

----------------------------------------------------------------------------
(* Numbers *)

Less == OpToRel(<, Nat)

(* A set of naturals that is not empty has a least member.                 *)
LEMMA LeastNumber ==
    ASSUME NEW S \in SUBSET Nat, S # {}
    PROVE  \E n \in S : \A k \in S : n <= k
<1>1. IsWellFoundedOn(Less, Nat)
  BY NatLessThanWellFounded DEF OpToRel, Less
<1>2. \A x, y \in Nat : x < y => <<x, y>> \in Less
  BY DEF OpToRel, Less
<1> HIDE DEF Less
<1>3. PICK n \in S : \A k \in S : ~ (<<k, n>> \in Less)
  BY <1>1, WFMin
<1>4. ASSUME NEW k \in S PROVE n <= k
  <2>1. ~ (k < n)
    BY <1>2, <1>3
  <2> QED
    BY <2>1
<1> QED
  BY <1>4

(* What holds of 0 and, up to m, of the successor, holds of 0 .. m.        *)
LEMMA Counting ==
    ASSUME NEW m \in Nat, NEW S, 0 \in S,
           \A n \in 0 .. m : n \in S /\ n < m => n + 1 \in S
    PROVE  \A n \in 0 .. m : n \in S
<1> DEFINE bad == {n \in 0 .. m : n \notin S}
<1> SUFFICES ASSUME bad # {} PROVE FALSE
  OBVIOUS
<1>1. PICK n \in bad : \A k \in bad : n <= k
  <2>1. bad \in SUBSET Nat
    OBVIOUS
  <2> HIDE DEF bad
  <2> QED
    BY <2>1, LeastNumber
<1>2. n # 0 /\ n \in 0 .. m
  OBVIOUS
<1>3. n - 1 \in 0 .. m /\ n - 1 \notin bad
  BY <1>1, <1>2
<1>4. n - 1 \in S /\ n - 1 < m /\ (n - 1) + 1 = n
  BY <1>2, <1>3
<1> QED
  BY <1>1, <1>3, <1>4

----------------------------------------------------------------------------
(* The updates of a credential in a sequence of updates *)

Sent == [id : Ids, val : Vals]

RunsOver(f, s, i, size) ==
    f = [n \in 0 .. size |-> IF n = 0 THEN <<>>
                             ELSE IF s[n].id = i THEN Append(f[n - 1], s[n].val) ELSE f[n - 1]]

LEMMA RunsExist ==
    ASSUME NEW s, NEW i, NEW size \in Nat
    PROVE  \E f : RunsOver(f, s, i, size)
<1> DEFINE S == {n \in Nat : \E f : RunsOver(f, s, i, n)}
<1>1. 0 \in S
  <2>1. RunsOver([n \in 0 .. 0 |-> <<>>], s, i, 0)
    BY DEF RunsOver
  <2> QED
    BY <2>1
<1>2. ASSUME NEW n \in 0 .. size, n \in S PROVE n + 1 \in S
  <2>1. PICK f : RunsOver(f, s, i, n)
    BY <1>2
  <2> DEFINE Of(u, old) == IF u.id = i THEN Append(old, u.val) ELSE old
             Step(g, k) == IF k = 0 THEN <<>> ELSE Of(s[k], g[k - 1])
             more == [k \in 0 .. (n + 1) |-> Step(f, k)]
  <2>2. f = [k \in 0 .. n |-> Step(f, k)]
    BY <2>1 DEF RunsOver
  <2> HIDE DEF Of
  <2>3. \A k \in 0 .. n : more[k] = f[k]
    BY <2>2
  <2>4. ASSUME NEW k \in 0 .. (n + 1) PROVE Step(more, k) = Step(f, k)
    <3> HIDE DEF more
    <3>1. k # 0 => k - 1 \in 0 .. n
      OBVIOUS
    <3> QED
      BY <2>3, <3>1
  <2>5. more = [k \in 0 .. (n + 1) |-> Step(more, k)]
    BY <2>4
  <2>6. RunsOver(more, s, i, n + 1)
    BY <2>5 DEF RunsOver, Of
  <2> QED
    BY <2>6
<1> HIDE DEF S
<1>3. \A n \in 0 .. size : n \in S
  BY <1>1, <1>2, Counting
<1> QED
  BY <1>3 DEF S

LEMMA UpdatesRun ==
    ASSUME NEW s, NEW i, Len(s) \in Nat
    PROVE  /\ UpdatesUpTo(s, i)[0] = <<>>
           /\ \A n \in 1 .. Len(s) :
                 UpdatesUpTo(s, i)[n] =
                    IF s[n].id = i THEN Append(UpdatesUpTo(s, i)[n - 1], s[n].val)
                    ELSE UpdatesUpTo(s, i)[n - 1]
<1> DEFINE f == CHOOSE g : RunsOver(g, s, i, Len(s))
<1>1. UpdatesUpTo(s, i) = f
  BY DEF UpdatesUpTo, RunsOver
<1>2. RunsOver(f, s, i, Len(s))
  BY RunsExist
<1> HIDE DEF f
<1> DEFINE Of(u, old) == IF u.id = i THEN Append(old, u.val) ELSE old
           Step(k) == IF k = 0 THEN <<>> ELSE Of(s[k], f[k - 1])
<1>3. f = [n \in 0 .. Len(s) |-> Step(n)]
  BY <1>2 DEF RunsOver
<1> HIDE DEF Of
<1>4. \A n \in 0 .. Len(s) : f[n] = Step(n)
  BY <1>3
<1>5. f[0] = <<>> /\ \A n \in 1 .. Len(s) : f[n] = Of(s[n], f[n - 1])
  BY <1>4
<1> QED
  BY <1>1, <1>5 DEF Of

LEMMA SentTyped ==
    ASSUME NEW s \in Seq(Sent)
    PROVE  /\ Len(s) \in Nat /\ DOMAIN s = 1 .. Len(s)
           /\ \A n \in 1 .. Len(s) : s[n] \in Sent /\ s[n].id \in Ids /\ s[n].val \in Vals
<1>1. Len(s) \in Nat /\ DOMAIN s = 1 .. Len(s)
  OBVIOUS
<1>2. ASSUME NEW n \in 1 .. Len(s) PROVE s[n] \in Sent
  OBVIOUS
<1>3. \A u \in Sent : u.id \in Ids /\ u.val \in Vals
  BY DEF Sent
<1> QED
  BY <1>1, <1>2, <1>3

(* What the updates of i among the first n of a sequence are, step by step.*)
LEMMA UpdatesUpToTyped ==
    ASSUME NEW s \in Seq(Sent), NEW i
    PROVE  \A n \in 0 .. Len(s) : UpdatesUpTo(s, i)[n] \in Seq(Vals)
<1> DEFINE f == UpdatesUpTo(s, i)
           S == {n \in 0 .. Len(s) : f[n] \in Seq(Vals)}
<1>1. Len(s) \in Nat /\ \A n \in 1 .. Len(s) : s[n].val \in Vals
  BY SentTyped
<1>2. /\ f[0] = <<>>
      /\ \A n \in 1 .. Len(s) : f[n] = IF s[n].id = i THEN Append(f[n - 1], s[n].val) ELSE f[n - 1]
  BY <1>1, UpdatesRun
<1> HIDE DEF f
<1>3. 0 \in S
  <2>1. 0 \in 0 .. Len(s) /\ <<>> \in Seq(Vals)
    BY <1>1
  <2> QED
    BY <1>2, <2>1
<1>4. ASSUME NEW n \in 0 .. Len(s), n \in S, n < Len(s) PROVE n + 1 \in S
  <2>1. n + 1 \in 1 .. Len(s) /\ (n + 1) - 1 = n /\ n + 1 \in 0 .. Len(s)
    BY <1>1, <1>4
  <2>2. f[n + 1] = IF s[n + 1].id = i THEN Append(f[n], s[n + 1].val) ELSE f[n]
    BY <1>2, <2>1
  <2>3. f[n] \in Seq(Vals) /\ s[n + 1].val \in Vals
    BY <1>1, <1>4, <2>1
  <2>4. f[n + 1] \in Seq(Vals)
    BY <2>2, <2>3
  <2> QED
    BY <2>1, <2>4
<1> HIDE DEF S
<1>5. \A n \in 0 .. Len(s) : n \in S
  BY <1>1, <1>3, <1>4, Counting
<1> QED
  BY <1>5 DEF S, f

LEMMA UpdatesTyped ==
    ASSUME NEW s \in Seq(Sent), NEW i
    PROVE  Updates(s, i) \in Seq(Vals)
  BY UpdatesUpToTyped DEF Updates

(* The updates of i in one sequence after the other.                       *)
LEMMA UpdatesJoined ==
    ASSUME NEW s \in Seq(Sent), NEW t \in Seq(Sent), NEW i
    PROVE  Updates(s \o t, i) = Updates(s, i) \o Updates(t, i)
<1> DEFINE st == s \o t
           f == UpdatesUpTo(s, i)
           g == UpdatesUpTo(t, i)
           h == UpdatesUpTo(st, i)
           m == Len(s)
           k == Len(t)
           S == {n \in 0 .. m : h[n] = f[n]}
           T == {n \in 0 .. k : h[m + n] = f[m] \o g[n]}
<1>1. /\ m \in Nat /\ k \in Nat /\ st \in Seq(Sent) /\ Len(st) = m + k
      /\ \A n \in 1 .. m : st[n] = s[n]
      /\ \A n \in 1 .. k : st[m + n] = t[n] /\ t[n].val \in Vals
  <2>1. st \in Seq(Sent) /\ Len(st) = m + k
    OBVIOUS
  <2>2. \A n \in 1 .. m : st[n] = s[n]
    OBVIOUS
  <2>3. \A n \in 1 .. k : st[m + n] = t[n]
    OBVIOUS
  <2> HIDE DEF st
  <2> QED
    BY <2>1, <2>2, <2>3, SentTyped
<1>2. /\ f[0] = <<>>
      /\ \A n \in 1 .. m : f[n] = IF s[n].id = i THEN Append(f[n - 1], s[n].val) ELSE f[n - 1]
  BY <1>1, UpdatesRun
<1>3. /\ g[0] = <<>>
      /\ \A n \in 1 .. k : g[n] = IF t[n].id = i THEN Append(g[n - 1], t[n].val) ELSE g[n - 1]
  BY <1>1, UpdatesRun
<1>4. /\ h[0] = <<>>
      /\ \A n \in 1 .. m + k :
            h[n] = IF st[n].id = i THEN Append(h[n - 1], st[n].val) ELSE h[n - 1]
  <2> HIDE DEF st
  <2>1. Len(st) \in Nat /\ Len(st) = m + k
    BY <1>1
  <2> QED
    BY <2>1, UpdatesRun
<1>5. f[m] \in Seq(Vals) /\ \A n \in 0 .. k : g[n] \in Seq(Vals)
  BY <1>1, UpdatesUpToTyped
<1> HIDE DEF f, g, h, m, k, st
<1>6. \A n \in 0 .. m : n \in S
  <2>1. 0 \in S
    BY <1>1, <1>2, <1>4
  <2>2. ASSUME NEW n \in 0 .. m, n \in S, n < m PROVE n + 1 \in S
    <3>1. /\ n + 1 \in 1 .. m /\ n + 1 \in 1 .. m + k
          /\ (n + 1) - 1 = n /\ n + 1 \in 0 .. m /\ h[n] = f[n]
      BY <1>1, <2>2
    <3>2. /\ f[n + 1] = IF s[n + 1].id = i THEN Append(f[n], s[n + 1].val) ELSE f[n]
          /\ h[n + 1] = IF st[n + 1].id = i THEN Append(h[n], st[n + 1].val) ELSE h[n]
          /\ st[n + 1] = s[n + 1]
      BY <1>1, <1>2, <1>4, <3>1
    <3> QED
      BY <3>1, <3>2
  <2> HIDE DEF S
  <2> QED
    BY <1>1, <2>1, <2>2, Counting
<1>7. h[m] = f[m]
  BY <1>1, <1>6
<1>8. \A n \in 0 .. k : n \in T
  <2>1. 0 \in T
    <3>1. f[m] \o <<>> = f[m]
      BY <1>5
    <3>2. m + 0 = m /\ 0 \in 0 .. k
      BY <1>1
    <3> QED
      BY <1>3, <1>7, <3>1, <3>2
  <2>2. ASSUME NEW n \in 0 .. k, n \in T, n < k PROVE n + 1 \in T
    <3>1. /\ n + 1 \in 1 .. k /\ m + (n + 1) \in 1 .. m + k
          /\ (n + 1) - 1 = n /\ n + 1 \in 0 .. k
          /\ (m + (n + 1)) - 1 = m + n
      BY <1>1, <2>2
    <3>6. h[m + n] = f[m] \o g[n]
      BY <2>2
    <3>2. g[n + 1] = IF t[n + 1].id = i THEN Append(g[n], t[n + 1].val) ELSE g[n]
      BY <1>3, <3>1
    <3>3. h[m + (n + 1)] = IF t[n + 1].id = i THEN Append(h[m + n], t[n + 1].val) ELSE h[m + n]
      BY <1>1, <1>4, <3>1
    <3>4. g[n] \in Seq(Vals) /\ t[n + 1].val \in Vals
      BY <1>1, <1>5, <3>1
    <3> DEFINE a == f[m]
               b == g[n]
               v == t[n + 1].val
    <3>5. Append(f[m] \o g[n], t[n + 1].val) = f[m] \o Append(g[n], t[n + 1].val)
      <4>1. a \in Seq(Vals) /\ b \in Seq(Vals) /\ v \in Vals
        BY <1>5, <3>4
      <4> HIDE DEF a, b, v
      <4>2. Append(a \o b, v) = a \o Append(b, v)
        <5>1. a \o b \in Seq(Vals) /\ <<v>> \in Seq(Vals)
          BY <4>1
        <5>2. Append(a \o b, v) = (a \o b) \o <<v>>
          BY <4>1, <5>1, AppendIsConcat
        <5>3. Append(b, v) = b \o <<v>>
          BY <4>1, AppendIsConcat
        <5>4. (a \o b) \o <<v>> = a \o (b \o <<v>>)
          BY <4>1, <5>1, ConcatAssociative
        <5> QED
          BY <5>2, <5>3, <5>4
      <4> QED
        BY <4>2 DEF a, b, v
    <3> QED
      BY <3>1, <3>2, <3>3, <3>5, <3>6
  <2> HIDE DEF T
  <2> QED
    BY <1>1, <2>1, <2>2, Counting
<1>9. h[m + k] = f[m] \o g[k]
  <2>1. k \in T
    <3>1. k \in 0 .. k
      BY <1>1
    <3> HIDE DEF T
    <3> QED
      BY <1>8, <3>1
  <2> QED
    BY <2>1
<1> QED
  BY <1>1, <1>9 DEF Updates, f, g, h, m, k, st

(* An id that no update is for, and one that a single update is for.       *)
LEMMA UpdatesNone ==
    ASSUME NEW s \in Seq(Sent), NEW i, \A n \in 1 .. Len(s) : s[n].id # i
    PROVE  Updates(s, i) = <<>>
<1> DEFINE f == UpdatesUpTo(s, i)
           S == {n \in Nat : f[n] = <<>>}
<1>1. Len(s) \in Nat
  OBVIOUS
<1>2. f[0] = <<>> /\ \A n \in 1 .. Len(s) : f[n] = f[n - 1]
  BY <1>1, UpdatesRun
<1> HIDE DEF f
<1>3. 0 \in S
  BY <1>2
<1>4. ASSUME NEW n \in 0 .. Len(s), n \in S, n < Len(s) PROVE n + 1 \in S
  <2>1. n + 1 \in 1 .. Len(s) /\ (n + 1) - 1 = n
    BY <1>1, <1>4
  <2> QED
    BY <1>2, <1>4, <2>1
<1> HIDE DEF S
<1>5. \A n \in 0 .. Len(s) : n \in S
  BY <1>1, <1>3, <1>4, Counting
<1>6. Len(s) \in S
  <2>1. Len(s) \in 0 .. Len(s)
    BY <1>1
  <2> QED
    BY <1>5, <2>1
<1> QED
  BY <1>6 DEF S, f, Updates

LEMMA UpdatesOne ==
    ASSUME NEW s \in Seq(Sent), NEW i, NEW m \in 1 .. Len(s), s[m].id = i,
           \A n \in 1 .. Len(s) : s[n].id = i => n = m
    PROVE  Updates(s, i) = <<s[m].val>>
<1> DEFINE f == UpdatesUpTo(s, i)
           v == s[m].val
           S == {n \in Nat : f[n] = IF n < m THEN <<>> ELSE <<v>>}
<1>1. Len(s) \in Nat /\ m \in Nat /\ m > 0 /\ m <= Len(s)
  OBVIOUS
<1>2. /\ f[0] = <<>>
      /\ \A n \in 1 .. Len(s) : f[n] = IF n = m THEN Append(f[n - 1], v) ELSE f[n - 1]
  BY <1>1, UpdatesRun
<1>3. Append(<<>>, v) = <<v>>
  OBVIOUS
<1> HIDE DEF f, v
<1>4. 0 \in S
  BY <1>1, <1>2
<1>5. ASSUME NEW n \in 0 .. Len(s), n \in S, n < Len(s) PROVE n + 1 \in S
  <2>1. n + 1 \in 1 .. Len(s) /\ (n + 1) - 1 = n
    BY <1>1, <1>5
  <2>2. f[n + 1] = IF n + 1 = m THEN Append(f[n], v) ELSE f[n]
    BY <1>2, <2>1
  <2>3. CASE n + 1 = m
    <3>1. n < m /\ ~ (n + 1 < m) /\ f[n] = <<>>
      BY <1>1, <1>5, <2>3
    <3>2. f[n + 1] = <<v>>
      BY <1>3, <2>2, <2>3, <3>1
    <3> QED
      BY <2>1, <3>1, <3>2
  <2>4. CASE n + 1 # m
    <3>1. (n < m) = (n + 1 < m)
      BY <1>1, <2>4
    <3> QED
      BY <1>5, <2>1, <2>2, <2>4, <3>1
  <2> QED
    BY <2>3, <2>4
<1> HIDE DEF S
<1>6. \A n \in 0 .. Len(s) : n \in S
  BY <1>1, <1>4, <1>5, Counting
<1>7. Len(s) \in S /\ ~ (Len(s) < m)
  <2>1. Len(s) \in 0 .. Len(s)
    BY <1>1
  <2> QED
    BY <1>1, <1>6, <2>1
<1> QED
  BY <1>7 DEF S, f, v, Updates

(* The oldest update of a sequence, and the rest.                          *)
LEMMA UpdatesFirst ==
    ASSUME NEW s \in Seq(Sent), s # <<>>, NEW i
    PROVE  /\ Head(s) \in Sent /\ Tail(s) \in Seq(Sent)
           /\ Head(s).id = i => Updates(s, i) = <<Head(s).val>> \o Updates(Tail(s), i)
           /\ Head(s).id # i => Updates(s, i) = Updates(Tail(s), i)
<1> DEFINE h == <<Head(s)>>
<1>1. Head(s) \in Sent /\ Tail(s) \in Seq(Sent) /\ h \in Seq(Sent) /\ s = h \o Tail(s)
  BY ConcatProperties, HeadTailProperties
<1>2. Len(h) = 1 /\ h[1] = Head(s)
  OBVIOUS
<1> HIDE DEF h
<1>3. Updates(s, i) = Updates(h, i) \o Updates(Tail(s), i)
  <2>1. Updates(h \o Tail(s), i) = Updates(h, i) \o Updates(Tail(s), i)
    BY <1>1, UpdatesJoined
  <2> QED
    BY <1>1, <2>1
<1>4. Updates(Tail(s), i) \in Seq(Vals)
  BY <1>1, UpdatesTyped
<1>5. CASE Head(s).id = i
  <2>1. Updates(h, i) = <<h[1].val>>
    BY <1>1, <1>2, <1>5, UpdatesOne
  <2> QED
    BY <1>1, <1>2, <1>3, <1>5, <2>1
<1>6. CASE Head(s).id # i
  <2>1. Updates(h, i) = <<>>
    BY <1>1, <1>2, <1>6, UpdatesNone
  <2>2. <<>> \o Updates(Tail(s), i) = Updates(Tail(s), i)
    BY <1>4
  <2> QED
    BY <1>1, <1>3, <1>6, <2>1, <2>2
<1> QED
  BY <1>5, <1>6

----------------------------------------------------------------------------
(* What a dispatch makes of the pending updates *)

(* SetToSeq lists every member of a finite set once.                       *)
LEMMA Listed ==
    ASSUME NEW S, IsFiniteSet(S)
    PROVE  /\ Len(SetToSeq(S)) \in Nat
           /\ SetToSeq(S) \in [1 .. Len(SetToSeq(S)) -> S]
           /\ \A x \in S : \E n \in 1 .. Len(SetToSeq(S)) : SetToSeq(S)[n] = x
           /\ \A m, n \in 1 .. Len(SetToSeq(S)) : SetToSeq(S)[m] = SetToSeq(S)[n] => m = n
<1> DEFINE k == Cardinality(S)
           s == SetToSeq(S)
<1>1. k \in Nat /\ ExistsBijection(1 .. k, S)
  BY FS_CardinalityType
<1>2. PICK f : f \in Bijection(1 .. k, S)
  BY <1>1 DEF ExistsBijection
<1>3. f \in [1 .. k -> S] /\ IsInjective(f)
  BY <1>2 DEF Bijection, Injection, Surjection
<1>4. s \in [1 .. k -> S] /\ IsInjective(s)
  BY <1>3 DEF SetToSeq
<1> HIDE DEF s
<1>5. s \in Injection(1 .. k, S)
  BY <1>4 DEF Injection
<1>6. Cardinality(1 .. k) = k
  BY <1>1, FS_Interval
<1>7. s \in Surjection(1 .. k, S)
  BY <1>5, <1>6, FS_Injection DEF k
<1> HIDE DEF k
<1>8. Len(s) = k
  BY <1>1, <1>4
<1> QED
  BY <1>1, <1>4, <1>7, <1>8 DEF Surjection, IsInjective, s

Once(q) == \A m, n \in DOMAIN q : q[m].id = q[n].id => m = n

LEMMA IdsFinite == IsFiniteSet(Ids)
<1>1. IsFiniteSet(Files \cup Keys)
  BY PipelineAssumption, FS_Union
<1> QED
  BY <1>1, PipelineAssumption, FS_Union DEF Ids

LEMMA UpdatesAreFunctions ==
    ASSUME NEW upds \in UpdateSets
    PROVE  /\ DOMAIN upds \subseteq Ids
           /\ \A i \in DOMAIN upds : upds[i] \in Vals
           /\ upds \in [DOMAIN upds -> Vals]
<1>1. PICK S \in SUBSET Ids : upds \in [S -> Vals]
  BY DEF UpdateSets
<1> QED
  BY <1>1

(* Where the entries of the merged sequence come from.                     *)
LEMMA MergedEntries ==
    ASSUME NEW q \in Seq(Sent), NEW upds \in UpdateSets
    PROVE  LET d == Merged(q, upds)
               new == DOMAIN upds \ {q[n].id : n \in DOMAIN q}
               list == SetToSeq(new)
           IN /\ d \in Seq(Sent)
              /\ Len(d) = Len(q) + Len(list)
              /\ \A n \in 1 .. Len(q) :
                    /\ d[n].id = q[n].id
                    /\ d[n].val = IF q[n].id \in DOMAIN upds THEN upds[q[n].id] ELSE q[n].val
              /\ \A n \in 1 .. Len(list) :
                    /\ list[n] \in new
                    /\ d[Len(q) + n].id = list[n]
                    /\ d[Len(q) + n].val = upds[list[n]]
<1> DEFINE d == Merged(q, upds)
           new == DOMAIN upds \ {q[n].id : n \in DOMAIN q}
           list == SetToSeq(new)
           l == Len(list)
           R == Replaced(q, upds)
           A == [n \in DOMAIN list |-> [id |-> list[n], val |-> upds[list[n]]]]
<1>1. /\ Len(q) \in Nat /\ DOMAIN q = 1 .. Len(q)
      /\ \A n \in 1 .. Len(q) : q[n] \in Sent /\ q[n].id \in Ids /\ q[n].val \in Vals
  BY SentTyped
<1>2. DOMAIN upds \subseteq Ids /\ \A i \in DOMAIN upds : upds[i] \in Vals
  BY UpdatesAreFunctions
<1>3. IsFiniteSet(new)
  BY <1>2, IdsFinite, FS_Subset
<1>4. d = R \o A
  BY DEF Merged
<1>5. l \in Nat /\ list \in [1 .. l -> new]
  <2> HIDE DEF new
  <2> QED
    BY <1>3, Listed
<1>6. new \subseteq DOMAIN upds
  OBVIOUS
<1> HIDE DEF new, list, l, d
<1>7. \A n \in 1 .. l : list[n] \in new /\ list[n] \in Ids /\ upds[list[n]] \in Vals
  BY <1>2, <1>5, <1>6
<1>8. /\ A \in Seq(Sent) /\ Len(A) = l
      /\ \A n \in 1 .. l : A[n].id = list[n] /\ A[n].val = upds[list[n]]
  <2>1. A = [n \in 1 .. l |-> [id |-> list[n], val |-> upds[list[n]]]]
    BY <1>5
  <2>2. A \in [1 .. l -> Sent]
    BY <1>7, <2>1 DEF Sent
  <2>3. \A n \in 1 .. l : A[n].id = list[n] /\ A[n].val = upds[list[n]]
    BY <2>1
  <2> HIDE DEF A
  <2> QED
    BY <1>5, <2>2, <2>3
<1>9. /\ R \in Seq(Sent) /\ Len(R) = Len(q)
      /\ \A n \in 1 .. Len(q) :
            /\ R[n].id = q[n].id
            /\ R[n].val = IF q[n].id \in DOMAIN upds THEN upds[q[n].id] ELSE q[n].val
  <2> DEFINE Entry(u) == IF u.id \in DOMAIN upds THEN [u EXCEPT !.val = upds[u.id]] ELSE u
  <2>1. R = [n \in 1 .. Len(q) |-> Entry(q[n])]
    BY <1>1 DEF Replaced
  <2>2. \A u \in Sent : /\ Entry(u) \in Sent
                        /\ Entry(u).id = u.id
                        /\ Entry(u).val = IF u.id \in DOMAIN upds THEN upds[u.id] ELSE u.val
    BY <1>2 DEF Sent
  <2> HIDE DEF Entry, R
  <2>3. \A n \in 1 .. Len(q) : R[n] = Entry(q[n])
    BY <2>1
  <2>4. R \in [1 .. Len(q) -> Sent]
    BY <1>1, <2>1, <2>2
  <2> QED
    BY <1>1, <2>2, <2>3, <2>4
<1> HIDE DEF R, A
<1>10. /\ d \in Seq(Sent) /\ Len(d) = Len(q) + l
       /\ \A n \in 1 .. Len(q) : d[n] = R[n]
       /\ \A n \in 1 .. l : d[Len(q) + n] = A[n]
  <2>1. R \o A \in Seq(Sent) /\ Len(R \o A) = Len(R) + Len(A)
    BY <1>8, <1>9, ConcatProperties
  <2>2. \A n \in 1 .. Len(R) : (R \o A)[n] = R[n]
    BY <1>8, <1>9
  <2>3. \A n \in 1 .. Len(A) : (R \o A)[Len(R) + n] = A[n]
    <3> SUFFICES ASSUME NEW n \in 1 .. Len(A) PROVE (R \o A)[Len(R) + n] = A[n]
      OBVIOUS
    <3>1. \A m \in 1 .. Len(R) + Len(A) :
             (R \o A)[m] = IF m <= Len(R) THEN R[m] ELSE A[m - Len(R)]
      BY <1>8, <1>9, ConcatProperties
    <3>2. /\ Len(R) + n \in 1 .. Len(R) + Len(A)
          /\ ~ (Len(R) + n <= Len(R)) /\ (Len(R) + n) - Len(R) = n
      BY <1>1, <1>5, <1>8, <1>9
    <3> QED
      BY <3>1, <3>2
  <2> QED
    BY <1>4, <1>8, <1>9, <2>1, <2>2, <2>3
<1>11. /\ d \in Seq(Sent)
       /\ Len(d) = Len(q) + l
       /\ \A n \in 1 .. Len(q) :
             /\ d[n].id = q[n].id
             /\ d[n].val = IF q[n].id \in DOMAIN upds THEN upds[q[n].id] ELSE q[n].val
       /\ \A n \in 1 .. l :
             /\ list[n] \in new
             /\ d[Len(q) + n].id = list[n]
             /\ d[Len(q) + n].val = upds[list[n]]
  <2>1. d \in Seq(Sent) /\ Len(d) = Len(q) + l
    BY <1>10
  <2>2. ASSUME NEW n \in 1 .. Len(q)
        PROVE  /\ d[n].id = q[n].id
               /\ d[n].val = IF q[n].id \in DOMAIN upds THEN upds[q[n].id] ELSE q[n].val
    <3>1. d[n] = R[n]
      BY <1>10
    <3> QED
      BY <1>9, <3>1
  <2>3. ASSUME NEW n \in 1 .. l
        PROVE  /\ list[n] \in new
               /\ d[Len(q) + n].id = list[n]
               /\ d[Len(q) + n].val = upds[list[n]]
    <3>1. d[Len(q) + n] = A[n]
      BY <1>10
    <3> QED
      BY <1>7, <1>8, <3>1
  <2> QED
    BY <2>1, <2>2, <2>3
<1> QED
  BY <1>11 DEF d, new, list, l

(* A merge keeps one update of an id, and the value handed over last.      *)
LEMMA MergedUpdates ==
    ASSUME NEW q \in Seq(Sent), NEW upds \in UpdateSets, Once(q)
    PROVE  /\ Merged(q, upds) \in Seq(Sent)
           /\ Once(Merged(q, upds))
           /\ \A i \in Ids :
                 /\ i \in DOMAIN upds => Updates(Merged(q, upds), i) = <<upds[i]>>
                 /\ i \notin DOMAIN upds => Updates(Merged(q, upds), i) = Updates(q, i)
                 /\ \/ Updates(q, i) = <<>>
                    \/ \E w \in Vals : Updates(q, i) = <<w>>
<1> DEFINE d == Merged(q, upds)
           D == DOMAIN upds
           new == D \ {q[n].id : n \in DOMAIN q}
           list == SetToSeq(new)
           l == Len(list)
           k == Len(q)
<1>1. /\ k \in Nat /\ DOMAIN q = 1 .. k
      /\ \A n \in 1 .. k : q[n] \in Sent /\ q[n].id \in Ids /\ q[n].val \in Vals
  BY SentTyped
<1>2. IsFiniteSet(new)
  BY UpdatesAreFunctions, IdsFinite, FS_Subset
<1>3. /\ l \in Nat
      /\ \A x \in new : \E n \in 1 .. l : list[n] = x
      /\ \A m, n \in 1 .. l : list[m] = list[n] => m = n
  <2> HIDE DEF new
  <2> QED
    BY <1>2, Listed
<1>4. /\ d \in Seq(Sent)
      /\ Len(d) = k + l
      /\ \A n \in 1 .. k :
            /\ d[n].id = q[n].id
            /\ d[n].val = IF q[n].id \in D THEN upds[q[n].id] ELSE q[n].val
      /\ \A n \in 1 .. l :
            /\ list[n] \in new
            /\ d[k + n].id = list[n]
            /\ d[k + n].val = upds[list[n]]
  BY MergedEntries
<1>5. \A x : x \in new <=> x \in D /\ \A n \in 1 .. k : q[n].id # x
  BY <1>1
<1>6. \A m, n \in 1 .. k : q[m].id = q[n].id => m = n
  BY <1>1 DEF Once
<1> HIDE DEF d, D, new, list, l, k
<1>7. \A n \in 1 .. k + l : n \in 1 .. k \/ (n - k \in 1 .. l /\ n = k + (n - k))
  BY <1>1, <1>3
<1>8. ASSUME NEW m \in 1 .. k + l, NEW n \in 1 .. k + l, d[m].id = d[n].id PROVE m = n
  <2>1. CASE m \in 1 .. k /\ n \in 1 .. k
    BY <1>4, <1>6, <1>8, <2>1
  <2>2. CASE m \in 1 .. k /\ n \notin 1 .. k
    <3>1. d[n].id = list[n - k] /\ list[n - k] \in new
      BY <1>4, <1>7, <2>2
    <3> QED
      BY <1>4, <1>5, <1>8, <2>2, <3>1
  <2>3. CASE m \notin 1 .. k /\ n \in 1 .. k
    <3>1. d[m].id = list[m - k] /\ list[m - k] \in new
      BY <1>4, <1>7, <2>3
    <3> QED
      BY <1>4, <1>5, <1>8, <2>3, <3>1
  <2>4. CASE m \notin 1 .. k /\ n \notin 1 .. k
    <3>1. /\ d[m].id = list[m - k] /\ d[n].id = list[n - k]
          /\ m - k \in 1 .. l /\ n - k \in 1 .. l
      BY <1>4, <1>7, <2>4
    <3>2. m - k = n - k
      BY <1>3, <1>8, <3>1
    <3> QED
      BY <1>1, <3>2
  <2> QED
    BY <2>1, <2>2, <2>3, <2>4
<1>9. Once(d)
  BY <1>4, <1>8, SentTyped DEF Once
<1>10. ASSUME NEW i \in D PROVE Updates(d, i) = <<upds[i]>>
  <2>1. \E n \in 1 .. k + l : d[n].id = i /\ d[n].val = upds[i]
    <3>1. CASE \E n \in 1 .. k : q[n].id = i
      BY <1>1, <1>3, <1>4, <3>1
    <3>2. CASE \A n \in 1 .. k : q[n].id # i
      <4>1. PICK n \in 1 .. l : list[n] = i
        BY <1>3, <1>5, <3>2
      <4>2. k + n \in 1 .. k + l /\ d[k + n].id = i /\ d[k + n].val = upds[i]
        BY <1>1, <1>3, <1>4, <4>1
      <4> QED
        BY <4>2
    <3> QED
      BY <3>1, <3>2
  <2>2. PICK n \in 1 .. k + l : d[n].id = i /\ d[n].val = upds[i]
    BY <2>1
  <2>3. n \in 1 .. Len(d) /\ \A m \in 1 .. Len(d) : d[m].id = i => m = n
    BY <1>4, <1>8, <2>2
  <2> QED
    BY <1>4, <2>2, <2>3, UpdatesOne
<1>11. ASSUME NEW i \in Ids PROVE Updates(q, i) = <<>> \/ \E w \in Vals : Updates(q, i) = <<w>>
  <2>1. CASE \E n \in 1 .. k : q[n].id = i
    <3>1. PICK n \in 1 .. k : q[n].id = i
      BY <2>1
    <3>2. Updates(q, i) = <<q[n].val>>
      BY <1>6, <3>1, UpdatesOne DEF k
    <3> QED
      BY <1>1, <3>2
  <2>2. CASE \A n \in 1 .. k : q[n].id # i
    BY <2>2, UpdatesNone DEF k
  <2> QED
    BY <2>1, <2>2
<1>12. ASSUME NEW i \in Ids, i \notin D PROVE Updates(d, i) = Updates(q, i)
  <2>1. CASE \E n \in 1 .. k : q[n].id = i
    <3>1. PICK n \in 1 .. k : q[n].id = i
      BY <2>1
    <3>2. Updates(q, i) = <<q[n].val>>
      BY <1>6, <3>1, UpdatesOne DEF k
    <3>3. n \in 1 .. k + l /\ d[n].id = i /\ d[n].val = q[n].val
      BY <1>1, <1>3, <1>4, <1>12, <3>1
    <3>4. n \in 1 .. Len(d) /\ \A m \in 1 .. Len(d) : d[m].id = i => m = n
      BY <1>4, <1>8, <3>3
    <3>5. Updates(d, i) = <<d[n].val>>
      BY <1>4, <3>3, <3>4, UpdatesOne
    <3> QED
      BY <3>2, <3>3, <3>5
  <2>2. CASE \A n \in 1 .. k : q[n].id # i
    <3>1. Updates(q, i) = <<>>
      BY <2>2, UpdatesNone DEF k
    <3>2. ASSUME NEW n \in 1 .. k + l PROVE d[n].id # i
      <4>1. CASE n \in 1 .. k
        BY <1>4, <2>2, <4>1
      <4>2. CASE n \notin 1 .. k
        <5>1. d[n].id = list[n - k] /\ list[n - k] \in new
          BY <1>4, <1>7, <4>2
        <5> QED
          BY <1>5, <1>12, <5>1
      <4> QED
        BY <4>1, <4>2
    <3>3. Updates(d, i) = <<>>
      BY <1>4, <3>2, UpdatesNone
    <3> QED
      BY <3>1, <3>3
  <2> QED
    BY <2>1, <2>2
<1> QED
  BY <1>4, <1>9, <1>10, <1>11, <1>12 DEF d, D

----------------------------------------------------------------------------
(* What the steps of the dispatcher do to the updates on their way to i    *)

ChannelTyped ==
  /\ pending \in Seq(Sent) /\ batch \in Seq(Sent) /\ queue \in Seq(Sent)
  /\ core \in [Ids -> Vals]
  /\ Once(pending)

(* new is old with v appended or in place of the last one.                 *)
TakesIn(old, v, new) ==
  \/ new = Append(old, v)
  \/ old # <<>> /\ new = [old EXCEPT ![Len(old)] = v]

LEMMA LastReplaced ==
    ASSUME NEW a \in Seq(Vals), NEW old, NEW v \in Vals,
           old = <<>> \/ \E w \in Vals : old = <<w>>
    PROVE  /\ TakesIn(a \o old, v, a \o <<v>>)
           /\ a \o <<v>> # <<>>
           /\ Last(a \o <<v>>) = v
<1> DEFINE new == a \o <<v>>
<1>1. /\ new \in Seq(Vals) /\ Len(new) = Len(a) + 1 /\ Len(a) \in Nat
      /\ \A n \in 1 .. Len(a) : new[n] = a[n]
      /\ new[Len(a) + 1] = v
  OBVIOUS
<1>2. new # <<>> /\ Last(new) = v
  <2> HIDE DEF new
  <2> QED
    BY <1>1 DEF Last
<1>3. CASE old = <<>>
  <2>1. a \o old = a /\ Append(a, v) = new
    BY <1>3, AppendIsConcat, ConcatEmptySeq
  <2> QED
    BY <1>2, <2>1 DEF TakesIn
<1>4. CASE \E w \in Vals : old = <<w>>
  <2>1. PICK w \in Vals : old = <<w>>
    BY <1>4
  <2> DEFINE cur == a \o <<w>>
             mod == [cur EXCEPT ![Len(cur)] = v]
  <2>2. /\ cur \in Seq(Vals) /\ Len(cur) = Len(a) + 1
        /\ \A n \in 1 .. Len(a) : cur[n] = a[n]
    OBVIOUS
  <2> HIDE DEF cur, new
  <2>3. /\ mod \in Seq(Vals) /\ Len(mod) = Len(cur)
        /\ \A n \in 1 .. Len(cur) : mod[n] = IF n = Len(cur) THEN v ELSE cur[n]
    BY <1>1, <2>2, ExceptSeq
  <2> HIDE DEF mod
  <2>4. \A n \in 1 .. Len(new) : new[n] = mod[n]
    BY <1>1, <2>2, <2>3
  <2>5. Len(new) = Len(mod)
    BY <1>1, <2>2, <2>3
  <2>6. new = mod
    BY <1>1, <2>3, <2>4, <2>5, SeqEqual
  <2>7. cur # <<>>
    BY <1>1, <2>2
  <2> QED
    BY <1>2, <2>1, <2>6, <2>7 DEF TakesIn, new, mod, cur
<1> QED
  BY <1>3, <1>4

Split(q, b, p, i) ==
  /\ Updates(q \o b \o p, i) = Updates(q \o b, i) \o Updates(p, i)
  /\ Updates(q \o b, i) \in Seq(Vals)
  /\ Updates(q \o b \o p, i) \in Seq(Vals)

LEMMA WaitingSplit ==
    ASSUME NEW q \in Seq(Sent), NEW b \in Seq(Sent), NEW p \in Seq(Sent), NEW i
    PROVE  Split(q, b, p, i)
<1>1. q \o b \in Seq(Sent)
  BY ConcatProperties
<1>2. q \o b \o p \in Seq(Sent)
  BY <1>1, ConcatProperties
<1> QED
  <2>1. Updates((q \o b) \o p, i) = Updates(q \o b, i) \o Updates(p, i)
    <3>1. PICK qb \in Seq(Sent) : qb = q \o b
      BY <1>1
    <3>2. Updates(qb \o p, i) = Updates(qb, i) \o Updates(p, i)
      BY ONLY qb \in Seq(Sent), p \in Seq(Sent), UpdatesJoined
    <3> QED
      BY ONLY <3>1, <3>2
  <2>2. Updates(q \o b, i) \in Seq(Vals)
    BY <1>1, UpdatesTyped
  <2>3. Updates(q \o b \o p, i) \in Seq(Vals)
    BY <1>2, UpdatesTyped
  <2> QED
    BY <2>1, <2>2, <2>3 DEF Split

LEMMA WaitingTyped ==
    ASSUME ChannelTyped, NEW i
    PROVE  updatesOf(i) \in Seq(Vals)
<1>1. Split(queue, batch, pending, i)
  BY WaitingSplit DEF ChannelTyped
<1> QED
  BY <1>1 DEF Split, updatesOf

LEMMA DispatchPuts ==
    ASSUME ChannelTyped, NEW upds \in UpdateSets, Dispatch(upds)
    PROVE  /\ ChannelTyped'
           /\ \A i \in Ids :
                 IF i \in DOMAIN upds
                 THEN /\ TakesIn(updatesOf(i), upds[i], updatesOf(i)')
                      /\ updatesOf(i)' # <<>> /\ Last(updatesOf(i)') = upds[i]
                 ELSE updatesOf(i)' = updatesOf(i)
<1>1. /\ pending' = Merged(pending, upds)
      /\ batch' = batch /\ queue' = queue /\ core' = core
  BY DEF Dispatch
<1>2. pending' \in Seq(Sent) /\ Once(pending')
  BY <1>1, MergedUpdates DEF ChannelTyped
<1>3. ChannelTyped'
  BY <1>1, <1>2 DEF ChannelTyped
<1>4. ASSUME NEW i \in Ids
      PROVE  IF i \in DOMAIN upds
             THEN /\ TakesIn(updatesOf(i), upds[i], updatesOf(i)')
                  /\ updatesOf(i)' # <<>> /\ Last(updatesOf(i)') = upds[i]
             ELSE updatesOf(i)' = updatesOf(i)
  <2> DEFINE a == Updates(queue \o batch, i)
  <2>1. /\ updatesOf(i) = a \o Updates(pending, i) /\ a \in Seq(Vals)
        /\ updatesOf(i)' = a \o Updates(pending', i)
    <3>1. /\ pending \in Seq(Sent) /\ pending' \in Seq(Sent)
          /\ batch \in Seq(Sent) /\ queue \in Seq(Sent)
      BY <1>2 DEF ChannelTyped
    <3>2. Split(queue, batch, pending, i)
      BY <3>1, WaitingSplit
    <3>3. Split(queue, batch, pending', i)
      BY <3>1, WaitingSplit
    <3> QED
      BY <1>1, <3>2, <3>3 DEF Split, updatesOf
  <2>2. /\ i \in DOMAIN upds => Updates(pending', i) = <<upds[i]>> /\ upds[i] \in Vals
        /\ i \notin DOMAIN upds => Updates(pending', i) = Updates(pending, i)
        /\ Updates(pending, i) = <<>> \/ \E w \in Vals : Updates(pending, i) = <<w>>
    BY <1>1, MergedUpdates, UpdatesAreFunctions DEF ChannelTyped
  <2> HIDE DEF a
  <2>3. CASE i \in DOMAIN upds
    <3>1. /\ TakesIn(a \o Updates(pending, i), upds[i], a \o <<upds[i]>>)
          /\ a \o <<upds[i]>> # <<>>
          /\ Last(a \o <<upds[i]>>) = upds[i]
      BY <2>1, <2>2, <2>3, LastReplaced
    <3> QED
      BY <2>1, <2>2, <2>3, <3>1
  <2>4. CASE i \notin DOMAIN upds
    BY <2>1, <2>2, <2>4
  <2> QED
    BY <2>3, <2>4
<1> QED
  BY <1>3, <1>4

LEMMA TakeBatchKeeps ==
    ASSUME ChannelTyped, TakeBatch
    PROVE  ChannelTyped' /\ \A i \in Ids : updatesOf(i)' = updatesOf(i)
<1>1. /\ batch = <<>> /\ batch' = pending /\ pending' = <<>>
      /\ queue' = queue /\ core' = core
  BY DEF TakeBatch
<1>2. Once(<<>>) /\ <<>> \in Seq(Sent)
  BY DEF Once
<1>3. ChannelTyped'
  BY <1>1, <1>2 DEF ChannelTyped
<1>4. queue \o batch \o pending = queue \o pending
  BY <1>1, ConcatEmptySeq DEF ChannelTyped
<1>5. queue \o pending \o <<>> = queue \o pending
  BY ConcatProperties, ConcatEmptySeq DEF ChannelTyped
<1>6. ASSUME NEW i \in Ids PROVE updatesOf(i)' = updatesOf(i)
  BY <1>1, <1>4, <1>5 DEF updatesOf
<1> QED
  BY <1>3, <1>6

LEMMA SendKeeps ==
    ASSUME ChannelTyped, Send
    PROVE  ChannelTyped' /\ \A i \in Ids : updatesOf(i)' = updatesOf(i)
<1>1. /\ batch # <<>> /\ queue' = Append(queue, Head(batch)) /\ batch' = Tail(batch)
      /\ pending' = pending /\ core' = core
  BY DEF Send
<1>2. Head(batch) \in Sent /\ Tail(batch) \in Seq(Sent) /\ batch = <<Head(batch)>> \o Tail(batch)
  BY <1>1, HeadTailProperties DEF ChannelTyped
<1>3. queue' = queue \o <<Head(batch)>> /\ queue' \in Seq(Sent) /\ <<Head(batch)>> \in Seq(Sent)
  BY <1>1, <1>2, AppendIsConcat DEF ChannelTyped
<1>4. ChannelTyped'
  BY <1>1, <1>2, <1>3 DEF ChannelTyped
<1>5. (queue \o <<Head(batch)>>) \o Tail(batch) = queue \o (<<Head(batch)>> \o Tail(batch))
  BY <1>2, <1>3, ConcatAssociative DEF ChannelTyped
<1>6. queue' \o batch' = queue \o batch
  BY <1>1, <1>2, <1>3, <1>5
<1>7. ASSUME NEW i \in Ids PROVE updatesOf(i)' = updatesOf(i)
  BY <1>1, <1>6 DEF updatesOf
<1> QED
  BY <1>4, <1>7

LEMMA ConsumeDelivers ==
    ASSUME ChannelTyped, Consume
    PROVE  /\ ChannelTyped'
           /\ \E i \in Ids :
                 /\ updatesOf(i) # <<>>
                 /\ updatesOf(i)' = Tail(updatesOf(i))
                 /\ core' = [core EXCEPT ![i] = Head(updatesOf(i))]
                 /\ \A j \in Ids \ {i} : updatesOf(j)' = updatesOf(j)
<1> DEFINE all == queue \o batch \o pending
           h == Head(queue)
           bp == batch \o pending
<1>1. /\ queue # <<>> /\ queue' = Tail(queue) /\ batch' = batch /\ pending' = pending
      /\ core' = [core EXCEPT ![h.id] = h.val]
  BY DEF Consume
<1>2. h \in Sent /\ Tail(queue) \in Seq(Sent) /\ h.id \in Ids /\ h.val \in Vals
  <2>1. h \in Sent /\ Tail(queue) \in Seq(Sent)
    BY <1>1, HeadTailProperties DEF ChannelTyped
  <2> HIDE DEF h
  <2> QED
    BY <2>1 DEF Sent
<1>3. ChannelTyped'
  BY <1>1, <1>2 DEF ChannelTyped
<1>4. bp \in Seq(Sent)
  BY ConcatProperties DEF ChannelTyped
<1>5. all = queue \o bp
  BY ConcatAssociative DEF ChannelTyped
<1>6. queue' \o batch' \o pending' = Tail(queue) \o bp
  <2>1. Tail(queue) \in Seq(Sent) /\ batch \in Seq(Sent) /\ pending \in Seq(Sent)
    BY <1>2 DEF ChannelTyped
  <2>2. (Tail(queue) \o batch) \o pending = Tail(queue) \o (batch \o pending)
    BY ONLY <2>1, ConcatAssociative
  <2> QED
    BY ONLY <1>1, <2>2
<1>7. ASSUME NEW j \in Ids
      PROVE  /\ updatesOf(j) = Updates(queue, j) \o Updates(bp, j)
             /\ updatesOf(j)' = Updates(Tail(queue), j) \o Updates(bp, j)
  <2> HIDE DEF bp
  <2>0. queue \in Seq(Sent)
    BY DEF ChannelTyped
  <2>1. Updates(queue \o bp, j) = Updates(queue, j) \o Updates(bp, j)
    BY ONLY <1>4, <2>0, UpdatesJoined
  <2>2. Updates(Tail(queue) \o bp, j) = Updates(Tail(queue), j) \o Updates(bp, j)
    BY ONLY <1>2, <1>4, UpdatesJoined
  <2> QED
    BY <1>5, <1>6, <2>1, <2>2 DEF updatesOf
<1>8. ASSUME NEW j \in Ids
      PROVE  /\ h.id = j => Updates(queue, j) = <<h.val>> \o Updates(Tail(queue), j)
             /\ h.id # j => Updates(queue, j) = Updates(Tail(queue), j)
  BY <1>1, UpdatesFirst DEF ChannelTyped
<1>9. PICK i \in Ids : i = h.id
  BY <1>2
<1> DEFINE a == Updates(Tail(queue), i)
           b == Updates(bp, i)
           v == h.val
<1>10. a \in Seq(Vals) /\ b \in Seq(Vals)
  BY <1>2, <1>4, UpdatesTyped
<1>11. updatesOf(i) = (<<v>> \o a) \o b /\ updatesOf(i)' = a \o b
  <2>1. updatesOf(i) = Updates(queue, i) \o b /\ updatesOf(i)' = a \o b
    BY <1>7
  <2>2. Updates(queue, i) = <<v>> \o a
    BY <1>8, <1>9
  <2> QED
    BY <2>1, <2>2
<1>12. v \in Vals
  BY <1>2
<1> HIDE DEF a, b, v
<1>13. /\ (<<v>> \o a) \o b # <<>>
       /\ Head((<<v>> \o a) \o b) = v
       /\ Tail((<<v>> \o a) \o b) = a \o b
  <2> DEFINE c == a \o b
  <2>1. (<<v>> \o a) \o b = <<v>> \o c
    BY <1>10, <1>12, ConcatAssociative
  <2>2. c \in Seq(Vals)
    BY <1>10, ConcatProperties
  <2> HIDE DEF c
  <2>3. <<v>> \o c # <<>> /\ Head(<<v>> \o c) = v /\ Tail(<<v>> \o c) = c
    BY <1>12, <2>2
  <2> QED
    BY <2>1, <2>3 DEF c
<1>14. /\ updatesOf(i) # <<>>
       /\ updatesOf(i)' = Tail(updatesOf(i))
       /\ core' = [core EXCEPT ![i] = Head(updatesOf(i))]
  BY <1>1, <1>9, <1>11, <1>13 DEF v
<1>15. \A j \in Ids \ {i} : updatesOf(j)' = updatesOf(j)
  BY <1>7, <1>8, <1>9
<1> QED
  BY <1>3, <1>14, <1>15

----------------------------------------------------------------------------
(* The inductive invariant: what the goroutines hold, and when *)

Pcs == {"idle", "set", "drop", "scan", "refresh", "snapshot", "dispatch", "record"}

EventGoroutine ==
  /\ ev \in [pc : {"idle", "sleep", "check", "gone", "apply", "dispatch"},
             file : Files \cup {Partial}, data : Vals \cup {Partial}, upds : UpdateSets]
  /\ ev.pc = "idle" => ev = EvIdle
  /\ ev.pc # "idle" => ev.file \in Files
  /\ ev.pc = "apply" => ev.data \in Versions
  /\ ev.pc # "dispatch" => DOMAIN ev.upds = {}
  /\ DOMAIN ev.upds \subseteq Files

ReloadRecords ==
  [pc : Pcs, start : BOOLEAN, cfg : [Keys -> Vals] \cup {NoUpdates},
   force : BOOLEAN, left : SUBSET Files, snap : UpdateSets, upds : UpdateSets]

ReloadStates ==
  {t \in ReloadRecords :
     /\ t.pc = "idle" => t = RlIdle
     /\ t.pc # "dispatch" => DOMAIN t.upds = {}
     /\ t.pc = "set" => t.cfg \in [Keys -> Vals]
     /\ t.pc \in {"set", "drop", "scan", "refresh"} => t.snap = NoUpdates
     /\ t.pc = "snapshot" => t.cfg \in [Keys -> Vals] /\ t.snap \in [Files \ t.left -> Vals]}

Reloads == rl \in [Reloaders -> ReloadStates]

OutsideTyped ==
  /\ disk \in [Files -> Vals \cup {Partial}] /\ cfgDisk \in [Keys -> Vals] /\ ops \in Nat
  /\ events \in Seq([op : {"write", "remove"}, file : Files])

WatchedTyped ==
  /\ hash \in [Files -> Vals] /\ current \in [Ids -> Vals] /\ runtime \in [Relays -> Vals]
  /\ removed \subseteq Files /\ cfg \in [Keys -> Vals] /\ timer \in BOOLEAN
  /\ cfgHash \in [Keys -> Vals] \cup {<<>>}

CallsTyped == calls \subseteq [id : Relays, val : Vals]

Kinds ==
  /\ OutsideTyped /\ WatchedTyped /\ EventGoroutine /\ Reloads /\ CallsTyped
  /\ ChannelTyped /\ Len(queue) <= QueueCap

(* The last update on its way to i is what the watcher believes.           *)

Nobody(i) == ~ EvHolds(i) /\ ~ CallHolds(i) /\ \A r \in Reloaders : ~ RlHolds(r, i)

(* At most one goroutine holds an update of i.                             *)
Alone(i) ==
  /\ EvHolds(i) => ~ CallHolds(i) /\ \A r \in Reloaders : ~ RlHolds(r, i)
  /\ CallHolds(i) => \A r \in Reloaders : ~ RlHolds(r, i)
  /\ \A c, d \in calls : c.id = i /\ d.id = i => c = d
  /\ \A q, r \in Reloaders : RlHolds(q, i) /\ RlHolds(r, i) => q = r

HeldAgrees(i) ==
  /\ EvHolds(i) => ev.upds[i] = current[i]
  /\ \A c \in calls : c.id = i => c.val = current[i]
  /\ \A r \in Reloaders : RlHolds(r, i) => rl[r].upds[i] = current[i]

SentAgrees(i) ==
  Nobody(i) => IF updatesOf(i) = <<>> THEN core[i] = current[i]
               ELSE Last(updatesOf(i)) = current[i]

Good(i) == i \in crossed \cup orphans \/ (Alone(i) /\ HeldAgrees(i) /\ SentAgrees(i))

Agrees == \A i \in Ids : Good(i)

(* What keeps the recorded content of a file from the one on the disk.     *)

Queued(f) == \E n \in DOMAIN events : events[n].file = f

Unseen(f) == Queued(f) \/ (ev.pc \in {"sleep", "check", "apply", "gone"} /\ ev.file = f)

(* The last event of a file tells whether it is there.                     *)
EventsTell ==
  \A n \in DOMAIN events :
     \/ \E m \in DOMAIN events : m > n /\ events[m].file = events[n].file
     \/ events[n].op = "remove" <=> disk[events[n].file] = 0

(* What the event goroutine has read is old only if an event will tell.    *)
ReadIsFresh ==
  /\ ev.pc = "check" => Queued(ev.file) \/ (ev.data = disk[ev.file] /\ ev.data # 0)
  /\ ev.pc = "apply" => Queued(ev.file) \/ ev.data = disk[ev.file]
  /\ ev.pc = "gone" => Queued(ev.file) \/ disk[ev.file] = 0

Scanning == \E r \in Reloaders : Rl(r, "scan")

Snapping == \E r \in Reloaders : Rl(r, "refresh") \/ Rl(r, "snapshot")

HashTracksDisk ==
  \/ Scanning
  \/ \A f \in Files : \/ hash[f] = disk[f] \/ disk[f] = Partial
                      \/ f \in lostRemoval \/ Unseen(f)

CurrentTracksHash ==
  Snapping \/ \A f \in Files : current[f] = hash[f] \/ f \in stale

FilesTracked == EventsTell /\ ReadIsFresh /\ HashTracksDisk /\ CurrentTracksHash

(* What a reload that nothing has overtaken has read.                      *)

ReloadTracks(r) ==
  /\ Rl(r, "set") \/ Rl(r, "snapshot") => rl[r].cfg = cfgDisk
  /\ Rl(r, "drop") \/ Rl(r, "scan") \/ Rl(r, "refresh") => cfg = cfgDisk
  /\ Rl(r, "dispatch") \/ Rl(r, "record") => \A k \in Keys : current[k] = cfgDisk[k]
  /\ ~ Rl(r, "idle") /\ rl[r].start => cfgHash = <<>>

ConfigTracked ==
  raced \/ /\ \A q, r \in Reloaders : ~ Rl(q, "idle") /\ ~ Rl(r, "idle") => q = r
           /\ Reloading => ~ timer
           /\ \A r \in Reloaders : ReloadTracks(r)
           /\ ~ Reloading /\ ~ timer => \A k \in Keys : current[k] = cfgDisk[k]
           /\ ~ Reloading /\ cfgHash # <<>> => \A k \in Keys : current[k] = cfgHash[k]

IInv == Kinds /\ Agrees /\ FilesTracked /\ ConfigTracked /\ RelaysKept

----------------------------------------------------------------------------
(* Types *)

LEMMA NoUpdatesIsASet == NoUpdates \in UpdateSets /\ DOMAIN NoUpdates = {}
<1>1. NoUpdates \in [{} -> Vals]
  BY DEF NoUpdates
<1> QED
  BY <1>1 DEF UpdateSets, NoUpdates

LEMMA OneUpdate ==
    ASSUME NEW i \in Ids, NEW v \in Vals
    PROVE  /\ [j \in {i} |-> v] \in UpdateSets
           /\ DOMAIN [j \in {i} |-> v] = {i}
           /\ [j \in {i} |-> v][i] = v
           /\ [j \in {i} |-> v] # NoUpdates
<1> DEFINE u == [j \in {i} |-> v]
<1>1. u \in [{i} -> Vals] /\ DOMAIN u = {i} /\ u[i] = v
  OBVIOUS
<1> HIDE DEF u
<1>2. u \in UpdateSets
  BY <1>1 DEF UpdateSets
<1>3. u # NoUpdates
  BY <1>1, NoUpdatesIsASet
<1> QED
  BY <1>1, <1>2, <1>3 DEF u

LEMMA ContentTyped ==
    ASSUME NEW c \in Vals \cup {Partial}
    PROVE  /\ Credential(c) \in Vals
           /\ Credential(c) = c \/ c = Partial
           /\ c \in Vals => c # Partial
  BY PipelineAssumption DEF Credential, Vals

LEMMA IdleIsAState == RlIdle \in ReloadStates /\ EvIdle.pc = "idle" /\ RlIdle.pc = "idle"
  BY NoUpdatesIsASet DEF RlIdle, EvIdle, ReloadStates, ReloadRecords, Pcs

(* One reload moves, the others stay.                                      *)
LEMMA ReloadMoves ==
    ASSUME Reloads, NEW r \in Reloaders, NEW t \in ReloadStates,
           rl' = [rl EXCEPT ![r] = t]
    PROVE  /\ Reloads'
           /\ rl'[r] = t
           /\ \A q \in Reloaders \ {r} : rl'[q] = rl[q]
  BY DEF Reloads

LEMMA Init1 == Init => Kinds
<1> SUFFICES ASSUME Init PROVE Kinds
  OBVIOUS
<1> USE DEF Init, NothingGoesOn
<1>1. Vals = Versions \cup {0} /\ 0 \in Vals /\ Files \subseteq Ids /\ Keys \subseteq Ids
  BY DEF Vals, Ids
<1>2. OutsideTyped
  <2>1. ops \in Nat
    BY DEF Starting, Settled
  <2>2. disk \in [Files -> Vals \cup {Partial}]
    BY <1>1
  <2> QED
    BY <2>1, <2>2 DEF OutsideTyped
<1>3. hash \in [Files -> Vals] /\ current \in [Ids -> Vals] /\ core \in [Ids -> Vals]
  <2>1. CASE Starting
    BY <1>1, <2>1 DEF Starting
  <2>2. CASE Settled
    BY <1>1, <2>2 DEF Settled
  <2> QED
    BY <2>1, <2>2
<1>4. WatchedTyped
  BY <1>1, <1>3 DEF WatchedTyped
<1>5. EventGoroutine
  BY <1>1, NoUpdatesIsASet DEF EventGoroutine, EvIdle
<1>6. Reloads
  <2>1. [RlIdle EXCEPT !.pc = "scan", !.start = TRUE] \in ReloadStates
    BY NoUpdatesIsASet DEF ReloadStates, ReloadRecords, Pcs, RlIdle
  <2>2. CASE Starting
    BY <2>1, <2>2, IdleIsAState DEF Starting, Reloads
  <2>3. CASE Settled
    BY <2>3, IdleIsAState DEF Settled, Reloads
  <2> QED
    BY <2>2, <2>3
<1>7. CallsTyped
  BY DEF CallsTyped
<1>8. ChannelTyped /\ Len(queue) <= QueueCap
  BY <1>3, PipelineAssumption DEF ChannelTyped, Once
<1> QED
  BY <1>2, <1>4, <1>5, <1>6, <1>7, <1>8 DEF Kinds

(* The steps keep the types.                                               *)

LEMMA EnvironmentTypes ==
    ASSUME Kinds, Environment
    PROVE  Kinds'
<1>1. ASSUME NEW f \in Files, NEW content \in Vals \cup {Partial}, ChangeFile(f, content)
      PROVE  Kinds'
  <2> DEFINE e == [op |-> IF content = 0 THEN "remove" ELSE "write", file |-> f]
  <2>1. e \in [op : {"write", "remove"}, file : Files]
    OBVIOUS
  <2>2. /\ disk' = [disk EXCEPT ![f] = content] /\ events' = Append(events, e) /\ ops' = ops + 1
        /\ UNCHANGED <<cfgDisk, watched, ev, rl, calls, relayDone, channel, history>>
    BY <1>1 DEF ChangeFile
  <2> HIDE DEF e
  <2>3. OutsideTyped'
    BY <2>1, <2>2 DEF Kinds, OutsideTyped
  <2> QED
    BY <2>2, <2>3 DEF Kinds, WatchedTyped, EventGoroutine, Reloads, CallsTyped, ChannelTyped,
                      watched, channel
<1>2. ASSUME NEW c \in [Keys -> Vals], ChangeConfig(c)
      PROVE  Kinds'
  BY <1>2 DEF ChangeConfig, Kinds, OutsideTyped, WatchedTyped, EventGoroutine, Reloads, CallsTyped,
              ChannelTyped, channel
<1> QED
  BY <1>1, <1>2 DEF Environment

LEMMA DispatcherTypes ==
    ASSUME Kinds, TakeBatch \/ Send \/ Consume
    PROVE  Kinds'
<1>1. /\ UNCHANGED <<outside, watched, ev, rl, calls>>
  BY DEF TakeBatch, Send, Consume
<1>2. ChannelTyped'
  BY TakeBatchKeeps, SendKeeps, ConsumeDelivers DEF Kinds
<1>3. Len(queue') <= QueueCap
  <2>1. Len(queue) \in Nat /\ Len(queue) <= QueueCap /\ QueueCap \in Nat
    BY PipelineAssumption DEF Kinds, ChannelTyped
  <2>2. CASE TakeBatch
    BY <2>1, <2>2 DEF TakeBatch
  <2>3. CASE Send
    BY <2>1, <2>3 DEF Send, Kinds, ChannelTyped
  <2>4. CASE Consume
    <3>1. Len(Tail(queue)) = Len(queue) - 1
      BY <2>4 DEF Consume, Kinds, ChannelTyped
    <3> QED
      BY <2>1, <2>4, <3>1 DEF Consume
  <2> QED
    BY <2>2, <2>3, <2>4
<1> QED
  BY <1>1, <1>2, <1>3 DEF Kinds, OutsideTyped, WatchedTyped, EventGoroutine, Reloads, CallsTyped,
                          outside, watched

LEMMA EventTypes ==
    ASSUME Kinds, EventStep
    PROVE  Kinds'
<1> USE DEF Kinds
<1>0. /\ NoUpdates \in UpdateSets /\ DOMAIN NoUpdates = {} /\ 0 \in Vals /\ Versions \subseteq Vals
      /\ Files \subseteq Ids
  BY NoUpdatesIsASet DEF Vals, Ids
<1>1. CASE EvTake
  <2> DEFINE e == Head(events)
  <2>1. e \in [op : {"write", "remove"}, file : Files]
        /\ events' \in Seq([op : {"write", "remove"}, file : Files])
    BY <1>1, HeadTailProperties DEF EvTake, OutsideTyped
  <2>2. OutsideTyped'
    BY <1>1, <2>1 DEF EvTake, OutsideTyped
  <2>3. e.file \in Files /\ disk[e.file] \in Vals \cup {Partial}
    BY <2>1 DEF OutsideTyped
  <2> HIDE DEF e
  <2>4. \/ ev' = ev
        \/ ev' = [EvIdle EXCEPT !.pc = "sleep", !.file = e.file]
        \/ ev' = [EvIdle EXCEPT !.pc = "check", !.file = e.file, !.data = disk[e.file]]
    BY <1>1 DEF EvTake, e
  <2>5. EventGoroutine'
    <3>1. CASE ev' = ev
      BY <3>1 DEF EventGoroutine
    <3>2. CASE ev' = [EvIdle EXCEPT !.pc = "sleep", !.file = e.file]
      BY <1>0, <2>3, <3>2 DEF EventGoroutine, EvIdle
    <3>3. CASE ev' = [EvIdle EXCEPT !.pc = "check", !.file = e.file, !.data = disk[e.file]]
      BY <1>0, <2>3, <3>3 DEF EventGoroutine, EvIdle
    <3> QED
      BY <2>4, <3>1, <3>2, <3>3
  <2>6. removed' \subseteq Files
    BY <1>1, <2>3 DEF EvTake, WatchedTyped, e
  <2>7. UNCHANGED <<hash, current, runtime, cfg, cfgHash, timer, rl, calls, channel>>
    BY <1>1 DEF EvTake
  <2> QED
    BY <2>2, <2>5, <2>6, <2>7 DEF WatchedTyped, Reloads, CallsTyped, ChannelTyped, channel
<1>2. CASE EvStat
  <2>1. ev.file \in Files /\ disk[ev.file] \in Vals \cup {Partial}
    BY <1>2 DEF EvStat, EventGoroutine, OutsideTyped
  <2>2. EventGoroutine'
    BY <1>0, <1>2, <2>1 DEF EvStat, EventGoroutine
  <2> QED
    BY <1>2, <2>2 DEF EvStat, OutsideTyped, WatchedTyped, Reloads, CallsTyped, ChannelTyped,
                      outside, watched, channel
<1>3. CASE EvCheck
  <2>1. ev.file \in Files /\ disk[ev.file] \in Vals \cup {Partial}
    BY <1>3 DEF EvCheck, EventGoroutine, OutsideTyped
  <2>2. ev' = EvIdle \/ (disk[ev.file] \in Versions
                          /\ ev' = [ev EXCEPT !.pc = "apply", !.data = disk[ev.file]])
    BY <1>3 DEF EvCheck
  <2>3. ev.pc # "dispatch"
    BY <1>3 DEF EvCheck
  <2>4. EventGoroutine'
    <3>1. CASE ev' = EvIdle
      BY <1>0, <3>1 DEF EventGoroutine, EvIdle
    <3>2. CASE /\ disk[ev.file] \in Versions
               /\ ev' = [ev EXCEPT !.pc = "apply", !.data = disk[ev.file]]
      BY <1>0, <2>1, <2>3, <3>2 DEF EventGoroutine
    <3> QED
      BY <2>2, <3>1, <3>2
  <2> QED
    BY <1>3, <2>4 DEF EvCheck, OutsideTyped, WatchedTyped, Reloads, CallsTyped, ChannelTyped,
                      outside, watched, channel
<1>4. ASSUME EvApply \/ EvGone
      PROVE  EventGoroutine' /\ hash' \in [Files -> Vals] /\ current' \in [Ids -> Vals]
  <2>1. ev.file \in Files /\ ev.file \in Ids
    BY <1>0, <1>4 DEF EvApply, EvGone, EventGoroutine
  <2>2. PICK w \in Vals : \/ UNCHANGED <<hash, current>>
                          \/ /\ hash' = [hash EXCEPT ![ev.file] = w]
                             /\ current' = [current EXCEPT ![ev.file] = w]
    BY <1>0, <1>4 DEF EvApply, EvGone, EventGoroutine, Recorded
  <2>3. \/ ev' = EvIdle
        \/ \E v \in Vals : ev' = [ev EXCEPT !.pc = "dispatch", !.upds = [i \in {ev.file} |-> v]]
    <3>1. CASE EvApply
      <4>1. ev.data \in Vals
        BY <1>0, <3>1 DEF EvApply, EventGoroutine
      <4> QED
        BY <3>1, <4>1 DEF EvApply, EvDispatches
    <3>2. CASE EvGone
      BY <1>0, <3>2 DEF EvGone, EvDispatches
    <3> QED
      BY <1>4, <3>1, <3>2
  <2>4. EventGoroutine'
    <3>1. CASE ev' = EvIdle
      BY <1>0, <3>1 DEF EventGoroutine, EvIdle
    <3>2. CASE \E v \in Vals : ev' = [ev EXCEPT !.pc = "dispatch", !.upds = [i \in {ev.file} |-> v]]
      <4>1. PICK v \in Vals : ev' = [ev EXCEPT !.pc = "dispatch", !.upds = [i \in {ev.file} |-> v]]
        BY <3>2
      <4> DEFINE u == [i \in {ev.file} |-> v]
      <4>2. u \in UpdateSets /\ DOMAIN u = {ev.file}
        BY <2>1, OneUpdate
      <4> HIDE DEF u
      <4>3. ev' = [ev EXCEPT !.pc = "dispatch", !.upds = u]
        BY <4>1 DEF u
      <4> QED
        BY <2>1, <4>2, <4>3 DEF EventGoroutine
    <3> QED
      BY <2>3, <3>1, <3>2
  <2> QED
    BY <2>1, <2>2, <2>4 DEF WatchedTyped
<1>5. CASE EvApply \/ EvGone
  <2>1. UNCHANGED <<outside, runtime, removed, cfg, cfgHash, timer, rl, calls, channel>>
    BY <1>5 DEF EvApply, EvGone
  <2> QED
    BY <1>4, <1>5, <2>1 DEF OutsideTyped, WatchedTyped, Reloads, CallsTyped, ChannelTyped,
                            outside, channel
<1>6. CASE EvDispatch
  <2>1. Dispatch(ev.upds) /\ ev' = EvIdle /\ UNCHANGED <<outside, watched, rl, calls>>
    BY <1>6 DEF EvDispatch
  <2>2. ChannelTyped' /\ queue' = queue
    BY <2>1, DispatchPuts DEF EventGoroutine, Dispatch
  <2>3. EventGoroutine'
    BY <1>0, <2>1 DEF EventGoroutine, EvIdle
  <2> QED
    BY <2>1, <2>2, <2>3 DEF OutsideTyped, WatchedTyped, Reloads, CallsTyped, outside, watched
<1> QED
  BY <1>1, <1>2, <1>3, <1>5, <1>6 DEF EventStep

(* What a reload is after each of its steps; the others stay as they are.  *)
Moves(r, t) == rl'[r] = t /\ \A q \in Reloaders \ {r} : rl'[q] = rl[q]

LEMMA ReloadSteps ==
    ASSUME Kinds, NEW r \in Reloaders
    PROVE  /\ RlFire(r) => /\ Reloads'
                           /\ \/ Moves(r, rl[r]) /\ cfgHash = cfgDisk
                              \/ /\ Moves(r, [rl[r] EXCEPT !.pc = "set", !.cfg = cfgDisk])
                                 /\ cfgHash # cfgDisk
           /\ \A drop, force \in BOOLEAN :
                 RlSet(r, drop, force) =>
                   /\ Reloads' /\ cfg' \in [Keys -> Vals]
                   /\ Moves(r, [rl[r] EXCEPT !.pc = IF drop THEN "drop" ELSE "refresh",
                                             !.force = force])
           /\ RlDrop(r) => Reloads' /\ Moves(r, [rl[r] EXCEPT !.pc = "refresh"])
           /\ RlScan(r) => Reloads' /\ Moves(r, [rl[r] EXCEPT !.pc = "refresh"])
           /\ RlRefresh(r) =>
                /\ Reloads'
                /\ Moves(r, [rl[r] EXCEPT !.pc = "snapshot", !.cfg = cfg, !.left = Files])
<1> USE DEF Kinds
<1>0. rl[r] \in ReloadStates /\ rl \in [Reloaders -> ReloadStates]
  BY DEF Reloads
<1>1. ASSUME NEW t \in ReloadStates, rl' = [rl EXCEPT ![r] = t]
      PROVE  Reloads' /\ Moves(r, t)
  BY <1>1, ReloadMoves DEF Moves
<1>2. ASSUME RlFire(r)
      PROVE  /\ Reloads'
             /\ \/ Moves(r, rl[r]) /\ cfgHash = cfgDisk
                \/ /\ Moves(r, [rl[r] EXCEPT !.pc = "set", !.cfg = cfgDisk])
                   /\ cfgHash # cfgDisk
  <2>1. CASE cfgHash = cfgDisk
    <3>1. rl' = rl
      BY <1>2, <2>1 DEF RlFire
    <3> QED
      BY <2>1, <3>1 DEF Reloads, Moves
  <2>2. CASE cfgHash # cfgDisk
    <3> DEFINE t == [rl[r] EXCEPT !.pc = "set", !.cfg = cfgDisk]
    <3>1. rl' = [rl EXCEPT ![r] = t]
      BY <1>0, <1>2, <2>2 DEF RlFire
    <3>2. t \in ReloadStates
      <4>1. rl[r].pc = "idle" /\ cfgDisk \in [Keys -> Vals]
        BY <1>2 DEF RlFire, Rl, OutsideTyped
      <4>2. rl[r] \in ReloadRecords /\ rl[r] = RlIdle
        BY <1>0, <4>1 DEF ReloadStates
      <4>3. rl[r].snap = NoUpdates /\ rl[r].upds = NoUpdates
        BY <4>2 DEF RlIdle
      <4>4. t \in ReloadRecords /\ t.pc = "set" /\ t.cfg = cfgDisk
        BY <4>1, <4>2 DEF ReloadRecords, Pcs
      <4>5. t.snap = NoUpdates /\ t.upds = NoUpdates
        BY <4>2, <4>3 DEF ReloadRecords
      <4> HIDE DEF t
      <4> QED
        BY <4>1, <4>4, <4>5, NoUpdatesIsASet DEF ReloadStates
    <3> HIDE DEF t
    <3>3. Reloads' /\ Moves(r, t)
      BY <1>1, <3>1, <3>2
    <3> QED
      BY <2>2, <3>3 DEF t
  <2> QED
    BY <2>1, <2>2
<1>3. ASSUME NEW drop \in BOOLEAN, NEW force \in BOOLEAN, RlSet(r, drop, force)
      PROVE  /\ Reloads' /\ cfg' \in [Keys -> Vals]
             /\ Moves(r, [rl[r] EXCEPT !.pc = IF drop THEN "drop" ELSE "refresh",
                                       !.force = force])
  <2> DEFINE p == IF drop THEN "drop" ELSE "refresh"
             t == [rl[r] EXCEPT !.pc = p, !.force = force]
  <2>1. rl' = [rl EXCEPT ![r].pc = p, ![r].force = force] /\ rl[r].pc = "set" /\ cfg' = rl[r].cfg
    BY <1>3 DEF RlSet, Rl
  <2>2. p \in {"drop", "refresh"}
    OBVIOUS
  <2> HIDE DEF p
  <2>3. t \in ReloadStates
    BY <1>0, <2>1, <2>2 DEF ReloadStates, ReloadRecords, Pcs
  <2>4. rl' = [rl EXCEPT ![r] = t]
    BY <1>0, <2>1
  <2>5. cfg' \in [Keys -> Vals]
    BY <1>0, <2>1 DEF ReloadStates
  <2> HIDE DEF t
  <2>6. Reloads' /\ Moves(r, t)
    BY <1>1, <2>3, <2>4
  <2> QED
    BY <2>5, <2>6 DEF t, p
<1>4. ASSUME RlDrop(r) \/ RlScan(r)
      PROVE  Reloads' /\ Moves(r, [rl[r] EXCEPT !.pc = "refresh"])
  <2> DEFINE t == [rl[r] EXCEPT !.pc = "refresh"]
  <2>1. rl' = [rl EXCEPT ![r].pc = "refresh"] /\ rl[r].pc \in {"drop", "scan"}
    BY <1>4 DEF RlDrop, RlScan, Rl, Goto
  <2>2. t \in ReloadStates
    BY <1>0, <2>1 DEF ReloadStates, ReloadRecords, Pcs
  <2>3. rl' = [rl EXCEPT ![r] = t]
    BY <1>0, <2>1
  <2> HIDE DEF t
  <2>4. Reloads' /\ Moves(r, t)
    BY <1>1, <2>2, <2>3
  <2> QED
    BY <2>4 DEF t
<1>5. ASSUME RlRefresh(r)
      PROVE  /\ Reloads'
             /\ Moves(r, [rl[r] EXCEPT !.pc = "snapshot", !.cfg = cfg, !.left = Files])
  <2> DEFINE t == [rl[r] EXCEPT !.pc = "snapshot", !.cfg = cfg, !.left = Files]
  <2>1. /\ rl' = [rl EXCEPT ![r].pc = "snapshot", ![r].cfg = cfg, ![r].left = Files]
        /\ rl[r].pc = "refresh" /\ cfg \in [Keys -> Vals]
    BY <1>5 DEF RlRefresh, Rl, WatchedTyped
  <2>2. NoUpdates \in [Files \ Files -> Vals]
    BY DEF NoUpdates
  <2>3. t \in ReloadStates
    BY <1>0, <2>1, <2>2 DEF ReloadStates, ReloadRecords, Pcs
  <2>4. rl' = [rl EXCEPT ![r] = t]
    BY <1>0, <2>1
  <2> HIDE DEF t
  <2>5. Reloads' /\ Moves(r, t)
    BY <1>1, <2>3, <2>4
  <2> QED
    BY <2>5 DEF t
<1> QED
  BY <1>2, <1>3, <1>4, <1>5

(* The snapshot, read file by file.                                        *)
LEMMA ReadStep ==
    ASSUME Kinds, NEW r \in Reloaders, NEW f \in Files, RlRead(r, f)
    PROVE  /\ Reloads'
           /\ \A q \in Reloaders \ {r} : rl'[q] = rl[q]
           /\ rl'[r].pc = "snapshot" /\ rl'[r].cfg = rl[r].cfg
           /\ rl'[r].start = rl[r].start /\ rl'[r].upds = rl[r].upds
<1> USE DEF Kinds
<1>0. rl[r] \in ReloadStates /\ rl \in [Reloaders -> ReloadStates] /\ rl[r] \in ReloadRecords
  BY DEF Reloads, ReloadStates
<1> DEFINE s == [g \in DOMAIN rl[r].snap \cup {f} |->
                   IF g = f THEN Credential(disk[f]) ELSE rl[r].snap[g]]
           l == rl[r].left \ {f}
           t == [rl[r] EXCEPT !.left = l, !.snap = s]
<1>1. rl[r].pc = "snapshot" /\ f \in rl[r].left
      /\ rl' = [rl EXCEPT ![r].left = rl[r].left \ {f}, ![r].snap = s]
  BY <1>0 DEF RlRead, Rl
<1>2. /\ rl[r].cfg \in [Keys -> Vals] /\ rl[r].left \subseteq Files
      /\ rl[r].snap \in [Files \ rl[r].left -> Vals]
  BY <1>0, <1>1 DEF ReloadStates, ReloadRecords
<1>3. Credential(disk[f]) \in Vals
  BY ContentTyped DEF OutsideTyped
<1>4. l \in SUBSET Files /\ Files \ l = (Files \ rl[r].left) \cup {f}
  BY <1>2
<1>5. s \in [Files \ l -> Vals]
  BY <1>2, <1>3, <1>4
<1>6. rl' = [rl EXCEPT ![r] = t]
  BY <1>0, <1>1
<1> HIDE DEF s, l
<1>7. s \in UpdateSets
  <2>1. Files \ l \in SUBSET Ids
    BY DEF Ids
  <2> QED
    BY <1>5, <2>1 DEF UpdateSets
<1>8. /\ t \in ReloadRecords /\ t.pc = "snapshot" /\ t.cfg = rl[r].cfg
      /\ t.start = rl[r].start /\ t.upds = rl[r].upds /\ t.left = l /\ t.snap = s
  BY <1>0, <1>1, <1>4, <1>7 DEF ReloadRecords
<1> HIDE DEF t
<1>9. t \in ReloadStates
  <2>1. DOMAIN rl[r].upds = {}
    BY <1>0, <1>1 DEF ReloadStates
  <2> QED
    BY <1>2, <1>5, <1>8, <2>1 DEF ReloadStates
<1> QED
  BY <1>6, <1>8, <1>9, ReloadMoves

(* What the diff has to work with, and what it prepares.                   *)
LEMMA DiffStep ==
    ASSUME Kinds, NEW r \in Reloaders, RlDiff(r)
    PROVE  /\ NewState(r) \in [Ids -> Vals]
           /\ current' = NewState(r)
           /\ Reloads'
           /\ \A q \in Reloaders \ {r} : rl'[q] = rl[q]
           /\ rl'[r].pc = "dispatch" /\ rl'[r].start = rl[r].start
           /\ DOMAIN rl'[r].upds =
                 {i \in Ids : \/ NewState(r)[i] # current[i]
                              \/ rl[r].force /\ NewState(r)[i] # 0}
           /\ \A i \in DOMAIN rl'[r].upds : rl'[r].upds[i] = NewState(r)[i]
           /\ rl[r].snap \in [Files -> Vals] /\ rl[r].cfg \in [Keys -> Vals]
<1> USE DEF Kinds
<1>0. rl[r] \in ReloadStates /\ rl \in [Reloaders -> ReloadStates] /\ rl[r] \in ReloadRecords
  BY DEF Reloads, ReloadStates
<1> DEFINE changed == {i \in Ids : \/ NewState(r)[i] # current[i]
                                   \/ rl[r].force /\ NewState(r)[i] # 0}
           u == [i \in changed |-> NewState(r)[i]]
           t == [rl[r] EXCEPT !.pc = "dispatch", !.upds = u]
<1>1. /\ rl[r].pc = "snapshot" /\ rl[r].left = {} /\ current' = NewState(r)
      /\ rl' = [rl EXCEPT ![r].pc = "dispatch", ![r].upds = u]
  BY DEF RlDiff, Rl
<1>2. rl[r].cfg \in [Keys -> Vals] /\ rl[r].snap \in [Files -> Vals]
  <2>1. Files \ {} = Files
    OBVIOUS
  <2> QED
    BY <1>0, <1>1, <2>1 DEF ReloadStates
<1>3. NewState(r) \in [Ids -> Vals]
  BY <1>2 DEF NewState, Ids, WatchedTyped
<1>4. changed \subseteq Ids
  OBVIOUS
<1> HIDE DEF changed
<1>5. u \in [changed -> Vals] /\ DOMAIN u = changed /\ \A i \in changed : u[i] = NewState(r)[i]
  BY <1>3, <1>4
<1>6. rl' = [rl EXCEPT ![r] = t]
  BY <1>0, <1>1
<1> HIDE DEF u
<1>7. u \in UpdateSets
  BY <1>4, <1>5 DEF UpdateSets
<1>8. t \in ReloadRecords /\ t.pc = "dispatch" /\ t.start = rl[r].start /\ t.upds = u
  BY <1>0, <1>7 DEF ReloadRecords, Pcs
<1> HIDE DEF t
<1>9. t \in ReloadStates
  BY <1>8 DEF ReloadStates
<1>10. Reloads' /\ rl'[r] = t /\ \A q \in Reloaders \ {r} : rl'[q] = rl[q]
  BY <1>6, <1>9, ReloadMoves
<1> QED
  BY <1>1, <1>2, <1>3, <1>5, <1>8, <1>10 DEF changed

LEMMA EndSteps ==
    ASSUME Kinds, NEW r \in Reloaders
    PROVE  /\ RlDispatch(r) =>
                /\ Reloads'
                /\ Moves(r, IF rl[r].start THEN RlIdle ELSE [RlIdle EXCEPT !.pc = "record"])
           /\ RlRecord(r) => Reloads' /\ Moves(r, RlIdle)
<1> USE DEF Kinds
<1>1. RlIdle \in ReloadStates
  BY IdleIsAState
<1>2. [RlIdle EXCEPT !.pc = "record"] \in ReloadStates
  BY NoUpdatesIsASet DEF RlIdle, ReloadStates, ReloadRecords, Pcs
<1> DEFINE t == IF rl[r].start THEN RlIdle ELSE [RlIdle EXCEPT !.pc = "record"]
<1>3. t \in ReloadStates
  BY <1>1, <1>2
<1>4. ASSUME RlDispatch(r) PROVE Reloads' /\ Moves(r, t)
  <2>1. rl' = [rl EXCEPT ![r] = t]
    BY <1>4 DEF RlDispatch
  <2> HIDE DEF t
  <2> QED
    BY <1>3, <2>1, ReloadMoves DEF Moves
<1>5. ASSUME RlRecord(r) PROVE Reloads' /\ Moves(r, RlIdle)
  BY <1>1, <1>5, ReloadMoves DEF RlRecord, Moves
<1> QED
  BY <1>4, <1>5

(* A step of a reload is no other reload's.                                *)
LEMMA OthersStay ==
    ASSUME Kinds, NEW r \in Reloaders, ReloadStep(r)
    PROVE  \A q \in Reloaders \ {r} : rl'[q] = rl[q]
<1>1. CASE RlFire(r)
  <2>1. Moves(r, rl[r]) \/ Moves(r, [rl[r] EXCEPT !.pc = "set", !.cfg = cfgDisk])
    BY <1>1, ReloadSteps
  <2> QED
    BY <2>1 DEF Moves
<1>2. ASSUME NEW drop \in BOOLEAN, NEW force \in BOOLEAN, RlSet(r, drop, force)
      PROVE  \A q \in Reloaders \ {r} : rl'[q] = rl[q]
  <2>1. Moves(r, [rl[r] EXCEPT !.pc = IF drop THEN "drop" ELSE "refresh", !.force = force])
    BY <1>2, ReloadSteps
  <2> QED
    BY <2>1 DEF Moves
<1>3. CASE RlDrop(r) \/ RlScan(r)
  <2>1. Moves(r, [rl[r] EXCEPT !.pc = "refresh"])
    BY <1>3, ReloadSteps
  <2> QED
    BY <2>1 DEF Moves
<1>4. CASE RlRefresh(r)
  <2>1. Moves(r, [rl[r] EXCEPT !.pc = "snapshot", !.cfg = cfg, !.left = Files])
    BY <1>4, ReloadSteps
  <2> QED
    BY <2>1 DEF Moves
<1>5. CASE \E f \in Files : RlRead(r, f)
  BY <1>5, ReadStep
<1>6. CASE RlDiff(r)
  BY <1>6, DiffStep
<1>7. CASE RlDispatch(r)
  <2>1. Moves(r, IF rl[r].start THEN RlIdle ELSE [RlIdle EXCEPT !.pc = "record"])
    BY <1>7, EndSteps
  <2> QED
    BY <2>1 DEF Moves
<1>8. CASE RlRecord(r)
  <2>1. Moves(r, RlIdle)
    BY <1>8, EndSteps
  <2> QED
    BY <2>1 DEF Moves
<1> QED
  BY <1>1, <1>2, <1>3, <1>4, <1>5, <1>6, <1>7, <1>8 DEF ReloadStep

LEMMA ReloadTypes ==
    ASSUME Kinds, NEW r \in Reloaders, ReloadStep(r)
    PROVE  Kinds'
<1> USE DEF Kinds
<1>1. CASE RlFire(r)
  BY <1>1, ReloadSteps DEF RlFire, OutsideTyped, WatchedTyped, EventGoroutine, CallsTyped,
                           ChannelTyped, outside, channel
<1>2. ASSUME NEW drop \in BOOLEAN, NEW force \in BOOLEAN, RlSet(r, drop, force)
      PROVE  Kinds'
  <2>1. Reloads' /\ cfg' \in [Keys -> Vals]
    BY <1>2, ReloadSteps
  <2> QED
    BY <1>2, <2>1 DEF RlSet, OutsideTyped, WatchedTyped, EventGoroutine, CallsTyped,
                      ChannelTyped, outside, channel
<1>3. CASE RlDrop(r)
  <2>1. Reloads'
    BY <1>3, ReloadSteps
  <2>2. current' \in [Ids -> Vals]
    BY <1>3 DEF RlDrop, WatchedTyped, Vals
  <2> QED
    BY <1>3, <2>1, <2>2 DEF RlDrop, OutsideTyped, WatchedTyped, EventGoroutine, CallsTyped,
                            ChannelTyped, outside, channel
<1>4. CASE RlScan(r)
  <2>1. Reloads'
    BY <1>4, ReloadSteps
  <2>2. hash' \in [Files -> Vals]
    BY <1>4, ContentTyped DEF RlScan, OutsideTyped
  <2> QED
    BY <1>4, <2>1, <2>2 DEF RlScan, OutsideTyped, WatchedTyped, EventGoroutine, CallsTyped,
                            ChannelTyped, outside, channel
<1>5. CASE RlRefresh(r)
  BY <1>5, ReloadSteps DEF RlRefresh, OutsideTyped, WatchedTyped, EventGoroutine, CallsTyped,
                           ChannelTyped, outside, watched, channel
<1>6. ASSUME NEW f \in Files, RlRead(r, f) PROVE Kinds'
  BY <1>6, ReadStep DEF RlRead, OutsideTyped, WatchedTyped, EventGoroutine, CallsTyped,
                        ChannelTyped, outside, watched, channel
<1>7. CASE RlDiff(r)
  <2>1. Reloads' /\ current' \in [Ids -> Vals]
    BY <1>7, DiffStep
  <2> QED
    BY <1>7, <2>1 DEF RlDiff, OutsideTyped, WatchedTyped, EventGoroutine, CallsTyped,
                      ChannelTyped, outside, channel
<1>8. CASE RlDispatch(r)
  <2>1. Reloads'
    BY <1>8, EndSteps
  <2>2. rl[r].upds \in UpdateSets /\ Dispatch(rl[r].upds)
    BY <1>8 DEF RlDispatch, Reloads, ReloadStates, ReloadRecords
  <2>3. ChannelTyped' /\ queue' = queue
    BY <2>2, DispatchPuts DEF Dispatch
  <2> QED
    BY <1>8, <2>1, <2>3 DEF RlDispatch, OutsideTyped, WatchedTyped, EventGoroutine, CallsTyped,
                            outside, watched
<1>9. CASE RlRecord(r)
  <2>1. Reloads'
    BY <1>9, EndSteps
  <2> QED
    BY <1>9, <2>1 DEF RlRecord, OutsideTyped, WatchedTyped, EventGoroutine, CallsTyped,
                      ChannelTyped, outside, channel
<1> QED
  BY <1>1, <1>2, <1>3, <1>4, <1>5, <1>6, <1>7, <1>8, <1>9 DEF ReloadStep

LEMMA RelayTypes ==
    ASSUME Kinds, RelayStep
    PROVE  Kinds'
<1> USE DEF Kinds
<1>1. {0, RelayVersion} \subseteq Vals
  BY PipelineAssumption DEF RelayVersion, Vals
<1>2. ASSUME NEW x \in Relays, NEW v \in {0, RelayVersion}, RelayCall(x, v)
      PROVE  Kinds'
  <2>1. x \in Ids /\ v \in Vals
    BY <1>1 DEF Ids
  <2>2. WatchedTyped'
    BY <1>2, <2>1 DEF RelayCall, WatchedTyped
  <2>3. OutsideTyped' /\ CallsTyped'
    BY <1>2, <2>1 DEF RelayCall, OutsideTyped, CallsTyped
  <2> QED
    BY <1>2, <2>2, <2>3 DEF RelayCall, EventGoroutine, Reloads, ChannelTyped, channel
<1>3. ASSUME NEW c \in calls, RelayDispatch(c)
      PROVE  Kinds'
  <2> DEFINE u == [i \in {c.id} |-> c.val]
  <2>1. c.id \in Ids /\ c.val \in Vals
    BY DEF CallsTyped, Ids
  <2>2. u \in UpdateSets /\ Dispatch(u)
    BY <1>3, <2>1, OneUpdate DEF RelayDispatch
  <2> HIDE DEF u
  <2>3. ChannelTyped' /\ queue' = queue
    BY <2>2, DispatchPuts DEF Dispatch
  <2> QED
    BY <1>3, <2>3 DEF RelayDispatch, OutsideTyped, WatchedTyped, EventGoroutine, Reloads,
                      CallsTyped, outside, watched
<1> QED
  BY <1>2, <1>3 DEF RelayStep

LEMMA KindsStep == Kinds /\ [Next]_vars => Kinds'
<1> SUFFICES ASSUME Kinds, [Next]_vars PROVE Kinds'
  OBVIOUS
<1>1. CASE UNCHANGED vars
  BY <1>1 DEF vars, outside, watched, channel, Kinds, OutsideTyped, WatchedTyped, EventGoroutine,
              Reloads, CallsTyped, ChannelTyped
<1>2. CASE Finished
  BY <1>1, <1>2 DEF Finished
<1> QED
  BY <1>1, <1>2, EnvironmentTypes, DispatcherTypes, EventTypes, ReloadTypes, RelayTypes DEF Next

----------------------------------------------------------------------------
(* What is on its way agrees with the watcher *)

(* A step leaves what the goroutines hold of i alone.                      *)
HeldSame(i) ==
  /\ EvHolds(i)' <=> EvHolds(i)
  /\ EvHolds(i) => ev'.upds[i] = ev.upds[i]
  /\ {c \in calls' : c.id = i} = {c \in calls : c.id = i}
  /\ \A r \in Reloaders : /\ RlHolds(r, i)' <=> RlHolds(r, i)
                          /\ RlHolds(r, i) => rl'[r].upds[i] = rl[r].upds[i]

LEMMA GoodFrame ==
    ASSUME NEW i \in Ids, Good(i), HeldSame(i), current'[i] = current[i], core'[i] = core[i],
           updatesOf(i)' = updatesOf(i), i \in crossed \cup orphans => i \in crossed' \cup orphans'
    PROVE  Good(i)'
<1>1. CASE i \in crossed \cup orphans
  BY <1>1 DEF Good
<1>2. CASE i \notin crossed \cup orphans
  <2>1. Alone(i) /\ HeldAgrees(i) /\ SentAgrees(i)
    BY <1>2 DEF Good
  <2>2. \A c : c.id = i => (c \in calls' <=> c \in calls)
    BY DEF HeldSame
  <2>3. CallHolds(i)' <=> CallHolds(i)
    BY <2>2 DEF CallHolds
  <2>4. Alone(i)'
    BY <2>1, <2>2, <2>3 DEF Alone, HeldSame
  <2>5. HeldAgrees(i)'
    BY <2>1, <2>2 DEF HeldAgrees, HeldSame
  <2>6. Nobody(i)' <=> Nobody(i)
    BY <2>3 DEF Nobody, HeldSame
  <2>7. SentAgrees(i)'
    BY <2>1, <2>6 DEF SentAgrees
  <2> QED
    BY <2>4, <2>5, <2>7 DEF Good
<1> QED
  BY <1>1, <1>2

(* The one who holds the update of i dispatches it.                        *)
LEMMA GoodDispatched ==
    ASSUME NEW i \in Ids, Good(i), NEW v, Alone(i) => Nobody(i)', HeldAgrees(i) => v = current[i],
           current' = current, crossed' = crossed, orphans' = orphans,
           updatesOf(i)' # <<>>, Last(updatesOf(i)') = v
    PROVE  Good(i)'
<1>1. CASE i \in crossed \cup orphans
  BY <1>1 DEF Good
<1>2. CASE i \notin crossed \cup orphans
  <2>1. Nobody(i)' /\ v = current'[i]
    BY <1>2 DEF Good
  <2>2. Alone(i)' /\ HeldAgrees(i)'
    BY <2>1 DEF Alone, HeldAgrees, Nobody, CallHolds
  <2>3. SentAgrees(i)'
    BY <2>1 DEF SentAgrees
  <2> QED
    BY <2>2, <2>3 DEF Good
<1> QED
  BY <1>1, <1>2

LEMMA DispatcherAgrees ==
    ASSUME Kinds, Agrees, TakeBatch \/ Send \/ Consume
    PROVE  Agrees'
<1>1. UNCHANGED <<outside, watched, ev, rl, calls, relayDone, history>>
  BY DEF TakeBatch, Send, Consume
<1>2. current' = current /\ crossed' = crossed /\ orphans' = orphans
  BY <1>1 DEF watched, history
<1>3. ASSUME NEW i \in Ids PROVE HeldSame(i)
  BY <1>1 DEF HeldSame, EvHolds, RlHolds
<1>4. CASE TakeBatch \/ Send
  <2>1. core' = core /\ \A i \in Ids : updatesOf(i)' = updatesOf(i)
    BY <1>4, TakeBatchKeeps, SendKeeps DEF Kinds, TakeBatch, Send
  <2> QED
    BY <1>2, <1>3, <2>1, GoodFrame DEF Agrees
<1>5. CASE Consume
  <2>1. PICK i \in Ids : /\ updatesOf(i) # <<>>
                         /\ updatesOf(i)' = Tail(updatesOf(i))
                         /\ core' = [core EXCEPT ![i] = Head(updatesOf(i))]
                         /\ \A j \in Ids \ {i} : updatesOf(j)' = updatesOf(j)
    BY <1>5, ConsumeDelivers DEF Kinds
  <2>2. core \in [Ids -> Vals] /\ updatesOf(i) \in Seq(Vals)
    BY WaitingTyped DEF Kinds, ChannelTyped
  <2>3. ASSUME NEW j \in Ids, j # i PROVE Good(j)'
    BY <1>2, <1>3, <2>1, <2>2, <2>3, GoodFrame DEF Agrees
  <2>4. ASSUME i \in crossed \cup orphans PROVE Good(i)'
    BY <1>2, <2>4 DEF Good
  <2>5. ASSUME i \notin crossed \cup orphans PROVE Good(i)'
    <3>1. Alone(i) /\ HeldAgrees(i) /\ SentAgrees(i)
      BY <2>5 DEF Agrees, Good
    <3>2. Alone(i)' /\ HeldAgrees(i)' /\ (Nobody(i)' <=> Nobody(i))
      BY <1>1, <1>2, <3>1 DEF Alone, HeldAgrees, Nobody, EvHolds, CallHolds, RlHolds
    <3>3. ASSUME Nobody(i)
          PROVE  IF updatesOf(i)' = <<>> THEN core'[i] = current[i]
                 ELSE Last(updatesOf(i)') = current[i]
      <4>1. Last(updatesOf(i)) = current[i]
        BY <2>1, <3>1, <3>3 DEF SentAgrees
      <4> DEFINE u == updatesOf(i)
      <4>2. u \in Seq(Vals) /\ u # <<>>
        BY <2>1, <2>2
      <4> HIDE DEF u
      <4>3. Len(Tail(u)) = Len(u) - 1 /\ Len(u) \in Nat /\ Len(u) > 0
            /\ \A n \in 1 .. Len(Tail(u)) : Tail(u)[n] = u[n + 1]
            /\ Tail(u) \in Seq(Vals) /\ Head(u) = u[1]
        BY <4>2, HeadTailProperties
      <4>4. CASE Tail(u) = <<>>
        <5>1. Len(u) = 1
          <6>1. Len(Tail(u)) = 0
            BY <4>4, EmptySeq
          <6> QED
            BY <4>3, <6>1
        <5>2. core'[i] = u[1]
          BY <2>1, <2>2, <4>3 DEF u
        <5> QED
          BY <2>1, <4>1, <4>4, <5>1, <5>2 DEF Last, u
      <4>5. CASE Tail(u) # <<>>
        <5>1. Len(Tail(u)) \in 1 .. Len(Tail(u)) /\ Len(Tail(u)) + 1 = Len(u)
          BY <4>3, <4>5
        <5>2. Tail(u)[Len(Tail(u))] = u[Len(u)]
          BY <4>3, <5>1
        <5> QED
          BY <2>1, <4>1, <4>5, <5>2 DEF Last, u
      <4> QED
        BY <4>4, <4>5
    <3>4. SentAgrees(i)'
      BY <1>2, <3>2, <3>3 DEF SentAgrees
    <3> QED
      BY <3>2, <3>4 DEF Good
  <2> QED
    BY <2>3, <2>4, <2>5 DEF Agrees
<1> QED
  BY <1>4, <1>5

LEMMA EventAgrees ==
    ASSUME Kinds, Agrees, EventStep
    PROVE  Agrees'
<1> USE DEF Kinds
<1>0. DOMAIN NoUpdates = {} /\ EvIdle.upds = NoUpdates /\ Files \subseteq Ids
  BY NoUpdatesIsASet DEF EvIdle, Ids
<1>1. CASE EvTake \/ EvStat \/ EvCheck
  <2>1. UNCHANGED <<current, rl, calls, pending, batch, queue, core, crossed, orphans>>
    BY <1>1 DEF EvTake, EvStat, EvCheck, outside, watched, channel, history
  <2>2. DOMAIN ev.upds = {}
    BY <1>1 DEF EvTake, EvStat, EvCheck, EventGoroutine
  <2>3. DOMAIN ev'.upds = {}
    <3>1. EventGoroutine' /\ ev'.pc # "dispatch"
      <4>1. ev'.pc # "dispatch"
        <5>1. CASE EvTake
          BY <5>1 DEF EvTake, EvIdle
        <5>2. CASE EvStat
          BY <5>2 DEF EvStat, EventGoroutine
        <5>3. CASE EvCheck
          BY <5>3 DEF EvCheck, EvIdle, EventGoroutine
        <5> QED
          BY <1>1, <5>1, <5>2, <5>3
      <4> QED
        BY <4>1, <1>1, EventTypes DEF EventStep
    <3> QED
      BY <3>1 DEF EventGoroutine
  <2>4. \A i \in Ids : HeldSame(i) /\ updatesOf(i)' = updatesOf(i)
    BY <2>1, <2>2, <2>3 DEF HeldSame, EvHolds, RlHolds, updatesOf
  <2> QED
    BY <2>1, <2>4, GoodFrame DEF Agrees
<1>2. CASE EvApply \/ EvGone
  <2> DEFINE f == ev.file
             busy == {i \in Ids : CallHolds(i) \/ \E r \in Reloaders : RlHolds(r, i)}
  <2>1. UNCHANGED <<rl, calls, pending, batch, queue, core>> /\ DOMAIN ev.upds = {}
        /\ f \in Files
    BY <1>2 DEF EvApply, EvGone, channel, EventGoroutine
  <2>2. \A i \in Ids : updatesOf(i)' = updatesOf(i)
    BY <2>1 DEF updatesOf
  <2>3. \/ ev' = EvIdle /\ UNCHANGED <<current, crossed, orphans>>
        \/ \E v \in Vals : /\ ev' = [ev EXCEPT !.pc = "dispatch", !.upds = [i \in {f} |-> v]]
                           /\ current' = [current EXCEPT ![f] = v]
                           /\ Prepare({f}, busy)
    <3>1. CASE EvApply
      <4>1. f \in Ids /\ ev.data \in Vals /\ current \in [Ids -> Vals]
        BY <1>0, <2>1, <3>1 DEF EvApply, EventGoroutine, WatchedTyped, Vals
      <4>2. CASE hash[f] = ev.data
        BY <3>1, <4>2 DEF EvApply, history
      <4>3. CASE hash[f] # ev.data /\ current[f] = ev.data
        <5>1. ev' = EvIdle /\ Prepare(DOMAIN NoUpdates, busy)
              /\ current' = [current EXCEPT ![f] = ev.data]
          BY <3>1, <4>3 DEF EvApply, EvDispatches
        <5>2. crossed' = crossed /\ orphans' = orphans
          BY <1>0, <5>1 DEF Prepare
        <5>3. current' = current
          BY <4>1, <4>3, <5>1
        <5> QED
          BY <5>1, <5>2, <5>3
      <4>4. CASE hash[f] # ev.data /\ current[f] # ev.data
        <5> DEFINE u == [i \in {f} |-> ev.data]
        <5>1. u # NoUpdates /\ DOMAIN u = {f}
          BY <4>1, OneUpdate
        <5>2. ev' = EvDispatches(u) /\ Prepare(DOMAIN u, busy)
              /\ current' = [current EXCEPT ![f] = ev.data]
          BY <3>1, <4>4 DEF EvApply
        <5> HIDE DEF u
        <5>3. ev' = [ev EXCEPT !.pc = "dispatch", !.upds = u]
          BY <5>1, <5>2 DEF EvDispatches
        <5>4. Prepare({f}, busy)
          BY <5>1, <5>2
        <5> QED
          BY <4>1, <5>2, <5>3, <5>4 DEF u
      <4> QED
        BY <4>2, <4>3, <4>4
    <3>2. CASE EvGone
      <4>1. f \in Ids /\ 0 \in Vals
        BY <1>0, <2>1 DEF Vals
      <4>2. CASE hash[f] = 0
        BY <3>2, <4>2 DEF EvGone, history
      <4>3. CASE hash[f] # 0
        <5> DEFINE u == [i \in {f} |-> 0]
        <5>1. u # NoUpdates
          BY <4>1, OneUpdate
        <5>2. ev' = EvDispatches(u) /\ Prepare({f}, busy) /\ current' = [current EXCEPT ![f] = 0]
          BY <3>2, <4>3 DEF EvGone
        <5> HIDE DEF u
        <5>3. ev' = [ev EXCEPT !.pc = "dispatch", !.upds = u]
          BY <5>1, <5>2 DEF EvDispatches
        <5> QED
          BY <4>1, <5>2, <5>3 DEF u
      <4> QED
        BY <4>2, <4>3
    <3> QED
      BY <1>2, <3>1, <3>2
  <2>4. CASE ev' = EvIdle /\ UNCHANGED <<current, crossed, orphans>>
    <3>1. DOMAIN ev'.upds = {}
      BY <1>0, <2>4
    <3>2. \A i \in Ids : HeldSame(i)
      BY <2>1, <3>1 DEF HeldSame, EvHolds, RlHolds
    <3> QED
      BY <2>1, <2>2, <2>4, <3>2, GoodFrame DEF Agrees
  <2>5. ASSUME NEW v \in Vals,
               ev' = [ev EXCEPT !.pc = "dispatch", !.upds = [i \in {f} |-> v]],
               current' = [current EXCEPT ![f] = v], Prepare({f}, busy)
        PROVE  Agrees'
    <3> DEFINE u == [i \in {f} |-> v]
    <3>1. DOMAIN u = {f} /\ u[f] = v
      OBVIOUS
    <3>2. ev'.upds = u
      BY <2>5 DEF EventGoroutine
    <3> HIDE DEF u
    <3>3. current \in [Ids -> Vals] /\ f \in Ids
      BY <1>0, <2>1 DEF WatchedTyped
    <3>4. PICK g \in Ids : g = f
      BY <3>3
    <3>5. \A i : i \in crossed' <=> \/ i \in crossed /\ i # g
                                    \/ i = g /\ g \in busy
      BY <2>5, <3>4 DEF Prepare
    <3>6. orphans' = orphans \ {g}
      BY <2>5, <3>4 DEF Prepare
    <3>7. ASSUME NEW i \in Ids, i # g PROVE Good(i)'
      <4>1. HeldSame(i)
        BY <2>1, <3>1, <3>2, <3>4, <3>7 DEF HeldSame, EvHolds, RlHolds
      <4>2. current'[i] = current[i] /\ (i \in crossed \cup orphans => i \in crossed' \cup orphans')
        BY <2>5, <3>3, <3>4, <3>5, <3>6, <3>7
      <4> QED
        BY <2>1, <2>2, <4>1, <4>2, GoodFrame DEF Agrees
    <3>8. Good(g)'
      <4>1. CASE g \in busy
        BY <3>5, <4>1 DEF Good
      <4>2. CASE g \notin busy
        <5>1. ~ CallHolds(g) /\ \A r \in Reloaders : ~ RlHolds(r, g)
          BY <4>2
        <5>2. ~ CallHolds(g)' /\ \A r \in Reloaders : ~ RlHolds(r, g)'
          BY <2>1, <5>1 DEF CallHolds, RlHolds
        <5>3. EvHolds(g)' /\ ev'.upds[g] = current'[g]
          BY <2>5, <3>1, <3>2, <3>3, <3>4 DEF EvHolds
        <5> QED
          BY <5>2, <5>3 DEF Good, Alone, HeldAgrees, SentAgrees, Nobody, CallHolds
      <4> QED
        BY <4>1, <4>2
    <3> QED
      BY <3>7, <3>8 DEF Agrees
  <2> QED
    BY <2>3, <2>4, <2>5
<1>3. CASE EvDispatch
  <2>1. /\ Dispatch(ev.upds) /\ ev' = EvIdle
        /\ UNCHANGED <<current, rl, calls, crossed, orphans>> /\ core' = core
    BY <1>3 DEF EvDispatch, Dispatch, watched, history
  <2>2. ev.upds \in UpdateSets /\ DOMAIN ev.upds \subseteq Ids
    BY <1>0 DEF EventGoroutine
  <2>3. \A i \in Ids :
           IF i \in DOMAIN ev.upds
           THEN updatesOf(i)' # <<>> /\ Last(updatesOf(i)') = ev.upds[i]
           ELSE updatesOf(i)' = updatesOf(i)
    BY <2>1, <2>2, DispatchPuts
  <2>4. DOMAIN ev'.upds = {}
    BY <1>0, <2>1
  <2>5. ASSUME NEW i \in Ids PROVE Good(i)'
    <3>1. CASE i \notin DOMAIN ev.upds
      <4>1. HeldSame(i)
        BY <2>1, <2>4, <3>1 DEF HeldSame, EvHolds, RlHolds
      <4> QED
        BY <2>1, <2>3, <3>1, <4>1, GoodFrame DEF Agrees
    <3>2. CASE i \in DOMAIN ev.upds
      <4>1. Alone(i) => Nobody(i)'
        BY <2>1, <2>4, <3>2 DEF Alone, Nobody, EvHolds, CallHolds, RlHolds
      <4>2. HeldAgrees(i) => ev.upds[i] = current[i]
        BY <3>2 DEF HeldAgrees, EvHolds
      <4> QED
        BY <2>1, <2>3, <3>2, <4>1, <4>2, GoodDispatched DEF Agrees
    <3> QED
      BY <3>1, <3>2
  <2> QED
    BY <2>5 DEF Agrees
<1> QED
  BY <1>1, <1>2, <1>3 DEF EventStep

LEMMA ReloadAgrees ==
    ASSUME Kinds, Agrees, NEW r \in Reloaders, ReloadStep(r)
    PROVE  Agrees'
<1> USE DEF Kinds
<1>0. /\ DOMAIN NoUpdates = {} /\ RlIdle.upds = NoUpdates /\ rl[r] \in ReloadStates
      /\ rl[r] \in ReloadRecords
  BY NoUpdatesIsASet DEF RlIdle, Reloads, ReloadStates
(* The steps before the diff prepare nothing.                              *)
<1>1. CASE \/ RlFire(r) \/ \E drop, force \in BOOLEAN : RlSet(r, drop, force)
           \/ RlDrop(r) \/ RlScan(r) \/ RlRefresh(r) \/ \E f \in Files : RlRead(r, f)
           \/ RlRecord(r)
  <2>1. UNCHANGED <<ev, calls, pending, batch, queue, core, crossed>>
    BY <1>1 DEF RlFire, RlSet, RlDrop, RlScan, RlRefresh, RlRead, RlRecord, outside, watched,
                channel, history
  <2>2. rl[r].pc # "dispatch"
    BY <1>1 DEF RlFire, RlSet, RlDrop, RlScan, RlRefresh, RlRead, RlRecord, Rl
  <2>3. /\ DOMAIN rl'[r].upds = {}
        /\ \A q \in Reloaders \ {r} : rl'[q] = rl[q]
    <3>1. CASE RlFire(r)
      <4>1. CASE Moves(r, rl[r])
        BY <1>0, <2>2, <4>1 DEF Moves, ReloadStates
      <4>2. CASE Moves(r, [rl[r] EXCEPT !.pc = "set", !.cfg = cfgDisk])
        <5>1. rl'[r].upds = rl[r].upds
          BY <1>0, <4>2 DEF Moves, ReloadRecords
        <5> QED
          BY <1>0, <2>2, <4>2, <5>1 DEF Moves, ReloadStates
      <4> QED
        BY <3>1, <4>1, <4>2, ReloadSteps
    <3>2. ASSUME NEW drop \in BOOLEAN, NEW force \in BOOLEAN, RlSet(r, drop, force)
          PROVE  DOMAIN rl'[r].upds = {} /\ \A q \in Reloaders \ {r} : rl'[q] = rl[q]
      <4> DEFINE p == IF drop THEN "drop" ELSE "refresh"
      <4>1. Moves(r, [rl[r] EXCEPT !.pc = p, !.force = force])
        BY <3>2, ReloadSteps
      <4> HIDE DEF p
      <4> QED
        BY <1>0, <2>2, <4>1 DEF Moves, ReloadStates, ReloadRecords
    <3>3. CASE RlDrop(r) \/ RlScan(r) \/ RlRefresh(r)
      <4>1. CASE RlDrop(r) \/ RlScan(r)
        <5>1. Moves(r, [rl[r] EXCEPT !.pc = "refresh"])
          BY <4>1, ReloadSteps
        <5> QED
          BY <1>0, <2>2, <5>1 DEF Moves, ReloadStates, ReloadRecords
      <4>2. CASE RlRefresh(r)
        <5>1. Moves(r, [rl[r] EXCEPT !.pc = "snapshot", !.cfg = cfg, !.left = Files])
          BY <4>2, ReloadSteps
        <5> QED
          BY <1>0, <2>2, <5>1 DEF Moves, ReloadStates, ReloadRecords
      <4> QED
        BY <3>3, <4>1, <4>2
    <3>4. ASSUME NEW f \in Files, RlRead(r, f)
          PROVE  DOMAIN rl'[r].upds = {} /\ \A q \in Reloaders \ {r} : rl'[q] = rl[q]
      BY <1>0, <2>2, <3>4, ReadStep DEF ReloadStates
    <3>5. CASE RlRecord(r)
      BY <1>0, <3>5, EndSteps DEF Moves
    <3> QED
      BY <1>1, <3>1, <3>2, <3>3, <3>4, <3>5
  <2>4. DOMAIN rl[r].upds = {}
    BY <1>0, <2>2 DEF ReloadStates
  <2>5. \A i \in Ids : HeldSame(i) /\ updatesOf(i)' = updatesOf(i)
    BY <2>1, <2>3, <2>4 DEF HeldSame, EvHolds, RlHolds, updatesOf
  <2>6. \A i \in Ids : \/ current'[i] = current[i] /\ (i \in orphans => i \in orphans')
                       \/ i \in orphans'
    <3>1. CASE RlDrop(r)
      BY <3>1 DEF RlDrop, WatchedTyped
    <3>2. CASE ~ RlDrop(r)
      BY <1>1, <3>2 DEF RlFire, RlSet, RlScan, RlRefresh, RlRead, RlRecord, watched, history
    <3> QED
      BY <3>1, <3>2
  <2>7. ASSUME NEW i \in Ids PROVE Good(i)'
    <3>1. CASE i \in orphans'
      BY <3>1 DEF Good
    <3>2. CASE i \notin orphans'
      BY <2>1, <2>5, <2>6, <3>2, GoodFrame DEF Agrees
    <3> QED
      BY <3>1, <3>2
  <2> QED
    BY <2>7 DEF Agrees
<1>2. CASE RlDiff(r)
  <2> DEFINE D == DOMAIN rl'[r].upds
             busy == {i \in Ids : \/ EvHolds(i) \/ CallHolds(i)
                                  \/ \E q \in Reloaders \ {r} : RlHolds(q, i)}
  <2>1. UNCHANGED <<ev, calls, pending, batch, queue, core>> /\ DOMAIN rl[r].upds = {}
    BY <1>0, <1>2 DEF RlDiff, channel, Rl, ReloadStates
  <2>2. /\ D = {i \in Ids : \/ NewState(r)[i] # current[i]
                            \/ rl[r].force /\ NewState(r)[i] # 0}
        /\ \A i \in D : rl'[r].upds[i] = current'[i]
        /\ \A q \in Reloaders \ {r} : rl'[q] = rl[q]
        /\ current' = NewState(r)
    BY <1>2, DiffStep
  <2>3. Prepare(D, busy)
    BY <1>2, <2>2 DEF RlDiff
  <2>4. \A i \in Ids : updatesOf(i)' = updatesOf(i)
    BY <2>1 DEF updatesOf
  <2>5. \A i \in Ids \ D : current'[i] = current[i]
    BY <2>2
  <2>6. \A i : /\ i \in crossed' <=> (i \in crossed /\ i \notin D) \/ (i \in D /\ i \in busy)
               /\ i \in orphans' <=> i \in orphans /\ i \notin D
    BY <2>3 DEF Prepare
  <2>7. \A q \in Reloaders, i \in Ids :
           RlHolds(q, i)' <=> IF q = r THEN i \in D ELSE RlHolds(q, i)
    BY <2>2 DEF RlHolds
  <2>8. \A i \in Ids : EvHolds(i)' = EvHolds(i) /\ CallHolds(i)' = CallHolds(i)
    BY <2>1 DEF EvHolds, CallHolds
  <2> HIDE DEF D
  <2>9. ASSUME NEW i \in Ids, i \notin D PROVE Good(i)'
    <3>1. HeldSame(i)
      BY <2>1, <2>2, <2>7, <2>9 DEF HeldSame, EvHolds, RlHolds
    <3> QED
      BY <2>1, <2>4, <2>5, <2>6, <2>9, <3>1, GoodFrame DEF Agrees
  <2>10. ASSUME NEW i \in Ids, i \in D PROVE Good(i)'
    <3>1. CASE i \in busy
      BY <2>6, <2>10, <3>1 DEF Good
    <3>2. CASE i \notin busy
      <4>1. ~ EvHolds(i)' /\ ~ CallHolds(i)' /\ \A q \in Reloaders : RlHolds(q, i)' => q = r
        BY <2>7, <2>8, <3>2
      <4>2. RlHolds(r, i)' /\ rl'[r].upds[i] = current'[i]
        BY <2>2, <2>7, <2>10
      <4> QED
        BY <4>1, <4>2 DEF Good, Alone, HeldAgrees, SentAgrees, Nobody, CallHolds
    <3> QED
      BY <3>1, <3>2
  <2> QED
    BY <2>9, <2>10 DEF Agrees
<1>3. CASE RlDispatch(r)
  <2> DEFINE u == rl[r].upds
  <2>1. /\ Dispatch(u)
        /\ UNCHANGED <<current, ev, calls, crossed, orphans>> /\ core' = core
    BY <1>3 DEF RlDispatch, Dispatch, watched, history
  <2>2. u \in UpdateSets
    BY <1>0 DEF ReloadRecords
  <2>3. \A i \in Ids :
           IF i \in DOMAIN u
           THEN updatesOf(i)' # <<>> /\ Last(updatesOf(i)') = u[i]
           ELSE updatesOf(i)' = updatesOf(i)
    BY <2>1, <2>2, DispatchPuts
  <2>4. DOMAIN rl'[r].upds = {} /\ \A q \in Reloaders \ {r} : rl'[q] = rl[q]
    <3>1. [RlIdle EXCEPT !.pc = "record"].upds = NoUpdates
      BY DEF RlIdle
    <3> QED
      BY <1>0, <1>3, <3>1, EndSteps DEF Moves
  <2>5. ASSUME NEW i \in Ids PROVE Good(i)'
    <3>1. CASE i \notin DOMAIN u
      <4>1. HeldSame(i)
        BY <2>1, <2>4, <3>1 DEF HeldSame, EvHolds, RlHolds
      <4> QED
        BY <2>1, <2>3, <3>1, <4>1, GoodFrame DEF Agrees
    <3>2. CASE i \in DOMAIN u
      <4>1. Alone(i) => Nobody(i)'
        BY <2>1, <2>4, <3>2 DEF Alone, Nobody, EvHolds, CallHolds, RlHolds
      <4>2. HeldAgrees(i) => u[i] = current[i]
        BY <3>2 DEF HeldAgrees, RlHolds
      <4> HIDE DEF u
      <4> QED
        BY <2>1, <2>3, <3>2, <4>1, <4>2, GoodDispatched DEF Agrees
    <3> QED
      BY <3>1, <3>2
  <2> QED
    BY <2>5 DEF Agrees
<1> QED
  BY <1>1, <1>2, <1>3 DEF ReloadStep

LEMMA RelayAgrees ==
    ASSUME Kinds, Agrees, RelayStep
    PROVE  Agrees'
<1> USE DEF Kinds
<1>1. ASSUME NEW x \in Relays, NEW v \in {0, RelayVersion}, RelayCall(x, v)
      PROVE  Agrees'
  <2> DEFINE c == [id |-> x, val |-> v]
             busy == {i \in Ids : CallHolds(i) \/ \E r \in Reloaders : RlHolds(r, i)}
  <2>1. /\ UNCHANGED <<rl, ev, pending, batch, queue, core>> /\ x \in Ids /\ x \notin Files
        /\ calls' = calls \cup {c} /\ current' = [current EXCEPT ![x] = v]
        /\ Prepare({x}, busy)
    BY <1>1, PipelineAssumption DEF RelayCall, channel, Ids
  <2>2. \A i \in Ids : updatesOf(i)' = updatesOf(i)
    BY <2>1 DEF updatesOf
  <2>3. ~ EvHolds(x)' /\ \A i \in Ids : EvHolds(i)' = EvHolds(i)
    BY <2>1 DEF EvHolds, EventGoroutine
  <2>4. \A r \in Reloaders, i \in Ids : RlHolds(r, i)' = RlHolds(r, i)
    BY <2>1 DEF RlHolds
  <2>5. c.id = x /\ c.val = v /\ current'[x] = v
    BY <2>1 DEF WatchedTyped
  <2> HIDE DEF c
  <2>6. \A i : /\ i \in crossed' <=> (i \in crossed /\ i # x) \/ (i = x /\ i \in busy)
               /\ i \in orphans' <=> i \in orphans /\ i # x
    BY <2>1 DEF Prepare
  <2>7. ASSUME NEW i \in Ids, i # x PROVE Good(i)'
    <3>1. HeldSame(i)
      BY <2>1, <2>5, <2>7 DEF HeldSame, EvHolds, RlHolds
    <3>2. current'[i] = current[i]
      BY <2>1, <2>7 DEF WatchedTyped
    <3> QED
      BY <2>1, <2>2, <2>6, <2>7, <3>1, <3>2, GoodFrame DEF Agrees
  <2>8. Good(x)'
    <3>1. CASE x \in busy
      BY <2>6, <3>1 DEF Good
    <3>2. CASE x \notin busy
      <4>1. (\A d \in calls : d.id # x) /\ \A r \in Reloaders : ~ RlHolds(r, x)'
        BY <2>1, <2>4, <3>2 DEF CallHolds
      <4>2. CallHolds(x)' /\ \A d \in calls' : d.id = x => d = c
        BY <2>1, <2>5, <4>1 DEF CallHolds
      <4> QED
        BY <2>3, <2>5, <4>1, <4>2 DEF Good, Alone, HeldAgrees, SentAgrees, Nobody
    <3> QED
      BY <3>1, <3>2
  <2> QED
    BY <2>7, <2>8 DEF Agrees
<1>2. ASSUME NEW c \in calls, RelayDispatch(c)
      PROVE  Agrees'
  <2> DEFINE u == [i \in {c.id} |-> c.val]
  <2>1. c.id \in Ids /\ c.val \in Vals
    BY DEF CallsTyped, Ids
  <2>2. u \in UpdateSets /\ DOMAIN u = {c.id} /\ u[c.id] = c.val
    BY <2>1, OneUpdate
  <2>3. /\ Dispatch(u) /\ calls' = calls \ {c}
        /\ UNCHANGED <<current, ev, rl, crossed, orphans>> /\ core' = core
    BY <1>2 DEF RelayDispatch, Dispatch, watched, history
  <2> HIDE DEF u
  <2>4. \A i \in Ids :
           IF i = c.id
           THEN updatesOf(i)' # <<>> /\ Last(updatesOf(i)') = c.val
           ELSE updatesOf(i)' = updatesOf(i)
    BY <2>2, <2>3, DispatchPuts
  <2>5. ASSUME NEW i \in Ids PROVE Good(i)'
    <3>1. CASE i # c.id
      <4>1. HeldSame(i)
        BY <2>3, <3>1 DEF HeldSame, EvHolds, RlHolds
      <4> QED
        BY <2>3, <2>4, <3>1, <4>1, GoodFrame DEF Agrees
    <3>2. CASE i = c.id
      <4>1. Alone(i) => Nobody(i)'
        BY <2>3, <3>2 DEF Alone, Nobody, EvHolds, CallHolds, RlHolds
      <4>2. HeldAgrees(i) => c.val = current[i]
        BY <3>2 DEF HeldAgrees
      <4> QED
        BY <2>3, <2>4, <3>2, <4>1, <4>2, GoodDispatched DEF Agrees
    <3> QED
      BY <3>1, <3>2
  <2> QED
    BY <2>5 DEF Agrees
<1> QED
  BY <1>1, <1>2 DEF RelayStep

LEMMA AgreesInit == Init => Agrees
<1> SUFFICES ASSUME Init, NEW i \in Ids, i \notin orphans PROVE Good(i)
  BY DEF Agrees, Good
<1>1. /\ ev = EvIdle /\ calls = {} /\ pending = <<>> /\ batch = <<>> /\ queue = <<>>
      /\ DOMAIN EvIdle.upds = {} /\ DOMAIN RlIdle.upds = {}
  BY NoUpdatesIsASet DEF Init, NothingGoesOn, EvIdle, RlIdle
<1>2. \A r \in Reloaders : DOMAIN rl[r].upds = {}
  <2>1. DOMAIN [RlIdle EXCEPT !.pc = "scan", !.start = TRUE].upds = {}
    BY NoUpdatesIsASet DEF RlIdle
  <2>2. CASE Starting
    BY <1>1, <2>1, <2>2 DEF Starting
  <2>3. CASE Settled
    BY <1>1, <2>3 DEF Settled
  <2> QED
    BY <2>2, <2>3 DEF Init
<1>3. core[i] = current[i]
  BY DEF Init, NothingGoesOn, Starting, Settled, Ids
<1>4. updatesOf(i) = <<>>
  <2>1. <<>> \in Seq(Sent) /\ Len(<<>>) = 0 /\ <<>> \o <<>> \o <<>> = <<>>
    OBVIOUS
  <2>2. Updates(<<>>, i) = <<>>
    <3> DEFINE e == <<>>
    <3>1. e \in Seq(Sent) /\ Len(e) = 0
      BY <2>1
    <3> HIDE DEF e
    <3>2. \A n \in 1 .. Len(e) : e[n].id # i
      BY <3>1
    <3>3. Updates(e, i) = <<>>
      BY <3>1, <3>2, UpdatesNone
    <3> QED
      BY <3>3 DEF e
  <2> QED
    BY <1>1, <2>1, <2>2 DEF updatesOf
<1> QED
  BY <1>1, <1>2, <1>3, <1>4 DEF Good, Alone, HeldAgrees, SentAgrees, Nobody, EvHolds, CallHolds,
                                RlHolds

LEMMA AgreesStep == Kinds /\ Agrees /\ [Next]_vars => Agrees'
<1> SUFFICES ASSUME Kinds, Agrees, [Next]_vars PROVE Agrees'
  OBVIOUS
<1>1. CASE Environment \/ Finished \/ UNCHANGED vars
  <2>1. UNCHANGED <<current, ev, rl, calls, pending, batch, queue, core, crossed, orphans>>
    BY <1>1 DEF Environment, ChangeFile, ChangeConfig, Finished, vars, watched, channel, history
  <2>2. \A i \in Ids : HeldSame(i) /\ updatesOf(i)' = updatesOf(i)
    BY <2>1 DEF HeldSame, EvHolds, RlHolds, updatesOf
  <2> QED
    BY <2>1, <2>2, GoodFrame DEF Agrees
<1> QED
  BY <1>1, DispatcherAgrees, EventAgrees, ReloadAgrees, RelayAgrees DEF Next

----------------------------------------------------------------------------
(* Relays *)

LEMMA RelaysKeptStep == Kinds /\ RelaysKept /\ [Next]_vars => RelaysKept'
<1> SUFFICES ASSUME Kinds, RelaysKept, [Next]_vars PROVE RelaysKept'
  OBVIOUS
<1> USE DEF Kinds
<1>0. Relays \subseteq Ids /\ (\A x \in Relays : x \notin Files /\ x \notin Keys)
  BY PipelineAssumption DEF Ids
<1>1. CASE \/ Environment \/ Finished \/ UNCHANGED vars \/ TakeBatch \/ Send \/ Consume
           \/ EvTake \/ EvStat \/ EvCheck \/ EvDispatch \/ \E c \in calls : RelayDispatch(c)
  <2>1. UNCHANGED <<current, runtime, rl>>
    BY <1>1 DEF Environment, ChangeFile, ChangeConfig, Finished, vars, TakeBatch, Send, Consume,
                EvTake, EvStat, EvCheck, EvDispatch, RelayDispatch, watched
  <2> QED
    BY <2>1 DEF RelaysKept
<1>2. CASE EvApply \/ EvGone
  <2>1. /\ UNCHANGED <<runtime, rl>>
        /\ \/ current' = current
           \/ \E v \in Vals : current' = [current EXCEPT ![ev.file] = v]
        /\ ev.file \in Files
    BY <1>2 DEF EvApply, EvGone, EventGoroutine, Vals
  <2>2. \A x \in Relays : current'[x] = current[x]
    BY <1>0, <2>1 DEF WatchedTyped
  <2> QED
    BY <2>1, <2>2 DEF RelaysKept
<1>3. ASSUME NEW x \in Relays, NEW v \in {0, RelayVersion}, RelayCall(x, v)
      PROVE  RelaysKept'
  <2>1. \A y \in Relays : \/ current'[y] = runtime'[y]
                          \/ y # x /\ current'[y] = current[y] /\ runtime'[y] = runtime[y]
    BY <1>0, <1>3 DEF RelayCall, WatchedTyped
  <2>2. rl' = rl
    BY <1>3 DEF RelayCall
  <2> QED
    BY <2>1, <2>2 DEF RelaysKept
<1>4. ASSUME NEW r \in Reloaders, ReloadStep(r)
      PROVE  RelaysKept'
  <2>1. CASE RlDiff(r)
    <3>1. \A x \in Relays : NewState(r)[x] = runtime[x]
      BY <1>0 DEF NewState
    <3> QED
      BY <2>1, <3>1 DEF RlDiff, RelaysKept
  <2>2. CASE RlDrop(r) \/ RlScan(r)
    <3>1. rl'[r].pc = "refresh"
      BY <2>2, ReloadSteps DEF Moves, Reloads, ReloadStates, ReloadRecords
    <3> QED
      BY <3>1 DEF RelaysKept
  <2>3. CASE \/ RlFire(r) \/ (\E drop, force \in BOOLEAN : RlSet(r, drop, force))
             \/ RlRefresh(r) \/ (\E f \in Files : RlRead(r, f))
             \/ RlDispatch(r) \/ RlRecord(r)
    <3>1. UNCHANGED <<current, runtime>>
      BY <2>3 DEF RlFire, RlSet, RlRefresh, RlRead, RlDispatch, RlRecord, watched
    <3>2. rl[r].pc \in {"refresh", "snapshot"} => rl'[r].pc = "snapshot"
      <4>1. CASE RlRefresh(r)
        <5>1. Moves(r, [rl[r] EXCEPT !.pc = "snapshot", !.cfg = cfg, !.left = Files])
          BY <4>1, ReloadSteps
        <5> QED
          BY <5>1 DEF Moves, Reloads, ReloadStates, ReloadRecords
      <4>2. CASE \E f \in Files : RlRead(r, f)
        BY <4>2, ReadStep
      <4>3. CASE ~ RlRefresh(r) /\ ~ \E f \in Files : RlRead(r, f)
        BY <2>3, <4>3 DEF RlFire, RlSet, RlDispatch, RlRecord, Rl
      <4> QED
        BY <4>1, <4>2, <4>3
    <3>3. \A q \in Reloaders \ {r} : rl'[q] = rl[q]
      BY <1>4, OthersStay
    <3> QED
      BY <3>1, <3>2, <3>3 DEF RelaysKept
  <2> QED
    BY <1>4, <2>1, <2>2, <2>3 DEF ReloadStep
<1> QED
  BY <1>1, <1>2, <1>3, <1>4 DEF Next, EventStep, RelayStep

----------------------------------------------------------------------------
(* Files *)

LEMMA FilesFrame ==
    ASSUME FilesTracked, UNCHANGED <<disk, events, ev, hash, lostRemoval>>,
           Scanning => Scanning', CurrentTracksHash'
    PROVE  FilesTracked'
  BY DEF FilesTracked, EventsTell, ReadIsFresh, HashTracksDisk, Queued, Unseen

LEMMA ChangeTracked ==
    ASSUME Kinds, FilesTracked, NEW f \in Files, NEW content, ChangeFile(f, content)
    PROVE  FilesTracked'
<1> USE DEF Kinds
<1> DEFINE e == [op |-> IF content = 0 THEN "remove" ELSE "write", file |-> f]
<1>1. /\ disk' = [disk EXCEPT ![f] = content] /\ events' = Append(events, e)
      /\ UNCHANGED <<hash, current, ev, rl, stale, lostRemoval>>
  BY DEF ChangeFile, watched, history
<1>2. /\ Len(events) \in Nat /\ DOMAIN events = 1 .. Len(events)
      /\ DOMAIN events' = 1 .. Len(events) + 1
      /\ \A n \in 1 .. Len(events) : events'[n] = events[n]
      /\ events'[Len(events) + 1] = e
  BY <1>1 DEF OutsideTyped
<1>3. e.file = f /\ (e.op = "remove" <=> content = 0)
  OBVIOUS
<1>4. disk'[f] = content /\ \A g \in Files : g # f => disk'[g] = disk[g]
  BY <1>1 DEF OutsideTyped
<1>5. \A n \in 1 .. Len(events) : events[n].file \in Files
  <2> DEFINE E == [op : {"write", "remove"}, file : Files]
  <2>1. events \in Seq(E) /\ \A x \in E : x.file \in Files
    BY DEF OutsideTyped
  <2> HIDE DEF E
  <2>2. \A n \in 1 .. Len(events) : events[n] \in E
    BY <2>1
  <2> QED
    BY <2>1, <2>2
<1> HIDE DEF e
<1>6. Queued(f)' /\ \A g : Queued(g) => Queued(g)'
  BY <1>2, <1>3 DEF Queued
<1>7. EventsTell'
  <2>1. ASSUME NEW n \in 1 .. Len(events) + 1
        PROVE  \/ \E m \in 1 .. Len(events) + 1 : m > n /\ events'[m].file = events'[n].file
               \/ events'[n].op = "remove" <=> disk'[events'[n].file] = 0
    <3>1. CASE n = Len(events) + 1
      BY <1>2, <1>3, <1>4, <3>1
    <3>2. CASE n # Len(events) + 1 /\ events[n].file = f
      BY <1>2, <1>3, <3>2
    <3>3. CASE n # Len(events) + 1 /\ events[n].file # f
      <4>1. n \in 1 .. Len(events) /\ events'[n] = events[n] /\ events[n].file \in Files
        BY <1>2, <1>5, <3>3
      <4>2. \/ \E m \in 1 .. Len(events) : m > n /\ events[m].file = events[n].file
            \/ events[n].op = "remove" <=> disk[events[n].file] = 0
        BY <1>2, <4>1 DEF FilesTracked, EventsTell
      <4> QED
        BY <1>2, <1>4, <3>3, <4>1, <4>2
    <3> QED
      BY <3>1, <3>2, <3>3
  <2> QED
    BY <1>2, <2>1 DEF EventsTell
<1>8. ReadIsFresh'
  <2>1. ev.pc \in {"check", "apply", "gone"} => ev.file \in Files
    BY DEF EventGoroutine
  <2> QED
    BY <1>1, <1>4, <1>6, <2>1 DEF FilesTracked, ReadIsFresh
<1>9. HashTracksDisk'
  BY <1>1, <1>4, <1>6 DEF FilesTracked, HashTracksDisk, Unseen, Scanning, Rl
<1>10. CurrentTracksHash'
  BY <1>1 DEF FilesTracked, CurrentTracksHash, Snapping, Rl
<1> QED
  BY <1>7, <1>8, <1>9, <1>10 DEF FilesTracked

LEMMA TakeTracked ==
    ASSUME Kinds, FilesTracked, EvTake
    PROVE  FilesTracked'
<1> USE DEF Kinds
<1> DEFINE e == Head(events)
<1>1. /\ events # <<>> /\ events' = Tail(events) /\ ev.pc = "idle"
      /\ UNCHANGED <<disk, hash, current, rl, stale>>
  BY DEF EvTake
<1>2. /\ Len(events) \in Nat /\ Len(events) > 0 /\ DOMAIN events = 1 .. Len(events)
      /\ DOMAIN events' = 1 .. Len(events) - 1
      /\ \A n \in 1 .. Len(events) - 1 : events'[n] = events[n + 1]
      /\ e = events[1] /\ e \in [op : {"write", "remove"}, file : Files]
  <2>1. events \in Seq([op : {"write", "remove"}, file : Files])
    BY DEF OutsideTyped
  <2>2. /\ Len(events) \in Nat /\ DOMAIN events = 1 .. Len(events) /\ e = events[1]
        /\ Len(events) > 0
    BY <1>1, <2>1
  <2>3. /\ Tail(events) \in Seq([op : {"write", "remove"}, file : Files])
        /\ Len(Tail(events)) = Len(events) - 1
        /\ \A n \in 1 .. Len(Tail(events)) : Tail(events)[n] = events[n + 1]
        /\ e \in [op : {"write", "remove"}, file : Files]
    BY <1>1, <2>1, HeadTailProperties
  <2> QED
    BY <1>1, <2>2, <2>3
<1>3. PICK f \in Files : f = e.file
  BY <1>2
<1> HIDE DEF e
<1>4. \A g : Queued(g) => Queued(g)' \/ g = f
  <2> SUFFICES ASSUME NEW g, NEW n \in 1 .. Len(events), events[n].file = g, g # f
               PROVE  Queued(g)'
    BY <1>2 DEF Queued
  <2>1. n # 1
    BY <1>2, <1>3
  <2>2. n - 1 \in 1 .. Len(events) - 1 /\ (n - 1) + 1 = n
    BY <1>2, <2>1
  <2>3. events'[n - 1] = events[n]
    BY <1>2, <2>2
  <2> QED
    BY <1>2, <2>2, <2>3 DEF Queued
<1>5. EventsTell'
  <2>1. ASSUME NEW n \in 1 .. Len(events) - 1
        PROVE  \/ \E m \in 1 .. Len(events) - 1 : m > n /\ events'[m].file = events'[n].file
               \/ events'[n].op = "remove" <=> disk[events'[n].file] = 0
    <3>1. n + 1 \in 1 .. Len(events) /\ events'[n] = events[n + 1]
      BY <1>2
    <3>2. CASE \E m \in 1 .. Len(events) : m > n + 1 /\ events[m].file = events[n + 1].file
      <4>1. PICK m \in 1 .. Len(events) : m > n + 1 /\ events[m].file = events[n + 1].file
        BY <3>2
      <4>2. m - 1 \in 1 .. Len(events) - 1 /\ m - 1 > n /\ events'[m - 1] = events[m]
        <5>1. m - 1 \in 1 .. Len(events) - 1 /\ m - 1 > n /\ (m - 1) + 1 = m
          BY <1>2, <4>1
        <5> QED
          BY <1>2, <5>1
      <4> QED
        BY <3>1, <4>1, <4>2
    <3>3. CASE events[n + 1].op = "remove" <=> disk[events[n + 1].file] = 0
      BY <3>1, <3>3
    <3> QED
      BY <1>2, <3>1, <3>2, <3>3 DEF FilesTracked, EventsTell
  <2> QED
    BY <1>1, <1>2, <2>1 DEF EventsTell
(* The event of a write is followed by another one if the file is gone.    *)
<1>6. e.op = "write" => Queued(f)' \/ disk[f] # 0
  <2> SUFFICES ASSUME e.op = "write", disk[f] = 0 PROVE Queued(f)'
    OBVIOUS
  <2>1. 1 \in DOMAIN events
    BY <1>2
  <2>2. \E m \in DOMAIN events : m > 1 /\ events[m].file = events[1].file
    BY <1>2, <1>3, <2>1 DEF FilesTracked, EventsTell
  <2>3. PICK m \in 1 .. Len(events) : m > 1 /\ events[m].file = f
    BY <1>2, <1>3, <2>2
  <2>4. m - 1 \in 1 .. Len(events) - 1 /\ (m - 1) + 1 = m
    BY <1>2, <2>3
  <2>5. events'[m - 1] = events[m]
    BY <1>2, <2>4
  <2> QED
    BY <1>2, <2>3, <2>4, <2>5 DEF Queued
<1>7. \/ ev' = ev /\ f \in lostRemoval' /\ lostRemoval \subseteq lostRemoval'
      \/ /\ ev'.pc = "sleep" /\ ev'.file = f /\ lostRemoval' = lostRemoval
      \/ /\ ev'.pc = "check" /\ ev'.file = f /\ ev'.data = disk[f]
         /\ lostRemoval' = lostRemoval /\ e.op = "write"
  <2>1. \/ e.file \in removed /\ lostRemoval' = lostRemoval \cup {e.file} /\ ev' = ev
        \/ /\ ev' = [EvIdle EXCEPT !.pc = "sleep", !.file = e.file]
           /\ lostRemoval' = lostRemoval
        \/ /\ ev' = [EvIdle EXCEPT !.pc = "check", !.file = e.file, !.data = disk[e.file]]
           /\ lostRemoval' = lostRemoval /\ e.op = "write"
    BY DEF EvTake, e
  <2> QED
    BY <1>3, <2>1 DEF EvIdle
<1>8. ReadIsFresh'
  <2>1. Queued(f)' /\ ev'.file = f => Queued(ev.file)'
    BY DEF Queued
  <2> QED
    BY <1>1, <1>6, <1>7, <2>1 DEF ReadIsFresh
<1>9. HashTracksDisk'
  <2>1. ASSUME NEW g \in Files, hash[g] = disk[g] \/ disk[g] = Partial \/ g \in lostRemoval \/ Unseen(g)
        PROVE  hash[g] = disk[g] \/ disk[g] = Partial \/ g \in lostRemoval' \/ Unseen(g)'
    <3>1. CASE g = f
      BY <1>7, <3>1 DEF Unseen
    <3>2. CASE g # f
      BY <1>1, <1>4, <1>7, <2>1, <3>2 DEF Unseen
    <3> QED
      BY <3>1, <3>2
  <2> QED
    BY <1>1, <2>1 DEF FilesTracked, HashTracksDisk, Scanning, Rl
<1>10. CurrentTracksHash'
  BY <1>1 DEF FilesTracked, CurrentTracksHash, Snapping, Rl
<1> QED
  BY <1>5, <1>8, <1>9, <1>10 DEF FilesTracked

LEMMA ReadTracked ==
    ASSUME Kinds, FilesTracked, EvStat \/ EvCheck
    PROVE  FilesTracked'
<1> USE DEF Kinds
<1>1. /\ UNCHANGED <<disk, events, hash, current, rl, stale, lostRemoval>>
      /\ ev.file \in Files
  BY DEF EvStat, EvCheck, outside, watched, history, EventGoroutine
<1>2. EventsTell' /\ CurrentTracksHash' /\ (Scanning' <=> Scanning)
      /\ \A g : Queued(g)' <=> Queued(g)
  BY <1>1 DEF FilesTracked, EventsTell, CurrentTracksHash, Snapping, Scanning, Rl, Queued
<1>3. disk[ev.file] # 0 \/ disk[ev.file] = 0
  OBVIOUS
<1>4. CASE EvStat
  <2>1. \/ ev'.pc = "gone" /\ ev'.file = ev.file /\ disk[ev.file] = 0
        \/ /\ ev'.pc = "check" /\ ev'.file = ev.file /\ ev'.data = disk[ev.file]
           /\ disk[ev.file] # 0
    BY <1>4 DEF EvStat, EventGoroutine
  <2>2. ReadIsFresh'
    BY <1>1, <2>1 DEF ReadIsFresh
  <2>3. \A f : Unseen(f) => Unseen(f)'
    BY <1>2, <2>1 DEF Unseen
  <2> QED
    BY <1>1, <1>2, <2>2, <2>3 DEF FilesTracked, HashTracksDisk
<1>5. CASE EvCheck
  <2> DEFINE f == ev.file
  <2>1. CASE (ev.data \in Versions /\ hash[f] = ev.data) \/ disk[f] \notin Versions
    <3>1. ev'.pc = "idle"
      BY <1>5, <2>1 DEF EvCheck, EvIdle
    <3>2. hash[f] = disk[f] \/ disk[f] = Partial \/ Queued(f)
      <4>1. Queued(f) \/ (ev.data = disk[f] /\ ev.data # 0)
        BY <1>5 DEF EvCheck, FilesTracked, ReadIsFresh
      <4>2. disk[f] \in Versions \cup {0, Partial}
        BY <1>1 DEF OutsideTyped, Vals
      <4> QED
        BY <2>1, <4>1, <4>2
    <3>3. \A g : Unseen(g) => Unseen(g)' \/ g = f
      BY <1>2 DEF Unseen
    <3>4. HashTracksDisk'
      BY <1>1, <1>2, <3>2, <3>3 DEF FilesTracked, HashTracksDisk, Unseen
    <3>5. ReadIsFresh'
      BY <3>1 DEF ReadIsFresh
    <3> QED
      BY <1>2, <3>4, <3>5 DEF FilesTracked
  <2>2. CASE ~ ((ev.data \in Versions /\ hash[f] = ev.data) \/ disk[f] \notin Versions)
    <3>1. ev'.pc = "apply" /\ ev'.file = f /\ ev'.data = disk[f]
      BY <1>5, <2>2 DEF EvCheck, EventGoroutine
    <3>2. \A g : Unseen(g) => Unseen(g)'
      BY <1>2, <3>1 DEF Unseen
    <3>3. ReadIsFresh'
      BY <1>1, <3>1 DEF ReadIsFresh
    <3>4. HashTracksDisk'
      BY <1>1, <1>2, <3>2 DEF FilesTracked, HashTracksDisk
    <3> QED
      BY <1>2, <3>3, <3>4 DEF FilesTracked
  <2> QED
    BY <2>1, <2>2
<1> QED
  BY <1>4, <1>5

LEMMA AppliedTracked ==
    ASSUME Kinds, FilesTracked, EvApply \/ EvGone
    PROVE  FilesTracked'
<1> USE DEF Kinds
<1> DEFINE f == ev.file
<1>1. /\ UNCHANGED <<disk, events, rl>> /\ f \in Files /\ f \in Ids
  BY DEF EvApply, EvGone, outside, EventGoroutine, Ids
<1>2. PICK v \in Vals :
        /\ Queued(f) \/ v = disk[f]
        /\ \/ hash[f] = v /\ UNCHANGED <<hash, current, stale, lostRemoval>>
           \/ /\ hash' = [hash EXCEPT ![f] = v] /\ current' = [current EXCEPT ![f] = v]
              /\ stale' = stale \ {f} /\ lostRemoval' = lostRemoval \ {f}
  <2>1. CASE EvApply
    <3>1. ev.data \in Vals /\ (Queued(f) \/ ev.data = disk[f])
      BY <2>1 DEF EvApply, EventGoroutine, Vals, FilesTracked, ReadIsFresh
    <3> QED
      BY <2>1, <3>1 DEF EvApply, Recorded, history
  <2>2. CASE EvGone
    <3>1. 0 \in Vals /\ (Queued(f) \/ disk[f] = 0)
      BY <2>2 DEF EvGone, Vals, FilesTracked, ReadIsFresh
    <3> QED
      BY <2>2, <3>1 DEF EvGone, Recorded, history
  <2> QED
    BY <2>1, <2>2
<1>3. ev'.pc \in {"idle", "dispatch"}
  <2>0. EvIdle.pc = "idle" /\ \A u : EvDispatches(u).pc \in {"idle", "dispatch"}
    BY DEF EvDispatches, EvIdle, EventGoroutine
  <2>1. CASE EvApply
    BY <2>0, <2>1 DEF EvApply
  <2>2. CASE EvGone
    BY <2>0, <2>2 DEF EvGone
  <2> QED
    BY <2>1, <2>2
<1>4. EventsTell' /\ (Scanning' <=> Scanning) /\ (Snapping' <=> Snapping)
      /\ \A g : Queued(g)' <=> Queued(g)
  BY <1>1 DEF FilesTracked, EventsTell, Snapping, Scanning, Rl, Queued
<1>5. /\ hash'[f] = v /\ \A g \in Files : g # f => hash'[g] = hash[g]
  BY <1>1, <1>2 DEF WatchedTyped
<1>6. \A g \in Files : g # f => current'[g] = current[g]
  BY <1>1, <1>2 DEF WatchedTyped, Ids
<1> HIDE DEF f
<1>7. ReadIsFresh'
  BY <1>3 DEF ReadIsFresh
<1>8. HashTracksDisk'
  <2>1. ASSUME NEW g \in Files, hash[g] = disk[g] \/ disk[g] = Partial \/ g \in lostRemoval \/ Unseen(g)
        PROVE  hash'[g] = disk[g] \/ disk[g] = Partial \/ g \in lostRemoval' \/ Unseen(g)'
    <3>1. CASE g = f
      BY <1>2, <1>4, <1>5, <3>1 DEF Unseen
    <3>2. CASE g # f
      BY <1>2, <1>4, <1>5, <2>1, <3>2 DEF Unseen, f
    <3> QED
      BY <3>1, <3>2
  <2> QED
    BY <1>1, <1>4, <2>1 DEF FilesTracked, HashTracksDisk
<1>9. CurrentTracksHash'
  <2>1. ASSUME NEW g \in Files, current[g] = hash[g] \/ g \in stale
        PROVE  current'[g] = hash'[g] \/ g \in stale'
    <3>1. CASE g # f
      BY <1>2, <1>5, <1>6, <2>1, <3>1
    <3>2. CASE g = f
      <4>1. current \in [Ids -> Vals] /\ hash \in [Files -> Vals]
        BY DEF WatchedTyped
      <4> QED
        BY <1>1, <1>2, <2>1, <3>2, <4>1
    <3> QED
      BY <3>1, <3>2
  <2> QED
    BY <1>4, <2>1 DEF FilesTracked, CurrentTracksHash
<1> QED
  BY <1>4, <1>7, <1>8, <1>9 DEF FilesTracked

LEMMA ReloadTracked ==
    ASSUME Kinds, FilesTracked, NEW r \in Reloaders, ReloadStep(r)
    PROVE  FilesTracked'
<1> USE DEF Kinds
<1>0. rl[r] \in ReloadRecords /\ Files \subseteq Ids
  BY DEF Reloads, ReloadStates, Ids
(* Up to the diff there is nothing to show of current...                   *)
<1>1. CASE RlScan(r)
  <2>1. /\ UNCHANGED <<disk, events, ev, lostRemoval>>
        /\ hash' = [f \in Files |-> Credential(disk[f])]
    BY <1>1 DEF RlScan, outside, history
  <2>2. rl'[r].pc = "refresh"
    <3>1. Moves(r, [rl[r] EXCEPT !.pc = "refresh"])
      BY <1>1, ReloadSteps
    <3> QED
      BY <1>0, <3>1 DEF Moves, ReloadRecords
  <2>3. CurrentTracksHash'
    BY <2>2 DEF CurrentTracksHash, Snapping, Rl
  <2>4. \A f \in Files : hash'[f] = disk[f] \/ disk[f] = Partial
    BY <2>1, ContentTyped DEF OutsideTyped
  <2>5. HashTracksDisk'
    BY <2>1, <2>4 DEF HashTracksDisk
  <2> QED
    BY <2>1, <2>3, <2>5 DEF FilesTracked, EventsTell, ReadIsFresh, Queued
<1>2. CASE RlDrop(r) \/ RlRefresh(r) \/ \E f \in Files : RlRead(r, f)
  <2>1. UNCHANGED <<disk, events, ev, hash, lostRemoval>> /\ rl[r].pc # "scan"
    BY <1>2 DEF RlDrop, RlRefresh, RlRead, outside, watched, history, Rl
  <2>2. rl'[r].pc \in {"refresh", "snapshot"} /\ \A q \in Reloaders \ {r} : rl'[q] = rl[q]
    <3>1. CASE RlDrop(r)
      <4>1. Moves(r, [rl[r] EXCEPT !.pc = "refresh"])
        BY <3>1, ReloadSteps
      <4> QED
        BY <1>0, <4>1 DEF Moves, ReloadRecords
    <3>2. CASE RlRefresh(r)
      <4>1. Moves(r, [rl[r] EXCEPT !.pc = "snapshot", !.cfg = cfg, !.left = Files])
        BY <3>2, ReloadSteps
      <4> QED
        BY <1>0, <4>1 DEF Moves, ReloadRecords
    <3>3. CASE \E f \in Files : RlRead(r, f)
      BY <3>3, ReadStep
    <3> QED
      BY <1>2, <3>1, <3>2, <3>3
  <2>3. Scanning => Scanning'
    BY <2>1, <2>2 DEF Scanning, Rl
  <2>4. CurrentTracksHash'
    BY <2>2 DEF CurrentTracksHash, Snapping, Rl
  <2> QED
    BY <2>1, <2>3, <2>4, FilesFrame
(* ...and the diff marks what it judged by another content.                *)
<1>3. CASE RlDiff(r)
  <2>1. /\ UNCHANGED <<disk, events, ev, hash, lostRemoval>> /\ rl[r].pc # "scan"
        /\ stale' = {f \in Files : rl[r].snap[f] # hash[f]}
    BY <1>3 DEF RlDiff, outside, Rl
  <2>2. \A q \in Reloaders \ {r} : rl'[q] = rl[q]
    BY <1>3, DiffStep
  <2>3. Scanning => Scanning'
    BY <2>1, <2>2 DEF Scanning, Rl
  <2>4. \A f \in Files : current'[f] = rl[r].snap[f]
    BY <1>0, <1>3, DiffStep DEF NewState
  <2>5. CurrentTracksHash'
    BY <2>1, <2>4 DEF CurrentTracksHash
  <2> QED
    BY <2>1, <2>3, <2>5, FilesFrame
<1>4. CASE \/ RlFire(r) \/ (\E drop, force \in BOOLEAN : RlSet(r, drop, force))
           \/ RlDispatch(r) \/ RlRecord(r)
  <2>1. /\ UNCHANGED <<disk, events, ev, hash, current, stale, lostRemoval>>
        /\ rl[r].pc \notin {"scan", "refresh", "snapshot"}
    BY <1>4 DEF RlFire, RlSet, RlDispatch, RlRecord, outside, watched, history, Rl
  <2>2. \A q \in Reloaders \ {r} : rl'[q] = rl[q]
    BY <1>4, ReloadSteps, EndSteps DEF Moves
  <2>3. (Scanning => Scanning') /\ (Snapping => Snapping')
    BY <2>1, <2>2 DEF Scanning, Snapping, Rl
  <2>4. CurrentTracksHash'
    BY <2>1, <2>3 DEF FilesTracked, CurrentTracksHash
  <2> QED
    BY <2>1, <2>3, <2>4, FilesFrame
<1> QED
  BY <1>1, <1>2, <1>3, <1>4 DEF ReloadStep

LEMMA FilesTrackedStep == Kinds /\ FilesTracked /\ [Next]_vars => FilesTracked'
<1> SUFFICES ASSUME Kinds, FilesTracked, [Next]_vars PROVE FilesTracked'
  OBVIOUS
<1> USE DEF Kinds
<1>1. CASE \/ (\E c \in [Keys -> Vals] : ChangeConfig(c)) \/ TakeBatch \/ Send \/ Consume
           \/ RelayStep \/ Finished \/ UNCHANGED vars
  <2>1. UNCHANGED <<disk, events, ev, hash, rl, stale, lostRemoval>>
    BY <1>1 DEF ChangeConfig, TakeBatch, Send, Consume, RelayStep, RelayCall, RelayDispatch,
                Finished, vars, outside, watched, history
  <2>2. \A f \in Files : current'[f] = current[f]
    <3>1. CASE \E x \in Relays, v \in {0, RelayVersion} : RelayCall(x, v)
      BY <3>1, PipelineAssumption DEF RelayCall, WatchedTyped, Ids
    <3>2. CASE ~ \E x \in Relays, v \in {0, RelayVersion} : RelayCall(x, v)
      BY <1>1, <3>2 DEF ChangeConfig, TakeBatch, Send, Consume, RelayStep, RelayDispatch,
                        Finished, vars, watched
    <3> QED
      BY <3>1, <3>2
  <2>3. (Scanning <=> Scanning') /\ (Snapping <=> Snapping')
    BY <2>1 DEF Scanning, Snapping, Rl
  <2>4. CurrentTracksHash'
    BY <2>1, <2>2, <2>3 DEF FilesTracked, CurrentTracksHash
  <2> QED
    BY <2>1, <2>3, <2>4, FilesFrame
<1>2. CASE EvDispatch
  <2>1. UNCHANGED <<disk, events, hash, rl, current, stale, lostRemoval>>
    BY <1>2 DEF EvDispatch, outside, watched, history
  <2>2. /\ ev.pc = "dispatch" /\ ev'.pc = "idle"
        /\ (Scanning <=> Scanning') /\ (Snapping <=> Snapping')
        /\ \A f : Unseen(f) => Unseen(f)'
    BY <1>2, <2>1 DEF EvDispatch, EvIdle, Scanning, Snapping, Rl, Unseen, Queued
  <2> QED
    BY <2>1, <2>2 DEF FilesTracked, EventsTell, ReadIsFresh, HashTracksDisk, CurrentTracksHash
<1> QED
  BY <1>1, <1>2, ChangeTracked, TakeTracked, ReadTracked, AppliedTracked, ReloadTracked
     DEF Next, Environment, EventStep

LEMMA FilesTrackedInit == Init => FilesTracked
<1> SUFFICES ASSUME Init PROVE FilesTracked
  OBVIOUS
<1>1. events = <<>> /\ ev.pc = "idle" /\ disk \in [Files -> Vals]
  BY DEF Init, NothingGoesOn, EvIdle, Vals
<1>2. EventsTell /\ ReadIsFresh
  BY <1>1 DEF EventsTell, ReadIsFresh
<1>3. CurrentTracksHash
  BY <1>1 DEF Init, Starting, Settled, CurrentTracksHash, Ids
<1>4. HashTracksDisk
  <2>1. CASE Starting
    <3>1. rl[Starter].pc = "scan"
      BY <2>1, PipelineAssumption DEF Starting, RlIdle
    <3> QED
      BY <3>1, PipelineAssumption DEF HashTracksDisk, Scanning, Rl
  <2>2. CASE Settled
    BY <2>2 DEF Settled, HashTracksDisk
  <2> QED
    BY <2>1, <2>2 DEF Init
<1> QED
  BY <1>2, <1>3, <1>4 DEF FilesTracked

----------------------------------------------------------------------------
(* Configuration *)

LEMMA ConfigFrame ==
    ASSUME ConfigTracked, UNCHANGED <<cfgDisk, cfg, cfgHash, timer, rl, raced>>,
           \A k \in Keys : current'[k] = current[k]
    PROVE  ConfigTracked'
<1>1. \A r \in Reloaders : ReloadTracks(r) => ReloadTracks(r)'
  BY DEF ReloadTracks, Rl
<1> QED
  BY <1>1 DEF ConfigTracked, Reloading, Rl

(* While one reload runs, all that counts is what it has read.             *)
LEMMA OnlyReload ==
    ASSUME NEW r \in Reloaders, \A q \in Reloaders \ {r} : Rl(q, "idle")',
           ~ Rl(r, "idle")', ~ timer', ReloadTracks(r)'
    PROVE  ConfigTracked'
<1>1. Reloading'
  BY DEF Reloading, Rl
<1>2. \A q \in Reloaders \ {r} : ReloadTracks(q)'
  BY DEF ReloadTracks, Rl
<1> QED
  BY <1>1, <1>2 DEF ConfigTracked

LEMMA NoNamesNoKeys ==
    ASSUME cfgDisk \in [Keys -> Vals], cfgDisk = <<>>
    PROVE  Keys = {}
<1>1. DOMAIN <<>> = {}
  OBVIOUS
<1> QED
  BY <1>1

LEMMA FireTracked ==
    ASSUME Kinds, ConfigTracked, NEW r \in Reloaders, RlFire(r)
    PROVE  ConfigTracked'
<1> USE DEF Kinds
<1>0. /\ timer /\ Rl(r, "idle") /\ ~ timer'
      /\ UNCHANGED <<cfgDisk, cfg, cfgHash, current>>
      /\ rl[r] = RlIdle
  BY DEF RlFire, outside, Rl, Reloads, ReloadStates
<1>1. CASE cfgHash = cfgDisk
  <2>1. rl' = rl /\ raced' = raced
    BY <1>1 DEF RlFire
  <2> SUFFICES ASSUME ~ raced PROVE ConfigTracked'
    BY <2>1 DEF ConfigTracked
  <2>2. ~ Reloading /\ ~ Reloading'
    BY <1>0, <2>1 DEF ConfigTracked, Reloading
  <2>3. \A k \in Keys : current[k] = cfgDisk[k]
    <3>1. CASE cfgHash = <<>>
      BY <1>1, <3>1, NoNamesNoKeys DEF OutsideTyped
    <3>2. CASE cfgHash # <<>>
      BY <1>1, <2>2, <3>2 DEF ConfigTracked
    <3> QED
      BY <3>1, <3>2
  <2>4. \A q \in Reloaders : rl'[q].pc = "idle" /\ ReloadTracks(q)'
    BY <2>2 DEF Reloading, ReloadTracks, Rl
  <2>5. \A p, q \in Reloaders : ~ Rl(p, "idle")' /\ ~ Rl(q, "idle")' => p = q
    BY <2>4 DEF Rl
  <2> QED
    BY <1>0, <1>1, <2>2, <2>3, <2>4, <2>5 DEF ConfigTracked
<1>2. CASE cfgHash # cfgDisk
  <2>1. raced' = Reloading
    BY <1>2 DEF RlFire
  <2> SUFFICES ASSUME ~ Reloading PROVE ConfigTracked'
    BY <2>1 DEF ConfigTracked
  <2>2. Moves(r, [rl[r] EXCEPT !.pc = "set", !.cfg = cfgDisk])
    BY <1>0, <1>2, ReloadSteps
  <2>3. rl'[r].pc = "set" /\ rl'[r].cfg = cfgDisk /\ rl'[r].start = FALSE
    BY <1>0, <2>2 DEF Moves, RlIdle
  <2>4. ReloadTracks(r)' /\ ~ Rl(r, "idle")'
    BY <1>0, <2>3 DEF ReloadTracks, Rl
  <2>5. \A q \in Reloaders \ {r} : Rl(q, "idle")'
    BY <2>2 DEF Reloading, Rl, Moves
  <2> QED
    BY <1>0, <2>4, <2>5, OnlyReload
<1> QED
  BY <1>1, <1>2

(* The other steps of a reload that nothing has overtaken.                 *)
LEMMA StepTracked ==
    ASSUME Kinds, ConfigTracked, NEW r \in Reloaders, ReloadStep(r), ~ RlFire(r)
    PROVE  ConfigTracked'
<1> USE DEF Kinds
<1>0. rl[r] \in ReloadRecords /\ Keys \subseteq Ids
  BY DEF Reloads, ReloadStates, Ids
<1>1. UNCHANGED <<cfgDisk, timer, raced>> /\ ~ Rl(r, "idle")
  <2>1. CASE \E drop, force \in BOOLEAN : RlSet(r, drop, force)
    BY <2>1 DEF RlSet, outside, history, Rl
  <2>2. CASE RlDrop(r) \/ RlScan(r) \/ RlDiff(r) \/ RlRecord(r)
    BY <2>2 DEF RlDrop, RlScan, RlDiff, RlRecord, outside, history, Rl
  <2>3. CASE RlRefresh(r) \/ (\E f \in Files : RlRead(r, f)) \/ RlDispatch(r)
    BY <2>3 DEF RlRefresh, RlRead, RlDispatch, outside, watched, history, Rl
  <2> QED
    BY <2>1, <2>2, <2>3 DEF ReloadStep
<1> SUFFICES ASSUME ~ raced PROVE ConfigTracked'
  BY <1>1 DEF ConfigTracked
<1>2. /\ \A q \in Reloaders \ {r} : Rl(q, "idle")
      /\ ~ timer' /\ ReloadTracks(r)
  <2>1. Reloading
    BY <1>1 DEF Reloading, Rl
  <2> QED
    BY <1>1, <2>1 DEF ConfigTracked
(* Others stay idle; it is left to look at what r has read.                *)
<1>3. \A q \in Reloaders \ {r} : Rl(q, "idle")'
  <2>1. \A q \in Reloaders \ {r} : rl'[q] = rl[q]
    BY OthersStay
  <2> QED
    BY <1>2, <2>1 DEF Rl
<1>4. ASSUME NEW drop \in BOOLEAN, NEW force \in BOOLEAN, RlSet(r, drop, force)
      PROVE  ConfigTracked'
  <2>1. /\ Moves(r, [rl[r] EXCEPT !.pc = IF drop THEN "drop" ELSE "refresh", !.force = force])
        /\ cfg' = rl[r].cfg /\ cfgHash' = cfgHash /\ Rl(r, "set")
    BY <1>4, ReloadSteps DEF RlSet
  <2>2. rl'[r].pc \in {"drop", "refresh"} /\ rl'[r].start = rl[r].start
    BY <1>0, <2>1 DEF Moves, ReloadRecords
  <2>3. ReloadTracks(r)' /\ ~ Rl(r, "idle")'
    BY <1>1, <1>2, <2>1, <2>2 DEF ReloadTracks, Rl
  <2> QED
    BY <1>2, <1>3, <2>3, OnlyReload
<1>5. CASE RlDrop(r) \/ RlScan(r)
  <2>1. /\ Moves(r, [rl[r] EXCEPT !.pc = "refresh"])
        /\ cfg' = cfg /\ cfgHash' = cfgHash /\ (Rl(r, "drop") \/ Rl(r, "scan"))
    <3>1. CASE RlDrop(r)
      BY <3>1, ReloadSteps DEF RlDrop
    <3>2. CASE RlScan(r)
      BY <3>2, ReloadSteps DEF RlScan
    <3> QED
      BY <1>5, <3>1, <3>2
  <2>2. rl'[r].pc = "refresh" /\ rl'[r].start = rl[r].start
    BY <1>0, <2>1 DEF Moves, ReloadRecords
  <2>3. ReloadTracks(r)' /\ ~ Rl(r, "idle")'
    BY <1>1, <1>2, <2>1, <2>2 DEF ReloadTracks, Rl
  <2> QED
    BY <1>2, <1>3, <2>3, OnlyReload
<1>6. CASE RlRefresh(r)
  <2>1. /\ Moves(r, [rl[r] EXCEPT !.pc = "snapshot", !.cfg = cfg, !.left = Files])
        /\ cfgHash' = cfgHash /\ Rl(r, "refresh")
    BY <1>6, ReloadSteps DEF RlRefresh, watched
  <2>2. rl'[r].pc = "snapshot" /\ rl'[r].cfg = cfg /\ rl'[r].start = rl[r].start
    BY <1>0, <2>1 DEF Moves, ReloadRecords
  <2>3. ReloadTracks(r)' /\ ~ Rl(r, "idle")'
    BY <1>1, <1>2, <2>1, <2>2 DEF ReloadTracks, Rl
  <2> QED
    BY <1>2, <1>3, <2>3, OnlyReload
<1>7. ASSUME NEW f \in Files, RlRead(r, f)
      PROVE  ConfigTracked'
  <2>1. /\ rl'[r].pc = "snapshot" /\ rl'[r].cfg = rl[r].cfg /\ rl'[r].start = rl[r].start
        /\ cfgHash' = cfgHash /\ Rl(r, "snapshot")
    BY <1>7, ReadStep DEF RlRead, watched
  <2>2. ReloadTracks(r)' /\ ~ Rl(r, "idle")'
    BY <1>1, <1>2, <2>1 DEF ReloadTracks, Rl
  <2> QED
    BY <1>2, <1>3, <2>2, OnlyReload
<1>8. CASE RlDiff(r)
  <2>1. /\ rl'[r].pc = "dispatch" /\ rl'[r].start = rl[r].start
        /\ current' = NewState(r) /\ cfgHash' = cfgHash /\ Rl(r, "snapshot")
    BY <1>8, DiffStep DEF RlDiff
  <2>2. \A k \in Keys : current'[k] = cfgDisk[k]
    <3>1. \A k \in Keys : NewState(r)[k] = rl[r].cfg[k]
      BY <1>0, PipelineAssumption DEF NewState
    <3> QED
      BY <1>2, <2>1, <3>1 DEF ReloadTracks
  <2>3. ReloadTracks(r)' /\ ~ Rl(r, "idle")'
    BY <1>1, <1>2, <2>1, <2>2 DEF ReloadTracks, Rl
  <2> QED
    BY <1>2, <1>3, <2>3, OnlyReload
(* A reload ends: nothing else is running.                                 *)
<1>9. ASSUME rl'[r] = RlIdle, UNCHANGED current, \A k \in Keys : current[k] = cfgDisk[k],
             cfgHash' = <<>> \/ cfgHash' = cfgDisk
      PROVE  ConfigTracked'
  <2>1. \A q \in Reloaders : Rl(q, "idle")'
    BY <1>3, <1>9 DEF Rl, RlIdle
  <2>2. ~ Reloading' /\ \A q \in Reloaders : ReloadTracks(q)'
    BY <2>1 DEF Reloading, ReloadTracks, Rl
  <2> QED
    BY <1>1, <1>9, <2>1, <2>2 DEF ConfigTracked
<1>10. CASE RlDispatch(r)
  <2>1. /\ Moves(r, IF rl[r].start THEN RlIdle ELSE [RlIdle EXCEPT !.pc = "record"])
        /\ UNCHANGED <<current, cfg, cfgHash>> /\ Rl(r, "dispatch")
    BY <1>10, EndSteps DEF RlDispatch, watched
  <2>2. \A k \in Keys : current[k] = cfgDisk[k]
    BY <1>2, <2>1 DEF ReloadTracks
  <2>3. CASE rl[r].start
    <3>1. rl'[r] = RlIdle /\ cfgHash' = <<>>
      BY <1>1, <1>2, <2>1, <2>3 DEF Moves, ReloadTracks
    <3> QED
      BY <1>9, <2>1, <2>2, <3>1
  <2>4. CASE ~ rl[r].start
    <3>1. rl'[r].pc = "record" /\ rl'[r].start = FALSE
      BY <2>1, <2>4 DEF Moves, RlIdle
    <3>2. ReloadTracks(r)' /\ ~ Rl(r, "idle")'
      BY <1>1, <2>1, <2>2, <3>1 DEF ReloadTracks, Rl
    <3> QED
      BY <1>2, <1>3, <3>2, OnlyReload
  <2> QED
    BY <2>3, <2>4
<1>11. CASE RlRecord(r)
  <2>1. Moves(r, RlIdle) /\ current' = current /\ cfgHash' = cfgDisk /\ Rl(r, "record")
    BY <1>11, EndSteps DEF RlRecord
  <2> QED
    BY <1>2, <1>9, <2>1 DEF ReloadTracks, Moves
<1> QED
  BY <1>4, <1>5, <1>6, <1>7, <1>8, <1>10, <1>11 DEF ReloadStep

LEMMA ConfigTrackedStep == Kinds /\ ConfigTracked /\ [Next]_vars => ConfigTracked'
<1> SUFFICES ASSUME Kinds, ConfigTracked, [Next]_vars PROVE ConfigTracked'
  OBVIOUS
<1> USE DEF Kinds
<1>1. ASSUME NEW c \in [Keys -> Vals], ChangeConfig(c)
      PROVE  ConfigTracked'
  <2>1. /\ UNCHANGED <<rl, current, cfg, cfgHash>> /\ timer'
        /\ raced' = (raced \/ Reloading)
    BY <1>1 DEF ChangeConfig
  <2>2. ~ raced' => ~ Reloading /\ ~ Reloading' /\ ~ raced
    BY <2>1 DEF Reloading
  <2>3. ~ Reloading => \A r \in Reloaders : Rl(r, "idle")' /\ ReloadTracks(r)'
    BY <2>1 DEF Reloading, ReloadTracks, Rl
  <2> QED
    BY <2>1, <2>2, <2>3 DEF ConfigTracked
<1>2. CASE \/ (\E f \in Files, content \in Vals \cup {Partial} : ChangeFile(f, content))
           \/ TakeBatch \/ Send \/ Consume \/ EvTake \/ EvStat \/ EvCheck \/ EvDispatch
           \/ (\E c \in calls : RelayDispatch(c)) \/ Finished \/ UNCHANGED vars
  <2>1. UNCHANGED <<cfgDisk, cfg, cfgHash, timer, rl, raced, current>>
    BY <1>2 DEF ChangeFile, TakeBatch, Send, Consume, EvTake, EvStat, EvCheck, EvDispatch,
                RelayDispatch, Finished, vars, outside, watched, history
  <2> QED
    BY <2>1, ConfigFrame
<1>3. CASE EvApply \/ EvGone
  <2>1. /\ UNCHANGED <<cfgDisk, cfg, cfgHash, timer, rl, raced>>
        /\ \/ current' = current
           \/ \E v \in Vals : current' = [current EXCEPT ![ev.file] = v]
        /\ ev.file \in Files
    BY <1>3 DEF EvApply, EvGone, EventGoroutine, Vals, outside, history
  <2>2. \A k \in Keys : current'[k] = current[k]
    BY <2>1, PipelineAssumption DEF WatchedTyped, Ids
  <2> QED
    BY <2>1, <2>2, ConfigFrame
<1>4. ASSUME NEW x \in Relays, NEW v \in {0, RelayVersion}, RelayCall(x, v)
      PROVE  ConfigTracked'
  <2>1. /\ UNCHANGED <<cfgDisk, cfg, cfgHash, timer, rl, raced>>
        /\ current' = [current EXCEPT ![x] = v]
    BY <1>4 DEF RelayCall
  <2>2. \A k \in Keys : current'[k] = current[k]
    BY <2>1, PipelineAssumption DEF WatchedTyped, Ids
  <2> QED
    BY <2>1, <2>2, ConfigFrame
<1> QED
  BY <1>1, <1>2, <1>3, <1>4, FireTracked, StepTracked
     DEF Next, Environment, EventStep, RelayStep

LEMMA ConfigTrackedInit == Init => ConfigTracked
<1> SUFFICES ASSUME Init PROVE ConfigTracked
  OBVIOUS
<1>0. cfg = cfgDisk /\ cfgHash = <<>> /\ timer = FALSE
  BY DEF Init, NothingGoesOn
<1>1. CASE Starting
  <2>1. /\ rl[Starter].pc = "scan"
        /\ \A q \in Reloaders \ {Starter} : rl[q].pc = "idle"
        /\ Starter \in Reloaders
    BY <1>1, PipelineAssumption DEF Starting, RlIdle
  <2>2. Reloading
    BY <2>1 DEF Reloading
  <2>3. \A r \in Reloaders : ReloadTracks(r)
    BY <1>0, <2>1 DEF ReloadTracks, Rl
  <2> QED
    BY <1>0, <2>1, <2>2, <2>3 DEF ConfigTracked, Rl
<1>2. CASE Settled
  <2>1. \A r \in Reloaders : Rl(r, "idle") /\ ReloadTracks(r)
    BY <1>2 DEF Settled, RlIdle, ReloadTracks, Rl
  <2>2. ~ Reloading
    BY <2>1 DEF Reloading, Rl
  <2>3. \A k \in Keys : current[k] = cfgDisk[k]
    BY <1>2, PipelineAssumption DEF Settled, Ids
  <2> QED
    BY <1>0, <2>1, <2>2, <2>3 DEF ConfigTracked
<1> QED
  BY <1>1, <1>2 DEF Init

----------------------------------------------------------------------------
(* The invariant *)

LEMMA RelaysKeptInit == Init => RelaysKept
  BY PipelineAssumption DEF Init, NothingGoesOn, Starting, Settled, RelaysKept, Ids

LEMMA Invariant == Spec => []IInv
<1>1. Init => IInv
  BY Init1, AgreesInit, FilesTrackedInit, ConfigTrackedInit, RelaysKeptInit DEF IInv
<1>2. IInv /\ [Next]_vars => IInv'
  BY KindsStep, AgreesStep, FilesTrackedStep, ConfigTrackedStep, RelaysKeptStep DEF IInv
<1> QED
  BY <1>1, <1>2, PTL DEF Spec

(* Every variable of the pipeline holds what the code could hold there: a  *)
(* file or key that exists, a content that was written, a goroutine at one *)
(* of its program points, and never more updates in the channel to the     *)
(* service than it has room for.                                           *)
THEOREM TypeCorrect == Spec => []TypeOK
<1>1. Kinds => TypeOK
  <2> SUFFICES ASSUME Kinds PROVE TypeOK
    OBVIOUS
  <2> USE DEF Kinds
  <2>1. rl \in [Reloaders ->
                 [pc : {"idle", "set", "drop", "scan", "refresh", "snapshot", "dispatch", "record"},
                  start : BOOLEAN, cfg : [Keys -> Vals] \cup {NoUpdates}, force : BOOLEAN,
                  left : SUBSET Files, snap : UpdateSets, upds : UpdateSets]]
    BY DEF Reloads, ReloadStates, ReloadRecords, Pcs
  <2>2. \A q \in {pending, batch, queue} : q \in Seq([id : Ids, val : Vals])
    BY DEF ChannelTyped, Sent
  <2> QED
    BY <2>1, <2>2 DEF TypeOK, OutsideTyped, WatchedTyped, EventGoroutine, CallsTyped, ChannelTyped
<1>2. IInv => TypeOK
  BY <1>1 DEF IInv
<1> QED
  BY <1>2, Invariant, PTL

LEMMA NoneWaiting ==
    ASSUME ChannelTyped, NEW i,
           \A q \in {pending, batch, queue} : \A n \in DOMAIN q : q[n].id # i
    PROVE  updatesOf(i) = <<>>
<1>1. pending \in Seq(Sent) /\ batch \in Seq(Sent) /\ queue \in Seq(Sent)
  BY DEF ChannelTyped
<1>2. ASSUME NEW q \in {pending, batch, queue} PROVE Updates(q, i) = <<>>
  <2>1. q \in Seq(Sent)
    BY <1>1
  <2>2. \A n \in 1 .. Len(q) : q[n].id # i
    BY <2>1
  <2> QED
    BY <2>1, <2>2, UpdatesNone
<1>3. Updates(queue \o batch, i) = Updates(queue, i) \o Updates(batch, i)
  BY <1>1, UpdatesJoined
<1>4. Split(queue, batch, pending, i)
  BY <1>1, WaitingSplit
<1>5. <<>> \o <<>> = <<>>
  OBVIOUS
<1> QED
  BY <1>2, <1>3, <1>4, <1>5 DEF Split, updatesOf

(* Once nothing is on its way to a credential any more, the core auth      *)
(* manager has the version that the watcher recorded in currentAuths, for  *)
(* every credential with no crossed updates and none taken out of the      *)
(* record without one: neither the order of the goroutines, nor a merge of *)
(* pending updates, nor a full channel makes the manager keep an old one.  *)
THEOREM FollowsCorrect == Spec => []CoreFollowsWatcher
<1>1. Kinds /\ Agrees => CoreFollowsWatcher
  <2> SUFFICES ASSUME Kinds, Agrees, NEW i \in Ids, ~ OnItsWay(i), i \notin crossed \cup orphans
               PROVE  core[i] = current[i]
    BY DEF CoreFollowsWatcher
  <2>1. Nobody(i)
    BY DEF OnItsWay, Nobody
  <2>2. updatesOf(i) = <<>>
    BY NoneWaiting DEF OnItsWay, Kinds
  <2> QED
    BY <2>1, <2>2 DEF Agrees, Good, SentAgrees
<1>2. IInv => CoreFollowsWatcher
  BY <1>1 DEF IInv
<1> QED
  BY <1>2, Invariant, PTL

(* When the event goroutine and the reloads have nothing left to do, the   *)
(* watcher has what is in the auth directory, whatever happened to the     *)
(* files in the meantime, except for a file that is half written, one that *)
(* the diff of a reload judged by another content than the recorded one,   *)
(* and one whose removal was debounced.                                    *)
THEOREM FilesCorrect == Spec => []FilesCaughtUp
<1>1. FilesTracked => FilesCaughtUp
  <2> SUFFICES ASSUME FilesTracked, Idle PROVE FilesCaughtUp
    BY DEF FilesCaughtUp
  <2>1. ev.pc = "idle" /\ events = <<>> /\ \A r \in Reloaders : rl[r].pc = "idle"
    BY IdleIsAState DEF Idle
  <2>2. ~ Scanning /\ ~ Snapping /\ \A f : ~ Unseen(f)
    BY <2>1 DEF Scanning, Snapping, Unseen, Queued, Rl
  <2> QED
    BY <2>2 DEF FilesTracked, HashTracksDisk, CurrentTracksHash, FilesCaughtUp
<1>2. IInv => FilesCaughtUp
  BY <1>1 DEF IInv
<1> QED
  BY <1>2, Invariant, PTL

(* When no reload runs and the debounce timer is not armed, the watcher    *)
(* has the keys of the configuration file, unless the file changed during  *)
(* a reload or two reloads overlapped, whatever the timer did before: a    *)
(* reload that is skipped because the recorded hash has not changed misses *)
(* nothing.                                                                *)
THEOREM ConfigCorrect == Spec => []ConfigCaughtUp
<1>1. ConfigTracked => ConfigCaughtUp
  <2> SUFFICES ASSUME ConfigTracked, Idle, ~ timer, ~ raced
               PROVE  \A k \in Keys : current[k] = cfgDisk[k]
    BY DEF ConfigCaughtUp
  <2>1. ~ Reloading
    BY IdleIsAState DEF Idle, Reloading
  <2> QED
    BY <2>1 DEF ConfigTracked
<1>2. IInv => ConfigCaughtUp
  BY <1>1 DEF IInv
<1> QED
  BY <1>2, Invariant, PTL

(* A relay session that connects or closes while a reload takes its        *)
(* snapshot is not undone by the diff of that reload.                      *)
THEOREM RelaysCorrect == Spec => []RelaysKept
<1>1. IInv => RelaysKept
  BY DEF IInv
<1> QED
  BY <1>1, Invariant, PTL

----------------------------------------------------------------------------
(* Refinement *)

LEMMA PutRefines ==
    ASSUME ChannelTyped, NEW upds \in UpdateSets, Dispatch(upds)
    PROVE  Channel!Put
<1>1. /\ ChannelTyped'
      /\ \A i \in Ids :
            IF i \in DOMAIN upds THEN TakesIn(updatesOf(i), upds[i], updatesOf(i)')
            ELSE updatesOf(i)' = updatesOf(i)
  BY DispatchPuts
<1>2. core' = core
  BY DEF Dispatch
<1>3. ASSUME NEW i \in Ids PROVE updatesOf(i)' \in Seq(Vals)
  <2>1. Split(queue', batch', pending', i)
    BY <1>1, WaitingSplit DEF ChannelTyped
  <2> QED
    BY <2>1 DEF Split, updatesOf
<1> DEFINE todo == [i \in Ids |-> updatesOf(i)]
<1>4. todo' \in [Ids -> Seq(Vals)]
  BY <1>3
<1>5. ASSUME NEW i \in Ids
      PROVE  \/ todo'[i] = todo[i]
             \/ \E v \in Vals : Channel!Accepted(todo[i], v, todo'[i])
  <2>1. todo[i] = updatesOf(i) /\ todo'[i] = updatesOf(i)'
    OBVIOUS
  <2> HIDE DEF todo
  <2>2. CASE i \in DOMAIN upds
    BY <1>1, <2>1, <2>2, UpdatesAreFunctions DEF TakesIn, Channel!Accepted
  <2>3. CASE i \notin DOMAIN upds
    BY <1>1, <2>1, <2>3
  <2> QED
    BY <2>2, <2>3
<1> QED
  BY <1>2, <1>4, <1>5 DEF Channel!Put

LEMMA DeliverRefines ==
    ASSUME ChannelTyped, Consume
    PROVE  \E i \in Ids : Channel!Deliver(i)
<1>1. PICK i \in Ids :
         /\ updatesOf(i) # <<>>
         /\ updatesOf(i)' = Tail(updatesOf(i))
         /\ core' = [core EXCEPT ![i] = Head(updatesOf(i))]
         /\ \A j \in Ids \ {i} : updatesOf(j)' = updatesOf(j)
  BY ConsumeDelivers
<1> DEFINE todo == [j \in Ids |-> updatesOf(j)]
<1>2. todo' = [todo EXCEPT ![i] = Tail(@)]
  BY <1>1
<1>3. todo[i] = updatesOf(i)
  OBVIOUS
<1> QED
  BY <1>1, <1>2, <1>3 DEF Channel!Deliver

LEMMA StutterRefines ==
    ASSUME core' = core, \A i \in Ids : updatesOf(i)' = updatesOf(i)
    PROVE  UNCHANGED Channel!channelVars
  BY DEF Channel!channelVars

LEMMA StepRefines == Kinds /\ [Next]_vars => [Channel!ChannelNext]_(Channel!channelVars)
<1> SUFFICES ASSUME Kinds, [Next]_vars PROVE [Channel!ChannelNext]_(Channel!channelVars)
  OBVIOUS
<1> USE DEF Kinds
<1>1. ASSUME NEW upds \in UpdateSets, Dispatch(upds) PROVE Channel!ChannelNext
  BY <1>1, PutRefines DEF Channel!ChannelNext
<1>2. CASE EvDispatch
  BY <1>1, <1>2 DEF EvDispatch, EventGoroutine
<1>3. CASE \E r \in Reloaders : RlDispatch(r)
  BY <1>1, <1>3 DEF RlDispatch, Reloads, ReloadStates, ReloadRecords
<1>4. CASE \E c \in calls : RelayDispatch(c)
  <2>1. PICK c \in calls : RelayDispatch(c)
    BY <1>4
  <2>2. c.id \in Ids /\ c.val \in Vals
    BY DEF CallsTyped, Ids
  <2>3. [j \in {c.id} |-> c.val] \in UpdateSets
    BY <2>2, OneUpdate
  <2> QED
    BY <1>1, <2>1, <2>3 DEF RelayDispatch
<1>5. CASE Consume
  BY <1>5, DeliverRefines DEF Channel!ChannelNext
<1>6. CASE TakeBatch \/ Send
  <2>1. core' = core
    BY <1>6 DEF TakeBatch, Send
  <2> QED
    BY <1>6, <2>1, TakeBatchKeeps, SendKeeps, StutterRefines
(* No other step touches the dispatcher, the channel or the manager.       *)
<1>7. CASE \/ Environment \/ EvTake \/ EvStat \/ EvCheck \/ EvApply \/ EvGone
           \/ (\E x \in Relays, v \in {0, RelayVersion} : RelayCall(x, v))
           \/ Finished \/ UNCHANGED vars
  <2>1. UNCHANGED <<pending, batch, queue, core>>
    BY <1>7 DEF Environment, ChangeFile, ChangeConfig, EvTake, EvStat, EvCheck, EvApply, EvGone,
                RelayCall, Finished, vars, channel
  <2>2. \A i \in Ids : updatesOf(i)' = updatesOf(i)
    BY <2>1 DEF updatesOf
  <2> QED
    BY <2>1, <2>2, StutterRefines
<1>8. CASE \E r \in Reloaders : ReloadStep(r) /\ ~ RlDispatch(r)
  <2>1. UNCHANGED <<pending, batch, queue, core>>
    <3>1. PICK r \in Reloaders : ReloadStep(r) /\ ~ RlDispatch(r)
      BY <1>8
    <3>2. CASE RlFire(r) \/ RlDrop(r) \/ RlScan(r) \/ RlRefresh(r)
      BY <3>2 DEF RlFire, RlDrop, RlScan, RlRefresh, channel
    <3>3. CASE \E drop, force \in BOOLEAN : RlSet(r, drop, force)
      BY <3>3 DEF RlSet, channel
    <3>4. CASE \E f \in Files : RlRead(r, f)
      BY <3>4 DEF RlRead, channel
    <3>5. CASE RlDiff(r) \/ RlRecord(r)
      BY <3>5 DEF RlDiff, RlRecord, channel
    <3> QED
      BY <3>1, <3>2, <3>3, <3>4, <3>5 DEF ReloadStep
  <2>2. \A i \in Ids : updatesOf(i)' = updatesOf(i)
    BY <2>1 DEF updatesOf
  <2> QED
    BY <2>1, <2>2, StutterRefines
<1> QED
  BY <1>2, <1>3, <1>4, <1>5, <1>6, <1>7, <1>8 DEF Next, EventStep, RelayStep, ReloadStep

LEMMA InitRefines == Init => Channel!ChannelInit
<1> SUFFICES ASSUME Init PROVE Channel!ChannelInit
  OBVIOUS
<1>1. ChannelTyped
  BY Init1 DEF Kinds
<1>2. pending = <<>> /\ batch = <<>> /\ queue = <<>>
  BY DEF Init, NothingGoesOn
<1>3. \A q \in {pending, batch, queue} : \A n \in DOMAIN q : FALSE
  BY <1>2
<1>4. \A i \in Ids : updatesOf(i) = <<>>
  BY <1>1, <1>3, NoneWaiting
<1> QED
  BY <1>1, <1>4 DEF Channel!ChannelInit, ChannelTyped

(* The debounced, batched and bounded way from the watcher to the manager  *)
(* implements a list of updates per credential: an update handed to the    *)
(* dispatcher is appended to the list or replaces the newest that has not  *)
(* arrived, and the manager gets each list from the front.                 *)
THEOREM DeliveryRefines == Spec => DeliversInOrder
<1>1. Init => Channel!ChannelInit
  BY InitRefines
<1>2. IInv /\ [Next]_vars => [Channel!ChannelNext]_(Channel!channelVars)
  BY StepRefines DEF IInv
<1> QED
  BY <1>1, <1>2, Invariant, PTL DEF Spec, DeliversInOrder, Channel!ChannelSpec
=============================================================================
