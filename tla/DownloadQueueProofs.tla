-------------------------- MODULE DownloadQueueProofs --------------------------
(***************************************************************************)
(* The queue of downloads and the states of the titles stay in step, and   *)
(* no transfer is left over, for any number of titles and any MAX_PARALLEL *)
(* of at least one.                                                        *)
(*                                                                         *)
(* The argument: each handler that ends a download or drops one from the   *)
(* queue hands the pump a queue that lists the queued titles once each.    *)
(* The pump takes as many of the first ones as there are transfers left,   *)
(* so that either none waits or MAX_PARALLEL run.  A request queues a      *)
(* title only when none is left.  QueueInv adds that a queued title has a  *)
(* number left for its task, which the model's bound on them needs.        *)
(***************************************************************************)
EXTENDS DownloadQueue, FiniteSetTheorems, SequenceTheorems, TLAPS

-----------------------------------------------------------------------------
\* Counting and listing.

LEMMA MinNat ==
  ASSUME NEW T \in SUBSET Nat, T # {}
  PROVE  \E x \in T : \A y \in T : x <= y
<1>1. PICK x \in T : \A y \in T : ~(<<y, x>> \in OpToRel(<, Nat))
  <2>1. IsWellFoundedOn(OpToRel(<, Nat), Nat) BY NatLessThanWellFounded
  <2> HIDE DEF OpToRel
  <2> QED BY <2>1, WFMin
<1>2. \A y \in T : ~(y < x) BY <1>1 DEF OpToRel
<1> QED BY <1>2

\* A sequence without repetition has as many elements as places.
Distinct(s) == \A i, j \in 1 .. Len(s) : s[i] = s[j] => i = j

LEMMA CountFirst ==
  ASSUME NEW s \in Seq(Urls), Distinct(s), NEW n \in 0 .. Len(s)
  PROVE  IsFiniteSet({s[i] : i \in 1 .. n}) /\ Cardinality({s[i] : i \in 1 .. n}) = n
<1> DEFINE T == {s[i] : i \in 1 .. n}
           f == [i \in 1 .. n |-> s[i]]
<1>1. f \in Injection(1 .. n, T) /\ f \in Surjection(1 .. n, T)
  <2>1. f \in [1 .. n -> T] /\ \A t \in T : \E i \in 1 .. n : f[i] = t OBVIOUS
  <2>2. \A i, j \in 1 .. n : f[i] = f[j] => i = j
    <3>1. Len(s) \in Nat BY LenProperties
    <3>2. \A i \in 1 .. n : i \in 1 .. Len(s) /\ f[i] = s[i] BY <3>1
    <3> HIDE DEF f
    <3> QED BY <3>2 DEF Distinct
  <2> HIDE DEF T, f
  <2> QED BY <2>1, <2>2 DEF Injection, IsInjective, Surjection
<1>2. IsFiniteSet(1 .. n) /\ Cardinality(1 .. n) = n BY FS_Interval
<1>3. ExistsBijection(1 .. n, T)
  <2> HIDE DEF T, f
  <2> QED BY <1>1 DEF ExistsBijection, Bijection
<1> HIDE DEF T
<1>4. IsFiniteSet(T) /\ Cardinality(T) = n BY <1>2, <1>3, FS_Bijection
<1> QED BY <1>4 DEF T

\* Places among the numbers of a set, counted from its least.
LEMMA PlacesOf ==
  ASSUME NEW n \in Nat, NEW K \in SUBSET (1 .. n)
  PROVE  /\ IsFiniteSet(K) /\ Cardinality(K) \in 0 .. n
         /\ \A i, h \in K : Cardinality({j \in K : j <= i}) = Cardinality({j \in K : j <= h}) => i = h
         /\ \A k \in 1 .. Cardinality(K) : \E i \in K : Cardinality({j \in K : j <= i}) = k
         /\ \A i \in K : Cardinality({j \in K : j <= i}) \in 1 .. Cardinality(K)
<1> DEFINE Below(i) == {j \in K : j <= i}
           f == [i \in K |-> Cardinality(Below(i))]
           C == Cardinality(K)
<1>1. IsFiniteSet(1 .. n) /\ Cardinality(1 .. n) = n BY FS_Interval
<1>2. IsFiniteSet(K) /\ C <= n /\ C \in Nat BY <1>1, FS_Subset, FS_CardinalityType
<1>3. \A i \in K : /\ IsFiniteSet(Below(i)) /\ Cardinality(Below(i)) \in Nat
                   /\ Cardinality(Below(i)) <= C /\ Cardinality(Below(i)) # 0
  <2> SUFFICES ASSUME NEW i \in K
               PROVE  /\ IsFiniteSet(Below(i)) /\ Cardinality(Below(i)) \in Nat
                      /\ Cardinality(Below(i)) <= C /\ Cardinality(Below(i)) # 0
    OBVIOUS
  <2>1. Below(i) \in SUBSET K /\ i \in Below(i) BY DEF Below
  <2> HIDE DEF Below
  <2> QED BY <1>2, <2>1, FS_Subset, FS_CardinalityType, FS_EmptySet
<1>4. \A i, h \in K : i < h => Cardinality(Below(i)) # Cardinality(Below(h))
  <2> SUFFICES ASSUME NEW i \in K, NEW h \in K, i < h
               PROVE  Cardinality(Below(i)) # Cardinality(Below(h))
    OBVIOUS
  <2>1. Below(i) \in SUBSET Below(h) /\ h \in Below(h) /\ h \notin Below(i)
    <3>1. i \in Nat /\ h \in Nat /\ \A j \in K : j \in Nat OBVIOUS
    <3>2. \A j \in K : j <= i => j <= h BY <3>1
    <3>3. h <= h /\ ~(h <= i) BY <3>1
    <3> QED BY <3>2, <3>3, Zenon DEF Below
  <2>2. IsFiniteSet(Below(h))
    <3> HIDE DEF Below
    <3> QED BY <1>3
  <2>3. ASSUME NEW A, NEW B \in SUBSET A, IsFiniteSet(A), NEW x \in A, x \notin B
        PROVE  Cardinality(B) # Cardinality(A)
    BY <2>3, FS_Subset
  <2> HIDE DEF Below
  <2> QED BY <2>1, <2>2, <2>3
<1>5. \A i, h \in K : Cardinality(Below(i)) = Cardinality(Below(h)) => i = h
  <2> SUFFICES ASSUME NEW i \in K, NEW h \in K, Cardinality(Below(i)) = Cardinality(Below(h))
               PROVE  i = h
    OBVIOUS
  <2>1. ~(i < h) /\ ~(h < i)
    <3> HIDE DEF Below
    <3> QED BY <1>4
  <2> QED BY <2>1
<1>6. f \in Injection(K, 1 .. C)
  <2>1. \A i \in K : Cardinality(Below(i)) \in 1 .. C
    <3> HIDE DEF Below, C
    <3> QED BY <1>2, <1>3
  <2> HIDE DEF Below
  <2> QED BY <1>5, <2>1 DEF Injection, IsInjective
<1>7. f \in Surjection(K, 1 .. C)
  <2>1. IsFiniteSet(1 .. C) /\ Cardinality(1 .. C) = C
    <3> HIDE DEF C
    <3> QED BY <1>2, FS_Interval
  <2>2. ASSUME NEW T, IsFiniteSet(T), Cardinality(T) = C, NEW g \in Injection(K, T)
        PROVE  g \in Surjection(K, T)
    BY <2>2, FS_Injection
  <2> HIDE DEF f, C
  <2> QED BY <1>6, <2>1, <2>2
<1>8. \A k \in 1 .. C : \E i \in K : Cardinality(Below(i)) = k
  <2> HIDE DEF Below, C
  <2> QED BY <1>7 DEF Surjection, f
<1>9. \A i \in K : Cardinality(Below(i)) \in 1 .. C
  <2> HIDE DEF Below, C
  <2> QED BY <1>2, <1>3
<1> QED BY <1>2, <1>5, <1>8, <1>9

-----------------------------------------------------------------------------
\* Those that leave the queue leave it, the others stay in it once.
LEMMA RetainedKeeps ==
  ASSUME queue \in Seq(Urls), Distinct(queue), NEW us
  PROVE  /\ Retained(us) \in Seq(Urls) /\ Distinct(Retained(us))
         /\ Elements(Retained(us)) = Elements(queue) \ us
<1> DEFINE K == {i \in 1 .. Len(queue) : queue[i] \notin us}
           Place(i) == Cardinality({j \in K : j <= i})
           C == Cardinality(K)
           At(k) == CHOOSE i \in K : Place(i) = k
           r == [k \in 1 .. C |-> queue[At(k)]]
<1>1. Len(queue) \in Nat /\ \A i \in 1 .. Len(queue) : queue[i] \in Urls
  BY LenProperties
<1>2. K \in SUBSET (1 .. Len(queue)) OBVIOUS
<1>3. C \in Nat /\ (\A i, h \in K : Place(i) = Place(h) => i = h)
      /\ (\A k \in 1 .. C : \E i \in K : Place(i) = k)
      /\ (\A i \in K : Place(i) \in 1 .. C)
  <2>1. Len(queue) \in Nat /\ K \in SUBSET (1 .. Len(queue)) BY <1>1, <1>2
  <2> HIDE DEF K
  <2>2. /\ Cardinality(K) \in 0 .. Len(queue)
        /\ \A i, h \in K : Cardinality({j \in K : j <= i}) = Cardinality({j \in K : j <= h}) => i = h
        /\ \A k \in 1 .. Cardinality(K) : \E i \in K : Cardinality({j \in K : j <= i}) = k
        /\ \A i \in K : Cardinality({j \in K : j <= i}) \in 1 .. Cardinality(K)
    BY <2>1, PlacesOf, Zenon
  <2>3. C \in Nat BY <2>1, <2>2
  <2> QED BY <2>2, <2>3, Zenon
<1>4. \A k \in 1 .. C : At(k) \in K /\ Place(At(k)) = k
  <2> HIDE DEF K, Place, C
  <2> QED BY <1>3
<1>5. \A i \in K : At(Place(i)) = i
  <2> HIDE DEF K, Place, C, At
  <2> QED BY <1>3, <1>4
<1>6. Retained(us) = r BY DEF Retained
<1>7. r \in [1 .. C -> Urls]
  <2> HIDE DEF Place, C, At
  <2> QED BY <1>1, <1>4
<1>8. r \in Seq(Urls) /\ Len(r) = C
  <2> HIDE DEF r, C
  <2> QED BY <1>3, <1>7, LenProperties, SeqDef
<1>9. Distinct(r)
  <2> SUFFICES ASSUME NEW k \in 1 .. C, NEW l \in 1 .. C, queue[At(k)] = queue[At(l)]
               PROVE  k = l
    <3> HIDE DEF K, Place, C, At
    <3> QED BY <1>8 DEF Distinct
  <2>1. At(k) \in K /\ At(l) \in K /\ Place(At(k)) = k /\ Place(At(l)) = l BY <1>4
  <2>2. At(k) = At(l)
    <3> HIDE DEF Place, C, At
    <3> QED BY <2>1 DEF Distinct
  <2> QED BY <2>1, <2>2
<1>10. Elements(r) = Elements(queue) \ us
  <2>1. \A k \in 1 .. C : r[k] = queue[At(k)]
    <3> HIDE DEF K, Place, C, At
    <3> QED OBVIOUS
  <2>2. \A k \in 1 .. C : \E i \in 1 .. Len(queue) : r[k] = queue[i] /\ queue[i] \notin us
    <3> HIDE DEF Place, C, At, r
    <3> QED BY <1>4, <2>1
  <2>3. \A i \in 1 .. Len(queue) : queue[i] \notin us => \E k \in 1 .. C : r[k] = queue[i]
    <3> SUFFICES ASSUME NEW i \in K PROVE \E k \in 1 .. C : r[k] = queue[i]
      OBVIOUS
    <3> HIDE DEF K, Place, C, At, r
    <3> QED BY <1>3, <1>5, <2>1
  <2> HIDE DEF K, Place, C, At, r
  <2> QED BY <1>8, <2>2, <2>3 DEF Elements
<1> QED BY <1>6, <1>8, <1>9, <1>10

-----------------------------------------------------------------------------
\* Starting downloads.

State == [st : {"none", "queued", "running", "done", "failed"}, gen : 0 .. NGens, part : BOOLEAN]
Table == [Urls -> State]
TaskTable == [Urls -> [Gens -> {"gone", "new", "open"}]]
KnowsTask(ds) == \A u \in Urls : (ds[u].st = "running") <=> (ds[u].gen # 0)
Runs(ds) == Cardinality(Is(ds, "running"))

LEMMA FreeGenIsFree ==
  ASSUME NEW u, FreeGens(u) # {}
  PROVE  FreeGen(u) \in FreeGens(u) /\ FreeGen(u) \in 1 .. NGens
<1>1. FreeGens(u) \in SUBSET Nat /\ FreeGens(u) \subseteq 1 .. NGens
  BY ConstantsAssumption DEF FreeGens, Gens
<1>2. \E g \in FreeGens(u) : \A h \in FreeGens(u) : g <= h BY <1>1, MinNat
<1>3. FreeGen(u) \in FreeGens(u) BY <1>2 DEF FreeGen
<1> QED BY <1>1, <1>3

LEMMA RunsCount ==
  ASSUME NEW ds
  PROVE  IsFiniteSet(Is(ds, "running")) /\ Runs(ds) \in Nat
<1>1. Is(ds, "running") \in SUBSET Urls BY DEF Is
<1> QED BY <1>1, FS_Subset, FS_CardinalityType, ConstantsAssumption DEF Runs

LEMMA StartKeeps ==
  ASSUME NEW ds \in Table, KnowsTask(ds), NEW us \in SUBSET Urls, \A u \in us : FreeGens(u) # {}
  PROVE  /\ Started(ds, us) \in Table /\ KnowsTask(Started(ds, us))
         /\ Is(Started(ds, us), "running") = Is(ds, "running") \cup us
         /\ Is(Started(ds, us), "queued") = Is(ds, "queued") \ us
<1>1. \A u \in us : FreeGen(u) \in 1 .. NGens BY FreeGenIsFree
<1>2. \A u \in us : Running(FreeGen(u)) \in State /\ Running(FreeGen(u)).st = "running"
                    /\ Running(FreeGen(u)).gen # 0
  BY <1>1, ConstantsAssumption DEF Running, State
<1>3. \A u \in Urls : Started(ds, us)[u] = IF u \in us THEN Running(FreeGen(u)) ELSE ds[u]
  BY DEF Started
<1>4. Started(ds, us) \in Table
  <2>1. \A u \in Urls : (IF u \in us THEN Running(FreeGen(u)) ELSE ds[u]) \in State
    BY <1>2 DEF Table
  <2> QED BY <2>1 DEF Started, Table
<1>5. KnowsTask(Started(ds, us)) BY <1>2, <1>3 DEF KnowsTask
<1>6. Is(Started(ds, us), "running") = Is(ds, "running") \cup us BY <1>2, <1>3 DEF Is
<1>7. Is(Started(ds, us), "queued") = Is(ds, "queued") \ us BY <1>2, <1>3 DEF Is
<1> QED BY <1>4, <1>5, <1>6, <1>7

LEMMA SpawnKeeps ==
  ASSUME NEW ts \in TaskTable, NEW us \in SUBSET Urls
  PROVE  /\ Spawned(ts, us) \in TaskTable
         /\ \A u \in Urls \ us : Spawned(ts, us)[u] = ts[u]
BY DEF Spawned, TaskTable

\* The first ones of a list start, as many as there are transfers left.
LEMMA FirstOnes ==
  ASSUME NEW r \in Nat, r <= MaxParallel, NEW L \in Nat
  PROVE  \E n \in 0 .. L : /\ {i \in 1 .. L : r + i <= MaxParallel} = 1 .. n
                           /\ Cardinality({i \in 1 .. L : r + i <= MaxParallel}) = n
                           /\ r + n <= MaxParallel
                           /\ n < L => r + n = MaxParallel
<1> DEFINE n == IF MaxParallel - r <= L THEN MaxParallel - r ELSE L
<1>1. MaxParallel \in Nat BY ConstantsAssumption
<1>2. n \in 0 .. L /\ r + n <= MaxParallel /\ (n < L => r + n = MaxParallel) BY <1>1
<1>3. {i \in 1 .. L : r + i <= MaxParallel} = 1 .. n BY <1>1
<1>4. Cardinality(1 .. n) = n BY <1>2, FS_Interval
<1> HIDE DEF n
<1> QED BY <1>2, <1>3, <1>4

LEMMA TakeFirst ==
  ASSUME NEW ds \in Table, KnowsTask(ds), NEW q \in Seq(Urls), Distinct(q),
         NEW n \in 0 .. Len(q), \A u \in Elements(q) : ds[u].st # "running" /\ FreeGens(u) # {}
  PROVE  LET us == {q[i] : i \in 1 .. n}
             rest == SubSeq(q, n + 1, Len(q))
         IN  /\ us \in SUBSET Urls /\ us \subseteq Elements(q)
             /\ Runs(Started(ds, us)) = Runs(ds) + n
             /\ rest \in Seq(Urls) /\ Distinct(rest) /\ Len(rest) = Len(q) - n
             /\ Elements(rest) = Elements(q) \ us
<1> DEFINE us == {q[i] : i \in 1 .. n}
           rest == SubSeq(q, n + 1, Len(q))
<1>1. Len(q) \in Nat /\ \A i \in 1 .. Len(q) : q[i] \in Urls BY LenProperties
<1>2. us \in SUBSET Urls /\ us \subseteq Elements(q) BY <1>1 DEF Elements
<1>3. IsFiniteSet(us) /\ Cardinality(us) = n BY CountFirst
<1>4. Runs(Started(ds, us)) = Runs(ds) + n
  <2>1. \A u \in us : FreeGens(u) # {} /\ u \notin Is(ds, "running") BY <1>2 DEF Is
  <2> HIDE DEF us
  <2>2. Is(Started(ds, us), "running") = Is(ds, "running") \cup us BY <1>2, <2>1, StartKeeps
  <2>3. Is(ds, "running") \cap us = {} BY <2>1
  <2>4. Cardinality(Is(ds, "running") \cup us) = Cardinality(Is(ds, "running")) + Cardinality(us)
    <3>1. IsFiniteSet(Is(ds, "running")) /\ Cardinality(Is(ds, "running")) \in Nat
      BY RunsCount DEF Runs
    <3>2. Cardinality(Is(ds, "running") \cup us) =
            Cardinality(Is(ds, "running")) + Cardinality(us) - Cardinality(Is(ds, "running") \cap us)
      BY <1>3, <3>1, FS_Union
    <3>3. Cardinality(Is(ds, "running") \cap us) = 0 BY <2>3, FS_EmptySet
    <3> QED BY <1>3, <3>1, <3>2, <3>3
  <2> QED BY <1>3, <2>2, <2>4 DEF Runs
<1>5. /\ rest \in Seq(Urls) /\ Len(rest) = Len(q) - n
      /\ \A i \in 1 .. Len(q) - n : rest[i] = q[n + i]
  <2>1. \A i \in n + 1 .. Len(q) : q[i] \in Urls BY <1>1
  <2>2. n + 1 \in Int /\ Len(q) \in Int BY <1>1
  <2>3. /\ rest \in Seq(Urls) /\ Len(rest) = IF n + 1 <= Len(q) THEN Len(q) - (n + 1) + 1 ELSE 0
        /\ \A i \in 1 .. Len(q) - (n + 1) + 1 : rest[i] = q[n + 1 + i - 1]
    BY <2>1, <2>2, SubSeqProperties
  <2> HIDE DEF rest
  <2> QED BY <1>1, <2>3
<1> HIDE DEF rest
<1>6. Distinct(rest)
  <2> SUFFICES ASSUME NEW i \in 1 .. Len(q) - n, NEW j \in 1 .. Len(q) - n, q[n + i] = q[n + j]
               PROVE  i = j
    BY <1>5 DEF Distinct
  <2>1. n + i \in 1 .. Len(q) /\ n + j \in 1 .. Len(q) BY <1>1
  <2>2. n + i = n + j BY <2>1 DEF Distinct
  <2> QED BY <2>2
<1>7. Elements(rest) = Elements(q) \ us
  <2>1. ASSUME NEW u \in Elements(rest) PROVE u \in Elements(q) \ us
    <3>1. PICK i \in 1 .. Len(q) - n : u = q[n + i] BY <1>5, <2>1 DEF Elements
    <3>2. n + i \in 1 .. Len(q) /\ n + i \notin 1 .. n BY <1>1
    <3>3. \A j \in 1 .. n : j \in 1 .. Len(q) /\ q[j] # q[n + i]
      BY <1>1, <3>2 DEF Distinct
    <3> QED BY <3>1, <3>2, <3>3 DEF Elements
  <2>2. ASSUME NEW u \in Elements(q) \ us PROVE u \in Elements(rest)
    <3>1. PICK i \in 1 .. Len(q) : u = q[i] BY DEF Elements
    <3>2. i \notin 1 .. n BY <3>1
    <3>3. i - n \in 1 .. Len(q) - n /\ n + (i - n) = i BY <1>1, <3>2
    <3>4. rest[i - n] = u BY <1>5, <3>1, <3>3
    <3> QED BY <1>5, <3>3, <3>4 DEF Elements
  <2> QED BY <2>1, <2>2
<1> QED BY <1>2, <1>4, <1>5, <1>6, <1>7 DEF rest

-----------------------------------------------------------------------------
LEMMA JoinDistinct ==
  ASSUME NEW s \in Seq(Urls), NEW t \in Seq(Urls), Distinct(s), Distinct(t),
         Elements(s) \cap Elements(t) = {}
  PROVE  /\ s \o t \in Seq(Urls) /\ Distinct(s \o t)
         /\ Elements(s \o t) = Elements(s) \cup Elements(t)
         /\ Len(s \o t) = Len(s) + Len(t)
<1>1. Len(s) \in Nat /\ Len(t) \in Nat BY LenProperties
<1>2. /\ s \o t \in Seq(Urls) /\ Len(s \o t) = Len(s) + Len(t)
      /\ \A i \in 1 .. Len(s) + Len(t) :
           (s \o t)[i] = IF i <= Len(s) THEN s[i] ELSE t[i - Len(s)]
  BY ConcatProperties
<1>3. \A i \in 1 .. Len(s), j \in 1 .. Len(t) : s[i] # t[j] BY DEF Elements
<1>4. Distinct(s \o t)
  <2> SUFFICES ASSUME NEW i \in 1 .. Len(s) + Len(t), NEW j \in 1 .. Len(s) + Len(t),
                      (s \o t)[i] = (s \o t)[j]
               PROVE  i = j
    BY <1>2 DEF Distinct
  <2>1. CASE i <= Len(s) /\ j <= Len(s) BY <1>1, <1>2, <2>1 DEF Distinct
  <2>2. CASE i > Len(s) /\ j > Len(s)
    <3>1. i - Len(s) \in 1 .. Len(t) /\ j - Len(s) \in 1 .. Len(t) BY <1>1, <2>2
    <3>2. i - Len(s) = j - Len(s) BY <1>1, <1>2, <2>2, <3>1 DEF Distinct
    <3> QED BY <1>1, <3>2
  <2>3. CASE i <= Len(s) /\ j > Len(s) BY <1>1, <1>2, <1>3, <2>3
  <2>4. CASE i > Len(s) /\ j <= Len(s) BY <1>1, <1>2, <1>3, <2>4
  <2> QED BY <1>1, <2>1, <2>2, <2>3, <2>4
<1>5. Elements(s \o t) = Elements(s) \cup Elements(t)
  <2>1. \A i \in 1 .. Len(s) : i \in 1 .. Len(s) + Len(t) /\ (s \o t)[i] = s[i] BY <1>1, <1>2
  <2>2. \A j \in 1 .. Len(t) : Len(s) + j \in 1 .. Len(s) + Len(t) /\ (s \o t)[Len(s) + j] = t[j]
    BY <1>1, <1>2
  <2>3. ASSUME NEW i \in 1 .. Len(s) + Len(t)
        PROVE  (s \o t)[i] \in Elements(s) \cup Elements(t)
    <3>1. CASE i <= Len(s) BY <1>1, <1>2, <3>1 DEF Elements
    <3>2. CASE i > Len(s)
      <4>1. i - Len(s) \in 1 .. Len(t) /\ (s \o t)[i] = t[i - Len(s)] BY <1>1, <1>2, <3>2
      <4> QED BY <4>1 DEF Elements
    <3> QED BY <1>1, <3>1, <3>2
  <2>4. Elements(s) \subseteq Elements(s \o t) /\ Elements(t) \subseteq Elements(s \o t)
    <3>1. \A i \in 1 .. Len(s) + Len(t) : (s \o t)[i] \in Elements(s \o t) BY <1>2 DEF Elements
    <3>2. \A i \in 1 .. Len(s) : s[i] \in Elements(s \o t) BY <2>1, <3>1
    <3>3. \A j \in 1 .. Len(t) : t[j] \in Elements(s \o t) BY <2>2, <3>1
    <3> QED BY <3>2, <3>3 DEF Elements
  <2>5. Elements(s \o t) \subseteq Elements(s) \cup Elements(t) BY <1>2, <2>3 DEF Elements
  <2> QED BY <2>4, <2>5
<1> QED BY <1>2, <1>4, <1>5

\* The queue is in step with the states, no transfer is left over, and a queued title has
\* a task to start: while it waits, none is added for it.
QueueInv ==
  /\ TypeOK /\ QueueIsQueued /\ SlotsUsed
  /\ \A u \in Urls : downloads[u].st = "queued" => FreeGens(u) # {}

\* What the queue, the states and the tasks are together, after a pump or a request.
Settled(ds, ts, q) ==
  /\ ds \in Table /\ KnowsTask(ds) /\ ts \in TaskTable
  /\ q \in Seq(Urls) /\ Distinct(q) /\ Elements(q) = Is(ds, "queued")
  /\ Runs(ds) <= MaxParallel
  /\ q # <<>> => Runs(ds) = MaxParallel

LEMMA PumpSettles ==
  ASSUME NEW ds \in Table, KnowsTask(ds), NEW ts \in TaskTable,
         NEW q \in Seq(Urls), Distinct(q), Elements(q) = Is(ds, "queued"),
         Runs(ds) <= MaxParallel,
         \A u \in Is(ds, "queued") : FreeGens(u) # {},
         Pump(ds, ts, q)
  PROVE  /\ Settled(downloads', tasks', queue')
         /\ \A u \in Is(downloads', "queued") : u \in Is(ds, "queued") /\ tasks'[u] = ts[u]
<1> DEFINE r == Runs(ds)
           Before(i) == {j \in 1 .. i - 1 : ds[q[j]].st = "queued"}
           taken == {i \in 1 .. Len(q) :
                       Cardinality(Is(ds, "running")) + Cardinality(Before(i)) < MaxParallel}
           us == {q[i] : i \in taken} \cap Is(ds, "queued")
<1>1. Len(q) \in Nat /\ (\A i \in 1 .. Len(q) : q[i] \in Elements(q)) /\ r \in Nat
  BY LenProperties, RunsCount DEF Elements
<1>2. \A i \in 1 .. Len(q) : Before(i) = 1 .. i - 1 BY <1>1 DEF Is
<1>3. \A i \in 1 .. Len(q) : Cardinality(Before(i)) = i - 1
  <2>1. \A i \in 1 .. Len(q) : Cardinality(1 .. i - 1) = i - 1 BY <1>1, FS_Interval
  <2> HIDE DEF Before
  <2> QED BY <1>2, <2>1
<1>4. taken = {i \in 1 .. Len(q) : r + i <= MaxParallel}
  <2>1. \A i \in 1 .. Len(q) : (r + (i - 1) < MaxParallel) <=> (r + i <= MaxParallel)
    BY <1>1, ConstantsAssumption
  <2> HIDE DEF Before
  <2> QED BY <1>3, <2>1 DEF Runs
<1> HIDE DEF taken
<1>5. PICK n \in 0 .. Len(q) : /\ taken = 1 .. n /\ Cardinality(taken) = n
                              /\ r + n <= MaxParallel /\ (n < Len(q) => r + n = MaxParallel)
  <2> HIDE DEF r
  <2>1. r <= MaxParallel /\ r \in Nat /\ Len(q) \in Nat BY <1>1 DEF r
  <2> QED BY <1>4, <2>1, FirstOnes
<1>6. us = {q[i] : i \in 1 .. n} BY <1>1, <1>5
<1>7. /\ downloads' = Started(ds, us) /\ tasks' = Spawned(ts, us)
      /\ queue' = SubSeq(q, n + 1, Len(q))
  <2>1. /\ downloads' = Started(ds, us) /\ tasks' = Spawned(ts, us)
        /\ queue' = SubSeq(q, Cardinality(taken) + 1, Len(q))
    BY DEF Pump, taken
  <2> HIDE DEF us
  <2> QED BY <1>5, <2>1
<1> HIDE DEF us
<1>8. \A u \in Elements(q) : ds[u].st # "running" /\ FreeGens(u) # {} BY DEF Is
<1>9. /\ us \in SUBSET Urls /\ us \subseteq Elements(q)
      /\ Runs(Started(ds, us)) = r + n
      /\ queue' \in Seq(Urls) /\ Distinct(queue') /\ Len(queue') = Len(q) - n
      /\ Elements(queue') = Elements(q) \ us
  BY <1>6, <1>7, <1>8, TakeFirst
<1>10. \A u \in us : FreeGens(u) # {} BY <1>8, <1>9
<1>11. /\ downloads' \in Table /\ KnowsTask(downloads')
       /\ Is(downloads', "queued") = Is(ds, "queued") \ us
  BY <1>7, <1>9, <1>10, StartKeeps
<1>12. tasks' \in TaskTable /\ \A u \in Urls \ us : tasks'[u] = ts[u]
  BY <1>7, <1>9, SpawnKeeps
<1>13. queue' # <<>> => n < Len(q)
  <2>1. queue' # <<>> => Len(queue') # 0 BY <1>9, EmptySeq
  <2> QED BY <1>1, <1>9, <2>1
<1>14. \A u \in Is(downloads', "queued") : u \in Urls BY DEF Is
<1> QED BY <1>5, <1>7, <1>9, <1>11, <1>12, <1>13, <1>14 DEF Settled

\* A request settles too: it queues only once no transfer is left.
LEMMA RequestSettles ==
  ASSUME QueueInv, NEW s \in Seq(Urls), Distinct(s),
         \A u \in Elements(s) : downloads[u].st \notin {"running", "queued"},
         Request(s)
  PROVE  /\ Settled(downloads', tasks', queue')
         /\ \A u \in Is(downloads', "queued") : FreeGens(u) # {} /\ tasks'[u] = tasks[u]
<1> DEFINE r == Runs(downloads)
           first == {i \in 1 .. Len(s) : Cardinality(Is(downloads, "running")) + i <= MaxParallel}
           us == {s[i] : i \in first}
           rest == SubSeq(s, Cardinality(first) + 1, Len(s))
           ds == [u \in Urls |-> IF u \in Elements(s) \ us THEN Queued ELSE downloads[u]]
<1>1. /\ downloads \in Table /\ KnowsTask(downloads) /\ tasks \in TaskTable
      /\ queue \in Seq(Urls) /\ Distinct(queue) /\ Elements(queue) = Is(downloads, "queued")
      /\ r <= MaxParallel /\ (queue # <<>> => r = MaxParallel)
  BY DEF QueueInv, TypeOK, QueueIsQueued, SlotsUsed, Table, State, KnowsTask, TaskTable, Distinct, Runs
<1>2. Len(s) \in Nat /\ r \in Nat BY LenProperties, RunsCount
<1>3. PICK n \in 0 .. Len(s) : /\ first = 1 .. n /\ Cardinality(first) = n
                              /\ r + n <= MaxParallel /\ (n < Len(s) => r + n = MaxParallel)
  BY <1>1, <1>2, FirstOnes DEF Runs
<1>4. /\ \A u \in Elements(s) : FreeGens(u) # {}
      /\ downloads' = Started(ds, us) /\ tasks' = Spawned(tasks, us)
      /\ queue' = queue \o rest
  BY DEF Request
<1> HIDE DEF first
<1>5. Elements(s) \subseteq Urls BY LenProperties DEF Elements
<1>6. /\ ds \in Table /\ KnowsTask(ds) /\ Is(ds, "running") = Is(downloads, "running")
      /\ Is(ds, "queued") = Is(downloads, "queued") \cup (Elements(s) \ us)
  <2> HIDE DEF us
  <2>1. \A u \in Urls : ds[u] = IF u \in Elements(s) \ us THEN Queued ELSE downloads[u] OBVIOUS
  <2>2. Queued \in State /\ Queued.st = "queued" /\ Queued.gen = 0
    <3>1. Absent \in State /\ Absent.gen = 0 BY ConstantsAssumption DEF Absent, State
    <3> QED BY <3>1 DEF Queued, State
  <2>3. ds \in Table BY <1>1, <2>2 DEF Table
  <2> HIDE DEF ds
  <2>4. KnowsTask(ds) BY <1>1, <2>1, <2>2 DEF KnowsTask
  <2>5. Is(ds, "running") = Is(downloads, "running") BY <2>1, <2>2 DEF Is
  <2>6. Is(ds, "queued") = Is(downloads, "queued") \cup (Elements(s) \ us)
    BY <1>5, <2>1, <2>2 DEF Is
  <2> QED BY <2>3, <2>4, <2>5, <2>6
<1> HIDE DEF ds
<1>7. \A u \in Elements(s) : ds[u].st # "running" /\ FreeGens(u) # {}
  BY <1>4, <1>5, <1>6 DEF Is
<1>8. us = {s[i] : i \in 1 .. n} /\ rest = SubSeq(s, n + 1, Len(s)) BY <1>3
<1> HIDE DEF us, rest
<1>9. /\ us \in SUBSET Urls /\ us \subseteq Elements(s)
      /\ Runs(Started(ds, us)) = r + n
      /\ rest \in Seq(Urls) /\ Distinct(rest) /\ Len(rest) = Len(s) - n
      /\ Elements(rest) = Elements(s) \ us
  <2>1. Runs(ds) = r BY <1>6 DEF Runs
  <2>2. LET vs == {s[i] : i \in 1 .. n}
            tail == SubSeq(s, n + 1, Len(s))
        IN  /\ vs \in SUBSET Urls /\ vs \subseteq Elements(s)
            /\ Runs(Started(ds, vs)) = Runs(ds) + n
            /\ tail \in Seq(Urls) /\ Distinct(tail) /\ Len(tail) = Len(s) - n
            /\ Elements(tail) = Elements(s) \ vs
    BY <1>6, <1>7, TakeFirst
  <2> QED BY <1>8, <2>1, <2>2
<1>10. /\ downloads' \in Table /\ KnowsTask(downloads')
       /\ Is(downloads', "queued") = Is(ds, "queued") \ us
  <2>1. \A u \in us : FreeGens(u) # {} BY <1>4, <1>9
  <2> QED BY <1>4, <1>6, <1>9, <2>1, StartKeeps
<1>11. tasks' \in TaskTable /\ \A u \in Urls \ us : tasks'[u] = tasks[u]
  BY <1>1, <1>4, <1>9, SpawnKeeps
<1>12. Is(downloads, "queued") \cap Elements(s) = {} BY DEF Is
<1>13. /\ queue' \in Seq(Urls) /\ Distinct(queue')
       /\ Elements(queue') = Elements(queue) \cup Elements(rest)
       /\ Len(queue') = Len(queue) + Len(rest)
  <2>1. Elements(queue) \cap Elements(rest) = {} BY <1>1, <1>9, <1>12
  <2> HIDE DEF rest
  <2> QED BY <1>1, <1>4, <1>9, <2>1, JoinDistinct
<1>14. queue' # <<>> => r + n = MaxParallel
  <2>1. Len(queue) \in Nat /\ (queue = <<>> => Len(queue) = 0) BY <1>1, EmptySeq, LenProperties
  <2>2. queue' # <<>> => Len(queue') # 0 BY <1>13, EmptySeq
  <2>3. CASE queue # <<>> BY <1>1, <1>2, <1>3, <2>3
  <2>4. CASE queue = <<>> BY <1>2, <1>3, <1>9, <1>13, <2>1, <2>2, <2>4
  <2> QED BY <2>3, <2>4
<1>15. Elements(queue') = Is(downloads', "queued")
  BY <1>1, <1>6, <1>9, <1>10, <1>12, <1>13
<1>16. \A u \in Is(downloads', "queued") : u \in Urls \ us /\ FreeGens(u) # {}
  <2>1. \A u \in Is(downloads', "queued") : u \in Urls BY DEF Is
  <2>2. \A u \in Is(downloads, "queued") : FreeGens(u) # {} BY DEF Is, QueueInv
  <2> QED BY <1>4, <1>6, <1>10, <2>1, <2>2
<1> QED BY <1>3, <1>4, <1>9, <1>10, <1>11, <1>13, <1>14, <1>15, <1>16 DEF Settled

-----------------------------------------------------------------------------
LEMMA SettledIsInv ==
  ASSUME Settled(downloads', tasks', queue'), inbox' \in Seq(Messages), parts' \subseteq Urls,
         \A u \in Is(downloads', "queued") : FreeGens(u)' # {}
  PROVE  QueueInv'
BY DEF Settled, QueueInv, TypeOK, QueueIsQueued, SlotsUsed, Table, State, KnowsTask, TaskTable,
  Distinct, Runs, Is

LEMMA InvIsSettled ==
  ASSUME QueueInv
  PROVE  /\ Settled(downloads, tasks, queue) /\ inbox \in Seq(Messages) /\ parts \subseteq Urls
         /\ \A u \in Is(downloads, "queued") : FreeGens(u) # {}
BY DEF Settled, QueueInv, TypeOK, QueueIsQueued, SlotsUsed, Table, State, KnowsTask, TaskTable,
  Distinct, Runs, Is

\* A number that is free stays free while no task takes it.
LEMMA FreeStays ==
  ASSUME NEW u \in Urls, FreeGens(u) # {}, Live(u)' \subseteq Live(u),
         \A m \in Elements(inbox)' : m \in Elements(inbox) \/ (m.url = u => m.gen \in Live(u))
  PROVE  FreeGens(u)' # {}
<1>1. PICK g \in Gens : g \notin Live(u) /\ \A m \in Pending(u) : m.gen # g BY DEF FreeGens
<1>2. g \notin Live(u)' BY <1>1
<1>3. \A m \in Pending(u)' : m.gen # g BY <1>1 DEF Pending
<1> QED BY <1>1, <1>2, <1>3 DEF FreeGens

LEMMA QueueInit == Init => QueueInv
<1> SUFFICES ASSUME Init PROVE QueueInv
  OBVIOUS
<1>1. downloads = [u \in Urls |-> Absent] /\ queue = <<>> /\ inbox = <<>> /\ parts = {}
      /\ tasks = [u \in Urls |-> [g \in Gens |-> "gone"]]
  BY DEF Init
<1>2. Absent \in State /\ Absent.gen = 0 /\ Absent.st = "none"
  BY ConstantsAssumption DEF Absent, State
<1>3. downloads \in Table /\ KnowsTask(downloads) /\ tasks \in TaskTable
  BY <1>1, <1>2 DEF Table, KnowsTask, TaskTable
<1>4. Is(downloads, "running") = {} /\ Is(downloads, "queued") = {} BY <1>1, <1>2 DEF Is
<1>5. Runs(downloads) = 0 BY <1>4, FS_EmptySet DEF Runs
<1>6. queue \in Seq(Urls) /\ Len(queue) = 0 /\ inbox \in Seq(Messages) BY <1>1, EmptySeq
<1>7. Elements(queue) = {} /\ Distinct(queue) BY <1>6 DEF Elements, Distinct
<1>8. TypeOK BY <1>1, <1>3, <1>6 DEF TypeOK, Table, State, KnowsTask, TaskTable
<1>9. QueueIsQueued BY <1>4, <1>7 DEF QueueIsQueued, Distinct
<1>10. SlotsUsed BY <1>1, <1>5, ConstantsAssumption DEF SlotsUsed, Runs
<1> QED BY <1>4, <1>8, <1>9, <1>10 DEF QueueInv, Is

LEMMA RequestStep ==
  ASSUME QueueInv, NEW s \in Seq(Urls), Distinct(s),
         \A u \in Elements(s) : downloads[u].st \notin {"running", "queued"},
         Request(s)
  PROVE  QueueInv'
<1>1. /\ Settled(downloads', tasks', queue')
      /\ \A u \in Is(downloads', "queued") : FreeGens(u) # {} /\ tasks'[u] = tasks[u]
  BY RequestSettles
<1>2. UNCHANGED <<inbox, parts>> BY DEF Request
<1>3. ASSUME NEW u \in Is(downloads', "queued") PROVE FreeGens(u)' # {}
  <2>1. u \in Urls BY DEF Is
  <2>2. Live(u)' = Live(u) BY <1>1 DEF Live
  <2>3. Elements(inbox)' = Elements(inbox) BY <1>2
  <2> QED BY <1>1, <2>1, <2>2, <2>3, FreeStays
<1> QED BY <1>1, <1>2, <1>3, InvIsSettled, SettledIsInv

LEMMA MediaStep ==
  ASSUME QueueInv, NEW u \in Urls, DownloadMedia(u)
  PROVE  QueueInv'
<1>1. <<u>> \in Seq(Urls) /\ Len(<<u>>) = 1 /\ <<u>>[1] = u OBVIOUS
<1>2. Distinct(<<u>>) /\ Elements(<<u>>) = {u} BY <1>1 DEF Distinct, Elements
<1> QED BY <1>1, <1>2, RequestStep DEF DownloadMedia

LEMMA SeasonStep ==
  ASSUME QueueInv, NEW us \in SUBSET Urls, DownloadSeason(us)
  PROVE  QueueInv'
<1>1. PICK s \in Listings(us) : Request(s) BY DEF DownloadSeason
<1>2. Cardinality(us) \in Nat BY FS_Subset, FS_CardinalityType, ConstantsAssumption
<1>3. s \in [1 .. Cardinality(us) -> us] /\ \A i, j \in DOMAIN s : s[i] = s[j] => i = j
  BY DEF Listings
<1>4. s \in Seq(us) /\ Len(s) = Cardinality(us) BY <1>2, <1>3, SeqDef, LenProperties
<1>5. s \in Seq(Urls) BY <1>4, SeqMonotonic
<1>6. Distinct(s) BY <1>3, <1>4 DEF Distinct
<1>7. Elements(s) \subseteq us BY <1>3, <1>4 DEF Elements
<1>8. \A u \in Elements(s) : downloads[u].st \notin {"running", "queued"}
  BY <1>7 DEF DownloadSeason
<1> QED BY <1>1, <1>5, <1>6, <1>8, RequestStep

LEMMA CancelStep ==
  ASSUME QueueInv, NEW us \in SUBSET Urls, CancelAll(us)
  PROVE  QueueInv'
<1> DEFINE running == us \cap Is(downloads, "running")
           queued == us \cap Is(downloads, "queued")
           ds == [u \in Urls |-> IF u \in running \cup queued THEN Absent ELSE downloads[u]]
           ts == Aborted(running)
           q == Retained(queued)
<1>1. /\ downloads \in Table /\ KnowsTask(downloads) /\ tasks \in TaskTable
      /\ queue \in Seq(Urls) /\ Distinct(queue) /\ Elements(queue) = Is(downloads, "queued")
      /\ Runs(downloads) <= MaxParallel /\ inbox \in Seq(Messages) /\ parts \subseteq Urls
      /\ \A u \in Is(downloads, "queued") : FreeGens(u) # {}
  BY InvIsSettled DEF Settled
<1>2. Pump(ds, ts, q) /\ inbox' = inbox /\ parts' \subseteq parts BY DEF CancelAll
<1>3. /\ ds \in Table /\ KnowsTask(ds)
      /\ Is(ds, "running") = Is(downloads, "running") \ us
      /\ Is(ds, "queued") = Is(downloads, "queued") \ us
  <2>1. Absent \in State /\ Absent.gen = 0 /\ Absent.st = "none"
    BY ConstantsAssumption DEF Absent, State
  <2>2. \A u \in Urls : ds[u] = IF u \in running \cup queued THEN Absent ELSE downloads[u] OBVIOUS
  <2>3. ds \in Table BY <1>1, <2>1 DEF Table
  <2> HIDE DEF ds
  <2>4. KnowsTask(ds) BY <1>1, <2>1, <2>2 DEF KnowsTask
  <2>5. \A u \in Urls : (u \in Is(ds, "running")) <=> (u \in Is(downloads, "running") \ us)
    BY <2>1, <2>2 DEF Is
  <2>6. \A u \in Urls : (u \in Is(ds, "queued")) <=> (u \in Is(downloads, "queued") \ us)
    BY <2>1, <2>2 DEF Is
  <2> QED BY <2>3, <2>4, <2>5, <2>6 DEF Is
<1>4. ts \in TaskTable /\ \A u \in Urls \ running : ts[u] = tasks[u]
  BY <1>1 DEF Aborted, TaskTable
<1>5. q \in Seq(Urls) /\ Distinct(q) /\ Elements(q) = Elements(queue) \ queued
  BY <1>1, RetainedKeeps
<1> HIDE DEF ds, ts, q
<1>6. Elements(q) = Is(ds, "queued") BY <1>1, <1>3, <1>5
<1>7. Runs(ds) <= MaxParallel
  <2>1. Is(ds, "running") \in SUBSET Is(downloads, "running") BY <1>3
  <2>2. Runs(ds) <= Runs(downloads) BY <2>1, RunsCount, FS_Subset DEF Runs
  <2> QED BY <1>1, <2>2, RunsCount, ConstantsAssumption
<1>8. \A u \in Is(ds, "queued") : FreeGens(u) # {} BY <1>1, <1>3
<1>9. /\ Settled(downloads', tasks', queue')
      /\ \A u \in Is(downloads', "queued") : u \in Is(ds, "queued") /\ tasks'[u] = ts[u]
  BY <1>2, <1>3, <1>4, <1>5, <1>6, <1>7, <1>8, PumpSettles
<1>10. ASSUME NEW u \in Is(downloads', "queued") PROVE FreeGens(u)' # {}
  <2>1. u \in Urls /\ u \notin running /\ FreeGens(u) # {} BY <1>1, <1>3, <1>9 DEF Is
  <2>2. tasks'[u] = tasks[u] BY <1>4, <1>9, <2>1
  <2>3. Live(u)' = Live(u) BY <2>2 DEF Live
  <2>4. Elements(inbox)' = Elements(inbox) BY <1>2
  <2> QED BY <2>1, <2>3, <2>4, FreeStays
<1> QED BY <1>1, <1>2, <1>9, <1>10, SettledIsInv

-----------------------------------------------------------------------------
\* The events, and what the tasks do meanwhile.
LEMMA HeadOfInbox ==
  ASSUME inbox \in Seq(Messages), inbox # <<>>
  PROVE  /\ Head(inbox) \in Elements(inbox) /\ Head(inbox).url \in Urls /\ Head(inbox).gen \in Gens
         /\ Tail(inbox) \in Seq(Messages) /\ Elements(Tail(inbox)) \subseteq Elements(inbox)
<1>1. Len(inbox) \in Nat \ {0} BY EmptySeq
<1>2. Head(inbox) = inbox[1] /\ Head(inbox) \in Messages BY <1>1, HeadTailProperties, ElementOfSeq
<1>3. Head(inbox) \in Elements(inbox) BY <1>1, <1>2 DEF Elements
<1>4. /\ Tail(inbox) \in Seq(Messages) /\ Len(Tail(inbox)) = Len(inbox) - 1
      /\ \A i \in 1 .. Len(Tail(inbox)) : Tail(inbox)[i] = inbox[i + 1]
  BY HeadTailProperties
<1>5. \A i \in 1 .. Len(inbox) - 1 : i + 1 \in 1 .. Len(inbox) BY <1>1
<1>6. Elements(Tail(inbox)) \subseteq Elements(inbox) BY <1>4, <1>5 DEF Elements
<1> QED BY <1>2, <1>3, <1>4, <1>6 DEF Messages

LEMMA EventStep ==
  ASSUME QueueInv, UiStep
  PROVE  QueueInv'
<1> DEFINE m == Head(inbox)
           u == Head(inbox).url
<1>1. /\ downloads \in Table /\ KnowsTask(downloads) /\ tasks \in TaskTable
      /\ queue \in Seq(Urls) /\ Distinct(queue) /\ Elements(queue) = Is(downloads, "queued")
      /\ Runs(downloads) <= MaxParallel /\ (queue # <<>> => Runs(downloads) = MaxParallel)
      /\ inbox \in Seq(Messages) /\ parts \subseteq Urls
      /\ \A v \in Is(downloads, "queued") : FreeGens(v) # {}
  BY InvIsSettled DEF Settled
<1>2. inbox # <<>> /\ inbox' = Tail(inbox) /\ parts' = parts
  BY DEF UiStep, EventIgnored, EventStarted, EventFinished, Deliver
<1>3. u \in Urls /\ inbox' \in Seq(Messages) /\ Elements(inbox)' \subseteq Elements(inbox)
  BY <1>1, <1>2, HeadOfInbox
<1>4. ASSUME NEW v \in Is(downloads, "queued"), tasks'[v] = tasks[v] PROVE FreeGens(v)' # {}
  <2>1. v \in Urls /\ FreeGens(v) # {} BY <1>1 DEF Is
  <2>2. Live(v)' = Live(v) BY <1>4 DEF Live
  <2> QED BY <1>3, <2>1, <2>2, FreeStays
<1>5. CASE EventIgnored
  <2>1. UNCHANGED <<downloads, queue, tasks>> BY <1>5 DEF EventIgnored
  <2>2. Settled(downloads', tasks', queue') BY <1>1, <2>1 DEF Settled
  <2> QED BY <1>2, <1>1, <1>3, <1>4, <2>1, <2>2, SettledIsInv
<1>6. CASE EventStarted
  <2>1. /\ downloads[u].st = "running" /\ downloads' = [downloads EXCEPT ![u].part = TRUE]
        /\ UNCHANGED <<queue, tasks>>
    BY <1>6 DEF EventStarted
  <2>2. downloads' \in Table BY <1>1, <1>3, <2>1 DEF Table, State
  <2>3. \A v \in Urls : downloads'[v].st = downloads[v].st /\ downloads'[v].gen = downloads[v].gen
    BY <1>1, <1>3, <2>1 DEF Table, State
  <2>4. Is(downloads', "running") = Is(downloads, "running")
        /\ Is(downloads', "queued") = Is(downloads, "queued")
    BY <2>3 DEF Is
  <2>5. KnowsTask(downloads') BY <1>1, <2>3 DEF KnowsTask
  <2>6. Settled(downloads', tasks', queue') BY <1>1, <2>1, <2>2, <2>4, <2>5 DEF Settled, Runs
  <2> QED BY <1>1, <1>2, <1>3, <1>4, <2>1, <2>4, <2>6, SettledIsInv
<1>7. ASSUME NEW st \in {"done", "failed"}, EventFinished(st) PROVE QueueInv'
  <2> DEFINE ds == [downloads EXCEPT ![u] = Ended(st)]
  <2>1. downloads[u].st = "running" /\ Pump(ds, tasks, queue) BY <1>7 DEF EventFinished
  <2>2. Ended(st) \in State /\ Ended(st).st = st /\ Ended(st).gen = 0
    <3>1. Absent \in State /\ Absent.gen = 0 BY ConstantsAssumption DEF Absent, State
    <3> QED BY <3>1 DEF Ended, State
  <2>3. ds \in Table /\ \A v \in Urls : ds[v] = IF v = u THEN Ended(st) ELSE downloads[v]
    BY <1>1, <1>3, <2>2 DEF Table
  <2> HIDE DEF ds
  <2>4. KnowsTask(ds) BY <1>1, <2>2, <2>3 DEF KnowsTask
  <2>5. Is(ds, "running") \in SUBSET Is(downloads, "running") BY <2>2, <2>3 DEF Is
  <2>6. Is(ds, "queued") = Is(downloads, "queued") BY <2>1, <2>2, <2>3 DEF Is
  <2>7. Runs(ds) <= MaxParallel
    <3>1. Runs(ds) <= Runs(downloads) BY <2>5, RunsCount, FS_Subset DEF Runs
    <3> QED BY <1>1, <3>1, RunsCount, ConstantsAssumption
  <2>8. /\ Settled(downloads', tasks', queue')
        /\ \A v \in Is(downloads', "queued") : v \in Is(ds, "queued") /\ tasks'[v] = tasks[v]
    BY ZenonT(40), <1>1, <2>1, <2>3, <2>4, <2>6, <2>7, PumpSettles
  <2> QED BY <1>1, <1>2, <1>3, <1>4, <2>6, <2>8, SettledIsInv
<1> QED BY <1>5, <1>6, <1>7 DEF UiStep

LEMMA AppendedTo ==
  ASSUME inbox \in Seq(Messages), NEW m \in Messages
  PROVE  /\ Append(inbox, m) \in Seq(Messages)
         /\ Elements(Append(inbox, m)) \subseteq Elements(inbox) \cup {m}
<1> DEFINE new == Append(inbox, m)
<1>1. /\ new \in Seq(Messages) /\ Len(new) = Len(inbox) + 1 /\ new[Len(inbox) + 1] = m
      /\ \A i \in 1 .. Len(inbox) : new[i] = inbox[i]
  BY AppendProperties
<1>2. Len(inbox) \in Nat BY LenProperties
<1> HIDE DEF new
<1>3. \A i \in 1 .. Len(new) : i \in 1 .. Len(inbox) \/ i = Len(inbox) + 1 BY <1>1, <1>2
<1>4. Elements(new) \subseteq Elements(inbox) \cup {m} BY <1>1, <1>3 DEF Elements
<1> QED BY <1>1, <1>4 DEF new

LEMMA TaskStep ==
  ASSUME QueueInv, NEW u \in Urls, NEW g \in Gens, TaskOpens(u, g) \/ TaskEnds(u, g)
  PROVE  QueueInv'
<1>1. /\ downloads \in Table /\ KnowsTask(downloads) /\ tasks \in TaskTable
      /\ queue \in Seq(Urls) /\ Distinct(queue) /\ Elements(queue) = Is(downloads, "queued")
      /\ Runs(downloads) <= MaxParallel /\ (queue # <<>> => Runs(downloads) = MaxParallel)
      /\ inbox \in Seq(Messages) /\ parts \subseteq Urls
      /\ \A v \in Is(downloads, "queued") : FreeGens(v) # {}
  BY InvIsSettled DEF Settled
<1>2. /\ tasks[u][g] \in {"new", "open"} /\ UNCHANGED <<downloads, queue>> /\ parts' \subseteq Urls
      /\ \E pc \in {"gone", "open"} : TaskTo(u, g, pc)
      /\ \E ev \in {"started", "done", "failed"} : Send(u, g, ev)
  BY <1>1 DEF TaskOpens, TaskEnds, TaskFinishes, TaskFails
<1>3. g \in Live(u) BY <1>2 DEF Live
<1>4. PICK ev \in {"started", "done", "failed"} : inbox' = Append(inbox, [url |-> u, gen |-> g, ev |-> ev])
  BY <1>2 DEF Send
<1>5. /\ inbox' \in Seq(Messages)
      /\ Elements(inbox)' \subseteq Elements(inbox) \cup {[url |-> u, gen |-> g, ev |-> ev]}
  BY <1>1, <1>4, AppendedTo DEF Messages
<1>6. tasks' \in TaskTable /\ \A v \in Urls : Live(v)' \subseteq Live(v)
  <2>1. PICK pc \in {"gone", "open"} : tasks' = [tasks EXCEPT ![u][g] = pc] BY <1>2 DEF TaskTo
  <2>2. tasks' \in TaskTable BY <1>1, <2>1 DEF TaskTable
  <2>3. \A v \in Urls, h \in Gens : (v # u \/ h # g) => tasks'[v][h] = tasks[v][h]
    BY <1>1, <2>1 DEF TaskTable
  <2> QED BY <1>3, <2>2, <2>3 DEF Live
<1>7. ASSUME NEW v \in Is(downloads', "queued") PROVE FreeGens(v)' # {}
  <2>1. v \in Urls /\ FreeGens(v) # {} BY <1>1, <1>2 DEF Is
  <2> QED BY <1>3, <1>5, <1>6, <2>1, FreeStays
<1>8. Settled(downloads', tasks', queue') BY <1>1, <1>2, <1>6 DEF Settled
<1> QED BY <1>2, <1>5, <1>7, <1>8, SettledIsInv

LEMMA QueueStep == QueueInv /\ [Next]_vars => QueueInv'
<1> SUFFICES ASSUME QueueInv, [Next]_vars PROVE QueueInv'
  OBVIOUS
<1>1. ASSUME NEW u \in Urls, DownloadMedia(u) \/ CancelDownload(u) PROVE QueueInv'
  <2>1. CASE DownloadMedia(u) BY <2>1, MediaStep
  <2>2. CASE CancelDownload(u)
    <3>1. CancelAll({u}) /\ {u} \in SUBSET Urls BY <2>2 DEF CancelDownload
    <3> QED BY <3>1, CancelStep
  <2> QED BY <1>1, <2>1, <2>2
<1>2. ASSUME NEW us \in SUBSET Urls, DownloadSeason(us) \/ CancelSeasonDownloads(us) PROVE QueueInv'
  <2>1. CASE DownloadSeason(us) BY <2>1, SeasonStep
  <2>2. CASE CancelSeasonDownloads(us) BY <2>2, CancelStep DEF CancelSeasonDownloads
  <2> QED BY <1>2, <2>1, <2>2
<1>3. CASE UiStep BY <1>3, EventStep
<1>4. ASSUME NEW u \in Urls, NEW g \in Gens, TaskOpens(u, g) \/ TaskEnds(u, g) PROVE QueueInv'
  BY <1>4, TaskStep
<1>5. CASE UNCHANGED vars
  BY <1>5 DEF vars, QueueInv, TypeOK, QueueIsQueued, SlotsUsed, FreeGens, Live, Pending, Elements, Is
<1> QED BY <1>1, <1>2, <1>3, <1>4, <1>5 DEF Next

LEMMA QueueHolds == Spec => []QueueInv
<1> QED BY QueueInit, QueueStep, PTL DEF Spec

\* Whatever mix of requests, seasons, cancellations and late events led here, the queue
\* holds each queued title once and no other.
THEOREM QueueStaysInStep == Spec => []QueueInStep
<1>1. QueueInv => QueueInStep BY DEF QueueInv, QueueInStep
<1> QED BY <1>1, QueueHolds, PTL

\* Never more downloads than MAX_PARALLEL run, and none waits beside a transfer that is
\* left: each way a download stops pumps the queue.
THEOREM NoTransferIsLeft == Spec => []SlotsUsed
<1>1. QueueInv => SlotsUsed BY DEF QueueInv
<1> QED BY <1>1, QueueHolds, PTL

-----------------------------------------------------------------------------
\* Where a title is not requested again before the messages of its last task were
\* handled, its entry tells the one task it has.
LiveOf(t) == {g \in Gens : t[g] \in {"new", "open"}}
AloneAt(d, t, pending) ==
  /\ d.st = "running" => LiveOf(t) \subseteq {d.gen}
  /\ d.st # "running" => LiveOf(t) = {}
  /\ d.st = "queued" => pending = {}
  /\ LiveOf(t) # {} => \A m \in pending : m.ev = "started"
AloneInv == \A u \in Urls : AloneAt(downloads[u], tasks[u], Pending(u))

LEMMA StartAlone ==
  ASSUME NEW ds, NEW ts \in TaskTable, NEW us \in SUBSET Urls,
         \A u \in us : FreeGens(u) # {} /\ LiveOf(ts[u]) = {} /\ Pending(u) = {},
         \A u \in Urls \ us : AloneAt(ds[u], ts[u], Pending(u)),
         downloads' = Started(ds, us), tasks' = Spawned(ts, us),
         \A u \in Urls : Pending(u)' \subseteq Pending(u)
  PROVE  AloneInv'
<1> SUFFICES ASSUME NEW u \in Urls PROVE AloneAt(downloads'[u], tasks'[u], Pending(u)')
  BY DEF AloneInv
<1>1. Pending(u)' \subseteq Pending(u) OBVIOUS
<1>2. CASE u \in us
  <2>1. FreeGen(u) \in Gens BY <1>2, FreeGenIsFree DEF Gens
  <2>2. downloads'[u] = Running(FreeGen(u)) /\ tasks'[u] = [ts[u] EXCEPT ![FreeGen(u)] = "new"]
    BY <1>2 DEF Started, Spawned
  <2>3. LiveOf(tasks'[u]) = {FreeGen(u)} BY <1>2, <2>1, <2>2 DEF LiveOf, TaskTable
  <2> QED BY <1>1, <1>2, <2>2, <2>3 DEF AloneAt, Running
<1>3. CASE u \notin us
  <2>1. downloads'[u] = ds[u] /\ tasks'[u] = ts[u] BY <1>3 DEF Started, Spawned
  <2>2. AloneAt(ds[u], ts[u], Pending(u)) BY <1>3
  <2> QED BY <1>1, <2>1, <2>2 DEF AloneAt
<1> QED BY <1>2, <1>3

LEMMA PumpAlone ==
  ASSUME QueueInv, NEW ds, NEW ts \in TaskTable, NEW q,
         \A u \in Urls : AloneAt(ds[u], ts[u], Pending(u)),
         \A u \in Is(ds, "queued") : downloads[u].st = "queued",
         Pump(ds, ts, q), \A u \in Urls : Pending(u)' \subseteq Pending(u)
  PROVE  AloneInv'
<1>1. PICK us \in SUBSET Is(ds, "queued") : downloads' = Started(ds, us) /\ tasks' = Spawned(ts, us)
  BY DEF Pump
<1>2. \A u \in us : u \in Urls /\ ds[u].st = "queued" /\ FreeGens(u) # {} BY <1>1 DEF Is, QueueInv
<1>3. \A u \in us : LiveOf(ts[u]) = {} /\ Pending(u) = {} BY <1>2 DEF AloneAt
<1> QED BY <1>1, <1>2, <1>3, StartAlone

LEMMA RequestAlone ==
  ASSUME QueueInv, AloneInv, ~Again, NEW s \in Seq(Urls),
         \A u \in Elements(s) : downloads[u].st \notin {"running", "queued"},
         Request(s)
  PROVE  AloneInv'
<1>1. PICK us \in SUBSET Elements(s) :
        /\ downloads' = Started([u \in Urls |-> IF u \in Elements(s) \ us THEN Queued ELSE downloads[u]], us)
        /\ tasks' = Spawned(tasks, us)
  BY LenProperties DEF Request, Elements
<1> DEFINE ds == [u \in Urls |-> IF u \in Elements(s) \ us THEN Queued ELSE downloads[u]]
<1>2. Elements(s) \subseteq Urls BY LenProperties DEF Elements
<1>3. inbox' = inbox /\ \A u \in Elements(s) : FreeGens(u) # {} /\ Pending(u) = {} BY DEF Request
<1>4. \A u \in Elements(s) : LiveOf(tasks[u]) = {} BY <1>2 DEF AloneInv, AloneAt
<1>5. \A u \in Urls \ us : AloneAt(ds[u], tasks[u], Pending(u))
  <2>1. Queued.st = "queued"
    <3>1. Absent \in State BY ConstantsAssumption DEF Absent, State
    <3> QED BY <3>1 DEF Queued, State
  <2> QED BY <1>3, <1>4, <2>1 DEF AloneInv, AloneAt
<1>6. tasks \in TaskTable BY InvIsSettled DEF Settled
<1>7. \A u \in Urls : Pending(u)' = Pending(u) BY <1>3 DEF Pending, Elements
<1> HIDE DEF ds
<1> QED BY <1>1, <1>2, <1>3, <1>4, <1>5, <1>6, <1>7, StartAlone DEF ds

LEMMA CancelAlone ==
  ASSUME QueueInv, AloneInv, NEW us \in SUBSET Urls, CancelAll(us)
  PROVE  AloneInv'
<1> DEFINE running == us \cap Is(downloads, "running")
           queued == us \cap Is(downloads, "queued")
           ds == [u \in Urls |-> IF u \in running \cup queued THEN Absent ELSE downloads[u]]
           ts == Aborted(running)
<1>1. Pump(ds, ts, Retained(queued)) /\ inbox' = inbox BY DEF CancelAll
<1>2. /\ tasks \in TaskTable /\ downloads \in Table BY InvIsSettled DEF Settled
<1>3. ts \in TaskTable BY <1>2 DEF Aborted, TaskTable
<1>4. Absent.st = "none" BY DEF Absent
<1>5. ASSUME NEW u \in Urls PROVE AloneAt(ds[u], ts[u], Pending(u))
  <2>1. AloneAt(downloads[u], tasks[u], Pending(u)) BY DEF AloneInv
  <2>2. CASE u \in running
    <3>1. ts[u] = [tasks[u] EXCEPT ![downloads[u].gen] = "gone"] /\ ds[u] = Absent
      BY <2>2 DEF Aborted
    <3>2. LiveOf(tasks[u]) \subseteq {downloads[u].gen} BY <2>1, <2>2 DEF AloneAt, Is
    <3>3. LiveOf(ts[u]) = {} BY <1>2, <3>1, <3>2 DEF LiveOf, TaskTable
    <3> QED BY <1>4, <3>1, <3>3 DEF AloneAt
  <2>3. CASE u \in queued
    <3>1. ts[u] = tasks[u] /\ ds[u] = Absent BY <2>3 DEF Aborted, Is
    <3>2. LiveOf(tasks[u]) = {} BY <2>1, <2>3 DEF AloneAt, Is
    <3> QED BY <1>4, <3>1, <3>2 DEF AloneAt
  <2>4. CASE u \notin running \cup queued
    BY <2>1, <2>4 DEF Aborted
  <2> QED BY <2>2, <2>3, <2>4
<1>6. \A u \in Is(ds, "queued") : downloads[u].st = "queued" BY <1>4 DEF Is
<1>7. \A u \in Urls : Pending(u)' = Pending(u) BY <1>1 DEF Pending, Elements
<1> HIDE DEF ds, ts
<1> QED BY <1>1, <1>3, <1>5, <1>6, <1>7, PumpAlone

LEMMA EventAlone ==
  ASSUME QueueInv, AloneInv, UiStep
  PROVE  AloneInv'
<1> DEFINE u == Head(inbox).url
<1>1. inbox # <<>> /\ inbox' = Tail(inbox)
  BY DEF UiStep, EventIgnored, EventStarted, EventFinished, Deliver
<1>2. /\ tasks \in TaskTable /\ downloads \in Table /\ inbox \in Seq(Messages)
  BY InvIsSettled DEF Settled
<1>3. Head(inbox) \in Elements(inbox) /\ u \in Urls /\ Elements(inbox)' \subseteq Elements(inbox)
  BY <1>1, <1>2, HeadOfInbox
<1>4. \A v \in Urls : Pending(v)' \subseteq Pending(v) BY <1>3 DEF Pending
<1>5. CASE EventIgnored
  BY <1>4, <1>5 DEF EventIgnored, AloneInv, AloneAt
<1>6. CASE EventStarted
  <2>1. /\ downloads' = [downloads EXCEPT ![u].part = TRUE] /\ tasks' = tasks
    BY <1>6 DEF EventStarted
  <2>2. \A v \in Urls : downloads'[v].st = downloads[v].st /\ downloads'[v].gen = downloads[v].gen
    BY <1>2, <1>3, <2>1 DEF Table, State
  <2> QED BY <1>4, <2>1, <2>2 DEF AloneInv, AloneAt
<1>7. ASSUME NEW st \in {"done", "failed"}, EventFinished(st) PROVE AloneInv'
  <2> DEFINE ds == [downloads EXCEPT ![u] = Ended(st)]
  <2>1. /\ downloads[u].st = "running" /\ Pump(ds, tasks, queue) /\ Head(inbox).ev = st
    BY <1>7 DEF EventFinished, Deliver
  <2>2. Ended(st).st = st
    <3>1. Absent \in State BY ConstantsAssumption DEF Absent, State
    <3> QED BY <3>1 DEF Ended, State
  <2>3. \A v \in Urls : ds[v] = IF v = u THEN Ended(st) ELSE downloads[v]
    BY <1>2, <1>3 DEF Table
  <2> HIDE DEF ds
  <2>4. LiveOf(tasks[u]) = {}
    <3>1. Head(inbox) \in Pending(u) BY <1>3 DEF Pending
    <3> QED BY <1>3, <2>1, <3>1 DEF AloneInv, AloneAt
  <2>5. \A v \in Urls : AloneAt(ds[v], tasks[v], Pending(v))
    BY <2>2, <2>3, <2>4 DEF AloneInv, AloneAt
  <2>6. \A v \in Is(ds, "queued") : downloads[v].st = "queued" BY <2>2, <2>3 DEF Is
  <2> QED BY <1>2, <1>4, <2>1, <2>5, <2>6, PumpAlone
<1> QED BY <1>5, <1>6, <1>7 DEF UiStep

LEMMA TaskAlone ==
  ASSUME QueueInv, AloneInv, NEW u \in Urls, NEW g \in Gens, TaskOpens(u, g) \/ TaskEnds(u, g)
  PROVE  AloneInv'
<1>1. tasks \in TaskTable /\ inbox \in Seq(Messages) BY InvIsSettled DEF Settled
<1>2. g \in LiveOf(tasks[u]) /\ downloads' = downloads
  BY DEF LiveOf, TaskOpens, TaskEnds, TaskFinishes, TaskFails
<1>3. PICK ev \in {"started", "done", "failed"}, pc \in {"gone", "open"} :
        /\ inbox' = Append(inbox, [url |-> u, gen |-> g, ev |-> ev])
        /\ tasks' = [tasks EXCEPT ![u][g] = pc]
        /\ pc = "open" => ev = "started"
  BY DEF TaskOpens, TaskEnds, TaskFinishes, TaskFails, Send, TaskTo
<1>4. Elements(inbox)' \subseteq Elements(inbox) \cup {[url |-> u, gen |-> g, ev |-> ev]}
  BY <1>1, <1>3, AppendedTo DEF Messages
<1>5. downloads[u].st = "running" /\ LiveOf(tasks[u]) = {g}
  BY <1>2 DEF AloneInv, AloneAt
<1>6. LiveOf(tasks'[u]) = IF pc = "open" THEN {g} ELSE {}
  BY <1>1, <1>3, <1>5 DEF LiveOf, TaskTable
<1>7. \A m \in Pending(u)' : m \in Pending(u) \/ m.ev = ev BY <1>4 DEF Pending
<1>8. AloneAt(downloads'[u], tasks'[u], Pending(u)')
  <2>1. \A m \in Pending(u) : m.ev = "started" BY <1>5 DEF AloneInv, AloneAt
  <2>2. LiveOf(tasks[u]) \subseteq {downloads[u].gen} BY <1>5 DEF AloneInv, AloneAt
  <2>3. LiveOf(tasks'[u]) \subseteq {downloads[u].gen} BY <1>5, <1>6, <2>2
  <2>4. LiveOf(tasks'[u]) # {} => ev = "started" BY <1>3, <1>6
  <2>5. downloads'[u] = downloads[u] /\ downloads[u].st = "running" BY <1>2, <1>5
  <2>6. LiveOf(tasks'[u]) # {} => \A m \in Pending(u)' : m.ev = "started" BY <1>7, <2>1, <2>4
  <2> HIDE DEF LiveOf
  <2> QED BY <2>3, <2>5, <2>6 DEF AloneAt
<1>9. ASSUME NEW v \in Urls \ {u} PROVE AloneAt(downloads'[v], tasks'[v], Pending(v)')
  <2>1. tasks'[v] = tasks[v] BY <1>1, <1>3 DEF TaskTable
  <2>2. Pending(v)' \subseteq Pending(v) BY <1>4 DEF Pending
  <2> QED BY <1>2, <2>1, <2>2 DEF AloneInv, AloneAt
<1> QED BY <1>8, <1>9 DEF AloneInv

LEMMA AloneHolds ==
  ASSUME ~Again
  PROVE  Spec => [](QueueInv /\ AloneInv)
<1>1. Init => AloneInv
  BY DEF Init, AloneInv, AloneAt, LiveOf, Absent, Pending, Elements
<1>2. QueueInv /\ AloneInv /\ [Next]_vars => AloneInv'
  <2> SUFFICES ASSUME QueueInv, AloneInv, [Next]_vars PROVE AloneInv'
    OBVIOUS
  <2>1. ASSUME NEW u \in Urls, DownloadMedia(u) PROVE AloneInv'
    <3>1. <<u>> \in Seq(Urls) /\ Elements(<<u>>) = {u} BY DEF Elements
    <3> QED BY <2>1, <3>1, RequestAlone DEF DownloadMedia
  <2>2. ASSUME NEW us \in SUBSET Urls, DownloadSeason(us) PROVE AloneInv'
    <3>1. PICK s \in Listings(us) : Request(s) BY <2>2 DEF DownloadSeason
    <3>2. Cardinality(us) \in Nat BY FS_Subset, FS_CardinalityType, ConstantsAssumption
    <3>3. s \in [1 .. Cardinality(us) -> us] BY DEF Listings
    <3>4. s \in Seq(us) /\ Len(s) = Cardinality(us) BY <3>2, <3>3, SeqDef, LenProperties
    <3>5. s \in Seq(Urls) /\ Elements(s) \subseteq us BY <3>3, <3>4, SeqMonotonic DEF Elements
    <3> QED BY <2>2, <3>1, <3>5, RequestAlone DEF DownloadSeason
  <2>3. ASSUME NEW us \in SUBSET Urls, CancelAll(us) PROVE AloneInv'
    BY <2>3, CancelAlone
  <2>4. CASE UiStep BY <2>4, EventAlone
  <2>5. ASSUME NEW u \in Urls, NEW g \in Gens, TaskOpens(u, g) \/ TaskEnds(u, g) PROVE AloneInv'
    BY <2>5, TaskAlone
  <2>6. CASE UNCHANGED vars
    BY <2>6 DEF vars, AloneInv, AloneAt, LiveOf, Pending, Elements
  <2>7. \A u \in Urls : {u} \in SUBSET Urls OBVIOUS
  <2> QED BY <2>1, <2>2, <2>3, <2>4, <2>5, <2>6, <2>7
    DEF Next, CancelDownload, CancelSeasonDownloads
<1> QED BY <1>1, <1>2, QueueInit, QueueStep, PTL DEF Spec

\* While no title is requested again before the last messages of its task were handled, no
\* more transfers than MAX_PARALLEL are under way, those of tasks nobody knows included:
\* the events of an earlier task (app.rs:2497) are the only way past the limit.
THEOREM TransfersAreCounted ==
  ASSUME ~Again
  PROVE  Spec => []AtMostMaxTransfers
<1>1. QueueInv /\ AloneInv => AtMostMaxTransfers
  <2> SUFFICES ASSUME QueueInv, AloneInv PROVE AtMostMaxTransfers
    OBVIOUS
  <2> DEFINE T == {t \in Urls \X Gens : t[2] \in Live(t[1])}
             f == [t \in T |-> t[1]]
  <2>1. \A t \in T : /\ t[1] \in Urls /\ t[2] \in Gens /\ t = <<t[1], t[2]>>
                     /\ t[2] \in LiveOf(tasks[t[1]])
    BY DEF Live, LiveOf
  <2>2. \A t \in T : t[1] \in Is(downloads, "running") /\ t[2] = downloads[t[1]].gen
    BY <2>1 DEF AloneInv, AloneAt, Is
  <2>3. f \in Injection(T, Is(downloads, "running"))
    <3>1. f \in [T -> Is(downloads, "running")] BY <2>2
    <3>2. \A t, v \in T : t[1] = v[1] => t = v BY <2>1, <2>2
    <3> HIDE DEF T
    <3>3. \A t \in T : f[t] = t[1] OBVIOUS
    <3> HIDE DEF f
    <3> QED BY <3>1, <3>2, <3>3 DEF Injection, IsInjective
  <2> HIDE DEF T, f
  <2>4. Cardinality(T) <= Cardinality(Is(downloads, "running")) /\ IsFiniteSet(T)
    BY <2>3, RunsCount, FS_Injection
  <2>5. Cardinality(Is(downloads, "running")) <= MaxParallel BY DEF QueueInv, SlotsUsed
  <2>6. Cardinality(T) \in Nat /\ Cardinality(Is(downloads, "running")) \in Nat
    BY <2>4, FS_CardinalityType, RunsCount DEF Runs
  <2>7. Cardinality(T) <= MaxParallel BY <2>4, <2>5, <2>6, ConstantsAssumption
  <2> QED BY <2>7 DEF AtMostMaxTransfers, T
<1> QED BY <1>1, AloneHolds, PTL
=============================================================================
