---------------------------- MODULE AdapterProofs ----------------------------
(***************************************************************************)
(* The consumer side of a peer: the dedupe cache, the resume loop and the  *)
(* buffer, for any ids, cache size, pushes and restarts.                   *)
(***************************************************************************)
EXTENDS Adapter, FiniteSetTheorems, SequenceTheorems, TLAPS

----------------------------------------------------------------------------
(* The list of the cache *)

\* What RemoveAt leaves, and where.
LEMMA RemoveAtProperties ==
  ASSUME NEW S, NEW s \in Seq(S), NEW e \in 1..Len(s)
  PROVE  /\ RemoveAt(s, e) \in Seq(S)
         /\ Len(RemoveAt(s, e)) = Len(s) - 1
         /\ \A n \in 1..(Len(s) - 1) : RemoveAt(s, e)[n] = IF n < e THEN s[n] ELSE s[n + 1]
<1> DEFINE a == SubSeq(s, 1, e - 1)
           b == SubSeq(s, e + 1, Len(s))
<1>0. Len(s) \in Nat /\ e \in Nat /\ e >= 1 /\ e <= Len(s) /\ \A n \in 1..Len(s) : s[n] \in S
  BY ElementOfSeq
<1>1. /\ a \in Seq(S) /\ Len(a) = e - 1
      /\ \A n \in 1..(e - 1) : a[n] = s[n]
  <2>1. \A n \in 1..(e - 1) : s[n] \in S
    BY <1>0
  <2>2. /\ a \in Seq(S) /\ Len(a) = IF 1 <= e - 1 THEN e - 1 - 1 + 1 ELSE 0
        /\ \A n \in 1..(e - 1 - 1 + 1) : a[n] = s[1 + n - 1]
    BY <1>0, <2>1, SubSeqProperties
  <2> HIDE DEF a
  <2> QED
    BY <1>0, <2>2
<1>2. /\ b \in Seq(S) /\ Len(b) = Len(s) - e
      /\ \A n \in 1..(Len(s) - e) : b[n] = s[e + n]
  <2>1. \A n \in (e + 1)..Len(s) : s[n] \in S
    BY <1>0
  <2>2. /\ b \in Seq(S) /\ Len(b) = IF e + 1 <= Len(s) THEN Len(s) - (e + 1) + 1 ELSE 0
        /\ \A n \in 1..(Len(s) - (e + 1) + 1) : b[n] = s[e + 1 + n - 1]
    BY <1>0, <2>1, SubSeqProperties
  <2> HIDE DEF b
  <2> QED
    BY <1>0, <2>2
<1>3. RemoveAt(s, e) = a \o b
  BY DEF RemoveAt
<1> HIDE DEF a, b
<1>4. /\ a \o b \in Seq(S) /\ Len(a \o b) = Len(s) - 1
      /\ \A n \in 1..(Len(s) - 1) : (a \o b)[n] = IF n <= e - 1 THEN a[n] ELSE b[n - (e - 1)]
  BY <1>0, <1>1, <1>2, ConcatProperties
<1>5. ASSUME NEW n \in 1..(Len(s) - 1) PROVE (a \o b)[n] = IF n < e THEN s[n] ELSE s[n + 1]
  <2>1. CASE n < e
    BY <1>0, <1>1, <1>4, <2>1
  <2>2. CASE ~(n < e)
    <3>1. n - (e - 1) \in 1..(Len(s) - e) /\ e + (n - (e - 1)) = n + 1
      BY <1>0, <2>2
    <3> QED
      BY <1>0, <1>2, <1>4, <2>2, <3>1
  <2> QED
    BY <2>1, <2>2
<1> QED
  BY <1>3, <1>4, <1>5

\* A sequence in which no element comes twice.
Distinct(s) == \A m, n \in 1..Len(s) : s[m] = s[n] => m = n

\* For sequences that is IsInjective.
LEMMA DistinctIsInjective ==
  ASSUME NEW S, NEW s \in Seq(S) PROVE IsInjective(s) <=> Distinct(s)
BY LenProperties DEF IsInjective, Distinct

\* The cache as TypeOK describes it.
CacheOK == cache \in Seq(Ids) /\ Len(cache) <= CacheMax /\ Distinct(cache)

\* Without removes just the one id and keeps the order of the rest.
LEMMA WithoutProperties ==
  ASSUME CacheOK, NEW i
  PROVE  /\ Without(i) \in Seq(Ids)
         /\ Len(Without(i)) = IF Contains(cache, i) THEN Len(cache) - 1 ELSE Len(cache)
         /\ \A n \in 1..Len(Without(i)) :
              \E k \in 1..Len(cache) : /\ Without(i)[n] = cache[k] /\ cache[k] # i
                                       /\ n <= k /\ k <= n + 1
         /\ \A k \in 1..Len(cache) : cache[k] # i =>
              \E n \in 1..Len(Without(i)) :
                /\ Without(i)[n] = cache[k]
                /\ \A m \in 1..(n - 1) : \E j \in 1..(k - 1) : Without(i)[m] = cache[j]
         /\ Distinct(Without(i))
<1>0. Len(cache) \in Nat /\ cache \in Seq(Ids) /\ Distinct(cache)
  BY DEF CacheOK
<1>1. CASE ~Contains(cache, i)
  BY <1>0, <1>1 DEF Without, Contains
<1>2. CASE Contains(cache, i)
  <2>1. PICK e \in 1..Len(cache) : e = Element(i) /\ cache[e] = i
    BY <1>2 DEF Contains, Element
  <2> DEFINE w == RemoveAt(cache, e)
  <2>2. Without(i) = w
    BY <1>2, <2>1 DEF Without
  <2>3. /\ w \in Seq(Ids) /\ Len(w) = Len(cache) - 1
        /\ \A n \in 1..(Len(cache) - 1) : w[n] = IF n < e THEN cache[n] ELSE cache[n + 1]
    BY <1>0, RemoveAtProperties
  <2> HIDE DEF w
  <2>4. \A k \in 1..Len(cache) : cache[k] = i => k = e
    BY <1>0, <2>1 DEF Distinct
  <2>5. ASSUME NEW n \in 1..Len(w)
        PROVE  \E k \in 1..Len(cache) : w[n] = cache[k] /\ cache[k] # i /\ n <= k /\ k <= n + 1
    <3>1. CASE n < e
      BY <1>0, <2>1, <2>3, <2>4, <3>1
    <3>2. CASE ~(n < e)
      <4>1. n + 1 \in 1..Len(cache) /\ n + 1 # e
        BY <1>0, <2>1, <2>3, <3>2
      <4> QED
        BY <1>0, <2>1, <2>3, <2>4, <3>2, <4>1
    <3> QED
      BY <3>1, <3>2
  <2>6. ASSUME NEW k \in 1..Len(cache), cache[k] # i
        PROVE  \E n \in 1..Len(w) :
                 /\ w[n] = cache[k]
                 /\ \A m \in 1..(n - 1) : \E j \in 1..(k - 1) : w[m] = cache[j]
    <3>1. CASE k < e
      <4>1. k \in 1..Len(w) /\ w[k] = cache[k]
        BY <1>0, <2>1, <2>3, <3>1
      <4>2. \A m \in 1..(k - 1) : w[m] = cache[m]
        BY <1>0, <2>1, <2>3, <3>1
      <4> QED
        BY <4>1, <4>2
    <3>2. CASE k > e
      <4>1. k - 1 \in 1..Len(w) /\ w[k - 1] = cache[k]
        BY <1>0, <2>1, <2>3, <3>2
      <4>2. ASSUME NEW m \in 1..(k - 1 - 1) PROVE \E j \in 1..(k - 1) : w[m] = cache[j]
        <5>1. m \in 1..(Len(cache) - 1) /\ m \in 1..(k - 1) /\ m + 1 \in 1..(k - 1)
          BY <1>0, <2>1, <2>3, <3>2
        <5> QED
          BY <2>3, <5>1
      <4> QED
        BY <4>1, <4>2
    <3> QED
      BY <1>0, <2>1, <2>6, <3>1, <3>2
  <2>7. Distinct(w)
    <3> SUFFICES ASSUME NEW m \in 1..Len(w), NEW n \in 1..Len(w), w[m] = w[n] PROVE m = n
      BY DEF Distinct
    <3>1. PICK a \in 1..Len(cache) : a = (IF m < e THEN m ELSE m + 1) /\ w[m] = cache[a]
      BY <1>0, <2>3
    <3>2. PICK b \in 1..Len(cache) : b = (IF n < e THEN n ELSE n + 1) /\ w[n] = cache[b]
      BY <1>0, <2>3
    <3>3. a = b
      BY <1>0, <3>1, <3>2 DEF Distinct
    <3> QED
      BY <1>0, <2>3, <3>1, <3>2, <3>3
  <2> QED
    BY <1>2, <2>2, <2>3, <2>5, <2>6, <2>7
<1> QED
  BY <1>1, <1>2

\* Front drops the last element.
LEMMA FrontProperties ==
  ASSUME NEW S, NEW s \in Seq(S), Len(s) # 0
  PROVE  /\ Front(s) \in Seq(S) /\ Len(Front(s)) = Len(s) - 1
         /\ \A n \in 1..(Len(s) - 1) : Front(s)[n] = s[n]
<1>0. Len(s) \in Nat /\ \A n \in 1..Len(s) : s[n] \in S
  BY ElementOfSeq
<1>1. \A n \in 1..(Len(s) - 1) : s[n] \in S
  BY <1>0
<1> DEFINE f == SubSeq(s, 1, Len(s) - 1)
<1>2. /\ f \in Seq(S) /\ Len(f) = IF 1 <= Len(s) - 1 THEN Len(s) - 1 - 1 + 1 ELSE 0
      /\ \A n \in 1..(Len(s) - 1 - 1 + 1) : f[n] = s[1 + n - 1]
  BY <1>0, <1>1, SubSeqProperties
<1>3. Front(s) = f
  BY DEF Front
<1> HIDE DEF f
<1> QED
  BY <1>0, <1>2, <1>3

\* An element put in front of a sequence moves the rest by one.
LEMMA ConsProperties ==
  ASSUME NEW S, NEW s \in Seq(S), NEW i \in S
  PROVE  /\ <<i>> \o s \in Seq(S) /\ Len(<<i>> \o s) = Len(s) + 1
         /\ (<<i>> \o s)[1] = i
         /\ \A n \in 1..Len(s) : (<<i>> \o s)[n + 1] = s[n]
         /\ (Distinct(s) /\ \A n \in 1..Len(s) : s[n] # i) => Distinct(<<i>> \o s)
<1> DEFINE t == <<i>> \o s
<1>0. Len(s) \in Nat
  OBVIOUS
<1>1. <<i>> \in Seq(S) /\ Len(<<i>>) = 1 /\ <<i>>[1] = i
  OBVIOUS
<1>2. /\ t \in Seq(S) /\ Len(t) = 1 + Len(s)
      /\ \A n \in 1..(1 + Len(s)) : t[n] = IF n <= 1 THEN <<i>>[n] ELSE s[n - 1]
  BY <1>1, ConcatProperties
<1> HIDE DEF t
<1>3. t[1] = i /\ \A n \in 1..Len(s) : t[n + 1] = s[n]
  BY <1>0, <1>1, <1>2
<1>4. ASSUME Distinct(s), \A n \in 1..Len(s) : s[n] # i PROVE Distinct(t)
  <2> SUFFICES ASSUME NEW m \in 1..Len(t), NEW n \in 1..Len(t), t[m] = t[n] PROVE m = n
    BY DEF Distinct
  <2>1. (m # 1 => m - 1 \in 1..Len(s) /\ t[m] = s[m - 1]) /\ (n # 1 => n - 1 \in 1..Len(s) /\ t[n] = s[n - 1])
    BY <1>0, <1>2
  <2> QED
    BY <1>0, <1>2, <1>3, <1>4, <2>1 DEF Distinct
<1> QED
  BY <1>2, <1>3, <1>4 DEF t

\* What Seen makes of the cache: the id comes to the front, every other id stays behind
\* no others than before and the new one, and the last one may go if the cache is full.
LEMMA TouchProperties ==
  ASSUME CacheOK, CacheMax \in Nat \ {0}, NEW i \in Ids
  PROVE  /\ Touch(i) \in Seq(Ids) /\ Len(Touch(i)) <= CacheMax /\ Distinct(Touch(i))
         /\ Len(Touch(i)) # 0 /\ Touch(i)[1] = i
         /\ \A n \in 1..Len(Touch(i)) :
              Touch(i)[n] = i \/ \E k \in 1..Len(cache) : Touch(i)[n] = cache[k]
         /\ \A k \in 1..Len(cache) :
              \/ \E n \in 1..Len(Touch(i)) :
                   /\ Touch(i)[n] = cache[k]
                   /\ \A m \in 1..(n - 1) :
                        Touch(i)[m] = i \/ \E j \in 1..(k - 1) : Touch(i)[m] = cache[j]
              \/ /\ cache[k] # i /\ Len(Touch(i)) = CacheMax
                 /\ \A m \in 1..CacheMax :
                      Touch(i)[m] = i \/ \E j \in 1..(k - 1) : Touch(i)[m] = cache[j]
<1> DEFINE full == ~Contains(cache, i) /\ Len(cache) = CacheMax
           r == IF full THEN Front(cache) ELSE Without(i)
<1>0. cache \in Seq(Ids) /\ Len(cache) \in Nat /\ Len(cache) <= CacheMax /\ Distinct(cache)
  BY DEF CacheOK
<1>1. /\ r \in Seq(Ids) /\ Len(r) <= CacheMax - 1 /\ Distinct(r)
      /\ \A n \in 1..Len(r) : r[n] # i /\ \E k \in 1..Len(cache) : r[n] = cache[k]
  <2>1. CASE full
    <3>1. /\ r \in Seq(Ids) /\ Len(r) = Len(cache) - 1
          /\ \A n \in 1..(Len(cache) - 1) : r[n] = cache[n]
      BY <1>0, <2>1, FrontProperties
    <3> HIDE DEF r
    <3>2. Distinct(r)
      BY <1>0, <3>1 DEF Distinct
    <3>3. \A n \in 1..Len(r) : n \in 1..Len(cache) /\ r[n] = cache[n]
      BY <1>0, <3>1
    <3>4. \A n \in 1..Len(r) : r[n] # i /\ \E k \in 1..Len(cache) : r[n] = cache[k]
      BY <2>1, <3>3 DEF Contains
    <3>5. Len(r) <= CacheMax - 1
      BY <1>0, <3>1
    <3> QED
      BY <3>1, <3>2, <3>4, <3>5
  <2>2. CASE ~full
    <3>1. r = Without(i)
      BY <2>2
    <3>2. /\ Without(i) \in Seq(Ids) /\ Distinct(Without(i))
          /\ Len(Without(i)) = IF Contains(cache, i) THEN Len(cache) - 1 ELSE Len(cache)
          /\ \A n \in 1..Len(Without(i)) :
               \E k \in 1..Len(cache) : Without(i)[n] = cache[k] /\ cache[k] # i
      BY WithoutProperties
    <3>3. Contains(cache, i) => Len(cache) # 0
      BY <1>0 DEF Contains
    <3>4. Len(Without(i)) <= CacheMax - 1
      BY <1>0, <2>2, <3>2, <3>3
    <3> HIDE DEF r
    <3> QED
      BY <3>1, <3>2, <3>4
  <2> QED
    BY <2>1, <2>2
<1>2. Touch(i) = <<i>> \o r
  BY DEF Touch
<1>3. ASSUME NEW k \in 1..Len(cache), cache[k] # i
      PROVE  \/ \E n \in 1..Len(r) :
                  r[n] = cache[k] /\ \A m \in 1..(n - 1) : \E j \in 1..(k - 1) : r[m] = cache[j]
             \/ Len(r) = CacheMax - 1 /\ \A m \in 1..Len(r) : \E j \in 1..(k - 1) : r[m] = cache[j]
  <2>1. CASE full
    <3>1. /\ r \in Seq(Ids) /\ Len(r) = Len(cache) - 1
          /\ \A n \in 1..(Len(cache) - 1) : r[n] = cache[n]
      BY <1>0, <2>1, FrontProperties
    <3> HIDE DEF r
    <3>2. CASE k = Len(cache)
      BY <1>0, <2>1, <3>1, <3>2
    <3>3. CASE k # Len(cache)
      <4>1. k \in 1..Len(r) /\ r[k] = cache[k] /\ \A m \in 1..(k - 1) : r[m] = cache[m]
        BY <1>0, <3>1, <3>3
      <4> QED
        BY <4>1
    <3> QED
      BY <3>2, <3>3
  <2>2. CASE ~full
    BY <1>3, <2>2, WithoutProperties
  <2> QED
    BY <2>1, <2>2
<1> HIDE DEF r, full
<1> DEFINE t == Touch(i)
<1>4. /\ t \in Seq(Ids) /\ Len(t) = Len(r) + 1 /\ Distinct(t) /\ t[1] = i
      /\ \A n \in 1..Len(r) : t[n + 1] = r[n]
  BY <1>1, <1>2, ConsProperties, SMTT(30)
<1> HIDE DEF t
<1>5. \A m \in 1..Len(t) : m = 1 \/ (m - 1 \in 1..Len(r) /\ t[m] = r[m - 1])
  BY <1>1, <1>4
<1>6. ASSUME NEW k \in 1..Len(cache)
      PROVE  \/ \E n \in 1..Len(t) :
                  /\ t[n] = cache[k]
                  /\ \A m \in 1..(n - 1) : t[m] = i \/ \E j \in 1..(k - 1) : t[m] = cache[j]
             \/ /\ cache[k] # i /\ Len(t) = CacheMax
                /\ \A m \in 1..CacheMax : t[m] = i \/ \E j \in 1..(k - 1) : t[m] = cache[j]
  <2>1. CASE cache[k] = i
    <3>1. 1 \in 1..Len(t) /\ 1..(1 - 1) = {}
      BY <1>1, <1>4
    <3> QED
      BY <1>4, <2>1, <3>1
  <2>2. ASSUME cache[k] # i, NEW n \in 1..Len(r), r[n] = cache[k],
               \A m \in 1..(n - 1) : \E j \in 1..(k - 1) : r[m] = cache[j]
        PROVE  \E q \in 1..Len(t) :
                  /\ t[q] = cache[k]
                  /\ \A m \in 1..(q - 1) : t[m] = i \/ \E j \in 1..(k - 1) : t[m] = cache[j]
    <3>1. n + 1 \in 1..Len(t) /\ t[n + 1] = cache[k]
      BY <1>1, <1>4, <2>2
    <3>2. ASSUME NEW m \in 1..(n + 1 - 1) PROVE t[m] = i \/ \E j \in 1..(k - 1) : t[m] = cache[j]
      <4>1. CASE m = 1
        BY <1>4, <4>1
      <4>2. CASE m # 1
        <5>1. m - 1 \in 1..(n - 1) /\ m \in 1..Len(t)
          BY <1>1, <1>4, <4>2
        <5> QED
          BY <1>5, <2>2, <4>2, <5>1
      <4> QED
        BY <4>1, <4>2
    <3> QED
      BY <3>1, <3>2
  <2>3. ASSUME cache[k] # i, Len(r) = CacheMax - 1,
               \A m \in 1..Len(r) : \E j \in 1..(k - 1) : r[m] = cache[j]
        PROVE  /\ Len(t) = CacheMax
               /\ \A m \in 1..CacheMax : t[m] = i \/ \E j \in 1..(k - 1) : t[m] = cache[j]
    <3>1. Len(t) = CacheMax
      BY <1>4, <2>3
    <3>2. ASSUME NEW m \in 1..CacheMax PROVE t[m] = i \/ \E j \in 1..(k - 1) : t[m] = cache[j]
      <4>1. CASE m = 1
        BY <1>4, <4>1
      <4>2. CASE m # 1
        <5>1. m - 1 \in 1..Len(r) /\ m \in 1..Len(t)
          BY <1>1, <2>3, <3>1, <4>2
        <5> QED
          BY <1>5, <2>3, <4>2, <5>1
      <4> QED
        BY <4>1, <4>2
    <3> QED
      BY <3>1, <3>2
  <2> QED
    BY <1>3, <2>1, <2>2, <2>3
<1>7. \A n \in 1..Len(t) : t[n] = i \/ \E k \in 1..Len(cache) : t[n] = cache[k]
  <2> TAKE n \in 1..Len(t)
  <2>1. n = 1 \/ (n - 1 \in 1..Len(r) /\ t[n] = r[n - 1])
    BY <1>5
  <2> QED
    BY <1>1, <1>4, <2>1
<1>8. Len(t) <= CacheMax /\ Len(t) # 0
  BY <1>1, <1>4
<1> QED
  BY <1>4, <1>6, <1>7, <1>8 DEF t

----------------------------------------------------------------------------
(* Types *)

\* The conjunct of TypeOK about the cache, as the lemmas above use it.
LEMMA TypeCacheOK == TypeOK <=> (TypeOK /\ CacheOK)
BY DistinctIsInjective DEF TypeOK, CacheOK

\* Steps that leave the cache alone keep the rest of TypeOK by their own typing.
LEMMA TypeStep == TypeOK /\ [Next]_vars => TypeOK'
<1> SUFFICES ASSUME TypeOK, [Next]_vars PROVE TypeOK'
  OBVIOUS
<1> USE AdapterAssumption
<1>0. CacheOK
  BY TypeCacheOK
<1>1. ASSUME NEW i \in Ids, Push(i) PROVE TypeOK'
  BY <1>1 DEF TypeOK, Push, hostVars
<1>2. CASE Break
  BY <1>2 DEF TypeOK, Break, hostVars
<1>3. CASE Connect
  BY <1>3 DEF TypeOK, Connect, hostVars
<1>4. CASE ConnectRefused
  BY <1>4 DEF TypeOK, ConnectRefused, hostVars
<1>5. CASE Recv
  <2>1. Head(wire) \in Ids /\ Tail(wire) \in Seq(Ids)
    BY <1>5, HeadTailProperties DEF TypeOK, Recv
  <2> QED
    BY <1>5, <2>1 DEF TypeOK, Recv, hostVars
<1>6. CASE RecvRejected
  <2>1. Tail(wire) \in Seq(Ids)
    BY <1>6, HeadTailProperties DEF TypeOK, RecvRejected
  <2> QED
    BY <1>6, <2>1 DEF TypeOK, RecvRejected, hostVars
<1>7. CASE RecvFails
  BY <1>7 DEF TypeOK, RecvFails, hostVars
<1>8. CASE Surface
  <2>1. hand \in Ids
    BY DEF TypeOK
  <2>2. cache' \in Seq(Ids) /\ Len(cache') <= CacheMax /\ Distinct(cache')
    BY <1>0, <1>8, <2>1, TouchProperties DEF Surface
  <2>3. IsInjective(cache')
    BY <2>2, DistinctIsInjective
  <2>4. [id |-> hand, how |-> "dup"] \in Surfacings
    BY <2>1 DEF Surfacings
  <2>5. log' \in Seq(Surfacings) /\ pc' \in {"ack", "handle"}
    <3>1. log \in Seq(Surfacings)
      BY DEF TypeOK
    <3>2. CASE Contains(cache, hand)
      BY <1>8, <2>4, <3>1, <3>2 DEF Surface
    <3>3. CASE ~Contains(cache, hand)
      BY <1>8, <3>1, <3>3 DEF Surface
    <3> QED
      BY <3>2, <3>3
  <2> QED
    BY <1>8, <2>2, <2>3, <2>5 DEF TypeOK, Surface, hostVars
<1>9. CASE Handle
  <2>1. [id |-> hand, how |-> "consumed"] \in Surfacings
    BY DEF TypeOK, Surfacings
  <2> QED
    BY <1>9, <2>1 DEF TypeOK, Handle
<1>10. CASE HandleFails
  <2>1. [id |-> hand, how |-> "failed"] \in Surfacings
    BY DEF TypeOK, Surfacings
  <2>2. cache' \in Seq(Ids) /\ Distinct(cache')
        /\ Len(cache') = IF Contains(cache, hand) THEN Len(cache) - 1 ELSE Len(cache)
    BY <1>0, <1>10, WithoutProperties DEF HandleFails, Forget
  <2>3. Len(cache') <= CacheMax
    BY <1>0, <2>2 DEF CacheOK
  <2>4. IsInjective(cache')
    BY <2>2, DistinctIsInjective
  <2> QED
    BY <1>10, <2>1, <2>2, <2>3, <2>4 DEF TypeOK, HandleFails, hostVars
<1>11. CASE Ack
  BY <1>11 DEF TypeOK, Ack, hostVars
<1>12. CASE Drain
  <2>1. ToSet(pending) \subseteq Ids
    BY ElementOfSeq DEF TypeOK, ToSet
  <2> QED
    BY <1>12, <2>1 DEF TypeOK, Drain, loopVars
<1>13. CASE Restart
  BY <1>13 DEF TypeOK, Restart, Fresh, IsInjective
<1>14. CASE UNCHANGED vars
  BY <1>14 DEF TypeOK, vars, loopVars, hostVars
<1> QED
  BY <1>1, <1>2, <1>3, <1>4, <1>5, <1>6, <1>7, <1>8, <1>9, <1>10, <1>11, <1>12, <1>13, <1>14
  DEF Next

\* Every variable keeps its type, whatever the connection, the handler and the host do:
\* the cache holds at most CacheMax ids and none twice, after any hits and evictions.
THEOREM TypeInvariant == Spec => []TypeOK
<1>1. Init => TypeOK
  BY AdapterAssumption DEF Init, Fresh, TypeOK, IsInjective
<1> QED
  BY <1>1, TypeStep, PTL DEF Spec
----------------------------------------------------------------------------
(* Suppressed only what was consumed *)

\* A surfacing appended to the log leaves the earlier ones where they were.
LEMMA LogAppend ==
  ASSUME TypeOK, NEW h \in {"dup", "consumed", "failed"},
         log' = Append(log, [id |-> hand, how |-> h])
  PROVE  /\ Len(log) \in Nat /\ Len(log') = Len(log) + 1
         /\ \A p \in 1..Len(log) : log'[p] = log[p]
         /\ log'[Len(log) + 1].id = hand /\ log'[Len(log) + 1].how = h
<1>1. log \in Seq(Surfacings) /\ [id |-> hand, how |-> h] \in Surfacings
  BY DEF TypeOK, Surfacings
<1>2. PICK x \in Surfacings : x = [id |-> hand, how |-> h] /\ x.id = hand /\ x.how = h
  BY <1>1
<1>3. log' = Append(log, x)
  BY <1>2
<1>4. Len(log) \in Nat /\ Len(log') = Len(log) + 1 /\ log'[Len(log) + 1] = x
      /\ \A p \in 1..Len(log) : log'[p] = log[p]
  BY <1>1, <1>3, AppendProperties
<1> QED
  BY <1>2, <1>4

\* The log has a consumption of id i at a place in P.
ConsumedAt(i, P) == \E p \in P : log[p].id = i /\ log[p].how = "consumed"

\* Whatever the cache remembers was consumed, except the id the handler is working on.
CacheInv ==
  \A n \in 1..Len(cache) :
    (pc = "handle" /\ cache[n] = hand) \/ ConsumedAt(cache[n], 1..Len(log))

\* CacheInv is what makes SuppressedWasConsumed inductive.
LEMMA SuppressedStep ==
  TypeOK /\ CacheInv /\ SuppressedWasConsumed /\ [Next]_vars => CacheInv' /\ SuppressedWasConsumed'
<1> SUFFICES ASSUME TypeOK, CacheInv, SuppressedWasConsumed, [Next]_vars
             PROVE  CacheInv' /\ SuppressedWasConsumed'
  OBVIOUS
<1>0. CacheOK /\ hand \in Ids /\ CacheMax \in Nat \ {0} /\ Len(log) \in Nat
  BY TypeCacheOK, AdapterAssumption DEF TypeOK
<1>1. ASSUME UNCHANGED <<cache, log>>, pc # "handle" \/ UNCHANGED <<pc, hand>>
      PROVE  CacheInv' /\ SuppressedWasConsumed'
  BY <1>1 DEF CacheInv, ConsumedAt, SuppressedWasConsumed
<1>2. ASSUME NEW h \in {"dup", "consumed", "failed"},
             log' = Append(log, [id |-> hand, how |-> h]),
             h = "dup" => ConsumedAt(hand, 1..Len(log))
      PROVE  /\ SuppressedWasConsumed'
             /\ \A i : ConsumedAt(i, 1..Len(log)) => ConsumedAt(i, 1..Len(log))'
             /\ h = "consumed" => \A i : i = hand => ConsumedAt(i, 1..Len(log))'
  <2>1. /\ Len(log) \in Nat /\ Len(log') = Len(log) + 1
        /\ \A p \in 1..Len(log) : log'[p] = log[p]
        /\ log'[Len(log) + 1].id = hand /\ log'[Len(log) + 1].how = h
    BY <1>2, LogAppend
  <2>2. ASSUME NEW q \in 1..Len(log'), log'[q].how = "dup"
        PROVE  \E p \in 1..(q - 1) : log'[p].id = log'[q].id /\ log'[p].how = "consumed"
    <3>1. CASE q = Len(log) + 1
      <4>1. PICK p \in 1..Len(log) : log[p].id = hand /\ log[p].how = "consumed"
        BY <1>2, <2>1, <2>2, <3>1 DEF ConsumedAt
      <4> QED
        BY <2>1, <3>1, <4>1
    <3>2. CASE q # Len(log) + 1
      <4>1. q \in 1..Len(log) /\ log[q].how = "dup"
        BY <2>1, <2>2, <3>2
      <4>2. PICK p \in 1..(q - 1) : log[p].id = log[q].id /\ log[p].how = "consumed"
        BY <4>1 DEF SuppressedWasConsumed
      <4>3. p \in 1..Len(log)
        BY <2>1, <4>1
      <4> QED
        BY <2>1, <4>1, <4>2, <4>3
    <3> QED
      BY <3>1, <3>2
  <2>3. SuppressedWasConsumed'
    BY <2>2 DEF SuppressedWasConsumed
  <2>4. \A p \in 1..Len(log) : p \in 1..Len(log')
    BY <2>1
  <2>5. Len(log) + 1 \in 1..Len(log')
    BY <2>1
  <2> QED
    BY <2>1, <2>3, <2>4, <2>5 DEF ConsumedAt
<1>3. ASSUME NEW i \in Ids, Push(i) PROVE CacheInv' /\ SuppressedWasConsumed'
  BY <1>1, <1>3 DEF Push
<1>4. CASE Break
  BY <1>1, <1>4 DEF Break
<1>5. CASE Connect \/ ConnectRefused \/ Recv \/ RecvRejected \/ RecvFails \/ Ack
  BY <1>1, <1>5 DEF Connect, ConnectRefused, Recv, RecvRejected, RecvFails, Ack
<1>6. CASE Surface
  <2>1. \A n \in 1..Len(cache') : cache'[n] = hand \/ \E k \in 1..Len(cache) : cache'[n] = cache[k]
    BY <1>0, <1>6, TouchProperties DEF Surface
  <2>2. \A k \in 1..Len(cache) : ConsumedAt(cache[k], 1..Len(log))
    BY <1>6 DEF Surface, CacheInv
  <2>3. CASE Contains(cache, hand)
    <3>1. ConsumedAt(hand, 1..Len(log))
      BY <2>2, <2>3 DEF Contains
    <3>2. log' = Append(log, [id |-> hand, how |-> "dup"])
      BY <1>6, <2>3 DEF Surface
    <3>3. /\ SuppressedWasConsumed'
          /\ \A i : ConsumedAt(i, 1..Len(log)) => ConsumedAt(i, 1..Len(log))'
      BY <1>2, <3>1, <3>2
    <3>4. \A n \in 1..Len(cache') : ConsumedAt(cache'[n], 1..Len(log))
      BY <2>1, <2>2, <3>1
    <3>5. CacheInv'
      BY <3>3, <3>4 DEF CacheInv
    <3> QED
      BY <3>3, <3>5
  <2>4. CASE ~Contains(cache, hand)
    <3>1. pc' = "handle" /\ UNCHANGED <<log, hand>>
      BY <1>6, <2>4 DEF Surface
    <3>2. SuppressedWasConsumed'
      BY <3>1 DEF SuppressedWasConsumed
    <3>3. \A i : ConsumedAt(i, 1..Len(log)) => ConsumedAt(i, 1..Len(log))'
      BY <3>1 DEF ConsumedAt
    <3>4. CacheInv'
      BY <2>1, <2>2, <3>1, <3>3 DEF CacheInv
    <3> QED
      BY <3>2, <3>4
  <2> QED
    BY <2>3, <2>4
<1>7. CASE Handle
  <2>1. /\ SuppressedWasConsumed'
        /\ \A i : ConsumedAt(i, 1..Len(log)) => ConsumedAt(i, 1..Len(log))'
        /\ \A i : i = hand => ConsumedAt(i, 1..Len(log))'
    <3>1. log' = Append(log, [id |-> hand, how |-> "consumed"])
      BY <1>7 DEF Handle
    <3> QED
      BY <1>2, <3>1
  <2>2. CacheInv'
    BY <1>7, <2>1 DEF CacheInv, Handle
  <2> QED
    BY <2>1, <2>2
<1>8. CASE HandleFails
  <2>1. /\ SuppressedWasConsumed'
        /\ \A i : ConsumedAt(i, 1..Len(log)) => ConsumedAt(i, 1..Len(log))'
    <3>1. log' = Append(log, [id |-> hand, how |-> "failed"])
      BY <1>8 DEF HandleFails
    <3> QED
      BY <1>2, <3>1
  <2>2. \A n \in 1..Len(cache') :
          \E k \in 1..Len(cache) : cache'[n] = cache[k] /\ cache[k] # hand
    <3>1. \A n \in 1..Len(Without(hand)) :
            \E k \in 1..Len(cache) : Without(hand)[n] = cache[k] /\ cache[k] # hand
      BY <1>0, WithoutProperties
    <3>2. cache' = Without(hand)
      BY <1>8 DEF HandleFails, Forget
    <3> QED
      BY <3>1, <3>2
  <2>3. CacheInv'
    BY <2>1, <2>2 DEF CacheInv
  <2> QED
    BY <2>1, <2>3
<1>9. CASE Drain
  BY <1>1, <1>9 DEF Drain, loopVars
<1>10. CASE Restart
  <2>1. Len(cache') = 0 /\ Len(log') = 0
    BY <1>10 DEF Restart, Fresh
  <2> QED
    BY <2>1 DEF CacheInv, SuppressedWasConsumed
<1>11. CASE UNCHANGED vars
  BY <1>1, <1>11 DEF vars, loopVars
<1> QED
  BY <1>3, <1>4, <1>5, <1>6, <1>7, <1>8, <1>9, <1>10, <1>11 DEF Next

\* No message is acked unread: for any cache size and any run of failures, restarts and
\* redeliveries, surface suppresses only what this process's handler consumed.
THEOREM SuppressedIsConsumed == Spec => []SuppressedWasConsumed
<1>1. Init => CacheInv /\ SuppressedWasConsumed
  <2> SUFFICES ASSUME Init PROVE CacheInv /\ SuppressedWasConsumed
    OBVIOUS
  <2>1. Len(cache) = 0 /\ Len(log) = 0
    BY DEF Init, Fresh
  <2> QED
    BY <2>1 DEF CacheInv, SuppressedWasConsumed
<1> QED
  BY <1>1, SuppressedStep, TypeInvariant, PTL DEF Spec
----------------------------------------------------------------------------
(* The host sees what was consumed *)

\* The consumptions are finitely many, and ranks number them.
LEMMA RankBounds ==
  ASSUME TypeOK
  PROVE  /\ IsFiniteSet(Consumed) /\ Cardinality(Consumed) \in Nat
         /\ \A p \in Consumed : Rank(p) \in 1..Cardinality(Consumed)
<1>0. Len(log) \in Nat
  BY DEF TypeOK
<1>1. IsFiniteSet(1..Len(log))
  BY <1>0, FS_Interval
<1>2. Consumed \in SUBSET (1..Len(log))
  BY DEF Consumed
<1>3. IsFiniteSet(Consumed) /\ Cardinality(Consumed) \in Nat
  BY <1>1, <1>2, FS_Subset, FS_CardinalityType
<1>4. ASSUME NEW p \in Consumed PROVE Rank(p) \in 1..Cardinality(Consumed)
  <2> DEFINE U == {r \in Consumed : r <= p}
  <2>1. U \in SUBSET Consumed /\ p \in U
    BY <1>0, <1>2
  <2>2. Rank(p) = Cardinality(U)
    BY DEF Rank
  <2> HIDE DEF U
  <2>3. IsFiniteSet(U) /\ Cardinality(U) <= Cardinality(Consumed)
    BY <1>3, <2>1, FS_Subset
  <2>4. Cardinality(U) \in Nat /\ Cardinality(U) # 0
    BY <2>1, <2>3, FS_EmptySet, FS_CardinalityType
  <2> QED
    BY <1>3, <2>2, <2>3, <2>4
<1> QED
  BY <1>3, <1>4

\* HostSeesConsumed is inductive with the types: a consumption takes the next rank and
\* the next place in the buffer, and bus.drain moves the buffer as it is.
LEMMA HostStep == TypeOK /\ HostSeesConsumed /\ [Next]_vars => HostSeesConsumed'
<1> SUFFICES ASSUME TypeOK, HostSeesConsumed, [Next]_vars PROVE HostSeesConsumed'
  OBVIOUS
<1>0. Len(log) \in Nat /\ host \in Seq(Ids) /\ pending \in Seq(Ids) /\ hand \in Ids
  BY DEF TypeOK
<1>1. ASSUME log' = log, host' \o pending' = host \o pending PROVE HostSeesConsumed'
  BY <1>1 DEF HostSeesConsumed, Consumed, Rank
<1>2. ASSUME NEW h \in {"dup", "failed"}, log' = Append(log, [id |-> hand, how |-> h]),
             UNCHANGED <<host, pending>>
      PROVE  HostSeesConsumed'
  <2>1. /\ Len(log') = Len(log) + 1 /\ \A p \in 1..Len(log) : log'[p] = log[p]
        /\ log'[Len(log) + 1].how = h
    BY <1>2, LogAppend
  <2>2. Consumed' = Consumed
    BY <1>0, <2>1 DEF Consumed
  <2>3. \A p \in Consumed : log'[p] = log[p] /\ Rank(p)' = Rank(p)
    BY <2>1, <2>2 DEF Rank, Consumed
  <2> QED
    BY <1>2, <2>2, <2>3 DEF HostSeesConsumed
<1>3. ASSUME NEW i \in Ids, Push(i) PROVE HostSeesConsumed'
  BY <1>1, <1>3 DEF Push, hostVars
<1>4. CASE Break \/ Connect \/ ConnectRefused \/ Recv \/ RecvRejected \/ RecvFails \/ Ack
  BY <1>1, <1>4 DEF Break, Connect, ConnectRefused, Recv, RecvRejected, RecvFails, Ack, hostVars
<1>5. CASE Surface
  <2>1. CASE Contains(cache, hand)
    <3>1. log' = Append(log, [id |-> hand, how |-> "dup"]) /\ UNCHANGED <<host, pending>>
      BY <1>5, <2>1 DEF Surface, hostVars
    <3> QED
      BY <1>2, <3>1
  <2>2. CASE ~Contains(cache, hand)
    BY <1>1, <1>5, <2>2 DEF Surface, hostVars
  <2> QED
    BY <2>1, <2>2
<1>6. CASE HandleFails
  <2>1. log' = Append(log, [id |-> hand, how |-> "failed"]) /\ UNCHANGED <<host, pending>>
    BY <1>6 DEF HandleFails, hostVars
  <2> QED
    BY <1>2, <2>1
<1>7. CASE Handle
  <2>1. /\ Len(log') = Len(log) + 1 /\ \A p \in 1..Len(log) : log'[p] = log[p]
        /\ log'[Len(log) + 1].how = "consumed" /\ log'[Len(log) + 1].id = hand
    BY <1>7, LogAppend DEF Handle
  <2>2. Consumed' = Consumed \cup {Len(log) + 1} /\ Len(log) + 1 \notin Consumed
    BY <1>0, <2>1 DEF Consumed
  <2>3. Cardinality(Consumed') = Cardinality(Consumed) + 1 /\ Cardinality(Consumed) \in Nat
    BY <2>2, RankBounds, FS_AddElement
  <2>4. \A p \in Consumed : Rank(p)' = Rank(p) /\ Rank(p) \in 1..Cardinality(Consumed)
    <3> TAKE p \in Consumed
    <3>1. p \in 1..Len(log)
      BY DEF Consumed
    <3>2. {r \in Consumed' : r <= p} = {r \in Consumed : r <= p}
      BY <1>0, <2>2, <3>1
    <3> QED
      BY <3>2, RankBounds DEF Rank
  <2>5. ASSUME NEW p, p = Len(log) + 1 PROVE Rank(p)' = Cardinality(Consumed) + 1
    <3>1. \A r \in Consumed : r \in 1..Len(log)
      BY DEF Consumed
    <3>2. {r \in Consumed' : r <= p} = Consumed'
      BY <1>0, <2>2, <2>5, <3>1
    <3> QED
      BY <2>3, <3>2 DEF Rank
  <2>6. host' \o pending' = Append(host \o pending, hand)
    BY <1>0, <1>7 DEF Handle
  <2> DEFINE b == host \o pending
             N == Cardinality(Consumed)
  <2>7. b \in Seq(Ids) /\ Len(b) = N /\ \A p \in Consumed : b[Rank(p)] = log[p].id
    <3>1. b \in Seq(Ids)
      BY <1>0, ConcatProperties
    <3>2. Len(b) = N /\ \A p \in Consumed : b[Rank(p)] = log[p].id
      BY Zenon DEF HostSeesConsumed
    <3> QED
      BY <3>1, <3>2
  <2>8. host' \o pending' = Append(b, hand)
    BY <2>6
  <2> HIDE DEF b
  <2>9. /\ Len(Append(b, hand)) = N + 1 /\ Append(b, hand)[N + 1] = hand
         /\ \A n \in 1..N : Append(b, hand)[n] = b[n]
    BY <1>0, <2>7, AppendProperties
  <2>10. ASSUME NEW p \in Consumed' PROVE Append(b, hand)[Rank(p)'] = log'[p].id
    <3>1. CASE p = Len(log) + 1
      BY <2>1, <2>5, <2>9, <3>1
    <3>2. CASE p \in Consumed
      <4>1. p \in 1..Len(log)
        BY <3>2 DEF Consumed
      <4> QED
        BY <2>1, <2>4, <2>7, <2>9, <3>2, <4>1
    <3> QED
      BY <2>2, <3>1, <3>2
  <2> QED
    BY <2>3, <2>8, <2>9, <2>10 DEF HostSeesConsumed
<1>8. CASE Drain
  <2>1. host' \o pending' = host \o pending /\ log' = log
    <3>1. (host \o pending) \o <<>> = host \o pending
      BY <1>0
    <3> QED
      BY <1>8, <3>1 DEF Drain
  <2> QED
    BY <1>1, <2>1
<1>9. CASE Restart
  <2>1. host' = <<>> /\ pending' = <<>> /\ log' = <<>>
    BY <1>9 DEF Restart, Fresh
  <2>2. Consumed' = {} /\ host' \o pending' = <<>>
    BY <2>1 DEF Consumed
  <2> QED
    BY <2>2, FS_EmptySet DEF HostSeesConsumed
<1>10. CASE UNCHANGED vars
  BY <1>1, <1>10 DEF vars, hostVars
<1> QED
  BY <1>3, <1>4, <1>5, <1>6, <1>7, <1>8, <1>9, <1>10 DEF Next

\* The buffer between the resume loop and bus.drain neither loses, repeats nor reorders
\* a consumed message, however the two goroutines interleave.
THEOREM HostSeesWhatWasConsumed == Spec => []HostSeesConsumed
<1>1. Init => HostSeesConsumed
  <2> SUFFICES ASSUME Init PROVE HostSeesConsumed
    OBVIOUS
  <2>1. host = <<>> /\ pending = <<>> /\ log = <<>>
    BY DEF Init, Fresh
  <2>2. Consumed = {} /\ host \o pending = <<>>
    BY <2>1 DEF Consumed
  <2> QED
    BY <2>2, FS_EmptySet DEF HostSeesConsumed
<1> QED
  BY <1>1, HostStep, TypeInvariant, PTL DEF Spec
----------------------------------------------------------------------------
(* Repeats only of what was evicted *)

\* The ids of a stretch of a log are finitely many.
LEMMA IdsFinite ==
  ASSUME NEW g, NEW a \in Int, NEW b \in Int PROVE IsFiniteSet({g[r].id : r \in a..b})
<1> DEFINE T == {g[r].id : r \in a..b}
           f == [r \in a..b |-> g[r].id]
<1>1. f \in Surjection(a..b, T)
  BY DEF Surjection
<1>2. IsFiniteSet(a..b)
  BY FS_Interval
<1> QED
  BY <1>1, <1>2, FS_Surjection

\* A set that holds every element of a sequence without repeats has as many at least.
LEMMA DistinctCounts ==
  ASSUME NEW T, IsFiniteSet(T), NEW s, Distinct(s), Len(s) \in Nat, \A m \in 1..Len(s) : s[m] \in T
  PROVE  Cardinality(T) >= Len(s)
<1> DEFINE f == [m \in 1..Len(s) |-> s[m]]
<1>1. f \in Injection(1..Len(s), T)
  BY DEF Injection, IsInjective, Distinct
<1>2. Cardinality(1..Len(s)) = Len(s)
  <2>1. PICK k \in Nat : k = Len(s)
    OBVIOUS
  <2>2. Cardinality(1..k) = k
    BY FS_Interval
  <2> QED
    BY <2>1, <2>2
<1>3. Cardinality(1..Len(s)) <= Cardinality(T) /\ Cardinality(T) \in Nat
  BY <1>1, FS_Injection, FS_CardinalityType
<1> QED
  BY <1>2, <1>3

\* The id in the handler's hands; what came after place p of the log, and what of it is
\* another id than the one at p.
InFlight == IF pc = "handle" THEN {hand} ELSE {}
After(p) == {log[r].id : r \in (p + 1)..Len(log)} \cup InFlight
Met(p) == After(p) \ {log[p].id}

\* The id at p is still cached, and only what came after p is in front of it.
Kept(p) ==
  \E n \in 1..Len(cache) :
    cache[n] = log[p].id /\ \A m \in 1..(n - 1) : cache[m] \in After(p)

\* Unless CacheMax others came since, the cache still has the id, so that it cannot be
\* in the handler's hands again.
Remembers(p) ==
  \/ Cardinality(Met(p)) >= CacheMax
  \/ log[p].id \notin InFlight /\ Kept(p)

RecencyInv ==
  /\ pc = "handle" => Len(cache) # 0 /\ cache[1] = hand
  /\ \A p \in 1..Len(log) : log[p].how # "failed" => Remembers(p)

\* Met is finite.
LEMMA MetFinite ==
  ASSUME TypeOK', NEW p \in Nat PROVE IsFiniteSet(Met(p)')
<1>1. IsFiniteSet({log'[r].id : r \in (p + 1)..Len(log')})
  <2>1. p + 1 \in Int /\ Len(log') \in Int
    BY DEF TypeOK
  <2>2. PICK a \in Int, b \in Int : a = p + 1 /\ b = Len(log')
    BY <2>1
  <2>3. IsFiniteSet({log'[r].id : r \in a..b})
    BY IdsFinite
  <2> QED
    BY <2>2, <2>3
<1>2. IsFiniteSet(InFlight')
  BY FS_EmptySet, FS_Singleton DEF InFlight
<1>3. IsFiniteSet(After(p)')
  BY <1>1, <1>2, FS_Union DEF After
<1> QED
  BY <1>3, FS_Difference DEF Met

\* It only grows while After does.
LEMMA MetGrows ==
  ASSUME TypeOK', NEW p \in Nat, log'[p].id = log[p].id,
         After(p) \subseteq After(p)', Cardinality(Met(p)) >= CacheMax
  PROVE  Cardinality(Met(p)') >= CacheMax
<1>1. IsFiniteSet(Met(p)')
  BY MetFinite
<1>2. Met(p) \in SUBSET Met(p)'
  BY DEF Met
<1>3. IsFiniteSet(Met(p)) /\ Cardinality(Met(p)) <= Cardinality(Met(p)')
  BY <1>1, <1>2, FS_Subset
<1>4. Cardinality(Met(p)') \in Nat /\ Cardinality(Met(p)) \in Nat /\ CacheMax \in Nat
  BY <1>1, <1>3, FS_CardinalityType, AdapterAssumption
<1> QED
  BY <1>3, <1>4

\* Seen keeps what the cache remembers of the past: the id that comes in moves in front
\* of the others, and one that falls off the end has CacheMax others in front of it.
LEMMA SurfaceRemembers ==
  ASSUME TypeOK, TypeOK', pc # "handle", hand \in Ids, cache' = Touch(hand),
         NEW p \in Nat, log'[p].id = log[p].id, After(p)' = After(p) \cup {hand},
         Remembers(p),
         \/ InFlight' = {}
         \/ InFlight' = {hand} /\ ~Contains(cache, hand)
  PROVE  Remembers(p)'
<1>0. CacheOK /\ Distinct(cache) /\ CacheMax \in Nat \ {0} /\ Len(cache) \in Nat
  BY TypeCacheOK, AdapterAssumption DEF CacheOK
<1>1. CASE Cardinality(Met(p)) >= CacheMax
  BY <1>1, MetGrows DEF Remembers
<1>2. CASE Kept(p)
  <2>1. PICK k \in 1..Len(cache) :
          cache[k] = log[p].id /\ \A m \in 1..(k - 1) : cache[m] \in After(p)
    BY <1>2 DEF Kept
  <2>2. log'[p].id \notin InFlight'
    BY <2>1 DEF Contains
  <2> DEFINE t == Touch(hand)
  <2>3. /\ t \in Seq(Ids) /\ Distinct(t)
        /\ \/ \E n \in 1..Len(t) :
                /\ t[n] = cache[k]
                /\ \A m \in 1..(n - 1) :
                     t[m] = hand \/ \E j \in 1..(k - 1) : t[m] = cache[j]
           \/ /\ cache[k] # hand /\ Len(t) = CacheMax
              /\ \A m \in 1..CacheMax : t[m] = hand \/ \E j \in 1..(k - 1) : t[m] = cache[j]
    BY <1>0, TouchProperties, ZenonT(60)
  <2>4. cache' = t
    OBVIOUS
  <2> HIDE DEF t
  <2>5. ASSUME NEW n \in 1..Len(t), t[n] = cache[k],
               \A m \in 1..(n - 1) : t[m] = hand \/ \E j \in 1..(k - 1) : t[m] = cache[j]
        PROVE  Kept(p)'
    <3>1. \A m \in 1..(n - 1) : t[m] \in After(p)'
      BY <2>1, <2>5
    <3>2. t[n] = log'[p].id
      BY <2>1, <2>5
    <3> QED
      BY <2>4, <3>1, <3>2 DEF Kept
  <2>6. ASSUME cache[k] # hand, Len(t) = CacheMax,
               \A m \in 1..CacheMax : t[m] = hand \/ \E j \in 1..(k - 1) : t[m] = cache[j]
        PROVE  Cardinality(Met(p)') >= CacheMax
    <3>1. \A j \in 1..(k - 1) : j \in 1..Len(cache) /\ cache[j] # cache[k]
      <4> TAKE j \in 1..(k - 1)
      <4>1. j \in 1..Len(cache) /\ j # k
        BY <1>0, <2>1
      <4> QED
        BY <1>0, <4>1 DEF Distinct
    <3>2. \A m \in 1..Len(t) : t[m] \in After(p)' /\ t[m] # log'[p].id
      BY <2>1, <2>6, <3>1
    <3>3. \A m \in 1..Len(t) : t[m] \in Met(p)'
      BY <3>2 DEF Met
    <3>4. IsFiniteSet(Met(p)')
      BY MetFinite
    <3>5. Len(t) \in Nat
      BY <2>3
    <3> QED
      BY <2>3, <2>6, <3>3, <3>4, <3>5, DistinctCounts
  <2> QED
    BY <2>2, <2>3, <2>5, <2>6 DEF Remembers
<1> QED
  BY <1>1, <1>2 DEF Remembers

\* The step: RecencyInv is inductive, and it is what makes RepeatsOnlyEvicted so.
LEMMA RepeatsStep ==
  TypeOK /\ RecencyInv /\ RepeatsOnlyEvicted /\ [Next]_vars => RecencyInv' /\ RepeatsOnlyEvicted'
<1> SUFFICES ASSUME TypeOK, RecencyInv, RepeatsOnlyEvicted, [Next]_vars
             PROVE  RecencyInv' /\ RepeatsOnlyEvicted'
  OBVIOUS
<1>0. TypeOK' /\ CacheOK /\ hand \in Ids /\ CacheMax \in Nat \ {0} /\ Len(log) \in Nat
      /\ cache \in Seq(Ids) /\ Len(cache) \in Nat
  BY TypeStep, TypeCacheOK, AdapterAssumption, SMTT(30) DEF TypeOK
<1>1. ASSUME cache' = cache, log' = log,
             (pc' = pc /\ hand' = hand) \/ (pc # "handle" /\ pc' # "handle")
      PROVE  RecencyInv' /\ RepeatsOnlyEvicted'
  <2>1. InFlight' = InFlight
    BY <1>1 DEF InFlight
  <2>2. \A p : After(p)' = After(p)
    BY <1>1, <2>1 DEF After
  <2>3. \A p : Remembers(p) => Remembers(p)'
    BY <1>1, <2>1, <2>2 DEF Remembers, Met, Kept
  <2>4. RecencyInv'
    BY <1>1, <2>3 DEF RecencyInv
  <2>5. RepeatsOnlyEvicted'
    BY <1>1 DEF RepeatsOnlyEvicted
  <2> QED
    BY <2>4, <2>5
<1>2. ASSUME NEW h \in {"dup", "consumed", "failed"},
             log' = Append(log, [id |-> hand, how |-> h]), pc' # "handle",
             h # "dup" => pc = "handle"
      PROVE  /\ Len(log') = Len(log) + 1
             /\ \A p \in 1..Len(log) : log'[p] = log[p]
             /\ log'[Len(log) + 1].id = hand /\ log'[Len(log) + 1].how = h
             /\ InFlight' = {}
             /\ \A p \in 1..Len(log) : After(p)' = After(p) \cup {hand}
             /\ RepeatsOnlyEvicted'
  <2>1. /\ Len(log') = Len(log) + 1 /\ \A p \in 1..Len(log) : log'[p] = log[p]
        /\ log'[Len(log) + 1].id = hand /\ log'[Len(log) + 1].how = h
    BY <1>2, LogAppend
  <2>2. InFlight' = {} /\ InFlight \subseteq {hand}
    BY <1>2 DEF InFlight
  <2>3. ASSUME NEW p \in 1..Len(log)
        PROVE  {log'[r].id : r \in (p + 1)..Len(log)} = {log[r].id : r \in (p + 1)..Len(log)}
    <3>1. \A r \in (p + 1)..Len(log) : r \in 1..Len(log)
      BY <1>0
    <3> QED
      BY <2>1, <3>1
  <2>4. ASSUME NEW p \in 1..Len(log) PROVE After(p)' = After(p) \cup {hand}
    <3>1. (p + 1)..Len(log') = (p + 1)..Len(log) \cup {Len(log) + 1}
      BY <1>0, <2>1
    <3>2. {log'[r].id : r \in (p + 1)..Len(log')}
            = {log'[r].id : r \in (p + 1)..Len(log)} \cup {hand}
      BY <2>1, <3>1
    <3> QED
      BY <2>2, <2>3, <3>2 DEF After
  <2>5. ASSUME NEW p \in 1..Len(log'), NEW q \in 1..Len(log'), p < q, log'[p].id = log'[q].id,
               log'[p].how # "failed", log'[q].how # "dup"
        PROVE  Cardinality({log'[r].id : r \in (p + 1)..(q - 1)} \ {log'[p].id}) >= CacheMax
    <3>1. p \in 1..Len(log) /\ log'[p] = log[p]
      BY <1>0, <2>1, <2>5
    <3>2. CASE q = Len(log) + 1
      <4>1. pc = "handle" /\ log[p].id = hand /\ q - 1 = Len(log)
        BY <1>0, <1>2, <2>1, <2>5, <3>1, <3>2
      <4>2. InFlight = {hand}
        BY <4>1 DEF InFlight
      <4>3. Cardinality(Met(p)) >= CacheMax
        BY <2>5, <3>1, <4>1, <4>2 DEF RecencyInv, Remembers
      <4>4. Met(p) = {log[r].id : r \in (p + 1)..Len(log)} \ {log[p].id}
        BY <4>1, <4>2 DEF Met, After
      <4> QED
        BY <2>3, <3>1, <4>1, <4>3, <4>4
    <3>3. CASE q # Len(log) + 1
      <4>1. q \in 1..Len(log) /\ log'[q] = log[q]
        BY <1>0, <2>1, <3>3
      <4>2. \A r \in (p + 1)..(q - 1) : log'[r] = log[r]
        BY <1>0, <2>1, <3>1, <4>1
      <4>3. {log'[r].id : r \in (p + 1)..(q - 1)} = {log[r].id : r \in (p + 1)..(q - 1)}
        BY <4>2
      <4> QED
        BY <2>5, <3>1, <4>1, <4>3 DEF RepeatsOnlyEvicted
    <3> QED
      BY <3>2, <3>3
  <2>6. RepeatsOnlyEvicted'
    BY <2>5 DEF RepeatsOnlyEvicted
  <2> QED
    BY <2>1, <2>2, <2>4, <2>6
<1>3. ASSUME NEW i \in Ids, Push(i) PROVE RecencyInv' /\ RepeatsOnlyEvicted'
  BY <1>1, <1>3 DEF Push
<1>4. CASE Break \/ Connect \/ ConnectRefused \/ Recv \/ RecvRejected \/ RecvFails \/ Ack
  BY <1>1, <1>4 DEF Break, Connect, ConnectRefused, Recv, RecvRejected, RecvFails, Ack
<1>5. CASE Surface
  <2>1. pc # "handle" /\ cache' = Touch(hand) /\ hand' = hand
    BY <1>5 DEF Surface
  <2>2. Len(cache') # 0 /\ cache'[1] = hand
    BY <1>0, <2>1, TouchProperties
  <2>3. CASE Contains(cache, hand)
    <3>1. log' = Append(log, [id |-> hand, how |-> "dup"]) /\ pc' # "handle"
      BY <1>5, <2>3 DEF Surface
    <3>2. /\ Len(log') = Len(log) + 1
          /\ \A p \in 1..Len(log) : log'[p] = log[p]
          /\ log'[Len(log) + 1].id = hand
          /\ InFlight' = {}
          /\ \A p \in 1..Len(log) : After(p)' = After(p) \cup {hand}
          /\ RepeatsOnlyEvicted'
      BY <1>2, <3>1
    <3>3. ASSUME NEW p \in 1..Len(log'), log'[p].how # "failed" PROVE Remembers(p)'
      <4>1. CASE p = Len(log) + 1
        <5>1. 1 \in 1..Len(cache') /\ 1..(1 - 1) = {}
          BY <1>0, <2>2 DEF TypeOK
        <5>2. Kept(p)'
          BY <2>2, <3>2, <4>1, <5>1 DEF Kept
        <5> QED
          BY <3>2, <5>2 DEF Remembers
      <4>2. CASE p # Len(log) + 1
        <5>1. p \in 1..Len(log) /\ p \in Nat /\ log'[p] = log[p]
          BY <1>0, <3>2, <4>2
        <5>2. Remembers(p)
          BY <3>3, <5>1 DEF RecencyInv
        <5> QED
          BY <1>0, <2>1, <3>2, <5>1, <5>2, SurfaceRemembers
      <4> QED
        BY <4>1, <4>2
    <3>4. RecencyInv'
      BY <2>1, <2>2, <3>3 DEF RecencyInv
    <3> QED
      BY <3>2, <3>4
  <2>4. CASE ~Contains(cache, hand)
    <3>1. log' = log /\ pc' = "handle"
      BY <1>5, <2>4 DEF Surface
    <3>2. InFlight' = {hand} /\ InFlight = {}
      BY <2>1, <3>1 DEF InFlight
    <3>3. \A p : After(p)' = After(p) \cup {hand}
      BY <3>1, <3>2 DEF After
    <3>4. ASSUME NEW p \in 1..Len(log), log[p].how # "failed" PROVE Remembers(p)'
      <4>1. p \in Nat /\ Remembers(p) /\ log'[p].id = log[p].id
        BY <3>1, <3>4 DEF RecencyInv
      <4> QED
        BY <1>0, <2>1, <2>4, <3>2, <3>3, <4>1, SurfaceRemembers
    <3>5. RecencyInv'
      BY <2>1, <2>2, <3>1, <3>4 DEF RecencyInv
    <3>6. RepeatsOnlyEvicted'
      BY <3>1 DEF RepeatsOnlyEvicted
    <3> QED
      BY <3>5, <3>6
  <2> QED
    BY <2>3, <2>4
<1>6. CASE Handle
  <2>1. /\ pc = "handle" /\ pc' # "handle" /\ UNCHANGED <<cache, hand>>
        /\ log' = Append(log, [id |-> hand, how |-> "consumed"])
    BY <1>6 DEF Handle
  <2>2. /\ Len(log') = Len(log) + 1
        /\ \A p \in 1..Len(log) : log'[p] = log[p]
        /\ log'[Len(log) + 1].id = hand
        /\ InFlight' = {}
        /\ \A p \in 1..Len(log) : After(p)' = After(p) \cup {hand}
        /\ RepeatsOnlyEvicted'
    BY <1>2, <2>1
  <2>3. \A p : hand \in After(p)
    BY <2>1 DEF After, InFlight
  <2>4. ASSUME NEW p \in 1..Len(log'), log'[p].how # "failed" PROVE Remembers(p)'
    <3>1. CASE p = Len(log) + 1
      <4>1. 1 \in 1..Len(cache) /\ 1..(1 - 1) = {} /\ cache[1] = hand
        BY <1>0, <2>1 DEF RecencyInv
      <4>2. Kept(p)'
        BY <2>1, <2>2, <3>1, <4>1 DEF Kept
      <4> QED
        BY <2>2, <4>2 DEF Remembers
    <3>2. CASE p # Len(log) + 1
      <4>1. p \in 1..Len(log) /\ log'[p] = log[p]
        BY <1>0, <2>2, <3>2
      <4>2. Remembers(p) /\ After(p)' = After(p)
        BY <2>2, <2>3, <2>4, <4>1 DEF RecencyInv
      <4> QED
        BY <2>1, <2>2, <4>1, <4>2 DEF Remembers, Met, Kept
    <3> QED
      BY <3>1, <3>2
  <2>5. RecencyInv'
    BY <2>1, <2>4 DEF RecencyInv
  <2> QED
    BY <2>2, <2>5
<1>7. CASE HandleFails
  <2>1. /\ pc = "handle" /\ pc' # "handle" /\ cache' = Without(hand) /\ hand' = hand
        /\ log' = Append(log, [id |-> hand, how |-> "failed"])
    BY <1>7 DEF HandleFails, Forget
  <2>2. /\ Len(log') = Len(log) + 1
        /\ \A p \in 1..Len(log) : log'[p] = log[p]
        /\ log'[Len(log) + 1].how = "failed"
        /\ InFlight' = {}
        /\ \A p \in 1..Len(log) : After(p)' = After(p) \cup {hand}
        /\ RepeatsOnlyEvicted'
    BY <1>2, <2>1
  <2>3. InFlight = {hand}
    BY <2>1 DEF InFlight
  <2>4. ASSUME NEW p \in 1..Len(log'), log'[p].how # "failed" PROVE Remembers(p)'
    <3>1. p \in 1..Len(log) /\ log'[p] = log[p]
      BY <1>0, <2>2, <2>4
    <3>2. Remembers(p) /\ After(p)' = After(p)
      BY <2>2, <2>3, <2>4, <3>1 DEF RecencyInv, After
    <3>3. CASE Cardinality(Met(p)) >= CacheMax
      BY <3>1, <3>2, <3>3 DEF Remembers, Met
    <3>4. CASE log[p].id \notin InFlight /\ Kept(p)
      <4>1. PICK k \in 1..Len(cache) :
              cache[k] = log[p].id /\ \A m \in 1..(k - 1) : cache[m] \in After(p)
        BY <3>4 DEF Kept
      <4>2. cache[k] # hand
        BY <2>3, <3>4, <4>1
      <4>3. \E n \in 1..Len(Without(hand)) :
              /\ Without(hand)[n] = cache[k]
              /\ \A m \in 1..(n - 1) : \E j \in 1..(k - 1) : Without(hand)[m] = cache[j]
        BY <1>0, <4>2, WithoutProperties
      <4>4. PICK n \in 1..Len(cache') :
              /\ cache'[n] = cache[k]
              /\ \A m \in 1..(n - 1) : \E j \in 1..(k - 1) : cache'[m] = cache[j]
        BY <2>1, <4>3
      <4>5. \A m \in 1..(n - 1) : cache'[m] \in After(p)
        BY <4>1, <4>4
      <4>6. Kept(p)'
        BY <3>1, <3>2, <4>1, <4>4, <4>5 DEF Kept
      <4> QED
        BY <2>2, <4>6 DEF Remembers
    <3> QED
      BY <3>2, <3>3, <3>4 DEF Remembers
  <2>5. RecencyInv'
    BY <2>1, <2>4 DEF RecencyInv
  <2> QED
    BY <2>2, <2>5
<1>8. CASE Drain
  BY <1>1, <1>8 DEF Drain, loopVars
<1>9. CASE Restart
  <2>1. Len(log') = 0 /\ pc' # "handle"
    BY <1>9 DEF Restart, Fresh
  <2> QED
    BY <2>1 DEF RecencyInv, RepeatsOnlyEvicted
<1>10. CASE UNCHANGED vars
  BY <1>1, <1>10 DEF vars, loopVars
<1> QED
  BY <1>3, <1>4, <1>5, <1>6, <1>7, <1>8, <1>9, <1>10 DEF Next

\* The dedupe window is exact: for every cache size the handler sees an id again only
\* after CacheMax other ids, whatever repeats refreshed it and whatever the handler failed.
THEOREM RepeatsAreEvicted == Spec => []RepeatsOnlyEvicted
<1>1. Init => RecencyInv /\ RepeatsOnlyEvicted
  <2> SUFFICES ASSUME Init PROVE RecencyInv /\ RepeatsOnlyEvicted
    OBVIOUS
  <2>1. Len(log) = 0 /\ pc # "handle"
    BY DEF Init, Fresh
  <2> QED
    BY <2>1 DEF RecencyInv, RepeatsOnlyEvicted
<1> QED
  BY <1>1, RepeatsStep, TypeInvariant, PTL DEF Spec
=============================================================================
