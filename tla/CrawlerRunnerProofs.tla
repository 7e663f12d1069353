------------------------- MODULE CrawlerRunnerProofs -------------------------
(****************************************************************************)
(* Proofs about CrawlerRunner, for any runs, requests, sites and cache      *)
(* size: first the operations of the cache and what can be read from a key, *)
(* then the escalation of plans, then that every step keeps the inductive   *)
(* invariant, then the theorems.                                            *)
(****************************************************************************)
EXTENDS CrawlerRunner, SequenceTheorems, TLAPS

(* No two entries have the same key.                                        *)
UniqueKeys(s) == \A i, j \in DOMAIN s : s[i].key = s[j].key => i = j

(* Removing an element moves those behind it one place forward.             *)
LEMMA RemoveAtFacts ==
  ASSUME NEW S, NEW s \in Seq(S), NEW i \in DOMAIN s
  PROVE  /\ RemoveAt(s, i) \in Seq(S)
         /\ Len(RemoveAt(s, i)) = Len(s) - 1
         /\ \A j \in DOMAIN RemoveAt(s, i) :
              RemoveAt(s, i)[j] = IF j < i THEN s[j] ELSE s[j + 1]
<1> DEFINE a == SubSeq(s, 1, i - 1)
           b == SubSeq(s, i + 1, Len(s))
<1>0. /\ Len(s) \in Nat /\ DOMAIN s = 1..Len(s) /\ i \in 1..Len(s)
      /\ \A j \in 1..Len(s) : s[j] \in S
    BY LenProperties, ElementOfSeq
<1>1. a \in Seq(S) /\ Len(a) = i - 1 /\ \A j \in 1..(i - 1) : a[j] = s[j]
    BY <1>0, SubSeqProperties
<1>2. b \in Seq(S) /\ Len(b) = Len(s) - i /\ \A j \in 1..(Len(s) - i) : b[j] = s[i + j]
    BY <1>0, SubSeqProperties
<1>4. RemoveAt(s, i) = a \o b
    BY DEF RemoveAt
<1> HIDE DEF a, b
<1>3. /\ a \o b \in Seq(S) /\ Len(a \o b) = Len(a) + Len(b)
      /\ \A j \in 1..(Len(a) + Len(b)) : (a \o b)[j] = IF j <= Len(a) THEN a[j] ELSE b[j - Len(a)]
    BY <1>1, <1>2, ConcatProperties
<1>5. Len(a) + Len(b) = Len(s) - 1
    BY <1>0, <1>1, <1>2
<1>7. Len(a \o b) = Len(s) - 1 /\ DOMAIN (a \o b) = 1..(Len(s) - 1)
    BY <1>3, <1>5, LenProperties, Zenon
<1>6. ASSUME NEW j \in 1..(Len(s) - 1)
      PROVE  (a \o b)[j] = IF j < i THEN s[j] ELSE s[j + 1]
  <2>0. (a \o b)[j] = IF j <= i - 1 THEN a[j] ELSE b[j - (i - 1)]
      BY <1>1, <1>3, <1>5
  <2>1. CASE j < i
      BY <1>0, <1>1, <2>0, <2>1
  <2>2. CASE j >= i
    <3>1. j - (i - 1) \in 1..(Len(s) - i) /\ i + (j - (i - 1)) = j + 1 /\ ~(j <= i - 1)
        BY <1>0, <2>2
    <3>2. b[j - (i - 1)] = s[i + (j - (i - 1))]
        BY <1>2, <3>1
    <3> QED
        BY <1>0, <2>0, <2>2, <3>1, <3>2
  <2>3. j < i \/ j >= i
      BY <1>0
  <2> QED
      BY <2>1, <2>2, <2>3, Zenon
<1> QED
    BY <1>3, <1>4, <1>6, <1>7, Zenon

(* Appending puts an element behind those that were there.                  *)
LEMMA AppendFacts ==
  ASSUME NEW S, NEW s \in Seq(S), NEW e \in S
  PROVE  /\ Append(s, e) \in Seq(S)
         /\ Len(Append(s, e)) = Len(s) + 1
         /\ DOMAIN Append(s, e) = 1..(Len(s) + 1)
         /\ \A j \in 1..Len(s) : Append(s, e)[j] = s[j]
         /\ Append(s, e)[Len(s) + 1] = e
  BY AppendProperties, LenProperties

-----------------------------------------------------------------------------
(* The cache's operations keep one entry per key.                           *)

(* Deleting an entry leaves the others, and no other has its key.           *)
LEMMA WithoutFacts ==
  ASSUME cache \in Seq(Entries), UniqueKeys(cache), NEW key
  PROVE  /\ Without(key) \in Seq(Entries)
         /\ UniqueKeys(Without(key))
         /\ Len(Without(key)) <= Len(cache)
         /\ \A j \in DOMAIN Without(key) : \E i \in DOMAIN cache : Without(key)[j] = cache[i]
         /\ \A j \in DOMAIN Without(key) : Without(key)[j].key # key
         /\ Holds(key) => Len(Without(key)) = Len(cache) - 1
<1>0. Len(cache) \in Nat /\ DOMAIN cache = 1..Len(cache)
    BY LenProperties
<1>1. CASE ~Holds(key)
  <2>1. Without(key) = cache
      BY <1>1 DEF Without
  <2>2. \A j \in DOMAIN cache : cache[j].key # key
      BY <1>1 DEF Holds
  <2>3. Len(cache) <= Len(cache)
      BY <1>0
  <2> QED
      BY <1>1, <2>1, <2>2, <2>3, Zenon
<1>2. CASE Holds(key)
  <2> DEFINE k == At(key)
             t == RemoveAt(cache, k)
  <2>1. k \in DOMAIN cache /\ cache[k].key = key
      BY <1>2 DEF Holds, At
  <2>2. /\ t \in Seq(Entries) /\ Len(t) = Len(cache) - 1
        /\ \A j \in DOMAIN t : t[j] = IF j < k THEN cache[j] ELSE cache[j + 1]
      BY <2>1, RemoveAtFacts
  <2>3. DOMAIN t = 1..(Len(cache) - 1)
      BY <2>2, LenProperties
  <2>4. Without(key) = t
      BY <1>2 DEF Without
  <2> HIDE DEF k, t
  <2> DEFINE old(j) == IF j < k THEN j ELSE j + 1
  <2>5. \A j \in DOMAIN t : old(j) \in DOMAIN cache /\ old(j) # k /\ t[j] = cache[old(j)]
      BY <1>0, <2>1, <2>2, <2>3
  <2>6. \A i, j \in DOMAIN t : old(i) = old(j) => i = j
      BY <1>0, <2>1, <2>3
  <2> HIDE DEF old
  <2>7. UniqueKeys(t)
      BY <2>5, <2>6 DEF UniqueKeys
  <2>8. \A j \in DOMAIN t : t[j].key # key
      BY <2>1, <2>5 DEF UniqueKeys
  <2>9. Len(t) <= Len(cache)
      BY <1>0, <2>2
  <2> QED
      BY <2>2, <2>4, <2>5, <2>7, <2>8, <2>9, Zenon
<1> QED
    BY <1>1, <1>2

(* What is looked up stays, unless it has expired; nothing is added.        *)
LEMMA AfterGetFacts ==
  ASSUME cache \in Seq(Entries), UniqueKeys(cache), NEW key
  PROVE  /\ AfterGet(key) \in Seq(Entries)
         /\ UniqueKeys(AfterGet(key))
         /\ Len(AfterGet(key)) <= Len(cache)
         /\ \A j \in DOMAIN AfterGet(key) : \E i \in DOMAIN cache : AfterGet(key)[j] = cache[i]
<1>1. CASE ~Live(key)
    BY <1>1, WithoutFacts DEF AfterGet
<1>2. CASE Live(key)
  <2> DEFINE w == Without(key)
             e == cache[At(key)]
             t == Append(w, e)
  <2>1. At(key) \in DOMAIN cache /\ e.key = key /\ Holds(key)
      BY <1>2 DEF Live, Holds, At
  <2>2. e \in Entries
      BY <2>1, ElementOfSeq, LenProperties
  <2>3. /\ w \in Seq(Entries) /\ UniqueKeys(w) /\ Len(w) = Len(cache) - 1
        /\ \A j \in DOMAIN w : \E i \in DOMAIN cache : w[j] = cache[i]
        /\ \A j \in DOMAIN w : w[j].key # key
      BY <2>1, WithoutFacts
  <2>4. AfterGet(key) = t
      BY <1>2 DEF AfterGet
  <2>5. Len(w) \in Nat /\ DOMAIN w = 1..Len(w) /\ Len(cache) \in Nat
      BY <2>3, LenProperties
  <2> HIDE DEF w, e
  <2>6. /\ t \in Seq(Entries) /\ Len(t) = Len(w) + 1 /\ DOMAIN t = 1..(Len(w) + 1)
        /\ \A j \in 1..Len(w) : t[j] = w[j]
        /\ t[Len(w) + 1] = e
      BY <2>2, <2>3, AppendFacts
  <2> HIDE DEF t
  <2>7. UniqueKeys(t)
    <3> SUFFICES ASSUME NEW i \in DOMAIN t, NEW j \in DOMAIN t, t[i].key = t[j].key
                 PROVE  i = j
        BY DEF UniqueKeys
    <3>1. CASE i \in DOMAIN w /\ j \in DOMAIN w
        BY <2>3, <2>5, <2>6, <3>1 DEF UniqueKeys
    <3>2. CASE i \in DOMAIN w /\ j = Len(w) + 1
        BY <2>1, <2>3, <2>5, <2>6, <3>2
    <3>3. CASE i = Len(w) + 1 /\ j \in DOMAIN w
        BY <2>1, <2>3, <2>5, <2>6, <3>3
    <3> QED
        BY <2>5, <2>6, <3>1, <3>2, <3>3
  <2>8. ASSUME NEW j \in DOMAIN t PROVE \E i \in DOMAIN cache : t[j] = cache[i]
    <3>1. CASE j \in DOMAIN w
        BY <2>3, <2>5, <2>6, <3>1
    <3>2. CASE j = Len(w) + 1
        BY <2>1, <2>6, <3>2 DEF e
    <3> QED
        BY <2>5, <2>6, <3>1, <3>2
  <2>9. Len(t) <= Len(cache)
      BY <2>3, <2>5, <2>6
  <2> QED
      BY <2>4, <2>6, <2>7, <2>8, <2>9
<1> QED
    BY <1>1, <1>2

(* The new entry is the only one under its key, and the oldest goes when    *)
(* there are too many.                                                      *)
LEMMA AfterPutFacts ==
  ASSUME cache \in Seq(Entries), UniqueKeys(cache), Len(cache) <= MaxEntries,
         NEW key \in Seq(Words), NEW b \in Runs
  PROVE  /\ AfterPut(key, b) \in Seq(Entries)
         /\ UniqueKeys(AfterPut(key, b))
         /\ Len(AfterPut(key, b)) <= MaxEntries
         /\ \A j \in DOMAIN AfterPut(key, b) :
              \/ \E i \in DOMAIN cache : AfterPut(key, b)[j] = cache[i]
              \/ AfterPut(key, b)[j] = [key |-> key, bundle |-> b, stale |-> FALSE]
<1> DEFINE w == Without(key)
           e == [key |-> key, bundle |-> b, stale |-> FALSE]
           t == Append(w, e)
<1>1. e \in Entries /\ e.key = key
    BY DEF Entries
<1>2. /\ w \in Seq(Entries) /\ UniqueKeys(w) /\ Len(w) <= Len(cache)
      /\ \A j \in DOMAIN w : \E i \in DOMAIN cache : w[j] = cache[i]
      /\ \A j \in DOMAIN w : w[j].key # key
    BY WithoutFacts
<1>3. AfterPut(key, b) = IF Len(t) > MaxEntries THEN Tail(t) ELSE t
    BY DEF AfterPut
<1>4. Len(w) \in Nat /\ DOMAIN w = 1..Len(w) /\ Len(cache) \in Nat /\ MaxEntries \in Nat
    BY <1>2, LenProperties, CrawlerAssumption
<1> HIDE DEF w, e
<1>5. /\ t \in Seq(Entries) /\ Len(t) = Len(w) + 1 /\ DOMAIN t = 1..(Len(w) + 1)
      /\ \A j \in 1..Len(w) : t[j] = w[j]
      /\ t[Len(w) + 1] = e
    BY <1>1, <1>2, AppendFacts
<1> HIDE DEF t
<1>6. UniqueKeys(t)
  <2> SUFFICES ASSUME NEW i \in DOMAIN t, NEW j \in DOMAIN t, t[i].key = t[j].key
               PROVE  i = j
      BY DEF UniqueKeys
  <2>1. CASE i \in DOMAIN w /\ j \in DOMAIN w
      BY <1>2, <1>4, <1>5, <2>1 DEF UniqueKeys
  <2>2. CASE i \in DOMAIN w /\ j = Len(w) + 1
      BY <1>1, <1>2, <1>4, <1>5, <2>2
  <2>3. CASE i = Len(w) + 1 /\ j \in DOMAIN w
      BY <1>1, <1>2, <1>4, <1>5, <2>3
  <2> QED
      BY <1>4, <1>5, <2>1, <2>2, <2>3
<1>7. ASSUME NEW j \in DOMAIN t
      PROVE  (\E i \in DOMAIN cache : t[j] = cache[i]) \/ t[j] = e
  <2>1. CASE j \in DOMAIN w
      BY <1>2, <1>4, <1>5, <2>1
  <2>2. CASE j = Len(w) + 1
      BY <1>5, <2>2
  <2> QED
      BY <1>4, <1>5, <2>1, <2>2
<1>8. CASE ~(Len(t) > MaxEntries)
  <2>1. AfterPut(key, b) = t /\ Len(t) <= MaxEntries
      BY <1>3, <1>4, <1>5, <1>8
  <2> QED
      BY <1>5, <1>6, <1>7, <2>1, Zenon DEF e
<1>9. CASE Len(t) > MaxEntries
  <2> DEFINE u == Tail(t)
  <2>1. t # <<>>
      BY <1>4, <1>5
  <2>2. u \in Seq(Entries) /\ Len(u) = Len(t) - 1 /\ \A j \in 1..Len(u) : u[j] = t[j + 1]
      BY <1>5, <2>1, HeadTailProperties
  <2>3. DOMAIN u = 1..Len(w) /\ Len(u) <= MaxEntries
      BY <1>2, <1>4, <1>5, <2>2, LenProperties
  <2>4. AfterPut(key, b) = u
      BY <1>3, <1>9
  <2> HIDE DEF u
  <2>5. \A j \in DOMAIN u : j + 1 \in DOMAIN t /\ u[j] = t[j + 1]
      BY <1>4, <1>5, <2>2, <2>3
  <2>6. \A i, j \in DOMAIN u : i + 1 = j + 1 => i = j
      BY <1>4, <2>3
  <2>7. UniqueKeys(u)
      BY <1>6, <2>5, <2>6 DEF UniqueKeys
  <2> QED
      BY <1>7, <2>2, <2>3, <2>4, <2>5, <2>7, Zenon DEF e
<1> QED
    BY <1>8, <1>9, Zenon

-----------------------------------------------------------------------------
(* Keys                                                                     *)

(* What a text splits into: one part at least.                              *)
Parts == Seq(Words) \ {<<>>}

(* The fields of a request and of its site.                                 *)
LEMMA RequestShape ==
  ASSUME NEW q \in Requests
  PROVE  /\ q.url \in Parts /\ q.query \in Parts /\ q.profile \in Parts
         /\ q.url \in DOMAIN Site /\ q.attempts \in Nat
         /\ q.render \in {"none", "plain", "structured", "llm"} /\ q.login \in BOOLEAN
         /\ q.transport \in {"auto", "http", "browser"}
         /\ q.extract \in {"auto", "universal", "adapter", "intelligent"}
         /\ Site[q.url] \in [browser : BOOLEAN, adapter : Words, gate : BOOLEAN]
  BY CrawlerAssumption DEF RequestType, Parts

(* Four sequences make a key.                                               *)
JoinOf(k, u, v, w, p) == k = u \o v \o w \o p

(* Four sequences joined, and where the elements are when the first three   *)
(* have one.                                                                *)
LEMMA Joined ==
  ASSUME NEW S, NEW u \in Seq(S), NEW v \in Seq(S), NEW w \in Seq(S), NEW p \in Seq(S),
         NEW k, JoinOf(k, u, v, w, p)
  PROVE  /\ k \in Seq(S)
         /\ Len(k) = Len(u) + Len(v) + Len(w) + Len(p)
         /\ Len(u) = 1 /\ Len(v) = 1 /\ Len(w) = 1 =>
              /\ k[1] = u[1] /\ k[2] = v[1] /\ k[3] = w[1]
              /\ \A i \in 1..Len(p) : k[i + 3] = p[i]
<1>0. Len(u) \in Nat /\ Len(v) \in Nat /\ Len(w) \in Nat /\ Len(p) \in Nat
    BY LenProperties
<1> DEFINE Joins(t, x, y) ==
             /\ t = x \o y /\ Len(t) = Len(x) + Len(y)
             /\ \A i \in 1..(Len(x) + Len(y)) : t[i] = IF i <= Len(x) THEN x[i] ELSE y[i - Len(x)]
<1>1. ASSUME NEW x \in Seq(S), NEW y \in Seq(S) PROVE \E t \in Seq(S) : Joins(t, x, y)
  <2>1. x \o y \in Seq(S) /\ Joins(x \o y, x, y)
      BY ConcatProperties
  <2> QED
      BY <2>1, Zenon
<1>2. PICK uv \in Seq(S) : Joins(uv, u, v)
    BY <1>1, Zenon
<1>3. PICK uvw \in Seq(S) : Joins(uvw, uv, w)
    BY <1>1, Zenon
<1>4. PICK t \in Seq(S) : Joins(t, uvw, p)
    BY <1>1, Zenon
<1>5. t = k
    BY <1>2, <1>3, <1>4, Zenon DEF JoinOf
<1>6. Len(t) = Len(u) + Len(v) + Len(w) + Len(p)
    BY <1>0, <1>2, <1>3, <1>4
<1>7. ASSUME Len(u) = 1, Len(v) = 1, Len(w) = 1
      PROVE  t[1] = u[1] /\ t[2] = v[1] /\ t[3] = w[1] /\ \A i \in 1..Len(p) : t[i + 3] = p[i]
  <2>1. Len(uv) = 2 /\ uv[1] = u[1] /\ uv[2] = v[1]
      BY <1>2, <1>7
  <2>2. Len(uvw) = 3 /\ uvw[1] = u[1] /\ uvw[2] = v[1] /\ uvw[3] = w[1]
      BY <1>3, <1>7, <2>1
  <2>3. t[1] = u[1] /\ t[2] = v[1] /\ t[3] = w[1]
      BY <1>0, <1>4, <2>2
  <2>4. \A i \in 1..Len(p) : i + 3 \in 1..(3 + Len(p)) /\ ~(i + 3 <= 3) /\ (i + 3) - 3 = i
      BY <1>0
  <2> QED
      BY <1>4, <2>2, <2>3, <2>4
<1> QED
    BY <1>4, <1>5, <1>6, <1>7, Zenon

(* The length of a key and its elements.                                    *)
LEMMA KeyParts ==
  ASSUME NEW q, NEW plan \in Plans,
         q.url \in Parts, q.query \in Parts, q.profile \in Parts
  PROVE  /\ MakeKey(q, plan) \in Seq(Words)
         /\ Len(MakeKey(q, plan)) = Len(q.url) + Len(q.query) + Len(q.profile) + 3
         /\ Separable(q) =>
              /\ MakeKey(q, plan)[1] = q.url[1]
              /\ MakeKey(q, plan)[2] = q.query[1]
              /\ MakeKey(q, plan)[3] = q.profile[1]
              /\ MakeKey(q, plan)[4] = plan.transport
              /\ MakeKey(q, plan)[5] = plan.extract
              /\ MakeKey(q, plan)[6] = plan.adapter
<1> DEFINE p == <<plan.transport, plan.extract, plan.adapter>>
<1>1. plan.transport \in Words /\ plan.extract \in Words /\ plan.adapter \in Words
    BY CrawlerAssumption DEF Plans
<1>2. p \in Seq(Words) /\ Len(p) = 3 /\ p[1] = plan.transport /\ p[2] = plan.extract /\ p[3] = plan.adapter
    BY <1>1
<1> HIDE DEF p
<1>3. JoinOf(MakeKey(q, plan), q.url, q.query, q.profile, p)
    BY Zenon DEF MakeKey, JoinOf, p
<1>4. q.url \in Seq(Words) /\ q.query \in Seq(Words) /\ q.profile \in Seq(Words)
    BY DEF Parts
<1>5. /\ MakeKey(q, plan) \in Seq(Words)
      /\ Len(MakeKey(q, plan)) = Len(q.url) + Len(q.query) + Len(q.profile) + Len(p)
      /\ Len(q.url) = 1 /\ Len(q.query) = 1 /\ Len(q.profile) = 1 =>
           /\ MakeKey(q, plan)[1] = q.url[1]
           /\ MakeKey(q, plan)[2] = q.query[1]
           /\ MakeKey(q, plan)[3] = q.profile[1]
           /\ \A i \in 1..Len(p) : MakeKey(q, plan)[i + 3] = p[i]
  <2> DEFINE k == MakeKey(q, plan)
             u == q.url
             v == q.query
             w == q.profile
  <2>1. JoinOf(k, u, v, w, p) /\ u \in Seq(Words) /\ v \in Seq(Words) /\ w \in Seq(Words) /\ p \in Seq(Words)
      BY <1>2, <1>3, <1>4
  <2> HIDE DEF k, u, v, w
  <2>2. /\ k \in Seq(Words)
        /\ Len(k) = Len(u) + Len(v) + Len(w) + Len(p)
        /\ Len(u) = 1 /\ Len(v) = 1 /\ Len(w) = 1 =>
             /\ k[1] = u[1] /\ k[2] = v[1] /\ k[3] = w[1]
             /\ \A i \in 1..Len(p) : k[i + 3] = p[i]
      BY <2>1, Joined
  <2> QED
      BY <2>2, Zenon DEF k, u, v, w
<1>6. ASSUME Separable(q)
      PROVE  /\ MakeKey(q, plan)[1] = q.url[1]
             /\ MakeKey(q, plan)[2] = q.query[1]
             /\ MakeKey(q, plan)[3] = q.profile[1]
             /\ \A i \in 1..3 : MakeKey(q, plan)[i + 3] = p[i]
  <2>1. /\ MakeKey(q, plan)[1] = q.url[1]
        /\ MakeKey(q, plan)[2] = q.query[1]
        /\ MakeKey(q, plan)[3] = q.profile[1]
        /\ \A i \in 1..Len(p) : MakeKey(q, plan)[i + 3] = p[i]
      BY <1>5, <1>6, Zenon DEF Separable
  <2>2. 1..Len(p) = 1..3
      BY <1>2
  <2> QED
      BY <2>1, <2>2, Zenon
<1>8. Len(MakeKey(q, plan)) = Len(q.url) + Len(q.query) + Len(q.profile) + 3
  <2>1. Len(p) = 3
      BY <1>2
  <2> QED
      BY <1>5, <2>1, Zenon
<1>7. ASSUME NEW k, \A i \in 1..3 : k[i + 3] = p[i]
      PROVE  k[4] = p[1] /\ k[5] = p[2] /\ k[6] = p[3]
  <2>1. k[1 + 3] = p[1] /\ k[2 + 3] = p[2] /\ k[3 + 3] = p[3]
      BY <1>7
  <2> QED
      BY <2>1
<1> QED
    BY <1>2, <1>5, <1>6, <1>7, <1>8, Zenon

(* Under the key of a request without the separator lies what was asked for *)
(* that subject under that plan.                                            *)
LEMMA KeySeparates ==
  ASSUME NEW p \in Requests, NEW q \in Requests, NEW plan \in Plans, NEW other \in Plans,
         Separable(q), MakeKey(p, other) = MakeKey(q, plan)
  PROVE  SameSubject(p, q) /\ other = plan
<1>1. /\ Len(p.url) \in Nat \ {0} /\ Len(p.query) \in Nat \ {0} /\ Len(p.profile) \in Nat \ {0}
      /\ p.url \in Seq(Words) /\ p.query \in Seq(Words) /\ p.profile \in Seq(Words)
      /\ q.url \in Seq(Words) /\ q.query \in Seq(Words) /\ q.profile \in Seq(Words)
    BY RequestShape, LenProperties, EmptySeq DEF Parts
<1>2. Len(p.url) + Len(p.query) + Len(p.profile) + 3 = 6
  <2>1. /\ Len(MakeKey(p, other)) = Len(p.url) + Len(p.query) + Len(p.profile) + 3
        /\ Len(MakeKey(q, plan)) = Len(q.url) + Len(q.query) + Len(q.profile) + 3
      BY RequestShape, KeyParts, Zenon
  <2>2. Len(q.url) = 1 /\ Len(q.query) = 1 /\ Len(q.profile) = 1
      BY DEF Separable
  <2>3. Len(MakeKey(q, plan)) = 6
    <3>1. ASSUME NEW a, NEW b, NEW c, a = 1, b = 1, c = 1 PROVE a + b + c + 3 = 6
        BY <3>1
    <3> QED
        BY <2>1, <2>2, <3>1, Zenon
  <2> QED
      BY <2>1, <2>3, Zenon
<1>3. Separable(p)
  <2>1. ASSUME NEW a \in Nat \ {0}, NEW b \in Nat \ {0}, NEW c \in Nat \ {0}, a + b + c + 3 = 6
        PROVE  a = 1 /\ b = 1 /\ c = 1
      BY <2>1
  <2> QED
      BY <1>1, <1>2, <2>1, Zenon DEF Separable
<1>4. ASSUME NEW x \in Requests, NEW y \in Plans, Separable(x)
      PROVE  /\ MakeKey(x, y)[1] = x.url[1]
             /\ MakeKey(x, y)[2] = x.query[1]
             /\ MakeKey(x, y)[3] = x.profile[1]
             /\ MakeKey(x, y)[4] = y.transport
             /\ MakeKey(x, y)[5] = y.extract
             /\ MakeKey(x, y)[6] = y.adapter
  <2>1. x.url \in Parts /\ x.query \in Parts /\ x.profile \in Parts
      BY RequestShape
  <2> QED
      BY <1>4, <2>1, KeyParts, Zenon
<1>5. /\ p.url[1] = q.url[1] /\ p.query[1] = q.query[1] /\ p.profile[1] = q.profile[1]
      /\ other.transport = plan.transport /\ other.extract = plan.extract /\ other.adapter = plan.adapter
  <2> DEFINE k == MakeKey(q, plan)
  <2>1. /\ k[1] = p.url[1] /\ k[2] = p.query[1] /\ k[3] = p.profile[1]
        /\ k[4] = other.transport /\ k[5] = other.extract /\ k[6] = other.adapter
      BY <1>3, <1>4
  <2>2. /\ k[1] = q.url[1] /\ k[2] = q.query[1] /\ k[3] = q.profile[1]
        /\ k[4] = plan.transport /\ k[5] = plan.extract /\ k[6] = plan.adapter
      BY <1>4, Zenon
  <2> QED
      BY <2>1, <2>2, Zenon
<1>6. ASSUME NEW s \in Seq(Words), NEW t \in Seq(Words), Len(s) = 1, Len(t) = 1, s[1] = t[1]
      PROVE  s = t
    BY <1>6, SeqEqual
<1>7. SameSubject(p, q)
    BY <1>1, <1>3, <1>5, <1>6 DEF SameSubject, Separable
<1>8. other = plan
    BY <1>5 DEF Plans
<1> QED
    BY <1>7, <1>8

-----------------------------------------------------------------------------
(* The inductive invariant                                                  *)

(* What the page of a run's answer has to do with its request.              *)
Fits(r) ==
  LET q == request[r]
      b == answer[r]
  IN  /\ bundle[b] # None
      /\ Separable(q) => SameSubject(request[b], q) /\ bundle[b].plan = Plan(r)
      /\ q.render # "none" => bundle[b].rendered # "none"
      /\ q.cacheMode # "prefer" => b = r

(* What the order of a run's steps leaves: no plan before it starts and one *)
(* at least afterwards, a bundle only of a run that returned it, failure    *)
(* only after all attempts.                                                 *)
RunInOrder(r) ==
  /\ pc[r] = "idle" => tried[r] = <<>>
  /\ pc[r] # "idle" => request[r] \in Requests /\ Len(tried[r]) >= 1
  /\ bundle[r] # None => pc[r] = "returned" /\ answer[r] = r
  /\ pc[r] = "returned" => answer[r] \in Runs
  /\ pc[r] = "failed" => Len(tried[r]) >= MaxAttempts(request[r])

(* After the first plan comes the browser, and its universal extractor only *)
(* right after http; http and universal never come with an adapter.         *)
Escalates(t) ==
  \A j \in DOMAIN t :
    /\ j >= 2 => t[j].transport = "browser"
    /\ j >= 2 /\ t[j].extract = "universal" => j = 2 /\ t[1].transport = "http"
    /\ t[j].transport = "http" /\ t[j].extract = "universal" => t[j].adapter = ""

RunOrder   == \A r \in Runs : RunInOrder(r)
Escalation == \A r \in Runs : Escalates(tried[r])

IInv == TypeOK /\ CacheSound /\ AnswerFits /\ RunOrder /\ Escalation

-----------------------------------------------------------------------------
(* Plans                                                                    *)

(* What a plan must be to be tried after the plans t.                       *)
MayFollow(t, p) ==
  /\ p.transport = "http" /\ p.extract = "universal" => p.adapter = ""
  /\ Len(t) >= 1 => p.transport = "browser" /\ (p.extract = "universal" => Last(t).transport = "http")

(* The plans the policy starts with are plans, and http with the universal  *)
(* extractor is never given an adapter to try next.                         *)
LEMMA FirstPlan ==
  ASSUME NEW q \in Requests
  PROVE  BuildPlan(q) \in Plans /\ MayFollow(<<>>, BuildPlan(q))
<1>1. /\ q.extract \in {"auto", "universal", "adapter", "intelligent"}
      /\ Site[q.url].adapter \in Words /\ "" \in Words
    BY RequestShape, CrawlerAssumption
<1>2. /\ BuildPlan(q) \in Plans
      /\ BuildPlan(q).transport = "http" /\ BuildPlan(q).extract = "universal" => BuildPlan(q).adapter = ""
    BY <1>1 DEF BuildPlan, Plans
<1>3. ~(Len(<<>>) >= 1)
    OBVIOUS
<1> QED
    BY <1>2, <1>3, Zenon DEF MayFollow

(* A fallback goes to the browser, and to its universal extractor only from *)
(* http.                                                                    *)
LEMMA NextPlan ==
  ASSUME NEW t \in Seq(Plans), Escalates(t), Len(t) >= 1
  PROVE  Fallback(Last(t)) \in Plans /\ MayFollow(t, Fallback(Last(t)))
<1> DEFINE p == Last(t)
<1>1. p \in Plans /\ (p.transport = "http" /\ p.extract = "universal" => p.adapter = "")
  <2>1. Len(t) \in DOMAIN t /\ p = t[Len(t)] /\ t[Len(t)] \in Plans
      BY LenProperties, ElementOfSeq DEF Last
  <2> QED
      BY <2>1, Zenon DEF Escalates
<1> HIDE DEF p
<1>2. UpdatePlanOnFailure(p) \in Plans
    BY <1>1 DEF UpdatePlanOnFailure, Plans
<1>3. /\ UpdatePlanOnFailure(p).transport = "browser"
      /\ UpdatePlanOnFailure(p).extract = "universal" => p.transport = "http"
    BY <1>1 DEF UpdatePlanOnFailure, Plans
<1>4. /\ Fallback(p) \in Plans /\ Fallback(p).transport = "browser"
      /\ Fallback(p).extract = "universal" => p.transport = "http"
    BY <1>1, <1>2, <1>3 DEF Fallback, Plans
<1>5. Fallback(p).transport # "http"
    BY <1>4
<1> QED
    BY <1>4, <1>5, Zenon DEF MayFollow, p

(* Attempts keep their order of escalation when such a plan is added.       *)
LEMMA EscalationGrows ==
  ASSUME NEW t \in Seq(Plans), Escalates(t), NEW p \in Plans, MayFollow(t, p)
  PROVE  Append(t, p) \in Seq(Plans) /\ Escalates(Append(t, p)) /\ Last(Append(t, p)) = p
<1> DEFINE u == Append(t, p)
<1>1. /\ u \in Seq(Plans) /\ Len(u) = Len(t) + 1 /\ DOMAIN u = 1..(Len(t) + 1)
      /\ \A j \in 1..Len(t) : u[j] = t[j]
      /\ u[Len(t) + 1] = p
    BY AppendFacts
<1>2. Len(t) \in Nat /\ DOMAIN t = 1..Len(t)
    BY LenProperties
<1>3. Last(t) = t[Len(t)] /\ Last(u) = u[Len(u)]
    BY DEF Last
<1> HIDE DEF u
<1>4. ASSUME NEW j \in DOMAIN u
      PROVE  /\ j >= 2 => u[j].transport = "browser"
             /\ j >= 2 /\ u[j].extract = "universal" => j = 2 /\ u[1].transport = "http"
             /\ u[j].transport = "http" /\ u[j].extract = "universal" => u[j].adapter = ""
  <2>1. CASE j \in 1..Len(t)
    <3>1. j \in DOMAIN t /\ u[j] = t[j] /\ u[1] = t[1]
        BY <1>1, <1>2, <2>1
    <3> QED
        BY <3>1, Zenon DEF Escalates
  <2>2. CASE j = Len(t) + 1 /\ j >= 2
    <3>1. Len(t) >= 1 /\ u[1] = t[1] /\ u[j] = p
        BY <1>1, <1>2, <2>2
    <3>2. p.transport = "browser" /\ (p.extract = "universal" => t[Len(t)].transport = "http")
        BY <1>3, <3>1 DEF MayFollow
    <3>3. ASSUME t[Len(t)].transport = "http" PROVE Len(t) = 1
      <4>1. Len(t) \in DOMAIN t
          BY <1>2, <3>1
      <4>2. Len(t) >= 2 => t[Len(t)].transport = "browser"
          BY <4>1, Zenon DEF Escalates
      <4> QED
          BY <1>2, <3>1, <3>3, <4>2
    <3> QED
        BY <2>2, <3>1, <3>2, <3>3
  <2>3. CASE j = Len(t) + 1 /\ j < 2
    <3>1. u[j] = p /\ ~(j >= 2)
        BY <1>1, <2>3
    <3> QED
        BY <3>1, Zenon DEF MayFollow
  <2>4. j \in 1..Len(t) \/ (j = Len(t) + 1 /\ (j >= 2 \/ j < 2))
      BY <1>1, <1>2
  <2> QED
      BY <2>1, <2>2, <2>3, <2>4, Zenon
<1>5. Last(u) = p
    BY <1>1, <1>3
<1> QED
    BY <1>1, <1>4, <1>5, Zenon DEF Escalates, u

-----------------------------------------------------------------------------
(* What steps keep                                                          *)

(* A bundle stays what it is but for its trace and for being rendered if it *)
(* was not, and so does what its run asked and returned.                    *)
Settled ==
  \A c \in Runs : bundle[c] # None =>
    /\ bundle'[c] # None
    /\ bundle'[c].plan = bundle[c].plan
    /\ bundle[c].rendered # "none" => bundle'[c].rendered = bundle[c].rendered
    /\ request'[c] = request[c]
    /\ pc'[c] = "returned" /\ answer'[c] = c

(* An entry is filed under the plan of a bundle that its run returned.      *)
Filed(e) ==
  /\ bundle[e.bundle] # None
  /\ e.key = MakeKey(request[e.bundle], bundle[e.bundle].plan)
  /\ pc[e.bundle] = "returned" /\ answer[e.bundle] = e.bundle

(* The cache stays sound if what is in it was there or is filed.            *)
LEMMA CacheKept ==
  ASSUME CacheSound, cache \in Seq(Entries), Settled, cache' \in Seq(Entries),
         UniqueKeys(cache'), Len(cache') <= MaxEntries,
         \A j \in DOMAIN cache' :
           \/ \E i \in DOMAIN cache : cache'[j].key = cache[i].key /\ cache'[j].bundle = cache[i].bundle
           \/ Filed(cache[j])'
  PROVE  CacheSound'
<1>1. ASSUME NEW j \in DOMAIN cache' PROVE Filed(cache[j])'
  <2>1. CASE Filed(cache[j])'
      BY <2>1
  <2>2. CASE \E i \in DOMAIN cache : cache'[j].key = cache[i].key /\ cache'[j].bundle = cache[i].bundle
    <3>1. PICK i \in DOMAIN cache : cache'[j].key = cache[i].key /\ cache'[j].bundle = cache[i].bundle
        BY <2>2
    <3>4. i \in 1..Len(cache)
        BY LenProperties
    <3>5. cache[i] \in Entries
        BY <3>4, ElementOfSeq, Zenon
    <3>2. cache[i].bundle \in Runs
        BY <3>5 DEF Entries
    <3>3. /\ bundle[cache[i].bundle] # None
          /\ cache[i].key = MakeKey(request[cache[i].bundle], bundle[cache[i].bundle].plan)
        BY Zenon DEF CacheSound
    <3> QED
        BY <3>1, <3>2, <3>3, Zenon DEF Settled, Filed, MakeKey
  <2> QED
      BY <1>1, <2>1, <2>2, Zenon
<1> QED
    BY <1>1, Zenon DEF CacheSound, UniqueKeys, Filed

(* Answers go on to fit if each was there or fits.                          *)
LEMMA AnswersKept ==
  ASSUME AnswerFits, RunOrder, Settled,
         \A r \in Runs : pc'[r] = "returned" =>
           \/ pc[r] = "returned" /\ request'[r] = request[r] /\ answer'[r] = answer[r] /\ tried'[r] = tried[r]
           \/ Fits(r)'
  PROVE  AnswerFits'
<1>1. ASSUME NEW r \in Runs, pc'[r] = "returned" PROVE Fits(r)'
  <2>1. CASE Fits(r)'
      BY <2>1
  <2>2. CASE pc[r] = "returned" /\ request'[r] = request[r] /\ answer'[r] = answer[r] /\ tried'[r] = tried[r]
    <3>1. Fits(r) /\ answer[r] \in Runs
        BY <2>2, Zenon DEF AnswerFits, Fits, RunOrder, RunInOrder
    <3>2. Plan(r)' = Plan(r)
        BY <2>2, Zenon DEF Plan
    <3> DEFINE b == answer[r]
    <3>3. bundle[b] # None /\ b \in Runs /\ answer'[r] = b
        BY <2>2, <3>1, Zenon DEF Fits
    <3>4. /\ bundle'[b] # None /\ bundle'[b].plan = bundle[b].plan /\ request'[b] = request[b]
          /\ bundle[b].rendered # "none" => bundle'[b].rendered # "none"
        BY <3>3, Zenon DEF Settled
    <3>5. /\ Separable(request[r]) => SameSubject(request[b], request[r]) /\ bundle[b].plan = Plan(r)
          /\ request[r].render # "none" => bundle[b].rendered # "none"
          /\ request[r].cacheMode # "prefer" => b = r
        BY <3>1, Zenon DEF Fits
    <3>6. Separable(request'[r]) = Separable(request[r])
        BY <2>2
    <3>7. SameSubject(request'[b], request'[r]) = SameSubject(request[b], request[r])
        BY <2>2, <3>4
    <3> QED
        BY <2>2, <3>2, <3>3, <3>4, <3>5, <3>6, <3>7, Zenon DEF Fits
  <2> QED
      BY <1>1, <2>1, <2>2, Zenon
<1> QED
    BY <1>1, Zenon DEF AnswerFits, Fits

(* A step of run r leaves the other runs alone, and their bundles but for   *)
(* trace and rendering.                                                     *)
OthersKept(r) ==
  \A s \in Runs \ {r} :
    /\ request'[s] = request[s] /\ pc'[s] = pc[s] /\ tried'[s] = tried[s] /\ answer'[s] = answer[s]
    /\ bundle[s] = None => bundle'[s] = None
    /\ bundle[s] # None =>
         /\ bundle'[s] # None /\ bundle'[s].plan = bundle[s].plan
         /\ bundle[s].rendered # "none" => bundle'[s].rendered = bundle[s].rendered

(* What is in the cache after a step was there or is filed.                 *)
CacheFits ==
  /\ UniqueKeys(cache') /\ Len(cache') <= MaxEntries
  /\ \A j \in DOMAIN cache' :
       \/ \E i \in DOMAIN cache : cache'[j].key = cache[i].key /\ cache'[j].bundle = cache[i].bundle
       \/ Filed(cache[j])'

(* A step of a run that has not ended keeps the invariant, if it does for   *)
(* that run and for the cache.                                              *)
LEMMA StepKeeps ==
  ASSUME IInv, NEW r \in Runs, pc[r] \notin Ended, TypeOK', OthersKept(r), CacheFits,
         RunInOrder(r)', Escalates(tried[r])', (pc[r] = "returned" => Fits(r))'
  PROVE  IInv'
<1>1. bundle[r] = None
    BY Zenon DEF IInv, RunOrder, RunInOrder, Ended
<1>2. Settled
  <2> SUFFICES ASSUME NEW c \in Runs, bundle[c] # None
               PROVE  /\ bundle'[c] # None
                      /\ bundle'[c].plan = bundle[c].plan
                      /\ bundle[c].rendered # "none" => bundle'[c].rendered = bundle[c].rendered
                      /\ request'[c] = request[c]
                      /\ pc'[c] = "returned" /\ answer'[c] = c
      BY Zenon DEF Settled
  <2>1. c \in Runs \ {r}
      BY <1>1
  <2>2. pc[c] = "returned" /\ answer[c] = c
      BY Zenon DEF IInv, RunOrder, RunInOrder
  <2> QED
      BY <2>1, <2>2, Zenon DEF OthersKept
<1>3. CacheSound'
    BY <1>2, CacheKept, Zenon DEF IInv, TypeOK, CacheFits
<1>4. AnswerFits'
  <2>1. ASSUME NEW s \in Runs, pc'[s] = "returned"
        PROVE  \/ pc[s] = "returned" /\ request'[s] = request[s] /\ answer'[s] = answer[s] /\ tried'[s] = tried[s]
               \/ Fits(s)'
    <3>1. CASE s = r
        BY <2>1, <3>1, Zenon
    <3>2. CASE s \in Runs \ {r}
        BY <2>1, <3>2, Zenon DEF OthersKept
    <3> QED
        BY <3>1, <3>2
  <2> QED
      BY <1>2, <2>1, AnswersKept, Zenon DEF IInv
<1>5. RunOrder'
  <2>1. ASSUME NEW s \in Runs PROVE RunInOrder(s)'
    <3>1. CASE s = r
        BY <3>1, Zenon
    <3>2. CASE s \in Runs \ {r}
      <4>1. /\ request'[s] = request[s] /\ pc'[s] = pc[s] /\ tried'[s] = tried[s] /\ answer'[s] = answer[s]
            /\ bundle[s] = None => bundle'[s] = None
          BY <3>2, Zenon DEF OthersKept
      <4>2. RunInOrder(s)
          BY Zenon DEF IInv, RunOrder
      <4>3. MaxAttempts(request'[s]) = MaxAttempts(request[s])
          BY <4>1
      <4> QED
          BY <4>1, <4>2, <4>3, Zenon DEF RunInOrder
    <3> QED
        BY <3>1, <3>2
  <2> QED
      BY <2>1, Zenon DEF RunOrder
<1>6. Escalation'
  <2>1. ASSUME NEW s \in Runs PROVE Escalates(tried[s])'
    <3>1. CASE s = r
        BY <3>1, Zenon
    <3>2. CASE s \in Runs \ {r}
      <4>1. tried'[s] = tried[s] /\ Escalates(tried[s])
          BY <3>2, Zenon DEF OthersKept, IInv, Escalation
      <4> QED
          BY <4>1, Zenon DEF Escalates
    <3> QED
        BY <3>1, <3>2
  <2> QED
      BY <2>1, Zenon DEF Escalation
<1> QED
    BY <1>3, <1>4, <1>5, <1>6, Zenon DEF IInv

-----------------------------------------------------------------------------
(* The steps                                                                *)

(* Nothing has run and nothing is cached.                                   *)
LEMMA InitInv == Init => IInv
<1> SUFFICES ASSUME Init PROVE IInv
    OBVIOUS
<1>6. Len(<<>>) = 0 /\ \A i : i \notin DOMAIN <<>>
    OBVIOUS
<1>1. TypeOK
    BY DEF Init, TypeOK
<1>2. CacheSound
  <2>1. cache = <<>>
      BY DEF Init
  <2>4. MaxEntries \in Nat
      BY CrawlerAssumption
  <2>5. 0 <= MaxEntries
      BY <2>4
  <2>2. Len(cache) <= MaxEntries
      BY <1>6, <2>1, <2>5, Zenon
  <2>3. \A i : i \notin DOMAIN cache
      BY <1>6, <2>1, Zenon
  <2> QED
      BY <2>2, <2>3, Zenon DEF CacheSound
<1>3. AnswerFits
    BY DEF Init, AnswerFits
<1>4. RunOrder
    BY DEF Init, RunOrder, RunInOrder
<1>5. Escalation
    BY <1>6 DEF Init, Escalation, Escalates
<1> QED
    BY <1>1, <1>2, <1>3, <1>4, <1>5 DEF IInv

(* A step that leaves cache and bundles alone.                              *)
LEMMA NothingShared ==
  ASSUME IInv, NEW r \in Runs, UNCHANGED <<bundle, cache>>
  PROVE  CacheFits
<1>1. /\ UniqueKeys(cache) /\ Len(cache) <= MaxEntries
    BY Zenon DEF IInv, CacheSound, UniqueKeys
<1> QED
    BY <1>1, Zenon DEF CacheFits, UniqueKeys

(* The fetch is made again.                                                 *)
LEMMA FetchTypeErrorInv == ASSUME IInv, NEW r \in Runs, FetchTypeError(r) PROVE IInv'
<1>1. /\ pc[r] = "fetching" /\ pc' = [pc EXCEPT ![r] = "refetching"]
      /\ UNCHANGED <<request, tried, bundle, answer, cache>>
    BY DEF FetchTypeError
<1>2. TypeOK'
    BY <1>1 DEF IInv, TypeOK, Fetching
<1>3. pc'[r] = "refetching" /\ \A s \in Runs \ {r} : pc'[s] = pc[s]
    BY <1>1 DEF IInv, TypeOK
<1>4. OthersKept(r)
    BY <1>1, <1>3, Zenon DEF OthersKept
<1>5. CacheFits
    BY <1>1, NothingShared
<1>6. RunInOrder(r)'
    BY <1>1, <1>3 DEF IInv, RunOrder, RunInOrder
<1>7. Escalates(tried[r])'
    BY <1>1, Zenon DEF IInv, Escalation, Escalates
<1> QED
    BY <1>1, <1>2, <1>3, <1>4, <1>5, <1>6, <1>7, StepKeeps DEF Ended

(* What is not implemented raises, and leaves cache and bundles alone.      *)
LEMMA PageRaisesInv == ASSUME IInv, NEW r \in Runs, PageRaises(r) PROVE IInv'
<1>1. /\ pc[r] \in Fetching
      /\ pc' = [pc EXCEPT ![r] = "raised"] /\ answer' = [answer EXCEPT ![r] = None]
      /\ UNCHANGED <<request, tried, bundle, cache>>
    BY DEF PageRaises, Good, End
<1>2. TypeOK'
    BY <1>1 DEF IInv, TypeOK, Ended
<1>3. pc'[r] = "raised" /\ \A s \in Runs \ {r} : pc'[s] = pc[s] /\ answer'[s] = answer[s]
    BY <1>1 DEF IInv, TypeOK
<1>4. OthersKept(r)
    BY <1>1, <1>3, Zenon DEF OthersKept
<1>5. CacheFits
    BY <1>1, NothingShared
<1>6. RunInOrder(r)'
    BY <1>1, <1>3 DEF IInv, RunOrder, RunInOrder, Fetching
<1>7. Escalates(tried[r])'
    BY <1>1, Zenon DEF IInv, Escalation, Escalates
<1> QED
    BY <1>1, <1>2, <1>3, <1>4, <1>5, <1>6, <1>7, StepKeeps DEF Ended, Fetching

(* The page is filed under the plan it was fetched by, and returned.        *)
LEMMA PageAcceptedInv == ASSUME IInv, NEW r \in Runs, PageAccepted(r) PROVE IInv'
<1> DEFINE q   == request[r]
           key == MakeKey(q, Plan(r))
           e   == [key |-> key, bundle |-> r, stale |-> FALSE]
<1>1. PICK wall \in BOOLEAN :
        /\ pc[r] \in Fetching /\ ~Unimplemented(q)
        /\ bundle' = [bundle EXCEPT ![r] = NewBundle(r, wall)]
        /\ cache' = AfterPut(key, r)
        /\ pc' = [pc EXCEPT ![r] = "returned"] /\ answer' = [answer EXCEPT ![r] = r]
        /\ request' = request /\ tried' = tried
    BY DEF PageAccepted, Good, End
<1>2. /\ q \in Requests /\ tried[r] \in Seq(Plans) /\ Len(tried[r]) >= 1 /\ bundle[r] = None
      /\ cache \in Seq(Entries) /\ UniqueKeys(cache) /\ Len(cache) <= MaxEntries
  <2>1. pc[r] # "idle" /\ pc[r] # "returned"
      BY <1>1 DEF Fetching
  <2>2. tried[r] \in Seq(Plans) /\ cache \in Seq(Entries)
      BY DEF IInv, TypeOK
  <2> QED
      BY <2>1, <2>2, Zenon DEF IInv, RunOrder, RunInOrder, CacheSound, UniqueKeys
<1>3. Plan(r) \in Plans
  <2>1. Len(tried[r]) \in 1..Len(tried[r]) /\ Plan(r) = tried[r][Len(tried[r])]
      BY <1>2, LenProperties DEF Plan, Last
  <2> QED
      BY <1>2, <2>1, ElementOfSeq, Zenon
<1>4. key \in Seq(Words)
    BY <1>2, <1>3, RequestShape, KeyParts, Zenon
<1>5. /\ cache' \in Seq(Entries) /\ UniqueKeys(cache') /\ Len(cache') <= MaxEntries
      /\ \A j \in DOMAIN cache' : (\E i \in DOMAIN cache : cache'[j] = cache[i]) \/ cache'[j] = e
    BY <1>1, <1>2, <1>4, AfterPutFacts, Zenon
<1>6. /\ NewBundle(r, wall) \in Bundles /\ NewBundle(r, wall) # None
      /\ NewBundle(r, wall).plan = Plan(r) /\ NewBundle(r, wall).rendered = q.render
  <2>1. q.render \in {"none", "plain", "structured"}
      BY <1>1, <1>2, RequestShape DEF Unimplemented
  <2>2. NewBundle(r, wall) \in Bundles
      BY <1>3, <2>1 DEF NewBundle, Bundles
  <2> QED
      BY <2>2, CrawlerAssumption DEF NewBundle
<1>7. /\ pc'[r] = "returned" /\ answer'[r] = r /\ bundle'[r] = NewBundle(r, wall)
      /\ \A s \in Runs \ {r} : pc'[s] = pc[s] /\ answer'[s] = answer[s] /\ bundle'[s] = bundle[s]
    BY <1>1 DEF IInv, TypeOK
<1>8. TypeOK'
  <2>1. /\ pc' \in [Runs -> {"idle"} \cup Fetching \cup Ended]
        /\ answer' \in [Runs -> Runs \cup {None}]
        /\ bundle' \in [Runs -> Bundles \cup {None}]
      BY <1>1, <1>6 DEF IInv, TypeOK, Ended
  <2> QED
      BY <1>1, <1>5, <2>1, Zenon DEF IInv, TypeOK
<1>9. OthersKept(r)
    BY <1>1, <1>7, Zenon DEF OthersKept
<1>10. Plan(r)' = Plan(r)
    BY <1>1 DEF Plan
<1>11. ASSUME NEW c \in Entries, c = e PROVE c.key = key /\ c.bundle = r
    BY <1>11
<1> HIDE DEF key, e
<1>12. CacheFits
  <2>1. ASSUME NEW j \in DOMAIN cache', cache'[j] = e PROVE Filed(cache[j])'
    <3>1. cache'[j] \in Entries
        BY <1>5, ElementOfSeq, LenProperties
    <3>2. cache'[j].key = key /\ cache'[j].bundle = r
        BY <1>11, <2>1, <3>1
    <3>3. key = MakeKey(request'[r], bundle'[r].plan)
        BY <1>1, <1>6, <1>7 DEF key
    <3> QED
        BY <1>6, <1>7, <3>2, <3>3, Zenon DEF Filed, MakeKey
  <2> QED
      BY <1>5, <2>1, Zenon DEF CacheFits, UniqueKeys
<1>13. RunInOrder(r)'
    BY <1>1, <1>2, <1>7 DEF RunInOrder
<1>14. Escalates(tried[r])'
    BY <1>1, Zenon DEF IInv, Escalation, Escalates
<1>15. Fits(r)'
  <2>1. SameSubject(request'[r], request'[r])
      BY DEF SameSubject
  <2>2. bundle'[r] # None /\ bundle'[r].plan = Plan(r)' /\ bundle'[r].rendered = request'[r].render
      BY <1>1, <1>6, <1>7, <1>10
  <2> QED
      BY <1>7, <2>1, <2>2 DEF Fits
<1> QED
    BY <1>1, <1>8, <1>9, <1>12, <1>13, <1>14, <1>15, StepKeeps DEF Ended, Fetching

(* The cached bundle with another trace, rendered or not.                   *)
Retraced(old, r, x) == [old EXCEPT !.trace = r, !.rendered = x]

(* It is a bundle with the same plan.                                       *)
LEMMA RetracedFacts ==
  ASSUME NEW old \in Bundles, NEW r \in Runs, NEW x \in {"none", "plain", "structured"}
  PROVE  /\ Retraced(old, r, x) \in Bundles
         /\ Retraced(old, r, x).trace = r /\ Retraced(old, r, x).rendered = x
         /\ Retraced(old, r, x).plan = old.plan
         /\ [old EXCEPT !.trace = r] = Retraced(old, r, old.rendered)
         /\ old.rendered \in {"none", "plain", "structured"}
  BY DEF Bundles, Retraced

(* What a hit does to its bundle and to the run.                            *)
LEMMA ServeFacts ==
  ASSUME TypeOK, NEW r \in Runs, NEW q \in Requests, NEW b \in Runs, bundle[b] # None, Serve(r, q, b)
  PROVE  \E x \in {"none", "plain", "structured"} :
           /\ bundle' = [bundle EXCEPT ![b] = Retraced(bundle[b], r, x)]
           /\ bundle[b].rendered # "none" => x = bundle[b].rendered
           /\ \/ End(r, "raised", None)
              \/ End(r, "returned", b) /\ (q.render # "none" => x # "none")
<1> DEFINE old == bundle[b]
<1>1. old \in Bundles /\ q.render \in {"none", "plain", "structured", "llm"}
    BY RequestShape DEF TypeOK
<1>2. /\ old.rendered \in {"none", "plain", "structured"}
      /\ [old EXCEPT !.trace = r] = Retraced(old, r, old.rendered)
    BY <1>1, RetracedFacts
<1>3. ASSUME bundle' = [bundle EXCEPT ![b].trace = r]
      PROVE  bundle' = [bundle EXCEPT ![b] = Retraced(old, r, old.rendered)]
    BY <1>2, <1>3
<1>4. CASE /\ ToRender(q, b) /\ q.render = "llm"
           /\ bundle' = [bundle EXCEPT ![b].trace = r]
           /\ End(r, "raised", None)
    BY <1>2, <1>3, <1>4, Zenon
<1>5. CASE /\ ToRender(q, b) /\ q.render # "llm"
           /\ bundle' = [bundle EXCEPT ![b].trace = r, ![b].rendered = q.render]
           /\ End(r, "returned", b)
  <2>1. q.render \in {"none", "plain", "structured"} /\ q.render # "none" /\ old.rendered = "none"
      BY <1>1, <1>5 DEF ToRender
  <2>2. bundle' = [bundle EXCEPT ![b] = Retraced(old, r, q.render)]
      BY <1>5 DEF Retraced, TypeOK
  <2> QED
      BY <1>5, <2>1, <2>2, Zenon
<1>6. CASE /\ ~ToRender(q, b)
           /\ bundle' = [bundle EXCEPT ![b].trace = r]
           /\ End(r, "returned", b)
  <2>1. q.render # "none" => old.rendered # "none"
      BY <1>6 DEF ToRender
  <2> QED
      BY <1>2, <1>3, <1>6, <2>1, Zenon
<1> QED
    BY <1>4, <1>5, <1>6 DEF Serve

(* A live entry is a page that its run made under the plan in its key.      *)
LEMMA HitFacts ==
  ASSUME IInv, NEW r \in Runs, pc[r] \notin Ended, NEW q \in Requests, NEW plan \in Plans,
         Live(MakeKey(q, plan))
  PROVE  LET b == cache[At(MakeKey(q, plan))].bundle
         IN  /\ b \in Runs \ {r} /\ bundle[b] \in Bundles /\ bundle[b] # None
             /\ Separable(q) => SameSubject(request[b], q) /\ bundle[b].plan = plan
<1> DEFINE key == MakeKey(q, plan)
           i   == At(key)
           b   == cache[i].bundle
<1>1. i \in DOMAIN cache /\ cache[i].key = key
    BY Zenon DEF Live, Holds, At
<1>2. /\ bundle[b] # None /\ cache[i].key = MakeKey(request[b], bundle[b].plan)
      /\ pc[b] = "returned" /\ answer[b] = b
    BY <1>1, Zenon DEF IInv, CacheSound
<1>3. b \in Runs
  <2>1. cache \in Seq(Entries)
      BY DEF IInv, TypeOK
  <2>2. cache[i] \in Entries
      BY <1>1, <2>1, ElementOfSeq, LenProperties
  <2> QED
      BY <2>2 DEF Entries
<1>4. b # r
    BY <1>2 DEF Ended
<1>5. bundle[b] \in Bundles
    BY <1>2, <1>3 DEF IInv, TypeOK
<1>6. bundle[b].plan \in Plans
    BY <1>5 DEF Bundles
<1>7. request[b] \in Requests
    BY <1>2, <1>3 DEF IInv, RunOrder, RunInOrder
<1>8. MakeKey(request[b], bundle[b].plan) = MakeKey(q, plan)
    BY <1>1, <1>2
<1>9. Separable(q) => SameSubject(request[b], q) /\ bundle[b].plan = plan
  <2> DEFINE p == request[b]
             other == bundle[b].plan
  <2>1. p \in Requests /\ other \in Plans /\ MakeKey(p, other) = MakeKey(q, plan)
      BY <1>6, <1>7, <1>8
  <2> HIDE DEF p, other
  <2>2. Separable(q) => SameSubject(p, q) /\ other = plan
      BY <2>1, KeySeparates
  <2> QED
      BY <2>2, Zenon DEF p, other
<1> QED
    BY <1>2, <1>3, <1>4, <1>5, <1>9

(* The head of the loop keeps the invariant.                                *)
LEMMA NextAttemptInv ==
  ASSUME IInv, NEW r \in Runs, pc[r] \notin Ended, NEW q \in Requests, NEW plan \in Plans,
         MayFollow(tried[r], plan), request' = [request EXCEPT ![r] = q], NextAttempt(r, q, plan)
  PROVE  IInv'
<1> DEFINE key == MakeKey(q, plan)
           grown == Append(tried[r], plan)
<1>1. /\ tried[r] \in Seq(Plans) /\ Escalates(tried[r]) /\ Len(tried[r]) \in Nat
      /\ cache \in Seq(Entries) /\ UniqueKeys(cache) /\ Len(cache) <= MaxEntries
      /\ bundle[r] = None
  <2>1. tried[r] \in Seq(Plans) /\ cache \in Seq(Entries)
      BY DEF IInv, TypeOK
  <2>2. Len(tried[r]) \in Nat
      BY <2>1, LenProperties
  <2> QED
      BY <2>1, <2>2, Zenon DEF IInv, RunOrder, RunInOrder, Escalation, CacheSound, UniqueKeys, Ended
<1>2. /\ request' \in [Runs -> Requests \cup {None}] /\ request'[r] = q
      /\ \A s \in Runs \ {r} : request'[s] = request[s]
    BY DEF IInv, TypeOK
<1>3. MaxAttempts(q) >= 1
    BY RequestShape DEF MaxAttempts
<1>4. CASE /\ Len(tried[r]) >= MaxAttempts(q)
           /\ End(r, "failed", None)
           /\ UNCHANGED <<tried, bundle, cache>>
  <2>1. /\ pc'[r] = "failed" /\ answer'[r] = None
        /\ \A s \in Runs \ {r} : pc'[s] = pc[s] /\ answer'[s] = answer[s]
        /\ tried' = tried /\ bundle' = bundle /\ cache' = cache
      BY <1>4 DEF End, IInv, TypeOK
  <2>2. TypeOK'
    <3>1. pc' \in [Runs -> {"idle"} \cup Fetching \cup Ended] /\ answer' \in [Runs -> Runs \cup {None}]
        BY <1>4 DEF End, IInv, TypeOK, Ended
    <3> QED
        BY <1>2, <2>1, <3>1, Zenon DEF IInv, TypeOK
  <2>3. OthersKept(r)
      BY <1>2, <2>1, Zenon DEF OthersKept
  <2>4. CacheFits
      BY <2>1, NothingShared
  <2>5. RunInOrder(r)'
    <3>1. Len(tried[r]) >= 1
        BY <1>1, <1>3, <1>4, RequestShape DEF MaxAttempts
    <3> QED
        BY <1>1, <1>2, <1>4, <2>1, <3>1 DEF RunInOrder, MaxAttempts
  <2>6. Escalates(tried[r])'
      BY <1>1, <2>1, Zenon DEF Escalates
  <2> QED
      BY <2>1, <2>2, <2>3, <2>4, <2>5, <2>6, StepKeeps
<1>5. ASSUME Len(tried[r]) < MaxAttempts(q), tried' = [tried EXCEPT ![r] = grown],
             cache' = IF q.cacheMode = "bypass" THEN cache ELSE AfterGet(key)
      PROVE  /\ tried' \in [Runs -> Seq(Plans)] /\ cache' \in Seq(Entries)
             /\ CacheFits /\ Escalates(tried[r])'
             /\ tried'[r] = grown /\ Len(tried'[r]) >= 1 /\ Plan(r)' = plan
             /\ \A s \in Runs \ {r} : tried'[s] = tried[s]
  <2>1. grown \in Seq(Plans) /\ Escalates(grown) /\ Last(grown) = plan
      BY <1>1, EscalationGrows
  <2>2. Len(grown) >= 1
      BY <1>1, AppendFacts
  <2> HIDE DEF grown
  <2>3. tried' \in [Runs -> Seq(Plans)] /\ tried'[r] = grown /\ \A s \in Runs \ {r} : tried'[s] = tried[s]
      BY <1>5, <2>1 DEF IInv, TypeOK
  <2>4. Plan(r)' = plan
      BY <2>1, <2>3 DEF Plan
  <2>5. Escalates(tried[r])'
      BY <2>1, <2>3, Zenon DEF Escalates
  <2>6. cache' \in Seq(Entries) /\ CacheFits
    <3>1. CASE q.cacheMode = "bypass"
      <4>1. cache' = cache
          BY <1>5, <3>1
      <4> QED
          BY <1>1, <4>1, Zenon DEF CacheFits, UniqueKeys
    <3>2. CASE q.cacheMode # "bypass"
      <4>1. cache' = AfterGet(key)
          BY <1>5, <3>2
      <4>2. /\ cache' \in Seq(Entries) /\ UniqueKeys(cache') /\ Len(cache') <= Len(cache)
            /\ \A j \in DOMAIN cache' : \E i \in DOMAIN cache : cache'[j] = cache[i]
          BY <1>1, <4>1, AfterGetFacts, Zenon
      <4>3. Len(cache') <= MaxEntries
        <5>1. Len(cache) \in Nat /\ Len(cache') \in Nat /\ MaxEntries \in Nat
            BY <1>1, <4>2, LenProperties, CrawlerAssumption
        <5> QED
            BY <1>1, <4>2, <5>1
      <4> QED
          BY <4>2, <4>3, Zenon DEF CacheFits
    <3> QED
        BY <3>1, <3>2, Zenon
  <2> QED
      BY <2>2, <2>3, <2>4, <2>5, <2>6, Zenon
<1>6. CASE /\ Len(tried[r]) < MaxAttempts(q)
           /\ tried' = [tried EXCEPT ![r] = grown]
           /\ cache' = IF q.cacheMode = "bypass" THEN cache ELSE AfterGet(key)
           /\ ~Hits(q, plan)
           /\ pc' = [pc EXCEPT ![r] = "fetching"]
           /\ UNCHANGED <<bundle, answer>>
  <2>1. pc'[r] = "fetching" /\ \A s \in Runs \ {r} : pc'[s] = pc[s]
      BY <1>6 DEF IInv, TypeOK
  <2>2. TypeOK'
    <3>1. pc' \in [Runs -> {"idle"} \cup Fetching \cup Ended]
        BY <1>6 DEF IInv, TypeOK, Fetching
    <3> QED
        BY <1>2, <1>5, <1>6, <3>1, Zenon DEF IInv, TypeOK
  <2>3. OthersKept(r)
      BY <1>2, <1>5, <1>6, <2>1, Zenon DEF OthersKept
  <2>4. RunInOrder(r)'
    <3>1. Len(tried'[r]) >= 1
        BY <1>5, <1>6, Zenon
    <3> QED
        BY <1>1, <1>2, <1>6, <2>1, <3>1 DEF RunInOrder
  <2>5. CacheFits /\ Escalates(tried[r])'
      BY <1>5, <1>6, Zenon
  <2> QED
      BY <2>1, <2>2, <2>3, <2>4, <2>5, StepKeeps
<1>7. CASE /\ Len(tried[r]) < MaxAttempts(q)
           /\ tried' = [tried EXCEPT ![r] = grown]
           /\ cache' = IF q.cacheMode = "bypass" THEN cache ELSE AfterGet(key)
           /\ Hits(q, plan)
           /\ Serve(r, q, cache[At(key)].bundle)
  <2> DEFINE b == cache[At(key)].bundle
  <2>1. /\ b \in Runs \ {r} /\ bundle[b] \in Bundles /\ bundle[b] # None
        /\ Separable(q) => SameSubject(request[b], q) /\ bundle[b].plan = plan
      BY <1>7, HitFacts DEF Hits
  <2>2. Serve(r, q, b) /\ TypeOK
      BY <1>7 DEF IInv
  <2> HIDE DEF b
  <2>3. PICK x \in {"none", "plain", "structured"} :
           /\ bundle' = [bundle EXCEPT ![b] = Retraced(bundle[b], r, x)]
           /\ bundle[b].rendered # "none" => x = bundle[b].rendered
           /\ \/ End(r, "raised", None)
              \/ End(r, "returned", b) /\ (q.render # "none" => x # "none")
      BY <2>1, <2>2, ServeFacts, Zenon
  <2>4. /\ Retraced(bundle[b], r, x) \in Bundles
        /\ Retraced(bundle[b], r, x).plan = bundle[b].plan
        /\ Retraced(bundle[b], r, x).rendered = x
    <3>1. x \in {"none", "plain", "structured"}
        BY <2>3
    <3>2. ASSUME NEW old \in Bundles
          PROVE  /\ Retraced(old, r, x) \in Bundles
                 /\ Retraced(old, r, x).plan = old.plan /\ Retraced(old, r, x).rendered = x
        BY <3>1 DEF Retraced, Bundles
    <3> QED
        BY <2>1, <3>2, Zenon
  <2>5. /\ bundle' \in [Runs -> Bundles \cup {None}]
        /\ bundle'[b] = Retraced(bundle[b], r, x)
        /\ \A s \in Runs \ {b} : bundle'[s] = bundle[s]
      BY <2>1, <2>2, <2>3, <2>4 DEF TypeOK
  <2>6. bundle'[b] # None
      BY <2>4, <2>5, CrawlerAssumption
  <2>7. /\ pc' \in [Runs -> {"idle"} \cup Fetching \cup Ended] /\ answer' \in [Runs -> Runs \cup {None}]
        /\ \A s \in Runs \ {r} : pc'[s] = pc[s] /\ answer'[s] = answer[s]
        /\ \/ pc'[r] = "raised" /\ answer'[r] = None
           \/ pc'[r] = "returned" /\ answer'[r] = b /\ (q.render # "none" => x # "none")
      BY <2>1, <2>2, <2>3 DEF End, TypeOK, Ended
  <2>8. TypeOK'
      BY <1>2, <1>5, <1>7, <2>5, <2>7, Zenon DEF TypeOK
  <2>9. OthersKept(r)
    <3> SUFFICES ASSUME NEW s \in Runs \ {r}
                 PROVE  /\ bundle[s] = None => bundle'[s] = None
                        /\ bundle[s] # None =>
                             /\ bundle'[s] # None /\ bundle'[s].plan = bundle[s].plan
                             /\ bundle[s].rendered # "none" => bundle'[s].rendered = bundle[s].rendered
        BY <1>2, <1>5, <1>7, <2>7, Zenon DEF OthersKept
    <3>1. CASE s = b
        BY <2>1, <2>3, <2>4, <2>5, <2>6, <3>1, Zenon
    <3>2. CASE s \in Runs \ {b}
        BY <2>5, <3>2, Zenon
    <3> QED
        BY <3>1, <3>2
  <2>10. RunInOrder(r)'
    <3>1. Len(tried'[r]) >= 1
        BY <1>5, <1>7, Zenon
    <3>2. bundle'[r] = None
        BY <1>1, <2>1, <2>5
    <3> QED
        BY <1>2, <2>1, <2>7, <3>1, <3>2 DEF RunInOrder
  <2>11. ASSUME pc'[r] = "returned" PROVE Fits(r)'
    <3>1. answer'[r] = b /\ (q.render # "none" => x # "none")
        BY <2>7, <2>11
    <3>2. request'[b] = request[b] /\ request'[r] = q /\ Plan(r)' = plan
        BY <1>2, <1>5, <1>7, <2>1, Zenon
    <3>3. bundle'[b].plan = bundle[b].plan /\ bundle'[b].rendered = x
        BY <2>4, <2>5
    <3>4. q.cacheMode = "prefer"
        BY <1>7 DEF Hits
    <3> QED
        BY <2>1, <2>6, <3>1, <3>2, <3>3, <3>4, Zenon DEF Fits
  <2>12. CacheFits /\ Escalates(tried[r])'
      BY <1>5, <1>7, Zenon
  <2> QED
      BY <2>8, <2>9, <2>10, <2>11, <2>12, StepKeeps, Zenon
<1> QED
    BY <1>4, <1>6, <1>7, Zenon DEF NextAttempt

(* A run starts with the plan the policy builds.                            *)
LEMMA StartInv == ASSUME IInv, NEW r \in Runs, Start(r) PROVE IInv'
<1>1. PICK q \in Requests : request' = [request EXCEPT ![r] = q] /\ NextAttempt(r, q, BuildPlan(q))
    BY DEF Start
<1>2. pc[r] = "idle"
    BY DEF Start
<1>3. tried[r] = <<>>
    BY <1>2 DEF IInv, RunOrder, RunInOrder
<1>4. BuildPlan(q) \in Plans /\ MayFollow(tried[r], BuildPlan(q))
    BY <1>3, FirstPlan, Zenon
<1> QED
    BY <1>1, <1>2, <1>4, NextAttemptInv DEF Ended

(* It goes on with the plan that follows.                                   *)
LEMMA AttemptFailsInv == ASSUME IInv, NEW r \in Runs, AttemptFails(r) PROVE IInv'
<1> DEFINE q == request[r]
<1>1. pc[r] \in Fetching /\ NextAttempt(r, q, Fallback(Plan(r))) /\ request' = request
    BY DEF AttemptFails
<1>2. q \in Requests /\ Len(tried[r]) >= 1
    BY <1>1 DEF IInv, RunOrder, RunInOrder, Fetching
<1>3. tried[r] \in Seq(Plans) /\ Escalates(tried[r])
    BY DEF IInv, TypeOK, Escalation
<1>4. Fallback(Plan(r)) \in Plans /\ MayFollow(tried[r], Fallback(Plan(r)))
    BY <1>2, <1>3, NextPlan, Zenon DEF Plan
<1>5. request' = [request EXCEPT ![r] = q]
    BY <1>1 DEF IInv, TypeOK
<1>6. pc[r] \notin Ended
    BY <1>1 DEF Fetching, Ended
<1> QED
    BY <1>1, <1>2, <1>4, <1>5, <1>6, NextAttemptInv, Zenon

(* What the invariant says of runs does not depend on the cache.            *)
LEMMA RunsKept ==
  ASSUME IInv, UNCHANGED <<request, pc, tried, bundle, answer>>
  PROVE  AnswerFits' /\ RunOrder' /\ Escalation'
<1>1. AnswerFits'
    BY DEF IInv, AnswerFits, Plan
<1>2. RunOrder'
  <2> SUFFICES ASSUME NEW r \in Runs PROVE RunInOrder(r)'
      BY Zenon DEF RunOrder
  <2>1. RunInOrder(r) /\ MaxAttempts(request'[r]) = MaxAttempts(request[r])
      BY DEF IInv, RunOrder
  <2> QED
      BY <2>1 DEF RunInOrder
<1>3. Escalation'
  <2> SUFFICES ASSUME NEW r \in Runs PROVE Escalates(tried[r])'
      BY Zenon DEF Escalation
  <2>1. Escalates(tried[r]) /\ tried'[r] = tried[r]
      BY DEF IInv, Escalation
  <2> QED
      BY <2>1, Zenon DEF Escalates
<1> QED
    BY <1>1, <1>2, <1>3

(* An entry that expires stays where it is until it is looked up.           *)
LEMMA ExpireInv == ASSUME IInv, Expire PROVE IInv'
<1>1. PICK k \in DOMAIN cache : cache' = [cache EXCEPT ![k].stale = TRUE]
    BY DEF Expire
<1>2. /\ request' = request /\ pc' = pc /\ tried' = tried /\ bundle' = bundle /\ answer' = answer
    BY DEF Expire
<1>3. cache \in Seq(Entries)
    BY DEF IInv, TypeOK
<1>4. cache[k] \in Entries
    BY <1>3, ElementOfSeq, LenProperties
<1> DEFINE e == [cache[k] EXCEPT !.stale = TRUE]
<1>5. e \in Entries /\ e.key = cache[k].key /\ e.bundle = cache[k].bundle
    BY <1>4 DEF Entries
<1>6. cache' = [cache EXCEPT ![k] = e]
    BY <1>1
<1> HIDE DEF e
<1>7. /\ cache' \in Seq(Entries) /\ Len(cache') = Len(cache) /\ DOMAIN cache' = DOMAIN cache
      /\ \A j \in DOMAIN cache : cache'[j] = IF j = k THEN e ELSE cache[j]
    BY <1>3, <1>5, <1>6, ExceptSeq, LenProperties
<1>8. \A j \in DOMAIN cache' : cache'[j].key = cache[j].key /\ cache'[j].bundle = cache[j].bundle
    BY <1>5, <1>7
<1>9. CacheSound'
    BY <1>2, <1>7, <1>8 DEF IInv, CacheSound, MakeKey
<1>10. TypeOK'
    BY <1>2, <1>7, Zenon DEF IInv, TypeOK
<1> QED
    BY <1>2, <1>9, <1>10, RunsKept DEF IInv

(* Every step keeps the invariant.                                          *)
LEMMA NextInv == IInv /\ [Next]_vars => IInv'
<1> SUFFICES ASSUME IInv, [Next]_vars PROVE IInv'
    OBVIOUS
<1>1. ASSUME NEW r \in Runs, Start(r) \/ RunStep(r) PROVE IInv'
    BY <1>1, StartInv, AttemptFailsInv, FetchTypeErrorInv, PageRaisesInv, PageAcceptedInv, Zenon DEF RunStep
<1>2. CASE UNCHANGED vars
  <2>1. UNCHANGED <<request, pc, tried, bundle, answer>> /\ cache' = cache
      BY <1>2 DEF vars
  <2>2. TypeOK'
      BY <2>1 DEF IInv, TypeOK
  <2>3. CacheSound'
      BY <2>1 DEF IInv, CacheSound, MakeKey
  <2> QED
      BY <2>1, <2>2, <2>3, RunsKept DEF IInv
<1> QED
    BY <1>1, <1>2, ExpireInv, Zenon DEF Next

-----------------------------------------------------------------------------
(* The invariant holds in every reachable state.                            *)
THEOREM InductiveInvariant == Spec => []IInv
<1> QED
    BY InitInv, NextInv, PTL DEF Spec

(* The runner's state and the cache are type correct.                       *)
THEOREM TypeCorrect == Spec => []TypeOK
<1>1. IInv => TypeOK
    BY DEF IInv
<1> QED
    BY <1>1, InductiveInvariant, PTL

(* Whatever the runs and the clock do to it, the cache keeps one entry per  *)
(* key, max_entries of them at most, and only pages that their runs have    *)
(* returned, filed under the plan that made them (ResultCache.get and put,  *)
(* CrawlerRunner.run).                                                      *)
THEOREM CacheIsSound == Spec => []CacheSound
<1>1. IInv => CacheSound
    BY DEF IInv
<1> QED
    BY <1>1, InductiveInvariant, PTL

(* What run() returns fits what it was asked: same page, query, profile and *)
(* plan, rendered if asked, its own unless the cache may be preferred, for  *)
(* any number of concurrent runs, requests and sites.                       *)
THEOREM AnswersFit == Spec => []AnswerFits
<1>1. IInv => AnswerFits
    BY DEF IInv
<1> QED
    BY <1>1, InductiveInvariant, PTL

(* However often its attempts fail, a run goes from http to the browser and *)
(* never back (PolicyEngine.update_plan_on_failure, _fallback).             *)
THEOREM FallbackMakesProgress == Spec => []FallbackGetsOn
<1>1. IInv => FallbackGetsOn
  <2> SUFFICES ASSUME IInv, NEW r \in Runs
               PROVE  /\ \A i, j \in DOMAIN tried[r] : i < j =>
                            /\ tried[r][j].transport = "browser"
                            /\ tried[r][i] = tried[r][j] => tried[r][i].extract # "universal"
                      /\ pc[r] = "failed" /\ request[r].attempts >= 2 =>
                            \E i \in DOMAIN tried[r] : tried[r][i].transport = "browser"
      BY Zenon DEF FallbackGetsOn
  <2> DEFINE t == tried[r]
  <2>1. Escalates(t) /\ Len(t) \in Nat /\ DOMAIN t = 1..Len(t)
    <3>1. t \in Seq(Plans)
        BY DEF IInv, TypeOK
    <3> QED
        BY <3>1, LenProperties, Zenon DEF IInv, Escalation
  <2>2. ASSUME pc[r] = "failed", request[r].attempts >= 2 PROVE Len(t) >= 2
    <3>1. request[r] \in Requests /\ Len(t) >= MaxAttempts(request[r])
        BY <2>2 DEF IInv, RunOrder, RunInOrder
    <3>2. MaxAttempts(request[r]) = request[r].attempts /\ request[r].attempts \in Nat
        BY <2>2, <3>1, RequestShape DEF MaxAttempts
    <3> QED
        BY <2>1, <2>2, <3>1, <3>2
  <2> HIDE DEF t
  <2>3. ASSUME NEW i \in DOMAIN t, NEW j \in DOMAIN t, i < j
        PROVE  t[j].transport = "browser" /\ (t[i] = t[j] => t[i].extract # "universal")
    <3>1. j >= 2 /\ (j = 2 => i = 1)
        BY <2>1, <2>3
    <3>2. /\ t[j].transport = "browser"
          /\ t[j].extract = "universal" => j = 2 /\ t[1].transport = "http"
        BY <2>1, <3>1, Zenon DEF Escalates
    <3> QED
        BY <3>1, <3>2
  <2>4. Len(t) >= 2 => \E i \in DOMAIN t : t[i].transport = "browser"
    <3>1. Len(t) >= 2 => 1 \in DOMAIN t /\ 2 \in DOMAIN t /\ 1 < 2
        BY <2>1
    <3> QED
        BY <2>3, <3>1, Zenon
  <2> QED
      BY <2>2, <2>3, <2>4, Zenon DEF t
<1> QED
    BY <1>1, InductiveInvariant, PTL

(* What changes a bundle of a run that has ended is a hit by another run.   *)
LEMMA OnlyHitsTouch ==
  ASSUME IInv, Next, NEW b \in Runs, bundle[b] # None, bundle'[b] # bundle[b]
  PROVE  \E r \in Runs, q \in Requests, plan \in Plans :
           pc[r] \notin Ended /\ Hits(q, plan) /\ Serve(r, q, cache[At(MakeKey(q, plan))].bundle)
<1>1. ASSUME NEW r \in Runs, NEW q, NEW plan, NextAttempt(r, q, plan)
      PROVE  Hits(q, plan) /\ Serve(r, q, cache[At(MakeKey(q, plan))].bundle)
    BY <1>1, Zenon DEF NextAttempt
<1>2. ~Expire
    BY DEF Expire
<1>3. ASSUME NEW r \in Runs, Start(r) PROVE \E q \in Requests, plan \in Plans :
           pc[r] \notin Ended /\ Hits(q, plan) /\ Serve(r, q, cache[At(MakeKey(q, plan))].bundle)
  <2>1. PICK q \in Requests : NextAttempt(r, q, BuildPlan(q))
      BY <1>3 DEF Start
  <2>2. pc[r] \notin Ended
      BY <1>3 DEF Start, Ended
  <2> QED
      BY <1>1, <2>1, <2>2, FirstPlan, Zenon
<1>4. ASSUME NEW r \in Runs, AttemptFails(r) PROVE \E q \in Requests, plan \in Plans :
           pc[r] \notin Ended /\ Hits(q, plan) /\ Serve(r, q, cache[At(MakeKey(q, plan))].bundle)
  <2>1. NextAttempt(r, request[r], Fallback(Plan(r))) /\ pc[r] \in Fetching
      BY <1>4 DEF AttemptFails
  <2>2. pc[r] \notin Ended /\ request[r] \in Requests /\ Len(tried[r]) >= 1
      BY <2>1 DEF Fetching, Ended, IInv, RunOrder, RunInOrder
  <2>3. tried[r] \in Seq(Plans) /\ Escalates(tried[r])
      BY DEF IInv, TypeOK, Escalation
  <2>4. Fallback(Plan(r)) \in Plans
      BY <2>2, <2>3, NextPlan, Zenon DEF Plan
  <2> QED
      BY <1>1, <2>1, <2>2, <2>4, Zenon
<1>5. ASSUME NEW r \in Runs PROVE ~FetchTypeError(r) /\ ~PageRaises(r) /\ ~PageAccepted(r)
  <2>1. ~FetchTypeError(r) /\ ~PageRaises(r)
      BY DEF FetchTypeError, PageRaises
  <2>2. ASSUME PageAccepted(r) PROVE FALSE
    <3>1. PICK new : bundle' = [bundle EXCEPT ![r] = new]
        BY <2>2 DEF PageAccepted
    <3>2. b # r
        BY <2>2 DEF PageAccepted, Good, Fetching, IInv, RunOrder, RunInOrder
    <3> QED
        BY <3>1, <3>2 DEF IInv, TypeOK
  <2> QED
      BY <2>1, <2>2
<1> QED
    BY <1>2, <1>3, <1>4, <1>5, Zenon DEF Next, RunStep

(* A page that callers hold keeps its content: a later hit gives it the     *)
(* trace of its own run, and renders it if nobody has (runner.py:80).       *)
THEOREM AnswersAreStable == Spec => HeldAnswersAreStable
<1>1. ASSUME IInv, Next, NEW b \in Runs, bundle[b] # None, bundle'[b] # bundle[b]
      PROVE  /\ \E r \in Runs : pc[r] \notin Ended /\ pc'[r] \in Ended /\ bundle'[b].trace = r
             /\ bundle'[b] = [bundle[b] EXCEPT !.trace = bundle'[b].trace, !.rendered = bundle'[b].rendered]
             /\ bundle[b].rendered # "none" => bundle'[b].rendered = bundle[b].rendered
  <2>1. PICK r \in Runs, q \in Requests, plan \in Plans :
           pc[r] \notin Ended /\ Hits(q, plan) /\ Serve(r, q, cache[At(MakeKey(q, plan))].bundle)
      BY <1>1, OnlyHitsTouch
  <2> DEFINE c == cache[At(MakeKey(q, plan))].bundle
  <2>2. c \in Runs /\ bundle[c] # None
      BY <1>1, <2>1, HitFacts DEF Hits
  <2>3. TypeOK
      BY <1>1 DEF IInv
  <2>4. Serve(r, q, c)
      BY <2>1
  <2> HIDE DEF c
  <2>5. PICK x \in {"none", "plain", "structured"} :
           /\ bundle' = [bundle EXCEPT ![c] = Retraced(bundle[c], r, x)]
           /\ bundle[c].rendered # "none" => x = bundle[c].rendered
           /\ \/ End(r, "raised", None)
              \/ End(r, "returned", c) /\ (q.render # "none" => x # "none")
      BY <2>2, <2>3, <2>4, ServeFacts, Zenon
  <2>6. b = c /\ bundle'[b] = Retraced(bundle[b], r, x)
      BY <1>1, <2>2, <2>3, <2>5 DEF TypeOK
  <2>7. bundle[b] \in Bundles
      BY <1>1, <2>3 DEF TypeOK
  <2>8. bundle'[b].trace = r /\ bundle'[b].rendered = x
      BY <2>5, <2>6, <2>7 DEF Retraced, Bundles
  <2>9. pc'[r] \in Ended
      BY <2>3, <2>5 DEF End, TypeOK, Ended
  <2> QED
      BY <2>1, <2>5, <2>6, <2>8, <2>9, Zenon DEF Retraced
<1>2. IInv /\ [Next]_vars =>
        [\A b \in Runs : bundle[b] # None /\ bundle'[b] # bundle[b] =>
           /\ \E r \in Runs : pc[r] \notin Ended /\ pc'[r] \in Ended /\ bundle'[b].trace = r
           /\ bundle'[b] = [bundle[b] EXCEPT !.trace = bundle'[b].trace, !.rendered = bundle'[b].rendered]
           /\ bundle[b].rendered # "none" => bundle'[b].rendered = bundle[b].rendered]_vars
    BY <1>1, Zenon
<1> QED
    BY <1>2, InductiveInvariant, PTL DEF Spec, HeldAnswersAreStable
=============================================================================
