--------------------------- MODULE ListLinksProofs ---------------------------
(***************************************************************************)
(* Lemmas on the pointer operations of ListLinks, for any set T of item    *)
(* blocks: each takes a memory that is Linked to a sequence to one that is *)
(* Linked to the sequence the operation means.  The proofs about the list  *)
(* itself and about its clients rest on them.                              *)
(***************************************************************************)
EXTENDS ListLinks, SequencesExt, SequenceTheorems, FiniteSetTheorems, WellFoundedInduction, TLAPS

(* InsertAt: length and members. *)
LEMMA InsertAtProps ==
    ASSUME NEW S, NEW s \in Seq(S), NEW k \in 1 .. (Len(s) + 1), NEW e \in S
    PROVE  /\ InsertAt(s, k, e) \in Seq(S)
           /\ Len(InsertAt(s, k, e)) = Len(s) + 1
           /\ \A j \in 1 .. (Len(s) + 1) :
                 InsertAt(s, k, e)[j] = IF j < k THEN s[j] ELSE IF j = k THEN e ELSE s[j - 1]
<1> DEFINE a == SubSeq(s, 1, k - 1)
           b == SubSeq(s, k, Len(s))
<1>0. Len(s) \in Nat BY LenProperties
<1>1. a \in Seq(S) /\ Len(a) = k - 1 /\ \A j \in 1 .. (k - 1) : a[j] = s[j]
  BY <1>0, SubSeqProperties
<1>2. b \in Seq(S) /\ Len(b) = Len(s) - k + 1 /\ \A j \in 1 .. (Len(s) - k + 1) : b[j] = s[k + j - 1]
  BY <1>0, SubSeqProperties
<1>3. <<e>> \in Seq(S) /\ Len(<<e>>) = 1 /\ <<e>>[1] = e
  OBVIOUS
<1> HIDE DEF a, b
<1>4. /\ a \o <<e>> \in Seq(S)
      /\ Len(a \o <<e>>) = k
      /\ \A j \in 1 .. k : (a \o <<e>>)[j] = IF j < k THEN s[j] ELSE e
  BY <1>0, <1>1, <1>3, ConcatProperties
<1>5. InsertAt(s, k, e) = (a \o <<e>>) \o b
  BY DEF InsertAt, a, b
<1> QED
  BY <1>0, <1>2, <1>4, <1>5, ConcatProperties

(* RemoveAt: length and members. *)
LEMMA RemoveAtProps ==
    ASSUME NEW S, NEW s \in Seq(S), NEW k \in 1 .. Len(s)
    PROVE  /\ RemoveAt(s, k) \in Seq(S)
           /\ Len(RemoveAt(s, k)) = Len(s) - 1
           /\ \A j \in 1 .. (Len(s) - 1) :
                 RemoveAt(s, k)[j] = IF j < k THEN s[j] ELSE s[j + 1]
<1> DEFINE a == SubSeq(s, 1, k - 1)
           b == SubSeq(s, k + 1, Len(s))
<1>0. Len(s) \in Nat BY LenProperties
<1>1. a \in Seq(S) /\ Len(a) = k - 1 /\ \A j \in 1 .. (k - 1) : a[j] = s[j]
  BY <1>0, SubSeqProperties
<1>2. b \in Seq(S) /\ Len(b) = Len(s) - k /\ \A j \in 1 .. (Len(s) - k) : b[j] = s[k + j]
  BY <1>0, SubSeqProperties
<1>3. RemoveAt(s, k) = a \o b
  BY DEF RemoveAt, a, b
<1> HIDE DEF a, b
<1>4. /\ a \o b \in Seq(S) /\ Len(a \o b) = Len(s) - 1
      /\ \A j \in 1 .. (Len(s) - 1) : (a \o b)[j] = IF j < k THEN a[j] ELSE b[j - (k - 1)]
  BY <1>0, <1>1, <1>2, ConcatProperties
<1>5. ASSUME NEW j \in 1 .. (Len(s) - 1) PROVE (a \o b)[j] = IF j < k THEN s[j] ELSE s[j + 1]
  <2>1. CASE j < k BY <2>1, <1>0, <1>1, <1>4
  <2>2. CASE ~ (j < k)
    <3>1. j - (k - 1) \in 1 .. (Len(s) - k) /\ k + (j - (k - 1)) = j + 1 BY <2>2, <1>0
    <3> QED BY <2>2, <3>1, <1>2, <1>4
  <2> QED BY <2>1, <2>2
<1> QED BY <1>3, <1>4, <1>5

(* Front: length and members. *)
LEMMA FrontProps ==
    ASSUME NEW S, NEW s \in Seq(S), s # <<>>
    PROVE  /\ Front(s) \in Seq(S)
           /\ Len(Front(s)) = Len(s) - 1
           /\ \A j \in 1 .. (Len(s) - 1) : Front(s)[j] = s[j]
<1>1. Len(s) \in Nat /\ Len(s) # 0
  BY EmptySeq, LenProperties
<1> DEFINE n == Len(s) - 1
<1>2. n \in Nat /\ 1 \in Int /\ n \in Int /\ \A j \in 1 .. n : s[j] \in S
  BY <1>1, ElementOfSeq
<1>3. /\ SubSeq(s, 1, n) \in Seq(S)
      /\ Len(SubSeq(s, 1, n)) = IF 1 <= n THEN n - 1 + 1 ELSE 0
      /\ \A j \in 1 .. (n - 1 + 1) : SubSeq(s, 1, n)[j] = s[1 + j - 1]
  <2> HIDE DEF n
  <2> QED BY <1>2, SubSeqProperties
<1>4. Front(s) = SubSeq(s, 1, n)
  BY DEF Front
<1> HIDE DEF n
<1>5. Len(Front(s)) = n /\ \A j \in 1 .. n : Front(s)[j] = s[j]
  BY <1>2, <1>3, <1>4
<1> QED
  BY <1>3, <1>4, <1>5 DEF n

-----------------------------------------------------------------------------
(* Appending keeps the ring linked, empty or not. *)
LEMMA LinkEndLinks ==
    ASSUME NEW T, NULL \notin T, NEW m \in Memories(T), NEW s \in Seq(T), NEW i \in T,
           Linked(m, s), Distinct(s), \A k \in 1 .. Len(s) : s[k] # i
    PROVE  /\ LinkEnd(m, i) \in Memories(T)
           /\ Linked(LinkEnd(m, i), Append(s, i))
<1> DEFINE t == Append(s, i)
           r == LinkEnd(m, i)
<1>0. Len(s) \in Nat /\ (s = <<>> <=> Len(s) = 0) /\ \A k \in 1 .. Len(s) : s[k] \in T
  BY EmptySeq, LenProperties, ElementOfSeq
<1>1. t # <<>> /\ Len(t) = Len(s) + 1 /\ t[Len(s) + 1] = i /\ \A k \in 1 .. Len(s) : t[k] = s[k]
  BY <1>0, AppendProperties
<1>2. CASE s = <<>>
  BY <1>0, <1>1, <1>2 DEF LinkEnd, LinkAlone, Memories, Linked, Chained
<1>3. CASE s # <<>>
  <2>0. Len(s) \in Nat \ {0} BY <1>0, <1>3
  <2>1. /\ m.last = s[Len(s)] /\ m.next[s[Len(s)]] = s[1] /\ m.prev[s[1]] = s[Len(s)]
        /\ Chained(m, s)
    BY <1>3 DEF Linked
  <2>2. m.last # NULL
    BY <1>0, <2>0, <2>1
  <2>3. /\ r.last = i
        /\ r.next = [m.next EXCEPT ![i] = s[1], ![s[Len(s)]] = i]
        /\ r.prev = [m.prev EXCEPT ![i] = s[Len(s)], ![s[1]] = i]
        /\ r \in Memories(T)
    BY <1>0, <2>0, <2>1, <2>2 DEF LinkEnd, LinkBetween, Memories
  <2> HIDE DEF r, t
  <2>4. r.next[i] = s[1] /\ r.next[s[Len(s)]] = i /\ r.prev[s[1]] = i /\ r.prev[i] = s[Len(s)]
    BY <1>0, <2>0, <2>3 DEF Memories
  <2>5. ASSUME NEW k \in 1 .. (Len(s) - 1)
        PROVE  r.next[s[k]] = s[k + 1] /\ r.prev[s[k + 1]] = s[k]
    <3>1. s[k] # s[Len(s)] /\ s[k + 1] # s[1] /\ s[k] # i /\ s[k + 1] # i /\ s[k] \in T /\ s[k + 1] \in T
      BY <1>0, <2>0 DEF Distinct
    <3> QED BY <3>1, <2>0, <2>1, <2>3 DEF Chained, Memories
  <2>6. r.last = t[Len(t)] /\ r.next[t[Len(t)]] = t[1] /\ r.prev[t[1]] = t[Len(t)]
    BY <1>0, <1>1, <2>0, <2>3, <2>4 DEF t
  <2>7. ASSUME NEW k \in 1 .. (Len(t) - 1)
        PROVE  r.next[t[k]] = t[k + 1] /\ r.prev[t[k + 1]] = t[k]
    <3>1. CASE k < Len(s) BY <3>1, <1>0, <1>1, <2>0, <2>5 DEF t
    <3>2. CASE k = Len(s) BY <3>2, <1>0, <1>1, <2>0, <2>4 DEF t
    <3> QED BY <3>1, <3>2, <1>1, <2>0 DEF t
  <2>8. Linked(r, t)
    BY <1>1, <2>6, <2>7 DEF Linked, Chained, t
  <2> QED
    BY <2>3, <2>8 DEF r, t
<1> QED BY <1>2, <1>3

(* Inserting in front of the k-th member keeps the ring linked; in front   *)
(* of the first one the new item is the head, although Last stays.         *)
LEMMA LinkBeforeLinks ==
    ASSUME NEW T, NULL \notin T, NEW m \in Memories(T), NEW s \in Seq(T), NEW i \in T,
           NEW k \in 1 .. Len(s), Linked(m, s), Distinct(s), \A j \in 1 .. Len(s) : s[j] # i
    PROVE  /\ LinkBefore(m, i, s[k]) \in Memories(T)
           /\ Linked(LinkBefore(m, i, s[k]), InsertAt(s, k, i))
<1> DEFINE t == InsertAt(s, k, i)
           r == LinkBefore(m, i, s[k])
           p == IF k = 1 THEN s[Len(s)] ELSE s[k - 1]
<1>0. Len(s) \in Nat \ {0} /\ s # <<>> /\ \A j \in 1 .. Len(s) : s[j] \in T
  BY EmptySeq, LenProperties, ElementOfSeq
<1>1. /\ t \in Seq(T)
      /\ Len(t) = Len(s) + 1
      /\ \A j \in 1 .. (Len(s) + 1) : t[j] = IF j < k THEN s[j] ELSE IF j = k THEN i ELSE s[j - 1]
  BY <1>0, InsertAtProps
<1>2. /\ m.last = s[Len(s)] /\ m.next[s[Len(s)]] = s[1] /\ m.prev[s[1]] = s[Len(s)]
      /\ Chained(m, s)
  BY <1>0 DEF Linked
<1>3. m.prev[s[k]] = p /\ p \in T
  BY <1>0, <1>2 DEF Chained
<1>4. m.last # NULL /\ s[k] # NULL
  BY <1>0, <1>2
<1>5. /\ r.last = s[Len(s)]
      /\ r.next = [m.next EXCEPT ![i] = s[k], ![p] = i]
      /\ r.prev = [m.prev EXCEPT ![i] = p, ![s[k]] = i]
      /\ r \in Memories(T)
  BY <1>0, <1>2, <1>3, <1>4 DEF LinkBefore, LinkBetween, Memories
<1> HIDE DEF r, t, p
<1>6. p # i BY <1>0 DEF p
<1>7. r.next[i] = s[k] /\ r.next[p] = i /\ r.prev[s[k]] = i /\ r.prev[i] = p
  BY <1>0, <1>3, <1>5, <1>6 DEF Memories
<1>8. /\ \A j \in 1 .. Len(s) : s[j] # p => r.next[s[j]] = m.next[s[j]]
      /\ \A j \in 1 .. Len(s) : j # k => r.prev[s[j]] = m.prev[s[j]]
  BY <1>0, <1>3, <1>5 DEF Memories, Distinct
<1>9. \A j \in 1 .. Len(s) : s[j] = p <=> j = IF k = 1 THEN Len(s) ELSE k - 1
  BY <1>0 DEF p, Distinct
<1>10. t # <<>> BY <1>0, <1>1
<1>11. r.last = t[Len(t)] BY <1>0, <1>1, <1>5
<1>12. r.next[t[Len(t)]] = t[1]
  BY <1>0, <1>1, <1>2, <1>7, <1>8, <1>9
<1>13. r.prev[t[1]] = t[Len(t)]
  <2>1. CASE k = 1 BY <2>1, <1>0, <1>1, <1>7 DEF p
  <2>2. CASE k # 1 BY <2>2, <1>0, <1>1, <1>2, <1>8
  <2> QED BY <2>1, <2>2
<1>14. ASSUME NEW j \in 1 .. (Len(t) - 1)
       PROVE  r.next[t[j]] = t[j + 1] /\ r.prev[t[j + 1]] = t[j]
  <2>1. j \in 1 .. Len(s) BY <1>0, <1>1
  <2>2. CASE j + 1 < k
    <3>1. t[j] = s[j] /\ t[j + 1] = s[j + 1] BY <2>1, <2>2, <1>0, <1>1
    <3>2. m.next[s[j]] = s[j + 1] /\ m.prev[s[j + 1]] = s[j] BY <2>1, <2>2, <1>0, <1>2 DEF Chained
    <3> QED BY <2>1, <2>2, <3>1, <3>2, <1>0, <1>8, <1>9
  <2>3. CASE j + 1 = k
    <3>1. t[j] = s[j] /\ t[j + 1] = i /\ p = s[j] BY <2>1, <2>3, <1>0, <1>1 DEF p
    <3> QED BY <3>1, <1>7
  <2>4. CASE j = k
    <3>1. t[j] = i /\ t[j + 1] = s[k] BY <2>1, <2>4, <1>0, <1>1
    <3> QED BY <3>1, <1>7
  <2>5. CASE j > k
    <3>1. t[j] = s[j - 1] /\ t[j + 1] = s[j] BY <2>1, <2>5, <1>0, <1>1
    <3>2. m.next[s[j - 1]] = s[j] /\ m.prev[s[j]] = s[j - 1] BY <2>1, <2>5, <1>0, <1>2 DEF Chained
    <3> QED BY <2>1, <2>5, <3>1, <3>2, <1>0, <1>8, <1>9
  <2> QED BY <2>1, <2>2, <2>3, <2>4, <2>5, <1>0
<1> QED
  BY <1>5, <1>10, <1>11, <1>12, <1>13, <1>14 DEF Linked, Chained, r, t

(* Unlinking the k-th member leaves the others linked. *)
LEMMA UnlinkLinks ==
    ASSUME NEW T, NULL \notin T, NEW m \in Memories(T), NEW s \in Seq(T), NEW k \in 1 .. Len(s),
           Linked(m, s), Distinct(s)
    PROVE  /\ Unlink(m, s[k]) \in Memories(T)
           /\ Linked(Unlink(m, s[k]), RemoveAt(s, k))
<1> DEFINE t == RemoveAt(s, k)
           i == s[k]
           r == Unlink(m, i)
           p == IF k = 1 THEN s[Len(s)] ELSE s[k - 1]
           n == IF k = Len(s) THEN s[1] ELSE s[k + 1]
<1>0. Len(s) \in Nat \ {0} /\ s # <<>> /\ \A j \in 1 .. Len(s) : s[j] \in T
  BY EmptySeq, LenProperties, ElementOfSeq
<1>1. /\ t \in Seq(T)
      /\ Len(t) = Len(s) - 1
      /\ \A j \in 1 .. (Len(s) - 1) : t[j] = IF j < k THEN s[j] ELSE s[j + 1]
  BY <1>0, RemoveAtProps
<1>2. /\ m.last = s[Len(s)] /\ m.next[s[Len(s)]] = s[1] /\ m.prev[s[1]] = s[Len(s)]
      /\ Chained(m, s)
  BY <1>0 DEF Linked
<1>3. m.prev[i] = p /\ m.next[i] = n /\ p \in T /\ n \in T /\ i \in T
  BY <1>0, <1>2 DEF Chained
<1>4. CASE Len(s) = 1
  <2>1. k = 1 /\ n = i BY <1>4
  <2>2. r = [m EXCEPT !.last = NULL] /\ r \in Memories(T)
    BY <1>3, <2>1 DEF Unlink, Memories
  <2>3. t = <<>> BY <1>1, <1>4, EmptySeq
  <2> QED BY <2>2, <2>3 DEF Linked, Memories
<1>5. CASE Len(s) > 1
  <2>1. n # i /\ p # i
    <3>1. \A j \in 1 .. Len(s) : j # k => s[j] # s[k] BY DEF Distinct
    <3>2. CASE k = 1
      <4>1. n = s[2] /\ p = s[Len(s)] /\ 2 \in 1 .. Len(s) /\ Len(s) \in 1 .. Len(s)
        <5>1. k + 1 = 2 /\ k # Len(s) /\ 2 \in 1 .. Len(s) /\ Len(s) \in 1 .. Len(s)
          BY <3>2, <1>0, <1>5
        <5> QED BY <5>1, <3>2
      <4>2. s[2] # s[k] /\ s[Len(s)] # s[k]
        BY <4>1, <3>1, <3>2, <1>5
      <4> QED BY <4>1, <4>2
    <3>3. CASE k = Len(s) BY <3>1, <3>3, <1>0, <1>5
    <3>4. CASE k # 1 /\ k # Len(s) BY <3>1, <3>4, <1>0, <1>5
    <3> QED BY <3>2, <3>3, <3>4
  <2>2. /\ r.last = IF k = Len(s) THEN p ELSE s[Len(s)]
        /\ r.next = [m.next EXCEPT ![p] = n]
        /\ r.prev = [m.prev EXCEPT ![n] = p]
        /\ r \in Memories(T)
    BY <1>0, <1>2, <1>3, <2>1 DEF Unlink, Memories, Distinct
  <2> HIDE DEF r, t, p, n
  <2>3. r.next[p] = n /\ r.prev[n] = p
    BY <1>3, <2>2 DEF Memories
  <2>4. \A j \in 1 .. Len(s) : s[j] = p <=> j = IF k = 1 THEN Len(s) ELSE k - 1
    BY <1>0 DEF p, Distinct
  <2>5. \A j \in 1 .. Len(s) : s[j] = n <=> j = IF k = Len(s) THEN 1 ELSE k + 1
    BY <1>0 DEF n, Distinct
  <2>6. /\ \A j \in 1 .. Len(s) : s[j] # p => r.next[s[j]] = m.next[s[j]]
        /\ \A j \in 1 .. Len(s) : s[j] # n => r.prev[s[j]] = m.prev[s[j]]
    BY <1>0, <1>3, <2>2 DEF Memories
  <2>7. r.last = t[Len(t)] /\ r.next[t[Len(t)]] = t[1] /\ r.prev[t[1]] = t[Len(t)]
    <3>1. t[Len(t)] = IF k = Len(s) THEN s[Len(s) - 1] ELSE s[Len(s)]
      BY <1>0, <1>1, <1>5
    <3>2. t[1] = IF k = 1 THEN s[2] ELSE s[1]
      BY <1>0, <1>1, <1>5
    <3>3. CASE k = 1
      BY <1>0, <1>5, <2>2, <2>3, <3>1, <3>2, <3>3 DEF p, n
    <3>4. CASE k = Len(s)
      <4>1. k # 1 BY <3>4, <1>5
      <4>2. p = s[Len(s) - 1] /\ n = s[1] BY <3>4, <4>1 DEF p, n
      <4> QED BY <2>2, <2>3, <3>1, <3>2, <3>4, <4>1, <4>2
    <3>5. CASE k # 1 /\ k # Len(s)
      BY <1>0, <1>2, <1>5, <2>2, <2>4, <2>5, <2>6, <3>1, <3>2, <3>5
    <3> QED BY <3>3, <3>4, <3>5
  <2>8. ASSUME NEW j \in 1 .. (Len(t) - 1)
        PROVE  r.next[t[j]] = t[j + 1] /\ r.prev[t[j + 1]] = t[j]
    <3>0. j \in 1 .. (Len(s) - 2) BY <1>0, <1>1
    <3>1. CASE j + 1 < k
      <4>1. t[j] = s[j] /\ t[j + 1] = s[j + 1] BY <3>0, <3>1, <1>0, <1>1
      <4>2. m.next[s[j]] = s[j + 1] /\ m.prev[s[j + 1]] = s[j] BY <3>0, <1>0, <1>2 DEF Chained
      <4> QED BY <3>0, <3>1, <4>1, <4>2, <1>0, <2>4, <2>5, <2>6
    <3>2. CASE j + 1 = k
      <4>1. t[j] = p /\ t[j + 1] = n BY <3>0, <3>2, <1>0, <1>1 DEF p, n
      <4> QED BY <4>1, <2>3
    <3>3. CASE j + 1 > k
      <4>1. t[j] = s[j + 1] /\ t[j + 1] = s[j + 2] BY <3>0, <3>3, <1>0, <1>1
      <4>2. m.next[s[j + 1]] = s[j + 2] /\ m.prev[s[j + 2]] = s[j + 1]
        BY <3>0, <1>0, <1>2 DEF Chained
      <4> QED BY <3>0, <3>3, <4>1, <4>2, <1>0, <2>4, <2>5, <2>6
    <3> QED BY <3>0, <3>1, <3>2, <3>3, <1>0
  <2>9. t # <<>> BY <1>0, <1>1, <1>5
  <2>10. Linked(r, t) BY <2>7, <2>8, <2>9 DEF Linked, Chained
  <2> QED BY <2>2, <2>10 DEF r, t
<1> QED BY <1>0, <1>4, <1>5

(* Distinctness of what the sequence operations return. *)
LEMMA AppendDistinct ==
    ASSUME NEW T, NEW s \in Seq(T), NEW i \in T, Distinct(s), \A k \in 1 .. Len(s) : s[k] # i
    PROVE  Append(s, i) \in Seq(T) /\ Distinct(Append(s, i))
           /\ \A k \in 1 .. Len(Append(s, i)) : Append(s, i)[k] = i \/ \E j \in 1 .. Len(s) : Append(s, i)[k] = s[j]
<1>1. /\ Append(s, i) \in Seq(T) /\ Len(s) \in Nat
      /\ Len(Append(s, i)) = Len(s) + 1 /\ Append(s, i)[Len(s) + 1] = i
      /\ \A k \in 1 .. Len(s) : Append(s, i)[k] = s[k]
  OBVIOUS
<1> QED BY <1>1 DEF Distinct

LEMMA InsertAtDistinct ==
    ASSUME NEW T, NEW s \in Seq(T), NEW i \in T, NEW k \in 1 .. (Len(s) + 1),
           Distinct(s), \A j \in 1 .. Len(s) : s[j] # i
    PROVE  /\ InsertAt(s, k, i) \in Seq(T) /\ Distinct(InsertAt(s, k, i))
           /\ \A j \in 1 .. Len(InsertAt(s, k, i)) :
                 InsertAt(s, k, i)[j] = i \/ \E l \in 1 .. Len(s) : InsertAt(s, k, i)[j] = s[l]
<1> DEFINE t == InsertAt(s, k, i)
<1>0. Len(s) \in Nat BY LenProperties
<1>1. /\ t \in Seq(T)
      /\ Len(t) = Len(s) + 1
      /\ \A j \in 1 .. (Len(s) + 1) :
            t[j] = IF j < k THEN s[j] ELSE IF j = k THEN i ELSE s[j - 1]
  <2> DEFINE Ok(S, u, l, e) ==
        /\ InsertAt(u, l, e) \in Seq(S)
        /\ Len(InsertAt(u, l, e)) = Len(u) + 1
        /\ \A j \in 1 .. (Len(u) + 1) :
              InsertAt(u, l, e)[j] = IF j < l THEN u[j] ELSE IF j = l THEN e ELSE u[j - 1]
  <2>1. \A S : \A u \in Seq(S) : \A l \in 1 .. (Len(u) + 1) : \A e \in S : Ok(S, u, l, e)
    BY InsertAtProps
  <2> HIDE DEF Ok
  <2>2. Ok(T, s, k, i) BY <2>1
  <2> QED BY <2>2 DEF Ok
<1> HIDE DEF t
<1>2. Distinct(t)
  <2> SUFFICES ASSUME NEW j \in 1 .. (Len(s) + 1), NEW l \in 1 .. (Len(s) + 1), j < l
               PROVE  t[j] # t[l]
    BY <1>0, <1>1 DEF Distinct
  <2>1. CASE l < k BY <2>1, <1>0, <1>1 DEF Distinct
  <2>2. CASE l = k
    <3>1. t[l] = i /\ t[j] = s[j] /\ j \in 1 .. Len(s) BY <2>2, <1>0, <1>1
    <3> QED BY <3>1
  <2>3. CASE l > k
    <3>1. t[l] = s[l - 1] /\ l - 1 \in 1 .. Len(s) BY <2>3, <1>0, <1>1
    <3>2. CASE j < k BY <2>3, <3>1, <3>2, <1>0, <1>1 DEF Distinct
    <3>3. CASE j = k BY <3>1, <3>3, <1>0, <1>1
    <3>4. CASE j > k
      <4>1. t[j] = s[j - 1] /\ j - 1 \in 1 .. Len(s) /\ j - 1 # l - 1 BY <3>4, <1>0, <1>1
      <4> QED BY <3>1, <4>1 DEF Distinct
    <3> QED BY <3>2, <3>3, <3>4, <1>0
  <2> QED BY <2>1, <2>2, <2>3, <1>0
<1>3. \A j \in 1 .. Len(t) : t[j] = i \/ \E l \in 1 .. Len(s) : t[j] = s[l]
  <2> SUFFICES ASSUME NEW j \in 1 .. Len(t) PROVE t[j] = i \/ \E l \in 1 .. Len(s) : t[j] = s[l]
    OBVIOUS
  <2>1. CASE j < k BY <2>1, <1>0, <1>1
  <2>2. CASE j = k BY <2>2, <1>0, <1>1
  <2>3. CASE j > k
    <3>1. t[j] = s[j - 1] /\ j - 1 \in 1 .. Len(s) BY <2>3, <1>0, <1>1
    <3> QED BY <3>1
  <2> QED BY <2>1, <2>2, <2>3, <1>0, <1>1
<1> QED BY <1>1, <1>2, <1>3 DEF t

LEMMA RemoveAtDistinct ==
    ASSUME NEW T, NEW s \in Seq(T), NEW k \in 1 .. Len(s), Distinct(s)
    PROVE  /\ RemoveAt(s, k) \in Seq(T) /\ Distinct(RemoveAt(s, k))
           /\ \A j \in 1 .. Len(RemoveAt(s, k)) :
                 RemoveAt(s, k)[j] # s[k] /\ \E l \in 1 .. Len(s) : RemoveAt(s, k)[j] = s[l]
<1> DEFINE t == RemoveAt(s, k)
<1>0. Len(s) \in Nat BY LenProperties
<1>1. /\ t \in Seq(T)
      /\ Len(t) = Len(s) - 1
      /\ \A j \in 1 .. (Len(s) - 1) : t[j] = IF j < k THEN s[j] ELSE s[j + 1]
  BY RemoveAtProps
<1> HIDE DEF t
<1>2. Distinct(t) BY <1>0, <1>1 DEF Distinct
<1>3. \A j \in 1 .. Len(t) : t[j] # s[k] /\ \E l \in 1 .. Len(s) : t[j] = s[l]
  <2> SUFFICES ASSUME NEW j \in 1 .. Len(t) PROVE t[j] # s[k] /\ \E l \in 1 .. Len(s) : t[j] = s[l]
    OBVIOUS
  <2>1. CASE j < k BY <2>1, <1>0, <1>1 DEF Distinct
  <2>2. CASE ~ (j < k)
    <3>1. t[j] = s[j + 1] /\ j + 1 \in 1 .. Len(s) /\ j + 1 # k BY <2>2, <1>0, <1>1
    <3> QED BY <3>1 DEF Distinct
  <2> QED BY <2>1, <2>2
<1> QED BY <1>1, <1>2, <1>3 DEF t

-----------------------------------------------------------------------------
(* Induction over the natural numbers for a set of them: the smallest one  *)
(* that is not in the set has a predecessor that is.                       *)
LEMMA SetInduction ==
    ASSUME NEW A, 0 \in A, \A n \in Nat : n \in A => n + 1 \in A
    PROVE  Nat \subseteq A
<1> DEFINE R == {p \in Nat \X Nat : p[1] < p[2]}
           T == Nat \ A
<1>1. IsWellFoundedOn(R, Nat) BY NatLessThanWellFounded DEF OpToRel
<1>2. SUFFICES ASSUME T # {} PROVE FALSE BY Zenon
<1>3. PICK x \in T : \A y \in T : ~ (<<y, x>> \in R)
  <2>1. T \subseteq Nat OBVIOUS
  <2> HIDE DEF T, R
  <2> QED BY <1>1, <1>2, <2>1, WFMin, Zenon
<1>4. \A y \in T : ~ (y < x) BY <1>3
<1>5. x # 0 /\ x - 1 \in Nat /\ x - 1 < x OBVIOUS
<1>6. x - 1 \in A BY <1>4, <1>5
<1> QED BY <1>5, <1>6

(* WalkAlong is what its recursion says, wherever the walk leads.          *)
LEMMA WalkAlongDef ==
    ASSUME NEW k \in Nat, NEW a, NEW g
    PROVE  WalkAlong(a, g, k) =
             [j \in 1 .. k |-> IF j = 1 THEN a ELSE g[WalkAlong(a, g, k)[j - 1]]]
<1> DEFINE Def(n, w) == w = [j \in 1 .. n |-> IF j = 1 THEN a ELSE g[w[j - 1]]]
           A == {n \in Nat : \E w : Def(n, w)}
<1>1. 0 \in A
  <2>1. Def(0, [j \in 1 .. 0 |-> a]) OBVIOUS
  <2> HIDE DEF Def
  <2> QED BY <2>1
<1>2. ASSUME NEW n \in Nat, n \in A PROVE n + 1 \in A
  <2>1. PICK w : Def(n, w) BY <1>2
  <2> DEFINE v == [j \in 1 .. (n + 1) |->
                     IF j = 1 THEN a ELSE IF j = n + 1 THEN g[w[n]] ELSE w[j]]
  <2>2. \A j \in 1 .. n : w[j] = IF j = 1 THEN a ELSE g[w[j - 1]] BY <2>1
  <2>3. \A j \in 1 .. n : v[j] = w[j]
    BY <2>2
  <2>4. ASSUME NEW j \in 1 .. (n + 1) PROVE v[j] = IF j = 1 THEN a ELSE g[v[j - 1]]
    <3>1. CASE j = 1 BY <3>1
    <3>2. CASE j # 1 /\ j = n + 1
      <4>1. n \in 1 .. n /\ j - 1 = n BY <3>2
      <4>2. v[n] = w[n] BY <2>3, <4>1
      <4>3. v[j] = g[w[n]] BY <3>2
      <4> QED BY <3>2, <4>1, <4>2, <4>3
    <3>3. CASE j # 1 /\ j # n + 1
      <4>1. j \in 1 .. n /\ j - 1 \in 1 .. n BY <3>3
      <4>2. v[j] = w[j] /\ v[j - 1] = w[j - 1] BY <2>3, <4>1
      <4>3. w[j] = g[w[j - 1]] BY <2>2, <3>3, <4>1
      <4> QED BY <3>3, <4>2, <4>3
    <3> QED BY <3>1, <3>2, <3>3
  <2>5. Def(n + 1, v) BY <2>4
  <2> HIDE DEF Def, v
  <2> QED BY <2>5
<1>3. k \in A
  <2> HIDE DEF A
  <2> QED BY <1>1, <1>2, SetInduction
<1>4. \E w : Def(k, w) BY <1>3
<1>5. Def(k, CHOOSE w : Def(k, w))
  <2> HIDE DEF Def
  <2> QED BY <1>4, Zenon
<1>6. WalkAlong(a, g, k) = CHOOSE w : Def(k, w) BY Zenon DEF WalkAlong
<1> HIDE DEF Def
<1>7. Def(k, WalkAlong(a, g, k)) BY <1>5, <1>6
<1> QED BY <1>7, Zenon DEF Def

(* From a, the pointers g lead through the first n members of s.           *)
LeadThrough(a, g, s, n) == a = s[1] /\ \A j \in 1 .. (n - 1) : g[s[j]] = s[j + 1]

Meets(w, s, n) == \A j \in 1 .. n : w[j] = s[j]

(* A walk along pointers that lead through s meets its members in turn.    *)
LEMMA WalkMeets ==
    ASSUME NEW k \in Nat, NEW n, n \in 1 .. k, NEW a, NEW g, NEW s, LeadThrough(a, g, s, n)
    PROVE  Meets(WalkAlong(a, g, k), s, n)
<1> DEFINE w == WalkAlong(a, g, k)
           A == {j \in Nat : j \in 1 .. n => w[j] = s[j]}
<1>0. a = s[1] /\ \A j \in 1 .. (n - 1) : g[s[j]] = s[j + 1] BY DEF LeadThrough
<1>1. \A j \in 1 .. k : w[j] = IF j = 1 THEN a ELSE g[w[j - 1]]
  <2>1. w = [j \in 1 .. k |-> IF j = 1 THEN a ELSE g[w[j - 1]]] BY WalkAlongDef
  <2> HIDE DEF w
  <2> QED BY <2>1
<1> HIDE DEF w
<1>2. 0 \in A OBVIOUS
<1>3. ASSUME NEW j \in Nat, j \in A PROVE j + 1 \in A
  <2>1. CASE j + 1 \notin 1 .. n BY <2>1
  <2>2. CASE j = 0 BY <1>0, <1>1, <2>2
  <2>3. CASE j + 1 \in 1 .. n /\ j # 0
    <3>1. j \in 1 .. (n - 1) /\ j + 1 \in 1 .. k /\ (j + 1) - 1 = j /\ j + 1 # 1 BY <2>3
    <3>2. w[j + 1] = g[w[j]] BY <1>1, <3>1
    <3>3. w[j] = s[j] BY <1>3, <3>1
    <3> QED BY <1>0, <3>1, <3>2, <3>3
  <2> QED BY <2>1, <2>2, <2>3
<1>4. Nat \subseteq A
  <2> HIDE DEF A
  <2> QED BY <1>2, <1>3, SetInduction
<1> QED BY <1>4 DEF w, Meets

(* Where a walk ends that is closed by meeting stop again.                 *)
LEMMA WalkEnds ==
    ASSUME NEW B \in Nat, NEW w, NEW stop, NEW n \in 1 .. B,
           n = B \/ w[n + 1] = stop, \A k \in 2 .. n : w[k] # stop
    PROVE  (CHOOSE m \in 1 .. B : /\ m = B \/ w[m + 1] = stop
                                  /\ \A k \in 2 .. m : w[k] # stop) = n
<1> DEFINE P(m) == /\ m = B \/ w[m + 1] = stop
                   /\ \A k \in 2 .. m : w[k] # stop
<1>1. P(n) OBVIOUS
<1>2. ASSUME NEW m \in 1 .. B, P(m) PROVE m = n
  <2>1. ~ (m < n)
    <3>1. SUFFICES ASSUME m < n PROVE FALSE OBVIOUS
    <3>2. m # B /\ m + 1 \in 2 .. n BY <3>1
    <3> QED BY <3>2, <1>2
  <2>2. ~ (n < m)
    <3>1. SUFFICES ASSUME n < m PROVE FALSE OBVIOUS
    <3>2. n # B /\ n + 1 \in 2 .. m BY <3>1
    <3> QED BY <3>2, <1>2
  <2> QED BY <2>1, <2>2
<1> HIDE DEF P
<1>3. (CHOOSE m \in 1 .. B : P(m)) = n
  <2>1. \E m \in 1 .. B : P(m) BY <1>1
  <2>2. \A m \in 1 .. B : P(m) => m = n BY <1>2
  <2> QED BY <2>1, <2>2, Zenon
<1> QED BY <1>3 DEF P

(* A sequence without repetition has as many members as it is long. *)
LEMMA DistinctCardinality ==
    ASSUME NEW T, NEW s \in Seq(T), Distinct(s)
    PROVE  IsFiniteSet(Range(s)) /\ Cardinality(Range(s)) = Len(s) /\ Range(s) \subseteq T
<1> DEFINE D == 1 .. Len(s)
<1>0. Len(s) \in Nat /\ s \in [D -> T] /\ DOMAIN s = D BY LenProperties
<1>1. Range(s) = {s[k] : k \in D} /\ Range(s) \subseteq T BY <1>0 DEF Range
<1>2. s \in Bijection(D, Range(s))
  BY <1>0, <1>1 DEF Distinct, Bijection, Injection, Surjection, IsInjective
<1>3. IsFiniteSet(D) /\ Cardinality(D) = Len(s)
  <2>1. 1 \in Int /\ Len(s) \in Int BY <1>0
  <2>2. IsFiniteSet(D) /\ Cardinality(D) = IF 1 > Len(s) THEN 0 ELSE Len(s) - 1 + 1
    BY <2>1, FS_Interval
  <2> QED BY <2>2, <1>0
<1>4. ExistsBijection(D, Range(s)) BY <1>2, Zenon DEF ExistsBijection
<1> QED
  <2> HIDE DEF D
  <2>1. IsFiniteSet(Range(s)) /\ Cardinality(Range(s)) = Cardinality(D)
    BY <1>3, <1>4, FS_Bijection
  <2> QED BY <2>1, <1>1, <1>3

LEMMA DistinctFits ==
    ASSUME NEW T, IsFiniteSet(T), NEW s \in Seq(T), Distinct(s)
    PROVE  Len(s) <= Cardinality(T) /\ Cardinality(T) \in Nat /\ Len(s) \in Nat
<1>1. Range(s) \in SUBSET T /\ Cardinality(Range(s)) = Len(s) BY DistinctCardinality
<1>2. Cardinality(Range(s)) <= Cardinality(T) BY <1>1, FS_Subset
<1>3. Cardinality(T) \in Nat BY FS_CardinalityType
<1> QED BY <1>1, <1>2, <1>3, LenProperties

-----------------------------------------------------------------------------
(* Many rings in one memory, as the widgets have them: what matters of a   *)
(* ring is the set of its members, and that an operation on one ring does  *)
(* not touch the others.                                                   *)
RingOn(m, C, T) == \E s \in Seq(T) : Distinct(s) /\ Range(s) = C /\ Linked(m, s)

SameAt(m, n, j) == n.next[j] = m.next[j] /\ n.prev[j] = m.prev[j]

LEMMA RangeIs ==
    ASSUME NEW T, NEW s \in Seq(T)
    PROVE  /\ \A k \in 1 .. Len(s) : s[k] \in Range(s)
           /\ \A x \in Range(s) : \E k \in 1 .. Len(s) : s[k] = x
           /\ Range(s) \subseteq T
<1>1. DOMAIN s = 1 .. Len(s) /\ \A k \in 1 .. Len(s) : s[k] \in T BY LenProperties, ElementOfSeq
<1> QED BY <1>1 DEF Range

LEMMA RangeOfEmpty ==
    ASSUME NEW T, NEW s \in Seq(T), Len(s) = 0
    PROVE  Range(s) = {}
<1> SUFFICES ASSUME NEW x \in Range(s) PROVE FALSE OBVIOUS
<1>1. PICK k \in 1 .. Len(s) : s[k] = x BY RangeIs
<1> QED BY <1>1

(* A ring is linked as long as its members are not touched. *)
LEMMA RingFrame ==
    ASSUME NEW T, NEW C, NEW m, NEW n, RingOn(m, C, T), n.last = m.last, \A j \in C : SameAt(m, n, j)
    PROVE  RingOn(n, C, T)
<1>1. PICK s \in Seq(T) : Distinct(s) /\ Range(s) = C /\ Linked(m, s) BY Zenon DEF RingOn
<1>2. Len(s) \in Nat /\ (s = <<>> <=> Len(s) = 0) BY EmptySeq, LenProperties
<1>3. \A k \in 1 .. Len(s) : n.next[s[k]] = m.next[s[k]] /\ n.prev[s[k]] = m.prev[s[k]]
  BY <1>1, RangeIs DEF SameAt
<1>4. Linked(n, s)
  <2>1. CASE s = <<>> BY <2>1, <1>1 DEF Linked
  <2>2. CASE s # <<>>
    <3>1. 1 \in 1 .. Len(s) /\ Len(s) \in 1 .. Len(s) BY <2>2, <1>2
    <3>2. \A k \in 1 .. (Len(s) - 1) : k \in 1 .. Len(s) /\ k + 1 \in 1 .. Len(s) BY <1>2
    <3> QED BY <2>2, <3>1, <3>2, <1>1, <1>3 DEF Linked, Chained
  <2> QED BY <2>1, <2>2
<1> QED BY <1>1, <1>4, Zenon DEF RingOn

(* Last is null exactly for the empty ring; else it and the head are members. *)
LEMMA RingEnds ==
    ASSUME NEW T, NULL \notin T, NEW C, NEW m, RingOn(m, C, T)
    PROVE  /\ m.last = NULL <=> C = {}
           /\ m.last # NULL => m.last \in C /\ m.next[m.last] \in C
           /\ C \subseteq T
<1>1. PICK s \in Seq(T) : Distinct(s) /\ Range(s) = C /\ Linked(m, s) BY Zenon DEF RingOn
<1>2. Len(s) \in Nat /\ (s = <<>> <=> Len(s) = 0) BY EmptySeq, LenProperties
<1>3. C \subseteq T /\ \A k \in 1 .. Len(s) : s[k] \in C BY <1>1, RangeIs
<1>4. CASE s = <<>>
  <2>1. C = {} BY <1>1, <1>2, <1>4, RangeOfEmpty
  <2> QED BY <2>1, <1>1, <1>4 DEF Linked
<1>5. CASE s # <<>>
  <2>1. 1 \in 1 .. Len(s) /\ Len(s) \in 1 .. Len(s) BY <1>5, <1>2
  <2>2. m.last = s[Len(s)] /\ m.next[s[Len(s)]] = s[1] BY <1>1, <1>5 DEF Linked
  <2> QED BY <2>1, <2>2, <1>3
<1> QED BY <1>4, <1>5

LEMMA RingUnlink ==
    ASSUME NEW T, NULL \notin T, NEW C, NEW m \in Memories(T), RingOn(m, C, T), NEW i \in C
    PROVE  /\ Unlink(m, i) \in Memories(T)
           /\ RingOn(Unlink(m, i), C \ {i}, T)
           /\ \A j \in T \ C : SameAt(m, Unlink(m, i), j)
<1>1. PICK s \in Seq(T) : Distinct(s) /\ Range(s) = C /\ Linked(m, s) BY Zenon DEF RingOn
<1>2. PICK k \in 1 .. Len(s) : s[k] = i BY <1>1, RangeIs
<1>3. Len(s) \in Nat /\ s # <<>> /\ \A l \in 1 .. Len(s) : s[l] \in C /\ s[l] \in T
  BY <1>1, <1>2, EmptySeq, LenProperties, ElementOfSeq, RangeIs
<1> DEFINE t == RemoveAt(s, k)
<1>4. Unlink(m, i) \in Memories(T) /\ Linked(Unlink(m, i), t)
  BY <1>1, <1>2, UnlinkLinks
<1>5. /\ t \in Seq(T) /\ Distinct(t)
      /\ \A j \in 1 .. Len(t) : t[j] # i /\ \E l \in 1 .. Len(s) : t[j] = s[l]
  BY <1>1, <1>2, RemoveAtDistinct
<1>6. Len(t) = Len(s) - 1 /\ \A j \in 1 .. (Len(s) - 1) : t[j] = IF j < k THEN s[j] ELSE s[j + 1]
  BY RemoveAtProps
<1> HIDE DEF t
<1>7. Range(t) = C \ {i}
  <2>1. ASSUME NEW x \in Range(t) PROVE x \in C \ {i}
    <3>1. PICK j \in 1 .. Len(t) : t[j] = x BY <1>5, RangeIs
    <3> QED BY <3>1, <1>3, <1>5
  <2>2. ASSUME NEW x \in C \ {i} PROVE x \in Range(t)
    <3>1. PICK l \in 1 .. Len(s) : s[l] = x BY <1>1, RangeIs
    <3>2. l # k BY <3>1, <1>2, <2>2
    <3>3. CASE l < k
      <4>1. l \in 1 .. Len(t) /\ t[l] = x BY <3>1, <3>3, <1>3, <1>6
      <4> QED BY <4>1, <1>5, RangeIs
    <3>4. CASE l > k
      <4>1. l - 1 \in 1 .. Len(t) /\ t[l - 1] = x BY <3>1, <3>4, <1>3, <1>6
      <4> QED BY <4>1, <1>5, RangeIs
    <3> QED BY <3>2, <3>3, <3>4
  <2> QED BY <2>1, <2>2
<1>8. ASSUME NEW j \in T \ C PROVE SameAt(m, Unlink(m, i), j)
  <2>1. /\ 1 \in 1 .. Len(s) /\ Len(s) \in 1 .. Len(s)
        /\ m.next[s[Len(s)]] = s[1] /\ m.prev[s[1]] = s[Len(s)] /\ Chained(m, s)
    BY <1>1, <1>2, <1>3 DEF Linked
  <2>2. m.next[i] \in C
    <3>1. CASE k = Len(s) BY <3>1, <2>1, <1>2, <1>3
    <3>2. CASE k # Len(s)
      <4>1. k \in 1 .. (Len(s) - 1) /\ k + 1 \in 1 .. Len(s) BY <3>2, <1>3
      <4> QED BY <4>1, <2>1, <1>2, <1>3 DEF Chained
    <3> QED BY <3>1, <3>2
  <2>3. m.prev[i] \in C
    <3>1. CASE k = 1 BY <3>1, <2>1, <1>2, <1>3
    <3>2. CASE k # 1
      <4>1. k - 1 \in 1 .. (Len(s) - 1) /\ k - 1 \in 1 .. Len(s) /\ (k - 1) + 1 = k BY <3>2, <1>3
      <4>2. m.prev[s[(k - 1) + 1]] = s[k - 1] BY <4>1, <2>1 DEF Chained
      <4> QED BY <4>1, <4>2, <1>2, <1>3
    <3> QED BY <3>1, <3>2
  <2>4. j # m.next[i] /\ j # m.prev[i] BY <2>2, <2>3
  <2> QED BY <2>4 DEF SameAt, Unlink, Memories
<1> QED BY <1>4, <1>5, <1>7, <1>8 DEF RingOn

(* A new head. *)
LEMMA RingInFront ==
    ASSUME NEW T, NULL \notin T, NEW C, NEW m \in Memories(T), RingOn(m, C, T), NEW i \in T \ C,
           NEW b, b = IF m.last = NULL THEN NULL ELSE m.next[m.last]
    PROVE  /\ LinkBefore(m, i, b) \in Memories(T)
           /\ RingOn(LinkBefore(m, i, b), C \cup {i}, T)
           /\ \A j \in T \ (C \cup {i}) : SameAt(m, LinkBefore(m, i, b), j)
<1> DEFINE r == LinkBefore(m, i, b)
<1>1. PICK s \in Seq(T) : Distinct(s) /\ Range(s) = C /\ Linked(m, s) BY Zenon DEF RingOn
<1>2. Len(s) \in Nat /\ (s = <<>> <=> Len(s) = 0) /\ \A l \in 1 .. Len(s) : s[l] \in C /\ s[l] \in T
  BY <1>1, EmptySeq, LenProperties, ElementOfSeq, RangeIs
<1>3. \A l \in 1 .. Len(s) : s[l] # i BY <1>2
<1>4. CASE s = <<>>
  <2>1. m.last = NULL /\ b = NULL BY <1>1, <1>4 DEF Linked
  <2>2. r = LinkEnd(m, i) BY <2>1 DEF LinkBefore
  <2>3. r \in Memories(T) /\ Linked(r, Append(s, i)) BY <2>2, <1>1, <1>3, LinkEndLinks
  <2>4. Append(s, i) \in Seq(T) /\ Distinct(Append(s, i)) BY <1>1, <1>3, AppendDistinct
  <2>5. Len(Append(s, i)) = 1 /\ Append(s, i)[1] = i BY <1>2, <1>4, AppendProperties
  <2>6. Range(Append(s, i)) = C \cup {i}
    <3> DEFINE t == Append(s, i)
    <3> HIDE DEF t
    <3>0. t \in Seq(T) /\ Len(t) = 1 /\ t[1] = i BY <2>4, <2>5 DEF t
    <3>1. C = {} BY <1>1, <1>2, <1>4, RangeOfEmpty
    <3>2. ASSUME NEW x \in Range(t) PROVE x = i
      <4>1. PICK j \in 1 .. Len(t) : t[j] = x BY <3>0, RangeIs
      <4> QED BY <3>0, <4>1
    <3>3. 1 \in 1 .. Len(t) BY <3>0
    <3>4. i \in Range(t) BY <3>0, <3>3, RangeIs
    <3> QED BY <3>1, <3>2, <3>4 DEF t
  <2>7. \A j \in T \ (C \cup {i}) : SameAt(m, r, j)
    BY <2>1, <2>2 DEF SameAt, LinkEnd, LinkAlone, Memories
  <2> QED BY <2>3, <2>4, <2>6, <2>7 DEF RingOn
<1>5. CASE s # <<>>
  <2>1. /\ 1 \in 1 .. Len(s) /\ Len(s) \in 1 .. Len(s) /\ m.last = s[Len(s)]
        /\ m.next[s[Len(s)]] = s[1] /\ m.prev[s[1]] = s[Len(s)]
    BY <1>1, <1>2, <1>5 DEF Linked
  <2>2. m.last # NULL /\ b = s[1] /\ b # NULL BY <2>1, <1>2
  <2> DEFINE t == InsertAt(s, 1, i)
  <2>3. r \in Memories(T) /\ Linked(r, t) BY <2>1, <2>2, <1>1, <1>3, LinkBeforeLinks
  <2>4. /\ t \in Seq(T) /\ Distinct(t)
        /\ \A j \in 1 .. Len(t) : t[j] = i \/ \E l \in 1 .. Len(s) : t[j] = s[l]
    <3>1. 1 \in 1 .. (Len(s) + 1) BY <1>2
    <3> QED BY <3>1, <1>1, <1>3, InsertAtDistinct
  <2>5. /\ Len(t) = Len(s) + 1
        /\ \A j \in 1 .. (Len(s) + 1) : t[j] = IF j < 1 THEN s[j] ELSE IF j = 1 THEN i ELSE s[j - 1]
    <3>1. 1 \in 1 .. (Len(s) + 1) /\ i \in T BY <1>2
    <3> QED BY <3>1, InsertAtProps
  <2> HIDE DEF t
  <2>6. Range(t) = C \cup {i}
    <3>1. ASSUME NEW x \in Range(t) PROVE x \in C \cup {i}
      <4>1. PICK j \in 1 .. Len(t) : t[j] = x BY <2>4, RangeIs
      <4> QED BY <4>1, <1>2, <2>4
    <3>2. i \in Range(t)
      <4>1. 1 \in 1 .. Len(t) /\ t[1] = i BY <1>2, <2>5
      <4> QED BY <4>1, <2>4, RangeIs
    <3>3. ASSUME NEW x \in C PROVE x \in Range(t)
      <4>1. PICK l \in 1 .. Len(s) : s[l] = x BY <1>1, RangeIs
      <4>2. l + 1 \in 1 .. Len(t) /\ t[l + 1] = x
        <5>1. l + 1 \in 1 .. (Len(s) + 1) /\ ~ (l + 1 < 1) /\ l + 1 # 1 /\ (l + 1) - 1 = l BY <1>2
        <5> QED BY <4>1, <5>1, <2>5
      <4> QED BY <4>2, <2>4, RangeIs
    <3> QED BY <3>1, <3>2, <3>3
  <2>7. \A j \in T \ (C \cup {i}) : SameAt(m, r, j)
    <3>1. r = LinkBetween(m, s[Len(s)], i, s[1]) BY <2>1, <2>2 DEF LinkBefore
    <3>2. s[1] \in C /\ s[Len(s)] \in C BY <2>1, <1>2
    <3> QED BY <3>1, <3>2 DEF SameAt, LinkBetween, Memories
  <2> QED BY <2>3, <2>4, <2>6, <2>7 DEF RingOn
<1> QED BY <1>4, <1>5

(* A new last member. *)
LEMMA RingAppend ==
    ASSUME NEW T, NULL \notin T, NEW C, NEW m \in Memories(T), RingOn(m, C, T), NEW i \in T \ C
    PROVE  /\ LinkEnd(m, i) \in Memories(T)
           /\ RingOn(LinkEnd(m, i), C \cup {i}, T)
           /\ \A j \in T \ (C \cup {i}) : SameAt(m, LinkEnd(m, i), j)
<1> DEFINE r == LinkEnd(m, i)
<1>1. PICK s \in Seq(T) : Distinct(s) /\ Range(s) = C /\ Linked(m, s) BY Zenon DEF RingOn
<1>2. /\ Len(s) \in Nat /\ (s = <<>> <=> Len(s) = 0)
      /\ \A l \in 1 .. Len(s) : s[l] \in C /\ s[l] \in T /\ s[l] # i
  BY <1>1, EmptySeq, LenProperties, ElementOfSeq, RangeIs
<1>3. r \in Memories(T) /\ Linked(r, Append(s, i)) BY <1>1, <1>2, LinkEndLinks
<1> DEFINE t == Append(s, i)
<1>4. t \in Seq(T) /\ Distinct(t) /\ \A k \in 1 .. Len(t) : t[k] = i \/ \E j \in 1 .. Len(s) : t[k] = s[j]
  BY <1>1, <1>2, AppendDistinct
<1>5. Len(t) = Len(s) + 1 /\ t[Len(s) + 1] = i /\ \A k \in 1 .. Len(s) : t[k] = s[k]
  BY <1>2, AppendProperties
<1>6. Linked(r, t) BY <1>3
<1> HIDE DEF t, r
<1>7. Range(t) = C \cup {i}
  <2>1. \A k \in 1 .. Len(t) : t[k] \in Range(t) BY <1>4, RangeIs
  <2>2. ASSUME NEW x \in Range(t) PROVE x \in C \cup {i}
    <3>1. PICK k \in 1 .. Len(t) : t[k] = x BY <1>4, RangeIs
    <3> QED BY <3>1, <1>2, <1>4
  <2>3. i \in Range(t)
    <3>1. Len(s) + 1 \in 1 .. Len(t) BY <1>2, <1>5
    <3> QED BY <3>1, <2>1, <1>5
  <2>4. ASSUME NEW x \in C PROVE x \in Range(t)
    <3>1. PICK k \in 1 .. Len(s) : s[k] = x BY <1>1, RangeIs
    <3>2. k \in 1 .. Len(t) BY <1>2, <1>5
    <3> QED BY <3>1, <3>2, <2>1, <1>5
  <2> QED BY <2>2, <2>3, <2>4
<1>8. ASSUME NEW j \in T \ (C \cup {i}) PROVE SameAt(m, r, j)
  <2>1. CASE s = <<>>
    <3>1. m.last = NULL BY <2>1, <1>1 DEF Linked
    <3> QED BY <3>1 DEF SameAt, LinkEnd, LinkAlone, Memories, r
  <2>2. CASE s # <<>>
    <3>1. 1 \in 1 .. Len(s) /\ Len(s) \in 1 .. Len(s) BY <2>2, <1>2
    <3>2. m.last = s[Len(s)] /\ m.next[s[Len(s)]] = s[1] BY <2>2, <1>1 DEF Linked
    <3>3. m.last \in C /\ m.last \in T /\ m.next[m.last] \in C BY <3>1, <3>2, <1>2
    <3>4. m.last # NULL BY <3>3
    <3> QED BY <3>3, <3>4 DEF SameAt, LinkEnd, LinkBetween, Memories, r
  <2> QED BY <2>1, <2>2
<1> QED BY <1>3, <1>4, <1>6, <1>7, <1>8 DEF RingOn, r

(* Who counts the members and walks along Next meets each of them once.    *)
LEMMA RingWalk ==
    ASSUME NEW T, NULL \notin T, NEW C, NEW m, RingOn(m, C, T),
           NEW w, w = WalkAlong(m.next[m.last], m.next, Cardinality(C))
    PROVE  w \in Seq(T) /\ Distinct(w) /\ Range(w) = C /\ Linked(m, w)
<1>1. PICK s \in Seq(T) : Distinct(s) /\ Range(s) = C /\ Linked(m, s) BY Zenon DEF RingOn
<1>2. Cardinality(C) = Len(s) BY <1>1, DistinctCardinality
<1>3. Len(s) \in Nat /\ (s = <<>> <=> Len(s) = 0) /\ s = [k \in 1 .. Len(s) |-> s[k]]
  BY EmptySeq, LenProperties
<1> DEFINE a == m.next[m.last]
           g == m.next
           e(j) == IF j = 1 THEN a ELSE g[WalkAlong(a, g, Len(s))[j - 1]]
<1>4. w = [j \in 1 .. Len(s) |-> e(j)]
  <2> HIDE DEF a, g
  <2>1. WalkAlong(a, g, Len(s)) = [j \in 1 .. Len(s) |-> e(j)]
    BY <1>3, WalkAlongDef
  <2>2. w = WalkAlong(a, g, Len(s)) BY <1>2 DEF a, g
  <2> QED BY <2>1, <2>2
<1>5. \A k \in 1 .. Len(s) : w[k] = s[k]
  <2>1. CASE s = <<>> BY <2>1, <1>3
  <2>2. CASE s # <<>>
    <3>1. LeadThrough(m.next[m.last], m.next, s, Len(s))
      BY <2>2, <1>1 DEF LeadThrough, Linked, Chained
    <3>2. Len(s) \in 1 .. Len(s) BY <2>2, <1>3
    <3>3. Meets(w, s, Len(s)) BY <3>1, <3>2, <1>2, <1>3, WalkMeets
    <3> QED BY <3>3 DEF Meets
  <2> QED BY <2>1, <2>2
<1> HIDE DEF e
<1>6. w = [k \in 1 .. Len(s) |-> w[k]] BY <1>4
<1>7. w = s BY <1>3, <1>5, <1>6
<1> QED BY <1>1, <1>7

(* The members of a ring in the order of a walk from Last.                 *)
LEMMA RingFromLast ==
    ASSUME NEW T, NEW m, NEW q \in Seq(T), Distinct(q), Linked(m, q), NEW n, n = Len(q), n # 0
    PROVE  \E t \in Seq(T) :
             /\ Len(t) = n /\ Distinct(t) /\ Range(t) = Range(q)
             /\ LeadThrough(m.last, m.next, t, n) /\ m.next[t[n]] = m.last
             /\ \A j \in 1 .. n : t[j] = IF j = 1 THEN q[n] ELSE q[j - 1]
<1> DEFINE t == [k \in 1 .. n |-> IF k = 1 THEN q[n] ELSE q[k - 1]]
<1>1. n \in Nat /\ n \in 1 .. n /\ 1 \in 1 .. n /\ q # <<>> /\ \A k \in 1 .. n : q[k] \in T
  BY LenProperties, EmptySeq, ElementOfSeq
<1>2. m.last = q[n] /\ m.next[q[n]] = q[1] /\ \A k \in 1 .. (n - 1) : m.next[q[k]] = q[k + 1]
  BY <1>1 DEF Linked, Chained
<1>3. t \in Seq(T) /\ Len(t) = n /\ \A j \in 1 .. n : t[j] = IF j = 1 THEN q[n] ELSE q[j - 1]
  <2>1. \A k \in 1 .. n : (IF k = 1 THEN q[n] ELSE q[k - 1]) \in T BY <1>1
  <2>2. t \in [1 .. n -> T] BY <2>1
  <2>3. t \in Seq(T) BY <2>2, <1>1
  <2> QED BY <2>3, <1>1
<1> HIDE DEF t
<1>4. \A k \in 1 .. n : k # 1 => k - 1 \in 1 .. (n - 1) /\ k - 1 \in 1 .. n /\ (k - 1) + 1 = k BY <1>1
<1>5. LeadThrough(m.last, m.next, t, n)
  <2>1. t[1] = m.last BY <1>1, <1>2, <1>3
  <2>2. ASSUME NEW j \in 1 .. (n - 1) PROVE m.next[t[j]] = t[j + 1]
    <3>1. j \in 1 .. n /\ j + 1 \in 1 .. n /\ j + 1 # 1 /\ (j + 1) - 1 = j BY <1>1
    <3>2. t[j + 1] = q[j] BY <3>1, <1>3
    <3>3. CASE j = 1 BY <3>1, <3>2, <3>3, <1>2, <1>3
    <3>4. CASE j # 1 BY <3>1, <3>2, <3>4, <1>2, <1>3, <1>4
    <3> QED BY <3>3, <3>4
  <2> QED BY <2>1, <2>2 DEF LeadThrough
<1>6. m.next[t[n]] = m.last
  <2>1. CASE n = 1 BY <2>1, <1>1, <1>2, <1>3
  <2>2. CASE n # 1 BY <2>2, <1>1, <1>2, <1>3, <1>4
  <2> QED BY <2>1, <2>2
<1>7. Distinct(t)
  <2> SUFFICES ASSUME NEW i \in 1 .. n, NEW j \in 1 .. n, t[i] = t[j] PROVE i = j
    BY <1>3 DEF Distinct
  <2> DEFINE f(x) == IF x = 1 THEN n ELSE x - 1
  <2>1. \A x \in 1 .. n : f(x) \in 1 .. n /\ t[x] = q[f(x)] BY <1>1, <1>3, <1>4
  <2>2. f(i) = f(j)
    <3> HIDE DEF f
    <3> QED BY <2>1 DEF Distinct
  <2> QED BY <2>2, <1>1
<1>8. Range(t) = Range(q)
  <2>1. ASSUME NEW x \in Range(t) PROVE x \in Range(q)
    <3>1. PICK j \in 1 .. n : t[j] = x BY <1>3, RangeIs
    <3>2. \A l \in 1 .. n : q[l] \in Range(q) BY RangeIs
    <3> QED BY <3>1, <3>2, <1>1, <1>3, <1>4
  <2>2. ASSUME NEW x \in Range(q) PROVE x \in Range(t)
    <3>1. PICK l \in 1 .. n : q[l] = x BY RangeIs
    <3>2. \A j \in 1 .. n : t[j] \in Range(t) BY <1>3, RangeIs
    <3>3. CASE l = n BY <3>1, <3>2, <3>3, <1>1, <1>3
    <3>4. CASE l # n
      <4>1. l + 1 \in 1 .. n /\ l + 1 # 1 /\ (l + 1) - 1 = l BY <3>4, <1>1
      <4> QED BY <4>1, <3>1, <3>2, <1>3
    <3> QED BY <3>3, <3>4
  <2> QED BY <2>1, <2>2
<1> QED BY <1>3, <1>5, <1>6, <1>7, <1>8

(* The neighbours of a member are members. *)
LEMMA RingMember ==
    ASSUME NEW T, NULL \notin T, NEW C, NEW m, RingOn(m, C, T), NEW i \in C
    PROVE  m.next[i] \in C /\ m.prev[i] \in C
<1>1. PICK s \in Seq(T) : Distinct(s) /\ Range(s) = C /\ Linked(m, s) BY Zenon DEF RingOn
<1>2. PICK k \in 1 .. Len(s) : s[k] = i BY <1>1, RangeIs
<1>3. Len(s) \in Nat /\ s # <<>> /\ \A l \in 1 .. Len(s) : s[l] \in C
  BY <1>1, <1>2, EmptySeq, LenProperties, RangeIs
<1>4. /\ 1 \in 1 .. Len(s) /\ Len(s) \in 1 .. Len(s)
      /\ m.next[s[Len(s)]] = s[1] /\ m.prev[s[1]] = s[Len(s)] /\ Chained(m, s)
  BY <1>1, <1>2, <1>3 DEF Linked
<1>5. m.next[i] \in C
  <2>1. CASE k = Len(s) BY <2>1, <1>2, <1>3, <1>4
  <2>2. CASE k # Len(s)
    <3>1. k \in 1 .. (Len(s) - 1) /\ k + 1 \in 1 .. Len(s) BY <2>2, <1>3
    <3> QED BY <3>1, <1>2, <1>3, <1>4 DEF Chained
  <2> QED BY <2>1, <2>2
<1>6. m.prev[i] \in C
  <2>1. CASE k = 1 BY <2>1, <1>2, <1>3, <1>4
  <2>2. CASE k # 1
    <3>1. k - 1 \in 1 .. (Len(s) - 1) /\ k - 1 \in 1 .. Len(s) /\ (k - 1) + 1 = k BY <2>2, <1>3
    <3>2. m.prev[s[(k - 1) + 1]] = s[k - 1] BY <3>1, <1>4 DEF Chained
    <3> QED BY <3>1, <3>2, <1>2, <1>3
  <2> QED BY <2>1, <2>2
<1> QED BY <1>5, <1>6

(* In a ring Next and Prev undo each other, and a part of it that Next     *)
(* does not lead out of is all of it.                                      *)
LEMMA RingBack ==
    ASSUME NEW T, NULL \notin T, NEW C, NEW m, RingOn(m, C, T), NEW i \in C
    PROVE  /\ m.next[i] \in C /\ m.prev[i] \in C
           /\ m.next[m.prev[i]] = i /\ m.prev[m.next[i]] = i
<1>1. PICK s \in Seq(T) : Distinct(s) /\ Range(s) = C /\ Linked(m, s) BY Zenon DEF RingOn
<1>2. Len(s) \in Nat /\ s # <<>> /\ Len(s) >= 1
  <2>1. Len(s) \in Nat BY LenProperties
  <2>2. Len(s) # 0 BY <1>1, RangeOfEmpty
  <2>3. s # <<>> BY <2>2
  <2> QED BY <2>1, <2>2, <2>3
<1>3. PICK k \in 1 .. Len(s) : s[k] = i BY <1>1, RangeIs
<1>4. /\ m.next[s[Len(s)]] = s[1] /\ m.prev[s[1]] = s[Len(s)]
      /\ \A j \in 1 .. (Len(s) - 1) : m.next[s[j]] = s[j + 1] /\ m.prev[s[j + 1]] = s[j]
  BY <1>1, <1>2 DEF Linked, Chained
<1>5. m.next[m.prev[i]] = i
  <2>1. CASE k = 1 BY <1>3, <1>4, <2>1
  <2>2. CASE k # 1
    <3>1. k - 1 \in 1 .. (Len(s) - 1) /\ (k - 1) + 1 = k BY <1>2, <2>2
    <3> QED BY <1>3, <1>4, <3>1
  <2> QED BY <2>1, <2>2
<1>6. m.prev[m.next[i]] = i
  <2>1. CASE k = Len(s) BY <1>3, <1>4, <2>1
  <2>2. CASE k # Len(s)
    <3>1. k \in 1 .. (Len(s) - 1) BY <1>2, <2>2
    <3> QED BY <1>3, <1>4, <3>1
  <2> QED BY <2>1, <2>2
<1> QED BY <1>5, <1>6, RingMember

LEMMA ChainOnwards ==
    ASSUME NEW m, NEW s, Len(s) \in Nat, Chained(m, s), NEW P, \A x \in P : m.next[x] \in P,
           NEW i \in 1 .. Len(s), s[i] \in P
    PROVE  \A j \in i .. Len(s) : s[j] \in P
<1> DEFINE A == {d \in Nat : i + d <= Len(s) => s[i + d] \in P}
<1>1. 0 \in A BY i + 0 = i
<1>2. ASSUME NEW d \in Nat, d \in A PROVE d + 1 \in A
  <2> SUFFICES ASSUME i + (d + 1) <= Len(s) PROVE s[i + (d + 1)] \in P OBVIOUS
  <2>1. i + d \in 1 .. (Len(s) - 1) /\ i + (d + 1) = (i + d) + 1 OBVIOUS
  <2>2. s[i + d] \in P BY <1>2, <2>1
  <2> QED BY <2>1, <2>2 DEF Chained
<1>3. Nat \subseteq A BY <1>1, <1>2, SetInduction
<1> TAKE j \in i .. Len(s)
<1>4. j - i \in Nat /\ i + (j - i) = j /\ j <= Len(s) OBVIOUS
<1> QED BY <1>3, <1>4

LEMMA RingCloses ==
    ASSUME NEW T, NULL \notin T, NEW C, NEW m, RingOn(m, C, T), NEW P, P \subseteq C, P # {},
           \A x \in P : m.next[x] \in P
    PROVE  P = C
<1>1. PICK s \in Seq(T) : Distinct(s) /\ Range(s) = C /\ Linked(m, s) BY Zenon DEF RingOn
<1>2. PICK x \in P : TRUE OBVIOUS
<1>3. Len(s) \in Nat BY LenProperties
<1>4. PICK i \in 1 .. Len(s) : s[i] = x BY <1>1, <1>2, RangeIs
<1>5. s # <<>> /\ 1 \in 1 .. Len(s) /\ Len(s) \in i .. Len(s) BY <1>3, <1>4
<1>6. Chained(m, s) /\ m.next[s[Len(s)]] = s[1] BY <1>1, <1>5 DEF Linked
<1>7. s[Len(s)] \in P BY <1>2, <1>3, <1>4, <1>5, <1>6, ChainOnwards
<1>8. s[1] \in P BY <1>6, <1>7
<1>9. \A j \in 1 .. Len(s) : s[j] \in P BY <1>3, <1>5, <1>6, <1>8, ChainOnwards
<1>10. C \subseteq P BY <1>1, <1>9, RangeIs
<1> QED BY <1>10
=============================================================================
