---------------------------- MODULE SequenceFacts ----------------------------
(***************************************************************************)
(* What the operators on sequences that the models use change and what     *)
(* they leave alone, for the proofs about stacks.                          *)
(***************************************************************************)
EXTENDS Sequences, SequencesExt, SequenceTheorems, WellFoundedInduction, TLAPS

\* A sequence is empty when its length is zero.
LEMMA Empty ==
    ASSUME NEW S, NEW s \in Seq(S)
    PROVE  /\ Len(s) \in Nat
           /\ DOMAIN s = 1..Len(s)
           /\ s # <<>> <=> Len(s) > 0
  BY EmptySeq, LenProperties

\* What is left when the last element is removed.
LEMMA FrontKeeps ==
    ASSUME NEW S, NEW s \in Seq(S), Len(s) > 0
    PROVE  /\ Front(s) \in Seq(S)
           /\ Len(Front(s)) = Len(s) - 1
           /\ \A i \in 1..(Len(s) - 1) : Front(s)[i] = s[i]
<1>1. PICK n \in Nat : n = Len(s) - 1 /\ Len(s) = n + 1
  BY LenProperties
<1>2. \A i \in 1..n : s[i] \in S
  BY <1>1, ElementOfSeq
<1>3. /\ SubSeq(s, 1, n) \in Seq(S)
      /\ Len(SubSeq(s, 1, n)) = IF 1 <= n THEN n - 1 + 1 ELSE 0
      /\ \A i \in 1..(n - 1 + 1) : SubSeq(s, 1, n)[i] = s[1 + i - 1]
  BY <1>2, SubSeqProperties
<1>4. \A i \in 1..n : 1 + i - 1 = i /\ i \in 1..(n - 1 + 1)
  OBVIOUS
<1>5. \A i \in 1..n : SubSeq(s, 1, n)[i] = s[i]
  BY <1>3, <1>4
<1>6. Len(SubSeq(s, 1, n)) = n
  BY <1>3
<1>7. Front(s) = SubSeq(s, 1, n)
  BY <1>1 DEF Front
<1> QED
  BY <1>1, <1>3, <1>5, <1>6, <1>7

\* What an element added at the end leaves alone.
LEMMA AppendKeeps ==
    ASSUME NEW S, NEW s \in Seq(S), NEW e \in S
    PROVE  /\ Append(s, e) \in Seq(S) /\ Append(s, e) # <<>>
           /\ Len(Append(s, e)) = Len(s) + 1
           /\ \A i \in 1..Len(s) : Append(s, e)[i] = s[i]
           /\ Append(s, e)[Len(s) + 1] = e
  BY AppendProperties

\* What an element that is replaced leaves alone.
LEMMA ReplaceKeeps ==
    ASSUME NEW S, NEW s \in Seq(S), NEW n \in 1..Len(s), NEW e \in S
    PROVE  /\ [s EXCEPT ![n] = e] \in Seq(S)
           /\ Len([s EXCEPT ![n] = e]) = Len(s)
           /\ [s EXCEPT ![n] = e][n] = e
           /\ \A i \in 1..Len(s) : i # n => [s EXCEPT ![n] = e][i] = s[i]
  BY ExceptSeq

-----------------------------------------------------------------------------
(***************************************************************************)
(* Queues: an element removed from or inserted at any position             *)
(***************************************************************************)
\* Those before the removed element keep their positions, the others move up.
LEMMA RemoveAtKeeps ==
    ASSUME NEW S, NEW s \in Seq(S), NEW i \in 1..Len(s)
    PROVE  /\ RemoveAt(s, i) \in Seq(S)
           /\ Len(RemoveAt(s, i)) = Len(s) - 1
           /\ \A j \in 1..(Len(s) - 1) : j < i => RemoveAt(s, i)[j] = s[j]
           /\ \A j \in 1..(Len(s) - 1) : j >= i => RemoveAt(s, i)[j] = s[j + 1]
<1>1. PICK n \in Nat : n = Len(s) /\ i \in 1..n
  BY LenProperties
<1>2. PICK front \in Seq(S) : /\ front = SubSeq(s, 1, i - 1) /\ Len(front) = i - 1
                              /\ \A j \in 1..(i - 1) : front[j] = s[j]
  <2>1. \A j \in 1..(i - 1) : s[j] \in S
    BY <1>1, ElementOfSeq
  <2>2. /\ SubSeq(s, 1, i - 1) \in Seq(S)
        /\ Len(SubSeq(s, 1, i - 1)) = IF 1 <= i - 1 THEN i - 1 - 1 + 1 ELSE 0
        /\ \A j \in 1..(i - 1 - 1 + 1) : SubSeq(s, 1, i - 1)[j] = s[1 + j - 1]
    BY <2>1, SubSeqProperties
  <2>3. \A j \in 1..(i - 1) : 1 + j - 1 = j /\ j \in 1..(i - 1 - 1 + 1)
    OBVIOUS
  <2>4. (IF 1 <= i - 1 THEN i - 1 - 1 + 1 ELSE 0) = i - 1
    BY <1>1
  <2> QED
    BY <2>2, <2>3, <2>4
<1>3. PICK back \in Seq(S) : /\ back = SubSeq(s, i + 1, n) /\ Len(back) = n - i
                             /\ \A j \in 1..(n - i) : back[j] = s[i + j]
  <2>1. \A j \in (i + 1)..n : s[j] \in S
    BY <1>1, ElementOfSeq
  <2>2. /\ SubSeq(s, i + 1, n) \in Seq(S)
        /\ Len(SubSeq(s, i + 1, n)) = IF i + 1 <= n THEN n - (i + 1) + 1 ELSE 0
        /\ \A j \in 1..(n - (i + 1) + 1) : SubSeq(s, i + 1, n)[j] = s[i + 1 + j - 1]
    BY <1>1, <2>1, SubSeqProperties
  <2>3. \A j \in 1..(n - i) : i + 1 + j - 1 = i + j /\ j \in 1..(n - (i + 1) + 1)
    BY <1>1
  <2>4. (IF i + 1 <= n THEN n - (i + 1) + 1 ELSE 0) = n - i
    BY <1>1
  <2> QED
    BY <2>2, <2>3, <2>4
<1>4. RemoveAt(s, i) = front \o back
  BY <1>1, <1>2, <1>3 DEF RemoveAt
<1>5. /\ front \o back \in Seq(S) /\ Len(front \o back) = Len(front) + Len(back)
      /\ \A j \in 1..(Len(front) + Len(back)) :
             (front \o back)[j] = IF j <= Len(front) THEN front[j] ELSE back[j - Len(front)]
  BY ConcatProperties
<1>6. i - 1 + (n - i) = n - 1
  BY <1>1
<1>7. \A j \in 1..(n - 1) : (front \o back)[j] = IF j <= i - 1 THEN front[j] ELSE back[j - (i - 1)]
  BY <1>2, <1>3, <1>5, <1>6
<1>8. \A j \in 1..(n - 1) : j < i => j <= i - 1 /\ j \in 1..(i - 1)
  BY <1>1
<1>9. \A j \in 1..(n - 1) : j >= i =>
          ~(j <= i - 1) /\ j - (i - 1) \in 1..(n - i) /\ i + (j - (i - 1)) = j + 1
  BY <1>1
<1>10. ASSUME NEW j \in 1..(n - 1), j >= i
       PROVE  (front \o back)[j] = s[j + 1]
  BY <1>3, <1>7, <1>9, <1>10
<1>11. ASSUME NEW j \in 1..(n - 1), j < i
       PROVE  (front \o back)[j] = s[j]
  BY <1>2, <1>7, <1>8, <1>11
<1> QED
  BY <1>1, <1>2, <1>3, <1>4, <1>5, <1>6, <1>10, <1>11

\* Those before an inserted element keep their positions, the others move down.
LEMMA InsertAtKeeps ==
    ASSUME NEW S, NEW s \in Seq(S), NEW i \in 1..(Len(s) + 1), NEW e \in S
    PROVE  /\ InsertAt(s, i, e) \in Seq(S)
           /\ Len(InsertAt(s, i, e)) = Len(s) + 1
           /\ InsertAt(s, i, e)[i] = e
           /\ \A j \in 1..Len(s) : j < i => InsertAt(s, i, e)[j] = s[j]
           /\ \A j \in 1..Len(s) : j >= i => InsertAt(s, i, e)[j + 1] = s[j]
<1>1. PICK n \in Nat : n = Len(s) /\ i \in 1..(n + 1)
  BY LenProperties
<1>2. PICK front \in Seq(S) : /\ front = SubSeq(s, 1, i - 1) /\ Len(front) = i - 1
                              /\ \A j \in 1..(i - 1) : front[j] = s[j]
  <2>1. \A j \in 1..(i - 1) : s[j] \in S
    BY <1>1, ElementOfSeq
  <2>2. /\ SubSeq(s, 1, i - 1) \in Seq(S)
        /\ Len(SubSeq(s, 1, i - 1)) = IF 1 <= i - 1 THEN i - 1 - 1 + 1 ELSE 0
        /\ \A j \in 1..(i - 1 - 1 + 1) : SubSeq(s, 1, i - 1)[j] = s[1 + j - 1]
    BY <2>1, SubSeqProperties
  <2>3. \A j \in 1..(i - 1) : 1 + j - 1 = j /\ j \in 1..(i - 1 - 1 + 1)
    OBVIOUS
  <2>4. (IF 1 <= i - 1 THEN i - 1 - 1 + 1 ELSE 0) = i - 1
    BY <1>1
  <2> QED
    BY <2>2, <2>3, <2>4
<1>3. PICK back \in Seq(S) : /\ back = SubSeq(s, i, n) /\ Len(back) = n - i + 1
                             /\ \A j \in 1..(n - i + 1) : back[j] = s[i + j - 1]
  <2>1. \A j \in i..n : s[j] \in S
    BY <1>1, ElementOfSeq
  <2>2. /\ SubSeq(s, i, n) \in Seq(S)
        /\ Len(SubSeq(s, i, n)) = IF i <= n THEN n - i + 1 ELSE 0
        /\ \A j \in 1..(n - i + 1) : SubSeq(s, i, n)[j] = s[i + j - 1]
    BY <1>1, <2>1, SubSeqProperties
  <2>3. (IF i <= n THEN n - i + 1 ELSE 0) = n - i + 1
    BY <1>1
  <2> QED
    BY <2>2, <2>3
<1>4. PICK head \in Seq(S) : head = front \o <<e>>
  <2>1. <<e>> \in Seq(S)
    OBVIOUS
  <2> QED
    BY <2>1, ConcatProperties
<1>5. InsertAt(s, i, e) = head \o back
  BY <1>1, <1>2, <1>3, <1>4 DEF InsertAt
<1>6. /\ Len(head) = i /\ head[i] = e
      /\ \A j \in 1..(i - 1) : head[j] = s[j]
  <2>1. Len(head) = i - 1 + 1 /\ \A j \in 1..(i - 1 + 1) :
            head[j] = IF j <= i - 1 THEN front[j] ELSE <<e>>[j - (i - 1)]
    <3>1. <<e>> \in Seq(S) /\ Len(<<e>>) = 1
      OBVIOUS
    <3>2. /\ Len(front \o <<e>>) = Len(front) + Len(<<e>>)
          /\ \A j \in 1..(Len(front) + Len(<<e>>)) :
                 (front \o <<e>>)[j] = IF j <= Len(front) THEN front[j] ELSE <<e>>[j - Len(front)]
      BY <3>1, ConcatProperties
    <3>3. Len(front) = i - 1
      BY <1>2
    <3> QED
      BY <1>4, <3>1, <3>2, <3>3
  <2>2. i - 1 + 1 = i /\ i \in 1..(i - 1 + 1) /\ ~(i <= i - 1) /\ i - (i - 1) = 1
    BY <1>1
  <2>3. head[i] = <<e>>[1]
    BY <2>1, <2>2
  <2>4. \A j \in 1..(i - 1) : j \in 1..(i - 1 + 1) /\ j <= i - 1
    BY <1>1
  <2> QED
    BY <1>2, <2>1, <2>2, <2>3, <2>4
<1> DEFINE whole == head \o back
<1>7. /\ whole \in Seq(S) /\ Len(whole) = Len(head) + Len(back)
      /\ \A j \in 1..(Len(head) + Len(back)) :
             whole[j] = IF j <= Len(head) THEN head[j] ELSE back[j - Len(head)]
  BY ConcatProperties
<1>whole. whole = InsertAt(s, i, e)
  BY <1>5
<1> HIDE DEF whole
<1>8. i + (n - i + 1) = n + 1
  BY <1>1
<1>9. /\ whole = InsertAt(s, i, e) /\ Len(whole) = n + 1
      /\ \A j \in 1..(n + 1) : j <= i => whole[j] = head[j]
      /\ \A j \in 1..(n + 1) : ~(j <= i) => whole[j] = back[j - i]
  <2>1. Len(head) = i /\ Len(back) = n - i + 1
    BY <1>3, <1>6
  <2>2. Len(whole) = n + 1 /\ \A j \in 1..(n + 1) :
            whole[j] = IF j <= i THEN head[j] ELSE back[j - i]
    BY <1>7, <1>8, <2>1
  <2> QED
    BY <1>whole, <2>2
<1>10. ASSUME NEW j \in 1..n, j < i
       PROVE  whole[j] = s[j]
  <2>1. j \in 1..(n + 1) /\ j <= i /\ j \in 1..(i - 1)
    BY <1>1, <1>10
  <2> QED
    BY <1>6, <1>9, <2>1
<1>11. ASSUME NEW j \in 1..n, j >= i
       PROVE  whole[j + 1] = s[j]
  <2>1. /\ j + 1 \in 1..(n + 1) /\ ~(j + 1 <= i) /\ j + 1 - i \in 1..(n - i + 1)
        /\ i + (j + 1 - i) - 1 = j
    BY <1>1, <1>11
  <2>2. whole[j + 1] = back[j + 1 - i]
    BY <1>9, <2>1
  <2>3. back[j + 1 - i] = s[i + (j + 1 - i) - 1]
    BY <1>3, <2>1
  <2> QED
    BY <2>1, <2>2, <2>3
<1>12. whole[i] = e
  <2>1. i \in 1..(n + 1) /\ i <= i
    BY <1>1
  <2> QED
    BY <1>6, <1>9, <2>1
<1> QED
  BY <1>1, <1>7, <1>9, <1>10, <1>11, <1>12

\* An element that is removed from a queue without repetitions is gone.
LEMMA RemoveAtElements ==
    ASSUME NEW S, NEW s \in Seq(S), NEW i \in 1..Len(s), IsInjective(s)
    PROVE  /\ IsInjective(RemoveAt(s, i))
           /\ ToSet(RemoveAt(s, i)) = ToSet(s) \ {s[i]}
<1>1. PICK n \in Nat : n = Len(s) /\ i \in 1..n
  BY LenProperties
<1>2. PICK r \in Seq(S) : /\ r = RemoveAt(s, i) /\ Len(r) = n - 1
                          /\ \A j \in 1..(n - 1) : j < i => r[j] = s[j]
                          /\ \A j \in 1..(n - 1) : j >= i => r[j] = s[j + 1]
  BY <1>1, RemoveAtKeeps
<1>3. DOMAIN s = 1..n /\ DOMAIN r = 1..(n - 1)
  BY <1>1, <1>2, LenProperties
<1>4. \A j, k \in 1..n : s[j] = s[k] => j = k
  BY <1>3 DEF IsInjective
<1>5. ASSUME NEW j \in 1..(n - 1)
      PROVE  r[j] \in ToSet(s) \ {s[i]}
  <2>1. CASE j < i
    <3>1. r[j] = s[j] /\ j \in 1..n /\ j # i
      BY <1>1, <1>2, <1>5, <2>1
    <3> QED
      BY <1>1, <1>3, <1>4, <3>1 DEF ToSet
  <2>2. CASE j >= i
    <3>1. r[j] = s[j + 1] /\ j + 1 \in 1..n /\ j + 1 # i
      BY <1>1, <1>2, <1>5, <2>2
    <3> QED
      BY <1>1, <1>3, <1>4, <3>1 DEF ToSet
  <2> QED
    BY <1>1, <2>1, <2>2
<1>6. ASSUME NEW k \in 1..n, k # i
      PROVE  s[k] \in ToSet(r)
  <2>1. CASE k < i
    <3>1. k \in 1..(n - 1) /\ r[k] = s[k]
      BY <1>1, <1>2, <1>6, <2>1
    <3> QED
      BY <1>3, <3>1 DEF ToSet
  <2>2. CASE k > i
    <3>1. PICK j \in 1..(n - 1) : j + 1 = k /\ j >= i
      BY <1>1, <1>6, <2>2
    <3>2. r[j] = s[k]
      BY <1>2, <3>1
    <3> QED
      BY <1>3, <3>2 DEF ToSet
  <2> QED
    BY <1>1, <1>6, <2>1, <2>2
<1>7. ToSet(r) = ToSet(s) \ {s[i]}
  BY <1>3, <1>5, <1>6 DEF ToSet
<1>8. ASSUME NEW j \in 1..(n - 1), NEW k \in 1..(n - 1), r[j] = r[k]
      PROVE  j = k
  <2>1. PICK a \in 1..n : r[j] = s[a] /\ a = IF j < i THEN j ELSE j + 1
    BY <1>1, <1>2
  <2>2. PICK b \in 1..n : r[k] = s[b] /\ b = IF k < i THEN k ELSE k + 1
    BY <1>1, <1>2
  <2>3. a = b
    BY <1>4, <1>8, <2>1, <2>2
  <2> QED
    BY <1>1, <2>1, <2>2, <2>3
<1> QED
  BY <1>2, <1>3, <1>7, <1>8 DEF IsInjective

\* A new element that is inserted is there once.
LEMMA InsertAtElements ==
    ASSUME NEW S, NEW s \in Seq(S), NEW i \in 1..(Len(s) + 1), NEW e \in S,
           IsInjective(s), e \notin ToSet(s)
    PROVE  /\ IsInjective(InsertAt(s, i, e))
           /\ ToSet(InsertAt(s, i, e)) = ToSet(s) \cup {e}
<1>1. PICK n \in Nat : n = Len(s) /\ i \in 1..(n + 1)
  BY LenProperties
<1>2. PICK r \in Seq(S) : /\ r = InsertAt(s, i, e) /\ Len(r) = n + 1 /\ r[i] = e
                          /\ \A j \in 1..n : j < i => r[j] = s[j]
                          /\ \A j \in 1..n : j >= i => r[j + 1] = s[j]
  <2> DEFINE t == InsertAt(s, i, e)
  <2>1. /\ t \in Seq(S) /\ Len(t) = Len(s) + 1 /\ t[i] = e
        /\ \A j \in 1..Len(s) : j < i => t[j] = s[j]
        /\ \A j \in 1..Len(s) : j >= i => t[j + 1] = s[j]
    BY InsertAtKeeps
  <2> HIDE DEF t
  <2>2. /\ Len(t) = n + 1
        /\ \A j \in 1..n : j < i => t[j] = s[j]
        /\ \A j \in 1..n : j >= i => t[j + 1] = s[j]
    BY <1>1, <2>1
  <2> QED
    BY <2>1, <2>2 DEF t
<1>3. DOMAIN s = 1..n /\ DOMAIN r = 1..(n + 1)
  BY <1>1, <1>2, LenProperties
<1>4. \A j, k \in 1..n : s[j] = s[k] => j = k
  BY <1>3 DEF IsInjective
<1>5. ASSUME NEW k \in 1..n
      PROVE  s[k] \in ToSet(r)
  <2>1. PICK a \in 1..(n + 1) : a = IF k < i THEN k ELSE k + 1
    BY <1>1
  <2>2. r[a] = s[k]
    BY <1>1, <1>2, <2>1
  <2> QED
    BY <1>3, <2>2 DEF ToSet
<1>6. ASSUME NEW j \in 1..(n + 1), j # i
      PROVE  \E k \in 1..n : r[j] = s[k] /\ j = IF k < i THEN k ELSE k + 1
  <2>1. CASE j < i
    <3>1. j \in 1..n
      BY <1>1, <1>6, <2>1
    <3> QED
      BY <1>2, <2>1, <3>1
  <2>2. CASE j > i
    <3>1. PICK k \in 1..n : k + 1 = j /\ k >= i
      BY <1>1, <1>6, <2>2
    <3>2. r[k + 1] = s[k] /\ ~(k < i)
      BY <1>1, <1>2, <3>1
    <3> QED
      BY <3>1, <3>2
  <2>3. j < i \/ j > i
    BY <1>1, <1>6
  <2> QED
    BY <2>1, <2>2, <2>3
<1>7. ToSet(r) = ToSet(s) \cup {e}
  <2>1. e \in ToSet(r)
    BY <1>1, <1>2, <1>3 DEF ToSet
  <2>2. \A j \in 1..(n + 1) : r[j] \in ToSet(s) \cup {e}
    BY <1>2, <1>3, <1>6 DEF ToSet
  <2> QED
    BY <1>3, <1>5, <2>1, <2>2 DEF ToSet
<1>8. \A k \in 1..n : s[k] # e
  BY <1>3 DEF ToSet
<1>9. ASSUME NEW j \in 1..(n + 1), NEW k \in 1..(n + 1), r[j] = r[k]
      PROVE  j = k
  <2>0. \A l \in 1..(n + 1) : l # i => r[l] # r[i]
    BY <1>2, <1>6, <1>8
  <2>1. CASE j = i \/ k = i
    BY <1>9, <2>0, <2>1
  <2>2. CASE j # i /\ k # i
    <3>1. PICK a \in 1..n : r[j] = s[a] /\ j = IF a < i THEN a ELSE a + 1
      BY <1>6, <2>2
    <3>2. PICK b \in 1..n : r[k] = s[b] /\ k = IF b < i THEN b ELSE b + 1
      BY <1>6, <2>2
    <3>3. a = b
      BY <1>4, <1>9, <3>1, <3>2
    <3> QED
      BY <3>1, <3>2, <3>3
  <2> QED
    BY <2>1, <2>2
<1> QED
  BY <1>2, <1>3, <1>7, <1>9 DEF IsInjective

\* A new element that is appended is there once.
LEMMA AppendElements ==
    ASSUME NEW S, NEW s \in Seq(S), NEW e \in S, IsInjective(s), e \notin ToSet(s)
    PROVE  /\ IsInjective(Append(s, e))
           /\ ToSet(Append(s, e)) = ToSet(s) \cup {e}
<1>1. PICK n \in Nat : n = Len(s)
  BY LenProperties
<1>2. PICK r \in Seq(S) : /\ r = Append(s, e) /\ Len(r) = n + 1 /\ r[n + 1] = e
                          /\ \A i \in 1..n : r[i] = s[i]
  <2>1. /\ Append(s, e) \in Seq(S) /\ Len(Append(s, e)) = Len(s) + 1
        /\ Append(s, e)[Len(s) + 1] = e
        /\ \A i \in 1..Len(s) : Append(s, e)[i] = s[i]
    BY AppendKeeps
  <2>2. PICK r \in Seq(S) : r = Append(s, e)
    BY <2>1
  <2>3. /\ Len(r) = n + 1 /\ r[n + 1] = e /\ \A i \in 1..n : r[i] = s[i]
    BY <1>1, <2>1, <2>2
  <2> QED BY <2>2, <2>3
<1>3. DOMAIN s = 1..n /\ DOMAIN r = 1..(n + 1)
  BY <1>1, <1>2, LenProperties
<1>4. \A j, k \in 1..n : s[j] = s[k] => j = k
  BY <1>3 DEF IsInjective
<1>5. \A k \in 1..n : s[k] # e
  BY <1>3 DEF ToSet
<1>6. \A j \in 1..(n + 1) : j \in 1..n \/ j = n + 1
  BY <1>1
<1>7. \A j \in 1..n : j \in 1..(n + 1)
  BY <1>1
<1>8. ToSet(r) = ToSet(s) \cup {e}
  <2>1. n + 1 \in 1..(n + 1)
    BY <1>1
  <2> QED BY <1>2, <1>3, <1>6, <1>7, <2>1 DEF ToSet
<1>9. \A j, k \in 1..(n + 1) : r[j] = r[k] => j = k
  BY <1>2, <1>4, <1>5, <1>6
<1> QED BY <1>2, <1>3, <1>8, <1>9 DEF IsInjective

\* An element that becomes the last one.
LEMMA MoveToEnd ==
    ASSUME NEW S, NEW s \in Seq(S), NEW i \in 1..Len(s), IsInjective(s),
           NEW t, t = Append(RemoveAt(s, i), s[i])
    PROVE  t \in Seq(S) /\ Len(t) = Len(s) /\ IsInjective(t) /\ ToSet(t) = ToSet(s)
<1>1. PICK n \in Nat : n = Len(s) /\ i \in 1..n
  BY LenProperties
<1>2. PICK r \in Seq(S) : /\ r = RemoveAt(s, i) /\ Len(r) = n - 1
                          /\ IsInjective(r) /\ ToSet(r) = ToSet(s) \ {s[i]}
  BY <1>1, RemoveAtKeeps, RemoveAtElements
<1>3. PICK e \in S : e = s[i]
  BY ElementOfSeq
<1>4. t = Append(r, e) /\ e \notin ToSet(r) /\ e \in ToSet(s)
  BY <1>1, <1>2, <1>3, LenProperties DEF ToSet
<1>5. t \in Seq(S) /\ Len(t) = Len(r) + 1
  BY <1>4, AppendKeeps
<1>6. IsInjective(t) /\ ToSet(t) = ToSet(r) \cup {e}
  BY <1>2, <1>4, AppendElements
<1>7. ToSet(t) = ToSet(s)
  BY <1>2, <1>3, <1>4, <1>6
<1> QED BY <1>1, <1>2, <1>5, <1>6, <1>7

-----------------------------------------------------------------------------
(***************************************************************************)
(* Induction over the natural numbers, by a least counterexample           *)
(***************************************************************************)
\* A set of natural numbers has a least element.
LEMMA LeastNat ==
    ASSUME NEW S \in SUBSET Nat, S # {}
    PROVE  \E m \in S : \A x \in S : m <= x
<1> DEFINE R == {xy \in Nat \X Nat : xy[1] < xy[2]}
<1>1. IsWellFoundedOn(R, Nat)
  BY NatLessThanWellFounded DEF OpToRel
<1> HIDE DEF R
<1>2. PICK m \in S : \A y \in S : ~(<<y, m>> \in R)
  BY <1>1, WFMin
<1>3. ASSUME NEW y \in S PROVE m <= y
  <2>1. ~(<<y, m>> \in R) /\ y \in Nat /\ m \in Nat
    BY <1>2
  <2> QED BY <2>1 DEF R
<1> QED BY <1>2, <1>3
==============================================================================
