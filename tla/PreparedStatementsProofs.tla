----------------------- MODULE PreparedStatementsProofs -----------------------
(***************************************************************************)
(* Proofs about PreparedStatements, for any SQL texts, any size of the     *)
(* cache, any number of objects and native statements and any depth: as    *)
(* long as a statement found in the cache is not re-entered, every         *)
(* operation has a statement to itself, the cache gives back what was put  *)
(* into it, no native statement is lost, and a recycled object is unused.  *)
(*                                                                         *)
(* HeapInv is proved for four steps: an object is obtained, an entry       *)
(* leaves the cache, a mark is taken away, and an object nobody caches is  *)
(* finalized.  Every operation is a sequence of these; close() is the      *)
(* second one, as often as the cache has entries.                          *)
(***************************************************************************)
EXTENDS PreparedStatements, SequenceFacts, TLAPS

USE StatementsAssumption

-----------------------------------------------------------------------------
(***************************************************************************)
(* The list of recycled objects                                            *)
(***************************************************************************)
Links == [Statements -> Statements \cup {None}]

\* A list has its head and, with an object, the next one.
LEMMA ListHas ==
    ASSUME NEW head \in Statements \cup {None}, NEW next \in Links
    PROVE  /\ OnList(head, next) \subseteq Statements
           /\ head # None => head \in OnList(head, next)
           /\ \A r \in OnList(head, next) : next[r] # None => next[r] \in OnList(head, next)
<1>1. OnList(head, next) \subseteq Statements
  BY DEF OnList
<1>2. ASSUME head # None PROVE head \in OnList(head, next)
  BY <1>2 DEF OnList
<1>3. ASSUME NEW r \in OnList(head, next), next[r] # None
      PROVE  next[r] \in OnList(head, next)
  <2>1. next[r] \in Statements
    BY <1>1, <1>3 DEF Links
  <2>2. ASSUME NEW R \in SUBSET Statements,
               ({head} \cup {next[t] : t \in R}) \ {None} \subseteq R
        PROVE  next[r] \in R
    <3>1. r \in R
      BY <2>2 DEF OnList
    <3> QED BY <1>3, <2>2, <3>1
  <2> QED BY <2>1, <2>2 DEF OnList
<1> QED BY <1>1, <1>2, <1>3

\* And nothing else.
LEMMA ListWithin ==
    ASSUME NEW head, NEW next, NEW R \in SUBSET Statements,
           head # None => head \in R,
           \A r \in R : next[r] # None => next[r] \in R
    PROVE  OnList(head, next) \subseteq R
<1>1. ({head} \cup {next[r] : r \in R}) \ {None} \subseteq R
  OBVIOUS
<1> QED BY <1>1 DEF OnList

\* recyclePreparedStatement: an object becomes the head.
LEMMA ListPush ==
    ASSUME NEW head \in Statements \cup {None}, NEW next \in Links, ListInv(head, next),
           NEW s \in Statements, s \notin OnList(head, next),
           NEW new \in Links, new = [next EXCEPT ![s] = head]
    PROVE  OnList(s, new) \subseteq OnList(head, next) \cup {s} /\ ListInv(s, new)
<1> DEFINE R == OnList(head, next) \cup {s}
<1>1. /\ OnList(head, next) \subseteq Statements
      /\ head # None => head \in OnList(head, next)
      /\ \A r \in OnList(head, next) : next[r] # None => next[r] \in OnList(head, next)
  BY ListHas
<1>2. \A r \in OnList(head, next) : r \in Statements /\ r # s /\ new[r] = next[r]
  BY <1>1 DEF Links
<1>3. new[s] = head /\ head # s /\ s # None
  BY <1>1 DEF Links
<1>4. OnList(s, new) \subseteq R
  <2>1. \A r \in R : new[r] # None => new[r] \in R
    BY <1>1, <1>2, <1>3
  <2>2. R \in SUBSET Statements
    BY <1>1
  <2> HIDE DEF R
  <2>3. s \in R
    BY DEF R
  <2>4. ({s} \cup {new[r] : r \in R}) \ {None} \subseteq R
    BY <2>1, <2>3
  <2> QED BY <2>2, <2>4 DEF OnList
<1>5. \A r \in R : new[r] # s
  BY <1>1, <1>2, <1>3
<1>6. ASSUME NEW r \in R, NEW t \in R, new[r] = new[t], new[r] # None
      PROVE  r = t
  <2>1. CASE r # s /\ t # s
    BY <1>2, <1>6, <2>1 DEF ListInv
  <2>2. CASE r = s /\ t # s
    BY <1>2, <1>3, <1>6, <2>2 DEF ListInv
  <2>3. CASE r # s /\ t = s
    BY <1>2, <1>3, <1>6, <2>3 DEF ListInv
  <2> QED BY <2>1, <2>2, <2>3
<1> HIDE DEF R
<1>7. ListInv(s, new)
  BY <1>4, <1>5, <1>6 DEF ListInv
<1> QED BY <1>4, <1>7 DEF R

\* obtainPreparedStatement: the head is taken off.
LEMMA ListPop ==
    ASSUME NEW head \in Statements, NEW next \in Links, ListInv(head, next),
           NEW new \in Links, \A u \in Statements : u # head => new[u] = next[u],
           NEW second, second = next[head]
    PROVE  OnList(second, new) \subseteq OnList(head, next) \ {head} /\ ListInv(second, new)
<1> DEFINE R == OnList(head, next) \ {head}
<1>0. head # None
  OBVIOUS
<1>1. /\ OnList(head, next) \subseteq Statements
      /\ head \in OnList(head, next)
      /\ \A r \in OnList(head, next) : next[r] # None => next[r] \in OnList(head, next)
  BY <1>0, ListHas
<1>2. \A r \in OnList(head, next) : next[r] # head
  BY <1>0 DEF ListInv
<1>3. \A r \in R : r \in Statements /\ new[r] = next[r]
  BY <1>1 DEF Links
<1>4. OnList(next[head], new) \subseteq R
  <2>1. next[head] # None => next[head] \in R
    BY <1>1, <1>2
  <2>2. \A r \in R : new[r] # None => new[r] \in R
    BY <1>1, <1>2, <1>3
  <2>3. R \in SUBSET Statements
    BY <1>1
  <2>4. PICK first : first = next[head]
    OBVIOUS
  <2> HIDE DEF R
  <2>5. OnList(first, new) \subseteq R
    <3>1. first # None => first \in R
      BY <2>1, <2>4
    <3> QED BY <2>2, <2>3, <3>1, ListWithin
  <2> QED BY <2>4, <2>5
<1>5. \A r \in R : next[head] # None => new[r] # next[head]
  BY <1>1, <1>3 DEF ListInv
<1>6. \A r, t \in R : new[r] = new[t] /\ new[r] # None => r = t
  BY <1>3 DEF ListInv
<1> HIDE DEF R
<1>7. ListInv(next[head], new)
  BY <1>4, <1>5, <1>6 DEF ListInv
<1> QED BY <1>4, <1>7 DEF R

\* An empty list stays empty whatever the objects point to.
LEMMA ListEmpty ==
    ASSUME NEW next
    PROVE  OnList(None, next) = {} /\ ListInv(None, next)
<1>1. OnList(None, next) \subseteq {}
  <2>1. PICK R \in SUBSET Statements : R = {}
    OBVIOUS
  <2>2. OnList(None, next) \subseteq R
    BY <2>1, ListWithin
  <2> QED BY <2>1, <2>2
<1> QED BY <1>1 DEF ListInv

-----------------------------------------------------------------------------
(***************************************************************************)
(* Four steps                                                              *)
(***************************************************************************)
HeapType(E, head, objs, nat, U) ==
    /\ E \subseteq Sqls \X Statements
    /\ head \in Statements \cup {None}
    /\ objs \in [Statements -> StatementType]
    /\ nat \in [Pointers -> Sqls \cup {None}]
    /\ U \subseteq Statements

LEMMA PoolNextType ==
    ASSUME NEW objs \in [Statements -> StatementType]
    PROVE  PoolNext(objs) \in Links /\ \A s \in Statements : PoolNext(objs)[s] = objs[s].mPoolNext
BY DEF PoolNext, Links, StatementType

\* An object that nobody has gets a new native statement and is marked as in use; it
\* may be put in the cache.
NewlyPrepared(sql, p, cached) == [mSql |-> sql, mStatementPtr |-> p, mInCache |-> cached,
                                  mInUse |-> TRUE, mPoolNext |-> None]

Obtains(E, head, objs, nat, U, s, sql, p, cached, F, head2, objs2, nat2) ==
    /\ HeapType(E, head, objs, nat, U) /\ HeapInv(E, head, objs, nat, U)
    /\ s \in Statements /\ s \notin Owned(E, U) /\ sql \in Sqls /\ p \in Pointers
    /\ nat[p] = None /\ cached \in BOOLEAN
    /\ cached => \A e \in E : e[1] # sql
    /\ F = IF cached THEN E \cup {<<sql, s>>} ELSE E
    /\ objs2 = [objs EXCEPT ![s] = NewlyPrepared(sql, p, cached)]
    /\ nat2 = [nat EXCEPT ![p] = sql]
    /\ head2 \in Statements \cup {None} /\ ListInv(head2, PoolNext(objs2))
    /\ OnList(head2, PoolNext(objs2)) \subseteq OnList(head, PoolNext(objs)) \ {s}

LEMMA ObtainHeap ==
    ASSUME NEW E, NEW head, NEW objs, NEW nat, NEW U, NEW s, NEW sql, NEW p, NEW cached, NEW F,
           NEW head2, NEW objs2, NEW nat2,
           Obtains(E, head, objs, nat, U, s, sql, p, cached, F, head2, objs2, nat2)
    PROVE  HeapType(F, head2, objs2, nat2, U \cup {s}) /\ HeapInv(F, head2, objs2, nat2, U \cup {s})
<1>0. /\ HeapType(E, head, objs, nat, U) /\ HeapInv(E, head, objs, nat, U)
      /\ s \in Statements /\ s \notin Owned(E, U) /\ sql \in Sqls /\ p \in Pointers
      /\ nat[p] = None /\ cached \in BOOLEAN
      /\ cached => \A e \in E : e[1] # sql
      /\ F = IF cached THEN E \cup {<<sql, s>>} ELSE E
      /\ objs2 = [objs EXCEPT ![s] = [mSql |-> sql, mStatementPtr |-> p, mInCache |-> cached,
                                      mInUse |-> TRUE, mPoolNext |-> None]]
      /\ nat2 = [nat EXCEPT ![p] = sql]
      /\ head2 \in Statements \cup {None} /\ ListInv(head2, PoolNext(objs2))
      /\ OnList(head2, PoolNext(objs2)) \subseteq OnList(head, PoolNext(objs)) \ {s}
  BY DEF Obtains, NewlyPrepared
<1> USE <1>0
<1>1. /\ E \subseteq Sqls \X Statements /\ objs \in [Statements -> StatementType]
      /\ nat \in [Pointers -> Sqls \cup {None}] /\ U \subseteq Statements
  BY DEF HeapType
<1>2. /\ objs2[s].mSql = sql /\ objs2[s].mStatementPtr = p /\ objs2[s].mInCache = cached
      /\ objs2[s].mInUse = TRUE
      /\ \A u \in Statements : u # s => objs2[u] = objs[u]
  BY <1>1
<1>3. /\ nat2[p] = sql /\ \A q \in Pointers : q # p => nat2[q] = nat[q]
      /\ nat2 \in [Pointers -> Sqls \cup {None}]
  BY <1>1
<1>4. objs2 \in [Statements -> StatementType]
  BY <1>1 DEF StatementType
<1>5. F \subseteq Sqls \X Statements /\ Owned(F, U \cup {s}) = Owned(E, U) \cup {s}
  <2>1. F \subseteq Sqls \X Statements
    BY <1>1
  <2>2. \A e \in F : e \in E \/ (cached /\ e[1] = sql /\ e[2] = s)
    OBVIOUS
  <2>3. E \subseteq F
    OBVIOUS
  <2> QED BY <2>1, <2>2, <2>3 DEF Owned
<1>6. HeapType(F, head2, objs2, nat2, U \cup {s})
  BY <1>1, <1>3, <1>4, <1>5 DEF HeapType
<1>7. \A u \in Owned(E, U) : u \in Statements /\ u # s /\ objs2[u] = objs[u]
  <2>1. Owned(E, U) \subseteq Statements
    BY <1>1 DEF Owned
  <2> QED BY <1>2, <2>1
<1>8. EntriesInv(F, objs2, U \cup {s})
  <2>1. EntriesInv(E, objs, U) /\ \A e \in E : e[2] \in Owned(E, U)
    BY DEF HeapInv, Owned
  <2>2. \A e \in F : (e \in E /\ e[2] # s) \/ (cached /\ e = <<sql, s>>)
    BY <1>7, <2>1
  <2>3. \A e, f \in F : e[1] = f[1] \/ e[2] = f[2] => e = f
    BY <2>1, <2>2 DEF EntriesInv
  <2>4. ASSUME NEW e \in F
        PROVE  /\ objs2[e[2]].mSql = e[1] /\ objs2[e[2]].mInCache
               /\ objs2[e[2]].mInUse => e[2] \in U \cup {s}
    <3>1. CASE e \in E
      BY <1>7, <2>1, <3>1 DEF EntriesInv
    <3>2. CASE cached /\ e = <<sql, s>>
      BY <1>2, <3>2
    <3> QED BY <2>2, <3>1, <3>2
  <2>5. ASSUME NEW u \in U \cup {s}
        PROVE  objs2[u].mInUse /\ (objs2[u].mInCache => \E e \in F : e[2] = u)
    <3>1. CASE u = s
      <4>1. cached => <<sql, s>> \in F /\ <<sql, s>>[2] = s
        OBVIOUS
      <4> QED BY <1>2, <3>1, <4>1
    <3>2. CASE u # s
      <4>1. u \in U /\ objs2[u] = objs[u] /\ E \subseteq F
        BY <1>1, <1>2, <3>2
      <4> QED BY <2>1, <4>1 DEF EntriesInv
    <3> QED BY <3>1, <3>2
  <2> QED BY <2>3, <2>4, <2>5 DEF EntriesInv
<1>9. PointersInv(F, objs2, nat2, U \cup {s})
  <2>1. PointersInv(E, objs, nat, U)
    BY DEF HeapInv
  <2>2. \A u \in Owned(E, U) : objs2[u] = objs[u] /\ objs[u].mStatementPtr # p
    BY <1>7, <2>1 DEF PointersInv
  <2>3. ASSUME NEW u \in Owned(E, U) \cup {s}
        PROVE  /\ objs2[u].mSql \in Sqls /\ objs2[u].mStatementPtr \in Pointers
               /\ nat2[objs2[u].mStatementPtr] = objs2[u].mSql
    <3>1. CASE u = s
      BY <1>2, <1>3, <3>1
    <3>2. CASE u \in Owned(E, U)
      BY <1>3, <2>1, <2>2, <3>2 DEF PointersInv
    <3> QED BY <3>1, <3>2
  <2>4. \A u, w \in Owned(E, U) \cup {s} : objs2[u].mStatementPtr = objs2[w].mStatementPtr => u = w
    BY <1>2, <2>1, <2>2 DEF PointersInv
  <2>5. ASSUME NEW q \in Pointers, nat2[q] # None
        PROVE  \E u \in Owned(E, U) \cup {s} : objs2[u].mStatementPtr = q
    <3>1. CASE q = p
      BY <1>2, <3>1
    <3>2. CASE q # p
      BY <1>3, <2>1, <2>2, <2>5, <3>2 DEF PointersInv
    <3> QED BY <3>1, <3>2
  <2> QED BY <1>5, <2>3, <2>4, <2>5 DEF PointersInv
<1>10. OnList(head2, PoolNext(objs2)) \cap Owned(F, U \cup {s}) = {}
  BY <1>5 DEF HeapInv
<1> QED BY <1>6, <1>8, <1>9, <1>10 DEF HeapInv

\* finalizePreparedStatement: an object leaves the cache and its operation, its native
\* statement is gone, and it becomes the head of the list.
Finalizes(E, head, objs, nat, U, s, F, objs2, nat2, V) ==
    /\ HeapType(E, head, objs, nat, U) /\ HeapInv(E, head, objs, nat, U)
    /\ s \in Owned(E, U) /\ F = {e \in E : e[2] # s} /\ V = U \ {s}
    /\ \E o \in StatementType : o.mPoolNext = head /\ objs2 = [objs EXCEPT ![s] = o]
    /\ nat2 = [nat EXCEPT ![objs[s].mStatementPtr] = None]

LEMMA FinalizeHeap ==
    ASSUME NEW E, NEW head, NEW objs, NEW nat, NEW U, NEW s, NEW F, NEW objs2, NEW nat2, NEW V,
           Finalizes(E, head, objs, nat, U, s, F, objs2, nat2, V)
    PROVE  HeapType(F, s, objs2, nat2, V) /\ HeapInv(F, s, objs2, nat2, V)
<1>0. /\ HeapType(E, head, objs, nat, U) /\ HeapInv(E, head, objs, nat, U)
      /\ s \in Owned(E, U) /\ F = {e \in E : e[2] # s} /\ V = U \ {s}
      /\ nat2 = [nat EXCEPT ![objs[s].mStatementPtr] = None]
  BY DEF Finalizes
<1> USE <1>0
<1>a. PICK o \in StatementType : o.mPoolNext = head /\ objs2 = [objs EXCEPT ![s] = o]
  BY DEF Finalizes
<1> USE <1>a
<1>1. /\ E \subseteq Sqls \X Statements /\ objs \in [Statements -> StatementType]
      /\ nat \in [Pointers -> Sqls \cup {None}] /\ U \subseteq Statements
      /\ head \in Statements \cup {None}
  BY DEF HeapType
<1>2. Owned(E, U) \subseteq Statements /\ s \in Statements
  BY <1>1 DEF Owned
<1>3. objs2[s] = o /\ \A u \in Statements : u # s => objs2[u] = objs[u]
  BY <1>1, <1>2
<1>4. objs2 \in [Statements -> StatementType]
  BY <1>1
<1>5. PointersInv(E, objs, nat, U) /\ EntriesInv(E, objs, U)
  BY DEF HeapInv
<1>6. PICK p \in Pointers : p = objs[s].mStatementPtr
  BY <1>5 DEF PointersInv
<1>7. /\ nat2[p] = None /\ \A q \in Pointers : q # p => nat2[q] = nat[q]
      /\ nat2 \in [Pointers -> Sqls \cup {None}]
  BY <1>1, <1>6
<1>8. Owned(F, V) = Owned(E, U) \ {s}
  BY DEF Owned
<1>9. HeapType(F, s, objs2, nat2, V)
  BY <1>1, <1>2, <1>4, <1>7 DEF HeapType
<1>10. \A u \in Owned(F, V) : u \in Owned(E, U) /\ u # s /\ objs2[u] = objs[u]
  BY <1>2, <1>3, <1>8
<1>11. EntriesInv(F, objs2, V)
  <2>1. \A e \in F : e \in E /\ e[2] # s /\ objs2[e[2]] = objs[e[2]]
    BY <1>10 DEF Owned
  <2>2. \A u \in V : u \in U /\ u # s /\ objs2[u] = objs[u]
    BY <1>10 DEF Owned
  <2>3. \A e, f \in F : e[1] = f[1] \/ e[2] = f[2] => e = f
    BY <1>5 DEF EntriesInv
  <2>4. ASSUME NEW e \in F
        PROVE  /\ objs2[e[2]].mSql = e[1] /\ objs2[e[2]].mInCache
               /\ objs2[e[2]].mInUse => e[2] \in V
    BY <1>5, <2>1 DEF EntriesInv
  <2>5. ASSUME NEW u \in V
        PROVE  objs2[u].mInUse /\ (objs2[u].mInCache => \E e \in F : e[2] = u)
    BY <1>5, <2>2 DEF EntriesInv
  <2> QED BY <2>3, <2>4, <2>5 DEF EntriesInv
<1>12. PointersInv(F, objs2, nat2, V)
  <2>1. \A u \in Owned(F, V) : objs2[u].mStatementPtr # p
    BY <1>5, <1>6, <1>10 DEF PointersInv
  <2>2. ASSUME NEW u \in Owned(F, V)
        PROVE  /\ objs2[u].mSql \in Sqls /\ objs2[u].mStatementPtr \in Pointers
               /\ nat2[objs2[u].mStatementPtr] = objs2[u].mSql
    <3>1. objs2[u] = objs[u] /\ u \in Owned(E, U) /\ objs2[u].mStatementPtr # p
      BY <1>10, <2>1
    <3>2. /\ objs[u].mSql \in Sqls /\ objs[u].mStatementPtr \in Pointers
          /\ nat[objs[u].mStatementPtr] = objs[u].mSql
      BY <1>5, <3>1 DEF PointersInv
    <3> QED BY <1>7, <3>1, <3>2
  <2>3. \A u, w \in Owned(F, V) : objs2[u].mStatementPtr = objs2[w].mStatementPtr => u = w
    BY <1>5, <1>10 DEF PointersInv
  <2>4. ASSUME NEW q \in Pointers, nat2[q] # None
        PROVE  \E u \in Owned(F, V) : objs2[u].mStatementPtr = q
    <3>1. q # p /\ nat[q] # None
      BY <1>7, <2>4
    <3>2. PICK u \in Owned(E, U) : objs[u].mStatementPtr = q
      BY <1>5, <3>1 DEF PointersInv
    <3>3. u # s
      BY <1>6, <3>1, <3>2
    <3> QED BY <1>8, <1>10, <3>2, <3>3
  <2> QED BY <2>2, <2>3, <2>4 DEF PointersInv
<1>13. /\ OnList(s, PoolNext(objs2)) \subseteq OnList(head, PoolNext(objs)) \cup {s}
       /\ ListInv(s, PoolNext(objs2))
  <2>1. /\ PoolNext(objs) \in Links /\ PoolNext(objs2) \in Links
        /\ \A u \in Statements : PoolNext(objs)[u] = objs[u].mPoolNext
        /\ \A u \in Statements : PoolNext(objs2)[u] = objs2[u].mPoolNext
    BY <1>1, <1>4, PoolNextType
  <2>2. PICK next \in Links : next = PoolNext(objs)
    BY <2>1
  <2>3. PICK new \in Links : new = PoolNext(objs2)
    BY <2>1
  <2>4. new[s] = head /\ \A u \in Statements : u # s => new[u] = next[u]
    BY <1>2, <1>3, <2>1, <2>2, <2>3
  <2>5. new = [next EXCEPT ![s] = head]
    BY <1>2, <2>4 DEF Links
  <2>6. ListInv(head, next) /\ s \notin OnList(head, next)
    BY <2>2 DEF HeapInv
  <2>7. OnList(s, new) \subseteq OnList(head, next) \cup {s} /\ ListInv(s, new)
    BY <1>1, <1>2, <2>5, <2>6, ListPush
  <2> QED BY <2>2, <2>3, <2>7
<1>14. OnList(s, PoolNext(objs2)) \cap Owned(F, V) = {}
  BY <1>8, <1>13 DEF HeapInv
<1> QED BY <1>9, <1>11, <1>12, <1>13, <1>14 DEF HeapInv

\* The objects differ in their marks at most.
OnlyMarks(objs, objs2) ==
    /\ objs2 \in [Statements -> StatementType]
    /\ \A u \in Statements : /\ objs2[u].mSql = objs[u].mSql
                             /\ objs2[u].mStatementPtr = objs[u].mStatementPtr
                             /\ objs2[u].mPoolNext = objs[u].mPoolNext

\* Then the list and the native statements are as before.
LEMMA MarksHeap ==
    ASSUME NEW E, NEW head, NEW objs, NEW nat, NEW U, HeapType(E, head, objs, nat, U),
           HeapInv(E, head, objs, nat, U), NEW objs2, OnlyMarks(objs, objs2),
           NEW F \in SUBSET E, NEW V \in SUBSET U, Owned(F, V) = Owned(E, U),
           EntriesInv(F, objs2, V)
    PROVE  HeapType(F, head, objs2, nat, V) /\ HeapInv(F, head, objs2, nat, V)
<1>2. /\ objs2 \in [Statements -> StatementType]
      /\ \A u \in Statements : /\ objs2[u].mSql = objs[u].mSql
                               /\ objs2[u].mStatementPtr = objs[u].mStatementPtr
                               /\ objs2[u].mPoolNext = objs[u].mPoolNext
  BY DEF OnlyMarks
<1>3. HeapType(F, head, objs2, nat, V)
  BY <1>2 DEF HeapType
<1>4. PoolNext(objs2) = PoolNext(objs)
  BY <1>2 DEF PoolNext
<1>5. Owned(E, U) \subseteq Statements
  BY DEF Owned, HeapType
<1>6. PointersInv(F, objs2, nat, V)
  BY <1>2, <1>5 DEF HeapInv, PointersInv
<1> QED BY <1>3, <1>4, <1>6 DEF HeapInv

\* A statement in use leaves the cache; its operation will finalize it.
LEMMA LeaveHeap ==
    ASSUME NEW E, NEW head, NEW objs, NEW nat, NEW U, HeapType(E, head, objs, nat, U),
           HeapInv(E, head, objs, nat, U), NEW e \in E, objs[e[2]].mInUse,
           NEW objs2, objs2 = [objs EXCEPT ![e[2]].mInCache = FALSE]
    PROVE  HeapType(E \ {e}, head, objs2, nat, U) /\ HeapInv(E \ {e}, head, objs2, nat, U)
<1>1. /\ E \subseteq Sqls \X Statements /\ objs \in [Statements -> StatementType]
      /\ U \subseteq Statements
  BY DEF HeapType
<1>2. PICK s \in Statements : s = e[2]
  BY <1>1
<1>3. EntriesInv(E, objs, U)
  BY DEF HeapInv
<1>4. s \in U /\ objs[s].mInUse = TRUE
  <2>1. objs[s].mInUse \in BOOLEAN
    BY <1>1 DEF StatementType
  <2> QED BY <1>2, <1>3, <2>1 DEF EntriesInv
<1>5. OnlyMarks(objs, objs2)
  <2>1. PICK o \in StatementType : o = objs[s]
    BY <1>1
  <2>2. PICK o2 : o2 = [o EXCEPT !.mInCache = FALSE]
    OBVIOUS
  <2>3. /\ o2 \in StatementType /\ o2.mSql = o.mSql
        /\ o2.mStatementPtr = o.mStatementPtr /\ o2.mPoolNext = o.mPoolNext
    BY <2>2 DEF StatementType
  <2>4. objs2 = [objs EXCEPT ![s] = o2]
    BY <1>2, <2>1, <2>2
  <2> QED BY <1>1, <2>1, <2>3, <2>4 DEF OnlyMarks
<1>6. /\ objs2[s].mInCache = FALSE /\ objs2[s].mInUse
      /\ \A u \in Statements : u # s => objs2[u] = objs[u]
  BY <1>1, <1>2, <1>4 DEF StatementType
<1>7. \A f \in E \ {e} : f[2] # s /\ f[2] \in Statements
  BY <1>1, <1>2, <1>3 DEF EntriesInv
<1>8. EntriesInv(E \ {e}, objs2, U)
  <2>1. \A f, g \in E \ {e} : f[1] = g[1] \/ f[2] = g[2] => f = g
    BY <1>3 DEF EntriesInv
  <2>2. ASSUME NEW f \in E \ {e}
        PROVE  /\ objs2[f[2]].mSql = f[1] /\ objs2[f[2]].mInCache
               /\ objs2[f[2]].mInUse => f[2] \in U
    BY <1>3, <1>6, <1>7 DEF EntriesInv
  <2>3. ASSUME NEW u \in U
        PROVE  objs2[u].mInUse /\ (objs2[u].mInCache => \E f \in E \ {e} : f[2] = u)
    <3>1. CASE u = s
      BY <1>6, <3>1
    <3>2. CASE u # s
      BY <1>1, <1>2, <1>3, <1>6, <3>2 DEF EntriesInv
    <3> QED BY <3>1, <3>2
  <2> QED BY <2>1, <2>2, <2>3 DEF EntriesInv
<1>9. Owned(E \ {e}, U) = Owned(E, U)
  BY <1>2, <1>4 DEF Owned
<1>10. PICK F \in SUBSET E : F = E \ {e}
  OBVIOUS
<1>11. Owned(F, U) = Owned(E, U) /\ EntriesInv(F, objs2, U)
  BY <1>8, <1>9, <1>10
<1>12. HeapType(F, head, objs2, nat, U) /\ HeapInv(F, head, objs2, nat, U)
  BY <1>5, <1>11, MarksHeap
<1> QED BY <1>10, <1>12

\* The mark of a statement that stays in the cache is taken away.
LEMMA UnmarkHeap ==
    ASSUME NEW E, NEW head, NEW objs, NEW nat, NEW U, HeapType(E, head, objs, nat, U),
           HeapInv(E, head, objs, nat, U), NEW e \in E,
           NEW objs2, objs2 = [objs EXCEPT ![e[2]].mInUse = FALSE]
    PROVE  HeapType(E, head, objs2, nat, U \ {e[2]}) /\ HeapInv(E, head, objs2, nat, U \ {e[2]})
<1>1. /\ E \subseteq Sqls \X Statements /\ objs \in [Statements -> StatementType]
      /\ U \subseteq Statements
  BY DEF HeapType
<1>2. PICK s \in Statements : s = e[2]
  BY <1>1
<1>3. EntriesInv(E, objs, U)
  BY DEF HeapInv
<1>4. objs[s].mInCache = TRUE
  <2>1. objs[s].mInCache \in BOOLEAN
    BY <1>1 DEF StatementType
  <2> QED BY <1>2, <1>3, <2>1 DEF EntriesInv
<1>5. OnlyMarks(objs, objs2)
  <2>1. PICK o \in StatementType : o = objs[s]
    BY <1>1
  <2>2. PICK o2 : o2 = [o EXCEPT !.mInUse = FALSE]
    OBVIOUS
  <2>3. /\ o2 \in StatementType /\ o2.mSql = o.mSql
        /\ o2.mStatementPtr = o.mStatementPtr /\ o2.mPoolNext = o.mPoolNext
    BY <2>2 DEF StatementType
  <2>4. objs2 = [objs EXCEPT ![s] = o2]
    BY <1>2, <2>1, <2>2
  <2> QED BY <1>1, <2>1, <2>3, <2>4 DEF OnlyMarks
<1>6. /\ objs2[s].mInCache = TRUE /\ objs2[s].mInUse = FALSE /\ objs2[s].mSql = objs[s].mSql
      /\ \A u \in Statements : u # s => objs2[u] = objs[u]
  BY <1>1, <1>2, <1>4 DEF StatementType
<1>7. EntriesInv(E, objs2, U \ {s})
  <2>1. \A f, g \in E : f[1] = g[1] \/ f[2] = g[2] => f = g
    BY <1>3 DEF EntriesInv
  <2>2. ASSUME NEW f \in E
        PROVE  /\ objs2[f[2]].mSql = f[1] /\ objs2[f[2]].mInCache
               /\ objs2[f[2]].mInUse => f[2] \in U \ {s}
    <3>1. CASE f[2] = s
      BY <1>3, <1>6, <3>1 DEF EntriesInv
    <3>2. CASE f[2] # s
      BY <1>1, <1>3, <1>6, <3>2 DEF EntriesInv
    <3> QED BY <3>1, <3>2
  <2>3. ASSUME NEW u \in U \ {s}
        PROVE  objs2[u].mInUse /\ (objs2[u].mInCache => \E f \in E : f[2] = u)
    BY <1>1, <1>3, <1>6 DEF EntriesInv
  <2> QED BY <2>1, <2>2, <2>3 DEF EntriesInv
<1>8. Owned(E, U \ {s}) = Owned(E, U)
  BY <1>2 DEF Owned
<1>9. HeapType(E, head, objs2, nat, U \ {s}) /\ HeapInv(E, head, objs2, nat, U \ {s})
  <2>1. PICK V \in SUBSET U : V = U \ {s}
    OBVIOUS
  <2>2. Owned(E, V) = Owned(E, U) /\ EntriesInv(E, objs2, V)
    BY <1>7, <1>8, <2>1
  <2>3. HeapType(E, head, objs2, nat, V) /\ HeapInv(E, head, objs2, nat, V)
    BY <1>5, <2>2, MarksHeap
  <2> QED BY <2>1, <2>3
<1> QED BY <1>2, <1>9

-----------------------------------------------------------------------------
(***************************************************************************)
(* The same for the methods, which work on a record h                      *)
(***************************************************************************)
HeapRecord(h) ==
    /\ h = [cache |-> h.cache, pool |-> h.pool, objs |-> h.objs, native |-> h.native]
    /\ h.cache \in Seq(Sqls \X Statements)
    /\ h.pool \in Statements \cup {None}
    /\ h.objs \in [Statements -> StatementType]
    /\ h.native \in [Pointers -> Sqls \cup {None}]

HeapOK(h, U) ==
    /\ HeapRecord(h) /\ IsInjective(h.cache) /\ U \subseteq Statements
    /\ HeapInv(ToSet(h.cache), h.pool, h.objs, h.native, U)

\* The components of a record.
Is(h, c, q, o, n) == h.cache = c /\ h.pool = q /\ h.objs = o /\ h.native = n

LEMMA RecordOf ==
    ASSUME NEW c \in Seq(Sqls \X Statements), NEW q \in Statements \cup {None},
           NEW o \in [Statements -> StatementType], NEW n \in [Pointers -> Sqls \cup {None}],
           NEW h, h = [cache |-> c, pool |-> q, objs |-> o, native |-> n]
    PROVE  HeapRecord(h) /\ Is(h, c, q, o, n)
BY DEF HeapRecord, Is

\* recyclePreparedStatement, component by component.
RecycledObject(o, s, q) == [mSql |-> None, mStatementPtr |-> o[s].mStatementPtr,
                            mInCache |-> o[s].mInCache, mInUse |-> o[s].mInUse,
                            mPoolNext |-> q]

LEMMA RecycledRecord ==
    ASSUME NEW h, HeapRecord(h), NEW s \in Statements,
           NEW g, g = RecyclePreparedStatement(h, s)
    PROVE  /\ HeapRecord(g)
           /\ Is(g, h.cache, s, [h.objs EXCEPT ![s] = RecycledObject(h.objs, s, h.pool)],
                 h.native)
<1>1. PICK c \in Seq(Sqls \X Statements), q \in Statements \cup {None},
           o \in [Statements -> StatementType], n \in [Pointers -> Sqls \cup {None}] :
           h = [cache |-> c, pool |-> q, objs |-> o, native |-> n]
  BY DEF HeapRecord
<1>2. PICK r \in StatementType :
           r = o[s] /\ r = [mSql |-> r.mSql, mStatementPtr |-> r.mStatementPtr,
                            mInCache |-> r.mInCache, mInUse |-> r.mInUse,
                            mPoolNext |-> r.mPoolNext]
  BY DEF StatementType
<1>3. PICK r2 : r2 = [mSql |-> None, mStatementPtr |-> r.mStatementPtr,
                      mInCache |-> r.mInCache, mInUse |-> r.mInUse, mPoolNext |-> q]
  OBVIOUS
<1>4. [r EXCEPT !.mSql = None, !.mPoolNext = q] = r2
  <2>1. PICK r1 : r1 = [r EXCEPT !.mSql = None]
    OBVIOUS
  <2>2. r1 = [mSql |-> None, mStatementPtr |-> r.mStatementPtr, mInCache |-> r.mInCache,
              mInUse |-> r.mInUse, mPoolNext |-> r.mPoolNext]
    BY <1>2, <2>1
  <2>3. [r1 EXCEPT !.mPoolNext = q] = r2
    BY <1>3, <2>2
  <2> QED BY <2>1, <2>3
<1>5. PICK o2 \in [Statements -> StatementType] : o2 = [o EXCEPT ![s] = r2]
  BY <1>2, <1>3 DEF StatementType
<1>6. [h EXCEPT !.objs[s] = [@ EXCEPT !.mSql = None, !.mPoolNext = h.pool], !.pool = s] =
          [cache |-> c, pool |-> s, objs |-> o2, native |-> n]
  <2>1. h.pool = q /\ h.objs = o /\ h.objs[s] = r
    BY <1>1, <1>2
  <2>2. [h.objs[s] EXCEPT !.mSql = None, !.mPoolNext = h.pool] = r2
    BY <1>4, <2>1
  <2>3. [h EXCEPT !.objs[s] = r2, !.pool = s] =
            [cache |-> c, pool |-> s, objs |-> o2, native |-> n]
    <3>1. [h EXCEPT !.objs[s] = r2] = [cache |-> c, pool |-> q, objs |-> o2, native |-> n]
      BY <1>1, <1>5, SMTT(30)
    <3>2. [[cache |-> c, pool |-> q, objs |-> o2, native |-> n] EXCEPT !.pool = s] =
              [cache |-> c, pool |-> s, objs |-> o2, native |-> n]
      OBVIOUS
    <3> QED BY <3>1, <3>2
  <2>4. [h EXCEPT !.objs[s] = [@ EXCEPT !.mSql = None, !.mPoolNext = h.pool], !.pool = s] =
            [h EXCEPT !.objs[s] = [h.objs[s] EXCEPT !.mSql = None, !.mPoolNext = h.pool],
                      !.pool = s]
    BY <1>1
  <2> QED BY <2>2, <2>3, <2>4
<1>7. g = [cache |-> c, pool |-> s, objs |-> o2, native |-> n]
  BY <1>6, Zenon DEF RecyclePreparedStatement
<1>8. HeapRecord(g) /\ Is(g, c, s, o2, n)
  BY <1>7, RecordOf
<1>9. h.cache = c /\ h.pool = q /\ h.objs = o /\ h.native = n
  BY <1>1
<1>10. o2 = [h.objs EXCEPT ![s] = RecycledObject(h.objs, s, h.pool)]
  BY <1>2, <1>3, <1>5, <1>9 DEF RecycledObject
<1> QED BY <1>8, <1>9, <1>10

\* finalizePreparedStatement, component by component.
LEMMA FinalizedRecord ==
    ASSUME NEW h, HeapRecord(h), NEW s \in Statements,
           NEW g, g = FinalizePreparedStatement(h, s)
    PROVE  /\ HeapRecord(g)
           /\ Is(g, h.cache, s, [h.objs EXCEPT ![s] = RecycledObject(h.objs, s, h.pool)],
                 [h.native EXCEPT ![h.objs[s].mStatementPtr] = None])
<1>1. PICK c \in Seq(Sqls \X Statements), q \in Statements \cup {None},
           o \in [Statements -> StatementType], n \in [Pointers -> Sqls \cup {None}] :
           h = [cache |-> c, pool |-> q, objs |-> o, native |-> n]
  BY DEF HeapRecord
<1>2. h.cache = c /\ h.pool = q /\ h.objs = o /\ h.native = n
  BY <1>1
<1>3. PICK n2 \in [Pointers -> Sqls \cup {None}] : n2 = [n EXCEPT ![o[s].mStatementPtr] = None]
  OBVIOUS
<1>4. PICK h2 : h2 = [cache |-> c, pool |-> q, objs |-> o, native |-> n2]
  OBVIOUS
<1>5. [h EXCEPT !.native[h.objs[s].mStatementPtr] = None] = h2
  BY <1>1, <1>3, <1>4
<1>6. HeapRecord(h2) /\ Is(h2, c, q, o, n2)
  BY <1>4, RecordOf
<1>7. g = RecyclePreparedStatement(h2, s)
  BY <1>5, Zenon DEF FinalizePreparedStatement
<1>8. /\ HeapRecord(g)
      /\ Is(g, h2.cache, s, [h2.objs EXCEPT ![s] = RecycledObject(h2.objs, s, h2.pool)],
            h2.native)
  BY <1>6, <1>7, RecycledRecord
<1> QED BY <1>2, <1>3, <1>6, <1>8 DEF Is

\* A mark is changed.
SetInCache(h, s, v) == [h EXCEPT !.objs[s].mInCache = v]
SetInUse(h, s, v) == [h EXCEPT !.objs[s].mInUse = v]

LEMMA InCacheRecord ==
    ASSUME NEW h, HeapRecord(h), NEW s \in Statements, NEW v \in BOOLEAN,
           NEW g, g = SetInCache(h, s, v)
    PROVE  /\ HeapRecord(g)
           /\ Is(g, h.cache, h.pool, [h.objs EXCEPT ![s].mInCache = v], h.native)
<1>1. PICK c \in Seq(Sqls \X Statements), q \in Statements \cup {None},
           o \in [Statements -> StatementType], n \in [Pointers -> Sqls \cup {None}] :
           h = [cache |-> c, pool |-> q, objs |-> o, native |-> n]
  BY DEF HeapRecord
<1>2. h.cache = c /\ h.pool = q /\ h.objs = o /\ h.native = n
  BY <1>1
<1>3. PICK o2 \in [Statements -> StatementType] : o2 = [o EXCEPT ![s].mInCache = v]
  BY DEF StatementType
<1>4. g = [cache |-> c, pool |-> q, objs |-> o2, native |-> n]
  BY <1>1, <1>3 DEF SetInCache
<1>5. HeapRecord(g) /\ Is(g, c, q, o2, n)
  BY <1>4, RecordOf
<1> QED BY <1>2, <1>3, <1>5 DEF Is

LEMMA InUseRecord ==
    ASSUME NEW h, HeapRecord(h), NEW s \in Statements, NEW v \in BOOLEAN,
           NEW g, g = SetInUse(h, s, v)
    PROVE  /\ HeapRecord(g)
           /\ Is(g, h.cache, h.pool, [h.objs EXCEPT ![s].mInUse = v], h.native)
<1>1. PICK c \in Seq(Sqls \X Statements), q \in Statements \cup {None},
           o \in [Statements -> StatementType], n \in [Pointers -> Sqls \cup {None}] :
           h = [cache |-> c, pool |-> q, objs |-> o, native |-> n]
  BY DEF HeapRecord
<1>2. h.cache = c /\ h.pool = q /\ h.objs = o /\ h.native = n
  BY <1>1
<1>3. PICK o2 \in [Statements -> StatementType] : o2 = [o EXCEPT ![s].mInUse = v]
  BY DEF StatementType
<1>4. g = [cache |-> c, pool |-> q, objs |-> o2, native |-> n]
  BY <1>1, <1>3 DEF SetInUse
<1>5. HeapRecord(g) /\ Is(g, c, q, o2, n)
  BY <1>4, RecordOf
<1> QED BY <1>2, <1>3, <1>5 DEF Is

\* The cache is replaced.
LEMMA CachedRecord ==
    ASSUME NEW h, HeapRecord(h), NEW c2 \in Seq(Sqls \X Statements),
           NEW g, g = [h EXCEPT !.cache = c2]
    PROVE  HeapRecord(g) /\ Is(g, c2, h.pool, h.objs, h.native)
<1>1. PICK c \in Seq(Sqls \X Statements), q \in Statements \cup {None},
           o \in [Statements -> StatementType], n \in [Pointers -> Sqls \cup {None}] :
           h = [cache |-> c, pool |-> q, objs |-> o, native |-> n]
  BY DEF HeapRecord
<1>2. h.cache = c /\ h.pool = q /\ h.objs = o /\ h.native = n
  BY <1>1
<1>3. g = [cache |-> c2, pool |-> q, objs |-> o, native |-> n]
  BY <1>1
<1> QED BY <1>2, <1>3, RecordOf

\* An object out of the cache, out of use and on the list before q.
Freed(o, s, q) == [mSql |-> None, mStatementPtr |-> o[s].mStatementPtr, mInCache |-> FALSE,
                   mInUse |-> FALSE, mPoolNext |-> q]

\* The i-th entry leaves the cache, component by component.
LEMMA EvictedRecord ==
    ASSUME NEW h, HeapRecord(h), NEW i \in 1..Len(h.cache), NEW g, g = Evict(h, i),
           NEW s \in Statements, s = h.cache[i][2]
    PROVE  /\ HeapRecord(g)
           /\ h.objs[s].mInUse =>
                  Is(g, RemoveAt(h.cache, i), h.pool, [h.objs EXCEPT ![s].mInCache = FALSE],
                     h.native)
           /\ ~h.objs[s].mInUse =>
                  Is(g, RemoveAt(h.cache, i), s,
                     [h.objs EXCEPT ![s] = Freed(h.objs, s, h.pool)],
                     [h.native EXCEPT ![h.objs[s].mStatementPtr] = None])
<1>1. PICK c2 \in Seq(Sqls \X Statements) : c2 = RemoveAt(h.cache, i)
  BY RemoveAtKeeps DEF HeapRecord
<1>2. PICK h1 : h1 = [h EXCEPT !.cache = c2]
  OBVIOUS
<1>3. HeapRecord(h1) /\ Is(h1, c2, h.pool, h.objs, h.native)
  BY <1>2, CachedRecord
<1>4. g = EntryRemoved(h1, s)
  <2>1. [h EXCEPT !.cache = RemoveAt(h.cache, i)] = h1
    BY <1>1, <1>2
  <2>2. g = EntryRemoved([h EXCEPT !.cache = RemoveAt(h.cache, i)], h.cache[i][2])
    BY DEF Evict
  <2> QED BY <2>1, <2>2
<1>5. PICK v \in BOOLEAN : v = FALSE
  OBVIOUS
<1>6. PICK h2 : h2 = SetInCache(h1, s, v)
  OBVIOUS
<1>7. /\ HeapRecord(h2)
      /\ Is(h2, h1.cache, h1.pool, [h1.objs EXCEPT ![s].mInCache = v], h1.native)
      /\ h2.objs[s].mStatementPtr = h1.objs[s].mStatementPtr
      /\ h2.objs[s].mInUse = h1.objs[s].mInUse
      /\ h2.objs[s].mSql = h1.objs[s].mSql /\ h2.objs[s].mInCache = v
  <2>1. HeapRecord(h2)
    BY <1>3, <1>6, InCacheRecord
  <2>2. Is(h2, h1.cache, h1.pool, [h1.objs EXCEPT ![s].mInCache = v], h1.native)
    BY <1>3, <1>6, InCacheRecord
  <2>3. h1.objs \in [Statements -> StatementType] /\ h2.objs = [h1.objs EXCEPT ![s].mInCache = v]
    BY <1>3, <2>2 DEF HeapRecord, Is
  <2>4. /\ h2.objs[s].mStatementPtr = h1.objs[s].mStatementPtr
        /\ h2.objs[s].mInUse = h1.objs[s].mInUse
        /\ h2.objs[s].mSql = h1.objs[s].mSql /\ h2.objs[s].mInCache = v
    BY <2>3 DEF StatementType
  <2> QED BY <2>1, <2>2, <2>4
<1>8. CASE h.objs[s].mInUse
  <2>1. h1.objs[s].mInUse
    BY <1>3, <1>8 DEF Is
  <2>2. g = h2
    BY <1>4, <1>5, <1>6, <2>1, Zenon DEF EntryRemoved, SetInCache
  <2> QED BY <1>1, <1>3, <1>5, <1>7, <1>8, <2>2 DEF Is
<1>9. CASE ~h.objs[s].mInUse
  <2>1. ~h1.objs[s].mInUse
    BY <1>3, <1>9 DEF Is
  <2>2. g = FinalizePreparedStatement(h2, s)
    BY <1>4, <1>5, <1>6, <2>1, Zenon DEF EntryRemoved, SetInCache
  <2>3. /\ HeapRecord(g)
        /\ Is(g, h2.cache, s, [h2.objs EXCEPT ![s] = RecycledObject(h2.objs, s, h2.pool)],
              [h2.native EXCEPT ![h2.objs[s].mStatementPtr] = None])
    BY <1>7, <2>2, FinalizedRecord
  <2>4. h2.objs[s].mInUse = FALSE
    <3>1. h2.objs[s].mInUse \in BOOLEAN
      BY <1>7 DEF HeapRecord, StatementType
    <3> QED BY <1>7, <2>1, <3>1
  <2>5. h2.pool = h.pool /\ h2.cache = c2 /\ h2.native = h.native
        /\ h2.objs[s].mStatementPtr = h.objs[s].mStatementPtr
    BY <1>3, <1>7 DEF Is
  <2>6. PICK f : f = Freed(h.objs, s, h.pool)
    OBVIOUS
  <2>7. RecycledObject(h2.objs, s, h2.pool) = f
    BY <1>5, <1>7, <2>4, <2>5, <2>6 DEF Freed, RecycledObject
  <2>8. [h2.objs EXCEPT ![s] = f] = [h.objs EXCEPT ![s] = f]
    BY <1>3, <1>7 DEF Is, HeapRecord
  <2> QED BY <1>1, <1>9, <2>3, <2>5, <2>6, <2>7, <2>8 DEF Is
<1> QED BY <1>8, <1>9

\* What an entry that leaves the cache leaves behind.
LEMMA EvictHeap ==
    ASSUME NEW h, NEW U, HeapOK(h, U), NEW i \in 1..Len(h.cache),
           NEW s \in Statements, s = h.cache[i][2],
           NEW g, g = Evict(h, i)
    PROVE  /\ HeapOK(g, U) /\ g.cache = RemoveAt(h.cache, i)
           /\ ToSet(g.cache) = ToSet(h.cache) \ {h.cache[i]}
           /\ \A u \in Statements : u # s => g.objs[u] = h.objs[u]
           /\ s \in U => g.objs[s].mSql = h.objs[s].mSql
<1>1. PICK c \in Seq(Sqls \X Statements), q \in Statements \cup {None},
           o \in [Statements -> StatementType], n \in [Pointers -> Sqls \cup {None}] :
           h = [cache |-> c, pool |-> q, objs |-> o, native |-> n]
  BY DEF HeapOK, HeapRecord
<1>2. h.cache = c /\ h.pool = q /\ h.objs = o /\ h.native = n
  BY <1>1
<1>3. PICK E : E = ToSet(c)
  OBVIOUS
<1>4. PICK e \in E : e = c[i] /\ e[2] = s
  BY <1>2, <1>3, LenProperties DEF ToSet
<1>5. /\ E \subseteq Sqls \X Statements
      /\ HeapType(E, q, o, n, U) /\ HeapInv(E, q, o, n, U) /\ IsInjective(c)
  <2>1. E \subseteq Sqls \X Statements
    BY <1>3, ElementOfSeq, LenProperties DEF ToSet
  <2> QED BY <1>2, <1>3, <2>1 DEF HeapOK, HeapType
<1>6. PICK c2 \in Seq(Sqls \X Statements) :
          c2 = RemoveAt(c, i) /\ IsInjective(c2) /\ ToSet(c2) = E \ {e}
  BY <1>2, <1>3, <1>4, <1>5, RemoveAtKeeps, RemoveAtElements
<1>0. /\ HeapRecord(g)
      /\ h.objs[s].mInUse =>
             Is(g, RemoveAt(h.cache, i), h.pool, [h.objs EXCEPT ![s].mInCache = FALSE],
                h.native)
      /\ ~h.objs[s].mInUse =>
             Is(g, RemoveAt(h.cache, i), s, [h.objs EXCEPT ![s] = Freed(h.objs, s, h.pool)],
                [h.native EXCEPT ![h.objs[s].mStatementPtr] = None])
  BY EvictedRecord DEF HeapOK
<1>7. CASE o[s].mInUse
  <2>1. PICK o2 : o2 = [o EXCEPT ![s].mInCache = FALSE]
    OBVIOUS
  <2>2. Is(g, c2, q, o2, n)
    BY <1>0, <1>2, <1>6, <1>7, <2>1
  <2>3. HeapType(E \ {e}, q, o2, n, U) /\ HeapInv(E \ {e}, q, o2, n, U)
    BY <1>4, <1>5, <1>7, <2>1, LeaveHeap
  <2>4. g.cache = c2 /\ g.pool = q /\ g.objs = o2 /\ g.native = n
    BY <2>2 DEF Is
  <2>5. HeapOK(g, U)
    BY <1>0, <1>6, <2>3, <2>4 DEF HeapOK, HeapType
  <2>6. o2[s].mSql = o[s].mSql /\ \A u \in Statements : u # s => o2[u] = o[u]
    BY <2>1 DEF StatementType
  <2> QED BY <1>2, <1>3, <1>4, <1>6, <2>4, <2>5, <2>6
<1>8. CASE ~o[s].mInUse
  <2>1. PICK f : f = Freed(o, s, q)
    OBVIOUS
  <2>2. PICK o2 : o2 = [o EXCEPT ![s] = f]
    OBVIOUS
  <2>3. PICK n2 : n2 = [n EXCEPT ![o[s].mStatementPtr] = None]
    OBVIOUS
  <2>4. Is(g, c2, s, o2, n2)
    BY <1>0, <1>2, <1>6, <1>8, <2>1, <2>2, <2>3
  <2>5. f \in StatementType /\ f.mPoolNext = q
    <3>1. o[s].mStatementPtr \in Pointers \cup {None}
      BY DEF StatementType
    <3> QED BY <2>1, <3>1 DEF Freed, StatementType
  <2>6. s \notin U
    BY <1>5, <1>8 DEF HeapInv, EntriesInv
  <2>7. E \ {e} = {x \in E : x[2] # s} /\ U = U \ {s} /\ s \in Owned(E, U)
    <3>1. \A x \in E : x[2] = s => x = e
      BY <1>4, <1>5 DEF HeapInv, EntriesInv
    <3>2. s \in Owned(E, U)
      BY <1>4 DEF Owned
    <3> QED BY <1>4, <2>6, <3>1, <3>2
  <2>8. HeapType(E \ {e}, s, o2, n2, U) /\ HeapInv(E \ {e}, s, o2, n2, U)
    <3>1. PICK F : F = E \ {e}
      OBVIOUS
    <3>2. PICK V : V = U
      OBVIOUS
    <3>3. F = {x \in E : x[2] # s} /\ V = U \ {s}
      BY <2>7, <3>1, <3>2
    <3>4. Finalizes(E, q, o, n, U, s, F, o2, n2, V)
      BY <1>5, <2>2, <2>3, <2>5, <2>7, <3>3 DEF Finalizes
    <3>5. HeapType(F, s, o2, n2, V) /\ HeapInv(F, s, o2, n2, V)
      BY <3>4, FinalizeHeap
    <3> QED BY <3>1, <3>2, <3>5
  <2>9. g.cache = c2 /\ g.pool = s /\ g.objs = o2 /\ g.native = n2
    BY <2>4 DEF Is
  <2>10. HeapOK(g, U)
    BY <1>0, <1>6, <2>8, <2>9 DEF HeapOK, HeapType
  <2>11. \A u \in Statements : u # s => o2[u] = o[u]
    BY <2>2
  <2> QED BY <1>2, <1>3, <1>4, <1>6, <2>6, <2>9, <2>10, <2>11
<1> QED BY <1>7, <1>8

\* LruCache.get changes the order of the entries only.
LEMMA GetHeap ==
    ASSUME NEW h, NEW U, HeapOK(h, U), NEW sql, NEW g, g = LruGet(h, sql)
    PROVE  /\ HeapOK(g, U) /\ Len(g.cache) = Len(h.cache) /\ ToSet(g.cache) = ToSet(h.cache)
           /\ g.pool = h.pool /\ g.objs = h.objs /\ g.native = h.native
<1>1. CASE Entries(h.cache, sql) = {}
  <2>1. g = h
    BY <1>1, Zenon DEF LruGet
  <2> QED BY <2>1
<1>2. CASE Entries(h.cache, sql) # {}
  <2>1. PICK i \in Entries(h.cache, sql) : i = CHOOSE j \in Entries(h.cache, sql) : TRUE
    BY <1>2
  <2>2. h.cache \in Seq(Sqls \X Statements) /\ i \in 1..Len(h.cache) /\ IsInjective(h.cache)
    BY <2>1, LenProperties DEF Entries, HeapOK, HeapRecord
  <2>3. PICK c2 : c2 = Append(RemoveAt(h.cache, i), h.cache[i])
    OBVIOUS
  <2>4. /\ c2 \in Seq(Sqls \X Statements) /\ Len(c2) = Len(h.cache)
        /\ IsInjective(c2) /\ ToSet(c2) = ToSet(h.cache)
    BY <2>2, <2>3, MoveToEnd
  <2>5. g = [h EXCEPT !.cache = Append(RemoveAt(h.cache, i), h.cache[i])]
    BY <1>2, <2>1 DEF LruGet
  <2>6. g = [h EXCEPT !.cache = c2]
    BY <2>3, <2>5
  <2>7. HeapRecord(g) /\ Is(g, c2, h.pool, h.objs, h.native)
    BY <2>4, <2>6, CachedRecord DEF HeapOK
  <2> QED BY <2>4, <2>7 DEF HeapOK, Is
<1> QED BY <1>1, <1>2

\* The objects of the operations U keep their SQL.
Keeps(h, g, U) == \A u \in U : g.objs[u].mSql = h.objs[u].mSql

\* LruCache.remove
LEMMA RemoveHeap ==
    ASSUME NEW h, NEW U, HeapOK(h, U), NEW sql, NEW g, g = LruRemove(h, sql)
    PROVE  HeapOK(g, U) /\ Len(g.cache) <= Len(h.cache) /\ Keeps(h, g, U)
<1>0. Len(h.cache) \in Nat
  BY LenProperties DEF HeapOK, HeapRecord
<1>1. CASE Entries(h.cache, sql) = {}
  <2>1. g = h
    BY <1>1, Zenon DEF LruRemove
  <2> QED BY <1>0, <2>1 DEF Keeps
<1>2. CASE Entries(h.cache, sql) # {}
  <2>1. PICK i \in Entries(h.cache, sql) : i = CHOOSE j \in Entries(h.cache, sql) : TRUE
    BY <1>2
  <2>2. h.cache \in Seq(Sqls \X Statements) /\ i \in 1..Len(h.cache)
    BY <2>1, LenProperties DEF Entries, HeapOK, HeapRecord
  <2>3. g = Evict(h, i)
    BY <1>2, <2>1, Zenon DEF LruRemove
  <2>4. PICK s \in Statements : s = h.cache[i][2]
    BY <2>2, ElementOfSeq
  <2>5. /\ HeapOK(g, U) /\ g.cache = RemoveAt(h.cache, i)
        /\ \A u \in Statements : u # s => g.objs[u] = h.objs[u]
        /\ s \in U => g.objs[s].mSql = h.objs[s].mSql
    BY <2>2, <2>3, <2>4, EvictHeap
  <2>6. Len(g.cache) = Len(h.cache) - 1
    BY <2>2, <2>5, RemoveAtKeeps
  <2>7. U \subseteq Statements
    BY DEF HeapOK
  <2>8. Keeps(h, g, U)
    BY <2>5, <2>7 DEF Keeps
  <2> QED BY <1>0, <2>5, <2>6, <2>8
<1> QED BY <1>1, <1>2

\* The mark of a statement that stays in the cache is taken away.
LEMMA UnmarkRecord ==
    ASSUME NEW h, NEW U, HeapOK(h, U), NEW s \in Statements,
           \E e \in ToSet(h.cache) : e[2] = s, NEW g, g = SetInUse(h, s, FALSE)
    PROVE  HeapOK(g, U \ {s}) /\ g.cache = h.cache /\ Keeps(h, g, U)
<1>1. PICK v \in BOOLEAN : v = FALSE
  OBVIOUS
<1>2. PICK o2 : o2 = [h.objs EXCEPT ![s].mInUse = FALSE]
  OBVIOUS
<1>3. HeapRecord(g) /\ Is(g, h.cache, h.pool, o2, h.native)
  <2>1. HeapRecord(g) /\ Is(g, h.cache, h.pool, [h.objs EXCEPT ![s].mInUse = v], h.native)
    BY <1>1, InUseRecord DEF HeapOK
  <2> QED BY <1>1, <1>2, <2>1
<1>4. PICK E : E = ToSet(h.cache)
  OBVIOUS
<1>5. PICK e \in E : e[2] = s
  BY <1>4
<1>6. HeapType(E, h.pool, h.objs, h.native, U) /\ HeapInv(E, h.pool, h.objs, h.native, U)
  <2>1. E \subseteq Sqls \X Statements
    BY <1>4, ElementOfSeq, LenProperties DEF ToSet, HeapOK, HeapRecord
  <2> QED BY <1>4, <2>1 DEF HeapOK, HeapRecord, HeapType
<1>7. PICK q, o, n : q = h.pool /\ o = h.objs /\ n = h.native
  OBVIOUS
<1>8. HeapInv(E, q, o2, n, U \ {e[2]})
  <2>1. o2 = [o EXCEPT ![e[2]].mInUse = FALSE]
    BY <1>2, <1>5, <1>7
  <2>2. HeapType(E, q, o, n, U) /\ HeapInv(E, q, o, n, U)
    BY <1>6, <1>7
  <2> QED BY <1>5, <2>1, <2>2, UnmarkHeap
<1>9. HeapOK(g, U \ {s})
  BY <1>3, <1>4, <1>5, <1>7, <1>8 DEF HeapOK, Is
<1>10. \A u \in Statements : o2[u].mSql = h.objs[u].mSql
  BY <1>2 DEF HeapOK, HeapRecord, StatementType
<1>11. U \subseteq Statements
  BY DEF HeapOK
<1> QED BY <1>3, <1>9, <1>10, <1>11 DEF Is, Keeps

\* A statement that is not in the cache is released and finalized.
LEMMA FinalizeRecord ==
    ASSUME NEW h, NEW U, HeapOK(h, U), NEW s \in U,
           \A e \in ToSet(h.cache) : e[2] # s,
           NEW g, g = FinalizePreparedStatement(SetInUse(h, s, FALSE), s)
    PROVE  HeapOK(g, U \ {s}) /\ g.cache = h.cache /\ Keeps(h, g, U \ {s})
<1>1. PICK v \in BOOLEAN : v = FALSE
  OBVIOUS
<1>2. PICK h1 : h1 = SetInUse(h, s, FALSE)
  OBVIOUS
<1>3. PICK c, q, o, n : c = h.cache /\ q = h.pool /\ o = h.objs /\ n = h.native
  OBVIOUS
<1>4. s \in Statements /\ U \subseteq Statements /\ o \in [Statements -> StatementType]
  BY <1>3 DEF HeapOK, HeapRecord
<1>5. PICK o1 : o1 = [o EXCEPT ![s].mInUse = FALSE]
  OBVIOUS
<1>6. HeapRecord(h1) /\ Is(h1, c, q, o1, n)
  <2>1. HeapRecord(h1) /\ Is(h1, h.cache, h.pool, [h.objs EXCEPT ![s].mInUse = v], h.native)
    BY <1>1, <1>2, <1>4, InUseRecord DEF HeapOK
  <2> QED BY <1>1, <1>3, <1>5, <2>1
<1>7. /\ HeapRecord(g)
      /\ Is(g, h1.cache, s, [h1.objs EXCEPT ![s] = RecycledObject(h1.objs, s, h1.pool)],
            [h1.native EXCEPT ![h1.objs[s].mStatementPtr] = None])
  BY <1>2, <1>4, <1>6, FinalizedRecord
<1>8. o1[s].mStatementPtr = o[s].mStatementPtr /\ o1 \in [Statements -> StatementType]
  <2>1. PICK r \in StatementType : r = o[s]
    BY <1>4
  <2>2. PICK r1 : r1 = [r EXCEPT !.mInUse = FALSE]
    OBVIOUS
  <2>3. r1 \in StatementType /\ r1.mStatementPtr = r.mStatementPtr
    BY <2>2 DEF StatementType
  <2>4. o1 = [o EXCEPT ![s] = r1]
    BY <1>5, <2>1, <2>2
  <2> QED BY <1>4, <2>1, <2>3, <2>4
<1>9. PICK f : f = RecycledObject(o1, s, q)
  OBVIOUS
<1>10. f \in StatementType /\ f.mPoolNext = q
  <2>1. q \in Statements \cup {None}
    BY <1>3 DEF HeapOK, HeapRecord
  <2>2. PICK r \in StatementType : r = o1[s]
    BY <1>4, <1>8
  <2> QED BY <1>9, <2>1, <2>2 DEF RecycledObject, StatementType
<1>11. PICK o2 : o2 = [o EXCEPT ![s] = f]
  OBVIOUS
<1>12. PICK n2 : n2 = [n EXCEPT ![o[s].mStatementPtr] = None]
  OBVIOUS
<1>13. Is(g, c, s, o2, n2)
  <2>1. h1.cache = c /\ h1.pool = q /\ h1.objs = o1 /\ h1.native = n
    BY <1>6 DEF Is
  <2>2. Is(g, c, s, [o1 EXCEPT ![s] = f], [n EXCEPT ![o1[s].mStatementPtr] = None])
    BY <1>7, <1>9, <2>1
  <2>3. [o1 EXCEPT ![s] = f] = o2
    BY <1>5, <1>11
  <2> QED BY <1>8, <1>12, <2>2, <2>3
<1>14. PICK E : E = ToSet(c)
  OBVIOUS
<1>15. HeapType(E, q, o, n, U) /\ HeapInv(E, q, o, n, U) /\ IsInjective(c)
  <2>1. E \subseteq Sqls \X Statements
    BY <1>3, <1>14, ElementOfSeq, LenProperties DEF ToSet, HeapOK, HeapRecord
  <2> QED BY <1>3, <1>14, <2>1 DEF HeapOK, HeapRecord, HeapType
<1>16. PICK V : V = U \ {s}
  OBVIOUS
<1>17. E = {e \in E : e[2] # s} /\ s \in Owned(E, U)
  BY <1>3, <1>14 DEF Owned
<1>18. Finalizes(E, q, o, n, U, s, E, o2, n2, V)
  BY <1>10, <1>11, <1>12, <1>15, <1>16, <1>17 DEF Finalizes
<1>19. HeapInv(E, s, o2, n2, V)
  BY <1>18, FinalizeHeap
<1>20. HeapOK(g, U \ {s})
  BY <1>4, <1>7, <1>13, <1>14, <1>15, <1>16, <1>19 DEF HeapOK, Is
<1>21. \A u \in U \ {s} : o2[u] = o[u]
  BY <1>4, <1>11
<1> QED BY <1>3, <1>13, <1>20, <1>21 DEF Is, Keeps

\* releasePreparedStatement
LEMMA ReleaseHeap ==
    ASSUME NEW h, NEW U, HeapOK(h, U), NEW s \in Owned(ToSet(h.cache), U),
           NEW failed, NEW g, g = ReleasePreparedStatement(h, s, failed)
    PROVE  HeapOK(g, U \ {s}) /\ Len(g.cache) <= Len(h.cache) /\ Keeps(h, g, U \ {s})
<1>0. Len(h.cache) \in Nat
  BY LenProperties DEF HeapOK, HeapRecord
<1>1. PICK E : E = ToSet(h.cache) /\ E \subseteq Sqls \X Statements
  <2>1. ToSet(h.cache) \subseteq Sqls \X Statements
    BY ElementOfSeq, LenProperties DEF ToSet, HeapOK, HeapRecord
  <2> QED BY <2>1
<1>2. EntriesInv(E, h.objs, U) /\ s \in Statements
  BY <1>1 DEF HeapOK, HeapInv, Owned
<1>3. PICK h1 : h1 = SetInUse(h, s, FALSE)
  OBVIOUS
<1>4. h1.objs[s].mInCache <=> h.objs[s].mInCache
  <2>1. PICK v \in BOOLEAN : v = FALSE
    OBVIOUS
  <2>2. Is(h1, h.cache, h.pool, [h.objs EXCEPT ![s].mInUse = v], h.native)
    BY <1>2, <1>3, <2>1, InUseRecord DEF HeapOK
  <2>3. h1.objs = [h.objs EXCEPT ![s].mInUse = v] /\ h.objs \in [Statements -> StatementType]
    BY <2>2 DEF Is, HeapOK, HeapRecord
  <2> QED BY <1>2, <2>3 DEF StatementType
<1>5. CASE ~h.objs[s].mInCache
  <2>1. g = FinalizePreparedStatement(h1, s)
    BY <1>3, <1>4, <1>5, Zenon DEF ReleasePreparedStatement, SetInUse
  <2>2. \A e \in E : e[2] # s
    BY <1>2, <1>5 DEF EntriesInv
  <2>3. s \in U
    BY <1>1, <2>2 DEF Owned
  <2>4. HeapOK(g, U \ {s}) /\ g.cache = h.cache /\ Keeps(h, g, U \ {s})
    BY <1>1, <1>3, <2>1, <2>2, <2>3, FinalizeRecord
  <2> QED BY <1>0, <2>4
<1>6. CASE h.objs[s].mInCache
  <2>1. \E e \in E : e[2] = s
    BY <1>1, <1>2, <1>6 DEF Owned, EntriesInv
  <2>2. HeapOK(h1, U \ {s}) /\ h1.cache = h.cache /\ Keeps(h, h1, U)
    BY <1>1, <1>2, <1>3, <2>1, UnmarkRecord
  <2>3. CASE failed
    <3>1. PICK sql : sql = h1.objs[s].mSql
      OBVIOUS
    <3>2. g = LruRemove(h1, sql)
      BY <1>3, <1>4, <1>6, <2>3, <3>1, Zenon DEF ReleasePreparedStatement, SetInUse
    <3>3. PICK V : V = U \ {s}
      OBVIOUS
    <3>4. HeapOK(g, V) /\ Len(g.cache) <= Len(h1.cache) /\ Keeps(h1, g, V)
      BY <2>2, <3>2, <3>3, RemoveHeap
    <3> QED BY <2>2, <3>3, <3>4 DEF Keeps
  <2>4. CASE ~failed
    <3>1. g = h1
      BY <1>3, <1>4, <1>6, <2>4, Zenon DEF ReleasePreparedStatement, SetInUse
    <3> QED BY <1>0, <2>2, <3>1 DEF Keeps
  <2> QED BY <2>3, <2>4
<1> QED BY <1>5, <1>6

\* LruCache.evictAll is a function of the number of entries evicted.
Evicts(h, k, f) == f = [n \in 0..k |-> IF n = 0 THEN h ELSE Evict(f[n - 1], 1)]

LEMMA EvictsExists ==
    ASSUME NEW h, NEW N \in Nat
    PROVE  \E f : Evicts(h, N, f)
<1> DEFINE C == {k \in Nat : ~\E f : Evicts(h, k, f)}
<1>1. ASSUME C # {} PROVE FALSE
  <2>1. PICK k \in C : \A j \in C : k <= j
    BY <1>1, LeastNat
  <2>2. k \in Nat /\ ~\E f : Evicts(h, k, f)
    BY <2>1
  <2>3. CASE k = 0
    <3>1. PICK f : f = [n \in 0..k |-> h]
      OBVIOUS
    <3>2. \A n \in 0..k : n = 0
      BY <2>3
    <3>3. f = [n \in 0..k |-> IF n = 0 THEN h ELSE Evict(f[n - 1], 1)]
      BY <3>1, <3>2
    <3> QED BY <2>2, <3>3 DEF Evicts
  <2>4. CASE k # 0
    <3>1. PICK j \in Nat : k = j + 1
      BY <2>2, <2>4
    <3>2. j \notin C
      BY <2>1, <2>2, <3>1
    <3>3. PICK f : Evicts(h, j, f)
      BY <3>2
    <3>4. PICK e : e = Evict(f[j], 1)
      OBVIOUS
    <3>5. PICK f2 : f2 = [n \in 0..k |-> IF n = k THEN e ELSE f[n]]
      OBVIOUS
    <3>6. ASSUME NEW n \in 0..k
          PROVE  f2[n] = IF n = 0 THEN h ELSE Evict(f2[n - 1], 1)
      <4>1. CASE n = k
        <5>1. f2[n] = e /\ n # 0 /\ n - 1 = j /\ j \in 0..k /\ j # k
          BY <2>4, <3>1, <3>5, <4>1
        <5>2. f2[n - 1] = f[j]
          BY <3>5, <5>1
        <5> QED BY <3>4, <5>1, <5>2
      <4>2. CASE n # k /\ n # 0
        <5>1. n \in 0..j /\ n - 1 \in 0..k /\ n - 1 # k
          BY <3>1, <4>2
        <5>2. f2[n] = f[n] /\ f2[n - 1] = f[n - 1]
          BY <3>5, <4>2, <5>1
        <5>3. f[n] = Evict(f[n - 1], 1)
          BY <3>3, <4>2, <5>1 DEF Evicts
        <5> QED BY <4>2, <5>2, <5>3
      <4>3. CASE n = 0
        <5>1. n \in 0..j /\ n # k
          BY <3>1, <4>3
        <5> QED BY <3>3, <3>5, <4>3, <5>1 DEF Evicts
      <4> QED BY <4>1, <4>2, <4>3
    <3>7. f2 = [n \in 0..k |-> IF n = 0 THEN h ELSE Evict(f2[n - 1], 1)]
      BY <3>5, <3>6
    <3> QED BY <2>2, <3>7 DEF Evicts
  <2> QED BY <2>3, <2>4
<1> QED BY <1>1

LEMMA EvictAllHeap ==
    ASSUME NEW h, NEW U, HeapOK(h, U), NEW g, g = LruEvictAll(h)
    PROVE  HeapOK(g, U) /\ Len(g.cache) = 0
<1>1. PICK N \in Nat : N = Len(h.cache)
  BY LenProperties DEF HeapOK, HeapRecord
<1>2. PICK f : Evicts(h, N, f) /\ g = f[N]
  <2>1. PICK f : f = CHOOSE a : a = [n \in 0..N |-> IF n = 0 THEN h ELSE Evict(a[n - 1], 1)]
    OBVIOUS
  <2>2. g = f[N]
    BY <1>1, <2>1 DEF LruEvictAll
  <2>3. \E a : a = [n \in 0..N |-> IF n = 0 THEN h ELSE Evict(a[n - 1], 1)]
    <3>1. PICK a : Evicts(h, N, a)
      BY EvictsExists
    <3>2. a = [n \in 0..N |-> IF n = 0 THEN h ELSE Evict(a[n - 1], 1)]
      BY <3>1 DEF Evicts
    <3> WITNESS a
    <3> QED BY <3>2
  <2>4. f = [n \in 0..N |-> IF n = 0 THEN h ELSE Evict(f[n - 1], 1)]
    BY <2>1, <2>3
  <2> QED BY <2>2, <2>4 DEF Evicts
<1>3. f[0] = h /\ \A n \in 1..N : f[n] = Evict(f[n - 1], 1)
  <2>1. f = [n \in 0..N |-> IF n = 0 THEN h ELSE Evict(f[n - 1], 1)]
    BY <1>2 DEF Evicts
  <2>2. f[0] = h
    BY <2>1
  <2>3. ASSUME NEW n \in 1..N PROVE f[n] = Evict(f[n - 1], 1)
    <3>1. n \in 0..N /\ n # 0
      OBVIOUS
    <3> QED BY <2>1, <3>1
  <2> QED BY <2>2, <2>3
<1> DEFINE C == {n \in 0..N : ~(HeapOK(f[n], U) /\ Len(f[n].cache) = N - n)}
<1>4. ASSUME C # {} PROVE FALSE
  <2>1. C \in SUBSET Nat
    BY <1>1
  <2>2. PICK k \in C : \A j \in C : k <= j
    BY <1>4, <2>1, LeastNat
  <2>3. k \in 0..N /\ ~(HeapOK(f[k], U) /\ Len(f[k].cache) = N - k)
    BY <2>2
  <2>4. k # 0
    BY <1>1, <1>3, <2>3
  <2>5. PICK j \in 0..N : k = j + 1 /\ j < N /\ j = k - 1
    BY <1>1, <2>3, <2>4
  <2>6. HeapOK(f[j], U) /\ Len(f[j].cache) = N - j
    <3>1. j \notin C
      BY <1>1, <2>2, <2>5
    <3> QED BY <3>1
  <2>7. PICK a, b, i : a = f[j] /\ b = f[k] /\ i = 1
    OBVIOUS
  <2>8. b = Evict(a, i)
    BY <1>1, <1>3, <2>3, <2>4, <2>5, <2>7
  <2>9. i \in 1..Len(a.cache) /\ a.cache \in Seq(Sqls \X Statements)
    BY <1>1, <2>5, <2>6, <2>7 DEF HeapOK, HeapRecord
  <2>10. PICK s \in Statements : s = a.cache[i][2]
    BY <2>9, ElementOfSeq
  <2>11. HeapOK(b, U) /\ b.cache = RemoveAt(a.cache, i)
    BY <2>6, <2>7, <2>8, <2>9, <2>10, EvictHeap
  <2>12. Len(b.cache) = Len(a.cache) - 1
    BY <2>9, <2>11, RemoveAtKeeps
  <2>13. Len(b.cache) = N - k
    BY <1>1, <2>5, <2>6, <2>7, <2>12
  <2> QED BY <2>3, <2>7, <2>11, <2>13
<1>5. HeapOK(f[N], U) /\ Len(f[N].cache) = N - N
  <2>1. N \in 0..N /\ N \notin C
    BY <1>1, <1>4
  <2> QED BY <2>1
<1> QED BY <1>1, <1>2, <1>5

\* A mark of one object and the eviction of another one commute.
LEMMA EvictInCache ==
    ASSUME NEW h, HeapRecord(h), NEW i \in 1..Len(h.cache), NEW s \in Statements,
           NEW t \in Statements, t = h.cache[i][2], s # t
    PROVE  SetInCache(Evict(h, i), s, TRUE) = Evict(SetInCache(h, s, TRUE), i)
<1>1. PICK c, q, o, n : c = h.cache /\ q = h.pool /\ o = h.objs /\ n = h.native
  OBVIOUS
<1>2. o \in [Statements -> StatementType]
  BY <1>1 DEF HeapRecord
<1>3. PICK v \in BOOLEAN : v = TRUE
  OBVIOUS
<1>4. PICK g : g = Evict(h, i)
  OBVIOUS
<1>5. PICK g1 : g1 = SetInCache(g, s, v)
  OBVIOUS
<1>6. PICK h1 : h1 = SetInCache(h, s, v)
  OBVIOUS
<1>7. PICK h2 : h2 = Evict(h1, i)
  OBVIOUS
<1>8. PICK o1 : o1 = [o EXCEPT ![s].mInCache = v]
  OBVIOUS
<1>9. HeapRecord(h1) /\ Is(h1, c, q, o1, n)
  <2>1. HeapRecord(h1) /\ Is(h1, h.cache, h.pool, [h.objs EXCEPT ![s].mInCache = v], h.native)
    BY <1>6, InCacheRecord
  <2> QED BY <1>1, <1>8, <2>1
<1>10. o1[t] = o[t]
  BY <1>2, <1>8
<1>11. /\ HeapRecord(g)
       /\ o[t].mInUse => Is(g, RemoveAt(c, i), q, [o EXCEPT ![t].mInCache = FALSE], n)
       /\ ~o[t].mInUse => Is(g, RemoveAt(c, i), t, [o EXCEPT ![t] = Freed(o, t, q)],
                             [n EXCEPT ![o[t].mStatementPtr] = None])
  BY <1>1, <1>4, EvictedRecord
<1>12. /\ HeapRecord(h2)
       /\ o1[t].mInUse => Is(h2, RemoveAt(c, i), q, [o1 EXCEPT ![t].mInCache = FALSE], n)
       /\ ~o1[t].mInUse => Is(h2, RemoveAt(c, i), t, [o1 EXCEPT ![t] = Freed(o1, t, q)],
                              [n EXCEPT ![o1[t].mStatementPtr] = None])
  <2>1. /\ i \in 1..Len(h1.cache) /\ t = h1.cache[i][2]
        /\ h1.cache = c /\ h1.pool = q /\ h1.objs = o1 /\ h1.native = n
    BY <1>1, <1>9 DEF Is
  <2>2. /\ HeapRecord(h2)
        /\ h1.objs[t].mInUse => Is(h2, RemoveAt(h1.cache, i), h1.pool,
                                   [h1.objs EXCEPT ![t].mInCache = FALSE], h1.native)
        /\ ~h1.objs[t].mInUse => Is(h2, RemoveAt(h1.cache, i), t,
                                    [h1.objs EXCEPT ![t] = Freed(h1.objs, t, h1.pool)],
                                    [h1.native EXCEPT ![h1.objs[t].mStatementPtr] = None])
    BY <1>7, <1>9, <2>1, EvictedRecord
  <2> QED BY <2>1, <2>2
<1>13. HeapRecord(g1) /\ Is(g1, g.cache, g.pool, [g.objs EXCEPT ![s].mInCache = v], g.native)
  BY <1>5, <1>11, InCacheRecord
<1>14. CASE o[t].mInUse
  <2>1. [[o EXCEPT ![t].mInCache = FALSE] EXCEPT ![s].mInCache = v] =
            [o1 EXCEPT ![t].mInCache = FALSE]
    BY <1>2, <1>8
  <2>2. /\ Is(h2, RemoveAt(c, i), q, [o1 EXCEPT ![t].mInCache = FALSE], n)
        /\ Is(g, RemoveAt(c, i), q, [o EXCEPT ![t].mInCache = FALSE], n)
    BY <1>10, <1>11, <1>12, <1>14
  <2>3. Is(g1, RemoveAt(c, i), q, [o1 EXCEPT ![t].mInCache = FALSE], n)
    BY <1>13, <2>1, <2>2 DEF Is
  <2>4. g1 = h2
    BY <1>12, <1>13, <2>2, <2>3 DEF Is, HeapRecord
  <2> QED BY <1>3, <1>4, <1>5, <1>6, <1>7, <2>4
<1>15. CASE ~o[t].mInUse
  <2>1. PICK f : f = Freed(o, t, q)
    OBVIOUS
  <2>2. Freed(o1, t, q) = f
    BY <1>10, <2>1 DEF Freed
  <2>3. [[o EXCEPT ![t] = f] EXCEPT ![s].mInCache = v] = [o1 EXCEPT ![t] = f]
    BY <1>2, <1>8
  <2>4. PICK n2 : n2 = [n EXCEPT ![o[t].mStatementPtr] = None]
    OBVIOUS
  <2>5. /\ Is(h2, RemoveAt(c, i), t, [o1 EXCEPT ![t] = f], n2)
        /\ Is(g, RemoveAt(c, i), t, [o EXCEPT ![t] = f], n2)
    BY <1>10, <1>11, <1>12, <1>15, <2>1, <2>2, <2>4
  <2>6. Is(g1, RemoveAt(c, i), t, [o1 EXCEPT ![t] = f], n2)
    BY <1>13, <2>3, <2>5 DEF Is
  <2>7. g1 = h2
    BY <1>12, <1>13, <2>5, <2>6 DEF Is, HeapRecord
  <2> QED BY <1>3, <1>4, <1>5, <1>6, <1>7, <2>7
<1> QED BY <1>14, <1>15

LEMMA EvictInUse ==
    ASSUME NEW h, HeapRecord(h), NEW i \in 1..Len(h.cache), NEW s \in Statements,
           NEW t \in Statements, t = h.cache[i][2], s # t
    PROVE  SetInUse(Evict(h, i), s, TRUE) = Evict(SetInUse(h, s, TRUE), i)
<1>1. PICK c, q, o, n : c = h.cache /\ q = h.pool /\ o = h.objs /\ n = h.native
  OBVIOUS
<1>2. o \in [Statements -> StatementType]
  BY <1>1 DEF HeapRecord
<1>3. PICK v \in BOOLEAN : v = TRUE
  OBVIOUS
<1>4. PICK g : g = Evict(h, i)
  OBVIOUS
<1>5. PICK g1 : g1 = SetInUse(g, s, v)
  OBVIOUS
<1>6. PICK h1 : h1 = SetInUse(h, s, v)
  OBVIOUS
<1>7. PICK h2 : h2 = Evict(h1, i)
  OBVIOUS
<1>8. PICK o1 : o1 = [o EXCEPT ![s].mInUse = v]
  OBVIOUS
<1>9. HeapRecord(h1) /\ Is(h1, c, q, o1, n)
  <2>1. HeapRecord(h1) /\ Is(h1, h.cache, h.pool, [h.objs EXCEPT ![s].mInUse = v], h.native)
    BY <1>6, InUseRecord
  <2> QED BY <1>1, <1>8, <2>1
<1>10. o1[t] = o[t]
  BY <1>2, <1>8
<1>11. /\ HeapRecord(g)
       /\ o[t].mInUse => Is(g, RemoveAt(c, i), q, [o EXCEPT ![t].mInCache = FALSE], n)
       /\ ~o[t].mInUse => Is(g, RemoveAt(c, i), t, [o EXCEPT ![t] = Freed(o, t, q)],
                             [n EXCEPT ![o[t].mStatementPtr] = None])
  BY <1>1, <1>4, EvictedRecord
<1>12. /\ HeapRecord(h2)
       /\ o1[t].mInUse => Is(h2, RemoveAt(c, i), q, [o1 EXCEPT ![t].mInCache = FALSE], n)
       /\ ~o1[t].mInUse => Is(h2, RemoveAt(c, i), t, [o1 EXCEPT ![t] = Freed(o1, t, q)],
                              [n EXCEPT ![o1[t].mStatementPtr] = None])
  <2>1. /\ i \in 1..Len(h1.cache) /\ t = h1.cache[i][2]
        /\ h1.cache = c /\ h1.pool = q /\ h1.objs = o1 /\ h1.native = n
    BY <1>1, <1>9 DEF Is
  <2>2. /\ HeapRecord(h2)
        /\ h1.objs[t].mInUse => Is(h2, RemoveAt(h1.cache, i), h1.pool,
                                   [h1.objs EXCEPT ![t].mInCache = FALSE], h1.native)
        /\ ~h1.objs[t].mInUse => Is(h2, RemoveAt(h1.cache, i), t,
                                    [h1.objs EXCEPT ![t] = Freed(h1.objs, t, h1.pool)],
                                    [h1.native EXCEPT ![h1.objs[t].mStatementPtr] = None])
    BY <1>7, <1>9, <2>1, EvictedRecord
  <2> QED BY <2>1, <2>2
<1>13. HeapRecord(g1) /\ Is(g1, g.cache, g.pool, [g.objs EXCEPT ![s].mInUse = v], g.native)
  BY <1>5, <1>11, InUseRecord
<1>14. CASE o[t].mInUse
  <2>1. [[o EXCEPT ![t].mInCache = FALSE] EXCEPT ![s].mInUse = v] =
            [o1 EXCEPT ![t].mInCache = FALSE]
    BY <1>2, <1>8
  <2>2. /\ Is(h2, RemoveAt(c, i), q, [o1 EXCEPT ![t].mInCache = FALSE], n)
        /\ Is(g, RemoveAt(c, i), q, [o EXCEPT ![t].mInCache = FALSE], n)
    BY <1>10, <1>11, <1>12, <1>14
  <2>3. Is(g1, RemoveAt(c, i), q, [o1 EXCEPT ![t].mInCache = FALSE], n)
    BY <1>13, <2>1, <2>2 DEF Is
  <2>4. g1 = h2
    BY <1>12, <1>13, <2>2, <2>3 DEF Is, HeapRecord
  <2> QED BY <1>3, <1>4, <1>5, <1>6, <1>7, <2>4
<1>15. CASE ~o[t].mInUse
  <2>1. PICK f : f = Freed(o, t, q)
    OBVIOUS
  <2>2. Freed(o1, t, q) = f
    BY <1>10, <2>1 DEF Freed
  <2>3. [[o EXCEPT ![t] = f] EXCEPT ![s].mInUse = v] = [o1 EXCEPT ![t] = f]
    BY <1>2, <1>8
  <2>4. PICK n2 : n2 = [n EXCEPT ![o[t].mStatementPtr] = None]
    OBVIOUS
  <2>5. /\ Is(h2, RemoveAt(c, i), t, [o1 EXCEPT ![t] = f], n2)
        /\ Is(g, RemoveAt(c, i), t, [o EXCEPT ![t] = f], n2)
    BY <1>10, <1>11, <1>12, <1>15, <2>1, <2>2, <2>4
  <2>6. Is(g1, RemoveAt(c, i), t, [o1 EXCEPT ![t] = f], n2)
    BY <1>13, <2>3, <2>5 DEF Is
  <2>7. g1 = h2
    BY <1>12, <1>13, <2>5, <2>6 DEF Is, HeapRecord
  <2> QED BY <1>3, <1>4, <1>5, <1>6, <1>7, <2>7
<1> QED BY <1>14, <1>15

\* obtainPreparedStatement, component by component.
Handed(sql, p, inUse) == [mSql |-> sql, mStatementPtr |-> p, mInCache |-> FALSE,
                          mInUse |-> inUse, mPoolNext |-> None]
NextHead(h, s) == IF h.pool # None THEN h.objs[s].mPoolNext ELSE None

LEMMA ObtainedRecord ==
    ASSUME NEW h, HeapRecord(h), ObtainedObject \in Statements, NEW sql \in Sqls,
           NEW p \in Pointers, NEW g, g = ObtainPreparedStatement(h, sql, p),
           NEW s, s = ObtainedObject
    PROVE  /\ HeapRecord(g)
           /\ \E b \in BOOLEAN : Is(g, h.cache, NextHead(h, s),
                                    [h.objs EXCEPT ![s] = Handed(sql, p, b)], h.native)
<1>1. PICK c \in Seq(Sqls \X Statements), q \in Statements \cup {None},
           o \in [Statements -> StatementType], n \in [Pointers -> Sqls \cup {None}] :
           h = [cache |-> c, pool |-> q, objs |-> o, native |-> n]
  BY DEF HeapRecord
<1>2. h.cache = c /\ h.pool = q /\ h.objs = o /\ h.native = n
  BY <1>1
<1>3. PICK was \in StatementType : was = IF h.pool # None THEN h.objs[s] ELSE NewStatement
  <2>1. NewStatement \in StatementType
    BY DEF NewStatement, StatementType
  <2> QED BY <1>2, <2>1
<1>4. PICK b \in BOOLEAN : b = was.mInUse
  BY <1>3 DEF StatementType
<1>5. PICK q2 \in Statements \cup {None} :
          q2 = IF h.pool # None THEN was.mPoolNext ELSE None
  BY <1>3 DEF StatementType
<1>6. q2 = NextHead(h, s)
  BY <1>3, <1>5 DEF NextHead
<1>7. PICK r \in StatementType : r = Handed(sql, p, b)
  BY <1>4 DEF Handed, StatementType
<1>8. g = [h EXCEPT !.pool = q2, !.objs[s] = r]
  <2>1. g = [h EXCEPT !.pool = IF h.pool # None THEN was.mPoolNext ELSE None,
                      !.objs[s] = [mSql |-> sql, mStatementPtr |-> p, mInCache |-> FALSE,
                                   mInUse |-> was.mInUse, mPoolNext |-> None]]
    BY <1>3, Zenon DEF ObtainPreparedStatement
  <2>2. [mSql |-> sql, mStatementPtr |-> p, mInCache |-> FALSE,
         mInUse |-> was.mInUse, mPoolNext |-> None] = r
    BY <1>4, <1>7 DEF Handed
  <2> QED BY <1>5, <2>1, <2>2, Zenon
<1>9. PICK o2 \in [Statements -> StatementType] : o2 = [o EXCEPT ![s] = r]
  BY <1>7
<1>10. g = [cache |-> c, pool |-> q2, objs |-> o2, native |-> n]
  <2>1. [h EXCEPT !.pool = q2] = [cache |-> c, pool |-> q2, objs |-> o, native |-> n]
    BY <1>1
  <2>2. [[cache |-> c, pool |-> q2, objs |-> o, native |-> n] EXCEPT !.objs[s] = r] =
            [cache |-> c, pool |-> q2, objs |-> o2, native |-> n]
    BY <1>9
  <2> QED BY <1>8, <2>1, <2>2
<1>11. HeapRecord(g) /\ Is(g, c, q2, o2, n)
  BY <1>10, RecordOf
<1>12. Is(g, h.cache, NextHead(h, s), [h.objs EXCEPT ![s] = Handed(sql, p, b)], h.native)
  BY <1>2, <1>6, <1>7, <1>9, <1>11
<1> QED BY <1>11, <1>12

\* The record after an object was obtained, before an entry is evicted for it.
Obtained(h, s, sql, p, cached, g) ==
    /\ HeapRecord(g)
    /\ Is(g, IF cached THEN Append(h.cache, <<sql, s>>) ELSE h.cache, NextHead(h, s),
          [h.objs EXCEPT ![s] = NewlyPrepared(sql, p, cached)], [h.native EXCEPT ![p] = sql])

\* s is nobody's object, p is not the native statement of anyone.
MayObtain(h, U, s, sql, p, cached) ==
    /\ HeapOK(h, U) /\ s \in Statements /\ s \notin Owned(ToSet(h.cache), U)
    /\ h.pool # None => h.pool = s
    /\ sql \in Sqls /\ p \in Pointers /\ h.native[p] = None
    /\ cached \in BOOLEAN /\ (cached => \A e \in ToSet(h.cache) : e[1] # sql)

HasNew(h, U, s, sql, g) == HeapOK(g, U \cup {s}) /\ Keeps(h, g, U) /\ g.objs[s].mSql = sql

LEMMA NewHeap ==
    ASSUME NEW h, NEW U, NEW s, NEW sql, NEW p, NEW cached, MayObtain(h, U, s, sql, p, cached),
           NEW g, Obtained(h, s, sql, p, cached, g)
    PROVE  HasNew(h, U, s, sql, g)
<1>0. /\ HeapOK(h, U) /\ s \in Statements /\ s \notin Owned(ToSet(h.cache), U)
      /\ h.pool # None => h.pool = s
      /\ sql \in Sqls /\ p \in Pointers /\ h.native[p] = None
      /\ cached \in BOOLEAN /\ (cached => \A e \in ToSet(h.cache) : e[1] # sql)
  BY DEF MayObtain
<1> USE <1>0
<1>1. PICK c \in Seq(Sqls \X Statements), q \in Statements \cup {None},
           o \in [Statements -> StatementType], n \in [Pointers -> Sqls \cup {None}] :
           c = h.cache /\ q = h.pool /\ o = h.objs /\ n = h.native
  BY DEF HeapOK, HeapRecord
<1>2. PICK E : E = ToSet(c)
  OBVIOUS
<1>3. HeapType(E, q, o, n, U) /\ HeapInv(E, q, o, n, U) /\ IsInjective(c)
  <2>1. E \subseteq Sqls \X Statements
    BY <1>1, <1>2, ElementOfSeq, LenProperties DEF ToSet
  <2> QED BY <1>1, <1>2, <2>1 DEF HeapOK, HeapRecord, HeapType
<1>4. PICK c2 : c2 = IF cached THEN Append(c, <<sql, s>>) ELSE c
  OBVIOUS
<1>5. PICK F : F = IF cached THEN E \cup {<<sql, s>>} ELSE E
  OBVIOUS
<1>6. c2 \in Seq(Sqls \X Statements) /\ IsInjective(c2) /\ ToSet(c2) = F
  <2>1. CASE cached
    <3>1. PICK e \in Sqls \X Statements : e = <<sql, s>> /\ e[1] = sql
      <4>1. <<sql, s>> \in Sqls \X Statements /\ <<sql, s>>[1] = sql
        OBVIOUS
      <4> QED BY <4>1
    <3>2. e \notin ToSet(c)
      BY <1>1, <1>2, <2>1, <3>1
    <3>3. c2 = Append(c, e) /\ F = E \cup {e}
      BY <1>4, <1>5, <2>1, <3>1
    <3> QED BY <1>1, <1>2, <1>3, <3>2, <3>3, AppendKeeps, AppendElements
  <2>2. CASE ~cached
    BY <1>1, <1>2, <1>3, <1>4, <1>5, <2>2
  <2> QED BY <2>1, <2>2
<1>7. PICK o2 : o2 = [o EXCEPT ![s] = NewlyPrepared(sql, p, cached)]
  OBVIOUS
<1>8. PICK n2 : n2 = [n EXCEPT ![p] = sql]
  OBVIOUS
<1>9. PICK q2 : q2 = NextHead(h, s)
  OBVIOUS
<1>10. HeapRecord(g) /\ Is(g, c2, q2, o2, n2)
  BY <1>1, <1>4, <1>7, <1>8, <1>9 DEF Obtained
<1>11. o2 \in [Statements -> StatementType] /\ o2[s].mPoolNext = None /\ o2[s].mSql = sql
       /\ \A u \in Statements : u # s => o2[u] = o[u]
  BY <1>1, <1>7 DEF NewlyPrepared, StatementType
<1>12. /\ q2 \in Statements \cup {None} /\ ListInv(q2, PoolNext(o2))
       /\ OnList(q2, PoolNext(o2)) \subseteq OnList(q, PoolNext(o)) \ {s}
  <2>1. CASE q = None
    <3>1. q2 = None
      BY <1>1, <1>9, <2>1 DEF NextHead
    <3>2. PICK new : new = PoolNext(o2)
      OBVIOUS
    <3>3. OnList(None, new) = {} /\ ListInv(None, new)
      BY ListEmpty
    <3> QED BY <3>1, <3>2, <3>3
  <2>2. CASE q # None
    <3>1. q = s /\ q2 = o[s].mPoolNext
      BY <1>1, <1>9, <2>2 DEF NextHead
    <3>2. PICK next \in Links : next = PoolNext(o) /\ \A u \in Statements : next[u] = o[u].mPoolNext
      BY <1>1, PoolNextType
    <3>3. PICK new \in Links : new = PoolNext(o2) /\ \A u \in Statements : new[u] = o2[u].mPoolNext
      BY <1>11, PoolNextType
    <3>4. new[s] = None /\ \A u \in Statements : u # s => new[u] = next[u]
      BY <1>11, <3>2, <3>3
    <3>5. ListInv(s, next)
      BY <1>3, <3>1, <3>2 DEF HeapInv
    <3>6. q2 = next[s] /\ q2 \in Statements \cup {None}
      BY <3>1, <3>2 DEF Links
    <3>7. OnList(q2, new) \subseteq OnList(s, next) \ {s} /\ ListInv(q2, new)
      BY <3>4, <3>5, <3>6, ListPop
    <3> QED BY <3>1, <3>2, <3>3, <3>6, <3>7
  <2> QED BY <2>1, <2>2
<1>13. Obtains(E, q, o, n, U, s, sql, p, cached, F, q2, o2, n2)
  BY <1>1, <1>2, <1>3, <1>5, <1>7, <1>8, <1>12 DEF Obtains
<1>14. HeapInv(F, q2, o2, n2, U \cup {s})
  BY <1>13, ObtainHeap
<1>15. U \subseteq Statements
  BY DEF HeapOK
<1>16. HeapOK(g, U \cup {s})
  BY <1>6, <1>10, <1>14, <1>15 DEF HeapOK, Is
<1>17. \A u \in U : u # s
  BY DEF Owned
<1>18. Keeps(h, g, U)
  BY <1>1, <1>10, <1>11, <1>15, <1>17 DEF Keeps, Is
<1> QED BY <1>10, <1>11, <1>16, <1>18 DEF Is, HasNew

\* What obtainPreparedStatement returned, with a new native statement.
HandedOut(h, s, sql, p, k) ==
    /\ HeapRecord(k)
    /\ \E b \in BOOLEAN : Is(k, h.cache, NextHead(h, s),
                             [h.objs EXCEPT ![s] = Handed(sql, p, b)],
                             [h.native EXCEPT ![p] = sql])

LEMMA HandedOutRecord ==
    ASSUME NEW h, HeapRecord(h), ObtainedObject \in Statements, NEW sql \in Sqls,
           NEW p \in Pointers, NEW prepared, prepared = [h EXCEPT !.native[p] = sql],
           NEW k, k = ObtainPreparedStatement(prepared, sql, p),
           NEW s, s = ObtainedObject
    PROVE  HandedOut(h, s, sql, p, k)
<1>1. PICK c \in Seq(Sqls \X Statements), q \in Statements \cup {None},
           o \in [Statements -> StatementType], n \in [Pointers -> Sqls \cup {None}] :
           h = [cache |-> c, pool |-> q, objs |-> o, native |-> n]
  BY DEF HeapRecord
<1>2. h.cache = c /\ h.pool = q /\ h.objs = o /\ h.native = n
  BY <1>1
<1>3. PICK n2 \in [Pointers -> Sqls \cup {None}] : n2 = [n EXCEPT ![p] = sql]
  OBVIOUS
<1>4. HeapRecord(prepared) /\ Is(prepared, c, q, o, n2)
  <2>1. prepared = [cache |-> c, pool |-> q, objs |-> o, native |-> n2]
    BY <1>1, <1>3
  <2> QED BY <2>1, RecordOf
<1>5. /\ HeapRecord(k)
      /\ \E b \in BOOLEAN : Is(k, prepared.cache, NextHead(prepared, s),
                               [prepared.objs EXCEPT ![s] = Handed(sql, p, b)],
                               prepared.native)
  BY <1>4, ObtainedRecord
<1>6. PICK b \in BOOLEAN : Is(k, prepared.cache, NextHead(prepared, s),
                              [prepared.objs EXCEPT ![s] = Handed(sql, p, b)],
                              prepared.native)
  BY <1>5
<1>7. prepared.cache = c /\ prepared.pool = q /\ prepared.objs = o /\ prepared.native = n2
  BY <1>4 DEF Is
<1>8. NextHead(prepared, s) = NextHead(h, s)
  BY <1>2, <1>7 DEF NextHead
<1>9. Is(k, h.cache, NextHead(h, s), [h.objs EXCEPT ![s] = Handed(sql, p, b)],
         [h.native EXCEPT ![p] = sql])
  BY <1>2, <1>3, <1>6, <1>7, <1>8
<1> QED BY <1>5, <1>9 DEF HandedOut

\* The marks it gets.
MarksOf(sql, p, r) ==
    /\ NewlyPrepared(sql, p, FALSE) = [r EXCEPT !.mInUse = TRUE]
    /\ NewlyPrepared(sql, p, TRUE) = [[r EXCEPT !.mInCache = TRUE] EXCEPT !.mInUse = TRUE]

LEMMA HandedMarked ==
    ASSUME NEW sql, NEW p, NEW b
    PROVE  MarksOf(sql, p, Handed(sql, p, b))
<1>0. PICK r : r = Handed(sql, p, b)
  OBVIOUS
<1>1. PICK no, yes : no = FALSE /\ yes = TRUE
  OBVIOUS
<1>2. r = [mSql |-> sql, mStatementPtr |-> p, mInCache |-> no, mInUse |-> b, mPoolNext |-> None]
  BY <1>0, <1>1, Zenon DEF Handed
<1>3. PICK r1 : r1 = [r EXCEPT !.mInCache = yes]
  OBVIOUS
<1>4. [r EXCEPT !.mInUse = yes] = [mSql |-> sql, mStatementPtr |-> p, mInCache |-> no,
                                   mInUse |-> yes, mPoolNext |-> None]
  BY <1>2
<1>5. r1 = [mSql |-> sql, mStatementPtr |-> p, mInCache |-> yes, mInUse |-> b,
            mPoolNext |-> None]
  BY <1>2, <1>3
<1>6. [r1 EXCEPT !.mInUse = yes] = [mSql |-> sql, mStatementPtr |-> p, mInCache |-> yes,
                                    mInUse |-> yes, mPoolNext |-> None]
  BY <1>5
<1>7. /\ NewlyPrepared(sql, p, no) = [r EXCEPT !.mInUse = yes]
      /\ NewlyPrepared(sql, p, yes) = [r1 EXCEPT !.mInUse = yes]
  BY <1>1, <1>4, <1>6, Zenon DEF NewlyPrepared
<1> QED BY <1>0, <1>1, <1>3, <1>7, Zenon DEF MarksOf

LEMMA UncachedRecord ==
    ASSUME NEW h, HeapRecord(h), NEW s \in Statements, NEW sql, NEW p, NEW k,
           HandedOut(h, s, sql, p, k), NEW g, g = SetInUse(k, s, TRUE)
    PROVE  Obtained(h, s, sql, p, FALSE, g)
<1>1. PICK b \in BOOLEAN : Is(k, h.cache, NextHead(h, s),
                              [h.objs EXCEPT ![s] = Handed(sql, p, b)],
                              [h.native EXCEPT ![p] = sql])
  BY DEF HandedOut
<1>2. PICK r : r = Handed(sql, p, b)
  OBVIOUS
<1>3. PICK yes \in BOOLEAN : yes = TRUE
  OBVIOUS
<1>4. HeapRecord(g) /\ Is(g, k.cache, k.pool, [k.objs EXCEPT ![s].mInUse = yes], k.native)
  BY <1>3, InUseRecord DEF HandedOut
<1>5. PICK r2 : r2 = [r EXCEPT !.mInUse = yes]
  OBVIOUS
<1>6. NewlyPrepared(sql, p, FALSE) = r2
  <2>1. NewlyPrepared(sql, p, FALSE) = [r EXCEPT !.mInUse = TRUE]
    <3>1. MarksOf(sql, p, r)
      BY <1>2, HandedMarked
    <3> QED BY <3>1, Zenon DEF MarksOf
  <2> QED BY <1>3, <1>5, <2>1, Zenon
<1>7. h.objs \in [Statements -> StatementType]
  BY DEF HeapRecord
<1>8. [[h.objs EXCEPT ![s] = r] EXCEPT ![s].mInUse = yes] = [h.objs EXCEPT ![s] = r2]
  BY <1>5, <1>7
<1>9. Is(g, h.cache, NextHead(h, s), [h.objs EXCEPT ![s] = r2], [h.native EXCEPT ![p] = sql])
  BY <1>1, <1>2, <1>4, <1>8 DEF Is
<1> QED BY <1>4, <1>6, <1>9 DEF Obtained

LEMMA CachedPut ==
    ASSUME NEW h, HeapRecord(h), NEW s \in Statements, NEW sql \in Sqls, NEW p, NEW k,
           HandedOut(h, s, sql, p, k),
           NEW put, put = [k EXCEPT !.cache = Append(k.cache, <<sql, s>>)],
           NEW full, full = SetInUse(SetInCache(put, s, TRUE), s, TRUE)
    PROVE  /\ HeapRecord(put) /\ Obtained(h, s, sql, p, TRUE, full)
           /\ HeapRecord(SetInCache(put, s, TRUE))
<1>1. PICK b \in BOOLEAN : Is(k, h.cache, NextHead(h, s),
                              [h.objs EXCEPT ![s] = Handed(sql, p, b)],
                              [h.native EXCEPT ![p] = sql])
  BY DEF HandedOut
<1>2. PICK r : r = Handed(sql, p, b)
  OBVIOUS
<1>3. PICK yes \in BOOLEAN : yes = TRUE
  OBVIOUS
<1>4. PICK e \in Sqls \X Statements : e = <<sql, s>>
  OBVIOUS
<1>5. h.cache \in Seq(Sqls \X Statements) /\ h.objs \in [Statements -> StatementType]
  BY DEF HeapRecord
<1>6. PICK c2 \in Seq(Sqls \X Statements) : c2 = Append(h.cache, e)
  BY <1>5, AppendKeeps
<1>7. HeapRecord(put) /\ Is(put, c2, k.pool, k.objs, k.native)
  <2>1. k.cache = h.cache /\ HeapRecord(k)
    BY <1>1 DEF Is, HandedOut
  <2>2. put = [k EXCEPT !.cache = c2]
    BY <1>4, <1>6, <2>1
  <2> QED BY <2>1, <2>2, CachedRecord
<1>8. PICK put1 : put1 = SetInCache(put, s, yes)
  OBVIOUS
<1>9. HeapRecord(put1) /\ Is(put1, put.cache, put.pool, [put.objs EXCEPT ![s].mInCache = yes],
                             put.native)
  BY <1>7, <1>8, InCacheRecord
<1>10. full = SetInUse(put1, s, yes)
  BY <1>3, <1>8
<1>11. HeapRecord(full) /\ Is(full, put1.cache, put1.pool,
                              [put1.objs EXCEPT ![s].mInUse = yes], put1.native)
  BY <1>9, <1>10, InUseRecord
<1>12. PICK r1 : r1 = [r EXCEPT !.mInCache = yes]
  OBVIOUS
<1>13. PICK r2 : r2 = [r1 EXCEPT !.mInUse = yes]
  OBVIOUS
<1>14. NewlyPrepared(sql, p, TRUE) = r2
  <2>1. NewlyPrepared(sql, p, TRUE) = [[r EXCEPT !.mInCache = TRUE] EXCEPT !.mInUse = TRUE]
    <3>1. MarksOf(sql, p, r)
      BY <1>2, HandedMarked
    <3> QED BY <3>1, Zenon DEF MarksOf
  <2> QED BY <1>3, <1>12, <1>13, <2>1, Zenon
<1>15. [[h.objs EXCEPT ![s] = r] EXCEPT ![s].mInCache = yes] = [h.objs EXCEPT ![s] = r1]
  BY <1>5, <1>12
<1>16. [[h.objs EXCEPT ![s] = r1] EXCEPT ![s].mInUse = yes] = [h.objs EXCEPT ![s] = r2]
  BY <1>5, <1>13
<1>17. Is(full, c2, NextHead(h, s), [h.objs EXCEPT ![s] = r2], [h.native EXCEPT ![p] = sql])
  <2>1. put.objs = [h.objs EXCEPT ![s] = r]
    BY <1>1, <1>2, <1>7 DEF Is
  <2>2. put1.objs = [h.objs EXCEPT ![s] = r1]
    BY <1>9, <1>15, <2>1 DEF Is
  <2>3. full.objs = [h.objs EXCEPT ![s] = r2]
    BY <1>11, <1>16, <2>2 DEF Is
  <2> QED BY <1>1, <1>7, <1>9, <1>11, <2>3 DEF Is
<1>18. Obtained(h, s, sql, p, TRUE, full)
  BY <1>4, <1>6, <1>11, <1>14, <1>17 DEF Obtained
<1>19. put.cache = c2 /\ put1.cache = c2 /\ full.cache = c2
  BY <1>7, <1>9, <1>17 DEF Is
<1> QED BY <1>3, <1>4, <1>6, <1>7, <1>8, <1>9, <1>18, <1>19

\* A statement is prepared, put in the cache if that is asked for, and marked.
Stored(h, sql, s, cached) == IF cached THEN SetInCache(LruPut(h, sql, s), s, TRUE) ELSE h

Prepared(h, U, s, sql, g) ==
    HasNew(h, U, s, sql, g) /\ Len(g.cache) <= MaxCacheSize

LEMMA UncachedHeap ==
    ASSUME NEW h, NEW U, NEW s, NEW sql, NEW p, MayObtain(h, U, s, sql, p, FALSE),
           Len(h.cache) <= MaxCacheSize,
           NEW k, HandedOut(h, s, sql, p, k), NEW g, g = SetInUse(k, s, TRUE)
    PROVE  Prepared(h, U, s, sql, g)
<1>1. HeapRecord(h) /\ s \in Statements
  BY DEF MayObtain, HeapOK
<1>2. Obtained(h, s, sql, p, FALSE, g)
  BY <1>1, UncachedRecord
<1>3. HasNew(h, U, s, sql, g)
  BY <1>2, NewHeap
<1>4. g.cache = h.cache
  BY <1>2 DEF Obtained, Is
<1> QED BY <1>3, <1>4 DEF Prepared

LEMMA CachedHeap ==
    ASSUME NEW h, NEW U, NEW s, NEW sql, NEW p, MayObtain(h, U, s, sql, p, TRUE),
           Len(h.cache) <= MaxCacheSize,
           NEW k, HandedOut(h, s, sql, p, k)
    PROVE  Prepared(h, U, s, sql, SetInUse(SetInCache(LruPut(k, sql, s), s, TRUE), s, TRUE))
<1>0. PICK g : g = SetInUse(SetInCache(LruPut(k, sql, s), s, TRUE), s, TRUE)
  OBVIOUS
<1>1. /\ HeapRecord(h) /\ s \in Statements /\ sql \in Sqls /\ U \subseteq Statements
      /\ h.cache \in Seq(Sqls \X Statements) /\ s \notin Owned(ToSet(h.cache), U)
  BY DEF MayObtain, HeapOK, HeapRecord
<1>2. PICK put : put = [k EXCEPT !.cache = Append(k.cache, <<sql, s>>)]
  OBVIOUS
<1>3. PICK put1 : put1 = SetInCache(put, s, TRUE)
  OBVIOUS
<1>4. PICK full : full = SetInUse(put1, s, TRUE)
  OBVIOUS
<1>5. /\ HeapRecord(put) /\ HeapRecord(put1) /\ Obtained(h, s, sql, p, TRUE, full)
      /\ put.cache = Append(h.cache, <<sql, s>>)
      /\ put1.cache = put.cache /\ full.cache = put.cache
  <2>1. full = SetInUse(SetInCache(put, s, TRUE), s, TRUE)
    BY <1>3, <1>4
  <2>2. Obtained(h, s, sql, p, TRUE, full)
    BY <1>1, <1>2, <2>1, CachedPut
  <2>3. HeapRecord(put)
    BY <1>1, <1>2, <2>1, CachedPut
  <2>4. HeapRecord(SetInCache(put, s, TRUE))
    BY <1>1, <1>2, <2>1, CachedPut
  <2>5. SetInCache(put, s, TRUE).cache = put.cache
    <3>1. PICK yes \in BOOLEAN : yes = TRUE
      OBVIOUS
    <3>2. Is(SetInCache(put, s, yes), put.cache, put.pool,
             [put.objs EXCEPT ![s].mInCache = yes], put.native)
      BY <1>1, <2>3, InCacheRecord
    <3> QED BY <3>1, <3>2 DEF Is
  <2>6. full.cache = Append(h.cache, <<sql, s>>)
    BY <2>2 DEF Obtained, Is
  <2>7. k.cache = h.cache /\ HeapRecord(k)
    BY DEF HandedOut, Is
  <2>8. put.cache = Append(h.cache, <<sql, s>>)
    BY <1>2, <2>7 DEF HeapRecord
  <2> QED BY <1>3, <2>2, <2>3, <2>4, <2>5, <2>6, <2>8
<1>6. HasNew(h, U, s, sql, full)
  BY <1>5, NewHeap
<1>7. LruPut(k, sql, s) = IF Len(put.cache) <= MaxCacheSize THEN put ELSE Evict(put, 1)
  BY <1>2 DEF LruPut
<1>8. CASE Len(put.cache) <= MaxCacheSize
  <2>1. g = full
    BY <1>0, <1>3, <1>4, <1>7, <1>8
  <2> QED BY <1>0, <1>5, <1>6, <1>8, <2>1 DEF Prepared
<1>9. CASE ~(Len(put.cache) <= MaxCacheSize)
  <2>1. PICK c, c2 : c = h.cache /\ c2 = put.cache
    OBVIOUS
  <2>2. PICK e \in Sqls \X Statements : e = <<sql, s>>
    BY <1>1
  <2>3. c \in Seq(Sqls \X Statements) /\ c2 = Append(c, e)
    BY <1>1, <1>5, <2>1, <2>2
  <2>4. c2 \in Seq(Sqls \X Statements) /\ Len(c2) = Len(c) + 1
        /\ \A j \in 1..Len(c) : c2[j] = c[j]
    BY <2>3, AppendKeeps
  <2>5. PICK m \in Nat : m = Len(c) /\ m = MaxCacheSize /\ m >= 1 /\ Len(c2) = m + 1
    <3>1. Len(c) \in Nat
      BY <2>3, LenProperties
    <3> QED BY <1>9, <2>1, <2>4, <3>1
  <2>6. PICK i : i = 1 /\ i \in 1..m
    BY <2>5
  <2>7. c2[i] = c[i] /\ i \in 1..Len(c2) /\ c[i] \in ToSet(c)
    <3>1. i \in 1..Len(c2) /\ i \in 1..Len(c)
      BY <2>5, <2>6
    <3>2. DOMAIN c = 1..Len(c)
      BY <2>3, LenProperties
    <3> QED BY <2>4, <3>1, <3>2 DEF ToSet
  <2>8. PICK u \in Statements : u = c2[i][2]
    BY <2>4, <2>7, ElementOfSeq
  <2>9. s # u
    BY <1>1, <2>1, <2>7, <2>8 DEF Owned
  <2>10. /\ i \in 1..Len(put.cache) /\ u = put.cache[i][2]
         /\ i \in 1..Len(full.cache) /\ u = full.cache[i][2]
    BY <1>5, <2>1, <2>7, <2>8
  <2>11. SetInUse(SetInCache(Evict(put, i), s, TRUE), s, TRUE) = Evict(full, i)
    <3>1. SetInCache(Evict(put, i), s, TRUE) = Evict(SetInCache(put, s, TRUE), i)
      BY <1>1, <1>5, <2>9, <2>10, EvictInCache
    <3>2. i \in 1..Len(put1.cache) /\ u = put1.cache[i][2]
      BY <1>5, <2>10
    <3>3. SetInUse(Evict(put1, i), s, TRUE) = Evict(SetInUse(put1, s, TRUE), i)
      BY <1>1, <1>5, <2>9, <3>2, EvictInUse
    <3> QED BY <1>3, <1>4, <3>1, <3>3
  <2>12. g = Evict(full, i)
    BY <1>0, <1>7, <1>9, <2>6, <2>11
  <2>13. PICK V : V = U \cup {s} /\ V \subseteq Statements
    <3>1. U \cup {s} \subseteq Statements
      BY <1>1
    <3> QED BY <3>1, Zenon
  <2>14. /\ HeapOK(g, V) /\ g.cache = RemoveAt(full.cache, i)
         /\ \A w \in Statements : w # u => g.objs[w] = full.objs[w]
         /\ u \in V => g.objs[u].mSql = full.objs[u].mSql
    <3>1. HeapOK(full, V)
      BY <1>6, <2>13 DEF HasNew
    <3> QED BY <2>10, <2>12, <3>1, EvictHeap
  <2>15. Len(g.cache) = m
    <3>1. Len(RemoveAt(c2, i)) = Len(c2) - 1
      BY <2>4, <2>7, RemoveAtKeeps
    <3> QED BY <1>5, <2>1, <2>5, <2>14, <3>1
  <2>16. \A w \in V : g.objs[w].mSql = full.objs[w].mSql
    BY <2>13, <2>14
  <2>17. Keeps(h, g, U) /\ g.objs[s].mSql = sql
    BY <1>6, <2>13, <2>16 DEF Keeps, HasNew
  <2>18. Prepared(h, U, s, sql, g)
    BY <2>5, <2>13, <2>14, <2>15, <2>17 DEF Prepared, HasNew
  <2> QED BY <1>0, <2>18
<1> QED BY <1>8, <1>9

LEMMA MissHeap ==
    ASSUME NEW h, NEW U, NEW s, NEW sql, NEW p, NEW cached, MayObtain(h, U, s, sql, p, cached),
           Len(h.cache) <= MaxCacheSize,
           NEW k, HandedOut(h, s, sql, p, k),
           NEW g, g = SetInUse(Stored(k, sql, s, cached), s, TRUE)
    PROVE  Prepared(h, U, s, sql, g)
<1>1. CASE cached = TRUE
  <2>1. g = SetInUse(SetInCache(LruPut(k, sql, s), s, TRUE), s, TRUE)
    BY <1>1, Zenon DEF Stored
  <2>2. MayObtain(h, U, s, sql, p, TRUE)
    BY <1>1, Zenon
  <2>3. Prepared(h, U, s, sql, SetInUse(SetInCache(LruPut(k, sql, s), s, TRUE), s, TRUE))
    BY <2>2, CachedHeap
  <2> QED BY <2>1, <2>3
<1>2. CASE cached = FALSE
  <2>1. g = SetInUse(k, s, TRUE)
    BY <1>2, Zenon DEF Stored
  <2>2. MayObtain(h, U, s, sql, p, FALSE)
    BY <1>2, Zenon
  <2> QED BY <2>1, <2>2, UncachedHeap
<1>3. cached \in BOOLEAN
  BY DEF MayObtain
<1> QED BY <1>1, <1>2, <1>3

-----------------------------------------------------------------------------
(***************************************************************************)
(* The stack                                                               *)
(***************************************************************************)
LEMMA FrameFields ==
    ASSUME NEW f \in FrameType
    PROVE  f.sql \in Sqls /\ f.statement \in Statements /\ f.hit \in BOOLEAN
BY DEF FrameType

\* An operation starts while every other one has a statement that is marked.
Starts(stk, E, objs, f, E2, objs2, stk2) ==
    /\ stk \in Seq(FrameType) /\ StackInv(stk, E, objs) /\ f \in FrameType
    /\ \A i \in DOMAIN stk : ~stk[i].hit
    /\ f.statement \notin Marked(stk)
    /\ \A u \in Marked(stk) : objs2[u].mSql = objs[u].mSql
    /\ IF f.hit THEN <<f.sql, f.statement>> \in E2 ELSE objs2[f.statement].mSql = f.sql
    /\ stk2 = Append(stk, f)

LEMMA StackPush ==
    ASSUME NEW stk, NEW E, NEW objs, NEW f, NEW E2, NEW objs2, NEW stk2,
           Starts(stk, E, objs, f, E2, objs2, stk2)
    PROVE  /\ stk2 \in Seq(FrameType) /\ StackInv(stk2, E2, objs2)
           /\ Marked(stk2) = IF f.hit THEN Marked(stk) ELSE Marked(stk) \cup {f.statement}
<1>1. /\ stk \in Seq(FrameType) /\ StackInv(stk, E, objs) /\ f \in FrameType
      /\ \A i \in DOMAIN stk : ~stk[i].hit
      /\ f.statement \notin Marked(stk)
      /\ \A u \in Marked(stk) : objs2[u].mSql = objs[u].mSql
      /\ IF f.hit THEN <<f.sql, f.statement>> \in E2 ELSE objs2[f.statement].mSql = f.sql
      /\ stk2 = Append(stk, f)
  BY DEF Starts
<1>2. PICK n \in Nat : n = Len(stk) /\ DOMAIN stk = 1..n
  BY <1>1, LenProperties
<1>3. /\ stk2 \in Seq(FrameType) /\ Len(stk2) = n + 1 /\ stk2[n + 1] = f
      /\ \A i \in 1..n : stk2[i] = stk[i]
  <2>1. /\ Append(stk, f) \in Seq(FrameType) /\ Len(Append(stk, f)) = Len(stk) + 1
        /\ Append(stk, f)[Len(stk) + 1] = f
        /\ \A i \in 1..Len(stk) : Append(stk, f)[i] = stk[i]
    BY <1>1, AppendKeeps
  <2> QED BY <1>1, <1>2, <2>1
<1>4. PICK m : m = n + 1 /\ m \notin 1..n /\ m = Len(stk2) /\ stk2[m] = f /\ m \in 1..m
  BY <1>2, <1>3
<1>5. DOMAIN stk2 = 1..n \cup {m}
  <2>1. DOMAIN stk2 = 1..(n + 1)
    BY <1>3, LenProperties
  <2>2. 1..(n + 1) = 1..n \cup {n + 1}
    BY <1>2
  <2> QED BY <1>4, <2>1, <2>2
<1>6. \A i \in 1..n : ~stk[i].hit /\ stk2[i] = stk[i] /\ stk[i].statement \in Marked(stk)
  BY <1>1, <1>2, <1>3 DEF Marked
<1>7. StackInv(stk2, E2, objs2)
  <2>1. ASSUME NEW i \in DOMAIN stk2
        PROVE  IF stk2[i].hit THEN i = Len(stk2) /\ <<stk2[i].sql, stk2[i].statement>> \in E2
               ELSE objs2[stk2[i].statement].mSql = stk2[i].sql
    <3>1. CASE i = m
      BY <1>1, <1>4, <3>1
    <3>2. CASE i \in 1..n
      <4>1. objs[stk[i].statement].mSql = stk[i].sql
        BY <1>1, <1>2, <1>6, <3>2 DEF StackInv
      <4> QED BY <1>1, <1>6, <3>2, <4>1
    <3> QED BY <1>5, <3>1, <3>2
  <2>2. ASSUME NEW i \in DOMAIN stk2, NEW j \in DOMAIN stk2,
               stk2[i].statement = stk2[j].statement
        PROVE  i = j
    <3>1. CASE i \in 1..n /\ j \in 1..n
      <4>1. \A k, l \in 1..n : stk[k].statement = stk[l].statement => k = l
        BY <1>1, <1>2 DEF StackInv
      <4> QED BY <1>6, <2>2, <3>1, <4>1
    <3>2. CASE i = m /\ j \in 1..n
      BY <1>1, <1>4, <1>6, <2>2, <3>2
    <3>3. CASE i \in 1..n /\ j = m
      BY <1>1, <1>4, <1>6, <2>2, <3>3
    <3>4. CASE i = m /\ j = m
      BY <3>4
    <3> QED BY <1>5, <3>1, <3>2, <3>3, <3>4
  <2> QED BY <2>1, <2>2 DEF StackInv
<1>8. Marked(stk2) = IF f.hit THEN Marked(stk) ELSE Marked(stk) \cup {f.statement}
  <2>1. Marked(stk) = {stk[i].statement : i \in 1..n}
    BY <1>2, <1>6 DEF Marked
  <2>2. CASE f.hit
    <3>1. {j \in DOMAIN stk2 : ~stk2[j].hit} = 1..n
      BY <1>4, <1>5, <1>6, <2>2
    <3>2. Marked(stk2) = {stk2[i].statement : i \in 1..n}
      BY <3>1 DEF Marked
    <3>3. Marked(stk2) = Marked(stk)
      BY <1>6, <2>1, <3>2
    <3> QED BY <2>2, <3>3
  <2>3. CASE ~f.hit
    <3>1. {j \in DOMAIN stk2 : ~stk2[j].hit} = 1..n \cup {m}
      BY <1>4, <1>5, <1>6, <2>3
    <3>2. Marked(stk2) = {stk2[i].statement : i \in 1..n \cup {m}}
      BY <3>1 DEF Marked
    <3>3. Marked(stk2) = Marked(stk) \cup {f.statement}
      BY <1>4, <1>6, <2>1, <3>2
    <3> QED BY <2>3, <3>3
  <2> QED BY <2>2, <2>3
<1> QED BY <1>3, <1>7, <1>8

\* The innermost operation ends.
Ends(stk, E, objs, E2, objs2, stk2, s) ==
    /\ stk \in Seq(FrameType) /\ StackInv(stk, E, objs) /\ stk # <<>>
    /\ s = Last(stk).statement
    /\ \A u \in Marked(stk) \ {s} : objs2[u].mSql = objs[u].mSql
    /\ stk2 = Front(stk)

LEMMA StackPop ==
    ASSUME NEW stk, NEW E, NEW objs, NEW E2, NEW objs2, NEW stk2, NEW s,
           Ends(stk, E, objs, E2, objs2, stk2, s)
    PROVE  /\ stk2 \in Seq(FrameType) /\ StackInv(stk2, E2, objs2)
           /\ Marked(stk2) = Marked(stk) \ {s}
<1>1. /\ stk \in Seq(FrameType) /\ StackInv(stk, E, objs) /\ stk # <<>>
      /\ s = Last(stk).statement
      /\ \A u \in Marked(stk) \ {s} : objs2[u].mSql = objs[u].mSql
      /\ stk2 = Front(stk)
  BY DEF Ends
<1>2. PICK n \in Nat : Len(stk) = n + 1 /\ n = Len(stk) - 1
  <2>1. Len(stk) \in Nat /\ Len(stk) > 0
    BY <1>1, Empty
  <2> QED BY <2>1
<1>3. PICK m : m = n + 1 /\ m \notin 1..n /\ m = Len(stk)
  BY <1>2
<1>4. DOMAIN stk = 1..n \cup {m} /\ stk[m].statement = s
  <2>1. DOMAIN stk = 1..(n + 1)
    BY <1>1, <1>2, LenProperties
  <2>2. 1..(n + 1) = 1..n \cup {n + 1}
    BY <1>2
  <2>3. Last(stk) = stk[m]
    BY <1>3 DEF Last
  <2> QED BY <1>1, <1>3, <2>1, <2>2, <2>3
<1>5. stk2 \in Seq(FrameType) /\ DOMAIN stk2 = 1..n /\ \A i \in 1..n : stk2[i] = stk[i]
  <2>1. /\ Front(stk) \in Seq(FrameType) /\ Len(Front(stk)) = Len(stk) - 1
        /\ \A i \in 1..(Len(stk) - 1) : Front(stk)[i] = stk[i]
    <3>1. Len(stk) > 0
      BY <1>2
    <3> QED BY <1>1, <3>1, FrontKeeps
  <2>2. DOMAIN stk2 = 1..Len(stk2)
    BY <1>1, <2>1, LenProperties
  <2> QED BY <1>1, <1>2, <2>1, <2>2
<1>6. \A i \in 1..n : stk[i].statement # s /\ ~stk[i].hit
  <2>1. ASSUME NEW i \in 1..n PROVE stk[i].statement # s /\ ~stk[i].hit
    <3>1. i \in DOMAIN stk /\ m \in DOMAIN stk /\ i # m /\ i # Len(stk)
      BY <1>3, <1>4
    <3> QED BY <1>1, <1>4, <3>1 DEF StackInv
  <2> QED BY <2>1
<1>7. \A i \in 1..n : stk[i].statement \in Marked(stk) \ {s}
  BY <1>4, <1>6 DEF Marked
<1>8. StackInv(stk2, E2, objs2)
  <2>1. ASSUME NEW i \in DOMAIN stk2
        PROVE  IF stk2[i].hit THEN i = Len(stk2) /\ <<stk2[i].sql, stk2[i].statement>> \in E2
               ELSE objs2[stk2[i].statement].mSql = stk2[i].sql
    <3>1. i \in 1..n /\ i \in DOMAIN stk /\ stk2[i] = stk[i] /\ ~stk[i].hit
      BY <1>4, <1>5, <1>6
    <3>2. objs[stk[i].statement].mSql = stk[i].sql
      BY <1>1, <3>1 DEF StackInv
    <3> QED BY <1>1, <1>7, <3>1, <3>2
  <2>2. \A i, j \in DOMAIN stk2 : stk2[i].statement = stk2[j].statement => i = j
    BY <1>1, <1>4, <1>5 DEF StackInv
  <2> QED BY <2>1, <2>2 DEF StackInv
<1>9. Marked(stk2) = Marked(stk) \ {s}
  <2>1. Marked(stk2) = {stk[i].statement : i \in 1..n}
    BY <1>5, <1>6 DEF Marked
  <2>2. \A u \in Marked(stk) : u = s \/ \E i \in 1..n : u = stk[i].statement
    BY <1>4 DEF Marked
  <2> QED BY <1>7, <2>1, <2>2
<1> QED BY <1>5, <1>8, <1>9

\* The innermost operation begins to run.
LEMMA StackRun ==
    ASSUME NEW stk \in Seq(FrameType), stk # <<>>, NEW E, NEW objs, StackInv(stk, E, objs),
           NEW stk2, stk2 = [stk EXCEPT ![Len(stk)].running = TRUE]
    PROVE  stk2 \in Seq(FrameType) /\ StackInv(stk2, E, objs) /\ Marked(stk2) = Marked(stk)
<1>1. PICK n : n = Len(stk) /\ n \in 1..Len(stk)
  <2>1. Len(stk) \in Nat /\ Len(stk) > 0
    BY Empty
  <2> QED BY <2>1
<1>2. PICK f \in FrameType : f = stk[n]
  BY <1>1, ElementOfSeq
<1>3. PICK g \in FrameType : /\ g = [f EXCEPT !.running = TRUE]
                             /\ g.sql = f.sql /\ g.statement = f.statement /\ g.hit = f.hit
  <2>1. PICK g : g = [f EXCEPT !.running = TRUE]
    OBVIOUS
  <2>2. g \in FrameType
    BY <2>1 DEF FrameType
  <2>3. g.sql = f.sql /\ g.statement = f.statement /\ g.hit = f.hit
    BY <2>1 DEF FrameType
  <2> QED BY <2>1, <2>2, <2>3
<1>4. stk2 = [stk EXCEPT ![n] = g]
  BY <1>1, <1>2, <1>3
<1>5. /\ stk2 \in Seq(FrameType) /\ Len(stk2) = Len(stk) /\ stk2[n] = g
      /\ \A i \in 1..Len(stk) : i # n => stk2[i] = stk[i]
  <2>1. /\ [stk EXCEPT ![n] = g] \in Seq(FrameType) /\ Len([stk EXCEPT ![n] = g]) = Len(stk)
        /\ [stk EXCEPT ![n] = g][n] = g
        /\ \A i \in 1..Len(stk) : i # n => [stk EXCEPT ![n] = g][i] = stk[i]
    BY <1>1, ReplaceKeeps
  <2> QED BY <1>4, <2>1
<1>6. DOMAIN stk2 = DOMAIN stk
  BY <1>5, LenProperties
<1>7. \A i \in DOMAIN stk : /\ stk2[i].sql = stk[i].sql /\ stk2[i].statement = stk[i].statement
                            /\ stk2[i].hit = stk[i].hit
  BY <1>2, <1>3, <1>5, LenProperties
<1>8. StackInv(stk2, E, objs)
  BY <1>5, <1>6, <1>7 DEF StackInv
<1>9. Marked(stk2) = Marked(stk)
  BY <1>6, <1>7 DEF Marked
<1> QED BY <1>5, <1>8, <1>9

-----------------------------------------------------------------------------
(***************************************************************************)
(* The operations                                                          *)
(***************************************************************************)
LEMMA HereHeap ==
    ASSUME TypeOK, StatementsOwned
    PROVE  /\ HeapOK(Here, Marked(stack)) /\ Len(Here.cache) <= MaxCacheSize
           /\ Is(Here, mPreparedStatementCache, mPreparedStatementPool, statements, native)
           /\ stack \in Seq(FrameType)
           /\ StackInv(stack, ToSet(Here.cache), Here.objs)
<1>1. Is(Here, mPreparedStatementCache, mPreparedStatementPool, statements, native)
  BY DEF Is, Here
<1>2. HeapRecord(Here)
  BY DEF HeapRecord, Here, TypeOK
<1>3. Marked(stack) \subseteq Statements
  <2>1. stack \in Seq(FrameType)
    BY DEF TypeOK
  <2>2. \A i \in DOMAIN stack : stack[i].statement \in Statements
    BY <2>1, ElementOfSeq, LenProperties, FrameFields
  <2> QED BY <2>2 DEF Marked
<1> QED BY <1>1, <1>2, <1>3 DEF HeapOK, Is, TypeOK, StatementsOwned

LEMMA StepInv ==
    ASSUME NEW g, NEW V, Becomes(g), HeapOK(g, V), Len(g.cache) <= MaxCacheSize,
           stack' \in Seq(FrameType), StackInv(stack', ToSet(g.cache), g.objs),
           Marked(stack') = V, isOpen' \in BOOLEAN
    PROVE  TypeOK' /\ StatementsOwned'
<1>1. TypeOK'
  BY DEF Becomes, HeapOK, HeapRecord, TypeOK
<1>2. StatementsOwned'
  BY DEF Becomes, HeapOK, StatementsOwned
<1> QED BY <1>1, <1>2

\* The cache is looked up, the stack stays: AcquireFails, IsPreparedStatementInCache.
LEMMA GetStep ==
    ASSUME TypeOK, StatementsOwned, NEW sql, Becomes(LruGet(Here, sql)), UNCHANGED <<stack, isOpen>>
    PROVE  TypeOK' /\ StatementsOwned'
<1>1. PICK h : h = Here
  OBVIOUS
<1>2. PICK U : U = Marked(stack)
  OBVIOUS
<1>3. PICK g : g = LruGet(h, sql)
  OBVIOUS
<1>4. HeapOK(h, U) /\ Len(h.cache) <= MaxCacheSize /\ StackInv(stack, ToSet(h.cache), h.objs)
  BY <1>1, <1>2, HereHeap
<1>5. HeapOK(g, U) /\ Len(g.cache) = Len(h.cache) /\ ToSet(g.cache) = ToSet(h.cache)
      /\ g.objs = h.objs
  BY <1>3, <1>4, GetHeap
<1>6. Becomes(g) /\ stack' = stack /\ isOpen' = isOpen
  BY <1>1, <1>3
<1>7. stack' \in Seq(FrameType) /\ isOpen' \in BOOLEAN
  BY <1>6 DEF TypeOK
<1>8. StackInv(stack', ToSet(g.cache), g.objs) /\ Marked(stack') = U
  BY <1>2, <1>4, <1>5, <1>6
<1> QED BY <1>4, <1>5, <1>6, <1>7, <1>8, StepInv

\* Where an operation may start, every other one has a statement that is marked.
LEMMA AllMarked ==
    ASSUME TypeOK, StatementsOwned, MayStart, ~HitsReenter
    PROVE  \A i \in DOMAIN stack : ~stack[i].hit /\ stack[i].statement \in Marked(stack)
<1>1. stack \in Seq(FrameType) /\ StackInv(stack, ToSet(Here.cache), Here.objs)
  BY HereHeap
<1>2. ASSUME NEW i \in DOMAIN stack, stack[i].hit PROVE FALSE
  <2>1. i = Len(stack)
    BY <1>1, <1>2 DEF StackInv
  <2>2. stack # <<>>
    BY <1>1, <1>2, Empty
  <2>3. Last(stack) = stack[i]
    BY <2>1 DEF Last
  <2> QED BY <1>2, <2>2, <2>3 DEF MayStart
<1> QED BY <1>2 DEF Marked

LEMMA HitStep ==
    ASSUME TypeOK, StatementsOwned, ~HitsReenter, NEW sql \in Sqls, AcquireHit(sql)
    PROVE  TypeOK' /\ StatementsOwned'
<1>1. PICK h : h = Here
  OBVIOUS
<1>2. PICK U : U = Marked(stack)
  OBVIOUS
<1>3. PICK g : g = LruGet(h, sql)
  OBVIOUS
<1>4. /\ HeapOK(h, U) /\ Len(h.cache) <= MaxCacheSize
      /\ StackInv(stack, ToSet(h.cache), h.objs) /\ stack \in Seq(FrameType)
      /\ Is(h, mPreparedStatementCache, mPreparedStatementPool, statements, native)
  BY <1>1, <1>2, HereHeap
<1>5. HeapOK(g, U) /\ Len(g.cache) = Len(h.cache) /\ ToSet(g.cache) = ToSet(h.cache)
      /\ g.objs = h.objs
  BY <1>3, <1>4, GetHeap
<1>6. Becomes(g) /\ isOpen' = isOpen /\ MayStart
  BY <1>1, <1>3 DEF AcquireHit
<1>7. PICK s \in UsableHit(sql) : Push(sql, s, TRUE)
  BY DEF AcquireHit
<1>8. <<sql, s>> \in ToSet(h.cache) /\ s \in Statements /\ ~h.objs[s].mInUse
  <2>1. PICK i \in DOMAIN mPreparedStatementCache :
            mPreparedStatementCache[i][1] = sql /\ mPreparedStatementCache[i][2] = s
    BY <1>7 DEF UsableHit, Cached, Entries
  <2>2. mPreparedStatementCache[i] \in Sqls \X Statements
    BY <2>1, ElementOfSeq, LenProperties DEF TypeOK
  <2>3. mPreparedStatementCache[i] = <<sql, s>> /\ s \in Statements
    BY <2>1, <2>2
  <2>4. ~statements[s].mInUse
    BY <1>7 DEF UsableHit
  <2> QED BY <1>4, <2>1, <2>3, <2>4 DEF Is, ToSet
<1>9. s \notin U
  BY <1>4, <1>8 DEF HeapOK, HeapInv, EntriesInv
<1>10. PICK f \in FrameType : /\ f = [sql |-> sql, statement |-> s, hit |-> TRUE, running |-> FALSE]
                              /\ f.hit /\ f.sql = sql /\ f.statement = s
  <2>1. PICK f : f = [sql |-> sql, statement |-> s, hit |-> TRUE, running |-> FALSE]
    OBVIOUS
  <2>2. f \in FrameType
    BY <1>8, <2>1 DEF FrameType
  <2>3. f.hit /\ f.sql = sql /\ f.statement = s
    BY <2>1
  <2> QED BY <2>1, <2>2, <2>3
<1>11. PICK E : E = ToSet(h.cache)
  OBVIOUS
<1>12. PICK o : o = h.objs
  OBVIOUS
<1>13. Starts(stack, E, o, f, E, o, stack')
  <2>1. stack' = Append(stack, f)
    BY <1>7, <1>10 DEF Push
  <2>2. \A i \in DOMAIN stack : ~stack[i].hit
    BY <1>6, AllMarked
  <2>3. StackInv(stack, E, o) /\ <<f.sql, f.statement>> \in E /\ f.statement \notin Marked(stack)
    BY <1>2, <1>4, <1>8, <1>9, <1>10, <1>11, <1>12
  <2> QED BY <1>4, <1>10, <2>1, <2>2, <2>3 DEF Starts
<1>14. /\ stack' \in Seq(FrameType) /\ StackInv(stack', E, o)
       /\ Marked(stack') = IF f.hit THEN Marked(stack) ELSE Marked(stack) \cup {f.statement}
  BY <1>13, StackPush
<1>15. StackInv(stack', ToSet(g.cache), g.objs) /\ Marked(stack') = U
  BY <1>2, <1>5, <1>10, <1>11, <1>12, <1>14
<1>16. isOpen' \in BOOLEAN
  BY <1>6 DEF TypeOK
<1> QED BY <1>4, <1>5, <1>6, <1>14, <1>15, <1>16, StepInv

LEMMA ExecuteStep ==
    ASSUME TypeOK, StatementsOwned, Execute
    PROVE  TypeOK' /\ StatementsOwned'
<1>1. PICK h : h = Here
  OBVIOUS
<1>2. PICK U : U = Marked(stack)
  OBVIOUS
<1>3. /\ HeapOK(h, U) /\ Len(h.cache) <= MaxCacheSize
      /\ StackInv(stack, ToSet(h.cache), h.objs) /\ stack \in Seq(FrameType)
      /\ Is(h, mPreparedStatementCache, mPreparedStatementPool, statements, native)
  BY <1>1, <1>2, HereHeap
<1>4. Becomes(h) /\ isOpen' = isOpen
  BY <1>3 DEF Execute, Becomes, Is
<1>5. stack # <<>> /\ stack' = [stack EXCEPT ![Len(stack)].running = TRUE]
  BY DEF Execute
<1>6. /\ stack' \in Seq(FrameType) /\ StackInv(stack', ToSet(h.cache), h.objs)
      /\ Marked(stack') = Marked(stack)
  BY <1>3, <1>5, StackRun
<1>7. isOpen' \in BOOLEAN
  BY <1>4 DEF TypeOK
<1> QED BY <1>2, <1>3, <1>4, <1>6, <1>7, StepInv

LEMMA ReleaseStep ==
    ASSUME TypeOK, StatementsOwned, NEW failed, Release(failed)
    PROVE  TypeOK' /\ StatementsOwned'
<1>1. PICK h : h = Here
  OBVIOUS
<1>2. PICK U : U = Marked(stack)
  OBVIOUS
<1>3. /\ HeapOK(h, U) /\ Len(h.cache) <= MaxCacheSize
      /\ StackInv(stack, ToSet(h.cache), h.objs) /\ stack \in Seq(FrameType)
  BY <1>1, <1>2, HereHeap
<1>4. PICK s : s = Last(stack).statement
  OBVIOUS
<1>5. PICK g : g = ReleasePreparedStatement(h, s, failed)
  OBVIOUS
<1>6. stack # <<>> /\ stack' = Front(stack) /\ Becomes(g) /\ isOpen' = isOpen
  BY <1>1, <1>4, <1>5 DEF Release
<1>7. s \in Owned(ToSet(h.cache), U)
  <2>1. PICK n : n = Len(stack) /\ n \in DOMAIN stack
    <3>1. Len(stack) \in Nat /\ Len(stack) > 0 /\ DOMAIN stack = 1..Len(stack)
      BY <1>3, <1>6, Empty
    <3> QED BY <3>1
  <2>2. stack[n].statement = s
    BY <1>4, <2>1 DEF Last
  <2>3. CASE stack[n].hit
    <3>1. PICK e : e = <<stack[n].sql, s>> /\ e[2] = s
      <4>1. <<stack[n].sql, s>>[2] = s
        OBVIOUS
      <4> QED BY <4>1
    <3>2. e \in ToSet(h.cache)
      BY <1>3, <2>1, <2>2, <2>3, <3>1 DEF StackInv
    <3> QED BY <3>1, <3>2 DEF Owned
  <2>4. CASE ~stack[n].hit
    BY <1>2, <2>1, <2>2, <2>4 DEF Owned, Marked
  <2> QED BY <2>3, <2>4
<1>8. HeapOK(g, U \ {s}) /\ Len(g.cache) <= Len(h.cache) /\ Keeps(h, g, U \ {s})
  BY <1>3, <1>5, <1>7, ReleaseHeap
<1>9. PICK E, o, E2, o2 : E = ToSet(h.cache) /\ o = h.objs /\ E2 = ToSet(g.cache) /\ o2 = g.objs
  OBVIOUS
<1>10. Ends(stack, E, o, E2, o2, stack', s)
  BY <1>2, <1>3, <1>4, <1>6, <1>8, <1>9 DEF Ends, Keeps
<1>11. /\ stack' \in Seq(FrameType) /\ StackInv(stack', E2, o2)
       /\ Marked(stack') = Marked(stack) \ {s}
  BY <1>10, StackPop
<1>12. PICK V : V = U \ {s}
  OBVIOUS
<1>13. HeapOK(g, V) /\ StackInv(stack', ToSet(g.cache), g.objs) /\ Marked(stack') = V
  BY <1>2, <1>8, <1>9, <1>11, <1>12
<1>14. Len(g.cache) <= MaxCacheSize
  <2>1. Len(g.cache) \in Nat /\ Len(h.cache) \in Nat
    BY <1>3, <1>8, LenProperties DEF HeapOK, HeapRecord
  <2> QED BY <1>3, <1>8, <2>1
<1>15. isOpen' \in BOOLEAN
  BY <1>6 DEF TypeOK
<1> QED BY <1>6, <1>11, <1>13, <1>14, <1>15, StepInv

LEMMA CloseStep ==
    ASSUME TypeOK, StatementsOwned, Close
    PROVE  TypeOK' /\ StatementsOwned'
<1>1. PICK h : h = Here
  OBVIOUS
<1>2. PICK U : U = Marked(stack)
  OBVIOUS
<1>3. HeapOK(h, U) /\ stack \in Seq(FrameType) /\ StackInv(stack, ToSet(h.cache), h.objs)
  BY <1>1, <1>2, HereHeap
<1>4. PICK g : g = LruEvictAll(h)
  OBVIOUS
<1>5. HeapOK(g, U) /\ Len(g.cache) = 0
  BY <1>3, <1>4, EvictAllHeap
<1>6. Becomes(g) /\ stack' = stack /\ stack = <<>> /\ isOpen' \in BOOLEAN
  BY <1>1, <1>4 DEF Close
<1>7. Len(g.cache) <= MaxCacheSize
  BY <1>5
<1>8. StackInv(stack', ToSet(g.cache), g.objs)
  <2>1. DOMAIN stack' = {}
    BY <1>6
  <2> QED BY <2>1 DEF StackInv
<1>9. stack' \in Seq(FrameType) /\ Marked(stack') = U
  BY <1>2, <1>3, <1>6
<1> QED BY <1>5, <1>6, <1>7, <1>8, <1>9, StepInv

\* What obtainPreparedStatement hands out is nobody's.
LEMMA ObtainedIsUnused ==
    ASSUME TypeOK, StatementsOwned, MemoryLeft, NEW h, h = Here
    PROVE  /\ ObtainedObject \in Statements
           /\ ObtainedObject \notin Owned(ToSet(h.cache), Marked(stack))
           /\ h.pool # None => h.pool = ObtainedObject
           /\ NewPointer \in Pointers /\ h.native[NewPointer] = None
<1>1. /\ HeapOK(h, Marked(stack))
      /\ Is(h, mPreparedStatementCache, mPreparedStatementPool, statements, native)
  BY HereHeap
<1>2. NewPointer \in Pointers /\ h.native[NewPointer] = None
  BY <1>1 DEF MemoryLeft, NewPointer, Is
<1>3. CASE mPreparedStatementPool # None
  <2>1. ObtainedObject = h.pool /\ h.pool # None
    BY <1>1, <1>3 DEF ObtainedObject, Is
  <2>2. h.pool \in Statements \cup {None} /\ PoolNext(h.objs) \in Links
    BY <1>1, PoolNextType DEF HeapOK, HeapRecord
  <2>3. h.pool \in OnList(h.pool, PoolNext(h.objs))
    BY <2>1, <2>2, ListHas
  <2>4. OnList(h.pool, PoolNext(h.objs)) \cap Owned(ToSet(h.cache), Marked(stack)) = {}
    BY <1>1 DEF HeapOK, HeapInv
  <2> QED BY <1>2, <2>1, <2>2, <2>3, <2>4
<1>4. CASE mPreparedStatementPool = None
  <2>1. ObtainedObject = NewObject /\ h.pool = None
    BY <1>1, <1>4 DEF ObtainedObject, Is
  <2>2. Unused # {}
    BY <1>4 DEF MemoryLeft
  <2>3. NewObject \in Unused
    BY <2>2 DEF NewObject
  <2>4. \A e \in ToSet(h.cache) : e[2] \in InCache
    BY <1>1 DEF Is, ToSet, InCache
  <2>5. Marked(stack) \subseteq InProgress
    BY DEF Marked, InProgress
  <2>6. NewObject \in Statements /\ NewObject \notin InProgress /\ NewObject \notin InCache
    BY <2>3 DEF Unused
  <2>7. NewObject \notin Owned(ToSet(h.cache), Marked(stack))
    BY <2>4, <2>5, <2>6 DEF Owned
  <2> QED BY <1>2, <2>1, <2>6, <2>7
<1> QED BY <1>3, <1>4

\* The record that AcquireMiss ends with.
LEMMA MissRecord ==
    ASSUME NEW sql, AcquireMiss(sql), NEW h, h = LruGet(Here, sql), NEW cached,
           cached = (Cached(sql) = {} /\ sql \in Cacheable), NEW k,
           k = ObtainPreparedStatement([h EXCEPT !.native[NewPointer] = sql], sql, NewPointer)
    PROVE  Becomes(SetInUse(Stored(k, sql, ObtainedObject, cached), ObtainedObject, TRUE))
<1>1. CASE Cached(sql) = {} /\ sql \in Cacheable
  <2>1. cached
    BY <1>1
  <2>2. Becomes([[LruPut(k, sql, ObtainedObject) EXCEPT !.objs[ObtainedObject].mInCache = TRUE]
                    EXCEPT !.objs[ObtainedObject].mInUse = TRUE])
    BY <1>1, Zenon DEF AcquireMiss
  <2> QED BY <2>1, <2>2, Zenon DEF Stored, SetInUse, SetInCache
<1>2. CASE ~(Cached(sql) = {} /\ sql \in Cacheable)
  <2>1. ~cached
    BY <1>2
  <2>2. Becomes([k EXCEPT !.objs[ObtainedObject].mInUse = TRUE])
    BY <1>2, Zenon DEF AcquireMiss
  <2> QED BY <2>1, <2>2, Zenon DEF Stored, SetInUse
<1> QED BY <1>1, <1>2

LEMMA MissStep ==
    ASSUME TypeOK, StatementsOwned, ~HitsReenter, NEW sql \in Sqls, AcquireMiss(sql)
    PROVE  TypeOK' /\ StatementsOwned'
<1>1. PICK U : U = Marked(stack)
  OBVIOUS
<1>2. PICK h : h = LruGet(Here, sql)
  OBVIOUS
<1>3. /\ HeapOK(Here, U) /\ Len(Here.cache) <= MaxCacheSize
      /\ StackInv(stack, ToSet(Here.cache), Here.objs) /\ stack \in Seq(FrameType)
      /\ Is(Here, mPreparedStatementCache, mPreparedStatementPool, statements, native)
  BY <1>1, HereHeap
<1>4. /\ HeapOK(h, U) /\ Len(h.cache) = Len(Here.cache) /\ ToSet(h.cache) = ToSet(Here.cache)
      /\ h.pool = Here.pool /\ h.objs = Here.objs /\ h.native = Here.native
  BY <1>2, <1>3, GetHeap
<1>5. PICK s : s = ObtainedObject
  OBVIOUS
<1>6. PICK p : p = NewPointer
  OBVIOUS
<1>7. PICK cached : cached = (Cached(sql) = {} /\ sql \in Cacheable)
  OBVIOUS
<1>8. MayObtain(h, U, s, sql, p, cached)
  <2>1. MemoryLeft
    BY DEF AcquireMiss
  <2>2. /\ s \in Statements /\ s \notin Owned(ToSet(Here.cache), U)
        /\ Here.pool # None => Here.pool = s
        /\ p \in Pointers /\ Here.native[p] = None
    BY <1>1, <1>5, <1>6, <2>1, ObtainedIsUnused
  <2>3. ASSUME cached, NEW e \in ToSet(h.cache), e[1] = sql PROVE FALSE
    <3>1. Cached(sql) = {}
      BY <1>7, <2>3
    <3>2. PICK i \in DOMAIN mPreparedStatementCache : mPreparedStatementCache[i] = e
      BY <1>3, <1>4, <2>3 DEF Is, ToSet
    <3>3. i \in Cached(sql)
      BY <2>3, <3>2 DEF Cached, Entries
    <3> QED BY <3>1, <3>3
  <2>4. cached \in BOOLEAN
    BY <1>7
  <2>5. \A e \in ToSet(h.cache) : cached => e[1] # sql
    BY <2>3
  <2> QED BY <1>4, <2>2, <2>4, <2>5 DEF MayObtain
<1>9. PICK k : k = ObtainPreparedStatement([h EXCEPT !.native[p] = sql], sql, p)
  OBVIOUS
<1>10. HandedOut(h, s, sql, p, k)
  <2>1. HeapRecord(h) /\ ObtainedObject \in Statements /\ p \in Pointers
    BY <1>5, <1>8 DEF MayObtain, HeapOK
  <2> QED BY <1>5, <1>9, <2>1, HandedOutRecord
<1>11. PICK g : g = SetInUse(Stored(k, sql, s, cached), s, TRUE)
  OBVIOUS
<1>12. Becomes(g)
  BY <1>2, <1>5, <1>6, <1>7, <1>9, <1>11, MissRecord
<1>13. Len(h.cache) <= MaxCacheSize
  BY <1>3, <1>4
<1>14. Prepared(h, U, s, sql, g)
  BY <1>8, <1>10, <1>11, <1>13, MissHeap
<1>15. /\ HeapOK(g, U \cup {s}) /\ Keeps(h, g, U) /\ g.objs[s].mSql = sql
       /\ Len(g.cache) <= MaxCacheSize
  BY <1>14 DEF Prepared, HasNew
<1>16. PICK f \in FrameType : /\ f = [sql |-> sql, statement |-> s, hit |-> FALSE, running |-> FALSE]
                              /\ ~f.hit /\ f.sql = sql /\ f.statement = s
  <2>1. PICK f : f = [sql |-> sql, statement |-> s, hit |-> FALSE, running |-> FALSE]
    OBVIOUS
  <2>2. s \in Statements
    BY <1>8 DEF MayObtain
  <2>3. f \in FrameType
    BY <2>1, <2>2 DEF FrameType
  <2>4. ~f.hit /\ f.sql = sql /\ f.statement = s
    BY <2>1
  <2> QED BY <2>1, <2>3, <2>4
<1>17. PICK E, o, E2, o2 : E = ToSet(h.cache) /\ o = h.objs /\ E2 = ToSet(g.cache) /\ o2 = g.objs
  OBVIOUS
<1>18. Starts(stack, E, o, f, E2, o2, stack')
  <2>1. stack' = Append(stack, f)
    BY <1>5, <1>16, Zenon DEF AcquireMiss, Push
  <2>2. MayStart
    BY DEF AcquireMiss
  <2>3. \A i \in DOMAIN stack : ~stack[i].hit
    BY <2>2, AllMarked
  <2>4. StackInv(stack, E, o)
    BY <1>3, <1>4, <1>17
  <2>5. f.statement \notin Marked(stack)
    BY <1>1, <1>8, <1>16 DEF MayObtain, Owned
  <2>6. \A u \in Marked(stack) : o2[u].mSql = o[u].mSql
    BY <1>1, <1>15, <1>17 DEF Keeps
  <2>7. o2[f.statement].mSql = f.sql
    BY <1>15, <1>16, <1>17
  <2> QED BY <1>3, <1>16, <2>1, <2>3, <2>4, <2>5, <2>6, <2>7 DEF Starts
<1>19. /\ stack' \in Seq(FrameType) /\ StackInv(stack', E2, o2)
       /\ Marked(stack') = IF f.hit THEN Marked(stack) ELSE Marked(stack) \cup {f.statement}
  BY <1>18, StackPush
<1>20. StackInv(stack', ToSet(g.cache), g.objs) /\ Marked(stack') = U \cup {s}
  BY <1>1, <1>16, <1>17, <1>19
<1>21. isOpen' \in BOOLEAN
  BY DEF AcquireMiss, TypeOK
<1> QED BY <1>12, <1>15, <1>19, <1>20, <1>21, StepInv

LEMMA Initially ==
    ASSUME Init
    PROVE  TypeOK /\ StatementsOwned
<1>1. TypeOK
  <2>1. NewStatement \in StatementType
    BY DEF NewStatement, StatementType
  <2>2. mPreparedStatementCache \in Seq(Sqls \X Statements) /\ Len(mPreparedStatementCache) = 0
    BY DEF Init
  <2>3. statements \in [Statements -> StatementType]
    BY <2>1 DEF Init
  <2> QED BY <2>2, <2>3 DEF Init, TypeOK
<1>2. DOMAIN mPreparedStatementCache = {} /\ DOMAIN stack = {}
  BY DEF Init
<1>3. ToSet(mPreparedStatementCache) = {} /\ Marked(stack) = {}
  BY <1>2 DEF ToSet, Marked
<1>4. IsInjective(mPreparedStatementCache)
  BY <1>2 DEF IsInjective
<1>5. StackInv(stack, ToSet(mPreparedStatementCache), statements)
  BY <1>2 DEF StackInv
<1>6. \A p \in Pointers : native[p] = None
  BY DEF Init
<1>7. mPreparedStatementPool = None
  BY DEF Init
<1>8. /\ OnList(mPreparedStatementPool, PoolNext(statements)) = {}
      /\ ListInv(mPreparedStatementPool, PoolNext(statements))
  BY <1>7, ListEmpty
<1>9. Owned({}, {}) = {}
  BY DEF Owned
<1>10. HeapInv({}, mPreparedStatementPool, statements, native, {})
  BY <1>6, <1>8, <1>9 DEF HeapInv, EntriesInv, PointersInv
<1> QED BY <1>1, <1>3, <1>4, <1>5, <1>10 DEF StatementsOwned

LEMMA NextInv ==
    ASSUME ~HitsReenter, TypeOK, StatementsOwned, [Next]_vars
    PROVE  TypeOK' /\ StatementsOwned'
<1>1. ASSUME NEW sql \in Sqls, AcquireHit(sql) PROVE TypeOK' /\ StatementsOwned'
  BY <1>1, HitStep
<1>2. ASSUME NEW sql \in Sqls, AcquireMiss(sql) PROVE TypeOK' /\ StatementsOwned'
  BY <1>2, MissStep
<1>3. ASSUME NEW sql \in Sqls, AcquireFails(sql) PROVE TypeOK' /\ StatementsOwned'
  <2>1. Becomes(LruGet(Here, sql)) /\ UNCHANGED <<stack, isOpen>>
    BY <1>3 DEF AcquireFails
  <2> QED BY <2>1, GetStep
<1>4. ASSUME NEW sql \in Sqls, IsPreparedStatementInCache(sql)
      PROVE  TypeOK' /\ StatementsOwned'
  <2>1. Becomes(LruGet(Here, sql)) /\ UNCHANGED <<stack, isOpen>>
    BY <1>4 DEF IsPreparedStatementInCache
  <2> QED BY <2>1, GetStep
<1>5. ASSUME Execute PROVE TypeOK' /\ StatementsOwned'
  BY <1>5, ExecuteStep
<1>6. ASSUME NEW failed \in BOOLEAN, Release(failed) PROVE TypeOK' /\ StatementsOwned'
  BY <1>6, ReleaseStep
<1>7. ASSUME Close PROVE TypeOK' /\ StatementsOwned'
  BY <1>7, CloseStep
<1>8. ASSUME UNCHANGED vars PROVE TypeOK' /\ StatementsOwned'
  <2>1. TypeOK'
    BY <1>8 DEF vars, TypeOK
  <2>2. StatementsOwned'
    BY <1>8 DEF vars, StatementsOwned
  <2> QED BY <2>1, <2>2
<1> QED BY <1>1, <1>2, <1>3, <1>4, <1>5, <1>6, <1>7, <1>8 DEF Next

-----------------------------------------------------------------------------
(***************************************************************************)
(* What follows                                                            *)
(***************************************************************************)
\* Everyone who has an object: the entries, the operations that marked it, and the one
\* that found it in the cache.
LEMMA WhoHasIt ==
    ASSUME TypeOK, StatementsOwned
    PROVE  InCache \cup InProgress = Owned(ToSet(mPreparedStatementCache), Marked(stack))
<1>1. PICK E : E = ToSet(mPreparedStatementCache)
  OBVIOUS
<1>2. InCache = {e[2] : e \in E}
  BY <1>1 DEF InCache, ToSet
<1>3. ASSUME NEW i \in DOMAIN stack
      PROVE  stack[i].statement \in Owned(E, Marked(stack))
  <2>1. CASE stack[i].hit
    <3>1. PICK e : e = <<stack[i].sql, stack[i].statement>>
      OBVIOUS
    <3>2. e \in E
      BY <1>1, <1>3, <2>1, <3>1 DEF StatementsOwned, StackInv
    <3>3. e[2] = stack[i].statement
      BY <3>1
    <3> QED BY <3>2, <3>3 DEF Owned
  <2>2. CASE ~stack[i].hit
    BY <1>3, <2>2 DEF Marked, Owned
  <2> QED BY <2>1, <2>2
<1>4. InProgress \subseteq Owned(E, Marked(stack))
  BY <1>3 DEF InProgress
<1>5. Marked(stack) \subseteq InProgress
  BY DEF Marked, InProgress
<1> QED BY <1>1, <1>2, <1>4, <1>5 DEF Owned

LEMMA InvImplies ==
    ASSUME TypeOK, StatementsOwned
    PROVE  /\ InUseStatementsIntact /\ CachedStatementsIntact
           /\ NoStatementLost /\ RecycledStatementsUnused
<1>1. PICK E : E = ToSet(mPreparedStatementCache)
  OBVIOUS
<1>2. PICK U : U = Marked(stack)
  OBVIOUS
<1>3. /\ EntriesInv(E, statements, U) /\ PointersInv(E, statements, native, U)
      /\ OnList(mPreparedStatementPool, PoolNext(statements)) \cap Owned(E, U) = {}
  BY <1>1, <1>2 DEF StatementsOwned, HeapInv
<1>4. InCache \cup InProgress = Owned(E, U)
  BY <1>1, <1>2, WhoHasIt
<1>5. StackInv(stack, E, statements)
  BY <1>1 DEF StatementsOwned
<1>6. ASSUME NEW s \in Owned(E, U)
      PROVE  PreparedFrom(s, statements[s].mSql)
  BY <1>3, <1>6 DEF PointersInv, PreparedFrom
<1>7. InUseStatementsIntact
  <2>1. ASSUME NEW i \in DOMAIN stack
        PROVE  PreparedFrom(stack[i].statement, stack[i].sql)
    <3>1. stack[i].statement \in Owned(E, U)
      BY <1>4, <2>1 DEF InProgress
    <3>2. statements[stack[i].statement].mSql = stack[i].sql
      <4>1. CASE stack[i].hit
        <5>1. <<stack[i].sql, stack[i].statement>> \in E
          BY <1>5, <2>1, <4>1 DEF StackInv
        <5>2. PICK e : /\ e = <<stack[i].sql, stack[i].statement>>
                       /\ e[1] = stack[i].sql /\ e[2] = stack[i].statement
          <6>1. /\ <<stack[i].sql, stack[i].statement>>[1] = stack[i].sql
                /\ <<stack[i].sql, stack[i].statement>>[2] = stack[i].statement
            OBVIOUS
          <6> QED BY <6>1
        <5>3. statements[e[2]].mSql = e[1]
          BY <1>3, <5>1, <5>2 DEF EntriesInv
        <5> QED BY <5>2, <5>3
      <4>2. CASE ~stack[i].hit
        BY <1>5, <2>1, <4>2 DEF StackInv
      <4> QED BY <4>1, <4>2
    <3> QED BY <1>6, <3>1, <3>2
  <2>2. \A i, j \in DOMAIN stack : stack[i].statement = stack[j].statement => i = j
    BY <1>5 DEF StackInv
  <2> QED BY <2>1, <2>2 DEF InUseStatementsIntact
<1>8. CachedStatementsIntact
  <2>1. ASSUME NEW i \in DOMAIN mPreparedStatementCache, NEW e, e = mPreparedStatementCache[i]
        PROVE  PreparedFrom(e[2], e[1]) /\ statements[e[2]].mInCache
    <3>1. e \in E
      BY <1>1, <2>1 DEF ToSet
    <3>2. e[2] \in Owned(E, U)
      BY <3>1 DEF Owned
    <3>3. statements[e[2]].mSql = e[1] /\ statements[e[2]].mInCache
      BY <1>3, <3>1 DEF EntriesInv
    <3> QED BY <1>6, <3>2, <3>3
  <2>2. \A s, u \in InCache \cup InProgress :
            statements[s].mStatementPtr = statements[u].mStatementPtr => s = u
    BY <1>3, <1>4 DEF PointersInv
  <2> QED BY <2>1, <2>2 DEF CachedStatementsIntact
<1>9. NoStatementLost
  BY <1>3, <1>4 DEF PointersInv, NoStatementLost
<1>10. RecycledStatementsUnused
  BY <1>3, <1>4 DEF RecycledStatementsUnused, Recycled
<1> QED BY <1>7, <1>8, <1>9, <1>10

\* The invariant: as long as a statement found in the cache is not re-entered, the marks
\* mInCache and mInUse that acquirePreparedStatement, releasePreparedStatement and
\* entryRemoved set say who has an object, native statements and owned objects correspond
\* one to one, and the list of recycled objects is a list, apart from the owned ones.
THEOREM StatementsInvariant ==
    ASSUME ~HitsReenter PROVE Spec => []StatementsInv
<1>1. Init => TypeOK /\ StatementsOwned
  BY Initially
<1>2. (TypeOK /\ StatementsOwned) /\ [Next]_vars => (TypeOK /\ StatementsOwned)'
  BY NextInv
<1> QED BY <1>1, <1>2, PTL DEF Spec, StatementsInv

\* The cache never exceeds maxSqlCacheSize, however acquirePreparedStatement and
\* releasePreparedStatement interleave with evictions, and every object is well formed.
THEOREM StatementsTypeCorrect ==
    ASSUME ~HitsReenter PROVE Spec => []TypeOK
<1>1. StatementsInv => TypeOK
  BY DEF StatementsInv
<1> QED BY <1>1, StatementsInvariant, PTL

\* "We need to prevent in use statements from being finalized until they are no longer
\* in use": every nested operation has a statement to itself, and its native statement is
\* the one that was prepared from its SQL (acquirePreparedStatement, entryRemoved).
THEOREM StatementsInUseStayIntact ==
    ASSUME ~HitsReenter PROVE Spec => []InUseStatementsIntact
<1>1. StatementsInv => InUseStatementsIntact
  BY InvImplies DEF StatementsInv
<1> QED BY <1>1, StatementsInvariant, PTL

\* The cache gives back what acquirePreparedStatement put into it: its statements exist,
\* are prepared from the SQL they are found under, and nobody shares a native statement.
THEOREM StatementsInCacheStayIntact ==
    ASSUME ~HitsReenter PROVE Spec => []CachedStatementsIntact
<1>1. StatementsInv => CachedStatementsIntact
  BY InvImplies DEF StatementsInv
<1> QED BY <1>1, StatementsInvariant, PTL

\* "All native statement objects must be freed before the native database object can be
\* closed": dispose() can find every one that no operation uses, in the cache.
THEOREM StatementsAreNeverLost ==
    ASSUME ~HitsReenter PROVE Spec => []NoStatementLost
<1>1. StatementsInv => NoStatementLost
  BY InvImplies DEF StatementsInv
<1> QED BY <1>1, StatementsInvariant, PTL

\* obtainPreparedStatement hands out a recycled object only after the cache and every
\* operation have let go of it.
THEOREM RecycledStatementsAreUnused ==
    ASSUME ~HitsReenter PROVE Spec => []RecycledStatementsUnused
<1>1. StatementsInv => RecycledStatementsUnused
  BY InvImplies DEF StatementsInv
<1> QED BY <1>1, StatementsInvariant, PTL
=============================================================================
