--------------------------- MODULE ListingProofs ---------------------------
(***************************************************************************)
(* Proofs about the walks that go page by page: through the audit log and  *)
(* through the tree, and the listing of a directory over the bridge.       *)
(***************************************************************************)
EXTENDS BridgeListing, AuditQuery, FiniteSetTheorems, SequenceTheorems, WellFoundedInduction, TLAPS

-----------------------------------------------------------------------------
(* A page: the first k of a finite set in the order rel.                    *)
Earlier(S, rel, p) == {q \in S : <<q, p>> \in rel}
Cut(S, rel, k)     == {p \in S : Cardinality(Earlier(S, rel, p)) < k}

StrictOrder(S, rel) ==
    /\ \A p \in S : <<p, p>> \notin rel
    /\ \A p, q, r \in S : <<p, q>> \in rel /\ <<q, r>> \in rel => <<p, r>> \in rel
    /\ \A p, q \in S : p = q \/ <<p, q>> \in rel \/ <<q, p>> \in rel

Backwards(S, rel) == {pq \in S \X S : <<pq[2], pq[1]>> \in rel}

(* The order read backwards is an order.                                    *)
LEMMA BackwardsOrder ==
    ASSUME NEW S, NEW rel, StrictOrder(S, rel)
    PROVE  /\ StrictOrder(S, Backwards(S, rel))
           /\ \A p, q \in S : <<p, q>> \in Backwards(S, rel) <=> <<q, p>> \in rel
<1>1. \A p, q \in S : <<p, q>> \in Backwards(S, rel) <=> <<q, p>> \in rel
  BY DEF Backwards
<1> HIDE DEF Backwards
<1> QED BY <1>1 DEF StrictOrder

(* What comes before an element is finite, part of the set and without it.  *)
LEMMA EarlierFinite ==
    ASSUME NEW S, IsFiniteSet(S), NEW rel, StrictOrder(S, rel), NEW p \in S
    PROVE  /\ IsFiniteSet(Earlier(S, rel, p)) /\ Cardinality(Earlier(S, rel, p)) \in Nat
           /\ Earlier(S, rel, p) \subseteq S \ {p}
           /\ Cardinality(Earlier(S, rel, p)) < Cardinality(S)
           /\ Cardinality(S) \in Nat
<1>1. Earlier(S, rel, p) \in SUBSET S /\ p \notin Earlier(S, rel, p)
  BY DEF Earlier, StrictOrder
<1>2. /\ IsFiniteSet(Earlier(S, rel, p))
      /\ Cardinality(Earlier(S, rel, p)) <= Cardinality(S)
      /\ Cardinality(S) = Cardinality(Earlier(S, rel, p)) => S = Earlier(S, rel, p)
  BY <1>1, FS_Subset
<1>3. Cardinality(Earlier(S, rel, p)) \in Nat /\ Cardinality(S) \in Nat
  BY <1>2, FS_CardinalityType
<1> QED BY <1>1, <1>2, <1>3

(* An earlier element has fewer before it.                                  *)
LEMMA EarlierShrinks ==
    ASSUME NEW S, NEW rel, StrictOrder(S, rel),
           NEW p \in S, NEW q \in S, <<q, p>> \in rel
    PROVE  /\ Earlier(S, rel, q) \subseteq Earlier(S, rel, p)
           /\ Earlier(S, rel, q) # Earlier(S, rel, p)
<1>1. Earlier(S, rel, q) \subseteq Earlier(S, rel, p)
  BY DEF Earlier, StrictOrder
<1>2. q \in Earlier(S, rel, p) /\ q \notin Earlier(S, rel, q)
  BY DEF Earlier, StrictOrder
<1> QED BY <1>1, <1>2

(* A finite set that is not empty has a first element.                      *)
LEMMA FirstExists ==
    ASSUME NEW S, IsFiniteSet(S), NEW rel, StrictOrder(S, rel),
           NEW T \in SUBSET S, T # {}
    PROVE  \E p \in T : \A q \in T : q = p \/ <<p, q>> \in rel
<1> DEFINE Sets == {Earlier(S, rel, p) : p \in T}
<1>1. Sets \subseteq FiniteSubsetsOf(S) /\ Sets # {}
  <2>1. \A p \in T : Earlier(S, rel, p) \in SUBSET S
    BY DEF Earlier
  <2>2. \A p \in T : IsFiniteSet(Earlier(S, rel, p))
    BY <2>1, FS_Subset
  <2> QED BY <2>1, <2>2 DEF FiniteSubsetsOf
<1>2. IsWellFoundedOn(StrictSubsetOrdering(S), FiniteSubsetsOf(S))
  BY FS_StrictSubsetOrderingWellFounded
<1>3. PICK E \in Sets : \A F \in Sets : <<F, E>> \notin StrictSubsetOrdering(S)
  <2> HIDE DEF Sets
  <2> QED BY <1>1, <1>2, WFMin
<1>4. PICK p \in T : E = Earlier(S, rel, p)
  OBVIOUS
<1>5. \A q \in T : <<q, p>> \notin rel
  <2> SUFFICES ASSUME NEW q \in T, <<q, p>> \in rel PROVE FALSE
    OBVIOUS
  <2>1. /\ Earlier(S, rel, q) \subseteq E
        /\ Earlier(S, rel, q) # E
    BY <1>4, EarlierShrinks
  <2>2. Earlier(S, rel, q) \in SUBSET S /\ E \in SUBSET S
    BY <1>4 DEF Earlier
  <2>3. <<Earlier(S, rel, q), E>> \in StrictSubsetOrdering(S)
    BY <2>1, <2>2 DEF StrictSubsetOrdering
  <2> QED BY <1>3, <2>3
<1> QED BY <1>5 DEF StrictOrder

(* ... and a last one.                                                      *)
LEMMA LastExists ==
    ASSUME NEW S, IsFiniteSet(S), NEW rel, StrictOrder(S, rel),
           NEW T \in SUBSET S, T # {}
    PROVE  \E p \in T : \A q \in T : q = p \/ <<q, p>> \in rel
<1>1. /\ StrictOrder(S, Backwards(S, rel))
      /\ \A p, q \in S : <<p, q>> \in Backwards(S, rel) <=> <<q, p>> \in rel
  BY BackwardsOrder
<1>2. \E p \in T : \A q \in T : q = p \/ <<p, q>> \in Backwards(S, rel)
  <2> HIDE DEF Backwards
  <2> QED BY <1>1, FirstExists
<1> QED BY <1>1, <1>2

(* A page that is cut holds what comes before its entries; it is the whole  *)
(* set, or it is full; and it is empty only if there is nothing to show.    *)
LEMMA CutFacts ==
    ASSUME NEW S, IsFiniteSet(S), NEW rel, StrictOrder(S, rel), NEW k \in Nat \ {0}
    PROVE  /\ Cut(S, rel, k) \subseteq S /\ IsFiniteSet(Cut(S, rel, k))
           /\ \A p \in Cut(S, rel, k), q \in S : <<q, p>> \in rel => q \in Cut(S, rel, k)
           /\ Cut(S, rel, k) = S \/ Cardinality(Cut(S, rel, k)) >= k
           /\ Cardinality(S) <= k => Cut(S, rel, k) = S
           /\ S # {} => Cut(S, rel, k) # {}
<1> DEFINE C == Cut(S, rel, k)
<1>1. C \in SUBSET S /\ IsFiniteSet(C) /\ Cardinality(C) \in Nat /\ Cardinality(S) \in Nat
  <2>1. C \in SUBSET S
    BY DEF Cut
  <2> QED BY <2>1, FS_Subset, FS_CardinalityType
<1>2. ASSUME NEW p \in C, NEW q \in S, <<q, p>> \in rel
      PROVE  q \in C
  <2>1. p \in S /\ Cardinality(Earlier(S, rel, p)) < k
    BY DEF Cut
  <2>2. Earlier(S, rel, q) \in SUBSET Earlier(S, rel, p)
    BY <1>2, <2>1, EarlierShrinks
  <2>3. /\ IsFiniteSet(Earlier(S, rel, p)) /\ Cardinality(Earlier(S, rel, p)) \in Nat
        /\ Cardinality(Earlier(S, rel, q)) \in Nat
    BY <2>1, EarlierFinite
  <2>4. Cardinality(Earlier(S, rel, q)) <= Cardinality(Earlier(S, rel, p))
    BY <2>2, <2>3, FS_Subset
  <2> QED BY <2>1, <2>3, <2>4 DEF Cut
<1>3. C = S \/ Cardinality(C) >= k
  <2> SUFFICES ASSUME C # S PROVE Cardinality(C) >= k
    OBVIOUS
  <2>1. S \ C \in SUBSET S /\ S \ C # {}
    BY <1>1
  <2>2. PICK p \in S \ C : \A q \in S \ C : q = p \/ <<p, q>> \in rel
    <3> HIDE DEF C
    <3> QED BY <2>1, FirstExists
  <2>3. Earlier(S, rel, p) \in SUBSET C
    BY <2>2 DEF Earlier, StrictOrder
  <2>4. Cardinality(Earlier(S, rel, p)) <= Cardinality(C)
    <3> HIDE DEF C
    <3> QED BY <1>1, <2>3, FS_Subset
  <2>5. Cardinality(Earlier(S, rel, p)) \in Nat /\ ~(Cardinality(Earlier(S, rel, p)) < k)
    BY <2>2, EarlierFinite DEF Cut
  <2> HIDE DEF C
  <2> QED BY <1>1, <2>4, <2>5
<1>4. Cardinality(S) <= k => C = S
  <2> SUFFICES ASSUME Cardinality(S) <= k, NEW p \in S
               PROVE  Cardinality(Earlier(S, rel, p)) < k
    BY DEF Cut
  <2> QED BY <1>1, EarlierFinite
<1>5. S # {} => C # {}
  <2> SUFFICES ASSUME S # {} PROVE C # {}
    OBVIOUS
  <2>1. PICK p \in S : \A q \in S : q = p \/ <<p, q>> \in rel
    BY FirstExists
  <2>2. Earlier(S, rel, p) = {}
    BY <2>1 DEF Earlier, StrictOrder
  <2>3. Cardinality(Earlier(S, rel, p)) = 0
    BY <2>2, FS_EmptySet
  <2> QED BY <2>3 DEF Cut
<1> HIDE DEF C
<1> QED BY <1>1, <1>2, <1>3, <1>4, <1>5 DEF C

-----------------------------------------------------------------------------
(* The walk through the audit log.                                          *)
Table ==
    /\ IsFiniteSet(rows) /\ \A r \in rows : r.id \in Nat \ {0}
    /\ \A r, q \in rows : r.id = q.id => r = q

ById == {qr \in rows \X rows : qr[1].id < qr[2].id}

(* The ids order the rows of the table.                                     *)
LEMMA ByIdOrders ==
    ASSUME Table, NEW S \in SUBSET rows
    PROVE  /\ IsFiniteSet(S) /\ StrictOrder(S, ById)
           /\ \A q, r \in S : <<q, r>> \in ById <=> q.id < r.id
           /\ \A r \in S : Earlier(S, ById, r) = {q \in S : q.id < r.id}
<1>1. IsFiniteSet(S)
  BY FS_Subset DEF Table
<1>2. \A q, r \in S : <<q, r>> \in ById <=> q.id < r.id
  BY DEF ById
<1>3. StrictOrder(S, ById)
  <2> HIDE DEF ById
  <2> QED BY <1>2 DEF StrictOrder, Table
<1>4. \A r \in S : Earlier(S, ById, r) = {q \in S : q.id < r.id}
  <2> HIDE DEF ById
  <2> QED BY <1>2 DEF Earlier
<1> QED BY <1>1, <1>2, <1>3, <1>4

(* The page holds ids of rows that fit; if there is no more it holds all of *)
(* them that are left, else all of them up to the cursor, its last id.      *)
LEMMA AuditPageFacts ==
    ASSUME Table, after \in Nat
    PROVE  /\ IsFiniteSet(AuditPage)
           /\ \A n \in AuditPage :
                 n \in Nat \ {0} /\ n > after /\ \E r \in rows : r.id = n /\ Fits(r, filter)
           /\ NextAuditCursor = None => \A r \in Where : r.id \in AuditPage
           /\ NextAuditCursor # None =>
                 /\ NextAuditCursor \in AuditPage
                 /\ \A n \in AuditPage : n <= NextAuditCursor
                 /\ \A r \in Where : r.id <= NextAuditCursor => r.id \in AuditPage
<1> DEFINE F == Where
           L == Limited
           C == Cut(L, ById, PageSize)
<1>1. F \in SUBSET rows /\ \A r \in F : r.id > after /\ Fits(r, filter)
  BY DEF Where
<1>2. L = Cut(F, ById, PageSize + 1)
  <2>1. \A r \in F : Earlier(F, ById, r) = {q \in F : q.id < r.id}
    <3> HIDE DEF F
    <3> QED BY <1>1, ByIdOrders
  <2>2. L = {r \in F : Cardinality({q \in F : q.id < r.id}) < PageSize + 1}
    BY Zenon DEF Limited
  <2> HIDE DEF F, L
  <2> QED BY <2>1, <2>2, Zenon DEF Cut
<1>3. PageSize \in Nat \ {0} /\ PageSize + 1 \in Nat \ {0} /\ None \notin Nat
  BY QueriesTyped
<1>4. /\ L \subseteq F /\ IsFiniteSet(L)
      /\ \A p \in L, q \in F : <<q, p>> \in ById => q \in L
      /\ L = F \/ Cardinality(L) >= PageSize + 1
  <2> HIDE DEF F, L
  <2> QED BY <1>1, <1>2, <1>3, ByIdOrders, CutFacts
<1>5. /\ C \subseteq L /\ IsFiniteSet(C)
      /\ \A p \in C, q \in L : <<q, p>> \in ById => q \in C
      /\ Cardinality(L) <= PageSize => C = L
      /\ L # {} => C # {}
  <2> HIDE DEF F, L
  <2> QED BY <1>1, <1>3, <1>4, ByIdOrders, CutFacts
<1>6. AuditPage = {r.id : r \in C}
  <2>1. \A r \in L : Earlier(L, ById, r) = {q \in L : q.id < r.id}
    <3> HIDE DEF F, L
    <3> QED BY <1>1, <1>4, ByIdOrders
  <2>2. AuditPage = {r.id : r \in {x \in L : Cardinality({q \in L : q.id < x.id}) < PageSize}}
    BY Zenon DEF AuditPage
  <2>3. C = {x \in L : Cardinality({q \in L : q.id < x.id}) < PageSize}
    <3> HIDE DEF L
    <3> QED BY <2>1, Zenon DEF Cut
  <2> QED BY <2>2, <2>3, Zenon
<1>7. Cardinality(L) \in Nat
  <2> HIDE DEF L
  <2> QED BY <1>4, FS_CardinalityType
<1>8. \A r \in rows : r.id \in Nat \ {0}
  BY DEF Table
<1>9. \A n \in AuditPage :
         n \in Nat \ {0} /\ n > after /\ \E r \in rows : r.id = n /\ Fits(r, filter)
  <2> SUFFICES ASSUME NEW n \in AuditPage
               PROVE  n \in Nat \ {0} /\ n > after /\ \E r \in rows : r.id = n /\ Fits(r, filter)
    OBVIOUS
  <2>1. PICK r \in C : n = r.id
    <3> HIDE DEF C
    <3> QED BY <1>6
  <2>2. r \in F /\ r \in rows
    <3> HIDE DEF F, L, C
    <3> QED BY <1>1, <1>4, <1>5
  <2> HIDE DEF F
  <2> QED BY <1>1, <1>8, <2>1, <2>2
<1>10. IsFiniteSet(AuditPage)
  <2> DEFINE f == [r \in C |-> r.id]
  <2> HIDE DEF C
  <2>1. f \in Surjection(C, AuditPage)
    BY <1>6 DEF Surjection
  <2> HIDE DEF f
  <2> QED BY <1>5, <2>1, FS_Surjection
<1>11. CASE ~HasMore
  <2>1. Cardinality(L) <= PageSize
    BY <1>3, <1>7, <1>11 DEF HasMore
  <2>2. C = F
    <3> HIDE DEF F, L, C
    <3> QED BY <1>3, <1>4, <1>5, <1>7, <2>1
  <2>3. NextAuditCursor = None
    BY <1>11 DEF NextAuditCursor
  <2>4. \A r \in F : r.id \in AuditPage
    <3> HIDE DEF F, C
    <3> QED BY <1>6, <2>2
  <2> HIDE DEF C, L
  <2> QED BY <1>9, <1>10, <2>3, <2>4
<1>12. CASE HasMore
  <2>1. L # {}
    <3>1. Cardinality(L) > 0
      BY <1>3, <1>7, <1>12 DEF HasMore
    <3> HIDE DEF L
    <3> QED BY <3>1, FS_EmptySet
  <2>2. PICK x \in C : \A y \in C : y = x \/ <<y, x>> \in ById
    <3>1. C \in SUBSET rows /\ C # {}
      <4> HIDE DEF F, L, C
      <4> QED BY <1>1, <1>4, <1>5, <2>1
    <3> HIDE DEF C
    <3> QED BY <3>1, ByIdOrders, LastExists
  <2>3. \A n \in AuditPage : n <= x.id
    <3> HIDE DEF F, L, C
    <3>1. \A y \in C : y \in rows /\ y.id <= x.id
      <4>1. C \subseteq rows
        <5> HIDE DEF F, L, C
        <5> QED BY <1>1, <1>4, <1>5
      <4> HIDE DEF C
      <4>2. \A y \in C : <<y, x>> \in ById => y.id < x.id
        BY <2>2, <4>1, ByIdOrders
      <4>3. \A y \in C : y \in rows /\ y.id \in Nat
        BY <1>8, <4>1
      <4>4. \A y \in C : y = x \/ y.id < x.id
        BY <2>2, <4>2
      <4>5. x.id \in Nat
        BY <2>2, <4>3
      <4> QED BY <4>3, <4>4, <4>5
    <3> QED BY <1>6, <3>1
  <2>4. LastOf(AuditPage) \in AuditPage /\ \A n \in AuditPage : n <= LastOf(AuditPage)
    <3>1. x.id \in AuditPage
      <4> HIDE DEF C
      <4> QED BY <1>6, <2>2
    <3> QED BY <2>3, <3>1 DEF LastOf
  <2>5. NextAuditCursor = LastOf(AuditPage)
    BY <1>12 DEF NextAuditCursor
  <2>6. \A r \in F : r.id <= NextAuditCursor => r.id \in AuditPage
    <3> SUFFICES ASSUME NEW r \in F, r.id <= NextAuditCursor PROVE r.id \in AuditPage
      OBVIOUS
    <3>1. PICK n \in C : n.id = NextAuditCursor
      <4> HIDE DEF C
      <4> QED BY <1>6, <2>4, <2>5
    <3>2. n \in L /\ n \in rows /\ r \in rows
      <4> HIDE DEF F, L, C
      <4> QED BY <1>1, <1>4, <1>5
    <3>3. r = n \/ <<r, n>> \in ById
      BY <1>8, <3>1, <3>2 DEF ById, Table
    <3>4. r \in C
      <4> HIDE DEF F, L, C, ById
      <4> QED BY <1>4, <1>5, <3>1, <3>2, <3>3
    <3> HIDE DEF F, L, C
    <3> QED BY <1>6, <3>4
  <2>7. NextAuditCursor # None
    BY <1>3, <1>9, <2>4, <2>5
  <2> HIDE DEF L, C
  <2> QED BY <1>9, <1>10, <2>4, <2>5, <2>6, <2>7
<1> QED BY <1>11, <1>12

(* What holds at every moment of a walk: the cursor, a number of the last   *)
(* page or the end, is a watermark.  Everything up to it that fits and was  *)
(* there when the walk began has been shown, and nothing beyond it has.     *)
Shown == {got[i] : i \in 1 .. Len(got)}

Reached(n) == after = None \/ n <= after

WalkInv ==
    /\ Table
    /\ after \in Nat \cup {None}
    /\ got \in Seq(Nat)
    /\ before \subseteq rows
    /\ after = 0 => got = << >> /\ before = {}
    /\ \A i \in 1 .. Len(got) : Reached(got[i])
    /\ \A i, j \in 1 .. Len(got) : i < j => got[i] < got[j]
    /\ \A i \in 1 .. Len(got) : \E r \in rows : r.id = got[i] /\ Fits(r, filter)
    /\ after # 0 =>
          \A r \in before : Fits(r, filter) /\ Reached(r.id) => r.id \in Shown

(* The walk begins with nothing shown.                                      *)
LEMMA WalkInvInit == AuditInit => WalkInv
BY FS_EmptySet DEF AuditInit, WalkInv, Table, Reached

(* A new row does not disturb the walk, wherever its id falls.              *)
LEMMA WalkInvRecord ==
    ASSUME WalkInv, Record
    PROVE  WalkInv'
<1>1. PICK id \in Draws \ {r.id : r \in rows}, u \in Users, o \in Operations, pii \in BOOLEAN :
         rows' = rows \cup {[id |-> id, user |-> u, operation |-> o, pii |-> pii, at |-> clock]}
  BY DEF Record
<1> DEFINE new == [id |-> id, user |-> u, operation |-> o, pii |-> pii, at |-> clock]
<1>2. new.id = id /\ id \in Nat \ {0} /\ \A r \in rows : r.id # new.id
  BY <1>1, QueriesTyped
<1>3. IsFiniteSet(rows')
  BY <1>1, FS_AddElement DEF WalkInv, Table
<1> HIDE DEF new
<1>4. Table'
  BY <1>1, <1>2, <1>3 DEF WalkInv, Table, new
<1>5. rows \subseteq rows' /\ UNCHANGED <<filter, after, got, before>>
  BY <1>1 DEF Record
<1> QED BY <1>4, <1>5 DEF WalkInv, Reached, Shown

(* A page moves the watermark, and shows what lies between.                 *)
LEMMA WalkInvQuery ==
    ASSUME WalkInv, Query
    PROVE  WalkInv'
<1> DEFINE P == AuditPage
           c == NextAuditCursor
<1>1. PICK order \in [1 .. Cardinality(P) -> P] :
         /\ \A i, j \in 1 .. Cardinality(P) : i < j => order[i] < order[j]
         /\ got' = got \o order
  BY DEF Query
<1>2. /\ after # None /\ after' = c /\ UNCHANGED <<rows, filter>>
      /\ before' = IF after = 0 THEN rows ELSE before
  BY DEF Query
<1>3. after \in Nat /\ None \notin Nat /\ Table
  BY <1>2, QueriesTyped DEF WalkInv
<1>4. /\ IsFiniteSet(P)
      /\ \A n \in P :
            n \in Nat \ {0} /\ n > after /\ \E r \in rows : r.id = n /\ Fits(r, filter)
      /\ c = None => \A r \in Where : r.id \in P
      /\ c # None =>
            /\ c \in P
            /\ \A n \in P : n <= c
            /\ \A r \in Where : r.id <= c => r.id \in P
  BY <1>3, AuditPageFacts
<1>5. /\ Cardinality(P) \in Nat
      /\ order \in Seq(Nat) /\ Len(order) = Cardinality(P)
  <2> HIDE DEF P
  <2>1. Cardinality(P) \in Nat
    BY <1>4, FS_CardinalityType
  <2>2. order \in [1 .. Cardinality(P) -> Nat]
    BY <1>1, <1>4
  <2> QED BY <2>1, <2>2
<1>6. \A n \in P : \E i \in 1 .. Len(order) : order[i] = n
  <2> HIDE DEF P
  <2>1. \A i \in 1 .. Cardinality(P) : order[i] \in Nat
    BY <1>5
  <2>2. \A i, j \in 1 .. Cardinality(P) : order[i] = order[j] => i = j
    BY <1>1, <1>5, <2>1
  <2>3. order \in Injection(1 .. Cardinality(P), P)
    BY <1>1, <2>2 DEF Injection, IsInjective
  <2>4. Cardinality(1 .. Cardinality(P)) = Cardinality(P)
    BY <1>5, FS_Interval
  <2>5. order \in Surjection(1 .. Cardinality(P), P)
    BY <1>4, <2>3, <2>4, FS_Injection
  <2> QED BY <1>5, <2>5 DEF Surjection
<1>7. /\ got \in Seq(Nat) /\ got' \in Seq(Nat) /\ Len(got') = Len(got) + Len(order)
      /\ \A i \in 1 .. Len(got') :
            got'[i] = IF i <= Len(got) THEN got[i] ELSE order[i - Len(got)]
      /\ \A i \in 1 .. Len(order) : order[i] \in P
  <2> HIDE DEF P
  <2>1. got \in Seq(Nat) /\ got' = got \o order
    BY <1>1 DEF WalkInv
  <2>2. \A i \in 1 .. Len(order) : order[i] \in P
    BY <1>1, <1>5
  <2> QED BY <1>5, <2>1, <2>2
<1>8. Shown' = Shown \cup P
  <2> HIDE DEF P
  <2>1. \A i \in 1 .. Len(got) : i \in 1 .. Len(got') /\ got'[i] = got[i]
    <3>1. Len(got) \in Nat /\ Len(order) \in Nat /\ Len(got') = Len(got) + Len(order)
      BY <1>5, <1>7
    <3>2. \A i \in 1 .. Len(got) : i \in 1 .. Len(got') /\ i <= Len(got)
      BY <3>1
    <3> QED BY <1>7, <3>2
  <2>2. \A i \in 1 .. Len(order) : Len(got) + i \in 1 .. Len(got') /\ got'[Len(got) + i] = order[i]
    <3> SUFFICES ASSUME NEW i \in 1 .. Len(order)
                 PROVE  Len(got) + i \in 1 .. Len(got') /\ got'[Len(got) + i] = order[i]
      OBVIOUS
    <3>1. Len(got) \in Nat /\ Len(order) \in Nat /\ Len(got') = Len(got) + Len(order)
      BY <1>5, <1>7
    <3>2. /\ Len(got) + i \in 1 .. Len(got') /\ ~(Len(got) + i <= Len(got))
          /\ Len(got) + i - Len(got) = i
      BY <3>1
    <3> QED BY <1>7, <3>2
  <2>3. \A i \in 1 .. Len(got') : got'[i] \in Shown \cup P
    <3> SUFFICES ASSUME NEW i \in 1 .. Len(got') PROVE got'[i] \in Shown \cup P
      OBVIOUS
    <3>1. CASE i <= Len(got)
      BY <1>5, <1>7, <3>1 DEF Shown
    <3>2. CASE ~(i <= Len(got))
      <4>1. i - Len(got) \in 1 .. Len(order)
        BY <1>5, <1>7, <3>2
      <4> QED BY <1>7, <3>2, <4>1
    <3> QED BY <3>1, <3>2
  <2>4. Shown' \subseteq Shown \cup P
    BY <2>3 DEF Shown
  <2>5. Shown \subseteq Shown'
    BY <2>1 DEF Shown
  <2>6. P \subseteq Shown'
    <3> SUFFICES ASSUME NEW n \in P PROVE n \in Shown'
      OBVIOUS
    <3>1. PICK i \in 1 .. Len(order) : order[i] = n
      BY <1>6
    <3>2. Len(got) + i \in 1 .. Len(got') /\ got'[Len(got) + i] = n
      BY <2>2, <3>1
    <3> QED BY <3>2 DEF Shown
  <2> QED BY <2>4, <2>5, <2>6
<1>9. c \in (Nat \ {0}) \cup {None} /\ c # 0
  <2> HIDE DEF P, c
  <2> QED BY <1>3, <1>4
<1>10. \A n \in Nat : Reached(n) => Reached(n)'
  <2> HIDE DEF P, c
  <2>1. c = None \/ (c \in Nat /\ c > after)
    BY <1>3, <1>4, <1>9
  <2> QED BY <1>2, <1>3, <2>1 DEF Reached
<1>11. /\ \A i \in 1 .. Len(got) : got[i] \in Nat /\ got[i] <= after /\ Reached(got[i])
       /\ \A i, j \in 1 .. Len(got) : i < j => got[i] < got[j]
       /\ \A i \in 1 .. Len(got) : \E r \in rows : r.id = got[i] /\ Fits(r, filter)
  BY <1>2, <1>7 DEF WalkInv, Reached
<1>12. \A i, j \in 1 .. Len(got') : i < j => got'[i] < got'[j]
  <2> HIDE DEF P, c
  <2> SUFFICES ASSUME NEW i \in 1 .. Len(got'), NEW j \in 1 .. Len(got'), i < j
               PROVE  got'[i] < got'[j]
    OBVIOUS
  <2>0. /\ Len(got) \in Nat /\ Len(order) \in Nat /\ Len(order) = Cardinality(P)
        /\ Len(got') = Len(got) + Len(order)
    BY <1>5, <1>7
  <2>1. CASE j <= Len(got)
    <3>1. i \in 1 .. Len(got) /\ j \in 1 .. Len(got) /\ i <= Len(got)
      BY <2>0, <2>1
    <3>2. got'[i] = got[i] /\ got'[j] = got[j]
      BY <1>7, <2>1, <3>1
    <3> QED BY <1>11, <3>1, <3>2
  <2>2. CASE i <= Len(got) /\ ~(j <= Len(got))
    <3>1. j - Len(got) \in 1 .. Len(order)
      BY <2>0, <2>2
    <3>2. got'[j] \in P
      BY <1>7, <2>2, <3>1
    <3>3. got'[j] \in Nat /\ got'[j] > after
      BY <1>4, <3>2
    <3>4. got'[i] \in Nat /\ got'[i] <= after
      <4>1. i \in 1 .. Len(got) /\ got'[i] = got[i]
        BY <1>5, <1>7, <2>2
      <4> QED BY <1>11, <4>1
    <3> QED BY <1>3, <3>3, <3>4
  <2>3. CASE ~(i <= Len(got))
    <3>1. /\ i - Len(got) \in 1 .. Cardinality(P) /\ j - Len(got) \in 1 .. Cardinality(P)
          /\ i - Len(got) < j - Len(got) /\ ~(j <= Len(got))
      BY <2>0, <2>3
    <3> QED BY <1>1, <1>7, <2>3, <3>1
  <2> QED BY <2>1, <2>2, <2>3
<1>13. \A n \in Shown' : Reached(n)' /\ \E r \in rows : r.id = n /\ Fits(r, filter)
  <2> HIDE DEF P, c
  <2> SUFFICES ASSUME NEW n \in Shown \cup P
               PROVE  Reached(n)' /\ \E r \in rows : r.id = n /\ Fits(r, filter)
    BY <1>8
  <2>1. CASE n \in Shown
    BY <1>10, <1>11, <2>1 DEF Shown
  <2>2. CASE n \in P
    BY <1>2, <1>4, <2>2 DEF Reached
  <2> QED BY <2>1, <2>2
<1>14. \A r \in before' : Fits(r, filter) /\ Reached(r.id)' => r.id \in Shown'
  <2> SUFFICES ASSUME NEW r \in before', Fits(r, filter), Reached(r.id)'
               PROVE  r.id \in Shown \cup P
    BY <1>8
  <2>1. r \in rows /\ r.id \in Nat \ {0}
    BY <1>2 DEF WalkInv, Table
  <2>2. CASE r.id <= after
    <3>1. after # 0 /\ r \in before
      BY <1>2, <1>3, <2>1, <2>2
    <3> QED BY <2>2, <3>1 DEF WalkInv, Reached
  <2>3. CASE ~(r.id <= after)
    <3>1. r \in Where
      BY <1>3, <2>1, <2>3 DEF Where
    <3> HIDE DEF P, c
    <3> QED BY <1>2, <1>4, <3>1 DEF Reached
  <2> QED BY <2>2, <2>3
<1>15. \A i \in 1 .. Len(got') : got'[i] \in Shown'
  BY DEF Shown
<1>16. before' \subseteq rows
  BY <1>2 DEF WalkInv
<1>17. Table'
  BY <1>2 DEF WalkInv, Table
<1> HIDE DEF P, c
<1> QED BY <1>2, <1>7, <1>9, <1>12, <1>13, <1>14, <1>15, <1>16, <1>17 DEF WalkInv

(* Every entry that was there when the walk began and fits is shown by its  *)
(* end, once, whatever was recorded meanwhile (query, next_cursor).         *)
THEOREM AuditWalkReadsEachOnce == AuditSpec => []WalkReadsEachOnce
<1>1. AuditInit => WalkInv
  BY WalkInvInit
<1>2. WalkInv /\ [AuditNext]_auditVars => WalkInv'
  <2> SUFFICES ASSUME WalkInv, [AuditNext]_auditVars PROVE WalkInv'
    OBVIOUS
  <2>1. CASE Record
    BY <2>1, WalkInvRecord
  <2>2. CASE Tick
    BY <2>2 DEF Tick, WalkInv, Table, Reached, Shown
  <2>3. CASE Query
    BY <2>3, WalkInvQuery
  <2>4. CASE UNCHANGED auditVars
    BY <2>4 DEF auditVars, WalkInv, Table, Reached, Shown
  <2> QED BY <2>1, <2>2, <2>3, <2>4 DEF AuditNext
<1>3. WalkInv => WalkReadsEachOnce
  <2> SUFFICES ASSUME WalkInv PROVE WalkReadsEachOnce
    OBVIOUS
  <2>1. after = None =>
           {r.id : r \in {x \in before : Fits(x, filter)}} \subseteq {got[i] : i \in 1 .. Len(got)}
    <3> SUFFICES ASSUME after = None, NEW r \in before, Fits(r, filter)
                 PROVE  r.id \in {got[i] : i \in 1 .. Len(got)}
      OBVIOUS
    <3>1. after # 0
      BY QueriesTyped
    <3> QED BY <3>1 DEF WalkInv, Reached, Shown
  <2>2. /\ \A i, j \in 1 .. Len(got) : i < j => got[i] < got[j]
        /\ \A i \in 1 .. Len(got) : \E r \in rows : r.id = got[i] /\ Fits(r, filter)
    BY DEF WalkInv
  <2> QED BY <2>1, <2>2 DEF WalkReadsEachOnce
<1> QED BY <1>1, <1>2, <1>3, PTL DEF AuditSpec

-----------------------------------------------------------------------------
(* Paths.                                                                   *)
Path == Seq(Nat)

(* A set of naturals that is not empty has a least element.                 *)
LEMMA LeastOf ==
    ASSUME NEW S \in SUBSET Nat, S # {}
    PROVE  \E n \in S : \A m \in S : n <= m
<1> DEFINE R == OpToRel(<, Nat)
<1>1. IsWellFoundedOn(R, Nat)
  BY NatLessThanWellFounded
<1>2. PICK n \in S : \A m \in S : <<m, n>> \notin R
  <2> HIDE DEF R
  <2> QED BY <1>1, WFMin
<1>3. \A m \in S : ~(m < n)
  BY <1>2 DEF OpToRel
<1> QED BY <1>3

(* The first n names of a path.                                             *)
LEMMA PrefixFacts ==
    ASSUME NEW p \in Path, NEW n \in 0 .. Len(p)
    PROVE  /\ SubSeq(p, 1, n) \in Path /\ Len(SubSeq(p, 1, n)) = n
           /\ \A i \in 1 .. n : SubSeq(p, 1, n)[i] = p[i]
<1>1. \A i \in 1 .. n : p[i] \in Nat
  BY DEF Path
<1> QED BY <1>1, SubSeqProperties DEF Path

(* Two paths are the same when their names are.                             *)
LEMMA SamePath ==
    ASSUME NEW p \in Path, NEW q \in Path, Len(p) = Len(q),
           \A i \in 1 .. Len(p) : p[i] = q[i]
    PROVE  p = q
BY SeqEqual DEF Path

(* Under: longer, and beginning with the same names.                        *)
LEMMA UnderMeans ==
    ASSUME NEW b \in Path, NEW p \in Path
    PROVE  Under(b, p) <=> Len(b) < Len(p) /\ \A i \in 1 .. Len(b) : p[i] = b[i]
<1>1. Len(b) \in Nat /\ Len(p) \in Nat
  BY DEF Path
<1>2. ASSUME Len(b) < Len(p)
      PROVE  SubSeq(p, 1, Len(b)) = b <=> \A i \in 1 .. Len(b) : p[i] = b[i]
  <2>1. Len(b) \in 0 .. Len(p)
    BY <1>1, <1>2
  <2>2. /\ SubSeq(p, 1, Len(b)) \in Path /\ Len(SubSeq(p, 1, Len(b))) = Len(b)
        /\ \A i \in 1 .. Len(b) : SubSeq(p, 1, Len(b))[i] = p[i]
    BY <2>1, PrefixFacts
  <2>3. ASSUME \A i \in 1 .. Len(b) : p[i] = b[i]
        PROVE  SubSeq(p, 1, Len(b)) = b
    <3>1. \A i \in 1 .. Len(SubSeq(p, 1, Len(b))) : SubSeq(p, 1, Len(b))[i] = b[i]
      BY <2>2, <2>3
    <3> QED BY <2>2, <3>1, SamePath
  <2> QED BY <2>2, <2>3
<1> QED BY <1>2 DEF Under

(* A child is what is under its parent, one name longer.                    *)
LEMMA ParentMeans ==
    ASSUME NEW b \in Path, NEW p \in Path, p # << >>
    PROVE  Parent(p) = b <=> Under(b, p) /\ Len(p) = Len(b) + 1
<1>1. Len(b) \in Nat /\ Len(p) \in Nat \ {0}
  BY EmptySeq DEF Path
<1>2. Len(p) - 1 \in 0 .. Len(p)
  BY <1>1
<1>3. Len(SubSeq(p, 1, Len(p) - 1)) = Len(p) - 1
  BY <1>2, PrefixFacts
<1>4. ASSUME Len(b) = Len(p) - 1
      PROVE  Parent(p) = b <=> Under(b, p)
  BY <1>1, <1>4 DEF Parent, Under
<1>5. ASSUME Parent(p) = b
      PROVE  Len(b) = Len(p) - 1
  BY <1>3, <1>5 DEF Parent
<1> QED BY <1>1, <1>4, <1>5

(* The paths above one are what it is under.                                *)
LEMMA AboveMeans ==
    ASSUME NEW p \in Path
    PROVE  /\ \A q \in Above(p) : q \in Path \ {<< >>} /\ Under(q, p)
           /\ \A q \in Path \ {<< >>} : Under(q, p) => q \in Above(p)
           /\ IsFiniteSet(Above(p))
<1>1. Len(p) \in Nat
  BY DEF Path
<1>2. \A n \in 1 .. Len(p) - 1 :
         SubSeq(p, 1, n) \in Path /\ Len(SubSeq(p, 1, n)) = n /\ n < Len(p) /\ n # 0
  <2> SUFFICES ASSUME NEW n \in 1 .. Len(p) - 1
               PROVE  SubSeq(p, 1, n) \in Path /\ Len(SubSeq(p, 1, n)) = n /\ n < Len(p) /\ n # 0
    OBVIOUS
  <2>1. n \in 0 .. Len(p) /\ n < Len(p) /\ n # 0
    BY <1>1
  <2> QED BY <2>1, PrefixFacts
<1>3. \A q \in Above(p) : q \in Path \ {<< >>} /\ Under(q, p)
  BY <1>2, EmptySeq DEF Above, Under
<1>4. ASSUME NEW q \in Path \ {<< >>}, Under(q, p)
      PROVE  q \in Above(p)
  <2>1. Len(q) \in 1 .. Len(p) - 1
    BY <1>1, <1>4, EmptySeq DEF Path, Under
  <2> QED BY <1>4, <2>1 DEF Above, Under
<1>5. IsFiniteSet(Above(p))
  <2> DEFINE f == [n \in 1 .. Len(p) - 1 |-> SubSeq(p, 1, n)]
  <2>1. f \in Surjection(1 .. Len(p) - 1, Above(p))
    BY DEF Surjection, Above
  <2>2. IsFiniteSet(1 .. Len(p) - 1)
    BY <1>1, FS_Interval
  <2> HIDE DEF f
  <2> QED BY <2>1, <2>2, FS_Surjection
<1> QED BY <1>3, <1>4, <1>5

(* The first name in which two paths differ.                                *)
Differ(p, q, n) ==
    /\ n \in 1 .. Len(p) /\ n \in 1 .. Len(q)
    /\ p[n] < q[n] /\ \A m \in 1 .. n - 1 : p[m] = q[m]

(* Before: a path comes before what is under it, and else the first name in *)
(* which two paths differ decides.                                          *)
LEMMA BeforeMeans ==
    ASSUME NEW p \in Path, NEW q \in Path
    PROVE  Before(p, q) <=> Under(p, q) \/ \E n \in Nat : Differ(p, q, n)
<1>1. Len(p) \in Nat /\ Len(q) \in Nat
  BY DEF Path
<1> QED BY <1>1 DEF Before, Differ

(* Of three paths the first comes before the last.                          *)
LEMMA BeforeTransitive ==
    ASSUME NEW p \in Path, NEW q \in Path, NEW r \in Path, Before(p, q), Before(q, r)
    PROVE  Before(p, r)
<1>1. /\ Len(p) \in Nat /\ Len(q) \in Nat /\ Len(r) \in Nat
      /\ \A i \in 1 .. Len(p) : p[i] \in Nat
      /\ \A i \in 1 .. Len(q) : q[i] \in Nat
      /\ \A i \in 1 .. Len(r) : r[i] \in Nat
  BY ElementOfSeq DEF Path
<1>2. CASE Under(p, q) /\ Under(q, r)
  <2>1. Under(p, r)
    BY <1>1, <1>2, UnderMeans
  <2> QED BY <2>1, BeforeMeans
<1>3. ASSUME Under(p, q), NEW n \in Nat, Differ(q, r, n)
      PROVE  Before(p, r)
  <2>1. Len(p) < Len(q) /\ \A i \in 1 .. Len(p) : q[i] = p[i]
    BY <1>3, UnderMeans
  <2>2. CASE n <= Len(p)
    <3>1. Differ(p, r, n)
      BY <1>1, <1>3, <2>1, <2>2 DEF Differ
    <3> QED BY <3>1, BeforeMeans
  <2>3. CASE ~(n <= Len(p))
    <3>1. Len(p) < Len(r) /\ \A i \in 1 .. Len(p) : r[i] = p[i]
      BY <1>1, <1>3, <2>1, <2>3 DEF Differ
    <3> QED BY <3>1, BeforeMeans, UnderMeans
  <2> QED BY <2>2, <2>3
<1>4. ASSUME NEW n \in Nat, Differ(p, q, n), Under(q, r)
      PROVE  Before(p, r)
  <2>1. Len(q) < Len(r) /\ \A i \in 1 .. Len(q) : r[i] = q[i]
    BY <1>4, UnderMeans
  <2>2. Differ(p, r, n)
    BY <1>1, <1>4, <2>1 DEF Differ
  <2> QED BY <2>2, BeforeMeans
<1>5. ASSUME NEW n \in Nat, Differ(p, q, n), NEW m \in Nat, Differ(q, r, m)
      PROVE  Before(p, r)
  <2>1. CASE n <= m
    <3>1. Differ(p, r, n)
      BY <1>1, <1>5, <2>1 DEF Differ
    <3> QED BY <3>1, BeforeMeans
  <2>2. CASE m < n
    <3>1. Differ(p, r, m)
      BY <1>1, <1>5, <2>2 DEF Differ
    <3> QED BY <3>1, BeforeMeans
  <2> QED BY <2>1, <2>2
<1> QED BY <1>2, <1>3, <1>4, <1>5, BeforeMeans

(* No path comes before itself, and of two one comes before the other.      *)
LEMMA BeforeTotal ==
    ASSUME NEW p \in Path, NEW q \in Path
    PROVE  ~Before(p, p) /\ (p = q \/ Before(p, q) \/ Before(q, p))
<1>1. /\ Len(p) \in Nat /\ Len(q) \in Nat
      /\ \A i \in 1 .. Len(p) : p[i] \in Nat
      /\ \A i \in 1 .. Len(q) : q[i] \in Nat
  BY ElementOfSeq DEF Path
<1>2. ~Before(p, p)
  BY <1>1, BeforeMeans DEF Under, Differ
<1>3. CASE \A i \in Nat : i \in 1 .. Len(p) /\ i \in 1 .. Len(q) => p[i] = q[i]
  <2>1. CASE Len(p) = Len(q)
    <3>1. p = q
      BY <1>1, <1>3, <2>1, SamePath
    <3> QED BY <1>2, <3>1
  <2>2. CASE Len(p) < Len(q)
    <3>1. Under(p, q)
      BY <1>1, <1>3, <2>2, UnderMeans
    <3> QED BY <1>2, <3>1, BeforeMeans
  <2>3. CASE Len(q) < Len(p)
    <3>1. Under(q, p)
      BY <1>1, <1>3, <2>3, UnderMeans
    <3> QED BY <1>2, <3>1, BeforeMeans
  <2> QED BY <1>1, <2>1, <2>2, <2>3
<1>4. CASE ~\A i \in Nat : i \in 1 .. Len(p) /\ i \in 1 .. Len(q) => p[i] = q[i]
  <2> DEFINE D == {i \in Nat : i \in 1 .. Len(p) /\ i \in 1 .. Len(q) /\ p[i] # q[i]}
  <2>1. D \in SUBSET Nat /\ D # {}
    BY <1>4
  <2>2. PICK n \in D : \A m \in D : n <= m
    <3> HIDE DEF D
    <3> QED BY <2>1, LeastOf
  <2>3. n \in Nat /\ n \in 1 .. Len(p) /\ n \in 1 .. Len(q) /\ p[n] # q[n]
    BY <2>2
  <2>4. \A m \in 1 .. n - 1 : p[m] = q[m]
    <3> SUFFICES ASSUME NEW m \in 1 .. n - 1, p[m] # q[m] PROVE FALSE
      OBVIOUS
    <3>1. m \in D /\ m < n
      BY <1>1, <2>3
    <3> QED BY <2>2, <2>3, <3>1
  <2>5. Differ(p, q, n) \/ Differ(q, p, n)
    BY <1>1, <2>3, <2>4 DEF Differ
  <2> QED BY <1>2, <2>3, <2>5, BeforeMeans
<1> QED BY <1>3, <1>4

-----------------------------------------------------------------------------
(* What the recursion of _walk returns.                                     *)
Children(b) == {p \in files \cup dirs : Parent(p) = b}

Levels(f, d, b) ==
    IF d > 1 THEN Children(b) \cup UNION {f[d - 1][p] : p \in Children(b) \cap dirs}
    ELSE Children(b)

IsBelow(f) == f = [d \in Nat |-> [b \in dirs \cup {<< >>} |-> Levels(f, d, b)]]

Reach(d) == IF d > 1 THEN d ELSE 1

(* What is under a directory, to a depth.                                   *)
Within(d, b) == {p \in files \cup dirs : Under(b, p) /\ Len(p) <= Len(b) + Reach(d)}

(* The tree holds the directories above its files and directories, and      *)
(* nothing is both.                                                         *)
Tree ==
    /\ files \subseteq Paths /\ dirs \subseteq Paths
    /\ IsFiniteSet(files) /\ IsFiniteSet(dirs)
    /\ files \cap dirs = {}
    /\ \A p \in files \cup dirs : Above(p) \subseteq dirs
    /\ walk \in Walks /\ walk.root \in dirs \cup {<< >>}

(* The paths of a tree are paths that are not the root.                     *)
LEMMA TreePaths ==
    ASSUME Tree
    PROVE  /\ \A p \in files \cup dirs : p \in Path /\ p # << >> /\ Len(p) \in Nat \ {0}
           /\ \A b \in dirs \cup {<< >>} : b \in Path /\ Len(b) \in Nat
<1>1. \A p \in Paths : p \in Path /\ p # << >>
  BY ListingTyped DEF Path
<1>2. << >> \in Path /\ Len(<< >>) = 0
  BY EmptySeq DEF Path
<1>3. \A p \in Path : Len(p) \in Nat /\ (p # << >> => Len(p) # 0)
  BY EmptySeq DEF Path
<1> QED BY <1>1, <1>2, <1>3 DEF Tree

(* One level is the children.                                               *)
LEMMA WithinOneLevel ==
    ASSUME Tree, NEW b \in dirs \cup {<< >>}, NEW d \in Nat, ~(d > 1)
    PROVE  Within(d, b) = Children(b)
<1>1. \A p \in files \cup dirs : Parent(p) = b <=> Under(b, p) /\ Len(p) = Len(b) + 1
  BY TreePaths, ParentMeans
<1>2. \A p \in files \cup dirs :
         Under(b, p) => (Len(p) <= Len(b) + Reach(d) <=> Len(p) = Len(b) + 1)
  BY TreePaths DEF Under, Reach
<1> QED BY <1>1, <1>2 DEF Within, Children

(* More levels are the children, and one level less under each of them.     *)
LEMMA WithinMoreLevels ==
    ASSUME Tree, NEW b \in dirs \cup {<< >>}, NEW d \in Nat, d > 1
    PROVE  Within(d, b) = Children(b) \cup UNION {Within(d - 1, q) : q \in Children(b) \cap dirs}
<1>1. \A p \in files \cup dirs : Parent(p) = b <=> Under(b, p) /\ Len(p) = Len(b) + 1
  BY TreePaths, ParentMeans
<1>2. Reach(d) = d /\ Reach(d - 1) = d - 1 /\ d - 1 \in Nat
  BY DEF Reach
<1>3. ASSUME NEW p \in Within(d, b), p \notin Children(b)
      PROVE  \E q \in Children(b) \cap dirs : p \in Within(d - 1, q)
  <2>1. /\ p \in files \cup dirs /\ Under(b, p) /\ Len(p) <= Len(b) + d
        /\ p \in Path /\ b \in Path /\ Len(p) \in Nat /\ Len(b) \in Nat
    BY <1>2, TreePaths DEF Within
  <2>2. Len(b) < Len(p) /\ Len(p) # Len(b) + 1
    BY <1>1, <1>3, <2>1 DEF Under, Children
  <2> DEFINE q == SubSeq(p, 1, Len(b) + 1)
  <2>3. Len(b) + 1 \in 1 .. Len(p) - 1 /\ Len(b) + 1 \in 0 .. Len(p)
    BY <2>1, <2>2
  <2>4. q \in Above(p)
    BY <2>3 DEF Above
  <2>5. q \in dirs
    BY <2>1, <2>4 DEF Tree
  <2>6. /\ q \in Path /\ Len(q) = Len(b) + 1
        /\ \A i \in 1 .. Len(b) + 1 : q[i] = p[i]
    BY <2>1, <2>3, PrefixFacts
  <2>7. Len(b) < Len(p) /\ \A i \in 1 .. Len(b) : p[i] = b[i]
    BY <2>1, UnderMeans
  <2> HIDE DEF q
  <2>8. Under(b, q)
    BY <2>1, <2>6, <2>7, UnderMeans
  <2>9. Under(q, p)
    BY <2>1, <2>3, <2>6, UnderMeans
  <2>10. q \in Children(b)
    BY <1>1, <2>5, <2>6, <2>8 DEF Children
  <2>11. Len(p) <= Len(q) + (d - 1)
    BY <2>1, <2>6
  <2> QED BY <1>2, <2>1, <2>5, <2>9, <2>10, <2>11 DEF Within
<1>4. ASSUME NEW q \in Children(b) \cap dirs, NEW p \in Within(d - 1, q)
      PROVE  p \in Within(d, b)
  <2>1. Under(b, q) /\ Len(q) = Len(b) + 1
    BY <1>1, <1>4 DEF Children
  <2>2. /\ p \in files \cup dirs /\ Under(q, p) /\ Len(p) <= Len(q) + (d - 1)
        /\ p \in Path /\ q \in Path /\ b \in Path
        /\ Len(p) \in Nat /\ Len(q) \in Nat /\ Len(b) \in Nat
    BY <1>2, TreePaths DEF Within
  <2>3. Under(b, p)
    BY <2>1, <2>2, UnderMeans
  <2>4. Len(p) <= Len(b) + d
    BY <2>1, <2>2
  <2> QED BY <1>2, <2>2, <2>3, <2>4 DEF Within
<1>5. ASSUME NEW p \in Children(b)
      PROVE  p \in Within(d, b)
  <2>1. p \in files \cup dirs /\ Under(b, p) /\ Len(p) = Len(b) + 1
    BY <1>1 DEF Children
  <2>2. Len(b) + 1 <= Len(b) + d
    BY TreePaths
  <2> QED BY <1>2, <2>1, <2>2 DEF Within
<1> QED BY <1>3, <1>4, <1>5

(* The equation of below has a solution,                                    *)
LEMMA BelowExists ==
    ASSUME Tree
    PROVE  IsBelow([d \in Nat |-> [b \in dirs \cup {<< >>} |-> Within(d, b)]])
<1> DEFINE g == [d \in Nat |-> [b \in dirs \cup {<< >>} |-> Within(d, b)]]
<1>1. \A d \in Nat, b \in dirs \cup {<< >>} : g[d][b] = Within(d, b)
  OBVIOUS
<1>2. ASSUME NEW d \in Nat, NEW b \in dirs \cup {<< >>}
      PROVE  Within(d, b) = Levels(g, d, b)
  <2> HIDE DEF g
  <2>1. CASE d > 1
    <3>1. d - 1 \in Nat
      BY <2>1
    <3>2. \A q \in Children(b) \cap dirs : g[d - 1][q] = Within(d - 1, q)
      BY <1>1, <3>1
    <3>3. {g[d - 1][q] : q \in Children(b) \cap dirs} = {Within(d - 1, q) : q \in Children(b) \cap dirs}
      BY <3>2
    <3> QED BY <2>1, <3>3, WithinMoreLevels DEF Levels
  <2>2. CASE ~(d > 1)
    BY <2>2, WithinOneLevel DEF Levels
  <2> QED BY <2>1, <2>2
<1>3. g = [d \in Nat |-> [b \in dirs \cup {<< >>} |-> Levels(g, d, b)]]
  BY <1>2
<1> HIDE DEF g
<1>4. IsBelow(g)
  BY <1>3 DEF IsBelow
<1> QED BY <1>4 DEF g

(* ... and only one: where two differed they would differ one level less.   *)
LEMMA BelowIsWithin ==
    ASSUME Tree, NEW f, IsBelow(f)
    PROVE  \A d \in Nat, b \in dirs \cup {<< >>} : f[d][b] = Within(d, b)
<1>1. \A d \in Nat, b \in dirs \cup {<< >>} : f[d][b] = Levels(f, d, b)
  BY DEF IsBelow
<1> DEFINE D == {d \in Nat : \E b \in dirs \cup {<< >>} : f[d][b] # Within(d, b)}
<1> SUFFICES ASSUME D # {} PROVE FALSE
  OBVIOUS
<1>2. PICK d \in D : \A c \in D : d <= c
  <2>1. D \in SUBSET Nat
    OBVIOUS
  <2> HIDE DEF D
  <2> QED BY <2>1, LeastOf
<1>3. PICK b \in dirs \cup {<< >>} : f[d][b] # Within(d, b)
  BY <1>2
<1>4. d \in Nat
  BY <1>2
<1>5. CASE d > 1
  <2>1. d - 1 \in Nat /\ d - 1 \notin D
    BY <1>2, <1>4, <1>5
  <2>2. \A q \in Children(b) \cap dirs : f[d - 1][q] = Within(d - 1, q)
    BY <2>1
  <2>3. {f[d - 1][q] : q \in Children(b) \cap dirs} = {Within(d - 1, q) : q \in Children(b) \cap dirs}
    BY <2>2
  <2> QED BY <1>1, <1>3, <1>4, <1>5, <2>3, WithinMoreLevels DEF Levels
<1>6. CASE ~(d > 1)
  BY <1>1, <1>3, <1>4, <1>6, WithinOneLevel DEF Levels
<1> QED BY <1>5, <1>6

(* The walk of a tree is what is under its root, to the depth asked for.    *)
LEMMA WalkIsWithin ==
    ASSUME Tree
    PROVE  Walk = Within(walk.depth, walk.root)
<1> DEFINE below == CHOOSE f : IsBelow(f)
<1>1. Walk = below[walk.depth][walk.root]
  BY DEF Walk, IsBelow, Levels, Children
<1>2. IsBelow(below)
  BY BelowExists, Zenon
<1>3. walk.depth \in Nat /\ walk.root \in dirs \cup {<< >>}
  BY ListingTyped DEF Tree
<1> HIDE DEF below
<1> QED BY <1>1, <1>2, <1>3, BelowIsWithin

-----------------------------------------------------------------------------
(* A page of the tree.                                                      *)
ByPath == {pq \in Paths \X Paths : Before(pq[1], pq[2])}

(* Before orders the paths there may be.                                    *)
LEMMA ByPathOrders ==
    ASSUME NEW S \in SUBSET Paths
    PROVE  /\ StrictOrder(S, ByPath)
           /\ \A p, q \in S : <<p, q>> \in ByPath <=> Before(p, q)
           /\ \A p \in S : Earlier(S, ByPath, p) = {q \in S : Before(q, p)}
<1>1. \A p \in Paths : p \in Path
  BY ListingTyped DEF Path
<1>2. \A p, q \in S : <<p, q>> \in ByPath <=> Before(p, q)
  BY DEF ByPath
<1>3. StrictOrder(S, ByPath)
  <2> HIDE DEF ByPath
  <2>1. \A p \in S : <<p, p>> \notin ByPath
    BY <1>1, <1>2, BeforeTotal
  <2>2. \A p, q \in S : p = q \/ <<p, q>> \in ByPath \/ <<q, p>> \in ByPath
    BY <1>1, <1>2, BeforeTotal
  <2>3. \A p, q, r \in S : <<p, q>> \in ByPath /\ <<q, r>> \in ByPath => <<p, r>> \in ByPath
    BY <1>1, <1>2, BeforeTransitive
  <2> QED BY <2>1, <2>2, <2>3 DEF StrictOrder
<1>4. \A p \in S : Earlier(S, ByPath, p) = {q \in S : Before(q, p)}
  <2> HIDE DEF ByPath
  <2> QED BY <1>2 DEF Earlier
<1> QED BY <1>2, <1>3, <1>4

(* What a request finds is what is there and in reach of the walk.          *)
LEMMA EntriesInReach ==
    ASSUME Tree
    PROVE  Entries = {p \in files \cup dirs : InReach(p)}
<1>1. walk.depth \in Nat /\ walk.root \in dirs \cup {<< >>}
  BY ListingTyped DEF Tree
<1>2. CASE walk.depth = 0
  <2>1. << >> \notin files \cup dirs
    BY TreePaths
  <2> QED BY <1>1, <1>2, <2>1 DEF Entries, InReach
<1>3. CASE walk.depth # 0
  <2>1. Reach(walk.depth) = walk.depth
    BY <1>1, <1>3 DEF Reach
  <2> QED BY <1>3, <2>1, WalkIsWithin DEF Entries, InReach, Within
<1> QED BY <1>2, <1>3

(* A page holds what comes after the cursor, up to the next cursor: its     *)
(* last entry, or everything that is left.                                  *)
LEMMA PageFacts ==
    ASSUME Tree
    PROVE  /\ Remaining \in SUBSET Paths /\ IsFiniteSet(Remaining) /\ Page \subseteq Remaining
           /\ Remaining = {p \in files \cup dirs : InReach(p) /\ Before(cursor, p)}
           /\ Cardinality(Remaining) <= walk.page => Page = Remaining
           /\ NextCursor = End => Page = Remaining
           /\ NextCursor # End =>
                 /\ NextCursor \in Page
                 /\ \A p \in Remaining : p \in Page <=> p = NextCursor \/ Before(p, NextCursor)
<1> DEFINE R == Remaining
<1>1. R = {p \in files \cup dirs : InReach(p) /\ Before(cursor, p)}
  BY EntriesInReach DEF Remaining
<1>2. R \in SUBSET Paths /\ IsFiniteSet(R)
  <2>1. R \in SUBSET (files \cup dirs)
    BY <1>1
  <2>2. IsFiniteSet(files \cup dirs)
    BY FS_Union DEF Tree
  <2> HIDE DEF R
  <2> QED BY <2>1, <2>2, FS_Subset DEF Tree
<1>3. walk.page \in Nat \ {0}
  BY ListingTyped DEF Tree
<1>4. Page = Cut(R, ByPath, walk.page)
  <2>1. \A p \in R : Earlier(R, ByPath, p) = {q \in R : Before(q, p)}
    <3> HIDE DEF R
    <3> QED BY <1>2, ByPathOrders
  <2> QED BY <2>1, Zenon DEF Cut, Page
<1>5. /\ Page \subseteq R
      /\ \A p \in Page, q \in R : Before(q, p) => q \in Page
      /\ Cardinality(R) <= walk.page => Page = R
      /\ R # {} => Page # {}
  <2> HIDE DEF R
  <2>1. \A p, q \in R : <<p, q>> \in ByPath <=> Before(p, q)
    BY <1>2, ByPathOrders
  <2>2. /\ Page \subseteq R
        /\ \A p \in Page, q \in R : <<q, p>> \in ByPath => q \in Page
        /\ Cardinality(R) <= walk.page => Page = R
        /\ R # {} => Page # {}
    BY <1>2, <1>3, <1>4, ByPathOrders, CutFacts
  <2> QED BY <2>1, <2>2
<1>6. CASE R = Page
  <2>1. NextCursor = End
    BY <1>6 DEF NextCursor
  <2> HIDE DEF R
  <2> QED BY <1>1, <1>2, <1>5, <1>6, <2>1 DEF R
<1>7. CASE R # Page
  <2> HIDE DEF R
  <2>1. Page \in SUBSET Paths /\ Page # {}
    BY <1>2, <1>5, <1>7
  <2>2. IsFiniteSet(Page)
    BY <1>2, <1>5, FS_Subset
  <2>3. PICK p \in Page : \A q \in Page : q = p \/ <<q, p>> \in ByPath
    BY <2>1, <2>2, ByPathOrders, LastExists
  <2>4. \A q \in Page : q = p \/ Before(q, p)
    BY <2>1, <2>3, ByPathOrders
  <2>5. Last(Page) \in Page /\ \A q \in Page : q = Last(Page) \/ Before(q, Last(Page))
    BY <2>4 DEF Last
  <2>6. NextCursor = Last(Page)
    BY <1>7 DEF NextCursor, R
  <2>7. NextCursor # End
    BY <2>1, <2>5, <2>6, ListingTyped
  <2> QED BY <1>1, <1>2, <1>5, <2>5, <2>6, <2>7 DEF R
<1> QED BY <1>6, <1>7

-----------------------------------------------------------------------------
(* Others write and delete: directories stay, and what is there before and  *)
(* after is the file or the directory it was.                               *)
TreeChanges ==
    /\ Tree' /\ dirs \subseteq dirs'
    /\ \A q \in (files \cup dirs) \cap (files' \cup dirs') :
          (q \in dirs' <=> q \in dirs) /\ (q \in files' <=> q \in files)

(* The directories above a path that may come to be may come to be.         *)
LEMMA AboveInPaths ==
    ASSUME NEW p \in Paths
    PROVE  p \in Path \ {<< >>} /\ Above(p) \subseteq Paths
<1>1. p \in Path \ {<< >>} /\ \A n \in 1 .. Len(p) : SubSeq(p, 1, n) \in Paths
  BY ListingTyped DEF Path
<1>2. Len(p) \in Nat
  BY <1>1 DEF Path
<1>3. \A n \in 1 .. Len(p) - 1 : n \in 1 .. Len(p)
  BY <1>2
<1> QED BY <1>1, <1>3 DEF Above

(* A new file comes with the directories above it.                          *)
LEMMA CreateChanges ==
    ASSUME Tree, NEW p \in Paths, Create(p), walk' = walk
    PROVE  TreeChanges
<1>1. p \in Path /\ p # << >> /\ Above(p) \subseteq Paths
  BY AboveInPaths
<1>2. /\ p \notin files \cup dirs /\ Above(p) \cap files = {}
      /\ files' = files \cup {p} /\ dirs' = dirs \cup Above(p)
  BY DEF Create
<1>3. /\ \A q \in Above(p) : q \in Path \ {<< >>} /\ Under(q, p)
      /\ \A q \in Path \ {<< >>} : Under(q, p) => q \in Above(p)
      /\ IsFiniteSet(Above(p))
  BY <1>1, AboveMeans
<1>4. p \notin Above(p)
  BY <1>1, <1>3, UnderMeans DEF Path
<1>5. IsFiniteSet(files') /\ IsFiniteSet(dirs')
  BY <1>2, <1>3, FS_AddElement, FS_Union DEF Tree
<1>6. ASSUME NEW q \in Above(p), NEW r \in Above(q)
      PROVE  r \in Above(p)
  <2>1. q \in Path /\ r \in Path \ {<< >>} /\ Under(r, q) /\ Under(q, p)
    BY <1>3, AboveMeans
  <2>2. Len(p) \in Nat /\ Len(q) \in Nat /\ Len(r) \in Nat
    BY <1>1, <2>1 DEF Path
  <2>3. Under(r, p)
    BY <1>1, <2>1, <2>2, UnderMeans
  <2> QED BY <1>3, <2>1, <2>3
<1>7. \A q \in files' \cup dirs' : Above(q) \subseteq dirs'
  <2> SUFFICES ASSUME NEW q \in files' \cup dirs', NEW r \in Above(q) PROVE r \in dirs'
    OBVIOUS
  <2>1. q \in files \cup dirs \/ q = p \/ q \in Above(p)
    BY <1>2
  <2> QED BY <1>2, <1>6, <2>1 DEF Tree
<1>8. files' \cap dirs' = {}
  BY <1>2, <1>4 DEF Tree
<1>9. Tree'
  BY <1>1, <1>2, <1>5, <1>7, <1>8 DEF Tree
<1>10. \A q \in files \cup dirs : (q \in dirs' <=> q \in dirs) /\ (q \in files' <=> q \in files)
  BY <1>2
<1> QED BY <1>2, <1>9, <1>10 DEF TreeChanges

(* A file that is deleted leaves its directories.                           *)
LEMMA RemoveChanges ==
    ASSUME Tree, NEW p \in Paths, Remove(p), walk' = walk
    PROVE  TreeChanges
<1>1. p \in files /\ files' = files \ {p} /\ dirs' = dirs
  BY DEF Remove
<1>2. IsFiniteSet(files')
  BY <1>1, FS_RemoveElement DEF Tree
<1> QED BY <1>1, <1>2 DEF Tree, TreeChanges

-----------------------------------------------------------------------------
(* What holds at every moment of a walk through the tree: everything up to  *)
(* the cursor that was there all the time has been shown if it may be, and  *)
(* what has been shown, once, lies up to the cursor.                        *)
MayShow(p) == p \in dirs \/ p \notin Hidden

Passed(p) == cursor = End \/ p = cursor \/ Before(p, cursor)

ListingInv ==
    /\ Tree
    /\ cursor \in Paths \cup {Start, End}
    /\ kept \subseteq files \cup dirs
    /\ shown \in [Paths -> Nat]
    /\ \A p \in Paths :
          shown[p] <= 1 /\ (shown[p] = 1 => InReach(p) /\ MayShow(p) /\ Passed(p))
    /\ \A p \in kept : InReach(p) /\ MayShow(p) /\ Passed(p) => shown[p] = 1

(* Before the first page nothing has been passed.                           *)
LEMMA NothingPassed ==
    ASSUME cursor = Start
    PROVE  \A p \in Paths : ~Passed(p)
<1> SUFFICES ASSUME NEW p \in Paths PROVE ~Passed(p)
  OBVIOUS
<1>1. p \in Path /\ p # << >> /\ Start \in Path /\ Len(Start) = 0 /\ cursor # End
  BY ListingTyped, EmptySeq DEF Path, Start
<1>2. Len(p) \in Nat
  BY <1>1 DEF Path
<1>3. ~Before(p, Start)
  BY <1>1, <1>2, BeforeMeans DEF Under, Differ
<1> QED BY <1>1, <1>3 DEF Passed, Start

(* The walk begins with a tree of its root and what is above it.            *)
LEMMA ListingInvInit == Init => ListingInv
<1> SUFFICES ASSUME Init PROVE ListingInv
  OBVIOUS
<1>1. /\ walk \in Walks /\ files = {} /\ dirs = Above(walk.root) \cup ({walk.root} \ {<< >>})
      /\ cursor = Start /\ shown = [p \in Paths |-> 0] /\ kept = dirs
  BY DEF Init
<1>2. walk.root \in Path /\ walk.root \in Paths \cup {<< >>}
  BY <1>1, ListingTyped, EmptySeq DEF Path
<1>3. /\ \A q \in Above(walk.root) : q \in Path \ {<< >>} /\ Under(q, walk.root)
      /\ \A q \in Path \ {<< >>} : Under(q, walk.root) => q \in Above(walk.root)
      /\ IsFiniteSet(Above(walk.root))
  BY <1>2, AboveMeans
<1>4. IsFiniteSet(dirs) /\ IsFiniteSet(files)
  <2>1. IsFiniteSet(Above(walk.root) \cup {walk.root})
    BY <1>3, FS_AddElement
  <2>2. dirs \in SUBSET (Above(walk.root) \cup {walk.root})
    BY <1>1
  <2> QED BY <1>1, <2>1, <2>2, FS_Subset, FS_EmptySet
<1>5. Above(walk.root) \subseteq Paths
  <2>1. CASE walk.root \in Paths
    BY <2>1, AboveInPaths
  <2>2. CASE walk.root = << >>
    BY <2>2, EmptySeq DEF Above
  <2> QED BY <1>2, <2>1, <2>2
<1>6. \A p \in dirs : Above(p) \subseteq dirs
  <2> SUFFICES ASSUME NEW p \in dirs, NEW r \in Above(p) PROVE r \in Above(walk.root)
    BY <1>1
  <2>1. CASE p = walk.root
    BY <2>1
  <2>2. CASE p \in Above(walk.root)
    <3>1. p \in Path /\ Under(p, walk.root) /\ r \in Path \ {<< >>} /\ Under(r, p)
      BY <1>3, <2>2, AboveMeans
    <3>2. Len(p) \in Nat /\ Len(r) \in Nat /\ Len(walk.root) \in Nat
      BY <1>2, <3>1 DEF Path
    <3>3. Under(r, walk.root)
      BY <1>2, <3>1, <3>2, UnderMeans
    <3> QED BY <1>3, <3>1, <3>3
  <2> QED BY <1>1, <2>1, <2>2
<1>7. Tree
  BY <1>1, <1>2, <1>4, <1>5, <1>6 DEF Tree
<1>8. \A p \in Paths : ~Passed(p)
  BY <1>1, NothingPassed
<1> QED BY <1>1, <1>7, <1>8 DEF ListingInv, Tree

(* Writing and deleting disturb neither what was shown nor what is left:    *)
(* what is there all the time stays what it was.                            *)
LEMMA ListingInvChanges ==
    ASSUME ListingInv, TreeChanges, UNCHANGED <<walk, cursor, shown>>,
           kept' \subseteq files' \cup dirs',
           cursor = Start \/ kept' = kept \cap (files' \cup dirs')
    PROVE  ListingInv'
<1>1. \A p \in Paths : /\ InReach(p)' <=> InReach(p)
                       /\ Passed(p)' <=> Passed(p)
                       /\ MayShow(p) => MayShow(p)'
  BY DEF InReach, Passed, MayShow, TreeChanges
<1>2. Tree' /\ kept' \subseteq Paths
  BY DEF TreeChanges, Tree
<1>3. ASSUME NEW p \in kept', InReach(p)', MayShow(p)', Passed(p)'
      PROVE  shown'[p] = 1
  <2>1. p \in Paths /\ InReach(p) /\ Passed(p)
    BY <1>1, <1>2, <1>3
  <2>2. cursor # Start
    BY <2>1, NothingPassed
  <2>3. p \in kept /\ p \in (files \cup dirs) \cap (files' \cup dirs')
    BY <2>2 DEF ListingInv
  <2>4. MayShow(p)
    BY <1>3, <2>3 DEF MayShow, TreeChanges
  <2> QED BY <2>1, <2>3, <2>4 DEF ListingInv
<1> QED BY <1>1, <1>2, <1>3 DEF ListingInv

(* A page shows what lies between the cursors, and moves on.                *)
LEMMA ListingInvFetch ==
    ASSUME ListingInv, Fetch
    PROVE  ListingInv'
<1>1. /\ cursor # End /\ cursor' = NextCursor /\ UNCHANGED <<walk, files, dirs, kept, changes>>
      /\ shown' = [p \in Paths |-> shown[p] + IF p \in Visible(Page) THEN 1 ELSE 0]
  BY DEF Fetch
<1>2. Tree /\ Tree' /\ shown \in [Paths -> Nat] /\ kept \subseteq files \cup dirs
  BY <1>1 DEF ListingInv, Tree
<1>3. /\ Remaining \in SUBSET Paths /\ Page \subseteq Remaining
      /\ Remaining = {p \in files \cup dirs : InReach(p) /\ Before(cursor, p)}
      /\ NextCursor = End => Page = Remaining
      /\ NextCursor # End =>
            /\ NextCursor \in Page
            /\ \A p \in Remaining : p \in Page <=> p = NextCursor \/ Before(p, NextCursor)
  BY <1>2, PageFacts
<1>4. cursor \in Path /\ \A p \in Paths : p \in Path
  BY <1>1, ListingTyped, EmptySeq DEF ListingInv, Path, Start
<1>5. cursor' \in Paths \cup {Start, End}
  BY <1>1, <1>3
<1>6. \A p \in Page : ~Passed(p) /\ InReach(p) /\ p \in Paths /\ Passed(p)'
  <2> SUFFICES ASSUME NEW p \in Page
               PROVE  ~Passed(p) /\ InReach(p) /\ p \in Paths /\ Passed(p)'
    OBVIOUS
  <2>1. Before(cursor, p) /\ InReach(p) /\ p \in Paths /\ p \in Remaining
    BY <1>3
  <2>2. ~Passed(p)
    BY <1>1, <1>4, <2>1, BeforeTotal, BeforeTransitive DEF Passed
  <2>3. Passed(p)'
    BY <1>1, <1>3, <2>1 DEF Passed
  <2> QED BY <2>1, <2>2, <2>3
<1>7. \A p \in Paths : Passed(p) => Passed(p)'
  <2> SUFFICES ASSUME NEW p \in Paths, Passed(p) PROVE Passed(p)'
    OBVIOUS
  <2>1. CASE NextCursor = End
    BY <1>1, <2>1 DEF Passed
  <2>2. CASE NextCursor # End
    <3>1. NextCursor \in Path /\ Before(cursor, NextCursor)
      BY <1>3, <1>4, <2>2
    <3>2. Before(p, NextCursor)
      BY <1>1, <1>4, <3>1, BeforeTransitive DEF Passed
    <3> QED BY <1>1, <3>2 DEF Passed
  <2> QED BY <2>1, <2>2
<1>8. \A p \in Paths : (InReach(p)' <=> InReach(p)) /\ (MayShow(p)' <=> MayShow(p))
  BY <1>1 DEF InReach, MayShow
<1>9. Visible(Page) = {p \in Page : MayShow(p)}
  BY DEF Visible, MayShow
<1>10. ASSUME NEW p \in Paths
       PROVE  /\ shown'[p] \in Nat /\ shown'[p] <= 1
              /\ shown'[p] = 1 => InReach(p)' /\ MayShow(p)' /\ Passed(p)'
  <2>1. CASE p \in Visible(Page)
    <3>1. shown[p] = 0
      BY <1>2, <1>6, <1>9, <2>1 DEF ListingInv
    <3> QED BY <1>1, <1>6, <1>8, <1>9, <2>1, <3>1
  <2>2. CASE p \notin Visible(Page)
    <3>1. shown'[p] = shown[p]
      BY <1>1, <1>2, <2>2
    <3> QED BY <1>2, <1>7, <1>8, <3>1 DEF ListingInv
  <2> QED BY <2>1, <2>2
<1>11. ASSUME NEW p \in kept, InReach(p), MayShow(p), Passed(p)'
       PROVE  shown'[p] = 1
  <2>1. p \in files \cup dirs /\ p \in Paths /\ p \in Path
    BY <1>2, <1>4 DEF Tree
  <2>2. CASE Passed(p)
    <3>1. p \notin Visible(Page)
      BY <1>6, <1>9, <2>2
    <3>2. shown[p] = 1
      BY <1>11, <2>2 DEF ListingInv
    <3> QED BY <1>1, <1>2, <2>1, <3>1, <3>2
  <2>3. CASE ~Passed(p)
    <3>1. Before(cursor, p)
      BY <1>4, <2>1, <2>3, BeforeTotal DEF Passed
    <3>2. p \in Remaining
      BY <1>3, <1>11, <2>1, <3>1
    <3>3. p \in Page
      BY <1>1, <1>3, <1>11, <3>2 DEF Passed
    <3>4. p \in Visible(Page) /\ shown[p] = 0
      BY <1>2, <1>9, <1>10, <1>11, <2>1, <2>3, <3>3 DEF ListingInv
    <3> QED BY <1>1, <2>1, <3>4
  <2> QED BY <2>2, <2>3
<1>12. shown' \in [Paths -> Nat]
  BY <1>1, <1>10
<1> QED BY <1>1, <1>2, <1>5, <1>8, <1>10, <1>11, <1>12 DEF ListingInv, Tree

(* Write and Delete keep it.                                                *)
LEMMA ListingInvWrites ==
    ASSUME ListingInv, NEW p \in Paths, Write(p) \/ Delete(p)
    PROVE  ListingInv'
<1>1. /\ UNCHANGED <<walk, cursor, shown>>
      /\ kept' = IF Walking THEN kept \cap (files' \cup dirs') ELSE files' \cup dirs'
  BY DEF Write, Delete, Change
<1>2. TreeChanges
  BY <1>1, CreateChanges, RemoveChanges DEF ListingInv, Write, Delete
<1> QED BY <1>1, <1>2, ListingInvChanges DEF Walking

(* It says of every walk what the walk is to show.                          *)
LEMMA ListingInvSays == ListingInv => WalkShowsOnceWhatStayed
<1> SUFFICES ASSUME ListingInv PROVE WalkShowsOnceWhatStayed
  OBVIOUS
<1>1. kept \subseteq Paths
  BY DEF ListingInv, Tree
<1> QED BY <1>1 DEF ListingInv, WalkShowsOnceWhatStayed, Passed, MayShow

(* A client that walks through the listing to its end is shown everything   *)
(* that was there all the time and that it may read, once, and nothing      *)
(* else, whatever is written and deleted between the pages (list_tree).     *)
THEOREM TreeWalkShowsOnceWhatStayed == Spec => []WalkShowsOnceWhatStayed
<1>1. ListingInv /\ [Next]_vars => ListingInv'
  <2> SUFFICES ASSUME ListingInv, [Next]_vars PROVE ListingInv'
    OBVIOUS
  <2>1. CASE Fetch
    BY <2>1, ListingInvFetch
  <2>2. CASE \E p \in Paths : Write(p) \/ Delete(p)
    BY <2>2, ListingInvWrites
  <2>3. CASE UNCHANGED vars
    BY <2>3 DEF vars, ListingInv, Tree, InReach, MayShow, Passed
  <2> QED BY <2>1, <2>2, <2>3 DEF Next
<1> QED BY <1>1, ListingInvInit, ListingInvSays, PTL DEF Spec

-----------------------------------------------------------------------------
(* PROPFIND of a directory.                                                 *)
Members == {p \in Paths : Parent(p) = walk.root}
Small   == Cardinality(Members) <= walk.page

(* The first page are members of the directory; if they fit on it, it holds *)
(* all that are there.                                                      *)
LEMMA FirstPage ==
    ASSUME IsFiniteSet(Paths), Tree, walk.depth = 1, cursor = Start
    PROVE  /\ Page \subseteq files \cup dirs /\ Page \subseteq Paths /\ IsFiniteSet(Page)
           /\ walk.root \notin Page
           /\ Small => \A p \in files \cup dirs : Parent(p) = walk.root => p \in Page
<1>1. walk.root \in Path /\ Len(walk.root) \in Nat
  BY TreePaths DEF Tree
<1>2. \A p \in files \cup dirs : p \in Path /\ p # << >> /\ Len(p) \in Nat \ {0} /\ p \in Paths
  BY TreePaths DEF Tree
<1>3. \A p \in files \cup dirs : InReach(p) <=> Parent(p) = walk.root
  <2>1. \A p \in files \cup dirs :
           Parent(p) = walk.root <=> Under(walk.root, p) /\ Len(p) = Len(walk.root) + 1
    BY <1>1, <1>2, ParentMeans
  <2> QED BY <1>1, <1>2, <2>1 DEF InReach, Under
<1>4. \A p \in files \cup dirs : Before(cursor, p)
  <2>1. Start \in Path /\ Len(Start) = 0
    BY EmptySeq DEF Path, Start
  <2>2. \A p \in files \cup dirs : Under(Start, p)
    BY <1>2, <2>1, UnderMeans
  <2> QED BY <1>2, <2>1, <2>2, BeforeMeans
<1>5. /\ Remaining \in SUBSET Paths /\ IsFiniteSet(Remaining) /\ Page \subseteq Remaining
      /\ Remaining = {p \in files \cup dirs : InReach(p) /\ Before(cursor, p)}
      /\ Cardinality(Remaining) <= walk.page => Page = Remaining
  BY PageFacts
<1>6. Remaining \in SUBSET Members /\ \A p \in files \cup dirs : Parent(p) = walk.root => p \in Remaining
  BY <1>2, <1>3, <1>4, <1>5 DEF Members
<1>7. ASSUME Small
      PROVE  Page = Remaining
  <2>1. Members \in SUBSET Paths
    BY DEF Members
  <2>2. IsFiniteSet(Members)
    BY <2>1, FS_Subset
  <2>3. Cardinality(Remaining) <= Cardinality(Members)
    BY <1>6, <2>2, FS_Subset
  <2>4. Cardinality(Remaining) \in Nat /\ Cardinality(Members) \in Nat /\ walk.page \in Nat
    BY <1>5, <2>2, FS_CardinalityType, ListingTyped DEF Tree
  <2> QED BY <1>5, <1>7, <2>3, <2>4 DEF Small
<1>8. walk.root \notin Page
  <2>1. ~Under(walk.root, walk.root)
    BY <1>1 DEF Under
  <2> QED BY <1>5, <2>1 DEF InReach
<1>9. IsFiniteSet(Page)
  BY <1>5, FS_Subset
<1> QED BY <1>5, <1>6, <1>7, <1>8, <1>9

(* Of names that are left one is asked for next.                            *)
LEMMA CurrentExists ==
    ASSUME names \subseteq Paths, IsFiniteSet(names), names # {}
    PROVE  Current \in names
<1>1. PICK p \in names : \A q \in names : q = p \/ <<p, q>> \in ByPath
  <2>1. names \in SUBSET Paths /\ names \in SUBSET names
    OBVIOUS
  <2>2. StrictOrder(names, ByPath)
    BY <2>1, ByPathOrders
  <2> QED BY <2>1, <2>2, FirstExists
<1>2. \A q \in names : q = p \/ Before(p, q)
  BY <1>1, ByPathOrders
<1> QED BY <1>2 DEF Current

(* What holds at every moment of a PROPFIND: of the members that were there *)
(* all the time none is lost, those that are answered for are what they     *)
(* are said to be, a name that was no file and is there all the time is a   *)
(* directory, and a member it fails over is gone or broken.                 *)
PropfindInv ==
    /\ ListingInv /\ changes \in Nat
    /\ by = "client" => phase = "names"
    /\ by = "bridge" => walk.depth = 1 /\ cursor = Start
    /\ phase \in {"names", "file", "tree", "ok", "error", "failed"}
    /\ phase = "names" => names = {} /\ members = {}
    /\ phase = "ok" => names = {}
    /\ phase \in {"file", "tree"} => names # {}
    /\ names \subseteq Paths /\ IsFiniteSet(names)
    /\ \A p \in names \cup Listed : MayShow(p)
    /\ phase = "tree" => (Current \in kept => Current \in dirs)
    /\ \A e \in members : e.path \in kept => (e.is = "file" <=> e.path \in files)
    /\ phase \notin {"names", "failed"} /\ Small =>
          \A p \in kept : Parent(p) = walk.root /\ MayShow(p) => p \in names \cup Listed
    /\ phase = "error" => Current \notin kept \/ Current \in Broken

(* A PROPFIND begins with a listing that has not begun.                     *)
LEMMA PropfindInvInit == BridgeInit => PropfindInv
<1> SUFFICES ASSUME BridgeInit PROVE PropfindInv
  OBVIOUS
<1>1. Init /\ ListingInv
  BY ListingInvInit DEF BridgeInit
<1> QED BY <1>1, FS_EmptySet DEF BridgeInit, Init, PropfindInv, Listed

(* The names are those of the first page.                                   *)
LEMMA PropfindInvNames ==
    ASSUME IsFiniteSet(Paths), PropfindInv, GetMemberNames, by = "bridge", UNCHANGED <<by, vars>>
    PROVE  PropfindInv'
<1>1. /\ phase = "names" /\ names' = {p \in Visible(Page) : ~OwnName(p)}
      /\ phase' = IF names' = {} THEN "ok" ELSE "file"
      /\ members' = members /\ members = {}
  BY DEF GetMemberNames, PropfindInv
<1>2. UNCHANGED <<walk, files, dirs, cursor, shown, kept, changes, by>>
  BY DEF vars
<1>3. Tree /\ walk.depth = 1 /\ cursor = Start /\ ListingInv /\ changes \in Nat
      /\ kept \subseteq files \cup dirs
  BY DEF PropfindInv, ListingInv
<1>4. /\ Page \subseteq files \cup dirs /\ Page \subseteq Paths /\ IsFiniteSet(Page)
      /\ walk.root \notin Page
      /\ Small => \A p \in files \cup dirs : Parent(p) = walk.root => p \in Page
  BY <1>3, FirstPage
<1>5. names' = {p \in Page : MayShow(p)}
  BY <1>1, <1>4 DEF Visible, MayShow, OwnName
<1>6. names' \in SUBSET Page /\ IsFiniteSet(names')
  BY <1>4, <1>5, FS_Subset
<1>7. ListingInv' /\ (Small' <=> Small) /\ \A p : MayShow(p)' <=> MayShow(p)
  BY <1>2, <1>3 DEF ListingInv, Tree, InReach, MayShow, Passed, Small, Members
<1>8. Listed' = {}
  BY <1>1 DEF Listed
<1> QED BY <1>1, <1>2, <1>3, <1>4, <1>5, <1>6, <1>7, <1>8 DEF PropfindInv

(* A member that is answered for is no name any more.                       *)
LEMMA PropfindInvFound ==
    ASSUME PropfindInv, by = "bridge", phase \in {"file", "tree"}, UNCHANGED <<by, vars>>,
           NEW is \in {"file", "collection"}, Found(Current, is),
           Current \in kept => (is = "file" <=> Current \in files)
    PROVE  PropfindInv'
<1>1. Current \in names
  BY CurrentExists DEF PropfindInv
<1> DEFINE c == Current
<1> HIDE DEF c
<1>2. c \in names
  BY <1>1 DEF c
<1>3. /\ members' = members \cup {[path |-> c, is |-> is]} /\ names' = names \ {c}
      /\ phase' = IF names' = {} THEN "ok" ELSE "file"
      /\ c \in kept => (is = "file" <=> c \in files)
  BY DEF Found, c
<1>4. UNCHANGED <<walk, files, dirs, cursor, shown, kept, changes, by>>
  BY DEF vars
<1>5. IsFiniteSet(names')
  BY <1>3, FS_RemoveElement DEF PropfindInv
<1>6. ListingInv' /\ (Small' <=> Small) /\ \A p : MayShow(p)' <=> MayShow(p)
  BY <1>4 DEF PropfindInv, ListingInv, Tree, InReach, MayShow, Passed, Small, Members
<1>7. Listed' = Listed \cup {c}
  <2> DEFINE new == [path |-> c, is |-> is]
  <2>1. members' = members \cup {new} /\ new.path = c
    BY <1>3
  <2> HIDE DEF new
  <2> QED BY <2>1, Zenon DEF Listed
<1>8. \A p \in names' \cup Listed' : MayShow(p)'
  BY <1>2, <1>3, <1>6, <1>7 DEF PropfindInv
<1>9. \A e \in members' : e.path \in kept' => (e.is = "file" <=> e.path \in files')
  BY <1>3, <1>4 DEF PropfindInv
<1>10. phase' \in {"ok", "file"} /\ names' \subseteq names
       /\ names \cup Listed = names' \cup Listed'
  BY <1>2, <1>3, <1>7
<1> HIDE DEF Listed
<1>11. phase' \notin {"names", "failed"} /\ Small' =>
          \A p \in kept' : Parent(p) = walk'.root /\ MayShow(p)' => p \in names' \cup Listed'
  BY <1>4, <1>6, <1>10 DEF PropfindInv
<1> QED BY <1>3, <1>4, <1>5, <1>6, <1>8, <1>9, <1>10, <1>11 DEF PropfindInv

(* A step that only moves on to the next call.                              *)
LEMMA PropfindInvMovesOn ==
    ASSUME PropfindInv, by = "bridge", phase \in {"file", "tree"},
           UNCHANGED <<by, names, members, vars>>,
           \/ phase' = "tree" /\ Current \notin files
           \/ phase' = "error" /\ (Current \notin files \cup dirs \/ Current \in Broken)
    PROVE  PropfindInv'
<1>1. Current \in names
  BY CurrentExists DEF PropfindInv
<1>2. UNCHANGED <<walk, files, dirs, cursor, shown, kept, changes, by, names, members>>
  BY DEF vars
<1>3. ListingInv' /\ (Small' <=> Small) /\ (\A p : MayShow(p)' <=> MayShow(p)) /\ Listed' = Listed
  BY <1>2 DEF PropfindInv, ListingInv, Tree, InReach, MayShow, Passed, Small, Members, Listed
<1>4. Current' = Current
  BY <1>2 DEF Current
<1>5. Current \in kept /\ Current \notin files => Current \in dirs
  BY DEF PropfindInv, ListingInv
<1>6. phase' = "error" => Current' \notin kept' \/ Current' \in Broken
  <2>1. kept \subseteq files \cup dirs
    BY DEF PropfindInv, ListingInv
  <2> QED BY <1>2, <1>4, <2>1
<1>7. phase' \in {"tree", "error"} /\ phase' # "names" /\ phase # "names" /\ names # {}
  BY DEF PropfindInv
<1>8. phase' = "tree" => (Current' \in kept' => Current' \in dirs')
  <2>1. ASSUME phase' = "tree" PROVE Current \notin files
    BY <2>1
  <2> QED BY <1>2, <1>4, <1>5, <2>1
<1> HIDE DEF Current, Listed
<1> QED BY <1>2, <1>3, <1>6, <1>7, <1>8 DEF PropfindInv

(* A call that fails ends the PROPFIND.                                     *)
LEMMA PropfindInvCallFails ==
    ASSUME PropfindInv, CallFails, by = "bridge", UNCHANGED <<by, vars>>
    PROVE  PropfindInv'
<1>1. phase' = "failed" /\ phase \in {"names", "file", "tree"}
      /\ UNCHANGED <<walk, files, dirs, cursor, shown, kept, changes, by, names, members>>
  BY DEF CallFails, vars
<1>2. ListingInv' /\ (Small' <=> Small) /\ (\A p : MayShow(p)' <=> MayShow(p)) /\ Listed' = Listed
  BY <1>1 DEF PropfindInv, ListingInv, Tree, InReach, MayShow, Passed, Small, Members, Listed
<1>3. UNCHANGED Current
  BY <1>1 DEF Current
<1> HIDE DEF Listed, Current
<1> QED BY <1>1, <1>2, <1>3 DEF PropfindInv

(* Others write and delete during a PROPFIND.                               *)
LEMMA PropfindInvOthers ==
    ASSUME PropfindInv, Others, by = "bridge", UNCHANGED <<bridge, walk, cursor, shown>>
    PROVE  PropfindInv'
<1>1. /\ changes' = IF phase = "names" THEN 0 ELSE changes + 1
      /\ kept' = IF phase = "names" THEN files' \cup dirs' ELSE kept \cap (files' \cup dirs')
      /\ phase \notin {"ok", "error", "failed"}
  BY DEF Others, Answered
<1>2. UNCHANGED <<by, phase, names, members, walk, cursor, shown>>
  BY DEF bridge
<1>3. ListingInv /\ Tree /\ cursor = Start /\ changes \in Nat /\ kept \subseteq files \cup dirs
  BY DEF PropfindInv, ListingInv
<1>4. TreeChanges
  BY <1>2, <1>3, CreateChanges, RemoveChanges DEF Others
<1>5. ListingInv'
  BY <1>1, <1>2, <1>3, <1>4, ListingInvChanges
<1>6. changes' \in Nat /\ (phase # "names" => changes' > 0)
  BY <1>1, <1>3
<1>7. /\ Current' = Current /\ Listed' = Listed /\ (Small' <=> Small)
      /\ \A p : MayShow(p) => MayShow(p)'
  BY <1>2, <1>4 DEF Current, Listed, Small, Members, MayShow, TreeChanges
<1>8. CASE phase = "names"
  <2>1. names = {} /\ members = {} /\ Listed = {}
    BY <1>8 DEF PropfindInv, Listed
  <2> QED BY <1>2, <1>5, <1>6, <1>7, <1>8, <2>1 DEF PropfindInv
<1>9. CASE phase # "names"
  <2>1. \A p \in kept' : /\ p \in kept
                         /\ (p \in dirs' <=> p \in dirs) /\ (p \in files' <=> p \in files)
    BY <1>1, <1>3, <1>4, <1>9 DEF TreeChanges
  <2>2. \A p \in kept' : MayShow(p)' <=> MayShow(p)
    BY <2>1 DEF MayShow
  <2>3. \A e \in members' : e.path \in kept' => (e.is = "file" <=> e.path \in files')
    BY <1>2, <2>1 DEF PropfindInv
  <2>4. phase' = "tree" => (Current' \in kept' => Current' \in dirs')
    <3> HIDE DEF Current
    <3> QED BY <1>2, <1>7, <2>1 DEF PropfindInv
  <2> HIDE DEF Current, Listed
  <2>5. phase' \notin {"names", "failed"} /\ Small' =>
          \A p \in kept' : Parent(p) = walk'.root /\ MayShow(p)' => p \in names' \cup Listed'
    BY <1>2, <1>7, <1>9, <2>1, <2>2 DEF PropfindInv
  <2>6. \A p \in names' \cup Listed' : MayShow(p)'
    BY <1>2, <1>7 DEF PropfindInv
  <2> QED BY <1>1, <1>2, <1>5, <1>6, <1>7, <1>9, <2>3, <2>4, <2>5, <2>6 DEF PropfindInv
<1> QED BY <1>8, <1>9

(* A client that lists the tree, or writes, leaves the PROPFIND unbegun.    *)
LEMMA PropfindInvClient ==
    ASSUME PropfindInv, by = "client", UNCHANGED bridge,
           Fetch \/ \E p \in Paths : Write(p) \/ Delete(p)
    PROVE  PropfindInv'
<1>1. ListingInv'
  BY ListingInvFetch, ListingInvWrites DEF PropfindInv
<1>2. changes' \in Nat
  BY DEF PropfindInv, Fetch, Write, Delete, Change
<1>3. UNCHANGED <<by, phase, names, members>>
  BY DEF bridge
<1>4. phase = "names" /\ names = {} /\ members = {} /\ Listed' = {}
  BY <1>3 DEF PropfindInv, Listed
<1> QED BY <1>1, <1>2, <1>3, <1>4 DEF PropfindInv

(* The invariant is inductive for clients and bridge together.              *)
LEMMA PropfindInvNext ==
    ASSUME IsFiniteSet(Paths), PropfindInv, [BridgeNext]_<<vars, bridge>>
    PROVE  PropfindInv'
<1>1. CASE ClientFetches
  BY <1>1, PropfindInvClient DEF ClientFetches
<1>2. CASE BridgeAsks
  <2>1. by = "bridge" /\ UNCHANGED <<by, vars>>
    BY <1>2 DEF BridgeAsks
  <2>2. CASE GetMemberNames
    BY <2>1, <2>2, PropfindInvNames
  <2>3. CASE GetFile
    <3>1. phase = "file" /\ phase \in {"file", "tree"}
      BY <2>3 DEF GetFile
    <3>2. CASE Current \in files \ Broken
      <4>1. Found(Current, "file")
        BY <2>3, <3>2 DEF GetFile
      <4> QED BY <2>1, <3>1, <3>2, <4>1, PropfindInvFound
    <3>3. CASE Current \notin files \ Broken
      <4>1. /\ phase' = IF Current \in files THEN "error" ELSE "tree"
            /\ UNCHANGED <<names, members>>
        BY <2>3, <3>3 DEF GetFile
      <4> QED BY <2>1, <3>1, <3>3, <4>1, PropfindInvMovesOn
    <3> QED BY <3>2, <3>3
  <2>4. CASE GetTree
    <3>1. phase = "tree" /\ phase \in {"file", "tree"}
      BY <2>4 DEF GetTree
    <3>2. CASE Current \in files \cup dirs
      <4>1. Found(Current, "collection")
        BY <2>4, <3>2 DEF GetTree
      <4>2. Current \in kept => Current \notin files
        BY <3>1 DEF PropfindInv, ListingInv, Tree
      <4> QED BY <2>1, <3>1, <4>1, <4>2, PropfindInvFound
    <3>3. CASE Current \notin files \cup dirs
      <4>1. phase' = "error" /\ UNCHANGED <<names, members>>
        BY <2>4, <3>3 DEF GetTree
      <4> QED BY <2>1, <3>1, <3>3, <4>1, PropfindInvMovesOn
    <3> QED BY <3>2, <3>3
  <2>5. CASE CallFails
    BY <2>1, <2>5, PropfindInvCallFails
  <2> QED BY <1>2, <2>2, <2>3, <2>4, <2>5 DEF BridgeAsks, Propfind
<1>3. CASE by = "client" /\ (\E p \in Paths : Write(p) \/ Delete(p)) /\ UNCHANGED bridge
  BY <1>3, PropfindInvClient
<1>4. CASE by = "bridge" /\ Others /\ UNCHANGED <<bridge, walk, cursor, shown>>
  BY <1>4, PropfindInvOthers
<1>5. CASE UNCHANGED <<vars, bridge>>
  BY <1>5 DEF vars, bridge, PropfindInv, ListingInv, Tree, InReach, MayShow, Passed,
              Listed, Current, Small, Members
<1> QED BY <1>1, <1>2, <1>3, <1>4, <1>5 DEF BridgeNext

(* It says of every PROPFIND what it is to show.                            *)
LEMMA PropfindInvSays == PropfindInv => PropfindShowsWhatStayed /\ WalkShowsOnceWhatStayed
<1> SUFFICES ASSUME PropfindInv PROVE PropfindShowsWhatStayed /\ WalkShowsOnceWhatStayed
  OBVIOUS
<1>1. WalkShowsOnceWhatStayed
  BY ListingInvSays DEF PropfindInv
<1>2. Listed \cap (Hidden \ dirs) = {}
  BY DEF PropfindInv, MayShow
<1>3. ASSUME phase = "ok", Small
      PROVE  \A p \in kept : Parent(p) = walk.root /\ (p \in dirs \/ p \notin Hidden) => p \in Listed
  BY <1>3 DEF PropfindInv, MayShow
<1> QED BY <1>1, <1>2, <1>3 DEF PropfindShowsWhatStayed, PropfindInv, Small, Members

(* A PROPFIND that succeeds shows every member that was there all the time, *)
(* if they fit on one page, as what it is, and none the user may not read;  *)
(* one whose calls all come through fails only over a member that has been  *)
(* deleted since, or that the API cannot serve (get_member_names).  The     *)
(* names a file system can hold are finitely many.                          *)
THEOREM PropfindShowsMembers ==
    ASSUME IsFiniteSet(Paths)
    PROVE  BridgeSpec => [](PropfindShowsWhatStayed /\ WalkShowsOnceWhatStayed)
<1>1. PropfindInv /\ [BridgeNext]_<<vars, bridge>> => PropfindInv'
  BY PropfindInvNext
<1> QED BY <1>1, PropfindInvInit, PropfindInvSays, PTL DEF BridgeSpec
=============================================================================
