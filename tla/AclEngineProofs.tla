-------------------------- MODULE AclEngineProofs --------------------------
(***************************************************************************)
(* Proofs about AclEngine for any lists of rules, patterns and requests:   *)
(* what one rule more can change, the precedence of the scopes, what the   *)
(* order of the rules means - all of it whatever PathMatches says - and    *)
(* then which paths a pattern matches.                                     *)
(***************************************************************************)
EXTENDS AclEngine, FiniteSetTheorems, SequenceTheorems, WellFoundedInduction, TLAPS

Lists == Seq(Menu)

(* The rules are rules of the menu.                                         *)
RulesTyped == rules = None \/ rules \in Lists

Weight(list, i) == Specificity(list[i].pattern)

(* Literal characters can be counted.                                       *)
LEMMA WeightTyped ==
    ASSUME NEW r \in Menu PROVE Specificity(r.pattern) \in Nat
<1>1. CASE r.pattern = None
  BY <1>1 DEF Specificity
<1>2. CASE r.pattern # None
  <2> DEFINE literal == {i \in 1 .. Len(r.pattern) : r.pattern[i] # Star}
  <2>1. Len(r.pattern) \in Nat
    BY <1>2, MenuTyped
  <2>2. IsFiniteSet(1 .. Len(r.pattern)) /\ literal \in SUBSET (1 .. Len(r.pattern))
    BY <2>1, FS_Interval
  <2> HIDE DEF literal
  <2>3. Cardinality(literal) \in Nat
    BY <2>2, FS_Subset, FS_CardinalityType
  <2>. QED BY <1>2, <2>3 DEF Specificity, literal
<1>. QED BY <1>1, <1>2

(* Of some rules of a list, one is the first of the most specific.          *)
LEMMA BestExists ==
    ASSUME NEW list \in Lists, NEW S \in SUBSET (1 .. Len(list)), S # {}
    PROVE  /\ MostSpecific(list, S) \in S
           /\ \A j \in S : \/ Weight(list, j) < Weight(list, MostSpecific(list, S))
                           \/ /\ Weight(list, j) = Weight(list, MostSpecific(list, S))
                              /\ MostSpecific(list, S) <= j
<1> DEFINE Better(i, j) == \/ Weight(list, i) > Weight(list, j)
                           \/ Weight(list, i) = Weight(list, j) /\ i < j
           Above(i) == {j \in S : Better(j, i)}
           T == {Above(i) : i \in S}
<1>1. /\ Len(list) \in Nat /\ \A i \in S : i \in Nat /\ Weight(list, i) \in Nat
  BY WeightTyped DEF Lists, Weight
<1>2. \A i, j, k \in S : /\ ~Better(i, i)
                         /\ Better(i, j) /\ Better(j, k) => Better(i, k)
                         /\ ~Better(i, j) => i = j \/ Better(j, i)
  BY <1>1
<1> HIDE DEF Better
<1>3. T \subseteq FiniteSubsetsOf(S) /\ T # {}
  <2>1. IsFiniteSet(S)
    <3>1. IsFiniteSet(1 .. Len(list))
      BY <1>1, FS_Interval
    <3>. QED BY <3>1, FS_Subset
  <2>2. \A i \in S : IsFiniteSet(Above(i))
    BY <2>1, FS_Subset
  <2>. QED BY <2>2 DEF FiniteSubsetsOf
<1>4. PICK X \in T : \A Y \in T : ~(<<Y, X>> \in StrictSubsetOrdering(S))
  <2> HIDE DEF T
  <2>. QED BY <1>3, FS_StrictSubsetOrderingWellFounded, WFMin
<1>5. PICK b \in S : X = Above(b)
  OBVIOUS
<1>6. ASSUME NEW j \in S PROVE ~Better(j, b)
  <2>. SUFFICES ASSUME Better(j, b) PROVE FALSE
    OBVIOUS
  <2>1. Above(j) \subseteq Above(b) /\ j \in Above(b) /\ j \notin Above(j)
    BY <1>2, <1>6
  <2>2. <<Above(j), Above(b)>> \in StrictSubsetOrdering(S)
    BY <2>1 DEF StrictSubsetOrdering
  <2>. QED BY <1>4, <1>5, <2>2
<1>7. \A j \in S : Weight(list, b) > Weight(list, j) \/ (Weight(list, b) = Weight(list, j) /\ b <= j)
  BY <1>1, <1>2, <1>6 DEF Better
<1>8. MostSpecific(list, S) =
         CHOOSE i \in S : \A j \in S : \/ Weight(list, i) > Weight(list, j)
                                       \/ Weight(list, i) = Weight(list, j) /\ i <= j
  BY DEF MostSpecific, Weight
<1>9. LET c == MostSpecific(list, S)
      IN  /\ c \in S
          /\ \A j \in S : Weight(list, c) > Weight(list, j) \/ (Weight(list, c) = Weight(list, j) /\ c <= j)
  BY <1>7, <1>8
<1>. QED BY <1>1, <1>9

(* A pot that is not empty decides.                                         *)
LEMMA PotDecides ==
    ASSUME NEW list \in Lists, NEW q, NEW f \in Fields, NEW S \in SUBSET Matching(list, q, f)
    PROVE  /\ S # {} => /\ MostSpecific(list, S) \in S
                        /\ PotDecision(list, S, f) = list[MostSpecific(list, S)][f]
                        /\ PotDecision(list, S, f) \in Decisions
           /\ S = {} <=> PotDecision(list, S, f) = None
<1>1. S \in SUBSET (1 .. Len(list))
  BY DEF Matching
<1>2. CASE S # {}
  <2>1. MostSpecific(list, S) \in S
    BY <1>1, <1>2, BestExists
  <2>2. \A i \in S : list[i] \in Menu /\ list[i][f] # None
    BY <1>1 DEF Matching, Lists
  <2>3. PotDecision(list, S, f) = list[MostSpecific(list, S)][f]
    BY <1>2 DEF PotDecision
  <2>4. list[MostSpecific(list, S)][f] \in Decisions
    BY <2>1, <2>2, MenuTyped
  <2>. QED BY <1>2, <2>1, <2>3, <2>4, MenuTyped
<1>3. CASE S = {}
  BY <1>3 DEF PotDecision
<1>. QED BY <1>2, <1>3

(* The pots of a list, with what they decide.                               *)
Pair(list, q, f)   == PotDecision(list, PairPot(list, Matching(list, q, f)), f)
User(list, q, f)   == PotDecision(list, UserPot(list, Matching(list, q, f)), f)
Client(list, q, f) == PotDecision(list, ClientPot(list, Matching(list, q, f)), f)
Global(list, q, f) == PotDecision(list, GlobalPot(list, Matching(list, q, f)), f)
Kind(list, q, f)   == PotDecision(list, KindPot(list, Matching(list, q, f)), f)

(* The engine's verdict on the decisions of the pots.                       *)
Scope(pair, user, client, global) ==
    IF pair # None THEN pair
    ELSE IF "deny" \in {user, client, global} THEN "deny"
    ELSE IF "allow" \in {user, client, global} THEN "allow" ELSE None

Verdict(scope, kind) == "deny" \notin {scope, kind} /\ "allow" \in {scope, kind}

(* Each pot is a part of the rules that apply.                              *)
LEMMA PotsArePots ==
    ASSUME NEW list, NEW S
    PROVE  /\ PairPot(list, S) \in SUBSET S /\ UserPot(list, S) \in SUBSET S
           /\ ClientPot(list, S) \in SUBSET S /\ GlobalPot(list, S) \in SUBSET S
           /\ KindPot(list, S) \in SUBSET S
BY DEF PairPot, UserPot, ClientPot, GlobalPot, KindPot

(* The pots decide, and nothing else does.                                  *)
LEMMA PermitsByPots ==
    ASSUME NEW list \in Lists, NEW q, NEW f \in Fields
    PROVE  /\ Permits(list, q, f) <=>
                 Verdict(Scope(Pair(list, q, f), User(list, q, f), Client(list, q, f), Global(list, q, f)),
                         Kind(list, q, f))
           /\ {Pair(list, q, f), User(list, q, f), Client(list, q, f), Global(list, q, f), Kind(list, q, f)}
                 \subseteq Decisions \cup {None}
<1> DEFINE S == Matching(list, q, f)
<1>1. list # None
  BY MenuTyped DEF Lists
<1>2. \A P \in SUBSET S : /\ PotDecision(list, P, f) \in Decisions \cup {None}
                          /\ P = {} <=> PotDecision(list, P, f) = None
  <2>. SUFFICES ASSUME NEW P \in SUBSET S
                PROVE  /\ PotDecision(list, P, f) \in Decisions \cup {None}
                       /\ P = {} <=> PotDecision(list, P, f) = None
    OBVIOUS
  <2>. QED BY PotDecides
<1>3. ScopeDecision(list, q, f) =
         Scope(Pair(list, q, f), User(list, q, f), Client(list, q, f), Global(list, q, f))
  <2>1. PairPot(list, S) = {} <=> Pair(list, q, f) = None
    BY <1>2, PotsArePots DEF Pair
  <2> DEFINE votes == {PotDecision(list, P, f) :
                          P \in {UserPot(list, S), ClientPot(list, S), GlobalPot(list, S)}}
  <2>2. votes = {User(list, q, f), Client(list, q, f), Global(list, q, f)}
    BY DEF User, Client, Global
  <2>3. ScopeDecision(list, q, f) =
           IF PairPot(list, S) # {} THEN Pair(list, q, f)
           ELSE IF "deny" \in votes THEN "deny" ELSE IF "allow" \in votes THEN "allow" ELSE None
    BY DEF ScopeDecision, Pair
  <2> HIDE DEF votes
  <2>. QED BY <2>1, <2>2, <2>3 DEF Scope
<1>4. KindGate(list, q, f) = Kind(list, q, f)
  BY DEF KindGate, Kind
<1>5. Permits(list, q, f) <=> Verdict(ScopeDecision(list, q, f), KindGate(list, q, f))
  BY <1>1 DEF Permits, Verdict
<1>6. {Pair(list, q, f), User(list, q, f), Client(list, q, f), Global(list, q, f), Kind(list, q, f)}
         \subseteq Decisions \cup {None}
  BY <1>2, PotsArePots DEF Pair, User, Client, Global, Kind
<1>. QED BY <1>3, <1>4, <1>5, <1>6

-----------------------------------------------------------------------------
(* A list in another: e tells where its rules are, and what is not its own  *)
(* stands at a place of `new`.                                              *)

Embeds(l, m, e, new) ==
    /\ l \in Lists /\ m \in Lists
    /\ e \in [1 .. Len(l) -> 1 .. Len(m)]
    /\ \A i \in 1 .. Len(l) : m[e[i]] = l[i]
    /\ \A k \in 1 .. Len(m) : k \in new \/ \E i \in 1 .. Len(l) : k = e[i]

(* Rules that are equally specific keep their order.                        *)
KeepsTies(l, e, S) ==
    \A i, j \in S : Weight(l, i) = Weight(l, j) /\ i <= j => e[i] <= e[j]

(* A pot decides as it did, or as a new rule in it says.                    *)
LEMMA PotFollows ==
    ASSUME NEW l, NEW m, NEW e, NEW new, Embeds(l, m, e, new), NEW q, NEW f \in Fields,
           NEW S \in SUBSET Matching(l, q, f), NEW T \in SUBSET Matching(m, q, f),
           KeepsTies(l, e, S), \A i \in 1 .. Len(l) : i \in S <=> e[i] \in T
    PROVE  \/ PotDecision(m, T, f) = PotDecision(l, S, f)
           \/ \E p \in new : p \in T /\ PotDecision(m, T, f) = m[p][f]
<1>0. l \in Lists /\ m \in Lists /\ S \subseteq 1 .. Len(l) /\ T \subseteq 1 .. Len(m)
  BY DEF Embeds, Matching
<1>1. CASE T = {}
  <2>1. S = {}
    BY <1>0, <1>1 DEF Embeds
  <2>. QED BY <1>1, <2>1 DEF PotDecision
<1>2. CASE T # {} /\ MostSpecific(m, T) \in new
  BY <1>0, <1>2, PotDecides
<1>3. CASE T # {} /\ MostSpecific(m, T) \notin new
  <2> DEFINE b == MostSpecific(m, T)
             k == MostSpecific(l, S)
  <2>1. /\ b \in T /\ b \notin new /\ PotDecision(m, T, f) = m[b][f]
        /\ \A j \in T : Weight(m, j) < Weight(m, b) \/ (Weight(m, j) = Weight(m, b) /\ b <= j)
    BY <1>0, <1>3, PotDecides, BestExists
  <2> HIDE DEF b
  <2>2. PICK i \in 1 .. Len(l) : b = e[i] /\ i \in S
    BY <1>0, <2>1 DEF Embeds
  <2>3. /\ k \in S /\ PotDecision(l, S, f) = l[k][f]
        /\ \A j \in S : Weight(l, j) < Weight(l, k) \/ (Weight(l, j) = Weight(l, k) /\ k <= j)
    BY <1>0, <2>2, PotDecides, BestExists
  <2> HIDE DEF k
  <2>4. \A j \in S : /\ e[j] \in T /\ m[e[j]] = l[j] /\ Weight(m, e[j]) = Weight(l, j)
                     /\ j \in Nat /\ e[j] \in Nat /\ Weight(l, j) \in Nat
    <3>. SUFFICES ASSUME NEW j \in S
                  PROVE  /\ e[j] \in T /\ m[e[j]] = l[j] /\ Weight(m, e[j]) = Weight(l, j)
                         /\ j \in Nat /\ e[j] \in Nat /\ Weight(l, j) \in Nat
      OBVIOUS
    <3>1. j \in 1 .. Len(l) /\ e[j] \in T /\ e[j] \in 1 .. Len(m) /\ m[e[j]] = l[j] /\ l[j] \in Menu
      BY <1>0 DEF Embeds, Lists
    <3>. QED BY <3>1, WeightTyped DEF Weight
  <2>5. Weight(l, i) = Weight(l, k) /\ k <= i
    BY <2>1, <2>2, <2>3, <2>4
  <2>6. e[k] = e[i]
    <3>1. e[k] <= e[i]
      BY <2>2, <2>3, <2>5 DEF KeepsTies
    <3>2. e[i] <= e[k]
      BY <2>1, <2>2, <2>3, <2>4, <2>5
    <3>. QED BY <2>2, <2>3, <2>4, <3>1, <3>2
  <2>. QED BY <2>1, <2>2, <2>3, <2>4, <2>6
<1>. QED BY <1>1, <1>2, <1>3

(* If the new rules that apply all say v, what the longer list permits      *)
(* differs only in favour of v.                                             *)
LEMMA PermitsFollows ==
    ASSUME NEW l, NEW m, NEW e, NEW new, Embeds(l, m, e, new), NEW q, NEW f \in Fields,
           KeepsTies(l, e, Matching(l, q, f)),
           NEW v \in Decisions \cup {None}, \A p \in new : p \in Matching(m, q, f) => m[p][f] = v,
           ~(Permits(m, q, f) <=> Permits(l, q, f))
    PROVE  /\ \E p \in new : p \in Matching(m, q, f)
           /\ v = IF Permits(m, q, f) THEN "allow" ELSE "deny"
<1> DEFINE S == Matching(l, q, f)
           T == Matching(m, q, f)
           Hit == \E p \in new : p \in T
<1>0. l \in Lists /\ m \in Lists
  BY DEF Embeds
<1>1. \A i \in 1 .. Len(l) : i \in S <=> e[i] \in T
  BY DEF Embeds, Matching
<1>2. ASSUME NEW P \in SUBSET S, NEW Q \in SUBSET T, \A i \in 1 .. Len(l) : i \in P <=> e[i] \in Q
      PROVE  PotDecision(m, Q, f) = PotDecision(l, P, f) \/ (Hit /\ PotDecision(m, Q, f) = v)
  <2>1. KeepsTies(l, e, P)
    BY DEF KeepsTies
  <2>2. \/ PotDecision(m, Q, f) = PotDecision(l, P, f)
        \/ \E p \in new : p \in Q /\ PotDecision(m, Q, f) = m[p][f]
    BY <1>2, <2>1, PotFollows
  <2>. QED BY <2>2
<1>3. \A i \in 1 .. Len(l) :
         /\ i \in PairPot(l, S) <=> e[i] \in PairPot(m, T)
         /\ i \in UserPot(l, S) <=> e[i] \in UserPot(m, T)
         /\ i \in ClientPot(l, S) <=> e[i] \in ClientPot(m, T)
         /\ i \in GlobalPot(l, S) <=> e[i] \in GlobalPot(m, T)
         /\ i \in KindPot(l, S) <=> e[i] \in KindPot(m, T)
  BY <1>1 DEF Embeds, PairPot, UserPot, ClientPot, GlobalPot, KindPot
<1> HIDE DEF S, T, Hit
<1>4. /\ Pair(m, q, f) = Pair(l, q, f) \/ (Hit /\ Pair(m, q, f) = v)
      /\ User(m, q, f) = User(l, q, f) \/ (Hit /\ User(m, q, f) = v)
      /\ Client(m, q, f) = Client(l, q, f) \/ (Hit /\ Client(m, q, f) = v)
      /\ Global(m, q, f) = Global(l, q, f) \/ (Hit /\ Global(m, q, f) = v)
      /\ Kind(m, q, f) = Kind(l, q, f) \/ (Hit /\ Kind(m, q, f) = v)
  BY <1>2, <1>3, PotsArePots DEF Pair, User, Client, Global, Kind, S, T
<1>5. Hit => v \in Decisions
  <2>. SUFFICES ASSUME NEW p \in new, p \in T PROVE v \in Decisions
    BY DEF Hit
  <2>1. p \in 1 .. Len(m) /\ m[p][f] # None /\ m[p][f] = v
    BY DEF T, Matching
  <2>2. m[p] \in Menu
    BY <1>0, <2>1 DEF Lists
  <2>. QED BY <2>1, <2>2, MenuTyped
<1>6. Permits(l, q, f) \in BOOLEAN /\ Permits(m, q, f) \in BOOLEAN
  BY DEF Permits
<1>7. Hit /\ v = IF Permits(m, q, f) THEN "allow" ELSE "deny"
  BY <1>0, <1>4, <1>5, <1>6, PermitsByPots, MenuTyped DEF Verdict, Scope, Decisions
<1>. QED BY <1>7 DEF Hit, T

-----------------------------------------------------------------------------
(* The theorems.                                                            *)

(* The file holds rules of the menu.                                        *)
LEMMA RulesAreTyped == Spec => []RulesTyped
<1>1. Init => RulesTyped
  BY DEF Init, RulesTyped
<1>2. RulesTyped /\ [Next]_rules => RulesTyped'
  <2>. SUFFICES ASSUME RulesTyped, [Next]_rules PROVE RulesTyped'
    OBVIOUS
  <2>1. ASSUME NEW r \in Menu, Add(r) PROVE RulesTyped'
    <3>1. rules \in Seq(Menu) /\ <<r>> \in Seq(Menu)
      BY <2>1 DEF Add, RulesTyped, Lists
    <3>2. Append(rules, r) \in Seq(Menu) /\ <<r>> \o rules \in Seq(Menu)
      BY <3>1
    <3>. QED BY <2>1, <3>2 DEF Add, Grows, RulesTyped, Lists
  <2>2. CASE Create
    <3>1. << >> \in Seq(Menu)
      OBVIOUS
    <3>. QED BY <2>2, <3>1 DEF Create, RulesTyped, Lists
  <2>3. CASE DeleteFile \/ UNCHANGED rules
    BY <2>3 DEF DeleteFile, RulesTyped
  <2>. QED BY <2>1, <2>2, <2>3 DEF Next
<1>. QED BY <1>1, <1>2, PTL DEF Spec

(* Whom a list permits something, a rule allows it.                         *)
LEMMA AllowanceHasARule ==
    ASSUME NEW list \in Lists, NEW q, NEW f \in Fields, Permits(list, q, f)
    PROVE  \E i \in 1 .. Len(list) : list[i][f] = "allow" /\ Applies(list[i], q)
<1> DEFINE S == Matching(list, q, f)
<1>1. "allow" \in {Pair(list, q, f), User(list, q, f), Client(list, q, f), Global(list, q, f), Kind(list, q, f)}
  BY PermitsByPots, MenuTyped DEF Verdict, Scope, Decisions
<1>2. PICK P \in SUBSET S : PotDecision(list, P, f) = "allow"
  BY <1>1, PotsArePots DEF Pair, User, Client, Global, Kind
<1>3. P # {} /\ MostSpecific(list, P) \in P /\ list[MostSpecific(list, P)][f] = "allow"
  BY <1>2, PotDecides, MenuTyped DEF Decisions
<1>. QED BY <1>3 DEF Matching

(* Once there is an acl.json, nothing is permitted that no rule allows, for *)
(* any rules (AclEngine's docstring, "fail-closed").                        *)
THEOREM FailsClosed == Spec => []NothingWithoutAnAllow
<1>1. RulesTyped => NothingWithoutAnAllow
  BY AllowanceHasARule DEF RulesTyped, NothingWithoutAnAllow
<1>. QED BY <1>1, RulesAreTyped, PTL

(* The rule a pot goes by is one of its most specific.                      *)
LEMMA BestIsStrongest ==
    ASSUME rules \in Lists, NEW q, NEW f \in Fields, NEW P \in SUBSET Matching(rules, q, f), Strongest(P) # {}
    PROVE  MostSpecific(rules, P) \in Strongest(P) /\ PotDecision(rules, P, f) = rules[MostSpecific(rules, P)][f]
<1>1. P # {} /\ P \in SUBSET (1 .. Len(rules))
  BY DEF Strongest, Matching
<1>2. /\ MostSpecific(rules, P) \in P /\ PotDecision(rules, P, f) = rules[MostSpecific(rules, P)][f]
      /\ \A j \in P : \/ Weight(rules, j) < Weight(rules, MostSpecific(rules, P))
                      \/ Weight(rules, j) = Weight(rules, MostSpecific(rules, P))
  BY <1>1, PotDecides, BestExists
<1>3. \A i \in P : Specificity(rules[i].pattern) \in Nat
  BY <1>1, WeightTyped DEF Lists
<1> DEFINE b == MostSpecific(rules, P)
<1> HIDE DEF b
<1>4. b \in P /\ \A j \in P : Specificity(rules[j].pattern) <= Specificity(rules[b].pattern)
  BY <1>2, <1>3 DEF Weight, b
<1>5. b \in Strongest(P)
  BY <1>4 DEF Strongest
<1>. QED BY <1>2, <1>5 DEF b

(* A ban on a kind holds against every scope, and a rule for the pair of    *)
(* user and client against every other scope, in every list of rules        *)
(* (engine.py, the steps of its docstring).                                 *)
THEOREM ScopesKeepTheirRank == Spec => []PrecedenceHolds
<1>1. ASSUME rules \in Lists, NEW q, NEW f \in Fields PROVE KindBansHold(q, f)
  <2> DEFINE P == KindPot(rules, Matching(rules, q, f))
  <2>. SUFFICES ASSUME Strongest(P) # {}, \A i \in Strongest(P) : rules[i][f] = "deny"
                PROVE  ~Permits(rules, q, f)
    BY DEF KindBansHold
  <2>1. Kind(rules, q, f) = "deny"
    BY <1>1, BestIsStrongest, PotsArePots DEF Kind
  <2>. QED BY <1>1, <2>1, PermitsByPots DEF Verdict
<1>2. ASSUME rules \in Lists, NEW q, NEW f \in Fields PROVE PairRulesDecide(q, f)
  <2> DEFINE S == Matching(rules, q, f)
             P == PairPot(rules, S)
             b == MostSpecific(rules, P)
  <2>. SUFFICES ASSUME KindPot(rules, S) = {}, Strongest(P) # {}
                PROVE  \E i \in Strongest(P) : Permits(rules, q, f) <=> rules[i][f] = "allow"
    BY DEF PairRulesDecide
  <2>1. b \in Strongest(P) /\ Pair(rules, q, f) = rules[b][f] /\ P # {}
    BY <1>2, BestIsStrongest, PotsArePots DEF Pair, Strongest
  <2>2. Pair(rules, q, f) \in Decisions
    BY <1>2, <2>1, PotDecides, PotsArePots DEF Pair
  <2>3. Kind(rules, q, f) = None
    BY DEF Kind, PotDecision
  <2>4. Permits(rules, q, f) <=> Pair(rules, q, f) = "allow"
    BY <1>2, <2>2, <2>3, PermitsByPots, MenuTyped DEF Verdict, Scope, Decisions
  <2>. QED BY <2>1, <2>4
<1>3. RulesTyped => PrecedenceHolds
  BY <1>1, <1>2 DEF RulesTyped, PrecedenceHolds
<1>. QED BY <1>3, RulesAreTyped, PTL

(* Without ties, the file read backwards gives the same rights: the order   *)
(* of the rules is nothing but the tie-breaker of _most_specific.           *)
THEOREM OrderIsForTies == Spec => []OrderBreaksOnlyTies
<1>1. ASSUME rules \in Lists, NEW q, NEW f \in Fields,
             \A i, j \in Matching(rules, q, f) :
                Specificity(rules[i].pattern) = Specificity(rules[j].pattern) => i = j
      PROVE  Permits(rules, q, f) <=> Permits([i \in 1 .. Len(rules) |-> rules[Len(rules) + 1 - i]], q, f)
  <2> DEFINE m == [i \in 1 .. Len(rules) |-> rules[Len(rules) + 1 - i]]
             e == [i \in 1 .. Len(rules) |-> Len(rules) + 1 - i]
  <2>1. m \in Lists /\ Len(m) = Len(rules) /\ Len(rules) \in Nat
    BY <1>1 DEF Lists
  <2>2. Embeds(rules, m, e, {})
    <3>1. /\ e \in [1 .. Len(rules) -> 1 .. Len(m)]
          /\ \A i \in 1 .. Len(rules) : m[e[i]] = rules[i] /\ e[e[i]] = i
      BY <2>1
    <3> HIDE DEF m, e
    <3>2. \A k \in 1 .. Len(m) : \E i \in 1 .. Len(rules) : k = e[i]
      BY <2>1, <3>1
    <3>. QED BY <1>1, <2>1, <3>1, <3>2 DEF Embeds
  <2>3. KeepsTies(rules, e, Matching(rules, q, f))
    <3>1. \A i \in Matching(rules, q, f) : e[i] \in Nat
      BY <2>1 DEF Matching
    <3> HIDE DEF e
    <3>. QED BY <1>1, <3>1 DEF KeepsTies, Weight
  <2> HIDE DEF m, e
  <2>4. Permits(m, q, f) <=> Permits(rules, q, f)
    BY <1>1, <2>2, <2>3, PermitsFollows
  <2>. QED BY <2>4 DEF m
<1>2. RulesTyped => OrderBreaksOnlyTies
  BY <1>1 DEF RulesTyped, OrderBreaksOnlyTies
<1>. QED BY <1>2, RulesAreTyped, PTL

(* A list that grows by one rule, at its end or in front.                   *)
LEMMA GrownList ==
    ASSUME NEW l \in Lists, NEW r \in Menu, NEW m \in {Append(l, r), <<r>> \o l}, NEW q, NEW f \in Fields,
           Permits(m, q, f) # Permits(l, q, f)
    PROVE  Applies(r, q) /\ r[f] = IF Permits(m, q, f) THEN "allow" ELSE "deny"
<1> DEFINE n == Len(l)
<1>1. n \in Nat /\ \A i \in 1 .. n : l[i] \in Menu
  BY DEF Lists
<1>2. ASSUME NEW e, NEW p, Embeds(l, m, e, {p}), p \in 1 .. Len(m), m[p] = r,
             \A i, j \in 1 .. n : i <= j => e[i] <= e[j]
      PROVE  Applies(r, q) /\ r[f] = IF Permits(m, q, f) THEN "allow" ELSE "deny"
  <2>1. KeepsTies(l, e, Matching(l, q, f))
    BY <1>2 DEF KeepsTies, Matching
  <2>2. \A k \in {p} : k \in Matching(m, q, f) => m[k][f] = r[f]
    BY <1>2
  <2>3. /\ \E k \in {p} : k \in Matching(m, q, f)
        /\ r[f] = IF Permits(m, q, f) THEN "allow" ELSE "deny"
    <3> DEFINE v == r[f]
               new == {p}
    <3>1. v \in Decisions \cup {None} /\ \A k \in new : k \in Matching(m, q, f) => m[k][f] = v
      BY <2>2, MenuTyped
    <3>2. Embeds(l, m, e, new) /\ ~(Permits(m, q, f) <=> Permits(l, q, f))
      BY <1>2 DEF Permits
    <3> HIDE DEF v, new
    <3>3. /\ \E k \in new : k \in Matching(m, q, f)
          /\ v = IF Permits(m, q, f) THEN "allow" ELSE "deny"
      BY <2>1, <3>1, <3>2, PermitsFollows
    <3>. QED BY <3>3 DEF v, new
  <2>. QED BY <1>2, <2>3 DEF Matching
<1>3. CASE m = Append(l, r)
  <2> DEFINE e == [i \in 1 .. n |-> i]
  <2>1. /\ m \in Lists /\ Len(m) = n + 1 /\ m[n + 1] = r
        /\ \A i \in 1 .. n : m[i] = l[i]
    BY <1>1, <1>3 DEF Lists
  <2>2. Embeds(l, m, e, {n + 1})
    <3>1. /\ e \in [1 .. n -> 1 .. Len(m)] /\ \A i \in 1 .. n : e[i] = i /\ m[e[i]] = l[i]
      BY <1>1, <2>1
    <3>2. \A k \in 1 .. Len(m) : k \in {n + 1} \/ \E i \in 1 .. n : k = e[i]
      BY <1>1, <2>1
    <3> HIDE DEF e
    <3>. QED BY <2>1, <3>1, <3>2 DEF Embeds
  <2>3. \A i, j \in 1 .. n : i <= j => e[i] <= e[j]
    OBVIOUS
  <2> HIDE DEF e
  <2>4. n + 1 \in 1 .. Len(m)
    BY <1>1, <2>1
  <2>. QED BY <1>2, <2>1, <2>2, <2>3, <2>4
<1>4. CASE m = <<r>> \o l
  <2> DEFINE e == [i \in 1 .. n |-> i + 1]
  <2>1. /\ m \in Lists /\ Len(m) = n + 1 /\ m[1] = r
        /\ \A i \in 1 .. n : m[i + 1] = l[i]
    BY <1>1, <1>4 DEF Lists
  <2>2. Embeds(l, m, e, {1})
    <3>1. /\ e \in [1 .. n -> 1 .. Len(m)] /\ \A i \in 1 .. n : e[i] = i + 1 /\ m[e[i]] = l[i]
      BY <1>1, <2>1
    <3>2. \A k \in 1 .. Len(m) : k = 1 \/ (k - 1 \in 1 .. n /\ k = e[k - 1])
      BY <1>1, <2>1
    <3> HIDE DEF e
    <3>. QED BY <2>1, <3>1, <3>2 DEF Embeds
  <2>3. \A i, j \in 1 .. n : i <= j => e[i] <= e[j]
    BY <1>1
  <2> HIDE DEF e
  <2>4. 1 \in 1 .. Len(m)
    BY <1>1, <2>1
  <2>. QED BY <1>2, <2>1, <2>2, <2>3, <2>4
<1>. QED BY <1>3, <1>4

(* One rule more changes the answer to a request only if it names the field *)
(* and applies, and only to what it says, whatever the other rules are      *)
(* (_scope_decision, _kind_gate_decision, _most_specific).                  *)
THEOREM RulesSpeakForThemselves == Spec => RulesActOnlyWhereTheySpeak
<1>1. RulesTyped =>
         [\A r \in Menu : rules # None /\ rules' # None /\ Grows(r) =>
            \A q \in Queries, f \in Fields :
               Permits(rules', q, f) # Permits(rules, q, f) =>
                  /\ Applies(r, q)
                  /\ r[f] = IF Permits(rules', q, f) THEN "allow" ELSE "deny"]_rules
  BY GrownList DEF RulesTyped, Grows
<1>. QED BY <1>1, RulesAreTyped, PTL DEF RulesActOnlyWhereTheySpeak

-----------------------------------------------------------------------------
(* What a pattern matches.                                                  *)

(* A set of naturals that is not empty has a least element.                 *)
LEMMA LeastExists ==
    ASSUME NEW S \in SUBSET Nat, S # {}
    PROVE  \E n \in S : \A m \in S : ~(m < n)
<1> DEFINE R == OpToRel(<, Nat)
<1>1. IsWellFoundedOn(R, Nat)
  BY NatLessThanWellFounded
<1>2. PICK n \in S : \A m \in S : <<m, n>> \notin R
  <2> HIDE DEF R
  <2>. QED BY <1>1, WFMin
<1>. QED BY <1>2 DEF OpToRel

(* What PlacedFrom asks of the pieces.                                      *)
Places(p, s, i, j, at) ==
    /\ at \in [i .. Len(p) + 1 -> 1 .. Len(s) + 1]
    /\ at[i] = j /\ AtEnd(s, at[Len(p) + 1])
    /\ \A k \in i .. Len(p) : Takes(p, s, i, k, at[k], at[k + 1])

LEMMA PlacedIsPlaces ==
    ASSUME NEW p, NEW s, NEW i, NEW j
    PROVE  PlacedFrom(p, s, i, j) <=> \E at : Places(p, s, i, j, at)
BY Zenon DEF PlacedFrom, Places

(* The end of a pattern is the end of the path.                             *)
LEMMA PlacedAtEnd ==
    ASSUME NEW p, Len(p) \in Nat, NEW s, Len(s) \in Nat, NEW j \in 1 .. Len(s) + 1
    PROVE  PlacedFrom(p, s, Len(p) + 1, j) <=> AtEnd(s, j)
<1> DEFINE last == Len(p) + 1
<1>1. ASSUME NEW at, Places(p, s, last, j, at)
      PROVE  AtEnd(s, j)
  BY <1>1 DEF Places
<1>2. ASSUME AtEnd(s, j)
      PROVE  PlacedFrom(p, s, last, j)
  <2> DEFINE at == [k \in last .. last |-> j]
  <2>1. at \in [last .. last -> 1 .. Len(s) + 1] /\ at[last] = j
    OBVIOUS
  <2> HIDE DEF at
  <2>2. Places(p, s, last, j, at)
    BY <1>2, <2>1 DEF Places
  <2>. QED BY <2>2, PlacedIsPlaces
<1>. QED BY <1>1, <1>2, PlacedIsPlaces

(* Behind a literal character the stars pair up anew.                       *)
LEMMA SingleAfterLiteral ==
    ASSUME NEW p, Len(p) \in Nat, NEW i \in 1 .. Len(p), p[i] # Star, NEW k \in i + 1 .. Len(p)
    PROVE  Single(p, i, k) <=> Single(p, i + 1, k)
<1>1. ASSUME NEW h \in i .. k, \A l \in h .. k : p[l] = Star
      PROVE  h \in i + 1 .. k
  BY <1>1
<1>2. \A h \in i + 1 .. k : (h > i => p[h - 1] # Star) <=> (h > i + 1 => p[h - 1] # Star)
  OBVIOUS
<1>3. \A h \in i + 1 .. k : h \in i .. k
  OBVIOUS
<1>. QED BY <1>1, <1>2, <1>3 DEF Single

(* Behind a single star there is no star.                                   *)
LEMMA SingleAfterSingle ==
    ASSUME NEW p, Len(p) \in Nat, NEW i \in 1 .. Len(p),
           p[i] = Star, ~(i < Len(p) /\ p[i + 1] = Star)
    PROVE  /\ Single(p, i, i)
           /\ \A k \in i + 1 .. Len(p) : Single(p, i, k) <=> Single(p, i + 1, k)
<1>1. Single(p, i, i)
  <2>1. i \in i .. i /\ \A l \in i .. i : p[l] = Star
    OBVIOUS
  <2>2. (i - i) % 2 = 0 /\ (i < Len(p) => p[i + 1] # Star)
    OBVIOUS
  <2>. QED BY <2>1, <2>2 DEF Single
<1>2. ASSUME NEW k \in i + 1 .. Len(p)
      PROVE  Single(p, i, k) <=> Single(p, i + 1, k)
  <2>1. ASSUME NEW h \in i .. k, \A l \in h .. k : p[l] = Star
        PROVE  h \in i + 2 .. k
    <3>1. ~(i + 1 \in h .. k)
      BY <2>1
    <3>. QED BY <2>1, <3>1
  <2>2. \A h \in i + 2 .. k : /\ h \in i .. k /\ h \in i + 1 .. k
                              /\ (h > i => p[h - 1] # Star) <=> (h > i + 1 => p[h - 1] # Star)
    OBVIOUS
  <2>3. \A h \in i + 1 .. k : h \in i .. k
    OBVIOUS
  <2>. QED BY <2>1, <2>2, <2>3 DEF Single
<1>. QED BY <1>1, <1>2

(* The stars of a pair are not single ones, and those behind pair up anew.  *)
LEMMA SingleAfterPair ==
    ASSUME NEW p, Len(p) \in Nat, NEW i \in 1 .. Len(p),
           p[i] = Star, i < Len(p), p[i + 1] = Star
    PROVE  /\ ~Single(p, i, i) /\ ~Single(p, i, i + 1)
           /\ \A k \in i + 2 .. Len(p) : Single(p, i, k) <=> Single(p, i + 2, k)
<1>1. ~Single(p, i, i)
  BY DEF Single
<1>2. ~Single(p, i, i + 1)
  <2> SUFFICES ASSUME NEW h \in i .. i + 1, h > i => p[h - 1] # Star, ((i + 1) - h) % 2 = 0
               PROVE  FALSE
    BY DEF Single
  <2>1. CASE h = i
    <3>1. (i + 1) - i = 1
      OBVIOUS
    <3>. QED BY <2>1, <3>1
  <2>2. CASE h = i + 1
    BY <2>2
  <2>. QED BY <2>1, <2>2
<1>3. ASSUME NEW k \in i + 2 .. Len(p)
      PROVE  Single(p, i, k) <=> Single(p, i + 2, k)
  <2> DEFINE From(b, h) == /\ \A l \in h .. k : p[l] = Star
                           /\ h > b => p[h - 1] # Star
                           /\ (k - h) % 2 = 0
  <2>1. (k - i) % 2 = 0 <=> (k - (i + 2)) % 2 = 0
    OBVIOUS
  <2>2. From(i, i) <=> From(i + 2, i + 2)
    <3>1. (\A l \in i .. k : p[l] = Star) <=> \A l \in i + 2 .. k : p[l] = Star
      <4>1. \A l \in i .. k : l = i \/ l = i + 1 \/ l \in i + 2 .. k
        OBVIOUS
      <4>2. \A l \in i + 2 .. k : l \in i .. k
        OBVIOUS
      <4>. QED BY <4>1, <4>2
    <3>. QED BY <2>1, <3>1
  <2>3. ~From(i, i + 1) /\ ~From(i, i + 2)
    OBVIOUS
  <2>4. \A h \in i + 3 .. k : From(i, h) <=> From(i + 2, h)
    OBVIOUS
  <2>5. /\ \A h \in i .. k : h = i \/ h = i + 1 \/ h = i + 2 \/ h \in i + 3 .. k
        /\ \A h \in i + 2 .. k : h = i + 2 \/ h \in i + 3 .. k
        /\ \A h \in i + 3 .. k : h \in i .. k /\ h \in i + 2 .. k
        /\ i \in i .. k /\ i + 2 \in i + 2 .. k
    OBVIOUS
  <2>6. \A b : Single(p, b, k) <=>
               (k < Len(p) => p[k + 1] # Star) /\ \E h \in b .. k : From(b, h)
    BY DEF Single
  <2> HIDE DEF From
  <2>7. (\E h \in i .. k : From(i, h)) <=> \E h \in i + 2 .. k : From(i + 2, h)
    BY <2>2, <2>3, <2>4, <2>5
  <2>. QED BY <2>6, <2>7
<1>. QED BY <1>1, <1>2, <1>3

(* The pieces of a pattern without its first c characters, which do not     *)
(* change what the stars behind them are ...                                *)
LEMMA PlacesDropFirst ==
    ASSUME NEW p, Len(p) \in Nat, NEW s, Len(s) \in Nat,
           NEW i \in 1 .. Len(p), NEW c \in {1, 2}, i + c <= Len(p) + 1, NEW j,
           \A k \in i + c .. Len(p) : Single(p, i, k) <=> Single(p, i + c, k),
           NEW at, Places(p, s, i, j, at)
    PROVE  at[i + c] \in 1 .. Len(s) + 1 /\ PlacedFrom(p, s, i + c, at[i + c])
<1> DEFINE to == [k \in i + c .. Len(p) + 1 |-> at[k]]
<1>1. /\ to \in [i + c .. Len(p) + 1 -> 1 .. Len(s) + 1]
      /\ \A k \in i + c .. Len(p) + 1 : to[k] = at[k] /\ at[k] \in 1 .. Len(s) + 1
  <2>1. at \in [i .. Len(p) + 1 -> 1 .. Len(s) + 1]
    BY DEF Places
  <2>2. \A k \in i + c .. Len(p) + 1 : k \in i .. Len(p) + 1
    OBVIOUS
  <2>3. \A k \in i + c .. Len(p) + 1 : at[k] \in 1 .. Len(s) + 1
    BY <2>1, <2>2
  <2> QED BY <2>3
<1> HIDE DEF to
<1>2. ASSUME NEW k \in i + c .. Len(p)
      PROVE  Takes(p, s, i + c, k, to[k], to[k + 1])
  <2>1. Takes(p, s, i, k, at[k], at[k + 1])
    <3>1. k \in i .. Len(p)
      OBVIOUS
    <3>. QED BY <3>1 DEF Places
  <2>2. to[k] = at[k] /\ to[k + 1] = at[k + 1]
    BY <1>1
  <2>. QED BY <2>1, <2>2 DEF Takes
<1>3. Places(p, s, i + c, at[i + c], to)
  BY <1>1, <1>2 DEF Places
<1>. QED BY <1>1, <1>3, PlacedIsPlaces

(* ... and with them again, in front of the pieces of the rest.             *)
LEMMA PlacesAddFirst ==
    ASSUME NEW p, Len(p) \in Nat, NEW s, Len(s) \in Nat,
           NEW i \in 1 .. Len(p), NEW c \in {1, 2}, i + c <= Len(p) + 1,
           NEW j \in 1 .. Len(s) + 1, NEW m,
           \A k \in i + c .. Len(p) : Single(p, i, k) <=> Single(p, i + c, k),
           NEW to, Places(p, s, i + c, m, to),
           c = 1 => Takes(p, s, i, i, j, m),
           c = 2 => Takes(p, s, i, i, j, j) /\ Takes(p, s, i, i + 1, j, m)
    PROVE  PlacedFrom(p, s, i, j)
<1> DEFINE at == [k \in i .. Len(p) + 1 |-> IF k < i + c THEN j ELSE to[k]]
<1>1. /\ at \in [i .. Len(p) + 1 -> 1 .. Len(s) + 1]
      /\ \A k \in i .. i + c - 1 : at[k] = j
      /\ \A k \in i + c .. Len(p) + 1 : at[k] = to[k]
  BY DEF Places
<1> HIDE DEF at
<1>2. at[i] = j /\ at[i + c] = m /\ AtEnd(s, at[Len(p) + 1])
  BY <1>1 DEF Places
<1>3. ASSUME NEW k \in i .. Len(p)
      PROVE  Takes(p, s, i, k, at[k], at[k + 1])
  <2>1. CASE k \in i + c .. Len(p)
    <3>1. Takes(p, s, i + c, k, to[k], to[k + 1]) /\ at[k] = to[k] /\ at[k + 1] = to[k + 1]
      BY <1>1, <2>1 DEF Places
    <3>. QED BY <2>1, <3>1 DEF Takes
  <2>2. CASE c = 1 /\ k = i
    BY <1>2, <2>2
  <2>3. CASE c = 2 /\ k = i
    <3>1. at[i + 1] = j
      BY <1>1, <2>3
    <3>. QED BY <1>2, <2>3, <3>1
  <2>4. CASE c = 2 /\ k = i + 1
    <3>1. at[i + 1] = j /\ at[(i + 1) + 1] = m
      BY <1>1, <1>2, <2>4
    <3>. QED BY <2>4, <3>1
  <2>. QED BY <2>1, <2>2, <2>3, <2>4
<1>4. Places(p, s, i, j, at)
  BY <1>1, <1>2, <1>3 DEF Places
<1>. QED BY <1>4, PlacedIsPlaces

(* A literal character stands where the path is.                            *)
LEMMA PlacedLiteral ==
    ASSUME NEW p, Len(p) \in Nat, NEW s, Len(s) \in Nat,
           NEW i \in 1 .. Len(p), NEW j \in 1 .. Len(s) + 1, p[i] # Star
    PROVE  PlacedFrom(p, s, i, j) <=> j <= Len(s) /\ p[i] = s[j] /\ PlacedFrom(p, s, i + 1, j + 1)
<1>1. \A k \in i + 1 .. Len(p) : Single(p, i, k) <=> Single(p, i + 1, k)
  BY SingleAfterLiteral
<1>2. ASSUME NEW at, Places(p, s, i, j, at)
      PROVE  j <= Len(s) /\ p[i] = s[j] /\ PlacedFrom(p, s, i + 1, j + 1)
  <2>1. at[i + 1] \in 1 .. Len(s) + 1 /\ PlacedFrom(p, s, i + 1, at[i + 1])
    BY <1>1, <1>2, PlacesDropFirst
  <2>2. at[i + 1] = j + 1 /\ s[j] = p[i]
    BY <1>2 DEF Places, Takes
  <2>. QED BY <2>1, <2>2
<1>3. ASSUME j <= Len(s), p[i] = s[j], NEW to, Places(p, s, i + 1, j + 1, to)
      PROVE  PlacedFrom(p, s, i, j)
  <2>1. Takes(p, s, i, i, j, j + 1)
    BY <1>3 DEF Takes
  <2>. QED BY <1>1, <1>3, <2>1, PlacesAddFirst
<1>. QED BY <1>2, <1>3, PlacedIsPlaces

(* A single star stands for a part of one segment.                          *)
LEMMA PlacedSingleStar ==
    ASSUME NEW p, Len(p) \in Nat, NEW s, Len(s) \in Nat,
           NEW i \in 1 .. Len(p), NEW j \in 1 .. Len(s) + 1,
           p[i] = Star, ~(i < Len(p) /\ p[i + 1] = Star)
    PROVE  PlacedFrom(p, s, i, j) <=>
           \E k \in j .. Len(s) + 1 : Without(s, j, k, Slash) /\ PlacedFrom(p, s, i + 1, k)
<1>1. Single(p, i, i) /\ \A k \in i + 1 .. Len(p) : Single(p, i, k) <=> Single(p, i + 1, k)
  BY SingleAfterSingle
<1>2. ASSUME NEW at, Places(p, s, i, j, at)
      PROVE  \E k \in j .. Len(s) + 1 : Without(s, j, k, Slash) /\ PlacedFrom(p, s, i + 1, k)
  <2>1. at[i + 1] \in 1 .. Len(s) + 1 /\ PlacedFrom(p, s, i + 1, at[i + 1])
    BY <1>1, <1>2, PlacesDropFirst
  <2>2. Takes(p, s, i, i, j, at[i + 1])
    BY <1>2 DEF Places
  <2>3. j <= at[i + 1] /\ Without(s, j, at[i + 1], Slash)
    BY <1>1, <2>2 DEF Takes
  <2>4. at[i + 1] \in j .. Len(s) + 1
    BY <2>1, <2>3
  <2>. QED BY <2>1, <2>3, <2>4
<1>3. ASSUME NEW k \in j .. Len(s) + 1, Without(s, j, k, Slash), NEW to, Places(p, s, i + 1, k, to)
      PROVE  PlacedFrom(p, s, i, j)
  <2>1. Takes(p, s, i, i, j, k)
    BY <1>1, <1>3 DEF Takes
  <2>. QED BY <1>1, <1>3, <2>1, PlacesAddFirst
<1>. QED BY <1>2, <1>3, PlacedIsPlaces

(* A ** stands for a part of one line.                                      *)
LEMMA PlacedDoubleStar ==
    ASSUME NEW p, Len(p) \in Nat, NEW s, Len(s) \in Nat,
           NEW i \in 1 .. Len(p), NEW j \in 1 .. Len(s) + 1,
           p[i] = Star, i < Len(p), p[i + 1] = Star
    PROVE  PlacedFrom(p, s, i, j) <=>
           \E k \in j .. Len(s) + 1 : Without(s, j, k, Newline) /\ PlacedFrom(p, s, i + 2, k)
<1>1. /\ ~Single(p, i, i) /\ ~Single(p, i, i + 1)
      /\ \A k \in i + 2 .. Len(p) : Single(p, i, k) <=> Single(p, i + 2, k)
  BY SingleAfterPair
<1>2. ASSUME NEW at, Places(p, s, i, j, at)
      PROVE  \E k \in j .. Len(s) + 1 : Without(s, j, k, Newline) /\ PlacedFrom(p, s, i + 2, k)
  <2>1. at[i + 2] \in 1 .. Len(s) + 1 /\ PlacedFrom(p, s, i + 2, at[i + 2])
    BY <1>1, <1>2, PlacesDropFirst
  <2>2. /\ Takes(p, s, i, i, j, at[i + 1]) /\ Takes(p, s, i, i + 1, at[i + 1], at[i + 2])
        /\ at[i + 1] \in 1 .. Len(s) + 1
    <3>1. i \in i .. Len(p) /\ i + 1 \in i .. Len(p) /\ i + 1 \in i .. Len(p) + 1 /\ (i + 1) + 1 = i + 2
      OBVIOUS
    <3>. QED BY <1>2, <3>1 DEF Places
  <2>3. /\ j <= at[i + 1] /\ Without(s, j, at[i + 1], Newline)
        /\ at[i + 1] <= at[i + 2] /\ Without(s, at[i + 1], at[i + 2], Newline)
    BY <1>1, <2>2 DEF Takes
  <2>4. at[i + 2] \in j .. Len(s) + 1 /\ Without(s, j, at[i + 2], Newline)
    BY <2>1, <2>2, <2>3 DEF Without
  <2>. QED BY <2>1, <2>4
<1>3. ASSUME NEW k \in j .. Len(s) + 1, Without(s, j, k, Newline), NEW to, Places(p, s, i + 2, k, to)
      PROVE  PlacedFrom(p, s, i, j)
  <2>1. Takes(p, s, i, i, j, j) /\ Takes(p, s, i, i + 1, j, k)
    BY <1>1, <1>3 DEF Takes, Without
  <2>. QED BY <1>1, <1>3, <2>1, PlacesAddFirst
<1>. QED BY <1>2, <1>3, PlacedIsPlaces

(* The recursion of GlobMatches: what its function holds, and that it is    *)
(* such a function.                                                         *)
Fits(f, p, s, i, j) ==
    IF i > Len(p) THEN AtEnd(s, j)
    ELSE IF p[i] = Star
    THEN IF i < Len(p) /\ p[i + 1] = Star
         THEN \E k \in j .. Len(s) + 1 : Without(s, j, k, Newline) /\ f[i + 2][k]
         ELSE \E k \in j .. Len(s) + 1 : Without(s, j, k, Slash) /\ f[i + 1][k]
    ELSE j <= Len(s) /\ p[i] = s[j] /\ f[i + 1][j + 1]

IsFits(f, p, s) ==
    f = [i \in 1 .. Len(p) + 1 |-> [j \in 1 .. Len(s) + 1 |-> Fits(f, p, s, i, j)]]

(* Where the function tells the places of the rest of the pattern, the next *)
(* step tells those from i on.                                              *)
LEMMA FitsStep ==
    ASSUME NEW p, Len(p) \in Nat, NEW s, Len(s) \in Nat,
           NEW i \in 1 .. Len(p) + 1, NEW j \in 1 .. Len(s) + 1, NEW f,
           \A h \in 1 .. Len(p) + 1, k \in 1 .. Len(s) + 1 :
              h > i => (f[h][k] <=> PlacedFrom(p, s, h, k))
    PROVE  Fits(f, p, s, i, j) <=> PlacedFrom(p, s, i, j)
<1>1. CASE i = Len(p) + 1
  <2>1. Fits(f, p, s, i, j) <=> AtEnd(s, j)
    BY <1>1 DEF Fits
  <2>. QED BY <1>1, <2>1, PlacedAtEnd
<1>2. CASE i \in 1 .. Len(p) /\ p[i] # Star
  <2>1. Fits(f, p, s, i, j) <=> j <= Len(s) /\ p[i] = s[j] /\ f[i + 1][j + 1]
    BY <1>2 DEF Fits
  <2>2. j <= Len(s) => (f[i + 1][j + 1] <=> PlacedFrom(p, s, i + 1, j + 1))
    BY <1>2
  <2>. QED BY <1>2, <2>1, <2>2, PlacedLiteral
<1>3. CASE i \in 1 .. Len(p) /\ p[i] = Star /\ i < Len(p) /\ p[i + 1] = Star
  <2>1. Fits(f, p, s, i, j) <=>
           \E k \in j .. Len(s) + 1 : Without(s, j, k, Newline) /\ f[i + 2][k]
    BY <1>3 DEF Fits
  <2>2. \A k \in j .. Len(s) + 1 : f[i + 2][k] <=> PlacedFrom(p, s, i + 2, k)
    BY <1>3
  <2>. QED BY <1>3, <2>1, <2>2, PlacedDoubleStar
<1>4. CASE i \in 1 .. Len(p) /\ p[i] = Star /\ ~(i < Len(p) /\ p[i + 1] = Star)
  <2>1. Fits(f, p, s, i, j) <=>
           \E k \in j .. Len(s) + 1 : Without(s, j, k, Slash) /\ f[i + 1][k]
    BY <1>4 DEF Fits
  <2>2. \A k \in j .. Len(s) + 1 : f[i + 1][k] <=> PlacedFrom(p, s, i + 1, k)
    BY <1>4
  <2>. QED BY <1>4, <2>1, <2>2, PlacedSingleStar
<1>. QED BY <1>1, <1>2, <1>3, <1>4

(* There is such a function ...                                             *)
LEMMA FitsExist ==
    ASSUME NEW p, Len(p) \in Nat, NEW s, Len(s) \in Nat
    PROVE  \E f : IsFits(f, p, s)
<1> DEFINE g == [i \in 1 .. Len(p) + 1 |-> [j \in 1 .. Len(s) + 1 |-> PlacedFrom(p, s, i, j)]]
<1>1. \A i \in 1 .. Len(p) + 1, j \in 1 .. Len(s) + 1 : g[i][j] = PlacedFrom(p, s, i, j)
  OBVIOUS
<1>2. \A i \in 1 .. Len(p) + 1, j \in 1 .. Len(s) + 1 : PlacedFrom(p, s, i, j) = Fits(g, p, s, i, j)
  <2> HIDE DEF g
  <2> SUFFICES ASSUME NEW i \in 1 .. Len(p) + 1, NEW j \in 1 .. Len(s) + 1
               PROVE  PlacedFrom(p, s, i, j) = Fits(g, p, s, i, j)
    OBVIOUS
  <2>1. PlacedFrom(p, s, i, j) \in BOOLEAN /\ Fits(g, p, s, i, j) \in BOOLEAN
    <3>1. PlacedFrom(p, s, i, j) \in BOOLEAN
      BY Zenon DEF PlacedFrom
    <3>2. CASE i > Len(p)
      BY <3>1, <3>2 DEF Fits, AtEnd
    <3>3. CASE ~(i > Len(p)) /\ p[i] # Star
      BY <3>1, <3>3 DEF Fits
    <3>4. CASE ~(i > Len(p)) /\ p[i] = Star /\ i < Len(p) /\ p[i + 1] = Star
      BY <3>1, <3>4 DEF Fits
    <3>5. CASE ~(i > Len(p)) /\ p[i] = Star /\ ~(i < Len(p) /\ p[i + 1] = Star)
      BY <3>1, <3>5 DEF Fits
    <3>. QED BY <3>2, <3>3, <3>4, <3>5
  <2>2. Fits(g, p, s, i, j) <=> PlacedFrom(p, s, i, j)
    BY <1>1, FitsStep
  <2>. QED BY <2>1, <2>2
<1>3. IsFits(g, p, s)
  BY <1>2, Zenon DEF IsFits
<1>. QED BY <1>3

(* ... and what it holds is where the pattern has its places: the last i    *)
(* for which it did not would be followed by those for which it does.       *)
LEMMA FitsArePlaces ==
    ASSUME NEW p, Len(p) \in Nat, NEW s, Len(s) \in Nat, NEW f, IsFits(f, p, s)
    PROVE  \A i \in 1 .. Len(p) + 1, j \in 1 .. Len(s) + 1 : f[i][j] <=> PlacedFrom(p, s, i, j)
<1>1. \A i \in 1 .. Len(p) + 1, j \in 1 .. Len(s) + 1 : f[i][j] = Fits(f, p, s, i, j)
  <2> SUFFICES ASSUME NEW i \in 1 .. Len(p) + 1, NEW j \in 1 .. Len(s) + 1
               PROVE  f[i][j] = Fits(f, p, s, i, j)
    OBVIOUS
  <2>1. f[i] = [k \in 1 .. Len(s) + 1 |-> Fits(f, p, s, i, k)]
    BY Zenon DEF IsFits
  <2>. QED BY <2>1, Zenon
<1> DEFINE Wrong(i) == \E j \in 1 .. Len(s) + 1 : ~(f[i][j] <=> PlacedFrom(p, s, i, j))
           N == {n \in 0 .. Len(p) : Wrong(Len(p) + 1 - n)}
<1> SUFFICES ASSUME N # {} PROVE FALSE
  <2>1. \A i \in 1 .. Len(p) + 1 : Len(p) + 1 - i \in 0 .. Len(p) /\ Len(p) + 1 - (Len(p) + 1 - i) = i
    OBVIOUS
  <2> HIDE DEF Wrong
  <2>2. N = {} => \A i \in 1 .. Len(p) + 1 : ~Wrong(i)
    BY <2>1
  <2>. QED BY <2>2 DEF Wrong
<1>2. PICK n \in N : \A m \in N : ~(m < n)
  <2>1. N \in SUBSET Nat
    OBVIOUS
  <2> HIDE DEF N
  <2>. QED BY <2>1, LeastExists
<1> DEFINE i == Len(p) + 1 - n
<1>3. i \in 1 .. Len(p) + 1 /\ Wrong(i)
  OBVIOUS
<1>4. \A h \in 1 .. Len(p) + 1 : h > i => ~Wrong(h)
  <2> HIDE DEF Wrong
  <2> SUFFICES ASSUME NEW h \in 1 .. Len(p) + 1, h > i, Wrong(h) PROVE FALSE
    OBVIOUS
  <2>1. /\ Len(p) + 1 - h \in 0 .. Len(p) /\ Len(p) + 1 - (Len(p) + 1 - h) = h
        /\ Len(p) + 1 - h < n
    OBVIOUS
  <2>2. Len(p) + 1 - h \in N
    BY <2>1
  <2>. QED BY <1>2, <2>1, <2>2
<1> HIDE DEF i, N
<1>5. PICK j \in 1 .. Len(s) + 1 : ~(f[i][j] <=> PlacedFrom(p, s, i, j))
  BY <1>3
<1>6. Fits(f, p, s, i, j) <=> PlacedFrom(p, s, i, j)
  BY <1>3, <1>4, FitsStep
<1>. QED BY <1>1, <1>3, <1>5, <1>6

(* The matcher of _glob_to_regex, one character after the other with every  *)
(* choice a star leaves, finds a path exactly if the path falls into one    *)
(* piece for every character of the pattern: the character itself, a part   *)
(* of a segment for a single star, a part of a line for a star of a pair,   *)
(* and at most a newline left at the end.  For patterns and paths of any    *)
(* length.                                                                  *)
THEOREM GlobsMatchWhatHasPlaces ==
    ASSUME NEW p, Len(p) \in Nat, NEW s, Len(s) \in Nat
    PROVE  GlobMatches(p, s) <=> HasPlaces(p, s)
<1> DEFINE f == CHOOSE g : IsFits(g, p, s)
<1>1. IsFits(f, p, s)
  BY FitsExist, Zenon
<1>2. GlobMatches(p, s) = f[1][1]
  BY Zenon DEF GlobMatches, IsFits, Fits
<1> HIDE DEF f
<1>3. 1 \in 1 .. Len(p) + 1 /\ 1 \in 1 .. Len(s) + 1
  OBVIOUS
<1>4. f[1][1] <=> PlacedFrom(p, s, 1, 1)
  BY <1>1, <1>3, FitsArePlaces
<1>. QED BY <1>2, <1>4 DEF HasPlaces

(* Where a pattern begins that is not a slash.                              *)
Begins(p, i) ==
    /\ i \in 1 .. Len(p) + 1
    /\ \A j \in 1 .. i - 1 : p[j] = Slash
    /\ i <= Len(p) => p[i] # Slash

(* There is one such place, and Stripped is the pattern from there on.      *)
LEMMA StrippedFacts ==
    ASSUME NEW p, Len(p) \in Nat
    PROVE  /\ \E i : Begins(p, i)
           /\ \A i : Begins(p, i) =>
                 /\ Len(Stripped(p)) = Len(p) + 1 - i
                 /\ \A j \in 1 .. Len(p) + 1 - i : Stripped(p)[j] = p[i + j - 1]
<1> DEFINE A == {i \in 1 .. Len(p) + 1 : i <= Len(p) => p[i] # Slash}
           first == CHOOSE i \in 1 .. Len(p) + 1 :
                       /\ \A j \in 1 .. i - 1 : p[j] = Slash
                       /\ i <= Len(p) => p[i] # Slash
<1>1. PICK n \in A : \A m \in A : ~(m < n)
  <2>1. Len(p) + 1 \in A /\ A \in SUBSET Nat
    OBVIOUS
  <2> HIDE DEF A
  <2>. QED BY <2>1, LeastExists
<1>2. Begins(p, n)
  BY <1>1 DEF Begins
<1>3. Begins(p, first)
  BY <1>2, Zenon DEF Begins
<1>4. Stripped(p) = SubSeq(p, first, Len(p))
  BY DEF Stripped
<1> HIDE DEF first
<1>5. \A i : Begins(p, i) => i = first
  <2> SUFFICES ASSUME NEW i, Begins(p, i), i # first PROVE FALSE
    OBVIOUS
  <2>1. CASE i < first
    BY <1>3, <2>1 DEF Begins
  <2>2. CASE first < i
    BY <1>3, <2>2 DEF Begins
  <2>. QED BY <1>3, <2>1, <2>2 DEF Begins
<1>6. /\ Len(SubSeq(p, first, Len(p))) = Len(p) + 1 - first
      /\ \A j \in 1 .. Len(p) + 1 - first : SubSeq(p, first, Len(p))[j] = p[first + j - 1]
  <2> DEFINE S == {p[i] : i \in first .. Len(p)}
  <2>1. first \in 1 .. Len(p) + 1 /\ \A i \in first .. Len(p) : p[i] \in S
    BY <1>3 DEF Begins
  <2> HIDE DEF S
  <2>2. /\ Len(SubSeq(p, first, Len(p))) = IF first <= Len(p) THEN Len(p) - first + 1 ELSE 0
        /\ \A j \in 1 .. Len(p) - first + 1 : SubSeq(p, first, Len(p))[j] = p[first + j - 1]
    BY <2>1, SubSeqProperties
  <2>3. Len(p) - first + 1 = Len(p) + 1 - first
    BY <2>1
  <2>. QED BY <2>1, <2>2, <2>3
<1>. QED BY <1>2, <1>4, <1>5, <1>6

(* Without the slashes in front a pattern is a sequence still.              *)
LEMMA StrippedIsSequence ==
    ASSUME NEW p, Len(p) \in Nat
    PROVE  Len(Stripped(p)) \in Nat
<1>1. PICK i : Begins(p, i)
  BY StrippedFacts
<1>. QED BY <1>1, StrippedFacts DEF Begins

(* The places of a pattern that ends in its only stars, two of them: each   *)
(* character at its own, as each has its neighbour in front, and the rest   *)
(* of the path is one line.                                                 *)
LEMMA PrefixPlaces ==
    ASSUME NEW r, NEW n \in Nat, Len(r) = n + 2, NEW s, Len(s) \in Nat,
           \A i \in 1 .. n : r[i] # Star, r[n + 1] = Star, r[n + 2] = Star
    PROVE  HasPlaces(r, s) <=> /\ n <= Len(s) /\ \A i \in 1 .. n : r[i] = s[i]
                               /\ Without(s, n + 1, Len(s), Newline)
<1> DEFINE last == n + 3
<1>1. ~Single(r, 1, n + 1) /\ ~Single(r, 1, n + 2)
  <2>1. ~Single(r, 1, n + 1)
    BY DEF Single
  <2>2. ASSUME NEW h \in 1 .. n + 2, \A l \in h .. n + 2 : r[l] = Star,
               h > 1 => r[h - 1] # Star, ((n + 2) - h) % 2 = 0
        PROVE  FALSE
    <3>1. ~(h \in 1 .. n)
      <4>1. h \in 1 .. n => h \in h .. n + 2
        OBVIOUS
      <4>. QED BY <2>2, <4>1
    <3>2. CASE h = n + 1
      <4>1. (n + 2) - (n + 1) = 1
        OBVIOUS
      <4>. QED BY <2>2, <3>2, <4>1
    <3>3. CASE h = n + 2
      <4>1. h > 1 /\ h - 1 = n + 1
        BY <3>3
      <4>. QED BY <2>2, <4>1
    <3>. QED BY <3>1, <3>2, <3>3
  <2>. QED BY <2>1, <2>2 DEF Single
<1>2. ASSUME NEW at, Places(r, s, 1, 1, at)
      PROVE  /\ n <= Len(s) /\ \A i \in 1 .. n : r[i] = s[i]
             /\ Without(s, n + 1, Len(s), Newline)
  <2>1. /\ at[1] = 1 /\ AtEnd(s, at[last])
        /\ \A i \in 1 .. last : at[i] \in 1 .. Len(s) + 1
        /\ \A i \in 1 .. n : at[i + 1] = at[i] + 1 /\ s[at[i]] = r[i]
        /\ at[n + 1] <= at[n + 2] /\ Without(s, at[n + 1], at[n + 2], Newline)
        /\ at[n + 2] <= at[last] /\ Without(s, at[n + 2], at[last], Newline)
    <3>1. \A i \in 1 .. n + 2 : Takes(r, s, 1, i, at[i], at[i + 1])
      BY <1>2 DEF Places
    <3>2. \A i \in 1 .. n : i \in 1 .. n + 2
      OBVIOUS
    <3>3. /\ n + 1 \in 1 .. n + 2 /\ n + 2 \in 1 .. n + 2
          /\ (n + 1) + 1 = n + 2 /\ (n + 2) + 1 = last
      OBVIOUS
    <3>4. \A i \in 1 .. n : at[i + 1] = at[i] + 1 /\ s[at[i]] = r[i]
      BY <3>1, <3>2 DEF Takes
    <3>5. Takes(r, s, 1, n + 1, at[n + 1], at[n + 2]) /\ Takes(r, s, 1, n + 2, at[n + 2], at[last])
      BY <3>1, <3>3
    <3>6. /\ at[n + 1] <= at[n + 2] /\ Without(s, at[n + 1], at[n + 2], Newline)
          /\ at[n + 2] <= at[last] /\ Without(s, at[n + 2], at[last], Newline)
      BY <1>1, <3>5 DEF Takes
    <3>. QED BY <1>2, <3>4, <3>6 DEF Places
  <2>2. \A i \in 1 .. n + 1 : at[i] = i
    <3> DEFINE N == {i \in 1 .. n + 1 : at[i] # i}
    <3> SUFFICES ASSUME N # {} PROVE FALSE
      OBVIOUS
    <3>1. PICK k \in N : \A m \in N : ~(m < k)
      <4>1. N \in SUBSET Nat
        OBVIOUS
      <4> HIDE DEF N
      <4>. QED BY <4>1, LeastExists
    <3>2. k # 1
      BY <2>1
    <3>3. k - 1 \in 1 .. n /\ k - 1 \notin N
      BY <3>1, <3>2
    <3>4. at[k - 1] = k - 1 /\ k = (k - 1) + 1
      BY <3>3
    <3>. QED BY <2>1, <3>3, <3>4
  <2>3. at[n + 1] = n + 1
    BY <2>2
  <2>4. n <= Len(s)
    BY <2>1, <2>3
  <2>5. ASSUME NEW i \in 1 .. n
        PROVE  r[i] = s[i]
    <3>1. at[i] = i
      BY <2>2
    <3>. QED BY <2>1, <3>1
  <2>6. Without(s, n + 1, Len(s), Newline)
    <3>1. /\ at[n + 2] \in Nat /\ at[last] \in Nat /\ at[last] >= Len(s)
      BY <2>1 DEF AtEnd
    <3>2. \A l \in n + 1 .. Len(s) - 1 : l \in n + 1 .. at[n + 2] - 1 \/ l \in at[n + 2] .. at[last] - 1
      BY <3>1
    <3>. QED BY <2>1, <2>3, <3>2 DEF Without
  <2>. QED BY <2>4, <2>5, <2>6
<1>3. ASSUME n <= Len(s), \A i \in 1 .. n : r[i] = s[i], Without(s, n + 1, Len(s), Newline)
      PROVE  \E at : Places(r, s, 1, 1, at)
  <2> DEFINE end == IF n < Len(s) /\ s[Len(s)] = Newline THEN Len(s) ELSE Len(s) + 1
             at == [i \in 1 .. last |-> IF i <= n + 1 THEN i ELSE IF i = n + 2 THEN n + 1 ELSE end]
  <2>1. /\ end \in n + 1 .. Len(s) + 1 /\ AtEnd(s, end) /\ Without(s, n + 1, end, Newline)
    BY <1>3 DEF AtEnd, Without
  <2> HIDE DEF end
  <2>2. /\ at \in [1 .. last -> 1 .. Len(s) + 1]
        /\ \A i \in 1 .. n + 1 : at[i] = i
        /\ at[n + 2] = n + 1 /\ at[last] = end
    BY <1>3, <2>1
  <2> HIDE DEF at
  <2>3. ASSUME NEW k \in 1 .. n + 2
        PROVE  Takes(r, s, 1, k, at[k], at[k + 1])
    <3>1. CASE k \in 1 .. n
      <4>1. at[k] = k /\ at[k + 1] = k + 1
        BY <2>2, <3>1
      <4>. QED BY <1>3, <3>1, <4>1 DEF Takes
    <3>2. CASE k = n + 1
      <4>1. at[k] = n + 1 /\ at[k + 1] = n + 1
        BY <2>2, <3>2
      <4>. QED BY <1>1, <3>2, <4>1 DEF Takes, Without
    <3>3. CASE k = n + 2
      <4>1. at[k] = n + 1 /\ at[k + 1] = end
        BY <2>2, <3>3
      <4>. QED BY <1>1, <2>1, <3>3, <4>1 DEF Takes
    <3>. QED BY <3>1, <3>2, <3>3
  <2>4. at[1] = 1 /\ AtEnd(s, at[last])
    BY <2>1, <2>2
  <2>5. Places(r, s, 1, 1, at)
    BY <2>2, <2>3, <2>4 DEF Places
  <2>. QED BY <2>5
<1>4. HasPlaces(r, s) <=> \E at : Places(r, s, 1, 1, at)
  BY PlacedIsPlaces DEF HasPlaces
<1>. QED BY <1>2, <1>3, <1>4

(* What a directory in a rule means: a pattern without a star matches all   *)
(* that begins with it; with a ** behind it only those of these paths that  *)
(* have no newline behind the prefix, or only as their last character; a    *)
(* slash in front changes nothing (_path_matches).                          *)
THEOREM PrefixMeansEverythingBelow ==
    ASSUME NEW S, Star \in S, Slash \in S, Star # Slash, None \notin Seq(S),
           NEW p \in Seq(S), NEW s \in Seq(S)
    PROVE  PrefixAndDoubleStar(p, s)
<1> SUFFICES ASSUME ~HasStar(p)
             PROVE  /\ PathMatches(p \o <<Star, Star>>, s) <=>
                         PathMatches(p, s) /\ Without(s, Len(Stripped(p)) + 1, Len(s), Newline)
                    /\ PathMatches(<<Slash>> \o p, s) <=> PathMatches(p, s)
  BY DEF PrefixAndDoubleStar
<1> DEFINE q == Stripped(p)
           long  == p \o <<Star, Star>>
           front == <<Slash>> \o p
<1>1. /\ Len(p) \in Nat /\ Len(s) \in Nat
      /\ long \in Seq(S) /\ Len(long) = Len(p) + 2
      /\ \A i \in 1 .. Len(p) : long[i] = p[i]
      /\ long[Len(p) + 1] = Star /\ long[Len(p) + 2] = Star
  OBVIOUS
<1>2. front \in Seq(S) /\ Len(front) = Len(p) + 1 /\ front[1] = Slash
      /\ \A i \in 1 .. Len(p) : front[i + 1] = p[i]
  OBVIOUS
<1> HIDE DEF long, front
<1>3. PICK b : Begins(p, b)
  BY <1>1, StrippedFacts
<1> DEFINE n == Len(p) + 1 - b
<1>4. n \in Nat /\ Len(q) = n /\ \A j \in 1 .. n : q[j] = p[b + j - 1]
  <2>1. Len(q) = n /\ \A j \in 1 .. n : q[j] = p[b + j - 1]
    BY <1>1, <1>3, StrippedFacts
  <2> HIDE DEF q
  <2>. QED BY <1>1, <1>3, <2>1 DEF Begins
<1>5. \A j \in 1 .. n : q[j] # Star
  <2> SUFFICES ASSUME NEW j \in 1 .. n PROVE q[j] # Star
    OBVIOUS
  <2>1. b + j - 1 \in 1 .. Len(p)
    BY <1>1, <1>3 DEF Begins
  <2> HIDE DEF n, q
  <2>. QED BY <1>4, <2>1 DEF HasStar
<1> HIDE DEF q
<1>6. PathMatches(p, s) <=> n <= Len(s) /\ \A i \in 1 .. n : q[i] = s[i]
  <2>1. ~HasStar(q) /\ p # None
    BY <1>4, <1>5 DEF HasStar
  <2>. QED BY <1>4, <2>1 DEF PathMatches, IsPrefixOf, q
<1>7. PathMatches(long, s) <=> PathMatches(p, s) /\ Without(s, n + 1, Len(s), Newline)
  <2> DEFINE r == Stripped(long)
  <2>1. Begins(long, b)
    <3>1. b \in 1 .. Len(long) + 1 /\ \A j \in 1 .. b - 1 : j \in 1 .. Len(p) /\ p[j] = Slash
      BY <1>1, <1>3 DEF Begins
    <3>2. CASE b <= Len(p)
      <4>1. long[b] = p[b] /\ p[b] # Slash
        BY <1>1, <1>3, <3>2 DEF Begins
      <4>. QED BY <1>1, <3>1, <4>1 DEF Begins
    <3>3. CASE b = Len(p) + 1
      BY <1>1, <3>1, <3>3 DEF Begins
    <3>. QED BY <1>1, <1>3, <3>2, <3>3 DEF Begins
  <2>2. Len(r) = n + 2 /\ \A j \in 1 .. n + 2 : r[j] = long[b + j - 1]
    <3>1. Len(long) + 1 - b = n + 2
      BY <1>1, <1>3 DEF Begins
    <3>2. /\ Len(r) = Len(long) + 1 - b
          /\ \A j \in 1 .. Len(long) + 1 - b : r[j] = long[b + j - 1]
      <4>1. Len(long) \in Nat
        BY <1>1
      <4>. QED BY <2>1, <4>1, StrippedFacts
    <3> HIDE DEF r, n
    <3>. QED BY <3>1, <3>2
  <2>3. /\ \A j \in 1 .. n : r[j] = q[j]
        /\ r[n + 1] = Star /\ r[n + 2] = Star
    <3>1. \A j \in 1 .. n : b + j - 1 \in 1 .. Len(p)
      BY <1>1, <1>3 DEF Begins
    <3>2. b + (n + 1) - 1 = Len(p) + 1 /\ b + (n + 2) - 1 = Len(p) + 2
      BY <1>1, <1>3 DEF Begins
    <3>3. n + 1 \in 1 .. n + 2 /\ n + 2 \in 1 .. n + 2 /\ \A j \in 1 .. n : j \in 1 .. n + 2
      BY <1>4
    <3> HIDE DEF n, r
    <3>. QED BY <1>1, <1>4, <2>2, <3>1, <3>2, <3>3
  <2> HIDE DEF r, n
  <2>4. HasStar(r) /\ Len(r) \in Nat
    BY <1>4, <2>2, <2>3 DEF HasStar
  <2>5. GlobMatches(r, s) <=> HasPlaces(r, s)
    BY <1>1, <2>4, GlobsMatchWhatHasPlaces
  <2>6. HasPlaces(r, s) <=> /\ n <= Len(s) /\ \A i \in 1 .. n : r[i] = s[i]
                            /\ Without(s, n + 1, Len(s), Newline)
    <3>1. \A i \in 1 .. n : r[i] # Star
      BY <1>5, <2>3
    <3>2. n \in Nat /\ Len(r) = n + 2 /\ Len(s) \in Nat /\ r[n + 1] = Star /\ r[n + 2] = Star
      BY <1>1, <1>4, <2>2, <2>3
    <3>. QED BY <3>1, <3>2, PrefixPlaces, Zenon
  <2>7. PathMatches(long, s) <=> GlobMatches(r, s)
    BY <1>1, <2>4 DEF PathMatches, r
  <2>. QED BY <1>6, <2>3, <2>5, <2>6, <2>7
<1>8. PathMatches(front, s) <=> PathMatches(p, s)
  <2> DEFINE r == Stripped(front)
  <2>1. Begins(front, b + 1)
    <3>1. b + 1 \in 1 .. Len(front) + 1
      BY <1>1, <1>2, <1>3 DEF Begins
    <3>2. ASSUME NEW j \in 1 .. (b + 1) - 1
          PROVE  front[j] = Slash
      <4>1. CASE j = 1
        BY <1>2, <4>1
      <4>2. CASE j > 1
        <5>1. j - 1 \in 1 .. b - 1 /\ j - 1 \in 1 .. Len(p) /\ (j - 1) + 1 = j
          BY <1>1, <1>3, <4>2 DEF Begins
        <5>. QED BY <1>2, <1>3, <5>1 DEF Begins
      <4>. QED BY <1>3, <4>1, <4>2 DEF Begins
    <3>3. b + 1 <= Len(front) => front[b + 1] # Slash
      BY <1>1, <1>2, <1>3 DEF Begins
    <3>. QED BY <3>1, <3>2, <3>3 DEF Begins
  <2>2. Len(r) = n /\ \A j \in 1 .. n : r[j] = front[(b + 1) + j - 1]
    <3>1. Len(front) + 1 - (b + 1) = n
      BY <1>1, <1>2, <1>3 DEF Begins
    <3>2. /\ Len(r) = Len(front) + 1 - (b + 1)
          /\ \A j \in 1 .. Len(front) + 1 - (b + 1) : r[j] = front[(b + 1) + j - 1]
      <4>1. Len(front) \in Nat
        BY <1>1, <1>2
      <4>. QED BY <2>1, <4>1, StrippedFacts
    <3> HIDE DEF r, n
    <3>. QED BY <3>1, <3>2
  <2>3. \A j \in 1 .. n : r[j] = q[j]
    <3> SUFFICES ASSUME NEW j \in 1 .. n PROVE r[j] = q[j]
      OBVIOUS
    <3>1. b + j - 1 \in 1 .. Len(p) /\ (b + 1) + j - 1 = (b + j - 1) + 1
      BY <1>1, <1>3 DEF Begins
    <3> HIDE DEF n, r
    <3>. QED BY <1>2, <1>4, <2>2, <3>1
  <2> HIDE DEF r, n
  <2>4. ~HasStar(r)
    BY <1>5, <2>2, <2>3 DEF HasStar
  <2>5. front # None
    BY <1>2
  <2>6. PathMatches(front, s) <=> n <= Len(s) /\ \A i \in 1 .. n : r[i] = s[i]
    BY <2>2, <2>4, <2>5 DEF PathMatches, IsPrefixOf, r
  <2>. QED BY <1>6, <2>3, <2>6
<1>9. Len(Stripped(p)) + 1 = n + 1
  BY <1>4 DEF q
<1> HIDE DEF n
<1>. QED BY <1>7, <1>8, <1>9 DEF long, front

(* A rule matches the paths its pattern reaches.                            *)
LEMMA MatchingIsReaching ==
    ASSUME NEW r \in Menu, NEW q \in Queries
    PROVE  PathMatches(r.pattern, q.path) <=> Reaches(r.pattern, q.path)
<1>1. CASE r.pattern = None
  BY <1>1 DEF PathMatches, Reaches
<1>2. CASE r.pattern # None
  <2>1. Len(Stripped(r.pattern)) \in Nat /\ Len(q.path) \in Nat
    BY <1>2, MenuTyped, StrippedIsSequence
  <2>2. GlobMatches(Stripped(r.pattern), q.path) <=> HasPlaces(Stripped(r.pattern), q.path)
    BY <2>1, GlobsMatchWhatHasPlaces
  <2>. QED BY <1>2, <2>2, Zenon DEF PathMatches, Reaches
<1>. QED BY <1>1, <1>2

(* A rule alone decides what it applies to, and nothing else.               *)
LEMMA OneRuleDecides ==
    ASSUME NEW r \in Menu, NEW q, NEW f \in Fields
    PROVE  Permits(<<r>>, q, f) <=> Applies(r, q) /\ r[f] = "allow"
<1> DEFINE one == <<r>>
           S == Matching(one, q, f)
<1>1. one \in Lists /\ Len(one) = 1 /\ one[1] = r
  BY DEF Lists
<1> HIDE DEF one
<1>2. \A i \in S : i = 1
  BY <1>1 DEF Matching
<1>3. 1 \in S <=> Applies(r, q) /\ r[f] # None
  BY <1>1 DEF Matching
<1>4. ASSUME NEW P \in SUBSET S
      PROVE  PotDecision(one, P, f) = IF 1 \in P THEN r[f] ELSE None
  <2>1. P # {} => MostSpecific(one, P) = 1 /\ PotDecision(one, P, f) = one[MostSpecific(one, P)][f]
    BY <1>1, <1>2, PotDecides
  <2>2. P = {} => PotDecision(one, P, f) = None
    BY DEF PotDecision
  <2>. QED BY <1>1, <1>2, <2>1, <2>2
<1> HIDE DEF S
<1> DEFINE Says(P) == IF 1 \in P THEN r[f] ELSE None
<1>5. /\ Pair(one, q, f) = Says(PairPot(one, S)) /\ User(one, q, f) = Says(UserPot(one, S))
      /\ Client(one, q, f) = Says(ClientPot(one, S)) /\ Global(one, q, f) = Says(GlobalPot(one, S))
      /\ Kind(one, q, f) = Says(KindPot(one, S))
  BY <1>4, PotsArePots DEF Pair, User, Client, Global, Kind, S
<1>6. r[f] \in Decisions \cup {None} /\ None \notin Decisions
  BY MenuTyped
<1>7. Permits(one, q, f) <=>
         Verdict(Scope(Pair(one, q, f), User(one, q, f), Client(one, q, f), Global(one, q, f)), Kind(one, q, f))
  BY <1>1, PermitsByPots
<1>8. CASE 1 \notin S
  <2>1. \A P \in SUBSET S : Says(P) = None
    BY <1>8
  <2>2. /\ Pair(one, q, f) = None /\ User(one, q, f) = None /\ Client(one, q, f) = None
        /\ Global(one, q, f) = None /\ Kind(one, q, f) = None
    BY <1>5, <2>1, PotsArePots
  <2>3. ~Permits(one, q, f)
    BY <1>6, <1>7, <2>2 DEF Verdict, Scope, Decisions
  <2>. QED BY <1>3, <1>6, <1>8, <2>3 DEF one, Decisions
<1>9. CASE 1 \in S
  <2>1. 1 \in PairPot(one, S) \/ 1 \in UserPot(one, S) \/ 1 \in ClientPot(one, S) \/ 1 \in GlobalPot(one, S)
    BY <1>9 DEF PairPot, UserPot, ClientPot, GlobalPot
  <2>2. Scope(Pair(one, q, f), User(one, q, f), Client(one, q, f), Global(one, q, f)) = r[f]
    BY <1>3, <1>5, <1>6, <1>9, <2>1 DEF Scope, Decisions
  <2>3. Kind(one, q, f) \in {None, r[f]}
    BY <1>5
  <2>4. Permits(one, q, f) <=> r[f] = "allow"
    BY <1>3, <1>6, <1>7, <1>9, <2>2, <2>3 DEF Verdict, Decisions
  <2>. QED BY <1>3, <1>9, <2>4 DEF one
<1>. QED BY <1>8, <1>9

(* A rule that does not apply may as well be left out.                      *)
LEMMA IdleRuleIsNothing ==
    ASSUME NEW l \in Lists, NEW i \in 1 .. Len(l), NEW q, NEW f \in Fields, ~Applies(l[i], q)
    PROVE  Permits(RemoveAt(l, i), q, f) <=> Permits(l, q, f)
<1> DEFINE n == Len(l)
           k == RemoveAt(l, i)
           e == [j \in 1 .. n - 1 |-> IF j < i THEN j ELSE j + 1]
<1>1. n \in Nat /\ \A j \in 1 .. n : l[j] \in Menu
  BY DEF Lists
<1>2. /\ k \in Lists /\ Len(k) = n - 1
      /\ \A j \in 1 .. n - 1 : k[j] = l[IF j < i THEN j ELSE j + 1]
  <2> DEFINE front == SubSeq(l, 1, i - 1)
             back  == SubSeq(l, i + 1, n)
  <2>1. /\ front \in Seq(Menu) /\ Len(front) = i - 1
        /\ \A j \in 1 .. i - 1 : front[j] = l[j]
    <3>1. \A j \in 1 .. i - 1 : l[j] \in Menu
      BY <1>1
    <3>. QED BY <1>1, <3>1, SubSeqProperties
  <2>2. /\ back \in Seq(Menu) /\ Len(back) = n - i
        /\ \A j \in 1 .. n - i : back[j] = l[i + j]
    <3>1. \A j \in i + 1 .. n : l[j] \in Menu
      BY <1>1
    <3>. QED BY <1>1, <3>1, SubSeqProperties
  <2>3. k = front \o back
    BY DEF RemoveAt
  <2> HIDE DEF k, front, back
  <2>4. /\ k \in Seq(Menu) /\ Len(k) = n - 1
        /\ \A j \in 1 .. n - 1 : k[j] = IF j <= i - 1 THEN front[j] ELSE back[j - (i - 1)]
    <3>1. /\ front \o back \in Seq(Menu)
          /\ Len(front \o back) = Len(front) + Len(back)
          /\ \A j \in 1 .. Len(front) + Len(back) :
                (front \o back)[j] = IF j <= Len(front) THEN front[j] ELSE back[j - Len(front)]
      BY <2>1, <2>2, ConcatProperties
    <3>2. Len(front) + Len(back) = n - 1
      BY <1>1, <2>1, <2>2
    <3>. QED BY <2>1, <2>3, <3>1, <3>2
  <2>5. \A j \in 1 .. n - 1 : k[j] = l[IF j < i THEN j ELSE j + 1]
    <3> SUFFICES ASSUME NEW j \in 1 .. n - 1
                 PROVE  k[j] = l[IF j < i THEN j ELSE j + 1]
      OBVIOUS
    <3>1. CASE j < i
      BY <1>1, <2>1, <2>4, <3>1
    <3>2. CASE ~(j < i)
      <4>1. j - (i - 1) \in 1 .. n - i /\ i + (j - (i - 1)) = j + 1
        BY <1>1, <3>2
      <4>. QED BY <1>1, <2>2, <2>4, <3>2, <4>1
    <3>. QED BY <3>1, <3>2
  <2>. QED BY <2>4, <2>5 DEF Lists
<1>3. \A j \in 1 .. n - 1 : e[j] = IF j < i THEN j ELSE j + 1
  OBVIOUS
<1>4. e \in [1 .. Len(k) -> 1 .. Len(l)]
  BY <1>1, <1>2
<1> HIDE DEF e, k
<1>5. \A j \in 1 .. Len(k) : l[e[j]] = k[j]
  BY <1>1, <1>2, <1>3
<1>6. ASSUME NEW x \in 1 .. Len(l), x # i
      PROVE  \E j \in 1 .. Len(k) : x = e[j]
  <2>1. CASE x < i
    <3>1. x \in 1 .. n - 1 /\ e[x] = x
      BY <1>1, <1>3, <2>1
    <3>. QED BY <1>2, <3>1
  <2>2. CASE x > i
    <3>1. x - 1 \in 1 .. n - 1 /\ e[x - 1] = x
      BY <1>1, <1>3, <2>2
    <3>. QED BY <1>2, <3>1
  <2>. QED BY <1>1, <1>6, <2>1, <2>2
<1>7. Embeds(k, l, e, {i})
  BY <1>2, <1>4, <1>5, <1>6 DEF Embeds
<1>8. KeepsTies(k, e, Matching(k, q, f))
  <2>1. \A x, y \in 1 .. n - 1 : x <= y => e[x] <= e[y]
    BY <1>1, <1>3
  <2>. QED BY <1>2, <2>1 DEF KeepsTies, Matching
<1>9. \A x \in {i} : x \notin Matching(l, q, f)
  BY DEF Matching
<1>10. ASSUME ~(Permits(l, q, f) <=> Permits(k, q, f))
       PROVE  FALSE
  <2> DEFINE new == {i}
             v == None
  <2>1. v \in Decisions \cup {None} /\ \A x \in new : x \in Matching(l, q, f) => l[x][f] = v
    BY <1>9
  <2>2. Embeds(k, l, e, new) /\ \A x \in new : x \notin Matching(l, q, f)
    BY <1>7, <1>9
  <2> HIDE DEF new, v
  <2>. QED BY <1>8, <1>10, <2>1, <2>2, PermitsFollows
<1>. QED BY <1>10 DEF k

(* Whatever the list of rules: a rule takes part in the decisions about the *)
(* paths its pattern reaches and in no other, and alone it decides there    *)
(* (_path_matches, _glob_to_regex, _matches).                               *)
THEOREM PatternsKeepToTheirPaths == Spec => []RulesKeepToTheirPaths
<1>1. RulesTyped => RulesKeepToTheirPaths
  <2> SUFFICES ASSUME rules \in Lists, NEW i \in 1 .. Len(rules), NEW q \in Queries, NEW f \in Fields
               PROVE  LET rule == rules[i]
                          fits == /\ rule.user \in {None, q.user} /\ rule.client \in {None, q.client}
                                  /\ rule.kind \in {None, q.kind}
                      IN  IF <<rule, q>> \in Reached
                          THEN Permits(<<rule>>, q, f) <=> fits /\ rule[f] = "allow"
                          ELSE Permits(RemoveAt(rules, i), q, f) <=> Permits(rules, q, f)
    BY DEF RulesTyped, RulesKeepToTheirPaths
  <2>1. rules[i] \in Menu
    BY DEF Lists
  <2>2. PathMatches(rules[i].pattern, q.path) <=> <<rules[i], q>> \in Reached
    BY <2>1, MatchingIsReaching DEF Reached
  <2>3. Permits(<<rules[i]>>, q, f) <=> Applies(rules[i], q) /\ rules[i][f] = "allow"
    BY <2>1, OneRuleDecides
  <2>4. CASE <<rules[i], q>> \in Reached
    BY <2>2, <2>3, <2>4 DEF Applies
  <2>5. CASE <<rules[i], q>> \notin Reached
    BY <2>2, <2>5, IdleRuleIsNothing DEF Applies
  <2>. QED BY <2>4, <2>5
<1>. QED BY <1>1, RulesAreTyped, PTL
=============================================================================
