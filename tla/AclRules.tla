------------------------------ MODULE AclRules ------------------------------
(***************************************************************************)
(* The ACL engine (acl/engine.py) as operators.  A rule names any of a     *)
(* user, a client, a path pattern and a kind, and allows or denies reading *)
(* or writing; what it does not name it says nothing about.  Paths and     *)
(* patterns are sequences of characters.                                   *)
(***************************************************************************)
EXTENDS Naturals, Sequences, FiniteSets

CONSTANTS None, Star, Slash, Newline

Fields    == {"read", "write"}
Decisions == {"allow", "deny"}

-----------------------------------------------------------------------------
(* Patterns                                                                 *)

HasStar(pattern) == \E i \in 1 .. Len(pattern) : pattern[i] = Star

(* str.lstrip("/")                                                          *)
Stripped(pattern) ==
    LET first == CHOOSE i \in 1 .. Len(pattern) + 1 :
                    /\ \A j \in 1 .. i - 1 : pattern[j] = Slash
                    /\ i <= Len(pattern) => pattern[i] # Slash
    IN  SubSeq(pattern, first, Len(pattern))

IsPrefixOf(s, t) == Len(s) <= Len(t) /\ \A i \in 1 .. Len(s) : s[i] = t[i]

(* path[j .. k - 1] without a character.                                    *)
Without(path, j, k, char) == \A l \in j .. k - 1 : path[l] # char

(* The $ of a regular expression: the end, or a newline that ends the path. *)
AtEnd(path, j) == j > Len(path) \/ (j = Len(path) /\ path[j] = Newline)

(* The regular expression of a pattern: ** is .*, which stops at a newline, *)
(* a single * anything but a slash, newlines included, every other          *)
(* character itself.  fits[i][j]: the pattern from i on matches the path    *)
(* from j on.                                                               *)
GlobMatches(pattern, path) ==
    LET fits[i \in 1 .. Len(pattern) + 1] ==
            [j \in 1 .. Len(path) + 1 |->
                IF i > Len(pattern) THEN AtEnd(path, j)
                ELSE IF pattern[i] = Star
                THEN IF i < Len(pattern) /\ pattern[i + 1] = Star
                     THEN \E k \in j .. Len(path) + 1 :
                             Without(path, j, k, Newline) /\ fits[i + 2][k]
                     ELSE \E k \in j .. Len(path) + 1 :
                             Without(path, j, k, Slash) /\ fits[i + 1][k]
                ELSE j <= Len(path) /\ pattern[i] = path[j] /\ fits[i + 1][j + 1]]
    IN  fits[1][1]

PathMatches(pattern, path) ==
    \/ pattern = None
    \/ /\ pattern # None
       /\ IF HasStar(Stripped(pattern)) THEN GlobMatches(Stripped(pattern), path)
          ELSE IsPrefixOf(Stripped(pattern), path)

(* Literal characters, a leading slash included.                            *)
Specificity(pattern) ==
    IF pattern = None THEN 0
    ELSE Cardinality({i \in 1 .. Len(pattern) : pattern[i] # Star})

-----------------------------------------------------------------------------
(* Rules.  A request is a record of user, client, path and kind.            *)

(* Mutant: a pattern without a star is a glob like the others.              *)
AppliesGlobsOnly(rule, q) ==
    /\ rule.user # None => rule.user = q.user
    /\ rule.client # None => rule.client = q.client
    /\ rule.pattern # None => GlobMatches(Stripped(rule.pattern), q.path)
    /\ rule.kind # None => rule.kind = q.kind

Applies(rule, q) ==
    /\ rule.user # None => rule.user = q.user
    /\ rule.client # None => rule.client = q.client
    /\ PathMatches(rule.pattern, q.path)
    /\ rule.kind # None => rule.kind = q.kind

(* Mutant: a rule that is silent on the field counts all the same.          *)
MatchingSilent(rules, q, field) == {i \in 1 .. Len(rules) : Applies(rules[i], q)}

(* Positions of the rules that say something of the field and apply.        *)
Matching(rules, q, field) ==
    {i \in 1 .. Len(rules) : rules[i][field] # None /\ Applies(rules[i], q)}

PairPot(rules, S)   == {i \in S : rules[i].user # None /\ rules[i].client # None}
UserPot(rules, S)   == {i \in S : rules[i].user # None /\ rules[i].client = None}
ClientPot(rules, S) == {i \in S : rules[i].user = None /\ rules[i].client # None}
GlobalPot(rules, S) == {i \in S : rules[i].user = None /\ rules[i].client = None}
KindPot(rules, S)   == {i \in S : rules[i].kind # None}

(* Mutant: the last of the rules that apply.                                *)
MostSpecificLast(rules, S) == CHOOSE i \in S : \A j \in S : j <= i

(* Python's max: of the most specific rules the first.                      *)
MostSpecific(rules, S) ==
    CHOOSE i \in S :
       \A j \in S : LET si == Specificity(rules[i].pattern)
                        sj == Specificity(rules[j].pattern)
                    IN  si > sj \/ (si = sj /\ i <= j)

PotDecision(rules, S, field) ==
    IF S = {} THEN None ELSE rules[MostSpecific(rules, S)][field]

(* Mutant: the pair rules are one pot of four.                              *)
ScopeDecisionPairVotes(rules, q, field) ==
    LET S     == Matching(rules, q, field)
        votes == {PotDecision(rules, P, field) :
                     P \in {PairPot(rules, S), UserPot(rules, S),
                            ClientPot(rules, S), GlobalPot(rules, S)}}
    IN  IF "deny" \in votes THEN "deny"
        ELSE IF "allow" \in votes THEN "allow"
        ELSE None

(* A pair rule decides alone; otherwise any pot that denies.                *)
ScopeDecision(rules, q, field) ==
    LET S     == Matching(rules, q, field)
        votes == {PotDecision(rules, P, field) :
                     P \in {UserPot(rules, S), ClientPot(rules, S), GlobalPot(rules, S)}}
    IN  IF PairPot(rules, S) # {} THEN PotDecision(rules, PairPot(rules, S), field)
        ELSE IF "deny" \in votes THEN "deny"
        ELSE IF "allow" \in votes THEN "allow"
        ELSE None

KindGate(rules, q, field) ==
    PotDecision(rules, KindPot(rules, Matching(rules, q, field)), field)

(* Mutant: what nothing denies is allowed.                                  *)
PermitsByDefault(rules, q, field) ==
    IF rules = None THEN TRUE
    ELSE "deny" \notin {ScopeDecision(rules, q, field), KindGate(rules, q, field)}

(* can_read, can_write.  rules is None as long as there is no acl.json.     *)
Permits(rules, q, field) ==
    IF rules = None THEN TRUE
    ELSE LET said == {ScopeDecision(rules, q, field), KindGate(rules, q, field)}
         IN  "deny" \notin said /\ "allow" \in said
=============================================================================
