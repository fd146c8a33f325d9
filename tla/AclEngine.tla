----------------------------- MODULE AclEngine -----------------------------
(***************************************************************************)
(* /_system/acl.json as the rules it holds, which the administrator edits  *)
(* one at a time, and the access those rules give.  Every request reads    *)
(* the file anew (load_acl_rules), so its content is the engine's only     *)
(* state.                                                                  *)
(***************************************************************************)
EXTENDS GlobPatterns

CONSTANTS Queries,  \* the requests asked about: user, client, path and kind
          Menu,     \* the rules the administrator writes
          MaxRules  \* bound: rules in the file

VARIABLES rules     \* a sequence of rules; None: there is no acl.json

ASSUME MenuTyped ==
    /\ MaxRules \in Nat
    /\ \A r \in Menu : {r[f] : f \in Fields} \subseteq Decisions \cup {None}
    /\ \A r \in Menu : r.pattern # None => Len(r.pattern) \in Nat
    /\ \A q \in Queries : Len(q.path) \in Nat
    /\ None \notin Decisions /\ None \notin Seq(Menu)

-----------------------------------------------------------------------------
Init == rules = None

(* The first acl.json.                                                      *)
Create == rules = None /\ rules' = << >>

(* A rule more at the end of the list, or in front of it.                   *)
Grows(r) == rules' \in {Append(rules, r), <<r>> \o rules}

Add(r) == rules # None /\ Len(rules) < MaxRules /\ Grows(r)

DeleteFile == rules # None /\ rules' = None

Next == Create \/ DeleteFile \/ \E r \in Menu : Add(r)

Spec == Init /\ [][Next]_rules

-----------------------------------------------------------------------------
(* A rule that joins the list changes the answer to a request only if it    *)
(* names the field and applies to the request, and then only to what it     *)
(* says: a rule that is silent never shadows one that speaks, an allowance  *)
(* never takes a right away and a denial never gives one                    *)
(* (_scope_decision, _kind_gate_decision, _most_specific).                  *)
RulesActOnlyWhereTheySpeak ==
    [][\A r \in Menu : rules # None /\ rules' # None /\ Grows(r) =>
         \A q \in Queries, f \in Fields :
            Permits(rules', q, f) # Permits(rules, q, f) =>
               /\ Applies(r, q)
               /\ r[f] = IF Permits(rules', q, f) THEN "allow" ELSE "deny"]_rules

(* Once there is an acl.json, nothing is permitted that no rule allows:     *)
(* the default is to deny, whatever the file leaves out (AclEngine's        *)
(* docstring, "fail-closed").                                               *)
NothingWithoutAnAllow ==
    rules # None =>
       \A q \in Queries, f \in Fields :
          Permits(rules, q, f) =>
             \E i \in 1 .. Len(rules) : rules[i][f] = "allow" /\ Applies(rules[i], q)

Strongest(S) ==
    {i \in S : \A j \in S : Specificity(rules[j].pattern) <= Specificity(rules[i].pattern)}

(* What the most specific rules for a kind agree to deny is denied, also    *)
(* where a rule for the very pair of user and client allows it (engine.py,  *)
(* step 2 of its docstring).                                                *)
KindBansHold(q, f) ==
    LET best == Strongest(KindPot(rules, Matching(rules, q, f)))
    IN  best # {} /\ (\A i \in best : rules[i][f] = "deny") => ~Permits(rules, q, f)

(* Where no rule for a kind applies, the most specific rules for the pair   *)
(* of user and client decide alone, against whatever the rules for the      *)
(* user, the client or everyone say (engine.py, step 1).                    *)
PairRulesDecide(q, f) ==
    LET S    == Matching(rules, q, f)
        best == Strongest(PairPot(rules, S))
    IN  /\ KindPot(rules, S) = {} /\ best # {}
        => \E i \in best : Permits(rules, q, f) <=> rules[i][f] = "allow"

(* The steps of the engine's docstring, over every list of rules: a ban on  *)
(* a kind holds against every scope, and a rule for the pair of user and    *)
(* client against every other scope, however many rules compete, however    *)
(* specific they are and in whatever order they were written.               *)
PrecedenceHolds ==
    rules # None => \A q \in Queries, f \in Fields : KindBansHold(q, f) /\ PairRulesDecide(q, f)

(* The order of the rules matters only between rules that are equally       *)
(* specific: without ties, the file read backwards gives the same rights.   *)
OrderBreaksOnlyTies ==
    rules # None =>
       LET backwards == [i \in 1 .. Len(rules) |-> rules[Len(rules) + 1 - i]]
           untied(S) == \A i, j \in S : Specificity(rules[i].pattern)
                                          = Specificity(rules[j].pattern) => i = j
       IN  \A q \in Queries, f \in Fields :
              untied(Matching(rules, q, f)) =>
                 (Permits(rules, q, f) <=> Permits(backwards, q, f))

Reached == {rq \in Menu \X Queries : Reaches(rq[1].pattern, rq[2].path)}

(* A rule that does not reach a path, as its characters say, takes no part  *)
(* in any decision about it, whatever other rules it competes with; one     *)
(* that reaches it and stands alone decides (_path_matches, _matches): a    *)
(* star keeps to its directory, a ** to its line, a pattern without a star  *)
(* goes below it whatever the path holds.                                   *)
RulesKeepToTheirPaths ==
    rules # None =>
       \A i \in 1 .. Len(rules), q \in Queries, f \in Fields :
          LET rule == rules[i]
              fits == /\ rule.user \in {None, q.user} /\ rule.client \in {None, q.client}
                      /\ rule.kind \in {None, q.kind}
          IN  IF <<rule, q>> \in Reached
              THEN Permits(<<rule>>, q, f) <=> fits /\ rule[f] = "allow"
              ELSE Permits(RemoveAt(rules, i), q, f) <=> Permits(rules, q, f)

(* docs/spec.en.md:163: "`**` also matches across `/`".  A rule for         *)
(* everything below a directory, written with ** behind the directory,      *)
(* decides about all that the directory alone would reach.                  *)
DoubleStarsCoverTheirDirectory ==
    rules # None =>
       \A i \in 1 .. Len(rules), q \in Queries :
          LET p   == rules[i].pattern
              dir == SubSeq(p, 1, Len(p) - 2)
          IN  /\ p # None /\ Len(p) > 2
              /\ p = dir \o <<Star, Star>> /\ ~HasStar(dir)
              => (PathMatches(p, q.path) <=> PathMatches(dir, q.path))

(* docs/spec.en.md:160: "The first matching, more specific rule wins (path  *)
(* prefix before the general /)".  Of two prefixes for the same user that   *)
(* match a path, the one that covers less of the tree decides.              *)
LongerPrefixDecides ==
    rules # None /\ Len(rules) = 2 =>
       \A q \in Queries, f \in Fields, i, j \in 1 .. 2 :
          LET inner == rules[i]
              outer == rules[j]
          IN  /\ {i, j} \subseteq UserPot(rules, Matching(rules, q, f))
              /\ {inner.kind, outer.kind} = {None}
              /\ None \notin {inner.pattern, outer.pattern}
              /\ ~HasStar(inner.pattern) /\ ~HasStar(outer.pattern)
              /\ Len(Stripped(outer.pattern)) < Len(Stripped(inner.pattern))
              => (Permits(rules, q, f) <=> inner[f] = "allow")
=============================================================================
