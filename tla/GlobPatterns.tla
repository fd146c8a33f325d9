---------------------------- MODULE GlobPatterns ----------------------------
(***************************************************************************)
(* The patterns of the rules (_glob_to_regex, _path_matches), and an       *)
(* independent way to say what a pattern matches.                          *)
(***************************************************************************)
EXTENDS AclRules, SequencesExt

(* Stars pair up from the left: k is the single star that a run of an odd   *)
(* number of them leaves, in a pattern read from i on.                      *)
Single(pattern, i, k) ==
    /\ k < Len(pattern) => pattern[k + 1] # Star
    /\ \E h \in i .. k : /\ \A l \in h .. k : pattern[l] = Star
                         /\ h > i => pattern[h - 1] # Star
                         /\ (k - h) % 2 = 0

(* The piece path[from .. to - 1] that a character k of the pattern stands  *)
(* for: itself; for a single star a part of one segment (models.py,         *)
(* AclRule); for a star of a pair a part of one line, across segments.      *)
Takes(pattern, path, i, k, from, to) ==
    IF pattern[k] # Star THEN to = from + 1 /\ path[from] = pattern[k]
    ELSE from <= to /\ Without(path, from, to, IF Single(pattern, i, k) THEN Slash ELSE Newline)

(* The path from j on falls into one piece for every character of the       *)
(* pattern from i on; what is left at its end is at most one newline.       *)
PlacedFrom(pattern, path, i, j) ==
    LET last == Len(pattern) + 1
    IN  \E at \in [i .. last -> 1 .. Len(path) + 1] :
           /\ at[i] = j /\ AtEnd(path, at[last])
           /\ \A k \in i .. Len(pattern) : Takes(pattern, path, i, k, at[k], at[k + 1])

(* A glob matches the whole path, never a part of it (models.py, AclRule:   *)
(* "gegen den VOLLEN Pfad gematcht").                                       *)
HasPlaces(pattern, path) == PlacedFrom(pattern, path, 1, 1)

(* What path_prefix of a rule says: everything, what begins with it, or     *)
(* what its characters have their places in.                                *)
Reaches(pattern, path) ==
    \/ pattern = None
    \/ /\ pattern # None
       /\ IF HasStar(Stripped(pattern)) THEN HasPlaces(Stripped(pattern), path)
          ELSE IsPrefixOf(Stripped(pattern), path)

(* A pattern without a star is the prefix of the paths it matches.  With ** *)
(* behind it it also crosses slashes, but matches those of the paths only   *)
(* that have no newline behind the prefix, or only as their last character; *)
(* a slash in front of it means nothing (_path_matches).                    *)
PrefixAndDoubleStar(pattern, path) ==
    ~HasStar(pattern) =>
       /\ PathMatches(pattern \o <<Star, Star>>, path) <=>
             /\ PathMatches(pattern, path)
             /\ Without(path, Len(Stripped(pattern)) + 1, Len(path), Newline)
       /\ PathMatches(<<Slash>> \o pattern, path) <=> PathMatches(pattern, path)
=============================================================================
