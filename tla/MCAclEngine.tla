---------------------------- MODULE MCAclEngine ----------------------------
(* Two users and two clients, a tree of four files and a dozen rules.       *)
EXTENDS AclEngine

CONSTANTS alice, bob, web, bot, a, b, dot

Rule(user, client, pattern, kind, read, write) ==
    [user |-> user, client |-> client, pattern |-> pattern, kind |-> kind,
     read |-> read, write |-> write]

(* a, b/a, the PII file b/a and a file of b with a newline in its name.     *)
MCQueries ==
    {[user |-> u, client |-> c, path |-> f.path, kind |-> f.kind] :
        u \in {alice, bob}, c \in {web, bot},
        f \in {[path |-> <<a>>, kind |-> "md"],
               [path |-> <<b, Slash, a>>, kind |-> "md"],
               [path |-> <<b, Slash, a, dot>>, kind |-> "pii.json"],
               [path |-> <<b, Slash, a, Newline, a>>, kind |-> "md"]}}

(* Everyone, a user, a client or the pair of them; the tree, a directory or *)
(* a glob; writing, or reading.                                             *)
Scopes == {<<None, None>>, <<alice, None>>, <<None, web>>, <<alice, web>>}

MCMenu ==
    {Rule(s[1], s[2], p, None, None, w) :
        s \in Scopes, p \in {<<Slash>>, <<b, Slash, Star>>}, w \in Decisions}
    \cup {Rule(s[1], s[2], p, "pii.json", None, w) :
        s \in {<<None, None>>, <<None, web>>}, p \in {None, <<Slash, b>>}, w \in Decisions}
    \cup {Rule(alice, None, <<b, Slash, a>>, None, "deny", None),
          Rule(None, None, <<Slash>>, None, "allow", None),
          Rule(None, bot, <<Star, a>>, None, None, "allow"),
          Rule(None, None, <<b, Slash, Star, Star>>, None, None, "deny")}

(* Prefixes with and without the slash in front.                            *)
MCPrefixMenu ==
    {Rule(alice, None, p, None, None, w) : p \in {<<Slash>>, <<b>>, <<Slash, b>>,
                                                  <<b, Slash, a>>,
                                                  <<b, Slash, Star, Star>>}, w \in Decisions}
    \cup {Rule(None, web, <<Slash>>, None, None, w) : w \in Decisions}

(* Every pattern and every path of a few characters.                        *)
ASSUME GlobsMeanWhatTheySay ==
    \A pattern \in BoundedSeq({a, Slash, Newline, Star}, 4),
       path \in BoundedSeq({a, Slash, Newline}, 4) :
       /\ HasStar(pattern) => (GlobMatches(pattern, path) <=> HasPlaces(pattern, path))
       /\ PrefixAndDoubleStar(pattern, path)
=============================================================================
