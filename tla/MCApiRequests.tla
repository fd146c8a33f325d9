--------------------------- MODULE MCApiRequests ---------------------------
(* Three callers, a note, a PII file, a scan and two lists of rules: one    *)
(* lets alice write everything, the other only read the note.               *)
EXTENDS ApiRequests

CONSTANTS c1, c2, alice, root, web, note, pii, scan, aclJson, chN, chP, chS, chI

MCPair    == {c1, c2}
MCFiles   == {note, pii, scan}
MCTextOf  == [x \in {note, pii, scan, aclJson} |->
                 CASE x = note -> <<chN>> [] x = pii -> <<chN, Slash, chP>> [] x = aclJson -> <<chS>>
                   [] x = scan -> <<chI>>]
MCKindOf  == [x \in {note, pii, scan, aclJson} |->
                 CASE x = note -> "md" [] x = pii -> "pii.json" [] x = aclJson -> "json"
                   [] x = scan -> "binary"]

Rule(user, pattern, kind, read, write) ==
    [user |-> user, client |-> None, pattern |-> pattern, kind |-> kind,
     read |-> read, write |-> write]

Opened == <<Rule(alice, <<Slash>>, None, "allow", "allow")>>
Closed == <<Rule(alice, <<Slash>>, None, "allow", None),
            Rule(alice, <<chN, Slash>>, None, None, "allow")>>

MCAclFiles == {Opened, Closed}

Ask(op, user, paths, to) ==
    [op |-> op, user |-> user, client |-> web, genuine |-> TRUE, wellFormed |-> TRUE,
     paths |-> paths, acl |-> to]

(* Every handler, with every way to fail it has.                            *)
MCForms ==
    {Ask("read", alice, <<x>>, Closed) : x \in {note, pii}}
    \cup {Ask("tree", alice, << >>, Closed), Ask("audit", alice, << >>, Closed),
          Ask("audit", root, << >>, Closed),
          Ask("batch", alice, <<note, pii>>, Closed), Ask("batch", root, <<aclJson, note>>, Closed),
          Ask("write", alice, <<aclJson>>, Opened), Ask("delete", root, <<aclJson>>, Closed),
          Ask("delete", alice, <<note>>, Closed), Ask("edit", alice, <<note>>, Closed)}
    \cup {[Ask(o, alice, <<pii>>, Closed) EXCEPT !.wellFormed = FALSE] :
             o \in {"edit", "write", "upload"}}
    \cup {Ask(o, alice, <<scan>>, Closed) : o \in {"content", "upload", "edit"}}
    \cup {Ask(o, alice, <<note>>, Closed) : o \in {"content", "upload"}}
    \cup {[Ask("write", root, <<aclJson>>, Opened) EXCEPT !.genuine = FALSE]}
    \cup {Ask("write", root, <<aclJson>>, to) : to \in {Closed, Broken}}

(* Changes of a note and of the PII file while the rules change and break,  *)
(* a body that is no request, and a tree.                                   *)
MCClaims ==
    {Ask("batch", alice, <<pii, note>>, Closed), Ask("edit", alice, <<note>>, Closed),
     Ask("edit", alice, <<pii>>, Closed), Ask("write", alice, <<note>>, Closed),
     Ask("tree", alice, << >>, Closed),
     [Ask("write", alice, <<note>>, Closed) EXCEPT !.wellFormed = FALSE]}
    \cup {Ask("write", root, <<aclJson>>, to) : to \in {Closed, Broken, Opened}}
=============================================================================
