-------------------------- MODULE MCClientRegistry --------------------------
(* Instances of ClientRegistry for TLC: one client with two kids, another    *)
(* one that may be created, two threads of the server and one call of the    *)
(* command line.                                                             *)
EXTENDS ClientRegistry, TLC

CONSTANTS s1, s2, cli, server, shell, web, bot, k1, k2

MCActors    == {s1, s2, cli}
MCProcesses == {server, shell}
MCProcessOf == [a \in MCActors |-> IF a = cli THEN shell ELSE server]
MCClientIds == {web, bot}
MCKids      == {k1, k2}

CreateWeb == [op |-> "create", client |-> web, agent |-> FALSE, fixed |-> FALSE]
CreateBot == [op |-> "create", client |-> bot, agent |-> TRUE, fixed |-> TRUE]
IssuesOn  == [op |-> "update", client |-> web, issues |-> TRUE]
Simple(op, c) == [op |-> op, client |-> c]
Key(op, k)    == [op |-> op, client |-> web, kid |-> k]
Generate(k, f) == [op |-> "generate", client |-> web, kid |-> k, force |-> f]
Token(c, k, n, e) == [iss |-> c, kid |-> k, pub |-> n, expired |-> e]
Login(n, t)    == [op |-> "resolve", key |-> n, token |-> t]

(* web has the API key 1 and, under k1, the key pair 2.                      *)
MCInitial ==
    [c \in MCClientIds |->
        IF c = web
        THEN [key |-> 1, revoked |-> FALSE, issues |-> FALSE, fixed |-> FALSE,
              kids |-> [k \in MCKids |-> IF k = k1 THEN [pub |-> 2, active |-> TRUE] ELSE None]]
        ELSE None]

(* The life of web's credentials, and requests that use them.                *)
KeyHistory ==
    { Key("addKey", k1), Key("addKey", k2), Key("revokeKey", k1), Simple("rotate", web),
      Simple("revoke", web), Login(1, Token(web, k1, 2, FALSE)) }

(* The other calls, and ways to refuse them.                                *)
AllForms ==
    KeyHistory \cup
    { Generate(k2, TRUE), Generate(k2, FALSE), CreateBot, CreateWeb, IssuesOn, Key("revokeKey", k2), [op |-> "list"], Login(3, None),
      Login(1, Malformed), Login(1, Token(web, k1, 2, TRUE)) }

(* A client without key pairs, and two commands that generate one.          *)
NoPairs      == [MCInitial EXCEPT ![web].kids = [k \in MCKids |-> None]]
TwoShells    == [a \in MCActors |-> IF a = cli THEN shell ELSE IF a = s2 THEN "other" ELSE server]
RacingShells == {server, shell, "other"}
PairHistory  == {Generate(k1, FALSE), Generate(k2, FALSE), Generate(k2, TRUE)}

ServerThreads == Permutations({s1, s2})
=============================================================================
