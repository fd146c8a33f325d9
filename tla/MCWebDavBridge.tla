--------------------------- MODULE MCWebDavBridge ---------------------------
(* Three texts, of which one is no UTF-8, a skill, which the API takes for  *)
(* a text, and two other files; a content with CRLF and the same with LF.   *)
EXTENDS WebDavBridge, TLC

CONSTANTS w1, w2, t1, t2, t3, s1, b1, b2, crlf, lf, latin1

MCWorkers == {w1, w2}
MCText    == {t1, t2, t3, s1}
MCSkill   == {s1}
MCBinary  == {b1, b2}
MCContents == {crlf, lf, latin1}
MCNotUtf8  == {latin1}
MCAsText   == [c \in MCContents |-> IF c = crlf THEN lf ELSE c]
MCInitial  == [p \in MCText \cup MCBinary |->
                 IF p \in {t1, s1, b1} THEN crlf ELSE IF p = t3 THEN latin1 ELSE None]

Ask(method, p, to, c) == [method |-> method, path |-> p, dest |-> to, body |-> c]

MCMenu ==
    {Ask(method, p, p, lf) : method \in {"GET", "PUT", "DELETE"}, p \in {t1, b1}}
    \cup {Ask(method, p, IF p = t1 THEN t2 ELSE b2, lf) : method \in {"MOVE", "COPY"}, p \in {t1, b1}}
    \cup {Ask("PUT", t2, t2, crlf), Ask("MOVE", t2, t1, lf), Ask("COPY", b1, t2, lf),
          Ask("GET", s1, s1, lf), Ask("MOVE", s1, t2, lf), Ask("COPY", t1, s1, lf),
          Ask("GET", t3, t3, lf), Ask("MOVE", t1, t3, lf), Ask("PUT", t1, t1, latin1)}

MCClaims == {Ask("MOVE", t1, t2, lf), Ask("MOVE", t2, t1, lf), Ask("GET", s1, s1, lf),
             Ask("DELETE", s1, s1, lf)}
MCLf     == [MCInitial EXCEPT ![t1] = lf]

WorkerSymmetry == Permutations(MCWorkers)
=============================================================================
