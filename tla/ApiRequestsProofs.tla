------------------------- MODULE ApiRequestsProofs -------------------------
(***************************************************************************)
(* Proofs about ApiRequests for any callers, files, rules, requests and    *)
(* pool sizes: what changes the tree was permitted, what is answered is on *)
(* record, PII is flagged, and broken rules let nothing through.  What a   *)
(* rule permits is left open: all of this holds whatever Permits says.     *)
(***************************************************************************)
EXTENDS ApiRequests, FiniteSetTheorems, TLAPS

Places ==
    {"idle", "toAcl", "acl", "toAuth", "auth", "toHandler", "handler",
     "body", "storage", "locked", "reply"}

Users    == {m.user : m \in Menu}
Clients  == {m.client : m \in Menu}
Requests == [id: Ids, base: [Paths -> Nat], op: Ops, user: Users, client: Clients,
             genuine: BOOLEAN, wellFormed: BOOLEAN, paths: Seq(Paths), acl: AclFiles \cup {Broken}]
Extras   == [pii: BOOLEAN, commit: Nat]
Records  == [id: Ids, user: Users \cup {None}, result: {"success", "denied", "error"},
             pii: BOOLEAN, commit: Nat]

StateTyped ==
    /\ tree \in [Paths -> Nat] /\ acl \in Acls /\ issued \in Nat
    /\ pc \in [Callers -> Places]
    /\ req \in [Callers -> Requests \cup {NoRequest}]
    /\ seen \in [Callers -> Acls]
    /\ who \in [Callers -> Users \cup {None}]
    /\ extra \in [Callers -> Extras]
    /\ status \in [Callers -> Statuses]
    /\ since \in [Callers -> SUBSET Acls]
    /\ log \in Seq(Records)
    /\ outcome \in [Ids -> Statuses \cup {None}]
    /\ done \in [Ids -> Nat]

(* The lock and the loop are held by whom the program counters say, and the *)
(* pool is never larger than it was made.                                   *)
HoldersOK ==
    /\ lock \in Callers \cup {Nobody} /\ loop \in Callers \cup {Nobody}
    /\ \A c \in Callers :
         /\ pc[c] = "locked" <=> lock = c
         /\ loop = c => pc[c] \in {"storage", "locked"} /\ req[c].op \in LoopOps
    /\ pool \in PoolSizes /\ IsFiniteSet(InPool) /\ Cardinality(InPool) <= pool

AfterLoad == {"toAuth", "auth", "toHandler", "handler", "body", "storage", "locked"}
AfterAuth == {"toHandler", "handler", "body", "storage", "locked"}

(* A request of the menu.                                                   *)
Asked(r) ==
    /\ r \in Requests /\ r.user # None
    /\ r.op \in {"tree", "audit"} <=> r.paths = << >>
    /\ r.op \notin {"tree", "audit", "batch"} => Len(r.paths) = 1

(* The rules a request goes by were in force while it was on its way, and   *)
(* whatever waits for the storage is permitted by them.                     *)
RulesOK(c) ==
    /\ req[c].op # "audit" /\ pc[c] \in AfterLoad => seen[c] \in since[c] /\ seen[c] # Broken
    /\ pc[c] \in {"body", "storage", "locked"} =>
          req[c].op \in Changes \cup LoopOps /\ MayChange(seen[c], req[c])
    /\ pc[c] = "body" => req[c].op \in LoopOps
    /\ req[c].op # "audit" /\ pc[c] = "reply" /\ status[c] = "ok" => \E a \in since[c] : a # Broken

(* Nobody is believed to be somebody else, or before the token is verified. *)
UserOK(c) ==
    /\ who[c] \in {None, req[c].user}
    /\ pc[c] \in AfterAuth => who[c] = req[c].user
    /\ pc[c] = "reply" /\ status[c] # "error" => (who[c] = None <=> status[c] = "unauthorized")

(* What the middleware will write fits what the request did.                *)
ResultOK(c) ==
    /\ pc[c] # "reply" => extra[c] = NoExtra /\ done[req[c].id] = 0
    /\ pc[c] = "reply" /\ status[c] = "ok" =>
          /\ extra[c].commit = done[req[c].id]
          /\ (\E p \in PathsIn(req[c]) : Pii(p)) => extra[c].pii
    /\ pc[c] = "reply" /\ status[c] # "ok" => done[req[c].id] = 0

UnderWay(c) ==
    /\ Asked(req[c]) /\ req[c].id <= issued /\ outcome[req[c].id] = None
    /\ acl \in since[c]
    /\ RulesOK(c) /\ UserOK(c) /\ ResultOK(c)

CallOK(c) ==
    IF pc[c] = "idle" THEN req[c] = NoRequest /\ who[c] = None /\ extra[c] = NoExtra
    ELSE UnderWay(c)

IdsDiffer ==
    \A c, d \in Callers : pc[c] # "idle" /\ pc[d] # "idle" /\ req[c].id = req[d].id => c = d

(* One record of each answer but errors, and nothing else.                  *)
LogOK(i) ==
    /\ outcome[i] \in {"error", None} => Entries(i) = {}
    /\ outcome[i] \notin {"error", None} => \E n \in 1 .. Len(log) : Entries(i) = {n}
    /\ \A n \in Entries(i) : /\ log[n].result = ResultOf(outcome[i])
                             /\ log[n].user = None <=> outcome[i] = "unauthorized"
                             /\ outcome[i] = "ok" => log[n].commit = done[i]
    /\ outcome[i] \notin {"ok", "error", None} => done[i] = 0

HistoryOK ==
    /\ acl = None <=> tree[AclPath] = 0
    /\ \A i \in Ids : i > issued => outcome[i] = None /\ done[i] = 0
    /\ \A i \in Ids : LogOK(i)

(* The inductive invariant.                                                 *)
ApiInd ==
    /\ StateTyped /\ HoldersOK /\ IdsDiffer /\ HistoryOK
    /\ \A c \in Callers : CallOK(c)

-----------------------------------------------------------------------------
(* What the invariant says in particular.                                   *)

(* The type invariant.                                                      *)
LEMMA IndImpliesTypes == ApiInd => TypeOK
<1>. SUFFICES ASSUME ApiInd PROVE TypeOK
  OBVIOUS
<1>1. \A c \in Callers : /\ who[c] # None => who[c] = req[c].user
                         /\ status[c] \in Statuses /\ extra[c].commit \in Nat
  <2>. SUFFICES ASSUME NEW c \in Callers
                PROVE  /\ who[c] # None => who[c] = req[c].user
                       /\ status[c] \in Statuses /\ extra[c].commit \in Nat
    OBVIOUS
  <2>1. CallOK(c) /\ extra[c] \in Extras /\ status[c] \in Statuses
    BY DEF ApiInd, StateTyped
  <2>. QED BY <2>1 DEF CallOK, UnderWay, UserOK, Extras
<1>. QED BY <1>1 DEF ApiInd, StateTyped, HoldersOK, HistoryOK, TypeOK

(* Answers are on record.                                                   *)
LEMMA IndImpliesLogged == ApiInd => AnswersAreLogged
<1>. SUFFICES ASSUME ApiInd, NEW i \in Ids
              PROVE  Cardinality(Entries(i)) = IF outcome[i] \in {"error", None} THEN 0 ELSE 1
  BY DEF ApiInd, HistoryOK, LogOK, AnswersAreLogged
<1>1. LogOK(i)
  BY DEF ApiInd, HistoryOK
<1>2. CASE outcome[i] \in {"error", None}
  BY <1>1, <1>2, FS_EmptySet DEF LogOK
<1>3. CASE outcome[i] \notin {"error", None}
  <2>1. PICK n \in 1 .. Len(log) : Entries(i) = {n}
    BY <1>1, <1>3 DEF LogOK
  <2>2. Cardinality({n}) = 1
    BY FS_Singleton
  <2>. QED BY <1>3, <2>1, <2>2
<1>. QED BY <1>2, <1>3

(* PII is flagged, and broken rules let nothing through.                    *)
LEMMA IndImpliesAnswers == ApiInd => PiiSuccessIsFlagged /\ BrokenRulesLetNothingThrough
<1>. SUFFICES ASSUME ApiInd, NEW c \in Callers, pc[c] = "reply", status[c] = "ok"
              PROVE  /\ (\E p \in PathsIn(req[c]) : Pii(p)) => extra[c].pii
                     /\ req[c].op # "audit" => since[c] # {Broken}
  BY DEF PiiSuccessIsFlagged, BrokenRulesLetNothingThrough
<1>1. UnderWay(c)
  BY DEF ApiInd, CallOK
<1>. QED BY <1>1 DEF UnderWay, ResultOK, RulesOK

-----------------------------------------------------------------------------
(* What a step leaves alone.                                                *)

PoolPlaces == {"acl", "auth", "handler", "storage", "locked"}

SameCall(d) ==
    /\ pc'[d] = pc[d] /\ req'[d] = req[d] /\ seen'[d] = seen[d] /\ who'[d] = who[d]
    /\ extra'[d] = extra[d] /\ status'[d] = status[d]

(* A request knows what it knew, if its own history stays.                  *)
LEMMA CallFrame ==
    ASSUME NEW d \in Callers, CallOK(d), SameCall(d), issued \in Nat, issued' \in Nat, issued <= issued',
           Asked(req[d]) => req[d].id \in Nat,
           pc[d] # "idle" => /\ since[d] \subseteq since'[d] /\ acl' \in since'[d]
                             /\ outcome'[req[d].id] = outcome[req[d].id]
                             /\ done'[req[d].id] = done[req[d].id]
    PROVE  CallOK(d)'
<1>1. CASE pc[d] = "idle"
  BY <1>1 DEF CallOK, SameCall
<1>2. CASE pc[d] # "idle"
  <2>1. UnderWay(d)
    BY <1>2 DEF CallOK
  <2>2. RulesOK(d)'
    BY <1>2, <2>1 DEF UnderWay, RulesOK, SameCall
  <2>3. UserOK(d)' /\ ResultOK(d)'
    BY <1>2, <2>1 DEF UnderWay, UserOK, ResultOK, SameCall
  <2>4. Asked(req'[d]) /\ req'[d].id <= issued' /\ outcome'[req'[d].id] = None /\ acl' \in since'[d]
    BY <1>2, <2>1 DEF UnderWay, SameCall
  <2>. QED BY <1>2, <2>2, <2>3, <2>4 DEF CallOK, UnderWay, SameCall
<1>. QED BY <1>1, <1>2

(* A pool that nobody enters is not too large.                              *)
LEMMA PoolShrinks ==
    ASSUME HoldersOK, pool' = pool, InPool' \subseteq InPool,
           PoolSizes \subseteq Nat
    PROVE  pool' \in PoolSizes /\ IsFiniteSet(InPool') /\ Cardinality(InPool') <= pool'
<1>1. IsFiniteSet(InPool') /\ Cardinality(InPool') <= Cardinality(InPool)
  BY FS_Subset DEF HoldersOK
<1>2. Cardinality(InPool) \in Nat /\ Cardinality(InPool') \in Nat /\ pool \in Nat
  BY <1>1, FS_CardinalityType DEF HoldersOK
<1>. QED BY <1>1, <1>2 DEF HoldersOK

(* A step from one place to another that concerns neither lock nor loop.    *)
LEMMA HoldersStay ==
    ASSUME HoldersOK, NEW c \in Callers, UNCHANGED <<lock, loop, pool, req>>,
           \A d \in Callers : d # c => pc'[d] = pc[d],
           pc[c] # "locked", pc'[c] # "locked", loop # c,
           pc'[c] \in PoolPlaces => pc[c] \in PoolPlaces \/ PoolHasRoom
    PROVE  HoldersOK'
<1>1. /\ lock' \in Callers \cup {Nobody} /\ loop' \in Callers \cup {Nobody}
      /\ \A d \in Callers :
           /\ pc'[d] = "locked" <=> lock' = d
           /\ loop' = d => pc'[d] \in {"storage", "locked"} /\ req'[d].op \in LoopOps
  BY DEF HoldersOK
<1>2. CASE pc'[c] \in PoolPlaces => pc[c] \in PoolPlaces
  <2>1. InPool' \subseteq InPool
    BY <1>2 DEF InPool, PoolPlaces
  <2>. QED BY <1>1, <2>1, PoolShrinks, RequestsTyped DEF HoldersOK
<1>3. CASE PoolHasRoom
  <2>1. InPool' \subseteq InPool \cup {c}
    BY DEF InPool
  <2>2. IsFiniteSet(InPool) /\ Cardinality(InPool) < pool /\ pool \in Nat /\ Cardinality(InPool) \in Nat
    BY <1>3, RequestsTyped, FS_CardinalityType DEF PoolHasRoom, HoldersOK
  <2>3. IsFiniteSet(InPool \cup {c}) /\ Cardinality(InPool \cup {c}) <= pool
    <3>1. /\ IsFiniteSet(InPool \cup {c})
          /\ Cardinality(InPool \cup {c}) \in {Cardinality(InPool), Cardinality(InPool) + 1}
      BY <2>2, FS_AddElement
    <3>. QED BY <2>2, <3>1
  <2>4. IsFiniteSet(InPool') /\ Cardinality(InPool') <= Cardinality(InPool \cup {c})
    BY <2>1, <2>3, FS_Subset
  <2>5. Cardinality(InPool') \in Nat /\ Cardinality(InPool \cup {c}) \in Nat
    BY <2>3, <2>4, FS_CardinalityType
  <2>6. IsFiniteSet(InPool') /\ Cardinality(InPool') <= pool'
    BY <2>2, <2>3, <2>4, <2>5
  <2>. QED BY <1>1, <2>6 DEF HoldersOK
<1>. QED BY <1>2, <1>3

(* A step of one request that makes no history.                             *)
LEMMA QuietStep ==
    ASSUME ApiInd, NEW c \in Callers, UNCHANGED <<tree, acl, req, since, issued, log, outcome, done>>,
           pc[c] # "idle", pc' \in [Callers -> Places], seen' \in [Callers -> Acls],
           who' \in [Callers -> Users \cup {None}], extra' \in [Callers -> Extras],
           status' \in [Callers -> Statuses],
           \A d \in Callers : d # c => SameCall(d),
           HoldersOK', pc'[c] # "idle", RulesOK(c)', UserOK(c)', ResultOK(c)'
    PROVE  ApiInd'
<1>1. StateTyped'
  BY DEF ApiInd, StateTyped
<1>2. ASSUME NEW d \in Callers PROVE CallOK(d)'
  <2>1. CallOK(d) /\ issued \in Nat /\ (Asked(req[d]) => req[d].id \in Nat)
    BY DEF ApiInd, StateTyped, Asked, Requests, Ids
  <2>2. CASE d # c
    <3>1. pc[d] # "idle" => acl \in since[d]
      BY <2>1 DEF CallOK, UnderWay
    <3>. QED BY <2>1, <2>2, <3>1, CallFrame
  <2>3. CASE d = c
    BY <2>1, <2>3 DEF CallOK, UnderWay
  <2>. QED BY <2>2, <2>3
<1>3. HistoryOK'
  BY DEF ApiInd, HistoryOK, LogOK, Entries
<1>4. IdsDiffer'
  BY DEF ApiInd, IdsDiffer, SameCall
<1>. QED BY <1>1, <1>2, <1>3, <1>4 DEF ApiInd

(* What is known of a request under way.                                    *)
LEMMA CallKnown ==
    ASSUME ApiInd, NEW c \in Callers, pc[c] # "idle"
    PROVE  /\ UnderWay(c) /\ RulesOK(c) /\ UserOK(c) /\ ResultOK(c)
           /\ req[c] \in Requests /\ Asked(req[c])
           /\ req[c].id \in Ids /\ req[c].op \in Ops /\ req[c].user \in Users /\ req[c].user # None
           /\ req[c].paths \in Seq(Paths)
<1>1. UnderWay(c)
  BY DEF ApiInd, CallOK
<1>2. Asked(req[c])
  BY <1>1 DEF UnderWay
<1>. QED BY <1>1, <1>2 DEF UnderWay, Asked, Requests

-----------------------------------------------------------------------------
(* The steps that make no history.                                          *)

(* A thread is given to a request only if there is one.                     *)
LEMMA SubmitKeeps ==
    ASSUME ApiInd, NEW c \in Callers, Submit(c) PROVE ApiInd'
<1>1. PICK to \in {"acl", "auth", "handler"} :
        /\ pc' = [pc EXCEPT ![c] = to]
        /\ <<pc[c], to>> \in {<<"toAcl", "acl">>, <<"toAuth", "auth">>, <<"toHandler", "handler">>}
        /\ PoolHasRoom /\ loop = Nobody
        /\ UNCHANGED <<pool, tree, acl, lock, loop, req, seen, who, extra, status, since,
                       issued, log, outcome, done>>
  BY DEF Submit, Go
<1>2. pc' \in [Callers -> Places] /\ pc'[c] = to /\ \A d \in Callers : d # c => SameCall(d)
  BY <1>1 DEF ApiInd, StateTyped, Places, SameCall
<1>3. HoldersOK'
  BY <1>1, <1>2, HoldersStay, RequestsTyped DEF ApiInd, SameCall
<1>4. RulesOK(c)' /\ UserOK(c)' /\ ResultOK(c)'
  <2>1. RulesOK(c) /\ UserOK(c) /\ ResultOK(c)
    BY <1>1, CallKnown
  <2>2. RulesOK(c)'
    BY <1>1, <1>2, <2>1 DEF RulesOK, AfterLoad
  <2>3. UserOK(c)'
    BY <1>1, <1>2, <2>1 DEF UserOK, AfterAuth
  <2>4. ResultOK(c)'
    BY <1>1, <1>2, <2>1 DEF ResultOK
  <2>. QED BY <2>2, <2>3, <2>4
<1>5. seen' \in [Callers -> Acls] /\ who' \in [Callers -> Users \cup {None}]
      /\ extra' \in [Callers -> Extras] /\ status' \in [Callers -> Statuses]
  BY <1>1 DEF ApiInd, StateTyped
<1>. QED BY <1>1, <1>2, <1>3, <1>4, <1>5, QuietStep

(* A step from one place to the next one, or to the answer, of a request    *)
(* that holds neither lock nor loop.                                        *)
Moves(c, to) ==
    /\ pc[c] \notin {"idle", "locked"} /\ loop # c /\ pc' = [pc EXCEPT ![c] = to]
    /\ UNCHANGED <<pool, tree, acl, lock, loop, req, since, issued, log, outcome, done>>

(* What such a step may change of a request.                                *)
OnlyOf(c) ==
    /\ seen' \in [Callers -> Acls] /\ who' \in [Callers -> Users \cup {None}]
    /\ extra' \in [Callers -> Extras] /\ status' \in [Callers -> Statuses]
    /\ \A d \in Callers : d # c => /\ seen'[d] = seen[d] /\ who'[d] = who[d]
                                   /\ extra'[d] = extra[d] /\ status'[d] = status[d]

(* Such a step keeps the invariant if the request is right.                 *)
LEMMA MoveKeeps ==
    ASSUME ApiInd, NEW c \in Callers, NEW to \in Places \ {"idle", "locked"}, Moves(c, to),
           to \in PoolPlaces => pc[c] \in PoolPlaces, OnlyOf(c),
           pc'[c] = to => RulesOK(c)' /\ UserOK(c)' /\ ResultOK(c)'
    PROVE  ApiInd'
<1>1. /\ pc' \in [Callers -> Places] /\ pc'[c] = to
      /\ \A d \in Callers : d # c => SameCall(d)
  BY DEF ApiInd, StateTyped, SameCall, Moves, OnlyOf
<1>2. HoldersOK'
  BY <1>1, HoldersStay DEF ApiInd, SameCall, Moves
<1>. QED BY <1>1, <1>2, QuietStep DEF Moves, OnlyOf

(* A thread of the pool works for nobody whose handler blocks the loop.     *)
LEMMA OutsideTheLoop ==
    ASSUME ApiInd, NEW c \in Callers, pc[c] \notin {"storage", "locked"}
    PROVE  loop # c
BY DEF ApiInd, HoldersOK

(* The rules that are loaded are in force.                                  *)
LEMMA LoadAclKeeps ==
    ASSUME ApiInd, NEW c \in Callers, LoadAcl(c) PROVE ApiInd'
<1>1. /\ pc[c] = "acl" /\ loop # c
      /\ UNCHANGED <<pool, tree, acl, lock, loop, req, who, extra, since, issued, log, outcome, done>>
  BY OutsideTheLoop DEF LoadAcl
<1>2. UnderWay(c) /\ UserOK(c) /\ ResultOK(c) /\ acl \in since[c]
  BY <1>1, CallKnown DEF UnderWay
<1>3. CASE acl = Broken
  <2>1. Moves(c, "reply") /\ status' = [status EXCEPT ![c] = "error"] /\ seen' = seen
    BY <1>1, <1>3 DEF LoadAcl, Moves, Answer, Go
  <2>2. OnlyOf(c) /\ status'[c] = "error"
    BY <1>1, <2>1 DEF OnlyOf, ApiInd, StateTyped, Statuses
  <2>3. ASSUME pc'[c] = "reply" PROVE RulesOK(c)' /\ UserOK(c)' /\ ResultOK(c)'
    <3>1. RulesOK(c)'
      BY <2>2, <2>3 DEF RulesOK, AfterLoad
    <3>2. UserOK(c)' /\ ResultOK(c)'
      BY <1>1, <1>2, <2>2, <2>3 DEF UserOK, ResultOK, AfterAuth
    <3>. QED BY <3>1, <3>2
  <2>. QED BY <2>1, <2>2, <2>3, MoveKeeps DEF Places, PoolPlaces
<1>4. CASE acl # Broken
  <2>1. Moves(c, "toAuth") /\ seen' = [seen EXCEPT ![c] = acl] /\ status' = status
    BY <1>1, <1>4 DEF LoadAcl, Moves, Go
  <2>2. OnlyOf(c) /\ seen'[c] = acl
    BY <1>1, <2>1 DEF OnlyOf, ApiInd, StateTyped
  <2>3. ASSUME pc'[c] = "toAuth" PROVE RulesOK(c)' /\ UserOK(c)' /\ ResultOK(c)'
    <3>1. RulesOK(c)'
      BY <1>1, <1>2, <1>4, <2>2, <2>3 DEF RulesOK, AfterLoad
    <3>2. UserOK(c)' /\ ResultOK(c)'
      BY <1>1, <1>2, <2>3 DEF UserOK, ResultOK, AfterAuth
    <3>. QED BY <3>1, <3>2
  <2>. QED BY <2>1, <2>2, <2>3, MoveKeeps DEF Places, PoolPlaces
<1>. QED BY <1>3, <1>4

(* Who is believed is who the token says.                                   *)
LEMMA AuthenticateKeeps ==
    ASSUME ApiInd, NEW c \in Callers, Authenticate(c) PROVE ApiInd'
<1>1. /\ pc[c] = "auth" /\ loop # c
      /\ who' = [who EXCEPT ![c] = IF req[c].genuine THEN req[c].user ELSE None]
      /\ UNCHANGED <<pool, tree, acl, lock, loop, req, seen, extra, since, issued, log, outcome, done>>
  BY OutsideTheLoop DEF Authenticate
<1>2. /\ UnderWay(c) /\ RulesOK(c) /\ UserOK(c) /\ ResultOK(c)
      /\ req[c].user \in Users /\ req[c].user # None
  BY <1>1, CallKnown
<1>3. /\ who' \in [Callers -> Users \cup {None}] /\ \A d \in Callers : d # c => who'[d] = who[d]
      /\ who'[c] = IF req[c].genuine THEN req[c].user ELSE None
  BY <1>1, <1>2 DEF ApiInd, StateTyped
<1>4. ASSUME NEW st \in {"unauthorized", "invalid"}, Answer(c, st), st = "unauthorized" <=> ~req[c].genuine
      PROVE  ApiInd'
  <2>1. Moves(c, "reply") /\ status' = [status EXCEPT ![c] = st]
    BY <1>1, <1>4 DEF Moves, Answer, Go
  <2>2. OnlyOf(c) /\ status'[c] = st
    BY <1>1, <1>3, <2>1 DEF OnlyOf, ApiInd, StateTyped, Statuses
  <2>3. ASSUME pc'[c] = "reply" PROVE RulesOK(c)' /\ UserOK(c)' /\ ResultOK(c)'
    <3>1. RulesOK(c)'
      BY <2>2, <2>3 DEF RulesOK, AfterLoad
    <3>2. UserOK(c)'
      BY <1>1, <1>2, <1>3, <1>4, <2>2, <2>3 DEF UserOK, AfterAuth
    <3>3. ResultOK(c)'
      BY <1>1, <1>2, <2>2, <2>3 DEF ResultOK
    <3>. QED BY <3>1, <3>2, <3>3
  <2>. QED BY <2>1, <2>2, <2>3, MoveKeeps DEF Places, PoolPlaces
<1>5. ASSUME req[c].genuine, Go(c, "toHandler"), UNCHANGED status PROVE ApiInd'
  <2>1. Moves(c, "toHandler")
    BY <1>1, <1>5 DEF Moves, Go
  <2>2. OnlyOf(c)
    BY <1>1, <1>3, <1>5 DEF OnlyOf, ApiInd, StateTyped
  <2>3. ASSUME pc'[c] = "toHandler" PROVE RulesOK(c)' /\ UserOK(c)' /\ ResultOK(c)'
    <3>1. RulesOK(c)'
      BY <1>1, <1>2, <2>3 DEF RulesOK, AfterLoad
    <3>2. UserOK(c)' /\ ResultOK(c)'
      BY <1>1, <1>2, <1>3, <1>5, <2>3 DEF UserOK, ResultOK, AfterAuth
    <3>. QED BY <3>1, <3>2
  <2>. QED BY <2>1, <2>2, <2>3, MoveKeeps DEF Places, PoolPlaces
<1>. QED BY <1>1, <1>4, <1>5 DEF Authenticate

(* A handler that only answers: its extra fits what it answers.             *)
LEMMA AnswerKeeps ==
    ASSUME ApiInd, NEW c \in Callers, pc[c] \in {"toHandler", "handler", "body"},
           NEW st \in Statuses \ {"unauthorized"}, Answer(c, st),
           NEW x \in Extras, extra' = [extra EXCEPT ![c] = x],
           st = "ok" => /\ x.commit = 0
                        /\ (\E p \in PathsIn(req[c]) : Pii(p)) => x.pii,
           UNCHANGED <<pool, tree, acl, lock, loop, req, seen, who, since, issued, log, outcome, done>>
    PROVE  ApiInd'
<1>1. UnderWay(c) /\ RulesOK(c) /\ UserOK(c) /\ ResultOK(c) /\ req[c].user # None /\ loop # c
  BY CallKnown, OutsideTheLoop
<1>2. Moves(c, "reply") /\ status' = [status EXCEPT ![c] = st]
  BY <1>1 DEF Moves, Answer, Go
<1>3. OnlyOf(c) /\ status'[c] = st /\ extra'[c] = x
  BY <1>2 DEF OnlyOf, ApiInd, StateTyped
<1>4. ASSUME pc'[c] = "reply" PROVE RulesOK(c)' /\ UserOK(c)' /\ ResultOK(c)'
  <2>1. RulesOK(c)'
    BY <1>1, <1>3, <1>4 DEF RulesOK, AfterLoad
  <2>2. UserOK(c)'
    BY <1>1, <1>3, <1>4 DEF UserOK, AfterAuth
  <2>3. ResultOK(c)'
    BY <1>1, <1>3, <1>4 DEF ResultOK
  <2>. QED BY <2>1, <2>2, <2>3
<1>. QED BY <1>2, <1>3, <1>4, MoveKeeps DEF Places, PoolPlaces

(* A handler that refuses.                                                  *)
LEMMA RefusalKeeps ==
    ASSUME ApiInd, NEW c \in Callers, pc[c] \in {"toHandler", "handler", "body"},
           NEW st \in Statuses \ {"ok", "unauthorized"}, Answer(c, st),
           UNCHANGED <<pool, tree, acl, lock, loop, req, seen, who, extra, since, issued, log, outcome, done>>
    PROVE  ApiInd'
<1>1. extra[c] \in Extras /\ extra' = [extra EXCEPT ![c] = extra[c]]
  BY DEF ApiInd, StateTyped
<1>. QED BY <1>1, AnswerKeeps

(* The handlers that read: what they return of PII is flagged.              *)
LEMMA ReadsKeep ==
    ASSUME ApiInd, NEW c \in Callers, ReadFile(c) \/ ReadContent(c) \/ ReadTree(c) \/ ReadAudit(c)
    PROVE  ApiInd'
<1>1. pc[c] = "handler" /\ Asked(req[c]) /\ req[c].paths \in Seq(Paths)
  <2>1. pc[c] = "handler"
    BY DEF ReadFile, ReadContent, ReadTree, ReadAudit
  <2>. QED BY <2>1, CallKnown
<1>2. extra[c] \in Extras /\ extra[c] = NoExtra /\ extra = [extra EXCEPT ![c] = extra[c]]
  BY <1>1, CallKnown DEF ResultOK, ApiInd, StateTyped
<1>3. NoExtra \in Extras /\ NoExtra.commit = 0 /\ Extra(req[c], 0) \in Extras /\ Extra(req[c], 0).commit = 0
  BY DEF NoExtra, Extra, Extras
<1>4. CASE ReadFile(c)
  <2>1. (\E p \in PathsIn(req[c]) : Pii(p)) => Extra(req[c], 0).pii
    BY <1>4 DEF ReadFile, Extra
  <2>2. /\ UNCHANGED <<pool, tree, acl, lock, loop, req, seen, who, since, issued, log, outcome, done>>
        /\ \/ (Answer(c, "notfound") \/ Answer(c, "forbidden")) /\ UNCHANGED extra
           \/ Answer(c, "ok") /\ extra' = [extra EXCEPT ![c] = Extra(req[c], 0)]
    BY <1>4 DEF ReadFile
  <2>. QED BY <1>1, <1>3, <2>1, <2>2, RefusalKeeps, AnswerKeeps DEF Statuses
<1>5. CASE ReadContent(c)
  <2>1. PathsIn(req[c]) = {req[c].paths[1]}
    <3>1. Len(req[c].paths) = 1
      BY <1>1, <1>5 DEF ReadContent, Asked
    <3>. QED BY <3>1 DEF PathsIn
  <2>2. /\ UNCHANGED <<pool, tree, acl, lock, loop, req, seen, who, since, issued, log, outcome, done>>
        /\ \/ (Answer(c, "notfound") \/ Answer(c, "forbidden") \/ Answer(c, "invalid")) /\ UNCHANGED extra
           \/ /\ Answer(c, "ok") /\ extra' = [extra EXCEPT ![c] = NoExtra]
              /\ Binary(req[c].paths[1])
    BY <1>5 DEF ReadContent
  <2>3. Binary(req[c].paths[1]) => ~\E p \in PathsIn(req[c]) : Pii(p)
    BY <2>1 DEF Binary, Pii
  <2>. QED BY <1>1, <1>3, <2>2, <2>3, RefusalKeeps, AnswerKeeps DEF Statuses
<1>6. req[c].op \in {"tree", "audit"} => PathsIn(req[c]) = {}
  BY <1>1 DEF Asked, PathsIn
<1>7. CASE ReadTree(c)
  <2>1. /\ req[c].op = "tree" /\ Answer(c, "ok") /\ extra' = [extra EXCEPT ![c] = Extra(req[c], 0)]
        /\ UNCHANGED <<pool, tree, acl, lock, loop, req, seen, who, since, issued, log, outcome, done>>
    BY <1>7 DEF ReadTree
  <2>. QED BY <1>1, <1>3, <1>6, <2>1, AnswerKeeps DEF Statuses
<1>8. CASE ReadAudit(c)
  <2>1. /\ req[c].op = "audit" /\ (Answer(c, "ok") \/ Answer(c, "forbidden")) /\ extra' = extra
        /\ UNCHANGED <<pool, tree, acl, lock, loop, req, seen, who, since, issued, log, outcome, done>>
    BY <1>8 DEF ReadAudit
  <2>2. extra' = [extra EXCEPT ![c] = NoExtra]
    BY <1>2, <2>1
  <2>. QED BY <1>1, <1>3, <1>6, <2>1, <2>2, AnswerKeeps DEF Statuses
<1>. QED BY <1>4, <1>5, <1>7, <1>8

(* Whoever goes on to the storage is permitted to.                          *)
LEMMA PermissionKeeps ==
    ASSUME ApiInd, NEW c \in Callers, Permission(c) \/ WritePermission(c) PROVE ApiInd'
<1>1. /\ \/ pc[c] = "handler" /\ req[c].op \in Changes
         \/ pc[c] = "toHandler" /\ req[c].op \in LoopOps
      /\ UNCHANGED <<pool, tree, acl, lock, loop, req, seen, who, extra, since, issued, log, outcome, done>>
  BY DEF Permission, WritePermission
<1>2. UnderWay(c) /\ RulesOK(c) /\ UserOK(c) /\ ResultOK(c) /\ loop # c
  BY <1>1, CallKnown, OutsideTheLoop
<1>3. CASE Answer(c, "forbidden")
  BY <1>1, <1>3, RefusalKeeps DEF Statuses
<1>4. ASSUME NEW to \in {"storage", "body"}, to = "storage" <=> pc[c] = "handler",
             MayChange(seen[c], req[c]), Go(c, to), UNCHANGED status
      PROVE  ApiInd'
  <2>1. Moves(c, to) /\ OnlyOf(c)
    BY <1>1, <1>2, <1>4 DEF Moves, Go, OnlyOf, ApiInd, StateTyped
  <2>2. ASSUME pc'[c] = to PROVE RulesOK(c)' /\ UserOK(c)' /\ ResultOK(c)'
    <3>1. MayChange(seen[c], req[c])'
      BY <1>1, <1>4 DEF MayChange, MayWrite, PathsIn
    <3>2. RulesOK(c)'
      BY <1>1, <1>2, <1>4, <2>2, <3>1 DEF RulesOK, AfterLoad, Changes, LoopOps
    <3>3. UserOK(c)' /\ ResultOK(c)'
      BY <1>1, <1>2, <1>4, <2>2 DEF UserOK, ResultOK, AfterAuth
    <3>. QED BY <3>2, <3>3
  <2>. QED BY <1>1, <1>4, <2>1, <2>2, MoveKeeps DEF Places, PoolPlaces
<1>5. CASE Permission(c)
  BY <1>3, <1>4, <1>5 DEF Permission
<1>6. CASE WritePermission(c)
  BY <1>3, <1>4, <1>6 DEF WritePermission
<1>. QED BY <1>5, <1>6

(* The handler of a complete body blocks the loop.                          *)
LEMMA WriteBodyKeeps ==
    ASSUME ApiInd, NEW c \in Callers, WriteBody(c) PROVE ApiInd'
<1>1. /\ pc[c] = "body" /\ loop = Nobody
      /\ UNCHANGED <<pool, tree, acl, lock, req, seen, who, extra, since, issued, log, outcome, done>>
  BY DEF WriteBody
<1>2. CASE ~req[c].wellFormed
  <2>1. UNCHANGED loop /\ \E st \in {"error", "invalid"} : Answer(c, st)
    BY <1>2 DEF WriteBody
  <2>. QED BY <1>1, <2>1, RefusalKeeps DEF Statuses
<1>3. CASE req[c].wellFormed
  <2>1. pc' = [pc EXCEPT ![c] = "storage"] /\ loop' = c /\ status' = status
    BY <1>3 DEF WriteBody, Go
  <2>2. UnderWay(c) /\ RulesOK(c) /\ UserOK(c) /\ ResultOK(c)
    BY <1>1, CallKnown
  <2>3. /\ pc' \in [Callers -> Places] /\ pc'[c] = "storage" /\ \A d \in Callers : d # c => SameCall(d)
        /\ seen' \in [Callers -> Acls] /\ who' \in [Callers -> Users \cup {None}]
        /\ extra' \in [Callers -> Extras] /\ status' \in [Callers -> Statuses]
    BY <1>1, <2>1 DEF ApiInd, StateTyped, SameCall, Places
  <2>4. HoldersOK'
    <3>1. req[c].op \in LoopOps
      BY <1>1, <2>2 DEF RulesOK
    <3>2. /\ lock' \in Callers \cup {Nobody} /\ loop' \in Callers \cup {Nobody}
          /\ \A d \in Callers :
               /\ pc'[d] = "locked" <=> lock' = d
               /\ loop' = d => pc'[d] \in {"storage", "locked"} /\ req'[d].op \in LoopOps
      BY <1>1, <2>1, <2>3, <3>1 DEF ApiInd, HoldersOK, SameCall
    <3>3. InPool' \subseteq InPool
      BY <1>1, <2>1, <2>3, RequestsTyped DEF InPool, SameCall
    <3>. QED BY <1>1, <3>2, <3>3, PoolShrinks, RequestsTyped DEF ApiInd, HoldersOK
  <2>5. RulesOK(c)'
    <3>1. MayChange(seen[c], req[c])'
      BY <1>1, <2>2 DEF RulesOK, MayChange, MayWrite, PathsIn
    <3>. QED BY <1>1, <2>2, <2>3, <3>1 DEF RulesOK, AfterLoad
  <2>6. UserOK(c)' /\ ResultOK(c)'
    BY <1>1, <2>2, <2>3 DEF UserOK, ResultOK, AfterAuth
  <2>. QED BY <1>1, <2>3, <2>4, <2>5, <2>6, QuietStep
<1>. QED BY <1>2, <1>3

(* The lock is one request's.                                               *)
LEMMA AcquireKeeps ==
    ASSUME ApiInd, NEW c \in Callers, Acquire(c) PROVE ApiInd'
<1>1. /\ pc[c] = "storage" /\ lock \in {Nobody, c} /\ lock' = c /\ pc' = [pc EXCEPT ![c] = "locked"]
      /\ UNCHANGED <<pool, tree, acl, loop, req, seen, who, extra, status, since, issued, log, outcome, done>>
  BY DEF Acquire, Go
<1>2. UnderWay(c) /\ RulesOK(c) /\ UserOK(c) /\ ResultOK(c)
  BY <1>1, CallKnown
<1>3. /\ pc' \in [Callers -> Places] /\ pc'[c] = "locked" /\ \A d \in Callers : d # c => SameCall(d)
      /\ seen' \in [Callers -> Acls] /\ who' \in [Callers -> Users \cup {None}]
      /\ extra' \in [Callers -> Extras] /\ status' \in [Callers -> Statuses]
  BY <1>1 DEF ApiInd, StateTyped, SameCall, Places
<1>4. HoldersOK'
  <2>1. /\ lock' \in Callers \cup {Nobody} /\ loop' \in Callers \cup {Nobody}
        /\ \A d \in Callers :
             /\ pc'[d] = "locked" <=> lock' = d
             /\ loop' = d => pc'[d] \in {"storage", "locked"} /\ req'[d].op \in LoopOps
    BY <1>1, <1>3, RequestsTyped DEF ApiInd, HoldersOK, SameCall
  <2>2. InPool' \subseteq InPool
    BY <1>1, <1>3 DEF InPool, SameCall
  <2>. QED BY <1>1, <2>1, <2>2, PoolShrinks, RequestsTyped DEF ApiInd, HoldersOK
<1>5. RulesOK(c)'
  <2>1. MayChange(seen[c], req[c])'
    BY <1>1, <1>2 DEF RulesOK, MayChange, MayWrite, PathsIn
  <2>. QED BY <1>1, <1>2, <1>3, <2>1 DEF RulesOK, AfterLoad
<1>6. UserOK(c)' /\ ResultOK(c)'
  BY <1>1, <1>2, <1>3 DEF UserOK, ResultOK, AfterAuth
<1>. QED BY <1>1, <1>3, <1>4, <1>5, <1>6, QuietStep

-----------------------------------------------------------------------------
(* The steps that make history.                                             *)

(* A request comes in, with a number of its own.                            *)
LEMMA DispatchKeeps ==
    ASSUME ApiInd, NEW c \in Callers, Dispatch(c) PROVE ApiInd'
<1>1. PICK m \in Menu :
        LET r == [id |-> issued + 1, base |-> tree, op |-> m.op,
                  user |-> m.user, client |-> m.client, genuine |-> m.genuine,
                  wellFormed |-> m.wellFormed, paths |-> m.paths, acl |-> m.acl]
        IN  req' = [req EXCEPT ![c] = r] /\ pc' = [pc EXCEPT ![c] = IF m.op = "audit" THEN "toAuth" ELSE "toAcl"]
  BY DEF Dispatch, Go
<1> DEFINE r == [id |-> issued + 1, base |-> tree, op |-> m.op,
                 user |-> m.user, client |-> m.client, genuine |-> m.genuine,
                 wellFormed |-> m.wellFormed, paths |-> m.paths, acl |-> m.acl]
<1>2. /\ pc[c] = "idle" /\ issued < MaxRequests /\ issued' = issued + 1 /\ loop = Nobody
      /\ since' = [since EXCEPT ![c] = {acl}]
      /\ UNCHANGED <<pool, tree, acl, lock, loop, seen, who, extra, status, log, outcome, done>>
      /\ issued \in Nat /\ MaxRequests \in Nat
  BY RequestsTyped DEF Dispatch, ApiInd, StateTyped
<1>3. r \in Requests /\ Asked(r) /\ r.id = issued + 1 /\ r.op = m.op /\ issued + 1 \in Ids
  <2>1. issued + 1 \in Ids
    BY <1>2 DEF Ids
  <2>2. tree \in [Paths -> Nat]
    BY DEF ApiInd, StateTyped
  <2>3. r \in Requests
    BY <2>1, <2>2, RequestsTyped DEF Requests, Users, Clients
  <2>4. Asked(r)
    BY <2>3, RequestsTyped DEF Asked
  <2>. QED BY <2>1, <2>3, <2>4
<1> HIDE DEF r
<1>4. /\ pc'[c] = (IF m.op = "audit" THEN "toAuth" ELSE "toAcl") /\ req'[c] = r /\ since'[c] = {acl}
      /\ \A d \in Callers : d # c => SameCall(d) /\ since'[d] = since[d]
      /\ pc' \in [Callers -> Places] /\ req' \in [Callers -> Requests \cup {NoRequest}]
      /\ since' \in [Callers -> SUBSET Acls]
  BY <1>1, <1>2, <1>3 DEF ApiInd, StateTyped, SameCall, Places, r
<1>5. StateTyped'
  BY <1>2, <1>4 DEF ApiInd, StateTyped
<1>6. HoldersOK'
  <2>1. /\ lock' \in Callers \cup {Nobody} /\ loop' \in Callers \cup {Nobody}
        /\ \A d \in Callers :
             /\ pc'[d] = "locked" <=> lock' = d
             /\ loop' = d => pc'[d] \in {"storage", "locked"} /\ req'[d].op \in LoopOps
    BY <1>2, <1>4, RequestsTyped DEF ApiInd, HoldersOK, SameCall
  <2>2. InPool' \subseteq InPool
    BY <1>2, <1>4 DEF InPool, SameCall
  <2>. QED BY <1>2, <2>1, <2>2, PoolShrinks, RequestsTyped DEF ApiInd, HoldersOK
<1>7. outcome[issued + 1] = None /\ done[issued + 1] = 0
  BY <1>2, <1>3 DEF ApiInd, HistoryOK, Ids
<1>8. CallOK(c)'
  <2>1. CallOK(c) /\ who[c] = None /\ extra[c] = NoExtra
    BY <1>2 DEF ApiInd, CallOK
  <2>2. RulesOK(c)'
    BY <1>4, <1>3 DEF RulesOK, AfterLoad
  <2>3. UserOK(c)' /\ ResultOK(c)'
    BY <1>2, <1>3, <1>4, <1>7, <2>1 DEF UserOK, ResultOK, AfterAuth
  <2>. QED BY <1>2, <1>3, <1>4, <1>7, <2>2, <2>3 DEF CallOK, UnderWay
<1>9. ASSUME NEW d \in Callers, d # c PROVE CallOK(d)'
  <2>1. CallOK(d) /\ (Asked(req[d]) => req[d].id \in Nat) /\ (pc[d] # "idle" => acl \in since[d])
    BY DEF ApiInd, Asked, Requests, Ids, CallOK, UnderWay
  <2>. QED BY <1>2, <1>4, <1>9, <2>1, CallFrame
<1>10. IdsDiffer'
  <2>1. \A d \in Callers : pc[d] # "idle" => req[d].id \in Nat /\ req[d].id <= issued
    BY CallKnown DEF UnderWay, Ids
  <2>. QED BY <1>2, <1>3, <1>4, <2>1 DEF ApiInd, IdsDiffer, SameCall
<1>11. HistoryOK'
  BY <1>2 DEF ApiInd, HistoryOK, LogOK, Entries, Ids
<1>. QED BY <1>5, <1>6, <1>8, <1>9, <1>10, <1>11 DEF ApiInd

(* A server that is started again has no request under way.                 *)
LEMMA CrashKeeps == ASSUME ApiInd, Crash PROVE ApiInd'
<1>1. \A c \in Callers : pc'[c] = "idle" /\ req'[c] = NoRequest /\ who'[c] = None /\ extra'[c] = NoExtra
  BY DEF Crash
<1>2. StateTyped'
  <2>1. NoExtra \in Extras /\ None \in Acls
    BY DEF NoExtra, Extras, Acls
  <2>. QED BY <2>1 DEF Crash, ApiInd, StateTyped, Places, Statuses
<1>3. HoldersOK'
  <2>1. InPool' \subseteq InPool
    BY <1>1 DEF InPool
  <2>2. \A d \in Callers : pc'[d] # "locked" /\ lock' # d /\ loop' # d
    BY <1>1, RequestsTyped DEF Crash
  <2>. QED BY <2>1, <2>2, PoolShrinks, RequestsTyped DEF Crash, ApiInd, HoldersOK
<1>4. IdsDiffer' /\ \A c \in Callers : CallOK(c)'
  BY <1>1 DEF IdsDiffer, CallOK
<1>5. HistoryOK'
  BY DEF Crash, ApiInd, HistoryOK, LogOK, Entries
<1>. QED BY <1>2, <1>3, <1>4, <1>5 DEF ApiInd

(* What the store answers is an answer of the storage's.                    *)
LEMMA VerdictsKnown ==
    ASSUME NEW r PROVE Verdicts(r) \subseteq {"ok", "invalid", "notfound", "conflict"}
<1>1. \A i \in 1 .. Len(r.paths) :
        PathVerdict(r, r.paths[i]) \in {"ok", "invalid", "notfound", "conflict"}
  BY DEF PathVerdict
<1> DEFINE bad == {i \in 1 .. Len(r.paths) : PathVerdict(r, r.paths[i]) # "ok"}
<1> DEFINE worst == CHOOSE i \in bad : \A j \in bad : i <= j
<1>2. CASE bad = {}
  BY <1>2 DEF Verdicts
<1>3. CASE bad # {}
  <2>1. Verdicts(r) = {PathVerdict(r, r.paths[worst])}
    BY <1>3 DEF Verdicts
  <2>. QED BY <2>1 DEF PathVerdict
<1>. QED BY <1>2, <1>3

(* The number of the next commit is a number, and not the one of nothing.   *)
LEMMA CommitKnown ==
    ASSUME StateTyped
    PROVE  2 + Cardinality({i \in Ids : done[i] # 0}) \in Nat \ {0}
<1>1. IsFiniteSet(Ids)
  BY RequestsTyped, FS_Interval DEF Ids
<1>2. IsFiniteSet({i \in Ids : done[i] # 0})
  BY <1>1, FS_Subset
<1>. QED BY <1>2, FS_CardinalityType

(* A change is made, or refused: either way its history is right and the    *)
(* rules of everybody on the way are remembered.                            *)
LEMMA StoreKeeps ==
    ASSUME ApiInd, NEW c \in Callers, Store(c) PROVE ApiInd'
<1> DEFINE r == req[c]
<1> DEFINE commit == 2 + Cardinality({i \in Ids : done[i] # 0})
<1> DEFINE acls == IF AclPath \notin PathsIn(r) THEN acl
                   ELSE IF r.op = "delete" THEN None ELSE r.acl
<1>1. PICK st \in Verdicts(r) :
        /\ Answer(c, st)
        /\ IF st # "ok" THEN UNCHANGED <<pool, tree, acl, done, extra, since>>
           ELSE /\ tree' = [p \in Paths |-> IF p \notin PathsIn(r) THEN tree[p]
                                            ELSE IF r.op = "delete" THEN 0 ELSE commit]
                /\ acl' = acls
                /\ done' = [done EXCEPT ![r.id] = commit]
                /\ extra' = [extra EXCEPT ![c] = Extra(r, commit)]
                /\ since' = [d \in Callers |-> IF pc[d] = "idle" THEN {} ELSE since[d] \cup {acls}]
  BY DEF Store
<1>2. /\ pc[c] = "locked" /\ lock' = Nobody /\ loop' = (IF loop = c THEN Nobody ELSE loop)
      /\ UNCHANGED <<pool, req, seen, who, issued, log, outcome>>
      /\ pc' = [pc EXCEPT ![c] = "reply"] /\ status' = [status EXCEPT ![c] = st]
      /\ st \in {"ok", "invalid", "notfound", "conflict"}
  BY <1>1, VerdictsKnown DEF Store, Answer, Go
<1>3. /\ UnderWay(c) /\ RulesOK(c) /\ UserOK(c) /\ ResultOK(c) /\ r \in Requests
      /\ r.id \in Ids /\ r.op \in Changes \cup LoopOps /\ r.user # None
  BY <1>2, CallKnown DEF RulesOK
<1>4. commit \in Nat \ {0} /\ acls \in Acls
  <2>1. commit \in Nat \ {0}
    BY CommitKnown DEF ApiInd
  <2>2. acls \in Acls
    BY <1>3 DEF Acls, Requests, ApiInd, StateTyped
  <2>. QED BY <2>1, <2>2
<1>5. Extra(r, commit) \in Extras /\ Extra(r, commit).commit = commit
      /\ ((\E p \in PathsIn(r) : Pii(p)) => Extra(r, commit).pii)
  BY <1>3, <1>4 DEF Extra, Extras, Changes, LoopOps
<1>6. acl' = None <=> tree'[AclPath] = 0
  <2>1. acl = None <=> tree[AclPath] = 0
    BY DEF ApiInd, HistoryOK
  <2>2. r.acl # None
    BY <1>3, RequestsTyped DEF Requests
  <2>3. AclPath \in Paths
    BY DEF Paths
  <2>. HIDE DEF r, commit
  <2>. QED BY <1>1, <1>4, <2>1, <2>2, <2>3
<1> HIDE DEF r, commit, acls
<1>7. /\ pc'[c] = "reply" /\ status'[c] = st /\ req'[c] = r /\ req[c] = r
      /\ pc' \in [Callers -> Places] /\ status' \in [Callers -> Statuses]
      /\ \A d \in Callers : d # c => SameCall(d)
  <2>1. pc \in [Callers -> Places] /\ status \in [Callers -> Statuses] /\ extra \in [Callers -> Extras]
    BY DEF ApiInd, StateTyped
  <2>2. \A d \in Callers : d # c => extra'[d] = extra[d]
    BY <1>1, <2>1
  <2>. QED BY <1>2, <2>1, <2>2 DEF SameCall, Places, Statuses, r
<1>8. /\ tree' \in [Paths -> Nat] /\ acl' \in Acls /\ extra' \in [Callers -> Extras]
      /\ done' \in [Ids -> Nat] /\ since' \in [Callers -> SUBSET Acls]
  <2>1. /\ tree \in [Paths -> Nat] /\ acl \in Acls /\ extra \in [Callers -> Extras]
        /\ done \in [Ids -> Nat] /\ since \in [Callers -> SUBSET Acls]
    BY DEF ApiInd, StateTyped
  <2>2. CASE st # "ok"
    BY <1>1, <2>1, <2>2
  <2>3. CASE st = "ok"
    BY <1>1, <1>3, <1>4, <1>5, <2>1, <2>3
  <2>. QED BY <2>2, <2>3
<1>9. StateTyped'
  BY <1>2, <1>7, <1>8 DEF ApiInd, StateTyped
<1>10. HoldersOK'
  <2>1. /\ lock' \in Callers \cup {Nobody} /\ loop' \in Callers \cup {Nobody}
        /\ \A d \in Callers :
             /\ pc'[d] = "locked" <=> lock' = d
             /\ loop' = d => pc'[d] \in {"storage", "locked"} /\ req'[d].op \in LoopOps
    BY <1>2, <1>7, RequestsTyped DEF ApiInd, HoldersOK, SameCall
  <2>2. InPool' \subseteq InPool
    BY <1>2, <1>7 DEF InPool, SameCall
  <2>. QED BY <1>2, <2>1, <2>2, PoolShrinks, RequestsTyped DEF ApiInd, HoldersOK
<1>11. IdsDiffer'
  BY <1>2, <1>7 DEF ApiInd, IdsDiffer, SameCall
<1>12. \A d \in Callers : pc[d] # "idle" => since[d] \subseteq since'[d] /\ acl' \in since'[d]
  <2>1. \A d \in Callers : pc[d] # "idle" => acl \in since[d]
    BY CallKnown DEF UnderWay
  <2>. QED BY <1>1, <2>1
<1>13. \A i \in Ids : i # r.id => done'[i] = done[i]
  BY <1>1, <1>8 DEF ApiInd, StateTyped
<1>14. /\ st = "ok" => done'[r.id] = commit /\ extra'[c] = Extra(r, commit)
       /\ st # "ok" => done'[r.id] = 0
  BY <1>1, <1>2, <1>3 DEF ApiInd, StateTyped, ResultOK, r
<1>15. CallOK(c)'
  <2>1. RulesOK(c)'
    <3>1. st = "ok" => \E a \in since'[c] : a # Broken
      BY <1>2, <1>3, <1>12 DEF RulesOK, AfterLoad, Changes, LoopOps, r
    <3>. QED BY <1>7, <3>1 DEF RulesOK, AfterLoad
  <2>2. UserOK(c)'
    BY <1>2, <1>3, <1>7 DEF UserOK, AfterAuth, r
  <2>3. ResultOK(c)'
    <3>1. PathsIn(r)' = PathsIn(r) /\ r' = r
      BY <1>2 DEF PathsIn, r
    <3>. QED BY <1>5, <1>7, <1>14 DEF ResultOK, PathsIn, Pii
  <2>4. Asked(r) /\ r.id <= issued' /\ outcome'[r.id] = None /\ acl' \in since'[c]
    BY <1>2, <1>3, <1>12 DEF UnderWay, r
  <2>. QED BY <1>7, <2>1, <2>2, <2>3, <2>4 DEF CallOK, UnderWay
<1>16. ASSUME NEW d \in Callers, d # c PROVE CallOK(d)'
  <2>1. CallOK(d) /\ issued \in Nat /\ (Asked(req[d]) => req[d].id \in Nat)
    BY DEF ApiInd, StateTyped, Asked, Requests, Ids
  <2>2. pc[d] # "idle" => done'[req[d].id] = done[req[d].id]
    <3>1. pc[d] # "idle" => req[d].id \in Ids /\ req[d].id # r.id
      BY <1>2, <1>16, CallKnown DEF ApiInd, IdsDiffer, r
    <3>. QED BY <1>13, <3>1
  <2>. QED BY <1>2, <1>7, <1>12, <1>16, <2>1, <2>2, CallFrame
<1>17. HistoryOK'
  <2>1. ASSUME NEW i \in Ids, i > issued PROVE done'[i] = 0
    <3>1. i # r.id
      BY <1>3, <2>1 DEF UnderWay, r, ApiInd, StateTyped, Ids
    <3>. QED BY <1>13, <2>1, <3>1 DEF ApiInd, HistoryOK
  <2>2. ASSUME NEW i \in Ids PROVE LogOK(i)'
    <3>1. LogOK(i) /\ Entries(i)' = Entries(i)
      BY <1>2 DEF ApiInd, HistoryOK, Entries
    <3>2. CASE i = r.id
      BY <1>2, <1>3, <3>1, <3>2 DEF LogOK, UnderWay, r
    <3>3. CASE i # r.id
      BY <1>2, <1>13, <3>1, <3>3 DEF LogOK
    <3>. QED BY <3>2, <3>3
  <2>. QED BY <1>2, <1>6, <2>1, <2>2 DEF ApiInd, HistoryOK
<1>. QED BY <1>9, <1>10, <1>11, <1>15, <1>16, <1>17 DEF ApiInd

(* The answer goes out: it is on record, unless it is an error.             *)
LEMMA ReplyKeeps ==
    ASSUME ApiInd, NEW c \in Callers, Reply(c) PROVE ApiInd'
<1> DEFINE id == req[c].id
<1>1. PICK logged \in BOOLEAN, st \in Statuses :
        /\ Rest(c, st)
        /\ log' = IF logged THEN Append(log, Entry(c)) ELSE log
        /\ logged => st = status[c] /\ st # "error" /\ req[c].op # "audit"
        /\ ~logged => st = "error" \/ req[c].op = "audit"
  <2>1. status[c] \in Statuses /\ "error" \in Statuses
    BY DEF ApiInd, StateTyped, Statuses
  <2>2. CASE (status[c] = "error" \/ req[c].op = "audit") /\ Rest(c, status[c]) /\ UNCHANGED log
    BY <2>1, <2>2
  <2>3. CASE /\ status[c] # "error" /\ req[c].op # "audit"
             /\ Rest(c, status[c]) /\ log' = Append(log, Entry(c))
    BY <2>1, <2>3
  <2>4. CASE Rest(c, "error") /\ UNCHANGED log
    BY <2>1, <2>4
  <2>. QED BY <2>2, <2>3, <2>4 DEF Reply
<1>2. /\ pc[c] = "reply" /\ loop = Nobody
      /\ pc' = [pc EXCEPT ![c] = "idle"] /\ req' = [req EXCEPT ![c] = NoRequest]
      /\ seen' = [seen EXCEPT ![c] = None] /\ who' = [who EXCEPT ![c] = None]
      /\ extra' = [extra EXCEPT ![c] = NoExtra] /\ status' = [status EXCEPT ![c] = "ok"]
      /\ since' = [since EXCEPT ![c] = {}]
      /\ outcome' = (IF req[c].op = "audit" THEN outcome ELSE [outcome EXCEPT ![id] = st])
      /\ UNCHANGED <<pool, tree, acl, lock, loop, issued, done>>
  BY <1>1 DEF Reply, Rest, Go
<1>3. UnderWay(c) /\ UserOK(c) /\ ResultOK(c) /\ req[c] \in Requests /\ id \in Ids /\ id <= issued
      /\ outcome[id] = None
  BY <1>2, CallKnown DEF UnderWay
<1>4. Entry(c) \in Records /\ Entry(c).id = id
  <2>1. extra[c] \in Extras /\ who[c] \in Users \cup {None}
    BY DEF ApiInd, StateTyped
  <2>. QED BY <1>3, <2>1 DEF Entry, Records, Extras, ResultOf
<1> HIDE DEF id
<1>5. /\ pc'[c] = "idle" /\ req'[c] = NoRequest /\ who'[c] = None /\ extra'[c] = NoExtra
      /\ \A d \in Callers : d # c => SameCall(d) /\ since'[d] = since[d]
      /\ pc' \in [Callers -> Places] /\ req' \in [Callers -> Requests \cup {NoRequest}]
      /\ seen' \in [Callers -> Acls] /\ who' \in [Callers -> Users \cup {None}]
      /\ extra' \in [Callers -> Extras] /\ status' \in [Callers -> Statuses]
      /\ since' \in [Callers -> SUBSET Acls]
  <2>1. NoExtra \in Extras /\ None \in Acls /\ "ok" \in Statuses /\ "idle" \in Places
    BY DEF NoExtra, Extras, Acls, Statuses, Places
  <2>. QED BY <1>2, <2>1 DEF ApiInd, StateTyped, SameCall
<1>6. log' \in Seq(Records) /\ outcome' \in [Ids -> Statuses \cup {None}]
  <2>1. log \in Seq(Records) /\ outcome \in [Ids -> Statuses \cup {None}]
    BY DEF ApiInd, StateTyped
  <2>2. Append(log, Entry(c)) \in Seq(Records)
    BY <1>4, <2>1
  <2>3. [outcome EXCEPT ![id] = st] \in [Ids -> Statuses \cup {None}]
    BY <2>1
  <2>. QED BY <1>1, <1>2, <2>1, <2>2, <2>3
<1>7. StateTyped'
  BY <1>2, <1>5, <1>6 DEF ApiInd, StateTyped
<1>8. HoldersOK'
  <2>1. /\ lock' \in Callers \cup {Nobody} /\ loop' \in Callers \cup {Nobody}
        /\ \A d \in Callers :
             /\ pc'[d] = "locked" <=> lock' = d
             /\ loop' = d => pc'[d] \in {"storage", "locked"} /\ req'[d].op \in LoopOps
    BY <1>2, <1>5, RequestsTyped DEF ApiInd, HoldersOK, SameCall
  <2>2. InPool' \subseteq InPool
    BY <1>2, <1>5 DEF InPool, SameCall
  <2>. QED BY <1>2, <2>1, <2>2, PoolShrinks, RequestsTyped DEF ApiInd, HoldersOK
<1>9. IdsDiffer'
  BY <1>5 DEF ApiInd, IdsDiffer, SameCall
<1>10. \A i \in Ids : i # id => outcome'[i] = outcome[i]
  BY <1>2 DEF ApiInd, StateTyped
<1>11. ASSUME NEW d \in Callers PROVE CallOK(d)'
  <2>1. CASE d = c
    BY <1>5, <2>1 DEF CallOK
  <2>2. CASE d # c
    <3>1. CallOK(d) /\ issued \in Nat /\ (Asked(req[d]) => req[d].id \in Nat)
      BY DEF ApiInd, StateTyped, Asked, Requests, Ids
    <3>2. pc[d] # "idle" => acl \in since[d] /\ outcome'[req[d].id] = outcome[req[d].id]
      <4>1. pc[d] # "idle" => req[d].id \in Ids /\ req[d].id # id /\ acl \in since[d]
        BY <1>2, <2>2, CallKnown DEF ApiInd, IdsDiffer, UnderWay, id
      <4>. QED BY <1>10, <4>1
    <3>. QED BY <1>2, <1>5, <2>2, <3>1, <3>2, CallFrame
  <2>. QED BY <2>1, <2>2
<1>12. HistoryOK'
  <2>1. \A i \in Ids : i > issued => outcome'[i] = None
    BY <1>3, <1>10 DEF ApiInd, HistoryOK, StateTyped, Ids
  <2>2. /\ log \in Seq(Records) /\ Len(log) \in Nat
        /\ LogOK(id) /\ Entries(id) = {}
    BY <1>3 DEF ApiInd, HistoryOK, LogOK, StateTyped
  <2>3. ASSUME NEW i \in Ids PROVE LogOK(i)'
    <3>1. LogOK(i)
      BY DEF ApiInd, HistoryOK
    <3>2. CASE i # id
      <4>1. /\ Entries(i)' = Entries(i) /\ \A n \in Entries(i) : log'[n] = log[n]
            /\ Len(log) <= Len(log')
        BY <1>1, <1>4, <2>2, <3>2 DEF Entries
      <4>2. outcome'[i] = outcome[i] /\ done' = done
        BY <1>2, <1>10, <3>2
      <4>3. (\E n \in 1 .. Len(log) : Entries(i) = {n}) => \E n \in 1 .. Len(log)' : Entries(i)' = {n}
        BY <1>6, <2>2, <4>1
      <4>. QED BY <3>1, <4>1, <4>2, <4>3 DEF LogOK
    <3>3. CASE i = id /\ ~logged
      <4>1. log' = log /\ Entries(i)' = {} /\ outcome'[i] \in {"error", None}
        BY <1>1, <1>2, <1>3, <2>2, <3>3 DEF ApiInd, StateTyped, Entries
      <4>. QED BY <4>1, RequestsTyped DEF LogOK, Statuses
    <3>4. CASE i = id /\ logged
      <4>1. log' = Append(log, Entry(c)) /\ Len(log') = Len(log) + 1 /\ log'[Len(log) + 1] = Entry(c)
            /\ outcome'[i] = status[c] /\ status[c] \in Statuses \ {"error"} /\ done' = done
        BY <1>1, <1>2, <1>4, <2>2, <3>4 DEF ApiInd, StateTyped
      <4>2. Entries(i)' = {Len(log) + 1}
        BY <1>4, <2>2, <3>4, <4>1 DEF Entries
      <4>3. /\ Entry(c).result = ResultOf(status[c])
            /\ Entry(c).user = None <=> status[c] = "unauthorized"
            /\ status[c] = "ok" => Entry(c).commit = done[i]
            /\ status[c] # "ok" => done[i] = 0
        BY <1>2, <1>3, <3>4, <4>1 DEF Entry, UserOK, ResultOK, id
      <4>4. Len(log) + 1 \in 1 .. Len(log)' /\ status[c] # None
        BY <2>2, <4>1, RequestsTyped
      <4>. QED BY <4>1, <4>2, <4>3, <4>4 DEF LogOK, ResultOf
    <3>. QED BY <3>2, <3>3, <3>4
  <2>. QED BY <1>2, <2>1, <2>3 DEF ApiInd, HistoryOK
<1>. QED BY <1>7, <1>8, <1>9, <1>11, <1>12 DEF ApiInd

-----------------------------------------------------------------------------
(* The whole.                                                               *)

(* No request is under way when the server starts.                          *)
LEMMA ApiInit == Init => ApiInd
<1>. SUFFICES ASSUME Init PROVE ApiInd
  OBVIOUS
<1>1. StateTyped
  <2>1. NoExtra \in Extras /\ InitialAcl \in Acls /\ None \in Acls
    BY RequestsTyped DEF NoExtra, Extras, Acls
  <2>. QED BY <2>1 DEF Init, StateTyped, Places, Statuses
<1>2. HoldersOK
  <2>1. InPool = {} /\ IsFiniteSet(InPool) /\ Cardinality(InPool) = 0
    <3>1. InPool = {}
      BY DEF Init, InPool
    <3>. QED BY <3>1, FS_EmptySet
  <2>. QED BY <2>1, RequestsTyped DEF Init, HoldersOK
<1>3. IdsDiffer /\ \A c \in Callers : CallOK(c)
  BY DEF Init, IdsDiffer, CallOK
<1>4. HistoryOK
  <2>1. AclPath \in Paths
    BY DEF Paths
  <2>2. \A i \in Ids : LogOK(i)
    BY RequestsTyped DEF Init, LogOK, Entries, Statuses
  <2>. QED BY <2>1, <2>2 DEF Init, HistoryOK
<1>. QED BY <1>1, <1>2, <1>3, <1>4 DEF ApiInd

(* Every step keeps the invariant.                                          *)
LEMMA ApiNext == ApiInd /\ [Next]_vars => ApiInd'
<1>. SUFFICES ASSUME ApiInd, [Next]_vars PROVE ApiInd'
  OBVIOUS
<1>1. CASE Crash
  BY <1>1, CrashKeeps
<1>2. ASSUME NEW c \in Callers, Dispatch(c) PROVE ApiInd'
  BY <1>2, DispatchKeeps
<1>3. ASSUME NEW c \in Callers, Step(c) PROVE ApiInd'
  <2>1. CASE Submit(c) \/ LoadAcl(c) \/ Authenticate(c)
    BY <2>1, SubmitKeeps, LoadAclKeeps, AuthenticateKeeps
  <2>2. CASE ReadFile(c) \/ ReadContent(c) \/ ReadTree(c) \/ ReadAudit(c)
    BY <2>2, ReadsKeep
  <2>3. CASE Permission(c) \/ WritePermission(c) \/ WriteBody(c)
    BY <2>3, PermissionKeeps, WriteBodyKeeps
  <2>4. CASE Acquire(c) \/ Store(c) \/ Reply(c)
    BY <2>4, AcquireKeeps, StoreKeeps, ReplyKeeps
  <2>. QED BY <1>3, <2>1, <2>2, <2>3, <2>4 DEF Step
<1>4. CASE UNCHANGED vars
  <2>1. /\ UNCHANGED <<tree, acl, lock, pool, loop, pc, req, seen, who, extra, status>>
        /\ UNCHANGED <<issued, log, outcome, done, since>>
    BY <1>4 DEF vars, server
  <2>2. StateTyped' /\ IdsDiffer'
    BY <2>1 DEF ApiInd, StateTyped, IdsDiffer
  <2>5. HistoryOK'
    <3>1. \A i \in Ids : LogOK(i)'
      BY <2>1 DEF ApiInd, HistoryOK, LogOK, Entries
    <3>. QED BY <2>1, <3>1 DEF ApiInd, HistoryOK
  <2>3. HoldersOK'
    <3>1. InPool' = InPool
      BY <2>1 DEF InPool
    <3>. QED BY <2>1, <3>1 DEF ApiInd, HoldersOK
  <2>4. ASSUME NEW c \in Callers PROVE CallOK(c)'
    <3>1. CallOK(c) /\ issued \in Nat /\ (Asked(req[c]) => req[c].id \in Nat)
      BY DEF ApiInd, StateTyped, Asked, Requests, Ids
    <3>2. pc[c] # "idle" => acl \in since[c]
      BY <3>1 DEF CallOK, UnderWay
    <3>. QED BY <2>1, <3>1, <3>2, CallFrame DEF SameCall
  <2>. QED BY <2>2, <2>5, <2>3, <2>4 DEF ApiInd
<1>. QED BY <1>1, <1>2, <1>3, <1>4 DEF Next

(* Only the request that holds the lock changes the tree, and only where it *)
(* is permitted to, for the user it has been proven to come from.           *)
LEMMA ChangesArePermitted ==
    ASSUME ApiInd, [Next]_vars, NEW c \in Callers, tree' # tree, lock = c
    PROVE  /\ who[c] = req[c].user
           /\ \A p \in Paths : tree'[p] # tree[p] =>
                 p \in PathsIn(req[c]) /\ \E a \in since[c] : a # Broken /\ MayWrite(a, req[c], p)
<1>1. PICK d \in Callers : Store(d)
  BY DEF Next, vars, Crash, Dispatch, Step, Submit, LoadAcl, Authenticate, ReadFile, ReadContent,
         ReadTree, ReadAudit, Permission, WritePermission, WriteBody, Acquire, Reply, Rest
<1>2. d = c /\ pc[c] = "locked"
  BY <1>1 DEF Store, ApiInd, HoldersOK
<1>3. /\ who[c] = req[c].user /\ MayChange(seen[c], req[c])
      /\ seen[c] \in since[c] /\ seen[c] # Broken
  BY <1>2, CallKnown DEF RulesOK, UserOK, AfterAuth, AfterLoad, Changes, LoopOps
<1>4. \A p \in Paths : tree'[p] # tree[p] => p \in PathsIn(req[c])
  BY <1>1, <1>2 DEF Store
<1>. QED BY <1>3, <1>4 DEF MayChange

(* Of every state the inductive invariant holds.                            *)
THEOREM RequestsKeepTheRecord == Spec => []ApiInd
<1>. QED BY ApiInit, ApiNext, PTL DEF Spec

(* The type invariant: the holders of the lock and of the loop are where    *)
(* they should be, and the pool is never larger than it was made.           *)
THEOREM TypesHold == Spec => []TypeOK
<1>. QED BY RequestsKeepTheRecord, IndImpliesTypes, PTL

(* An answer that is no error is on record before it goes out, once, with   *)
(* its result, its user and its commit; the log has nothing else.           *)
THEOREM EveryAnswerIsLogged == Spec => []AnswersAreLogged
<1>. QED BY RequestsKeepTheRecord, IndImpliesLogged, PTL

(* Success on a PII file is flagged, wherever the file is in a batch.       *)
THEOREM PiiIsFlagged == Spec => []PiiSuccessIsFlagged
<1>. QED BY RequestsKeepTheRecord, IndImpliesAnswers, PTL

(* Nothing succeeds that came in while acl.json was no list of rules and    *)
(* saw nothing else.                                                        *)
THEOREM BrokenMeansClosed == Spec => []BrokenRulesLetNothingThrough
<1>. QED BY RequestsKeepTheRecord, IndImpliesAnswers, PTL

(* Every change of the tree was permitted by an acl.json that was in force  *)
(* while the request was on its way, for a user who had been authenticated. *)
THEOREM ChangesPermitted == Spec => ChangesWerePermitted
<1>1. ApiInd /\ [Next]_vars =>
        [\A c \in Callers :
           tree' # tree /\ lock = c =>
              /\ who[c] = req[c].user
              /\ \A p \in Paths : tree'[p] # tree[p] =>
                    p \in PathsIn(req[c]) /\ \E a \in since[c] : a # Broken /\ MayWrite(a, req[c], p)]_vars
  BY ChangesArePermitted
<1>. QED BY <1>1, RequestsKeepTheRecord, PTL DEF Spec, ChangesWerePermitted
=============================================================================
