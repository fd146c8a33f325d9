-------------------------- MODULE GitStorageProofs --------------------------
(***************************************************************************)
(* Proofs about GitStorage for any number of threads, any paths, tokens,   *)
(* batches and bounds: the inductive invariant StoreInv, and from it the   *)
(* safety properties the runs check.                                       *)
(***************************************************************************)
EXTENDS GitStorage, FiniteSetTheorems, WellFoundedInduction, TLAPS

USE DEF Paths, Contents, FileStates

-----------------------------------------------------------------------------
(* Operations on one file.                                                 *)

(* A set of naturals that is not empty has a least element.                *)
LEMMA LeastNatural ==
    ASSUME NEW S \in SUBSET Nat, S # {}
    PROVE  \E k \in S : \A j \in S : k <= j
<1> DEFINE R == OpToRel(<, Nat)
<1>1. IsWellFoundedOn(R, Nat)
  BY NatLessThanWellFounded
<1>2. PICK k \in S : \A j \in S : <<j, k>> \notin R
  <2> HIDE DEF R
  <2> QED BY <1>1, WFMin
<1>3. \A j \in S : ~(j < k)
  BY <1>2 DEF OpToRel
<1> QED BY <1>3

(* A content read as a text is a content.                                  *)
LEMMA AsTextType ==
    ASSUME NEW c \in Contents
    PROVE  AsText(c) \in Contents
<1>1. Len(c) \in Nat /\ \A i \in 1 .. Len(c) : c[i] \in Tokens
  OBVIOUS
<1>2. \A i \in 1 .. Len(c) : (IF c[i] = Crlf THEN Lf ELSE c[i]) \in Tokens
  BY <1>1, LineEndsAreTokens
<1> QED BY <1>1, <1>2 DEF AsText

(* What a read shows of a file is one of its states.                       *)
LEMMA ServedType ==
    ASSUME NEW p, NEW c \in FileStates
    PROVE  Served(p, c) \in FileStates
BY AsTextType DEF Served

(* An edit keeps a content a content, wherever the first match is.         *)
LEMMA ReplaceFirstType ==
    ASSUME NEW c \in Contents, NEW x, NEW s \in Contents
    PROVE  ReplaceFirst(c, x, s) \in Contents
<1>1. CASE \E i \in 1 .. Len(c) : c[i] = x
  <2> DEFINE Match == {i \in 1 .. Len(c) : c[i] = x}
  <2>1. Match \in SUBSET Nat /\ Match # {}
    BY <1>1
  <2>2. \E k \in Match : \A j \in Match : k <= j
    <3> HIDE DEF Match
    <3> QED BY <2>1, LeastNatural
  <2>3. \E i \in 1 .. Len(c) : c[i] = x /\ \A j \in 1 .. i - 1 : c[j] # x
    BY <2>2
  <2>4. PICK i \in 1 .. Len(c) :
           ReplaceFirst(c, x, s) = SubSeq(c, 1, i - 1) \o s \o SubSeq(c, i + 1, Len(c))
    BY <1>1, <2>3 DEF ReplaceFirst
  <2>5. SubSeq(c, 1, i - 1) \in Contents /\ SubSeq(c, i + 1, Len(c)) \in Contents
    OBVIOUS
  <2> QED BY <2>4, <2>5
<1>2. CASE ~\E i \in 1 .. Len(c) : c[i] = x
  BY <1>2 DEF ReplaceFirst
<1> QED BY <1>1, <1>2

(* An applicable operation that has its texts makes a file of a file.      *)
LEMMA ResultType ==
    ASSUME NEW op \in Operation, NEW c \in FileStates,
           Applicable(op, c), op.type \in {"append", "edit"} => op.text # None
    PROVE  Result(op, c) \in FileStates
<1>1. CASE op.type \in {"write", "upload"}
  BY <1>1 DEF Result, Operation
<1>2. CASE op.type = "append"
  BY <1>2, NoneIsNoValue DEF Result, Operation
<1>3. CASE op.type = "edit"
  BY <1>3, AsTextType, ReplaceFirstType DEF Result, Operation, Applicable
<1>4. CASE op.type = "delete"
  BY <1>4 DEF Result
<1> QED BY <1>1, <1>2, <1>3, <1>4 DEF Operation, OpTypes

(* A file that was left half-written is a file still.                       *)
LEMMA TornType ==
    ASSUME NEW op, NEW c \in FileStates
    PROVE  Torn(op, c) \in FileStates
BY DEF Torn
-----------------------------------------------------------------------------
(* Verdicts and answers.                                                   *)

(* The comparison of versions ends in one of three ways (_check_version).   *)
LEMMA VersionVerdictType ==
    ASSUME NEW op, NEW required
    PROVE  VersionVerdict(op, required) \in {"ok", "ValidationError", "VersionConflict"}
BY DEF VersionVerdict

(* Validation accepts an operation, names one of the API errors, or raises  *)
(* over a text that does not decode.                                        *)
LEMMA VerdictType ==
    ASSUME NEW op \in Operation
    PROVE  Verdict(op) \in Rejections \cup {"ok", "internal"}
<1>1. MatchVerdict(op) \in Rejections \cup {"ok"}
  BY DEF MatchVerdict, Rejections
<1>2. WriteVerdict(op) \in Rejections \cup {"ok"}
  BY VersionVerdictType DEF WriteVerdict, Rejections
<1>3. op.type \in {"edit", "append", "delete"} =>
         ChangeVerdict(op) \in Rejections \cup {"ok"}
  BY <1>1, VersionVerdictType DEF ChangeVerdict, Rejections
<1> QED BY <1>1, <1>2, <1>3, VersionVerdictType DEF Verdict, Operation, OpTypes, Rejections

(* The first operation that is not valid exists when one is not valid.     *)
LEMMA FirstInvalidType ==
    ASSUME NEW s \in Seq(Operation), ~AllValid(s)
    PROVE  FirstInvalid(s) \in Operation /\ Verdict(FirstInvalid(s)) # "ok"
<1> DEFINE Bad == {i \in 1 .. Len(s) : Verdict(s[i]) # "ok"}
<1>1. Bad \in SUBSET Nat /\ Bad # {}
  BY DEF AllValid
<1>2. \E k \in Bad : \A j \in Bad : k <= j
  <2> HIDE DEF Bad
  <2> QED BY <1>1, LeastNatural
<1>3. \E i \in 1 .. Len(s) : /\ Verdict(s[i]) # "ok"
                             /\ \A j \in 1 .. i - 1 : Verdict(s[j]) = "ok"
  BY <1>2
<1>4. PICK i \in 1 .. Len(s) : FirstInvalid(s) = s[i] /\ Verdict(s[i]) # "ok"
  BY <1>3 DEF FirstInvalid
<1> QED BY <1>4

(* An answer that shows the versions and contents of some paths is typed.   *)
LEMMA ViewType ==
    ASSUME NEW S \in SUBSET Paths, NEW v \in [S -> FileStates], NEW c \in [S -> FileStates]
    PROVE  IsView([p \in S |-> Shown(v[p], c[p])])
<1>1. [p \in S |-> Shown(v[p], c[p])] \in [S -> [version: FileStates, content: FileStates]]
  BY DEF Shown
<1> QED BY <1>1 DEF IsView

(* An answer that shows nothing is typed.                                   *)
LEMMA NoViewType == IsView(NoView)
<1>1. NoView \in [{} -> [version: FileStates, content: FileStates]]
  BY DEF NoView
<1> QED BY <1>1 DEF IsView

IsAnswer(r) == r.status \in Statuses /\ IsView(r.view)

(* An answer of a status alone is typed.                                    *)
LEMMA PlainAnswerType ==
    ASSUME NEW s \in Statuses
    PROVE  IsAnswer(Answer(s, NoView))
BY NoViewType DEF Answer, IsAnswer

(* The answer to the first operation refused is typed.                      *)
LEMMA RejectionType ==
    ASSUME TypeOK, NEW s \in Seq(Operation), ~AllValid(s)
    PROVE  IsAnswer(Rejection(FirstInvalid(s)))
<1> DEFINE op == FirstInvalid(s)
           S == {op.path}
           v == [p \in S |-> IF Exists(p) THEN head[p] ELSE None]
           c == [p \in S |-> IF p \in TextPaths THEN Served(p, work[p]) ELSE None]
<1>1. op \in Operation /\ Verdict(op) \in Statuses
  BY FirstInvalidType, VerdictType DEF Statuses
<1>2. S \in SUBSET Paths /\ v \in [S -> FileStates] /\ c \in [S -> FileStates]
  <2>1. op.path \in Paths /\ \A p \in Paths : work[p] \in FileStates /\ head[p] \in FileStates
    BY <1>1 DEF TypeOK, Operation
  <2>2. \A p \in Paths : Served(p, work[p]) \in FileStates
    BY <2>1, ServedType
  <2> HIDE DEF op
  <2> QED BY <2>1, <2>2
<1>3. IsView([p \in S |-> Shown(v[p], c[p])])
  <2> HIDE DEF S, v, c
  <2> QED BY <1>2, ViewType
<1>4. IsView([p \in {op.path} |-> Shown(IF Exists(p) THEN head[p] ELSE None,
                               IF p \in TextPaths THEN Served(p, work[p]) ELSE None)])
  BY <1>3
<1>5. PICK view : IsView(view) /\ Rejection(op) = Answer(Verdict(op), view)
  <2> HIDE DEF op, S, v, c
  <2> QED BY <1>4, NoViewType DEF Rejection
<1> QED BY <1>1, <1>5 DEF Answer, IsAnswer

(* What get_file, get_file_content_bytes and list_tree return is typed.     *)
LEMMA FetchAnswerType ==
    ASSUME TypeOK, NEW w \in Wants
    PROVE  IsAnswer(FetchAnswer(w.kind, w.path))
<1> DEFINE kind == w.kind
           p == w.path
<1>1. \A S \in SUBSET Paths : IsView([q \in S |-> Shown(head[q], Served(q, work[q]))])
  <2> TAKE S \in SUBSET Paths
  <2> DEFINE v == [q \in S |-> head[q]]
             c == [q \in S |-> Served(q, work[q])]
  <2>1. v \in [S -> FileStates] /\ c \in [S -> FileStates]
    BY ServedType DEF TypeOK
  <2>2. IsView([q \in S |-> Shown(v[q], c[q])])
    <3> HIDE DEF v, c
    <3> QED BY <2>1, ViewType
  <2> QED BY <2>2
<1>2. p \in Paths => IsView([q \in {p} |-> Shown(None, work[q])])
  <2> HAVE p \in Paths
  <2> DEFINE S == {p}
             v == [q \in S |-> None]
             c == [q \in S |-> work[q]]
  <2>1. S \in SUBSET Paths /\ v \in [S -> FileStates] /\ c \in [S -> FileStates]
    BY DEF TypeOK
  <2>2. IsView([q \in S |-> Shown(v[q], c[q])])
    <3> HIDE DEF S, v, c
    <3> QED BY <2>1, ViewType
  <2> QED BY <2>2
<1>3. /\ p \in Paths => IsView([q \in {p} |-> Shown(head[q], Served(q, work[q]))])
      /\ IsView([q \in {r \in Paths : Exists(r)} |-> Shown(head[q], Served(q, work[q]))])
  BY <1>1
<1>4. \A v : IsView(v) => IsAnswer(Answer("read", v))
  BY DEF Answer, IsAnswer, Statuses
<1>5. IsAnswer(Answer("assertion", NoView)) /\ IsAnswer(Answer("internal", NoView))
  BY PlainAnswerType DEF Statuses
<1> QED
  <2>1. CASE kind = "tree"
    BY <2>1, <1>3, <1>4, <1>5 DEF FetchAnswer
  <2>2. CASE kind \in ReadKinds \ {"tree"} /\ p \in Paths
    BY <2>2, <1>2, <1>3, <1>4, <1>5 DEF FetchAnswer
  <2>3. CASE kind = "none"
    BY <2>3, <1>5 DEF FetchAnswer
  <2> QED BY <2>1, <2>2, <2>3 DEF Wants
-----------------------------------------------------------------------------
(* StoreInv is inductive.                                                  *)

(* The store as it is opened satisfies the invariant.                       *)
LEMMA InitInv == Init => StoreInv
<1> SUFFICES ASSUME Init PROVE StoreInv
  OBVIOUS
<1> USE DEF Init
<1>1. TypeOK
  <2>1. AnswersTyped
    <3>1. IsAnswer(Answer("none", NoView))
      BY PlainAnswerType DEF Statuses
    <3> QED BY <3>1 DEF AnswersTyped, IsAnswer
  <2>2. ops \in [Threads -> Seq(Operation)] /\ pos \in [Threads -> Nat]
        /\ \A t \in Threads : pos[t] \in 1 .. Len(ops[t]) + 1
    OBVIOUS
  <2>3. work \in [Paths -> FileStates] /\ index \in [Paths -> FileStates]
        /\ head \in [Paths -> FileStates]
    BY InitialTyped
  <2> QED BY <2>1, <2>2, <2>3, MaxRequestsIsNat DEF TypeOK, AnswersTyped, IsAnswer, Wants
<1>2. \A t \in Threads : pc[t] = "idle" /\ ~InPhase2(t)
  BY DEF InPhase2
<1>3. LockProtects
  BY NoThreadIsNone DEF LockProtects, Critical
<1>4. PositionsFit /\ TextsGiven /\ VersionsHeld /\ IndexFollows /\ DeletedIsGone
  BY <1>2 DEF PositionsFit, TextsGiven, VersionsHeld, IndexFollows, DeletedIsGone
<1>5. UntouchedIsClean /\ QuietIsClean
  BY <1>2 DEF UntouchedIsClean, QuietIsClean
<1> QED BY <1>1, <1>3, <1>4, <1>5 DEF StoreInv

(* A step that leaves the files and every thread in phase 2 alone.         *)
LEMMA QuietStep ==
    ASSUME StoreInv, TypeOK', LockProtects', PositionsFit',
           UNCHANGED <<files, residue>>,
           \A t \in Threads : /\ InPhase2(t)' = InPhase2(t)
                              /\ InPhase2(t) => /\ pc'[t] = pc[t]
                                               /\ ops'[t] = ops[t]
                                               /\ pos'[t] = pos[t]
    PROVE  StoreInv'
<1> USE DEF StoreInv, files
<1>1. TextsGiven'
  BY DEF TextsGiven
<1>2. VersionsHeld'
  BY DEF VersionsHeld
<1>3. IndexFollows'
  BY DEF IndexFollows
<1>4. DeletedIsGone'
  BY DEF DeletedIsGone, InPhase2
<1>5. UntouchedIsClean'
  BY DEF UntouchedIsClean, AppliedCount
<1>6. QuietIsClean'
  BY DEF QuietIsClean
<1> QED BY <1>1, <1>2, <1>3, <1>4, <1>5, <1>6

(* A thread that is not in its critical section finishes, or starts a      *)
(* request and waits for the lock.                                         *)
LEMMA WaitingStep ==
    ASSUME StoreInv, NEW t \in Threads, pc[t] \notin Critical,
           UNCHANGED <<files, lock, residue>>, issued' \in 0 .. MaxRequests,
           want' \in [Threads -> Wants],
           NEW pcT \in {"idle", "fetch", "validate"}, pc' = [pc EXCEPT ![t] = pcT],
           NEW s \in Seq(Operation), ops' = [ops EXCEPT ![t] = s],
           NEW k \in 1 .. Len(s) + 1, pos' = [pos EXCEPT ![t] = k],
           pcT = "validate" => s # <<>> /\ k = 1,
           AnswersTyped'
    PROVE  StoreInv'
<1> USE DEF StoreInv, files
<1>1. \A u \in Threads : u # t => pc'[u] = pc[u] /\ ops'[u] = ops[u] /\ pos'[u] = pos[u]
  BY DEF TypeOK
<1>2. pc'[t] = pcT /\ ops'[t] = s /\ pos'[t] = k
  BY DEF TypeOK
<1>3. TypeOK'
  <2>1. ops' \in [Threads -> Seq(Operation)] /\ pos' \in [Threads -> Nat]
    BY DEF TypeOK
  <2>2. \A u \in Threads : pos'[u] \in 1 .. Len(ops'[u]) + 1
    BY <1>1, <1>2 DEF TypeOK
  <2>3. pc' \in [Threads -> {"idle", "fetch", "validate"} \cup Critical]
    BY DEF TypeOK
  <2> QED BY <2>1, <2>2, <2>3 DEF TypeOK, AnswersTyped, IsAnswer
<1>4. LockProtects'
  BY <1>1, <1>2 DEF LockProtects, Critical
<1>5. PositionsFit'
  <2>1. s # <<>> => 1 \in 1 .. Len(s)
    OBVIOUS
  <2> QED BY <1>1, <1>2, <2>1 DEF PositionsFit
<1>6. ~InPhase2(t) /\ ~InPhase2(t)'
  BY <1>2 DEF InPhase2, Critical
<1>7. \A u \in Threads : InPhase2(u)' = InPhase2(u)
  BY <1>1, <1>6 DEF InPhase2
<1> QED BY <1>3, <1>1, <1>4, <1>5, <1>6, <1>7, QuietStep
(* Answering a request outside phase 2 is such a waiting step.              *)
LEMMA FinishIsWaiting ==
    ASSUME StoreInv, NEW t \in Threads, NEW answer, IsAnswer(answer), Finish(t, answer)
    PROVE  /\ pc' = [pc EXCEPT ![t] = "idle"]
           /\ ops' = [ops EXCEPT ![t] = <<>>] /\ <<>> \in Seq(Operation)
           /\ pos' = [pos EXCEPT ![t] = 1] /\ 1 \in 1 .. Len(<<>>) + 1
           /\ AnswersTyped'
BY DEF Finish, StoreInv, TypeOK, AnswersTyped, IsAnswer

(* A request counts towards the bound.                                      *)
LEMMA RequestCounted ==
    ASSUME StoreInv, NEW t \in Threads, NewRequest(t)
    PROVE  pc[t] \notin Critical /\ issued' \in 0 .. MaxRequests
BY MaxRequestsIsNat DEF NewRequest, Critical, StoreInv, TypeOK

(* The existence test of a read disturbs nothing.                           *)
LEMMA BeginReadStep ==
    ASSUME StoreInv, NEW t \in Threads, NEW kind \in ReadKinds \ {"tree"}, NEW p \in Paths,
           BeginRead(t, kind, p)
    PROVE  StoreInv'
<1>1. /\ pc[t] \notin Critical /\ issued' \in 0 .. MaxRequests
      /\ UNCHANGED <<files, lock, residue>>
  BY RequestCounted DEF BeginRead
<1>2. \A status \in Statuses : Finish(t, Answer(status, NoView)) /\ UNCHANGED want => StoreInv'
  <2> SUFFICES ASSUME NEW status \in Statuses,
                      Finish(t, Answer(status, NoView)), UNCHANGED want
               PROVE  StoreInv'
    OBVIOUS
  <2>1. IsAnswer(Answer(status, NoView))
    BY PlainAnswerType
  <2> QED BY <1>1, <2>1, FinishIsWaiting, WaitingStep DEF StoreInv, TypeOK
<1>3. ASSUME pc' = [pc EXCEPT ![t] = "fetch"],
             want' = [want EXCEPT ![t] = [kind |-> kind, path |-> p]],
             UNCHANGED <<ops, pos, resp>>
      PROVE  StoreInv'
  <2>1. /\ ops[t] \in Seq(Operation) /\ pos[t] \in 1 .. Len(ops[t]) + 1
        /\ ops' = [ops EXCEPT ![t] = ops[t]] /\ pos' = [pos EXCEPT ![t] = pos[t]]
        /\ AnswersTyped'
        /\ want' \in [Threads -> Wants]
    BY <1>3 DEF StoreInv, TypeOK, AnswersTyped, IsAnswer, Wants
  <2> QED BY <1>1, <1>3, <2>1, WaitingStep
<1> QED BY <1>2, <1>3 DEF BeginRead, Statuses, Rejections

(* The arrival of a listing disturbs nothing.                               *)
LEMMA BeginTreeStep ==
    ASSUME StoreInv, NEW t \in Threads, BeginTree(t)
    PROVE  StoreInv'
<1>1. /\ pc[t] \notin Critical /\ issued' \in 0 .. MaxRequests
  BY RequestCounted DEF BeginTree
<1>2. /\ ops[t] \in Seq(Operation) /\ pos[t] \in 1 .. Len(ops[t]) + 1
      /\ ops' = [ops EXCEPT ![t] = ops[t]] /\ pos' = [pos EXCEPT ![t] = pos[t]]
      /\ AnswersTyped'
      /\ want' \in [Threads -> Wants]
  BY DEF BeginTree, StoreInv, TypeOK, AnswersTyped, IsAnswer, Wants
<1> QED BY <1>1, <1>2, WaitingStep DEF BeginTree

(* The locked part of a read preserves the invariant.                       *)
LEMMA FetchStep ==
    ASSUME StoreInv, NEW t \in Threads, Fetch(t)
    PROVE  StoreInv'
<1>1. pc[t] \notin Critical /\ UNCHANGED <<files, lock, residue>> /\ issued' \in 0 .. MaxRequests
  BY DEF Fetch, Critical, StoreInv, TypeOK
<1>2. want' \in [Threads -> Wants]
  BY DEF Fetch, StoreInv, TypeOK, Wants
<1>3. IsAnswer(FetchAnswer(want[t].kind, want[t].path))
  BY FetchAnswerType DEF StoreInv, TypeOK
<1> QED BY <1>1, <1>2, <1>3, FinishIsWaiting, WaitingStep DEF Fetch
(* So does the arrival of a batch or of an upload.                          *)
LEMMA BeginBatchStep ==
    ASSUME StoreInv, NEW t \in Threads, NEW s \in Scripts,
           NEW ver, \A i \in 1 .. Len(s) : ver[i] \in KnownVersions(s[i].path),
           BeginBatch(t, s, ver) \/ BeginUpload(t, s, ver)
    PROVE  StoreInv'
<1> DEFINE batch == [i \in 1 .. Len(s) |->
                       [type |-> s[i].type, path |-> s[i].path,
                        old |-> s[i].old, text |-> s[i].text, ver |-> ver[i]]]
<1>1. /\ pc[t] \notin Critical /\ issued' \in 0 .. MaxRequests
      /\ UNCHANGED <<files, lock, want, residue>> /\ want' \in [Threads -> Wants]
  BY RequestCounted DEF BeginBatch, BeginUpload, StoreInv, TypeOK
<1>2. \A status \in Statuses : Finish(t, Answer(status, NoView)) => StoreInv'
  <2> SUFFICES ASSUME NEW status \in Statuses, Finish(t, Answer(status, NoView))
               PROVE  StoreInv'
    OBVIOUS
  <2>1. IsAnswer(Answer(status, NoView))
    BY PlainAnswerType
  <2> QED BY <1>1, <2>1, FinishIsWaiting, WaitingStep
<1>3. ASSUME s # <<>>, pc' = [pc EXCEPT ![t] = "validate"],
             ops' = [ops EXCEPT ![t] = batch], pos' = [pos EXCEPT ![t] = 1],
             UNCHANGED resp
      PROVE  StoreInv'
  <2>1. s \in Seq(Template)
    BY ScriptsTyped
  <2>2. ASSUME NEW i \in 1 .. Len(s)
        PROVE  /\ s[i] \in Template
               /\ KnownVersions(s[i].path) \subseteq Versions
    <3>1. s[i] \in Template
      BY <2>1
    <3>2. head[s[i].path] \in FileStates
      BY <3>1 DEF Template, StoreInv, TypeOK
    <3> QED BY <3>1, <3>2 DEF KnownVersions, Versions
  <2>3. \A i \in 1 .. Len(s) : batch[i] \in Operation
    BY <2>2 DEF Template, Operation
  <2>4. batch \in Seq(Operation) /\ Len(batch) = Len(s)
    <3> HIDE DEF Operation
    <3>1. Len(s) \in Nat /\ batch \in [1 .. Len(s) -> Operation]
      BY <2>1, <2>3
    <3> HIDE DEF batch
    <3> QED BY <3>1
  <2>5. batch # <<>> /\ 1 \in 1 .. Len(batch) + 1
    BY <1>3, <2>1, <2>4
  <2>6. AnswersTyped'
    BY <1>3 DEF StoreInv, TypeOK, AnswersTyped, IsAnswer
  <2> HIDE DEF batch
  <2> QED BY <1>1, <1>3, <2>4, <2>5, <2>6, WaitingStep
<1>4. IsUpload(s) => s # <<>>
  BY DEF IsUpload
<1> QED BY <1>2, <1>3, <1>4 DEF BeginBatch, BeginUpload, Enqueue, Statuses, Rejections

(* Validation against a store that is clean outside the residue leaves the *)
(* batch with the versions it is going to replace.                         *)
LEMMA ValidVersions ==
    ASSUME StoreInv, lock = NoThread, NEW op \in Operation, Verdict(op) = "ok"
    PROVE  /\ op.path \in residue \/ op.ver = head[op.path]
           /\ op.type \in {"append", "edit"} => op.text # None
<1>1. op.path \in residue \/ work[op.path] = head[op.path]
  <2>1. \A t \in Threads : ~InPhase2(t)
    BY NoThreadIsNone DEF StoreInv, LockProtects, InPhase2, Critical
  <2> QED BY <2>1 DEF StoreInv, QuietIsClean, Operation
<1>2. VersionVerdict(op, TRUE) = "ok" => (work[op.path] = None /\ op.ver = None)
                                         \/ op.ver = head[op.path]
  BY DEF VersionVerdict, Exists
<1>3. VersionVerdict(op, Exists(op.path)) = "ok" => VersionVerdict(op, TRUE) = "ok"
  BY DEF VersionVerdict
<1>4. VersionVerdict(op, TRUE) = "ok"
  BY <1>3 DEF Verdict, WriteVerdict, ChangeVerdict, Operation, OpTypes
<1>5. op.type \in {"append", "edit"} => op.text # None
  BY DEF Verdict, ChangeVerdict, MatchVerdict
<1> QED BY <1>1, <1>2, <1>4, <1>5

(* Phase 1: what it finds of versions and texts is what phase 2 needs.      *)
LEMMA ValidateStep ==
    ASSUME StoreInv, NEW t \in Threads, Validate(t)
    PROVE  StoreInv'
<1>1. CASE ~AllValid(ops[t])
  <2>1. pc[t] \notin Critical /\ issued' \in 0 .. MaxRequests /\ want' \in [Threads -> Wants]
    BY DEF Validate, Critical, StoreInv, TypeOK
  <2>2. IsAnswer(Rejection(FirstInvalid(ops[t])))
    BY <1>1, RejectionType DEF StoreInv, TypeOK
  <2> QED BY <1>1, <2>1, <2>2, FinishIsWaiting, WaitingStep DEF Validate
<1>2. CASE AllValid(ops[t])
  <2> USE DEF StoreInv
  <2>1. /\ pc[t] = "validate" /\ lock = NoThread /\ lock' = t
        /\ pc' = [pc EXCEPT ![t] = "apply"] /\ UNCHANGED <<ops, pos, resp>>
        /\ UNCHANGED <<work, index, head, want, residue, issued>>
    BY <1>2 DEF Validate, files
  <2>2. \A u \in Threads : ~InPhase2(u) /\ pc[u] \notin Critical
    BY <2>1, NoThreadIsNone DEF LockProtects, InPhase2, Critical
  <2>3. pc'[t] = "apply" /\ \A u \in Threads : u # t => pc'[u] = pc[u]
    BY <2>1 DEF TypeOK
  <2>4. InPhase2(t)' /\ \A u \in Threads : u # t => ~InPhase2(u)'
    BY <2>2, <2>3 DEF InPhase2
  <2>5. ops[t] \in Seq(Operation) /\ pos[t] \in 1 .. Len(ops[t])
    <3>1. ops[t] \in Seq(Operation) /\ ops[t] # <<>> /\ pos[t] = 1
      BY <2>1 DEF TypeOK, PositionsFit
    <3> HIDE DEF Operation
    <3> QED BY <3>1
  <2>6. \A i \in 1 .. Len(ops[t]) : ops[t][i] \in Operation /\ Verdict(ops[t][i]) = "ok"
    BY <1>2, <2>5 DEF AllValid
  <2>7. TypeOK'
    BY <2>1 DEF TypeOK, AnswersTyped, Critical
  <2>8. LockProtects'
    BY <2>1, <2>2, <2>3, NoThreadIsNone DEF LockProtects, Critical
  <2>9. PositionsFit'
    BY <2>1, <2>3, <2>5 DEF PositionsFit
  <2>10. TextsGiven' /\ VersionsHeld'
    BY <2>1, <2>4, <2>6, ValidVersions DEF TextsGiven, VersionsHeld
  <2>11. \A p \in Paths \ residue : work[p] = head[p] /\ index[p] = head[p]
    BY <2>2 DEF QuietIsClean
  <2>12. IndexFollows'
    <3>1. pos[t] = 1
      BY <2>1 DEF PositionsFit
    <3>2. Begun(ops[t], pos[t] - 1) = {}
      BY <3>1 DEF Begun
    <3> QED BY <2>1, <2>4, <2>11, <3>2 DEF IndexFollows
  <2>13. DeletedIsGone'
    BY <2>3, <2>4 DEF DeletedIsGone, InPhase2
  <2>14. UntouchedIsClean'
    BY <2>1, <2>4, <2>11 DEF UntouchedIsClean
  <2>15. QuietIsClean'
    BY <2>4 DEF QuietIsClean
  <2> QED BY <2>7, <2>8, <2>9, <2>10, <2>12, <2>13, <2>14, <2>15
<1> QED BY <1>1, <1>2
(* The work-tree half of an operation puts its path ahead of the index.     *)
LEMMA ApplyStep ==
    ASSUME StoreInv, NEW t \in Threads, Apply(t)
    PROVE  StoreInv'
<1> USE DEF StoreInv
<1> DEFINE op == ops[t][pos[t]]
<1>1. /\ pc[t] = "apply" /\ Applicable(op, work[op.path])
      /\ work' = [work EXCEPT ![op.path] = Result(op, work[op.path])]
      /\ pc' = [pc EXCEPT ![t] = "stage"]
      /\ UNCHANGED <<index, head, lock, want, ops, pos, resp, residue, issued>>
  BY DEF Apply
<1>2. /\ ops[t] \in Seq(Operation) /\ pos[t] \in 1 .. Len(ops[t]) /\ pos[t] \in Nat
      /\ op \in Operation
      /\ op.type \in {"append", "edit"} => op.text # None
  BY <1>1 DEF TypeOK, PositionsFit, TextsGiven, InPhase2
<1>3. pc'[t] = "stage" /\ \A u \in Threads : u # t => pc'[u] = pc[u]
  BY <1>1 DEF TypeOK
<1>4. lock = t /\ InPhase2(t) /\ InPhase2(t)' /\ \A u \in Threads : u # t => ~InPhase2(u)'
  BY <1>1, <1>3 DEF LockProtects, InPhase2, Critical
<1>5. op.path \in Paths /\ op.path \in Begun(ops[t], pos[t])
  BY <1>2 DEF Operation, Begun
<1>6. /\ work' \in [Paths -> FileStates]
      /\ work'[op.path] = Result(op, work[op.path])
      /\ \A p \in Paths : p # op.path => work'[p] = work[p]
  <2>1. work[op.path] \in FileStates
    BY <1>5 DEF TypeOK
  <2>2. Result(op, work[op.path]) \in FileStates
    BY <1>1, <1>2, <2>1, ResultType
  <2> QED BY <1>1, <1>5, <2>2 DEF TypeOK
<1> HIDE DEF op
<1>7. TypeOK'
  BY <1>1, <1>6 DEF TypeOK, AnswersTyped, Critical
<1>8. LockProtects'
  BY <1>1, <1>3, <1>4 DEF LockProtects, Critical
<1>9. PositionsFit'
  BY <1>1, <1>2, <1>3 DEF PositionsFit
<1>10. TextsGiven' /\ VersionsHeld'
  BY <1>1, <1>4 DEF TextsGiven, VersionsHeld
<1>11. IndexFollows'
  BY <1>1, <1>3, <1>4, <1>6 DEF IndexFollows, op
<1>12. DeletedIsGone'
  BY <1>1, <1>3, <1>4, <1>6 DEF DeletedIsGone, InPhase2, Result, op
<1>13. UntouchedIsClean'
  <2> SUFFICES ASSUME NEW p \in Paths \ residue, p \notin Begun(ops[t], pos[t])
               PROVE  work'[p] = head[p]
    BY <1>1, <1>3, <1>4 DEF UntouchedIsClean, AppliedCount
  <2>1. p # op.path
    BY <1>5
  <2>2. p \notin Begun(ops[t], pos[t] - 1)
    BY <1>2 DEF Begun
  <2> QED BY <1>1, <1>4, <1>6, <2>1, <2>2 DEF UntouchedIsClean, AppliedCount
<1>14. QuietIsClean'
  BY <1>4 DEF QuietIsClean
<1> QED BY <1>7, <1>8, <1>9, <1>10, <1>11, <1>12, <1>13, <1>14

(* The index half brings the index level again.                             *)
LEMMA StageStep ==
    ASSUME StoreInv, NEW t \in Threads, Stage(t)
    PROVE  StoreInv'
<1> USE DEF StoreInv
<1> DEFINE op == ops[t][pos[t]]
           new == IF op.type = "delete" THEN None ELSE work[op.path]
<1>1. /\ pc[t] = "stage" /\ index' = [index EXCEPT ![op.path] = new]
      /\ pos' = [pos EXCEPT ![t] = pos[t] + 1]
      /\ pc' = [pc EXCEPT ![t] = IF pos[t] = Len(ops[t]) THEN "commit" ELSE "apply"]
      /\ UNCHANGED <<work, head, lock, want, ops, resp, residue, issued>>
  BY DEF Stage
<1>2. /\ ops[t] \in Seq(Operation) /\ pos[t] \in 1 .. Len(ops[t]) /\ pos[t] \in Nat
      /\ op \in Operation /\ op.path \in Paths
  <2>1. ops[t] \in Seq(Operation) /\ pos[t] \in 1 .. Len(ops[t]) /\ pos[t] \in Nat
    BY <1>1 DEF TypeOK, PositionsFit
  <2>2. op \in Operation
    BY <2>1
  <2> QED BY <2>1, <2>2 DEF Operation
<1>3. /\ pc'[t] = IF pos[t] = Len(ops[t]) THEN "commit" ELSE "apply"
      /\ pos'[t] = pos[t] + 1
      /\ \A u \in Threads : u # t => pc'[u] = pc[u] /\ pos'[u] = pos[u]
  BY <1>1 DEF TypeOK
<1>4. lock = t /\ InPhase2(t) /\ InPhase2(t)' /\ \A u \in Threads : u # t => ~InPhase2(u)'
  BY <1>1, <1>3 DEF LockProtects, InPhase2, Critical
<1>5. new = work[op.path]
  BY <1>1 DEF DeletedIsGone
<1>6. /\ index' \in [Paths -> FileStates] /\ index'[op.path] = work[op.path]
      /\ \A p \in Paths : p # op.path => index'[p] = index[p]
  <2> HIDE DEF new
  <2> QED BY <1>1, <1>2, <1>5 DEF TypeOK
<1> HIDE DEF op, new
<1>7. Len(ops[t]) \in Nat
  BY <1>2
<1>8. TypeOK'
  <2>1. pc' \in [Threads -> {"idle", "fetch", "validate"} \cup Critical]
    BY <1>1 DEF TypeOK, Critical
  <2>2. pos' \in [Threads -> Nat]
    BY <1>1, <1>2 DEF TypeOK
  <2>3. \A u \in Threads : pos'[u] \in 1 .. Len(ops[u]) + 1
    <3>1. \A u \in Threads : pos[u] \in 1 .. Len(ops[u]) + 1
      BY DEF TypeOK
    <3>2. pos'[t] \in 1 .. Len(ops[t]) + 1
      BY <1>2, <1>3, <1>7
    <3> QED BY <1>3, <3>1, <3>2
  <2> QED BY <1>1, <1>6, <2>1, <2>2, <2>3 DEF TypeOK, AnswersTyped
<1>9. LockProtects'
  BY <1>1, <1>3, <1>4 DEF LockProtects, Critical
<1>10. PositionsFit'
  BY <1>1, <1>2, <1>3, <1>7 DEF PositionsFit
<1>11. TextsGiven' /\ VersionsHeld'
  BY <1>1, <1>4 DEF TextsGiven, VersionsHeld
<1>12. pos'[t] - 1 = pos[t] /\ pc'[t] # "stage"
  BY <1>2, <1>3
<1>13. IndexFollows'
  <2> SUFFICES ASSUME NEW p \in Paths, p \notin residue \/ p \in Begun(ops[t], pos[t])
               PROVE  index'[p] = work[p]
    BY <1>1, <1>4, <1>12 DEF IndexFollows
  <2>1. CASE p = op.path
    BY <2>1, <1>6
  <2>2. CASE p # op.path
    <3>1. p \in Begun(ops[t], pos[t]) => p \in Begun(ops[t], pos[t] - 1)
      BY <2>2, <1>2 DEF Begun, op
    <3> QED BY <2>2, <3>1, <1>4, <1>6 DEF IndexFollows, op
  <2> QED BY <2>1, <2>2
<1>14. DeletedIsGone'
  BY <1>4, <1>12 DEF DeletedIsGone, InPhase2
<1>15. UntouchedIsClean'
  BY <1>1, <1>4, <1>12 DEF UntouchedIsClean, AppliedCount
<1>16. QuietIsClean'
  BY <1>4 DEF QuietIsClean
<1> QED BY <1>8, <1>9, <1>10, <1>11, <1>13, <1>14, <1>15, <1>16
(* After the commit the paths of the batch are clean.                       *)
LEMMA CommitStep ==
    ASSUME StoreInv, NEW t \in Threads, Commit(t)
    PROVE  StoreInv'
<1> USE DEF StoreInv
<1>1. /\ pc[t] = "commit" /\ head' = index /\ residue' = residue \ Touched(ops[t])
      /\ pc' = [pc EXCEPT ![t] = "reply"]
      /\ UNCHANGED <<work, index, lock, want, ops, pos, resp, issued>>
  BY DEF Commit
<1>2. pc'[t] = "reply" /\ \A u \in Threads : u # t => pc'[u] = pc[u]
  BY <1>1 DEF TypeOK
<1>3. lock = t /\ InPhase2(t) /\ \A u \in Threads : ~InPhase2(u)'
  BY <1>1, <1>2 DEF LockProtects, InPhase2, Critical
<1>4. Begun(ops[t], pos[t] - 1) = Touched(ops[t])
  <2>1. Len(ops[t]) \in Nat /\ pos[t] - 1 = Len(ops[t])
    BY <1>1 DEF TypeOK, PositionsFit
  <2> QED BY <2>1 DEF Begun, Touched
<1>5. TypeOK'
  BY <1>1 DEF TypeOK, AnswersTyped, Critical
<1>6. LockProtects'
  BY <1>1, <1>2, <1>3 DEF LockProtects, Critical
<1>7. PositionsFit'
  BY <1>1, <1>2 DEF PositionsFit
<1>8. TextsGiven' /\ VersionsHeld' /\ IndexFollows' /\ UntouchedIsClean'
  BY <1>3 DEF TextsGiven, VersionsHeld, IndexFollows, UntouchedIsClean
<1>9. DeletedIsGone'
  BY <1>3 DEF DeletedIsGone, InPhase2
<1>10. QuietIsClean'
  BY <1>1, <1>3, <1>4 DEF QuietIsClean, IndexFollows
<1> QED BY <1>5, <1>6, <1>7, <1>8, <1>9, <1>10

(* The lock is given back with everything outside the residue clean.        *)
LEMMA ReplyStep ==
    ASSUME StoreInv, NEW t \in Threads, Reply(t)
    PROVE  StoreInv'
<1> USE DEF StoreInv
<1> DEFINE S == Touched(ops[t]) \ DeletedPaths(ops[t])
           v == [p \in S |-> head[p]]
           c == [p \in S |-> None]
           answer == Answer("committed", [p \in S |-> Shown(head[p], None)])
<1>1. pc[t] = "reply" /\ lock' = NoThread /\ Finish(t, answer)
      /\ UNCHANGED <<files, want, residue, issued>>
  BY DEF Reply
<1>2. S \in SUBSET Paths
  <2>1. \A i \in 1 .. Len(ops[t]) : ops[t][i] \in Operation
    BY DEF TypeOK
  <2> QED BY <2>1 DEF Touched, Operation
<1>3. IsAnswer(answer)
  <2>1. v \in [S -> FileStates] /\ c \in [S -> FileStates]
    BY <1>2 DEF TypeOK
  <2>2. IsView([p \in S |-> Shown(v[p], c[p])])
    <3> HIDE DEF S, v, c
    <3> QED BY <1>2, <2>1, ViewType
  <2>3. IsView([p \in S |-> Shown(head[p], None)])
    BY <2>2
  <2> HIDE DEF S
  <2> QED BY <2>3 DEF Answer, IsAnswer, Statuses
<1> HIDE DEF answer
<1>4. /\ pc' = [pc EXCEPT ![t] = "idle"] /\ ops' = [ops EXCEPT ![t] = <<>>]
      /\ pos' = [pos EXCEPT ![t] = 1] /\ AnswersTyped'
  BY <1>1, <1>3, FinishIsWaiting
<1>5. pc'[t] = "idle" /\ ops'[t] = <<>> /\ pos'[t] = 1
  BY <1>4 DEF TypeOK
<1>6. \A u \in Threads : u # t => pc'[u] = pc[u] /\ ops'[u] = ops[u] /\ pos'[u] = pos[u]
  BY <1>4 DEF TypeOK
<1>7. TypeOK'
  <2>1. ops' \in [Threads -> Seq(Operation)] /\ pos' \in [Threads -> Nat]
    BY <1>4 DEF TypeOK
  <2>2. \A u \in Threads : pos'[u] \in 1 .. Len(ops'[u]) + 1
    <3>1. \A u \in Threads : pos[u] \in 1 .. Len(ops[u]) + 1
      BY DEF TypeOK
    <3> QED BY <1>5, <1>6, <3>1
  <2>3. pc' \in [Threads -> {"idle", "fetch", "validate"} \cup Critical]
    BY <1>4 DEF TypeOK
  <2> QED BY <1>1, <1>4, <2>1, <2>2, <2>3 DEF TypeOK, AnswersTyped, IsAnswer, files
<1>8. lock = t /\ \A u \in Threads : u # t => pc[u] \notin Critical
  BY <1>1 DEF LockProtects, Critical
<1>9. LockProtects'
  BY <1>1, <1>5, <1>6, <1>8, NoThreadIsNone DEF LockProtects, Critical
<1>10. PositionsFit'
  BY <1>5, <1>6 DEF PositionsFit
<1>11. \A u \in Threads : ~InPhase2(u) /\ InPhase2(u)' = InPhase2(u)
  BY <1>1, <1>5, <1>6, <1>8 DEF InPhase2, Critical
<1> QED BY <1>1, <1>7, <1>9, <1>10, <1>11, QuietStep
(* An exception in the critical section leaves what the batch has begun to *)
(* the residue.                                                            *)
LEMMA AbortStep ==
    ASSUME StoreInv, NEW t \in Threads, NEW status \in Statuses,
           pc[t] \in Critical, Abort(t, status),
           UNCHANGED <<index, head>>, work' \in [Paths -> FileStates],
           \A p \in Paths : \/ p \in Begun(ops[t], pos[t]) /\ pc[t] # "reply"
                            \/ work'[p] = work[p]
    PROVE  StoreInv'
<1> USE DEF StoreInv
<1>1. /\ lock' = NoThread /\ UNCHANGED <<want, issued>>
      /\ Finish(t, Answer(status, NoView))
      /\ residue' = IF pc[t] = "reply" THEN residue ELSE residue \cup Begun(ops[t], pos[t])
  BY DEF Abort
<1>2. /\ pc' = [pc EXCEPT ![t] = "idle"] /\ ops' = [ops EXCEPT ![t] = <<>>]
      /\ pos' = [pos EXCEPT ![t] = 1] /\ AnswersTyped'
  <2>1. IsAnswer(Answer(status, NoView))
    BY PlainAnswerType
  <2> QED BY <1>1, <2>1, FinishIsWaiting
<1>3. pc'[t] = "idle" /\ ops'[t] = <<>> /\ pos'[t] = 1
  BY <1>2 DEF TypeOK
<1>4. \A u \in Threads : u # t => pc'[u] = pc[u] /\ ops'[u] = ops[u] /\ pos'[u] = pos[u]
  BY <1>2 DEF TypeOK
<1>5. ops[t] \in Seq(Operation) /\ pos[t] \in Nat /\ Begun(ops[t], pos[t]) \subseteq Paths
  <2>1. \A i \in 1 .. Len(ops[t]) : ops[t][i] \in Operation
    BY DEF TypeOK
  <2> QED BY <2>1 DEF Begun, Operation, TypeOK
<1>6. TypeOK'
  <2>1. ops' \in [Threads -> Seq(Operation)] /\ pos' \in [Threads -> Nat]
    BY <1>2 DEF TypeOK
  <2>2. \A u \in Threads : pos'[u] \in 1 .. Len(ops'[u]) + 1
    <3>1. \A u \in Threads : pos[u] \in 1 .. Len(ops[u]) + 1
      BY DEF TypeOK
    <3> QED BY <1>3, <1>4, <3>1
  <2>3. pc' \in [Threads -> {"idle", "fetch", "validate"} \cup Critical]
    BY <1>2 DEF TypeOK
  <2>4. residue' \subseteq Paths
    BY <1>1, <1>5 DEF TypeOK
  <2> QED BY <1>1, <1>2, <2>1, <2>2, <2>3, <2>4 DEF TypeOK, AnswersTyped, IsAnswer
<1>7. lock = t /\ \A u \in Threads : u # t => pc[u] \notin Critical
  BY DEF LockProtects
<1>8. LockProtects'
  BY <1>1, <1>3, <1>4, <1>7, NoThreadIsNone DEF LockProtects, Critical
<1>9. PositionsFit'
  BY <1>3, <1>4 DEF PositionsFit
<1>10. \A u \in Threads : ~InPhase2(u)'
  BY <1>3, <1>4, <1>7 DEF InPhase2, Critical
<1>11. TextsGiven' /\ VersionsHeld' /\ IndexFollows' /\ UntouchedIsClean'
  BY <1>10 DEF TextsGiven, VersionsHeld, IndexFollows, UntouchedIsClean
<1>12. DeletedIsGone'
  BY <1>10 DEF DeletedIsGone, InPhase2
<1>13. QuietIsClean'
  <2> SUFFICES ASSUME NEW p \in Paths, p \notin residue'
               PROVE  work'[p] = head[p] /\ index[p] = head[p]
    BY DEF QuietIsClean
  <2>1. CASE pc[t] = "reply"
    <3>1. \A u \in Threads : ~InPhase2(u)
      BY <2>1, <1>7 DEF InPhase2, Critical
    <3> QED BY <1>1, <2>1, <3>1 DEF QuietIsClean
  <2>2. CASE pc[t] # "reply"
    <3>1. InPhase2(t) /\ p \notin residue /\ p \notin Begun(ops[t], pos[t])
      BY <1>1, <2>2 DEF InPhase2, Critical
    <3>2. pc[t] = "stage" => ops[t][pos[t]].path \in Begun(ops[t], pos[t])
      BY DEF Begun, PositionsFit, TypeOK
    <3>3. p \notin Begun(ops[t], AppliedCount(t))
      BY <1>5, <3>1 DEF Begun, AppliedCount
    <3> QED BY <3>1, <3>2, <3>3 DEF IndexFollows, UntouchedIsClean
  <2> QED BY <2>1, <2>2
<1> QED BY <1>6, <1>8, <1>9, <1>11, <1>12, <1>13

(* The operation a batch is at is among those it has begun.                 *)
LEMMA CurrentPathBegun ==
    ASSUME StoreInv, NEW t \in Threads, pc[t] \in {"apply", "stage"}
    PROVE  ops[t][pos[t]].path \in Begun(ops[t], pos[t])
           /\ ops[t][pos[t]] \in Operation
<1>1. ops[t] \in Seq(Operation) /\ pos[t] \in 1 .. Len(ops[t]) /\ pos[t] \in Nat
  BY DEF StoreInv, TypeOK, PositionsFit
<1>2. ops[t][pos[t]] \in Operation
  BY <1>1
<1> QED BY <1>1, <1>2 DEF Begun

(* An exception of the code itself preserves the invariant.                 *)
LEMMA RaiseStep ==
    ASSUME StoreInv, NEW t \in Threads, Raise(t)
    PROVE  StoreInv'
<1>1. /\ pc[t] \in {"apply", "stage"} /\ UNCHANGED <<work, index, head>>
      /\ Abort(t, "internal") /\ "internal" \in Statuses
  BY DEF Raise, Statuses
<1>2. pc[t] \in Critical /\ work' \in [Paths -> FileStates]
  BY <1>1 DEF Critical, StoreInv, TypeOK
<1> QED BY <1>1, <1>2, AbortStep

(* A write that breaks off keeps the types and touches only a begun path.   *)
LEMMA TornWork ==
    ASSUME StoreInv, NEW t \in Threads, pc[t] = "apply",
           work' = [work EXCEPT ![ops[t][pos[t]].path] = Torn(ops[t][pos[t]], @)]
    PROVE  /\ work' \in [Paths -> FileStates]
           /\ \A p \in Paths : p \in Begun(ops[t], pos[t]) \/ work'[p] = work[p]
<1> DEFINE op == ops[t][pos[t]]
<1>1. op.path \in Begun(ops[t], pos[t]) /\ op.path \in Paths
  BY CurrentPathBegun DEF Operation
<1>2. Torn(op, work[op.path]) \in FileStates
  BY <1>1, TornType DEF StoreInv, TypeOK
<1> HIDE DEF op
<1>3. work' = [work EXCEPT ![op.path] = Torn(op, work[op.path])]
  BY DEF op
<1>4. work \in [Paths -> FileStates]
  BY DEF StoreInv, TypeOK
<1> QED BY <1>1, <1>2, <1>3, <1>4 DEF op

(* So does an exception of the file system or of Git.                       *)
LEMMA IOFaultStep ==
    ASSUME StoreInv, NEW t \in Threads, IOFault(t)
    PROVE  StoreInv'
<1>1. /\ pc[t] \in Critical /\ UNCHANGED <<index, head>>
      /\ Abort(t, "fault") /\ "fault" \in Statuses
  BY DEF IOFault, Statuses
<1>2. CASE UNCHANGED work
  BY <1>1, <1>2, AbortStep DEF StoreInv, TypeOK
<1>3. CASE /\ pc[t] = "apply"
           /\ work' = [work EXCEPT ![ops[t][pos[t]].path] = Torn(ops[t][pos[t]], @)]
  BY <1>1, <1>3, TornWork, AbortStep
<1> QED BY <1>2, <1>3 DEF IOFault

(* A fault of a read, or of phase 1, disturbs nothing.                      *)
LEMMA ReadFaultStep ==
    ASSUME StoreInv, NEW t \in Threads, ReadFault(t)
    PROVE  StoreInv'
<1>1. pc[t] \notin Critical /\ UNCHANGED <<files, lock, residue>> /\ issued' \in 0 .. MaxRequests
  BY DEF ReadFault, Critical, StoreInv, TypeOK
<1>2. want' \in [Threads -> Wants]
  BY DEF ReadFault, StoreInv, TypeOK, Wants
<1>3. IsAnswer(Answer("fault", NoView))
  BY PlainAnswerType DEF Statuses
<1> QED BY <1>1, <1>2, <1>3, FinishIsWaiting, WaitingStep DEF ReadFault

(* A crash adds to the residue what the batch under way had begun.          *)
LEMMA CrashStep ==
    ASSUME StoreInv, Crash
    PROVE  StoreInv'
<1> USE DEF StoreInv
<1> DEFINE left == UNION {Begun(ops[t], pos[t]) :
                            t \in {u \in Threads : pc[u] \in {"apply", "stage", "commit"}}}
<1>1. /\ residue' = residue \cup left /\ lock' = NoThread
      /\ pc' = [t \in Threads |-> "idle"]
      /\ want' = [t \in Threads |-> [kind |-> "none", path |-> None]]
      /\ ops' = [t \in Threads |-> <<>>]
      /\ pos' = [t \in Threads |-> 1]
      /\ resp' = [t \in Threads |-> Answer("none", NoView)]
      /\ UNCHANGED <<index, head, issued>>
  BY DEF Crash
<1>2. \A t \in Threads : InPhase2(t) => Begun(ops[t], pos[t]) \subseteq left
  BY DEF InPhase2
<1>3. left \subseteq Paths
  <2>1. \A t \in Threads : \A i \in 1 .. Len(ops[t]) : ops[t][i] \in Operation
    BY DEF TypeOK
  <2> QED BY <2>1 DEF Begun, Operation
<1>4. /\ work' \in [Paths -> FileStates]
      /\ \A p \in Paths : p \in left \/ work'[p] = work[p]
  <2>1. CASE UNCHANGED work
    BY <2>1 DEF TypeOK
  <2>2. CASE \E t \in Threads :
                /\ pc[t] = "apply"
                /\ work' = [work EXCEPT ![ops[t][pos[t]].path] = Torn(ops[t][pos[t]], @)]
    <3>1. PICK t \in Threads :
             /\ pc[t] = "apply"
             /\ work' = [work EXCEPT ![ops[t][pos[t]].path] = Torn(ops[t][pos[t]], @)]
      BY <2>2
    <3>2. InPhase2(t)
      BY <3>1 DEF InPhase2
    <3> HIDE DEF left
    <3> QED BY <1>2, <3>1, <3>2, TornWork
  <2> QED BY <2>1, <2>2 DEF Crash
<1> HIDE DEF left
<1>5. TypeOK'
  <2>1. IsAnswer(Answer("none", NoView))
    BY PlainAnswerType DEF Statuses
  <2>2. AnswersTyped'
    BY <1>1, <2>1 DEF AnswersTyped, IsAnswer
  <2>3. ops' \in [Threads -> Seq(Operation)] /\ pos' \in [Threads -> Nat]
        /\ \A t \in Threads : pos'[t] \in 1 .. Len(ops'[t]) + 1
    BY <1>1
  <2>4. residue' \subseteq Paths
    BY <1>1, <1>3 DEF TypeOK
  <2> QED BY <1>1, <1>4, <2>2, <2>3, <2>4 DEF TypeOK, AnswersTyped, IsAnswer, Wants
<1>6. \A t \in Threads : pc'[t] = "idle" /\ ~InPhase2(t)'
  BY <1>1 DEF InPhase2
<1>7. LockProtects'
  BY <1>1, <1>6, NoThreadIsNone DEF LockProtects, Critical
<1>8. PositionsFit' /\ TextsGiven' /\ VersionsHeld' /\ IndexFollows' /\ UntouchedIsClean'
  BY <1>6 DEF PositionsFit, TextsGiven, VersionsHeld, IndexFollows, UntouchedIsClean
<1>9. DeletedIsGone'
  BY <1>6 DEF DeletedIsGone
<1>10. QuietIsClean'
  <2> SUFFICES ASSUME NEW p \in Paths, p \notin residue'
               PROVE  work'[p] = head[p] /\ index[p] = head[p]
    BY <1>1 DEF QuietIsClean
  <2>1. p \notin residue /\ p \notin left /\ work'[p] = work[p]
    BY <1>1, <1>4
  <2>2. CASE \A t \in Threads : ~InPhase2(t)
    BY <2>1, <2>2 DEF QuietIsClean
  <2>3. CASE \E t \in Threads : InPhase2(t)
    <3>1. PICK t \in Threads : InPhase2(t)
      BY <2>3
    <3>2. p \notin Begun(ops[t], pos[t])
      BY <1>2, <2>1, <3>1
    <3>3. pc[t] = "stage" => ops[t][pos[t]].path \in Begun(ops[t], pos[t])
      BY CurrentPathBegun
    <3>4. p \notin Begun(ops[t], AppliedCount(t))
      BY <3>2 DEF Begun, AppliedCount, TypeOK
    <3> QED BY <2>1, <3>1, <3>2, <3>3, <3>4 DEF IndexFollows, UntouchedIsClean
  <2> QED BY <2>2, <2>3
<1> QED BY <1>5, <1>7, <1>8, <1>9, <1>10

(* A step of nothing preserves the invariant.                               *)
LEMMA StutterStep == ASSUME StoreInv, UNCHANGED vars PROVE StoreInv'
<1> USE DEF vars, files, StoreInv
<1>1. TypeOK' /\ LockProtects' /\ PositionsFit'
  BY DEF TypeOK, AnswersTyped, LockProtects, PositionsFit
<1>2. \A t \in Threads : InPhase2(t)' = InPhase2(t)
  BY DEF InPhase2
<1> QED BY <1>1, <1>2, QuietStep

(* Every step preserves the invariant.                                      *)
LEMMA NextStep == StoreInv /\ [Next]_vars => StoreInv'
<1> SUFFICES ASSUME StoreInv, [Next]_vars PROVE StoreInv'
  OBVIOUS
<1>1. ASSUME NEW t \in Threads, Request(t) PROVE StoreInv'
  BY <1>1, BeginReadStep, BeginTreeStep, BeginBatchStep DEF Request
<1>2. ASSUME NEW t \in Threads, Serve(t) PROVE StoreInv'
  BY <1>2, FetchStep, ValidateStep, ApplyStep, StageStep, CommitStep, ReplyStep, RaiseStep DEF Serve
<1> QED BY <1>1, <1>2, IOFaultStep, ReadFaultStep, CrashStep, StutterStep DEF Next

(* The inductive invariant holds in every behaviour.                       *)
THEOREM StoreInvariant == Spec => []StoreInv
<1> QED BY InitInv, NextStep, PTL DEF Spec
-----------------------------------------------------------------------------
(* The properties the runs check.                                          *)

(* The variables keep their types.                                         *)
THEOREM TypeCorrect == Spec => []TypeOK
<1>1. StoreInv => TypeOK
  BY DEF StoreInv
<1> QED BY <1>1, StoreInvariant, PTL

(* At most one thread changes files, index or commits, and it has the lock.*)
THEOREM LockIsMutex == Spec => []LockProtects
<1>1. StoreInv => LockProtects
  BY DEF StoreInv
<1> QED BY <1>1, StoreInvariant, PTL

(* Whatever faults occur, only paths a stopped batch had begun can differ  *)
(* from the last commit when the lock is free.                             *)
THEOREM CleanAtRest == Spec => []CleanOutsideResidue
<1>1. StoreInv => CleanOutsideResidue
  <2> SUFFICES ASSUME StoreInv, lock = NoThread
               PROVE  \A p \in Paths \ residue : work[p] = head[p] /\ index[p] = head[p]
    BY DEF CleanOutsideResidue
  <2>1. \A t \in Threads : ~InPhase2(t)
    BY NoThreadIsNone DEF StoreInv, LockProtects, InPhase2, Critical
  <2> QED BY <2>1 DEF StoreInv, QuietIsClean
<1> QED BY <1>1, StoreInvariant, PTL

(* Only a commit changes the last commit.                                  *)
LEMMA OnlyCommitMovesHead ==
    ASSUME [Next]_vars, head' # head
    PROVE  \E t \in Threads : Commit(t)
<1>1. ASSUME NEW t \in Threads, Request(t) PROVE FALSE
  BY <1>1 DEF Request, BeginRead, BeginTree, BeginBatch, BeginUpload, files
<1>2. ASSUME NEW t \in Threads, Serve(t) PROVE Commit(t)
  BY <1>2 DEF Serve, Fetch, Validate, Apply, Stage, Reply, Raise, files
<1> QED BY <1>1, <1>2 DEF Next, IOFault, ReadFault, Crash, vars, files

(* What the commit of thread t finds: the index holds the work tree of the *)
(* paths of the batch, and the last commit elsewhere.                      *)
LEMMA CommitFindsBatch ==
    ASSUME StoreInv, NEW t \in Threads, pc[t] = "commit"
    PROVE  /\ lock = t
           /\ \A p \in Touched(ops[t]) \cap Paths : index[p] = work[p]
           /\ \A p \in Paths : p \in residue \/ p \in Touched(ops[t]) \/ index[p] = head[p]
           /\ \A i \in 1 .. Len(ops[t]) :
                 ops[t][i].path \in residue \/ ops[t][i].ver = head[ops[t][i].path]
<1>1. InPhase2(t) /\ lock = t
  BY DEF InPhase2, StoreInv, LockProtects, Critical
<1>2. Begun(ops[t], pos[t] - 1) = Touched(ops[t])
  <2>1. Len(ops[t]) \in Nat /\ pos[t] - 1 = Len(ops[t])
    BY DEF StoreInv, TypeOK, PositionsFit
  <2> QED BY <2>1 DEF Begun, Touched
<1>3. \A p \in Touched(ops[t]) \cap Paths : index[p] = work[p]
  BY <1>1, <1>2 DEF StoreInv, IndexFollows
<1>4. \A p \in Paths : p \in residue \/ p \in Touched(ops[t]) \/ index[p] = head[p]
  BY <1>1, <1>2 DEF StoreInv, IndexFollows, UntouchedIsClean, AppliedCount
<1> QED BY <1>1, <1>3, <1>4 DEF StoreInv, VersionsHeld

(* Optimistic locking: nothing committed is replaced unseen.               *)
THEOREM LostUpdatesImpossible == Spec => NoLostUpdate
<1>1. StoreInv /\ [Next]_vars =>
         [\A p \in Paths : head'[p] # head[p] =>
             \/ p \in residue
             \/ \E t \in Threads :
                   /\ lock = t
                   /\ \E i \in 1 .. Len(ops[t]) :
                         ops[t][i].path = p /\ ops[t][i].ver = head[p]]_vars
  <2> SUFFICES ASSUME StoreInv, [Next]_vars, NEW p \in Paths, head'[p] # head[p], p \notin residue
               PROVE  \E t \in Threads :
                        /\ lock = t
                        /\ \E i \in 1 .. Len(ops[t]) :
                              ops[t][i].path = p /\ ops[t][i].ver = head[p]
    OBVIOUS
  <2>1. PICK t \in Threads : Commit(t)
    BY OnlyCommitMovesHead
  <2>2. pc[t] = "commit" /\ head' = index
    BY <2>1 DEF Commit
  <2>3. p \in Touched(ops[t])
    BY <2>2, CommitFindsBatch
  <2>4. PICK i \in 1 .. Len(ops[t]) : ops[t][i].path = p
    BY <2>3 DEF Touched
  <2> QED BY <2>2, <2>4, CommitFindsBatch
<1> QED BY <1>1, StoreInvariant, PTL DEF Spec, NoLostUpdate

(* The steps that answer a request.                                        *)
LEMMA AnswerSteps ==
    ASSUME StoreInv, [Next]_vars, NEW u \in Threads, Answered(u)
    PROVE  \/ Fetch(u)
           \/ Validate(u) /\ ~AllValid(ops[u]) /\ Finish(u, Rejection(FirstInvalid(ops[u])))
           \/ Reply(u)
           \/ pc[u] \in Critical /\ (Abort(u, "internal") \/ Abort(u, "fault"))
           \/ ReadFault(u)
           \/ Crash
<1>1. pc[u] # "idle" /\ pc'[u] = "idle" /\ pc \in [Threads -> {"idle", "fetch", "validate"} \cup Critical]
  BY DEF Answered, StoreInv, TypeOK
<1>2. ASSUME NEW t \in Threads, Request(t) PROVE FALSE
  BY <1>1, <1>2 DEF Request, BeginRead, BeginTree, BeginBatch, BeginUpload, NewRequest, Enqueue, Finish
<1>3. ASSUME NEW t \in Threads, Serve(t) \/ IOFault(t) \/ ReadFault(t) PROVE t = u
  <2>. SUFFICES ASSUME t # u PROVE pc'[u] = pc[u]
    BY <1>1
  <2>1. ASSUME NEW answer, Finish(t, answer) PROVE pc'[u] = pc[u]
    BY <2>1, <1>1 DEF Finish
  <2>. QED BY <2>1, <1>1, <1>3
       DEF Serve, Fetch, Validate, Apply, Stage, Commit, Reply, Raise, IOFault, ReadFault, Abort
<1>4. ~Apply(u) /\ ~Stage(u) /\ ~Commit(u)
  BY <1>1 DEF Apply, Stage, Commit
<1>5. Validate(u) => ~AllValid(ops[u]) /\ Finish(u, Rejection(FirstInvalid(ops[u])))
  BY <1>1 DEF Validate
<1>6. Raise(u) \/ IOFault(u) =>
         pc[u] \in Critical /\ (Abort(u, "internal") \/ Abort(u, "fault"))
  BY DEF Raise, IOFault, Critical
<1>. QED BY <1>1, <1>2, <1>3, <1>4, <1>5, <1>6 DEF Next, Serve, vars

(* What a request is answered.                                             *)
LEMMA AnswerGiven ==
    ASSUME StoreInv, NEW u \in Threads, NEW answer, Finish(u, answer)
    PROVE  resp'[u] = answer
BY DEF Finish, StoreInv, TypeOK, AnswersTyped

(* Only the locked part of a read answers "read".                           *)
LEMMA OnlyFetchReads ==
    ASSUME StoreInv, [Next]_vars, NEW u \in Threads,
           Answered(u), resp'[u].status = "read"
    PROVE  Fetch(u)
<1>1. CASE Validate(u) /\ ~AllValid(ops[u]) /\ Finish(u, Rejection(FirstInvalid(ops[u])))
  <2>1. ops[u] \in Seq(Operation)
    BY DEF StoreInv, TypeOK
  <2>2. Verdict(FirstInvalid(ops[u])) \in Rejections \cup {"ok", "internal"}
    BY <1>1, <2>1, FirstInvalidType, VerdictType
  <2>3. Verdict(FirstInvalid(ops[u])) # "read"
    BY <2>2 DEF Rejections
  <2> QED BY <1>1, <2>3, AnswerGiven DEF Rejection, Answer
<1>2. CASE Reply(u) \/ Abort(u, "internal") \/ Abort(u, "fault") \/ ReadFault(u) \/ Crash
  <2>1. CASE Crash
    BY <2>1 DEF Crash, Answer
  <2> QED BY <1>2, <2>1, AnswerGiven DEF Reply, Abort, ReadFault, Answer
<1> QED BY <1>1, <1>2, AnswerSteps

-----------------------------------------------------------------------------
(* What a batch in phase 2 still knows from phase 1                        *)

(* Bytes are read of binaries only.                                         *)
WantsFit ==
    \A t \in Threads : pc[t] = "fetch" =>
       /\ want[t].kind \in ReadKinds
       /\ want[t].kind = "bytes" => want[t].path \notin TextPaths

UploadsGiven ==
    \A t \in Threads : \A i \in 1 .. Len(ops[t]) :
       ops[t][i].type = "upload" => ops[t][i].text # None

TextsHeld ==
    \A t \in Threads : InPhase2(t) =>
       \A i \in 1 .. Len(ops[t]) : ops[t][i].type # "delete" => ops[t][i].text # None

(* An edit that is the first operation of the batch on its file, and still  *)
(* to come, matches once.                                                   *)
EditsHeld ==
    \A t \in Threads : InPhase2(t) =>
       \A i \in 1 .. Len(ops[t]) :
          /\ i > AppliedCount(t)
          /\ ops[t][i].type = "edit"
          /\ ops[t][i].path \notin Begun(ops[t], i - 1)
          => Count(AsText(work[ops[t][i].path]), ops[t][i].old) = 1

(* Paths the batch does not delete exist once it has come to them.          *)
AppliedIsThere ==
    \A t \in Threads : InPhase2(t) =>
       \A p \in Begun(ops[t], AppliedCount(t)) \ DeletedPaths(ops[t]) : work[p] # None

CommittedIsThere ==
    \A t \in Threads : pc[t] = "reply" =>
       \A p \in Touched(ops[t]) \ DeletedPaths(ops[t]) : head[p] # None

BatchInv ==
    /\ WantsFit /\ UploadsGiven /\ TextsHeld
    /\ EditsHeld /\ AppliedIsThere /\ CommittedIsThere

(* What BatchInv says of one thread.                                        *)
BatchOK(t) ==
    /\ pc[t] = "fetch" =>
          /\ want[t].kind \in ReadKinds
          /\ want[t].kind = "bytes" => want[t].path \notin TextPaths
    /\ \A i \in 1 .. Len(ops[t]) : ops[t][i].type = "upload" => ops[t][i].text # None
    /\ InPhase2(t) =>
          /\ \A i \in 1 .. Len(ops[t]) : ops[t][i].type # "delete" => ops[t][i].text # None
          /\ \A i \in 1 .. Len(ops[t]) :
                /\ i > AppliedCount(t)
                /\ ops[t][i].type = "edit"
                /\ ops[t][i].path \notin Begun(ops[t], i - 1)
                => Count(AsText(work[ops[t][i].path]), ops[t][i].old) = 1
          /\ \A p \in Begun(ops[t], AppliedCount(t)) \ DeletedPaths(ops[t]) : work[p] # None
    /\ pc[t] = "reply" =>
          \A p \in Touched(ops[t]) \ DeletedPaths(ops[t]) : head[p] # None

(* The two ways to state the invariant are the same.                        *)
LEMMA BatchInvByThreads == BatchInv <=> \A t \in Threads : BatchOK(t)
BY DEF BatchInv, BatchOK, WantsFit, UploadsGiven, TextsHeld, EditsHeld, AppliedIsThere, CommittedIsThere

(* ... after a step as well.                                                *)
LEMMA BatchInvByThreadsNext == BatchInv' <=> \A t \in Threads : BatchOK(t)'
BY DEF BatchInv, BatchOK, WantsFit, UploadsGiven, TextsHeld, EditsHeld, AppliedIsThere, CommittedIsThere

(* A thread knows what it knew if neither it nor what it relies on moves.   *)
LEMMA BatchFrame ==
    ASSUME NEW u \in Threads, BatchOK(u),
           pc'[u] = pc[u], want'[u] = want[u], ops'[u] = ops[u], pos'[u] = pos[u],
           InPhase2(u) => work' = work, pc[u] = "reply" => head' = head
    PROVE  BatchOK(u)'
<1>1. /\ InPhase2(u)' <=> InPhase2(u)
      /\ AppliedCount(u)' = AppliedCount(u)
  BY DEF InPhase2, AppliedCount
<1>2. CASE InPhase2(u)
  <2>1. work' = work /\ pc[u] # "reply" /\ pc[u] # "fetch"
    BY <1>2 DEF InPhase2
  <2>. QED BY <1>1, <1>2, <2>1 DEF BatchOK
<1>3. CASE ~InPhase2(u)
  BY <1>1, <1>3 DEF BatchOK
<1>. QED BY <1>2, <1>3

(* A thread that is done has nothing to know.                               *)
LEMMA BatchOver ==
    ASSUME NEW t \in Threads, pc'[t] = "idle", ops'[t] = <<>>
    PROVE  BatchOK(t)'
BY DEF BatchOK, InPhase2

(* Who is in phase 2 or about to answer is there alone.                     *)
LEMMA CriticalAlone ==
    ASSUME StoreInv, NEW t \in Threads, pc[t] \in Critical
    PROVE  \A u \in Threads : u # t => ~InPhase2(u) /\ pc[u] # "reply"
BY DEF StoreInv, LockProtects, InPhase2, Critical

(* However a request ends, the others go on as before.                      *)
LEMMA BatchFinish ==
    ASSUME StoreInv, BatchInv, NEW t \in Threads, NEW answer, Finish(t, answer),
           \A u \in Threads : u # t => want'[u] = want[u], UNCHANGED head,
           work' = work \/ pc[t] \in Critical
    PROVE  BatchInv'
<1>1. pc'[t] = "idle" /\ ops'[t] = <<>>
  BY DEF Finish, StoreInv, TypeOK
<1>2. ASSUME NEW u \in Threads, u # t PROVE BatchOK(u)'
  <2>1. BatchOK(u)
    BY BatchInvByThreads
  <2>2. pc'[u] = pc[u] /\ ops'[u] = ops[u] /\ pos'[u] = pos[u]
    BY <1>2 DEF Finish, StoreInv, TypeOK
  <2>3. work' = work \/ ~InPhase2(u)
    BY <1>2, CriticalAlone
  <2>. QED BY <1>2, <2>1, <2>2, <2>3, BatchFrame
<1>. QED BY <1>1, <1>2, BatchOver, BatchInvByThreadsNext

(* Requests arrive with a text for every upload.                            *)
LEMMA BatchRequest ==
    ASSUME StoreInv, BatchInv, NEW t \in Threads, Request(t)
    PROVE  BatchInv'
<1>0. pc \in [Threads -> {"idle", "fetch", "validate"} \cup Critical] /\ pc[t] = "idle"
      /\ want \in [Threads -> Wants] /\ ops \in [Threads -> Seq(Operation)] /\ pos \in [Threads -> Nat]
  BY DEF StoreInv, TypeOK, Request, BeginRead, BeginTree, BeginBatch, BeginUpload, NewRequest
<1>1. UNCHANGED <<work, head>>
  BY DEF Request, BeginRead, BeginTree, BeginBatch, BeginUpload, files
<1>2. CASE UNCHANGED want /\ \E answer : Finish(t, answer)
  BY <1>1, <1>2, BatchFinish
<1>3. ASSUME NEW w \in Wants, w.kind \in ReadKinds,
             w.kind = "bytes" => w.path \notin TextPaths, pc' = [pc EXCEPT ![t] = "fetch"],
             want' = [want EXCEPT ![t] = w], UNCHANGED <<ops, pos>>
      PROVE  BatchInv'
  <2>1. BatchOK(t)'
    <3>1. pc'[t] = "fetch" /\ want'[t] = w /\ BatchOK(t)
      BY <1>0, <1>3, BatchInvByThreads
    <3>. QED BY <1>3, <3>1 DEF BatchOK, InPhase2
  <2>2. ASSUME NEW u \in Threads, u # t PROVE BatchOK(u)'
    <3>1. pc'[u] = pc[u] /\ want'[u] = want[u] /\ BatchOK(u)
      BY <1>0, <1>3, <2>2, BatchInvByThreads
    <3>. QED BY <1>1, <1>3, <3>1, BatchFrame
  <2>. QED BY <2>1, <2>2, BatchInvByThreadsNext
<1>4. ASSUME NEW s \in Scripts, NEW ver, Enqueue(t, s, ver), UNCHANGED want
      PROVE  BatchInv'
  <2>1. Len(s) \in Nat
    BY ScriptsTyped
  <2>2. /\ pc'[t] = "validate"
        /\ ops'[t] = [i \in 1 .. Len(s) |->
              [type |-> s[i].type, path |-> s[i].path,
               old |-> s[i].old, text |-> s[i].text, ver |-> ver[i]]]
    BY <1>0, <1>4 DEF Enqueue
  <2>3. Len(ops'[t]) = Len(s)
    BY <2>1, <2>2
  <2>4. BatchOK(t)'
    BY <2>2, <2>3, UploadsAlone DEF BatchOK, InPhase2
  <2>5. ASSUME NEW u \in Threads, u # t PROVE BatchOK(u)'
    <3>1. pc'[u] = pc[u] /\ want'[u] = want[u] /\ ops'[u] = ops[u] /\ pos'[u] = pos[u] /\ BatchOK(u)
      BY <1>0, <1>4, <2>5, BatchInvByThreads DEF Enqueue
    <3>. QED BY <1>1, <3>1, BatchFrame
  <2>. QED BY <2>4, <2>5, BatchInvByThreadsNext
<1>5. ASSUME NEW kind \in ReadKinds \ {"tree"}, NEW p \in Paths, BeginRead(t, kind, p)
      PROVE  BatchInv'
  <2>1. [kind |-> kind, path |-> p] \in Wants
    BY DEF Wants
  <2>. QED BY <1>2, <1>3, <1>5, <2>1 DEF BeginRead
<1>6. ASSUME BeginTree(t) PROVE BatchInv'
  <2>1. [kind |-> "tree", path |-> None] \in Wants /\ "tree" \in ReadKinds
    BY DEF Wants, ReadKinds
  <2>. QED BY <1>3, <1>6, <2>1 DEF BeginTree
<1>7. ASSUME NEW s \in Scripts, NEW ver, BeginBatch(t, s, ver) \/ BeginUpload(t, s, ver)
      PROVE  BatchInv'
  BY <1>2, <1>4, <1>7 DEF BeginBatch, BeginUpload
<1>. QED BY <1>5, <1>6, <1>7 DEF Request

(* An edit the validation accepts matches once, and only a deletion comes   *)
(* without a text.                                                          *)
LEMMA ValidTexts ==
    ASSUME StoreInv, NEW op \in Operation, Verdict(op) = "ok"
    PROVE  /\ op.type \notin {"delete", "upload"} => op.text # None
           /\ op.type = "edit" => Count(AsText(work[op.path]), op.old) = 1
<1>1. op.type \in OpTypes /\ op.path \in Paths
  BY DEF Operation
<1>2. CASE op.type = "write"
  BY <1>2 DEF Verdict, WriteVerdict
<1>3. CASE op.type = "append"
  BY <1>3 DEF Verdict, ChangeVerdict
<1>4. CASE op.type = "edit"
  <2>1. work[op.path] # None /\ MatchVerdict(op) = "ok"
    BY <1>4 DEF Verdict, ChangeVerdict, Exists
  <2>2. AsText(work[op.path]) \in Seq(Tokens)
    BY <1>1, <2>1, AsTextType DEF StoreInv, TypeOK
  <2>3. Count(AsText(work[op.path]), op.old) \in Nat
    <3> DEFINE c == AsText(work[op.path])
    <3>1. Len(c) \in Nat /\ 1 \in Int
      BY <2>2
    <3>2. IsFiniteSet(1 .. Len(c))
      BY <3>1, FS_Interval
    <3>3. IsFiniteSet({i \in 1 .. Len(c) : c[i] = op.old})
      BY <3>2, FS_Subset
    <3> QED BY <3>3, FS_CardinalityType DEF Count
  <2>4. op.old # None /\ op.text # None
    BY <2>1 DEF MatchVerdict
  <2>5. Count(AsText(work[op.path]), op.old) # 0 /\ ~(Count(AsText(work[op.path]), op.old) > 1)
    BY <2>1, <2>4 DEF MatchVerdict
  <2>. QED BY <1>4, <2>3, <2>4, <2>5
<1>. QED BY <1>1, <1>2, <1>3, <1>4 DEF OpTypes

(* Phase 1 finds what phase 2 relies on.                                    *)
LEMMA BatchValidate ==
    ASSUME StoreInv, BatchInv, NEW t \in Threads, Validate(t)
    PROVE  BatchInv'
<1>1. CASE ~AllValid(ops[t])
  BY <1>1, BatchFinish DEF Validate, files
<1>2. CASE AllValid(ops[t])
  <2>1. /\ pc[t] = "validate" /\ pc' = [pc EXCEPT ![t] = "apply"]
        /\ UNCHANGED <<work, head, want, ops, pos>>
    BY <1>2 DEF Validate, files
  <2>2. pc'[t] = "apply" /\ \A u \in Threads : u # t => pc'[u] = pc[u]
    BY <2>1 DEF StoreInv, TypeOK
  <2>3. ops[t] \in Seq(Operation) /\ pos[t] = 1 /\ BatchOK(t)
    BY <2>1, BatchInvByThreads DEF StoreInv, TypeOK, PositionsFit
  <2>4. \A i \in 1 .. Len(ops[t]) : ops[t][i] \in Operation
    BY <2>3
  <2>5. \A i \in 1 .. Len(ops[t]) :
           /\ ops[t][i].type # "delete" => ops[t][i].text # None
           /\ ops[t][i].type = "edit" => Count(AsText(work[ops[t][i].path]), ops[t][i].old) = 1
    BY <1>2, <2>3, <2>4, ValidTexts DEF AllValid, BatchOK
  <2>6. AppliedCount(t)' = 0
    BY <2>1, <2>2, <2>3 DEF AppliedCount
  <2>7. Begun(ops[t], 0) = {}
    BY <2>3 DEF Begun
  <2>8. BatchOK(t)'
    BY <2>1, <2>2, <2>3, <2>5, <2>6, <2>7 DEF BatchOK, InPhase2
  <2>9. ASSUME NEW u \in Threads, u # t PROVE BatchOK(u)'
    <3>1. BatchOK(u) /\ pc'[u] = pc[u]
      BY <2>2, <2>9, BatchInvByThreads
    <3>. QED BY <3>1, <2>1, BatchFrame
  <2>. QED BY <2>8, <2>9, BatchInvByThreadsNext
<1>. QED BY <1>1, <1>2

(* What is written is there.                                                *)
LEMMA ResultIsThere ==
    ASSUME NEW op \in Operation, NEW c \in FileStates, Applicable(op, c),
           op.type # "delete", op.text # None
    PROVE  Result(op, c) # None
<1>1. op.text \in Seq(Tokens) /\ None \notin Seq(Tokens)
  BY NoneIsNoValue DEF Operation
<1>2. CASE op.type \in {"write", "upload"}
  BY <1>2 DEF Result
<1>3. CASE op.type = "append"
  <2>1. CASE c = None
    BY <1>3, <2>1 DEF Result
  <2>2. CASE c # None
    <3>1. c \o op.text \in Seq(Tokens)
      BY <1>1, <2>2
    <3>. QED BY <1>1, <1>3, <2>2, <3>1 DEF Result
  <2>. QED BY <2>1, <2>2
<1>4. CASE op.type = "edit"
  <2>1. c \in Contents /\ op.text \in Contents
    BY <1>1, <1>4 DEF Applicable
  <2>2. ReplaceFirst(AsText(c), op.old, op.text) \in Contents
    BY <2>1, AsTextType, ReplaceFirstType
  <2>. QED BY <1>1, <1>4, <2>2 DEF Result
<1>. QED BY <1>2, <1>3, <1>4 DEF Operation, OpTypes

(* One operation leaves alone what the later ones on other files found.     *)
LEMMA BatchApply ==
    ASSUME StoreInv, BatchInv, NEW t \in Threads, Apply(t)
    PROVE  BatchInv'
<1> DEFINE op == ops[t][pos[t]]
<1>1. /\ pc[t] = "apply" /\ Applicable(op, work[op.path])
      /\ work' = [work EXCEPT ![op.path] = Result(op, work[op.path])]
      /\ pc' = [pc EXCEPT ![t] = "stage"]
      /\ UNCHANGED <<head, want, ops, pos>>
  BY DEF Apply
<1>2. pc'[t] = "stage" /\ \A u \in Threads : u # t => pc'[u] = pc[u]
  BY <1>1 DEF StoreInv, TypeOK
<1>3. ops[t] \in Seq(Operation) /\ pos[t] \in 1 .. Len(ops[t]) /\ pos[t] \in Nat /\ BatchOK(t) /\ InPhase2(t)
  BY <1>1, BatchInvByThreads DEF StoreInv, TypeOK, PositionsFit, InPhase2
<1>4. op \in Operation /\ op.path \in Paths /\ work[op.path] \in FileStates
  <2>1. op \in Operation
    BY <1>3
  <2>. QED BY <2>1 DEF Operation, StoreInv, TypeOK
<1>5. AppliedCount(t) = pos[t] - 1 /\ AppliedCount(t)' = pos[t]
  BY <1>1, <1>2 DEF AppliedCount
<1>6. /\ work'[op.path] = Result(op, work[op.path])
      /\ \A p \in Paths : p # op.path => work'[p] = work[p]
  BY <1>1, <1>4 DEF StoreInv, TypeOK
<1>7. Begun(ops[t], pos[t]) \subseteq Begun(ops[t], pos[t] - 1) \cup {op.path}
  BY <1>3 DEF Begun
<1>8. ASSUME NEW i \in 1 .. Len(ops[t]), i > pos[t], ops[t][i].type = "edit",
             ops[t][i].path \notin Begun(ops[t], i - 1)
      PROVE  Count(AsText(work'[ops[t][i].path]), ops[t][i].old) = 1
  <2>1. op.path \in Begun(ops[t], i - 1)
    BY <1>3, <1>8 DEF Begun
  <2>2. ops[t][i] \in Operation
    BY <1>3
  <2>3. ops[t][i].path \in Paths /\ ops[t][i].path # op.path
    BY <1>8, <2>1, <2>2 DEF Operation
  <2>4. i > AppliedCount(t)
    BY <1>3, <1>5, <1>8
  <2>5. Count(AsText(work[ops[t][i].path]), ops[t][i].old) = 1
    BY <1>3, <1>8, <2>4 DEF BatchInv, EditsHeld
  <2>. QED BY <1>6, <2>3, <2>5
<1>9. ASSUME NEW p \in Begun(ops[t], pos[t]) \ DeletedPaths(ops[t])
      PROVE  work'[p] # None
  <2>1. CASE p = op.path
    <3>1. op.type # "delete"
      BY <1>3, <1>9, <2>1 DEF DeletedPaths
    <3>2. op.text # None
      BY <1>3, <3>1 DEF BatchOK
    <3>. QED BY <1>1, <1>4, <1>6, <2>1, <3>1, <3>2, ResultIsThere
  <2>2. CASE p # op.path
    <3>1. work[p] # None
      BY <1>3, <1>5, <1>7, <1>9, <2>2 DEF BatchOK
    <3>2. p \in Paths
      <4>1. \A i \in 1 .. Len(ops[t]) : ops[t][i] \in Operation
        BY <1>3
      <4>. QED BY <1>9, <4>1 DEF Begun, Operation
    <3>. QED BY <1>6, <2>2, <3>1, <3>2
  <2>. QED BY <2>1, <2>2
<1>10. BatchOK(t)'
  BY <1>1, <1>2, <1>3, <1>5, <1>8, <1>9 DEF BatchOK, InPhase2
<1>11. ASSUME NEW u \in Threads, u # t PROVE BatchOK(u)'
  <2>1. BatchOK(u) /\ ~InPhase2(u)
    BY <1>1, <1>11, BatchInvByThreads, CriticalAlone DEF Critical
  <2>. QED BY <1>1, <1>2, <1>11, <2>1, BatchFrame
<1>. QED BY <1>10, <1>11, BatchInvByThreadsNext

(* Staging changes no file.                                                 *)
LEMMA BatchStage ==
    ASSUME StoreInv, BatchInv, NEW t \in Threads, Stage(t)
    PROVE  BatchInv'
<1>1. /\ pc[t] = "stage" /\ pos' = [pos EXCEPT ![t] = @ + 1]
      /\ pc' = [pc EXCEPT ![t] = IF pos[t] = Len(ops[t]) THEN "commit" ELSE "apply"]
      /\ UNCHANGED <<work, head, want, ops>>
  BY DEF Stage
<1>2. /\ pc'[t] \in {"commit", "apply"} /\ pos'[t] = pos[t] + 1 /\ pos[t] \in Nat
      /\ \A u \in Threads : u # t => pc'[u] = pc[u] /\ pos'[u] = pos[u]
  BY <1>1 DEF StoreInv, TypeOK
<1>3. AppliedCount(t)' = AppliedCount(t) /\ InPhase2(t) /\ InPhase2(t)' /\ BatchOK(t)
  BY <1>1, <1>2, BatchInvByThreads DEF AppliedCount, InPhase2
<1>4. BatchOK(t)'
  BY <1>1, <1>2, <1>3 DEF BatchOK
<1>5. ASSUME NEW u \in Threads, u # t PROVE BatchOK(u)'
  <2>1. BatchOK(u)
    BY BatchInvByThreads
  <2>. QED BY <1>1, <1>2, <1>5, <2>1, BatchFrame
<1>. QED BY <1>4, <1>5, BatchInvByThreadsNext

(* What the batch wrote is in the commit.                                   *)
LEMMA BatchCommit ==
    ASSUME StoreInv, BatchInv, NEW t \in Threads, Commit(t)
    PROVE  BatchInv'
<1>1. /\ pc[t] = "commit" /\ head' = index /\ pc' = [pc EXCEPT ![t] = "reply"]
      /\ UNCHANGED <<work, want, ops, pos>>
  BY DEF Commit
<1>2. pc'[t] = "reply" /\ \A u \in Threads : u # t => pc'[u] = pc[u]
  BY <1>1 DEF StoreInv, TypeOK
<1>3. InPhase2(t) /\ BatchOK(t) /\ Begun(ops[t], AppliedCount(t)) = Touched(ops[t])
  <2>1. Len(ops[t]) \in Nat /\ pos[t] - 1 = Len(ops[t])
    BY <1>1 DEF StoreInv, TypeOK, PositionsFit
  <2>. QED BY <1>1, <2>1, BatchInvByThreads DEF InPhase2, AppliedCount, Begun, Touched
<1>4. Touched(ops[t]) \subseteq Paths
  <2>1. \A i \in 1 .. Len(ops[t]) : ops[t][i] \in Operation
    BY DEF StoreInv, TypeOK
  <2>. QED BY <2>1 DEF Touched, Operation
<1>5. \A p \in Touched(ops[t]) \ DeletedPaths(ops[t]) : index[p] # None
  BY <1>1, <1>3, <1>4, CommitFindsBatch DEF BatchOK
<1>6. BatchOK(t)'
  BY <1>1, <1>2, <1>3, <1>5 DEF BatchOK, InPhase2
<1>7. ASSUME NEW u \in Threads, u # t PROVE BatchOK(u)'
  <2>1. BatchOK(u) /\ pc[u] # "reply"
    BY <1>1, <1>7, BatchInvByThreads, CriticalAlone DEF Critical
  <2>. QED BY <1>1, <1>2, <1>7, <2>1, BatchFrame
<1>. QED BY <1>6, <1>7, BatchInvByThreadsNext

(* At the start nobody is in a request.                                     *)
LEMMA BatchInit == Init => BatchInv
<1>. SUFFICES ASSUME Init, NEW t \in Threads PROVE BatchOK(t)
  BY BatchInvByThreads
<1>. QED BY DEF Init, BatchOK, InPhase2

(* Every step keeps what the batches know.                                  *)
LEMMA BatchNext == StoreInv /\ BatchInv /\ [Next]_vars => BatchInv'
<1>. SUFFICES ASSUME StoreInv, BatchInv, [Next]_vars PROVE BatchInv'
  OBVIOUS
<1>1. ASSUME NEW t \in Threads, Fetch(t) \/ ReadFault(t) \/ Reply(t) PROVE BatchInv'
  <2>1. \A u \in Threads : u # t => want'[u] = want[u]
    BY <1>1 DEF Fetch, ReadFault, Reply, StoreInv, TypeOK
  <2>. QED BY <1>1, <2>1, BatchFinish DEF Fetch, ReadFault, Reply, files
<1>2. ASSUME NEW t \in Threads, Raise(t) \/ IOFault(t) PROVE BatchInv'
  BY <1>2, BatchFinish DEF Raise, IOFault, Abort, Critical
<1>3. ASSUME Crash PROVE BatchInv'
  <2>1. \A t \in Threads : pc'[t] = "idle" /\ ops'[t] = <<>>
    BY <1>3 DEF Crash
  <2>. QED BY <2>1, BatchOver, BatchInvByThreadsNext
<1>4. CASE UNCHANGED vars
  <2>1. ASSUME NEW t \in Threads PROVE BatchOK(t)'
    <3>1. BatchOK(t)
      BY BatchInvByThreads
    <3>. QED BY <1>4, <3>1, BatchFrame DEF vars, files
  <2>. QED BY <2>1, BatchInvByThreadsNext
<1>. QED BY <1>1, <1>2, <1>3, <1>4, BatchRequest, BatchValidate, BatchApply, BatchStage, BatchCommit
     DEF Next, Serve

(* What a batch knows from its validation stays true until it needs it.     *)
THEOREM BatchesKeepTheirWord == Spec => []BatchInv
BY BatchInit, BatchNext, StoreInvariant, PTL DEF Spec

-----------------------------------------------------------------------------
(* What the answers say.                                                   *)

(* With the lock free nobody is in phase 2, and files are as committed.     *)
LEMMA FreeMeansClean ==
    ASSUME StoreInv, lock = NoThread
    PROVE  \A p \in Paths \ residue : work[p] = head[p]
<1>1. \A u \in Threads : ~InPhase2(u)
  BY NoThreadIsNone DEF StoreInv, LockProtects, InPhase2, Critical
<1>. QED BY <1>1 DEF StoreInv, QuietIsClean

(* A read shows the files of one commit, whatever else is going on.        *)
THEOREM ReadsAreConsistent == Spec => ReadsSeeOneCommit
<1>1. StoreInv /\ BatchInv /\ [Next]_vars =>
         [\A t \in Threads : Answered(t) /\ resp'[t].status = "read" =>
             LET view == resp'[t].view
             IN  /\ \A p \in DOMAIN view \ residue : view[p].content = Served(p, head[p])
                 /\ want[t].kind = "tree" =>
                       \A p \in Paths \ residue : p \in DOMAIN view <=> head[p] # None]_vars
  <2> SUFFICES ASSUME StoreInv, BatchInv, [Next]_vars, NEW t \in Threads,
                      Answered(t), resp'[t].status = "read"
               PROVE  LET view == resp'[t].view
                      IN  /\ \A p \in DOMAIN view \ residue : view[p].content = Served(p, head[p])
                          /\ want[t].kind = "tree" =>
                                \A p \in Paths \ residue : p \in DOMAIN view <=> head[p] # None
    OBVIOUS
  <2>1. /\ pc[t] = "fetch" /\ lock = NoThread
        /\ Finish(t, FetchAnswer(want[t].kind, want[t].path))
    BY OnlyFetchReads DEF Fetch
  <2>2. \A p \in Paths \ residue : work[p] = head[p]
    BY <2>1, FreeMeansClean
  <2>3. resp'[t] = FetchAnswer(want[t].kind, want[t].path) /\ want[t] \in Wants
    BY <2>1, AnswerGiven DEF StoreInv, TypeOK
  <2>4. CASE want[t].kind = "tree"
    <3>1. resp'[t].view = [q \in {r \in Paths : Exists(r)} |->
                               Shown(head[q], Served(q, work[q]))]
      BY <2>3, <2>4 DEF FetchAnswer, Answer
    <3> QED BY <2>2, <3>1 DEF Shown, Exists
  <2>5. CASE want[t].kind # "tree"
    <3>1. /\ want[t].path \in Paths
          /\ \/ resp'[t].view = [q \in {want[t].path} |-> Shown(head[q], Served(q, work[q]))]
             \/ /\ want[t].kind = "bytes"
                /\ resp'[t].view = [q \in {want[t].path} |-> Shown(None, work[q])]
      BY <2>3, <2>5 DEF FetchAnswer, Answer, Wants
    <3>2. want[t].kind = "bytes" => Served(want[t].path, work[want[t].path]) = work[want[t].path]
      BY <2>1 DEF BatchInv, WantsFit, Served
    <3> QED BY <2>2, <2>5, <3>1, <3>2 DEF Shown
  <2> QED BY <2>4, <2>5
<1> QED BY <1>1, StoreInvariant, BatchesKeepTheirWord, PTL DEF Spec, ReadsSeeOneCommit

(* A read that fails lost its file to a commit while it waited, or the file *)
(* was none that can be read.                                               *)
THEOREM FailedReadsExplained == Spec => FailedReadsHaveACause
<1>1. StoreInv /\ BatchInv /\ [Next]_vars =>
         [\A t \in Threads :
             LET p == want[t].path
             IN  pc[t] = "fetch" /\ Answered(t) /\ resp'[t].status \in {"assertion", "internal"} =>
                    \/ p \in residue \/ head[p] = None
                    \/ want[t].kind = "file" /\ p \in TextPaths /\ ~IsUtf8(head[p])]_vars
  <2> SUFFICES ASSUME StoreInv, BatchInv, [Next]_vars, NEW t \in Threads,
                      pc[t] = "fetch", Answered(t),
                      resp'[t].status \in {"assertion", "internal"}
               PROVE  LET p == want[t].path
                      IN  \/ p \in residue \/ head[p] = None
                          \/ want[t].kind = "file" /\ p \in TextPaths /\ ~IsUtf8(head[p])
    OBVIOUS
  <2>1. Fetch(t)
    <3>1. ~Crash
      BY DEF Crash, Answer
    <3>2. ~ReadFault(t)
      BY AnswerGiven DEF ReadFault, Answer
    <3>. QED BY <3>1, <3>2, AnswerSteps DEF Validate, Reply, Critical
  <2>2. lock = NoThread /\ resp'[t] = FetchAnswer(want[t].kind, want[t].path)
    BY <2>1, AnswerGiven DEF Fetch
  <2>3. want[t].kind \in ReadKinds /\ want[t] \in Wants
    BY DEF BatchInv, WantsFit, StoreInv, TypeOK
  <2>4. want[t].kind # "tree"
    BY <2>2 DEF FetchAnswer, Answer
  <2>5. want[t].path \in Paths
    BY <2>3, <2>4 DEF ReadKinds, Wants
  <2>6. \/ head[want[t].path] = None \/ work[want[t].path] = None
        \/ want[t].kind = "file" /\ Unreadable(want[t].path)
    BY <2>2, <2>3, <2>4 DEF FetchAnswer, Answer, ReadKinds, Exists
  <2>. QED BY <2>2, <2>5, <2>6, FreeMeansClean DEF Unreadable
<1>. QED BY <1>1, StoreInvariant, BatchesKeepTheirWord, PTL DEF Spec, FailedReadsHaveACause

(* The match phase 1 counted is the match phase 2 replaces.                 *)
THEOREM FirstEditsAreSafe == Spec => FirstEditsMatchOnce
<1>1. StoreInv /\ BatchInv /\ [Next]_vars =>
         [\A t \in Threads :
             LET op == ops[t][pos[t]]
             IN  pc[t] = "apply" /\ pc'[t] = "stage" /\ op.type = "edit" =>
                    \/ op.path \in Begun(ops[t], pos[t] - 1)
                    \/ Count(AsText(work[op.path]), op.old) = 1]_vars
  <2> SUFFICES ASSUME StoreInv, BatchInv, NEW t \in Threads, pc[t] = "apply",
                      ops[t][pos[t]].type = "edit",
                      ops[t][pos[t]].path \notin Begun(ops[t], pos[t] - 1)
               PROVE  Count(AsText(work[ops[t][pos[t]].path]), ops[t][pos[t]].old) = 1
    OBVIOUS
  <2>1. InPhase2(t) /\ AppliedCount(t) = pos[t] - 1 /\ pos[t] \in 1 .. Len(ops[t])
    BY DEF InPhase2, AppliedCount, StoreInv, PositionsFit
  <2>2. pos[t] \in Nat /\ pos[t] > AppliedCount(t)
    BY <2>1 DEF StoreInv, TypeOK
  <2>. QED BY <2>1, <2>2 DEF BatchInv, EditsHeld
<1>. QED BY <1>1, StoreInvariant, BatchesKeepTheirWord, PTL DEF Spec, FirstEditsMatchOnce

(* What a refusal shows of a path is what the commit has of it.             *)
LEMMA RejectionShowsCommit ==
    ASSUME StoreInv, lock = NoThread, NEW op \in Operation,
           NEW p \in DOMAIN Rejection(op).view \ residue
    PROVE  /\ Rejection(op).view[p].version = head[p]
           /\ p \in TextPaths => Rejection(op).view[p].content = Served(p, head[p])
<1>1. CASE Verdict(op) = "VersionConflict"
  <2>1. Rejection(op).view =
           [q \in {op.path} |-> Shown(IF Exists(q) THEN head[q] ELSE None,
                                      IF q \in TextPaths THEN Served(q, work[q]) ELSE None)]
    BY <1>1 DEF Rejection, Answer
  <2>2. p = op.path /\ p \in Paths
    BY <2>1 DEF Operation
  <2>3. work[p] = head[p]
    BY <2>2, FreeMeansClean
  <2>. QED BY <2>1, <2>2, <2>3 DEF Shown, Exists
<1>2. CASE Verdict(op) # "VersionConflict"
  BY <1>2 DEF Rejection, Answer, NoView
<1>. QED BY <1>1, <1>2

(* Clients can retry with what a refusal shows, and go on with what a       *)
(* commit reports.                                                          *)
THEOREM AnswersCarryCurrentVersions == Spec => HandedOutVersionsAreCurrent
<1> DEFINE Told(t) ==
      LET view == resp'[t].view
      IN  /\ resp'[t].status = "VersionConflict" =>
                \A p \in DOMAIN view \ residue :
                   /\ view[p].version = head[p]
                   /\ p \in TextPaths => view[p].content = Served(p, head[p])
          /\ resp'[t].status = "committed" =>
                \A p \in DOMAIN view :
                   view[p].version = head[p] /\ view[p].version # None
<1>1. StoreInv /\ BatchInv /\ [Next]_vars => [\A t \in Threads : Answered(t) => Told(t)]_vars
  <2> SUFFICES ASSUME StoreInv, BatchInv, [Next]_vars, NEW t \in Threads, Answered(t)
               PROVE  Told(t)
    OBVIOUS
  <2>1. CASE Fetch(t)
    <3>1. resp'[t] = FetchAnswer(want[t].kind, want[t].path)
      BY <2>1, AnswerGiven DEF Fetch
    <3>2. resp'[t].status \in {"assertion", "read", "internal"}
      BY <3>1 DEF FetchAnswer, Answer
    <3>. QED BY <3>2
  <2>2. CASE Validate(t) /\ ~AllValid(ops[t]) /\ Finish(t, Rejection(FirstInvalid(ops[t])))
    <3>1. lock = NoThread /\ resp'[t] = Rejection(FirstInvalid(ops[t]))
      BY <2>2, AnswerGiven DEF Validate
    <3>2. FirstInvalid(ops[t]) \in Operation
      BY <2>2, FirstInvalidType DEF StoreInv, TypeOK
    <3>3. resp'[t].status # "committed"
      <4>1. Verdict(FirstInvalid(ops[t])) \in Rejections \cup {"ok", "internal"}
        BY <3>2, VerdictType
      <4>. QED BY <3>1, <4>1 DEF Rejection, Answer, Rejections
    <3>. QED BY <3>1, <3>2, <3>3, RejectionShowsCommit
  <2>3. CASE Reply(t)
    <3>1. pc[t] = "reply" /\ BatchOK(t)
      BY <2>3, BatchInvByThreads DEF Reply
    <3>2. resp'[t] = Answer("committed", [p \in Touched(ops[t]) \ DeletedPaths(ops[t]) |->
                                             Shown(head[p], None)])
      BY <2>3, AnswerGiven DEF Reply
    <3>. QED BY <3>1, <3>2 DEF Answer, Shown, BatchOK
  <2>4. CASE Abort(t, "internal") \/ Abort(t, "fault") \/ ReadFault(t)
    <3>1. resp'[t] = Answer("internal", NoView) \/ resp'[t] = Answer("fault", NoView)
      BY <2>4, AnswerGiven DEF Abort, ReadFault
    <3>. QED BY <3>1 DEF Answer
  <2>5. CASE Crash
    BY <2>5 DEF Crash, Answer
  <2>. QED BY <2>1, <2>2, <2>3, <2>4, <2>5, AnswerSteps
<1>. QED BY <1>1, StoreInvariant, BatchesKeepTheirWord, PTL DEF Spec, HandedOutVersionsAreCurrent

-----------------------------------------------------------------------------
(* Files nobody can name.                                                  *)

(* Any operation on a file that was written but never committed is refused. *)
LEMMA OrphansAreRefused ==
    ASSUME NEW op \in Operation, work[op.path] # None, head[op.path] = None
    PROVE  Verdict(op) # "ok"
<1>1. VersionVerdict(op, TRUE) # "ok"
  BY DEF VersionVerdict, Exists
<1>2. WriteVerdict(op) # "ok"
  BY <1>1 DEF WriteVerdict, Exists
<1>3. ChangeVerdict(op) # "ok"
  BY <1>1 DEF ChangeVerdict
<1>. QED BY <1>1, <1>2, <1>3 DEF Verdict, Exists, Operation, OpTypes

(* Phase 2 changes only the files its batch names.                          *)
LEMMA OnlyBatchPathsMove ==
    ASSUME StoreInv, [Next]_vars, NEW p \in Paths,
           \A t \in Threads : lock = t => p \notin Touched(ops[t])
    PROVE  work'[p] = work[p] /\ (index'[p] = index[p])
<1>1. ASSUME NEW t \in Threads, pc[t] \in {"apply", "stage"}
      PROVE  ops[t][pos[t]].path # p
  <2>1. lock = t /\ pos[t] \in 1 .. Len(ops[t])
    BY <1>1 DEF StoreInv, LockProtects, PositionsFit, Critical
  <2>. QED BY <2>1 DEF Touched
<1>2. work \in [Paths -> FileStates] /\ index \in [Paths -> FileStates]
  BY DEF StoreInv, TypeOK
<1>3. ASSUME NEW t \in Threads, Request(t)
      PROVE  UNCHANGED <<work, index>>
  BY <1>3 DEF Request, BeginRead, BeginTree, BeginBatch, BeginUpload, files
<1>4. ASSUME NEW t \in Threads, Serve(t)
      PROVE  work'[p] = work[p] /\ index'[p] = index[p]
  <2>1. CASE Apply(t)
    BY <1>1, <1>2, <2>1 DEF Apply
  <2>2. CASE Stage(t)
    BY <1>1, <1>2, <2>2 DEF Stage
  <2>. QED BY <1>4, <2>1, <2>2 DEF Serve, Fetch, Validate, Commit, Reply, Raise, files
<1>5. ASSUME NEW t \in Threads, IOFault(t)
      PROVE  work'[p] = work[p] /\ index'[p] = index[p]
  BY <1>1, <1>2, <1>5 DEF IOFault
<1>6. ASSUME Crash PROVE work'[p] = work[p] /\ index'[p] = index[p]
  BY <1>1, <1>2, <1>6 DEF Crash
<1>7. ASSUME NEW t \in Threads, ReadFault(t) PROVE UNCHANGED <<work, index>>
  BY <1>7 DEF ReadFault, files
<1>. QED BY <1>3, <1>4, <1>5, <1>6, <1>7 DEF Next, vars, files

(* Who has the lock after a step had it before, with the same batch, or has *)
(* just validated it.                                                       *)
LEMMA HolderStays ==
    ASSUME StoreInv, [Next]_vars, NEW t \in Threads, lock' = t
    PROVE  \/ lock = t /\ ops'[t] = ops[t]
           \/ Validate(t) /\ AllValid(ops[t]) /\ ops' = ops
<1>1. lock # t => pc[t] \notin Critical
  BY DEF StoreInv, LockProtects
<1>2. ops \in [Threads -> Seq(Operation)] /\ t # NoThread
  BY NoThreadIsNone DEF StoreInv, TypeOK
<1>3. ASSUME NEW u \in Threads, Request(u) PROVE lock = t /\ ops'[t] = ops[t]
  <2>1. lock' = lock /\ pc[u] = "idle"
    BY <1>3 DEF Request, BeginRead, BeginTree, BeginBatch, BeginUpload, NewRequest
  <2>2. u # t
    BY <2>1 DEF StoreInv, LockProtects, Critical
  <2>3. ops'[t] = ops[t]
    BY <1>2, <1>3, <2>2 DEF Request, BeginRead, BeginTree, BeginBatch, BeginUpload, Finish, Enqueue
  <2>. QED BY <2>1, <2>3
<1>4. ASSUME NEW u \in Threads,
             Fetch(u) \/ Reply(u) \/ Raise(u) \/ IOFault(u) \/ ReadFault(u)
      PROVE  FALSE
  BY <1>2, <1>4 DEF Fetch, Reply, Raise, IOFault, ReadFault, Abort
<1>5. ASSUME NEW u \in Threads, Validate(u)
      PROVE  u = t /\ AllValid(ops[t]) /\ ops' = ops
  BY <1>2, <1>5 DEF Validate
<1>6. ASSUME NEW u \in Threads, Apply(u) \/ Stage(u) \/ Commit(u)
      PROVE  lock = t /\ ops'[t] = ops[t]
  BY <1>6 DEF Apply, Stage, Commit
<1>7. ~Crash
  BY <1>2 DEF Crash
<1>8. CASE UNCHANGED vars
  BY <1>8 DEF vars
<1>. QED BY <1>3, <1>4, <1>5, <1>6, <1>7, <1>8 DEF Next, Serve

(* No sequence of calls brings such a path back.                            *)
THEOREM OrphansAreForGood == Spec => OrphansStay
<1>1. StoreInv /\ [Next]_vars => [\A p \in Paths : Orphan(p) => Orphan(p)']_vars
  <2> SUFFICES ASSUME StoreInv, [Next]_vars, NEW p \in Paths, Orphan(p)
               PROVE  Orphan(p)'
    OBVIOUS
  <2>1. work'[p] # None /\ index'[p] = None
    BY OnlyBatchPathsMove DEF Orphan
  <2>2. head'[p] = None
    BY OnlyCommitMovesHead DEF Orphan, Commit
  <2>3. ASSUME NEW t \in Threads, lock' = t PROVE p \notin Touched(ops'[t])
    <3>1. CASE lock = t /\ ops'[t] = ops[t]
      BY <3>1 DEF Orphan
    <3>2. CASE ~(lock = t /\ ops'[t] = ops[t])
      <4>1. Validate(t) /\ AllValid(ops[t]) /\ ops' = ops
        BY <2>3, <3>2, HolderStays
      <4>2. ops[t] \in Seq(Operation)
        BY DEF StoreInv, TypeOK
      <4>3. \A i \in 1 .. Len(ops[t]) : ops[t][i] \in Operation /\ Verdict(ops[t][i]) = "ok"
        BY <4>1, <4>2 DEF AllValid
      <4>. QED BY <4>1, <4>3, OrphansAreRefused DEF Orphan, Touched
    <3>. QED BY <3>1, <3>2
  <2>. QED BY <2>1, <2>2, <2>3 DEF Orphan
<1>. QED BY <1>1, StoreInvariant, PTL DEF Spec, OrphansStay

-----------------------------------------------------------------------------
(* GitStorage implements AtomicStore: a batch takes effect in one step, on  *)
(* the versions it was validated against.  The private draft of the         *)
(* abstract client is the work tree while its thread is in phase 2.         *)

Drafts == [t \in Threads |-> OpenBatch(t)]

(* Outside phase 2 a thread has no open batch.                              *)
LEMMA ClosedOutsidePhase2 ==
    ASSUME NEW t \in Threads, ~InPhase2(t)
    PROVE  OpenBatch(t) = Atomic!Closed
BY DEF OpenBatch, Atomic!Closed

(* The store as it is opened is an initial state of the abstract one.       *)
LEMMA InitRefines == Init => Atomic!Init
<1> SUFFICES ASSUME Init PROVE Atomic!Init
  OBVIOUS
<1>1. \A t \in Threads : ~InPhase2(t)
  BY DEF Init, InPhase2
<1>2. Drafts = [t \in Threads |-> Atomic!Closed]
  BY <1>1, ClosedOutsidePhase2 DEF Drafts
<1> QED BY <1>2, InitialTyped DEF Init, Atomic!Init, Drafts

(* A step that leaves commits, residue and the batches in phase 2 alone.   *)
LEMMA QuietRefines ==
    ASSUME UNCHANGED <<head, residue>>, \A t \in Threads : OpenBatch(t)' = OpenBatch(t)
    PROVE  UNCHANGED Atomic!vars
<1>1. Drafts' = Drafts
  BY DEF Drafts
<1> QED BY <1>1 DEF Atomic!vars, Drafts

(* A step of a thread outside phase 2 that stays outside.                  *)
LEMMA OutsideRefines ==
    ASSUME StoreInv, NEW t \in Threads, UNCHANGED <<work, head, residue>>,
           ~InPhase2(t), ~InPhase2(t)',
           \A u \in Threads : u # t => pc'[u] = pc[u] /\ ops'[u] = ops[u] /\ pos'[u] = pos[u]
    PROVE  UNCHANGED Atomic!vars
<1>1. OpenBatch(t)' = OpenBatch(t)
  BY DEF OpenBatch
<1>2. \A u \in Threads : u # t => OpenBatch(u)' = OpenBatch(u)
  BY DEF OpenBatch, InPhase2, AppliedCount
<1> QED BY <1>1, <1>2, QuietRefines

(* A thread that finishes leaves the batches of the others open.            *)
LEMMA FinishElsewhere ==
    ASSUME StoreInv, NEW t \in Threads, NEW answer, Finish(t, answer)
    PROVE  /\ ~InPhase2(t)'
           /\ \A u \in Threads : u # t => pc'[u] = pc[u] /\ ops'[u] = ops[u] /\ pos'[u] = pos[u]
BY DEF Finish, StoreInv, TypeOK, InPhase2

(* What phase 2 of thread t looks like to the abstract store.              *)
LEMMA Phase2Facts ==
    ASSUME StoreInv, NEW t \in Threads, InPhase2(t)
    PROVE  /\ Drafts[t].batch = ops[t] /\ Drafts[t].done = AppliedCount(t)
           /\ Drafts[t].draft = work
           /\ ops[t] # <<>> /\ ops[t] \in Seq(Operation)
           /\ \A u \in Threads : u # t => ~InPhase2(u)
BY DEF Drafts, OpenBatch, AppliedCount, StoreInv, TypeOK, PositionsFit, LockProtects, InPhase2, Critical
(* Of the drafts only that of thread t changes.                            *)
LEMMA OneDraftMoves ==
    ASSUME NEW t \in Threads, \A u \in Threads : u # t => OpenBatch(u)' = OpenBatch(u)
    PROVE  Drafts' = [Drafts EXCEPT ![t] = Drafts'[t]]
BY DEF Drafts

(* A successful validation opens the batch.                                 *)
LEMMA ValidateRefines ==
    ASSUME StoreInv, StoreInv', NEW t \in Threads, Validate(t)
    PROVE  Atomic!Open(t) \/ UNCHANGED Atomic!vars
<1>1. CASE ~AllValid(ops[t])
  <2>1. Finish(t, Rejection(FirstInvalid(ops[t]))) /\ UNCHANGED <<work, head, residue>>
        /\ ~InPhase2(t)
    BY <1>1 DEF Validate, files, InPhase2
  <2> QED BY <2>1, FinishElsewhere, OutsideRefines
<1>2. CASE AllValid(ops[t])
  <2>1. /\ pc[t] = "validate" /\ lock = NoThread
        /\ pc' = [pc EXCEPT ![t] = "apply"] /\ UNCHANGED <<ops, pos, work, head, residue>>
    BY <1>2 DEF Validate, files
  <2>2. pc'[t] = "apply" /\ \A u \in Threads : u # t => pc'[u] = pc[u]
    BY <2>1 DEF StoreInv, TypeOK
  <2>3. ~InPhase2(t) /\ InPhase2(t)'
    BY <2>1, <2>2 DEF InPhase2
  <2>4. \A u \in Threads : u # t => OpenBatch(u)' = OpenBatch(u)
    BY <2>1, <2>2 DEF OpenBatch, InPhase2, AppliedCount
  <2>5. Drafts' = [Drafts EXCEPT ![t] = Drafts'[t]]
    BY <2>4, OneDraftMoves
  <2>6. Drafts[t].batch = <<>>
    BY <2>3 DEF Drafts, OpenBatch
  <2>7. /\ Drafts'[t].batch = ops[t] /\ ops[t] # <<>>
        /\ Drafts'[t].done = 0 /\ Drafts'[t].draft = work
    BY <2>1, <2>2, <2>3 DEF Drafts, OpenBatch, AppliedCount, StoreInv, PositionsFit
  <2>8. \A i \in 1 .. Len(ops[t]) :
           ops[t][i].path \in residue \/ ops[t][i].ver = head[ops[t][i].path]
    BY <2>1, <2>3 DEF StoreInv, VersionsHeld
  <2>9. \A p \in Paths \ residue : work[p] = head[p]
    <3>1. \A u \in Threads : ~InPhase2(u)
      BY <2>1, NoThreadIsNone DEF StoreInv, LockProtects, InPhase2, Critical
    <3> QED BY <3>1 DEF StoreInv, QuietIsClean
  <2> QED BY <2>1, <2>5, <2>6, <2>7, <2>8, <2>9
          DEF Atomic!Open, Atomic!IsOpen, Atomic!Current, Drafts
<1> QED BY <1>1, <1>2

(* Both specifications mean the same operations on a file.                 *)
LEMMA SameOperations ==
    \A op, c : Atomic!Applicable(op, c) = Applicable(op, c) /\ Atomic!Result(op, c) = Result(op, c)
<1>1. \A c, x, s : Atomic!ReplaceFirst(c, x, s) = ReplaceFirst(c, x, s)
  BY DEF Atomic!ReplaceFirst, ReplaceFirst
<1>2. \A c : Atomic!AsText(c) = AsText(c) /\ Atomic!IsUtf8(c) = IsUtf8(c)
  BY DEF Atomic!AsText, AsText, Atomic!IsUtf8, IsUtf8
<1>3. \A op, c : Atomic!Result(op, c) = Result(op, c)
  BY <1>1, <1>2 DEF Atomic!Result, Result
<1>4. \A op, c : Atomic!Applicable(op, c) = Applicable(op, c)
  BY <1>2 DEF Atomic!Applicable, Applicable
<1> QED BY <1>3, <1>4

(* The work-tree half of an operation is the operation on the draft.        *)
LEMMA ApplyRefines ==
    ASSUME StoreInv, StoreInv', NEW t \in Threads, Apply(t)
    PROVE  Atomic!Update(t)
<1> DEFINE op == ops[t][pos[t]]
<1>1. /\ pc[t] = "apply" /\ Applicable(op, work[op.path])
      /\ work' = [work EXCEPT ![op.path] = Result(op, work[op.path])]
      /\ pc' = [pc EXCEPT ![t] = "stage"]
      /\ UNCHANGED <<head, ops, pos, residue>>
  BY DEF Apply
<1>2. pc'[t] = "stage" /\ \A u \in Threads : u # t => pc'[u] = pc[u]
  BY <1>1 DEF StoreInv, TypeOK
<1>3. InPhase2(t) /\ InPhase2(t)'
  BY <1>1, <1>2 DEF InPhase2
<1>4. /\ Drafts[t] = [batch |-> ops[t], done |-> pos[t] - 1, draft |-> work]
      /\ Drafts'[t] = [batch |-> ops[t], done |-> pos[t], draft |-> work']
  BY <1>1, <1>2, <1>3 DEF Drafts, OpenBatch, AppliedCount
<1>5. \A u \in Threads : u # t => OpenBatch(u)' = OpenBatch(u)
  BY <1>1, <1>2, <1>3, Phase2Facts DEF OpenBatch, InPhase2
<1>6. Drafts' = [Drafts EXCEPT ![t] = Drafts'[t]]
  BY <1>5, OneDraftMoves
<1>7. pos[t] \in 1 .. Len(ops[t]) /\ pos[t] \in Nat /\ ops[t] # <<>> /\ pos[t] - 1 + 1 = pos[t]
      /\ pos[t] - 1 < Len(ops[t])
  <2>1. Len(ops[t]) \in Nat /\ pos[t] \in 1 .. Len(ops[t]) /\ pos[t] \in Nat /\ ops[t] # <<>>
    BY <1>1 DEF StoreInv, TypeOK, PositionsFit
  <2> QED BY <2>1
<1>8. Drafts' = [Drafts EXCEPT ![t] =
                    [batch |-> Drafts[t].batch, done |-> Drafts[t].done + 1,
                     draft |-> [Drafts[t].draft EXCEPT ![op.path] = Result(op, @)]]]
  BY <1>1, <1>4, <1>6, <1>7
<1> HIDE DEF op
<1>9. op = ops[t][Drafts[t].done + 1]
  BY <1>4, <1>7 DEF op
<1>10. Drafts[t].batch = ops[t] /\ Drafts[t].draft = work /\ Drafts[t].done < Len(ops[t])
  BY <1>4, <1>7
<1>11. LET o == Drafts[t]
           oper == o.batch[o.done + 1]
       IN  /\ Atomic!Applicable(oper, o.draft[oper.path])
           /\ Drafts' = [Drafts EXCEPT ![t] =
                           [batch |-> o.batch, done |-> o.done + 1,
                            draft |-> [o.draft EXCEPT ![oper.path] = Atomic!Result(oper, @)]]]
  <2>1. op = Drafts[t].batch[Drafts[t].done + 1]
    BY <1>9, <1>10
  <2>2. Applicable(op, Drafts[t].draft[op.path])
    BY <1>1, <1>10 DEF op
  <2> QED BY <1>8, <2>1, <2>2, SameOperations
<1>12. Drafts[t].batch # <<>> /\ Drafts[t].done < Len(Drafts[t].batch)
  BY <1>7, <1>10
<1> QED BY <1>1, <1>11, <1>12 DEF Atomic!Update, Atomic!IsOpen, Drafts

(* The index half is a stutter.                                             *)
LEMMA StageRefines ==
    ASSUME StoreInv, StoreInv', NEW t \in Threads, Stage(t)
    PROVE  UNCHANGED Atomic!vars
<1>1. /\ pc[t] = "stage" /\ pos' = [pos EXCEPT ![t] = @ + 1]
      /\ pc' = [pc EXCEPT ![t] = IF pos[t] = Len(ops[t]) THEN "commit" ELSE "apply"]
      /\ UNCHANGED <<work, head, ops, residue>>
  BY DEF Stage
<1>2. /\ pc'[t] \in {"commit", "apply"} /\ pos'[t] - 1 = pos[t]
      /\ \A u \in Threads : u # t => pc'[u] = pc[u] /\ pos'[u] = pos[u]
  BY <1>1 DEF StoreInv, TypeOK
<1>3. OpenBatch(t)' = OpenBatch(t)
  BY <1>1, <1>2 DEF OpenBatch, InPhase2, AppliedCount
<1>4. \A u \in Threads : u # t => OpenBatch(u)' = OpenBatch(u)
  BY <1>1, <1>2 DEF OpenBatch, InPhase2, AppliedCount
<1> QED BY <1>1, <1>3, <1>4, QuietRefines

(* The commit publishes the draft.                                          *)
LEMMA CommitRefines ==
    ASSUME StoreInv, StoreInv', NEW t \in Threads, Commit(t)
    PROVE  Atomic!Publish(t)
<1>1. /\ pc[t] = "commit" /\ head' = index /\ residue' = residue \ Touched(ops[t])
      /\ pc' = [pc EXCEPT ![t] = "reply"] /\ UNCHANGED <<work, ops, pos>>
  BY DEF Commit
<1>2. pc'[t] = "reply" /\ \A u \in Threads : u # t => pc'[u] = pc[u]
  BY <1>1 DEF StoreInv, TypeOK
<1>3. InPhase2(t) /\ ~InPhase2(t)'
  BY <1>1, <1>2 DEF InPhase2
<1>4. Drafts[t] = [batch |-> ops[t], done |-> Len(ops[t]), draft |-> work] /\ ops[t] # <<>>
  <2>1. pos[t] - 1 = Len(ops[t]) /\ ops[t] # <<>>
    <3>1. pos[t] = Len(ops[t]) + 1 /\ Len(ops[t]) \in Nat /\ ops[t] # <<>>
      BY <1>1 DEF StoreInv, TypeOK, PositionsFit
    <3> QED BY <3>1
  <2> QED BY <1>1, <1>3, <2>1 DEF Drafts, OpenBatch, AppliedCount
<1>5. Drafts'[t] = Atomic!Closed
  BY <1>3 DEF Drafts, OpenBatch, Atomic!Closed
<1>6. \A u \in Threads : u # t => OpenBatch(u)' = OpenBatch(u)
  BY <1>1, <1>2, <1>3, Phase2Facts DEF OpenBatch, InPhase2
<1>7. Drafts' = [Drafts EXCEPT ![t] = Atomic!Closed]
  BY <1>5, <1>6, OneDraftMoves
<1>8. Atomic!PathsOf(ops[t]) = Touched(ops[t]) /\ Touched(ops[t]) \subseteq Paths
  <2>1. \A i \in 1 .. Len(ops[t]) : ops[t][i] \in Operation
    BY DEF StoreInv, TypeOK
  <2> QED BY <2>1 DEF Atomic!PathsOf, Touched, Operation
<1>9. DOMAIN head' = Paths
  BY <1>1 DEF StoreInv, TypeOK
<1>10. /\ \A p \in Touched(ops[t]) : head'[p] = work[p]
       /\ \A p \in Paths \ (Touched(ops[t]) \cup residue) : head'[p] = head[p]
  BY <1>1, <1>8, CommitFindsBatch
<1>11. Atomic!Current(ops[t])
  BY <1>1, CommitFindsBatch DEF Atomic!Current
<1> QED BY <1>1, <1>4, <1>7, <1>8, <1>9, <1>10, <1>11
        DEF Atomic!Publish, Atomic!IsOpen, Drafts

(* The answer is a stutter.                                                 *)
LEMMA ReplyRefines ==
    ASSUME StoreInv, StoreInv', NEW t \in Threads, Reply(t)
    PROVE  UNCHANGED Atomic!vars
<1>1. ~InPhase2(t) /\ UNCHANGED <<work, head, residue>>
  BY DEF Reply, InPhase2, files
<1>2. \E answer : Finish(t, answer)
  BY DEF Reply
<1> QED BY <1>1, <1>2, FinishElsewhere, OutsideRefines

(* Whatever stops thread t in its critical section, the abstract client    *)
(* abandons its draft, or has published it already.                        *)
LEMMA AbortRefines ==
    ASSUME StoreInv, StoreInv', NEW t \in Threads, NEW status,
           pc[t] \in Critical, Abort(t, status), UNCHANGED head
    PROVE  Atomic!Abandon(t) \/ UNCHANGED Atomic!vars
<1>1. ~InPhase2(t)' /\ \A u \in Threads :
         u # t => pc'[u] = pc[u] /\ ops'[u] = ops[u] /\ pos'[u] = pos[u]
  BY FinishElsewhere DEF Abort
<1>2. \A u \in Threads : u # t => ~InPhase2(u) /\ ~InPhase2(u)'
  BY <1>1 DEF StoreInv, LockProtects, InPhase2, Critical
<1>3. \A u \in Threads : u # t => OpenBatch(u)' = OpenBatch(u)
  BY <1>2 DEF OpenBatch
<1>4. CASE pc[t] = "reply"
  <2>1. ~InPhase2(t) /\ UNCHANGED residue
    BY <1>4 DEF InPhase2, Abort
  <2>2. OpenBatch(t)' = OpenBatch(t)
    BY <1>1, <2>1 DEF OpenBatch
  <2> QED BY <1>3, <2>1, <2>2, QuietRefines
<1>5. CASE pc[t] # "reply"
  <2>1. InPhase2(t) /\ residue' = residue \cup Begun(ops[t], pos[t])
    BY <1>5 DEF InPhase2, Critical, Abort
  <2>2. Begun(ops[t], pos[t]) \in SUBSET Atomic!PathsOf(ops[t])
    BY DEF Begun, Atomic!PathsOf
  <2>3. Drafts'[t] = Atomic!Closed
    BY <1>1 DEF Drafts, OpenBatch, Atomic!Closed
  <2>4. Drafts' = [Drafts EXCEPT ![t] = Atomic!Closed]
    BY <1>3, <2>3, OneDraftMoves
  <2>5. Drafts[t].batch = ops[t] /\ ops[t] # <<>>
    BY <2>1, Phase2Facts
  <2> QED BY <2>1, <2>2, <2>4, <2>5 DEF Atomic!Abandon, Atomic!IsOpen, Drafts
<1> QED BY <1>4, <1>5

(* A crash abandons the batch that is open.                                 *)
LEMMA CrashRefines ==
    ASSUME StoreInv, StoreInv', Crash
    PROVE  (\E t \in Threads : Atomic!Abandon(t)) \/ UNCHANGED Atomic!vars
<1>1. /\ UNCHANGED head /\ \A u \in Threads : ~InPhase2(u)'
      /\ residue' = residue \cup
            UNION {Begun(ops[t], pos[t]) :
                      t \in {u \in Threads : pc[u] \in {"apply", "stage", "commit"}}}
  BY DEF Crash, InPhase2
<1>2. CASE \A u \in Threads : ~InPhase2(u)
  <2>1. residue' = residue
    BY <1>1, <1>2 DEF InPhase2
  <2>2. \A u \in Threads : OpenBatch(u)' = OpenBatch(u)
    BY <1>1, <1>2 DEF OpenBatch
  <2> QED BY <1>1, <2>1, <2>2, QuietRefines
<1>3. ASSUME NEW t \in Threads, InPhase2(t)
      PROVE  Atomic!Abandon(t)
  <2>1. \A u \in Threads : u # t => ~InPhase2(u)
    BY <1>3, Phase2Facts
  <2>2. residue' = residue \cup Begun(ops[t], pos[t])
    BY <1>1, <1>3, <2>1 DEF InPhase2
  <2>3. Begun(ops[t], pos[t]) \in SUBSET Atomic!PathsOf(ops[t])
    BY DEF Begun, Atomic!PathsOf
  <2>4. \A u \in Threads : u # t => OpenBatch(u)' = OpenBatch(u)
    BY <1>1, <2>1 DEF OpenBatch
  <2>5. Drafts'[t] = Atomic!Closed
    BY <1>1 DEF Drafts, OpenBatch, Atomic!Closed
  <2>6. Drafts' = [Drafts EXCEPT ![t] = Atomic!Closed]
    BY <2>4, <2>5, OneDraftMoves
  <2>7. Drafts[t].batch = ops[t] /\ ops[t] # <<>>
    BY <1>3, Phase2Facts
  <2> QED BY <1>1, <2>2, <2>3, <2>6, <2>7 DEF Atomic!Abandon, Atomic!IsOpen, Drafts
<1> QED BY <1>2, <1>3

(* The arrival of a request is a stutter.                                   *)
LEMMA RequestRefines ==
    ASSUME StoreInv, StoreInv', NEW t \in Threads, Request(t)
    PROVE  UNCHANGED Atomic!vars
<1>1. pc[t] = "idle" /\ ~InPhase2(t) /\ UNCHANGED <<work, head, residue>>
  BY DEF Request, BeginRead, BeginTree, BeginBatch, BeginUpload, NewRequest, InPhase2, files
<1> DEFINE Elsewhere ==
             /\ ~InPhase2(t)'
             /\ \A u \in Threads : u # t => pc'[u] = pc[u] /\ ops'[u] = ops[u] /\ pos'[u] = pos[u]
<1>2. Elsewhere
  <2>1. ASSUME NEW kind, NEW p, BeginRead(t, kind, p) PROVE Elsewhere
    BY <2>1, FinishElsewhere DEF BeginRead, StoreInv, TypeOK, InPhase2
  <2>2. CASE BeginTree(t)
    BY <2>2 DEF BeginTree, StoreInv, TypeOK, InPhase2
  <2>3. ASSUME NEW s, NEW ver, BeginBatch(t, s, ver) \/ BeginUpload(t, s, ver) PROVE Elsewhere
    BY <2>3, FinishElsewhere DEF BeginBatch, BeginUpload, Enqueue, StoreInv, TypeOK, InPhase2
  <2> QED BY <2>1, <2>2, <2>3 DEF Request
<1> QED BY <1>1, <1>2, OutsideRefines

(* The locked part of a read is a stutter.                                  *)
LEMMA FetchRefines ==
    ASSUME StoreInv, StoreInv', NEW t \in Threads, Fetch(t)
    PROVE  UNCHANGED Atomic!vars
<1>1. ~InPhase2(t) /\ UNCHANGED <<work, head, residue>>
  BY DEF Fetch, InPhase2, files
<1>2. \E answer : Finish(t, answer)
  BY DEF Fetch
<1> QED BY <1>1, <1>2, FinishElsewhere, OutsideRefines

(* A read or a phase 1 that fails is a stutter.                             *)
LEMMA ReadFaultRefines ==
    ASSUME StoreInv, StoreInv', NEW t \in Threads, ReadFault(t)
    PROVE  UNCHANGED Atomic!vars
<1>1. ~InPhase2(t) /\ UNCHANGED <<work, head, residue>>
  BY DEF ReadFault, InPhase2, files
<1>2. \E answer : Finish(t, answer)
  BY DEF ReadFault
<1> QED BY <1>1, <1>2, FinishElsewhere, OutsideRefines

(* Every step is a step of the abstract store or a stutter.                 *)
LEMMA NextRefines ==
    StoreInv /\ StoreInv' /\ [Next]_vars => [Atomic!Next]_(Atomic!vars)
<1> SUFFICES ASSUME StoreInv, StoreInv', [Next]_vars
             PROVE  Atomic!Next \/ UNCHANGED Atomic!vars
  OBVIOUS
<1> USE DEF Atomic!Next
<1>1. ASSUME NEW t \in Threads, Serve(t) PROVE Atomic!Next \/ UNCHANGED Atomic!vars
  <2>1. CASE Raise(t)
    BY <2>1, AbortRefines DEF Raise, Critical
  <2> QED BY <1>1, <2>1, FetchRefines, ValidateRefines, ApplyRefines, StageRefines,
             CommitRefines, ReplyRefines DEF Serve
<1>2. ASSUME NEW t \in Threads, IOFault(t) PROVE Atomic!Next \/ UNCHANGED Atomic!vars
  BY <1>2, AbortRefines DEF IOFault
<1>3. CASE UNCHANGED vars
  <2>1. \A t \in Threads : OpenBatch(t)' = OpenBatch(t)
    BY <1>3 DEF vars, files, OpenBatch, InPhase2, AppliedCount
  <2> QED BY <1>3, <2>1, QuietRefines DEF vars, files
<1> QED BY <1>1, <1>2, <1>3, RequestRefines, ReadFaultRefines, CrashRefines DEF Next

(* The lock, the work tree and the index implement the optimistic store.   *)
THEOREM StorageIsAtomic == Spec => ImplementsAtomicStore
<1> QED BY InitRefines, NextRefines, StoreInvariant, PTL DEF Spec, Atomic!Spec, ImplementsAtomicStore
=============================================================================
