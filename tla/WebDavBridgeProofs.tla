------------------------- MODULE WebDavBridgeProofs -------------------------
(***************************************************************************)
(* Proofs about WebDavBridge for any number of workers, any files, menu of *)
(* requests and bounds: what a request has seen of the files it changes,   *)
(* and what it has written before it takes anything away.                  *)
(***************************************************************************)
EXTENDS WebDavBridge, TLAPS

Marks     == Contents \cup {None}
Resources == [version: Marks, content: Marks, size: Marks]
Ops       == [path: Paths, content: Marks, version: Marks, as: {"text", "upload", "delete"}]
Steps     == Changing \cup Reading \cup {"idle", "body", "done"}
Statuses  == {None, "ok", "conflict", "notfound", "collection", "error"}

TablesTyped ==
    /\ files \in Files
    /\ pc \in [Workers -> Steps]
    /\ req \in [Workers -> Menu \cup {None}]
    /\ res \in [Workers -> Resources]
    /\ dest \in [Workers -> Marks]
    /\ data \in [Workers -> Marks]
    /\ gone \in [Workers -> BOOLEAN]
    /\ status \in [Workers -> Statuses]
    /\ did \in [Workers -> Seq(Ops)]

(* A worker is in a method only for the requests that lead there.           *)
MethodFits(w) ==
    /\ req[w] = None <=> pc[w] = "idle"
    /\ pc[w] = "get_content" => req[w].method = "GET"
    /\ pc[w] \in {"body", "end_write"} => req[w].method = "PUT"
    /\ pc[w] \in {"resolve_dest", "dest_dir", "copy_move_single", "copy"} =>
          req[w].method \in {"MOVE", "COPY"}
    /\ pc[w] \in {"delete_dest", "remove"} => req[w].method = "MOVE"
    /\ pc[w] = "delete" => req[w].method \in {"DELETE", "MOVE"}

GoneFits(w) ==
    /\ gone[w] => pc[w] \in Changing \cup {"done"} /\ status[w] = "error"
    /\ pc[w] = "done" => status[w] # None

(* A resource that was found holds its text, and announces its length.      *)
Found == {"get_content", "resolve_dest", "dest_dir", "delete", "delete_dest",
          "copy_move_single", "copy", "remove"}
ResourceFits(w) ==
    /\ res[w].content # None =>
          res[w].content = AsText[res[w].version] /\ res[w].size = res[w].content
    /\ pc[w] \in Found /\ Text(req[w].path) => res[w].content # None
    /\ pc[w] \in {"copy", "remove"} => ~Text(req[w].path) /\ data[w] # None

(* What a move or a copy carries to its destination.                        *)
Carried(w) == IF Text(req[w].path) THEN res[w].content ELSE data[w]

(* A move comes to the removal of its source with the destination written.  *)
WrittenFirst(w) ==
    pc[w] \in {"delete", "remove"} /\ req[w].method = "MOVE" => Carried(w) \in Written(w, did[w])

BodyFits(w) ==
    pc[w] = "done" /\ req[w].method = "GET" /\ status[w] = "ok" /\ Text(req[w].path)
       => data[w] = AsText[res[w].version] /\ data[w] = res[w].size

WorkerOK(w) ==
    /\ MethodFits(w) /\ GoneFits(w) /\ ResourceFits(w) /\ WrittenFirst(w) /\ BodyFits(w)

(* The inductive invariant: each worker knows enough by itself.             *)
BridgeInd == TablesTyped /\ \A w \in Workers : WorkerOK(w)

-----------------------------------------------------------------------------
(* What the API does with one operation and with two.                       *)

(* An operation is refused for one of four reasons.                         *)
LEMMA OpVerdictType ==
    ASSUME NEW op PROVE OpVerdict(op) \in {"ok", "broken", "notfound", "invalid", "conflict"}
BY DEF OpVerdict

(* An operation the API accepts names the content it replaces.              *)
LEMMA AcceptedSawIt ==
    ASSUME NEW op, OpVerdict(op) = "ok"
    PROVE  op.version = files[op.path]
BY DEF OpVerdict

(* A batch of one is judged and applied as its operation.                   *)
LEMMA BatchOfOne ==
    ASSUME NEW op
    PROVE  /\ Verdict(<<op>>) = OpVerdict(op)
           /\ \A p \in Paths : Applied(<<op>>)[p] = IF p = op.path THEN op.content ELSE files[p]
<1>1. Len(<<op>>) = 1 /\ <<op>>[1] = op /\ 1 .. 1 = {1}
  OBVIOUS
<1>2. Verdict(<<op>>) = OpVerdict(op)
  BY <1>1 DEF Verdict
<1>3. \A p \in Paths : Applied(<<op>>)[p] = IF p = op.path THEN op.content ELSE files[p]
  BY <1>1 DEF Applied
<1>. QED BY <1>2, <1>3

(* A batch of two is accepted if both operations are.                       *)
LEMMA BatchOfTwo ==
    ASSUME NEW a, NEW b, a.path # b.path
    PROVE  /\ Verdict(<<a, b>>) \in {"ok", "broken", "notfound", "invalid", "conflict"}
           /\ Verdict(<<a, b>>) = "ok" => OpVerdict(a) = "ok" /\ OpVerdict(b) = "ok"
           /\ \A p \in Paths : Applied(<<a, b>>)[p] =
                 IF p = a.path THEN a.content ELSE IF p = b.path THEN b.content ELSE files[p]
<1>1. Len(<<a, b>>) = 2 /\ <<a, b>>[1] = a /\ <<a, b>>[2] = b /\ 1 .. 2 = {1, 2}
  OBVIOUS
<1>2. /\ Verdict(<<a, b>>) \in {"ok", "broken", "notfound", "invalid", "conflict"}
      /\ Verdict(<<a, b>>) = "ok" => OpVerdict(a) = "ok" /\ OpVerdict(b) = "ok"
  <2> DEFINE bad == {i \in 1 .. 2 : OpVerdict(<<a, b>>[i]) # "ok"}
  <2>1. CASE bad = {}
    BY <1>1, <2>1 DEF Verdict
  <2>2. CASE bad # {}
    <3>1. \E i \in bad : \A j \in bad : i <= j
      BY <1>1, <2>2
    <3>2. PICK i \in bad : Verdict(<<a, b>>) = OpVerdict(<<a, b>>[i])
      BY <1>1, <2>2, <3>1 DEF Verdict
    <3>. QED BY <1>1, <3>2, OpVerdictType
  <2>. QED BY <2>1, <2>2
<1>3. \A p \in Paths : Applied(<<a, b>>)[p] =
         IF p = a.path THEN a.content ELSE IF p = b.path THEN b.content ELSE files[p]
  BY <1>1 DEF Applied
<1>. QED BY <1>2, <1>3

(* What was written stays in the history of the request.                    *)
LEMMA WrittenGrows ==
    ASSUME NEW w, NEW s \in Seq(Ops), NEW batch \in Seq(Ops)
    PROVE  /\ Written(w, s) \subseteq Written(w, s \o batch)
           /\ Written(w, batch) \subseteq Written(w, s \o batch)
<1>1. /\ Len(s) \in Nat /\ Len(batch) \in Nat /\ Len(s \o batch) = Len(s) + Len(batch)
      /\ \A i \in 1 .. Len(s) : (s \o batch)[i] = s[i]
      /\ \A i \in 1 .. Len(batch) : (s \o batch)[Len(s) + i] = batch[i]
  OBVIOUS
<1>2. \A i \in 1 .. Len(s) : i \in 1 .. Len(s \o batch)
  BY <1>1
<1>3. \A i \in 1 .. Len(batch) : Len(s) + i \in 1 .. Len(s \o batch)
  BY <1>1
<1>4. Written(w, s) \subseteq Written(w, s \o batch)
  BY <1>1, <1>2 DEF Written
<1>5. Written(w, batch) \subseteq Written(w, s \o batch)
  BY <1>1, <1>3 DEF Written
<1>. QED BY <1>4, <1>5
-----------------------------------------------------------------------------
(* A call that changes files.                                               *)

Rest(w) == <<req[w], res[w], dest[w], data[w], gone[w]>>

(* What the worker is told, and where it goes.                              *)
Told(w, v, tolerated, to) ==
    \/ gone[w] /\ pc'[w] = "done" /\ status'[w] = status[w]
    \/ ~gone[w] /\ v \notin {"ok"} \cup tolerated /\ pc'[w] = "done"
       /\ status'[w] \in {"conflict", "error"}
    \/ ~gone[w] /\ v \in {"ok"} \cup tolerated /\ to = "done" /\ pc'[w] = "done" /\ status'[w] = "ok"
    \/ ~gone[w] /\ v \in {"ok"} \cup tolerated /\ to # "done" /\ pc'[w] = to
       /\ status'[w] = status[w]

(* What becomes of the files, and of the worker's history.                  *)
Effect(w, v, batch) ==
    \/ v = "ok" /\ files' = Applied(batch) /\ did'[w] = did[w] \o batch
    \/ v # "ok" /\ files' = files /\ did'[w] = did[w]

(* Everything a call does (AgentApiClient's methods that change files).     *)
LEMMA SendStep ==
    ASSUME TablesTyped, NEW w \in Workers, NEW batch, NEW tolerated, NEW to,
           Send(w, batch, tolerated, to)
    PROVE  /\ UNCHANGED <<req, res, dest, data, gone>>
           /\ \A u \in Workers : u # w =>
                 pc'[u] = pc[u] /\ status'[u] = status[u] /\ did'[u] = did[u]
           /\ Told(w, Verdict(batch), tolerated, to)
           /\ Effect(w, Verdict(batch), batch)
<1> DEFINE v == Verdict(batch)
<1>1. /\ pc \in [Workers -> Steps] /\ status \in [Workers -> Statuses]
      /\ did \in [Workers -> Seq(Ops)]
  BY DEF TablesTyped
<1>2. UNCHANGED <<req, res, dest, data, gone>>
  BY DEF Send
<1>3. /\ \A u \in Workers : u # w => did'[u] = did[u]
      /\ Effect(w, v, batch)
  BY <1>1 DEF Send, Effect
<1>4. CASE gone[w]
  BY <1>1, <1>2, <1>3, <1>4 DEF Send, Told, Go
<1>5. CASE ~gone[w] /\ v \notin {"ok"} \cup tolerated
  BY <1>1, <1>2, <1>3, <1>5 DEF Send, Told, Go, Answer, DavStatus
<1>6. CASE ~gone[w] /\ v \in {"ok"} \cup tolerated /\ to = "done"
  BY <1>1, <1>2, <1>3, <1>6 DEF Send, Told, Go, Answer
<1>7. CASE ~gone[w] /\ v \in {"ok"} \cup tolerated /\ to # "done"
  BY <1>1, <1>2, <1>3, <1>7 DEF Send, Told, Go
<1>. QED BY <1>4, <1>5, <1>6, <1>7

(* The files stay files.                                                    *)
LEMMA AppliedTyped ==
    ASSUME files \in Files, NEW batch \in Seq(Ops)
    PROVE  Applied(batch) \in Files
<1>1. ASSUME NEW p \in Paths PROVE Applied(batch)[p] \in Marks
  <2>1. CASE \E i \in 1 .. Len(batch) : batch[i].path = p
    <3>1. PICK i \in 1 .. Len(batch) : Applied(batch)[p] = batch[i].content
      BY <2>1 DEF Applied
    <3>2. batch[i] \in Ops
      OBVIOUS
    <3>. QED BY <3>1, <3>2 DEF Ops
  <2>2. CASE ~\E i \in 1 .. Len(batch) : batch[i].path = p
    BY <2>2 DEF Applied, Files, Marks
  <2>. QED BY <2>1, <2>2
<1>2. Applied(batch) = [p \in Paths |-> Applied(batch)[p]]
  BY DEF Applied
<1>. QED BY <1>1, <1>2 DEF Files, Marks

(* A call keeps the types.                                                  *)
LEMMA SendTyped ==
    ASSUME TablesTyped, NEW w \in Workers, NEW batch \in Seq(Ops), NEW tolerated,
           NEW to \in Steps, Send(w, batch, tolerated, to)
    PROVE  TablesTyped'
<1>1. files' \in Files
  BY AppliedTyped DEF Send, TablesTyped
<1>2. did' \in [Workers -> Seq(Ops)]
  <2>1. did[w] \o batch \in Seq(Ops)
    BY DEF TablesTyped
  <2>. QED BY <2>1 DEF Send, TablesTyped
<1>3. pc' \in [Workers -> Steps] /\ status' \in [Workers -> Statuses]
  BY DEF Send, TablesTyped, Go, Answer, DavStatus, Steps, Statuses
<1>. QED BY <1>1, <1>2, <1>3 DEF Send, TablesTyped

(* A worker knows what it knew as long as nothing of its own changes.       *)
Same(w) ==
    /\ pc'[w] = pc[w] /\ status'[w] = status[w] /\ did'[w] = did[w]
    /\ req'[w] = req[w] /\ res'[w] = res[w] /\ dest'[w] = dest[w]
    /\ data'[w] = data[w] /\ gone'[w] = gone[w]

(* Nothing a worker knows is about the files as they are now.               *)
LEMMA WorkerFrame ==
    ASSUME NEW w \in Workers, WorkerOK(w), Same(w)
    PROVE  WorkerOK(w)'
BY DEF WorkerOK, Same, MethodFits, GoneFits, ResourceFits, WrittenFirst, BodyFits, Written, Carried

(* A request of the menu.                                                   *)
LEMMA RequestTyped ==
    ASSUME BridgeInd, NEW w \in Workers, pc[w] # "idle"
    PROVE  /\ req[w] \in Menu /\ req[w].path \in Paths /\ req[w].dest \in Paths
           /\ req[w].body \in Contents
           /\ req[w].method \in {"GET", "PUT", "DELETE", "MOVE", "COPY"}
           /\ req[w].method \in {"MOVE", "COPY"} => req[w].path # req[w].dest
BY BridgeTyped DEF BridgeInd, TablesTyped, WorkerOK, MethodFits

(* What the request and the resource of a worker in a changing method hold.  *)
LEMMA WorkerTyped ==
    ASSUME BridgeInd, NEW w \in Workers
    PROVE  res[w].version \in Marks /\ dest[w] \in Marks /\ data[w] \in Marks /\ None \in Marks
<1>1. res[w] \in Resources /\ dest[w] \in Marks /\ data[w] \in Marks
  BY DEF BridgeInd, TablesTyped
<1>. QED BY <1>1 DEF Resources, Marks

(* The operations that are sent are typed.                                  *)
LEMMA OpTyped ==
    ASSUME NEW p \in Paths, NEW c \in Marks, NEW v \in Marks, NEW as \in {"text", "upload", "delete"}
    PROVE  /\ Op(p, c, v, as) \in Ops
           /\ Op(p, c, v, as).path = p /\ Op(p, c, v, as).content = c
           /\ Op(p, c, v, as).version = v
BY DEF Op, Ops

(* What a batch writes to the destination of the request.                   *)
LEMMA WrittenByBatch ==
    ASSUME NEW w \in Workers, NEW op, op.path = req[w].dest, op.content # None, NEW other
    PROVE  /\ op.content \in Written(w, <<op>>)
           /\ op.content \in Written(w, <<op, other>>)
<1>1. /\ Len(<<op>>) = 1 /\ <<op>>[1] = op
      /\ Len(<<op, other>>) = 2 /\ <<op, other>>[1] = op
  OBVIOUS
<1>. QED BY <1>1 DEF Written
-----------------------------------------------------------------------------
(* The calls that change files, one by one.                                 *)

(* A worker that is told how its call went has nothing more to know.        *)
LEMMA ToldAndDone ==
    ASSUME BridgeInd, NEW w \in Workers, pc[w] \in Changing, UNCHANGED <<req, res, dest, data, gone>>,
           NEW v, NEW tolerated, NEW to, Told(w, v, tolerated, to), pc'[w] = "done"
    PROVE  WorkerOK(w)'
<1>1. WorkerOK(w) /\ pc[w] # "idle" /\ pc[w] # "done" /\ req[w] # None /\ req[w].method # "GET"
  BY DEF BridgeInd, WorkerOK, MethodFits, Changing
<1>2. status'[w] # None /\ (gone[w] => status'[w] = "error")
  BY <1>1, BridgeTyped DEF Told, WorkerOK, GoneFits
<1>3. MethodFits(w)' /\ GoneFits(w)'
  BY <1>1, <1>2 DEF MethodFits, GoneFits
<1>4. ResourceFits(w)' /\ WrittenFirst(w)' /\ BodyFits(w)'
  BY <1>1 DEF WorkerOK, ResourceFits, WrittenFirst, BodyFits, Found
<1>. QED BY <1>3, <1>4 DEF WorkerOK

(* A call keeps the invariant if its worker goes on with what it needs.     *)
LEMMA SendKeeps ==
    ASSUME BridgeInd, NEW w \in Workers, pc[w] \in Changing, NEW batch \in Seq(Ops), NEW tolerated,
           NEW to \in Steps, Send(w, batch, tolerated, to),
           pc'[w] # "done" => WorkerOK(w)'
    PROVE  BridgeInd'
<1>1. TablesTyped'
  BY SendTyped DEF BridgeInd
<1>2. WorkerOK(w)'
  BY SendStep, ToldAndDone DEF BridgeInd
<1>3. ASSUME NEW u \in Workers, u # w PROVE WorkerOK(u)'
  <2>1. Same(u)
    BY <1>3, SendStep DEF BridgeInd, Same
  <2>. QED BY <2>1, WorkerFrame DEF BridgeInd
<1>. QED BY <1>1, <1>2, <1>3 DEF BridgeInd

(* What a worker that goes on has been told.                                *)
LEMMA GoesOn ==
    ASSUME NEW w, NEW v, NEW tolerated, NEW to, Told(w, v, tolerated, to), pc'[w] # "done"
    PROVE  pc'[w] = to /\ ~gone[w] /\ v \in {"ok"} \cup tolerated /\ status'[w] = status[w]
BY DEF Told

(* end_write keeps the invariant.                                           *)
LEMMA EndWriteKeeps ==
    ASSUME BridgeInd, NEW w \in Workers, EndWrite(w)
    PROVE  BridgeInd'
<1>1. pc[w] = "end_write" /\ pc[w] \in Changing /\ "done" \in Steps
  BY DEF EndWrite, Changing, Steps
<1> DEFINE op == Op(req[w].path, req[w].body, res[w].version, As(req[w].path))
<1>2. op \in Ops
  BY <1>1, RequestTyped, OpTyped DEF BridgeInd, TablesTyped, Resources, Marks, As
<1>3. Send(w, <<op>>, {}, "done") /\ <<op>> \in Seq(Ops)
  BY <1>2 DEF EndWrite
<1>4. pc'[w] = "done"
  BY <1>3, SendStep DEF BridgeInd, Told
<1>. QED BY <1>1, <1>3, <1>4, SendKeeps

(* delete() keeps the invariant.                                            *)
LEMMA DeleteKeeps ==
    ASSUME BridgeInd, NEW w \in Workers, Delete(w)
    PROVE  BridgeInd'
<1>1. pc[w] = "delete" /\ pc[w] \in Changing /\ "done" \in Steps
  BY DEF Delete, Changing, Steps
<1> DEFINE op == Op(req[w].path, None, res[w].version, "delete")
<1>2. op \in Ops
  <2>1. req[w].path \in Paths
    BY <1>1, RequestTyped DEF BridgeInd
  <2>. QED BY <2>1, WorkerTyped, OpTyped
<1>3. Send(w, <<op>>, {"notfound"}, "done") /\ <<op>> \in Seq(Ops)
  BY <1>2 DEF Delete
<1>4. pc'[w] = "done"
  BY <1>3, SendStep DEF BridgeInd, Told
<1>. QED BY <1>1, <1>3, <1>4, SendKeeps

(* The deletion of the destination of a MOVE keeps the invariant.           *)
LEMMA DeleteDestKeeps ==
    ASSUME BridgeInd, NEW w \in Workers, DeleteDest(w)
    PROVE  BridgeInd'
<1>1. /\ pc[w] = "delete_dest" /\ pc[w] \in Changing /\ "copy_move_single" \in Steps
      /\ WorkerOK(w)
  BY DEF DeleteDest, Changing, Steps, BridgeInd
<1> DEFINE op == Op(req[w].dest, None, dest[w], "delete")
<1>2. op \in Ops
  <2>1. req[w].dest \in Paths
    BY <1>1, RequestTyped DEF BridgeInd
  <2>. QED BY <2>1, WorkerTyped, OpTyped
<1>3. Send(w, <<op>>, {"notfound"}, "copy_move_single") /\ <<op>> \in Seq(Ops)
  BY <1>2 DEF DeleteDest
<1>4. ASSUME pc'[w] # "done" PROVE WorkerOK(w)'
  <2>1. UNCHANGED <<req, res, dest, data, gone>> /\ pc'[w] = "copy_move_single" /\ ~gone[w]
    BY <1>3, <1>4, SendStep, GoesOn DEF BridgeInd
  <2>2. ResourceFits(w)'
    BY <1>1, <2>1 DEF WorkerOK, ResourceFits, Found
  <2>. QED BY <1>1, <2>1, <2>2 DEF WorkerOK, MethodFits, GoneFits, WrittenFirst, BodyFits
<1>. QED BY <1>1, <1>3, <1>4, SendKeeps

(* The two operations of a text that is moved or copied.                    *)
TextWrite(w) == Op(req[w].dest, res[w].content, None, "text")
TextDrop(w)  == Op(req[w].path, None, res[w].version, "delete")

(* They are typed, they are about two files, and the content is there.      *)
LEMMA TextOps ==
    ASSUME BridgeInd, NEW w \in Workers, CopyMoveText(w)
    PROVE  /\ pc[w] = "copy_move_single" /\ Text(req[w].path)
           /\ req[w].method \in {"MOVE", "COPY"}
           /\ TextWrite(w) \in Ops /\ TextDrop(w) \in Ops
           /\ TextWrite(w).path = req[w].dest /\ TextDrop(w).path = req[w].path
           /\ req[w].dest # req[w].path
           /\ TextWrite(w).content = res[w].content /\ res[w].content # None
           /\ TextDrop(w).content = None
           /\ TextWrite(w).version = None /\ TextDrop(w).version = res[w].version
           /\ IF req[w].method = "MOVE" THEN Send(w, <<TextWrite(w), TextDrop(w)>>, {}, "delete")
              ELSE Send(w, <<TextWrite(w)>>, {}, "done")
<1>1. pc[w] = "copy_move_single" /\ Text(req[w].path) /\ WorkerOK(w)
  BY DEF CopyMoveText, BridgeInd
<1>2. req[w].method \in {"MOVE", "COPY"} /\ res[w].content # None
  BY <1>1 DEF WorkerOK, MethodFits, ResourceFits, Found
<1>3. /\ req[w].path \in Paths /\ req[w].dest \in Paths /\ req[w].dest # req[w].path
      /\ res[w].content \in Marks /\ res[w].version \in Marks /\ None \in Marks
  BY <1>1, <1>2, RequestTyped DEF BridgeInd, TablesTyped, Resources, Marks
<1>4. IF req[w].method = "MOVE" THEN Send(w, <<TextWrite(w), TextDrop(w)>>, {}, "delete")
      ELSE Send(w, <<TextWrite(w)>>, {}, "done")
  BY DEF CopyMoveText, TextWrite, TextDrop
<1>. QED BY <1>1, <1>2, <1>3, <1>4, OpTyped DEF TextWrite, TextDrop

(* move_text and copy_text keep the invariant.                              *)
LEMMA CopyMoveTextKeeps ==
    ASSUME BridgeInd, NEW w \in Workers, CopyMoveText(w)
    PROVE  BridgeInd'
<1>1. pc[w] \in Changing /\ {"delete", "done"} \subseteq Steps /\ WorkerOK(w)
  BY TextOps DEF Changing, Steps, BridgeInd
<1>2. CASE req[w].method # "MOVE"
  <2>1. Send(w, <<TextWrite(w)>>, {}, "done") /\ <<TextWrite(w)>> \in Seq(Ops)
    <3>1. TextWrite(w) \in Ops /\ Send(w, <<TextWrite(w)>>, {}, "done")
      BY <1>2, TextOps
    <3>. QED BY <3>1
  <2>2. pc'[w] = "done"
    BY <2>1, SendStep DEF BridgeInd, Told
  <2>. QED BY <1>1, <2>1, <2>2, SendKeeps
<1>3. CASE req[w].method = "MOVE"
  <2> DEFINE batch == <<TextWrite(w), TextDrop(w)>>
  <2>1. Send(w, batch, {}, "delete") /\ batch \in Seq(Ops)
    <3>1. TextWrite(w) \in Ops /\ TextDrop(w) \in Ops /\ Send(w, batch, {}, "delete")
      BY <1>3, TextOps
    <3>. QED BY <3>1
  <2>2. ASSUME pc'[w] # "done" PROVE WorkerOK(w)'
    <3>1. /\ UNCHANGED <<req, res, dest, data, gone>> /\ pc'[w] = "delete" /\ ~gone[w]
          /\ Verdict(batch) = "ok"
      BY <2>1, <2>2, SendStep, GoesOn DEF BridgeInd
    <3>2. did'[w] = did[w] \o batch
      BY <2>1, <3>1, SendStep DEF BridgeInd, Effect
    <3>3. res[w].content \in Written(w, batch)
      BY TextOps, WrittenByBatch
    <3>4. res[w].content \in Written(w, did'[w])
      BY <2>1, <3>2, <3>3, WrittenGrows DEF BridgeInd, TablesTyped
    <3>5. WrittenFirst(w)'
      BY <3>1, <3>4, TextOps DEF WrittenFirst, Carried, Written
    <3>6. MethodFits(w)' /\ GoneFits(w)' /\ BodyFits(w)'
      BY <1>1, <1>3, <3>1, TextOps DEF WorkerOK, MethodFits, GoneFits, BodyFits
    <3>7. ResourceFits(w)'
      BY <1>1, <3>1, TextOps DEF WorkerOK, ResourceFits
    <3>. QED BY <3>5, <3>6, <3>7 DEF WorkerOK
  <2>. QED BY <1>1, <2>1, <2>2, SendKeeps
<1>. QED BY <1>2, <1>3

(* The copy of bytes to the destination.                                    *)
BytesWrite(w) == Op(req[w].dest, data[w], None, "upload")
BytesNext(w)  == IF req[w].method = "MOVE" THEN "remove" ELSE "done"

(* It is typed, and the bytes are there.                                    *)
LEMMA BytesOps ==
    ASSUME BridgeInd, NEW w \in Workers, CopyBytes(w)
    PROVE  /\ pc[w] = "copy" /\ ~Text(req[w].path) /\ data[w] # None
           /\ req[w].method \in {"MOVE", "COPY"}
           /\ req[w].dest # req[w].path
           /\ BytesWrite(w) \in Ops /\ BytesWrite(w).path = req[w].dest
           /\ BytesWrite(w).content = data[w] /\ BytesWrite(w).version = None
           /\ Send(w, <<BytesWrite(w)>>, {}, BytesNext(w))
<1>1. pc[w] = "copy" /\ WorkerOK(w) /\ Send(w, <<BytesWrite(w)>>, {}, BytesNext(w))
  BY DEF CopyBytes, BridgeInd, BytesWrite, BytesNext
<1>2. ~Text(req[w].path) /\ data[w] # None /\ req[w].method \in {"MOVE", "COPY"}
  BY <1>1 DEF WorkerOK, MethodFits, ResourceFits
<1>3. req[w].dest \in Paths /\ req[w].dest # req[w].path /\ data[w] \in Marks /\ None \in Marks
  BY <1>1, <1>2, RequestTyped DEF BridgeInd, TablesTyped, Marks
<1>. QED BY <1>1, <1>2, <1>3, OpTyped DEF BytesWrite

(* The copy keeps the invariant.                                            *)
LEMMA CopyBytesKeeps ==
    ASSUME BridgeInd, NEW w \in Workers, CopyBytes(w)
    PROVE  BridgeInd'
<1> DEFINE batch == <<BytesWrite(w)>>
<1>1. pc[w] \in Changing /\ BytesNext(w) \in Steps /\ WorkerOK(w)
  BY BytesOps DEF Changing, Steps, BridgeInd, BytesNext
<1>2. Send(w, batch, {}, BytesNext(w)) /\ batch \in Seq(Ops)
  BY BytesOps
<1>3. ASSUME pc'[w] # "done" PROVE WorkerOK(w)'
  <2>1. /\ UNCHANGED <<req, res, dest, data, gone>> /\ pc'[w] = BytesNext(w) /\ ~gone[w]
        /\ Verdict(batch) = "ok"
    BY <1>2, <1>3, SendStep, GoesOn DEF BridgeInd
  <2>2. did'[w] = did[w] \o batch
    BY <1>2, <2>1, SendStep DEF BridgeInd, Effect
  <2>3. data[w] \in Written(w, batch)
    BY BytesOps, WrittenByBatch
  <2>4. data[w] \in Written(w, did'[w])
    BY <1>2, <2>2, <2>3, WrittenGrows DEF BridgeInd, TablesTyped
  <2>5. WrittenFirst(w)'
    BY <2>1, <2>4, BytesOps DEF WrittenFirst, Carried, Written
  <2>6. pc'[w] = "remove" /\ req[w].method = "MOVE"
    BY <1>3, <2>1 DEF BytesNext
  <2>7. MethodFits(w)' /\ GoneFits(w)' /\ BodyFits(w)'
    BY <1>1, <2>1, <2>6, BytesOps DEF WorkerOK, MethodFits, GoneFits, BodyFits, Changing
  <2>8. ResourceFits(w)'
    BY <1>1, <2>1, BytesOps DEF WorkerOK, ResourceFits
  <2>. QED BY <2>5, <2>7, <2>8 DEF WorkerOK
<1>. QED BY <1>1, <1>2, <1>3, SendKeeps

(* The removal of the source of moved bytes keeps the invariant.            *)
LEMMA RemoveSourceKeeps ==
    ASSUME BridgeInd, NEW w \in Workers, RemoveSource(w)
    PROVE  BridgeInd'
<1>1. pc[w] = "remove" /\ pc[w] \in Changing /\ "delete" \in Steps /\ WorkerOK(w)
  BY DEF RemoveSource, Changing, Steps, BridgeInd
<1> DEFINE op == Op(req[w].path, None, res[w].version, "delete")
<1>2. op \in Ops
  <2>1. req[w].path \in Paths
    BY <1>1, RequestTyped DEF BridgeInd
  <2>. QED BY <2>1, WorkerTyped, OpTyped
<1>3. Send(w, <<op>>, {}, "delete") /\ <<op>> \in Seq(Ops)
  BY <1>2 DEF RemoveSource
<1>4. ASSUME pc'[w] # "done" PROVE WorkerOK(w)'
  <2>1. /\ UNCHANGED <<req, res, dest, data, gone>> /\ pc'[w] = "delete" /\ ~gone[w]
        /\ Verdict(<<op>>) = "ok"
    BY <1>3, <1>4, SendStep, GoesOn DEF BridgeInd
  <2>2. did'[w] = did[w] \o <<op>>
    BY <1>3, <2>1, SendStep DEF BridgeInd, Effect
  <2>3. Written(w, did[w]) \subseteq Written(w, did'[w])
    BY <1>3, <2>2, WrittenGrows DEF BridgeInd, TablesTyped
  <2>4. WrittenFirst(w)'
    BY <1>1, <2>1, <2>3 DEF WorkerOK, MethodFits, WrittenFirst, Carried, Written
  <2>5. MethodFits(w)' /\ GoneFits(w)' /\ BodyFits(w)'
    BY <1>1, <2>1 DEF WorkerOK, MethodFits, GoneFits, BodyFits
  <2>6. ResourceFits(w)'
    BY <1>1, <2>1 DEF WorkerOK, ResourceFits
  <2>. QED BY <2>4, <2>5, <2>6 DEF WorkerOK
<1>. QED BY <1>1, <1>3, <1>4, SendKeeps
-----------------------------------------------------------------------------
(* The other steps.                                                         *)

(* A step that is a worker's own keeps the invariant if that worker still   *)
(* knows enough.                                                            *)
LEMMA OwnStep ==
    ASSUME BridgeInd, NEW w \in Workers, TablesTyped', WorkerOK(w)',
           \A u \in Workers : u # w => Same(u)
    PROVE  BridgeInd'
<1>1. ASSUME NEW u \in Workers, u # w PROVE WorkerOK(u)'
  BY <1>1, WorkerFrame DEF BridgeInd
<1>. QED BY <1>1 DEF BridgeInd

(* A step that moves the worker on, or answers, and changes nothing else.   *)
LEMMA Moved ==
    ASSUME BridgeInd, NEW w \in Workers, NEW to \in Steps, NEW st \in Statuses,
           pc' = [pc EXCEPT ![w] = to], status' = [status EXCEPT ![w] = st],
           UNCHANGED <<files, req, res, dest, data, gone, did>>, WorkerOK(w)'
    PROVE  BridgeInd'
<1>1. TablesTyped'
  BY DEF BridgeInd, TablesTyped
<1>2. \A u \in Workers : u # w => Same(u)
  BY DEF BridgeInd, TablesTyped, Same
<1>. QED BY <1>1, <1>2, OwnStep

(* An answer that is an error, or a step on the way, needs no more than the *)
(* right method.                                                            *)
LEMMA AnswerKeeps ==
    ASSUME BridgeInd, NEW w \in Workers, NEW st \in Statuses, st # None, pc[w] # "idle",
           pc' = [pc EXCEPT ![w] = "done"], status' = [status EXCEPT ![w] = st],
           UNCHANGED <<files, req, res, dest, data, gone, did>>,
           gone[w] => st = "error", st # "ok"
    PROVE  BridgeInd'
<1>1. pc'[w] = "done" /\ status'[w] = st /\ WorkerOK(w) /\ "done" \in Steps
  BY DEF BridgeInd, TablesTyped, Steps
<1>2. WorkerOK(w)'
  BY <1>1 DEF WorkerOK, MethodFits, GoneFits, ResourceFits, WrittenFirst, BodyFits, Found
<1>. QED BY <1>1, <1>2, Moved

(* A body that is no UTF-8 ends the request.                                *)
LEMMA EndWriteFailsKeeps ==
    ASSUME BridgeInd, NEW w \in Workers, EndWriteFails(w)
    PROVE  BridgeInd'
<1>1. /\ pc[w] # "idle" /\ Answer(w, "error")
      /\ UNCHANGED <<files, req, res, dest, data, gone, did>>
  BY DEF EndWriteFails
<1>. QED BY <1>1, AnswerKeeps, BridgeTyped DEF Answer, Go, Statuses

(* A step on the way.                                                       *)
LEMMA GoKeeps ==
    ASSUME BridgeInd, NEW w \in Workers, NEW to \in Steps \ {"idle", "done"}, pc[w] # "idle",
           pc' = [pc EXCEPT ![w] = to], ~gone[w],
           UNCHANGED <<files, req, res, dest, data, gone, status, did>>,
           MethodFits(w)', ResourceFits(w)', WrittenFirst(w)'
    PROVE  BridgeInd'
<1>1. /\ pc'[w] = to /\ status' = [status EXCEPT ![w] = status[w]] /\ status[w] \in Statuses
      /\ to \in Steps
  BY DEF BridgeInd, TablesTyped
<1>2. WorkerOK(w)'
  BY <1>1 DEF WorkerOK, GoneFits, BodyFits
<1>. QED BY <1>1, <1>2, Moved

(* A request from the menu begins with what the worker has of none.         *)
LEMMA ReceiveKeeps ==
    ASSUME BridgeInd, NEW w \in Workers, Receive(w)
    PROVE  BridgeInd'
<1>1. PICK m \in Menu : req' = [req EXCEPT ![w] = m]
  BY DEF Receive
<1>2. /\ pc[w] = "idle" /\ pc' = [pc EXCEPT ![w] = "resolve"] /\ "resolve" \in Steps
      /\ UNCHANGED <<files, res, dest, data, gone, status, did>>
  BY DEF Receive, Go, Steps, Reading
<1>3. pc'[w] = "resolve" /\ req'[w] = m /\ m # None /\ WorkerOK(w)
  BY <1>1, <1>2, BridgeTyped DEF BridgeInd, TablesTyped
<1>4. WorkerOK(w)'
  BY <1>2, <1>3 DEF WorkerOK, MethodFits, GoneFits, ResourceFits, WrittenFirst, BodyFits, Found, Changing
<1>5. TablesTyped' /\ \A u \in Workers : u # w => Same(u)
  BY <1>1, <1>2 DEF BridgeInd, TablesTyped, Same
<1>. QED BY <1>4, <1>5, OwnStep

(* What GET /file gives of a file is typed.                                 *)
LEMMA ResourceTyped ==
    ASSUME files \in Files, NEW p \in Paths, files[p] # None
    PROVE  /\ Resource(p) \in Resources /\ Resource(p).version = files[p]
           /\ ApiText(p) => Resource(p).content # None
           /\ Resource(p).content # None =>
                 /\ Resource(p).content = AsText[Resource(p).version]
                 /\ Resource(p).size = Resource(p).content
<1>1. files[p] \in Contents /\ AsText[files[p]] \in Contents
  BY BridgeTyped DEF Files
<1>. QED BY <1>1, BridgeTyped DEF Resource, Resources, Marks

(* What is resolved is a version with the text it stands for.               *)
LEMMA ResolveKeeps ==
    ASSUME BridgeInd, NEW w \in Workers, Resolve(w)
    PROVE  BridgeInd'
<1>1. /\ pc[w] = "resolve" /\ WorkerOK(w) /\ ~gone[w]
      /\ UNCHANGED <<files, req, dest, data, gone, did>>
  BY DEF Resolve, BridgeInd, WorkerOK, GoneFits, Changing
<1>2. /\ req[w] \in Menu /\ req[w].path \in Paths
      /\ req[w].method \in {"GET", "PUT", "DELETE", "MOVE", "COPY"}
  BY <1>1, RequestTyped
<1> DEFINE p == req[w].path
<1>3. CASE files[p] = None /\ Go(w, "resolve_dir") /\ UNCHANGED <<res, status>>
  <2>1. pc' = [pc EXCEPT ![w] = "resolve_dir"] /\ "resolve_dir" \in Steps \ {"idle", "done"}
    BY <1>3 DEF Go, Steps, Reading
  <2>2. pc'[w] = "resolve_dir"
    BY <2>1 DEF BridgeInd, TablesTyped
  <2>3. MethodFits(w)' /\ ResourceFits(w)' /\ WrittenFirst(w)'
    BY <1>1, <1>3, <2>2 DEF WorkerOK, MethodFits, ResourceFits, WrittenFirst, Found
  <2>. QED BY <1>1, <1>3, <2>1, <2>3, GoKeeps
<1>4. CASE Unreadable(p) /\ Answer(w, "error") /\ UNCHANGED res
  BY <1>1, <1>4, AnswerKeeps, BridgeTyped DEF Answer, Go, Statuses
<1>5. CASE files[p] # None /\ res' = [res EXCEPT ![w] = Resource(p)]
           /\ Go(w, First(req[w])) /\ UNCHANGED status
  <2>1. /\ pc' = [pc EXCEPT ![w] = First(req[w])]
        /\ First(req[w]) \in Steps \ {"idle", "done"}
    BY <1>2, <1>5 DEF Go, First, Steps, Reading, Changing
  <2>2. /\ pc'[w] = First(req[w]) /\ res'[w] = Resource(p) /\ Resource(p) \in Resources
        /\ Text(p) => Resource(p).content # None
        /\ Resource(p).content # None =>
              /\ Resource(p).content = AsText[Resource(p).version]
              /\ Resource(p).size = Resource(p).content
    BY <1>2, <1>5, <2>1, ResourceTyped DEF BridgeInd, TablesTyped, Text, ApiText
  <2>3. MethodFits(w)'
    BY <1>1, <1>2, <2>2 DEF WorkerOK, MethodFits, First
  <2>4. ResourceFits(w)'
    BY <1>1, <1>2, <2>2 DEF ResourceFits, First
  <2>5. First(req[w]) \in {"delete", "remove"} => req[w].method # "MOVE"
    BY <1>2 DEF First
  <2>6. WorkerOK(w)'
    BY <1>1, <1>5, <2>1, <2>2, <2>3, <2>4, <2>5 DEF WorkerOK, GoneFits, WrittenFirst, BodyFits
  <2>7. TablesTyped' /\ \A u \in Workers : u # w => Same(u)
    BY <1>1, <1>5, <2>1, <2>2 DEF BridgeInd, TablesTyped, Same
  <2>. QED BY <2>6, <2>7, OwnStep
<1>. QED BY <1>3, <1>4, <1>5 DEF Resolve

(* The steps that only look for a file, and begin_write.                    *)
LEMMA LooksKeep ==
    ASSUME BridgeInd, NEW w \in Workers, ResolveDir(w) \/ ResolveDestDir(w) \/ Body(w)
    PROVE  BridgeInd'
<1>1. /\ pc[w] \in {"resolve_dir", "dest_dir", "body"} /\ WorkerOK(w) /\ ~gone[w]
      /\ UNCHANGED <<files, req, res, dest, data, gone, did>>
  BY DEF ResolveDir, ResolveDestDir, Body, BridgeInd, WorkerOK, GoneFits, Changing
<1>2. CASE \E st \in {"collection", "notfound", "error"} : Answer(w, st)
  <2>1. PICK st \in {"collection", "notfound", "error"} : Answer(w, st)
    BY <1>2
  <2>. QED BY <1>1, <2>1, AnswerKeeps, BridgeTyped DEF Answer, Go, Statuses
<1>3. CASE \E to \in {"body", "end_write", "copy_move_single"} : Go(w, to) /\ UNCHANGED status
  <2>1. PICK to \in {"body", "end_write", "copy_move_single"} : Go(w, to) /\ UNCHANGED status
    BY <1>3
  <2>2. pc'[w] = to /\ pc' = [pc EXCEPT ![w] = to] /\ to \in Steps \ {"idle", "done"}
    BY <2>1 DEF Go, BridgeInd, TablesTyped, Steps, Changing
  <2>3. /\ to \in {"body", "end_write"} => req[w].method = "PUT"
        /\ to = "copy_move_single" => pc[w] = "dest_dir"
    BY <1>1, <2>1, <2>2 DEF ResolveDir, ResolveDestDir, Body, Go, Answer, WorkerOK, MethodFits
  <2>4. MethodFits(w)' /\ ResourceFits(w)' /\ WrittenFirst(w)'
    BY <1>1, <2>2, <2>3 DEF WorkerOK, MethodFits, ResourceFits, WrittenFirst, Found
  <2>. QED BY <1>1, <2>1, <2>2, <2>4, GoKeeps
<1>. QED BY <1>2, <1>3 DEF ResolveDir, ResolveDestDir, Body

(* The destination is resolved.                                             *)
LEMMA ResolveDestKeeps ==
    ASSUME BridgeInd, NEW w \in Workers, ResolveDest(w)
    PROVE  BridgeInd'
<1> DEFINE p  == req[w].dest
           to == IF files[p] = None THEN "dest_dir"
                 ELSE IF req[w].method = "MOVE" THEN "delete_dest" ELSE "copy_move_single"
<1>1. /\ pc[w] = "resolve_dest" /\ WorkerOK(w) /\ ~gone[w] /\ to \in Steps
      /\ UNCHANGED <<files, req, res, data, gone, did>>
  BY DEF ResolveDest, BridgeInd, WorkerOK, GoneFits, Changing, Reading, Steps
<1>2. CASE Unreadable(p) /\ Answer(w, "error") /\ UNCHANGED dest
  BY <1>1, <1>2, AnswerKeeps, BridgeTyped DEF Answer, Go, Statuses
<1>3. CASE dest' = [dest EXCEPT ![w] = files[p]] /\ Go(w, to) /\ UNCHANGED status
  <2>1. files[p] \in Marks /\ pc' = [pc EXCEPT ![w] = to] /\ pc'[w] = to
    BY <1>1, <1>3, RequestTyped DEF BridgeInd, TablesTyped, Files, Marks, Go
  <2>2. WorkerOK(w)'
    BY <1>1, <1>3, <2>1 DEF WorkerOK, MethodFits, GoneFits, ResourceFits, WrittenFirst, BodyFits, Found
  <2>3. TablesTyped' /\ \A u \in Workers : u # w => Same(u)
    BY <1>1, <1>3, <2>1 DEF BridgeInd, TablesTyped, Same
  <2>. QED BY <2>2, <2>3, OwnStep
<1>. QED BY <1>2, <1>3 DEF ResolveDest

(* A text is answered as it was resolved.                                   *)
LEMMA GetContentKeeps ==
    ASSUME BridgeInd, NEW w \in Workers, GetContent(w)
    PROVE  BridgeInd'
<1> DEFINE c == IF ~Text(req[w].path) THEN ApiBytes(req[w].path)
                ELSE IF res[w].content # None THEN res[w].content ELSE ApiContent(req[w].path)
           st == IF c = None THEN "error" ELSE "ok"
<1>1. /\ pc[w] = "get_content" /\ WorkerOK(w) /\ ~gone[w] /\ st \in Statuses /\ "done" \in Steps
      /\ pc' = [pc EXCEPT ![w] = "done"] /\ status' = [status EXCEPT ![w] = st]
      /\ data' = [data EXCEPT ![w] = c]
      /\ UNCHANGED <<files, req, res, dest, gone, did>>
  BY DEF GetContent, Answer, Go, BridgeInd, WorkerOK, GoneFits, Changing, Steps, Statuses
<1>2. c \in Marks
  BY <1>1, RequestTyped, BridgeTyped
     DEF BridgeInd, TablesTyped, Files, Marks, Resources, ApiBytes, ApiContent
<1>3. pc'[w] = "done" /\ status'[w] = st /\ data'[w] = c /\ st # None
  BY <1>1, <1>2, BridgeTyped DEF BridgeInd, TablesTyped
<1>4. BodyFits(w)'
  BY <1>1, <1>3 DEF WorkerOK, ResourceFits, BodyFits, Found
<1>5. MethodFits(w)' /\ GoneFits(w)' /\ ResourceFits(w)' /\ WrittenFirst(w)'
  BY <1>1, <1>3 DEF WorkerOK, MethodFits, GoneFits, ResourceFits, WrittenFirst, Found
<1>6. TablesTyped' /\ \A u \in Workers : u # w => Same(u)
  BY <1>1, <1>2 DEF BridgeInd, TablesTyped, Same
<1>. QED BY <1>4, <1>5, <1>6, OwnStep DEF WorkerOK

(* Bytes are fetched, or the request ends.                                  *)
LEMMA FetchBytesKeeps ==
    ASSUME BridgeInd, NEW w \in Workers, FetchBytes(w)
    PROVE  BridgeInd'
<1> DEFINE c  == ApiBytes(req[w].path)
           to == IF c = None THEN "done" ELSE "copy"
<1>1. /\ pc[w] = "copy_move_single" /\ ~Text(req[w].path) /\ WorkerOK(w) /\ to \in Steps
      /\ pc' = [pc EXCEPT ![w] = to] /\ data' = [data EXCEPT ![w] = c]
      /\ UNCHANGED <<files, req, res, dest, gone, did>>
      /\ \/ c = None /\ status' = [status EXCEPT ![w] = "error"]
         \/ c # None /\ status' = status
  BY DEF FetchBytes, Answer, Go, BridgeInd, Changing, Steps
<1>2. c \in Marks /\ "error" \in Statuses
  BY <1>1, RequestTyped DEF BridgeInd, TablesTyped, Files, Marks, ApiBytes, Statuses
<1>3. /\ pc'[w] = to /\ data'[w] = c
      /\ c = None => status'[w] = "error"
      /\ c # None => status'[w] = status[w]
      /\ None # "error"
  BY <1>1, <1>2, BridgeTyped DEF BridgeInd, TablesTyped
<1>4. WorkerOK(w)'
  <2>1. MethodFits(w)' /\ ResourceFits(w)' /\ WrittenFirst(w)' /\ BodyFits(w)'
    BY <1>1, <1>3 DEF WorkerOK, MethodFits, ResourceFits, WrittenFirst, BodyFits, Found
  <2>2. GoneFits(w)'
    BY <1>1, <1>3 DEF WorkerOK, GoneFits, Changing
  <2>. QED BY <2>1, <2>2 DEF WorkerOK
<1>5. TablesTyped' /\ \A u \in Workers : u # w => Same(u)
  BY <1>1, <1>2 DEF BridgeInd, TablesTyped, Same
<1>. QED BY <1>4, <1>5, OwnStep

(* A call fails, or nobody waits for it any more.                           *)
LEMMA CallFailsKeeps ==
    ASSUME BridgeInd, NEW w \in Workers, CallFails(w)
    PROVE  BridgeInd'
<1>1. /\ pc[w] \in Changing \cup Reading /\ ~gone[w] /\ WorkerOK(w) /\ pc[w] # "idle"
      /\ UNCHANGED <<files, req, res, dest, data, did>>
  BY DEF CallFails, BridgeInd, Changing, Reading
<1>2. CASE Answer(w, "error") /\ UNCHANGED gone
  BY <1>1, <1>2, AnswerKeeps, BridgeTyped DEF Answer, Go, Statuses
<1>3. CASE /\ pc[w] \in Changing /\ gone' = [gone EXCEPT ![w] = TRUE]
           /\ status' = [status EXCEPT ![w] = "error"] /\ UNCHANGED pc
  <2>1. gone'[w] = TRUE /\ status'[w] = "error" /\ None # "error" /\ "error" \in Statuses
    BY <1>3, BridgeTyped DEF BridgeInd, TablesTyped, Statuses
  <2>2. pc'[w] = pc[w] /\ pc[w] # "done"
    BY <1>3 DEF Changing
  <2>3. WorkerOK(w)'
    BY <1>1, <1>3, <2>1, <2>2 DEF WorkerOK, MethodFits, GoneFits, ResourceFits, WrittenFirst, BodyFits, Carried, Written
  <2>4. TablesTyped' /\ \A u \in Workers : u # w => Same(u)
    BY <1>1, <1>3, <2>1 DEF BridgeInd, TablesTyped, Same
  <2>. QED BY <2>3, <2>4, OwnStep
<1>. QED BY <1>2, <1>3 DEF CallFails

(* A worker that is done knows nothing any more.                            *)
LEMMA DoneKeeps ==
    ASSUME BridgeInd, NEW w \in Workers, Done(w)
    PROVE  BridgeInd'
<1>1. /\ pc' = [pc EXCEPT ![w] = "idle"] /\ req' = [req EXCEPT ![w] = None]
      /\ res' = [res EXCEPT ![w] = NoResource] /\ dest' = [dest EXCEPT ![w] = None]
      /\ data' = [data EXCEPT ![w] = None] /\ gone' = [gone EXCEPT ![w] = FALSE]
      /\ status' = [status EXCEPT ![w] = None] /\ did' = [did EXCEPT ![w] = << >>]
      /\ UNCHANGED files
  BY DEF Done, Go
<1>2. TablesTyped'
  <2>1. NoResource \in Resources /\ None \in Marks /\ None \in Statuses /\ "idle" \in Steps
        /\ << >> \in Seq(Ops)
    BY DEF NoResource, Resources, Marks, Statuses, Steps
  <2>. QED BY <1>1, <2>1 DEF BridgeInd, TablesTyped
<1>3. \A u \in Workers : u # w => Same(u)
  BY <1>1 DEF BridgeInd, TablesTyped, Same
<1>4. pc'[w] = "idle" /\ req'[w] = None /\ res'[w].content = None /\ gone'[w] = FALSE
  BY <1>1 DEF BridgeInd, TablesTyped, NoResource
<1>5. WorkerOK(w)'
  BY <1>4 DEF WorkerOK, MethodFits, GoneFits, ResourceFits, WrittenFirst, BodyFits, Found
<1>. QED BY <1>2, <1>3, <1>5, OwnStep

(* Other clients change files only, of which no worker claims anything.     *)
LEMMA OtherKeeps ==
    ASSUME BridgeInd, OtherClient \/ UNCHANGED vars
    PROVE  BridgeInd'
<1>1. \A u \in Workers : Same(u)
  BY DEF OtherClient, vars, Same
<1>2. files' \in Files
  BY DEF OtherClient, vars, BridgeInd, TablesTyped, Files
<1>3. TablesTyped'
  BY <1>2 DEF OtherClient, vars, BridgeInd, TablesTyped
<1>. QED BY <1>1, <1>3, WorkerFrame DEF BridgeInd

(* Nobody knows anything at the start.                                      *)
LEMMA BridgeInit == Init => BridgeInd
<1>. SUFFICES ASSUME Init PROVE BridgeInd
  OBVIOUS
<1>1. TablesTyped
  <2>1. NoResource \in Resources /\ None \in Marks /\ None \in Statuses /\ "idle" \in Steps
        /\ << >> \in Seq(Ops)
    BY DEF NoResource, Resources, Marks, Statuses, Steps
  <2>. QED BY <2>1, BridgeTyped DEF Init, TablesTyped
<1>2. ASSUME NEW w \in Workers PROVE WorkerOK(w)
  BY DEF Init, WorkerOK, MethodFits, GoneFits, ResourceFits, WrittenFirst, BodyFits, Found, NoResource
<1>. QED BY <1>1, <1>2 DEF BridgeInd

(* Every step keeps the invariant.                                          *)
LEMMA BridgeNext == BridgeInd /\ [Next]_vars => BridgeInd'
<1>. SUFFICES ASSUME BridgeInd, [Next]_vars PROVE BridgeInd'
  OBVIOUS
<1>1. ASSUME NEW w \in Workers, Step(w) PROVE BridgeInd'
  BY <1>1, ReceiveKeeps, ResolveKeeps, LooksKeep, ResolveDestKeeps, GetContentKeeps, EndWriteKeeps,
     EndWriteFailsKeeps, DeleteKeeps, DeleteDestKeeps, CopyMoveTextKeeps, FetchBytesKeeps, CopyBytesKeeps,
     RemoveSourceKeeps, CallFailsKeeps, DoneKeeps DEF Step
<1>. QED BY <1>1, OtherKeeps DEF Next

(* What every worker knows fits its request and its step.                   *)
THEOREM WorkersKnowEnough == Spec => []BridgeInd
BY BridgeInit, BridgeNext, PTL DEF Spec

(* The types, and texts answered with the body their headers announce.      *)
THEOREM BridgeInvariant == Spec => []BridgeInv
<1>1. BridgeInd => BridgeInv
  <2>. SUFFICES ASSUME BridgeInd PROVE BridgeInv
    OBVIOUS
  <2>1. TypeOK
    BY DEF BridgeInd, TablesTyped, WorkerOK, MethodFits, GoneFits, ResourceFits, TypeOK,
           Steps, Statuses, Resources, Marks
  <2>2. TextBodiesMatch
    BY DEF BridgeInd, WorkerOK, BodyFits, TextBodiesMatch
  <2>. QED BY <2>1, <2>2 DEF BridgeInv
<1>. QED BY <1>1, WorkersKnowEnough, PTL
-----------------------------------------------------------------------------
(* The properties of single steps.                                          *)

(* The steps in which a worker's request changes files.                     *)
Changes(w) ==
    EndWrite(w) \/ Delete(w) \/ DeleteDest(w) \/ CopyMoveText(w) \/ CopyBytes(w) \/ RemoveSource(w)

(* A history that grows is that of the worker whose step it is.             *)
LEMMA WhoChanges ==
    ASSUME BridgeInd, [Next]_vars, NEW w \in Workers, did'[w] # did[w], did'[w] # << >>
    PROVE  Changes(w)
<1>1. ASSUME NEW u \in Workers, Changes(u), u # w PROVE FALSE
  BY <1>1, SendStep DEF Changes, EndWrite, Delete, DeleteDest, CopyMoveText, CopyBytes, RemoveSource, BridgeInd
<1>2. ASSUME NEW u \in Workers, Done(u) PROVE FALSE
  BY <1>2 DEF Done, BridgeInd, TablesTyped
<1>3. ASSUME NEW u \in Workers, Step(u) PROVE Changes(u)
  <2>1. did' # did
    OBVIOUS
  <2>. QED BY <1>2, <1>3, <2>1 DEF Step, Changes, Receive, Resolve, ResolveDir, ResolveDest, ResolveDestDir,
        GetContent, Body, EndWriteFails, FetchBytes, CallFails
<1>. QED BY <1>1, <1>3 DEF Next, OtherClient, vars

(* The operation of a step that sends one, and how it is sent.              *)
Sends(w, op, tolerated, to) == op \in Ops /\ Send(w, <<op>>, tolerated, to)

(* The operations of the steps that send one.                               *)
PutOp(w)      == Op(req[w].path, req[w].body, res[w].version, As(req[w].path))
DropOp(w)     == Op(req[w].path, None, res[w].version, "delete")
DropDestOp(w) == Op(req[w].dest, None, dest[w], "delete")

(* end_write sends the body, with the version that was resolved.            *)
LEMMA EndWriteSends ==
    ASSUME BridgeInd, NEW w \in Workers, EndWrite(w)
    PROVE  /\ pc[w] = "end_write" /\ req[w].method = "PUT" /\ Sends(w, PutOp(w), {}, "done")
           /\ PutOp(w).path = req[w].path /\ PutOp(w).content = req[w].body
           /\ PutOp(w).version = res[w].version
<1>1. pc[w] = "end_write" /\ Send(w, <<PutOp(w)>>, {}, "done") /\ WorkerOK(w)
  BY DEF EndWrite, PutOp, BridgeInd
<1>2. req[w].path \in Paths /\ req[w].body \in Marks /\ res[w].version \in Marks
      /\ As(req[w].path) \in {"text", "upload", "delete"}
  BY <1>1, RequestTyped DEF BridgeInd, TablesTyped, Resources, Marks, As
<1>3. /\ PutOp(w) \in Ops /\ PutOp(w).path = req[w].path /\ PutOp(w).content = req[w].body
      /\ PutOp(w).version = res[w].version
  BY <1>2, OpTyped DEF PutOp
<1>4. req[w].method = "PUT"
  BY <1>1 DEF WorkerOK, MethodFits
<1>. QED BY <1>1, <1>3, <1>4 DEF Sends

(* So do the removals of the file the request is about ...                  *)
LEMMA DropSends ==
    ASSUME BridgeInd, NEW w \in Workers, Delete(w) \/ RemoveSource(w)
    PROVE  /\ Delete(w) => /\ pc[w] = "delete" /\ req[w].method \in {"DELETE", "MOVE"}
                           /\ Sends(w, DropOp(w), {"notfound"}, "done")
           /\ RemoveSource(w) => /\ pc[w] = "remove" /\ req[w].method = "MOVE"
                                 /\ Sends(w, DropOp(w), {}, "delete")
           /\ DropOp(w).path = req[w].path /\ DropOp(w).content = None
           /\ DropOp(w).version = res[w].version
<1>1. /\ Delete(w) => pc[w] = "delete" /\ Send(w, <<DropOp(w)>>, {"notfound"}, "done")
      /\ RemoveSource(w) => pc[w] = "remove" /\ Send(w, <<DropOp(w)>>, {}, "delete")
      /\ WorkerOK(w) /\ pc[w] # "idle"
  BY DEF Delete, RemoveSource, DropOp, BridgeInd
<1>2. req[w].path \in Paths /\ res[w].version \in Marks /\ None \in Marks
  BY <1>1, RequestTyped DEF BridgeInd, TablesTyped, Resources, Marks
<1>3. /\ DropOp(w) \in Ops /\ DropOp(w).path = req[w].path /\ DropOp(w).content = None
      /\ DropOp(w).version = res[w].version
  BY <1>2, OpTyped DEF DropOp
<1>4. /\ Delete(w) => req[w].method \in {"DELETE", "MOVE"}
      /\ RemoveSource(w) => req[w].method = "MOVE"
  BY <1>1 DEF WorkerOK, MethodFits
<1>. QED BY <1>1, <1>3, <1>4 DEF Sends

(* ... and of the destination of a move.                                    *)
LEMMA DeleteDestSends ==
    ASSUME BridgeInd, NEW w \in Workers, DeleteDest(w)
    PROVE  /\ pc[w] = "delete_dest" /\ req[w].method = "MOVE" /\ req[w].dest # req[w].path
           /\ Sends(w, DropDestOp(w), {"notfound"}, "copy_move_single")
           /\ DropDestOp(w).path = req[w].dest /\ DropDestOp(w).content = None
           /\ DropDestOp(w).version = dest[w]
<1>1. /\ pc[w] = "delete_dest" /\ WorkerOK(w)
      /\ Send(w, <<DropDestOp(w)>>, {"notfound"}, "copy_move_single")
  BY DEF DeleteDest, DropDestOp, BridgeInd
<1>2. req[w].method = "MOVE"
  BY <1>1 DEF WorkerOK, MethodFits
<1>3. req[w].dest \in Paths /\ req[w].dest # req[w].path /\ dest[w] \in Marks /\ None \in Marks
  BY <1>1, <1>2, RequestTyped DEF BridgeInd, TablesTyped, Marks
<1>4. /\ DropDestOp(w) \in Ops /\ DropDestOp(w).path = req[w].dest
      /\ DropDestOp(w).content = None /\ DropDestOp(w).version = dest[w]
  BY <1>3, OpTyped DEF DropDestOp
<1>. QED BY <1>1, <1>2, <1>3, <1>4 DEF Sends

(* What one operation does to the files.                                    *)
LEMMA SentAlone ==
    ASSUME TablesTyped, NEW w \in Workers, NEW op, NEW tolerated, NEW to,
           Sends(w, op, tolerated, to)
    PROVE  /\ Told(w, OpVerdict(op), tolerated, to)
           /\ UNCHANGED <<req, res, dest, data, gone>>
           /\ \/ /\ OpVerdict(op) = "ok" /\ op.version = files[op.path]
                 /\ \A p \in Paths : files'[p] = IF p = op.path THEN op.content ELSE files[p]
                 /\ did'[w] = did[w] \o <<op>> /\ <<op>> \in Seq(Ops)
              \/ OpVerdict(op) # "ok" /\ files' = files /\ did'[w] = did[w]
<1>1. <<op>> \in Seq(Ops) /\ Send(w, <<op>>, tolerated, to)
  BY DEF Sends
<1>2. Verdict(<<op>>) = OpVerdict(op)
  BY BatchOfOne
<1>3. Told(w, OpVerdict(op), tolerated, to) /\ Effect(w, OpVerdict(op), <<op>>)
      /\ UNCHANGED <<req, res, dest, data, gone>>
  BY <1>1, <1>2, SendStep
<1>. QED BY <1>1, <1>3, AcceptedSawIt, BatchOfOne DEF Effect

(* It changes the file it names, if that is as it says.                     *)
LEMMA ReplacesWhatItNames ==
    ASSUME TablesTyped, NEW w \in Workers, NEW op, NEW tolerated, NEW to,
           Sends(w, op, tolerated, to), NEW p \in Paths, files'[p] # files[p]
    PROVE  p = op.path /\ files[p] = op.version
<1>1. Send(w, <<op>>, tolerated, to) /\ Verdict(<<op>>) = OpVerdict(op)
  BY BatchOfOne DEF Sends
<1>2. Effect(w, OpVerdict(op), <<op>>)
  BY <1>1, SendStep
<1>3. OpVerdict(op) = "ok" /\ files' = Applied(<<op>>)
  BY <1>2 DEF Effect
<1>. QED BY <1>3, BatchOfOne, AcceptedSawIt

(* What the two operations of a moved text do, in one commit.               *)
LEMMA TextMoved ==
    ASSUME BridgeInd, NEW w \in Workers, CopyMoveText(w), req[w].method = "MOVE", did'[w] # did[w]
    PROVE  /\ files[req[w].dest] = None /\ files[req[w].path] = res[w].version
           /\ \A p \in Paths : files'[p] = IF p = req[w].dest THEN res[w].content
                                           ELSE IF p = req[w].path THEN None ELSE files[p]
           /\ res[w].content \in Written(w, did'[w])
<1> DEFINE a == TextWrite(w)
           b == TextDrop(w)
<1>1. /\ a.path = req[w].dest /\ b.path = req[w].path /\ a.path # b.path
      /\ a.content = res[w].content /\ b.content = None
      /\ a.version = None /\ b.version = res[w].version
      /\ a \in Ops /\ b \in Ops /\ Send(w, <<a, b>>, {}, "delete")
      /\ res[w].content # None
  <2> HIDE DEF a, b
  <2>. QED BY TextOps DEF a, b
<1>2. Effect(w, Verdict(<<a, b>>), <<a, b>>) /\ UNCHANGED req
  BY <1>1, SendStep DEF BridgeInd
<1>3. Verdict(<<a, b>>) = "ok" /\ files' = Applied(<<a, b>>) /\ did'[w] = did[w] \o <<a, b>>
  BY <1>2 DEF Effect
<1>4. a.version = files[a.path] /\ b.version = files[b.path]
  BY <1>1, <1>3, BatchOfTwo, AcceptedSawIt
<1>5. res[w].content \in Written(w, <<a, b>>)
  BY <1>1, WrittenByBatch
<1>6. <<a, b>> \in Seq(Ops) /\ did[w] \in Seq(Ops)
  BY <1>1 DEF BridgeInd, TablesTyped
<1>7. res[w].content \in Written(w, did'[w])
  BY <1>3, <1>5, <1>6, WrittenGrows
<1>8. \A p \in Paths : Applied(<<a, b>>)[p] =
         IF p = a.path THEN a.content ELSE IF p = b.path THEN b.content ELSE files[p]
  BY <1>1, BatchOfTwo
<1> HIDE DEF a, b
<1>. QED BY <1>1, <1>3, <1>4, <1>7, <1>8

(* A text copied, and bytes written, are one operation to a new file.       *)
LEMMA CopyIsOne ==
    ASSUME BridgeInd, NEW w \in Workers,
           (CopyMoveText(w) /\ req[w].method # "MOVE") \/ CopyBytes(w)
    PROVE  /\ req[w].method \in {"MOVE", "COPY"} /\ req[w].dest # req[w].path
           /\ \E op, to : /\ Sends(w, op, {}, to) /\ op.path = req[w].dest /\ op.version = None
                          /\ op.content = Carried(w) /\ op.content # None
                          /\ to = "done" <=> req[w].method = "COPY"
<1>1. CASE CopyMoveText(w) /\ req[w].method # "MOVE"
  <2>1. Sends(w, TextWrite(w), {}, "done")
    BY <1>1, TextOps DEF Sends
  <2>. QED BY <1>1, <2>1, TextOps DEF Carried
<1>2. CASE CopyBytes(w)
  <2>1. Sends(w, BytesWrite(w), {}, BytesNext(w))
    BY <1>2, BytesOps DEF Sends
  <2>2. BytesNext(w) = "done" <=> req[w].method = "COPY"
    BY <1>2, BytesOps DEF BytesNext
  <2>. QED BY <1>2, <2>1, <2>2, BytesOps DEF Carried
<1>. QED BY <1>1, <1>2

(* Nothing is replaced or removed unseen.                                   *)
THEOREM NothingUnseenIsLost == Spec => OnlyWhatWasSeen
<1>1. BridgeInd /\ [Next]_vars =>
         [\A w \in Workers, p \in Paths :
            did'[w] # did[w] /\ did'[w] # << >> /\ files'[p] # files[p] /\ files[p] # None =>
               files[p] = IF p = req[w].path THEN res[w].version ELSE dest[w]]_vars
  <2> SUFFICES ASSUME BridgeInd, [Next]_vars, NEW w \in Workers, NEW p \in Paths,
                      did'[w] # did[w], did'[w] # << >>, files'[p] # files[p], files[p] # None
               PROVE  files[p] = IF p = req[w].path THEN res[w].version ELSE dest[w]
    OBVIOUS
  <2>1. Changes(w)
    BY WhoChanges
  <2> TablesTyped
    BY DEF BridgeInd
  <2>2. CASE EndWrite(w)
    <3>1. /\ Sends(w, PutOp(w), {}, "done") /\ PutOp(w).path = req[w].path
          /\ PutOp(w).version = res[w].version
      BY <2>2, EndWriteSends
    <3>. QED BY <3>1, ReplacesWhatItNames
  <2>3. CASE Delete(w) \/ RemoveSource(w)
    <3>1. /\ \/ Sends(w, DropOp(w), {"notfound"}, "done")
             \/ Sends(w, DropOp(w), {}, "delete")
          /\ DropOp(w).path = req[w].path /\ DropOp(w).version = res[w].version
      BY <2>3, DropSends
    <3>. QED BY <3>1, ReplacesWhatItNames
  <2>4. CASE DeleteDest(w)
    <3>1. /\ Sends(w, DropDestOp(w), {"notfound"}, "copy_move_single")
          /\ DropDestOp(w).path = req[w].dest /\ DropDestOp(w).version = dest[w]
          /\ req[w].dest # req[w].path
      BY <2>4, DeleteDestSends
    <3>. QED BY <3>1, ReplacesWhatItNames
  <2>5. CASE CopyMoveText(w) /\ req[w].method = "MOVE"
    BY <2>5, TextMoved
  <2>6. CASE (CopyMoveText(w) /\ req[w].method # "MOVE") \/ CopyBytes(w)
    <3>1. PICK op, to : /\ Sends(w, op, {}, to) /\ op.path = req[w].dest /\ op.version = None
      BY <2>6, CopyIsOne
    <3>. QED BY <3>1, ReplacesWhatItNames
  <2>. QED BY <2>1, <2>2, <2>3, <2>4, <2>5, <2>6 DEF Changes
<1>. QED BY <1>1, WorkersKnowEnough, PTL DEF Spec, OnlyWhatWasSeen

(* Whatever fails in between, a moved file is in one place at least.        *)
THEOREM MovesLoseNothing == Spec => MovesWriteBeforeTheyRemove
<1>1. BridgeInd /\ [Next]_vars =>
         [\A w \in Workers :
            did'[w] # did[w] /\ did'[w] # << >> /\ req[w].method = "MOVE" =>
               LET p == req[w].path
               IN  files[p] # None /\ files'[p] = None =>
                     Written(w, did'[w]) # {} /\ (Text(p) => AsText[files[p]] \in Written(w, did'[w]))]_vars
  <2> SUFFICES ASSUME BridgeInd, [Next]_vars, NEW w \in Workers,
                      did'[w] # did[w], did'[w] # << >>, req[w].method = "MOVE",
                      files[req[w].path] # None, files'[req[w].path] = None
               PROVE  /\ Written(w, did'[w]) # {}
                      /\ Text(req[w].path) => AsText[files[req[w].path]] \in Written(w, did'[w])
    OBVIOUS
  <2>1. Changes(w)
    BY WhoChanges
  <2>2. WorkerOK(w) /\ did[w] \in Seq(Ops) /\ TablesTyped
    BY DEF BridgeInd, TablesTyped
  <2>3. pc[w] # "idle" /\ req[w].path \in Paths
    <3>1. pc[w] # "idle"
      BY <2>1 DEF Changes, EndWrite, Delete, DeleteDest, CopyMoveText, CopyBytes, RemoveSource
    <3>. QED BY <3>1, RequestTyped
  <2>4. CASE Delete(w) \/ RemoveSource(w)
    <3>1. pc[w] \in {"delete", "remove"}
      BY <2>4 DEF Delete, RemoveSource
    <3>2. Carried(w) \in Written(w, did[w])
      BY <2>2, <3>1 DEF WorkerOK, WrittenFirst
    <3>0. Sends(w, DropOp(w), {"notfound"}, "done") \/ Sends(w, DropOp(w), {}, "delete")
      BY <2>4, DropSends
    <3>3. /\ did'[w] = did[w] \o <<DropOp(w)>> /\ <<DropOp(w)>> \in Seq(Ops)
          /\ files[req[w].path] = res[w].version
      BY <2>2, <2>4, <3>0, DropSends, SentAlone
    <3>4. Carried(w) \in Written(w, did'[w])
      BY <2>2, <3>2, <3>3, WrittenGrows
    <3>5. Text(req[w].path) => Carried(w) = AsText[res[w].version]
      BY <2>2, <3>1 DEF WorkerOK, ResourceFits, Carried, Found
    <3>. QED BY <3>3, <3>4, <3>5
  <2>5. CASE CopyMoveText(w)
    <3>1. files[req[w].path] = res[w].version /\ res[w].content \in Written(w, did'[w])
      BY <2>5, TextMoved
    <3>2. res[w].content = AsText[res[w].version]
      BY <2>2, <2>5, TextOps DEF WorkerOK, ResourceFits
    <3>. QED BY <3>1, <3>2
  <2>6. CASE EndWrite(w)
    BY <2>6, EndWriteSends
  <2>7. CASE DeleteDest(w)
    <3>1. /\ Sends(w, DropDestOp(w), {"notfound"}, "copy_move_single")
          /\ DropDestOp(w).path = req[w].dest /\ req[w].dest # req[w].path
      BY <2>7, DeleteDestSends
    <3>. QED BY <2>2, <2>3, <3>1, ReplacesWhatItNames
  <2>8. CASE CopyBytes(w)
    <3>1. PICK op, to : /\ Sends(w, op, {}, to) /\ op.path = req[w].dest
                        /\ req[w].dest # req[w].path
      BY <2>8, CopyIsOne
    <3>. QED BY <2>2, <2>3, <3>1, SentAlone
  <2>. QED BY <2>1, <2>4, <2>5, <2>6, <2>7, <2>8 DEF Changes
<1>. QED BY <1>1, WorkersKnowEnough, PTL DEF Spec, MovesWriteBeforeTheyRemove
(* The steps in which a request is answered with success.                   *)
LEMMA WhoAnswersOk ==
    ASSUME BridgeInd, [Next]_vars, NEW w \in Workers, status[w] = None, status'[w] = "ok"
    PROVE  Changes(w) \/ GetContent(w)
<1>1. status \in [Workers -> Statuses] /\ None # "ok"
  BY BridgeTyped DEF BridgeInd, TablesTyped
<1>2. ASSUME NEW u \in Workers, Step(u), u # w PROVE FALSE
  <2>1. ~Changes(u)
    BY <1>1, <1>2, SendStep DEF Changes, EndWrite, Delete, DeleteDest, CopyMoveText, CopyBytes,
       RemoveSource, BridgeInd
  <2>. QED BY <1>1, <1>2, <2>1 DEF Step, Changes, Receive, Resolve, ResolveDir, ResolveDest,
       ResolveDestDir, GetContent, Body, EndWriteFails, FetchBytes, CallFails, Done, Answer
<1>3. ASSUME Step(w) PROVE Changes(w) \/ GetContent(w)
  BY <1>1, <1>3 DEF Step, Changes, Receive, Resolve, ResolveDir, ResolveDest,
     ResolveDestDir, Body, EndWriteFails, FetchBytes, CallFails, Done, Answer
<1>. QED BY <1>1, <1>2, <1>3 DEF Next, OtherClient, vars

(* A worker that is told of success has sent its last call.                 *)
LEMMA ToldOk ==
    ASSUME NEW w, NEW v, NEW tolerated, NEW to, Told(w, v, tolerated, to),
           status[w] # "ok", status'[w] = "ok"
    PROVE  to = "done" /\ v \in {"ok"} \cup tolerated
BY DEF Told

(* So has one that sent a single operation, which was accepted, or refused  *)
(* for a reason that is tolerated.                                          *)
LEMMA SentOk ==
    ASSUME TablesTyped, NEW w \in Workers, NEW op, NEW tolerated, NEW to,
           Sends(w, op, tolerated, to), status[w] # "ok", status'[w] = "ok"
    PROVE  to = "done" /\ OpVerdict(op) \in {"ok"} \cup tolerated
<1>1. Told(w, OpVerdict(op), tolerated, to)
  BY SentAlone
<1>. QED BY <1>1, ToldOk

(* What is answered with success has happened.                              *)
THEOREM SuccessIsReal == Spec => OkMeansDone
<1>1. BridgeInd /\ [Next]_vars =>
         [\A w \in Workers :
            status[w] = None /\ status'[w] = "ok" =>
               LET m == req[w]
               IN  /\ m.method \in {"DELETE", "MOVE"} => files'[m.path] = None
                   /\ m.method = "PUT" => files'[m.path] = m.body
                   /\ m.method \in {"MOVE", "COPY"} =>
                         (IF Text(m.path) THEN res[w].content ELSE data[w]) \in Written(w, did'[w])]_vars
  <2> SUFFICES ASSUME BridgeInd, [Next]_vars, NEW w \in Workers, status[w] = None, status'[w] = "ok"
               PROVE  /\ req[w].method \in {"DELETE", "MOVE"} => files'[req[w].path] = None
                      /\ req[w].method = "PUT" => files'[req[w].path] = req[w].body
                      /\ req[w].method \in {"MOVE", "COPY"} => Carried(w) \in Written(w, did'[w])
    BY DEF Carried
  <2>1. Changes(w) \/ GetContent(w)
    BY WhoAnswersOk
  <2>2. WorkerOK(w) /\ did[w] \in Seq(Ops) /\ TablesTyped /\ status[w] # "ok"
    BY BridgeTyped DEF BridgeInd, TablesTyped
  <2>3. pc[w] # "idle" /\ req[w].path \in Paths
    <3>1. pc[w] # "idle"
      BY <2>1 DEF Changes, EndWrite, Delete, DeleteDest, CopyMoveText, CopyBytes, RemoveSource, GetContent
    <3>. QED BY <3>1, RequestTyped
  <2>4. CASE GetContent(w)
    BY <2>2, <2>4 DEF GetContent, WorkerOK, MethodFits
  <2>5. CASE EndWrite(w)
    <3>1. Sends(w, PutOp(w), {}, "done") /\ req[w].method = "PUT"
      BY <2>5, EndWriteSends
    <3>2. OpVerdict(PutOp(w)) = "ok"
      BY <2>2, <3>1, SentOk
    <3>. QED BY <2>2, <2>3, <2>5, <3>1, <3>2, EndWriteSends, SentAlone
  <2>6. CASE Delete(w)
    <3>1. Sends(w, DropOp(w), {"notfound"}, "done") /\ pc[w] = "delete"
          /\ DropOp(w).path = req[w].path /\ DropOp(w).content = None
          /\ req[w].method \in {"DELETE", "MOVE"}
      BY <2>6, DropSends
    <3>2. OpVerdict(DropOp(w)) \in {"ok", "notfound"}
      BY <2>2, <3>1, SentOk
    <3>3. OpVerdict(DropOp(w)) = "notfound" => files[req[w].path] = None
      BY <3>1 DEF OpVerdict
    <3>4. files'[req[w].path] = None
      BY <2>2, <2>3, <3>1, <3>2, <3>3, SentAlone
    <3>5. req[w].method = "MOVE" => Carried(w) \in Written(w, did[w])
      BY <2>2, <3>1 DEF WorkerOK, WrittenFirst
    <3>6. Written(w, did[w]) \subseteq Written(w, did'[w])
      BY <2>2, <3>1, SentAlone, WrittenGrows
    <3>. QED BY <3>1, <3>4, <3>5, <3>6
  <2>7. CASE DeleteDest(w)
    <3>1. Sends(w, DropDestOp(w), {"notfound"}, "copy_move_single")
      BY <2>7, DeleteDestSends
    <3>2. "copy_move_single" = "done"
      BY <2>2, <3>1, SentOk
    <3>. QED BY <3>2
  <2>8. CASE RemoveSource(w)
    <3>1. Sends(w, DropOp(w), {}, "delete")
      BY <2>8, DropSends
    <3>2. "delete" = "done"
      BY <2>2, <3>1, SentOk
    <3>. QED BY <3>2
  <2>9. CASE CopyMoveText(w) /\ req[w].method = "MOVE"
    <3>1. Send(w, <<TextWrite(w), TextDrop(w)>>, {}, "delete")
      BY <2>9, TextOps
    <3>2. "delete" = "done"
      BY <2>2, <3>1, SendStep, ToldOk
    <3>. QED BY <3>2
  <2>10. CASE (CopyMoveText(w) /\ req[w].method # "MOVE") \/ CopyBytes(w)
    <3>1. PICK op, to : /\ Sends(w, op, {}, to) /\ op.path = req[w].dest
                        /\ op.content = Carried(w) /\ op.content # None
                        /\ to = "done" <=> req[w].method = "COPY"
                        /\ req[w].method \in {"MOVE", "COPY"}
      BY <2>10, CopyIsOne
    <3>2. OpVerdict(op) = "ok" /\ to = "done"
      BY <2>2, <3>1, SentOk
    <3>3. did'[w] = did[w] \o <<op>> /\ <<op>> \in Seq(Ops)
      BY <2>2, <3>1, <3>2, SentAlone
    <3>4. Carried(w) \in Written(w, <<op>>)
      BY <3>1, WrittenByBatch
    <3>5. Carried(w) \in Written(w, did'[w])
      BY <2>2, <3>3, <3>4, WrittenGrows
    <3>. QED BY <3>1, <3>2, <3>5
  <2>. QED BY <2>1, <2>4, <2>5, <2>6, <2>7, <2>8, <2>9, <2>10 DEF Changes
<1>. QED BY <1>1, WorkersKnowEnough, PTL DEF Spec, OkMeansDone
=============================================================================
