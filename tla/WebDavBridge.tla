---------------------------- MODULE WebDavBridge ----------------------------
(***************************************************************************)
(* The WebDAV bridge: one DAV request is several calls of the Agent-API,   *)
(* and between them other requests and other clients of the API change the *)
(* same files (dav_provider.py, agent_api_client.py).  Each call is atomic *)
(* here, as GitStorage shows; the version of a file is the hash of its     *)
(* bytes, so bytes that return bring their version back.  The API serves a *)
(* text with line ends of its own, which the version knows nothing of.     *)
(***************************************************************************)
EXTENDS Naturals, Sequences, FiniteSets

CONSTANTS
    Workers,      \* threads of the bridge, each with at most one request
    TextPaths,    \* paths of the kinds the API takes for texts
    SkillPaths,   \* those of them the bridge takes for binary files: *.skill
    BinaryPaths,  \* the other paths
    Contents, None,
    AsText,       \* per content: the same as a text, its line ends all \n (read_text)
    NotUtf8,      \* the contents that are no UTF-8
    Initial,      \* the files at start
    Menu,         \* the DAV requests
    MaxRequests,  \* bound: DAV requests in one behaviour
    MaxChanges,   \* bound: changes other clients make
    Faults        \* {"api"} or {}

Paths == TextPaths \cup BinaryPaths
Files == [Paths -> Contents \cup {None}]

ASSUME BridgeTyped ==
    /\ TextPaths \cap BinaryPaths = {} /\ SkillPaths \subseteq TextPaths /\ Initial \in Files
    /\ None \notin Contents /\ None \notin Menu
    /\ AsText \in [Contents -> Contents] /\ NotUtf8 \subseteq Contents
    /\ None \notin {"ok", "conflict", "notfound", "collection", "error"}
    /\ \A m \in Menu : /\ m.method \in {"GET", "PUT", "DELETE", "MOVE", "COPY"}
                       /\ m.path \in Paths /\ m.dest \in Paths /\ m.body \in Contents
                       /\ m.method \in {"MOVE", "COPY"} => m.path # m.dest
    /\ {MaxRequests, MaxChanges} \subseteq Nat /\ Faults \subseteq {"api"}

VARIABLES
    files,    \* the bytes of the files: [Paths -> content, None: absent]
    pc,       \* per worker: the method of the provider it is in
    req,      \* per worker: its DAV request
    res,      \* per worker: the AgentApiFileResource of the request's path
    dest,     \* per worker: the version of the destination when it was resolved
    data,     \* per worker: the bytes read by get_file_content
    gone,     \* per worker: nobody waits for the API call it is in any more
    status,   \* per worker: the answer to its request
    did,      \* history, per worker: the changes its request has made, in order
    issued, changes

vars == <<files, pc, req, res, dest, data, gone, status, did, issued, changes>>

(* classify_kind of the bridge, which does not know the kind skill, and the *)
(* API's.                                                                   *)
Text(p)    == p \in TextPaths \ SkillPaths
ApiText(p) == p \in TextPaths

NoResource == [version |-> None, content |-> None, size |-> None]

-----------------------------------------------------------------------------
(* The API                                                                  *)

(* A text is decoded strictly wherever it is read on its own.               *)
Unreadable(p) == ApiText(p) /\ files[p] \in NotUtf8

(* What GET /file gives of the file: its version, a text with its content,  *)
(* and the size of what it gives, which is the content's for a text and the *)
(* bytes' for any other file.                                               *)
Resource(p) ==
    LET text == AsText[files[p]]
    IN  [version |-> files[p], content |-> IF ApiText(p) THEN text ELSE None,
         size |-> IF ApiText(p) THEN text ELSE files[p]]

(* An operation of a batch, or an upload or delete on its own.  A content   *)
(* of None deletes.                                                         *)
Op(p, c, v, as) == [path |-> p, content |-> c, version |-> v, as |-> as]

OpVerdict(op) ==
    IF op.content # None /\ (ApiText(op.path) <=> op.as = "upload") THEN "invalid"
    ELSE IF Unreadable(op.path) THEN "broken"
    ELSE IF op.content = None /\ files[op.path] = None THEN "notfound"
    ELSE IF op.version = files[op.path] THEN "ok"
    ELSE IF op.version = None THEN "invalid" ELSE "conflict"

Verdict(batch) ==
    LET bad == {i \in 1 .. Len(batch) : OpVerdict(batch[i]) # "ok"}
    IN  IF bad = {} THEN "ok"
        ELSE OpVerdict(batch[CHOOSE i \in bad : \A j \in bad : i <= j])

(* The paths of a batch differ.                                             *)
Applied(batch) ==
    [p \in Paths |-> IF \E i \in 1 .. Len(batch) : batch[i].path = p
                     THEN batch[CHOOSE i \in 1 .. Len(batch) : batch[i].path = p].content
                     ELSE files[p]]

-----------------------------------------------------------------------------
(* _to_dav_error; what it is not called for is an error all the same.       *)
DavStatus(verdict) == IF verdict = "conflict" THEN "conflict" ELSE "error"

Go(w, to)      == pc' = [pc EXCEPT ![w] = to]
Answer(w, st)  == status' = [status EXCEPT ![w] = st] /\ Go(w, "done")

(* The worker sends a batch to the API.  Verdicts in `tolerated` count as   *)
(* success; `to` is where a success leads, "done" answering the request.    *)
Send(w, batch, tolerated, to) ==
    LET v == Verdict(batch)
    IN  /\ IF v = "ok"
           THEN /\ files' = Applied(batch)
                /\ did' = [did EXCEPT ![w] = @ \o batch]
           ELSE UNCHANGED <<files, did>>
        /\ IF gone[w] THEN Go(w, "done") /\ UNCHANGED status
           ELSE IF v \notin {"ok"} \cup tolerated THEN Answer(w, DavStatus(v))
           ELSE IF to = "done" THEN Answer(w, "ok")
           ELSE Go(w, to) /\ UNCHANGED status
        /\ UNCHANGED <<req, res, dest, data, gone, issued, changes>>

-----------------------------------------------------------------------------
Init ==
    /\ files = Initial
    /\ pc = [w \in Workers |-> "idle"]
    /\ req = [w \in Workers |-> None]
    /\ res = [w \in Workers |-> NoResource]
    /\ dest = [w \in Workers |-> None]
    /\ data = [w \in Workers |-> None]
    /\ gone = [w \in Workers |-> FALSE]
    /\ status = [w \in Workers |-> None]
    /\ did = [w \in Workers |-> << >>]
    /\ issued = 0 /\ changes = 0

Receive(w) ==
    /\ pc[w] = "idle" /\ issued < MaxRequests
    /\ \E m \in Menu : req' = [req EXCEPT ![w] = m]
    /\ Go(w, "resolve")
    /\ issued' = issued + 1
    /\ UNCHANGED <<files, res, dest, data, gone, status, did, changes>>

(* What wsgidav calls for a request whose resource is there.                *)
First(m) ==
    CASE m.method = "GET" -> "get_content"
      [] m.method = "PUT" -> "body"
      [] m.method = "DELETE" -> "delete"
      [] OTHER -> "resolve_dest"

(* Mutant: the size is that of the bytes on disk.                           *)
ResolveRawSize(w) ==
    LET p == req[w].path
    IN  /\ pc[w] = "resolve"
        /\ \/ files[p] = None /\ Go(w, "resolve_dir") /\ UNCHANGED <<res, status>>
           \/ Unreadable(p) /\ Answer(w, "error") /\ UNCHANGED res
           \/ /\ files[p] # None /\ ~Unreadable(p)
              /\ res' = [res EXCEPT ![w] = [Resource(p) EXCEPT !.size = files[p]]]
              /\ Go(w, First(req[w])) /\ UNCHANGED status
        /\ UNCHANGED <<files, req, dest, data, gone, did, issued, changes>>

(* get_resource_inst: GET /file gives version and content of one commit.    *)
(* What is no 404 and no 403 goes to wsgidav, which answers 500.            *)
Resolve(w) ==
    LET p == req[w].path
    IN  /\ pc[w] = "resolve"
        /\ \/ files[p] = None /\ Go(w, "resolve_dir") /\ UNCHANGED <<res, status>>
           \/ Unreadable(p) /\ Answer(w, "error") /\ UNCHANGED res
           \/ /\ files[p] # None /\ ~Unreadable(p)
              /\ res' = [res EXCEPT ![w] = Resource(p)]
              /\ Go(w, First(req[w])) /\ UNCHANGED status
        /\ UNCHANGED <<files, req, dest, data, gone, did, issued, changes>>

(* There was no such file; a directory is looked for with GET /tree, which  *)
(* also answers for a file that has come to be.  A PUT creates the resource *)
(* (create_empty_resource).                                                 *)
ResolveDir(w) ==
    /\ pc[w] = "resolve_dir"
    /\ IF files[req[w].path] # None THEN Answer(w, "collection")
       ELSE IF req[w].method = "PUT" THEN Go(w, "body") /\ UNCHANGED status
       ELSE Answer(w, "notfound")
    /\ UNCHANGED <<files, req, res, dest, data, gone, did, issued, changes>>

(* wsgidav resolves the destination the same way, and a MOVE first deletes  *)
(* what is there; get_file again, and then GET /tree.                       *)
ResolveDest(w) ==
    LET p == req[w].dest
    IN  /\ pc[w] = "resolve_dest"
        /\ \/ Unreadable(p) /\ Answer(w, "error") /\ UNCHANGED dest
           \/ /\ ~Unreadable(p)
              /\ dest' = [dest EXCEPT ![w] = files[p]]
              /\ Go(w, IF files[p] = None THEN "dest_dir"
                       ELSE IF req[w].method = "MOVE" THEN "delete_dest" ELSE "copy_move_single")
              /\ UNCHANGED status
        /\ UNCHANGED <<files, req, res, data, gone, did, issued, changes>>

ResolveDestDir(w) ==
    /\ pc[w] = "dest_dir"
    /\ IF files[req[w].dest] # None THEN Answer(w, "collection")
       ELSE Go(w, "copy_move_single") /\ UNCHANGED status
    /\ UNCHANGED <<files, req, res, dest, data, gone, did, issued, changes>>

(* GET /file/{path}/content is for files that are no texts, the content in  *)
(* GET /file/{path} for those that are.                                     *)
ApiBytes(p) == IF ApiText(p) THEN None ELSE files[p]
ApiContent(p) == IF files[p] = None \/ Unreadable(p) THEN None ELSE AsText[files[p]]

(* get_content: a text is there already, bytes are fetched now.             *)
GetContent(w) ==
    LET p == req[w].path
        c == IF ~Text(p) THEN ApiBytes(p)
             ELSE IF res[w].content # None THEN res[w].content ELSE ApiContent(p)
    IN  /\ pc[w] = "get_content"
        /\ Answer(w, IF c = None THEN "error" ELSE "ok")
        /\ data' = [data EXCEPT ![w] = c]
        /\ UNCHANGED <<files, req, res, dest, gone, did, issued, changes>>

(* begin_write; the body comes, or the connection breaks (with_errors).     *)
Body(w) ==
    /\ pc[w] = "body"
    /\ \/ Go(w, "end_write") /\ UNCHANGED status
       \/ Answer(w, "error")
    /\ UNCHANGED <<files, req, res, dest, data, gone, did, issued, changes>>

As(p) == IF Text(p) THEN "text" ELSE "upload"

(* Mutant: the version is asked for again before the write.                 *)
EndWriteFresh(w) ==
    /\ pc[w] = "end_write"
    /\ LET p == req[w].path IN Send(w, <<Op(p, req[w].body, files[p], As(p))>>, {}, "done")

(* end_write: write_text or write_binary with the version of the resource.  *)
(* A body that is to be a text and is no UTF-8 is not sent.                 *)
NoText(w) == Text(req[w].path) /\ req[w].body \in NotUtf8

EndWrite(w) ==
    /\ pc[w] = "end_write" /\ ~NoText(w)
    /\ LET p == req[w].path
       IN  Send(w, <<Op(p, req[w].body, res[w].version, As(p))>>, {}, "done")

EndWriteFails(w) ==
    /\ pc[w] = "end_write" /\ NoText(w)
    /\ Answer(w, "error")
    /\ UNCHANGED <<files, req, res, dest, data, gone, did, issued, changes>>

(* Mutant: any refusal of the API is taken for a file that is gone.         *)
DeleteTolerant(w) ==
    /\ pc[w] = "delete"
    /\ Send(w, <<Op(req[w].path, None, res[w].version, "delete")>>, {"notfound", "conflict"}, "done")

(* delete(): of a DELETE, and of the source after each MOVE that went well. *)
(* A file that is not there any more is a success.                          *)
Delete(w) ==
    /\ pc[w] = "delete"
    /\ Send(w, <<Op(req[w].path, None, res[w].version, "delete")>>, {"notfound"}, "done")

(* delete() of the destination, before a MOVE.                              *)
DeleteDest(w) ==
    /\ pc[w] = "delete_dest"
    /\ Send(w, <<Op(req[w].dest, None, dest[w], "delete")>>, {"notfound"}, "copy_move_single")

(* move_text and copy_text: one transaction, with the content the resource  *)
(* was resolved with, in the API's line ends.                               *)
CopyMoveText(w) ==
    LET m     == req[w]
        write == Op(m.dest, res[w].content, None, "text")
        drop  == Op(m.path, None, res[w].version, "delete")
    IN  /\ pc[w] = "copy_move_single" /\ Text(m.path)
        /\ IF m.method = "MOVE" THEN Send(w, <<write, drop>>, {}, "delete")
           ELSE Send(w, <<write>>, {}, "done")

(* Mutant: the source is removed once its bytes are here.                   *)
FetchThenRemove(w) ==
    /\ pc[w] = "copy_move_single" /\ ~Text(req[w].path)
    /\ data' = [data EXCEPT ![w] = ApiBytes(req[w].path)]
    /\ IF ApiBytes(req[w].path) = None THEN Answer(w, "error")
       ELSE Go(w, IF req[w].method = "MOVE" THEN "remove" ELSE "copy") /\ UNCHANGED status
    /\ UNCHANGED <<files, req, res, dest, gone, did, issued, changes>>

(* Anything else is moved and copied in three calls: the bytes as they are  *)
(* now, whatever the version says,                                          *)
FetchBytes(w) ==
    /\ pc[w] = "copy_move_single" /\ ~Text(req[w].path)
    /\ data' = [data EXCEPT ![w] = ApiBytes(req[w].path)]
    /\ IF ApiBytes(req[w].path) = None THEN Answer(w, "error")
       ELSE Go(w, "copy") /\ UNCHANGED status
    /\ UNCHANGED <<files, req, res, dest, gone, did, issued, changes>>

(* the copy,                                                                *)
CopyBytes(w) ==
    /\ pc[w] = "copy"
    /\ Send(w, <<Op(req[w].dest, data[w], None, "upload")>>, {},
            IF req[w].method = "MOVE" THEN "remove" ELSE "done")

(* and the removal, which here does not tolerate a source that is gone.     *)
RemoveSource(w) ==
    /\ pc[w] = "remove"
    /\ Send(w, <<Op(req[w].path, None, res[w].version, "delete")>>, {}, "delete")

(* The API refuses a call for another reason, or the call times out (30 s   *)
(* of httpx.Client): the DAV client is told of an error, and the API may    *)
(* still do what it was asked for, at any time.                             *)
Changing == {"end_write", "delete", "delete_dest", "copy_move_single", "copy", "remove"}
Reading  == {"resolve", "resolve_dir", "resolve_dest", "dest_dir", "get_content"}

CallFails(w) ==
    /\ "api" \in Faults /\ pc[w] \in Changing \cup Reading /\ ~gone[w]
    /\ \/ Answer(w, "error") /\ UNCHANGED gone
       \/ /\ pc[w] \in Changing /\ (pc[w] = "copy_move_single" => Text(req[w].path))
          /\ gone' = [gone EXCEPT ![w] = TRUE]
          /\ status' = [status EXCEPT ![w] = "error"] /\ UNCHANGED pc
    /\ UNCHANGED <<files, req, res, dest, data, did, issued, changes>>

(* The request is answered and the call it may have given up is over.       *)
Done(w) ==
    /\ pc[w] = "done"
    /\ Go(w, "idle")
    /\ req' = [req EXCEPT ![w] = None] /\ res' = [res EXCEPT ![w] = NoResource]
    /\ dest' = [dest EXCEPT ![w] = None] /\ data' = [data EXCEPT ![w] = None]
    /\ gone' = [gone EXCEPT ![w] = FALSE] /\ status' = [status EXCEPT ![w] = None]
    /\ did' = [did EXCEPT ![w] = << >>]
    /\ UNCHANGED <<files, issued, changes>>

(* Another client of the API, which names the version it sees.  A text      *)
(* comes to it as JSON, in UTF-8, and one that is none stays as it is.      *)
OtherClient ==
    /\ changes < MaxChanges
    /\ \E p \in Paths, c \in Contents \cup {None} :
         /\ files[p] # c /\ ~Unreadable(p) /\ (ApiText(p) => c \notin NotUtf8)
         /\ files' = [files EXCEPT ![p] = c]
    /\ changes' = changes + 1
    /\ UNCHANGED <<pc, req, res, dest, data, gone, status, did, issued>>

Step(w) ==
    \/ Receive(w) \/ Resolve(w) \/ ResolveDir(w) \/ ResolveDest(w) \/ ResolveDestDir(w)
    \/ GetContent(w) \/ Body(w) \/ EndWrite(w) \/ EndWriteFails(w) \/ Delete(w) \/ DeleteDest(w)
    \/ CopyMoveText(w) \/ FetchBytes(w) \/ CopyBytes(w) \/ RemoveSource(w)
    \/ CallFails(w) \/ Done(w)

Next == OtherClient \/ \E w \in Workers : Step(w)

Spec == Init /\ [][Next]_vars

-----------------------------------------------------------------------------
(* Type invariant; a resource's content is the text of its version.         *)
TypeOK ==
    /\ files \in Files
    /\ \A w \in Workers :
         /\ pc[w] \in Changing \cup Reading \cup {"idle", "body", "done"}
         /\ req[w] \in Menu \cup {None} /\ (req[w] = None <=> pc[w] = "idle")
         /\ res[w].version \in Contents \cup {None}
         /\ res[w].content # None => res[w].content = AsText[res[w].version]
         /\ status[w] \in {None, "ok", "conflict", "notfound", "collection", "error"}
         /\ gone[w] => pc[w] \in Changing \cup {"done"} /\ status[w] = "error"
         /\ pc[w] = "done" => status[w] # None

(* A DAV request replaces and removes only what it has seen itself: between *)
(* its look at a file (get_resource_inst) and its change nobody else's      *)
(* change is lost, not even when the API carries out a call the bridge has  *)
(* given up.                                                                *)
OnlyWhatWasSeen ==
    [][\A w \in Workers, p \in Paths :
         did'[w] # did[w] /\ did'[w] # << >> /\ files'[p] # files[p] /\ files[p] # None =>
            files[p] = IF p = req[w].path THEN res[w].version ELSE dest[w]]_vars

Written(w, ops) == {ops[i].content : i \in {j \in 1 .. Len(ops) : ops[j].path = req[w].dest}} \ {None}

(* A MOVE takes its source away only in or after the commit in which it has *)
(* written the destination, a text with the content it takes away, up to    *)
(* its line ends: get_file reads CRLF as LF, and that is what is written.   *)
(* So whatever fails in between leaves the text in one place at least       *)
(* (copy_move_single, move_text).                                           *)
MovesWriteBeforeTheyRemove ==
    [][\A w \in Workers :
         did'[w] # did[w] /\ did'[w] # << >> /\ req[w].method = "MOVE" =>
            LET p == req[w].path
            IN  files[p] # None /\ files'[p] = None =>
                  Written(w, did'[w]) # {} /\ (Text(p) => AsText[files[p]] \in Written(w, did'[w]))]_vars

(* What is answered with success has happened: the source of a MOVE and the *)
(* file of a DELETE are gone when the answer is given, also where the API's *)
(* 404 is tolerated; a PUT is stored byte by byte, whatever line ends a GET *)
(* of it will show; the destination was written with what was read of the   *)
(* source.                                                                  *)
OkMeansDone ==
    [][\A w \in Workers :
         status[w] = None /\ status'[w] = "ok" =>
            LET m == req[w]
            IN  /\ m.method \in {"DELETE", "MOVE"} => files'[m.path] = None
                /\ m.method = "PUT" => files'[m.path] = m.body
                /\ m.method \in {"MOVE", "COPY"} =>
                      (IF Text(m.path) THEN res[w].content ELSE data[w]) \in Written(w, did'[w])]_vars

(* The body of a text is the text of the version its ETag names, and as     *)
(* long as its Content-Length says, whatever others write while it is sent  *)
(* and whatever line ends it is stored with (git_repo.py:172: a length that *)
(* does not fit the body makes the DAV client's connection hang).           *)
TextBodiesMatch ==
    \A w \in Workers :
       pc[w] = "done" /\ req[w].method = "GET" /\ status[w] = "ok" /\ Text(req[w].path)
       => data[w] = AsText[res[w].version] /\ data[w] = res[w].size

(* What a request knows fits its step, and the text it answers its header.  *)
BridgeInv == TypeOK /\ TextBodiesMatch

-----------------------------------------------------------------------------
(* docs/spec.en.md:323: a MOVE is atomic, write and delete "in one commit". *)
(* So a MOVE of a text takes its source away in no commit but the one that  *)
(* writes the destination with it, up to line ends.                         *)
TextMovesAreOneCommit ==
    [][\A w \in Workers :
         did'[w] # did[w] /\ did'[w] # << >> /\ req[w].method = "MOVE" /\ Text(req[w].path)
         /\ files[req[w].path] # None /\ files'[req[w].path] = None =>
            files[req[w].dest] = None /\ files'[req[w].dest] = AsText[files[req[w].path]]]_vars

(* dav_provider.py:31: the bridge's classify_kind "duplicates on purpose"   *)
(* the API's.  So no request fails over the kind of its file: a GET of a    *)
(* file that is there throughout, and whose calls go well, succeeds.        *)
FilesThereCanBeRead ==
    [][\A w \in Workers :
         pc[w] = "get_content" /\ status'[w] = "error" => files[req[w].path] = None]_vars
=============================================================================
