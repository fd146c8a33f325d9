--------------------------- MODULE BridgeListing ---------------------------
(***************************************************************************)
(* PROPFIND of a directory over the bridge: wsgidav asks the collection    *)
(* for the names of its members, which is one page of GET /tree, and then  *)
(* the provider for each of them, which is one or two calls more           *)
(* (dav_provider.py).  Meanwhile others write and delete files.  The       *)
(* directory itself has been resolved: directories are never removed.      *)
(***************************************************************************)
EXTENDS TreeListing

VARIABLES
    by,        \* who lists the tree: a "client" of the API or the "bridge"
    phase,     \* of the PROPFIND: "names", "file", "tree", then "ok", "error"
               \* (over a member) or "failed" (over a call)
    names,     \* members it has yet to ask for
    members    \* what it will answer: [path, is] with is "file" or "collection"

bridge == <<by, phase, names, members>>

Answered == phase \in {"ok", "error", "failed"}

-----------------------------------------------------------------------------
BridgeInit ==
    /\ Init
    /\ by \in {"client", "bridge"} /\ (by = "bridge" => walk.depth = 1)
    /\ phase = "names" /\ names = {} /\ members = {}

(* Mutant: the last name of the directory is left out, not its path.        *)
OwnLastName(p) == walk.root # << >> /\ p[Len(p)] = walk.root[Len(walk.root)]

(* The first page, without the directory itself, and a name of each entry.  *)
(* The bridge sends no cursor and does not look at next_cursor.             *)
OwnName(p) == p = walk.root

GetMemberNames ==
    /\ phase = "names"
    /\ names' = {p \in Visible(Page) : ~OwnName(p)}
    /\ phase' = IF names' = {} THEN "ok" ELSE "file"
    /\ UNCHANGED members

(* The members are asked for in the order of the listing.                   *)
Current == CHOOSE p \in names : \A q \in names : q = p \/ Before(p, q)

Found(p, is) ==
    /\ members' = members \cup {[path |-> p, is |-> is]}
    /\ names' = names \ {p}
    /\ phase' = IF names' = {} THEN "ok" ELSE "file"

(* get_resource_inst: GET /file first, and where that is a 404 GET /tree    *)
(* with depth 0, which also answers for a file that has come to be since.   *)
(* A 500 for a broken file is no error get_resource_inst knows.             *)
GetFile ==
    /\ phase = "file"
    /\ \/ Current \in files \ Broken /\ Found(Current, "file")
       \/ /\ Current \notin files \ Broken
          /\ phase' = IF Current \in files THEN "error" ELSE "tree"
          /\ UNCHANGED <<names, members>>

(* A member that is not there any more fails the whole PROPFIND: wsgidav    *)
(* asserts that there is a resource for each name.                          *)
GetTree ==
    /\ phase = "tree"
    /\ IF Current \in files \cup dirs THEN Found(Current, "collection")
       ELSE phase' = "error" /\ UNCHANGED <<names, members>>

(* A call of any of the three that is refused (_to_dav_error), gets another *)
(* error or no answer in time: as the ACL, the token or the network has it. *)
CallFails ==
    /\ phase \in {"names", "file", "tree"}
    /\ phase' = "failed" /\ UNCHANGED <<names, members>>

Propfind == GetMemberNames \/ GetFile \/ GetTree \/ CallFails

(* Others change the tree; what was there before the PROPFIND is any tree.  *)
Others ==
    /\ ~Answered /\ changes < MaxChanges
    /\ \E p \in Paths : Create(p) \/ Remove(p)
    /\ changes' = IF phase = "names" THEN 0 ELSE changes + 1
    /\ kept' = IF phase = "names" THEN files' \cup dirs' ELSE kept \cap (files' \cup dirs')

ClientFetches == by = "client" /\ Fetch /\ UNCHANGED bridge

BridgeAsks == by = "bridge" /\ Propfind /\ UNCHANGED <<by, vars>>

BridgeNext ==
    \/ ClientFetches
    \/ BridgeAsks
    \/ by = "client" /\ (\E p \in Paths : Write(p) \/ Delete(p)) /\ UNCHANGED bridge
    \/ by = "bridge" /\ Others /\ UNCHANGED <<bridge, walk, cursor, shown>>

BridgeSpec == BridgeInit /\ [][BridgeNext]_<<vars, bridge>>

(* A client goes on asking, and wsgidav's thread goes on.                   *)
FairBridgeSpec ==
    /\ BridgeSpec
    /\ WF_<<vars, bridge>>(ClientFetches) /\ WF_<<vars, bridge>>(BridgeAsks)

-----------------------------------------------------------------------------
Listed == {e.path : e \in members}

(* A PROPFIND that succeeds shows every member that was there all the time  *)
(* and may be read, if they fit on a page; it shows each as what it is, or  *)
(* has been, and nothing the user may not read (get_member_names).  One     *)
(* that fails although all its calls came through to the API (and none was  *)
(* refused) does so over the member it asked for last, which somebody has   *)
(* deleted since the names were listed or which the API cannot serve.       *)
PropfindShowsWhatStayed ==
    /\ phase = "ok" =>
       /\ Cardinality({p \in Paths : Parent(p) = walk.root}) <= walk.page =>
             \A p \in kept : Parent(p) = walk.root /\ (p \in dirs \/ p \notin Hidden) => p \in Listed
       /\ \A e \in members : e.path \in kept => (e.is = "file" <=> e.path \in files)
       /\ Listed \cap (Hidden \ dirs) = {}
    /\ phase = "error" => Current \notin kept \/ Current \in Broken

(* Whoever lists the tree comes to an end, pages without a visible entry    *)
(* included.                                                                *)
ListingsEnd == <>(cursor = End \/ Answered)

(* docs/spec.en.md:317 maps a PROPFIND of a directory to GET /tree with     *)
(* depth 1, "only direct children" (:68): all of them.  The code stops at   *)
(* the first page of 200 entries.                                           *)
PropfindShowsAll ==
    phase = "ok" =>
       \A p \in kept : Parent(p) = walk.root /\ (p \in dirs \/ p \notin Hidden) => p \in Listed
=============================================================================
