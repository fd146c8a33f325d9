---------------------------- MODULE TreeListing ----------------------------
(***************************************************************************)
(* GET /tree: a client walks page by page through the listing of a         *)
(* directory (GitStorage.list_tree, get_tree) while others write and       *)
(* delete files.  A path is the sequence of its names.  Directories come   *)
(* with the first file written below them and are never removed.           *)
(***************************************************************************)
EXTENDS Naturals, Sequences, FiniteSets

CONSTANTS
    Paths,       \* paths that may come to be; the names are numbers, for their order
    Walks,       \* what is asked for: root, depth and the entries on a page
    Hidden,      \* files the client may not read
    Broken,      \* files that are listed but can be neither read nor changed
    MaxChanges,  \* bound: files written and deleted during the walk
    End          \* the cursor after the last page

(* Broken are texts that are no UTF-8, and files that were never committed  *)
(* as the batch that wrote them failed: get_file and every validation raise *)
(* an exception over them, the listing does not.                            *)

(* The first request has no cursor.                                         *)
Start == << >>

ASSUME ListingTyped ==
    /\ Paths \subseteq Seq(Nat) \ {<< >>} /\ MaxChanges \in Nat
    /\ \A p \in Paths : \A n \in 1 .. Len(p) : SubSeq(p, 1, n) \in Paths
    /\ Walks \subseteq [root: Paths \cup {<< >>}, depth: Nat, page: Nat \ {0}]
    /\ Hidden \subseteq Paths /\ Broken \subseteq Paths /\ End \notin Paths \cup {Start}

VARIABLES
    walk,       \* one of Walks; the root << >> is the whole tree
    files, dirs,
    cursor,     \* of the next request
    shown,      \* history: [Paths -> how often the client was shown it]
    kept,       \* history: what was there all through the walk
    changes

vars == <<walk, files, dirs, cursor, shown, kept, changes>>

Above(p)     == {SubSeq(p, 1, n) : n \in 1 .. Len(p) - 1}
Parent(p)    == SubSeq(p, 1, Len(p) - 1)
Under(b, p)  == Len(b) < Len(p) /\ SubSeq(p, 1, Len(b)) = b

(* The order of the paths as strings, which only has to be total.           *)
Before(p, q) ==
    \/ Under(p, q)
    \/ \E n \in 1 .. Len(p) : /\ n <= Len(q) /\ p[n] < q[n]
                              /\ \A m \in 1 .. n - 1 : p[m] = q[m]

-----------------------------------------------------------------------------
(* _walk: the children of a directory, and what is under those that are     *)
(* directories, as many levels as asked for.                                *)
Walk ==
    LET below[d \in Nat] ==
            [b \in dirs \cup {<< >>} |->
                LET children == {p \in files \cup dirs : Parent(p) = b}
                IN  IF d > 1
                    THEN children \cup UNION {below[d - 1][p] : p \in children \cap dirs}
                    ELSE children]
    IN  below[walk.depth][walk.root]

Entries == IF walk.depth = 0 THEN IF walk.root = << >> THEN {} ELSE {walk.root} ELSE Walk

(* Mutants: the entry the cursor names is shown again; the cursor is looked *)
(* up, and the walk begins anew when it is gone.                            *)
FromCursorOn  == {p \in Entries : cursor = p \/ Before(cursor, p)}
FromLookup    == {p \in Entries : cursor \notin Entries \/ Before(cursor, p)}

Remaining == {p \in Entries : Before(cursor, p)}

Page == {p \in Remaining : Cardinality({q \in Remaining : Before(q, p)}) < walk.page}

Last(S) == CHOOSE p \in S : \A q \in S : q = p \/ Before(q, p)

(* The page is cut first, then what the client may not read is left out.    *)
Visible(S) == {p \in S : p \in dirs \/ p \notin Hidden}

NextCursor == IF Remaining = Page THEN End ELSE Last(Page)

-----------------------------------------------------------------------------
(* The walk starts at any tree that writing and deleting files can lead to. *)
Init ==
    /\ walk \in Walks
    /\ files = {} /\ dirs = Above(walk.root) \cup ({walk.root} \ {<< >>})
    /\ cursor = Start /\ shown = [p \in Paths |-> 0]
    /\ kept = dirs
    /\ changes = 0

Walking == cursor # Start

Change ==
    /\ cursor # End /\ changes < MaxChanges
    /\ changes' = IF Walking THEN changes + 1 ELSE 0
    /\ kept' = IF Walking THEN kept \cap (files' \cup dirs') ELSE files' \cup dirs'
    /\ UNCHANGED <<walk, cursor, shown>>

(* _apply_operation: the file and the directories above it.                 *)
Create(p) ==
    /\ p \notin files \cup dirs /\ Above(p) \cap files = {}
    /\ files' = files \cup {p} /\ dirs' = dirs \cup Above(p)

Remove(p) == p \in files \ Broken /\ files' = files \ {p} /\ UNCHANGED dirs

Write(p)  == Create(p) /\ Change
Delete(p) == Remove(p) /\ Change

(* One request with the cursor of the one before.                           *)
Fetch ==
    /\ cursor # End
    /\ shown' = [p \in Paths |-> shown[p] + IF p \in Visible(Page) THEN 1 ELSE 0]
    /\ cursor' = NextCursor
    /\ UNCHANGED <<walk, files, dirs, kept, changes>>

Next == Fetch \/ \E p \in Paths : Write(p) \/ Delete(p)

Spec == Init /\ [][Next]_vars

-----------------------------------------------------------------------------
(* The directory itself for depth 0, else what is below it to that depth.   *)
InReach(p) ==
    IF walk.depth = 0 THEN p = walk.root
    ELSE Under(walk.root, p) /\ Len(p) <= Len(walk.root) + walk.depth

(* A walk that has come to its end has shown everything that was there all  *)
(* the time and may be read, also when a page fell between the deletion of  *)
(* the entry its cursor names and the next (list_tree, next_cursor).  On    *)
(* the way it shows nothing twice, nothing that is hidden, and nothing that *)
(* is not below the root or deeper than asked for (_walk).                  *)
WalkShowsOnceWhatStayed ==
    /\ cursor = End => \A p \in kept :
          InReach(p) /\ (p \in dirs \/ p \notin Hidden) => shown[p] > 0
    /\ \A p \in Paths :
          /\ shown[p] <= 1
          /\ shown[p] = 1 => InReach(p) /\ (p \in dirs \/ p \notin Hidden)
=============================================================================
