----------------------------- MODULE AuditQuery -----------------------------
(***************************************************************************)
(* GET /system/audit on the SQLite sink: the administrator walks through   *)
(* the entries that fit a filter, page by page, while requests append more *)
(* (SqliteAuditSink, query_audit).  Entries are ordered by their random    *)
(* id, not by time, so a new one may fall anywhere between the old ones.   *)
(***************************************************************************)
EXTENDS Integers, Sequences, FiniteSets

CONSTANTS
    Draws,     \* the ids uuid4 may draw: numbers, for their order
    Users, Operations,
    MaxTime,   \* bound: times of day
    Filters,   \* the filters asked for
    PageSize,  \* _PAGE_SIZE
    None

Times == 1 .. MaxTime

ASSUME QueriesTyped ==
    /\ Draws \subseteq Nat \ {0} /\ PageSize \in Nat \ {0} /\ MaxTime \in Nat
    /\ None \notin Nat
    /\ \A f \in Filters :
          /\ f.user \in Users \cup {None} /\ f.operation \in Operations \cup {None}
          /\ f.pii \in BOOLEAN /\ {f.from, f.to} \subseteq Times \cup {None}

VARIABLES
    rows,      \* the table: a set of records
    clock,
    filter,    \* of the walk that is on
    after,     \* the cursor of the next request: 0 for the first, None after the last
    got,       \* history: the ids shown, in their order
    before     \* history: the rows there were when the walk began

auditVars == <<rows, clock, filter, after, got, before>>

AuditInit ==
    /\ rows = {} /\ clock = 1
    /\ filter \in Filters
    /\ after = 0 /\ got = << >> /\ before = {}

-----------------------------------------------------------------------------
(* record: ids never come twice, times never go back.                       *)
Record ==
    /\ after # None
    /\ \E id \in Draws \ {r.id : r \in rows}, u \in Users, o \in Operations, pii \in BOOLEAN :
          rows' = rows \cup {[id |-> id, user |-> u, operation |-> o, pii |-> pii, at |-> clock]}
    /\ UNCHANGED <<clock, filter, after, got, before>>

Tick ==
    /\ clock < MaxTime /\ after # None /\ clock' = clock + 1
    /\ UNCHANGED <<rows, filter, after, got, before>>

(* The WHERE clause.  query_audit declares the start of the period as       *)
(* from_, so a request that says from has no start.                         *)
Fits(r, f) ==
    /\ f.user # None => r.user = f.user
    /\ f.pii => r.pii
    /\ f.operation # None => r.operation = f.operation
    /\ f.to # None => r.at <= f.to

(* SELECT ... WHERE id > cursor ORDER BY id                                 *)
Where == {r \in rows : r.id > after /\ Fits(r, filter)}

(* LIMIT: one row more than a page, which only tells that there is more.    *)
Limited == {r \in Where : Cardinality({q \in Where : q.id < r.id}) < PageSize + 1}

HasMore == Cardinality(Limited) > PageSize

AuditPage == {r.id : r \in {x \in Limited : Cardinality({q \in Limited : q.id < x.id}) < PageSize}}

LastOf(S) == CHOOSE x \in S : \A y \in S : y <= x

(* Mutant: the cursor names the first row of the next page.                 *)
NextAuditCursorPeeked == IF HasMore THEN LastOf({r.id : r \in Limited}) ELSE None

NextAuditCursor == IF HasMore THEN LastOf(AuditPage) ELSE None

Query ==
    /\ after # None
    /\ \E order \in [1 .. Cardinality(AuditPage) -> AuditPage] :
          /\ \A i, j \in 1 .. Cardinality(AuditPage) : i < j => order[i] < order[j]
          /\ got' = got \o order
    /\ before' = IF after = 0 THEN rows ELSE before
    /\ after' = NextAuditCursor
    /\ UNCHANGED <<rows, clock, filter>>

AuditNext == Record \/ Tick \/ Query

AuditSpec == AuditInit /\ [][AuditNext]_auditVars

-----------------------------------------------------------------------------
(* A walk that has come to its end has shown every entry that was there     *)
(* when it began and fits, whatever was appended between the pages and      *)
(* wherever its id fell; on the way it shows nothing twice, its ids only    *)
(* rise, and what it shows fits the filter (query, next_cursor).            *)
WalkReadsEachOnce ==
    /\ after = None =>
          {r.id : r \in {x \in before : Fits(x, filter)}} \subseteq {got[i] : i \in 1 .. Len(got)}
    /\ \A i, j \in 1 .. Len(got) : i < j => got[i] < got[j]
    /\ \A i \in 1 .. Len(got) : \E r \in rows : r.id = got[i] /\ Fits(r, filter)

(* docs/openapi.yaml:426, the parameter `from`, and docs/spec.en.md:218:    *)
(* "show me all PII accesses by X in period Y".                             *)
PeriodsHaveAStart ==
    filter.from # None =>
       \A i \in 1 .. Len(got), r \in rows : r.id = got[i] => r.at >= filter.from
=============================================================================
