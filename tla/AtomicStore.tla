---------------------------- MODULE AtomicStore -----------------------------
(***************************************************************************)
(* What the storage promises its clients, without lock, index or work      *)
(* tree: a batch is applied to a private draft, and published in one step  *)
(* if every version it names is still the current one.  Paths in `loose`   *)
(* were named by a batch that stopped half-way; of those the store may     *)
(* publish anything, until a batch that names them is published.           *)
(***************************************************************************)
EXTENDS FileOps

CONSTANTS Clients, Paths, FileStates

VARIABLES
    store,      \* [Paths -> FileStates]
    open,       \* per client: its batch, how much of it is done, its draft
    loose

vars == <<store, open, loose>>

Closed    == [batch |-> <<>>, done |-> 0, draft |-> <<>>]
IsOpen(c) == open[c].batch # <<>>

PathsOf(batch) == {batch[i].path : i \in 1 .. Len(batch)}

(* Every version of the batch is the current one, None for an absent file.  *)
Current(batch) ==
    \A i \in 1 .. Len(batch) :
        batch[i].path \in loose \/ batch[i].ver = store[batch[i].path]

Init ==
    /\ store \in [Paths -> FileStates]
    /\ open = [c \in Clients |-> Closed]
    /\ loose = {}

(* The client's batch is valid: it gets a draft.                            *)
Open(c) ==
    /\ ~IsOpen(c) /\ open'[c].batch # <<>>
    /\ open' = [open EXCEPT ![c] = open'[c]]
    /\ open'[c].done = 0
    /\ Current(open'[c].batch)
    /\ \A p \in Paths \ loose : open'[c].draft[p] = store[p]
    /\ UNCHANGED <<store, loose>>

(* One more operation takes effect on the draft.                            *)
Update(c) ==
    /\ IsOpen(c)
    /\ open[c].done < Len(open[c].batch)
    /\ LET o  == open[c]
           op == o.batch[o.done + 1]
       IN  /\ Applicable(op, o.draft[op.path])
           /\ open' = [open EXCEPT ![c] =
                          [batch |-> o.batch, done |-> o.done + 1,
                           draft |-> [o.draft EXCEPT ![op.path] = Result(op, @)]]]
    /\ UNCHANGED <<store, loose>>

Publish(c) ==
    /\ IsOpen(c)
    /\ open[c].done = Len(open[c].batch)
    /\ Current(open[c].batch)
    /\ LET named == PathsOf(open[c].batch)
       IN  /\ DOMAIN store' = Paths
           /\ \A p \in named : store'[p] = open[c].draft[p]
           /\ \A p \in Paths \ (named \cup loose) : store'[p] = store[p]
           /\ loose' = loose \ named
    /\ open' = [open EXCEPT ![c] = Closed]

(* The batch stops, in an error or with the process; nothing is published.  *)
Abandon(c) ==
    /\ IsOpen(c)
    /\ \E S \in SUBSET PathsOf(open[c].batch) : loose' = loose \cup S
    /\ open' = [open EXCEPT ![c] = Closed]
    /\ UNCHANGED store

Next == \E c \in Clients : Open(c) \/ Update(c) \/ Publish(c) \/ Abandon(c)

Spec == Init /\ [][Next]_vars
=============================================================================
