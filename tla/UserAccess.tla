----------------------------- MODULE UserAccess -----------------------------
(***************************************************************************)
(* The accesses of the WebDAV bridge (user_access.py) and the command line *)
(* that administers them (webdav_bridge/cli.py).  webdav-users.json maps a *)
(* name to a user of the Agent-MD-API and the hash of a personal access    *)
(* token.  Each command is a process: it loads the whole file, changes its *)
(* copy and writes the whole file back, which open() empties first.  The   *)
(* lock of the class orders the threads of one process only; the server    *)
(* never writes, so no lock of this file is ever waited for long.          *)
(*                                                                         *)
(* PATs are random and are numbered in the order they are drawn.  Ghosts:  *)
(* `issued`, for whom a PAT was drawn; `printed`, the PAT the operator     *)
(* rightly believes in; `ended`, the PATs whose end was confirmed to him.  *)
(***************************************************************************)
EXTENDS Naturals

CONSTANTS
    Shells,         \* commands that may run at a time
    Names,          \* user names
    Users,          \* agent_api_user_ids
    None,
    Initial,        \* the file at start
    InitiallyDrawn, \* PATs drawn before
    Empty,          \* the file, emptied by open()
    Garbled,        \* the file, no longer JSON
    Menu,           \* the commands that are given
    MaxCommands,    \* bound: commands begun in one behaviour
    Faults          \* {"fail", "crash"} or less

Accesses   == [user: Users, pat: Nat]
Tables     == [Names -> Accesses \cup {None}]
Unreadable == {Empty, Garbled}
Commands   == [op: {"create"}, name: Names, user: Users]
              \cup [op: {"rotate", "revoke"}, name: Names] \cup [op: {"list"}]

ASSUME TableTyped    == Initial \in Tables /\ InitiallyDrawn \in Nat /\ MaxCommands \in Nat
ASSUME PatsOfInitial ==
    /\ \A n \in 1 .. InitiallyDrawn : \E m \in Names : Initial[m] # None /\ Initial[m].pat = n
    /\ \A m, o \in Names :
          Initial[m] # None /\ Initial[o] # None =>
             /\ Initial[m].pat \in 1 .. InitiallyDrawn
             /\ Initial[m].pat = Initial[o].pat => m = o
ASSUME ShellsTyped   == Menu \subseteq Commands /\ Faults \subseteq {"fail", "crash"}
ASSUME MarksDiffer   == /\ Unreadable \cap Tables = {}
                        /\ None \notin Accesses \cup Tables \cup Commands
                        /\ None \notin Users /\ None \notin Nat

VARIABLES
    file,       \* webdav-users.json
    at,         \* where each command is
    cmd,        \* the command
    mem,        \* its copy of the table
    drawn,      \* PATs drawn so far
    commands,   \* commands begun so far
    issued,     \* ghost
    printed,    \* ghost
    ended       \* ghost

shellVars == <<file, at, cmd, mem, drawn, commands, issued, printed, ended>>

HolderOf(n) ==
    CHOOSE h \in [name: Names, user: Users] :
       Initial[h.name] # None /\ Initial[h.name] = [user |-> h.user, pat |-> n]

ShellInit ==
    /\ file = Initial
    /\ at = [s \in Shells |-> "idle"]
    /\ cmd = [s \in Shells |-> None]
    /\ mem = [s \in Shells |-> None]
    /\ drawn = InitiallyDrawn
    /\ commands = 0
    /\ issued = [n \in 1 .. InitiallyDrawn |-> HolderOf(n)]
    /\ printed = [m \in Names |-> IF Initial[m] = None THEN None ELSE Initial[m].pat]
    /\ ended = {}

(* While a command for a name is under way, the operator knows nothing.     *)
Start(s, r) ==
    /\ at[s] = "idle"
    /\ commands < MaxCommands
    /\ at' = [at EXCEPT ![s] = "load"]
    /\ cmd' = [cmd EXCEPT ![s] = r]
    /\ commands' = commands + 1
    /\ printed' = IF r.op = "list" THEN printed ELSE [printed EXCEPT ![r.name] = None]
    /\ UNCHANGED <<file, mem, drawn, issued, ended>>

Exit(s) ==
    /\ at' = [at EXCEPT ![s] = "idle"]
    /\ cmd' = [cmd EXCEPT ![s] = None]
    /\ mem' = [mem EXCEPT ![s] = None]

Draws(r) == r.op \in {"create", "rotate"}

(* Mutants: revoke saves the table as it was; create writes a file of one.  *)
ChangedKeepsAccess(r, table, n) ==
    CASE r.op = "create" -> [table EXCEPT ![r.name] = [user |-> r.user, pat |-> n]]
      [] r.op = "rotate" -> [table EXCEPT ![r.name].pat = n]
      [] r.op = "revoke" -> table

ChangedForgets(r, table, n) ==
    CASE r.op = "create" -> [m \in Names |-> IF m = r.name THEN [user |-> r.user, pat |-> n] ELSE None]
      [] r.op = "rotate" -> [table EXCEPT ![r.name].pat = n]
      [] r.op = "revoke" -> [table EXCEPT ![r.name] = None]

(* create replaces an access of the same name, revoke needs none.           *)
Changed(r, table, n) ==
    CASE r.op = "create" -> [table EXCEPT ![r.name] = [user |-> r.user, pat |-> n]]
      [] r.op = "rotate" -> [table EXCEPT ![r.name].pat = n]
      [] r.op = "revoke" -> [table EXCEPT ![r.name] = None]

(* list_usernames; an UnknownUserError; a file that is not JSON.            *)
LoadOnly(s) ==
    /\ at[s] = "load"
    /\ \/ file \in Unreadable
       \/ cmd[s].op = "list"
       \/ file \notin Unreadable /\ cmd[s].op = "rotate" /\ file[cmd[s].name] = None
    /\ Exit(s)
    /\ UNCHANGED <<file, drawn, commands, issued, printed, ended>>

LoadAndChange(s) ==
    LET r == cmd[s]
        n == IF Draws(r) THEN drawn + 1 ELSE drawn
    IN  /\ at[s] = "load"
        /\ file \notin Unreadable
        /\ r.op # "list"
        /\ r.op = "rotate" => file[r.name] # None
        /\ mem' = [mem EXCEPT ![s] = Changed(r, file, n)]
        /\ at' = [at EXCEPT ![s] = "save"]
        /\ drawn' = n
        /\ issued' =
              IF Draws(r)
              THEN [m \in 1 .. n |->
                       IF m <= drawn THEN issued[m]
                       ELSE [name |-> r.name,
                             user |-> IF r.op = "create" THEN r.user ELSE file[r.name].user]]
              ELSE issued
        /\ UNCHANGED <<file, cmd, commands, printed, ended>>

(* _save: write_text opens the file.                                        *)
Truncate(s) ==
    /\ at[s] = "save"
    /\ file' = Empty
    /\ at' = [at EXCEPT ![s] = "write"]
    /\ UNCHANGED <<cmd, mem, drawn, commands, issued, printed, ended>>

(* _save: the text, and the new PAT on the terminal.                        *)
WriteText(s) ==
    LET r == cmd[s]
    IN  /\ at[s] = "write"
        /\ file' \in {mem[s]} \cup (IF file = Empty THEN {} ELSE {Garbled})
        /\ printed' = IF Draws(r) THEN [printed EXCEPT ![r.name] = mem[s][r.name].pat] ELSE printed
        /\ ended' = ended \cup
              {n \in 1 .. drawn : /\ issued[n].name = r.name
                                  /\ Draws(r) => n < mem[s][r.name].pat}
        /\ Exit(s)
        /\ UNCHANGED <<drawn, commands, issued>>

(* The command fails or is interrupted, in the middle of the text or after  *)
(* it and before it printed anything.                                       *)
Fail(s) ==
    /\ "fail" \in Faults
    /\ at[s] \in {"save", "write"}
    /\ file' \in {file} \cup (IF at[s] = "write" THEN {Garbled, mem[s]} ELSE {})
    /\ Exit(s)
    /\ UNCHANGED <<drawn, commands, issued, printed, ended>>

Command(s) ==
    \/ \E r \in Menu : Start(s, r)
    \/ LoadOnly(s) \/ LoadAndChange(s) \/ Truncate(s) \/ WriteText(s) \/ Fail(s)

(* verify: the file is read anew, by whoever asks.                          *)
Verifies(name, pat) == file[name] # None /\ file[name].pat = pat
=============================================================================
