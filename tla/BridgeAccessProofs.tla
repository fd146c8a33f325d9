------------------------- MODULE BridgeAccessProofs -------------------------
(***************************************************************************)
(* Proofs about BridgeAccess for any threads, users, names, commands and   *)
(* times: requests speak for the user their PAT was issued for and arrive  *)
(* with a token that is still valid, however many commands run; and while  *)
(* one command runs at a time, PATs end and begin when the operator is     *)
(* told so.                                                                *)
(***************************************************************************)
EXTENDS BridgeAccess, TLAPS

Holders == [name: Names, user: Users]

(* What TypeOK leaves open.                                                 *)
CountersTyped ==
    /\ clock \in Nat /\ drawn \in Nat
    /\ seen \in [Threads -> Nat]
    /\ issued \in [1 .. drawn -> Holders]

(* The PATs of a table were issued for the names and users they stand at.   *)
Genuine(table) ==
    \A n \in Names :
       table[n] # None =>
          /\ table[n].pat \in 1 .. drawn
          /\ issued[table[n].pat] = [name |-> n, user |-> table[n].user]

TablesGenuine ==
    /\ file \notin Unreadable => Genuine(file)
    /\ \A s \in Shells : mem[s] # None => Genuine(mem[s])

(* A request on its way with a token is no older than Travel, and its token *)
(* had the Buffer to live, but for the second that rounding takes, when the *)
(* clock was looked at.                                                     *)
InTime(t) ==
    /\ where[t] \in {"sign", "sent"} => seen[t] <= clock /\ clock <= seen[t] + Travel
    /\ where[t] = "sent" => token[t].exp + Second > seen[t] + Buffer

(* From the verification on, a request speaks for the PAT's user.           *)
SpeaksFor(t) ==
    /\ where[t] \in {"token", "sign", "sent"} =>
          /\ ask[t].pat \in 1 .. drawn
          /\ issued[ask[t].pat] = [name |-> ask[t].name, user |-> who[t]]
    /\ where[t] = "sent" => token[t].sub = who[t]

ThreadOK(t) ==
    /\ where[t] = "idle" <=> ask[t] = None
    /\ where[t] \in {"idle", "auth"} <=> who[t] = None
    /\ where[t] = "sent" <=> token[t] # None
    /\ InTime(t) /\ SpeaksFor(t)

(* The inductive invariant, whatever commands run at a time.                *)
AccessInd ==
    /\ TypeOK /\ CountersTyped /\ CommandsFit /\ CacheFits /\ TablesGenuine
    /\ \A t \in Threads : ThreadOK(t)

(* Rounding to whole seconds takes less than one.                           *)
LEMMA WholeSecondsClose ==
    ASSUME NEW n \in Nat
    PROVE  WholeSeconds(n) \in Nat /\ n < WholeSeconds(n) + Second
<1>1. Second \in Nat \ {0}
  BY TimesFit
<1>2. n % Second \in 0 .. Second - 1
  BY <1>1
<1>3. n % Second <= n
  BY <1>1
<1>. QED BY <1>1, <1>2, <1>3 DEF WholeSeconds

(* What AccessInv says of requests in particular.                           *)
LEMMA IndImpliesInv == AccessInd => AccessInv
<1>. SUFFICES ASSUME AccessInd PROVE AccessInv
  OBVIOUS
<1>1. RequestsFit
  BY DEF AccessInd, ThreadOK, RequestsFit
<1>2. TokensArriveFresh
  <2>. SUFFICES ASSUME NEW t \in Threads, where[t] = "sent" PROVE ~(token[t].exp <= clock)
    BY DEF TokensArriveFresh, Expired
  <2>1. token[t] \in Tokens
    BY DEF AccessInd, ThreadOK, TypeOK
  <2>2. /\ token[t].exp \in Nat /\ seen[t] \in Nat /\ clock \in Nat
        /\ Travel \in Nat /\ Buffer \in Nat /\ Second \in Nat /\ Travel + Second <= Buffer
    BY <2>1, TimesFit DEF Tokens, AccessInd, CountersTyped
  <2>3. clock <= seen[t] + Travel /\ token[t].exp + Second > seen[t] + Buffer
    BY DEF AccessInd, ThreadOK, InTime
  <2>. QED BY <2>2, <2>3
<1>. QED BY <1>1, <1>2 DEF AccessInd, AccessInv

-----------------------------------------------------------------------------
(* Threads.                                                                 *)

SameThread(t) ==
    /\ where'[t] = where[t] /\ ask'[t] = ask[t] /\ who'[t] = who[t]
    /\ seen'[t] = seen[t] /\ token'[t] = token[t]

(* PATs are only added.                                                     *)
IssuedGrows ==
    /\ drawn' \in Nat /\ drawn <= drawn'
    /\ \A n \in 1 .. drawn : issued'[n] = issued[n]

(* A thread that does nothing knows what it knew.                           *)
LEMMA ThreadFrame ==
    ASSUME AccessInd, NEW t \in Threads, SameThread(t), IssuedGrows,
           clock' = clock
    PROVE  ThreadOK(t)'
<1>1. InTime(t)'
  BY DEF AccessInd, ThreadOK, InTime, SameThread
<1>2. SpeaksFor(t)'
  <2>1. SpeaksFor(t) /\ drawn \in Nat
    BY DEF AccessInd, ThreadOK, CountersTyped
  <2>2. \A n \in 1 .. drawn : n \in 1 .. drawn' /\ issued'[n] = issued[n]
    BY <2>1 DEF IssuedGrows
  <2>. QED BY <2>1, <2>2 DEF SpeaksFor, SameThread
<1>. QED BY <1>1, <1>2 DEF AccessInd, ThreadOK, SameThread

(* Commands leave the threads alone.                                        *)
LEMMA GenuineFrame ==
    ASSUME IssuedGrows, drawn \in Nat, NEW table, Genuine(table)
    PROVE  \A n \in Names :
              table[n] # None =>
                 /\ table[n].pat \in 1 .. drawn'
                 /\ issued'[table[n].pat] = [name |-> n, user |-> table[n].user]
BY DEF Genuine, IssuedGrows

(* A step of one thread.                                                    *)
LEMMA ThreadStep ==
    ASSUME AccessInd, NEW t \in Threads, UNCHANGED shellVars, UNCHANGED clock,
           where' \in [Threads -> {"idle", "auth", "token", "sign", "sent"}],
           ask' \in [Threads -> Attempts \cup {None}],
           who' \in [Threads -> Users \cup {None}],
           token' \in [Threads -> Tokens \cup {None}],
           seen' \in [Threads -> Nat],
           cache' \in [Users -> Entries \cup {None}], CacheFits',
           \A u \in Threads : u # t => SameThread(u), ThreadOK(t)'
    PROVE  AccessInd'
<1>1. IssuedGrows
  BY DEF AccessInd, CountersTyped, IssuedGrows, shellVars
<1>2. \A u \in Threads : ThreadOK(u)'
  BY <1>1, ThreadFrame
<1>3. TypeOK' /\ CountersTyped' /\ CommandsFit' /\ TablesGenuine'
  BY DEF AccessInd, TypeOK, CountersTyped, CommandsFit, TablesGenuine, Genuine, shellVars
<1>. QED BY <1>2, <1>3 DEF AccessInd

(* A request that ends, however, leaves nothing behind.                     *)
LEMMA EndKeeps ==
    ASSUME AccessInd, NEW t \in Threads, End(t), UNCHANGED shellVars, UNCHANGED <<clock, cache>>
    PROVE  AccessInd'
<1>1. /\ where' \in [Threads -> {"idle", "auth", "token", "sign", "sent"}]
      /\ ask' \in [Threads -> Attempts \cup {None}]
      /\ who' \in [Threads -> Users \cup {None}]
      /\ token' \in [Threads -> Tokens \cup {None}]
      /\ seen' \in [Threads -> Nat]
  BY DEF End, AccessInd, TypeOK, CountersTyped
<1>2. /\ \A u \in Threads : u # t => SameThread(u)
      /\ where'[t] = "idle" /\ ask'[t] = None /\ who'[t] = None /\ token'[t] = None
  BY DEF End, AccessInd, TypeOK, CountersTyped, SameThread
<1>3. ThreadOK(t)'
  BY <1>2 DEF ThreadOK, InTime, SpeaksFor
<1>4. cache' \in [Users -> Entries \cup {None}] /\ CacheFits'
  BY DEF AccessInd, TypeOK, CacheFits
<1>. QED BY <1>1, <1>2, <1>3, <1>4, ThreadStep

(* A request arrives.                                                       *)
LEMMA ArriveKeeps ==
    ASSUME AccessInd, NEW t \in Threads, NEW q \in Attempts, Arrive(t, q), UNCHANGED shellVars
    PROVE  AccessInd'
<1>1. /\ where' \in [Threads -> {"idle", "auth", "token", "sign", "sent"}]
      /\ ask' \in [Threads -> Attempts \cup {None}]
      /\ UNCHANGED <<who, seen, token, clock, cache>>
  BY DEF Arrive, AccessInd, TypeOK
<1>2. /\ \A u \in Threads : u # t => SameThread(u)
      /\ where[t] = "idle" /\ where'[t] = "auth" /\ ask'[t] = q /\ q # None
  BY <1>1, AttemptsTyped DEF Arrive, AccessInd, TypeOK, SameThread
<1>3. ThreadOK(t)'
  BY <1>1, <1>2 DEF ThreadOK, InTime, SpeaksFor, AccessInd
<1>4. cache' \in [Users -> Entries \cup {None}] /\ CacheFits' /\ who' \in [Threads -> Users \cup {None}]
      /\ token' \in [Threads -> Tokens \cup {None}] /\ seen' \in [Threads -> Nat]
  BY <1>1 DEF AccessInd, TypeOK, CacheFits, CountersTyped
<1>. QED BY <1>1, <1>2, <1>3, <1>4, ThreadStep

(* The file that verifies a PAT names the user it was issued for.           *)
LEMMA AuthenticateKeeps ==
    ASSUME AccessInd, NEW t \in Threads, Authenticate(t), UNCHANGED shellVars
    PROVE  AccessInd'
<1>1. CASE End(t)
  BY <1>1, EndKeeps DEF Authenticate
<1>2. CASE ~End(t)
  <2>1. /\ where[t] = "auth" /\ file \notin Unreadable /\ Verifies(ask[t].name, ask[t].pat)
        /\ where' = [where EXCEPT ![t] = "token"]
        /\ who' = [who EXCEPT ![t] = file[ask[t].name].user]
        /\ UNCHANGED <<ask, seen, token, clock, cache>>
    BY <1>2 DEF Authenticate
  <2>2. ask[t] \in Attempts /\ ask[t].name \in Names /\ file \in Tables
    BY <2>1, AttemptsTyped DEF AccessInd, ThreadOK, TypeOK
  <2>3. file[ask[t].name] \in Accesses /\ file[ask[t].name].user \in Users
    BY <2>1, <2>2 DEF Verifies, Tables, Accesses
  <2>4. /\ where' \in [Threads -> {"idle", "auth", "token", "sign", "sent"}]
        /\ who' \in [Threads -> Users \cup {None}]
        /\ \A u \in Threads : u # t => SameThread(u)
        /\ where'[t] = "token" /\ who'[t] = file[ask[t].name].user /\ who'[t] # None
    BY <2>1, <2>3, MarksDiffer DEF AccessInd, TypeOK, SameThread
  <2>5. Genuine(file)
    BY <2>1 DEF AccessInd, TablesGenuine
  <2>6. /\ ask[t].pat \in 1 .. drawn
        /\ issued[ask[t].pat] = [name |-> ask[t].name, user |-> who'[t]]
    BY <2>1, <2>2, <2>4, <2>5 DEF Genuine, Verifies
  <2>7. ThreadOK(t)'
    <3>1. drawn' = drawn /\ issued' = issued
      BY DEF shellVars
    <3>. QED BY <2>1, <2>4, <2>6, <3>1 DEF ThreadOK, InTime, SpeaksFor, AccessInd
  <2>8. cache' \in [Users -> Entries \cup {None}] /\ CacheFits' /\ ask' \in [Threads -> Attempts \cup {None}]
        /\ token' \in [Threads -> Tokens \cup {None}] /\ seen' \in [Threads -> Nat]
    BY <2>1 DEF AccessInd, TypeOK, CacheFits, CountersTyped
  <2>. QED BY <2>1, <2>4, <2>7, <2>8, ThreadStep
<1>. QED BY <1>1, <1>2

(* A cached token is this user's, with more than the buffer to live.        *)
LEMMA LookUpKeeps ==
    ASSUME AccessInd, NEW t \in Threads, LookUp(t), UNCHANGED shellVars
    PROVE  AccessInd'
<1> DEFINE c == Cached(who[t])
<1>1. /\ where[t] = "token" /\ who[t] \in Users
      /\ seen' = [seen EXCEPT ![t] = clock] /\ token' = [token EXCEPT ![t] = c]
      /\ where' = [where EXCEPT ![t] = IF c = None THEN "sign" ELSE "sent"]
      /\ UNCHANGED <<ask, who, clock, cache>>
  BY DEF LookUp, AccessInd, ThreadOK, TypeOK
<1>2. /\ c \in Tokens \cup {None}
      /\ c # None => c \in Tokens /\ c.sub = who[t] /\ c.exp + Second > clock + Buffer
  <2>1. CASE c = None
    BY <2>1
  <2> DEFINE entry == cache[who[t]]
  <2>2. CASE c # None
    <3>1. entry # None /\ entry.until > clock + Buffer /\ c = entry.token
      BY <2>2 DEF Cached
    <3>2. entry \in Entries /\ entry.token.sub = who[t] /\ entry.until < entry.token.exp + Second
      BY <1>1, <3>1 DEF AccessInd, TypeOK, CacheFits
    <3>3. /\ entry.token \in Tokens /\ entry.until \in Nat /\ entry.token.exp \in Nat
          /\ clock \in Nat /\ Buffer \in Nat /\ Second \in Nat
      BY <3>2, TimesFit DEF Entries, Tokens, AccessInd, CountersTyped
    <3>. QED BY <3>1, <3>2, <3>3
  <2>. QED BY <2>1, <2>2
<1>3. /\ where' \in [Threads -> {"idle", "auth", "token", "sign", "sent"}]
      /\ token' \in [Threads -> Tokens \cup {None}] /\ seen' \in [Threads -> Nat]
      /\ \A u \in Threads : u # t => SameThread(u)
      /\ where'[t] = (IF c = None THEN "sign" ELSE "sent") /\ token'[t] = c /\ seen'[t] = clock
  BY <1>1, <1>2 DEF AccessInd, TypeOK, CountersTyped, SameThread
<1>4. InTime(t)'
  <2>1. clock \in Nat /\ Travel \in Nat
    BY TimesFit DEF AccessInd, CountersTyped
  <2>. QED BY <1>1, <1>2, <1>3, <2>1 DEF InTime
<1>5. SpeaksFor(t)'
  <2>1. drawn' = drawn /\ issued' = issued
    BY DEF shellVars
  <2>. QED BY <1>1, <1>2, <1>3, <2>1 DEF AccessInd, ThreadOK, SpeaksFor
<1>6. ThreadOK(t)'
  BY <1>1, <1>3, <1>4, <1>5 DEF AccessInd, ThreadOK
<1>7. cache' \in [Users -> Entries \cup {None}] /\ CacheFits' /\ ask' \in [Threads -> Attempts \cup {None}]
      /\ who' \in [Threads -> Users \cup {None}]
  BY <1>1 DEF AccessInd, TypeOK, CacheFits
<1>. QED BY <1>1, <1>3, <1>6, <1>7, ThreadStep

(* A new token is this user's, and lives from the time looked up.           *)
LEMMA SignKeeps ==
    ASSUME AccessInd, NEW t \in Threads, Sign(t), UNCHANGED shellVars
    PROVE  AccessInd'
<1> DEFINE new == [sub |-> who[t], exp |-> WholeSeconds(seen[t]) + TTL]
           entry == [token |-> new, until |-> seen[t] + TTL]
<1>1. /\ where[t] = "sign" /\ who[t] \in Users
      /\ token' = [token EXCEPT ![t] = new] /\ cache' = [cache EXCEPT ![who[t]] = entry]
      /\ where' = [where EXCEPT ![t] = "sent"]
      /\ UNCHANGED <<ask, who, seen, clock>>
  BY DEF Sign, AccessInd, ThreadOK, TypeOK
<1>2. /\ new \in Tokens /\ new # None /\ new.sub = who[t] /\ new.exp + Second > seen[t] + Buffer
      /\ entry \in Entries /\ entry.token = new /\ entry.until < new.exp + Second
  <2>1. /\ seen[t] \in Nat /\ TTL \in Nat /\ Buffer \in Nat /\ Buffer < TTL /\ Second \in Nat
        /\ WholeSeconds(seen[t]) \in Nat /\ seen[t] < WholeSeconds(seen[t]) + Second
    BY TimesFit, WholeSecondsClose DEF AccessInd, CountersTyped
  <2>2. new \in Tokens /\ new.sub = who[t] /\ new.exp = WholeSeconds(seen[t]) + TTL
    BY <1>1, <2>1 DEF Tokens
  <2>3. new # None
    BY <2>2, NoneIsNoToken
  <2>4. entry.until = seen[t] + TTL /\ entry.token = new
    OBVIOUS
  <2> HIDE DEF new
  <2>5. entry \in Entries
    BY <2>1, <2>2 DEF Entries
  <2> HIDE DEF entry
  <2>. QED BY <2>1, <2>2, <2>3, <2>4, <2>5
<1>3. /\ where' \in [Threads -> {"idle", "auth", "token", "sign", "sent"}]
      /\ token' \in [Threads -> Tokens \cup {None}]
      /\ cache' \in [Users -> Entries \cup {None}]
      /\ \A u \in Threads : u # t => SameThread(u)
      /\ where'[t] = "sent" /\ token'[t] = new
  BY <1>1, <1>2 DEF AccessInd, TypeOK, SameThread
<1>4. CacheFits'
  <2> HIDE DEF entry, new
  <2>1. cache'[who[t]] = entry
    BY <1>1 DEF AccessInd, TypeOK
  <2>2. \A u \in Users : u # who[t] => cache'[u] = cache[u]
    BY <1>1 DEF AccessInd, TypeOK
  <2>3. CacheFits
    BY DEF AccessInd
  <2>. QED BY <1>2, <2>1, <2>2, <2>3 DEF CacheFits
<1>5. InTime(t)'
  BY <1>1, <1>2, <1>3 DEF AccessInd, ThreadOK, InTime
<1>6. SpeaksFor(t)'
  <2>1. drawn' = drawn /\ issued' = issued
    BY DEF shellVars
  <2>. QED BY <1>1, <1>2, <1>3, <2>1 DEF AccessInd, ThreadOK, SpeaksFor
<1>7. ThreadOK(t)'
  BY <1>1, <1>2, <1>3, <1>5, <1>6 DEF AccessInd, ThreadOK
<1>8. ask' \in [Threads -> Attempts \cup {None}] /\ who' \in [Threads -> Users \cup {None}]
      /\ seen' \in [Threads -> Nat]
  BY <1>1 DEF AccessInd, TypeOK, CountersTyped
<1>. QED BY <1>1, <1>3, <1>4, <1>7, <1>8, ThreadStep

(* Time goes on as long as no call is on its way for longer than Travel.    *)
LEMMA TickKeeps ==
    ASSUME AccessInd, Tick, UNCHANGED shellVars
    PROVE  AccessInd'
<1>1. clock' = clock + 1 /\ clock \in Nat /\ UNCHANGED <<cache, where, ask, who, seen, token>>
  BY DEF Tick, threadVars, AccessInd, CountersTyped
<1>2. ASSUME NEW t \in Threads PROVE ThreadOK(t)'
  <2>1. seen[t] \in Nat /\ Travel \in Nat
    BY TimesFit DEF AccessInd, CountersTyped
  <2>2. InTime(t)'
    BY <1>1, <2>1 DEF AccessInd, ThreadOK, InTime, Tick
  <2>3. SpeaksFor(t)'
    BY <1>1 DEF AccessInd, ThreadOK, SpeaksFor, shellVars
  <2>. QED BY <1>1, <2>2, <2>3 DEF AccessInd, ThreadOK
<1>3. TypeOK' /\ CountersTyped' /\ CommandsFit' /\ TablesGenuine' /\ CacheFits'
  BY <1>1 DEF AccessInd, TypeOK, CountersTyped, CommandsFit, TablesGenuine, Genuine, CacheFits, shellVars
<1>. QED BY <1>2, <1>3 DEF AccessInd

(* A server that is started again knows nothing.                            *)
LEMMA RestartKeeps ==
    ASSUME AccessInd, Restart, UNCHANGED shellVars
    PROVE  AccessInd'
<1>1. \A t \in Threads : where'[t] = "idle" /\ ask'[t] = None /\ who'[t] = None /\ token'[t] = None
  BY DEF Restart
<1>2. \A t \in Threads : ThreadOK(t)'
  BY <1>1 DEF ThreadOK, InTime, SpeaksFor
<1>3. TypeOK' /\ CountersTyped' /\ CommandsFit' /\ TablesGenuine' /\ CacheFits'
  BY DEF Restart, AccessInd, TypeOK, CountersTyped, CommandsFit, TablesGenuine, Genuine, CacheFits, shellVars
<1>. QED BY <1>2, <1>3 DEF AccessInd

-----------------------------------------------------------------------------
(* Commands.                                                                *)

(* Fields of a command.                                                     *)
LEMMA CommandTyped ==
    ASSUME NEW r \in Menu
    PROVE  /\ r \in Commands /\ r # None
           /\ r.op \in {"create", "rotate", "revoke", "list"}
           /\ r.op # "list" => r.name \in Names
           /\ r.op = "create" => r.user \in Users
BY ShellsTyped, MarksDiffer DEF Commands

(* A table changed by a command is a table.                                 *)
LEMMA ChangedTyped ==
    ASSUME NEW r \in Menu, r.op # "list", NEW table \in Tables, NEW n \in Nat,
           r.op = "rotate" => table[r.name] # None
    PROVE  /\ Changed(r, table, n) \in Tables
           /\ \A m \in Names : m # r.name => Changed(r, table, n)[m] = table[m]
           /\ Draws(r) => Changed(r, table, n)[r.name] =
                 [user |-> IF r.op = "create" THEN r.user ELSE table[r.name].user, pat |-> n]
           /\ r.op = "revoke" => Changed(r, table, n)[r.name] = None
<1>1. r.name \in Names /\ r.op \in {"create", "rotate", "revoke"} /\ table \in [Names -> Accesses \cup {None}]
  BY CommandTyped DEF Tables
<1>2. CASE r.op = "create"
  <2>1. [user |-> r.user, pat |-> n] \in Accesses
    BY <1>2, CommandTyped DEF Accesses
  <2>. QED BY <1>1, <1>2, <2>1 DEF Changed, Tables, Draws
<1>3. CASE r.op = "rotate"
  <2>1. table[r.name] \in [user: Users, pat: Nat]
    BY <1>1, <1>3 DEF Accesses
  <2>2. Changed(r, table, n) = [table EXCEPT ![r.name] = [table[r.name] EXCEPT !.pat = n]]
    BY <1>3 DEF Changed
  <2>3. [table[r.name] EXCEPT !.pat = n] = [user |-> table[r.name].user, pat |-> n]
    BY <2>1
  <2>4. [table[r.name] EXCEPT !.pat = n] \in Accesses
    BY <2>1 DEF Accesses
  <2>. QED BY <1>1, <1>3, <2>2, <2>3, <2>4 DEF Tables, Draws
<1>4. CASE r.op = "revoke"
  BY <1>1, <1>4 DEF Changed, Tables, Draws
<1>. QED BY <1>1, <1>2, <1>3, <1>4

(* A command of the menu is under way wherever none is idle.                *)
LEMMA CommandGiven ==
    ASSUME AccessInd, NEW s \in Shells, at[s] # "idle"
    PROVE  cmd[s] \in Menu
BY DEF AccessInd, TypeOK, CommandsFit

(* Steps of commands that draw no PAT keep the invariant if what they leave *)
(* in the file was there, or in their copy.                                 *)
LEMMA QuietCommand ==
    ASSUME AccessInd, UNCHANGED bridgeVars, UNCHANGED <<drawn, issued>>, NEW s \in Shells,
           at' \in [Shells -> {"idle", "load", "save", "write"}],
           cmd' \in [Shells -> Menu \cup {None}],
           mem' \in [Shells -> Tables \cup {None}],
           CommandsFit',
           \A u \in Shells : mem'[u] # None => mem'[u] = mem[u],
           file' \in {file} \cup Unreadable \cup ({mem[s]} \ {None})
    PROVE  AccessInd'
<1>1. IssuedGrows /\ clock' = clock
  BY DEF AccessInd, CountersTyped, IssuedGrows, bridgeVars
<1>2. \A t \in Threads : ThreadOK(t)'
  BY <1>1, ThreadFrame DEF SameThread, bridgeVars, threadVars
<1>3. file' \in Tables \cup Unreadable
  BY DEF AccessInd, TypeOK
<1>4. TypeOK' /\ CountersTyped' /\ CacheFits'
  BY <1>3 DEF AccessInd, TypeOK, CountersTyped, CacheFits, bridgeVars, threadVars
<1>5. TablesGenuine'
  <2>1. \A table : Genuine(table) => (\A n \in Names :
              table[n] # None =>
                 /\ table[n].pat \in 1 .. drawn'
                 /\ issued'[table[n].pat] = [name |-> n, user |-> table[n].user])
    BY DEF Genuine
  <2>2. file' \notin Unreadable => Genuine(file')
    BY DEF AccessInd, TablesGenuine
  <2>3. \A u \in Shells : mem'[u] # None => Genuine(mem'[u])
    BY DEF AccessInd, TablesGenuine
  <2>. QED BY <2>1, <2>2, <2>3 DEF TablesGenuine, Genuine
<1>. QED BY <1>2, <1>4, <1>5 DEF AccessInd
(* Commands start, fail, end or open the file.                              *)
LEMMA OtherCommandsKeep ==
    ASSUME AccessInd, UNCHANGED bridgeVars, NEW s \in Shells,
           \/ \E r \in Menu : Start(s, r)
           \/ LoadOnly(s) \/ Truncate(s) \/ WriteText(s) \/ Fail(s)
    PROVE  AccessInd'
<1>1. /\ at \in [Shells -> {"idle", "load", "save", "write"}]
      /\ cmd \in [Shells -> Menu \cup {None}]
      /\ mem \in [Shells -> Tables \cup {None}]
      /\ CommandsFit
  BY DEF AccessInd, TypeOK
<1>2. ASSUME Exit(s), UNCHANGED <<drawn, issued>>, file' \in {file} \cup Unreadable \cup ({mem[s]} \ {None})
      PROVE  AccessInd'
  <2>1. /\ at' \in [Shells -> {"idle", "load", "save", "write"}]
        /\ cmd' \in [Shells -> Menu \cup {None}]
        /\ mem' \in [Shells -> Tables \cup {None}]
        /\ at'[s] = "idle" /\ cmd'[s] = None /\ mem'[s] = None
        /\ \A u \in Shells : u # s => at'[u] = at[u] /\ cmd'[u] = cmd[u] /\ mem'[u] = mem[u]
    BY <1>1, <1>2 DEF Exit
  <2>2. CommandsFit'
    BY <1>1, <2>1 DEF CommandsFit
  <2>. QED BY <1>2, <2>1, <2>2, QuietCommand
<1>3. ASSUME NEW r \in Menu, Start(s, r) PROVE AccessInd'
  <2>1. /\ at[s] = "idle" /\ at' = [at EXCEPT ![s] = "load"] /\ cmd' = [cmd EXCEPT ![s] = r]
        /\ UNCHANGED <<file, mem, drawn, issued>> /\ r # None
    BY <1>3, CommandTyped DEF Start
  <2>2. CommandsFit'
    BY <1>1, <2>1 DEF CommandsFit
  <2>. QED BY <1>1, <2>1, <2>2, QuietCommand
<1>4. ASSUME Truncate(s) PROVE AccessInd'
  <2>1. /\ at[s] = "save" /\ at' = [at EXCEPT ![s] = "write"] /\ file' \in Unreadable
        /\ UNCHANGED <<cmd, mem, drawn, issued>>
    BY <1>4 DEF Truncate, Unreadable
  <2>2. CommandsFit'
    BY <1>1, <2>1 DEF CommandsFit
  <2>. QED BY <1>1, <2>1, <2>2, QuietCommand
<1>5. ASSUME LoadOnly(s) PROVE AccessInd'
  BY <1>2, <1>5 DEF LoadOnly
<1>6. ASSUME WriteText(s) \/ Fail(s) PROVE AccessInd'
  <2>1. mem[s] # None
    BY <1>1, <1>6 DEF WriteText, Fail, CommandsFit
  <2>. QED BY <1>2, <1>6, <2>1 DEF WriteText, Fail, Unreadable
<1>. QED BY <1>3, <1>4, <1>5, <1>6

(* The step in which a PAT is drawn: for the name and the user at which it  *)
(* then stands in the command's copy.                                       *)
LEMMA LoadAndChangeKeeps ==
    ASSUME AccessInd, UNCHANGED bridgeVars, NEW s \in Shells, LoadAndChange(s)
    PROVE  AccessInd'
<1> DEFINE r == cmd[s]
           n == IF Draws(r) THEN drawn + 1 ELSE drawn
           table == Changed(r, file, n)
           holder == [name |-> r.name, user |-> IF r.op = "create" THEN r.user ELSE file[r.name].user]
<1>1. /\ at[s] = "load" /\ file \notin Unreadable /\ r.op # "list"
      /\ r.op = "rotate" => file[r.name] # None
      /\ mem' = [mem EXCEPT ![s] = table] /\ at' = [at EXCEPT ![s] = "save"] /\ drawn' = n
      /\ issued' = IF Draws(r) THEN [m \in 1 .. n |-> IF m <= drawn THEN issued[m] ELSE holder]
                   ELSE issued
      /\ UNCHANGED <<file, cmd>>
  BY DEF LoadAndChange
<1>2. /\ r \in Menu /\ r.name \in Names /\ file \in Tables /\ drawn \in Nat /\ n \in Nat
      /\ issued \in [1 .. drawn -> Holders]
  BY <1>1, CommandGiven, CommandTyped DEF AccessInd, TypeOK, CountersTyped
<1>3. /\ table \in Tables
      /\ \A m \in Names : m # r.name => table[m] = file[m]
      /\ Draws(r) => table[r.name] = [user |-> holder.user, pat |-> n]
      /\ ~Draws(r) => table[r.name] = None
  <2>1. r.op \in {"create", "rotate", "revoke"}
    BY <1>1, <1>2, CommandTyped
  <2>2. r.op = "rotate" => file[r.name] # None
    BY <1>1
  <2> HIDE DEF n
  <2>3. /\ Changed(r, file, n) \in Tables
        /\ \A m \in Names : m # r.name => Changed(r, file, n)[m] = file[m]
        /\ Draws(r) => Changed(r, file, n)[r.name] =
              [user |-> IF r.op = "create" THEN r.user ELSE file[r.name].user, pat |-> n]
        /\ r.op = "revoke" => Changed(r, file, n)[r.name] = None
    BY <1>1, <1>2, <2>2, ChangedTyped
  <2>. QED BY <2>1, <2>3 DEF Draws
<1>4. Draws(r) => holder \in Holders
  <2>1. CASE r.op = "create"
    BY <1>2, <2>1, CommandTyped DEF Holders
  <2>2. CASE r.op = "rotate"
    <3>1. file[r.name] \in Accesses
      BY <1>1, <1>2, <2>2 DEF Tables
    <3>. QED BY <1>2, <2>2, <3>1 DEF Holders, Accesses
  <2>. QED BY <2>1, <2>2 DEF Draws
<1>5. /\ IssuedGrows /\ issued' \in [1 .. drawn' -> Holders]
      /\ Draws(r) => drawn' = drawn + 1 /\ issued'[drawn + 1] = holder
  <2>1. CASE Draws(r)
    <3>1. drawn' = drawn + 1 /\ issued' = [m \in 1 .. drawn + 1 |-> IF m <= drawn THEN issued[m] ELSE holder]
      BY <1>1, <2>1
    <3> HIDE DEF holder
    <3>2. issued' \in [1 .. drawn' -> Holders]
      BY <1>2, <1>4, <2>1, <3>1
    <3>3. issued'[drawn + 1] = holder /\ \A m \in 1 .. drawn : issued'[m] = issued[m]
      BY <1>2, <3>1
    <3>. QED BY <1>2, <3>1, <3>2, <3>3 DEF IssuedGrows
  <2>2. CASE ~Draws(r)
    BY <1>1, <1>2, <2>2 DEF IssuedGrows
  <2>. QED BY <2>1, <2>2
<1>6. \A t \in Threads : ThreadOK(t)'
  <2>1. clock' = clock /\ \A t \in Threads : SameThread(t)
    BY DEF bridgeVars, threadVars, SameThread
  <2>. QED BY <1>5, <2>1, ThreadFrame
<1>7. /\ \A u \in Shells : u # s => mem'[u] = mem[u] /\ at'[u] = at[u]
      /\ mem'[s] = table /\ at'[s] = "save" /\ table # None
  <2> HIDE DEF table
  <2>. QED BY <1>1, <1>3, MarksDiffer DEF AccessInd, TypeOK
<1>8. TypeOK' /\ CountersTyped' /\ CacheFits'
  <2> HIDE DEF table, n
  <2>1. mem' \in [Shells -> Tables \cup {None}] /\ at' \in [Shells -> {"idle", "load", "save", "write"}]
    BY <1>1, <1>3 DEF AccessInd, TypeOK
  <2>2. drawn' \in Nat
    BY <1>1, <1>2
  <2>. QED BY <1>1, <1>5, <2>1, <2>2 DEF AccessInd, TypeOK, CountersTyped, CacheFits, bridgeVars, threadVars
<1>9. CommandsFit'
  <2> HIDE DEF table
  <2>. QED BY <1>1, <1>2, <1>7, CommandTyped DEF AccessInd, CommandsFit
<1>10. Genuine(file) /\ \A u \in Shells : mem[u] # None => Genuine(mem[u])
  BY <1>1 DEF AccessInd, TablesGenuine
<1>11. ASSUME NEW T, Genuine(T)
       PROVE  \A m \in Names :
                 T[m] # None =>
                    /\ T[m].pat \in 1 .. drawn'
                    /\ issued'[T[m].pat] = [name |-> m, user |-> T[m].user]
  BY <1>2, <1>5, <1>11, GenuineFrame
<1>12. ASSUME NEW m \in Names, table[m] # None
       PROVE  /\ table[m].pat \in 1 .. drawn'
              /\ issued'[table[m].pat] = [name |-> m, user |-> table[m].user]
  <2> HIDE DEF table
  <2>1. CASE m # r.name
    BY <1>3, <1>10, <1>11, <1>12, <2>1
  <2>2. CASE m = r.name
    <3>1. Draws(r) /\ n = drawn + 1 /\ table[m] = [user |-> holder.user, pat |-> n]
      BY <1>3, <1>12, <2>2
    <3>2. drawn' = n /\ issued'[n] = holder /\ n \in 1 .. n
      BY <1>2, <1>5, <3>1
    <3>. QED BY <2>2, <3>1, <3>2
  <2>. QED BY <2>1, <2>2
<1>13. TablesGenuine'
  <2> HIDE DEF table
  <2>1. file' \notin Unreadable => Genuine(file)'
    BY <1>1, <1>10, <1>11 DEF Genuine
  <2>2. ASSUME NEW u \in Shells, mem'[u] # None PROVE Genuine(mem[u])'
    <3>1. CASE u = s
      BY <1>7, <1>12, <3>1 DEF Genuine
    <3>2. CASE u # s
      BY <1>7, <1>10, <1>11, <2>2, <3>2 DEF Genuine
    <3>. QED BY <3>1, <3>2
  <2>. QED BY <2>1, <2>2 DEF TablesGenuine
<1>. QED BY <1>6, <1>8, <1>9, <1>13 DEF AccessInd

-----------------------------------------------------------------------------
(* The invariant from start to end.                                         *)

(* The PATs of the initial table are each one person's.                     *)
LEMMA InitialHolders ==
    ASSUME NEW m \in Names, Initial[m] # None
    PROVE  /\ Initial[m].pat \in 1 .. InitiallyDrawn
           /\ HolderOf(Initial[m].pat) = [name |-> m, user |-> Initial[m].user]
<1>1. Initial[m] \in Accesses /\ Initial[m].pat \in 1 .. InitiallyDrawn
  BY PatsOfInitial, TableTyped DEF Tables
<1> DEFINE Fits(h) == Initial[h.name] # None /\ Initial[h.name] = [user |-> h.user, pat |-> Initial[m].pat]
           own == [name |-> m, user |-> Initial[m].user]
<1>2. own \in Holders /\ Fits(own)
  BY <1>1 DEF Holders, Accesses
<1>3. ASSUME NEW h \in Holders, Fits(h) PROVE h = own
  <2>1. h.name \in Names /\ h = [name |-> h.name, user |-> h.user]
    BY DEF Holders
  <2>2. h.name = m
    BY <1>3, <2>1, PatsOfInitial
  <2>. QED BY <1>3, <2>1, <2>2
<1>4. (CHOOSE h \in Holders : Fits(h)) = own
  <2> HIDE DEF Fits, own
  <2>. QED BY <1>2, <1>3
<1>. QED BY <1>1, <1>4 DEF HolderOf, Holders

(* And every PAT drawn before has a holder.                                 *)
LEMMA HoldersTyped ==
    ASSUME NEW n \in 1 .. InitiallyDrawn PROVE HolderOf(n) \in Holders
<1>1. PICK m \in Names : Initial[m] # None /\ Initial[m].pat = n
  BY PatsOfInitial
<1>2. Initial[m].user \in Users
  BY <1>1, TableTyped DEF Tables, Accesses
<1>3. HolderOf(n) = [name |-> m, user |-> Initial[m].user]
  BY <1>1, InitialHolders
<1>. QED BY <1>2, <1>3 DEF Holders

(* Nothing is under way at the start.                                       *)
LEMMA AccessInit == Init => AccessInd
<1>. SUFFICES ASSUME Init PROVE AccessInd
  OBVIOUS
<1>1. TypeOK /\ CommandsFit /\ CacheFits
  BY TableTyped DEF Init, ShellInit, TypeOK, CommandsFit, CacheFits
<1>2. CountersTyped
  BY TableTyped, HoldersTyped DEF Init, ShellInit, CountersTyped
<1>3. TablesGenuine
  <2>1. \A s \in Shells : mem[s] = None
    BY DEF Init, ShellInit
  <2>2. Genuine(file)
    BY InitialHolders DEF Init, ShellInit, Genuine
  <2>. QED BY <2>1, <2>2 DEF TablesGenuine
<1>4. \A t \in Threads : ThreadOK(t)
  BY DEF Init, ThreadOK, InTime, SpeaksFor
<1>. QED BY <1>1, <1>2, <1>3, <1>4 DEF AccessInd

(* Every step, of the server or of a command.                               *)
LEMMA AccessNext == AccessInd /\ [Next]_vars => AccessInd'
<1>. SUFFICES ASSUME AccessInd, [Next]_vars PROVE AccessInd'
  OBVIOUS
<1>1. CASE UNCHANGED vars
  BY <1>1 DEF vars, shellVars, bridgeVars, threadVars, AccessInd, TypeOK, CountersTyped, CommandsFit,
     CacheFits, TablesGenuine, Genuine, ThreadOK, InTime, SpeaksFor
<1>2. ASSUME NEW t \in Threads, Serve(t), UNCHANGED shellVars PROVE AccessInd'
  <2>1. ASSUME Judge(t) PROVE AccessInd'
    BY <1>2, <2>1, EndKeeps DEF Judge
  <2>. QED BY <1>2, <2>1, AuthenticateKeeps, LookUpKeeps, SignKeeps DEF Serve
<1>3. ASSUME NEW s \in Shells, Command(s), UNCHANGED bridgeVars PROVE AccessInd'
  BY <1>3, OtherCommandsKeep, LoadAndChangeKeeps DEF Command
<1>. QED BY <1>1, <1>2, <1>3, ArriveKeeps, TickKeeps, RestartKeeps DEF Next

(* The inductive invariant holds always, however many commands run.         *)
THEOREM RequestsKnowTheirUser == Spec => []AccessInd
BY AccessInit, AccessNext, PTL DEF Spec

(* What commands and requests carry fits where they are, and every token    *)
(* arrives before it expires (_TokenCache.get's buffer).                    *)
THEOREM AccessInvariant == Spec => []AccessInv
BY RequestsKnowTheirUser, IndImpliesInv, PTL

(* A call is carried out for the user its PAT was issued for.               *)
LEMMA GrantedSpeaks ==
    ASSUME AccessInd, NEW t \in Threads, GrantedTo(t)
    PROVE  issued[ask[t].pat].name = ask[t].name /\ issued[ask[t].pat].user = token[t].sub
<1>1. ThreadOK(t) /\ where[t] = "sent"
  BY DEF AccessInd, GrantedTo
<1>2. issued[ask[t].pat] = [name |-> ask[t].name, user |-> who[t]] /\ token[t].sub = who[t]
  BY <1>1 DEF ThreadOK, SpeaksFor
<1>. QED BY <1>2

(* A call is carried out for the user the PAT was issued for, whatever      *)
(* other users' tokens pass through the cache and whatever commands run.    *)
THEOREM RightUserAlways == Spec => CallsSpeakForTheirUser
<1>1. AccessInd /\ [Next]_vars =>
         [\A t \in Threads : GrantedTo(t) =>
            /\ issued[ask[t].pat].name = ask[t].name
            /\ issued[ask[t].pat].user = token[t].sub]_vars
  BY GrantedSpeaks
<1>. QED BY <1>1, RequestsKnowTheirUser, PTL DEF Spec, CallsSpeakForTheirUser

-----------------------------------------------------------------------------
(* What the operator is told.  Nothing keeps two commands from loading the  *)
(* same table (the lock of the class is one process's), and the later of    *)
(* two saves then brings back what the earlier removed, so the theorems of  *)
(* this section take one command at a time.                                 *)
OneCommand == \A s, u \in Shells : s = u

(* A table has the PATs the operator believes in, and none that ended.      *)
Believed(table) == \A n \in Names : printed[n] # None => table[n] # None /\ table[n].pat = printed[n]
RidOfEnded(table) == \A n \in Names : table[n] # None => table[n].pat \notin ended

OperatorTyped ==
    /\ printed \in [Names -> Nat \cup {None}]
    /\ ended \subseteq 1 .. drawn
    /\ endedBefore \in [Threads -> SUBSET Nat]

FileTrue == file \notin Unreadable => Believed(file) /\ RidOfEnded(file)

(* A command's copy is true and already has what the operator will be told. *)
CopyTrue(s) ==
    /\ cmd[s] # None /\ cmd[s].op # "list" => printed[cmd[s].name] = None
    /\ mem[s] # None =>
          /\ cmd[s].op # "list"
          /\ Believed(mem[s]) /\ RidOfEnded(mem[s])
          /\ Draws(cmd[s]) <=> mem[s][cmd[s].name] # None

(* No request goes on with a PAT whose end was known when it began.         *)
RequestTrue(t) ==
    /\ endedBefore[t] \subseteq ended
    /\ where[t] \in {"token", "sign", "sent"} => ask[t].pat \notin endedBefore[t]

(* The inductive invariant of the PATs, for one command at a time.          *)
PatsInd ==
    /\ AccessInd /\ OperatorTyped /\ FileTrue
    /\ \A s \in Shells : CopyTrue(s)
    /\ \A t \in Threads : RequestTrue(t)

(* A request is let in by a table without PATs that ended.                  *)
LEMMA RequestsKeepPats ==
    ASSUME PatsInd, UNCHANGED shellVars, AccessInd', NEW t \in Threads,
           Serve(t) \/ \E q \in Attempts : Arrive(t, q)
    PROVE  PatsInd'
<1>0. /\ AccessInd /\ TypeOK /\ OperatorTyped /\ FileTrue /\ ended \subseteq Nat
      /\ \A u \in Threads : RequestTrue(u)
  BY DEF PatsInd, AccessInd, OperatorTyped
<1> DEFINE
      LetIn   == /\ where[t] = "auth" /\ where' = [where EXCEPT ![t] = "token"]
                 /\ file \notin Unreadable /\ Verifies(ask[t].name, ask[t].pat)
                 /\ UNCHANGED <<ask, endedBefore>>
      GoesOn  == /\ where[t] \in {"token", "sign"}
                 /\ \E v \in {"sign", "sent"} : where' = [where EXCEPT ![t] = v]
                 /\ UNCHANGED <<ask, endedBefore>>
      Arrived == /\ where' = [where EXCEPT ![t] = "auth"]
                 /\ \E q \in Attempts : ask' = [ask EXCEPT ![t] = q]
                 /\ endedBefore' = [endedBefore EXCEPT ![t] = ended]
<1>1. End(t) \/ LetIn \/ GoesOn \/ Arrived
  <2>1. ASSUME Authenticate(t) PROVE LetIn \/ End(t)
    BY <2>1 DEF Authenticate
  <2>2. ASSUME LookUp(t) \/ Sign(t) PROVE GoesOn
    BY <2>2 DEF LookUp, Sign
  <2>3. ASSUME NEW q \in Attempts, Arrive(t, q) PROVE Arrived
    BY <2>3 DEF Arrive
  <2>. QED BY <2>1, <2>2, <2>3 DEF Serve, Judge
<1>2. RequestTrue(t)' /\ endedBefore' \in [Threads -> SUBSET Nat]
  <2>0. ended' = ended
    BY DEF shellVars
  <2>1. CASE End(t)
    <3>1. where'[t] = "idle" /\ endedBefore'[t] = {}
      BY <1>0, <2>1 DEF End, TypeOK, OperatorTyped
    <3>. QED BY <1>0, <2>1, <3>1 DEF RequestTrue, End, OperatorTyped
  <2>2. CASE LetIn
    <3>1. ask[t] \in Attempts /\ ask[t].name \in Names
      BY <1>0, <2>2, AttemptsTyped DEF AccessInd, ThreadOK, TypeOK
    <3>2. ask[t].pat \notin ended
      BY <1>0, <2>2, <3>1 DEF FileTrue, RidOfEnded, Verifies
    <3>. QED BY <1>0, <2>0, <2>2, <3>2 DEF RequestTrue, OperatorTyped
  <2>3. CASE GoesOn
    BY <1>0, <2>0, <2>3 DEF RequestTrue, OperatorTyped
  <2>4. CASE Arrived
    <3>1. where'[t] = "auth" /\ endedBefore'[t] = ended
      BY <1>0, <2>4 DEF TypeOK, OperatorTyped
    <3>. QED BY <1>0, <2>0, <2>4, <3>1 DEF RequestTrue, OperatorTyped
  <2>. QED BY <1>1, <2>1, <2>2, <2>3, <2>4
<1>3. ASSUME NEW u \in Threads, u # t PROVE RequestTrue(u)'
  <2>1. where'[u] = where[u] /\ ask'[u] = ask[u] /\ endedBefore'[u] = endedBefore[u]
    BY <1>0, <1>1, <1>3 DEF End, TypeOK, OperatorTyped
  <2>. QED BY <1>0, <2>1 DEF RequestTrue, shellVars
<1>4. OperatorTyped' /\ FileTrue' /\ \A s \in Shells : CopyTrue(s)'
  BY <1>2 DEF PatsInd, OperatorTyped, FileTrue, CopyTrue, Believed, RidOfEnded, shellVars
<1>. QED BY <1>2, <1>3, <1>4 DEF PatsInd

(* Time and a restart of the server let nobody in.                          *)
LEMMA ServerKeepsPats ==
    ASSUME PatsInd, UNCHANGED shellVars, AccessInd', Tick \/ Restart
    PROVE  PatsInd'
<1>1. OperatorTyped' /\ \A t \in Threads : RequestTrue(t)'
  BY DEF PatsInd, OperatorTyped, RequestTrue, Tick, Restart, threadVars, shellVars
<1>2. FileTrue' /\ \A s \in Shells : CopyTrue(s)'
  BY DEF PatsInd, FileTrue, CopyTrue, Believed, RidOfEnded, shellVars
<1>. QED BY <1>1, <1>2 DEF PatsInd

(* Requests under way do not mind that more PATs end.                       *)
LEMMA RequestsFrame ==
    ASSUME PatsInd, UNCHANGED bridgeVars, AccessInd', ended \subseteq ended',
           ended' \subseteq 1 .. drawn', printed' \in [Names -> Nat \cup {None}],
           FileTrue', \A s \in Shells : CopyTrue(s)'
    PROVE  PatsInd'
BY DEF PatsInd, OperatorTyped, RequestTrue, bridgeVars, threadVars

(* A command that ends and tells nothing.                                   *)
LEMMA SilentEnd ==
    ASSUME OneCommand, PatsInd, UNCHANGED bridgeVars, AccessInd', NEW s \in Shells,
           Exit(s), file' \in {file} \cup Unreadable \cup ({mem[s]} \ {None}),
           UNCHANGED <<drawn, issued, printed, ended>>
    PROVE  PatsInd'
<1>1. \A u \in Shells : cmd'[u] = None /\ mem'[u] = None
  BY DEF OneCommand, Exit, PatsInd, AccessInd, TypeOK
<1>2. \A u \in Shells : CopyTrue(u)'
  BY <1>1 DEF CopyTrue
<1>3. FileTrue'
  BY DEF PatsInd, FileTrue, CopyTrue, Believed, RidOfEnded
<1>. QED BY <1>2, <1>3, RequestsFrame DEF PatsInd, OperatorTyped

(* While a command is under way the operator believes nothing of its name.  *)
LEMMA StartKeepsPats ==
    ASSUME OneCommand, PatsInd, UNCHANGED bridgeVars, AccessInd', NEW s \in Shells,
           NEW r \in Menu, Start(s, r)
    PROVE  PatsInd'
<1>1. /\ cmd' = [cmd EXCEPT ![s] = r] /\ UNCHANGED <<file, mem, drawn, issued, ended>>
      /\ printed' = IF r.op = "list" THEN printed ELSE [printed EXCEPT ![r.name] = None]
      /\ at[s] = "idle"
  BY DEF Start
<1>2. /\ printed' \in [Names -> Nat \cup {None}]
      /\ \A n \in Names : printed'[n] # None => printed'[n] = printed[n]
      /\ r.op # "list" => printed'[r.name] = None
  BY <1>1, CommandTyped DEF PatsInd, OperatorTyped
<1>3. FileTrue'
  BY <1>1, <1>2 DEF PatsInd, FileTrue, Believed, RidOfEnded
<1>4. cmd'[s] = r /\ mem'[s] = None
  BY <1>1 DEF PatsInd, AccessInd, TypeOK, CommandsFit
<1>5. \A u \in Shells : CopyTrue(u)'
  BY <1>2, <1>4 DEF OneCommand, CopyTrue
<1>. QED BY <1>1, <1>2, <1>3, <1>5, RequestsFrame DEF PatsInd, OperatorTyped

(* A command that only loads, or fails.                                     *)
LEMMA IdleEndsKeepPats ==
    ASSUME OneCommand, PatsInd, UNCHANGED bridgeVars, AccessInd', NEW s \in Shells,
           LoadOnly(s) \/ Fail(s)
    PROVE  PatsInd'
<1>1. CASE LoadOnly(s)
  BY <1>1, SilentEnd DEF LoadOnly
<1>2. CASE Fail(s)
  <2>1. mem[s] # None
    BY <1>2 DEF Fail, PatsInd, AccessInd, CommandsFit
  <2>. QED BY <1>2, <2>1, SilentEnd DEF Fail, Unreadable
<1>. QED BY <1>1, <1>2

(* The file is opened; the copy stays.                                      *)
LEMMA TruncateKeepsPats ==
    ASSUME PatsInd, UNCHANGED bridgeVars, AccessInd', NEW s \in Shells, Truncate(s)
    PROVE  PatsInd'
<1>1. file' \in Unreadable /\ UNCHANGED <<cmd, mem, drawn, issued, printed, ended>>
  BY DEF Truncate, Unreadable
<1>2. FileTrue' /\ \A u \in Shells : CopyTrue(u)'
  BY <1>1 DEF PatsInd, FileTrue, CopyTrue, Believed, RidOfEnded
<1>. QED BY <1>1, <1>2, RequestsFrame DEF PatsInd, OperatorTyped

(* The copy differs from the file at the command's name only, and a new PAT *)
(* has not ended.                                                           *)
LEMMA LoadAndChangeKeepsPats ==
    ASSUME OneCommand, PatsInd, UNCHANGED bridgeVars, AccessInd', NEW s \in Shells, LoadAndChange(s)
    PROVE  PatsInd'
<1> DEFINE r == cmd[s]
           n == IF Draws(r) THEN drawn + 1 ELSE drawn
           table == Changed(r, file, n)
<1>1. /\ at[s] = "load" /\ file \notin Unreadable /\ r.op # "list"
      /\ r.op = "rotate" => file[r.name] # None
      /\ mem' = [mem EXCEPT ![s] = table] /\ drawn' = n
      /\ UNCHANGED <<file, cmd, printed, ended>>
  BY DEF LoadAndChange
<1>2. /\ r \in Menu /\ r # None /\ r.name \in Names /\ file \in Tables /\ drawn \in Nat /\ n \in Nat
      /\ r.op \in {"create", "rotate", "revoke"} /\ printed[r.name] = None
      /\ Believed(file) /\ RidOfEnded(file) /\ ended \subseteq 1 .. drawn
  BY <1>1, CommandGiven, CommandTyped
  DEF PatsInd, AccessInd, TypeOK, CountersTyped, CopyTrue, FileTrue, OperatorTyped
<1>3. mem'[s] = table
  <2> HIDE DEF table
  <2>. QED BY <1>1 DEF PatsInd, AccessInd, TypeOK
<1>4. /\ \A m \in Names : m # r.name => table[m] = file[m]
      /\ Draws(r) => table[r.name] # None /\ table[r.name].pat = drawn + 1
      /\ ~Draws(r) => table[r.name] = None
  <2>1. r.op = "rotate" => file[r.name] # None
    BY <1>1
  <2> HIDE DEF n
  <2>2. /\ Changed(r, file, n) \in Tables
        /\ \A m \in Names : m # r.name => Changed(r, file, n)[m] = file[m]
        /\ Draws(r) => Changed(r, file, n)[r.name] =
              [user |-> IF r.op = "create" THEN r.user ELSE file[r.name].user, pat |-> n]
        /\ r.op = "revoke" => Changed(r, file, n)[r.name] = None
    BY <1>1, <1>2, <2>1, ChangedTyped
  <2>3. Draws(r) => table[r.name] # None
    <3>1. Draws(r) => table[r.name] \in [user : {IF r.op = "create" THEN r.user ELSE file[r.name].user}, pat : {n}]
      BY <2>2
    <3>2. Draws(r) => table[r.name] \in Accesses
      <4>1. r.op = "create" => r.user \in Users
        BY <1>2, CommandTyped
      <4>2. r.op = "rotate" => file[r.name].user \in Users
        BY <1>2, <2>1 DEF Tables, Accesses
      <4>. QED BY <1>2, <2>2, <4>1, <4>2 DEF Accesses, Draws
    <3>. QED BY <3>2, MarksDiffer
  <2>4. Draws(r) => n = drawn + 1
    BY DEF n
  <2>. QED BY <1>2, <2>2, <2>3, <2>4 DEF Draws
<1>5. Believed(table) /\ RidOfEnded(table)
  <2> HIDE DEF table
  <2>1. Believed(table)
    BY <1>2, <1>4 DEF Believed
  <2>2. drawn + 1 \notin ended
    BY <1>2
  <2>3. RidOfEnded(table)
    BY <1>2, <1>4, <2>2 DEF RidOfEnded
  <2>. QED BY <2>1, <2>3
<1>6. \A u \in Shells : CopyTrue(u)'
  <2> HIDE DEF table
  <2>1. CopyTrue(s)'
    <3>1. cmd'[s] = r /\ printed' = printed /\ ended' = ended
      BY <1>1
    <3>. QED BY <1>1, <1>2, <1>3, <1>4, <1>5, <3>1 DEF CopyTrue, Believed, RidOfEnded
  <2>. QED BY <2>1 DEF OneCommand
<1>7. FileTrue'
  BY <1>1 DEF PatsInd, FileTrue, Believed, RidOfEnded
<1>8. ended' \subseteq 1 .. drawn'
  BY <1>1, <1>2
<1>. QED BY <1>1, <1>6, <1>7, <1>8, RequestsFrame DEF PatsInd, OperatorTyped

(* The PATs that end are the command's name's, all but the one in the copy. *)
LEMMA WriteTextKeepsPats ==
    ASSUME OneCommand, PatsInd, UNCHANGED bridgeVars, AccessInd', NEW s \in Shells, WriteText(s)
    PROVE  PatsInd'
<1> DEFINE r == cmd[s]
           table == mem[s]
<1>1. /\ at[s] = "write" /\ file' \in {table} \cup Unreadable /\ Exit(s) /\ UNCHANGED <<drawn, issued>>
      /\ printed' = IF Draws(r) THEN [printed EXCEPT ![r.name] = table[r.name].pat] ELSE printed
      /\ ended' = ended \cup
            {n \in 1 .. drawn : /\ issued[n].name = r.name
                                /\ Draws(r) => n < table[r.name].pat}
  BY DEF WriteText, Unreadable
<1>2. /\ r \in Menu /\ r.op # "list" /\ r.name \in Names /\ table # None /\ table \in Tables
      /\ Believed(table) /\ RidOfEnded(table) /\ Genuine(table) /\ ended \subseteq 1 .. drawn
      /\ Draws(r) <=> table[r.name] # None
      /\ printed \in [Names -> Nat \cup {None}] /\ printed[r.name] = None
  <2>1. r \in Menu /\ r # None /\ mem[s] # None
    BY <1>1, CommandGiven, CommandTyped DEF PatsInd, AccessInd, CommandsFit
  <2>. QED BY <2>1, CommandTyped
       DEF PatsInd, AccessInd, TypeOK, TablesGenuine, CopyTrue, OperatorTyped
<1>3. ASSUME NEW m \in Names, table[m] # None
      PROVE  table[m].pat \in Nat /\ issued[table[m].pat].name = m
  <2>1. issued[table[m].pat] = [name |-> m, user |-> table[m].user]
    BY <1>2, <1>3 DEF Genuine
  <2>2. table[m] \in Accesses
    BY <1>2, <1>3 DEF Tables
  <2>. QED BY <2>1, <2>2 DEF Accesses
<1> HIDE DEF r, table
<1>4. printed' \in [Names -> Nat \cup {None}]
  BY <1>1, <1>2, <1>3
<1>5. ASSUME NEW m \in Names, printed'[m] # None
      PROVE  table[m] # None /\ table[m].pat = printed'[m]
  <2>1. CASE m = r.name
    BY <1>1, <1>2, <1>5, <2>1
  <2>2. CASE m # r.name
    BY <1>1, <1>2, <1>5, <2>2 DEF Believed
  <2>. QED BY <2>1, <2>2
<1>6. ASSUME NEW m \in Names, table[m] # None PROVE table[m].pat \notin ended'
  <2>. SUFFICES ASSUME issued[table[m].pat].name = r.name, Draws(r) => table[m].pat < table[r.name].pat
                PROVE  FALSE
    BY <1>1, <1>2, <1>6 DEF RidOfEnded
  <2>1. m = r.name /\ Draws(r) /\ table[m].pat \in Nat
    BY <1>2, <1>3, <1>6
  <2>. QED BY <2>1
<1>7. FileTrue'
  <2>1. file' \notin Unreadable => file' = table
    BY <1>1
  <2>. QED BY <1>5, <1>6, <2>1 DEF FileTrue, Believed, RidOfEnded
<1>8. \A u \in Shells : CopyTrue(u)'
  <2>1. \A u \in Shells : cmd'[u] = None /\ mem'[u] = None
    BY <1>1 DEF OneCommand, Exit, PatsInd, AccessInd, TypeOK
  <2>. QED BY <2>1 DEF CopyTrue
<1>9. ended \subseteq ended' /\ ended' \subseteq 1 .. drawn'
  BY <1>1, <1>2
<1>. QED BY <1>4, <1>7, <1>8, <1>9, RequestsFrame

(* At the start the operator knows the file.                                *)
LEMMA PatsInit == Init => PatsInd
<1>. SUFFICES ASSUME Init PROVE PatsInd
  OBVIOUS
<1>1. \A m \in Names : Initial[m] # None => Initial[m] \in Accesses /\ Initial[m].pat \in Nat
  BY TableTyped DEF Tables, Accesses
<1>2. OperatorTyped
  BY <1>1 DEF Init, ShellInit, OperatorTyped
<1>3. FileTrue
  BY DEF Init, ShellInit, FileTrue, Believed, RidOfEnded
<1>4. (\A s \in Shells : CopyTrue(s)) /\ \A t \in Threads : RequestTrue(t)
  BY DEF Init, ShellInit, CopyTrue, RequestTrue
<1>. QED BY <1>2, <1>3, <1>4, AccessInit DEF PatsInd

(* Every step keeps the PATs as the operator was told.                      *)
LEMMA PatsNext == OneCommand /\ PatsInd /\ [Next]_vars => PatsInd'
<1>. SUFFICES ASSUME OneCommand, PatsInd, [Next]_vars PROVE PatsInd'
  OBVIOUS
<1>1. AccessInd'
  BY AccessNext DEF PatsInd
<1>2. CASE UNCHANGED vars
  BY <1>1, <1>2 DEF vars, shellVars, bridgeVars, threadVars, PatsInd, OperatorTyped, FileTrue, CopyTrue,
     RequestTrue, Believed, RidOfEnded
<1>3. ASSUME NEW s \in Shells, Command(s), UNCHANGED bridgeVars PROVE PatsInd'
  BY <1>1, <1>3, StartKeepsPats, IdleEndsKeepPats, LoadAndChangeKeepsPats, TruncateKeepsPats,
     WriteTextKeepsPats DEF Command
<1>. QED BY <1>1, <1>2, <1>3, RequestsKeepPats, ServerKeepsPats DEF Next

(* While commands come one at a time, the file and every command's copy     *)
(* hold what the operator believes in and nothing whose end he was told.    *)
THEOREM OperatorIsToldTheTruth ==
    ASSUME OneCommand
    PROVE  Spec => []PatsInd
BY PatsInit, PatsNext, PTL DEF Spec

(* Once a command confirmed the end of a PAT, no request that begins later  *)
(* is carried out with it, although tokens signed for it are still cached.  *)
THEOREM EndedMeansRefused ==
    ASSUME OneCommand
    PROVE  Spec => EndedPatsOpenNothing
<1>1. PatsInd /\ [Next]_vars =>
         [\A t \in Threads : GrantedTo(t) => ask[t].pat \notin endedBefore[t]]_vars
  BY DEF PatsInd, RequestTrue, GrantedTo
<1>. QED BY <1>1, OperatorIsToldTheTruth, PTL DEF Spec, EndedPatsOpenNothing

(* The PAT a command printed is denied by no file that can be read, until   *)
(* the next command for its name, whatever other commands do or fail to do. *)
THEOREM PrintedMeansAccepted ==
    ASSUME OneCommand
    PROVE  Spec => PrintedPatsWork
<1>1. ASSUME PatsInd, NEW t \in Threads, Denied(t) PROVE printed[ask[t].name] # ask[t].pat
  <2>1. ~Verifies(ask[t].name, ask[t].pat) /\ file \notin Unreadable /\ where[t] = "auth"
    <3>1. /\ Authenticate(t) /\ where'[t] = "idle" /\ file \notin Unreadable
      BY <1>1 DEF Denied
    <3>2. where[t] = "auth" /\ where \in [Threads -> {"idle", "auth", "token", "sign", "sent"}]
      BY <1>1, <3>1 DEF Authenticate, PatsInd, AccessInd, TypeOK
    <3>. QED BY <3>1, <3>2 DEF Authenticate
  <2>2. ask[t] \in Attempts /\ ask[t].name \in Names /\ ask[t].pat \in Nat
    BY <1>1, <2>1, AttemptsTyped DEF PatsInd, AccessInd, ThreadOK, TypeOK
  <2>. QED BY <1>1, <2>1, <2>2, MarksDiffer DEF PatsInd, FileTrue, Believed, Verifies
<1>2. PatsInd /\ [Next]_vars =>
         [\A t \in Threads : Denied(t) => printed[ask[t].name] # ask[t].pat]_vars
  BY <1>1
<1>. QED BY <1>2, OperatorIsToldTheTruth, PTL DEF Spec, PrintedPatsWork
=============================================================================
